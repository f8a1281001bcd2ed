------------------------------- MODULE Machine -------------------------------
(***************************************************************************)
(* What the models of processors share.  A register holds an address, a    *)
(* value that memory held at an address, or some other value; a code       *)
(* buffer is a function from offsets, in bytes, to instructions and data.  *)
(***************************************************************************)
EXTENDS Integers, Sequences, SequencesExt

Address(a) == [kind |-> "address", v |-> a, width |-> 0]
Loaded(a, width) == [kind |-> "loaded", v |-> a, width |-> width]
Some(n) == [kind |-> "some", v |-> n, width |-> 0]

(* What memory holds at a, where data is what is known of memory *)
Memory(data, a, width) == IF a \in DOMAIN data THEN Address(data[a]) ELSE Loaded(a, width)

(* A bit field of w bits as a number, and the number that a field stands for *)
Field(x, w) == x % 2^w
Signed(x, w) == IF x >= 2^(w - 1) THEN x - 2^w ELSE x

-----------------------------------------------------------------------------
(* Instructions one after the other from an offset on, as a code buffer.  The
   last offset is that of their end. *)
Offsets(insts, at) ==
  LET offset[i \in 1 .. Len(insts) + 1] ==
        IF i = 1 THEN at ELSE offset[i - 1] + insts[i - 1].len
  IN offset

Length(insts) == Offsets(insts, 0)[Len(insts) + 1]

Placed(insts, at) ==
  LET offset == Offsets(insts, at)
  IN [o \in {offset[i] : i \in DOMAIN insts} |-> insts[CHOOSE i \in DOMAIN insts : offset[i] = o]]

(* A buffer over another one *)
Overlay(f, g) == [o \in DOMAIN f \cup DOMAIN g |-> IF o \in DOMAIN f THEN f[o] ELSE g[o]]

(* What is in a buffer takes some bytes. *)
Sized(item) == "len" \in DOMAIN item /\ item.len \in Nat \ {0}

Datum(v, len) == [op |-> "data", len |-> len, v |-> v]

IsData(item) == item.op = "data"
=============================================================================
