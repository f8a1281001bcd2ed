----------------------------- MODULE LineFilter -----------------------------
(***************************************************************************)
(* What the sanitizers of sanitizer.cpp make of a buffer, as definitions   *)
(* without a loop: the line sanitizers leave the header lines and the      *)
(* lines that are not dirty, in their order, and sanitize_status masks a   *)
(* number.  A buffer is a sequence of bytes; a line ends with its newline, *)
(* or with the buffer.                                                     *)
(***************************************************************************)
EXTENDS Naturals, Sequences, FiniteSets

CONSTANTS Byte,          \* the bytes of a buffer
          NL,            \* the newline
          Dirty(_, _),   \* Dirty(f, line): sanitizer f takes the line out
          TracerPid,     \* "TracerPid:\t", taken as one byte
          Zero, Blank    \* '0' and ' '

ASSUME LineAssumption == {NL, TracerPid, Zero, Blank} \subseteq Byte

(* Lines at the start of a buffer that a sanitizer does not look at *)
HeaderLines == [sanitize_maps     |-> 0,
                sanitize_tcp      |-> 1,
                sanitize_mounts   |-> 0,
                sanitize_net_dev  |-> 2,
                sanitize_if_inet6 |-> 0,
                sanitize_route    |-> 1]

LineSanitizers == DOMAIN HeaderLines

(* Bytes a to b of s, a sequence *)
Bytes(s, a, b) == [i \in 1 .. b + 1 - a |-> s[a + i - 1]]

(* Bytes a to b of s are one of its lines *)
IsLine(s, a, b) ==
  /\ a \in 1 .. Len(s) /\ b \in a .. Len(s)
  /\ a = 1 \/ s[a - 1] = NL
  /\ s[b] = NL \/ b = Len(s)
  /\ \A k \in a .. b - 1 : s[k] # NL

(* How many lines precede byte a of s *)
LineNumber(s, a) == Cardinality({k \in 1 .. a - 1 : s[k] = NL})

KeepsLine(f, s, a, b) == LineNumber(s, a) < HeaderLines[f] \/ ~Dirty(f, Bytes(s, a, b))

(* Sanitizer f keeps byte i of s *)
Kept(f, s, i) ==
  \E a \in 1 .. i, b \in i .. Len(s) : IsLine(s, a, b) /\ KeepsLine(f, s, a, b)

KeptBytes(f, s) == {i \in 1 .. Len(s) : Kept(f, s, i)}

(* The first needle of s is at m. *)
FirstNeedle(s, m) == s[m] = TracerPid /\ \A k \in 1 .. m - 1 : s[k] # TracerPid

(* s with a zero after its first needle, and blanks from there to the newline *)
Masked(s) ==
  [i \in 1 .. Len(s) |->
     IF i > 1 /\ FirstNeedle(s, i - 1) THEN Zero
     ELSE IF \E m \in 1 .. i - 1 : FirstNeedle(s, m) /\ \A k \in m + 1 .. i : s[k] # NL
     THEN Blank
     ELSE s[i]]
=============================================================================
