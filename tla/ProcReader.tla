----------------------------- MODULE ProcReader -----------------------------
(***************************************************************************)
(* hook_read and hook_pread64 on a tracked descriptor: a thread reads a    *)
(* sensitive file in pieces that the kernel and its own buffer cut         *)
(* anywhere, and each piece goes through the sanitizer on its own before   *)
(* the call returns.                                                       *)
(***************************************************************************)
EXTENDS LineSanitizer

CONSTANT Files    \* the contents a file may have

(* A piece of a file is a buffer a sanitizer is called with. *)
ASSUME FileAssumption ==
  /\ Files \subseteq Seq(Byte)
  /\ \A s \in Files : \A a \in 1 .. Len(s) : \A b \in a .. Len(s) : Bytes(s, a, b) \in Inputs

VARIABLES
  file,       \* the contents of the file; they do not change
  via,        \* the entry point the thread uses: read or pread64
  from,       \* the offset the call in progress reads at
  at,         \* the offset of the next call
  results,    \* history: what the calls have returned
  ended       \* a call has returned zero, which its caller takes for the end

reader == <<file, via, from, at, results, ended>>
reader_vars == <<vars, reader>>

(* The original call delivers n bytes at offset a, and the sanitizer starts. *)
ReaderInit ==
  /\ file \in Files
  /\ via \in {"read", "pread64"}
  /\ f \in Sanitizers
  /\ \E n \in 1 .. Len(file) : input = Bytes(file, 1, n)
  /\ buf = input
  /\ buf_end = Len(input) /\ bytes_read = Len(input)
  /\ pos = 1 /\ line_num = 0 /\ val_end = 0
  /\ returned = FALSE
  /\ src = [i \in 1 .. Len(input) |-> i]
  /\ from = 0 /\ at = 0
  /\ results = << >>
  /\ ended = FALSE

OrigRead(n) ==
  /\ returned /\ ~ended
  /\ input' = Bytes(file, at + 1, at + n)
  /\ buf' = input'
  /\ buf_end' = n /\ bytes_read' = n
  /\ pos' = 1 /\ line_num' = 0 /\ val_end' = 0
  /\ returned' = FALSE
  /\ src' = [i \in 1 .. n |-> i]
  /\ from' = at
  /\ UNCHANGED <<f, file, via, at, results, ended>>

(* bytes_read <= 0: nothing to sanitize *)
OrigReadZero ==
  /\ returned /\ ~ended /\ at = Len(file)
  /\ ended' = TRUE
  /\ UNCHANGED <<vars, file, via, from, at, results>>

Loop == Goes /\ UNCHANGED reader

(* The result of the call that returns in this step *)
Result == [from  |-> from,
           len   |-> Len(input),
           count |-> bytes_read',
           src   |-> [i \in 1 .. bytes_read' |-> src'[i]],
           bytes |-> [i \in 1 .. bytes_read' |-> buf'[i]]]

(* Mutant of Advance: the offsets of the two entry points are swapped. *)
AdvanceSwapped ==
  /\ results' = Append(results, Result)
  /\ at' = from + (IF via = "read" THEN Result.count ELSE Result.len)
  /\ ended' = (Result.count = 0)

(* The kernel has moved the descriptor's offset past what the original read
   delivered; the caller of pread64 counts what it got. *)
Advance ==
  /\ results' = Append(results, Result)
  /\ at' = from + (IF via = "read" THEN Result.len ELSE Result.count)
  /\ ended' = (Result.count = 0)

HookReturn ==
  /\ Returns
  /\ Advance
  /\ UNCHANGED <<file, via, from>>

ReaderNext ==
  \/ \E n \in 1 .. Len(file) - at : OrigRead(n)
  \/ OrigReadZero
  \/ Loop
  \/ HookReturn

ReaderSpec == ReaderInit /\ [][ReaderNext]_reader_vars

(* The thread reads on until a call returns zero. *)
FairReaderSpec == ReaderSpec /\ WF_reader_vars(ReaderNext)

-----------------------------------------------------------------------------
(* Each call, however many turns its loop takes, is one step of the contract. *)
Contract == INSTANCE FilteredReader
ImplementsContract == Contract!Spec

(* Bytes a to c are a line of the file that lies in the window of result r. *)
WholeLine(r, a, c) == IsLine(file, a, c) /\ r.from < a /\ c <= r.from + r.len

(* ... and r's window takes it for a header *)
HeaderIn(r, a) ==
  LineNumber(Bytes(file, r.from + 1, r.from + r.len), a - r.from) < HeaderLines[f]

Delivered(r, a, c) == {i \in a .. c : \E j \in 1 .. r.count : r.from + r.src[j] = i}

(* What a caller gets to see of a line does not depend on how the file is cut
   as long as the line itself is in one piece: a clean line is delivered whole,
   and a dirty one not at all, except that the first lines of a later piece
   pass as headers of the sanitizers that skip some. *)
WholeLinesFiltered ==
  f \in LineSanitizers =>
    \A k \in 1 .. Len(results) : \A a \in 1 .. Len(file) : \A c \in a .. Len(file) :
      LET r == results[k] IN
      WholeLine(r, a, c) =>
        Delivered(r, a, c) = IF KeepsLine(f, file, a, c) \/ HeaderIn(r, a) THEN a .. c ELSE {}

(* m is the first needle of the file within the window of result r, *)
FirstNeedleIn(r, m) ==
  /\ m \in r.from + 1 .. r.from + r.len /\ file[m] = TracerPid
  /\ \A k \in r.from + 1 .. m - 1 : file[k] # TracerPid

(* and byte i of the file is on the rest of its line. *)
OfTracer(r, i) ==
  \E m \in r.from + 1 .. i - 1 : FirstNeedleIn(r, m) /\ \A k \in m + 1 .. i : file[k] # NL

(* The tracer's number does not reach a caller whose piece has the needle,
   wherever the piece is cut: of the line after it the caller gets a zero and
   blanks, also if that is cut off or empty, and of everything else what the
   file has, at its place. *)
TracerHidden ==
  f = "sanitize_status" =>
    \A k \in 1 .. Len(results) :
      LET r == results[k] IN
      /\ r.count = r.len
      /\ \A i \in r.from + 1 .. r.from + r.len :
           r.bytes[i - r.from] = IF FirstNeedleIn(r, i - 1) THEN Zero
                                 ELSE IF OfTracer(r, i) THEN Blank ELSE file[i]

(* A thread that reads on comes to a call that returns zero. *)
ReaderFinishes == <>ended
=============================================================================
