--------------------------- MODULE FilteredReader ---------------------------
(***************************************************************************)
(* What the hooks on read and pread64 promise to a caller that reads a     *)
(* sensitive file from its start to its end: each call takes a window of   *)
(* the file and yields what the sanitizer leaves of that window, in one    *)
(* step and in order.  How the loop gets there is LineSanitizer.           *)
(***************************************************************************)
EXTENDS LineFilter

VARIABLES
  f,        \* the sanitizer the descriptor selects
  file,     \* the contents of the file
  via,      \* the entry point the caller uses
  at,       \* where the next call reads
  results,  \* what the calls have yielded
  ended     \* a call has returned zero

vars == <<f, file, via, at, results, ended>>

Init == at = 0 /\ results = << >> /\ ended = FALSE

(* r is what a call makes of the n bytes at offset a: where in the window each
   of its bytes is from, and the bytes *)
Yields(r, a, n) ==
  LET window == Bytes(file, a + 1, a + n)
      sent == IF f \in LineSanitizers THEN window ELSE Masked(window)
      kept == IF f \in LineSanitizers THEN KeptBytes(f, window) ELSE 1 .. n
  IN /\ r.from = a /\ r.len = n
     /\ DOMAIN r.src = 1 .. r.count
     /\ DOMAIN r.bytes = 1 .. r.count
     /\ \A i \in 1 .. r.count : r.bytes[i] = sent[r.src[i]]
     /\ \A i, j \in 1 .. r.count : i < j => r.src[i] < r.src[j]
     /\ {r.src[i] : i \in 1 .. r.count} = kept

(* The descriptor's offset moves by what the original call read, a pread64
   caller's by what the hook returned. *)
NextOffset(r) == r.from + (IF via = "read" THEN r.len ELSE r.count)

Read(n) ==
  /\ ~ended
  /\ results' # << >>
  /\ LET r == results'[Len(results')]
     IN /\ results' = Append(results, r)
        /\ Yields(r, at, n)
        /\ at' = NextOffset(r)
        /\ ended' = (r.count = 0)
  /\ UNCHANGED <<f, file, via>>

EndOfFile ==
  /\ at = Len(file) /\ ~ended
  /\ ended' = TRUE
  /\ UNCHANGED <<f, file, via, at, results>>

Next == EndOfFile \/ \E n \in 1 .. Len(file) - at : Read(n)

Spec == Init /\ [][Next]_vars
=============================================================================
