---------------------------- MODULE DetectionLog ----------------------------
(***************************************************************************)
(* The in-memory log of the module app (hook/DetectionLog.kt): newest      *)
(* entry first, at most MAX_ENTRIES of them, and a count of all that were  *)
(* recorded.  record and clear hold the object's monitor, so each is one   *)
(* step.                                                                   *)
(***************************************************************************)
EXTENDS Naturals, Sequences

CONSTANTS Entry,         \* what record is called with
          MAX_ENTRIES    \* 500 in the code

ASSUME MaxAssumption == MAX_ENTRIES \in Nat \ {0}

VARIABLES entries, totalCount,    \* DetectionLog.State
          history                 \* history: all that was recorded since the
                                  \* last clear or restart, newest first

logVars == <<entries, totalCount, history>>

EmptyLog == entries = << >> /\ totalCount = 0 /\ history = << >>

(* Mutant of dropLast: the newest entry goes instead of the oldest. *)
dropFirst(s) == SubSeq(s, 2, Len(s))

dropLast(s) == SubSeq(s, 1, Len(s) - 1)

record(e) ==
  /\ entries' = IF Len(entries) >= MAX_ENTRIES
                THEN <<e>> \o dropLast(entries) ELSE <<e>> \o entries
  /\ totalCount' = totalCount + 1
  /\ history' = <<e>> \o history

clear == entries' = << >> /\ totalCount' = 0 /\ history' = << >>

-----------------------------------------------------------------------------
LogTypeOK ==
  /\ entries \in Seq(Entry)
  /\ totalCount \in Nat
  /\ history \in Seq(Entry)

(* The log is what was recorded most recently: the newest MAX_ENTRIES of the
   recorded entries, in order and with none missing, and their full count. *)
LogIsRecent ==
  /\ Len(entries) = (IF Len(history) < MAX_ENTRIES THEN Len(history) ELSE MAX_ENTRIES)
  /\ \A i \in 1 .. Len(entries) : entries[i] = history[i]
  /\ totalCount = Len(history)
=============================================================================
