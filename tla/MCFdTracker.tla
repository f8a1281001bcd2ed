---------------------------- MODULE MCFdTracker ----------------------------
(***************************************************************************)
(* FdTracker on two threads, one descriptor the tables have an entry for   *)
(* and one past their end, a sensitive path and a plain one.               *)
(***************************************************************************)
EXTENDS FdTracker, TLC

MCFd == 0 .. 1
MCPaths == {"self_maps", "plain"}
MCHas == [p \in MCPaths |-> IF p = "self_maps" THEN {"/proc/", "/maps"} ELSE {}]

ThreadSymmetry == Permutations(Threads)
=============================================================================
