----------------------------- MODULE MCNetlink -----------------------------
(***************************************************************************)
(* Netlink with two threads, an index in the table and one past it.        *)
(***************************************************************************)
EXTENDS Netlink, TLC

MCIdx == 1 .. 2

ThreadSymmetry == Permutations(Threads)
=============================================================================
