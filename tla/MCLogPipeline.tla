--------------------------- MODULE MCLogPipeline ----------------------------
(***************************************************************************)
(* LogPipeline with two apps, a log of two entries and enough broadcasts   *)
(* to fill it and push one entry out.                                      *)
(***************************************************************************)
EXTENDS LogPipeline, TLC

MCEntry == [id : 1 .. MaxSends, pkg : Pkg, method : Method \cup {Loaded}, ts : 0 .. MaxClock]

PkgSymmetry == Permutations(Pkg)
=============================================================================
