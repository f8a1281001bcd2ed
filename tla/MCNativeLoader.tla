--------------------------- MODULE MCNativeLoader ---------------------------
(***************************************************************************)
(* NativeLoader with two threads and two directories: the module's, which  *)
(* has libraries of two ABIs, and the one its libraries are extracted to.  *)
(***************************************************************************)
EXTENDS NativeLoader

MCDirs == {"module", "extracted"}
MCListings == {<< >>, <<"module">>, <<"extracted", "module">>}
MCWorks == {[dir |-> "module", sub |-> "arm64-v8a"], [dir |-> "extracted", sub |-> "native"]}
MCFiles == SUBSET (MCWorks \cup {[dir |-> "module", sub |-> "armeabi-v7a"]})
=============================================================================
