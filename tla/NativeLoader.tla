---------------------------- MODULE NativeLoader ----------------------------
(***************************************************************************)
(* NativeLoader.loadIntoProcess: the loadApp blocks of the packages in one *)
(* process, possibly on several threads, each try to load the native       *)
(* library, whose JNI_OnLoad installs the hooks.  The flag loaded keeps    *)
(* all but one out, and a failure lowers it again.                         *)
(***************************************************************************)
EXTENDS Naturals, Sequences, FiniteSets

CONSTANTS
  Thread,
  Dir,         \* directories the library may be in
  NoDir,       \* one that could not be found out
  Listings,    \* what /data/app may list for the module: sequences of Dir
  Files,       \* sets of paths that may exist
  Works,       \* paths with a library this process can load
  Fallback,    \* what System.loadLibrary loads
  MaxCalls,    \* bound: loadApp blocks in the process
  MaxChanges   \* bound: changes of the files

Abis == <<"arm64-v8a", "armeabi-v7a", "x86_64", "x86">>
Path == [dir : Dir, sub : {Abis[k] : k \in 1 .. 4} \cup {"lib", "native"}]

ASSUME LoaderAssumption ==
  /\ NoDir \notin Dir /\ Fallback \notin Path
  /\ Listings \subseteq Seq(Dir)
  /\ Files \subseteq SUBSET Path
  /\ MaxCalls \in Nat /\ MaxChanges \in Nat

VARIABLES
  loaded,      \* the flag
  pc,          \* pc[t]: where t is in loadIntoProcess
  tested,      \* tested[t]: how many paths t has looked at in this call
  paths,       \* paths[t]: the candidates t has still to try
  where,       \* moduleAppFilePath, nativeLibraryDir and /data/app, as t will find them
  present,     \* the files that exist and can be read
  bundled,     \* System.loadLibrary finds the library
  calm,        \* files stay, and nothing but UnsatisfiedLinkError is thrown
  libs,        \* libraries whose JNI_OnLoad has run in this process
  calls, changes

env == <<where, bundled, calm>>
vars == <<loaded, pc, tested, paths, where, present, bundled, calm, libs, calls, changes>>

Init ==
  /\ loaded = FALSE
  /\ pc = [t \in Thread |-> "idle"]
  /\ tested = [t \in Thread |-> 0]
  /\ paths = [t \in Thread |-> << >>]
  /\ where \in [module : Dir \cup {NoDir}, native : Dir \cup {NoDir}, apps : Listings]
  /\ present \in Files
  /\ bundled \in BOOLEAN
  /\ calm \in BOOLEAN
  /\ libs = {}
  /\ calls = 0 /\ changes = 0

-----------------------------------------------------------------------------
In(d, s) == [dir |-> d, sub |-> s]
AbiPaths(d) == [k \in 1 .. 4 |-> In(d, Abis[k])]

ModulePaths ==
  IF where.module = NoDir THEN << >>
  ELSE AbiPaths(where.module) \o <<In(where.module, "lib")>>

NativePaths == IF where.native = NoDir THEN << >> ELSE <<In(where.native, "native")>>

(* The ABI directories of each listed directory in turn *)
AppPaths == [k \in 1 .. 4 * Len(where.apps) |->
               In(where.apps[1 + (k - 1) \div 4], Abis[1 + ((k - 1) % 4)])]

(* collectCandidatePaths, before it looks which of them exist *)
AllPaths == ModulePaths \o NativePaths \o AppPaths

-----------------------------------------------------------------------------
(* Mutant of Enter: the flag is read and not set. *)
EnterUnset(t) ==
  /\ pc[t] = "idle" /\ calls < MaxCalls
  /\ calls' = calls + 1
  /\ pc' = IF loaded THEN pc ELSE [pc EXCEPT ![t] = "collect"]
  /\ UNCHANGED <<env, loaded, tested, paths, present, libs, changes>>

(* A loadApp block reaches loadIntoProcess: loaded.getAndSet(true). *)
Enter(t) ==
  /\ pc[t] = "idle" /\ calls < MaxCalls
  /\ calls' = calls + 1
  /\ loaded' = TRUE
  /\ pc' = IF loaded THEN pc ELSE [pc EXCEPT ![t] = "collect"]
  /\ UNCHANGED <<env, tested, paths, present, libs, changes>>

(* filter: the next path becomes a candidate if it exists now. *)
TestPath(t) ==
  /\ pc[t] = "collect" /\ tested[t] < Len(AllPaths)
  /\ LET path == AllPaths[tested[t] + 1]
     IN paths' = IF path \in present THEN [paths EXCEPT ![t] = Append(@, path)] ELSE paths
  /\ tested' = [tested EXCEPT ![t] = @ + 1]
  /\ UNCHANGED <<env, loaded, pc, present, libs, calls, changes>>

Collect(t) ==
  /\ pc[t] = "collect" /\ tested[t] = Len(AllPaths)
  /\ tested' = [tested EXCEPT ![t] = 0]
  /\ pc' = [pc EXCEPT ![t] = "load"]
  /\ UNCHANGED <<env, loaded, paths, present, libs, calls, changes>>

(* Mutant of PathLoads: the loop goes on after a success. *)
PathLoadsOn(t) ==
  /\ Head(paths[t]) \in present \cap Works
  /\ libs' = libs \cup {Head(paths[t])}
  /\ paths' = [paths EXCEPT ![t] = Tail(@)]
  /\ UNCHANGED pc

(* Mutant of PathLoads: an error is taken for a success. *)
PathLoadsAny(t) ==
  /\ libs' = libs \cup {Head(paths[t])}
  /\ pc' = [pc EXCEPT ![t] = "idle"]
  /\ paths' = [paths EXCEPT ![t] = << >>]

(* System.load succeeds: JNI_OnLoad runs, and the call returns. *)
PathLoads(t) ==
  /\ Head(paths[t]) \in present \cap Works
  /\ libs' = libs \cup {Head(paths[t])}
  /\ pc' = [pc EXCEPT ![t] = "idle"]
  /\ paths' = [paths EXCEPT ![t] = << >>]

(* Mutant of PathFails: the error ends the loop. *)
PathFailsOut(t) ==
  /\ Head(paths[t]) \notin present \cap Works
  /\ paths' = [paths EXCEPT ![t] = << >>]
  /\ pc' = [pc EXCEPT ![t] = "failed"]
  /\ UNCHANGED libs

(* UnsatisfiedLinkError: the next candidate *)
PathFails(t) ==
  /\ Head(paths[t]) \notin present \cap Works
  /\ paths' = [paths EXCEPT ![t] = Tail(@)]
  /\ UNCHANGED <<libs, pc>>

TryPath(t) ==
  /\ pc[t] = "load" /\ paths[t] # << >>
  /\ PathLoads(t) \/ PathFails(t)
  /\ UNCHANGED <<env, loaded, tested, present, calls, changes>>

(* System.loadLibrary when every candidate has failed *)
LoadLibrary(t) ==
  /\ pc[t] = "load" /\ paths[t] = << >>
  /\ IF bundled THEN /\ libs' = libs \cup {Fallback}
                     /\ pc' = [pc EXCEPT ![t] = "idle"]
                ELSE /\ pc' = [pc EXCEPT ![t] = "failed"]
                     /\ UNCHANGED libs
  /\ UNCHANGED <<env, loaded, tested, paths, present, calls, changes>>

(* Any other Throwable before the library is loaded *)
Throw(t) ==
  /\ ~calm /\ pc[t] \in {"collect", "load"}
  /\ tested' = [tested EXCEPT ![t] = 0]
  /\ paths' = [paths EXCEPT ![t] = << >>]
  /\ pc' = [pc EXCEPT ![t] = "failed"]
  /\ UNCHANGED <<env, loaded, present, libs, calls, changes>>

(* Mutant of Rearm: the flag stays up. *)
RearmNot(t) ==
  /\ pc[t] = "failed"
  /\ pc' = [pc EXCEPT ![t] = "idle"]
  /\ UNCHANGED <<env, loaded, tested, paths, present, libs, calls, changes>>

(* The catch block: loaded.set(false) *)
Rearm(t) ==
  /\ pc[t] = "failed"
  /\ loaded' = FALSE
  /\ pc' = [pc EXCEPT ![t] = "idle"]
  /\ UNCHANGED <<env, tested, paths, present, libs, calls, changes>>

(* The module is installed, updated or removed. *)
ChangeFiles ==
  /\ ~calm /\ changes < MaxChanges
  /\ present' \in Files
  /\ changes' = changes + 1
  /\ UNCHANGED <<env, loaded, pc, tested, paths, libs, calls>>

Go(t) == TestPath(t) \/ Collect(t) \/ TryPath(t) \/ LoadLibrary(t) \/ Throw(t) \/ Rearm(t)

Next == ChangeFiles \/ \E t \in Thread : Enter(t) \/ Go(t)

Spec == Init /\ [][Next]_vars

(* A call that has begun goes on. *)
FairSpec == Spec /\ \A t \in Thread : WF_vars(Go(t))

-----------------------------------------------------------------------------
TypeOK ==
  /\ loaded \in BOOLEAN
  /\ pc \in [Thread -> {"idle", "collect", "load", "failed"}]
  /\ tested \in [Thread -> 0 .. Len(AllPaths)]
  /\ paths \in [Thread -> Seq(Path)]
  /\ where \in [module : Dir \cup {NoDir}, native : Dir \cup {NoDir}, apps : Listings]
  /\ present \in Files
  /\ bundled \in BOOLEAN /\ calm \in BOOLEAN
  /\ libs \subseteq (Path \cap Works) \cup {Fallback}
  /\ calls \in 0 .. MaxCalls /\ changes \in 0 .. MaxChanges

(* "exactly once" of NativeLoader.kt line 12: however the threads interleave
   and whatever failed before, JNI_OnLoad installs the hooks at most once; a
   second run would hook the hooks. *)
InstalledOnce == \A p, q \in libs : p = q

(* A failure leaves the way open: a raised flag means that the library is in
   place or a call is still on its way, so that no process is locked out. *)
FlagNeverStuck == loaded => libs # {} \/ \E t \in Thread : pc[t] # "idle"

(* ... and once the library is in place the flag stays up. *)
FlagCoversLibrary == libs # {} => loaded

(* If some way of loading works and nothing else goes wrong, the first call
   gets the library loaded, however many candidates fail before. *)
CallsInstall ==
  (/\ calm /\ calls > 0
   /\ bundled \/ \E k \in DOMAIN AllPaths : AllPaths[k] \in present \cap Works) ~> libs # {}
=============================================================================
