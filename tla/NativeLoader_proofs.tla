------------------------- MODULE NativeLoader_proofs ------------------------
(***************************************************************************)
(* Theorems about NativeLoader for any threads, directories and files, and *)
(* any number of calls and changes: the flag is a lock that the winner     *)
(* keeps for good.                                                         *)
(***************************************************************************)
EXTENDS NativeLoader, SequenceTheorems, TLAPS

Inside(t) == pc[t] # "idle"

PcOK == pc \in [Thread -> {"idle", "collect", "load", "failed"}] /\ loaded \in BOOLEAN

(* One call at a time is past getAndSet, and none once the library is there. *)
LockInv ==
  /\ \A t, u \in Thread : Inside(t) /\ Inside(u) => t = u
  /\ \A t \in Thread : Inside(t) => loaded /\ libs = {}

IInv == PcOK /\ LockInv /\ InstalledOnce /\ FlagNeverStuck /\ FlagCoversLibrary

LEMMA InitIInv == Init => IInv
  BY DEF Init, IInv, PcOK, LockInv, Inside, InstalledOnce, FlagNeverStuck, FlagCoversLibrary

(* Steps of a call that leave it inside: nothing the invariant reads changes
   but the place of the call. *)
LEMMA MovesOn ==
  ASSUME IInv, NEW t \in Thread, Inside(t),
         NEW p \in {"collect", "load", "failed"},
         pc' = [pc EXCEPT ![t] = p], UNCHANGED <<loaded, libs>>
  PROVE  IInv'
<1>1. PcOK'
  BY DEF IInv, PcOK
<1>2. \A u \in Thread : Inside(u)' <=> Inside(u)
  BY DEF IInv, PcOK, Inside
<1>3. LockInv'
  BY <1>2 DEF IInv, LockInv
<1>4. FlagNeverStuck'
  BY <1>2 DEF FlagNeverStuck, Inside
<1> QED BY <1>1, <1>3, <1>4 DEF IInv, InstalledOnce, FlagCoversLibrary

(* The call that is inside loads library x and leaves. *)
LEMMA Loads ==
  ASSUME IInv, NEW t \in Thread, Inside(t), NEW x,
         pc' = [pc EXCEPT ![t] = "idle"], libs' = libs \cup {x}, UNCHANGED loaded
  PROVE  IInv'
<1>1. PcOK'
  BY DEF IInv, PcOK
<1>2. loaded /\ libs' = {x}
  BY DEF IInv, LockInv
<1>3. \A u \in Thread : ~Inside(u)'
  BY DEF IInv, LockInv, PcOK, Inside
<1>4. LockInv'
  BY <1>3 DEF LockInv
<1> QED BY <1>1, <1>2, <1>4 DEF IInv, InstalledOnce, FlagNeverStuck, FlagCoversLibrary

LEMMA Enters == ASSUME IInv, NEW t \in Thread, Enter(t) PROVE IInv'
<1>1. CASE loaded
  BY <1>1 DEF Enter, IInv, PcOK, LockInv, Inside, InstalledOnce, FlagNeverStuck, FlagCoversLibrary
<1>2. CASE ~loaded
  <2>1. \A u \in Thread : ~Inside(u)
    BY <1>2 DEF IInv, LockInv
  <2>2. libs = {} /\ libs' = {} /\ loaded'
    BY <1>2 DEF IInv, FlagCoversLibrary, Enter
  <2>3. pc' = [pc EXCEPT ![t] = "collect"]
    BY <1>2 DEF Enter
  <2>4. \A u \in Thread : Inside(u)' <=> u = t
    BY <2>1, <2>3 DEF IInv, PcOK, Inside
  <2>5. PcOK'
    BY <2>3 DEF IInv, PcOK, Enter
  <2>6. LockInv'
    BY <2>2, <2>4 DEF LockInv
  <2> QED BY <2>2, <2>4, <2>5, <2>6
          DEF IInv, InstalledOnce, FlagNeverStuck, FlagCoversLibrary, Inside
<1> QED BY <1>1, <1>2 DEF IInv, PcOK

LEMMA Rearms == ASSUME IInv, NEW t \in Thread, Rearm(t) PROVE IInv'
<1>1. Inside(t) /\ libs' = {} /\ loaded' = FALSE
  BY DEF Rearm, Inside, IInv, LockInv
<1>2. \A u \in Thread : ~Inside(u)'
  BY <1>1 DEF Rearm, IInv, LockInv, PcOK, Inside
<1>3. PcOK'
  BY DEF Rearm, IInv, PcOK
<1> QED BY <1>1, <1>2, <1>3 DEF IInv, LockInv, InstalledOnce, FlagNeverStuck, FlagCoversLibrary

LEMMA Unchanged == ASSUME IInv, UNCHANGED <<loaded, pc, libs>> PROVE IInv'
  BY DEF IInv, PcOK, LockInv, Inside, InstalledOnce, FlagNeverStuck, FlagCoversLibrary

LEMMA NextIInv == ASSUME IInv, [Next]_vars PROVE IInv'
<1>1. CASE ChangeFiles
  BY <1>1, Unchanged DEF ChangeFiles
<1>2. ASSUME NEW t \in Thread, Enter(t) PROVE IInv'
  BY <1>2, Enters
<1>3. ASSUME NEW t \in Thread, Collect(t) PROVE IInv'
  BY <1>3, MovesOn DEF Collect, Inside
<1>9. ASSUME NEW t \in Thread, TestPath(t) PROVE IInv'
  BY <1>9, Unchanged DEF TestPath
<1>4. ASSUME NEW t \in Thread, TryPath(t) PROVE IInv'
  <2>1. Inside(t) /\ UNCHANGED loaded
    BY <1>4 DEF TryPath, Inside
  <2>2. CASE PathLoads(t)
    BY <2>1, <2>2, Loads DEF PathLoads
  <2>3. CASE PathFails(t)
    BY <2>1, <2>3, Unchanged DEF PathFails
  <2> QED BY <1>4, <2>2, <2>3 DEF TryPath
<1>5. ASSUME NEW t \in Thread, LoadLibrary(t) PROVE IInv'
  <2>1. Inside(t) /\ UNCHANGED loaded
    BY <1>5 DEF LoadLibrary, Inside
  <2>2. CASE bundled
    <3>1. libs' = libs \cup {Fallback} /\ pc' = [pc EXCEPT ![t] = "idle"]
      BY <1>5, <2>2 DEF LoadLibrary
    <3> QED BY <2>1, <3>1, Loads
  <2>3. CASE ~bundled
    <3>1. pc' = [pc EXCEPT ![t] = "failed"] /\ UNCHANGED libs
      BY <1>5, <2>3 DEF LoadLibrary
    <3> QED BY <2>1, <3>1, MovesOn
  <2> QED BY <2>2, <2>3
<1>6. ASSUME NEW t \in Thread, Throw(t) PROVE IInv'
  BY <1>6, MovesOn DEF Throw, Inside
<1>7. ASSUME NEW t \in Thread, Rearm(t) PROVE IInv'
  BY <1>7, Rearms
<1>8. CASE UNCHANGED vars
  BY <1>8, Unchanged DEF vars
<1> QED BY <1>1, <1>2, <1>3, <1>4, <1>5, <1>6, <1>7, <1>8, <1>9 DEF Next, Go

LEMMA Invariant == Spec => []IInv
  BY InitIInv, NextIInv, PTL DEF Spec

-----------------------------------------------------------------------------
(* Every path that is looked at is one of a library. *)
LEMMA PathsOfModule ==
  ASSUME where \in [module : Dir \cup {NoDir}, native : Dir \cup {NoDir}, apps : Listings]
  PROVE  AllPaths \in Seq(Path)
<1>1. \A d \in Dir : \A k \in 1 .. 4 : In(d, Abis[k]) \in Path
  BY DEF In, Path
<1>2. \A d \in Dir : In(d, "lib") \in Path /\ In(d, "native") \in Path
  BY DEF In, Path
<1>3. ModulePaths \in Seq(Path)
  <2>1. CASE where.module = NoDir
    BY <2>1, EmptySeq DEF ModulePaths
  <2>2. CASE where.module # NoDir
    <3>1. where.module \in Dir
      BY <2>2
    <3>2. AbiPaths(where.module) \in Seq(Path)
      BY <1>1, <3>1 DEF AbiPaths
    <3>3. <<In(where.module, "lib")>> \in Seq(Path)
      BY <1>2, <3>1
    <3> QED BY <2>2, <3>2, <3>3, ConcatProperties DEF ModulePaths
  <2> QED BY <2>1, <2>2
<1>4. NativePaths \in Seq(Path)
  <2>1. CASE where.native = NoDir
    BY <2>1, EmptySeq DEF NativePaths
  <2>2. CASE where.native # NoDir
    BY <1>2, <2>2 DEF NativePaths
  <2> QED BY <2>1, <2>2
<1>5. AppPaths \in Seq(Path)
  <2>1. where.apps \in Seq(Dir) /\ Len(where.apps) \in Nat
    BY LoaderAssumption, LenProperties
  <2>2. ASSUME NEW k \in 1 .. 4 * Len(where.apps)
        PROVE  In(where.apps[1 + (k - 1) \div 4], Abis[1 + ((k - 1) % 4)]) \in Path
    <3>1. 1 + (k - 1) \div 4 \in 1 .. Len(where.apps) /\ 1 + ((k - 1) % 4) \in 1 .. 4
      BY <2>1
    <3>2. where.apps[1 + (k - 1) \div 4] \in Dir
      BY <2>1, <3>1, ElementOfSeq
    <3> QED BY <1>1, <3>1, <3>2
  <2>3. 4 * Len(where.apps) \in Nat
    BY <2>1
  <2> QED BY <2>2, <2>3 DEF AppPaths
<1> QED BY <1>3, <1>4, <1>5, ConcatProperties DEF AllPaths

LEMMA InitTypes == ASSUME Init PROVE TypeOK
<1>1. AllPaths \in Seq(Path) /\ Len(AllPaths) \in Nat
  BY PathsOfModule, LenProperties DEF Init
<1>2. tested \in [Thread -> 0 .. Len(AllPaths)] /\ paths \in [Thread -> Seq(Path)]
  BY <1>1 DEF Init
<1>3. calls \in 0 .. MaxCalls /\ changes \in 0 .. MaxChanges /\ libs = {}
  BY LoaderAssumption DEF Init
<1>4. pc \in [Thread -> {"idle", "collect", "load", "failed"}]
  BY DEF Init
<1>5. loaded \in BOOLEAN /\ bundled \in BOOLEAN /\ calm \in BOOLEAN /\ present \in Files
  BY DEF Init
<1>6. where \in [module : Dir \cup {NoDir}, native : Dir \cup {NoDir}, apps : Listings]
  BY DEF Init
<1> QED BY <1>2, <1>3, <1>4, <1>5, <1>6 DEF TypeOK

(* Where the library is looked for does not change during the run. *)
LEMMA SamePaths == ASSUME UNCHANGED env PROVE AllPaths' = AllPaths
  BY DEF env, AllPaths, ModulePaths, NativePaths, AppPaths

LEMMA EnterTypes == ASSUME TypeOK, NEW t \in Thread, Enter(t) PROVE TypeOK'
<1>1. AllPaths' = AllPaths
  BY SamePaths DEF Enter
<1>2. pc' \in [Thread -> {"idle", "collect", "load", "failed"}]
  BY DEF Enter, TypeOK
<1>3. calls' \in 0 .. MaxCalls
  BY LoaderAssumption DEF Enter, TypeOK
<1> QED BY <1>1, <1>2, <1>3 DEF Enter, TypeOK, env

LEMMA TestTypes == ASSUME TypeOK, NEW t \in Thread, TestPath(t) PROVE TypeOK'
<1>1. AllPaths' = AllPaths /\ AllPaths \in Seq(Path) /\ Len(AllPaths) \in Nat
  BY SamePaths, PathsOfModule, LenProperties DEF TestPath, TypeOK
<1>2. tested[t] \in 0 .. Len(AllPaths) /\ tested[t] < Len(AllPaths)
  BY DEF TestPath, TypeOK
<1>3. tested[t] + 1 \in 1 .. Len(AllPaths) /\ tested[t] + 1 \in 0 .. Len(AllPaths)
  BY <1>1, <1>2
<1>4. AllPaths[tested[t] + 1] \in Path
  BY <1>1, <1>3, ElementOfSeq
<1>5. tested' \in [Thread -> 0 .. Len(AllPaths)]
  BY <1>3 DEF TestPath, TypeOK
<1>6. Append(paths[t], AllPaths[tested[t] + 1]) \in Seq(Path)
  BY <1>4, AppendProperties DEF TypeOK
<1>7. paths' \in [Thread -> Seq(Path)]
  BY <1>6 DEF TestPath, TypeOK
<1> QED BY <1>1, <1>5, <1>7 DEF TestPath, TypeOK, env

(* A thread drops what it has left to test and to try, and goes to p. *)
LEMMA ResetTypes ==
  ASSUME TypeOK, NEW t \in Thread, NEW p \in {"idle", "collect", "load", "failed"},
         pc' = [pc EXCEPT ![t] = p],
         tested' = tested \/ tested' = [tested EXCEPT ![t] = 0],
         paths' = paths \/ paths' = [paths EXCEPT ![t] = << >>],
         UNCHANGED <<env, present, calls, changes>>,
         loaded' \in BOOLEAN, libs' \subseteq (Path \cap Works) \cup {Fallback}
  PROVE  TypeOK'
<1>1. AllPaths' = AllPaths /\ Len(AllPaths) \in Nat
  BY SamePaths, PathsOfModule, LenProperties DEF TypeOK
<1>2. pc' \in [Thread -> {"idle", "collect", "load", "failed"}]
  BY DEF TypeOK
<1>3. tested' \in [Thread -> 0 .. Len(AllPaths)]
  <2>1. tested \in [Thread -> 0 .. Len(AllPaths)] /\ 0 \in 0 .. Len(AllPaths)
    BY <1>1 DEF TypeOK
  <2>2. CASE tested' = tested
    BY <2>1, <2>2
  <2>3. CASE tested' = [tested EXCEPT ![t] = 0]
    BY <2>1, <2>3
  <2> QED BY <2>2, <2>3
<1>4. paths' \in [Thread -> Seq(Path)]
  <2>1. paths \in [Thread -> Seq(Path)] /\ << >> \in Seq(Path)
    BY DEF TypeOK
  <2>2. CASE paths' = paths
    BY <2>1, <2>2
  <2>3. CASE paths' = [paths EXCEPT ![t] = << >>]
    BY <2>1, <2>3
  <2> QED BY <2>2, <2>3
<1> QED BY <1>1, <1>2, <1>3, <1>4 DEF TypeOK, env

LEMMA TryTypes == ASSUME TypeOK, NEW t \in Thread, TryPath(t) PROVE TypeOK'
<1>1. paths[t] \in Seq(Path) /\ paths[t] # << >>
  BY DEF TryPath, TypeOK
<1>2. Head(paths[t]) \in Path /\ Tail(paths[t]) \in Seq(Path)
  BY <1>1, HeadTailProperties
<1>3. CASE PathLoads(t)
  <2>1. libs' \subseteq (Path \cap Works) \cup {Fallback}
    BY <1>2, <1>3 DEF PathLoads, TypeOK
  <2> QED BY <1>3, <2>1, ResetTypes DEF PathLoads, TryPath, TypeOK
<1>4. CASE PathFails(t)
  <2>1. AllPaths' = AllPaths
    BY SamePaths DEF TryPath
  <2>2. paths' \in [Thread -> Seq(Path)]
    BY <1>2, <1>4 DEF PathFails, TypeOK
  <2> QED BY <1>4, <2>1, <2>2 DEF PathFails, TryPath, TypeOK, env
<1> QED BY <1>3, <1>4 DEF TryPath

LEMMA NextTypes == ASSUME TypeOK, [Next]_vars PROVE TypeOK'
<1>1. CASE ChangeFiles
  <2>1. AllPaths' = AllPaths /\ changes' \in 0 .. MaxChanges
    BY <1>1, SamePaths, LoaderAssumption DEF ChangeFiles, TypeOK
  <2> QED BY <1>1, <2>1 DEF ChangeFiles, TypeOK, env
<1>2. ASSUME NEW t \in Thread, Enter(t) PROVE TypeOK'
  BY <1>2, EnterTypes
<1>3. ASSUME NEW t \in Thread, TestPath(t) PROVE TypeOK'
  BY <1>3, TestTypes
<1>4. ASSUME NEW t \in Thread, Collect(t) PROVE TypeOK'
  BY <1>4, ResetTypes DEF Collect, TypeOK
<1>5. ASSUME NEW t \in Thread, TryPath(t) PROVE TypeOK'
  BY <1>5, TryTypes
<1>6. ASSUME NEW t \in Thread, LoadLibrary(t) PROVE TypeOK'
  <2>1. libs' \subseteq (Path \cap Works) \cup {Fallback}
    BY <1>6 DEF LoadLibrary, TypeOK
  <2>2. \E p \in {"idle", "failed"} : pc' = [pc EXCEPT ![t] = p]
    BY <1>6 DEF LoadLibrary
  <2> QED BY <1>6, <2>1, <2>2, ResetTypes DEF LoadLibrary, TypeOK
<1>7. ASSUME NEW t \in Thread, Throw(t) PROVE TypeOK'
  BY <1>7, ResetTypes DEF Throw, TypeOK
<1>8. ASSUME NEW t \in Thread, Rearm(t) PROVE TypeOK'
  BY <1>8, ResetTypes DEF Rearm, TypeOK
<1>9. CASE UNCHANGED vars
  <2>1. AllPaths' = AllPaths
    BY <1>9, SamePaths DEF vars, env
  <2> QED BY <1>9, <2>1 DEF vars, env, TypeOK
<1> QED BY <1>1, <1>2, <1>3, <1>4, <1>5, <1>6, <1>7, <1>8, <1>9 DEF Next, Go

(* Every variable has its type; in particular only libraries that exist and
   load, or what System.loadLibrary finds, get their JNI_OnLoad run. *)
THEOREM TypeCorrect == Spec => []TypeOK
  BY InitTypes, NextTypes, PTL DEF Spec

(* JNI_OnLoad installs the hooks at most once, for any number of threads and
   calls, failures and retries. *)
THEOREM Once == Spec => []InstalledOnce
<1>1. IInv => InstalledOnce
  BY DEF IInv
<1> QED BY <1>1, Invariant, PTL

(* No process is locked out: a flag that is up means a loaded library or a
   call on its way. *)
THEOREM NeverStuck == Spec => []FlagNeverStuck
<1>1. IInv => FlagNeverStuck
  BY DEF IInv
<1> QED BY <1>1, Invariant, PTL

(* Once the library is in place every later call finds the flag up. *)
THEOREM Covers == Spec => []FlagCoversLibrary
<1>1. IInv => FlagCoversLibrary
  BY DEF IInv
<1> QED BY <1>1, Invariant, PTL
=============================================================================
