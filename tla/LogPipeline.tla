---------------------------- MODULE LogPipeline -----------------------------
(***************************************************************************)
(* How a detection attempt gets from a hook in a target app's process to   *)
(* the screens of the module app: LogDispatcher, the broadcast, the        *)
(* LogReceiver, the "enabled_apps" preferences and the DetectionLog.       *)
(*                                                                         *)
(* The broadcast is Android's: it may deliver late, in another order, or   *)
(* not at all.  onReceive and the screens' clear run on the main thread,   *)
(* one at a time; AppsScreen reads the preferences on another thread,      *)
(* between any two steps of onReceive.  putLong is apply(): visible at     *)
(* once, written to disk later.  The module process can die at any moment. *)
(***************************************************************************)
EXTENDS DetectionLog, FiniteSets

CONSTANTS Pkg,        \* target apps in the LSPosed scope
          Method,     \* hooked methods that report
          MaxSends,   \* bound: broadcasts in a behaviour
          MaxClock,   \* bound: currentTimeMillis
          Lossy,      \* whether a broadcast can be lost
          Crashes     \* whether the module process can die

Loaded == "__loaded__"

ASSUME PipelineAssumption ==
  /\ Loaded \notin Method
  /\ MaxSends \in Nat /\ MaxClock \in Nat
  /\ Entry = [id : 1 .. MaxSends, pkg : Pkg, method : Method \cup {Loaded}, ts : 0 .. MaxClock]

VARIABLES
  hookedIn,   \* apps whose loadApp block has run
  started,    \* apps whose Application object exists
  sent,       \* number of broadcasts sent
  inFlight,   \* broadcasts sent and neither delivered nor lost
  onReceive,  \* what onReceive has still to record: at most one entry
  prefs,      \* the packages in the preferences, as the process sees them
  disk,       \* ... and as they are on disk
  clock

appVars  == <<hookedIn, started>>
netVars  == <<sent, inFlight>>
prefVars == <<prefs, disk>>
vars == <<logVars, appVars, netVars, onReceive, prefVars, clock>>

Init ==
  /\ EmptyLog
  /\ hookedIn = {} /\ started = {}
  /\ sent = 0 /\ inFlight = {}
  /\ onReceive = {}
  /\ prefs = {} /\ disk = {}
  /\ clock = 0

-----------------------------------------------------------------------------
(* The target app *)

(* Mutant of Send: the broadcasts are numbered from 0. *)
SendFromZero(p, m) ==
  IF p \in started /\ sent < MaxSends
  THEN /\ sent' = sent + 1
       /\ inFlight' = inFlight \cup {[id |-> sent, pkg |-> p, method |-> m, ts |-> clock]}
  ELSE UNCHANGED netVars

(* sendBroadcast of an intent stamped with currentTimeMillis; without an
   Application, or past the bound, nothing is sent. *)
Send(p, m) ==
  IF p \in started /\ sent < MaxSends
  THEN /\ sent' = sent + 1
       /\ inFlight' = inFlight \cup {[id |-> sent + 1, pkg |-> p, method |-> m, ts |-> clock]}
  ELSE UNCHANGED netVars

(* HookEntry's loadApp block: notifyLoaded, then the hooks are registered *)
LoadApp(p) ==
  /\ p \notin hookedIn
  /\ hookedIn' = hookedIn \cup {p}
  /\ Send(p, Loaded)
  /\ UNCHANGED <<logVars, started, onReceive, prefVars, clock>>

(* The framework creates the Application, before or after the loadApp block *)
CreateApplication(p) ==
  /\ p \notin started
  /\ started' = started \cup {p}
  /\ UNCHANGED <<logVars, hookedIn, netVars, onReceive, prefVars, clock>>

(* A hook callback calls LogDispatcher.dispatch *)
Dispatch(p, m) ==
  /\ p \in hookedIn
  /\ Send(p, m)
  /\ UNCHANGED <<logVars, appVars, onReceive, prefVars, clock>>

-----------------------------------------------------------------------------
(* The broadcast *)
Lose(b) ==
  /\ Lossy
  /\ inFlight' = inFlight \ {b}
  /\ UNCHANGED <<logVars, appVars, sent, onReceive, prefVars, clock>>

(* The module app *)

(* Mutant of Receive: only "__loaded__" is remembered in the preferences. *)
ReceiveLoadedOnly(b) ==
  /\ onReceive = {}
  /\ inFlight' = inFlight \ {b}
  /\ prefs' = IF b.method = Loaded THEN prefs \cup {b.pkg} ELSE prefs
  /\ onReceive' = IF b.method = Loaded THEN {} ELSE {b}
  /\ UNCHANGED <<logVars, appVars, sent, disk, clock>>

(* onReceive up to the preferences edit; "__loaded__" returns there.  Android
   delivers a broadcast once at most: the code does not look for repeats. *)
Receive(b) ==
  /\ onReceive = {}
  /\ inFlight' = inFlight \ {b}
  /\ prefs' = prefs \cup {b.pkg}
  /\ onReceive' = IF b.method = Loaded THEN {} ELSE {b}
  /\ UNCHANGED <<logVars, appVars, sent, disk, clock>>

(* onReceive from there: DetectionLog.record *)
ReceiveRecord(b) ==
  /\ b \in onReceive
  /\ record(b)
  /\ onReceive' = {}
  /\ UNCHANGED <<appVars, netVars, prefVars, clock>>

(* The Clear button of LogScreen *)
ClearLog ==
  /\ onReceive = {}
  /\ clear
  /\ UNCHANGED <<appVars, netVars, onReceive, prefVars, clock>>

(* The write that apply() left to a background thread *)
WritePrefs ==
  /\ disk' = prefs
  /\ UNCHANGED <<logVars, appVars, netVars, onReceive, prefs, clock>>

(* The process dies; the next one starts from what is on disk. *)
Crash ==
  /\ Crashes
  /\ clear
  /\ onReceive' = {}
  /\ prefs' = disk
  /\ UNCHANGED <<appVars, netVars, disk, clock>>

Tick ==
  /\ clock < MaxClock
  /\ clock' = clock + 1
  /\ UNCHANGED <<logVars, appVars, netVars, onReceive, prefVars>>

-----------------------------------------------------------------------------
Next ==
  \/ \E p \in Pkg : \/ LoadApp(p)
                    \/ CreateApplication(p)
                    \/ \E m \in Method : Dispatch(p, m)
  \/ \E b \in inFlight : Lose(b) \/ Receive(b)
  \/ \E b \in onReceive : ReceiveRecord(b)
  \/ ClearLog
  \/ WritePrefs
  \/ Crash
  \/ Tick

Spec == Init /\ [][Next]_vars

(* Applications get created and the loadApp block runs; the system delivers a
   broadcast it does not lose, and onReceive runs to its end. *)
Fairness ==
  /\ \A p \in Pkg : WF_vars(LoadApp(p)) /\ WF_vars(CreateApplication(p))
  /\ WF_vars(\E b \in inFlight : Receive(b))
  /\ WF_vars(\E b \in onReceive : ReceiveRecord(b))

FairSpec == Spec /\ Fairness

-----------------------------------------------------------------------------
TypeOK ==
  /\ LogTypeOK
  /\ hookedIn \subseteq Pkg /\ started \subseteq Pkg
  /\ sent \in 0 .. MaxSends
  /\ inFlight \subseteq Entry
  /\ onReceive \subseteq Entry
  /\ prefs \subseteq Pkg /\ disk \subseteq Pkg
  /\ clock \in 0 .. MaxClock

(* An app that LogScreen shows a report of is one AppsScreen lists, also in
   the middle of onReceive and after a restart. *)
LoggedAppsAreListed ==
  \A i \in 1 .. Len(entries) : entries[i].pkg \in prefs

(* The log shows only what a hook in a started, hooked app reported. *)
OnlyHooksReport ==
  \A i \in 1 .. Len(entries) :
    /\ entries[i].pkg \in hookedIn \cap started
    /\ entries[i].method # Loaded

(* LogScreen.kt line 121, items(entries, key = timestamp-method): the key of
   every row of the list is its own. *)
RowKeysAreUnique ==
  \A i, j \in 1 .. Len(entries) :
    entries[i].ts = entries[j].ts /\ entries[i].method = entries[j].method => i = j

(* AppsScreen.kt line 166, "packages dynamically discovered via the hook
   broadcast": an app the module was loaded into gets listed. *)
LoadedAppsGetListed ==
  \A p \in Pkg : p \in hookedIn ~> p \in prefs
=============================================================================
