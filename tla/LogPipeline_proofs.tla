------------------------- MODULE LogPipeline_proofs -------------------------
(***************************************************************************)
(* Theorems about LogPipeline for any apps, methods and bounds: what the   *)
(* screens show is what was reported, whatever the broadcast does and      *)
(* whenever the module process dies.                                       *)
(***************************************************************************)
EXTENDS LogPipeline, SequenceTheorems, TLAPS

(* Reports on their way come from hooked, started apps. *)
OnTheirWay == inFlight \cup onReceive

ReportsInv ==
  /\ \A b \in OnTheirWay : b.pkg \in hookedIn \cap started
  /\ \A b \in onReceive : b.method # Loaded /\ b.pkg \in prefs

IInv == /\ TypeOK
        /\ LogIsRecent
        /\ ReportsInv
        /\ LoggedAppsAreListed
        /\ OnlyHooksReport

-----------------------------------------------------------------------------
(* The log after record(e): e, then the log before it or all but its last *)
LEMMA RecordResult ==
  ASSUME LogTypeOK, LogIsRecent, NEW e \in Entry, record(e)
  PROVE  /\ LogTypeOK' /\ LogIsRecent'
         /\ entries'[1] = e /\ Len(entries') \in 1 .. Len(entries) + 1
         /\ \A i \in 1 .. Len(entries') : i # 1 => i - 1 \in 1 .. Len(entries)
                                                  /\ entries'[i] = entries[i - 1]
<1> USE MaxAssumption DEF LogTypeOK
<1>1. Len(entries) \in Nat /\ Len(history) \in Nat /\ Len(entries) <= MAX_ENTRIES
  BY DEF LogIsRecent
<1>2. /\ history' \in Seq(Entry) /\ Len(history') = Len(history) + 1
      /\ \A i \in 1 .. Len(history') : history'[i] = IF i = 1 THEN e ELSE history[i - 1]
  BY DEF record
<1>3. CASE Len(entries) >= MAX_ENTRIES
  <2>1. Len(entries) = MAX_ENTRIES /\ Len(entries) >= 1
    BY <1>1, <1>3
  <2>2. /\ dropLast(entries) \in Seq(Entry) /\ Len(dropLast(entries)) = Len(entries) - 1
        /\ \A i \in 1 .. Len(entries) - 1 : dropLast(entries)[i] = entries[i]
    BY <2>1, <1>1 DEF dropLast
  <2>3. entries' = <<e>> \o dropLast(entries)
    BY <1>3 DEF record
  <2>4. /\ entries' \in Seq(Entry) /\ Len(entries') = Len(entries)
        /\ \A i \in 1 .. Len(entries') : entries'[i] = IF i = 1 THEN e ELSE entries[i - 1]
    BY <2>1, <2>2, <2>3
  <2> QED BY <1>1, <1>2, <2>1, <2>4 DEF LogIsRecent, record
<1>4. CASE ~(Len(entries) >= MAX_ENTRIES)
  <2>1. entries' = <<e>> \o entries
    BY <1>4 DEF record
  <2>2. /\ entries' \in Seq(Entry) /\ Len(entries') = Len(entries) + 1
        /\ \A i \in 1 .. Len(entries') : entries'[i] = IF i = 1 THEN e ELSE entries[i - 1]
    BY <2>1, <1>1
  <2>3. Len(entries) = Len(history)
    BY <1>1, <1>4 DEF LogIsRecent
  <2> QED BY <1>1, <1>2, <1>4, <2>2, <2>3 DEF LogIsRecent, record
<1> QED BY <1>3, <1>4

(* An empty log is a log of what was recorded since it was emptied. *)
LEMMA ClearResult ==
  ASSUME clear
  PROVE  LogTypeOK' /\ LogIsRecent' /\ Len(entries') = 0
  BY MaxAssumption DEF clear, LogTypeOK, LogIsRecent

(* What a broadcast adds *)
LEMMA SendResult ==
  ASSUME IInv, NEW p \in Pkg, NEW m \in Method \cup {Loaded}, Send(p, m)
  PROVE  /\ sent' \in 0 .. MaxSends
         /\ inFlight' \subseteq Entry
         /\ \A b \in inFlight' \ inFlight : b.pkg = p /\ p \in started
<1> DEFINE new == [id |-> sent + 1, pkg |-> p, method |-> m, ts |-> clock]
<1>1. CASE p \in started /\ sent < MaxSends
  <2>1. new \in Entry
    BY <1>1, PipelineAssumption DEF IInv, TypeOK
  <2>2. sent' = sent + 1 /\ inFlight' = inFlight \cup {new}
    BY <1>1 DEF Send
  <2>3. new.pkg = p
    OBVIOUS
  <2>4. sent \in Nat /\ MaxSends \in Nat /\ inFlight \subseteq Entry
    BY PipelineAssumption DEF IInv, TypeOK
  <2> HIDE DEF new
  <2> QED BY <1>1, <2>1, <2>2, <2>3, <2>4
<1>2. CASE ~(p \in started /\ sent < MaxSends)
  <2>1. UNCHANGED <<sent, inFlight>>
    BY <1>2 DEF Send, netVars
  <2> QED BY <2>1 DEF IInv, TypeOK
<1> QED BY <1>1, <1>2

LEMMA SendKeeps ==
  ASSUME IInv, NEW p \in Pkg, NEW m \in Method \cup {Loaded}, Send(p, m),
         p \in hookedIn', hookedIn \subseteq hookedIn', hookedIn' \subseteq Pkg,
         UNCHANGED <<logVars, started, onReceive, prefVars, clock>>
  PROVE  IInv'
<1> USE DEF IInv, logVars, prefVars, TypeOK
<1>1. TypeOK'
  BY SendResult DEF LogTypeOK
<1>2. ReportsInv'
  <2>1. \A b \in OnTheirWay' : b \in OnTheirWay \/ b \in inFlight' \ inFlight
    BY DEF OnTheirWay
  <2>2. \A b \in inFlight' \ inFlight : b.pkg = p /\ p \in started
    BY SendResult
  <2>3. \A b \in OnTheirWay' : b.pkg \in hookedIn' \cap started'
    BY <2>1, <2>2 DEF ReportsInv
  <2> QED BY <2>3 DEF ReportsInv
<1>3. LogIsRecent' /\ LoggedAppsAreListed' /\ OnlyHooksReport'
  BY DEF LogIsRecent, LoggedAppsAreListed, OnlyHooksReport
<1> QED BY <1>1, <1>2, <1>3

(* The log and the preferences agree with the reports at every step. *)
THEOREM Invariance == Spec => []IInv
<1>1. Init => IInv
  BY MaxAssumption, PipelineAssumption
  DEF Init, EmptyLog, IInv, TypeOK, LogTypeOK, LogIsRecent, ReportsInv, OnTheirWay,
      LoggedAppsAreListed, OnlyHooksReport
<1>2. IInv /\ [Next]_vars => IInv'
  <2> SUFFICES ASSUME IInv, [Next]_vars PROVE IInv'
    OBVIOUS
  <2> USE DEF logVars, appVars, netVars, prefVars
  <2>1. ASSUME NEW p \in Pkg, LoadApp(p) PROVE IInv'
    BY <2>1, SendKeeps DEF LoadApp, IInv, TypeOK
  <2>2. ASSUME NEW p \in Pkg, CreateApplication(p) PROVE IInv'
    BY <2>2 DEF CreateApplication, IInv, TypeOK, LogTypeOK, LogIsRecent, ReportsInv,
       OnTheirWay,
       LoggedAppsAreListed, OnlyHooksReport
  <2>3. ASSUME NEW p \in Pkg, NEW m \in Method, Dispatch(p, m) PROVE IInv'
    BY <2>3, SendKeeps DEF Dispatch, IInv, TypeOK
  <2>4. ASSUME NEW b \in inFlight, Lose(b) PROVE IInv'
    BY <2>4 DEF Lose, IInv, TypeOK, LogTypeOK, LogIsRecent, ReportsInv, OnTheirWay,
       LoggedAppsAreListed, OnlyHooksReport
  <2>5. ASSUME NEW b \in inFlight, Receive(b) PROVE IInv'
    <3> USE DEF IInv, Receive
    <3>1. b \in Entry /\ b.pkg \in Pkg
      BY <2>5, PipelineAssumption DEF TypeOK
    <3>2. TypeOK'
      BY <2>5, <3>1 DEF TypeOK, LogTypeOK
    <3>3. ReportsInv'
      BY <2>5 DEF ReportsInv, OnTheirWay
    <3>4. LogIsRecent' /\ LoggedAppsAreListed' /\ OnlyHooksReport'
      BY <2>5 DEF LogIsRecent, LoggedAppsAreListed, OnlyHooksReport
    <3> QED BY <3>2, <3>3, <3>4
  <2>6. ASSUME NEW b \in onReceive, ReceiveRecord(b) PROVE IInv'
    <3> USE DEF IInv, ReceiveRecord
    <3>1. b \in Entry
      BY DEF TypeOK
    <3>2. /\ LogTypeOK' /\ LogIsRecent'
          /\ entries'[1] = b /\ Len(entries') \in 1 .. Len(entries) + 1
          /\ \A i \in 1 .. Len(entries') : i # 1 => i - 1 \in 1 .. Len(entries)
                                                   /\ entries'[i] = entries[i - 1]
      BY <2>6, <3>1, RecordResult DEF TypeOK
    <3>3. TypeOK'
      BY <2>6, <3>2 DEF TypeOK
    <3>4. ReportsInv'
      BY <2>6, <3>2 DEF ReportsInv, OnTheirWay
    <3>5. LoggedAppsAreListed' /\ OnlyHooksReport'
      BY <2>6, <3>2 DEF LoggedAppsAreListed, OnlyHooksReport, ReportsInv, OnTheirWay
    <3> QED BY <3>2, <3>3, <3>4, <3>5
  <2>7. ASSUME ClearLog PROVE IInv'
    BY <2>7, ClearResult DEF ClearLog, IInv, TypeOK, ReportsInv, OnTheirWay,
       LoggedAppsAreListed, OnlyHooksReport
  <2>8. ASSUME WritePrefs PROVE IInv'
    BY <2>8 DEF WritePrefs, IInv, TypeOK, LogTypeOK, LogIsRecent, ReportsInv,
       OnTheirWay,
       LoggedAppsAreListed, OnlyHooksReport
  <2>9. ASSUME Crash PROVE IInv'
    BY <2>9, ClearResult DEF Crash, IInv, TypeOK, ReportsInv, OnTheirWay,
       LoggedAppsAreListed, OnlyHooksReport
  <2>10. ASSUME Tick PROVE IInv'
    <3>1. /\ clock' = clock + 1 /\ clock < MaxClock
          /\ UNCHANGED <<entries, totalCount, history, hookedIn, started, sent, inFlight,
                         onReceive, prefs, disk>>
      BY <2>10 DEF Tick, logVars, appVars, netVars, prefVars
    <3>2. clock \in 0 .. MaxClock => clock + 1 \in 0 .. MaxClock
      BY <3>1, PipelineAssumption
    <3> QED BY <3>1, <3>2 DEF IInv, TypeOK, LogTypeOK, LogIsRecent, ReportsInv, OnTheirWay,
       LoggedAppsAreListed, OnlyHooksReport
  <2>11. CASE UNCHANGED vars
    BY <2>11 DEF vars, IInv, TypeOK, LogTypeOK, LogIsRecent, ReportsInv, OnTheirWay,
       LoggedAppsAreListed, OnlyHooksReport
  <2> QED BY <2>1, <2>2, <2>3, <2>4, <2>5, <2>6, <2>7, <2>8, <2>9, <2>10, <2>11 DEF Next
<1> QED BY <1>1, <1>2, PTL DEF Spec

(* Every variable keeps its type. *)
THEOREM TypeCorrect == Spec => []TypeOK
  BY Invariance, PTL DEF IInv

(* The log is the newest reports, in order, with none missing. *)
THEOREM LogRecent == Spec => []LogIsRecent
  BY Invariance, PTL DEF IInv

(* An app with a report in the log is listed among the apps. *)
THEOREM LoggedListed == Spec => []LoggedAppsAreListed
  BY Invariance, PTL DEF IInv
=============================================================================
