-------------------------- MODULE ConnectivityHooks --------------------------
(***************************************************************************)
(* The after-hooks on ConnectivityManager and LinkProperties               *)
(* (hook/ConnectivityManagerHook.kt, hook/LinkPropertiesHook.kt).  A hook  *)
(* asks the ConnectivityManager further questions, and these go through    *)
(* the hooks again: a call of the app is a stack of hooked calls.  Every   *)
(* original method is a question to the system, between which networks     *)
(* come and go.  The app calls from one thread: the hooks share nothing    *)
(* that changes.                                                           *)
(***************************************************************************)
EXTENDS Naturals, Sequences, FiniteSets

CONSTANTS
  Net,         \* networks
  Vpn,         \* those of a VPN: TRANSPORT_VPN, a tunnel interface
  Transports,  \* Transports[n]: the transports of n besides "VPN"
  Null,
  Failures,    \* the sets of hooks whose registration may fail together
  MaxChanges,  \* bound: networks coming and going
  MaxDepth     \* the hooked calls the thread's stack has room for

ASSUME NetAssumption ==
  /\ IsFiniteSet(Net) /\ Vpn \subseteq Net /\ Null \notin Net
  /\ \A n \in Net : "VPN" \notin Transports[n]
  /\ MaxChanges \in Nat
  /\ MaxDepth \in Nat /\ MaxDepth >= 3

Hooks == {"getNetworkCapabilities", "getAllNetworks", "getActiveNetwork",
          "getAllNetworkInfo", "getActiveNetworkInfo", "getLinkProperties",
          "getInterfaceName", "hasTransport"}

VARIABLES
  up,         \* the networks that are connected
  changes,    \* how often that has changed
  installed,  \* the hooks that were registered
  sdk31,      \* Build.VERSION.SDK_INT >= 31
  fields,     \* the private fields of NetworkCapabilities can be reached
  stack,      \* the hooked calls in progress, innermost first
  ret,        \* what the last nested call was and returned
  answer,     \* what the app's call was and returned, once it has
  reports     \* the methods LogDispatcher.dispatch was called for during it

vars == <<up, changes, installed, sdk31, fields, stack, ret, answer, reports>>

world == <<up, changes, installed, sdk31, fields>>

Init ==
  /\ up \in SUBSET Net /\ changes = 0
  /\ \E failed \in Failures : installed = Hooks \ failed
  /\ sdk31 \in BOOLEAN /\ fields \in BOOLEAN
  /\ stack = << >> /\ ret = Null
  /\ answer = Null
  /\ reports = {}

-----------------------------------------------------------------------------
(* NetworkCapabilities as the system makes them, a fresh copy each time *)
CapsOf(n) == [transports |-> Transports[n] \cup (IF n \in Vpn THEN {"VPN"} ELSE {}),
              notVpn     |-> n \notin Vpn]

(* ConnectivityManagerHook's look at mTransportTypes *)
isVpnTransportPresent(c) == fields /\ "VPN" \in c.transports

(* Mutant of stripVpnTransport: the transports may be left empty. *)
stripVpnTransportOnly(c) ==
  IF isVpnTransportPresent(c)
  THEN [transports |-> c.transports \ {"VPN"}, notVpn |-> TRUE] ELSE c

(* VPN out, WIFI in if that leaves none, NOT_VPN set *)
stripVpnTransport(c) ==
  IF isVpnTransportPresent(c)
  THEN LET rest == c.transports \ {"VPN"}
       IN [transports |-> IF rest = {} THEN {"WIFI"} ELSE rest, notVpn |-> TRUE]
  ELSE c

(* LinkPropertiesHook's: from API 31 on it calls hasTransport, hooked itself *)
looksVpn(c) == IF sdk31 THEN "VPN" \in c.transports /\ "hasTransport" \notin installed
               ELSE isVpnTransportPresent(c)

(* Mutant of isVpnInterfaceName: the name is read past its hooked getter. *)
isVpnInterfaceField(lp) == lp \in Vpn

(* lp.interfaceName is a VPN's.  LinkProperties are named by their network;
   the hooked getter answers with the underlying interface, or "wlan0". *)
isVpnInterfaceName(lp) == lp \in Vpn /\ "getInterfaceName" \notin installed

(* ... and reports it *)
NameReport(lp) == IF lp \in Vpn /\ "getInterfaceName" \in installed
                  THEN {"getInterfaceName"} ELSE {}

-----------------------------------------------------------------------------
(* A call of m: where it is, its result so far, the networks still to look at
   and all those the original returned *)
Frame(m, n) == [m |-> m, arg |-> n, at |-> "call", res |-> Null,
                todo |-> << >>, all |-> << >>]

Top == Head(stack)
At(m, where) == stack # << >> /\ Top.m = m /\ Top.at = where

GoOn(f) == stack' = <<f>> \o Tail(stack) /\ UNCHANGED <<ret, answer>>

Return(v) ==
  /\ stack' = Tail(stack)
  /\ ret' = IF Len(stack) = 1 THEN Null ELSE [m |-> Top.m, value |-> v]
  /\ answer' = IF Len(stack) = 1
               THEN [m |-> Top.m, arg |-> Top.arg, all |-> Top.all, value |-> v] ELSE Null

(* What the original returned to the hook *)
Original(f) == IF f.m = "getAllNetworks" THEN f.all ELSE f.res

(* A StackOverflowError: no catch of the hooks takes it, they name Exception.
   The hook framework, outside of the repository, hands it to the app or lets
   the hook it comes out of have done nothing. *)
Overflow(f) ==
  \/ stack' = << >> /\ ret' = Null /\ answer' = Null
  \/ Return(Original(f))

(* The hook, going on as f, calls m. *)
Invoke(f, m, n) ==
  \/ /\ Len(stack) < MaxDepth
     /\ stack' = <<Frame(m, n), f>> \o Tail(stack) /\ UNCHANGED <<ret, answer>>
  \/ Len(stack) >= MaxDepth /\ Overflow(f)

Report(ms) == reports' = reports \cup ms

Hooked(m) == m \in installed

Skip(f) == [f EXCEPT !.at = "next", !.todo = Tail(@)]

-----------------------------------------------------------------------------
(* The system *)
Change(n) ==
  /\ changes < MaxChanges
  /\ changes' = changes + 1
  /\ up' = IF n \in up THEN up \ {n} ELSE up \cup {n}
  /\ UNCHANGED <<installed, sdk31, fields, stack, ret, answer, reports>>

(* The app calls a method; n is the network it asks about, if it names one. *)
AppCall(m, n) ==
  /\ stack = << >>
  /\ stack' = <<Frame(m, n)>>
  /\ reports' = {}
  /\ answer' = Null
  /\ UNCHANGED <<up, changes, installed, sdk31, fields, ret>>

(* A VPN that is up is the active network. *)
ActiveNetworks == IF up = {} THEN {Null} ELSE IF up \cap Vpn # {} THEN up \cap Vpn ELSE up

(* up as an array, in any order *)
Arrays == {s \in [1 .. Cardinality(up) -> up] : \A i, j \in DOMAIN s : s[i] = s[j] => i = j}

-----------------------------------------------------------------------------
(* hookGetNetworkCapabilities around the original *)
GetNetworkCapabilities ==
  /\ At("getNetworkCapabilities", "call")
  /\ LET c == CapsOf(Top.arg) IN
     IF Top.arg \notin up THEN Return(Null) /\ Report({})
     ELSE IF ~Hooked(Top.m) THEN Return(c) /\ Report({})
     ELSE /\ Return(stripVpnTransport(c))
          /\ Report(IF isVpnTransportPresent(c) THEN {Top.m} ELSE {})
  /\ UNCHANGED world

(* hookGetAllNetworkInfo and hookGetActiveNetworkInfo: type VPN is filtered
   out; only the first reports *)
GetAllNetworkInfo ==
  /\ At("getAllNetworkInfo", "call")
  /\ \E s \in Arrays :
       IF Hooked(Top.m)
       THEN /\ Return(SelectSeq(s, LAMBDA n : n \notin Vpn))
            /\ Report(IF up \cap Vpn # {} THEN {Top.m} ELSE {})
       ELSE Return(s) /\ Report({})
  /\ UNCHANGED world

GetActiveNetworkInfo ==
  /\ At("getActiveNetworkInfo", "call")
  /\ \E n \in ActiveNetworks : Return(IF Hooked(Top.m) /\ n \in Vpn THEN Null ELSE n)
  /\ UNCHANGED <<world, reports>>

-----------------------------------------------------------------------------
(* The three hooks that walk over the networks *)
GetAllNetworks ==
  /\ At("getAllNetworks", "call")
  /\ \E s \in Arrays :
       IF Hooked(Top.m)
       THEN GoOn([Top EXCEPT !.at = "next", !.res = << >>, !.todo = s, !.all = s])
       ELSE Return(s)
  /\ UNCHANGED <<world, reports>>

(* Mutant of GetActiveNetwork: a null result is looked at like a network. *)
GetActiveNetworkUnchecked ==
  /\ At("getActiveNetwork", "call")
  /\ \E n \in ActiveNetworks :
       IF Hooked(Top.m)
       THEN Invoke([Top EXCEPT !.at = "own", !.res = n], "getNetworkCapabilities", n)
       ELSE Return(n)
  /\ UNCHANGED <<world, reports>>

GetActiveNetwork ==
  /\ At("getActiveNetwork", "call")
  /\ \E n \in ActiveNetworks :
       IF Hooked(Top.m) /\ n # Null
       THEN Invoke([Top EXCEPT !.at = "own", !.res = n], "getNetworkCapabilities", n)
       ELSE Return(n)
  /\ UNCHANGED <<world, reports>>

(* Is the active network a VPN?  Then the others are looked at. *)
OwnCaps ==
  /\ At("getActiveNetwork", "own")
  /\ IF ret.value = Null \/ ~isVpnTransportPresent(ret.value)
     THEN Return(Top.res)
     ELSE Invoke([Top EXCEPT !.at = "all"], "getAllNetworks", Null)
  /\ UNCHANGED <<world, reports>>

GetLinkProperties ==
  /\ At("getLinkProperties", "call")
  /\ IF Top.arg \notin up THEN Return(Null) /\ Report({})
     ELSE IF ~Hooked(Top.m) THEN Return(Top.arg) /\ Report({})
     ELSE /\ IF isVpnInterfaceName(Top.arg)
             THEN Invoke([Top EXCEPT !.at = "all", !.res = Top.arg], "getAllNetworks", Null)
             ELSE Return(Top.arg)
          /\ Report(NameReport(Top.arg))
  /\ UNCHANGED world

(* cm.allNetworks has returned *)
AllNetworks ==
  /\ stack # << >> /\ Top.at = "all"
  /\ GoOn([Top EXCEPT !.at = "next", !.todo = ret.value])
  /\ UNCHANGED <<world, reports>>

NextNetwork ==
  /\ stack # << >> /\ Top.at = "next" /\ Top.todo # << >>
  /\ Invoke([Top EXCEPT !.at = "caps"], "getNetworkCapabilities", Head(Top.todo))
  /\ UNCHANGED <<world, reports>>

(* No network is left to look at. *)
Exhausted ==
  /\ stack # << >> /\ Top.at = "next" /\ Top.todo = << >>
  /\ Return(Top.res)
  /\ Report(IF Top.m = "getAllNetworks" /\ Len(Top.res) < Len(Top.all) THEN {Top.m} ELSE {})
  /\ UNCHANGED world

(* Mutant of FilterNetwork: a network without capabilities is dropped too. *)
FilterNetworkStrict ==
  /\ At("getAllNetworks", "caps")
  /\ GoOn(IF ret.value = Null \/ isVpnTransportPresent(ret.value) THEN Skip(Top)
          ELSE [Skip(Top) EXCEPT !.res = Append(@, Head(Top.todo))])
  /\ UNCHANGED <<world, reports>>

(* getAllNetworks keeps a network unless its capabilities show a VPN. *)
FilterNetwork ==
  /\ At("getAllNetworks", "caps")
  /\ GoOn(IF ret.value # Null /\ isVpnTransportPresent(ret.value) THEN Skip(Top)
          ELSE [Skip(Top) EXCEPT !.res = Append(@, Head(Top.todo))])
  /\ UNCHANGED <<world, reports>>

(* Mutant of FallBack: a network that is skipped is looked at again. *)
FallBackAgain ==
  /\ At("getActiveNetwork", "caps")
  /\ IF ret.value # Null /\ ~isVpnTransportPresent(ret.value)
     THEN Return(Head(Top.todo)) ELSE GoOn([Top EXCEPT !.at = "next"])
  /\ UNCHANGED <<world, reports>>

(* getActiveNetwork returns the first network that is no VPN. *)
FallBack ==
  /\ At("getActiveNetwork", "caps")
  /\ IF ret.value # Null /\ ~isVpnTransportPresent(ret.value)
     THEN Return(Head(Top.todo)) ELSE GoOn(Skip(Top))
  /\ UNCHANGED <<world, reports>>

(* findUnderlyingLinkProperties asks for the link of a network that is no VPN, *)
UnderlyingCaps ==
  /\ At("getLinkProperties", "caps")
  /\ IF ret.value # Null /\ ~looksVpn(ret.value)
     THEN Invoke([Top EXCEPT !.at = "link"], "getLinkProperties", Head(Top.todo))
     ELSE GoOn(Skip(Top))
  /\ UNCHANGED <<world, reports>>

(* and takes it if its interface is none either. *)
UnderlyingLink ==
  /\ At("getLinkProperties", "link")
  /\ IF ret.value # Null /\ ~isVpnInterfaceName(ret.value)
     THEN Return(ret.value) /\ Report({Top.m} \cup NameReport(ret.value))
     ELSE GoOn(Skip(Top)) /\ Report({})
  /\ UNCHANGED world

-----------------------------------------------------------------------------
Asking == {"getNetworkCapabilities", "getLinkProperties"}
AppMethods == Hooks \ {"getInterfaceName", "hasTransport"}

Hook ==
  \/ GetNetworkCapabilities \/ GetAllNetworkInfo \/ GetActiveNetworkInfo
  \/ GetAllNetworks \/ GetActiveNetwork \/ GetLinkProperties
  \/ OwnCaps \/ AllNetworks \/ NextNetwork \/ Exhausted
  \/ FilterNetwork \/ FallBack \/ UnderlyingCaps \/ UnderlyingLink

Next ==
  \/ \E n \in Net : Change(n)
  \/ \E m \in AppMethods : \E n \in (IF m \in Asking THEN Net ELSE {Null}) : AppCall(m, n)
  \/ Hook

Spec == Init /\ [][Next]_vars

(* A thread that is in a hook goes on. *)
FairSpec == Spec /\ WF_vars(Hook)

-----------------------------------------------------------------------------
TypeOK ==
  /\ up \subseteq Net
  /\ changes \in 0 .. MaxChanges
  /\ installed \subseteq Hooks
  /\ sdk31 \in BOOLEAN /\ fields \in BOOLEAN
  /\ \A i \in 1 .. Len(stack) :
       /\ stack[i].m \in AppMethods
       /\ stack[i].arg \in (IF stack[i].m \in Asking THEN Net ELSE {Null})
       /\ stack[i].at \in {"call", "own", "all", "next", "caps", "link"}
       /\ \A k \in 1 .. Len(stack[i].todo) : stack[i].todo[k] \in Net
  /\ reports \subseteq Hooks

Answered(m) == answer # Null /\ answer.m = m

(* getNetworkCapabilities never shows an app a VPN, nor a network that is not
   NOT_VPN or has lost its last transport, whatever happens to the network. *)
CapsShowNoVpn ==
  Answered("getNetworkCapabilities") /\ answer.value # Null /\ fields
  /\ "getNetworkCapabilities" \in installed =>
    /\ "VPN" \notin answer.value.transports
    /\ answer.value.transports = {} => CapsOf(answer.arg).transports = {}
    /\ answer.value.notVpn

(* some are networks of all, in the order of all and each as often at most,
   with every one that is no VPN. *)
KeepsPlain(some, all) ==
  \E f \in [1 .. Len(some) -> 1 .. Len(all)] :
    /\ \A i, j \in 1 .. Len(some) : i < j => f[i] < f[j]
    /\ \A i \in 1 .. Len(some) : some[i] = all[f[i]]
    /\ \A k \in 1 .. Len(all) : all[k] \notin Vpn => \E i \in 1 .. Len(some) : f[i] = k

(* No network is lost that is no VPN: getAllNetworks returns every one of the
   system's array, in its order, also if it disconnects during the call, and
   the capabilities and link properties of such a network are its own. *)
PlainNetworksKept ==
  /\ Answered("getAllNetworks") /\ "getAllNetworks" \in installed =>
       KeepsPlain(answer.value, answer.all)
  /\ Answered("getNetworkCapabilities") /\ answer.arg \notin Vpn =>
       answer.value \in {Null, CapsOf(answer.arg)}
  /\ Answered("getLinkProperties") /\ answer.arg \notin Vpn =>
       answer.value \in {Null, answer.arg}

(* The capabilities of n as the hooked getNetworkCapabilities shows them *)
Shown(n) == IF "getNetworkCapabilities" \in installed THEN stripVpnTransport(CapsOf(n)) ELSE CapsOf(n)

(* What ends the questions of getLinkProperties: it does not see a VPN by its
   interface name, which is replaced, or it sees one by its capabilities.  The
   hooks register one by one, and each may fail alone: nothing in the code
   sees to it that this holds. *)
VpnIsRecognized ==
  "getInterfaceName" \in installed \/ \A n \in Vpn : looksVpn(Shown(n))

(* The app has asked for the link properties of a VPN, and VPNs are not
   recognized: the hook asks for them too, and so on until the stack is full. *)
MayCallItself ==
  /\ stack # << >> /\ ~VpnIsRecognized
  /\ stack[Len(stack)].m = "getLinkProperties" /\ stack[Len(stack)].arg \in Vpn

(* The hooks of getLinkProperties, of getActiveNetwork and of getAllNetworks
   ask for what each other and themselves are hooks of.  No call gets back into
   itself, whichever hooks failed to register, but for getLinkProperties of a
   VPN when the hooks that are left do not recognize one. *)
NoCallWithinItself ==
  \A i, j \in 1 .. Len(stack) :
    i # j /\ stack[i].m = stack[j].m /\ stack[i].arg = stack[j].arg =>
      MayCallItself /\ stack[i].m = "getLinkProperties" /\ stack[i].arg \in Vpn

(* Every other call of the app returns with a result, however the networks
   change meanwhile. *)
CallsReturn == stack # << >> /\ ~MayCallItself ~> answer # Null

(* ConnectivityManagerHook.kt line 22, getAllNetworks: "Filter out networks
   that carry TRANSPORT_VPN." *)
AllNetworksHideVpn ==
  Answered("getAllNetworks") /\ fields =>
    \A i \in 1 .. Len(answer.value) : answer.value[i] \notin Vpn

(* LinkPropertiesHook.kt lines 25-26: "When the queried network is the VPN, we
   return the link properties of the underlying WiFi/cellular connection
   instead", here when there is such a connection. *)
VpnLinkIsReplaced ==
  Answered("getLinkProperties") /\ up \ Vpn # {} => answer.value \notin Vpn
=============================================================================
