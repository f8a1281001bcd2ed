----------------------- MODULE ConnectivityHooks_proofs -----------------------
(***************************************************************************)
(* Theorems about ConnectivityHooks for any networks, any sets of hooks    *)
(* that fail to register, and any number of changes: what the app is       *)
(* answered, and which hooked calls never get back into themselves.        *)
(***************************************************************************)
EXTENDS ConnectivityHooks, SequenceTheorems, FiniteSetTheorems, TLAPS

Waiting == {"own", "all", "caps", "link"}

Results == Net \cup {Null} \cup Seq(Net)

Frames == [m : AppMethods, arg : Net \cup {Null}, at : {"call", "next"} \cup Waiting,
           res : Results, todo : Seq(Net), all : Seq(Net)]

(* The frames a hook can be in: getAllNetworks keeps the plain networks of
   those it has seen, and only with a VPN as argument, whose interface name is
   not hooked, does getLinkProperties ask for anything. *)
Fit(f) ==
  /\ f.arg \in (IF f.m \in Asking THEN Net ELSE {Null})
  /\ f.at = "own" => f.m = "getActiveNetwork" /\ f.res \in Net
  /\ f.at = "all" => f.m \in {"getActiveNetwork", "getLinkProperties"}
  /\ f.at \in {"next", "caps"} =>
       f.m \in {"getAllNetworks", "getActiveNetwork", "getLinkProperties"}
  /\ f.at = "link" => f.m = "getLinkProperties" /\ (Head(f.todo) \notin Vpn \/ ~VpnIsRecognized)
  /\ f.at \in {"caps", "link"} => f.todo # << >>
  /\ f.m = "getLinkProperties" /\ f.at # "call" =>
       f.arg \in Vpn /\ f.res \in Net /\ "getInterfaceName" \notin installed
  /\ f.m = "getAllNetworks" /\ f.at # "call" =>
       /\ f.res \in Seq(Net)
       /\ \E seen \in Seq(Net) : f.all = seen \o f.todo /\ KeepsPlain(f.res, seen)

FitFrames == {f \in Frames : Fit(f)}

(* What a waiting frame has called *)
Callee(f) ==
  [m   |-> CASE f.at = "all" -> "getAllNetworks"
             [] f.at = "link" -> "getLinkProperties"
             [] OTHER -> "getNetworkCapabilities",
   arg |-> CASE f.at = "own" -> f.res [] f.at = "all" -> Null [] OTHER -> Head(f.todo)]

(* The networks' capabilities as calls of getNetworkCapabilities show them *)
SeenCaps == [n \in Net |-> Shown(n)]

(* v is a result a call of m with this argument may have, if capabilities are
   seen so. *)
Right(seen, m, arg, v) ==
  /\ m = "getNetworkCapabilities" => v = Null \/ v = seen[arg]
  /\ m = "getAllNetworks" => v \in Seq(Net)
  /\ m = "getLinkProperties" => v \in Net \cup {Null} /\ (arg \notin Vpn => v \in {Null, arg})

(* How far a call can get with asking: getLinkProperties asks for a VPN's only. *)
Rank(m, arg) ==
  IF m = "getActiveNetwork" \/ (m = "getLinkProperties" /\ arg \in Vpn) THEN 2
  ELSE IF m = "getAllNetworks" THEN 1 ELSE 0

(* The call for a asks for less than the one for b, or both ask for the link of
   a VPN that is not recognized. *)
VpnLink(f) == f.m = "getLinkProperties" /\ f.arg \in Vpn

Below(a, b) == \/ Rank(a.m, a.arg) < Rank(b.m, b.arg)
               \/ ~VpnIsRecognized /\ VpnLink(a) /\ VpnLink(b)

(* Every frame but the innermost waits for the one before it, *)
Called ==
  \A i \in 1 .. Len(stack) : i > 1 =>
    /\ stack[i].at \in Waiting
    /\ stack[i - 1].m = Callee(stack[i]).m /\ stack[i - 1].arg = Callee(stack[i]).arg

(* which is below it, *)
Nested == \A i, j \in 1 .. Len(stack) : i < j => Below(stack[i], stack[j])

(* and whose result is one for its question. *)
Answers ==
  stack # << >> /\ Top.at \in Waiting => Right(SeenCaps, Callee(Top).m, Callee(Top).arg, ret.value)

Basics ==
  /\ up \subseteq Net /\ changes \in 0 .. MaxChanges
  /\ installed \subseteq Hooks /\ sdk31 \in BOOLEAN /\ fields \in BOOLEAN
  /\ reports \subseteq Hooks

IInv ==
  /\ Basics
  /\ stack \in Seq(FitFrames) /\ Called /\ Nested /\ Answers
  /\ CapsShowNoVpn /\ PlainNetworksKept

-----------------------------------------------------------------------------
(* The stack with its top replaced, pushed on and popped *)
LEMMA Replaced ==
  ASSUME NEW S, NEW s \in Seq(S), s # << >>, NEW f \in S, NEW r, r = <<f>> \o Tail(s)
  PROVE  /\ r \in Seq(S) /\ Len(r) = Len(s) /\ r # << >>
         /\ r[1] = f /\ \A i \in 1 .. Len(s) : i > 1 => r[i] = s[i]
<1>1. <<f>> \in Seq(S) /\ Len(<<f>>) = 1 /\ <<f>>[1] = f
  OBVIOUS
<1>2. /\ Tail(s) \in Seq(S) /\ Len(Tail(s)) = Len(s) - 1
      /\ \A i \in 1 .. Len(Tail(s)) : Tail(s)[i] = s[i + 1]
  BY HeadTailProperties
<1>3. Len(s) \in Nat \ {0}
  BY EmptySeq
<1>4. /\ r \in Seq(S) /\ Len(r) = Len(s)
      /\ \A i \in 1 .. Len(s) : r[i] = IF i <= 1 THEN <<f>>[i] ELSE Tail(s)[i - 1]
  <2>1. /\ r \in Seq(S) /\ Len(r) = 1 + (Len(s) - 1)
        /\ \A i \in 1 .. 1 + (Len(s) - 1) : r[i] = IF i <= 1 THEN <<f>>[i] ELSE Tail(s)[i - 1]
    BY <1>1, <1>2, ConcatProperties
  <2> QED BY <1>3, <2>1
<1>5. \A i \in 1 .. Len(s) : i > 1 => r[i] = s[i]
  <2> SUFFICES ASSUME NEW i \in 1 .. Len(s), i > 1 PROVE r[i] = s[i]
    OBVIOUS
  <2>1. i - 1 \in 1 .. Len(Tail(s)) /\ (i - 1) + 1 = i
    BY <1>2, <1>3
  <2> QED BY <1>2, <1>4, <2>1
<1> QED BY <1>1, <1>3, <1>4, <1>5, EmptySeq

LEMMA Pushed ==
  ASSUME NEW S, NEW s \in Seq(S), s # << >>, NEW f \in S, NEW g \in S, NEW r,
         r = <<g, f>> \o Tail(s)
  PROVE  /\ r \in Seq(S) /\ Len(r) = Len(s) + 1 /\ r # << >>
         /\ r[1] = g /\ r[2] = f
         /\ \A i \in 1 .. Len(r) : i > 2 => i - 1 \in 2 .. Len(s) /\ r[i] = s[i - 1]
<1>1. /\ <<g, f>> \in Seq(S) /\ Len(<<g, f>>) = 2
      /\ <<g, f>>[1] = g /\ <<g, f>>[2] = f
  OBVIOUS
<1>2. /\ Tail(s) \in Seq(S) /\ Len(Tail(s)) = Len(s) - 1
      /\ \A i \in 1 .. Len(Tail(s)) : Tail(s)[i] = s[i + 1]
  BY HeadTailProperties
<1>3. Len(s) \in Nat \ {0}
  BY EmptySeq
<1>4. /\ r \in Seq(S) /\ Len(r) = Len(s) + 1
      /\ \A i \in 1 .. Len(s) + 1 : r[i] = IF i <= 2 THEN <<g, f>>[i] ELSE Tail(s)[i - 2]
  <2>1. /\ r \in Seq(S) /\ Len(r) = 2 + (Len(s) - 1)
        /\ \A i \in 1 .. 2 + (Len(s) - 1) : r[i] = IF i <= 2 THEN <<g, f>>[i] ELSE Tail(s)[i - 2]
    BY <1>1, <1>2, ConcatProperties
  <2> QED BY <1>3, <2>1
<1>5. \A i \in 1 .. Len(r) : i > 2 => i - 1 \in 2 .. Len(s) /\ r[i] = s[i - 1]
  <2> SUFFICES ASSUME NEW i \in 1 .. Len(s) + 1, i > 2
               PROVE  i - 1 \in 2 .. Len(s) /\ r[i] = s[i - 1]
    BY <1>4
  <2>1. i - 2 \in 1 .. Len(Tail(s)) /\ (i - 2) + 1 = i - 1 /\ i - 1 \in 2 .. Len(s)
    BY <1>2, <1>3
  <2> QED BY <1>2, <1>4, <2>1
<1> QED BY <1>1, <1>3, <1>4, <1>5, EmptySeq

LEMMA Popped ==
  ASSUME NEW S, NEW s \in Seq(S), s # << >>
  PROVE  /\ Tail(s) \in Seq(S) /\ Len(Tail(s)) = Len(s) - 1
         /\ \A i \in 1 .. Len(s) - 1 : i + 1 \in 1 .. Len(s) /\ Tail(s)[i] = s[i + 1]
         /\ Len(s) = 1 => Tail(s) = << >>
<1>1. Len(s) \in Nat \ {0}
  BY EmptySeq
<1>2. /\ Tail(s) \in Seq(S) /\ Len(Tail(s)) = Len(s) - 1
      /\ \A i \in 1 .. Len(Tail(s)) : Tail(s)[i] = s[i + 1]
  BY HeadTailProperties
<1> QED BY <1>1, <1>2, EmptySeq

LEMMA First == ASSUME NEW S, NEW s \in Seq(S), s # << >> PROVE Head(s) = s[1] /\ 1 \in 1 .. Len(s) /\ Head(s) \in S
<1>1. Len(s) \in Nat \ {0}
  BY EmptySeq
<1> QED BY <1>1, HeadTailProperties, ElementOfSeq

-----------------------------------------------------------------------------
(* What is below what *)
LEMMA BelowTrans ==
  ASSUME NEW a, NEW b, NEW c, Below(a, b), Below(b, c)
  PROVE  Below(a, c)
<1>1. \A m, n : Rank(m, n) \in 0 .. 2
  BY DEF Rank
<1>2. \A f : VpnLink(f) => Rank(f.m, f.arg) = 2
  BY DEF VpnLink, Rank
<1> QED BY <1>1, <1>2 DEF Below

LEMMA BelowSame ==
  ASSUME NEW a, NEW b, NEW c, NEW d, Below(a, b),
         c.m = a.m, c.arg = a.arg, d.m = b.m, d.arg = b.arg
  PROVE  Below(c, d)
  BY DEF Below, VpnLink

(* What a step of the hooks leaves as it is *)
LEMMA SameShown ==
  ASSUME UNCHANGED <<installed, fields, sdk31>>
  PROVE  SeenCaps' = SeenCaps /\ VpnIsRecognized' = VpnIsRecognized
<1>1. \A n : Shown(n)' = Shown(n)
  BY DEF Shown, stripVpnTransport, isVpnTransportPresent
<1> QED BY <1>1 DEF SeenCaps, VpnIsRecognized, looksVpn, isVpnTransportPresent

LEMMA SameWorld ==
  ASSUME UNCHANGED world, Basics
  PROVE  /\ FitFrames' = FitFrames
         /\ SeenCaps' = SeenCaps
         /\ VpnIsRecognized' = VpnIsRecognized
         /\ reports' \subseteq Hooks => Basics'
<1>1. SeenCaps' = SeenCaps /\ VpnIsRecognized' = VpnIsRecognized
  BY SameShown DEF world
<1>2. FitFrames' = FitFrames
  BY <1>1 DEF world, FitFrames, Fit
<1> QED BY <1>1, <1>2 DEF world, Basics

LEMMA SameAnswer ==
  ASSUME CapsShowNoVpn, PlainNetworksKept, UNCHANGED <<answer, installed, fields>>
  PROVE  (CapsShowNoVpn /\ PlainNetworksKept)'
  BY DEF CapsShowNoVpn, PlainNetworksKept, Answered

(* The innermost call goes on without asking anything. *)
LEMMA GoesOn ==
  ASSUME IInv, stack # << >>, UNCHANGED world, reports' \subseteq Hooks,
         NEW f \in FitFrames, f.m = Top.m, f.arg = Top.arg, f.at \notin Waiting, GoOn(f)
  PROVE  IInv'
<1>1. /\ stack' \in Seq(FitFrames) /\ Len(stack') = Len(stack) /\ stack' # << >>
      /\ stack'[1] = f /\ \A i \in 1 .. Len(stack) : i > 1 => stack'[i] = stack[i]
  BY Replaced DEF GoOn, IInv
<1>2. Top = stack[1] /\ Top' = f /\ Len(stack) \in Nat \ {0}
  BY <1>1, First, EmptySeq DEF Top, IInv
<1>3. \A i \in 1 .. Len(stack) : stack'[i].m = stack[i].m /\ stack'[i].arg = stack[i].arg
  BY <1>1, <1>2
<1>4. Called'
  <2> SUFFICES ASSUME NEW i \in 1 .. Len(stack), i > 1
               PROVE  /\ stack[i].at \in Waiting
                      /\ stack'[i - 1].m = Callee(stack[i]).m
                      /\ stack'[i - 1].arg = Callee(stack[i]).arg
    BY <1>1 DEF Called
  <2>1. i - 1 \in 1 .. Len(stack)
    BY <1>2
  <2> QED BY <1>3, <2>1 DEF Called, IInv
<1>5. Nested'
  <2> SUFFICES ASSUME NEW i \in 1 .. Len(stack), NEW j \in 1 .. Len(stack), i < j
               PROVE  Below(stack'[i], stack'[j])
    BY <1>1, SameWorld DEF Nested, Below, IInv
  <2>1. Below(stack[i], stack[j])
    BY DEF Nested, IInv
  <2> QED BY <1>3, <2>1, BelowSame
<1>6. Answers'
  BY <1>2 DEF Answers
<1>7. (CapsShowNoVpn /\ PlainNetworksKept)'
  BY SameAnswer DEF IInv, GoOn, world
<1> QED BY <1>1, <1>4, <1>5, <1>6, <1>7, SameWorld DEF IInv

(* It asks something and waits. *)
LEMMA AsksOne ==
  ASSUME IInv, stack # << >>, UNCHANGED world, reports' \subseteq Hooks,
         NEW f \in FitFrames, f.m = Top.m, f.arg = Top.arg, f.at \in Waiting,
         NEW m \in AppMethods, NEW n \in (IF m \in Asking THEN Net ELSE {Null}),
         m = Callee(f).m, n = Callee(f).arg, Below(Frame(m, n), f),
         stack' = <<Frame(m, n), f>> \o Tail(stack), UNCHANGED <<ret, answer>>
  PROVE  IInv'
<1> DEFINE g == Frame(m, n)
<1>1. g \in FitFrames /\ g.m = m /\ g.arg = n /\ g.at = "call"
  <2>1. g \in Frames
    BY EmptySeq DEF Frame, Frames, Results
  <2>2. g.m = m /\ g.arg = n /\ g.at = "call" /\ g.todo = << >>
    BY DEF Frame
  <2> QED BY <2>1, <2>2 DEF FitFrames, Fit
<1>2. /\ stack' \in Seq(FitFrames) /\ Len(stack') = Len(stack) + 1 /\ stack' # << >>
      /\ stack'[1] = g /\ stack'[2] = f
      /\ \A i \in 1 .. Len(stack') : i > 2 => i - 1 \in 2 .. Len(stack) /\ stack'[i] = stack[i - 1]
  <2>1. stack' = <<g, f>> \o Tail(stack)
    OBVIOUS
  <2> HIDE DEF g
  <2> QED BY <1>1, <2>1, Pushed DEF IInv
<1>9. Below(g, f)
  OBVIOUS
<1> HIDE DEF g
<1>3. Top = stack[1] /\ Top' = g /\ Len(stack) \in Nat \ {0}
  BY <1>2, First, EmptySeq DEF Top, IInv
<1>4. \A i \in 2 .. Len(stack') : /\ i - 1 \in 1 .. Len(stack)
                                  /\ stack'[i].m = stack[i - 1].m /\ stack'[i].arg = stack[i - 1].arg
  <2> SUFFICES ASSUME NEW i \in 2 .. Len(stack')
               PROVE  /\ i - 1 \in 1 .. Len(stack)
                      /\ stack'[i].m = stack[i - 1].m /\ stack'[i].arg = stack[i - 1].arg
    OBVIOUS
  <2>1. CASE i = 2
    BY <1>2, <1>3, <2>1
  <2>2. CASE i > 2
    BY <1>2, <1>3, <2>2
  <2> QED BY <2>1, <2>2
<1>5. Called'
  <2> SUFFICES ASSUME NEW i \in 1 .. Len(stack'), i > 1
               PROVE  /\ stack'[i].at \in Waiting
                      /\ stack'[i - 1].m = Callee(stack'[i]).m
                      /\ stack'[i - 1].arg = Callee(stack'[i]).arg
    BY DEF Called
  <2>1. CASE i = 2
    BY <1>1, <1>2, <2>1
  <2>2. CASE i > 2
    <3>1. i - 1 \in 2 .. Len(stack') /\ i - 1 \in 1 .. Len(stack) /\ i - 1 > 1
      BY <1>2, <1>3, <2>2
    <3>2. stack'[i - 1].m = stack[(i - 1) - 1].m /\ stack'[i - 1].arg = stack[(i - 1) - 1].arg
      BY <1>4, <3>1
    <3>3. stack'[i] = stack[i - 1]
      BY <1>2, <2>2
    <3> QED BY <3>1, <3>2, <3>3 DEF Called, IInv
  <2> QED BY <1>3, <2>1, <2>2
<1>6. Nested'
  <2> SUFFICES ASSUME NEW i \in 1 .. Len(stack'), NEW j \in 1 .. Len(stack'), i < j
               PROVE  Below(stack'[i], stack'[j])
    BY SameWorld DEF Nested, Below, IInv
  <2>1. /\ j \in 2 .. Len(stack') /\ j - 1 \in 1 .. Len(stack)
        /\ stack'[j].m = stack[j - 1].m /\ stack'[j].arg = stack[j - 1].arg
    BY <1>2, <1>3, <1>4
  <2>2. CASE i > 1
    <3>1. /\ i \in 2 .. Len(stack') /\ i - 1 \in 1 .. Len(stack) /\ i - 1 < j - 1
          /\ stack'[i].m = stack[i - 1].m /\ stack'[i].arg = stack[i - 1].arg
      BY <1>2, <1>3, <1>4, <2>2
    <3>2. Below(stack[i - 1], stack[j - 1])
      BY <2>1, <3>1 DEF Nested, IInv
    <3> QED BY <2>1, <3>1, <3>2, BelowSame
  <2>3. CASE i = 1
    <3>1. Below(g, stack[1])
      BY <1>3, <1>9, BelowSame
    <3>2. Below(g, stack[j - 1])
      <4>1. CASE j = 2
        BY <3>1, <4>1
      <4>2. CASE j > 2
        <5>1. 1 \in 1 .. Len(stack) /\ 1 < j - 1
          BY <1>3, <2>1, <4>2
        <5>2. Below(stack[1], stack[j - 1])
          BY <2>1, <5>1 DEF Nested, IInv
        <5> QED BY <3>1, <5>2, BelowTrans
      <4> QED BY <2>1, <4>1, <4>2
    <3> QED BY <1>2, <2>1, <2>3, <3>2, BelowSame
  <2> QED BY <1>2, <1>3, <2>2, <2>3
<1>7. Answers'
  BY <1>1, <1>3 DEF Answers, Waiting
<1>8. (CapsShowNoVpn /\ PlainNetworksKept)'
  BY SameAnswer DEF IInv, world
<1> QED BY <1>2, <1>5, <1>6, <1>7, <1>8, SameWorld DEF IInv

-----------------------------------------------------------------------------
(* What getNetworkCapabilities shows of a network *)
LEMMA StrippedCaps ==
  ASSUME NEW n \in Net, fields, "getNetworkCapabilities" \in installed
  PROVE  /\ "VPN" \notin SeenCaps[n].transports
         /\ SeenCaps[n].transports = {} => CapsOf(n).transports = {}
         /\ SeenCaps[n].notVpn
<1>1. SeenCaps[n] = stripVpnTransport(CapsOf(n))
  BY DEF SeenCaps, Shown
<1>2. CASE "VPN" \in CapsOf(n).transports
  <2> DEFINE rest == CapsOf(n).transports \ {"VPN"}
             shown == IF rest = {} THEN {"WIFI"} ELSE rest
  <2>1. SeenCaps[n] = [transports |-> shown, notVpn |-> TRUE]
    BY <1>1, <1>2 DEF stripVpnTransport, isVpnTransportPresent
  <2>2. "VPN" \notin shown /\ shown # {}
    OBVIOUS
  <2> HIDE DEF shown
  <2> QED BY <2>1, <2>2
<1>3. CASE "VPN" \notin CapsOf(n).transports
  <2>1. SeenCaps[n] = CapsOf(n)
    BY <1>1, <1>3 DEF stripVpnTransport, isVpnTransportPresent
  <2>2. n \notin Vpn
    BY <1>3 DEF CapsOf
  <2>3. CapsOf(n).notVpn
    BY <2>2 DEF CapsOf
  <2> QED BY <1>3, <2>1, <2>3
<1> QED BY <1>2, <1>3

LEMMA PlainCaps ==
  ASSUME NEW n \in Net, n \notin Vpn
  PROVE  SeenCaps[n] = CapsOf(n) /\ "VPN" \notin CapsOf(n).transports
<1>1. "VPN" \notin CapsOf(n).transports
  BY NetAssumption DEF CapsOf
<1> QED BY <1>1 DEF SeenCaps, Shown, stripVpnTransport, isVpnTransportPresent

(* The innermost call returns. *)
LEMMA Returns ==
  ASSUME IInv, stack # << >>, UNCHANGED world, reports' \subseteq Hooks,
         NEW v, Return(v), Right(SeenCaps, Top.m, Top.arg, v),
         Top.m = "getAllNetworks" /\ "getAllNetworks" \in installed => KeepsPlain(v, Top.all)
  PROVE  IInv'
<1>1. /\ stack' \in Seq(FitFrames) /\ Len(stack') = Len(stack) - 1
      /\ \A i \in 1 .. Len(stack) - 1 : i + 1 \in 1 .. Len(stack) /\ stack'[i] = stack[i + 1]
      /\ Len(stack) = 1 => stack' = << >>
  BY Popped DEF Return, IInv
<1>2. Top = stack[1] /\ 1 \in 1 .. Len(stack) /\ Len(stack) \in Nat \ {0} /\ Top \in FitFrames
  BY First, EmptySeq DEF Top, IInv
<1>3. Called'
  <2> SUFFICES ASSUME NEW i \in 1 .. Len(stack'), i > 1
               PROVE  /\ stack'[i].at \in Waiting
                      /\ stack'[i - 1].m = Callee(stack'[i]).m
                      /\ stack'[i - 1].arg = Callee(stack'[i]).arg
    BY DEF Called
  <2>1. /\ i + 1 \in 1 .. Len(stack) /\ i + 1 > 1 /\ (i + 1) - 1 = i
        /\ stack'[i] = stack[i + 1]
    BY <1>1
  <2>2. i - 1 \in 1 .. Len(stack) - 1 /\ (i - 1) + 1 = i
    BY <1>1, <1>2
  <2>3. stack'[i - 1] = stack[i]
    BY <1>1, <2>2
  <2> QED BY <2>1, <2>3 DEF Called, IInv
<1>4. Nested'
  <2> SUFFICES ASSUME NEW i \in 1 .. Len(stack'), NEW j \in 1 .. Len(stack'), i < j
               PROVE  Below(stack'[i], stack'[j])
    BY SameWorld DEF Nested, Below, IInv
  <2>1. /\ i + 1 \in 1 .. Len(stack) /\ stack'[i] = stack[i + 1]
        /\ j + 1 \in 1 .. Len(stack) /\ stack'[j] = stack[j + 1] /\ i + 1 < j + 1
    BY <1>1
  <2> QED BY <2>1 DEF Nested, IInv
<1>5. Answers' /\ (CapsShowNoVpn /\ PlainNetworksKept)'
  <2>1. CASE Len(stack) = 1
    <3>1. answer' = [m |-> Top.m, arg |-> Top.arg, all |-> Top.all, value |-> v]
      BY <2>1 DEF Return
    <3>2. /\ answer'.m = Top.m /\ answer'.arg = Top.arg
          /\ answer'.all = Top.all /\ answer'.value = v
      BY <3>1
    <3>3. installed' = installed /\ fields' = fields
      BY DEF world
    <3>4. CapsShowNoVpn'
      <4> SUFFICES ASSUME Top.m = "getNetworkCapabilities", v # Null, fields,
                          "getNetworkCapabilities" \in installed
                   PROVE  /\ "VPN" \notin v.transports
                          /\ v.transports = {} => CapsOf(Top.arg).transports = {}
                          /\ v.notVpn
        BY <3>2, <3>3 DEF CapsShowNoVpn, Answered
      <4>1. v = SeenCaps[Top.arg] /\ Top.arg \in Net
        BY <1>2 DEF Right, FitFrames, Fit, Asking
      <4> QED BY <4>1, StrippedCaps
    <3>5. PlainNetworksKept'
      <4>1. Top.m = "getNetworkCapabilities" /\ Top.arg \notin Vpn =>
              v = Null \/ v = CapsOf(Top.arg)
        <5>1. Top.m = "getNetworkCapabilities" => Top.arg \in Net
          BY <1>2 DEF FitFrames, Fit, Asking
        <5> QED BY <5>1, PlainCaps DEF Right
      <4>2. Top.m = "getLinkProperties" /\ Top.arg \notin Vpn => v \in {Null, Top.arg}
        BY DEF Right
      <4> QED BY <3>2, <3>3, <4>1, <4>2 DEF PlainNetworksKept, Answered
    <3>6. Answers'
      BY <1>1, <2>1 DEF Answers
    <3> QED BY <3>4, <3>5, <3>6
  <2>2. CASE Len(stack) # 1
    <3>1. answer' = Null /\ ret' = [m |-> Top.m, value |-> v]
      BY <2>2 DEF Return
    <3>2. (CapsShowNoVpn /\ PlainNetworksKept)'
      BY <3>1 DEF CapsShowNoVpn, PlainNetworksKept, Answered
    <3>3. 2 \in 1 .. Len(stack) /\ 1 \in 1 .. Len(stack) - 1
      <4>1. \A k \in Nat \ {0} : k # 1 => 2 \in 1 .. k /\ 1 \in 1 .. k - 1
        OBVIOUS
      <4> QED BY <1>2, <2>2, <4>1
    <3>4. Top' = stack[2]
      <4>1. stack' # << >> /\ stack'[1] = stack[2]
        <5>1. stack'[1] = stack[1 + 1]
          BY <1>1, <3>3
        <5> QED BY <1>1, <3>3, <5>1
      <4> QED BY <1>1, <4>1, First DEF Top
    <3>5. Callee(stack[2]).m = Top.m /\ Callee(stack[2]).arg = Top.arg
      <4>1. 2 > 1 /\ 2 - 1 = 1
        OBVIOUS
      <4> QED BY <1>2, <3>3, <4>1 DEF Called, IInv
    <3>6. Answers'
      <4>1. Right(SeenCaps, Callee(stack[2]).m, Callee(stack[2]).arg, v)
        BY <3>5
      <4> QED BY <3>1, <3>4, <4>1, SameWorld DEF Answers, IInv
    <3> QED BY <3>2, <3>6
  <2> QED BY <2>1, <2>2
<1> QED BY <1>1, <1>3, <1>4, <1>5, SameWorld DEF IInv

(* The system's own array keeps everything. *)
LEMMA KeepsAll == ASSUME NEW all \in Seq(Net) PROVE KeepsPlain(all, all)
<1> DEFINE f == [i \in 1 .. Len(all) |-> i]
<1>1. Len(all) \in Nat
  BY LenProperties
<1>2. f \in [1 .. Len(all) -> 1 .. Len(all)] /\ \A i \in 1 .. Len(all) : f[i] = i
  OBVIOUS
<1> HIDE DEF f
<1> QED BY <1>1, <1>2 DEF KeepsPlain

(* The innermost call asks something and waits, or overflows the stack. *)
LEMMA Asks ==
  ASSUME IInv, stack # << >>, UNCHANGED world, reports' \subseteq Hooks,
         NEW f \in FitFrames, f.m = Top.m, f.arg = Top.arg, f.at \in Waiting, f.all = Top.all,
         NEW m \in AppMethods, NEW n \in (IF m \in Asking THEN Net ELSE {Null}),
         m = Callee(f).m, n = Callee(f).arg, Below(Frame(m, n), f), Invoke(f, m, n)
  PROVE  IInv'
<1>1. CASE stack' = <<Frame(m, n), f>> \o Tail(stack) /\ UNCHANGED <<ret, answer>>
  BY <1>1, AsksOne
<1>2. CASE stack' = << >> /\ ret' = Null /\ answer' = Null
  <2>1. stack' \in Seq(FitFrames) /\ Len(stack') = 0
    BY <1>2, EmptySeq
  <2>2. Called' /\ Nested' /\ Answers'
    BY <1>2, <2>1 DEF Called, Nested, Answers
  <2>3. (CapsShowNoVpn /\ PlainNetworksKept)'
    BY <1>2 DEF CapsShowNoVpn, PlainNetworksKept, Answered
  <2> QED BY <2>1, <2>2, <2>3, SameWorld DEF IInv
<1>3. CASE Return(Original(f))
  <2>1. f \in Frames /\ Fit(f)
    BY DEF FitFrames
  <2>2. f.all \in Seq(Net)
    BY <2>1 DEF Frames
  <2>3. f.m # "getNetworkCapabilities"
    BY <2>1 DEF Fit, Waiting
  <2>4. f.m = "getLinkProperties" => f.arg \in Vpn /\ f.res \in Net
    BY <2>1 DEF Fit, Waiting
  <2>5. Right(SeenCaps, Top.m, Top.arg, Original(f))
    BY <2>2, <2>3, <2>4 DEF Right, Original
  <2>6. Top.m = "getAllNetworks" => KeepsPlain(Original(f), Top.all)
    BY <2>2, KeepsAll DEF Original
  <2> QED BY <1>3, <2>5, <2>6, Returns
<1> QED BY <1>1, <1>2, <1>3 DEF Invoke, Overflow

-----------------------------------------------------------------------------
(* How the result of getAllNetworks grows *)
LEMMA KeepsNothing == KeepsPlain(<< >>, << >>)
<1>1. Len(<< >>) = 0
  BY EmptySeq
<1>2. ASSUME NEW some, NEW all, Len(some) = 0, Len(all) = 0 PROVE KeepsPlain(some, all)
  <2> DEFINE f == [i \in 1 .. Len(some) |-> 0]
  <2>1. \A i \in 1 .. Len(some) : FALSE
    BY <1>2
  <2>2. \A i \in 1 .. Len(all) : FALSE
    BY <1>2
  <2>3. f \in [1 .. Len(some) -> 1 .. Len(all)]
    BY <2>1
  <2> HIDE DEF f
  <2> QED BY <2>1, <2>2, <2>3 DEF KeepsPlain
<1> QED BY <1>1, <1>2

LEMMA KeepsOne ==
  ASSUME NEW some \in Seq(Net), NEW seen \in Seq(Net), NEW n \in Net, KeepsPlain(some, seen)
  PROVE  KeepsPlain(Append(some, n), Append(seen, n))
<1> DEFINE a == Append(some, n)
           b == Append(seen, n)
<1>1. /\ Len(a) = Len(some) + 1 /\ a[Len(some) + 1] = n /\ \A i \in 1 .. Len(some) : a[i] = some[i]
      /\ Len(b) = Len(seen) + 1 /\ b[Len(seen) + 1] = n /\ \A i \in 1 .. Len(seen) : b[i] = seen[i]
      /\ Len(some) \in Nat /\ Len(seen) \in Nat
  BY AppendProperties, LenProperties
<1> HIDE DEF a, b
<1>2. PICK f \in [1 .. Len(some) -> 1 .. Len(seen)] :
        /\ \A i, j \in 1 .. Len(some) : i < j => f[i] < f[j]
        /\ \A i \in 1 .. Len(some) : some[i] = seen[f[i]]
        /\ \A k \in 1 .. Len(seen) : seen[k] \notin Vpn => \E i \in 1 .. Len(some) : f[i] = k
  BY DEF KeepsPlain
<1> DEFINE g == [i \in 1 .. Len(a) |-> IF i = Len(a) THEN Len(b) ELSE f[i]]
<1>3. g \in [1 .. Len(a) -> 1 .. Len(b)]
  <2> SUFFICES ASSUME NEW i \in 1 .. Len(a), i # Len(a) PROVE f[i] \in 1 .. Len(b)
    BY <1>1
  <2>1. i \in 1 .. Len(some)
    BY <1>1
  <2> QED BY <1>1, <1>2, <2>1
<1>4. g[Len(a)] = Len(b) /\ \A i \in 1 .. Len(some) : g[i] = f[i] /\ f[i] \in 1 .. Len(seen)
  <2>1. Len(a) \in 1 .. Len(a) /\ \A i \in 1 .. Len(some) : i \in 1 .. Len(a) /\ i # Len(a)
    BY <1>1
  <2>2. \A i \in 1 .. Len(some) : f[i] \in 1 .. Len(seen)
    BY <1>2
  <2> QED BY <2>1, <2>2
<1>5. \A i, j \in 1 .. Len(a) : i < j => g[i] < g[j]
  <2> SUFFICES ASSUME NEW i \in 1 .. Len(a), NEW j \in 1 .. Len(a), i < j PROVE g[i] < g[j]
    OBVIOUS
  <2>1. i \in 1 .. Len(some) /\ f[i] \in 1 .. Len(seen) /\ g[i] = f[i]
    <3>1. \A k, l \in Nat : \A x \in 1 .. k, y \in 1 .. k : k = l + 1 /\ x < y => x \in 1 .. l
      OBVIOUS
    <3>2. i \in 1 .. Len(some)
      BY <1>1, <3>1
    <3> QED BY <1>4, <3>2
  <2>2. CASE j = Len(a)
    <3>1. g[j] = Len(b)
      BY <1>4, <2>2
    <3> QED BY <1>1, <2>1, <3>1
  <2>3. CASE j # Len(a)
    <3>1. j \in 1 .. Len(some) /\ g[j] = f[j]
      BY <1>1, <1>4, <2>3
    <3> QED BY <1>2, <2>1, <3>1
  <2> QED BY <2>2, <2>3
<1>6. \A i \in 1 .. Len(a) : a[i] = b[g[i]]
  <2> SUFFICES ASSUME NEW i \in 1 .. Len(a) PROVE a[i] = b[g[i]]
    OBVIOUS
  <2>1. CASE i = Len(a)
    BY <1>1, <1>4, <2>1
  <2>2. CASE i # Len(a)
    <3>1. i \in 1 .. Len(some) /\ f[i] \in 1 .. Len(seen) /\ g[i] = f[i]
      BY <1>1, <1>4, <2>2
    <3>2. a[i] = some[i] /\ b[f[i]] = seen[f[i]]
      BY <1>1, <3>1
    <3> QED BY <1>2, <3>1, <3>2
  <2> QED BY <2>1, <2>2
<1>7. \A k \in 1 .. Len(b) : b[k] \notin Vpn => \E i \in 1 .. Len(a) : g[i] = k
  <2> SUFFICES ASSUME NEW k \in 1 .. Len(b), b[k] \notin Vpn PROVE \E i \in 1 .. Len(a) : g[i] = k
    OBVIOUS
  <2>1. CASE k = Len(b)
    <3>1. Len(a) \in 1 .. Len(a)
      BY <1>1
    <3> QED BY <1>4, <2>1, <3>1
  <2>2. CASE k # Len(b)
    <3>1. k \in 1 .. Len(seen) /\ seen[k] \notin Vpn
      BY <1>1, <2>2
    <3>2. PICK i \in 1 .. Len(some) : f[i] = k
      BY <1>2, <3>1
    <3>3. i \in 1 .. Len(a) /\ g[i] = k
      BY <1>1, <1>4, <3>2
    <3> QED BY <3>3
  <2> QED BY <2>1, <2>2
<1> HIDE DEF g
<1> QED BY <1>3, <1>5, <1>6, <1>7 DEF KeepsPlain, a, b

LEMMA KeepsWithout ==
  ASSUME NEW some \in Seq(Net), NEW seen \in Seq(Net), NEW n \in Vpn, KeepsPlain(some, seen)
  PROVE  KeepsPlain(some, Append(seen, n))
<1> DEFINE b == Append(seen, n)
<1>1. /\ Len(b) = Len(seen) + 1 /\ b[Len(seen) + 1] = n /\ \A i \in 1 .. Len(seen) : b[i] = seen[i]
      /\ Len(some) \in Nat /\ Len(seen) \in Nat
  BY AppendProperties, LenProperties, NetAssumption
<1> HIDE DEF b
<1>2. PICK f \in [1 .. Len(some) -> 1 .. Len(seen)] :
        /\ \A i, j \in 1 .. Len(some) : i < j => f[i] < f[j]
        /\ \A i \in 1 .. Len(some) : some[i] = seen[f[i]]
        /\ \A k \in 1 .. Len(seen) : seen[k] \notin Vpn => \E i \in 1 .. Len(some) : f[i] = k
  BY DEF KeepsPlain
<1>3. f \in [1 .. Len(some) -> 1 .. Len(b)]
  BY <1>1, <1>2
<1>4. \A i \in 1 .. Len(some) : some[i] = b[f[i]]
  BY <1>1, <1>2
<1>5. \A k \in 1 .. Len(b) : b[k] \notin Vpn => \E i \in 1 .. Len(some) : f[i] = k
  <2> SUFFICES ASSUME NEW k \in 1 .. Len(b), b[k] \notin Vpn PROVE \E i \in 1 .. Len(some) : f[i] = k
    OBVIOUS
  <2>1. k \in 1 .. Len(seen) /\ b[k] = seen[k]
    BY <1>1
  <2> QED BY <1>2, <2>1
<1> QED BY <1>2, <1>3, <1>4, <1>5 DEF KeepsPlain, b

LEMMA LooksAtNext ==
  ASSUME NEW seen \in Seq(Net), NEW todo \in Seq(Net), todo # << >>
  PROVE  /\ Append(seen, Head(todo)) \in Seq(Net)
         /\ seen \o todo = Append(seen, Head(todo)) \o Tail(todo)
<1> DEFINE h == Head(todo)
           t == Tail(todo)
           b == Append(seen, h)
<1>1. /\ h \in Net /\ h = todo[1] /\ t \in Seq(Net) /\ Len(t) = Len(todo) - 1
      /\ \A i \in 1 .. Len(t) : t[i] = todo[i + 1]
      /\ Len(todo) \in Nat \ {0} /\ Len(seen) \in Nat
  BY First, HeadTailProperties, EmptySeq, LenProperties
<1> HIDE DEF h, t
<1>2. /\ b \in Seq(Net) /\ Len(b) = Len(seen) + 1 /\ b[Len(seen) + 1] = h
      /\ \A i \in 1 .. Len(seen) : b[i] = seen[i]
  BY <1>1, AppendProperties
<1> HIDE DEF b
<1>3. /\ seen \o todo \in Seq(Net) /\ Len(seen \o todo) = Len(seen) + Len(todo)
      /\ \A i \in 1 .. Len(seen) + Len(todo) :
           (seen \o todo)[i] = IF i <= Len(seen) THEN seen[i] ELSE todo[i - Len(seen)]
  BY ConcatProperties
<1>4. /\ b \o t \in Seq(Net) /\ Len(b \o t) = Len(b) + Len(t)
      /\ \A i \in 1 .. Len(b) + Len(t) :
           (b \o t)[i] = IF i <= Len(b) THEN b[i] ELSE t[i - Len(b)]
  BY <1>1, <1>2, ConcatProperties
<1>5. Len(seen) + Len(todo) = Len(b) + Len(t)
  BY <1>1, <1>2
<1>6. \A i \in 1 .. Len(seen) + Len(todo) : (seen \o todo)[i] = (b \o t)[i]
  <2> SUFFICES ASSUME NEW i \in 1 .. Len(seen) + Len(todo) PROVE (seen \o todo)[i] = (b \o t)[i]
    OBVIOUS
  <2>1. CASE i <= Len(seen)
    <3>1. i \in 1 .. Len(seen) /\ i <= Len(b)
      BY <1>1, <1>2, <2>1
    <3> QED BY <1>2, <1>3, <1>4, <1>5, <2>1, <3>1
  <2>2. CASE i = Len(seen) + 1
    <3>1. i - Len(seen) = 1 /\ ~(i <= Len(seen)) /\ i <= Len(b)
      BY <1>1, <1>2, <2>2
    <3> QED BY <1>1, <1>2, <1>3, <1>4, <1>5, <2>2, <3>1
  <2>3. CASE i > Len(seen) + 1
    <3>1. /\ ~(i <= Len(seen)) /\ ~(i <= Len(b))
          /\ i - Len(b) \in 1 .. Len(t) /\ (i - Len(b)) + 1 = i - Len(seen)
      BY <1>1, <1>2, <2>3
    <3> QED BY <1>1, <1>3, <1>4, <1>5, <3>1
  <2>4. \A k, l \in Int : k <= l \/ k = l + 1 \/ k > l + 1
    OBVIOUS
  <2>5. i \in Int /\ Len(seen) \in Int
    BY <1>1
  <2> QED BY <2>1, <2>2, <2>3, <2>4, <2>5
<1>7. seen \o todo = b \o t
  BY <1>3, <1>4, <1>5, <1>6, SeqEqual
<1> QED BY <1>2, <1>7 DEF h, t, b

-----------------------------------------------------------------------------
(* The steps.  First what the frame of the innermost call is like. *)
LEMMA TopFits ==
  ASSUME IInv, stack # << >>
  PROVE  /\ Top \in Frames /\ Fit(Top) /\ Top.m \in Hooks
         /\ Top.m \in AppMethods /\ Top.arg \in Net \cup {Null}
         /\ Top.todo \in Seq(Net)
<1>1. Top \in FitFrames
  BY First DEF IInv, Top
<1> QED BY <1>1 DEF FitFrames, Frames, AppMethods

LEMMA AsksCaps == ASSUME IInv, GetNetworkCapabilities PROVE IInv'
<1>1. /\ stack # << >> /\ Top.m = "getNetworkCapabilities" /\ UNCHANGED world /\ IInv
      /\ Top.arg \in Net
  BY TopFits DEF GetNetworkCapabilities, At, Fit, Asking
<1>2. reports' \subseteq Hooks
  BY <1>1 DEF GetNetworkCapabilities, Report, IInv, Basics, Hooks
<1>3. PICK v : Return(v) /\ (v = Null \/ v = SeenCaps[Top.arg])
  BY <1>1 DEF GetNetworkCapabilities, SeenCaps, Shown, Hooked
<1>4. Right(SeenCaps, Top.m, Top.arg, v)
  BY <1>1, <1>3 DEF Right
<1> QED BY <1>1, <1>2, <1>3, <1>4, Returns

(* The system's arrays of networks *)
LEMMA ArraysAreSeqs == ASSUME Basics PROVE Arrays \subseteq Seq(Net)
<1>1. IsFiniteSet(up)
  BY NetAssumption, FS_Subset DEF Basics
<1>2. Cardinality(up) \in Nat
  BY <1>1, FS_CardinalityType
<1> QED BY <1>2, SeqDef DEF Arrays, Basics

LEMMA ActiveIsNetwork == ASSUME Basics PROVE ActiveNetworks \subseteq Net \cup {Null}
  BY DEF Basics, ActiveNetworks

LEMMA AsksInfo == ASSUME IInv, GetAllNetworkInfo \/ GetActiveNetworkInfo PROVE IInv'
<1>1. /\ stack # << >> /\ Top.m \in {"getAllNetworkInfo", "getActiveNetworkInfo"}
      /\ UNCHANGED world /\ IInv
  BY DEF GetAllNetworkInfo, GetActiveNetworkInfo, At
<1>2. reports' \subseteq Hooks
  BY <1>1 DEF GetAllNetworkInfo, GetActiveNetworkInfo, Report, IInv, Basics, Hooks
<1>3. \E v : Return(v)
  BY DEF GetAllNetworkInfo, GetActiveNetworkInfo
<1>4. PICK v : Return(v)
  BY <1>3
<1>5. Right(SeenCaps, Top.m, Top.arg, v)
  BY <1>1 DEF Right
<1> QED BY <1>1, <1>2, <1>4, <1>5, Returns

LEMMA AsksAll == ASSUME IInv, GetAllNetworks PROVE IInv'
<1>1. /\ stack # << >> /\ Top.m = "getAllNetworks" /\ UNCHANGED world /\ IInv
      /\ reports' \subseteq Hooks
  BY DEF GetAllNetworks, At, IInv, Basics
<1>2. PICK s \in Arrays :
        IF Hooked(Top.m)
        THEN GoOn([Top EXCEPT !.at = "next", !.res = << >>, !.todo = s, !.all = s])
        ELSE Return(s)
  BY DEF GetAllNetworks
<1>3. s \in Seq(Net)
  BY ArraysAreSeqs DEF IInv
<1>4. CASE Hooked(Top.m)
  <2> DEFINE f == [Top EXCEPT !.at = "next", !.res = << >>, !.todo = s, !.all = s]
  <2>1. << >> \in Seq(Net) /\ << >> \o s = s
    BY <1>3, EmptySeq, ConcatEmptySeq
  <2>2. /\ f \in Frames /\ f.m = Top.m /\ f.arg = Top.arg /\ f.at = "next"
        /\ f.res = << >> /\ f.todo = s /\ f.all = s
    BY <1>1, <1>3, <2>1, TopFits DEF Frames, Results
  <2> HIDE DEF f
  <2>3. Fit(f)
    <3>1. \E seen \in Seq(Net) : f.all = seen \o f.todo /\ KeepsPlain(f.res, seen)
      BY <2>1, <2>2, KeepsNothing
    <3>2. f.arg \in (IF f.m \in Asking THEN Net ELSE {Null})
      BY <1>1, <2>2, TopFits DEF Fit
    <3> QED BY <1>1, <2>1, <2>2, <3>1, <3>2 DEF Fit
  <2>4. GoOn(f)
    BY <1>2, <1>4 DEF f
  <2> QED BY <1>1, <2>2, <2>3, <2>4, GoesOn DEF FitFrames, Waiting
<1>5. CASE ~Hooked(Top.m)
  <2>1. Return(s) /\ "getAllNetworks" \notin installed
    BY <1>1, <1>2, <1>5 DEF Hooked
  <2>2. Right(SeenCaps, Top.m, Top.arg, s)
    BY <1>1, <1>3 DEF Right
  <2> QED BY <1>1, <2>1, <2>2, Returns
<1> QED BY <1>4, <1>5

LEMMA AsksActive == ASSUME IInv, GetActiveNetwork PROVE IInv'
<1>1. /\ stack # << >> /\ Top.m = "getActiveNetwork" /\ UNCHANGED world /\ IInv
      /\ reports' \subseteq Hooks
  BY DEF GetActiveNetwork, At, IInv, Basics
<1>2. PICK n \in ActiveNetworks :
        IF Hooked(Top.m) /\ n # Null
        THEN Invoke([Top EXCEPT !.at = "own", !.res = n], "getNetworkCapabilities", n)
        ELSE Return(n)
  BY DEF GetActiveNetwork
<1>3. CASE Hooked(Top.m) /\ n # Null
  <2> DEFINE f == [Top EXCEPT !.at = "own", !.res = n]
  <2>1. n \in Net
    BY <1>3, ActiveIsNetwork DEF IInv
  <2>2. /\ f \in Frames /\ f.m = Top.m /\ f.arg = Top.arg /\ f.at = "own" /\ f.res = n
        /\ f.all = Top.all
    BY <1>1, <2>1, TopFits DEF Frames, Results, Waiting
  <2> HIDE DEF f
  <2>3. Fit(f)
    BY <1>1, <2>1, <2>2, TopFits DEF Fit
  <2>4. /\ Callee(f).m = "getNetworkCapabilities" /\ Callee(f).arg = n
        /\ Below(Frame("getNetworkCapabilities", n), f)
    BY <1>1, <2>2 DEF Callee, Below, Rank, Frame
  <2>5. Invoke(f, "getNetworkCapabilities", n)
    BY <1>2, <1>3 DEF f
  <2>6. "getNetworkCapabilities" \in AppMethods /\ "getNetworkCapabilities" \in Asking
    BY DEF AppMethods, Hooks, Asking
  <2> QED BY <1>1, <2>1, <2>2, <2>3, <2>4, <2>5, <2>6, Asks DEF FitFrames, Waiting
<1>4. CASE ~(Hooked(Top.m) /\ n # Null)
  <2>1. Return(n)
    BY <1>2, <1>4
  <2>2. Right(SeenCaps, Top.m, Top.arg, n)
    BY <1>1 DEF Right
  <2> QED BY <1>1, <2>1, <2>2, Returns
<1> QED BY <1>3, <1>4

LEMMA LooksAtOwn == ASSUME IInv, OwnCaps PROVE IInv'
<1>1. /\ stack # << >> /\ Top.m = "getActiveNetwork" /\ UNCHANGED world /\ IInv
      /\ reports' \subseteq Hooks
  BY DEF OwnCaps, At, IInv, Basics
<1> DEFINE f == [Top EXCEPT !.at = "all"]
<1>2. Return(Top.res) \/ Invoke(f, "getAllNetworks", Null)
  BY DEF OwnCaps
<1>3. CASE Return(Top.res)
  <2>1. Right(SeenCaps, Top.m, Top.arg, Top.res)
    BY <1>1 DEF Right
  <2> QED BY <1>1, <1>3, <2>1, Returns
<1>4. CASE Invoke(f, "getAllNetworks", Null)
  <2>1. f \in Frames /\ f.m = Top.m /\ f.arg = Top.arg /\ f.at = "all" /\ f.all = Top.all
    BY <1>1, TopFits DEF Frames, Waiting
  <2> HIDE DEF f
  <2>2. Fit(f)
    BY <1>1, <2>1, TopFits DEF Fit
  <2>3. /\ Callee(f).m = "getAllNetworks" /\ Callee(f).arg = Null
        /\ Below(Frame("getAllNetworks", Null), f)
    BY <1>1, <2>1 DEF Callee, Below, Rank, Frame
  <2>4. "getAllNetworks" \in AppMethods /\ "getAllNetworks" \notin Asking
    BY DEF AppMethods, Hooks, Asking
  <2> QED BY <1>1, <1>4, <2>1, <2>2, <2>3, <2>4, Asks DEF FitFrames, Waiting
<1> QED BY <1>2, <1>3, <1>4

LEMMA AsksLink == ASSUME IInv, GetLinkProperties PROVE IInv'
<1>1. /\ stack # << >> /\ Top.m = "getLinkProperties" /\ UNCHANGED world /\ IInv
      /\ Top.arg \in Net
  BY TopFits DEF GetLinkProperties, At, Fit, Asking
<1>2. reports' \subseteq Hooks
  BY <1>1 DEF GetLinkProperties, Report, NameReport, IInv, Basics, Hooks
<1> DEFINE f == [Top EXCEPT !.at = "all", !.res = Top.arg]
<1>3. \/ Return(Null) \/ Return(Top.arg)
      \/ isVpnInterfaceName(Top.arg) /\ Invoke(f, "getAllNetworks", Null)
  BY DEF GetLinkProperties
<1>4. CASE Return(Null) \/ Return(Top.arg)
  <2>1. Right(SeenCaps, Top.m, Top.arg, Null) /\ Right(SeenCaps, Top.m, Top.arg, Top.arg)
    BY <1>1 DEF Right
  <2> QED BY <1>1, <1>2, <1>4, <2>1, Returns
<1>5. CASE isVpnInterfaceName(Top.arg) /\ Invoke(f, "getAllNetworks", Null)
  <2>1. /\ f \in Frames /\ f.m = Top.m /\ f.arg = Top.arg /\ f.at = "all" /\ f.res = Top.arg
        /\ f.all = Top.all
    BY <1>1, TopFits DEF Frames, Waiting, Results
  <2> HIDE DEF f
  <2>2. Top.arg \in Vpn /\ "getInterfaceName" \notin installed
    BY <1>5 DEF isVpnInterfaceName
  <2>3. Fit(f)
    BY <1>1, <2>1, <2>2, TopFits DEF Fit
  <2>4. /\ Callee(f).m = "getAllNetworks" /\ Callee(f).arg = Null
        /\ Below(Frame("getAllNetworks", Null), f)
    BY <1>1, <2>1, <2>2 DEF Callee, Below, Rank, Frame
  <2>5. "getAllNetworks" \in AppMethods /\ "getAllNetworks" \notin Asking
    BY DEF AppMethods, Hooks, Asking
  <2> QED BY <1>1, <1>2, <1>5, <2>1, <2>3, <2>4, <2>5, Asks DEF FitFrames, Waiting
<1> QED BY <1>3, <1>4, <1>5

LEMMA HasAll == ASSUME IInv, AllNetworks PROVE IInv'
<1>1. /\ stack # << >> /\ Top.at = "all" /\ UNCHANGED world /\ IInv /\ reports' \subseteq Hooks
  BY DEF AllNetworks, IInv, Basics
<1>2. Top.m \in {"getActiveNetwork", "getLinkProperties"}
  BY <1>1, TopFits DEF Fit
<1>3. ret.value \in Seq(Net)
  BY <1>1 DEF IInv, Answers, Waiting, Callee, Right
<1> DEFINE f == [Top EXCEPT !.at = "next", !.todo = ret.value]
<1>4. /\ f \in Frames /\ f.m = Top.m /\ f.arg = Top.arg /\ f.at = "next" /\ f.res = Top.res
  BY <1>1, <1>3, TopFits DEF Frames
<1>5. GoOn(f)
  BY DEF AllNetworks
<1> HIDE DEF f
<1>6. Fit(f)
  BY <1>1, <1>2, <1>4, TopFits DEF Fit
<1> QED BY <1>1, <1>4, <1>5, <1>6, GoesOn DEF FitFrames, Waiting

LEMMA LooksAtOne == ASSUME IInv, NextNetwork PROVE IInv'
<1>1. /\ stack # << >> /\ Top.at = "next" /\ Top.todo # << >> /\ UNCHANGED world /\ IInv
      /\ reports' \subseteq Hooks
  BY DEF NextNetwork, IInv, Basics
<1>2. Top.m \in {"getAllNetworks", "getActiveNetwork", "getLinkProperties"}
  BY <1>1, TopFits DEF Fit
<1>3. Head(Top.todo) \in Net
  BY <1>1, TopFits, HeadTailProperties
<1> DEFINE f == [Top EXCEPT !.at = "caps"]
<1>4. /\ f \in Frames /\ f.m = Top.m /\ f.arg = Top.arg /\ f.at = "caps"
      /\ f.res = Top.res /\ f.todo = Top.todo /\ f.all = Top.all
  BY <1>1, TopFits DEF Frames, Waiting
<1>5. Invoke(f, "getNetworkCapabilities", Head(Top.todo))
  BY DEF NextNetwork
<1> HIDE DEF f
<1>6. Fit(f)
  BY <1>1, <1>2, <1>4, TopFits DEF Fit
<1>7. /\ Callee(f).m = "getNetworkCapabilities" /\ Callee(f).arg = Head(Top.todo)
      /\ Below(Frame("getNetworkCapabilities", Head(Top.todo)), f)
  BY <1>2, <1>4, <1>6 DEF Callee, Below, Rank, Frame, Fit
<1>8. "getNetworkCapabilities" \in AppMethods /\ "getNetworkCapabilities" \in Asking
  BY DEF AppMethods, Hooks, Asking
<1> QED BY <1>1, <1>3, <1>4, <1>5, <1>6, <1>7, <1>8, Asks DEF FitFrames, Waiting

LEMMA HasSeenAll == ASSUME IInv, Exhausted PROVE IInv'
<1>1. /\ stack # << >> /\ Top.at = "next" /\ Top.todo = << >> /\ UNCHANGED world /\ IInv
      /\ Return(Top.res)
  BY DEF Exhausted
<1>2. reports' \subseteq Hooks
  BY <1>1, TopFits DEF Exhausted, Report, IInv, Basics
<1>3. Right(SeenCaps, Top.m, Top.arg, Top.res)
  BY <1>1, TopFits DEF Fit, Right
<1>4. ASSUME Top.m = "getAllNetworks" PROVE KeepsPlain(Top.res, Top.all)
  <2>1. PICK seen \in Seq(Net) : Top.all = seen \o Top.todo /\ KeepsPlain(Top.res, seen)
    BY <1>1, <1>4, TopFits DEF Fit
  <2>2. Top.all = seen
    BY <1>1, <2>1, ConcatEmptySeq
  <2> QED BY <2>1, <2>2
<1> QED BY <1>1, <1>2, <1>3, <1>4, Returns

(* The network whose capabilities have come is not looked at any more. *)
LEMMA Skips ==
  ASSUME IInv, stack # << >>, UNCHANGED world, reports' \subseteq Hooks,
         Top.at \in {"caps", "link"}, Top.m # "getAllNetworks", GoOn(Skip(Top))
  PROVE  IInv'
<1> DEFINE f == Skip(Top)
<1>1. Top.m \in {"getActiveNetwork", "getLinkProperties"} /\ Top.todo # << >>
  BY TopFits DEF Fit
<1>2. Tail(Top.todo) \in Seq(Net)
  BY <1>1, TopFits, HeadTailProperties
<1>3. /\ f \in Frames /\ f.m = Top.m /\ f.arg = Top.arg /\ f.at = "next" /\ f.res = Top.res
  BY <1>2, TopFits DEF Frames, Skip
<1> HIDE DEF f
<1>4. Fit(f)
  BY <1>1, <1>3, TopFits DEF Fit
<1>5. GoOn(f)
  BY DEF f
<1> QED BY <1>3, <1>4, <1>5, GoesOn DEF FitFrames, Waiting

(* The capabilities that come are those of the network asked for. *)
LEMMA CapsCome ==
  ASSUME IInv, stack # << >>, Top.at = "caps"
  PROVE  /\ Top.todo # << >> /\ Head(Top.todo) \in Net
         /\ ret.value = Null \/ ret.value = SeenCaps[Head(Top.todo)]
<1>1. Top.todo # << >> /\ Head(Top.todo) \in Net
  BY TopFits, HeadTailProperties DEF Fit
<1> QED BY <1>1 DEF IInv, Answers, Waiting, Callee, Right

LEMMA FiltersNetwork == ASSUME IInv, FilterNetwork PROVE IInv'
<1>1. /\ stack # << >> /\ Top.m = "getAllNetworks" /\ Top.at = "caps" /\ UNCHANGED world /\ IInv
      /\ reports' \subseteq Hooks
  BY DEF FilterNetwork, At, IInv, Basics
<1> DEFINE n == Head(Top.todo)
<1>2. Top.todo # << >> /\ n \in Net /\ (ret.value = Null \/ ret.value = SeenCaps[n])
  BY <1>1, CapsCome
<1>3. PICK seen \in Seq(Net) : Top.all = seen \o Top.todo /\ KeepsPlain(Top.res, seen)
  BY <1>1, TopFits DEF Fit
<1>4. /\ Append(seen, n) \in Seq(Net) /\ Top.all = Append(seen, n) \o Tail(Top.todo)
      /\ Tail(Top.todo) \in Seq(Net) /\ Top.res \in Seq(Net)
  BY <1>1, <1>2, <1>3, TopFits, LooksAtNext, HeadTailProperties DEF Fit
<1>5. PICK res \in Seq(Net) : /\ GoOn([Skip(Top) EXCEPT !.res = res])
                              /\ KeepsPlain(res, Append(seen, n))
  <2>1. CASE ret.value # Null /\ isVpnTransportPresent(ret.value)
    <3>1. n \in Vpn
      BY <1>2, <2>1, PlainCaps DEF isVpnTransportPresent
    <3>2. [Skip(Top) EXCEPT !.res = Top.res] = Skip(Top)
      <4>1. Skip(Top) \in Frames /\ Skip(Top).res = Top.res
        BY <1>1, <1>4, TopFits DEF Frames, Skip
      <4> QED BY <4>1 DEF Frames
    <3> QED BY <1>3, <1>4, <2>1, <3>1, <3>2, KeepsWithout DEF FilterNetwork
  <2>2. CASE ~(ret.value # Null /\ isVpnTransportPresent(ret.value))
    <3>1. Append(Top.res, n) \in Seq(Net) /\ KeepsPlain(Append(Top.res, n), Append(seen, n))
      BY <1>2, <1>3, <1>4, KeepsOne, AppendProperties
    <3>2. Skip(Top).res = Top.res
      BY <1>1, <1>4, TopFits DEF Frames, Skip
    <3> QED BY <2>2, <3>1, <3>2 DEF FilterNetwork
  <2> QED BY <2>1, <2>2
<1> DEFINE f == [Skip(Top) EXCEPT !.res = res]
<1>6. /\ f \in Frames /\ f.m = Top.m /\ f.arg = Top.arg /\ f.at = "next"
      /\ f.res = res /\ f.todo = Tail(Top.todo) /\ f.all = Top.all
  BY <1>1, <1>4, <1>5, TopFits DEF Frames, Skip, Results
<1> HIDE DEF f
<1>7. Fit(f)
  <2>1. \E s \in Seq(Net) : f.all = s \o f.todo /\ KeepsPlain(f.res, s)
    BY <1>4, <1>5, <1>6
  <2>2. f.arg \in (IF f.m \in Asking THEN Net ELSE {Null})
    BY <1>6, TopFits, <1>1 DEF Fit
  <2> QED BY <1>1, <1>5, <1>6, <2>1, <2>2 DEF Fit
<1>8. GoOn(f)
  BY <1>5 DEF f
<1> QED BY <1>1, <1>6, <1>7, <1>8, GoesOn DEF FitFrames, Waiting

LEMMA FallsBack == ASSUME IInv, FallBack PROVE IInv'
<1>1. /\ stack # << >> /\ Top.m = "getActiveNetwork" /\ Top.at = "caps" /\ UNCHANGED world
      /\ IInv /\ reports' \subseteq Hooks
  BY DEF FallBack, At, IInv, Basics
<1>2. Return(Head(Top.todo)) \/ GoOn(Skip(Top))
  BY DEF FallBack
<1>3. Right(SeenCaps, Top.m, Top.arg, Head(Top.todo))
  BY <1>1 DEF Right
<1> QED BY <1>1, <1>2, <1>3, Returns, Skips

(* A network whose capabilities look plain is no VPN's, if VPNs are recognized:
   getLinkProperties only comes to ask when the interface name is not hooked. *)
LEMMA AsksUnderlying == ASSUME IInv, UnderlyingCaps PROVE IInv'
<1>1. /\ stack # << >> /\ Top.m = "getLinkProperties" /\ Top.at = "caps" /\ UNCHANGED world
      /\ IInv /\ reports' \subseteq Hooks
  BY DEF UnderlyingCaps, At, IInv, Basics
<1> DEFINE n == Head(Top.todo)
           f == [Top EXCEPT !.at = "link"]
<1>2. Top.todo # << >> /\ n \in Net /\ (ret.value = Null \/ ret.value = SeenCaps[n])
  BY <1>1, CapsCome
<1>3. Top.arg \in Vpn /\ Top.res \in Net /\ "getInterfaceName" \notin installed
  BY <1>1, TopFits DEF Fit
<1>4. CASE ret.value # Null /\ ~looksVpn(ret.value)
  <2>1. n \notin Vpn \/ ~VpnIsRecognized
    BY <1>2, <1>3, <1>4 DEF VpnIsRecognized, SeenCaps
  <2>2. /\ f \in Frames /\ f.m = Top.m /\ f.arg = Top.arg /\ f.at = "link"
        /\ f.res = Top.res /\ f.todo = Top.todo /\ f.all = Top.all
    BY <1>1, TopFits DEF Frames, Waiting
  <2>3. Invoke(f, "getLinkProperties", n)
    BY <1>4 DEF UnderlyingCaps
  <2> HIDE DEF f
  <2>4. Fit(f)
    BY <1>1, <1>2, <1>3, <2>1, <2>2, TopFits DEF Fit
  <2>5. /\ Callee(f).m = "getLinkProperties" /\ Callee(f).arg = n
        /\ Below(Frame("getLinkProperties", n), f)
    BY <1>1, <1>3, <2>1, <2>2 DEF Callee, Below, VpnLink, Rank, Frame
  <2>6. "getLinkProperties" \in AppMethods /\ "getLinkProperties" \in Asking
    BY DEF AppMethods, Hooks, Asking
  <2> QED BY <1>1, <1>2, <2>2, <2>3, <2>4, <2>5, <2>6, Asks DEF FitFrames, Waiting
<1>5. CASE ~(ret.value # Null /\ ~looksVpn(ret.value))
  BY <1>1, <1>5, Skips DEF UnderlyingCaps
<1> QED BY <1>4, <1>5

LEMMA HasUnderlying == ASSUME IInv, UnderlyingLink PROVE IInv'
<1>1. /\ stack # << >> /\ Top.m = "getLinkProperties" /\ Top.at = "link" /\ UNCHANGED world /\ IInv
  BY DEF UnderlyingLink, At
<1>2. reports' \subseteq Hooks
  BY <1>1 DEF UnderlyingLink, Report, NameReport, IInv, Basics, Hooks
<1>3. Top.arg \in Vpn
  BY <1>1, TopFits DEF Fit
<1>4. ret.value \in Net \cup {Null}
  BY <1>1 DEF IInv, Answers, Waiting, Callee, Right
<1>5. Right(SeenCaps, Top.m, Top.arg, ret.value)
  BY <1>1, <1>3, <1>4 DEF Right
<1>6. Return(ret.value) \/ GoOn(Skip(Top))
  BY DEF UnderlyingLink
<1> QED BY <1>1, <1>2, <1>5, <1>6, Returns, Skips

-----------------------------------------------------------------------------
(* The system and the app *)
LEMMA InitIInv == ASSUME Init PROVE IInv
<1>1. Basics
  BY NetAssumption DEF Init, Basics, Hooks
<1>2. stack \in Seq(FitFrames) /\ Len(stack) = 0 /\ stack = << >>
  BY EmptySeq DEF Init
<1>3. Called /\ Nested /\ Answers
  BY <1>2 DEF Called, Nested, Answers
<1>4. CapsShowNoVpn /\ PlainNetworksKept
  BY DEF Init, CapsShowNoVpn, PlainNetworksKept, Answered
<1> QED BY <1>1, <1>2, <1>3, <1>4 DEF IInv

LEMMA Changes == ASSUME IInv, NEW n \in Net, Change(n) PROVE IInv'
<1>1. Basics'
  <2>1. changes' \in 0 .. MaxChanges
    BY NetAssumption DEF Change, IInv, Basics
  <2>2. up' \subseteq Net
    BY DEF Change, IInv, Basics
  <2> QED BY <2>1, <2>2 DEF Change, IInv, Basics
<1>2. FitFrames' = FitFrames /\ SeenCaps' = SeenCaps /\ VpnIsRecognized' = VpnIsRecognized
  <2>1. SeenCaps' = SeenCaps /\ VpnIsRecognized' = VpnIsRecognized
    BY SameShown DEF Change
  <2> QED BY <2>1 DEF Change, FitFrames, Fit
<1>3. stack' = stack /\ ret' = ret
  BY DEF Change
<1>4. (CapsShowNoVpn /\ PlainNetworksKept)'
  BY SameAnswer DEF IInv, Change
<1>5. Nested'
  BY <1>2, <1>3 DEF IInv, Nested, Below
<1> QED BY <1>1, <1>2, <1>3, <1>4, <1>5 DEF IInv, Called, Answers, Top

LEMMA Calls ==
  ASSUME IInv, NEW m \in AppMethods, NEW n \in (IF m \in Asking THEN Net ELSE {Null}), AppCall(m, n)
  PROVE  IInv'
<1> DEFINE f == Frame(m, n)
<1>1. f \in FitFrames /\ f.at = "call"
  <2>1. f \in Frames
    BY EmptySeq DEF Frame, Frames, Results
  <2>2. f.m = m /\ f.arg = n /\ f.at = "call" /\ f.todo = << >>
    BY DEF Frame
  <2> QED BY <2>1, <2>2 DEF FitFrames, Fit
<1>2. stack' = <<f>> /\ answer' = Null /\ reports' = {} /\ UNCHANGED world
  BY DEF AppCall, world
<1> HIDE DEF f
<1>3. stack' \in Seq(FitFrames) /\ Len(stack') = 1 /\ Top' = f
  BY <1>1, <1>2 DEF Top
<1>4. Called' /\ Nested'
  BY <1>3 DEF Called, Nested
<1>5. Answers'
  BY <1>1, <1>3 DEF Answers, Waiting
<1>6. (CapsShowNoVpn /\ PlainNetworksKept)'
  BY <1>2 DEF CapsShowNoVpn, PlainNetworksKept, Answered
<1> QED BY <1>2, <1>3, <1>4, <1>5, <1>6, SameWorld DEF IInv

LEMMA NextIInv == ASSUME IInv, [Next]_vars PROVE IInv'
<1>1. CASE Hook
  BY <1>1, AsksCaps, AsksInfo, AsksAll, AsksActive, LooksAtOwn, AsksLink, HasAll, LooksAtOne,
     HasSeenAll, FiltersNetwork, FallsBack, AsksUnderlying, HasUnderlying DEF Hook
<1>2. CASE \E n \in Net : Change(n)
  BY <1>2, Changes
<1>3. CASE \E m \in AppMethods : \E n \in (IF m \in Asking THEN Net ELSE {Null}) : AppCall(m, n)
  BY <1>3, Calls
<1>4. CASE UNCHANGED vars
  <2>1. UNCHANGED world /\ stack' = stack /\ ret' = ret /\ reports' = reports /\ answer' = answer
    BY <1>4 DEF vars, world
  <2>2. (CapsShowNoVpn /\ PlainNetworksKept)'
    BY <2>1, SameAnswer DEF IInv, world
  <2>3. FitFrames' = FitFrames /\ SeenCaps' = SeenCaps /\ Basics' /\ Nested'
    BY <2>1, SameWorld DEF IInv, Basics, Nested, Below
  <2> QED BY <2>1, <2>2, <2>3 DEF IInv, Called, Answers, Top
<1> QED BY <1>1, <1>2, <1>3, <1>4 DEF Next

LEMMA Invariant == Spec => []IInv
  BY InitIInv, NextIInv, PTL DEF Spec

-----------------------------------------------------------------------------
(* Every frame of the stack is well formed, for any networks: no hook asks for
   the capabilities or the link of nothing. *)
THEOREM TypeCorrect == Spec => []TypeOK
<1>1. IInv => TypeOK
  <2> SUFFICES ASSUME IInv, NEW i \in 1 .. Len(stack)
               PROVE  /\ stack[i].m \in AppMethods
                      /\ stack[i].arg \in (IF stack[i].m \in Asking THEN Net ELSE {Null})
                      /\ stack[i].at \in {"call", "own", "all", "next", "caps", "link"}
                      /\ \A k \in 1 .. Len(stack[i].todo) : stack[i].todo[k] \in Net
    BY DEF TypeOK, IInv, Basics
  <2>1. stack[i] \in FitFrames
    BY ElementOfSeq DEF IInv
  <2>2. \A k \in 1 .. Len(stack[i].todo) : stack[i].todo[k] \in Net
    BY <2>1, ElementOfSeq DEF FitFrames, Frames
  <2> QED BY <2>1, <2>2 DEF FitFrames, Frames, Fit, Waiting
<1> QED BY <1>1, Invariant, PTL

(* getNetworkCapabilities shows no VPN, whatever transports networks have. *)
THEOREM NoVpnShown == Spec => []CapsShowNoVpn
<1>1. IInv => CapsShowNoVpn
  BY DEF IInv
<1> QED BY <1>1, Invariant, PTL

(* getAllNetworks loses no network that is no VPN and keeps their order, for
   any number of networks. *)
THEOREM PlainKept == Spec => []PlainNetworksKept
<1>1. IInv => PlainNetworksKept
  BY DEF IInv
<1> QED BY <1>1, Invariant, PTL

(* If two calls on the stack do not ask for less and less, both ask for the link
   of a VPN, and so did the app. *)
LEMMA AskedForVpn ==
  ASSUME IInv, NEW i \in 1 .. Len(stack), NEW j \in 1 .. Len(stack), i < j,
         ~(Rank(stack[i].m, stack[i].arg) < Rank(stack[j].m, stack[j].arg))
  PROVE  MayCallItself /\ VpnLink(stack[i]) /\ VpnLink(stack[j])
<1>1. ~VpnIsRecognized /\ VpnLink(stack[i]) /\ VpnLink(stack[j])
  BY DEF IInv, Nested, Below
<1>2. Len(stack) \in 1 .. Len(stack) /\ stack # << >>
  BY LenProperties, EmptySeq DEF IInv
<1>3. VpnLink(stack[Len(stack)])
  <2>1. CASE j = Len(stack)
    BY <1>1, <2>1
  <2>2. CASE j < Len(stack)
    <3>1. Below(stack[j], stack[Len(stack)])
      BY <1>2, <2>2 DEF IInv, Nested
    <3>2. Rank(stack[j].m, stack[j].arg) = 2 /\ \A m, n : Rank(m, n) \in 0 .. 2
      BY <1>1 DEF VpnLink, Rank
    <3>3. ~(Rank(stack[j].m, stack[j].arg) < Rank(stack[Len(stack)].m, stack[Len(stack)].arg))
      BY <3>2
    <3> QED BY <3>1, <3>3 DEF Below
  <2> QED BY <1>2, <2>1, <2>2
<1> QED BY <1>1, <1>2, <1>3 DEF MayCallItself, VpnLink

(* Every question of a hook is for something of a smaller rank, so none comes
   back, but for the link of a VPN that the hooks that are left do not
   recognize: whichever hooks failed to register, for any networks. *)
THEOREM NoReentrance == Spec => []NoCallWithinItself
<1>1. IInv => NoCallWithinItself
  <2> SUFFICES ASSUME IInv, NEW i \in 1 .. Len(stack), NEW j \in 1 .. Len(stack), i # j,
                      stack[i].m = stack[j].m, stack[i].arg = stack[j].arg
               PROVE  /\ MayCallItself /\ stack[i].m = "getLinkProperties"
                      /\ stack[i].arg \in Vpn
    BY DEF NoCallWithinItself
  <2>1. i < j \/ j < i
    OBVIOUS
  <2>2. Rank(stack[i].m, stack[i].arg) \in 0 .. 2
    BY DEF Rank
  <2>3. /\ ~(Rank(stack[i].m, stack[i].arg) < Rank(stack[j].m, stack[j].arg))
        /\ ~(Rank(stack[j].m, stack[j].arg) < Rank(stack[i].m, stack[i].arg))
    BY <2>2
  <2>4. MayCallItself /\ VpnLink(stack[i])
    BY <2>1, <2>3, AskedForVpn
  <2> QED BY <2>4 DEF VpnLink
<1> QED BY <1>1, Invariant, PTL

(* Any other call of the app is at most three hooked calls deep, for any
   networks: the stack it needs is bounded, so that it never overflows. *)
THEOREM ThreeDeep == Spec => [](~MayCallItself => Len(stack) <= 3)
<1>1. IInv => (~MayCallItself => Len(stack) <= 3)
  <2> SUFFICES ASSUME IInv, ~MayCallItself, Len(stack) > 3 PROVE FALSE
    BY LenProperties DEF IInv
  <2>1. 1 \in 1 .. Len(stack) /\ 2 \in 1 .. Len(stack) /\ 3 \in 1 .. Len(stack) /\ 4 \in 1 .. Len(stack)
    BY LenProperties DEF IInv
  <2>2. /\ Rank(stack[1].m, stack[1].arg) < Rank(stack[2].m, stack[2].arg)
        /\ Rank(stack[2].m, stack[2].arg) < Rank(stack[3].m, stack[3].arg)
        /\ Rank(stack[3].m, stack[3].arg) < Rank(stack[4].m, stack[4].arg)
    <3>1. 1 < 2 /\ 2 < 3 /\ 3 < 4
      OBVIOUS
    <3> QED BY <2>1, <3>1, AskedForVpn
  <2>3. \A m, arg : Rank(m, arg) \in 0 .. 2
    BY DEF Rank
  <2> HIDE DEF IInv
  <2> QED BY <2>2, <2>3
<1> QED BY <1>1, Invariant, PTL
=============================================================================
