---------------------------- MODULE Netlink_proofs ---------------------------
(***************************************************************************)
(* Theorems about Netlink for any threads, interfaces, names, buffers and  *)
(* sizes of the table: what sanitize_netlink hides, and that its marks hit *)
(* no other interface.                                                     *)
(***************************************************************************)
EXTENDS Netlink, SequenceTheorems, TLAPS

(* A mark, like the name of a VPN in a message, comes from an interface that
   was a VPN's; and what a hidden RTM_NEWLINK was about is marked. *)
MarksInv ==
  /\ IndicesOf(iface) \subseteq everVpn
  /\ \A i \in Slots : g_vpn_iface_idx[i] => i \in everVpn
  /\ \A i \in hidden \cap Slots : g_vpn_iface_idx[i]
  /\ \A t \in Threads : \A k \in 1 .. Len(buf[t]) :
       buf[t][k].name \in Vpn => buf[t][k].idx \in everVpn

(* What the loop has not come to is as the kernel sent it. *)
AheadInv ==
  \A t \in Threads : \A k \in nlh[t] .. Len(buf[t]) : buf[t][k].type = buf[t][k].kernel

IInv == TypeOK /\ MarksInv /\ AheadInv /\ NamedMessagesHidden /\ OthersUntouched

-----------------------------------------------------------------------------
LEMMA InitIInv == ASSUME Init PROVE IInv
<1>1. TypeOK
  BY NetlinkAssumption, EmptySeq DEF Init, TypeOK, IndicesOf
<1>2. \A t \in Threads : Len(buf[t]) = 0
  BY DEF Init
<1> QED BY <1>1, <1>2 DEF Init, IInv, MarksInv, AheadInv, NamedMessagesHidden, OthersUntouched

(* The buffer after a message was turned into NLMSG_NOOP *)
LEMMA NoopBuffer ==
  ASSUME TypeOK, NEW t \in Threads, Looking(t), Noop(t)
  PROVE  /\ nlh[t] \in 1 .. Len(buf[t])
         /\ Message_of(t) \in Message
         /\ buf' \in [Threads -> Seq(Message)]
         /\ \A u \in Threads : u # t => buf'[u] = buf[u]
         /\ Len(buf'[t]) = Len(buf[t])
         /\ \A k \in 1 .. Len(buf[t]) :
              buf'[t][k] = IF k = nlh[t] THEN [buf[t][k] EXCEPT !.type = "NOOP"] ELSE buf[t][k]
         /\ \A k \in 1 .. Len(buf[t]) :
              buf'[t][k].idx = buf[t][k].idx /\ buf'[t][k].name = buf[t][k].name
              /\ buf'[t][k].cut = buf[t][k].cut /\ buf'[t][k].kernel = buf[t][k].kernel
<1> DEFINE m == [buf[t][nlh[t]] EXCEPT !.type = "NOOP"]
           b == [buf[t] EXCEPT ![nlh[t]] = m]
<1>1. buf[t] \in Seq(Message) /\ nlh[t] \in 1 .. Len(buf[t])
  BY LenProperties DEF TypeOK, Looking
<1>2. buf[t][nlh[t]] \in Message
  BY <1>1, ElementOfSeq
<1>3. /\ m \in Message /\ m.idx = buf[t][nlh[t]].idx /\ m.name = buf[t][nlh[t]].name
      /\ m.cut = buf[t][nlh[t]].cut /\ m.kernel = buf[t][nlh[t]].kernel
  BY <1>2 DEF Message
<1>4. buf' = [buf EXCEPT ![t] = b]
  BY DEF Noop
<1>5. /\ b \in Seq(Message) /\ Len(b) = Len(buf[t])
      /\ \A k \in 1 .. Len(buf[t]) : b[k] = IF k = nlh[t] THEN m ELSE buf[t][k]
  <2> HIDE DEF m
  <2> QED BY <1>1, <1>3, ExceptSeq
<1>6. buf'[t] = b /\ \A u \in Threads : u # t => buf'[u] = buf[u]
  BY <1>4 DEF TypeOK
<1>7. buf' \in [Threads -> Seq(Message)]
  <2> HIDE DEF b
  <2> QED BY <1>4, <1>5 DEF TypeOK
<1> HIDE DEF b, m
<1>8. \A k \in 1 .. Len(buf[t]) :
         buf'[t][k].idx = buf[t][k].idx /\ buf'[t][k].name = buf[t][k].name
         /\ buf'[t][k].cut = buf[t][k].cut /\ buf'[t][k].kernel = buf[t][k].kernel
  BY <1>3, <1>5, <1>6
<1> QED BY <1>1, <1>2, <1>5, <1>6, <1>7, <1>8 DEF m, Message_of

(* Hiding the message thread t looks at, which is of an interface that was a
   VPN's, and adding marks of such interfaces *)
LEMMA Hides ==
  ASSUME IInv, NEW t \in Threads, Looking(t), Noop(t), Advance(t),
         UNCHANGED <<iface, changes, everVpn>>,
         Message_of(t).idx \in everVpn,
         g_vpn_iface_idx' \in [Slots -> BOOLEAN],
         \A i \in Slots : g_vpn_iface_idx[i] => g_vpn_iface_idx'[i],
         \A i \in Slots : g_vpn_iface_idx'[i] => i \in everVpn,
         hidden' \subseteq Idx,
         \A i \in hidden' \cap Slots : g_vpn_iface_idx'[i]
  PROVE  IInv'
<1>1. TypeOK /\ Len(buf[t]) \in Nat
  BY LenProperties DEF IInv, TypeOK
<1>2. /\ nlh' \in [Threads -> Nat \ {0}] /\ nlh'[t] = nlh[t] + 1
      /\ \A u \in Threads : u # t => nlh'[u] = nlh[u]
  BY <1>1 DEF Advance, TypeOK
<1>3. TypeOK'
  <2>1. \A u \in Threads : nlh'[u] <= Len(buf'[u]) + 1
    <3> SUFFICES ASSUME NEW u \in Threads PROVE nlh'[u] <= Len(buf'[u]) + 1
      OBVIOUS
    <3>1. CASE u = t
      BY <1>1, <1>2, <3>1, NoopBuffer
    <3>2. CASE u # t
      BY <1>1, <1>2, <3>2, NoopBuffer DEF TypeOK
    <3> QED BY <3>1, <3>2
  <2>2. buf' \in [Threads -> Seq(Message)]
    BY <1>1, NoopBuffer
  <2> QED BY <1>1, <1>2, <2>1, <2>2 DEF TypeOK
<1>4. ASSUME NEW u \in Threads, NEW k \in 1 .. Len(buf'[u])
      PROVE  /\ k \in 1 .. Len(buf[u])
             /\ buf'[u][k].idx = buf[u][k].idx /\ buf'[u][k].name = buf[u][k].name
             /\ buf'[u][k].cut = buf[u][k].cut /\ buf'[u][k].kernel = buf[u][k].kernel
             /\ u = t /\ k = nlh[t] => buf'[u][k].type = "NOOP" /\ buf'[u][k].idx \in everVpn
             /\ u # t \/ k # nlh[t] => buf'[u][k] = buf[u][k]
  <2>1. CASE u # t
    BY <1>1, <1>4, <2>1, NoopBuffer
  <2>2. CASE u = t
    <3>1. k \in 1 .. Len(buf[t])
      BY <1>1, <1>4, <2>2, NoopBuffer
    <3>2. k # nlh[t] => buf'[u][k] = buf[u][k]
      BY <1>1, <2>2, <3>1, NoopBuffer
    <3>3. k = nlh[t] => buf'[u][k].type = "NOOP"
      <4> SUFFICES ASSUME k = nlh[t] PROVE buf'[u][k].type = "NOOP"
        OBVIOUS
      <4>1. buf'[t][k] = [buf[t][k] EXCEPT !.type = "NOOP"] /\ buf[t][k] \in Message
        BY <1>1, <3>1, NoopBuffer DEF Message_of
      <4> QED BY <2>2, <4>1 DEF Message
    <3>4. /\ buf'[t][k].idx = buf[t][k].idx /\ buf'[t][k].name = buf[t][k].name
          /\ buf'[t][k].cut = buf[t][k].cut /\ buf'[t][k].kernel = buf[t][k].kernel
      BY <1>1, <3>1, NoopBuffer
    <3> QED BY <2>2, <3>1, <3>2, <3>3, <3>4 DEF Message_of
  <2> QED BY <2>1, <2>2
<1>5. MarksInv'
  BY <1>4 DEF IInv, MarksInv, IndicesOf
<1>6. AheadInv'
  <2> SUFFICES ASSUME NEW u \in Threads, NEW k \in nlh'[u] .. Len(buf'[u])
               PROVE  buf'[u][k].type = buf'[u][k].kernel
    BY DEF AheadInv
  <2>1. k \in 1 .. Len(buf'[u]) /\ k >= nlh[u] /\ (u = t => k # nlh[t])
    BY <1>1, <1>2, <1>3 DEF TypeOK
  <2>2. buf'[u][k] = buf[u][k] /\ k \in nlh[u] .. Len(buf[u])
    BY <1>1, <1>4, <2>1 DEF TypeOK
  <2> QED BY <2>2 DEF IInv, AheadInv
<1>7. NamedMessagesHidden'
  <2> SUFFICES ASSUME NEW u \in Threads, NEW k \in 1 .. Len(buf'[u]),
                      k < nlh'[u], ~buf'[u][k].cut, buf'[u][k].name \in Vpn
               PROVE  buf'[u][k].type = "NOOP"
    BY DEF NamedMessagesHidden
  <2>1. CASE u = t /\ k = nlh[t]
    BY <1>4, <2>1
  <2>2. CASE u # t \/ k # nlh[t]
    <3>1. buf'[u][k] = buf[u][k] /\ k \in 1 .. Len(buf[u])
      BY <1>4, <2>2
    <3>2. k < nlh[u]
      <4>1. CASE u # t
        BY <1>2, <4>1
      <4>2. CASE u = t
        BY <1>1, <1>2, <2>2, <4>2 DEF TypeOK
      <4> QED BY <4>1, <4>2
    <3> QED BY <3>1, <3>2 DEF IInv, NamedMessagesHidden
  <2> QED BY <2>1, <2>2
<1>8. OthersUntouched'
  BY <1>4 DEF IInv, OthersUntouched
<1> QED BY <1>3, <1>5, <1>6, <1>7, <1>8 DEF IInv

-----------------------------------------------------------------------------
(* The kernel's steps *)
LEMMA Changes ==
  ASSUME IInv, NEW i \in Idx, NEW name \in Names \cup {None}, Change(i, name)
  PROVE  IInv'
<1>1. TypeOK'
  <2>1. iface' \in [Idx -> Names \cup {None}]
    BY DEF Change, IInv, TypeOK
  <2>2. changes' \in 0 .. MaxChanges
    BY NetlinkAssumption DEF Change, IInv, TypeOK
  <2>3. everVpn' \subseteq Idx
    BY DEF Change, IInv, TypeOK, IndicesOf
  <2> QED BY <2>1, <2>2, <2>3 DEF Change, IInv, TypeOK
<1>2. everVpn \subseteq everVpn' /\ IndicesOf(iface)' \subseteq everVpn'
  BY DEF Change, IndicesOf
<1>3. UNCHANGED <<g_vpn_iface_idx, hidden, buf, nlh>>
  BY DEF Change
<1> QED BY <1>1, <1>2, <1>3 DEF IInv, MarksInv, AheadInv, NamedMessagesHidden, OthersUntouched

(* A new buffer, or none, with the loop at its start *)
LEMMA NewBuffer ==
  ASSUME IInv, NEW t \in Threads, NEW b \in Seq(Message),
         buf' = [buf EXCEPT ![t] = b], nlh' = [nlh EXCEPT ![t] = 1],
         UNCHANGED <<iface, changes, everVpn, g_vpn_iface_idx, hidden>>,
         \A k \in 1 .. Len(b) : b[k].type = b[k].kernel /\ (b[k].name \in Vpn => b[k].idx \in everVpn)
  PROVE  IInv'
<1>1. /\ buf' \in [Threads -> Seq(Message)] /\ nlh' \in [Threads -> Nat \ {0}]
      /\ buf'[t] = b /\ nlh'[t] = 1
      /\ \A u \in Threads : u # t => buf'[u] = buf[u] /\ nlh'[u] = nlh[u]
  BY DEF IInv, TypeOK
<1>2. Len(b) \in Nat
  BY LenProperties
<1>3. TypeOK'
  BY <1>1, <1>2 DEF IInv, TypeOK
<1>4. MarksInv'
  BY <1>1 DEF IInv, MarksInv, IndicesOf
<1>5. AheadInv'
  BY <1>1, <1>2 DEF IInv, AheadInv
<1>6. NamedMessagesHidden'
  BY <1>1, <1>2 DEF IInv, NamedMessagesHidden
<1>7. OthersUntouched'
  BY <1>1 DEF IInv, OthersUntouched
<1> QED BY <1>3, <1>4, <1>5, <1>6, <1>7 DEF IInv

LEMMA Receives == ASSUME IInv, NEW t \in Threads, Receive(t) PROVE IInv'
<1>1. PICK k \in 1 .. MaxBuf : \E b \in [1 .. k -> Said] : buf' = [buf EXCEPT ![t] = b]
  BY DEF Receive
<1>2. PICK b \in [1 .. k -> Said] : buf' = [buf EXCEPT ![t] = b]
  BY <1>1
<1>3. Said \subseteq Message
  BY DEF Said
<1>4. b \in Seq(Message) /\ Len(b) = k
  <2>1. k \in Nat
    BY NetlinkAssumption
  <2>2. b \in Seq(Said)
    BY <1>2, <2>1, SeqDef
  <2> QED BY <1>2, <1>3, <2>1, <2>2, SeqMonotonic, LenProperties
<1>5. \A m \in Said : m.type = m.kernel /\ (m.name \in Vpn => m.idx \in everVpn)
  <2> SUFFICES ASSUME NEW m \in Said, m.name \in Vpn PROVE m.idx \in everVpn
    BY DEF Said
  <2>1. m.idx \in Idx /\ m.name # None /\ m.name \in {iface[m.idx], None}
    BY NetlinkAssumption DEF Said, Message
  <2>2. m.idx \in IndicesOf(iface)
    BY <2>1 DEF IndicesOf
  <2> QED BY <2>2 DEF IInv, MarksInv
<1>6. \A j \in 1 .. Len(b) : b[j].type = b[j].kernel /\ (b[j].name \in Vpn => b[j].idx \in everVpn)
  BY <1>2, <1>4, <1>5
<1> QED BY <1>2, <1>4, <1>6, NewBuffer DEF Receive

LEMMA Returns == ASSUME IInv, NEW t \in Threads, Return(t) PROVE IInv'
<1>1. << >> \in Seq(Message) /\ Len(<< >>) = 0
  BY EmptySeq
<1>2. \A k \in 1 .. Len(<< >>) : FALSE
  BY <1>1
<1>3. /\ buf' = [buf EXCEPT ![t] = << >>] /\ nlh' = [nlh EXCEPT ![t] = 1]
      /\ UNCHANGED <<iface, changes, everVpn, g_vpn_iface_idx, hidden>>
  BY DEF Return
<1> QED BY <1>1, <1>2, <1>3, NewBuffer

-----------------------------------------------------------------------------
(* The turns of the loop *)

(* One that leaves the message as it is: it names no VPN, or it is cut. *)
LEMMA Passes ==
  ASSUME IInv, NEW t \in Threads, nlh[t] <= Len(buf[t]), Advance(t),
         Message_of(t).name \notin Vpn \/ Message_of(t).cut,
         UNCHANGED <<iface, changes, everVpn, g_vpn_iface_idx, hidden, buf>>
  PROVE  IInv'
<1>1. /\ nlh' \in [Threads -> Nat \ {0}] /\ nlh'[t] = nlh[t] + 1
      /\ \A u \in Threads : u # t => nlh'[u] = nlh[u]
  BY DEF Advance, IInv, TypeOK
<1>2. \A u \in Threads : Len(buf[u]) \in Nat
  BY LenProperties DEF IInv, TypeOK
<1>3. TypeOK'
  <2>1. \A u \in Threads : nlh'[u] <= Len(buf[u]) + 1
    <3> SUFFICES ASSUME NEW u \in Threads PROVE nlh'[u] <= Len(buf[u]) + 1
      OBVIOUS
    <3>1. nlh[u] \in Nat /\ nlh[u] <= Len(buf[u]) + 1
      BY DEF IInv, TypeOK
    <3> QED BY <1>1, <1>2, <3>1
  <2> QED BY <1>1, <2>1 DEF IInv, TypeOK
<1>4. MarksInv' /\ OthersUntouched'
  BY DEF IInv, MarksInv, OthersUntouched, IndicesOf
<1>5. AheadInv'
  <2> SUFFICES ASSUME NEW u \in Threads, NEW k \in nlh'[u] .. Len(buf[u])
               PROVE  buf[u][k].type = buf[u][k].kernel
    BY DEF AheadInv
  <2>1. nlh[u] \in Nat /\ nlh[t] \in Nat
    BY DEF IInv, TypeOK
  <2>2. nlh'[u] \in Nat /\ nlh[u] <= nlh'[u]
    BY <1>1, <2>1
  <2>3. k \in nlh[u] .. Len(buf[u])
    BY <1>2, <2>1, <2>2
  <2> QED BY <2>3 DEF IInv, AheadInv
<1>6. NamedMessagesHidden'
  <2> SUFFICES ASSUME NEW u \in Threads, NEW k \in 1 .. Len(buf[u]),
                      k < nlh'[u], ~buf[u][k].cut, buf[u][k].name \in Vpn
               PROVE  buf[u][k].type = "NOOP"
    BY DEF NamedMessagesHidden
  <2>1. nlh[u] \in Nat /\ nlh[t] \in Nat
    BY DEF IInv, TypeOK
  <2>2. ~(u = t /\ k = nlh[t])
    BY DEF Message_of
  <2>3. k < nlh[u]
    BY <1>1, <1>2, <2>1, <2>2
  <2> QED BY <2>3 DEF IInv, NamedMessagesHidden
<1> QED BY <1>3, <1>4, <1>5, <1>6 DEF IInv

LEMMA Keeps == ASSUME IInv, NEW t \in Threads, Keep(t) PROVE IInv'
  BY Passes DEF Keep, Looking

LEMMA Stops == ASSUME IInv, NEW t \in Threads, Stop(t) PROVE IInv'
  BY Passes DEF Stop

(* What mark_vpn_iface_idx does to the table *)
LEMMA Marked ==
  ASSUME TypeOK, NEW i \in Idx
  PROVE  /\ mark_vpn_iface_idx(i) \in [Slots -> BOOLEAN]
         /\ \A s \in Slots : mark_vpn_iface_idx(i)[s] <=> s = i \/ g_vpn_iface_idx[s]
  BY DEF TypeOK, mark_vpn_iface_idx

LEMMA HidesLink == ASSUME IInv, NEW t \in Threads, HideLink(t) PROVE IInv'
<1> DEFINE i == Message_of(t).idx
<1>1. nlh[t] \in 1 .. Len(buf[t]) /\ Message_of(t) \in Message
  BY NoopBuffer DEF HideLink, IInv
<1>2. i \in Idx /\ i \in everVpn
  BY <1>1 DEF HideLink, IInv, MarksInv, Message_of, Message
<1>3. g_vpn_iface_idx' = mark_vpn_iface_idx(i) /\ hidden' = hidden \cup {i}
  BY DEF HideLink
<1> HIDE DEF i
<1>4. /\ g_vpn_iface_idx' \in [Slots -> BOOLEAN]
      /\ \A s \in Slots : g_vpn_iface_idx'[s] <=> s = i \/ g_vpn_iface_idx[s]
  BY <1>2, <1>3, Marked DEF IInv
<1>5. \A s \in Slots : g_vpn_iface_idx'[s] => s \in everVpn
  BY <1>2, <1>4 DEF IInv, MarksInv
<1>6. hidden' \subseteq Idx /\ \A s \in hidden' \cap Slots : g_vpn_iface_idx'[s]
  BY <1>2, <1>3, <1>4 DEF IInv, MarksInv, TypeOK
<1> QED BY <1>2, <1>4, <1>5, <1>6, Hides DEF HideLink, i

LEMMA HidesAddress == ASSUME IInv, NEW t \in Threads, HideAddress(t) PROVE IInv'
<1> DEFINE i == Message_of(t).idx
<1>1. nlh[t] \in 1 .. Len(buf[t]) /\ Message_of(t) \in Message
  BY NoopBuffer DEF HideAddress, IInv
<1>2. i \in Idx
  BY <1>1 DEF Message
<1>3. hidden' = hidden
  BY DEF HideAddress
<1>4. CASE is_vpn_iface_idx(i) /\ UNCHANGED g_vpn_iface_idx
  <2>1. i \in everVpn
    BY <1>4 DEF is_vpn_iface_idx, IInv, MarksInv
  <2> QED BY <1>3, <1>4, <2>1, Hides DEF HideAddress, IInv, TypeOK, MarksInv
<1>5. CASE Message_of(t).name \in Vpn /\ g_vpn_iface_idx' = mark_vpn_iface_idx(i)
  <2>1. i \in everVpn
    BY <1>1, <1>5 DEF IInv, MarksInv, Message_of
  <2>2. /\ g_vpn_iface_idx' \in [Slots -> BOOLEAN]
        /\ \A s \in Slots : g_vpn_iface_idx'[s] <=> s = i \/ g_vpn_iface_idx[s]
    <3> HIDE DEF i
    <3> QED BY <1>2, <1>5, Marked DEF IInv
  <2>3. \A s \in Slots : g_vpn_iface_idx'[s] => s \in everVpn
    BY <2>1, <2>2 DEF IInv, MarksInv
  <2>4. \A s \in hidden' \cap Slots : g_vpn_iface_idx'[s]
    BY <1>3, <2>2 DEF IInv, MarksInv
  <2> QED BY <1>3, <2>1, <2>2, <2>3, <2>4, Hides DEF HideAddress, IInv, TypeOK
<1> QED BY <1>4, <1>5 DEF HideAddress

-----------------------------------------------------------------------------
LEMMA NextIInv == ASSUME IInv, [Next]_vars PROVE IInv'
<1>1. ASSUME NEW i \in Idx, NEW name \in Names \cup {None}, Change(i, name) PROVE IInv'
  BY <1>1, Changes
<1>2. ASSUME NEW t \in Threads,
             Receive(t) \/ Keep(t) \/ HideLink(t) \/ HideAddress(t) \/ Stop(t) \/ Return(t)
      PROVE  IInv'
  BY <1>2, Receives, Keeps, HidesLink, HidesAddress, Stops, Returns
<1>3. CASE UNCHANGED vars
  BY <1>3 DEF vars, IInv, TypeOK, MarksInv, AheadInv, NamedMessagesHidden, OthersUntouched,
              IndicesOf
<1> QED BY <1>1, <1>2, <1>3 DEF Next

LEMMA Invariant == Spec => []IInv
  BY InitIInv, NextIInv, PTL DEF Spec

(* Every variable keeps its type and no index leaves the table, for tables of
   any size and buffers of any length. *)
THEOREM TypeCorrect == Spec => []TypeOK
<1>1. IInv => TypeOK
  BY DEF IInv
<1> QED BY <1>1, Invariant, PTL

(* sanitize_netlink hides every whole message with the name of a VPN. *)
THEOREM NamedHidden == Spec => []NamedMessagesHidden
<1>1. IInv => NamedMessagesHidden
  BY DEF IInv
<1> QED BY <1>1, Invariant, PTL

(* No message of an interface that was never a VPN's is changed, whatever marks
   other threads have set. *)
THEOREM OthersAsSent == Spec => []OthersUntouched
<1>1. IInv => OthersUntouched
  BY DEF IInv
<1> QED BY <1>1, Invariant, PTL

(* Addresses go with their link: once any thread has hidden an interface, every
   thread hides its addresses. *)
THEOREM AddressesHidden == Spec => AddressesFollowLinks
<1> DEFINE Follows ==
      \A t \in Threads :
        /\ nlh'[t] = nlh[t] + 1
        /\ Message_of(t).kernel = "NEWADDR" /\ ~Message_of(t).cut
        /\ Message_of(t).idx \in hidden \cap Slots
        => buf'[t][nlh[t]].type = "NOOP"
<1>1. ASSUME IInv, [Next]_vars PROVE [Follows]_vars
  <2> SUFFICES ASSUME Next, NEW t \in Threads, nlh'[t] = nlh[t] + 1,
                      Message_of(t).kernel = "NEWADDR", ~Message_of(t).cut,
                      Message_of(t).idx \in hidden \cap Slots
               PROVE  buf'[t][nlh[t]].type = "NOOP"
    BY <1>1
  <2>1. nlh \in [Threads -> Nat \ {0}] /\ nlh[t] \in Nat \ {0}
    BY <1>1 DEF IInv, TypeOK
  <2>2. PICK u \in Threads : Keep(u) \/ HideLink(u) \/ HideAddress(u) \/ Stop(u)
    BY <2>1 DEF Next, Change, Receive, Return
  <2>3. u = t
    BY <2>1, <2>2 DEF Keep, HideLink, HideAddress, Stop, Advance
  <2>4. nlh[t] \in nlh[t] .. Len(buf[t])
    BY <1>1, <2>1, <2>2, <2>3, LenProperties DEF Keep, HideLink, HideAddress, Stop, Looking, IInv, TypeOK
  <2>5. Message_of(t).type = "NEWADDR"
    BY <1>1, <2>4 DEF IInv, AheadInv, Message_of
  <2>6. is_vpn_iface_idx(Message_of(t).idx)
    BY <1>1 DEF IInv, MarksInv, is_vpn_iface_idx
  <2>7. HideAddress(t)
    BY <2>2, <2>3, <2>5, <2>6 DEF Keep, HideLink, Stop
  <2>8. /\ buf'[t][nlh[t]] = [Message_of(t) EXCEPT !.type = "NOOP"]
        /\ Message_of(t) \in Message
    BY <1>1, <2>7, NoopBuffer DEF HideAddress, IInv, Message_of
  <2> QED BY <2>8 DEF Message
<1> QED BY <1>1, Invariant, PTL DEF Spec, AddressesFollowLinks
=============================================================================
