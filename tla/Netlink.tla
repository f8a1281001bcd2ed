------------------------------- MODULE Netlink -------------------------------
(***************************************************************************)
(* sanitize_netlink of sanitizer.cpp and the interface marks of            *)
(* fd_tracker.h it shares between threads.  Each thread receives a buffer  *)
(* of NETLINK_ROUTE messages and turns those about VPN interfaces into     *)
(* NLMSG_NOOP, one after the other; the mark an RTM_NEWLINK leaves hides   *)
(* the addresses of the interface, which need not carry its name.          *)
(* Meanwhile the kernel creates, renames and deletes interfaces.           *)
(***************************************************************************)
EXTENDS Naturals, Sequences

CONSTANTS
  Threads,
  Idx,         \* interface indices
  TableSize,   \* entries of g_vpn_iface_idx
  Names,       \* interface names
  Vpn,         \* those is_vpn_interface recognizes
  None,        \* no interface, no name
  MaxBuf,      \* bound: messages in a buffer
  MaxChanges   \* bound: changes of the interfaces

ASSUME NetlinkAssumption ==
  /\ Idx \subseteq Nat /\ TableSize \in Nat
  /\ Vpn \subseteq Names /\ None \notin Names
  /\ MaxBuf \in Nat /\ MaxChanges \in Nat

Slots == {i \in Idx : 0 < i /\ i < TableSize}

(* A message; name is its IFLA_IFNAME or IFA_LABEL, kernel its type as it was
   sent, cut tells that the end of the buffer cuts it off *)
Message == [type : {"NEWLINK", "NEWADDR", "NOOP"}, kernel : {"NEWLINK", "NEWADDR"},
            idx : Idx, name : Names \cup {None}, cut : BOOLEAN]

VARIABLES
  iface,             \* kernel: the interfaces' names by index, or None
  changes,           \* how often they have changed
  everVpn,           \* history: the indices VPN interfaces have had
  g_vpn_iface_idx,   \* the marks
  hidden,            \* history: indices of which an RTM_NEWLINK was hidden
  buf,               \* each thread's buffer
  nlh                \* the message it looks at; past the end of its buffer when
                     \* sanitize_netlink has returned

vars == <<iface, changes, everVpn, g_vpn_iface_idx, hidden, buf, nlh>>

IndicesOf(names) == {i \in Idx : names[i] \in Vpn}

Init ==
  /\ iface \in [Idx -> Names \cup {None}]
  /\ changes = 0
  /\ everVpn = IndicesOf(iface)
  /\ g_vpn_iface_idx = [i \in Slots |-> FALSE]
  /\ hidden = {}
  /\ buf = [t \in Threads |-> << >>]
  /\ nlh = [t \in Threads |-> 1]

-----------------------------------------------------------------------------
(* The kernel *)

(* Interface i appears, is renamed, or goes away. *)
Change(i, name) ==
  /\ changes < MaxChanges
  /\ name # iface[i]
  /\ iface' = [iface EXCEPT ![i] = name]
  /\ changes' = changes + 1
  /\ everVpn' = everVpn \cup IndicesOf(iface')
  /\ UNCHANGED <<g_vpn_iface_idx, hidden, buf, nlh>>

(* What it can say of its interfaces: an IPv6 address has no label. *)
Said == {m \in Message :
           /\ m.type = m.kernel
           /\ iface[m.idx] # None
           /\ IF m.kernel = "NEWLINK" THEN m.name = iface[m.idx] ELSE m.name \in {iface[m.idx], None}}

(* The original recv or read fills a buffer; only its last message can be cut. *)
Receive(t) ==
  /\ buf[t] = << >>
  /\ \E k \in 1 .. MaxBuf : \E b \in [1 .. k -> Said] :
       /\ \A j \in 1 .. k - 1 : ~b[j].cut
       /\ buf' = [buf EXCEPT ![t] = b]
  /\ nlh' = [nlh EXCEPT ![t] = 1]
  /\ UNCHANGED <<iface, changes, everVpn, g_vpn_iface_idx, hidden>>

-----------------------------------------------------------------------------
(* Mutants of mark_vpn_iface_idx: an index past the table goes to its last
   entry; the size of the table is not checked. *)
mark_clamped_iface_idx(i) == [s \in Slots |-> s = i \/ (i \notin Slots /\ s = TableSize - 1) \/ g_vpn_iface_idx[s]]
mark_any_iface_idx(i) == [s \in Slots \cup {i} |-> s = i \/ g_vpn_iface_idx[s]]

mark_vpn_iface_idx(i) ==
  IF i \in Slots THEN [g_vpn_iface_idx EXCEPT ![i] = TRUE] ELSE g_vpn_iface_idx

is_vpn_iface_idx(i) == i \in Slots /\ g_vpn_iface_idx[i]

(* The message thread t looks at, one that fits into the buffer *)
Message_of(t) == buf[t][nlh[t]]
Looking(t) == nlh[t] <= Len(buf[t]) /\ ~Message_of(t).cut

Advance(t) == nlh' = [nlh EXCEPT ![t] = @ + 1]
Noop(t) == buf' = [buf EXCEPT ![t][nlh[t]].type = "NOOP"]

(* Mutant of Keep: the label of an address is not looked at. *)
KeepUnmarked(t) ==
  /\ Looking(t)
  /\ Message_of(t).type = "NEWLINK" => Message_of(t).name \notin Vpn
  /\ Message_of(t).type = "NEWADDR" => ~is_vpn_iface_idx(Message_of(t).idx)
  /\ Advance(t)
  /\ UNCHANGED <<iface, changes, everVpn, g_vpn_iface_idx, hidden, buf>>

(* The message says nothing of a VPN. *)
Keep(t) ==
  /\ Looking(t)
  /\ Message_of(t).name \notin Vpn
  /\ Message_of(t).type = "NEWADDR" => ~is_vpn_iface_idx(Message_of(t).idx)
  /\ Advance(t)
  /\ UNCHANGED <<iface, changes, everVpn, g_vpn_iface_idx, hidden, buf>>

(* Mutant of HideLink: the mark is forgotten. *)
HideLinkUnmarked(t) ==
  /\ Looking(t)
  /\ Message_of(t).type = "NEWLINK" /\ Message_of(t).name \in Vpn
  /\ hidden' = hidden \cup {Message_of(t).idx}
  /\ Noop(t) /\ Advance(t)
  /\ UNCHANGED <<iface, changes, everVpn, g_vpn_iface_idx>>

(* RTM_NEWLINK with the name of a VPN *)
HideLink(t) ==
  /\ Looking(t)
  /\ Message_of(t).type = "NEWLINK" /\ Message_of(t).name \in Vpn
  /\ g_vpn_iface_idx' = mark_vpn_iface_idx(Message_of(t).idx)
  /\ hidden' = hidden \cup {Message_of(t).idx}
  /\ Noop(t) /\ Advance(t)
  /\ UNCHANGED <<iface, changes, everVpn>>

(* RTM_NEWADDR of a marked index, or with the label of a VPN *)
HideAddress(t) ==
  /\ Looking(t)
  /\ Message_of(t).type = "NEWADDR"
  /\ LET i == Message_of(t).idx IN
     \/ is_vpn_iface_idx(i) /\ UNCHANGED g_vpn_iface_idx
     \/ /\ ~is_vpn_iface_idx(i) /\ Message_of(t).name \in Vpn
        /\ g_vpn_iface_idx' = mark_vpn_iface_idx(i)
  /\ Noop(t) /\ Advance(t)
  /\ UNCHANGED <<iface, changes, everVpn, hidden>>

(* NLMSG_OK fails on a message that is cut: the loop ends before it. *)
Stop(t) ==
  /\ nlh[t] <= Len(buf[t]) /\ Message_of(t).cut
  /\ Advance(t)
  /\ UNCHANGED <<iface, changes, everVpn, g_vpn_iface_idx, hidden, buf>>

(* The hook gives the buffer to the application. *)
Return(t) ==
  /\ buf[t] # << >> /\ nlh[t] > Len(buf[t])
  /\ buf' = [buf EXCEPT ![t] = << >>]
  /\ nlh' = [nlh EXCEPT ![t] = 1]
  /\ UNCHANGED <<iface, changes, everVpn, g_vpn_iface_idx, hidden>>

Next ==
  \/ \E i \in Idx, name \in Names \cup {None} : Change(i, name)
  \/ \E t \in Threads : \/ Receive(t)
                        \/ Keep(t)
                        \/ HideLink(t)
                        \/ HideAddress(t)
                        \/ Stop(t)
                        \/ Return(t)

Spec == Init /\ [][Next]_vars

-----------------------------------------------------------------------------
TypeOK ==
  /\ iface \in [Idx -> Names \cup {None}]
  /\ changes \in 0 .. MaxChanges
  /\ everVpn \subseteq Idx
  /\ g_vpn_iface_idx \in [Slots -> BOOLEAN]
  /\ hidden \subseteq Idx
  /\ buf \in [Threads -> Seq(Message)]
  /\ nlh \in [Threads -> Nat \ {0}]
  /\ \A t \in Threads : nlh[t] <= Len(buf[t]) + 1

(* A message with the name of a VPN is hidden when the buffer is given to the
   application, wherever it is in the buffer, unless it is cut off. *)
NamedMessagesHidden ==
  \A t \in Threads : \A k \in 1 .. Len(buf[t]) :
    k < nlh[t] /\ ~buf[t][k].cut /\ buf[t][k].name \in Vpn => buf[t][k].type = "NOOP"

(* Once any thread has hidden the RTM_NEWLINK of an interface, every address of
   it that any thread comes to is hidden, labelled or not, if the table has
   room for its index. *)
AddressesFollowLinks ==
  [][\A t \in Threads :
       /\ nlh'[t] = nlh[t] + 1
       /\ Message_of(t).kernel = "NEWADDR" /\ ~Message_of(t).cut
       /\ Message_of(t).idx \in hidden \cap Slots
       => buf'[t][nlh[t]].type = "NOOP"]_vars

(* Whatever is received of an index that no VPN interface has had stays as the
   kernel sent it: no mark ever hits another interface. *)
OthersUntouched ==
  \A t \in Threads : \A k \in 1 .. Len(buf[t]) :
    buf[t][k].idx \notin everVpn => buf[t][k].type = buf[t][k].kernel
=============================================================================
