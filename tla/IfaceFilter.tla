----------------------------- MODULE IfaceFilter ----------------------------
(***************************************************************************)
(* The calls that list network interfaces, and what their hooks take out   *)
(* of the result: hook_getifaddrs unlinks nodes of the list libc returned, *)
(* hook_ioctl compacts the array of SIOCGIFCONF in place, and the Java     *)
(* hooks replace the result by a filtered copy.  Each layer has prefixes   *)
(* of its own.  An interface is its position in what the original call     *)
(* returned; position 0 stands for the caller's pointer and for null.      *)
(***************************************************************************)
EXTENDS Naturals, Sequences

CONSTANTS Prefix,    \* what a name starts with
          NoName,    \* null instead of a name
          Inputs     \* the lists of names the original calls return

Name == [prefix : Prefix, upper : BOOLEAN, vpn : BOOLEAN] \cup {NoName}

ASSUME InputAssumption == Inputs \subseteq Seq(Name)

NativeCalls == {"getifaddrs", "ioctl"}
DetectorCalls == {"getInterfacesNative", "getKernelRoutesNative", "getKernelIpv6RoutesNative"}
ResultCalls == {"if_nametoindex", "getNetworkInterfaces", "Os.getifaddrs"} \cup DetectorCalls
Calls == NativeCalls \cup ResultCalls

(* Mutant of VpnPrefixes: OsInterfaceHook forgets wg. *)
VpnPrefixesOs(c) ==
  CASE c = "Os.getifaddrs" -> {"tun", "tap", "ppp", "ipsec"}
    [] c \in DetectorCalls -> {"tun", "tap", "ppp", "wg", "utun", "ipsec", "xfrm", "zt",
                               "tailscale", "svpn", "ovpn", "l2tp", "gre", "he-ipv6"}
    [] OTHER -> {"tun", "tap", "ppp", "wg", "ipsec"}

VpnPrefixes(c) ==
  IF c \in DetectorCalls
  THEN {"tun", "tap", "ppp", "wg", "utun", "ipsec", "xfrm", "zt",
        "tailscale", "svpn", "ovpn", "l2tp", "gre", "he-ipv6"}
  ELSE {"tun", "tap", "ppp", "wg", "ipsec"}

(* Hooks that turn a name to lower case first *)
FoldsCase == {"getNetworkInterfaces"} \cup DetectorCalls

(* The hook of call c takes n for a tunnel *)
isVpn(c, n) ==
  /\ n # NoName
  /\ \/ n.prefix \in VpnPrefixes(c) /\ (n.upper => c \in FoldsCase)
     \/ n.vpn /\ c \in DetectorCalls

VARIABLES
  call,      \* the call of the app
  input,     \* names[k] of the k-th interface the original returned
  ok,        \* the hook looks at the result: see Ignores
  nxt,       \* getifaddrs: nxt[k] is ifa_next, nxt[0] is *ifap
  prev, curr,
  ifr,       \* ioctl: the interface in each place of the array
  i, valid,
  ifc_len,   \* ... and how many places count
  result,    \* of the other calls
  reported,  \* the number of hidden interfaces in the report
  returned

given == <<call, input, ok>>
list == <<nxt, prev, curr>>
array == <<ifr, i, valid, ifc_len>>
vars == <<given, list, array, result, reported, returned>>

N == Len(input)
Hidden(k) == isVpn(call, input[k])
Plain == {k \in 1 .. N : ok => ~Hidden(k)}

(* A call with what its original returned.  getifaddrs ends the walk at null;
   if_nametoindex is about one name. *)
Init ==
  /\ call \in Calls
  /\ input \in Inputs
  /\ ok \in BOOLEAN
  /\ call = "if_nametoindex" => ok /\ N = 1
  /\ call \notin {"getifaddrs", "Os.getifaddrs"} => \A k \in 1 .. N : input[k] # NoName
  /\ nxt = [k \in 0 .. N |-> IF k = N THEN 0 ELSE k + 1]
  /\ prev = 0
  /\ curr = nxt[0]
  /\ ifr = [k \in 1 .. N |-> k]
  /\ i = 1
  /\ valid = 0
  /\ ifc_len = N
  /\ result = [k \in 1 .. N |-> k]
  /\ reported = 0
  /\ returned = FALSE

-----------------------------------------------------------------------------
(* The guards a hook starts with: the call failed, another request than
   SIOCGIFCONF, no array given, a result or a field that is not there. *)
Ignores ==
  /\ ~ok /\ ~returned
  /\ returned' = TRUE
  /\ UNCHANGED <<given, list, array, result, reported>>

(* Mutant of Unlink: the removed node becomes prev. *)
UnlinkAdvance ==
  /\ Hidden(curr)
  /\ nxt' = [nxt EXCEPT ![prev] = nxt[curr]]
  /\ prev' = curr
  /\ curr' = nxt[curr]

(* Mutant of Unlink: curr is not moved on. *)
UnlinkStay ==
  /\ Hidden(curr)
  /\ nxt' = [nxt EXCEPT ![prev] = nxt[curr]]
  /\ UNCHANGED <<prev, curr>>

(* hook_getifaddrs: prev->ifa_next, or *ifap, goes past a hidden node *)
Unlink ==
  /\ Hidden(curr)
  /\ nxt' = [nxt EXCEPT ![prev] = nxt[curr]]
  /\ curr' = nxt[curr]
  /\ UNCHANGED prev

StepOn ==
  /\ ~Hidden(curr)
  /\ prev' = curr
  /\ curr' = nxt[curr]
  /\ UNCHANGED nxt

WalkList ==
  /\ call = "getifaddrs" /\ ok /\ curr # 0
  /\ Unlink \/ StepOn
  /\ UNCHANGED <<given, array, result, reported, returned>>

(* Mutant of MoveDown: the copy is made where it is not needed. *)
MoveDownUncopied ==
  /\ valid' = valid + 1
  /\ UNCHANGED ifr

(* hook_ioctl: a plain entry is copied to the next place that counts *)
MoveDown ==
  /\ ifr' = [ifr EXCEPT ![valid + 1] = ifr[i]]
  /\ valid' = valid + 1

Compact ==
  /\ call = "ioctl" /\ ok /\ i <= N
  /\ \/ ~Hidden(ifr[i]) /\ MoveDown
     \/ Hidden(ifr[i]) /\ UNCHANGED <<ifr, valid>>
  /\ i' = i + 1
  /\ UNCHANGED <<given, list, ifc_len, result, reported, returned>>

(* Mutant of ReturnNative: one place too many *)
ReturnNativeOneMore ==
  /\ call \in NativeCalls /\ ok /\ ~returned
  /\ call = "getifaddrs" => curr = 0
  /\ call = "ioctl" => i > N
  /\ ifc_len' = valid + 1
  /\ returned' = TRUE
  /\ UNCHANGED <<given, list, ifr, i, valid, result, reported>>

(* The native hooks return when their loop is done. *)
ReturnNative ==
  /\ call \in NativeCalls /\ ok /\ ~returned
  /\ call = "getifaddrs" => curr = 0
  /\ call = "ioctl" => i > N
  /\ ifc_len' = IF call = "ioctl" THEN valid ELSE ifc_len
  /\ returned' = TRUE
  /\ UNCHANGED <<given, list, ifr, i, valid, result, reported>>

(* What is left to read from the original result.  An Enumeration is used up
   by the hook's own toList; an array is not. *)
Remaining == IF call = "getNetworkInterfaces" THEN << >> ELSE result

(* The elements of s that are in S, in their order *)
Filtered(s, S) ==
  LET kept[k \in 0 .. Len(s)] ==
        IF k = 0 THEN << >>
        ELSE IF s[k] \in S THEN Append(kept[k - 1], s[k]) ELSE kept[k - 1]
  IN kept[Len(s)]

Clean == Filtered(result, {k \in 1 .. N : ~Hidden(k)})

(* Mutant of Replaces: only when there was something to hide *)
ReplacesIfHidden == Len(Clean) < N

(* NetworkInterfaceHook always returns its copy. *)
Replaces == call = "getNetworkInterfaces" \/ Len(Clean) < N

(* The hooks that return a filtered copy, or 0 for a hidden name *)
FilterResult ==
  /\ call \in ResultCalls /\ ok /\ ~returned
  /\ result' = IF Replaces THEN Clean ELSE Remaining
  /\ reported' = IF call = "if_nametoindex" THEN 0 ELSE N - Len(Clean)
  /\ returned' = TRUE
  /\ UNCHANGED <<given, list, array>>

Next == Ignores \/ WalkList \/ Compact \/ ReturnNative \/ FilterResult

Spec == Init /\ [][Next]_vars

(* A call runs to its end. *)
FairSpec == Spec /\ WF_vars(Next)

-----------------------------------------------------------------------------
TypeOK ==
  /\ call \in Calls
  /\ input \in Inputs
  /\ ok \in BOOLEAN
  /\ nxt \in [0 .. N -> 0 .. N]
  /\ prev \in 0 .. N
  /\ curr \in 0 .. N
  /\ ifr \in [1 .. N -> 1 .. N]
  /\ i \in 1 .. N + 1
  /\ valid \in 0 .. i - 1
  /\ ifc_len \in 0 .. N
  /\ result \in Seq(1 .. N)
  /\ reported \in 0 .. N
  /\ returned \in BOOLEAN

(* m follows k in the list of the plain interfaces *)
Follows(k, m) ==
  IF m = 0 THEN \A p \in Plain : p <= k
           ELSE m \in Plain /\ k < m /\ \A p \in Plain : p <= k \/ m <= p

(* The list getifaddrs returns is exactly the plain interfaces, in order and
   ending with null, wherever the hidden ones were: at the head, at the tail,
   several in a row. *)
ListIsPlain ==
  returned /\ call = "getifaddrs" => \A k \in {0} \cup Plain : Follows(k, nxt[k])

(* The places of the array that count hold exactly the plain interfaces, each
   once and in order. *)
ArrayIsPlain ==
  returned /\ call = "ioctl" =>
    /\ \A j, k \in 1 .. ifc_len : j < k => ifr[j] < ifr[k]
    /\ {ifr[j] : j \in 1 .. ifc_len} = Plain

(* What a Java caller can still read is the plain interfaces, though the hook
   may have used up the original; the report says how many are missing. *)
ResultIsPlain ==
  returned /\ call \in ResultCalls =>
    /\ \A j, k \in DOMAIN result : j < k => result[j] < result[k]
    /\ {result[j] : j \in DOMAIN result} = Plain
    /\ call # "if_nametoindex" => reported + Len(result) = N

(* The layers agree on the tunnels of fd_tracker.h: whichever way the app
   lists interfaces, none that is_vpn_interface names is shown. *)
TunnelsHiddenEverywhere ==
  returned /\ ok =>
    \A k \in 1 .. N :
      isVpn("getifaddrs", input[k]) =>
        CASE call = "getifaddrs" -> \A p \in {0} \cup Plain : nxt[p] # k
          [] call = "ioctl"      -> \A j \in 1 .. ifc_len : ifr[j] # k
          [] OTHER               -> \A j \in DOMAIN result : result[j] # k

(* Each call returns: the list stays free of cycles. *)
Terminates == <>returned
=============================================================================
