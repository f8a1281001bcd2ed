------------------------- MODULE IfaceFilter_proofs -------------------------
(***************************************************************************)
(* Theorems about IfaceFilter, for lists of any length and any names: the  *)
(* list and the array that the native loops leave, and the copies that the *)
(* Java hooks return, are exactly the plain interfaces.                    *)
(***************************************************************************)
EXTENDS IfaceFilter, SequenceTheorems, WellFoundedInduction, TLAPS

(* The nodes up to prev are linked as they shall be, prev points at curr, the
   nodes between them are hidden, and those from curr on are as libc left
   them. *)
ListInv ==
  /\ nxt \in [0 .. N -> 0 .. N] /\ prev \in 0 .. N /\ curr \in 0 .. N
  /\ prev \in {0} \cup Plain
  /\ nxt[prev] = curr
  /\ curr # 0 => prev < curr
  /\ \A p \in Plain : p <= prev \/ (curr # 0 /\ curr <= p)
  /\ \A k \in {0} \cup Plain : k < prev => Follows(k, nxt[k])
  /\ curr # 0 => \A k \in curr .. N : nxt[k] = IF k = N THEN 0 ELSE k + 1
  /\ ~ok => prev = 0 /\ curr = IF N = 0 THEN 0 ELSE 1
  /\ returned /\ ok /\ call = "getifaddrs" => curr = 0

(* The places up to valid hold the plain interfaces before i, in order; those
   from i on are as the kernel left them. *)
ArrayInv ==
  /\ ifr \in [1 .. N -> 1 .. N] /\ i \in 1 .. N + 1 /\ valid \in 0 .. i - 1
  /\ \A j, k \in 1 .. valid : j < k => ifr[j] < ifr[k]
  /\ \A j \in 1 .. valid : ifr[j] \in Plain /\ ifr[j] < i
  /\ \A p \in Plain : p < i => \E j \in 1 .. valid : ifr[j] = p
  /\ \A j \in i .. N : ifr[j] = j
  /\ ~ok => i = 1 /\ ifc_len = N
  /\ returned /\ ok /\ call = "ioctl" => i > N /\ ifc_len = valid

(* c lists the members of S up to k in order. *)
Lists(c, S, k, n) ==
  /\ c \in Seq(1 .. n) /\ Len(c) <= k
  /\ \A j, m \in 1 .. Len(c) : j < m => c[j] < c[m]
  /\ \A j \in 1 .. Len(c) : c[j] \in S /\ c[j] <= k
  /\ \A p \in S : p <= k => \E j \in 1 .. Len(c) : c[j] = p
  /\ Len(c) = k => 1 .. k \subseteq S

Filters == ok /\ call \in ResultCalls

(* The result is what the original returned until the hook has filtered it. *)
ResultInv ==
  /\ call \in Calls /\ input \in Inputs /\ ok \in BOOLEAN /\ returned \in BOOLEAN
  /\ ifc_len \in 0 .. N
  /\ ~(returned /\ Filters) => result = [k \in 1 .. N |-> k] /\ reported = 0
  /\ returned /\ Filters =>
       /\ Lists(result, Plain, N, N)
       /\ reported = IF call = "if_nametoindex" THEN 0 ELSE N - Len(result)

IInv == N \in Nat /\ ListInv /\ ArrayInv

-----------------------------------------------------------------------------
LEMMA InitIInv == ASSUME Init PROVE IInv
<1>1. N \in Nat
  BY InputAssumption DEF Init, N
<1>2. Plain \subseteq 1 .. N
  BY DEF Plain
<1>3. ListInv
  BY <1>1, <1>2 DEF Init, ListInv
<1>4. ArrayInv
  BY <1>1, <1>2 DEF Init, ArrayInv
<1> QED BY <1>1, <1>3, <1>4 DEF IInv

(* The call, what it is about and so what is plain never change. *)
LEMMA SameInterfaces ==
  ASSUME UNCHANGED given
  PROVE  N' = N /\ Plain' = Plain /\ call' = call /\ ok' = ok
  BY DEF given, N, Plain, Hidden

LEMMA ListKept ==
  ASSUME IInv, UNCHANGED given, UNCHANGED list,
         returned' = returned \/ call # "getifaddrs" \/ ~ok \/ curr = 0
  PROVE  ListInv'
<1>1. N' = N /\ Plain' = Plain /\ call' = call /\ ok' = ok
  BY SameInterfaces
<1>2. nxt' = nxt /\ prev' = prev /\ curr' = curr
  BY DEF list
<1> QED BY <1>1, <1>2 DEF IInv, ListInv, Follows

LEMMA ArrayKept ==
  ASSUME IInv, UNCHANGED given, UNCHANGED <<ifr, i, valid>>,
         \/ UNCHANGED ifc_len /\ (returned' = returned \/ call # "ioctl" \/ ~ok)
         \/ ok /\ i > N /\ ifc_len' = valid
  PROVE  ArrayInv'
<1>1. N' = N /\ Plain' = Plain /\ call' = call /\ ok' = ok
  BY SameInterfaces
<1> QED BY <1>1 DEF IInv, ArrayInv

-----------------------------------------------------------------------------
(* hook_getifaddrs *)
LEMMA ListWalked == ASSUME IInv, WalkList PROVE IInv'
<1>1. UNCHANGED given /\ ok /\ curr # 0 /\ UNCHANGED <<array, returned>>
  BY DEF WalkList
<1>2. N' = N /\ Plain' = Plain /\ call' = call /\ ok' = ok
  BY <1>1, SameInterfaces
<1>3. ArrayInv'
  BY <1>1, ArrayKept DEF array
<1>4. ~(returned /\ call = "getifaddrs")
  BY <1>1 DEF IInv, ListInv
<1>5. call = "getifaddrs" /\ ~returned' /\ N \in Nat /\ curr \in 1 .. N
  BY <1>1, <1>4 DEF WalkList, IInv, ListInv
<1>6. Plain \subseteq 1 .. N /\ (curr \in Plain <=> ~Hidden(curr))
  BY <1>1, <1>5 DEF Plain
<1>7. /\ nxt[curr] = IF curr = N THEN 0 ELSE curr + 1
      /\ nxt[curr] \in 0 .. N
  BY <1>1, <1>5 DEF IInv, ListInv
<1>8. CASE Unlink
  <2>1. /\ nxt' = [nxt EXCEPT ![prev] = nxt[curr]]
        /\ curr' = nxt[curr] /\ prev' = prev /\ curr \notin Plain
    BY <1>6, <1>8 DEF Unlink
  <2>2. prev < curr
    BY <1>1 DEF IInv, ListInv
  <2>3. \A k \in 0 .. N : nxt'[k] = IF k = prev THEN nxt[curr] ELSE nxt[k]
    BY <2>1 DEF IInv, ListInv
  <2>4. nxt' \in [0 .. N -> 0 .. N]
    BY <2>1, <1>7 DEF IInv, ListInv
  <2>5. \A p \in Plain : p <= prev \/ (curr' # 0 /\ curr' <= p)
    BY <1>5, <1>6, <1>7, <2>1 DEF IInv, ListInv
  <2>6. \A k \in {0} \cup Plain : k < prev => Follows(k, nxt[k])' /\ nxt'[k] = nxt[k]
    <3> SUFFICES ASSUME NEW k \in {0} \cup Plain, k < prev PROVE Follows(k, nxt[k])' /\ nxt'[k] = nxt[k]
      OBVIOUS
    <3>1. Follows(k, nxt[k])
      BY <1>5 DEF IInv, ListInv
    <3>2. k \in 0 .. N /\ k # prev
      BY <1>5, <1>6
    <3>3. nxt'[k] = nxt[k]
      BY <2>3, <3>2
    <3>4. Follows(k, nxt[k])'
      BY <1>2, <3>1, <3>3 DEF Follows
    <3> QED BY <3>3, <3>4
  <2>7. curr' # 0 => \A k \in curr' .. N : nxt'[k] = IF k = N THEN 0 ELSE k + 1
    BY <1>5, <1>7, <2>1, <2>2, <2>3 DEF IInv, ListInv
  <2>8. ListInv'
    BY <1>1, <1>2, <1>5, <1>6, <1>7, <2>1, <2>2, <2>3, <2>4, <2>5, <2>6, <2>7
       DEF IInv, ListInv
  <2> QED BY <1>2, <1>3, <1>5, <2>8 DEF IInv
<1>9. CASE StepOn
  <2>1. nxt' = nxt /\ prev' = curr /\ curr' = nxt[curr] /\ curr \in Plain
    BY <1>6, <1>9 DEF StepOn
  <2>2. Follows(prev, curr)
    BY <1>5, <1>6, <2>1 DEF IInv, ListInv, Follows
  <2>3. \A k \in {0} \cup Plain : k < curr => k <= prev
    BY <1>5, <1>6 DEF IInv, ListInv
  <2>4. \A k \in {0} \cup Plain : k < curr => Follows(k, nxt[k])
    BY <1>5, <1>6, <2>2, <2>3 DEF IInv, ListInv
  <2>5. \A p \in Plain : p <= curr \/ (curr' # 0 /\ curr' <= p)
    BY <1>5, <1>6, <1>7, <2>1
  <2>6. curr' # 0 => \A k \in curr' .. N : nxt[k] = IF k = N THEN 0 ELSE k + 1
    BY <1>5, <1>7, <2>1 DEF IInv, ListInv
  <2>7. \A k \in {0} \cup Plain : k < prev' => Follows(k, nxt[k])'
    BY <1>2, <2>1, <2>4 DEF Follows
  <2>8. ListInv'
    BY <1>1, <1>2, <1>5, <1>6, <1>7, <2>1, <2>5, <2>6, <2>7 DEF IInv, ListInv
  <2> QED BY <1>2, <1>3, <1>5, <2>8 DEF IInv
<1> QED BY <1>8, <1>9 DEF WalkList

(* hook_ioctl *)
LEMMA ArrayCompacted == ASSUME IInv, Compact PROVE IInv'
<1>1. UNCHANGED given /\ ok /\ i <= N /\ UNCHANGED <<list, ifc_len, returned>>
  BY DEF Compact
<1>2. N' = N /\ Plain' = Plain /\ call' = call /\ ok' = ok
  BY <1>1, SameInterfaces
<1>3. ListInv'
  BY <1>1, ListKept
<1>4. ~(returned /\ call = "ioctl")
  BY <1>1 DEF IInv, ArrayInv
<1>5. call = "ioctl" /\ ~returned' /\ N \in Nat /\ i \in 1 .. N /\ i' = i + 1
  BY <1>1, <1>4 DEF Compact, IInv, ArrayInv
<1>6. ifr[i] = i /\ (i \in Plain <=> ~Hidden(i)) /\ valid \in 0 .. i - 1
  BY <1>1, <1>5 DEF Plain, IInv, ArrayInv
<1>7. Plain \subseteq 1 .. N
  BY DEF Plain
<1>8. CASE ~Hidden(ifr[i]) /\ MoveDown
  <2>1. ifr' = [ifr EXCEPT ![valid + 1] = i] /\ valid' = valid + 1 /\ i \in Plain
    BY <1>6, <1>8 DEF MoveDown
  <2>2. ifr' \in [1 .. N -> 1 .. N]
    BY <1>5, <2>1 DEF IInv, ArrayInv
  <2>3. \A j \in 1 .. N : ifr'[j] = IF j = valid + 1 THEN i ELSE ifr[j]
    BY <2>1 DEF IInv, ArrayInv
  <2>4. valid' \in 0 .. i' - 1 /\ i' \in 1 .. N + 1
    BY <1>5, <1>6, <2>1
  <2>5. \A j \in 1 .. valid + 1 : ifr'[j] \in Plain /\ ifr'[j] < i + 1
    BY <1>5, <1>6, <1>7, <2>1, <2>3 DEF IInv, ArrayInv
  <2>6. \A j, k \in 1 .. valid + 1 : j < k => ifr'[j] < ifr'[k]
    BY <1>5, <1>6, <1>7, <2>3 DEF IInv, ArrayInv
  <2>7. ASSUME NEW p \in Plain, p < i + 1
        PROVE  \E j \in 1 .. valid + 1 : ifr'[j] = p
    <3>1. CASE p = i
      BY <1>5, <1>6, <2>3, <3>1
    <3>2. CASE p # i
      <4>1. p < i
        BY <1>5, <1>7, <2>7, <3>2
      <4>2. PICK j \in 1 .. valid : ifr[j] = p
        BY <4>1 DEF IInv, ArrayInv
      <4>3. j \in 1 .. valid + 1 /\ ifr'[j] = p
        BY <1>5, <1>6, <2>3, <4>2
      <4> QED BY <4>3
    <3> QED BY <3>1, <3>2
  <2>8. \A j \in i + 1 .. N : ifr'[j] = j
    BY <1>5, <1>6, <2>3 DEF IInv, ArrayInv
  <2>9. ArrayInv'
    BY <1>1, <1>2, <1>5, <2>1, <2>2, <2>4, <2>5, <2>6, <2>7, <2>8 DEF ArrayInv
  <2> QED BY <1>2, <1>3, <1>5, <2>9 DEF IInv
<1>9. CASE Hidden(ifr[i]) /\ UNCHANGED <<ifr, valid>>
  <2>1. i \notin Plain /\ ifr' = ifr /\ valid' = valid
    BY <1>6, <1>9
  <2>2. \A p \in Plain : p < i + 1 => p < i
    BY <1>5, <1>7, <2>1
  <2>3. \A p \in Plain : p < i + 1 => \E j \in 1 .. valid : ifr[j] = p
    BY <2>2 DEF IInv, ArrayInv
  <2>4. \A j \in 1 .. valid : ifr[j] \in Plain /\ ifr[j] < i + 1
    BY <1>5, <1>7 DEF IInv, ArrayInv
  <2>5. ArrayInv'
    BY <1>1, <1>2, <1>5, <1>6, <2>1, <2>3, <2>4 DEF IInv, ArrayInv
  <2> QED BY <1>2, <1>3, <1>5, <2>5 DEF IInv
<1> QED BY <1>8, <1>9 DEF Compact

LEMMA NextIInv == ASSUME IInv, [Next]_vars PROVE IInv'
<1>1. CASE Ignores
  <2>1. UNCHANGED given /\ UNCHANGED list /\ UNCHANGED array /\ ~ok
    BY <1>1 DEF Ignores
  <2> QED BY <2>1, ListKept, ArrayKept, SameInterfaces DEF IInv, array
<1>2. CASE WalkList
  BY <1>2, ListWalked
<1>3. CASE Compact
  BY <1>3, ArrayCompacted
<1>4. CASE ReturnNative
  <2>1. UNCHANGED given /\ UNCHANGED list /\ UNCHANGED <<ifr, i, valid>> /\ ok
        /\ (call = "getifaddrs" => curr = 0) /\ (call = "ioctl" => i > N)
        /\ ifc_len' = IF call = "ioctl" THEN valid ELSE ifc_len
    BY <1>4 DEF ReturnNative
  <2>2. ListInv'
    BY <2>1, ListKept
  <2>3. ArrayInv'
    BY <2>1, ArrayKept
  <2> QED BY <2>1, <2>2, <2>3, SameInterfaces DEF IInv
<1>5. CASE FilterResult
  <2>1. UNCHANGED given /\ UNCHANGED list /\ UNCHANGED array
        /\ call # "getifaddrs" /\ call # "ioctl"
    BY <1>5 DEF FilterResult, ResultCalls, DetectorCalls
  <2> QED BY <2>1, ListKept, ArrayKept, SameInterfaces DEF IInv, array
<1>6. CASE UNCHANGED vars
  BY <1>6, ListKept, ArrayKept, SameInterfaces DEF vars, IInv, array
<1> QED BY <1>1, <1>2, <1>3, <1>4, <1>5, <1>6 DEF Next

LEMMA Invariant == Spec => []IInv
  BY InitIInv, NextIInv, PTL DEF Spec

-----------------------------------------------------------------------------
(* What the hooks of the Java layer keep is defined by recursion.  A set of
   naturals has a least element, *)
LEMMA Least ==
  ASSUME NEW S, S \subseteq Nat, S # {}
  PROVE  \E m \in S : \A k \in S : m <= k
<1>1. PICK m \in S : \A k \in S : ~(<<k, m>> \in OpToRel(<, Nat))
  BY NatLessThanWellFounded, WFMin
<1>2. \A k \in S : ~(k < m)
  BY <1>1 DEF OpToRel
<1> QED BY <1>2

(* so that the recursive definition of Filtered has the function it stands
   for: a least length without one is that of a longer one. *)
StepOfFilter(g, s, S, k) ==
  IF k = 0 THEN << >>
  ELSE IF s[k] \in S THEN Append(g[k - 1], s[k]) ELSE g[k - 1]

LEMMA Kept ==
  ASSUME NEW s, Len(s) \in Nat, NEW S
  PROVE  \E g : g = [k \in 0 .. Len(s) |-> StepOfFilter(g, s, S, k)] /\ Filtered(s, S) = g[Len(s)]
<1> DEFINE Exists(n) == \E g : g = [k \in 0 .. n |-> StepOfFilter(g, s, S, k)]
           Bad == {n \in Nat : ~Exists(n)}
<1>1. Bad = {}
  <2> SUFFICES ASSUME Bad # {} PROVE FALSE
    OBVIOUS
  <2>1. PICK n \in Bad : \A k \in Bad : n <= k
    <3> HIDE DEF Exists
    <3> QED BY Least
  <2>2. n # 0
    <3>1. [k \in 0 .. 0 |-> << >>] = [k \in 0 .. 0 |-> StepOfFilter([j \in 0 .. 0 |-> << >>], s, S, k)]
      BY DEF StepOfFilter
    <3>2. Exists(0)
      BY <3>1
    <3> QED BY <3>2
  <2>3. n - 1 \in Nat /\ n - 1 \notin Bad
    BY <2>1, <2>2
  <2>4. PICK g : g = [k \in 0 .. n - 1 |-> StepOfFilter(g, s, S, k)]
    BY <2>3
  <2> DEFINE h == [k \in 0 .. n |-> StepOfFilter(g, s, S, k)]
  <2>5. \A k \in 0 .. n - 1 : h[k] = g[k]
    BY <2>3, <2>4
  <2>6. h = [k \in 0 .. n |-> StepOfFilter(h, s, S, k)]
    <3>1. \A k \in 0 .. n : StepOfFilter(h, s, S, k) = StepOfFilter(g, s, S, k)
      <4> SUFFICES ASSUME NEW k \in 0 .. n PROVE StepOfFilter(h, s, S, k) = StepOfFilter(g, s, S, k)
        OBVIOUS
      <4>1. CASE k = 0
        BY <4>1 DEF StepOfFilter
      <4>2. CASE k # 0
        <5>1. k - 1 \in 0 .. n - 1
          BY <4>2
        <5>2. h[k - 1] = g[k - 1]
          BY <5>1, <2>5
        <5> HIDE DEF h
        <5> QED BY <5>2 DEF StepOfFilter
      <4> QED BY <4>1, <4>2
    <3> QED BY <3>1
  <2> HIDE DEF h
  <2>7. Exists(n)
    BY <2>6
  <2> QED BY <2>7
<1>2. Exists(Len(s))
  BY <1>1
<1> DEFINE kept == CHOOSE g : g = [k \in 0 .. Len(s) |-> StepOfFilter(g, s, S, k)]
<1>3. kept = [k \in 0 .. Len(s) |-> StepOfFilter(kept, s, S, k)]
  BY <1>2
<1>4. Filtered(s, S) = kept[Len(s)]
  BY DEF Filtered, StepOfFilter
<1> HIDE DEF kept
<1> QED BY <1>3, <1>4

(* One more interface *)
LEMMA ListsMore ==
  ASSUME NEW n \in Nat, NEW S \in SUBSET (1 .. n), NEW k \in 1 .. n, NEW c, Lists(c, S, k - 1, n)
  PROVE  Lists(IF k \in S THEN Append(c, k) ELSE c, S, k, n)
<1>1. c \in Seq(1 .. n) /\ Len(c) \in Nat /\ Len(c) <= k - 1
  BY LenProperties DEF Lists
<1>2. CASE k \in S
  <2> DEFINE a == Append(c, k)
  <2>1. a \in Seq(1 .. n) /\ Len(a) = Len(c) + 1 /\ a[Len(c) + 1] = k
        /\ \A j \in 1 .. Len(c) : a[j] = c[j]
    BY <1>1, AppendProperties
  <2> HIDE DEF a
  <2>2. \A j \in 1 .. Len(a) : j \in 1 .. Len(c) \/ j = Len(c) + 1
    BY <1>1, <2>1
  <2>3. \A h, j \in 1 .. Len(a) : h < j => a[h] < a[j]
    <3> SUFFICES ASSUME NEW h \in 1 .. Len(a), NEW j \in 1 .. Len(a), h < j PROVE a[h] < a[j]
      OBVIOUS
    <3>1. h \in 1 .. Len(c) /\ a[h] = c[h]
      BY <1>1, <2>1
    <3>2. CASE j \in 1 .. Len(c)
      BY <2>1, <3>1, <3>2 DEF Lists
    <3>3. CASE j = Len(c) + 1
      <4>1. c[h] <= k - 1 /\ c[h] \in 1 .. n
        BY <1>1, <3>1 DEF Lists
      <4> QED BY <2>1, <3>1, <3>3, <4>1
    <3> QED BY <2>2, <3>2, <3>3
  <2>4. \A j \in 1 .. Len(a) : a[j] \in S /\ a[j] <= k
    <3> SUFFICES ASSUME NEW j \in 1 .. Len(a) PROVE a[j] \in S /\ a[j] <= k
      OBVIOUS
    <3>1. CASE j \in 1 .. Len(c)
      <4>1. a[j] = c[j] /\ c[j] \in S /\ c[j] <= k - 1 /\ c[j] \in 1 .. n
        BY <1>1, <2>1, <3>1 DEF Lists
      <4> QED BY <4>1
    <3> QED BY <1>2, <2>1, <2>2, <3>1
  <2>5. ASSUME NEW p \in S, p <= k PROVE \E j \in 1 .. Len(a) : a[j] = p
    <3>1. CASE p = k
      BY <1>1, <2>1, <3>1
    <3>2. CASE p # k
      <4>1. p <= k - 1
        BY <2>5, <3>2
      <4>2. PICK j \in 1 .. Len(c) : c[j] = p
        BY <4>1 DEF Lists
      <4>3. j \in 1 .. Len(a) /\ a[j] = p
        BY <1>1, <2>1, <4>2
      <4> QED BY <4>3
    <3> QED BY <3>1, <3>2
  <2>6. Len(a) = k => 1 .. k \subseteq S
    <3> SUFFICES ASSUME Len(a) = k PROVE 1 .. k \subseteq S
      OBVIOUS
    <3>1. 1 .. k - 1 \subseteq S
      BY <1>1, <2>1 DEF Lists
    <3> QED BY <1>2, <3>1
  <2>7. Len(a) <= k
    BY <1>1, <2>1
  <2>8. Lists(a, S, k, n)
    BY <2>1, <2>3, <2>4, <2>5, <2>6, <2>7 DEF Lists
  <2> QED BY <1>2, <2>8 DEF a
<1>3. CASE k \notin S
  <2>1. \A p \in S : p <= k => p <= k - 1
    BY <1>3
  <2>2. \A j \in 1 .. Len(c) : c[j] \in S /\ c[j] <= k
    <3> SUFFICES ASSUME NEW j \in 1 .. Len(c) PROVE c[j] \in S /\ c[j] <= k
      OBVIOUS
    <3>1. c[j] \in S /\ c[j] <= k - 1 /\ c[j] \in 1 .. n
      BY <1>1 DEF Lists
    <3> QED BY <3>1
  <2>3. Len(c) <= k /\ Len(c) # k
    BY <1>1
  <2> QED BY <1>1, <1>3, <2>1, <2>2, <2>3 DEF Lists
<1> QED BY <1>2, <1>3

(* and, again from the least counterexample, all of them. *)
LEMMA FilteredCounts ==
  ASSUME NEW n \in Nat, NEW S \in SUBSET (1 .. n), NEW s, Len(s) = n, \A k \in 1 .. n : s[k] = k
  PROVE  Lists(Filtered(s, S), S, n, n)
<1>1. Len(s) = n /\ \A k \in 1 .. n : s[k] = k
  OBVIOUS
<1>2. PICK g : g = [k \in 0 .. n |-> StepOfFilter(g, s, S, k)] /\ Filtered(s, S) = g[n]
  <2>1. \E g : g = [k \in 0 .. Len(s) |-> StepOfFilter(g, s, S, k)] /\ Filtered(s, S) = g[Len(s)]
    BY Kept
  <2> QED BY <2>1
<1>3. g[0] = << >> /\ \A k \in 1 .. n : g[k] = IF k \in S THEN Append(g[k - 1], k) ELSE g[k - 1]
    <2>1. g[0] = StepOfFilter(g, s, S, 0) /\ \A k \in 1 .. n : g[k] = StepOfFilter(g, s, S, k)
    <3> HIDE DEF StepOfFilter
    <3>1. 0 \in 0 .. n /\ \A k \in 1 .. n : k \in 0 .. n
      OBVIOUS
    <3> QED BY <1>2, <3>1
  <2>2. ASSUME NEW k \in 1 .. n PROVE k # 0 /\ s[k] = k
    BY <1>1
  <2> QED BY <2>1, <2>2 DEF StepOfFilter
<1>4. Lists(<< >>, S, 0, n)
  BY EmptySeq DEF Lists
<1> DEFINE Bad == {k \in 0 .. n : ~Lists(g[k], S, k, n)}
<1>5. Bad = {}
  <2>0. SUFFICES ASSUME Bad # {} PROVE FALSE
    OBVIOUS
  <2>1. PICK k \in Bad : \A j \in Bad : k <= j
    <3>1. Bad \subseteq Nat
      OBVIOUS
    <3> HIDE DEF Bad
    <3> QED BY <2>0, <3>1, Least
  <2>2. k \in 1 .. n /\ k - 1 \in 0 .. n /\ k - 1 \notin Bad
    BY <1>3, <1>4, <2>1
  <2>3. Lists(g[k - 1], S, k - 1, n)
    BY <2>2
  <2>4. Lists(g[k], S, k, n)
    BY <1>3, <2>2, <2>3, ListsMore
  <2> QED BY <2>1, <2>4
<1>6. Lists(g[n], S, n, n)
  BY <1>5
<1> QED BY <1>2, <1>6

LEMMA FilteredLists ==
  ASSUME NEW n \in Nat, NEW S \in SUBSET (1 .. n), NEW s, s = [k \in 1 .. n |-> k]
  PROVE  Lists(Filtered(s, S), S, n, n)
<1>1. Len(s) = n /\ \A k \in 1 .. n : s[k] = k
  <2>1. s \in Seq(1 .. n)
    OBVIOUS
  <2> QED BY <2>1, LenProperties
<1> QED BY <1>1, FilteredCounts

-----------------------------------------------------------------------------
LEMMA InitResult == ASSUME Init PROVE ResultInv
<1>1. IInv
  BY InitIInv
<1>2. ifc_len = N /\ N \in Nat
  BY <1>1 DEF Init, IInv
<1>3. call \in Calls /\ input \in Inputs /\ ok \in BOOLEAN /\ ~returned /\ returned \in BOOLEAN
  BY DEF Init
<1>4. result = [k \in 1 .. N |-> k] /\ reported = 0
  BY DEF Init
<1>5. ifc_len \in 0 .. N
  BY <1>2
<1> QED BY <1>3, <1>4, <1>5 DEF ResultInv

(* The Java hooks: a copy of the plain interfaces, or the original when there
   was nothing to hide *)
LEMMA ResultFiltered == ASSUME IInv, ResultInv, FilterResult PROVE ResultInv'
<1>1. /\ UNCHANGED given /\ UNCHANGED ifc_len /\ returned' /\ Filters /\ ~returned
      /\ result' = IF Replaces THEN Clean ELSE Remaining
      /\ reported' = IF call = "if_nametoindex" THEN 0 ELSE N - Len(Clean)
  BY DEF FilterResult, Filters, array
<1>2. N' = N /\ Plain' = Plain /\ call' = call /\ ok' = ok /\ input' = input
  BY <1>1, SameInterfaces DEF given
<1>3. N \in Nat /\ Plain \in SUBSET (1 .. N) /\ result = [k \in 1 .. N |-> k]
  BY <1>1 DEF IInv, ResultInv, Plain
<1>4. {k \in 1 .. N : ~Hidden(k)} = Plain
  BY <1>1 DEF Plain, Filters
<1>5. Lists(Clean, Plain, N, N)
  BY <1>3, <1>4, FilteredLists DEF Clean
<1>6. Clean \in Seq(1 .. N) /\ Len(Clean) \in Nat /\ Len(Clean) <= N
  BY <1>5, LenProperties DEF Lists
<1>7. Lists(result', Plain, N, N) /\ Len(result') = Len(Clean)
  <2>1. CASE Replaces
    BY <1>1, <1>5, <2>1
  <2>2. CASE ~Replaces
    <3>0. call # "getNetworkInterfaces" /\ ~(Len(Clean) < N)
      BY <2>2 DEF Replaces
    <3>1. Len(Clean) = N /\ result' = result
      BY <1>1, <1>3, <1>6, <2>2, <3>0 DEF Remaining
    <3>2. Plain = 1 .. N
      BY <1>3, <1>5, <3>1 DEF Lists
    <3>3. result \in Seq(1 .. N) /\ Len(result) = N
      BY <1>3, LenProperties
    <3>4. Lists(result, 1 .. N, N, N)
      BY <1>3, <3>3 DEF Lists
    <3> QED BY <3>1, <3>2, <3>3, <3>4
  <2> QED BY <2>1, <2>2
<1>8. Filters' = Filters
  BY <1>2 DEF Filters
<1>9. /\ call' \in Calls /\ input' \in Inputs /\ ok' \in BOOLEAN /\ returned' \in BOOLEAN
      /\ ifc_len' \in 0 .. N'
  <2>1. returned' = TRUE
    BY DEF FilterResult
  <2> QED BY <1>1, <1>2, <2>1 DEF ResultInv
<1>10. Lists(result, Plain, N, N)'
  BY <1>2, <1>7 DEF Lists
<1>11. reported' = IF call' = "if_nametoindex" THEN 0 ELSE N' - Len(result')
  BY <1>1, <1>2, <1>7
<1> QED BY <1>1, <1>8, <1>9, <1>10, <1>11 DEF ResultInv

LEMMA ResultKept ==
  ASSUME IInv, ResultInv, UNCHANGED <<given, result, reported>>, returned' \in BOOLEAN,
         returned' = returned \/ ~Filters, ifc_len' \in 0 .. N
  PROVE  ResultInv'
<1>1. N' = N /\ Plain' = Plain /\ call' = call /\ ok' = ok /\ input' = input
  BY SameInterfaces DEF given
<1>2. Filters' = Filters
  BY <1>1 DEF Filters
<1>3. Lists(result, Plain, N, N)' <=> Lists(result, Plain, N, N)
  BY <1>1 DEF Lists
<1> QED BY <1>1, <1>2, <1>3 DEF ResultInv

LEMMA NextResult == ASSUME IInv, ResultInv, [Next]_vars PROVE ResultInv'
<1>0. ifc_len \in 0 .. N /\ returned \in BOOLEAN
  BY DEF ResultInv
<1>1. CASE Ignores
  BY <1>0, <1>1, ResultKept DEF Ignores, array, Filters
<1>2. CASE WalkList
  BY <1>0, <1>2, ResultKept DEF WalkList, array
<1>3. CASE Compact
  BY <1>0, <1>3, ResultKept DEF Compact
<1>4. CASE ReturnNative
  <2>1. ~Filters
    BY <1>4 DEF ReturnNative, Filters, NativeCalls, ResultCalls, DetectorCalls
  <2>2. ifc_len' \in 0 .. N
    <3>1. call = "ioctl" => valid \in 0 .. N
      BY <1>4 DEF ReturnNative, IInv, ArrayInv
    <3> QED BY <1>0, <1>4, <3>1 DEF ReturnNative
  <2> QED BY <1>4, <2>1, <2>2, ResultKept DEF ReturnNative
<1>5. CASE FilterResult
  BY <1>5, ResultFiltered
<1>6. CASE UNCHANGED vars
  BY <1>0, <1>6, ResultKept DEF vars, array
<1> QED BY <1>1, <1>2, <1>3, <1>4, <1>5, <1>6 DEF Next

LEMMA ResultInvariant == Spec => [](IInv /\ ResultInv)
  BY InitIInv, NextIInv, InitResult, NextResult, PTL DEF Spec

-----------------------------------------------------------------------------
LEMMA ListResult == ASSUME IInv PROVE ListIsPlain
<1> SUFFICES ASSUME returned, call = "getifaddrs", NEW k \in {0} \cup Plain
             PROVE  Follows(k, nxt[k])
  BY DEF ListIsPlain
<1>1. N \in Nat /\ Plain \subseteq 1 .. N
  BY DEF IInv, Plain
<1>2. CASE ok
  <2>1. curr = 0
    BY <1>2 DEF IInv, ListInv
  <2>2. CASE k < prev
    BY <2>2 DEF IInv, ListInv
  <2>3. CASE k = prev
    BY <2>1, <2>3 DEF IInv, ListInv, Follows
  <2>4. k <= prev
    BY <1>1, <2>1 DEF IInv, ListInv
  <2> QED BY <1>1, <2>2, <2>3, <2>4 DEF IInv, ListInv
<1>3. CASE ~ok
  <2>1. Plain = 1 .. N
    BY <1>3 DEF Plain
  <2>2. nxt[k] = IF k = N THEN 0 ELSE k + 1
    BY <1>1, <1>3, <2>1 DEF IInv, ListInv
  <2> QED BY <1>1, <2>1, <2>2 DEF Follows
<1> QED BY <1>2, <1>3

LEMMA ArrayResult == ASSUME IInv PROVE ArrayIsPlain
<1> SUFFICES ASSUME returned, call = "ioctl"
             PROVE  /\ \A j, k \in 1 .. ifc_len : j < k => ifr[j] < ifr[k]
                    /\ {ifr[j] : j \in 1 .. ifc_len} = Plain
  BY DEF ArrayIsPlain
<1>1. N \in Nat /\ Plain \subseteq 1 .. N
  BY DEF IInv, Plain
<1>2. CASE ok
  <2>1. i > N /\ ifc_len = valid
    BY <1>2 DEF IInv, ArrayInv
  <2>2. \A p \in Plain : \E j \in 1 .. valid : ifr[j] = p
    BY <1>1, <2>1 DEF IInv, ArrayInv
  <2> QED BY <2>1, <2>2 DEF IInv, ArrayInv
<1>3. CASE ~ok
  <2>1. Plain = 1 .. N /\ ifc_len = N /\ \A j \in 1 .. N : ifr[j] = j
    BY <1>3 DEF Plain, IInv, ArrayInv
  <2> QED BY <1>1, <2>1
<1> QED BY <1>2, <1>3

LEMMA FilteredResult == ASSUME IInv, ResultInv PROVE ResultIsPlain
<1> SUFFICES ASSUME returned, call \in ResultCalls
             PROVE  /\ \A j, k \in DOMAIN result : j < k => result[j] < result[k]
                    /\ {result[j] : j \in DOMAIN result} = Plain
                    /\ call # "if_nametoindex" => reported + Len(result) = N
  BY DEF ResultIsPlain
<1>1. N \in Nat /\ Plain \subseteq 1 .. N
  BY DEF IInv, Plain
<1>2. CASE ok
  <2>1. Lists(result, Plain, N, N) /\ reported = IF call = "if_nametoindex" THEN 0 ELSE N - Len(result)
    BY <1>2 DEF ResultInv, Filters
  <2>2. DOMAIN result = 1 .. Len(result) /\ Len(result) \in Nat
    BY <2>1, LenProperties DEF Lists
  <2>3. \A p \in Plain : \E j \in 1 .. Len(result) : result[j] = p
    BY <1>1, <2>1 DEF Lists
  <2>4. \A j, k \in 1 .. Len(result) : j < k => result[j] < result[k]
    BY <2>1 DEF Lists
  <2>5. \A j \in 1 .. Len(result) : result[j] \in Plain
    BY <2>1 DEF Lists
  <2>6. {result[j] : j \in DOMAIN result} = Plain
    BY <2>2, <2>3, <2>5
  <2>7. call # "if_nametoindex" => reported + Len(result) = N
    BY <1>1, <2>1, <2>2
  <2> QED BY <2>2, <2>4, <2>6, <2>7
<1>3. CASE ~ok
  <2>1. Plain = 1 .. N /\ result = [k \in 1 .. N |-> k] /\ reported = 0
    BY <1>3 DEF Plain, ResultInv, Filters
  <2>2. Len(result) = N
    BY <1>1, <2>1
  <2> QED BY <1>1, <2>1, <2>2
<1> QED BY <1>2, <1>3

(* Every layer knows the prefixes of fd_tracker.h. *)
LEMMA TunnelsAreHidden ==
  ASSUME call \in Calls, NEW k \in 1 .. N, isVpn("getifaddrs", input[k]) PROVE Hidden(k)
<1>1. "getifaddrs" \notin FoldsCase /\ "getifaddrs" \notin DetectorCalls
  BY DEF FoldsCase, DetectorCalls
<1>2. /\ input[k] # NoName /\ input[k].prefix \in {"tun", "tap", "ppp", "wg", "ipsec"}
      /\ ~input[k].upper
  BY <1>1 DEF isVpn, VpnPrefixes
<1>3. input[k].prefix \in VpnPrefixes(call)
  BY <1>2 DEF VpnPrefixes
<1> QED BY <1>2, <1>3 DEF Hidden, isVpn

LEMMA TunnelsGone ==
  ASSUME ResultInv, ListIsPlain, ArrayIsPlain, ResultIsPlain PROVE TunnelsHiddenEverywhere
<1> SUFFICES ASSUME returned, ok, NEW k \in 1 .. N, isVpn("getifaddrs", input[k])
             PROVE  CASE call = "getifaddrs" -> \A p \in {0} \cup Plain : nxt[p] # k
                      [] call = "ioctl"      -> \A j \in 1 .. ifc_len : ifr[j] # k
                      [] OTHER               -> \A j \in DOMAIN result : result[j] # k
  BY DEF TunnelsHiddenEverywhere
<1>1. k \notin Plain /\ k # 0
  BY TunnelsAreHidden DEF ResultInv, Plain
<1>2. CASE call = "getifaddrs"
  BY <1>1, <1>2 DEF ListIsPlain, Follows
<1>3. CASE call = "ioctl"
  BY <1>1, <1>3 DEF ArrayIsPlain
<1>4. CASE call \notin {"getifaddrs", "ioctl"}
  <2>1. call \in ResultCalls
    BY <1>4 DEF ResultInv, Calls, NativeCalls
  <2> QED BY <1>1, <1>4, <2>1 DEF ResultIsPlain
<1> QED BY <1>2, <1>3, <1>4

LEMMA TypesOfParts == ASSUME IInv, ResultInv PROVE TypeOK
<1>1. result \in Seq(1 .. N) /\ reported \in 0 .. N
  <2>1. CASE returned /\ Filters
    <3>1. result \in Seq(1 .. N) /\ Len(result) \in Nat /\ Len(result) <= N
      BY <2>1, LenProperties DEF ResultInv, Lists
    <3> QED BY <2>1, <3>1 DEF ResultInv, IInv
  <2>2. CASE ~(returned /\ Filters)
    <3>1. N \in Nat /\ result = [k \in 1 .. N |-> k] /\ reported = 0
      BY <2>2 DEF ResultInv, IInv
    <3> QED BY <3>1
  <2> QED BY <2>1, <2>2
<1> QED BY <1>1 DEF IInv, ListInv, ArrayInv, ResultInv, TypeOK

(* Whatever the input and the call, every variable has its type. *)
THEOREM TypeCorrect == Spec => []TypeOK
  BY ResultInvariant, TypesOfParts, PTL

(* hook_getifaddrs returns the list of the plain interfaces, for every list. *)
THEOREM ListPlain == Spec => []ListIsPlain
  BY Invariant, ListResult, PTL

(* hook_ioctl returns the array of the plain interfaces, for every array. *)
THEOREM ArrayPlain == Spec => []ArrayIsPlain
  BY Invariant, ArrayResult, PTL

(* The hooks that return a copy show exactly the plain interfaces, in order,
   and report how many are missing, for every result. *)
THEOREM ResultPlain == Spec => []ResultIsPlain
  BY ResultInvariant, FilteredResult, PTL

(* No call of any layer shows a tunnel that fd_tracker.h names. *)
THEOREM TunnelsHidden == Spec => []TunnelsHiddenEverywhere
<1>1. IInv /\ ResultInv => TunnelsHiddenEverywhere
  BY ListResult, ArrayResult, FilteredResult, TunnelsGone
<1> QED BY <1>1, ResultInvariant, PTL
=============================================================================
