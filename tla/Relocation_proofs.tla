-------------------------- MODULE Relocation_proofs --------------------------
(***************************************************************************)
(* Proofs about Relocation: whatever well-formed code a function starts    *)
(* with, its relocation keeps to the instructions, the copy fits the block *)
(* that it is put into, and a call of the function gets to the hook.  On   *)
(* arm64 also that what is emitted for an instruction does what the        *)
(* instruction did at its own place.                                       *)
(***************************************************************************)
EXTENDS Relocation, SequenceTheorems, FunctionTheorems, FiniteSetTheorems, WellFoundedInduction, TLAPS

(* A set of naturals has a least element. *)
LEMMA Least ==
  ASSUME NEW S, S \subseteq Nat, S # {}
  PROVE  \E m \in S : \A k \in S : m <= k
<1>1. PICK m \in S : \A k \in S : ~(<<k, m>> \in OpToRel(<, Nat))
  BY NatLessThanWellFounded, WFMin
<1>2. \A k \in S : ~(k < m)
  BY <1>1 DEF OpToRel
<1> QED BY <1>2

-----------------------------------------------------------------------------
(* Offsets is defined by recursion; there is a function as it asks for, or
   there would be a least number of instructions without one. *)
StepOfOffsets(g, s, at, i) == IF i = 1 THEN at ELSE g[i - 1] + s[i - 1].len

LEMMA OffsetsExist ==
  ASSUME NEW s, Len(s) \in Nat, NEW at
  PROVE  Offsets(s, at) = [i \in 1 .. Len(s) + 1 |-> StepOfOffsets(Offsets(s, at), s, at, i)]
<1> DEFINE Exists(n) == \E g : g = [i \in 1 .. n |-> StepOfOffsets(g, s, at, i)]
           Bad == {n \in Nat : ~Exists(n)}
<1>1. Bad = {}
  <2> SUFFICES ASSUME Bad # {} PROVE FALSE
    OBVIOUS
  <2>1. PICK n \in Bad : \A k \in Bad : n <= k
    <3> HIDE DEF Exists
    <3> QED BY Least
  <2>2. n # 0
    <3>1. [i \in 1 .. 0 |-> at] = [i \in 1 .. 0 |-> StepOfOffsets([j \in 1 .. 0 |-> at], s, at, i)]
      OBVIOUS
    <3>2. Exists(0)
      BY <3>1
    <3> QED BY <3>2
  <2>3. n - 1 \in Nat /\ n - 1 \notin Bad
    BY <2>1, <2>2
  <2>4. PICK g : g = [i \in 1 .. n - 1 |-> StepOfOffsets(g, s, at, i)]
    BY <2>3
  <2> DEFINE h == [i \in 1 .. n |-> StepOfOffsets(g, s, at, i)]
  <2>5. \A i \in 1 .. n - 1 : h[i] = g[i]
    BY <2>3, <2>4
  <2>6. h = [i \in 1 .. n |-> StepOfOffsets(h, s, at, i)]
    <3>1. \A i \in 1 .. n : StepOfOffsets(h, s, at, i) = StepOfOffsets(g, s, at, i)
      <4> SUFFICES ASSUME NEW i \in 1 .. n PROVE StepOfOffsets(h, s, at, i) = StepOfOffsets(g, s, at, i)
        OBVIOUS
      <4>1. CASE i = 1
        BY <4>1 DEF StepOfOffsets
      <4>2. CASE i # 1
        <5>1. i - 1 \in 1 .. n - 1
          BY <4>2
        <5>2. h[i - 1] = g[i - 1]
          BY <5>1, <2>5
        <5> HIDE DEF h
        <5> QED BY <5>2 DEF StepOfOffsets
      <4> QED BY <4>1, <4>2
    <3> QED BY <3>1
  <2> HIDE DEF h
  <2>7. Exists(n)
    BY <2>6
  <2> QED BY <2>7
<1>2. Exists(Len(s) + 1)
  BY <1>1
<1> DEFINE offset == CHOOSE g : g = [i \in 1 .. Len(s) + 1 |-> StepOfOffsets(g, s, at, i)]
<1>3. offset = [i \in 1 .. Len(s) + 1 |-> StepOfOffsets(offset, s, at, i)]
  BY <1>2
<1>4. Offsets(s, at) = offset
  BY DEF Offsets, StepOfOffsets
<1> HIDE DEF offset
<1> QED BY <1>3, <1>4

(* Instructions one after the other *)
Insts(s) == (\E S : s \in Seq(S)) /\ \A i \in 1 .. Len(s) : Sized(s[i])

LEMMA OffsetsStep ==
  ASSUME NEW s, Insts(s), NEW at
  PROVE  /\ Len(s) \in Nat /\ DOMAIN s = 1 .. Len(s)
         /\ \A i \in 1 .. Len(s) : Sized(s[i])
         /\ Offsets(s, at)[1] = at
         /\ \A i \in 1 .. Len(s) : Offsets(s, at)[i + 1] = Offsets(s, at)[i] + s[i].len
<1>1. Len(s) \in Nat /\ DOMAIN s = 1 .. Len(s) /\ \A i \in 1 .. Len(s) : Sized(s[i])
  BY LenProperties DEF Insts
<1>2. \A i \in 1 .. Len(s) + 1 : Offsets(s, at)[i] = StepOfOffsets(Offsets(s, at), s, at, i)
  BY <1>1, OffsetsExist
<1>3. Offsets(s, at)[1] = at
  <2>1. 1 \in 1 .. Len(s) + 1
    BY <1>1
  <2> QED BY <1>2, <2>1 DEF StepOfOffsets
<1>4. ASSUME NEW i \in 1 .. Len(s)
      PROVE  Offsets(s, at)[i + 1] = Offsets(s, at)[i] + s[i].len
  <2>1. i + 1 \in 1 .. Len(s) + 1 /\ i + 1 # 1 /\ (i + 1) - 1 = i
    BY <1>1
  <2>2. Offsets(s, at)[i + 1] = StepOfOffsets(Offsets(s, at), s, at, i + 1)
    BY <1>2, <2>1
  <2> QED BY <2>1, <2>2 DEF StepOfOffsets
<1> QED BY <1>1, <1>3, <1>4

(* Any function that goes by the same steps is the same, *)
LEMMA OffsetsAre ==
  ASSUME NEW s, Insts(s), NEW at \in Nat, NEW g, g[1] = at,
         \A i \in 1 .. Len(s) : g[i + 1] = g[i] + s[i].len
  PROVE  \A i \in 1 .. Len(s) + 1 : Offsets(s, at)[i] \in Nat /\ g[i] = Offsets(s, at)[i]
<1> DEFINE f == Offsets(s, at)
           Bad == {i \in 1 .. Len(s) + 1 : ~(f[i] \in Nat /\ g[i] = f[i])}
<1>1. Len(s) \in Nat /\ f[1] = at /\ \A i \in 1 .. Len(s) : s[i].len \in Nat /\ f[i + 1] = f[i] + s[i].len
  BY OffsetsStep DEF Sized
<1> HIDE DEF f
<1>2. Bad = {}
  <2> SUFFICES ASSUME Bad # {} PROVE FALSE
    OBVIOUS
  <2>1. PICK m \in Bad : \A k \in Bad : m <= k
    <3>1. Bad \subseteq Nat
      BY <1>1
    <3> HIDE DEF Bad
    <3> QED BY <3>1, Least
  <2>2. m # 1
    BY <1>1, <2>1
  <2>3. m - 1 \in 1 .. Len(s) /\ m - 1 \notin Bad
    BY <1>1, <2>1, <2>2
  <2>4. f[m - 1] \in Nat /\ g[m - 1] = f[m - 1] /\ s[m - 1].len \in Nat
    BY <1>1, <2>3
  <2>5. f[(m - 1) + 1] = f[m - 1] + s[m - 1].len /\ g[(m - 1) + 1] = g[m - 1] + s[m - 1].len
    BY <1>1, <2>3
  <2>6. (m - 1) + 1 = m
    BY <1>1
  <2> QED BY <2>1, <2>4, <2>5, <2>6
<1> QED BY <1>2 DEF f

LEMMA OffsetsNat ==
  ASSUME NEW s, Insts(s), NEW at \in Nat
  PROVE  \A i \in 1 .. Len(s) + 1 : Offsets(s, at)[i] \in Nat
<1> DEFINE g == Offsets(s, at)
<1>1. g[1] = at /\ \A i \in 1 .. Len(s) : g[i + 1] = g[i] + s[i].len
  BY OffsetsStep
<1> HIDE DEF g
<1>2. \A i \in 1 .. Len(s) + 1 : Offsets(s, at)[i] \in Nat
  BY <1>1, OffsetsAre
<1> QED BY <1>2

(* so offsets from at on are those from 0 on, moved by at; the length of the
   instructions is the offset of their end. *)
LEMMA OffsetsMove ==
  ASSUME NEW s, Insts(s), NEW at \in Nat
  PROVE  /\ Length(s) \in Nat
         /\ \A i \in 1 .. Len(s) + 1 : Offsets(s, at)[i] = at + Offsets(s, 0)[i]
         /\ Offsets(s, at)[Len(s) + 1] = at + Length(s)
<1> DEFINE f == Offsets(s, 0)
           g == [i \in 1 .. Len(s) + 1 |-> at + f[i]]
<1>1. Len(s) \in Nat /\ f[1] = 0 /\ \A i \in 1 .. Len(s) : s[i].len \in Nat /\ f[i + 1] = f[i] + s[i].len
  BY OffsetsStep DEF Sized
<1>2. \A i \in 1 .. Len(s) + 1 : f[i] \in Nat
  BY OffsetsNat
<1>3. f[Len(s) + 1] = Length(s)
  BY DEF Length
<1> HIDE DEF f
<1>4. g[1] = at
  BY <1>1
<1>5. ASSUME NEW i \in 1 .. Len(s) PROVE g[i + 1] = g[i] + s[i].len
  <2>1. i \in 1 .. Len(s) + 1 /\ i + 1 \in 1 .. Len(s) + 1
    BY <1>1
  <2>2. g[i] = at + f[i] /\ g[i + 1] = at + f[i + 1]
    BY <2>1
  <2> QED BY <1>1, <1>2, <2>1, <2>2
<1>6. \A i \in 1 .. Len(s) + 1 : g[i] = at + f[i]
  OBVIOUS
<1> HIDE DEF g
<1>7. \A i \in 1 .. Len(s) + 1 : g[i] = Offsets(s, at)[i]
  BY <1>4, <1>5, OffsetsAre
<1>8. Len(s) + 1 \in 1 .. Len(s) + 1
  BY <1>1
<1>9. \A i \in 1 .. Len(s) + 1 : Offsets(s, at)[i] = at + Offsets(s, 0)[i]
  BY <1>6, <1>7 DEF f
<1> QED BY <1>2, <1>3, <1>6, <1>7, <1>8, <1>9

LEMMA OffsetsGrow ==
  ASSUME NEW s, Insts(s), NEW at \in Nat,
         NEW i \in 1 .. Len(s) + 1, NEW j \in 1 .. Len(s) + 1, i < j
  PROVE  Offsets(s, at)[i] < Offsets(s, at)[j]
<1> DEFINE f == Offsets(s, at)
           Bad == {k \in 1 .. Len(s) + 1 : i < k /\ ~(f[i] < f[k])}
<1>1. /\ Len(s) \in Nat
      /\ \A k \in 1 .. Len(s) : s[k].len \in Nat /\ s[k].len > 0 /\ f[k + 1] = f[k] + s[k].len
  <2>1. \A k \in 1 .. Len(s) : Sized(s[k])
    BY OffsetsStep
  <2>2. \A k \in 1 .. Len(s) : s[k].len \in Nat /\ s[k].len > 0
    BY <2>1 DEF Sized
  <2> QED BY <2>2, OffsetsStep
<1>2. \A k \in 1 .. Len(s) + 1 : f[k] \in Nat
  BY OffsetsNat
<1> HIDE DEF f
<1>3. Bad = {}
  <2> SUFFICES ASSUME Bad # {} PROVE FALSE
    OBVIOUS
  <2>1. PICK m \in Bad : \A k \in Bad : m <= k
    <3>1. Bad \subseteq Nat
      BY <1>1
    <3> HIDE DEF Bad
    <3> QED BY <3>1, Least
  <2>2. m - 1 \in 1 .. Len(s) /\ m - 1 \notin Bad /\ i <= m - 1 /\ m - 1 \in 1 .. Len(s) + 1
    BY <1>1, <2>1
  <2>3. f[i] <= f[m - 1]
    BY <1>2, <2>2
  <2>4. f[(m - 1) + 1] = f[m - 1] + s[m - 1].len /\ s[m - 1].len \in Nat /\ s[m - 1].len > 0
    BY <1>1, <2>2
  <2>5. (m - 1) + 1 = m
    BY <1>1
  <2>6. f[i] \in Nat /\ f[m - 1] \in Nat /\ f[m] \in Nat
    BY <1>2, <2>1, <2>2
  <2> QED BY <2>1, <2>3, <2>4, <2>5, <2>6
<1> QED BY <1>3 DEF f

(* A buffer whose instructions and data are in the bytes before n *)
Fits(buffer, n) ==
  \A o \in DOMAIN buffer : o \in Nat /\ Sized(buffer[o]) /\ o + buffer[o].len <= n

(* Instructions that are placed from at on end where their length says, and
   each of them is at its offset. *)
LEMMA PlacedFits ==
  ASSUME NEW s, Insts(s), NEW at \in Nat
  PROVE  /\ Fits(Placed(s, at), at + Length(s))
         /\ \A i \in 1 .. Len(s) : Offsets(s, at)[i] \in DOMAIN Placed(s, at)
<1> DEFINE f == Offsets(s, at)
           p == Placed(s, at)
<1>1. /\ Len(s) \in Nat /\ DOMAIN s = 1 .. Len(s)
      /\ \A k \in 1 .. Len(s) : Sized(s[k]) /\ f[k + 1] = f[k] + s[k].len
  BY OffsetsStep
<1>2. \A k \in 1 .. Len(s) + 1 : f[k] \in Nat
  BY OffsetsNat
<1>3. f[Len(s) + 1] = at + Length(s)
  BY OffsetsMove
<1>4. p = [o \in {f[i] : i \in DOMAIN s} |-> s[CHOOSE i \in DOMAIN s : f[i] = o]]
  BY DEF Placed
<1>5. \A i, j \in 1 .. Len(s) + 1 : i <= j => f[i] <= f[j]
  <2> SUFFICES ASSUME NEW i \in 1 .. Len(s) + 1, NEW j \in 1 .. Len(s) + 1, i <= j
               PROVE  f[i] <= f[j]
    OBVIOUS
  <2>1. CASE i = j
    BY <1>2, <2>1
  <2>2. CASE i # j
    <3>1. i < j
      BY <1>1, <2>2
    <3>2. f[i] < f[j]
      BY <3>1, OffsetsGrow
    <3> QED BY <1>2, <3>2
  <2> QED BY <2>1, <2>2
<1> HIDE DEF f, p
<1>6. ASSUME NEW o \in DOMAIN p
      PROVE  o \in Nat /\ Sized(p[o]) /\ o + p[o].len <= at + Length(s)
  <2>1. PICK i \in 1 .. Len(s) : f[i] = o /\ p[o] = s[i]
    <3>1. \E i \in DOMAIN s : f[i] = o
      BY <1>4, <1>6
    <3> DEFINE c == CHOOSE i \in DOMAIN s : f[i] = o
    <3>2. c \in DOMAIN s /\ f[c] = o
      BY <3>1
    <3>3. p[o] = s[c]
      BY <1>4, <1>6
    <3> HIDE DEF c
    <3> QED BY <1>1, <3>2, <3>3
  <2>2. i \in 1 .. Len(s) + 1 /\ i + 1 \in 1 .. Len(s) + 1 /\ Len(s) + 1 \in 1 .. Len(s) + 1
        /\ i + 1 <= Len(s) + 1
    BY <1>1
  <2>3. f[i + 1] <= f[Len(s) + 1]
    BY <1>5, <2>2
  <2>4. f[i + 1] = o + p[o].len /\ Sized(p[o])
    BY <1>1, <2>1
  <2>5. o \in Nat
    BY <1>2, <2>1, <2>2
  <2> QED BY <1>3, <2>3, <2>4, <2>5
<1>7. \A i \in 1 .. Len(s) : f[i] \in DOMAIN p
  BY <1>1, <1>4
<1> QED BY <1>6, <1>7 DEF f, p, Fits

LEMMA OverlayFits ==
  ASSUME NEW f, NEW g, NEW n \in Nat, NEW k \in Nat, Fits(f, n), Fits(g, k), k <= n
  PROVE  Fits(Overlay(f, g), n) /\ DOMAIN Overlay(f, g) = DOMAIN f \cup DOMAIN g
<1>1. DOMAIN Overlay(f, g) = DOMAIN f \cup DOMAIN g
  BY DEF Overlay
<1>2. ASSUME NEW o \in DOMAIN f \cup DOMAIN g
      PROVE  o \in Nat /\ Sized(Overlay(f, g)[o]) /\ o + Overlay(f, g)[o].len <= n
  <2>1. CASE o \in DOMAIN f
    <3>1. Overlay(f, g)[o] = f[o]
      BY <2>1 DEF Overlay
    <3> QED BY <2>1, <3>1 DEF Fits
  <2>2. CASE o \notin DOMAIN f
    <3>1. Overlay(f, g)[o] = g[o] /\ o \in DOMAIN g
      BY <1>2, <2>2 DEF Overlay
    <3>2. o \in Nat /\ Sized(g[o]) /\ o + g[o].len <= k /\ g[o].len \in Nat
      BY <3>1 DEF Fits, Sized
    <3> QED BY <3>1, <3>2
  <2> QED BY <2>1, <2>2
<1> QED BY <1>1, <1>2 DEF Fits

(* Extent is no more than the bytes that a buffer fits: its last offset exists. *)
LEMMA ExtentFits ==
  ASSUME NEW f, NEW n \in Nat, Fits(f, n), DOMAIN f # {}
  PROVE  Extent(f) \in Nat /\ Extent(f) <= n
<1> DEFINE last == CHOOSE o \in DOMAIN f : \A q \in DOMAIN f : q <= o
           Rest == {n - o : o \in DOMAIN f}
<1>1. \A o \in DOMAIN f : o \in Nat /\ f[o].len \in Nat /\ o + f[o].len <= n
  BY DEF Fits, Sized
<1>2. Rest \subseteq Nat /\ Rest # {}
  BY <1>1
<1>3. PICK m \in Rest : \A k \in Rest : m <= k
  <2> HIDE DEF Rest
  <2> QED BY <1>2, Least
<1>4. PICK o \in DOMAIN f : m = n - o
  BY <1>3
<1>5. \A q \in DOMAIN f : q <= o
  <2> SUFFICES ASSUME NEW q \in DOMAIN f PROVE q <= o
    OBVIOUS
  <2>1. n - q \in Rest
    OBVIOUS
  <2>2. n - o <= n - q
    BY <1>3, <1>4, <2>1
  <2> QED BY <1>1, <2>2
<1>6. last \in DOMAIN f
  BY <1>5
<1>7. Extent(f) = last + f[last].len
  BY DEF Extent
<1> HIDE DEF last
<1> QED BY <1>1, <1>6, <1>7

(* Instructions after others *)
LEMMA Concatenated ==
  ASSUME NEW a, Insts(a), NEW b, Insts(b), NEW at \in Nat
  PROVE  /\ Insts(a \o b)
         /\ Length(a \o b) = Length(a) + Length(b)
         /\ \A i \in 1 .. Len(b) : at + Length(a) + Offsets(b, 0)[i] \in DOMAIN Placed(a \o b, at)
<1> DEFINE s == a \o b
<1>1. PICK S : a \in Seq(S)
  BY DEF Insts
<1>2. PICK T : b \in Seq(T)
  BY DEF Insts
<1>3. a \in Seq(S \cup T) /\ b \in Seq(S \cup T)
  BY <1>1, <1>2
<1>4. /\ s \in Seq(S \cup T) /\ Len(s) = Len(a) + Len(b) /\ Len(a) \in Nat /\ Len(b) \in Nat
      /\ \A i \in 1 .. Len(s) : s[i] = IF i <= Len(a) THEN a[i] ELSE b[i - Len(a)]
  BY <1>3, ConcatProperties, LenProperties
<1> HIDE DEF s
<1>5. /\ \A i \in 1 .. Len(a) : s[i] = a[i]
      /\ \A i \in 1 .. Len(b) : s[Len(a) + i] = b[i]
  BY <1>4
<1>6. Insts(s)
  <2>1. ASSUME NEW i \in 1 .. Len(s) PROVE Sized(s[i])
    <3>1. CASE i <= Len(a)
      BY <1>4, <3>1 DEF Insts
    <3>2. CASE ~(i <= Len(a))
      <4>1. s[i] = b[i - Len(a)] /\ i - Len(a) \in 1 .. Len(b)
        BY <1>4, <3>2
      <4> QED BY <4>1 DEF Insts
    <3> QED BY <3>1, <3>2
  <2> QED BY <1>4, <2>1 DEF Insts
<1>7. ASSUME NEW n \in Nat
      PROVE  \A i \in 1 .. Len(b) + 1 : Offsets(s, n)[Len(a) + i] = n + Length(a) + Offsets(b, 0)[i]
  <2> DEFINE f == Offsets(s, n)
             g == [i \in 1 .. Len(b) + 1 |-> f[Len(a) + i]]
  <2>1. f[1] = n /\ \A i \in 1 .. Len(s) : f[i + 1] = f[i] + s[i].len
    BY <1>6, OffsetsStep
  <2>2. \A i \in 1 .. Len(s) + 1 : f[i] \in Nat
    BY <1>6, OffsetsNat
  <2> HIDE DEF f
  <2>3. ASSUME NEW i \in 1 .. Len(a) PROVE f[i + 1] = f[i] + a[i].len
    <3>1. i \in 1 .. Len(s)
      BY <1>4
    <3> QED BY <1>5, <2>1, <3>1
  <2>4. f[Len(a) + 1] = Offsets(a, n)[Len(a) + 1] /\ Offsets(a, n)[Len(a) + 1] = n + Length(a)
        /\ Length(a) \in Nat
    <3>1. f[1] = n /\ \A i \in 1 .. Len(a) : f[i + 1] = f[i] + a[i].len
      BY <2>1, <2>3
    <3>2. \A i \in 1 .. Len(a) + 1 : f[i] = Offsets(a, n)[i]
      BY <3>1, OffsetsAre
    <3>3. Len(a) + 1 \in 1 .. Len(a) + 1
      BY <1>4
    <3> QED BY <3>2, <3>3, OffsetsMove
  <2>5. g[1] = n + Length(a)
    BY <1>4, <2>4
  <2>6. ASSUME NEW i \in 1 .. Len(b) PROVE g[i + 1] = g[i] + b[i].len
    <3>1. i \in 1 .. Len(b) + 1 /\ i + 1 \in 1 .. Len(b) + 1 /\ Len(a) + i \in 1 .. Len(s)
          /\ Len(a) + (i + 1) = (Len(a) + i) + 1
      BY <1>4
    <3>2. g[i] = f[Len(a) + i] /\ g[i + 1] = f[(Len(a) + i) + 1]
      BY <3>1
    <3> HIDE DEF g
    <3> QED BY <1>5, <2>1, <3>1, <3>2
  <2>7. \A i \in 1 .. Len(b) + 1 : g[i] = f[Len(a) + i]
    OBVIOUS
  <2> HIDE DEF g
  <2>8. n + Length(a) \in Nat
    BY <2>4
  <2>9. \A i \in 1 .. Len(b) + 1 : g[i] = Offsets(b, n + Length(a))[i]
    BY <2>5, <2>6, <2>8, OffsetsAre
  <2>10. \A i \in 1 .. Len(b) + 1 : Offsets(b, n + Length(a))[i] = n + Length(a) + Offsets(b, 0)[i]
    BY <2>8, OffsetsMove
  <2> QED BY <2>7, <2>9, <2>10 DEF f
<1>8. Length(s) = Length(a) + Length(b)
  <2>1. Offsets(s, 0)[Len(a) + (Len(b) + 1)] = 0 + Length(a) + Offsets(b, 0)[Len(b) + 1]
    <3>1. Len(b) + 1 \in 1 .. Len(b) + 1
      BY <1>4
    <3> QED BY <1>7, <3>1
  <2>2. Len(a) + (Len(b) + 1) = Len(s) + 1
    BY <1>4
  <2>3. Length(a) \in Nat /\ Length(b) \in Nat
    BY OffsetsMove
  <2> QED BY <2>1, <2>2, <2>3 DEF Length
<1>9. ASSUME NEW i \in 1 .. Len(b)
      PROVE  at + Length(a) + Offsets(b, 0)[i] \in DOMAIN Placed(s, at)
  <2>1. i \in 1 .. Len(b) + 1 /\ Len(a) + i \in 1 .. Len(s)
    BY <1>4
  <2>2. Offsets(s, at)[Len(a) + i] \in DOMAIN Placed(s, at)
    BY <1>6, <2>1, PlacedFits
  <2> QED BY <1>7, <2>1, <2>2
<1> QED BY <1>6, <1>8, <1>9 DEF s

(* Short sequences of instructions, by their lengths *)
LEMMA None == Insts(<< >>) /\ Length(<< >>) = 0
<1>1. Insts(<< >>) /\ Len(<< >>) = 0
  BY EmptySeq DEF Insts
<1> QED BY <1>1, OffsetsStep DEF Length

LEMMA Tuples ==
  /\ \A x, y : <<x, y>> = <<x>> \o <<y>>
  /\ \A x, y, z : <<x, y, z>> = <<x, y>> \o <<z>>
  /\ \A w, x, y, z : <<w, x, y, z>> = <<w, x>> \o <<y, z>>
  /\ \A u, w, x, y, z : <<u, w, x, y, z>> = <<u, w, x, y>> \o <<z>>
<1>1. ASSUME NEW x, NEW y PROVE <<x, y>> = <<x>> \o <<y>>
  <2> DEFINE S == {x, y}
  <2>1. <<x>> \in Seq(S) /\ <<y>> \in Seq(S) /\ <<x, y>> \in Seq(S)
    OBVIOUS
  <2>2. <<x>> \o <<y>> \in Seq(S) /\ Len(<<x>> \o <<y>>) = 2
        /\ \A i \in 1 .. 2 : (<<x>> \o <<y>>)[i] = <<x, y>>[i]
    BY <2>1, ConcatProperties
  <2>3. Len(<<x, y>>) = 2
    OBVIOUS
  <2> QED BY <2>1, <2>2, <2>3, SeqEqual
<1>2. ASSUME NEW x, NEW y, NEW z PROVE <<x, y, z>> = <<x, y>> \o <<z>>
  <2> DEFINE S == {x, y, z}
  <2>1. <<x, y>> \in Seq(S) /\ <<z>> \in Seq(S) /\ <<x, y, z>> \in Seq(S)
    OBVIOUS
  <2>2. <<x, y>> \o <<z>> \in Seq(S) /\ Len(<<x, y>> \o <<z>>) = 3
        /\ \A i \in 1 .. 3 : (<<x, y>> \o <<z>>)[i] = <<x, y, z>>[i]
    BY <2>1, ConcatProperties
  <2>3. Len(<<x, y, z>>) = 3
    OBVIOUS
  <2> QED BY <2>1, <2>2, <2>3, SeqEqual
<1>3. ASSUME NEW w, NEW x, NEW y, NEW z PROVE <<w, x, y, z>> = <<w, x>> \o <<y, z>>
  <2> DEFINE S == {w, x, y, z}
  <2>1. <<w, x>> \in Seq(S) /\ <<y, z>> \in Seq(S) /\ <<w, x, y, z>> \in Seq(S)
    OBVIOUS
  <2>2. <<w, x>> \o <<y, z>> \in Seq(S) /\ Len(<<w, x>> \o <<y, z>>) = 4
        /\ \A i \in 1 .. 4 : (<<w, x>> \o <<y, z>>)[i] = <<w, x, y, z>>[i]
    BY <2>1, ConcatProperties
  <2>3. Len(<<w, x, y, z>>) = 4
    OBVIOUS
  <2> QED BY <2>1, <2>2, <2>3, SeqEqual
<1>4. ASSUME NEW u, NEW w, NEW x, NEW y, NEW z PROVE <<u, w, x, y, z>> = <<u, w, x, y>> \o <<z>>
  <2> DEFINE S == {u, w, x, y, z}
  <2>1. <<u, w, x, y>> \in Seq(S) /\ <<z>> \in Seq(S) /\ <<u, w, x, y, z>> \in Seq(S)
    OBVIOUS
  <2>2. <<u, w, x, y>> \o <<z>> \in Seq(S) /\ Len(<<u, w, x, y>> \o <<z>>) = 5
        /\ \A i \in 1 .. 5 : (<<u, w, x, y>> \o <<z>>)[i] = <<u, w, x, y, z>>[i]
    BY <2>1, ConcatProperties
  <2>3. Len(<<u, w, x, y, z>>) = 5
    OBVIOUS
  <2> QED BY <2>1, <2>2, <2>3, SeqEqual
<1> QED BY <1>1, <1>2, <1>3, <1>4

LEMMA One ==
  ASSUME NEW x, Sized(x)
  PROVE  Insts(<<x>>) /\ Len(<<x>>) = 1 /\ Length(<<x>>) = x.len /\ Offsets(<<x>>, 0)[1] = 0
<1> DEFINE s == <<x>>
<1>1. s \in Seq({x}) /\ Len(s) = 1 /\ s[1] = x
  OBVIOUS
<1> HIDE DEF s
<1>2. Insts(s)
  BY <1>1 DEF Insts
<1>3. Offsets(s, 0)[1] = 0 /\ \A i \in 1 .. 1 : Offsets(s, 0)[i + 1] = Offsets(s, 0)[i] + s[i].len
  <2>1. Offsets(s, 0)[1] = 0 /\ \A i \in 1 .. Len(s) : Offsets(s, 0)[i + 1] = Offsets(s, 0)[i] + s[i].len
    BY <1>2, OffsetsStep
  <2> QED BY <1>1, <2>1
<1>4. Offsets(s, 0)[1 + 1] = 0 + x.len /\ x.len \in Nat
  BY <1>1, <1>3 DEF Sized
<1>5. Length(s) = x.len
  BY <1>1, <1>4 DEF Length
<1> QED BY <1>1, <1>2, <1>3, <1>5 DEF s

LEMMA Two ==
  ASSUME NEW x, NEW y, Sized(x), Sized(y)
  PROVE  Insts(<<x, y>>) /\ Len(<<x, y>>) = 2 /\ Length(<<x, y>>) = x.len + y.len /\ Offsets(<<x, y>>, 0)[1] = 0
<1>1. <<x, y>> = <<x>> \o <<y>>
  BY Tuples
<1>2. Insts(<<x, y>>) /\ Length(<<x, y>>) = x.len + y.len
  BY <1>1, One, Concatenated
<1>3. Offsets(<<x, y>>, 0)[1] = 0
  BY <1>2, OffsetsStep
<1> QED BY <1>2, <1>3

LEMMA Three ==
  ASSUME NEW x, NEW y, NEW z, Sized(x), Sized(y), Sized(z)
  PROVE  /\ Insts(<<x, y, z>>) /\ Len(<<x, y, z>>) = 3 /\ Length(<<x, y, z>>) = x.len + y.len + z.len
         /\ Offsets(<<x, y, z>>, 0)[1] = 0 /\ Offsets(<<x, y, z>>, 0)[3] = x.len + y.len
<1>1. <<x, y, z>> = <<x, y>> \o <<z>>
  BY Tuples
<1>2. Insts(<<x, y, z>>) /\ Length(<<x, y, z>>) = x.len + y.len + z.len
  <2>1. Insts(<<x, y>>) /\ Length(<<x, y>>) = x.len + y.len /\ Insts(<<z>>) /\ Length(<<z>>) = z.len
    BY One, Two
  <2>2. Insts(<<x, y>> \o <<z>>) /\ Length(<<x, y>> \o <<z>>) = Length(<<x, y>>) + Length(<<z>>)
    BY <2>1, Concatenated
  <2> QED BY <1>1, <2>1, <2>2
<1>3. <<x, y, z>>[1] = x /\ <<x, y, z>>[2] = y /\ Len(<<x, y, z>>) = 3
  OBVIOUS
<1> DEFINE s == <<x, y, z>>
<1> HIDE DEF s
<1>4. s[1] = x /\ s[2] = y /\ Len(s) = 3 /\ Insts(s)
  BY <1>2, <1>3 DEF s
<1>5. Offsets(s, 0)[1] = 0 /\ \A i \in 1 .. 3 : Offsets(s, 0)[i + 1] = Offsets(s, 0)[i] + s[i].len
  <2>1. Offsets(s, 0)[1] = 0 /\ \A i \in 1 .. Len(s) : Offsets(s, 0)[i + 1] = Offsets(s, 0)[i] + s[i].len
    BY <1>4, OffsetsStep
  <2> QED BY <1>4, <2>1
<1>6. Offsets(s, 0)[1 + 1] = 0 + x.len /\ Offsets(s, 0)[2 + 1] = Offsets(s, 0)[2] + y.len
  BY <1>4, <1>5
<1>7. x.len \in Nat /\ y.len \in Nat
  BY DEF Sized
<1>8. Offsets(s, 0)[3] = x.len + y.len
  BY <1>6, <1>7
<1> QED BY <1>2, <1>3, <1>5, <1>8 DEF s

LEMMA Four ==
  ASSUME NEW w, NEW x, NEW y, NEW z, Sized(w), Sized(x), Sized(y), Sized(z)
  PROVE  /\ Insts(<<w, x, y, z>>) /\ Len(<<w, x, y, z>>) = 4
         /\ Length(<<w, x, y, z>>) = w.len + x.len + y.len + z.len
         /\ Offsets(<<w, x, y, z>>, 0)[4] = w.len + x.len + y.len
<1>1. <<w, x, y, z>> = <<w, x>> \o <<y, z>>
  BY Tuples
<1>2. w.len \in Nat /\ x.len \in Nat /\ y.len \in Nat /\ z.len \in Nat
  BY DEF Sized
<1>3. Length(<<w, x>>) = w.len + x.len /\ Length(<<y, z>>) = y.len + z.len
  BY Two
<1>4. Insts(<<w, x, y, z>>) /\ Length(<<w, x, y, z>>) = Length(<<w, x>>) + Length(<<y, z>>)
  BY <1>1, Two, Concatenated
<1>5. <<w, x, y, z>>[4] = z /\ Len(<<w, x, y, z>>) = 4
  OBVIOUS
<1> DEFINE s == <<w, x, y, z>>
<1> HIDE DEF s
<1>6. Offsets(s, 0)[4 + 1] = Offsets(s, 0)[4] + z.len /\ Offsets(s, 0)[4] \in Nat
  <2>1. s[4] = z /\ Len(s) = 4 /\ Insts(s)
    BY <1>4, <1>5 DEF s
  <2>2. 4 \in 1 .. Len(s) /\ 4 \in 1 .. Len(s) + 1
    BY <2>1
  <2> QED BY <2>1, <2>2, OffsetsStep, OffsetsNat
<1>7. Length(s) = Offsets(s, 0)[4 + 1]
  BY <1>5 DEF Length, s
<1>8. Offsets(s, 0)[4] = w.len + x.len + y.len
  BY <1>2, <1>3, <1>4, <1>6, <1>7 DEF s
<1> QED BY <1>2, <1>3, <1>4, <1>5, <1>8 DEF s

LEMMA Five ==
  ASSUME NEW u, NEW w, NEW x, NEW y, NEW z, Sized(u), Sized(w), Sized(x), Sized(y), Sized(z)
  PROVE  Insts(<<u, w, x, y, z>>)
<1>1. <<u, w, x, y, z>> = <<u, w, x, y>> \o <<z>>
  BY Tuples
<1>2. Insts(<<u, w, x, y>>) /\ Insts(<<z>>)
  BY One, Four
<1> QED BY <1>1, <1>2, Concatenated

LEMMA DataLength ==
  ASSUME NEW s, Insts(s), NEW n \in {4, 8}, \A i \in 1 .. Len(s) : s[i].len = n
  PROVE  Length(s) = n * Len(s)
<1> DEFINE g == [i \in 1 .. Len(s) + 1 |-> n * (i - 1)]
<1>1. Len(s) \in Nat
  BY OffsetsStep
<1>2. \A i \in 1 .. Len(s) + 1 : g[i] = n * (i - 1)
  OBVIOUS
<1> HIDE DEF g
<1>3. g[1] = 0
  <2>1. 1 \in 1 .. Len(s) + 1
    BY <1>1
  <2> QED BY <1>2, <2>1
<1>4. ASSUME NEW i \in 1 .. Len(s) PROVE g[i + 1] = g[i] + s[i].len
  <2>1. i \in 1 .. Len(s) + 1 /\ i + 1 \in 1 .. Len(s) + 1
    BY <1>1
  <2>2. g[i] = n * (i - 1) /\ g[i + 1] = n * ((i + 1) - 1)
    BY <1>2, <2>1
  <2>3. CASE n = 4
    BY <2>1, <2>2, <2>3
  <2>4. CASE n = 8
    BY <2>1, <2>2, <2>4
  <2> QED BY <2>3, <2>4
<1>5. \A i \in 1 .. Len(s) + 1 : g[i] = Offsets(s, 0)[i]
  <2>1. 0 \in Nat /\ \A i \in 1 .. Len(s) : g[i + 1] = g[i] + s[i].len
    BY <1>4
  <2>2. \A i \in 1 .. Len(s) + 1 : Offsets(s, 0)[i] \in Nat /\ g[i] = Offsets(s, 0)[i]
    BY <1>3, <2>1, OffsetsAre
  <2> QED BY <2>2
<1>6. g[Len(s) + 1] = n * Len(s) /\ Length(s) = g[Len(s) + 1]
  <2>1. Len(s) + 1 \in 1 .. Len(s) + 1 /\ (Len(s) + 1) - 1 = Len(s)
    BY <1>1
  <2> QED BY <1>2, <1>5, <2>1 DEF Length
<1> QED BY <1>6

-----------------------------------------------------------------------------
(* The three architectures share these definitions. *)
LEMMA Same ==
  ASSUME NEW s, NEW t, NEW n
  PROVE  /\ A64!Placed(s, n) = Placed(s, n) /\ A64!Length(s) = Length(s) /\ A64!Overlay(s, t) = Overlay(s, t)
         /\ A32!Placed(s, n) = Placed(s, n) /\ A32!Length(s) = Length(s) /\ A32!Overlay(s, t) = Overlay(s, t)
         /\ X64!Placed(s, n) = Placed(s, n) /\ X64!Length(s) = Length(s) /\ X64!Overlay(s, t) = Overlay(s, t)
  BY DEF A64!Placed, A64!Offsets, A64!Length, A64!Overlay, A32!Placed, A32!Offsets, A32!Length, A32!Overlay,
         X64!Placed, X64!Offsets, X64!Length, X64!Overlay, Placed, Offsets, Length, Overlay

LEMMA SameExtent ==
  ASSUME NEW f
  PROVE  A64!Extent(f) = Extent(f) /\ A32!Extent(f) = Extent(f) /\ X64!Extent(f) = Extent(f)
  BY DEF A64!Extent, A32!Extent, X64!Extent, Extent

LEMMA SameLoop ==
  /\ (A64!Loop <=> Loop) /\ (A32!Loop <=> Loop) /\ (X64!Loop <=> Loop)
  /\ (A64!Done <=> Done) /\ (A32!Done <=> Done) /\ (X64!Done <=> Done)
  /\ A64!Inst = Inst /\ A32!Inst = Inst /\ X64!Inst = Inst
  /\ A64!Src = Src /\ A32!Src = Src /\ X64!Src = Src
  BY DEF A64!Loop, A32!Loop, X64!Loop, Loop, A64!Done, A32!Done, X64!Done, Done,
         A64!Inst, A32!Inst, X64!Inst, Inst, A64!Fetch, A32!Fetch, X64!Fetch, Fetch, A64!Src, A32!Src, X64!Src, Src

LEMMA SameConsume ==
  ASSUME NEW n
  PROVE  (A64!Consume(n) <=> Consume(n)) /\ (A32!Consume(n) <=> Consume(n)) /\ (X64!Consume(n) <=> Consume(n))
  BY DEF A64!Consume, A32!Consume, X64!Consume, Consume, A64!given, A32!given, X64!given, given,
         A64!blocks, A32!blocks, X64!blocks, blocks, A64!memory, A32!memory, X64!memory, memory,
         A64!machine, A32!machine, X64!machine, machine

LEMMA SameEmit ==
  ASSUME NEW s, NEW over
  PROVE  /\ A64!EmitOver(s, over) <=> EmitOver(s, over)
         /\ A32!EmitOver(s, over) <=> EmitOver(s, over)
         /\ X64!EmitOver(s, over) <=> EmitOver(s, over)
         /\ A64!Emit(s) <=> EmitOver(s, {})
         /\ X64!Emit(s) <=> EmitOver(s, {})
<1>1. /\ A64!EmitOver(s, over) <=> EmitOver(s, over)
      /\ A64!Emit(s) <=> EmitOver(s, {})
  BY DEF A64!EmitOver, A64!Placed, A64!Offsets, A64!Length, A64!Overlay, A64!IsData, A64!Inst, A64!Fetch, A64!Emit,
         EmitOver, Placed, Offsets, Length, Overlay, IsData, Inst, Fetch
<1>2. A32!EmitOver(s, over) <=> EmitOver(s, over)
  BY DEF A32!EmitOver, A32!Placed, A32!Offsets, A32!Length, A32!Overlay, A32!IsData, A32!Inst, A32!Fetch, A32!Emit,
         EmitOver, Placed, Offsets, Length, Overlay, IsData, Inst, Fetch
<1>3. /\ X64!EmitOver(s, over) <=> EmitOver(s, over)
      /\ X64!Emit(s) <=> EmitOver(s, {})
  BY DEF X64!EmitOver, X64!Placed, X64!Offsets, X64!Length, X64!Overlay, X64!IsData, X64!Inst, X64!Fetch, X64!Emit,
         EmitOver, Placed, Offsets, Length, Overlay, IsData, Inst, Fetch
<1> QED BY <1>1, <1>2, <1>3

-----------------------------------------------------------------------------
(* The inductive invariant.  Relocation is at an instruction or at the end,
   and the trampoline does not reach further than the instructions; *)
CursorInv ==
  /\ stage \in {"prepare", "relocate", "hooked", "original"}
  /\ \E c \in Cases : fragment = c.fragment /\ env = c.env
  /\ cursor \in DOMAIN fragment.code \cup {Bytes(fragment)}
  /\ origin_size \in Int /\ origin_size <= Bytes(fragment)

(* A data label, all of whose references are in the buffer *)
Refers(label, buffer) == "refs" \in DOMAIN label /\ label.refs \subseteq DOMAIN buffer

(* what is in the buffer is before its size, its labels are referred to by
   what is there, and what is known of the copy is about the instructions; *)
BufferInv ==
  /\ size \in Nat /\ Fits(out, size)
  /\ \E S : labels \in Seq(S)
  /\ \A i \in DOMAIN labels : Refers(labels[i], out)
  /\ fragment.arch = "x64" => labels = << >>
  /\ \A o \in DOMAIN source : source[o].at \in 0 .. Bytes(fragment)

(* the block of the copy is taken from the arena, and is as long as the copy
   once that is complete. *)
BlockInv ==
  /\ arena \in Nat \ {0} /\ expected_relocated_mem_size \in Nat
  /\ relocated \in [addr : Nat, size : Nat]
  /\ relocated.addr # 0 => relocated.addr + relocated.size <= arena
  /\ stage \in {"hooked", "original"} =>
       relocated.addr # 0 /\ relocated.size = size /\ DOMAIN out # {}

IInv == CursorInv /\ BufferInv /\ BlockInv

LEMMA Fragments ==
  ASSUME CursorInv
  PROVE  /\ WellFormed(fragment) /\ TrampolineBytes(fragment, env) <= Bytes(fragment)
         /\ cursor \in 0 .. Bytes(fragment) /\ Bytes(fragment) \in Nat
<1>1. WellFormed(fragment) /\ TrampolineBytes(fragment, env) <= Bytes(fragment)
  BY CasesAssumption DEF CursorInv
<1> QED BY <1>1 DEF WellFormed, CursorInv

(* In the loop there is an instruction, and behind it the next one or the end. *)
LEMMA InLoop ==
  ASSUME CursorInv, Loop
  PROVE  /\ cursor \in DOMAIN fragment.code /\ Sized(Inst)
         /\ cursor + Inst.len \in DOMAIN fragment.code \cup {Bytes(fragment)}
         /\ cursor + Inst.len \in 0 .. Bytes(fragment)
         /\ fragment.arch = "arm64" => Inst.len = 4
         /\ fragment.arch = "x64" => X64!Described(Inst)
<1>1. WellFormed(fragment) /\ cursor \in 0 .. Bytes(fragment) /\ Bytes(fragment) \in Nat
  BY Fragments
<1>2. cursor \in DOMAIN fragment.code
  BY <1>1 DEF CursorInv, Loop
<1>3. Inst = fragment.code[cursor]
  BY DEF Inst, Fetch
<1>4. /\ Sized(Inst) /\ cursor + Inst.len \in DOMAIN fragment.code \cup {Bytes(fragment)}
      /\ fragment.arch = "arm64" => Inst.len = 4
      /\ fragment.arch = "x64" => X64!Described(Inst)
  BY <1>1, <1>2, <1>3 DEF WellFormed
<1>5. cursor + Inst.len \in 0 .. Bytes(fragment)
  BY <1>1, <1>4 DEF WellFormed
<1> QED BY <1>2, <1>4, <1>5

(* What Consume leaves alone, and where it goes *)
LEMMA Consumed ==
  ASSUME CursorInv, BlockInv, Loop, Consume(Inst.len)
  PROVE  /\ CursorInv' /\ BlockInv'
         /\ stage' = stage /\ UNCHANGED given
<1>1. /\ UNCHANGED given /\ stage' = stage /\ stage = "relocate"
      /\ cursor' = cursor + Inst.len /\ origin_size' = origin_size /\ relocated' = relocated
      /\ arena' = arena /\ expected_relocated_mem_size' = expected_relocated_mem_size
  BY DEF Consume, blocks, memory, Loop
<1>2. fragment' = fragment /\ env' = env
  BY <1>1 DEF given
<1>3. Bytes(fragment)' = Bytes(fragment)
  BY <1>2 DEF Bytes, Extent
<1>4. CursorInv'
  BY <1>1, <1>2, <1>3, InLoop DEF CursorInv
<1>5. BlockInv'
  BY <1>1 DEF BlockInv
<1> QED BY <1>1, <1>4, <1>5

(* Instructions that go to the end of the buffer *)
LEMMA Appended ==
  ASSUME CursorInv, BufferInv, Loop, NEW s, Insts(s), NEW over, EmitOver(s, over)
  PROVE  /\ size' \in Nat /\ Fits(out, size)' /\ DOMAIN out' = DOMAIN Placed(s, size) \cup DOMAIN out
         /\ \A o \in DOMAIN source' : source'[o].at \in 0 .. Bytes(fragment)
<1>1. size \in Nat /\ Fits(out, size) /\ Length(s) \in Nat
  BY OffsetsMove DEF BufferInv
<1>2. out' = Overlay(Placed(s, size), out) /\ size' = size + Length(s)
  BY DEF EmitOver
<1>3. Fits(Placed(s, size), size + Length(s))
  BY <1>1, PlacedFits
<1>4. Fits(out', size') /\ DOMAIN out' = DOMAIN Placed(s, size) \cup DOMAIN out
  <2>1. size + Length(s) \in Nat /\ size <= size + Length(s)
    BY <1>1
  <2> QED BY <1>1, <1>2, <1>3, <2>1, OverlayFits
<1>5. Fits(out, size)'
  BY <1>4 DEF Fits, Sized
<1>6. ASSUME NEW o \in DOMAIN source' PROVE source'[o].at \in 0 .. Bytes(fragment)
  <2> DEFINE p == Placed(s, size)
             D == {q \in DOMAIN p : ~IsData(p[q])}
             mine == [q \in D |-> IF q - size \in over THEN [at |-> cursor + Inst.len, start |-> TRUE]
                                  ELSE [at |-> cursor, start |-> q = size]]
  <2>1. source' = Overlay(mine, source)
    BY DEF EmitOver
  <2> HIDE DEF D
  <2>2. cursor \in 0 .. Bytes(fragment) /\ cursor + Inst.len \in 0 .. Bytes(fragment)
    BY Fragments, InLoop
  <2>3. CASE o \in D
    <3>1. source'[o] = mine[o]
      BY <1>6, <2>1, <2>3 DEF Overlay
    <3> QED BY <2>2, <2>3, <3>1
  <2>4. CASE o \notin D
    <3>1. DOMAIN mine = D
      OBVIOUS
    <3> HIDE DEF mine
    <3>2. source'[o] = source[o] /\ o \in DOMAIN source
      BY <1>6, <2>1, <2>4, <3>1 DEF Overlay
    <3> QED BY <3>2 DEF BufferInv
  <2> QED BY <2>3, <2>4
<1> QED BY <1>1, <1>2, <1>4, <1>5, <1>6

LEMMA Emitted ==
  ASSUME IInv, Loop, NEW s, Insts(s), NEW over, EmitOver(s, over), Consume(Inst.len), labels' = labels
  PROVE  IInv'
<1>1. CursorInv' /\ BlockInv' /\ UNCHANGED given
  BY Consumed DEF IInv
<1>2. /\ size' \in Nat /\ Fits(out, size)' /\ DOMAIN out \subseteq DOMAIN out'
      /\ \A o \in DOMAIN source' : source'[o].at \in 0 .. Bytes(fragment)
  BY Appended DEF IInv
<1>3. fragment' = fragment /\ Bytes(fragment)' = Bytes(fragment)
  BY <1>1 DEF given, Bytes, Extent
<1>4. BufferInv'
  BY <1>2, <1>3 DEF IInv, BufferInv, Refers
<1> QED BY <1>1, <1>4 DEF IInv

LEMMA EmittedLabel ==
  ASSUME IInv, Loop, fragment.arch # "x64", NEW s, Insts(s), NEW over, EmitOver(s, over), Consume(Inst.len),
         NEW v, NEW o \in DOMAIN Placed(s, size), labels' = Append(labels, [v |-> v, refs |-> {o}])
  PROVE  IInv'
<1>1. CursorInv' /\ BlockInv' /\ UNCHANGED given
  BY Consumed DEF IInv
<1>2. /\ size' \in Nat /\ Fits(out, size)' /\ DOMAIN out' = DOMAIN Placed(s, size) \cup DOMAIN out
      /\ \A q \in DOMAIN source' : source'[q].at \in 0 .. Bytes(fragment)
  BY Appended DEF IInv
<1>3. fragment' = fragment /\ Bytes(fragment)' = Bytes(fragment)
  BY <1>1 DEF given, Bytes, Extent
<1>4. (\E S : labels' \in Seq(S)) /\ \A i \in DOMAIN labels' : Refers(labels'[i], out')
  <2>1. PICK S : labels \in Seq(S)
    BY DEF IInv, BufferInv
  <2> DEFINE l == [v |-> v, refs |-> {o}]
  <2>2. labels \in Seq(S \cup {l}) /\ l \in S \cup {l}
    BY <2>1
  <2>3. labels' \in Seq(S \cup {l}) /\ Len(labels') = Len(labels) + 1 /\ labels'[Len(labels) + 1] = l
        /\ \A i \in 1 .. Len(labels) : labels'[i] = labels[i]
    BY <2>2, AppendProperties
  <2>4. DOMAIN labels = 1 .. Len(labels) /\ Len(labels) \in Nat /\ DOMAIN labels' = 1 .. Len(labels) + 1
    BY <2>1, <2>3, LenProperties
  <2>5. Refers(l, out')
    BY <1>2 DEF Refers
  <2> HIDE DEF l
  <2>6. ASSUME NEW i \in DOMAIN labels' PROVE Refers(labels'[i], out')
    <3>1. CASE i = Len(labels) + 1
      BY <2>3, <2>5, <3>1
    <3>2. CASE i # Len(labels) + 1
      <4>1. i \in DOMAIN labels /\ labels'[i] = labels[i]
        BY <2>3, <2>4, <3>2
      <4> QED BY <1>2, <4>1 DEF IInv, BufferInv, Refers
    <3> QED BY <3>1, <3>2
  <2> QED BY <2>3, <2>6
<1>5. BufferInv'
  BY <1>2, <1>3, <1>4 DEF BufferInv
<1> QED BY <1>1, <1>5 DEF IInv

-----------------------------------------------------------------------------
(* What the initial states are *)
LEMMA InitIInv == Init => IInv
<1> SUFFICES ASSUME Init PROVE IInv
  OBVIOUS
<1>1. PICK c \in Cases : fragment = c.fragment /\ env = c.env
  BY DEF Init
<1>2. WellFormed(fragment)
  BY <1>1, CasesAssumption
<1>3. stage = "prepare" /\ cursor = 0 /\ origin_size = 0 /\ size = 0 /\ out = << >> /\ source = << >> /\ labels = << >>
      /\ relocated = [addr |-> 0, size |-> 0] /\ arena = Arena /\ expected_relocated_mem_size = 32
  BY DEF Init, Unhooked
<1>4. CursorInv
  BY <1>1, <1>2, <1>3 DEF CursorInv, WellFormed
<1>5. DOMAIN << >> = {} /\ \E S : << >> \in Seq(S)
  OBVIOUS
<1>6. BufferInv
  BY <1>3, <1>5 DEF BufferInv, Fits
<1>7. BlockInv
  BY <1>3, ArenaAssumption DEF BlockInv
<1> QED BY <1>4, <1>6, <1>7 DEF IInv

(* A trampoline is written over instructions that are there. *)
LEMMA Prepared ==
  ASSUME IInv, stage = "prepare", NEW t, Extent(t) \in Nat, Extent(t) <= Bytes(fragment),
         stage' = "relocate", origin_size' = Extent(t),
         UNCHANGED <<given, relocated, cursor, out, size, source, labels, relocated_offset_map, memory, machine>>
  PROVE  IInv'
<1>1. fragment' = fragment /\ env' = env /\ Bytes(fragment)' = Bytes(fragment)
  BY DEF given, Bytes, Extent
<1>2. CursorInv'
  BY <1>1 DEF IInv, CursorInv
<1>3. BufferInv'
  BY <1>1 DEF IInv, BufferInv, Fits, Sized, Refers
<1>4. BlockInv'
  BY DEF IInv, BlockInv, memory
<1> QED BY <1>2, <1>3, <1>4 DEF IInv

(* The labels' data go behind the code that is bound to them. *)
LEMMA Bound ==
  ASSUME NEW code, NEW n \in Nat, Fits(code, n), NEW linked, DOMAIN linked = DOMAIN code,
         \A o \in DOMAIN code : Sized(linked[o]) /\ linked[o].len = code[o].len,
         NEW w \in {4, 8}, NEW data, Insts(data), \A i \in 1 .. Len(data) : data[i].len = w
  PROVE  /\ Fits(Overlay(linked, Placed(data, n)), n + w * Len(data))
         /\ DOMAIN code \subseteq DOMAIN Overlay(linked, Placed(data, n))
<1>1. Len(data) \in Nat /\ Length(data) = w * Len(data)
  BY OffsetsStep, DataLength
<1>2. w * Len(data) \in Nat
  <2>1. CASE w = 4
    BY <1>1, <2>1
  <2>2. CASE w = 8
    BY <1>1, <2>2
  <2> QED BY <2>1, <2>2
<1>3. Fits(Placed(data, n), n + w * Len(data))
  BY <1>1, PlacedFits
<1> DEFINE end == n + w * Len(data)
<1>4. end \in Nat /\ n <= end /\ end <= end
  BY <1>2
<1>5. Fits(linked, end)
  <2> HIDE DEF end
  <2> SUFFICES ASSUME NEW o \in DOMAIN code PROVE o \in Nat /\ Sized(linked[o]) /\ o + linked[o].len <= end
    BY DEF Fits
  <2>1. o \in Nat /\ code[o].len \in Nat /\ o + code[o].len <= n
    BY DEF Fits, Sized
  <2> QED BY <1>4, <2>1
<1>6. Fits(Placed(data, n), end)
  BY <1>3
<1> HIDE DEF end
<1>7. Fits(Overlay(linked, Placed(data, n)), end) /\ DOMAIN Overlay(linked, Placed(data, n)) = DOMAIN linked \cup DOMAIN Placed(data, n)
  BY <1>4, <1>5, <1>6, OverlayFits
<1> QED BY <1>7 DEF end

(* With the labels bound the copy is complete, and has its block. *)
LEMMA Finished ==
  ASSUME IInv, fragment.arch # "x64", UNCHANGED given, cursor' = cursor, stage' = "hooked", origin_size' = cursor,
         size' \in Nat, Fits(out', size'), DOMAIN out' # {},
         \E S : labels' \in Seq(S), \A i \in DOMAIN labels' : Refers(labels'[i], out'),
         relocated' = [addr |-> arena, size |-> size'], arena' = arena + size',
         expected_relocated_mem_size' = expected_relocated_mem_size,
         \A o \in DOMAIN source' : source'[o].at \in 0 .. Bytes(fragment)
  PROVE  IInv'
<1>1. fragment' = fragment /\ env' = env /\ Bytes(fragment)' = Bytes(fragment)
  BY DEF given, Bytes, Extent
<1>2. CursorInv'
  BY <1>1, Fragments DEF IInv, CursorInv
<1>3. BufferInv'
  <2>1. Fits(out, size)'
    BY DEF Fits, Sized
  <2> QED BY <1>1, <2>1 DEF BufferInv, Refers
<1>4. BlockInv'
  <2>1. arena \in Nat \ {0} /\ expected_relocated_mem_size \in Nat
    BY DEF IInv, BlockInv
  <2>2. relocated'.addr = arena /\ relocated'.size = size'
    OBVIOUS
  <2>3. arena' \in Nat \ {0} /\ arena + size' <= arena'
    <3>1. \A a \in Nat \ {0}, n \in Nat : a + n \in Nat \ {0} /\ a + n <= a + n
      OBVIOUS
    <3>2. arena \in Nat \ {0} /\ size' \in Nat /\ arena' = arena + size'
      BY <2>1
    <3> QED BY ONLY <3>1, <3>2
  <2> QED BY <2>1, <2>2, <2>3 DEF BlockInv
<1> QED BY <1>2, <1>3, <1>4 DEF IInv

(* The branch back is known to be behind the last instruction. *)
LEMMA Back ==
  ASSUME CursorInv, BufferInv, NEW s, BranchBack(s)
  PROVE  \A o \in DOMAIN source' : source'[o].at \in 0 .. Bytes(fragment)
<1> SUFFICES ASSUME NEW o \in DOMAIN source' PROVE source'[o].at \in 0 .. Bytes(fragment)
  OBVIOUS
<1> DEFINE D == DOMAIN Placed(s, size)
           mine == [q \in D |-> [at |-> cursor, start |-> q = size]]
<1>1. source' = Overlay(mine, source)
  BY DEF BranchBack
<1> HIDE DEF D
<1>2. DOMAIN mine = D /\ \A q \in D : mine[q].at = cursor
  OBVIOUS
<1> HIDE DEF mine
<1>3. CASE o \in D
  BY <1>1, <1>2, <1>3, Fragments DEF Overlay
<1>4. CASE o \notin D
  BY <1>1, <1>2, <1>4 DEF Overlay, BufferInv
<1> QED BY <1>3, <1>4

-----------------------------------------------------------------------------
(* arm64 *)
LEMMA Bind64 ==
  ASSUME NEW code, NEW n \in Nat, Fits(code, n), NEW ls, \E S : ls \in Seq(S)
  PROVE  /\ Fits(A64!RelocBind(code, n, ls), n + 8 * Len(ls))
         /\ DOMAIN code \subseteq DOMAIN A64!RelocBind(code, n, ls)
<1> DEFINE bound(i) == n + 8 * (i - 1)
           linked == [o \in DOMAIN code |->
                        IF \E i \in DOMAIN ls : o \in ls[i].refs
                        THEN LET i == CHOOSE j \in DOMAIN ls : o \in ls[j].refs
                             IN A64!encode_imm19_offset(code[o], bound(i) - o)
                        ELSE code[o]]
           data == [i \in DOMAIN ls |-> A64!Datum(ls[i].v, 8)]
<1>1. A64!RelocBind(code, n, ls) = Overlay(linked, Placed(data, n))
  BY Same DEF A64!RelocBind
<1>2. DOMAIN linked = DOMAIN code
  OBVIOUS
<1>3. ASSUME NEW o \in DOMAIN code PROVE Sized(linked[o]) /\ linked[o].len = code[o].len
  <2>1. Sized(code[o])
    BY DEF Fits
  <2>2. ASSUME NEW v PROVE Sized([code[o] EXCEPT !.imm19 = v]) /\ [code[o] EXCEPT !.imm19 = v].len = code[o].len
    BY <2>1 DEF Sized
  <2>3. \A v : Sized(A64!encode_imm19_offset(code[o], v)) /\ A64!encode_imm19_offset(code[o], v).len = code[o].len
    BY <2>2 DEF A64!encode_imm19_offset
  <2> QED BY <2>1, <2>3
<1>4. Insts(data) /\ Len(data) = Len(ls) /\ \A i \in 1 .. Len(data) : data[i].len = 8
  <2>1. DOMAIN ls = 1 .. Len(ls) /\ Len(ls) \in Nat
    BY LenProperties
  <2>2. \A v : Sized(A64!Datum(v, 8)) /\ A64!Datum(v, 8).len = 8
    BY DEF A64!Datum, Sized
  <2> DEFINE D == {A64!Datum(ls[i].v, 8) : i \in 1 .. Len(ls)}
  <2>3. data \in Seq(D) /\ Len(data) = Len(ls) /\ \A i \in 1 .. Len(ls) : data[i] = A64!Datum(ls[i].v, 8)
    BY <2>1
  <2> HIDE DEF data
  <2>4. \E S : data \in Seq(S)
    BY <2>3
  <2> QED BY <2>2, <2>3, <2>4 DEF Insts
<1> HIDE DEF linked, data
<1>5. /\ Fits(Overlay(linked, Placed(data, n)), n + 8 * Len(data))
      /\ DOMAIN code \subseteq DOMAIN Overlay(linked, Placed(data, n))
  BY <1>2, <1>3, <1>4, Bound
<1> QED BY <1>1, <1>4, <1>5

LEMMA Trampoline64 ==
  ASSUME NEW from, NEW to
  PROVE  /\ Extent(A64!GenerateNormalTrampolineBuffer(from, to)) \in Nat
         /\ Extent(A64!GenerateNormalTrampolineBuffer(from, to)) <= IF A64!InAdrpRange(from, to) THEN 12 ELSE 16
<1> DEFINE t == A64!GenerateNormalTrampolineBuffer(from, to)
<1>1. CASE A64!InAdrpRange(from, to)
  <2> DEFINE page == A64!Adrp(A64!X17, A64!Field((A64!TruncPage(to) - A64!TruncPage(from)) \div 2^PageBits, AdrBits))
             add == A64!AddImm(A64!X17, A64!X17, to % 2^PageBits)
             br == A64!Br(A64!X17)
  <2>1. t = Placed(<<page, add>> \o <<br>>, 0)
    BY <1>1, Same DEF A64!GenerateNormalTrampolineBuffer, A64!AdrpAdd
  <2>2. Sized(page) /\ Sized(add) /\ Sized(br) /\ page.len = 4 /\ add.len = 4 /\ br.len = 4
    BY DEF A64!Adrp, A64!AddImm, A64!Br, Sized
  <2> HIDE DEF page, add, br, t
  <2> DEFINE code == <<page, add>> \o <<br>>
  <2>3. Insts(<<page, add>>) /\ Length(<<page, add>>) = 8 /\ Insts(<<br>>) /\ Length(<<br>>) = 4 /\ 1 \in 1 .. Len(<<br>>)
    BY <2>2, One, Two
  <2>4. Fits(t, 12) /\ DOMAIN t # {}
    <3>1. Insts(code) /\ Length(code) = 8 + 4
      BY <2>3, Concatenated
    <3>2. Fits(Placed(code, 0), 0 + 12)
      BY <3>1, PlacedFits
    <3>3. 0 + 8 + Offsets(<<br>>, 0)[1] \in DOMAIN Placed(code, 0)
      BY <2>3, Concatenated
    <3> QED BY <2>1, <3>2, <3>3
  <2>5. Extent(t) \in Nat /\ Extent(t) <= 12
    BY <2>4, ExtentFits
  <2> QED BY <1>1, <2>5 DEF t
<1>2. CASE ~A64!InAdrpRange(from, to)
  <2> DEFINE ldr == A64!Ldr(A64!X17)
             br == A64!Br(A64!X17)
             code == Placed(<<ldr, br>>, 0)
             l == A64!Label(to, 0)
  <2>1. t = A64!RelocBind(code, 8, <<l>>)
    BY <1>2, Same DEF A64!GenerateNormalTrampolineBuffer
  <2>2. Sized(ldr) /\ Sized(br) /\ ldr.len = 4 /\ br.len = 4
    BY DEF A64!Ldr, A64!LdrLiteral, A64!Br, Sized
  <2>3. <<l>> \in Seq({l}) /\ Len(<<l>>) = 1
    OBVIOUS
  <2> HIDE DEF ldr, br, l, t
  <2>4. Fits(code, 8) /\ DOMAIN code # {}
    <3>1. Insts(<<ldr, br>>) /\ Length(<<ldr, br>>) = 8 /\ 1 \in 1 .. Len(<<ldr, br>>)
      BY <2>2, Two
    <3>2. Fits(code, 0 + 8) /\ Offsets(<<ldr, br>>, 0)[1] \in DOMAIN code
      BY <3>1, PlacedFits
    <3> QED BY <3>2
  <2> HIDE DEF code
  <2>5. Fits(t, 8 + 8 * 1) /\ DOMAIN t # {}
    BY <2>1, <2>3, <2>4, Bind64
  <2>6. Fits(t, 16)
    BY <2>5
  <2>7. Extent(t) \in Nat /\ Extent(t) <= 16
    BY <2>5, <2>6, ExtentFits
  <2> QED BY <1>2, <2>7 DEF t
<1> QED BY <1>1, <1>2

LEMMA Mapped64 ==
  ASSUME IInv, fragment.arch = "arm64", A64!Loop, NEW s, Insts(s), A64!Emit(s), A64!ConsumeMapped, labels' = labels
  PROVE  IInv'
<1>1. Loop /\ EmitOver(s, {})
  BY SameLoop, SameEmit
<1>2. Consume(4)
  BY SameConsume DEF A64!ConsumeMapped
<1>3. Inst.len = 4
  BY <1>1, InLoop DEF IInv
<1> QED BY <1>1, <1>2, <1>3, Emitted

LEMMA Branched64 ==
  ASSUME IInv, fragment.arch = "arm64", A64!Loop, NEW prefix, Insts(prefix), NEW dst, NEW branch, Sized(branch),
         A64!LoadAndBranch(prefix, dst, branch)
  PROVE  IInv'
<1> DEFINE rest == <<A64!Ldr(A64!X17), branch>>
           s == prefix \o rest
           at == size + Length(prefix)
<1>1. Loop /\ EmitOver(s, {}) /\ labels' = Append(labels, [v |-> dst, refs |-> {at}]) /\ Consume(4)
  BY SameLoop, SameEmit, SameConsume, Same DEF A64!LoadAndBranch, A64!ConsumeMapped, A64!Label
<1>2. Sized(A64!Ldr(A64!X17))
  BY DEF A64!Ldr, A64!LdrLiteral, Sized
<1>3. Insts(rest) /\ Offsets(rest, 0)[1] = 0 /\ 1 \in 1 .. Len(rest)
  BY <1>2, Two
<1> HIDE DEF rest
<1>4. size \in Nat /\ Length(prefix) \in Nat
  BY OffsetsMove DEF IInv, BufferInv
<1>5. Insts(s) /\ size + Length(prefix) + Offsets(rest, 0)[1] \in DOMAIN Placed(s, size)
  BY <1>3, <1>4, Concatenated
<1>6. at \in DOMAIN Placed(s, size)
  BY <1>3, <1>4, <1>5
<1>7. Inst.len = 4
  BY <1>1, InLoop DEF IInv
<1> HIDE DEF s, at
<1> QED BY <1>1, <1>5, <1>6, <1>7, EmittedLabel

LEMMA Mov64 ==
  ASSUME NEW rd, NEW imm
  PROVE  Insts(A64!Mov(rd, imm))
<1> DEFINE s == A64!Mov(rd, imm)
           word(i) == IF i = 1 THEN A64!Movz(rd, A64!Half(imm, 0), 0) ELSE A64!Movk(rd, A64!Half(imm, i - 1), i - 1)
<1>1. \A i : Sized(word(i))
  BY DEF A64!Movz, A64!Movk, Sized
<1>2. s = [i \in 1 .. 4 |-> word(i)]
  BY DEF A64!Mov
<1> HIDE DEF word, s
<1> DEFINE W == {word(i) : i \in 1 .. 4}
<1>3. \A i \in 1 .. 4 : word(i) \in W
  OBVIOUS
<1> HIDE DEF W
<1>4. s \in [1 .. 4 -> W] /\ \A i \in 1 .. 4 : s[i] = word(i)
  BY <1>2, <1>3
<1>5. s \in Seq(W) /\ Len(s) = 4
  <2>1. [i \in 1 .. 4 |-> s[i]] \in Seq(W) /\ Len([i \in 1 .. 4 |-> s[i]]) = 4
    BY <1>4
  <2>2. s = [i \in 1 .. 4 |-> s[i]]
    BY <1>4
  <2> QED BY <2>1, <2>2
<1> QED BY <1>1, <1>4, <1>5 DEF Insts, s

LEMMA Finish64 ==
  ASSUME IInv, fragment.arch = "arm64", A64!Finish
  PROVE  IInv'
<1> DEFINE branch == <<A64!Ldr(A64!X17), A64!Br(A64!X17)>>
           l == A64!Label(A64!Src + cursor, size)
           code == Overlay(Placed(branch, size), out)
           n == size + Length(branch)
<1>1. /\ labels' = Append(labels, l) /\ out' = A64!RelocBind(code, n, labels') /\ size' = n + 8 * Len(labels')
      /\ BranchBack(branch)
  <2>1. /\ labels' = Append(labels, A64!Label(A64!Src + cursor, size))
        /\ out' = A64!RelocBind(A64!Overlay(A64!Placed(branch, size), out), size + A64!Length(branch), labels')
        /\ size' = (size + A64!Length(branch)) + 8 * Len(labels')
        /\ A64!BranchBack(branch)
    BY DEF A64!Finish
  <2>2. A64!Placed(branch, size) = Placed(branch, size) /\ A64!Length(branch) = Length(branch)
    BY Same
  <2>3. A64!Overlay(Placed(branch, size), out) = Overlay(Placed(branch, size), out)
    BY Same
  <2>4. BranchBack(branch)
    <3>1. \A f, g : A64!Overlay(f, g) = Overlay(f, g)
      BY Same
    <3> HIDE DEF branch
    <3> QED BY <2>1, <2>2, <3>1 DEF A64!BranchBack, BranchBack
  <2> QED BY <2>1, <2>2, <2>3, <2>4
<1>2. /\ origin_size' = cursor /\ relocated' = [addr |-> arena, size |-> size'] /\ arena' = arena + size'
      /\ stage' = "hooked" /\ UNCHANGED given /\ cursor' = cursor
      /\ expected_relocated_mem_size' = expected_relocated_mem_size
  BY DEF A64!Finish, A64!given, given
<1>3. Sized(A64!Ldr(A64!X17)) /\ Sized(A64!Br(A64!X17)) /\ "refs" \in DOMAIN l /\ l.refs = {size}
  BY DEF A64!Ldr, A64!LdrLiteral, A64!Br, A64!Label, Sized
<1>4. Insts(branch) /\ Offsets(branch, size)[1] = size /\ 1 \in 1 .. Len(branch) /\ Length(branch) \in Nat
  BY <1>3, Two, OffsetsStep, OffsetsMove
<1> HIDE DEF branch, l
<1>5. size \in Nat /\ Fits(out, size) /\ n \in Nat /\ size <= n
  BY <1>4 DEF IInv, BufferInv
<1>6. Fits(Placed(branch, size), n) /\ size \in DOMAIN Placed(branch, size)
  BY <1>4, <1>5, PlacedFits
<1> HIDE DEF n
<1>7. Fits(code, n) /\ DOMAIN code = DOMAIN Placed(branch, size) \cup DOMAIN out
  BY <1>5, <1>6, OverlayFits
<1> HIDE DEF code
<1>8. PICK S : labels \in Seq(S)
  BY DEF IInv, BufferInv
<1>9. /\ labels' \in Seq(S \cup {l}) /\ Len(labels') = Len(labels) + 1 /\ labels'[Len(labels) + 1] = l
      /\ \A i \in 1 .. Len(labels) : labels'[i] = labels[i]
  <2>1. labels \in Seq(S \cup {l}) /\ l \in S \cup {l}
    BY <1>8
  <2> QED BY <1>1, <2>1, AppendProperties
<1>10. DOMAIN labels = 1 .. Len(labels) /\ Len(labels) \in Nat /\ DOMAIN labels' = 1 .. Len(labels) + 1
  BY <1>8, <1>9, LenProperties
<1>11. Fits(out', size') /\ DOMAIN code \subseteq DOMAIN out' /\ size' \in Nat
  <2>1. \E T : labels' \in Seq(T)
    BY <1>9
  <2>2. Fits(A64!RelocBind(code, n, labels'), n + 8 * Len(labels'))
        /\ DOMAIN code \subseteq DOMAIN A64!RelocBind(code, n, labels')
    BY <1>5, <1>7, <2>1, Bind64
  <2>3. n + 8 * Len(labels') \in Nat
    BY <1>5, <1>9, <1>10
  <2> QED BY <1>1, <2>2, <2>3
<1>12. ASSUME NEW i \in DOMAIN labels' PROVE Refers(labels'[i], out')
  <2>1. CASE i = Len(labels) + 1
    BY <1>3, <1>6, <1>7, <1>9, <1>11, <2>1 DEF Refers
  <2>2. CASE i # Len(labels) + 1
    <3>1. i \in DOMAIN labels /\ labels'[i] = labels[i]
      BY <1>9, <1>10, <2>2
    <3> QED BY <1>7, <1>11, <3>1 DEF IInv, BufferInv, Refers
  <2> QED BY <2>1, <2>2
<1>13. DOMAIN out' # {}
  BY <1>6, <1>7, <1>11
<1>14. \A o \in DOMAIN source' : source'[o].at \in 0 .. Bytes(fragment)
  BY <1>1, Back DEF IInv
<1>15. \E T : labels' \in Seq(T)
  BY <1>9
<1> QED BY <1>2, <1>11, <1>12, <1>13, <1>14, <1>15, Finished

LEMMA Relocate64 ==
  ASSUME IInv, fragment.arch = "arm64", A64!Relocate
  PROVE  IInv'
<1>1. CASE A64!GenerateTrampoline
  <2> DEFINE t == A64!GenerateNormalTrampolineBuffer(A64!Src, env.hook)
  <2>1. A64!Src = fragment.src
    BY DEF A64!Src
  <2>2. TrampolineBytes(fragment, env) = IF A64!InAdrpRange(fragment.src, env.hook) THEN 12 ELSE 16
    BY DEF TrampolineBytes
  <2>3. TrampolineBytes(fragment, env) <= Bytes(fragment) /\ Bytes(fragment) \in Nat
    BY Fragments DEF IInv
  <2>4. Extent(t) \in Nat /\ Extent(t) <= Bytes(fragment)
    BY <2>1, <2>2, <2>3, Trampoline64
  <2>5. /\ stage = "prepare" /\ stage' = "relocate" /\ origin_size' = Extent(t)
        /\ UNCHANGED <<given, relocated, cursor, out, size, source, labels, relocated_offset_map, memory, machine>>
    BY <1>1, SameExtent DEF A64!GenerateTrampoline, A64!Prepare, A64!given, given, A64!memory, memory, A64!machine, machine
  <2> HIDE DEF t
  <2> QED BY <2>4, <2>5, Prepared
<1>2. CASE A64!RelocateBranch
  <2>1. Sized(A64!Blr(A64!X17)) /\ Sized(A64!Br(A64!X17))
    BY DEF A64!Blr, A64!Br, Sized
  <2> QED BY <1>2, <2>1, None, Branched64 DEF A64!RelocateBranch
<1>3. CASE A64!RelocateLdrLiteral
  <2> DEFINE dst == A64!relo_cur_src_vmaddr + A64!decode_imm19_offset(A64!Inst)
             load == IF A64!Inst.opc \in {0, 1} THEN <<A64!LdrX(A64!Inst.rt, A64!X17)>> ELSE << >>
  <2>1. Insts(load)
    <3>1. Sized(A64!LdrX(A64!Inst.rt, A64!X17))
      BY DEF A64!LdrX, Sized
    <3> QED BY <3>1, One, None
  <2>2. A64!Loop /\ A64!Emit(A64!Mov(A64!X17, dst) \o load) /\ labels' = labels /\ A64!ConsumeMapped
    BY <1>3 DEF A64!RelocateLdrLiteral
  <2> HIDE DEF dst, load
  <2>3. Insts(A64!Mov(A64!X17, dst) \o load)
    BY <2>1, Mov64, Concatenated
  <2> QED BY <2>2, <2>3, Mapped64
<1>4. CASE A64!RelocateAdr
  BY <1>4, Mov64, Mapped64 DEF A64!RelocateAdr
<1>5. CASE A64!RelocateAdrp
  BY <1>5, Mov64, Mapped64 DEF A64!RelocateAdrp
<1>6. \A v, w : Sized(A64!BCond(v, w)) /\ Sized(A64!CompareB(v, w)) /\ Sized(A64!TestB(v, w)) /\ Sized(A64!Br(v))
  BY DEF A64!BCond, A64!CompareB, A64!TestB, A64!Br, Sized
<1>7. CASE A64!RelocateBCond
  BY <1>6, <1>7, One, Branched64 DEF A64!RelocateBCond
<1>8. CASE A64!RelocateCompareB
  BY <1>6, <1>8, One, Branched64 DEF A64!RelocateCompareB
<1>9. CASE A64!RelocateTestB
  BY <1>6, <1>9, One, Branched64 DEF A64!RelocateTestB
<1>10. CASE A64!RelocateCopy
  <2>1. A64!Loop /\ A64!Emit(<<Inst>>) /\ labels' = labels /\ A64!ConsumeMapped /\ Loop
    BY <1>10, SameLoop DEF A64!RelocateCopy
  <2>2. Sized(Inst)
    BY <2>1, InLoop DEF IInv
  <2> QED BY <2>1, <2>2, One, Mapped64
<1>11. CASE A64!Finish
  BY <1>11, Finish64
<1> QED BY <1>1, <1>2, <1>3, <1>4, <1>5, <1>7, <1>8, <1>9, <1>10, <1>11 DEF A64!Relocate

-----------------------------------------------------------------------------
(* x86_64 *)
LEMMA SameCardinality == \A S : X64!Cardinality(S) = Cardinality(S)
  BY DEF X64!Cardinality, Cardinality

LEMMA SizedX64 ==
  /\ \A p, rex, map, c, m, disp, imm :
       "len" \in DOMAIN X64!X86(p, rex, map, c, m, disp, imm)
  /\ \A v : Sized(X64!JmpIndirect(v)) /\ X64!JmpIndirect(v).len = 6
  /\ \A v : Sized(X64!CallIndirect(v)) /\ X64!CallIndirect(v).len = 6
  /\ \A v : Sized(X64!JmpShort(v)) /\ X64!JmpShort(v).len = 2
  /\ \A v : Sized(X64!JccBytes(v)) /\ X64!JccBytes(v).len = 2
  /\ \A v : Sized(X64!Datum(v, 8)) /\ X64!Datum(v, 8).len = 8
  /\ \A v : Sized(X64!Datum(v, 2)) /\ X64!Datum(v, 2).len = 2
<1>1. \A p, rex, map, c, m, disp, imm : "len" \in DOMAIN X64!X86(p, rex, map, c, m, disp, imm)
  BY DEF X64!X86
<1>2. X64!Cardinality({}) = 0
  BY SameCardinality, FS_EmptySet
<1>3. X64!PrefixBytes({}, -1) = 0
  BY <1>2 DEF X64!PrefixBytes
<1>4. \A r \in {2, 4} : X64!HasModrm(1, 255) /\ X64!DisplacementBytes(X64!Rip(r)) = 4 /\ ~X64!HasSib(X64!Rip(r))
                        /\ X64!ImmediateBytes({}, -1, 1, 255, X64!Rip(r)) = 0
  BY DEF X64!HasModrm, X64!DisplacementBytes, X64!Rip, X64!HasSib, X64!ImmediateBytes
<1>5. \A v : X64!JmpIndirect(v).len = 6 /\ X64!CallIndirect(v).len = 6
  BY <1>3, <1>4 DEF X64!JmpIndirect, X64!CallIndirect, X64!X86
<1>6. ~X64!HasModrm(1, 235) /\ X64!ImmediateBytes({}, -1, 1, 235, X64!NoModrm) = 1
  BY DEF X64!HasModrm, X64!ImmediateBytes
<1>7. \A v : X64!JmpShort(v).len = 2
  BY <1>3, <1>6 DEF X64!JmpShort, X64!X86
<1>8. \A v : Sized(X64!JmpIndirect(v)) /\ Sized(X64!CallIndirect(v)) /\ Sized(X64!JmpShort(v))
  BY <1>1, <1>5, <1>7 DEF Sized, X64!JmpIndirect, X64!CallIndirect, X64!JmpShort
<1>9. \A v : Sized(X64!JccBytes(v)) /\ X64!JccBytes(v).len = 2
  BY DEF Sized, X64!JccBytes, X64!X86
<1>10. \A v : /\ Sized(X64!Datum(v, 8)) /\ X64!Datum(v, 8).len = 8
              /\ Sized(X64!Datum(v, 2)) /\ X64!Datum(v, 2).len = 2
  BY DEF Sized, X64!Datum
<1> QED BY <1>1, <1>5, <1>7, <1>8, <1>9, <1>10

(* The decoder's tables say of the opcodes that it is right about whether a
   modrm byte follows, *)
LEMMA TableModrm ==
  ASSUME NEW inst, X64!Described(inst)
  PROVE  X64!x86_insn_spec(inst).modrm <=> X64!HasModrm(inst.map, inst.opcode)
<1> DEFINE c == inst.opcode
<1>1. CASE inst.map = 1
  <2>1. c \in 0 .. 255 \ (X64!Undecodable1 \cup X64!Prefixes1)
    BY <1>1 DEF X64!Described
  <2>2. X64!x86_opcode_map_one_byte(c).modrm <=> X64!HasModrm(1, c)
    BY <2>1 DEF X64!Undecodable1, X64!Prefixes1, X64!x86_opcode_map_one_byte, X64!Spec, X64!HasModrm
  <2> QED BY <1>1, <2>2 DEF X64!x86_insn_spec
<1>2. CASE inst.map = 2
  <2>1. c \in 0 .. 255 \ X64!Undecodable2
    BY <1>2 DEF X64!Described
  <2>2. X64!x86_opcode_map_two_byte(c).modrm <=> X64!HasModrm(2, c)
    BY <2>1 DEF X64!Undecodable2, X64!x86_opcode_map_two_byte, X64!Spec, X64!HasModrm
  <2> QED BY <1>2, <2>2 DEF X64!x86_insn_spec
<1> QED BY <1>1, <1>2 DEF X64!Described

(* and which immediate does. *)
LEMMA TableImmediate1 ==
  ASSUME NEW inst, X64!Described(inst), inst.map = 1
  PROVE  LET imm == X64!x86_opcode_map_one_byte(inst.opcode).imm
             bytes == X64!ImmediateBytes(inst.prefixes, inst.rex, 1, inst.opcode, inst.modrm)
         IN /\ imm \in {"b", "w", "z", "v", "none"}
            /\ imm = "b" => bytes = 1
            /\ imm = "w" => bytes = 2
            /\ imm = "z" => bytes = IF inst.opcode \in {\hE8, \hE9} THEN 4 ELSE X64!OperandSized(inst.prefixes, inst.rex)
            /\ imm = "v" => inst.opcode \in \hB8 .. \hBF
                            /\ bytes = IF X64!RexW(inst.rex) THEN 8 ELSE X64!OperandSized(inst.prefixes, inst.rex)
            /\ imm = "none" => bytes = 0
<1>1. inst.opcode \in 0 .. 255 \ (X64!Undecodable1 \cup X64!Prefixes1)
  BY DEF X64!Described
<1> DEFINE c == inst.opcode
           imm == X64!x86_opcode_map_one_byte(c).imm
<1>2. c \in 0 .. 255 /\ c \notin X64!Undecodable1 /\ c \notin X64!Prefixes1
  BY <1>1
<1>3. imm = CASE c < \h40 /\ c % 8 = 4 -> "b"
              [] c < \h40 /\ c % 8 = 5 -> "z"
              [] c \in {\h6A, \h6B, \h80, \h82, \h83, \hA0, \hA2, \hA8, \hC0, \hC1, \hC6, \hCD, \hEB} -> "b"
              [] c \in \h70 .. \h7F \cup \hB0 .. \hB7 \cup \hE0 .. \hE7 -> "b"
              [] c \in {\h68, \h69, \h81, \hA9, \hC7, \hE8, \hE9} -> "z"
              [] c \in {\hA1, \hA3} \cup \hB8 .. \hBF -> "v"
              [] c \in {\hC2, \hC8, \hCA} -> "w"
              [] OTHER -> "none"
  BY DEF X64!x86_opcode_map_one_byte, X64!Spec
<1> DEFINE bytes == X64!ImmediateBytes(inst.prefixes, inst.rex, 1, c, inst.modrm)
           operand == X64!OperandSized(inst.prefixes, inst.rex)
<1> HIDE DEF c, imm
<1>4. imm \in {"b", "w", "z", "v", "none"}
  BY <1>3
<1>5. imm = "b" => bytes = 1
  BY <1>2, <1>3 DEF X64!Undecodable1, X64!Prefixes1, X64!ImmediateBytes
<1>6. imm = "w" => bytes = 2
  BY <1>2, <1>3 DEF X64!Undecodable1, X64!Prefixes1, X64!ImmediateBytes
<1>7. imm = "z" => bytes = IF c \in {\hE8, \hE9} THEN 4 ELSE operand
  BY <1>2, <1>3 DEF X64!Undecodable1, X64!Prefixes1, X64!ImmediateBytes
<1>8. imm = "v" => c \in \hB8 .. \hBF /\ bytes = IF X64!RexW(inst.rex) THEN 8 ELSE operand
  BY <1>2, <1>3 DEF X64!Undecodable1, X64!Prefixes1, X64!ImmediateBytes
<1>9. imm = "none" => bytes = 0
  BY <1>2, <1>3 DEF X64!Undecodable1, X64!Prefixes1, X64!ImmediateBytes
<1> QED BY <1>4, <1>5, <1>6, <1>7, <1>8, <1>9 DEF imm, c

LEMMA TableImmediate2 ==
  ASSUME NEW inst, X64!Described(inst), inst.map = 2
  PROVE  LET imm == X64!x86_opcode_map_two_byte(inst.opcode).imm
             bytes == X64!ImmediateBytes(inst.prefixes, inst.rex, 2, inst.opcode, inst.modrm)
         IN /\ imm \in {"b", "z", "none"}
            /\ imm = "b" => bytes = 1
            /\ imm = "z" => inst.opcode \in \h80 .. \h8F /\ bytes = 4
            /\ imm = "none" => bytes = 0
<1>1. inst.opcode \in 0 .. 255 \ X64!Undecodable2
  BY DEF X64!Described
<1> QED BY <1>1 DEF X64!Undecodable2, X64!x86_opcode_map_two_byte, X64!Spec, X64!ImmediateBytes

(* The operands of an opcode's entry stay what they are in its group; the flag
   is set for a few opcodes only. *)
LEMMA Tables ==
  ASSUME NEW inst, X64!Described(inst)
  PROVE  LET spec == X64!x86_insn_spec(inst)
         IN /\ inst.map = 1 => spec.imm = X64!x86_opcode_map_one_byte(inst.opcode).imm
            /\ inst.map = 2 => spec.imm = X64!x86_opcode_map_two_byte(inst.opcode).imm
            /\ inst.map = 1 /\ spec.imm = "z" => (spec.default64 <=> inst.opcode \in {\h68, \hE8, \hE9})
            /\ inst.map = 1 /\ spec.imm = "v" => ~spec.default64
            /\ inst.map = 2 /\ spec.imm = "z" => ~spec.default64
<1> DEFINE c == inst.opcode
<1>1. CASE inst.map = 1
  <2>1. c \in 0 .. 255 \ (X64!Undecodable1 \cup X64!Prefixes1)
    BY <1>1 DEF X64!Described
  <2> DEFINE one == X64!x86_opcode_map_one_byte(c)
  <2>2. one = [modrm |-> one.modrm, imm |-> one.imm, default64 |-> one.default64, group |-> one.group]
    BY DEF X64!x86_opcode_map_one_byte, X64!Spec
  <2>3. /\ one.imm = "z" /\ one.group = "none" => (one.default64 <=> c \in {\h68, \hE8, \hE9})
        /\ one.imm = "v" => ~one.default64
    <3>1. one.default64 <=> c \in {\h07, \h0E, \h68, \h6A, \hE8, \hE9} \cup \h50 .. \h5F
      BY DEF X64!x86_opcode_map_one_byte, X64!Spec
    <3>2. one.imm \in {"z", "v"} /\ one.group = "none" => c \notin {\h07, \h0E, \h6A} \cup \h50 .. \h5F
      BY <2>1 DEF X64!Undecodable1, X64!Prefixes1, X64!x86_opcode_map_one_byte, X64!Spec
    <3>3. one.imm = "v" => one.group = "none" /\ c \notin {\h68, \hE8, \hE9}
      BY <2>1 DEF X64!Undecodable1, X64!Prefixes1, X64!x86_opcode_map_one_byte, X64!Spec
    <3> HIDE DEF one
    <3> QED BY <3>1, <3>2, <3>3
  <2>4. /\ one.imm = "z" /\ one.group # "none" => one.group \notin {"1a", "5"} /\ c \notin {\h68, \hE8, \hE9}
        /\ one.imm = "v" => one.group = "none"
    BY <2>1 DEF X64!Undecodable1, X64!Prefixes1, X64!x86_opcode_map_one_byte, X64!Spec
  <2> HIDE DEF one
  <2> DEFINE flag == X64!x86_insn_modrm_reg_groups(one.group, inst.modrm.reg)
             spec == X64!x86_insn_spec(inst)
  <2>5. spec = IF one.group = "none" THEN one ELSE [one EXCEPT !.default64 = flag]
    BY <1>1 DEF X64!x86_insn_spec, one
  <2>6. one.group \notin {"1a", "5"} => ~flag
    BY DEF X64!x86_insn_modrm_reg_groups
  <2> HIDE DEF flag, spec
  <2>7. spec.imm = one.imm
    BY <2>2, <2>5
  <2>8. spec.default64 = IF one.group = "none" THEN one.default64 ELSE flag
    BY <2>2, <2>5
  <2>9. spec.imm = "z" => (spec.default64 <=> c \in {\h68, \hE8, \hE9})
    BY <2>3, <2>4, <2>6, <2>7, <2>8
  <2>10. spec.imm = "v" => ~spec.default64
    BY <2>3, <2>4, <2>7, <2>8
  <2> QED BY <1>1, <2>7, <2>9, <2>10 DEF spec, one
<1>2. CASE inst.map = 2
  <2>1. c \in 0 .. 255 \ X64!Undecodable2
    BY <1>2 DEF X64!Described
  <2> QED BY <1>2, <2>1 DEF X64!Undecodable2, X64!x86_opcode_map_two_byte, X64!Spec,
                            X64!x86_insn_spec, X64!x86_insn_modrm_reg_groups
<1> QED BY <1>1, <1>2 DEF X64!Described

(* The displacement *)
LEMMA Displacement ==
  ASSUME NEW inst, X64!Described(inst)
  PROVE  X64!Advance(X64!disp_bits(inst)) = X64!DisplacementBytes(inst.modrm)
  BY DEF X64!Described, X64!Advance, X64!disp_bits, X64!DisplacementBytes, X64!HasSib, X64!IpRelative,
         X64!RBP, X64!R13, X64!RexB

LEMMA Immediate ==
  ASSUME NEW inst, X64!Described(inst)
  PROVE  LET spec == X64!x86_insn_spec(inst)
         IN X64!Advance(X64!x86_insn_imm_bits(spec, X64!effective_operand_bits(inst, spec)))
            = X64!ImmediateBytes(inst.prefixes, inst.rex, inst.map, inst.opcode, inst.modrm)
<1> DEFINE spec == X64!x86_insn_spec(inst)
           bits == X64!effective_operand_bits(inst, spec)
           bytes == X64!ImmediateBytes(inst.prefixes, inst.rex, inst.map, inst.opcode, inst.modrm)
           decoded == X64!Advance(X64!x86_insn_imm_bits(spec, bits))
<1> SUFFICES decoded = bytes
  OBVIOUS
<1>1. /\ inst.map = 1 /\ spec.imm = "z" => (spec.default64 <=> inst.opcode \in {\h68, \hE8, \hE9})
      /\ inst.map = 1 /\ spec.imm = "v" => ~spec.default64
      /\ inst.map = 2 /\ spec.imm = "z" => ~spec.default64
  BY Tables
<1>2. /\ spec.imm \in {"b", "w", "z", "v", "none"}
      /\ spec.imm = "b" => bytes = 1
      /\ spec.imm = "w" => bytes = 2
      /\ spec.imm = "none" => bytes = 0
      /\ inst.map = 1 /\ spec.imm = "z" =>
           bytes = IF inst.opcode \in {\hE8, \hE9} THEN 4 ELSE X64!OperandSized(inst.prefixes, inst.rex)
      /\ spec.imm = "v" => inst.map = 1 /\ inst.opcode \in \hB8 .. \hBF
                           /\ bytes = IF X64!RexW(inst.rex) THEN 8 ELSE X64!OperandSized(inst.prefixes, inst.rex)
      /\ inst.map = 2 /\ spec.imm = "z" => inst.opcode \in \h80 .. \h8F /\ bytes = 4
  <2>1. CASE inst.map = 1
    BY <2>1, Tables, TableImmediate1
  <2>2. CASE inst.map = 2
    BY <2>2, Tables, TableImmediate2
  <2> QED BY <2>1, <2>2 DEF X64!Described
<1>3. /\ spec.default64 => bits = 64
      /\ ~spec.default64 /\ X64!RexW(inst.rex) /\ ~X64!IpRelative(inst) => bits = 64
      /\ ~spec.default64 /\ ~X64!RexW(inst.rex) =>
           bits = IF "66" \in inst.prefixes THEN 16 ELSE 32
      /\ ~spec.default64 /\ "66" \notin inst.prefixes => bits \in {32, 64}
      /\ bits \in {16, 32, 64}
  BY DEF X64!effective_operand_bits
<1>4. /\ "66" \in inst.prefixes /\ X64!RexW(inst.rex) => ~X64!IpRelative(inst)
      /\ "66" \in inst.prefixes /\ ~X64!RexW(inst.rex) =>
           /\ inst.map = 1 => inst.opcode # \h68
           /\ inst.map = 2 => inst.opcode \notin \h80 .. \h8F
      /\ inst.map = 1 /\ inst.opcode \in \hB8 .. \hBF => ~X64!RexW(inst.rex)
      /\ inst.map \in {1, 2}
  BY DEF X64!Described
<1>5. X64!OperandSized(inst.prefixes, inst.rex)
      = IF "66" \in inst.prefixes /\ ~X64!RexW(inst.rex) THEN 2 ELSE 4
  BY DEF X64!OperandSized
<1> HIDE DEF spec, bits, bytes, decoded
<1>6. CASE spec.imm \in {"b", "w", "none"}
  BY <1>2, <1>6 DEF decoded, X64!Advance, X64!x86_insn_imm_bits
<1>7. CASE spec.imm = "z"
  <2>1. bits \in {16, 32, 64}
    BY <1>3
  <2>2. decoded = IF bits = 16 THEN 2 ELSE 4
    BY <2>1, <1>7 DEF decoded, X64!Advance, X64!x86_insn_imm_bits
  <2>3. CASE inst.map = 1
    <3>1. CASE inst.opcode \in {\h68, \hE8, \hE9}
      BY <1>1, <1>2, <1>3, <1>4, <1>5, <1>7, <2>2, <2>3, <3>1
    <3>2. CASE inst.opcode \notin {\h68, \hE8, \hE9}
      BY <1>1, <1>2, <1>3, <1>4, <1>5, <1>7, <2>2, <2>3, <3>2
    <3> QED BY <3>1, <3>2
  <2>4. CASE inst.map = 2
    BY <1>1, <1>2, <1>3, <1>4, <1>7, <2>2, <2>4
  <2> QED BY <2>3, <2>4, <1>4
<1>8. CASE spec.imm = "v"
  <2>1. bits = (IF "66" \in inst.prefixes THEN 16 ELSE 32) /\ ~X64!RexW(inst.rex)
    BY <1>1, <1>2, <1>3, <1>4, <1>8
  <2>2. decoded = bits \div 8
    BY <2>1, <1>8 DEF decoded, X64!Advance, X64!x86_insn_imm_bits
  <2> QED BY <1>2, <1>5, <1>8, <2>1, <2>2
<1> QED BY <1>2, <1>6, <1>7, <1>8

(* The decoder takes the instructions that it is right about to be as long as
   the processor does: x86_insn_decode against the instruction's own length. *)
THEOREM DecodedLength ==
  ASSUME NEW inst, X64!Described(inst)
  PROVE  X64!x86_insn_decode(inst).length = inst.len
<1> DEFINE spec == X64!x86_insn_spec(inst)
           start == X64!PrefixBytes(inst.prefixes, inst.rex) + inst.map
           sib == IF X64!HasSib(inst.modrm) THEN 1 ELSE 0
           shown == X64!DisplacementBytes(inst.modrm)
           imm == X64!ImmediateBytes(inst.prefixes, inst.rex, inst.map, inst.opcode, inst.modrm)
<1>1. inst.len = start + (IF X64!HasModrm(inst.map, inst.opcode) THEN 1 + sib + shown ELSE 0) + imm
  BY DEF X64!Described, X64!X86
<1>2. X64!x86_insn_decode(inst).length
      = (IF spec.modrm THEN start + 1 + sib ELSE start)
        + X64!Advance(IF spec.modrm THEN X64!disp_bits(inst) ELSE 0)
        + X64!Advance(X64!x86_insn_imm_bits(spec, X64!effective_operand_bits(inst, spec)))
  BY DEF X64!x86_insn_decode
<1>3. spec.modrm <=> X64!HasModrm(inst.map, inst.opcode)
  BY TableModrm
<1>4. X64!Advance(X64!disp_bits(inst)) = shown /\ X64!Advance(0) = 0
  BY Displacement DEF X64!Advance
<1>5. X64!Advance(X64!x86_insn_imm_bits(spec, X64!effective_operand_bits(inst, spec))) = imm
  BY Immediate
<1>6. start \in Int /\ shown \in Int /\ imm \in Int
  <2>1. inst.map \in Int /\ inst.rex \in Int
    BY DEF X64!Described
  <2>2. X64!Cardinality(inst.prefixes) \in Nat
    <3> DEFINE all == {"66", "67", "F0", "F2", "F3", "2E", "36", "3E", "26", "64", "65"}
    <3>1. IsFiniteSet(all)
      <4>1. \A x, y : IsFiniteSet({x, y})
        <5> TAKE x, y
        <5>1. {x, y} = {x} \cup {y}
          OBVIOUS
        <5>2. IsFiniteSet({x})
          BY FS_Singleton
        <5>3. IsFiniteSet({x} \cup {y})
          BY <5>2, FS_AddElement
        <5> QED BY <5>1, <5>3
      <4>2. \A u, x, y, z : IsFiniteSet({u, x, y, z})
        <5> TAKE u, x, y, z
        <5>1. {u, x, y, z} = {u, x} \cup {y, z}
          OBVIOUS
        <5>2. IsFiniteSet({u, x} \cup {y, z})
          BY <4>1, FS_Union
        <5> QED BY <5>1, <5>2
      <4>3. all = ({"66", "67", "F0", "F2"} \cup {"F3", "2E", "36", "3E"}) \cup {"26", "64", "65", "65"}
        OBVIOUS
      <4>4. IsFiniteSet({"66", "67", "F0", "F2"}) /\ IsFiniteSet({"F3", "2E", "36", "3E"})
            /\ IsFiniteSet({"26", "64", "65", "65"})
        BY <4>2
      <4>5. IsFiniteSet({"66", "67", "F0", "F2"} \cup {"F3", "2E", "36", "3E"})
        BY <4>4, FS_Union
      <4>6. IsFiniteSet(({"66", "67", "F0", "F2"} \cup {"F3", "2E", "36", "3E"}) \cup {"26", "64", "65", "65"})
        BY <4>4, <4>5, FS_Union
      <4> QED BY <4>3, <4>6
    <3>2. inst.prefixes \subseteq all
      BY DEF X64!Described
    <3> HIDE DEF all
    <3> QED BY <3>1, <3>2, FS_Subset, FS_CardinalityType, SameCardinality
  <2>3. start \in Int
    BY <2>1, <2>2 DEF X64!PrefixBytes
  <2>4. shown \in Int
    BY DEF X64!DisplacementBytes
  <2>5. imm \in Int
    BY DEF X64!Described, X64!ImmediateBytes, X64!OperandSized
  <2> QED BY <2>3, <2>4, <2>5
<1> HIDE DEF spec, start, shown, imm, sib
<1> QED BY <1>1, <1>2, <1>3, <1>4, <1>5, <1>6 DEF sib

(* One instruction of x64 *)
LEMMA DecodedX64 ==
  ASSUME IInv, fragment.arch = "x64", X64!Looking, NEW s, Insts(s), NEW over, X64!EmitOver(s, over),
         X64!ConsumeDecoded
  PROVE  IInv'
<1>1. Loop /\ X64!Inst = Inst
  BY SameLoop DEF X64!Looking
<1>2. X64!Decoded.length = Inst.len
  <2>1. X64!Described(Inst)
    BY <1>1, InLoop DEF IInv
  <2> QED BY <1>1, <2>1, DecodedLength DEF X64!Decoded
<1>3. Consume(Inst.len) /\ labels' = labels
  BY <1>2, SameConsume DEF X64!ConsumeDecoded
<1>4. EmitOver(s, over)
  BY SameEmit
<1> QED BY <1>1, <1>3, <1>4, Emitted

LEMMA JumpX64 ==
  ASSUME NEW target
  PROVE  Insts(X64!codegen_x64_jmp_absolute_addr(target))
  BY SizedX64, Two DEF X64!codegen_x64_jmp_absolute_addr

(* The trampoline is one jump of six bytes. *)
LEMMA TrampolineX64 ==
  ASSUME NEW stub, NEW ip
  PROVE  /\ Extent(Placed(<<X64!JmpNearIndirect(stub, ip)>>, 0)) \in Nat
         /\ Extent(Placed(<<X64!JmpNearIndirect(stub, ip)>>, 0)) <= 6
<1> DEFINE j == X64!JmpNearIndirect(stub, ip)
           t == Placed(<<j>>, 0)
<1>1. Sized(j) /\ j.len = 6
  BY SizedX64 DEF X64!JmpNearIndirect
<1> HIDE DEF j
<1>2. Insts(<<j>>) /\ Length(<<j>>) = 6 /\ 1 \in 1 .. Len(<<j>>)
  BY <1>1, One
<1>3. Fits(t, 0 + 6) /\ Offsets(<<j>>, 0)[1] \in DOMAIN t
  BY <1>2, PlacedFits
<1> HIDE DEF t
<1>4. Fits(t, 6) /\ DOMAIN t # {}
  BY <1>3
<1>5. Extent(t) \in Nat /\ Extent(t) <= 6
  BY <1>4, ExtentFits
<1> QED BY <1>5 DEF t, j

LEMMA FinishX64 ==
  ASSUME IInv, fragment.arch = "x64", X64!Finish
  PROVE  IInv'
<1> DEFINE stub == X64!curr_relo_ip + 6
           j == X64!JmpNearIndirect(stub, X64!curr_relo_ip)
           d == X64!Datum(X64!Src + cursor, 8)
           code == <<j>> \o <<d>>
<1>1. /\ out' = Overlay(Placed(code, size), out) /\ size' = size + 14 /\ BranchBack(<<j>>)
      /\ size + 14 <= relocated.size /\ relocated.addr # 0
  BY Same DEF X64!Finish, X64!BranchBack, BranchBack, X64!Fits, X64!TailSize
<1>2. /\ origin_size' = cursor /\ relocated' = [relocated EXCEPT !.size = size'] /\ stage' = "hooked"
      /\ fragment' = fragment /\ env' = env /\ cursor' = cursor /\ labels' = labels
      /\ arena' = arena /\ expected_relocated_mem_size' = expected_relocated_mem_size
  BY DEF X64!Finish, X64!given, X64!memory
<1>3. Sized(j) /\ j.len = 6 /\ Sized(d) /\ d.len = 8
  BY SizedX64 DEF X64!JmpNearIndirect
<1> HIDE DEF j, d
<1>4. Insts(<<j>>) /\ Length(<<j>>) = 6 /\ Insts(<<d>>) /\ Length(<<d>>) = 8 /\ 1 \in 1 .. Len(<<d>>)
  BY <1>3, One
<1>5. size \in Nat /\ Fits(out, size)
  BY DEF IInv, BufferInv
<1>6. Insts(code) /\ Length(code) = 6 + 8
      /\ size + Length(<<j>>) + Offsets(<<d>>, 0)[1] \in DOMAIN Placed(code, size)
  BY <1>4, <1>5, Concatenated
<1> HIDE DEF code
<1>7. Fits(Placed(code, size), size + 14)
  <2>1. Fits(Placed(code, size), size + Length(code))
    BY <1>5, <1>6, PlacedFits
  <2> QED BY <1>6, <2>1
<1>8. Fits(out', size') /\ DOMAIN out' = DOMAIN Placed(code, size) \cup DOMAIN out
  <2>1. size + 14 \in Nat /\ size <= size + 14
    BY <1>5
  <2> QED BY <1>1, <1>5, <1>7, <2>1, OverlayFits
<1>9. Bytes(fragment)' = Bytes(fragment)
  BY <1>2 DEF Bytes, Extent
<1>10. CursorInv'
  BY <1>2, <1>9, Fragments DEF IInv, CursorInv
<1>11. BufferInv'
  <2>1. Fits(out, size)'
    BY <1>8 DEF Fits, Sized
  <2>2. \A o \in DOMAIN source' : source'[o].at \in 0 .. Bytes(fragment)
    BY <1>1, Back DEF IInv
  <2> QED BY <1>1, <1>2, <1>5, <1>8, <1>9, <2>1, <2>2 DEF IInv, BufferInv, Refers
<1>12. BlockInv'
  <2>1. relocated \in [addr : Nat, size : Nat] /\ arena \in Nat \ {0} /\ relocated.addr + relocated.size <= arena
        /\ expected_relocated_mem_size \in Nat
    BY <1>1 DEF IInv, BlockInv
  <2>2. relocated' = [addr |-> relocated.addr, size |-> size + 14]
    BY <1>1, <1>2, <2>1
  <2>3. relocated' \in [addr : Nat, size : Nat] /\ relocated'.addr = relocated.addr /\ relocated'.size = size + 14
    BY <1>5, <2>1, <2>2
  <2>4. relocated'.addr + relocated'.size <= arena
    BY <1>1, <1>5, <2>1, <2>3
  <2>5. DOMAIN out' # {}
    BY <1>6, <1>8
  <2> QED BY <1>1, <1>2, <2>1, <2>3, <2>4, <2>5 DEF BlockInv
<1> QED BY <1>10, <1>11, <1>12 DEF IInv

LEMMA RelocateX64 ==
  ASSUME IInv, fragment.arch = "x64", X64!Relocate
  PROVE  IInv'
<1>1. CASE X64!GenerateTrampoline
  <2> DEFINE stub == X64!Near(8, X64!Src + 6)
             t == Placed(<<X64!JmpNearIndirect(stub, X64!Src)>>, 0)
  <2>1. TrampolineBytes(fragment, env) = 6
    BY DEF TrampolineBytes
  <2>2. TrampolineBytes(fragment, env) <= Bytes(fragment) /\ Bytes(fragment) \in Nat
    BY Fragments DEF IInv
  <2>3. Extent(t) \in Nat /\ Extent(t) <= 6
    BY TrampolineX64
  <2>4. /\ stage = "prepare" /\ stage' = "relocate" /\ origin_size' = Extent(t)
        /\ UNCHANGED <<given, relocated, cursor, out, size, source, labels, relocated_offset_map, memory, machine>>
    BY <1>1, Same, SameExtent
       DEF X64!GenerateTrampoline, X64!Prepare, X64!given, given, X64!memory, memory, X64!machine, machine
  <2> HIDE DEF t
  <2>5. Extent(t) <= Bytes(fragment)
    BY <2>1, <2>2, <2>3
  <2> QED BY <2>3, <2>4, <2>5, Prepared
<1>2. CASE X64!AllocateRelocated
  <2>1. /\ stage = "relocate" /\ stage' = stage /\ fragment' = fragment /\ env' = env /\ cursor' = cursor
        /\ origin_size' = origin_size /\ out' = out /\ size' = size /\ source' = source /\ labels' = labels
        /\ relocated' = [addr |-> arena, size |-> expected_relocated_mem_size]
        /\ arena' = arena + expected_relocated_mem_size /\ expected_relocated_mem_size' = expected_relocated_mem_size
    BY <1>2 DEF X64!AllocateRelocated, X64!given, X64!copied
  <2>2. Bytes(fragment)' = Bytes(fragment)
    BY <2>1 DEF Bytes, Extent
  <2>3. CursorInv'
    BY <2>1, <2>2 DEF IInv, CursorInv
  <2>4. BufferInv'
    BY <2>1, <2>2 DEF IInv, BufferInv, Fits, Sized, Refers
  <2>5. BlockInv'
    BY <2>1 DEF IInv, BlockInv
  <2> QED BY <2>3, <2>4, <2>5 DEF IInv
<1>3. CASE X64!RelocateJcc
  <2> DEFINE jcc == X64!JccBytes(X64!Inst.opcode)
             over == IF X64!Inst.opcode % 16 < 4 THEN X64!Datum(0, 2) ELSE X64!JmpShort(14)
             jump == X64!codegen_x64_jmp_absolute_addr(X64!orig_insn_ref_addr(X64!Inst.imm))
  <2>1. Sized(jcc) /\ Sized(over)
    BY SizedX64
  <2>2. X64!Looking /\ X64!Emit(<<jcc, over>> \o jump) /\ X64!ConsumeDecoded
    BY <1>3 DEF X64!RelocateJcc
  <2>3. Insts(jump)
    BY JumpX64
  <2> HIDE DEF jcc, over, jump
  <2>4. Insts(<<jcc, over>> \o jump)
    <3>1. Insts(<<jcc, over>>)
      BY <2>1, Two
    <3> QED BY <2>3, <3>1, Concatenated
  <2>5. X64!EmitOver(<<jcc, over>> \o jump, {})
    BY <2>2, SameEmit
  <2> QED BY <2>2, <2>4, <2>5, DecodedX64
<1>4. CASE X64!RelocateRip
  <2>1. PICK at : X64!Emit(X64!codegen_x64_jmp_absolute_addr(at))
    BY <1>4 DEF X64!RelocateRip
  <2>2. X64!Looking /\ X64!ConsumeDecoded
    BY <1>4 DEF X64!RelocateRip
  <2> QED BY <2>1, <2>2, JumpX64, SameEmit, DecodedX64
<1>5. CASE X64!RelocateJmp8
  BY <1>5, JumpX64, SameEmit, DecodedX64 DEF X64!RelocateJmp8
<1>6. CASE X64!RelocateCallOrJmp32
  <2> DEFINE target == X64!orig_insn_ref_addr(X64!Inst.imm)
             call == <<X64!CallIndirect(2), X64!JmpShort(8), X64!Datum(target, 8)>>
  <2>1. Insts(call)
    BY SizedX64, Three
  <2>2. X64!Looking /\ X64!ConsumeDecoded
    BY <1>6 DEF X64!RelocateCallOrJmp32
  <2>3. X64!EmitOver(call, {6}) \/ X64!Emit(X64!codegen_x64_jmp_absolute_addr(target))
    BY <1>6 DEF X64!RelocateCallOrJmp32
  <2> HIDE DEF call
  <2>4. CASE X64!EmitOver(call, {6})
    BY <2>1, <2>2, <2>4, DecodedX64
  <2>5. CASE X64!Emit(X64!codegen_x64_jmp_absolute_addr(target))
    BY <2>2, <2>5, JumpX64, SameEmit, DecodedX64
  <2> QED BY <2>3, <2>4, <2>5
<1>7. CASE X64!RelocateLoop
  <2>1. out' = out /\ size' = size /\ source' = source /\ X64!Looking /\ X64!ConsumeDecoded
    BY <1>7 DEF X64!RelocateLoop, X64!copied
  <2>2. Loop /\ X64!Inst = Inst
    BY <2>1, SameLoop DEF X64!Looking
  <2>3. X64!Decoded.length = Inst.len
    <3>1. X64!Described(Inst)
      BY <2>2, InLoop DEF IInv
    <3> QED BY <2>2, <3>1, DecodedLength DEF X64!Decoded
  <2>4. Consume(Inst.len) /\ labels' = labels
    BY <2>1, <2>3, SameConsume DEF X64!ConsumeDecoded
  <2>5. CursorInv' /\ BlockInv' /\ UNCHANGED given
    BY <2>2, <2>4, Consumed DEF IInv
  <2>6. fragment' = fragment /\ Bytes(fragment)' = Bytes(fragment)
    BY <2>5 DEF given, Bytes, Extent
  <2>7. BufferInv'
    BY <2>1, <2>4, <2>6 DEF IInv, BufferInv, Fits, Sized, Refers
  <2> QED BY <2>5, <2>7 DEF IInv
<1>8. CASE X64!RelocateCopy
  <2>1. X64!Looking /\ X64!Emit(<<Inst>>) /\ X64!ConsumeDecoded /\ Loop
    BY <1>8, SameLoop DEF X64!RelocateCopy, X64!Looking
  <2>2. Sized(Inst)
    BY <2>1, InLoop DEF IInv
  <2> QED BY <2>1, <2>2, One, SameEmit, DecodedX64
<1>9. CASE X64!Finish
  BY <1>9, FinishX64
<1>10. CASE X64!TryAgain
  <2>1. /\ stage = "relocate" /\ stage' = stage /\ fragment' = fragment /\ env' = env /\ cursor' = 0 /\ size' = 0
        /\ origin_size' = cursor /\ out' = << >> /\ source' = << >> /\ labels' = labels
        /\ relocated' = [addr |-> 0, size |-> 0]
        /\ arena' = arena /\ expected_relocated_mem_size' = expected_relocated_mem_size + 16
    BY <1>10 DEF X64!TryAgain, X64!Done, X64!given
  <2>2. Bytes(fragment)' = Bytes(fragment)
    BY <2>1 DEF Bytes, Extent
  <2>3. CursorInv'
    <3>1. 0 \in DOMAIN fragment.code /\ cursor \in 0 .. Bytes(fragment) /\ Bytes(fragment) \in Nat
      BY Fragments DEF IInv, WellFormed
    <3> QED BY <2>1, <2>2, <3>1 DEF IInv, CursorInv
  <2>4. BufferInv'
    <3>1. labels = << >> /\ \E S : << >> \in Seq(S)
      BY DEF IInv, BufferInv
    <3>2. DOMAIN << >> = {}
      OBVIOUS
    <3> QED BY <2>1, <3>1, <3>2 DEF BufferInv, Fits
  <2>5. BlockInv'
    <3>1. arena \in Nat \ {0} /\ expected_relocated_mem_size \in Nat
      BY DEF IInv, BlockInv
    <3> QED BY <2>1, <3>1 DEF BlockInv
  <2> QED BY <2>3, <2>4, <2>5 DEF IInv
<1> QED BY <1>1, <1>2, <1>3, <1>4, <1>5, <1>6, <1>7, <1>8, <1>9, <1>10 DEF X64!Relocate

-----------------------------------------------------------------------------
(* 32-bit ARM *)
LEMMA SizedA32 ==
  /\ \A r, off : Sized(A32!ArmLdr(r, off)) /\ A32!ArmLdr(r, off).len = 4
  /\ \A r, off : Sized(A32!t2_ldr(r, off)) /\ A32!t2_ldr(r, off).len = 4
  /\ \A c, n : Sized(A32!b(c, n)) /\ Sized(A32!bl(c, n))
  /\ \A n : Sized(A32!t2_b(n)) /\ A32!t2_b(n).len = 4 /\ Sized(A32!t2_bl(n)) /\ A32!t2_bl(n).len = 4
  /\ \A a : Sized(A32!EmitAddress(a)) /\ A32!EmitAddress(a).len = 4
  /\ \A t, r, n : Sized(A32!LdrReg(t, r, n))
  /\ \A t : Sized(A32!Nop(t))
  /\ A32!Nop(TRUE).len = 2
  /\ \A c : Sized(A32!BCondBytes(c)) /\ A32!BCondBytes(c).len = 2
<1>1. /\ \A r, off : Sized(A32!ArmLdr(r, off)) /\ A32!ArmLdr(r, off).len = 4
      /\ \A r, off : Sized(A32!t2_ldr(r, off)) /\ A32!t2_ldr(r, off).len = 4
  BY DEF A32!ArmLdr, A32!t2_ldr, A32!LdrLiteral, Sized
<1>2. /\ \A c, n : Sized(A32!b(c, n)) /\ Sized(A32!bl(c, n))
      /\ \A n : Sized(A32!t2_b(n)) /\ A32!t2_b(n).len = 4 /\ Sized(A32!t2_bl(n)) /\ A32!t2_bl(n).len = 4
  BY DEF A32!b, A32!bl, A32!t2_b, A32!t2_bl, A32!Branch, Sized
<1>3. \A a : Sized(A32!EmitAddress(a)) /\ A32!EmitAddress(a).len = 4
  BY DEF A32!EmitAddress, A32!Datum, Sized
<1>4. \A t, r, n : Sized(A32!LdrReg(t, r, n))
  BY DEF A32!LdrReg, Sized
<1>5. (\A t : Sized(A32!Nop(t))) /\ A32!Nop(TRUE).len = 2
  BY DEF A32!Nop, Sized
<1>6. \A c : Sized(A32!BCondBytes(c)) /\ A32!BCondBytes(c).len = 2
  BY DEF A32!BCondBytes, A32!Branch, A32!Datum, Sized
<1> QED BY <1>1, <1>2, <1>3, <1>4, <1>5, <1>6

LEMMA Aligned32 ==
  ASSUME NEW at
  PROVE  /\ Insts(A32!AlignThumbNop(at))
         /\ Length(A32!AlignThumbNop(at)) = IF at % 4 = 0 THEN 0 ELSE 2
  BY SizedA32, None, One DEF A32!AlignThumbNop

(* What comes before the copy of an instruction *)
LEMMA Lead32 == Insts(A32!Lead)
<1>1. Insts(<<A32!Nop(TRUE)>>)
  BY SizedA32, One
<1>2. Insts(<<A32!Nop(TRUE)>> \o A32!AlignThumbNop(size + 2))
  BY <1>1, Aligned32, Concatenated
<1> QED BY <1>2, None DEF A32!Lead

LEMMA Rewritten32 ==
  ASSUME IInv, Loop, NEW insts, Insts(insts), NEW over, A32!Unlabelled(insts, over)
  PROVE  IInv'
<1>1. PICK all : EmitOver(A32!Lead \o insts, all)
  BY SameEmit DEF A32!Unlabelled, A32!Rewrite
<1>2. Consume(Inst.len) /\ labels' = labels
  BY SameLoop, SameConsume DEF A32!Unlabelled, A32!Rewrite
<1>3. Insts(A32!Lead \o insts)
  BY Lead32, Concatenated
<1> QED BY <1>1, <1>2, <1>3, Emitted

(* A label that is loaded by the instruction at an offset *)
LEMMA Labelled32 ==
  ASSUME IInv, Loop, fragment.arch = "arm", NEW insts, Insts(insts), NEW i \in 1 .. Len(insts), NEW offset,
         offset = Offsets(insts, 0)[i], NEW v, A32!Labelled(insts, offset, v)
  PROVE  IInv'
<1> DEFINE at == size + Length(A32!Lead) + offset
           s == A32!Lead \o insts
<1>1. PICK all : EmitOver(s, all)
  BY SameEmit DEF A32!Labelled, A32!Rewrite
<1>2. Consume(Inst.len) /\ labels' = Append(labels, [v |-> v, refs |-> {at}])
  BY Same, SameLoop, SameConsume DEF A32!Labelled, A32!Rewrite, A32!Label
<1>3. size \in Nat
  BY DEF IInv, BufferInv
<1>4. Insts(s) /\ at \in DOMAIN Placed(s, size)
  BY <1>3, Lead32, Concatenated
<1> HIDE DEF s, at
<1> QED BY <1>1, <1>2, <1>4, EmittedLabel

LEMMA CodeExtent ==
  ASSUME NEW s, Insts(s), NEW n \in Nat, Length(s) = n, DOMAIN Placed(s, 0) # {} \/ 1 \in 1 .. Len(s)
  PROVE  Extent(Placed(s, 0)) \in Nat /\ Extent(Placed(s, 0)) <= n
<1> DEFINE t == Placed(s, 0)
<1>1. Fits(t, 0 + n) /\ \A i \in 1 .. Len(s) : Offsets(s, 0)[i] \in DOMAIN t
  BY PlacedFits
<1>2. DOMAIN t # {}
  BY <1>1
<1> HIDE DEF t
<1>3. Extent(t) \in Nat /\ Extent(t) <= n
  BY <1>1, <1>2, ExtentFits
<1> QED BY <1>3 DEF t

(* One load of a label; a load behind two instructions of two bytes and one of
   four *)
LEMMA Loads32 ==
  ASSUME IInv, Loop, fragment.arch = "arm", NEW r, NEW n, NEW v,
         A32!Labelled(<<A32!ArmLdr(r, n)>>, 0, v) \/ A32!Labelled(<<A32!t2_ldr(r, n)>>, 0, v)
  PROVE  IInv'
<1>1. ASSUME NEW load, Sized(load), A32!Labelled(<<load>>, 0, v) PROVE IInv'
  <2> DEFINE s == <<load>>
  <2>1. Insts(s) /\ 1 \in 1 .. Len(s) /\ Offsets(s, 0)[1] = 0 /\ A32!Labelled(s, 0, v)
    BY <1>1, One
  <2> HIDE DEF s
  <2> QED BY <2>1, Labelled32
<1>2. Sized(A32!ArmLdr(r, n)) /\ Sized(A32!t2_ldr(r, n))
  BY SizedA32
<1> QED BY <1>1, <1>2

LEMMA Skips32 ==
  ASSUME IInv, Loop, fragment.arch = "arm", NEW x, Sized(x), x.len = 2, NEW v,
         A32!Labelled(<<x, A32!Nop(TRUE), A32!t2_b(4), A32!t2_ldr(A32!PC, 0)>>, 8, v)
  PROVE  IInv'
<1> DEFINE nop == A32!Nop(TRUE)
           skip == A32!t2_b(4)
           load == A32!t2_ldr(A32!PC, 0)
           s == <<x, nop, skip, load>>
<1>1. Sized(nop) /\ Sized(skip) /\ Sized(load) /\ nop.len = 2 /\ skip.len = 4
  BY SizedA32
<1>2. A32!Labelled(s, 8, v)
  OBVIOUS
<1> HIDE DEF nop, skip, load
<1>3. Insts(s) /\ Len(s) = 4 /\ Offsets(s, 0)[4] = x.len + nop.len + skip.len
  BY <1>1, Four
<1> HIDE DEF s
<1>4. 4 \in 1 .. Len(s)
  BY <1>3
<1>5. Offsets(s, 0)[4] = 8
  BY <1>1, <1>3
<1> QED BY <1>2, <1>3, <1>4, <1>5, Labelled32

LEMMA Bind32 ==
  ASSUME NEW code, NEW n \in Nat, Fits(code, n), NEW ls, \E S : ls \in Seq(S)
  PROVE  /\ Fits(A32!RelocBind(code, n, ls), n + 4 * Len(ls))
         /\ DOMAIN code \subseteq DOMAIN A32!RelocBind(code, n, ls)
<1> DEFINE bound(i) == n + 4 * (i - 1)
           linked == [o \in DOMAIN code |->
                        IF \E i \in DOMAIN ls : o \in ls[i].refs
                        THEN LET i == CHOOSE j \in DOMAIN ls : o \in ls[j].refs
                             IN A32!link_confused_instructions(code[o], o, bound(i))
                        ELSE code[o]]
           data == [i \in DOMAIN ls |-> A32!EmitAddress(ls[i].v)]
<1>1. A32!RelocBind(code, n, ls) = Overlay(linked, Placed(data, n))
  BY Same DEF A32!RelocBind
<1>2. DOMAIN linked = DOMAIN code
  OBVIOUS
<1>3. ASSUME NEW o \in DOMAIN code PROVE Sized(linked[o]) /\ linked[o].len = code[o].len
  <2>1. Sized(code[o])
    BY DEF Fits
  <2>2. ASSUME NEW v PROVE Sized([code[o] EXCEPT !.off = v]) /\ [code[o] EXCEPT !.off = v].len = code[o].len
    BY <2>1 DEF Sized
  <2>3. \A v : Sized(A32!link_confused_instructions(code[o], o, v))
               /\ A32!link_confused_instructions(code[o], o, v).len = code[o].len
    BY <2>2 DEF A32!link_confused_instructions
  <2> QED BY <2>1, <2>3
<1>4. Insts(data) /\ Len(data) = Len(ls) /\ \A i \in 1 .. Len(data) : data[i].len = 4
  <2>1. DOMAIN ls = 1 .. Len(ls) /\ Len(ls) \in Nat
    BY LenProperties
  <2> DEFINE D == {A32!EmitAddress(ls[i].v) : i \in 1 .. Len(ls)}
  <2>2. data \in Seq(D) /\ Len(data) = Len(ls) /\ \A i \in 1 .. Len(ls) : data[i] = A32!EmitAddress(ls[i].v)
    BY <2>1
  <2> HIDE DEF data
  <2>3. \E S : data \in Seq(S)
    BY <2>2
  <2> QED BY <2>2, <2>3, SizedA32 DEF Insts
<1> HIDE DEF linked, data
<1>5. /\ Fits(Overlay(linked, Placed(data, n)), n + 4 * Len(data))
      /\ DOMAIN code \subseteq DOMAIN Overlay(linked, Placed(data, n))
  BY <1>2, <1>3, <1>4, Bound
<1> QED BY <1>1, <1>4, <1>5

LEMMA Finish32 ==
  ASSUME IInv, fragment.arch = "arm", A32!Finish
  PROVE  IInv'
<1> DEFINE branch == IF A32!Thumb THEN A32!AlignThumbNop(size) \o <<A32!t2_ldr(A32!PC, 0)>>
                     ELSE <<A32!ArmLdr(A32!PC, -4)>>
           d == A32!EmitAddress(A32!Src + cursor + A32!Flag(A32!Thumb))
           insts == branch \o <<d>>
           code == Overlay(Placed(insts, size), out)
           n == size + Length(branch) + 4
<1>1. /\ labels' = A32!RelocLabelFixup(labels) /\ out' = A32!RelocBind(code, n, labels')
      /\ size' = n + 4 * Len(labels') /\ BranchBack(branch)
  <2>1. labels' = A32!RelocLabelFixup(labels)
    BY DEF A32!Finish
  <2>2. out' = A32!RelocBind(A32!Overlay(A32!Placed(insts, size), out), size + A32!Length(branch) + 4, labels')
        /\ size' = (size + A32!Length(branch) + 4) + 4 * Len(labels') /\ A32!BranchBack(branch)
    BY DEF A32!Finish
  <2> HIDE DEF branch, insts
  <2>3. A32!Placed(insts, size) = Placed(insts, size) /\ A32!Length(branch) = Length(branch)
        /\ A32!Overlay(Placed(insts, size), out) = Overlay(Placed(insts, size), out)
    BY Same
  <2>4. BranchBack(branch)
    <3>1. A32!Placed(branch, size) = Placed(branch, size)
      BY Same
    <3>2. \A f : A32!Overlay(f, source) = Overlay(f, source)
      BY Same
    <3> QED BY <2>2, <3>1, <3>2 DEF A32!BranchBack, BranchBack
  <2> QED BY <2>1, <2>2, <2>3, <2>4
<1>2. /\ origin_size' = cursor /\ relocated' = [addr |-> arena, size |-> size'] /\ arena' = arena + size'
      /\ stage' = "hooked" /\ UNCHANGED given /\ cursor' = cursor
      /\ expected_relocated_mem_size' = expected_relocated_mem_size
  BY DEF A32!Finish, A32!given, given
<1>3. Sized(A32!t2_ldr(A32!PC, 0)) /\ Sized(A32!ArmLdr(A32!PC, -4)) /\ Sized(d) /\ d.len = 4
  BY SizedA32
<1>4. Insts(branch) /\ Length(branch) \in Nat
  <2>1. Insts(<<A32!t2_ldr(A32!PC, 0)>>) /\ Insts(<<A32!ArmLdr(A32!PC, -4)>>)
    BY <1>3, One
  <2>2. Insts(A32!AlignThumbNop(size) \o <<A32!t2_ldr(A32!PC, 0)>>)
    BY <2>1, Aligned32, Concatenated
  <2>3. Insts(branch)
    BY <2>1, <2>2
  <2> HIDE DEF branch
  <2> QED BY <2>3, OffsetsMove
<1> HIDE DEF branch, d
<1>5. Insts(<<d>>) /\ Length(<<d>>) = 4 /\ 1 \in 1 .. Len(<<d>>)
  BY <1>3, One
<1>6. size \in Nat /\ Fits(out, size) /\ n \in Nat /\ size <= n
  BY <1>4 DEF IInv, BufferInv
<1>7. Insts(insts) /\ Length(insts) = Length(branch) + 4
      /\ size + Length(branch) + Offsets(<<d>>, 0)[1] \in DOMAIN Placed(insts, size)
  BY <1>4, <1>5, <1>6, Concatenated
<1> HIDE DEF insts
<1>8. Fits(Placed(insts, size), n) /\ DOMAIN Placed(insts, size) # {}
  <2>1. Fits(Placed(insts, size), size + Length(insts))
    BY <1>6, <1>7, PlacedFits
  <2>2. size + Length(insts) = n
    BY <1>4, <1>6, <1>7
  <2> QED BY <1>7, <2>1, <2>2
<1> HIDE DEF n
<1>9. Fits(code, n) /\ DOMAIN code = DOMAIN Placed(insts, size) \cup DOMAIN out
  BY <1>6, <1>8, OverlayFits
<1> HIDE DEF code
<1>10. PICK S : labels \in Seq(S)
  BY DEF IInv, BufferInv
<1>11. /\ DOMAIN labels' = DOMAIN labels
       /\ \A i \in DOMAIN labels : Refers(labels'[i], out)
  <2>1. \A i \in DOMAIN labels :
          \/ labels'[i] = labels[i] \/ \E v : labels'[i] = [labels[i] EXCEPT !.v = v]
    BY <1>1 DEF A32!RelocLabelFixup
  <2>2. DOMAIN labels' = DOMAIN labels
    BY <1>1 DEF A32!RelocLabelFixup
  <2>3. ASSUME NEW i \in DOMAIN labels PROVE Refers(labels'[i], out)
    <3>1. Refers(labels[i], out)
      BY DEF IInv, BufferInv
    <3>2. \A v : Refers([labels[i] EXCEPT !.v = v], out)
      BY <3>1 DEF Refers
    <3> QED BY <2>1, <3>1, <3>2
  <2> QED BY <2>2, <2>3
<1>12. (\E T : labels' \in Seq(T)) /\ Len(labels') \in Nat
  <2>1. DOMAIN labels = 1 .. Len(labels) /\ Len(labels) \in Nat
    BY <1>10, LenProperties
  <2> DEFINE T == {labels'[i] : i \in 1 .. Len(labels)}
             f == [i \in 1 .. Len(labels) |-> labels'[i]]
  <2>2. f \in Seq(T)
    BY <2>1
  <2>3. labels' = f
    BY <1>1, <1>11, <2>1 DEF A32!RelocLabelFixup
  <2>4. labels' \in Seq(T)
    BY <2>2, <2>3
  <2> HIDE DEF T, f
  <2> QED BY <2>4, LenProperties
<1>13. Fits(out', size') /\ DOMAIN code \subseteq DOMAIN out' /\ size' \in Nat
  <2>1. Fits(A32!RelocBind(code, n, labels'), n + 4 * Len(labels'))
        /\ DOMAIN code \subseteq DOMAIN A32!RelocBind(code, n, labels')
    BY <1>6, <1>9, <1>12, Bind32
  <2>2. n + 4 * Len(labels') \in Nat
    BY <1>6, <1>12
  <2> QED BY <1>1, <2>1, <2>2
<1>14. \A i \in DOMAIN labels' : Refers(labels'[i], out')
  BY <1>9, <1>11, <1>13 DEF Refers
<1>15. DOMAIN out' # {}
  BY <1>8, <1>9, <1>13
<1>16. \A o \in DOMAIN source' : source'[o].at \in 0 .. Bytes(fragment)
  BY <1>1, Back DEF IInv
<1> QED BY <1>2, <1>12, <1>13, <1>14, <1>15, <1>16, Finished

LEMMA GenerateTrampoline32 ==
  ASSUME IInv, fragment.arch = "arm", A32!GenerateTrampoline
  PROVE  IInv'
<1> DEFINE to == env.hook + env.tag
           arm == A32!generate_arm_trampoline(to)
           thumb == A32!generate_thumb_trampoline(A32!Src, to)
           t == Placed(IF A32!Thumb THEN thumb ELSE arm, 0)
           load == A32!t2_ldr(A32!PC, 0)
           address == A32!EmitAddress(to)
<1>1. TrampolineBytes(fragment, env) = IF A32!Thumb /\ A32!Src % 4 # 0 THEN 10 ELSE 8
  BY DEF TrampolineBytes, A32!Thumb, A32!Src
<1>2. TrampolineBytes(fragment, env) <= Bytes(fragment) /\ Bytes(fragment) \in Nat
  BY Fragments DEF IInv
<1>3. /\ stage = "prepare" /\ stage' = "relocate" /\ origin_size' = Extent(t)
      /\ UNCHANGED <<given, relocated, cursor, out, size, source, labels, relocated_offset_map, memory, machine>>
  BY Same, SameExtent
     DEF A32!GenerateTrampoline, A32!Prepare, A32!given, given, A32!memory, memory, A32!machine, machine
<1>4. Sized(load) /\ load.len = 4 /\ Sized(address) /\ address.len = 4 /\ Sized(A32!ArmLdr(A32!PC, -4))
      /\ A32!ArmLdr(A32!PC, -4).len = 4
  BY SizedA32
<1>5. CASE A32!Thumb
  <2> DEFINE nop == A32!AlignThumbNop(A32!Src)
             rest == <<load, address>>
  <2>1. t = Placed(nop \o rest, 0)
    BY <1>5 DEF A32!generate_thumb_trampoline
  <2>2. Insts(nop) /\ Length(nop) = IF A32!Src % 4 = 0 THEN 0 ELSE 2
    BY Aligned32
  <2> HIDE DEF nop, load, address, t
  <2>3. Insts(rest) /\ Length(rest) = 8 /\ 1 \in 1 .. Len(rest)
    BY <1>4, Two
  <2> HIDE DEF rest
  <2>4. Insts(nop \o rest) /\ Length(nop \o rest) = Length(nop) + 8
        /\ 0 + Length(nop) + Offsets(rest, 0)[1] \in DOMAIN t
    BY <2>1, <2>2, <2>3, Concatenated
  <2>5. Length(nop) + 8 \in Nat /\ Length(nop) + 8 <= TrampolineBytes(fragment, env)
    BY <1>1, <1>5, <2>2
  <2>6. Extent(t) \in Nat /\ Extent(t) <= Length(nop) + 8
    BY <2>1, <2>4, <2>5, CodeExtent
  <2>7. Extent(t) <= Bytes(fragment)
    BY <1>1, <1>2, <2>2, <2>5, <2>6
  <2> QED BY <1>3, <2>6, <2>7, Prepared
<1>6. CASE ~A32!Thumb
  <2> DEFINE code == <<A32!ArmLdr(A32!PC, -4), address>>
  <2>1. t = Placed(code, 0)
    BY <1>6 DEF A32!generate_arm_trampoline, A32!LiteralLdrBranch
  <2> HIDE DEF address, t
  <2>2. Insts(code) /\ Length(code) = 8 /\ 1 \in 1 .. Len(code) /\ Offsets(code, 0)[1] = 0
    BY <1>4, Two
  <2> HIDE DEF code
  <2>3. Extent(t) \in Nat /\ Extent(t) <= 8
    BY <2>1, <2>2, CodeExtent
  <2>4. Extent(t) <= Bytes(fragment)
    BY <1>1, <1>2, <1>6, <2>3
  <2> QED BY <1>3, <2>3, <2>4, Prepared
<1> QED BY <1>5, <1>6

LEMMA Relocate32 ==
  ASSUME IInv, fragment.arch = "arm", A32!Relocate
  PROVE  IInv'
<1> USE SizedA32
<1>1. CASE A32!GenerateTrampoline
  BY <1>1, GenerateTrampoline32
<1>2. CASE A32!RelocateLdrLiteral
  <2> DEFINE r == IF A32!Inst.rt = A32!PC THEN A32!VOLATILE_REGISTER ELSE A32!Inst.rt
             s == <<A32!ArmLdr(r, 0), A32!LdrReg(FALSE, A32!Inst.rt, r)>>
  <2>1. Insts(s) /\ 1 \in 1 .. Len(s) /\ Offsets(s, 0)[1] = 0
    <3>1. Insts(s) /\ Len(s) = 2 /\ Offsets(s, 0)[1] = 0
      BY Two
    <3> QED BY <3>1
  <2>2. Loop /\ \E v : A32!Labelled(s, 0, v)
    BY <1>2, SameLoop DEF A32!RelocateLdrLiteral, A32!ArmInst
  <2> HIDE DEF s
  <2> QED BY <2>1, <2>2, Labelled32
<1>3. CASE A32!RelocateAdr
  <2>1. Loop /\ \E r, v : A32!Labelled(<<A32!ArmLdr(r, 0)>>, 0, v)
    BY <1>3, SameLoop DEF A32!RelocateAdr, A32!ArmInst
  <2> QED BY <2>1, Loads32
<1>4. CASE A32!RelocateBranch
  <2>1. PICK branch, address :
          /\ Loop /\ Sized(branch)
          /\ A32!Unlabelled(<<branch, A32!b(A32!AL, 4), A32!ArmLdr(A32!PC, -4), A32!EmitAddress(address),
                              A32!Nop(FALSE)>>, {4, 16})
    BY <1>4, SameLoop DEF A32!RelocateBranch
  <2> QED BY <2>1, Five, Rewritten32
<1>5. CASE A32!RelocateCopy
  <2>1. Loop /\ A32!Unlabelled(<<Inst>>, {})
    BY <1>5, SameLoop DEF A32!RelocateCopy
  <2> QED BY <2>1, InLoop, One, Rewritten32 DEF IInv
<1>6. CASE A32!RelocateMovPc
  <2> DEFINE move == [Inst EXCEPT !.rs = A32!VOLATILE_REGISTER]
             s == <<A32!t2_ldr(A32!VOLATILE_REGISTER, 0), move>>
  <2>1. Loop /\ \E v : A32!Labelled(s, 0, v)
    BY <1>6, SameLoop DEF A32!RelocateMovPc, A32!Thumb1Inst
  <2>2. Sized(move)
    <3>1. Sized(Inst)
      BY <2>1, InLoop DEF IInv
    <3> QED BY <3>1 DEF Sized
  <2> HIDE DEF move
  <2>3. Insts(s) /\ 1 \in 1 .. Len(s) /\ Offsets(s, 0)[1] = 0
    BY <2>2, Two
  <2> HIDE DEF s
  <2> QED BY <2>1, <2>3, Labelled32
<1>7. CASE A32!RelocateBxPc
  <2> DEFINE s == <<A32!t2_bl(4), A32!t2_b(4), A32!t2_ldr(A32!PC, 0)>>
  <2>1. Loop /\ \E v : A32!Labelled(s, 8, v) \/ A32!Labelled(<<A32!t2_ldr(A32!PC, 0)>>, 0, v)
    BY <1>7, SameLoop DEF A32!RelocateBxPc, A32!Thumb1Inst
  <2>2. Insts(s) /\ 3 \in 1 .. Len(s) /\ Offsets(s, 0)[3] = 8
    BY Three
  <2> HIDE DEF s
  <2>3. CASE \E v : A32!Labelled(s, 8, v)
    BY <2>1, <2>2, <2>3, Labelled32
  <2>4. CASE \E v : A32!Labelled(<<A32!t2_ldr(A32!PC, 0)>>, 0, v)
    BY <2>1, <2>4, Loads32
  <2> QED BY <2>1, <2>3, <2>4
<1>8. CASE A32!RelocateThumb1LdrLiteral
  <2> DEFINE s == <<A32!t2_ldr(A32!Inst.rt, 0), A32!LdrReg(TRUE, A32!Inst.rt, A32!Inst.rt)>>
  <2>1. Insts(s) /\ 1 \in 1 .. Len(s) /\ Offsets(s, 0)[1] = 0
    <3>1. Insts(s) /\ Len(s) = 2 /\ Offsets(s, 0)[1] = 0
      BY Two
    <3> QED BY <3>1
  <2>2. Loop /\ \E v : A32!Labelled(s, 0, v)
    BY <1>8, SameLoop DEF A32!RelocateThumb1LdrLiteral, A32!Thumb1Inst
  <2> HIDE DEF s
  <2> QED BY <2>1, <2>2, Labelled32
<1>9. CASE A32!RelocateThumb1Adr
  <2>1. Loop /\ \E r, v : A32!Labelled(<<A32!t2_ldr(r, 0)>>, 0, v)
    BY <1>9, SameLoop DEF A32!RelocateThumb1Adr, A32!Thumb1Inst
  <2> QED BY <2>1, Loads32
<1>10. CASE A32!RelocateThumb1BCond
  <2>1. Loop /\ \E v : A32!Labelled(<<A32!BCondBytes(Inst.cond), A32!Nop(TRUE), A32!t2_b(4), A32!t2_ldr(A32!PC, 0)>>, 8, v)
    BY <1>10, SameLoop DEF A32!RelocateThumb1BCond, A32!Thumb1Inst
  <2> QED BY <2>1, Skips32
<1>11. CASE A32!RelocateCbz
  <2> DEFINE cbz == [Inst EXCEPT !.imm = 4]
  <2>1. Loop /\ Inst.len = 2 /\ \E v : A32!Labelled(<<cbz, A32!Nop(TRUE), A32!t2_b(4), A32!t2_ldr(A32!PC, 0)>>, 8, v)
    BY <1>11, SameLoop DEF A32!RelocateCbz, A32!Thumb1Inst
  <2>2. Sized(cbz) /\ cbz.len = 2
    <3>1. Sized(Inst)
      BY <2>1, InLoop DEF IInv
    <3> QED BY <2>1, <3>1 DEF Sized
  <2> HIDE DEF cbz
  <2> QED BY <2>1, <2>2, Skips32
<1>12. CASE A32!RelocateThumb1B
  <2>1. Loop /\ \E r, v : A32!Labelled(<<A32!t2_ldr(r, 0)>>, 0, v)
    BY <1>12, SameLoop DEF A32!RelocateThumb1B, A32!Thumb1Inst
  <2> QED BY <2>1, Loads32
<1>13. CASE A32!RelocateThumb2BCond
  <2>1. PICK address :
          /\ Loop
          /\ A32!Unlabelled(<<A32!BCondBytes(Inst.cond), A32!Nop(TRUE), A32!t2_b(8), A32!t2_ldr(A32!PC, 0),
                              A32!EmitAddress(address)>>, {})
    BY <1>13, SameLoop DEF A32!RelocateThumb2BCond, A32!Thumb2Inst
  <2> QED BY <2>1, Five, Rewritten32
<1>14. CASE A32!RelocateThumb2B
  <2>1. Loop /\ \E address : A32!Unlabelled(<<A32!t2_ldr(A32!PC, 0), A32!EmitAddress(address)>>, {})
    BY <1>14, SameLoop DEF A32!RelocateThumb2B, A32!Thumb2Inst
  <2> QED BY <2>1, Two, Rewritten32
<1>15. CASE A32!RelocateThumb2Call
  <2>1. Loop /\ \E address :
          A32!Unlabelled(<<A32!t2_bl(4), A32!t2_b(8), A32!t2_ldr(A32!PC, 0), A32!EmitAddress(address)>>, {4})
    BY <1>15, SameLoop DEF A32!RelocateThumb2Call
  <2> QED BY <2>1, Four, Rewritten32
<1>16. CASE A32!RelocateThumb2Adr
  <2>1. Loop /\ \E r, address :
          A32!Unlabelled(<<Inst>>, {}) \/ A32!Unlabelled(<<A32!t2_ldr(r, 4), A32!t2_b(0), A32!EmitAddress(address)>>, {})
    BY <1>16, SameLoop DEF A32!RelocateThumb2Adr, A32!Thumb2Inst
  <2>2. CASE A32!Unlabelled(<<Inst>>, {})
    BY <2>1, <2>2, InLoop, One, Rewritten32 DEF IInv
  <2>3. CASE \E r, address : A32!Unlabelled(<<A32!t2_ldr(r, 4), A32!t2_b(0), A32!EmitAddress(address)>>, {})
    BY <2>1, <2>3, Three, Rewritten32
  <2> QED BY <2>1, <2>2, <2>3
<1>17. CASE A32!RelocateThumb2LdrLiteral
  <2>1. Loop /\ \E r, address :
          A32!Unlabelled(<<A32!t2_ldr(r, 8), A32!LdrReg(TRUE, r, r), A32!t2_b(4), A32!EmitAddress(address)>>, {})
    BY <1>17, SameLoop DEF A32!RelocateThumb2LdrLiteral, A32!Thumb2Inst
  <2> QED BY <2>1, Four, Rewritten32
<1>18. CASE A32!RelocateThumbCopy
  <2>1. Loop /\ A32!Unlabelled(<<Inst>>, {})
    BY <1>18, SameLoop DEF A32!RelocateThumbCopy
  <2> QED BY <2>1, InLoop, One, Rewritten32 DEF IInv
<1>19. CASE A32!Finish
  BY <1>19, Finish32
<1> QED BY <1>1, <1>2, <1>3, <1>4, <1>5, <1>6, <1>7, <1>8, <1>9, <1>10, <1>11, <1>12, <1>13, <1>14, <1>15,
           <1>16, <1>17, <1>18, <1>19 DEF A32!Relocate

-----------------------------------------------------------------------------
(* The thread changes nothing that the invariant is about, except that it gets
   to the original. *)
LEMMA Thread ==
  ASSUME IInv, UNCHANGED <<given, buffers, memory>>, stage' = stage \/ (stage = "hooked" /\ stage' = "original")
  PROVE  IInv'
<1>1. /\ fragment' = fragment /\ env' = env /\ cursor' = cursor /\ origin_size' = origin_size /\ out' = out
      /\ size' = size /\ source' = source /\ labels' = labels /\ relocated' = relocated /\ arena' = arena
      /\ expected_relocated_mem_size' = expected_relocated_mem_size
  BY DEF given, buffers, blocks, copied, memory
<1>2. Bytes(fragment)' = Bytes(fragment)
  BY <1>1 DEF Bytes, Extent
<1>3. CursorInv'
  BY <1>1, <1>2 DEF IInv, CursorInv
<1>4. BufferInv'
  BY <1>1, <1>2 DEF IInv, BufferInv, Fits, Sized, Refers
<1>5. BlockInv'
  BY <1>1 DEF IInv, BlockInv
<1> QED BY <1>3, <1>4, <1>5 DEF IInv

LEMMA NextIInv == IInv /\ [Next]_vars => IInv'
<1> SUFFICES ASSUME IInv, [Next]_vars PROVE IInv'
  OBVIOUS
<1>1. CASE GenRelocateCodeAndBranch
  BY <1>1, Relocate64, Relocate32, RelocateX64 DEF GenRelocateCodeAndBranch
<1>2. CASE Step
  <2>1. \E after : Run(after)
    BY <1>2 DEF Step
  <2>2. stage' = stage /\ UNCHANGED <<given, buffers, memory>>
    BY <2>1 DEF Run
  <2> QED BY <2>2, Thread
<1>3. CASE CallOriginal(CallRelocated)
  BY <1>3, Thread DEF CallOriginal
<1>4. CASE UNCHANGED vars
  <2>1. stage' = stage /\ UNCHANGED <<given, buffers, memory>>
    BY <1>4 DEF vars
  <2> QED BY <2>1, Thread
<1> QED BY <1>1, <1>2, <1>3, <1>4 DEF Next

(* The cursor, the buffer and the block keep their invariants through a DobbyHook
   and the call of the hooked function; the theorems below rest on it. *)
THEOREM Invariant == Spec => []IInv
<1>1. Init => IInv
  BY InitIInv
<1>2. IInv /\ [Next]_vars => IInv'
  BY NextIInv
<1> QED BY <1>1, <1>2, PTL DEF Spec

-----------------------------------------------------------------------------
(* The cursor stays in the code, what was emitted in the buffer, labels are
   referred to by what is there: for any code, any offsets in it and any state
   of the thread. *)
THEOREM TypeCorrect == Spec => []TypeOK
<1>1. IInv => TypeOK
  <2> SUFFICES ASSUME IInv PROVE TypeOK
    OBVIOUS
  <2>1. cursor \in 0 .. Bytes(fragment)
    BY Fragments DEF IInv
  <2>2. /\ stage \in {"prepare", "relocate", "hooked", "original"}
        /\ size \in Nat /\ \A o \in DOMAIN out : o + out[o].len <= size
        /\ \A i \in DOMAIN labels : labels[i].refs \subseteq DOMAIN out
        /\ \A o \in DOMAIN source : source[o].at \in 0 .. Bytes(fragment)
    BY DEF IInv, CursorInv, BufferInv, Fits, Refers
  <2> QED BY <2>1, <2>2 DEF TypeOK
<1> QED BY <1>1, Invariant, PTL

(* The copy that DobbyHook makes, with the branch back and the data that it
   refers to, fits the block that was allocated for it. *)
THEOREM CopyFits == Spec => []CopyFitsBlock
<1>1. IInv => CopyFitsBlock
  <2> SUFFICES ASSUME IInv, stage \in {"hooked", "original"} PROVE relocated.addr + Extent(out) <= arena
    BY DEF CopyFitsBlock
  <2>1. /\ relocated.addr \in Nat /\ relocated.size = size /\ relocated.addr + relocated.size <= arena
        /\ arena \in Nat /\ DOMAIN out # {}
    BY DEF IInv, BlockInv
  <2>2. size \in Nat /\ Fits(out, size)
    BY DEF IInv, BufferInv
  <2>3. Extent(out) \in Nat /\ Extent(out) <= size
    BY <2>1, <2>2, ExtentFits
  <2> QED BY <2>1, <2>2, <2>3
<1> QED BY <1>1, Invariant, PTL

(* The loop that relocates is at the start of an instruction or at the end of
   the code: on x64, where the decoder says how long an instruction is, because
   of DecodedLength. *)
THEOREM InstructionsFound == Spec => []AtInstruction
<1>1. IInv => AtInstruction
  BY DEF IInv, CursorInv, AtInstruction
<1> QED BY <1>1, Invariant, PTL

-----------------------------------------------------------------------------
(* A power of two is the number of subsets: *)
LEMMA PowerIsSubsets ==
  ASSUME NEW n \in Nat
  PROVE  IsFiniteSet(SUBSET (1 .. n)) /\ 2^n = Cardinality(SUBSET (1 .. n))
<1>1. IsFiniteSet(1 .. n) /\ Cardinality(1 .. n) = n
  BY FS_Interval
<1> QED BY <1>1, FS_SUBSET

(* those with one more element are those without it, and as many with it. *)
LEMMA PowerDoubles ==
  ASSUME NEW n \in Nat
  PROVE  2^n \in Nat \ {0} /\ 2^(n + 1) = 2 * 2^n
<1> DEFINE A == SUBSET (1 .. n)
           B == {T \cup {n + 1} : T \in A}
           f == [T \in A |-> T \cup {n + 1}]
<1>1. IsFiniteSet(A) /\ 2^n = Cardinality(A) /\ Cardinality(A) \in Nat
  BY PowerIsSubsets, FS_CardinalityType
<1>2. 2^n # 0
  <2>1. A # {}
    OBVIOUS
  <2> QED BY <1>1, <2>1, FS_EmptySet
<1>3. n + 1 \notin 1 .. n
  OBVIOUS
<1>4. f \in Bijection(A, B)
  <2>1. f \in [A -> B] /\ \A y \in B : \E x \in A : f[x] = y
    OBVIOUS
  <2>2. ASSUME NEW x \in A, NEW y \in A, f[x] = f[y] PROVE x = y
    <3>1. x \cup {n + 1} = y \cup {n + 1} /\ n + 1 \notin x /\ n + 1 \notin y
      BY <1>3, <2>2
    <3> QED BY <3>1
  <2> HIDE DEF A, B, f
  <2>3. f \in Injection(A, B)
    BY <2>1, <2>2 DEF Injection, IsInjective
  <2>4. f \in Surjection(A, B)
    BY <2>1 DEF Surjection
  <2> QED BY <2>3, <2>4 DEF Bijection
<1>5. IsFiniteSet(B) /\ Cardinality(B) = Cardinality(A)
  <2> HIDE DEF A, B, f
  <2> QED BY <1>1, <1>4, FS_Bijection DEF ExistsBijection
<1>6. SUBSET (1 .. n + 1) = A \cup B
  <2>1. ASSUME NEW T \in SUBSET (1 .. n + 1) PROVE T \in A \cup B
    <3>1. CASE n + 1 \in T
      <4>1. T \ {n + 1} \in A
        OBVIOUS
      <4>2. T = (T \ {n + 1}) \cup {n + 1}
        BY <3>1
      <4> QED BY <4>1, <4>2
    <3>2. CASE n + 1 \notin T
      BY <3>2
    <3> QED BY <3>1, <3>2
  <2>2. ASSUME NEW T \in A \cup B PROVE T \in SUBSET (1 .. n + 1)
    <3>1. CASE T \in A
      BY <3>1
    <3>2. CASE T \in B
      <4>1. PICK U \in A : T = U \cup {n + 1}
        BY <3>2
      <4>2. n + 1 \in 1 .. n + 1 /\ \A k \in 1 .. n : k \in 1 .. n + 1
        OBVIOUS
      <4> QED BY <4>1, <4>2
    <3> QED BY <2>2, <3>1, <3>2
  <2> HIDE DEF A, B
  <2> QED BY <2>1, <2>2
<1>7. A \cap B = {}
  BY <1>3
<1>8. 2^(n + 1) = Cardinality(A \cup B)
  <2>1. n + 1 \in Nat
    OBVIOUS
  <2> QED BY <1>6, <2>1, PowerIsSubsets
<1> HIDE DEF A, B
<1>9. Cardinality(A \cup B) = Cardinality(A) + Cardinality(B) - Cardinality(A \cap B)
  BY <1>1, <1>5, FS_Union
<1>10. Cardinality(A \cap B) = 0
  BY <1>7, FS_EmptySet
<1> QED BY <1>1, <1>2, <1>5, <1>8, <1>9, <1>10

LEMMA PowerSum ==
  ASSUME NEW a \in Nat, NEW b \in Nat
  PROVE  2^(a + b) = 2^a * 2^b
<1> DEFINE Bad == {k \in Nat : 2^(a + k) # 2^a * 2^k}
<1> SUFFICES ASSUME Bad # {} PROVE FALSE
  OBVIOUS
<1>1. PICK m \in Bad : \A k \in Bad : m <= k
  <2>1. Bad \subseteq Nat
    OBVIOUS
  <2> HIDE DEF Bad
  <2> QED BY <2>1, Least
<1>2. m # 0
  <2>1. a + 0 = a /\ 2^0 = 1 /\ 2^a \in Nat
    BY PowerDoubles
  <2>2. \A x \in Nat : x * 1 = x
    OBVIOUS
  <2>3. 2^(a + 0) = 2^a * 2^0
    BY <2>1, <2>2
  <2>4. 0 \notin Bad
    BY <2>3
  <2> HIDE DEF Bad
  <2> QED BY <1>1, <2>4
<1>3. m - 1 \in Nat /\ (m - 1) + 1 = m /\ (a + (m - 1)) + 1 = a + m /\ a + (m - 1) \in Nat
  BY <1>1, <1>2
<1>4. 2^(a + (m - 1)) = 2^a * 2^(m - 1)
  BY <1>1, <1>3
<1>5. 2^m = 2 * 2^(m - 1) /\ 2^(a + m) = 2 * 2^(a + (m - 1))
  BY <1>3, PowerDoubles
<1>6. 2^a \in Nat /\ 2^(m - 1) \in Nat
  BY <1>3, PowerDoubles
<1>7. \A x, y \in Nat : 2 * (x * y) = x * (2 * y)
  OBVIOUS
<1>8. 2^(a + m) = 2^a * 2^m
  BY <1>4, <1>5, <1>6, <1>7
<1> QED BY <1>1, <1>8

(* A field of w bits is the number it was made from, when that fits. *)
LEMMA FieldOf ==
  ASSUME NEW w \in Nat \ {0}, NEW x \in -(2^(w - 1)) .. 2^(w - 1) - 1
  PROVE  (IF x % 2^w >= 2^(w - 1) THEN (x % 2^w) - 2^w ELSE x % 2^w) = x
<1>1. w - 1 \in Nat /\ (w - 1) + 1 = w
  OBVIOUS
<1>2. 2^(w - 1) \in Nat \ {0} /\ 2^w = 2 * 2^(w - 1)
  BY <1>1, PowerDoubles
<1> DEFINE h == 2^(w - 1)
           p == 2^w
<1>3. h \in Nat \ {0} /\ p = 2 * h /\ x \in -h .. h - 1
  BY <1>2
<1> HIDE DEF h, p
<1>4. (IF x % p >= h THEN (x % p) - p ELSE x % p) = x
  <2>1. CASE x >= 0
    <3>1. x % p = x
      BY <1>3, <2>1
    <3> QED BY <1>3, <3>1
  <2>2. CASE x < 0
    <3>1. (x + p) % p = x % p
      BY <1>3
    <3>2. x + p \in 0 .. p - 1 /\ x + p >= h
      BY <1>3, <2>2
    <3>3. (x + p) % p = x + p
      BY <1>3, <3>2
    <3> QED BY <1>3, <3>1, <3>2, <3>3
  <2> QED BY <1>3, <2>1, <2>2
<1> QED BY <1>4 DEF h, p

(* Addresses nearer than h pages of p bytes have pages that are no more than h
   apart. *)
PageStart(a, p) == a - (a % p)
PagesApart(from, to, p) == (PageStart(to, p) - PageStart(from, p)) \div p
WithinPages(from, to, h, p) ==
  to - from < h * p /\ from - to < h * p /\ PageStart(to, p) - PageStart(from, p) # h * p

LEMMA PagesBetween ==
  ASSUME NEW p \in Nat \ {0}, NEW h \in Nat \ {0}, NEW from \in Nat, NEW to \in Nat, WithinPages(from, to, h, p)
  PROVE  LET d == PagesApart(from, to, p)
         IN d \in -h .. h - 1 /\ PageStart(from, p) + d * p = PageStart(to, p)
<1>0. /\ to - from < h * p /\ from - to < h * p /\ PageStart(to, p) - PageStart(from, p) # h * p
      /\ PageStart(to, p) = to - (to % p) /\ PageStart(from, p) = from - (from % p)
  BY DEF WithinPages, PageStart
<1> DEFINE a == from \div p
           b == to \div p
<1>1. /\ a \in Int /\ b \in Int
      /\ from % p \in 0 .. p - 1 /\ to % p \in 0 .. p - 1
      /\ from - (from % p) = p * a /\ to - (to % p) = p * b
  OBVIOUS
<1> HIDE DEF a, b
<1>2. p * b - p * a = p * (b - a)
  BY <1>1
<1>3. (p * (b - a)) \div p = b - a
  BY <1>1
<1>4. b - a <= h
  <2> SUFFICES ASSUME b - a >= h + 1 PROVE FALSE
    BY <1>1
  <2>1. p * (b - a) >= p * (h + 1)
    BY <1>1
  <2>2. p * (h + 1) = h * p + p
    OBVIOUS
  <2> QED BY <1>0, <1>1, <1>2, <2>1, <2>2
<1>5. b - a >= -h
  <2> SUFFICES ASSUME b - a <= -h - 1 PROVE FALSE
    BY <1>1
  <2>1. p * (b - a) <= p * (-h - 1)
    BY <1>1
  <2>2. p * (-h - 1) = -(h * p) - p
    OBVIOUS
  <2> QED BY <1>0, <1>1, <1>2, <2>1, <2>2
<1>6. b - a # h
  <2> SUFFICES ASSUME b - a = h PROVE FALSE
    OBVIOUS
  <2>1. p * b - p * a = h * p
    BY <1>1, <1>2
  <2> QED BY <1>0, <1>1, <2>1
<1>7. b - a \in -h .. h - 1 /\ p * a + (b - a) * p = p * b
  BY <1>1, <1>4, <1>5, <1>6
<1>8. PagesApart(from, to, p) = b - a
  BY <1>0, <1>1, <1>2, <1>3 DEF PagesApart
<1> QED BY <1>0, <1>1, <1>7, <1>8

-----------------------------------------------------------------------------
(* What is at the offsets of instructions that are placed *)
LEMMA PlacedAt ==
  ASSUME NEW s, Insts(s), NEW at \in Nat, NEW i \in 1 .. Len(s)
  PROVE  Offsets(s, at)[i] \in DOMAIN Placed(s, at) /\ Placed(s, at)[Offsets(s, at)[i]] = s[i]
<1> DEFINE f == Offsets(s, at)
           p == Placed(s, at)
<1>1. Len(s) \in Nat /\ DOMAIN s = 1 .. Len(s)
  BY OffsetsStep
<1>2. p = [o \in {f[k] : k \in DOMAIN s} |-> s[CHOOSE k \in DOMAIN s : f[k] = o]]
  BY DEF Placed
<1>3. ASSUME NEW k \in DOMAIN s, f[k] = f[i] PROVE k = i
  <2>1. k \in 1 .. Len(s) + 1 /\ i \in 1 .. Len(s) + 1
    BY <1>1
  <2>2. f[k] \in Nat /\ f[i] \in Nat
    BY <2>1, OffsetsNat
  <2>3. ~(k < i)
    <3> SUFFICES ASSUME k < i PROVE FALSE
      OBVIOUS
    <3>1. f[k] < f[i]
      BY <2>1, OffsetsGrow
    <3> QED BY <1>3, <2>2, <3>1
  <2>4. ~(i < k)
    <3> SUFFICES ASSUME i < k PROVE FALSE
      OBVIOUS
    <3>1. f[i] < f[k]
      BY <2>1, OffsetsGrow
    <3> QED BY <1>3, <2>2, <3>1
  <2> QED BY <2>1, <2>3, <2>4
<1> HIDE DEF f, p
<1>4. i \in DOMAIN s /\ f[i] \in DOMAIN p
  BY <1>1, <1>2
<1>5. (CHOOSE k \in DOMAIN s : f[k] = f[i]) = i
  BY <1>3, <1>4
<1>6. p[f[i]] = s[i]
  BY <1>2, <1>4, <1>5
<1> QED BY <1>4, <1>6 DEF f, p

(* One, two or three of them at the start of a buffer *)
LEMMA PlacedFirst ==
  ASSUME NEW s, Insts(s), Len(s) >= 1
  PROVE  0 \in DOMAIN Placed(s, 0) /\ Placed(s, 0)[0] = s[1]
<1>1. Offsets(s, 0)[1] = 0 /\ 1 \in 1 .. Len(s)
  BY OffsetsStep
<1> QED BY <1>1, PlacedAt

LEMMA PlacedSecond ==
  ASSUME NEW s, Insts(s), Len(s) >= 2
  PROVE  s[1].len \in DOMAIN Placed(s, 0) /\ Placed(s, 0)[s[1].len] = s[2]
<1>1. Len(s) \in Nat /\ Offsets(s, 0)[1] = 0 /\ 1 \in 1 .. Len(s) /\ 2 \in 1 .. Len(s)
  BY OffsetsStep
<1>2. Offsets(s, 0)[1 + 1] = 0 + s[1].len /\ s[1].len \in Nat
  BY <1>1, OffsetsStep DEF Sized
<1>3. Offsets(s, 0)[2] = s[1].len
  BY <1>2
<1> QED BY <1>1, <1>3, PlacedAt

LEMMA PlacedThird ==
  ASSUME NEW s, Insts(s), Len(s) >= 3
  PROVE  s[1].len + s[2].len \in DOMAIN Placed(s, 0) /\ Placed(s, 0)[s[1].len + s[2].len] = s[3]
<1>1. Len(s) \in Nat /\ Offsets(s, 0)[1] = 0 /\ 1 \in 1 .. Len(s) /\ 2 \in 1 .. Len(s) /\ 3 \in 1 .. Len(s)
  BY OffsetsStep
<1>2. Offsets(s, 0)[1 + 1] = 0 + s[1].len /\ s[1].len \in Nat
  BY <1>1, OffsetsStep DEF Sized
<1>3. Offsets(s, 0)[2 + 1] = Offsets(s, 0)[2] + s[2].len
  BY <1>1, OffsetsStep
<1>4. Offsets(s, 0)[3] = s[1].len + s[2].len
  BY <1>2, <1>3
<1> QED BY <1>1, <1>4, PlacedAt

-----------------------------------------------------------------------------
(* The trampoline that a function gets *)
TrampolineOf(f, e) ==
  CASE f.arch = "arm64" -> A64!GenerateNormalTrampolineBuffer(f.src, e.hook)
    [] f.arch = "arm" -> Placed(IF f.thumb THEN A32!generate_thumb_trampoline(f.src, e.hook + e.tag)
                                           ELSE A32!generate_arm_trampoline(e.hook + e.tag), 0)
    [] f.arch = "x64" -> Placed(<<X64!JmpNearIndirect(f.src + 6 + e.near, f.src)>>, 0)

Stub == Src + 6 + env.near

(* Near memory: what is given away lies below some address, and the address of
   the hook is where the trampoline looks for it. *)
NearInv ==
  fragment.arch = "x64" =>
    /\ \A b \in DOMAIN nearby : b \in Int /\ nearby[b].item.len \in Nat \ {0}
    /\ \E top \in Int : \A b \in DOMAIN nearby : b + nearby[b].item.len <= top
    /\ stage = "prepare" => nearby = << >>
    /\ stage # "prepare" => Stub \in DOMAIN nearby /\ nearby[Stub].item = Datum(env.hook, 8)
    /\ arena >= Arena /\ (relocated.addr # 0 => relocated.addr >= Arena)

(* The registers of the call, except that r holds v *)
Holding(r, v) ==
  /\ DOMAIN regs = DOMAIN env.regs /\ r \in DOMAIN regs /\ regs[r] = v
  /\ \A n \in DOMAIN regs \ {r} : regs[n] = env.regs[n]

(* A thread that has called the function is at an instruction of the trampoline
   with what the ones before have left, or at the hook. *)
OnTheWay ==
  \/ pc = Src /\ regs = env.regs
  \/ fragment.arch = "x64" /\ pc = env.hook /\ regs = env.regs
  \/ /\ fragment.arch = "arm64"
     /\ \/ /\ A64!InAdrpRange(Src, env.hook) /\ pc = Src + 4
           /\ Holding(A64!X17, Address(A64!TruncPage(env.hook)))
        \/ /\ pc = env.hook \/ pc = Src + IF A64!InAdrpRange(Src, env.hook) THEN 8 ELSE 4
           /\ Holding(A64!X17, Address(env.hook))
  \/ /\ fragment.arch = "arm"
     /\ \/ fragment.thumb /\ Src % 4 = 2 /\ pc = Src + 2 /\ regs = env.regs
        \/ pc = env.hook /\ Holding(A32!T, Some(env.tag))

CallInv ==
  /\ stage \in {"prepare", "relocate"} => pc = Src /\ regs = env.regs
  /\ stage \in {"relocate", "hooked"} => tramp = TrampolineOf(fragment, env)
  /\ stage = "hooked" => OnTheWay

HInv == IInv /\ NearInv /\ CallInv

LEMMA InReach ==
  ASSUME CursorInv
  PROVE  HookInReach(fragment, env) /\ Src \in Nat /\ env.hook \in Nat
<1>1. PICK c \in Cases : fragment = c.fragment /\ env = c.env
  BY DEF CursorInv
<1>2. HookInReach(fragment, env) /\ WellFormed(fragment)
  BY <1>1, ReachAssumption, CasesAssumption
<1> QED BY <1>2 DEF HookInReach, WellFormed, Src

-----------------------------------------------------------------------------
(* What the trampolines are made of *)
LEMMA JumpAlone ==
  ASSUME NEW i, Sized(i)
  PROVE  0 \in DOMAIN Placed(<<i>>, 0) /\ Placed(<<i>>, 0)[0] = i
<1>1. Insts(<<i>>) /\ Len(<<i>>) = 1 /\ <<i>>[1] = i
  BY One
<1> QED BY <1>1, PlacedFirst

LEMMA NearTrampoline64 ==
  ASSUME NEW from, NEW to, A64!InAdrpRange(from, to)
  PROVE  LET t == A64!GenerateNormalTrampolineBuffer(from, to)
             pages == (A64!TruncPage(to) - A64!TruncPage(from)) \div 2^PageBits
         IN /\ {0, 4, 8} \subseteq DOMAIN t
            /\ t[0] = A64!Adrp(A64!X17, A64!Field(pages, AdrBits))
            /\ t[4] = A64!AddImm(A64!X17, A64!X17, to % 2^PageBits)
            /\ t[8] = A64!Br(A64!X17)
<1> DEFINE pages == (A64!TruncPage(to) - A64!TruncPage(from)) \div 2^PageBits
           page == A64!Adrp(A64!X17, A64!Field(pages, AdrBits))
           add == A64!AddImm(A64!X17, A64!X17, to % 2^PageBits)
           br == A64!Br(A64!X17)
           t == A64!GenerateNormalTrampolineBuffer(from, to)
<1>1. t = Placed(<<page, add>> \o <<br>>, 0)
  BY Same DEF A64!GenerateNormalTrampolineBuffer, A64!AdrpAdd
<1>2. Sized(page) /\ Sized(add) /\ Sized(br) /\ page.len = 4 /\ add.len = 4 /\ br.len = 4
  BY DEF A64!Adrp, A64!AddImm, A64!Br, Sized
<1> HIDE DEF pages, page, add, br, t
<1> DEFINE code == <<page, add, br>>
<1>3. t = Placed(code, 0)
  <2>1. <<page, add, br>> = <<page, add>> \o <<br>>
    BY Tuples
  <2> QED BY <1>1, <2>1
<1>4. Insts(code) /\ Len(code) = 3 /\ code[1] = page /\ code[2] = add /\ code[3] = br
  BY <1>2, Three
<1> HIDE DEF code
<1>5. /\ 0 \in DOMAIN t /\ t[0] = page
      /\ 4 \in DOMAIN t /\ t[4] = add
      /\ 4 + 4 \in DOMAIN t /\ t[4 + 4] = br
  BY <1>2, <1>3, <1>4, PlacedFirst, PlacedSecond, PlacedThird
<1> QED BY <1>5 DEF t, page, add, br, pages

LEMMA FarTrampoline64 ==
  ASSUME NEW from, NEW to, ~A64!InAdrpRange(from, to)
  PROVE  LET t == A64!GenerateNormalTrampolineBuffer(from, to)
         IN /\ {0, 4, 8} \subseteq DOMAIN t
            /\ t[0] = [A64!Ldr(A64!X17) EXCEPT !.imm19 = 2]
            /\ t[4] = A64!Br(A64!X17)
            /\ t[8] = Datum(to, 8)
<1> DEFINE ldr == A64!Ldr(A64!X17)
           br == A64!Br(A64!X17)
           code == Placed(<<ldr, br>>, 0)
           l == A64!Label(to, 0)
           ls == <<l>>
           t == A64!GenerateNormalTrampolineBuffer(from, to)
           bound(i) == 8 + 8 * (i - 1)
           linked == [o \in DOMAIN code |->
                        IF \E i \in DOMAIN ls : o \in ls[i].refs
                        THEN LET i == CHOOSE j \in DOMAIN ls : o \in ls[j].refs
                             IN A64!encode_imm19_offset(code[o], bound(i) - o)
                        ELSE code[o]]
           data == [i \in DOMAIN ls |-> A64!Datum(ls[i].v, 8)]
<1>1. t = Overlay(linked, Placed(data, 8))
  <2>1. t = A64!RelocBind(A64!Placed(<<ldr, br>>, 0), 8, ls)
    BY DEF A64!GenerateNormalTrampolineBuffer
  <2>2. A64!Placed(<<ldr, br>>, 0) = code
    BY Same
  <2>3. A64!RelocBind(code, 8, ls) = A64!Overlay(linked, A64!Placed(data, 8))
    <3> HIDE DEF code, ls
    <3> QED BY DEF A64!RelocBind
  <2> HIDE DEF t, code, ls, linked, data, ldr, br
  <2>4. A64!Overlay(linked, A64!Placed(data, 8)) = Overlay(linked, Placed(data, 8))
    BY Same
  <2> QED BY <2>1, <2>2, <2>3, <2>4
<1>2. Sized(ldr) /\ Sized(br) /\ ldr.len = 4 /\ br.len = 4
  BY DEF A64!Ldr, A64!LdrLiteral, A64!Br, Sized
<1>3. DOMAIN ls = {1} /\ ls[1].refs = {0} /\ ls[1].v = to
  BY DEF A64!Label
<1>4. data = <<Datum(to, 8)>>
  BY <1>3 DEF A64!Datum, Datum
<1> HIDE DEF ldr, br, l, ls, data
<1>5. Insts(<<ldr, br>>) /\ Len(<<ldr, br>>) = 2 /\ <<ldr, br>>[1] = ldr /\ <<ldr, br>>[2] = br
      /\ Length(<<ldr, br>>) = 8
  BY <1>2, Two
<1>6. 0 \in DOMAIN code /\ code[0] = ldr /\ 4 \in DOMAIN code /\ code[4] = br
  BY <1>2, <1>5, PlacedFirst, PlacedSecond
<1>7. 8 \notin DOMAIN code
  <2>1. Fits(code, 0 + 8)
    BY <1>5, PlacedFits
  <2> HIDE DEF code
  <2>2. \A o \in DOMAIN code : o + code[o].len <= 8 /\ code[o].len \in Nat \ {0} /\ o \in Nat
    BY <2>1 DEF Fits, Sized
  <2> QED BY <2>2
<1> HIDE DEF code
<1>8. linked[0] = A64!encode_imm19_offset(ldr, 8) /\ linked[4] = br /\ DOMAIN linked = DOMAIN code
  <2>1. (CHOOSE j \in DOMAIN ls : 0 \in ls[j].refs) = 1
    BY <1>3
  <2>2. linked[0] = A64!encode_imm19_offset(code[0], bound(1) - 0)
    BY <1>3, <1>6, <2>1
  <2>3. linked[4] = code[4]
    BY <1>3, <1>6
  <2> QED BY <1>6, <2>2, <2>3
<1>9. A64!encode_imm19_offset(ldr, 8) = [ldr EXCEPT !.imm19 = 2]
  <2>1. 8 \div 4 = 2 /\ 2 % 2^19 = 2
    OBVIOUS
  <2> QED BY <2>1 DEF A64!encode_imm19_offset, A64!Field
<1>10. 8 \in DOMAIN Placed(data, 8) /\ Placed(data, 8)[8] = Datum(to, 8)
  <2>1. Sized(Datum(to, 8))
    BY DEF Datum, Sized
  <2>2. Insts(data) /\ Len(data) = 1 /\ data[1] = Datum(to, 8)
    BY <1>4, <2>1, One
  <2>3. 1 \in 1 .. Len(data) /\ Offsets(data, 8)[1] = 8
    BY <2>2, OffsetsStep
  <2> QED BY <2>2, <2>3, PlacedAt
<1> HIDE DEF linked
<1>11. /\ 0 \in DOMAIN t /\ t[0] = linked[0] /\ 4 \in DOMAIN t /\ t[4] = linked[4]
       /\ 8 \in DOMAIN t /\ t[8] = Placed(data, 8)[8]
  BY <1>1, <1>6, <1>7, <1>8, <1>10 DEF Overlay
<1> HIDE DEF t
<1>12. {0, 4, 8} \subseteq DOMAIN t
  BY <1>11
<1> QED BY <1>8, <1>9, <1>10, <1>11, <1>12 DEF t, ldr, br

LEMMA ArmTrampoline ==
  ASSUME NEW to
  PROVE  LET t == Placed(A32!generate_arm_trampoline(to), 0)
         IN /\ {0, 4} \subseteq DOMAIN t
            /\ t[0] = A32!ArmLdr(A32!PC, -4) /\ t[4] = Datum(to, 4)
<1> DEFINE ldr == A32!ArmLdr(A32!PC, -4)
           d == A32!EmitAddress(to)
           t == Placed(<<ldr, d>>, 0)
<1>1. Sized(ldr) /\ ldr.len = 4 /\ Sized(d) /\ d = Datum(to, 4)
  BY SizedA32 DEF A32!EmitAddress, A32!Datum, Datum
<1> HIDE DEF ldr, d
<1>2. Insts(<<ldr, d>>) /\ Len(<<ldr, d>>) = 2 /\ <<ldr, d>>[1] = ldr /\ <<ldr, d>>[2] = d
  BY <1>1, Two
<1>3. 0 \in DOMAIN t /\ t[0] = ldr /\ 4 \in DOMAIN t /\ t[4] = d
  BY <1>1, <1>2, PlacedFirst, PlacedSecond
<1> HIDE DEF t
<1>4. {0, 4} \subseteq DOMAIN t
  BY <1>3
<1> QED BY <1>1, <1>3, <1>4 DEF t, ldr, d, A32!generate_arm_trampoline, A32!LiteralLdrBranch

(* In Thumb the load is at a word's start, if need be behind a nop. *)
LEMMA ThumbTrampoline ==
  ASSUME NEW from, NEW to
  PROVE  LET t == Placed(A32!generate_thumb_trampoline(from, to), 0)
             at == IF from % 4 = 0 THEN 0 ELSE 2
         IN /\ {0, at, at + 4} \subseteq DOMAIN t
            /\ at = 2 => t[0] = A32!Nop(TRUE)
            /\ t[at] = A32!t2_ldr(A32!PC, 0) /\ t[at + 4] = Datum(to, 4)
<1> DEFINE nop == A32!Nop(TRUE)
           ldr == A32!t2_ldr(A32!PC, 0)
           d == A32!EmitAddress(to)
           t == Placed(A32!generate_thumb_trampoline(from, to), 0)
<1>1. Sized(ldr) /\ ldr.len = 4 /\ Sized(d) /\ d = Datum(to, 4) /\ Sized(nop) /\ nop.len = 2
  BY SizedA32 DEF A32!EmitAddress, A32!Datum, Datum, A32!Nop, Sized
<1>2. A32!generate_thumb_trampoline(from, to) = IF from % 4 = 0 THEN << >> \o <<ldr, d>> ELSE <<nop>> \o <<ldr, d>>
  BY DEF A32!generate_thumb_trampoline, A32!AlignThumbNop
<1> HIDE DEF nop, ldr, d
<1>3. << >> \o <<ldr, d>> = <<ldr, d>> /\ <<nop>> \o <<ldr, d>> = <<nop, ldr, d>>
  <2> DEFINE S == {nop, ldr, d}
  <2>1. <<ldr, d>> \in Seq(S)
    OBVIOUS
  <2>2. << >> \o <<ldr, d>> = <<ldr, d>>
    BY <2>1
  <2>3. <<nop>> \in Seq(S) /\ <<nop, ldr, d>> \in Seq(S) /\ Len(<<nop, ldr, d>>) = 3
    OBVIOUS
  <2>4. <<nop>> \o <<ldr, d>> \in Seq(S) /\ Len(<<nop>> \o <<ldr, d>>) = 3
        /\ \A i \in 1 .. 3 : (<<nop>> \o <<ldr, d>>)[i] = <<nop, ldr, d>>[i]
    BY <2>1, <2>3, ConcatProperties
  <2> QED BY <2>2, <2>3, <2>4, SeqEqual
<1>4. CASE from % 4 = 0
  <2> DEFINE code == <<ldr, d>>
  <2>1. t = Placed(code, 0)
    BY <1>2, <1>3, <1>4
  <2>2. Insts(code) /\ Len(code) = 2 /\ code[1] = ldr /\ code[2] = d
    BY <1>1, Two
  <2> HIDE DEF t, code
  <2>3. 0 \in DOMAIN t /\ t[0] = ldr /\ 4 \in DOMAIN t /\ t[4] = d
    <3>1. Len(code) >= 1 /\ Len(code) >= 2
      BY <2>2
    <3>2. 0 \in DOMAIN Placed(code, 0) /\ Placed(code, 0)[0] = code[1]
      BY <2>2, <3>1, PlacedFirst
    <3>3. code[1].len \in DOMAIN Placed(code, 0) /\ Placed(code, 0)[code[1].len] = code[2]
      BY <2>2, <3>1, PlacedSecond
    <3> QED BY <1>1, <2>1, <2>2, <3>2, <3>3
  <2>4. 0 + 4 = 4
    OBVIOUS
  <2>5. {0, 0, 0 + 4} \subseteq DOMAIN t /\ t[0 + 4] = Datum(to, 4)
    BY <1>1, <2>3, <2>4
  <2>6. (IF from % 4 = 0 THEN 0 ELSE 2) = 0 /\ 0 # 2
    BY <1>4
  <2> QED BY <2>3, <2>5, <2>6 DEF t, ldr
<1>5. CASE from % 4 # 0
  <2> DEFINE code == <<nop, ldr, d>>
  <2>1. t = Placed(code, 0)
    BY <1>2, <1>3, <1>5
  <2>2. Insts(code) /\ Len(code) = 3 /\ code[1] = nop /\ code[2] = ldr /\ code[3] = d
    BY <1>1, Three
  <2> HIDE DEF t, code
  <2>3. /\ 0 \in DOMAIN t /\ t[0] = nop
        /\ 2 \in DOMAIN t /\ t[2] = ldr
        /\ 2 + 4 \in DOMAIN t /\ t[2 + 4] = d
    BY <1>1, <2>1, <2>2, PlacedFirst, PlacedSecond, PlacedThird
  <2>4. {0, 2, 2 + 4} \subseteq DOMAIN t /\ t[2 + 4] = Datum(to, 4)
    BY <1>1, <2>3
  <2>5. (IF from % 4 = 0 THEN 0 ELSE 2) = 2
    BY <1>5
  <2> QED BY <2>3, <2>4, <2>5 DEF t, ldr, nop
<1> QED BY <1>4, <1>5

-----------------------------------------------------------------------------
(* The code that the thread finds: the trampoline at the start of the function *)
LEMMA CodeTramp ==
  ASSUME stage = "hooked", Src \in Int, NEW o \in DOMAIN tramp, o \in Int
  PROVE  Src + o \in DOMAIN Code /\ Code[Src + o] = tramp[o]
<1>1. (Src + o) - Src = o
  OBVIOUS
<1> QED BY <1>1 DEF Code

(* and near memory where none of the function nor of the copy is. *)
LEMMA CodeNear ==
  ASSUME stage = "hooked", NEW a \in DOMAIN nearby,
         a - Src \notin DOMAIN tramp, a - Src \notin DOMAIN fragment.code, a - relocated.addr \notin DOMAIN out
  PROVE  a \in DOMAIN Code /\ Code[a] = nearby[a].item
  BY DEF Code

(* Data is read as the address that it is. *)
LEMMA ReadDatum ==
  ASSUME NEW a \in DOMAIN Code, NEW v, NEW n, Code[a] = Datum(v, n), NEW w
  PROVE  /\ A64!Memory(Data, a, w) = Address(v)
         /\ A32!Memory(Data, a, w) = Address(v)
         /\ X64!Memory(Data, a, w) = Address(v)
<1> DEFINE bytes == Code
<1>1. Data = [x \in {d \in DOMAIN bytes : IsData(bytes[d])} |-> bytes[x].v]
  BY DEF Data
<1>2. IsData(bytes[a]) /\ bytes[a].v = v
  BY DEF IsData, Datum
<1>3. a \in DOMAIN Data /\ Data[a] = v
  <2> HIDE DEF bytes
  <2>1. a \in DOMAIN bytes
    BY DEF bytes
  <2> QED BY <1>1, <1>2, <2>1
<1> QED BY <1>3 DEF A64!Memory, A32!Memory, X64!Memory, A64!Address, A32!Address, X64!Address, Address

-----------------------------------------------------------------------------
(* What is first given away of near memory is where it starts, *)
LEMMA NearFirst ==
  ASSUME nearby = << >>, NEW len, NEW pos \in Int, env.near \in Int
  PROVE  X64!Near(len, pos) = pos + env.near
<1> DEFINE start == pos + env.near
<1>1. DOMAIN nearby = {} /\ start >= start
  OBVIOUS
<1>2. X64!Near(len, pos) = CHOOSE a \in {start} : \A c \in {start} : a <= c
  BY <1>1 DEF X64!Near, X64!Min
<1> QED BY <1>2

(* and what is given away later is free. *)
LEMMA NearFree ==
  ASSUME NEW len \in Nat, NEW pos \in Int, env.near \in Int,
         \A b \in DOMAIN nearby : b \in Int /\ nearby[b].item.len \in Nat \ {0},
         NEW top \in Int, \A b \in DOMAIN nearby : b + nearby[b].item.len <= top
  PROVE  LET a == X64!Near(len, pos)
         IN /\ a \in Int /\ a >= pos + env.near
            /\ \A b \in DOMAIN nearby : b + nearby[b].item.len <= a \/ a + len <= b
<1> DEFINE start == pos + env.near
           behind == {b + nearby[b].item.len : b \in DOMAIN nearby}
           Free(a) == \A b \in DOMAIN nearby : b + nearby[b].item.len <= a \/ a + len <= b
           candidates == {a \in {start} \cup behind : a >= start /\ Free(a)}
           near == CHOOSE a \in candidates : \A c \in candidates : a <= c
<1>1. X64!Near(len, pos) = near
  BY DEF X64!Near, X64!Min
<1>2. start \in Int /\ behind \subseteq Int /\ \A e \in behind : e <= top
  OBVIOUS
<1>3. candidates # {}
  <2>1. CASE \A e \in behind : e <= start
    <3>1. Free(start)
      BY <2>1
    <3>2. start >= start
      BY <1>2
    <3> HIDE DEF Free, behind, start
    <3>3. start \in candidates
      BY <3>1, <3>2
    <3> QED BY <3>3
  <2>2. CASE ~\A e \in behind : e <= start
    <3> DEFINE left == {top - e : e \in {x \in behind : x > start}}
    <3>1. left \subseteq Nat /\ left # {}
      <4> HIDE DEF behind
      <4> QED BY <1>2, <2>2
    <3>2. PICK m \in left : \A k \in left : m <= k
      <4> HIDE DEF left
      <4> QED BY <3>1, Least
    <3>3. PICK e \in behind : e > start /\ m = top - e
      BY <3>2
    <3>4. \A x \in behind : x <= e
      <4> SUFFICES ASSUME NEW x \in behind PROVE x <= e
        OBVIOUS
      <4> HIDE DEF behind
      <4>1. CASE x > start
        <5>1. top - x \in left
          BY <4>1
        <5>2. top - e <= top - x
          BY <3>2, <3>3, <5>1
        <5> HIDE DEF left
        <5> QED BY <1>2, <3>3, <5>2
      <4>2. CASE ~(x > start)
        <5> HIDE DEF left, start
        <5> QED BY <1>2, <3>3, <4>2
      <4> QED BY <4>1, <4>2
    <3>5. Free(e)
      BY <3>4
    <3>6. e \in candidates
      <4> HIDE DEF behind, start, Free
      <4> QED BY <1>2, <3>3, <3>5
    <3> QED BY <3>6
  <2> QED BY <2>1, <2>2
<1>4. \E a \in candidates : \A c \in candidates : a <= c
  <2> DEFINE above == {a - start : a \in candidates}
  <2>0. \A a \in candidates : a \in Int /\ a >= start
    BY <1>2
  <2> HIDE DEF candidates
  <2>1. above \subseteq Nat /\ above # {}
    <3> HIDE DEF start
    <3> QED BY <1>2, <1>3, <2>0
  <2>2. PICK m \in above : \A k \in above : m <= k
    <3> HIDE DEF above
    <3> QED BY <2>1, Least
  <2>3. PICK a \in candidates : m = a - start
    BY <2>2
  <2>4. ASSUME NEW c \in candidates PROVE a <= c
    <3>1. c - start \in above
      OBVIOUS
    <3>2. a - start <= c - start
      BY <2>2, <2>3, <3>1
    <3> HIDE DEF above, start
    <3> QED BY <1>2, <2>0, <3>2
  <2> QED BY <2>4
<1>5. near \in candidates
  <2> HIDE DEF candidates
  <2> QED BY <1>4
<1>6. near \in Int /\ near >= start /\ Free(near)
  <2> HIDE DEF near, Free, behind
  <2> QED BY <1>2, <1>5
<1> HIDE DEF near
<1> QED BY <1>1, <1>6

-----------------------------------------------------------------------------
(* Nobody has called the function while its instructions are relocated. *)
Relocating ==
  /\ stage = "relocate" /\ stage' \in {"relocate", "hooked"}
  /\ fragment' = fragment /\ env' = env /\ tramp' = tramp /\ pc' = pc /\ regs' = regs

LEMMA CallKept == CallInv /\ Relocating => CallInv'
<1> SUFFICES ASSUME CallInv, Relocating PROVE CallInv'
  OBVIOUS
<1>1. pc = Src /\ regs = env.regs /\ tramp = TrampolineOf(fragment, env)
  BY DEF CallInv, Relocating
<1>2. fragment' = fragment /\ env' = env /\ tramp' = tramp /\ pc' = pc /\ regs' = regs
      /\ stage' \in {"relocate", "hooked"}
  BY DEF Relocating
<1>3. pc' = Src' /\ regs' = env'.regs
  BY <1>1, <1>2 DEF Src
<1>4. tramp' = TrampolineOf(fragment', env')
  BY <1>1, <1>2
<1>5. OnTheWay'
  BY <1>3 DEF OnTheWay
<1> QED BY <1>2, <1>3, <1>4, <1>5 DEF CallInv

LEMMA CallPrepared ==
  ASSUME CallInv, stage = "prepare", stage' = "relocate", fragment' = fragment, env' = env, pc' = pc, regs' = regs,
         tramp' = TrampolineOf(fragment, env)
  PROVE  CallInv'
<1>1. pc' = Src' /\ regs' = env'.regs
  BY DEF CallInv, Src
<1>2. tramp' = TrampolineOf(fragment', env')
  OBVIOUS
<1> QED BY <1>1, <1>2 DEF CallInv

LEMMA InitHInv == Init => HInv
<1> SUFFICES ASSUME Init PROVE HInv
  OBVIOUS
<1>1. /\ stage = "prepare" /\ nearby = << >> /\ arena = Arena /\ relocated = [addr |-> 0, size |-> 0]
      /\ pc = fragment.src /\ regs = env.regs
  BY DEF Init, Unhooked
<1>2. DOMAIN << >> = {}
  OBVIOUS
<1>3. NearInv
  BY <1>1, <1>2, ArenaAssumption DEF NearInv
<1>4. CallInv
  BY <1>1 DEF CallInv, Src
<1> QED BY <1>3, <1>4, InitIInv DEF HInv

LEMMA Call64 ==
  ASSUME HInv, fragment.arch = "arm64", A64!Relocate
  PROVE  CallInv' /\ fragment' = fragment
<1>1. CASE A64!GenerateTrampoline
  <2>1. TrampolineOf(fragment, env) = A64!GenerateNormalTrampolineBuffer(A64!Src, env.hook)
    BY DEF TrampolineOf, A64!Src
  <2>2. /\ stage = "prepare" /\ stage' = "relocate" /\ fragment' = fragment /\ env' = env /\ pc' = pc /\ regs' = regs
        /\ tramp' = A64!GenerateNormalTrampolineBuffer(A64!Src, env.hook)
    BY <1>1 DEF A64!GenerateTrampoline, A64!Prepare, A64!given, A64!machine
  <2> QED BY <2>1, <2>2, CallPrepared DEF HInv
<1>2. ASSUME A64!ConsumeMapped, A64!Loop PROVE Relocating
  BY <1>2 DEF A64!ConsumeMapped, A64!Consume, A64!Loop, A64!given, A64!machine, Relocating
<1>3. CASE A64!Finish
  <2>1. Relocating
    BY <1>3 DEF A64!Finish, A64!Done, A64!given, A64!machine, Relocating
  <2> QED BY <2>1, CallKept DEF HInv, Relocating
<1>4. CASE ~A64!GenerateTrampoline /\ ~A64!Finish
  <2>1. A64!ConsumeMapped /\ A64!Loop
    BY <1>4 DEF A64!Relocate, A64!RelocateBranch, A64!RelocateLdrLiteral, A64!RelocateAdr, A64!RelocateAdrp,
                A64!RelocateBCond, A64!RelocateCompareB, A64!RelocateTestB, A64!RelocateCopy, A64!LoadAndBranch
  <2> QED BY <1>2, <2>1, CallKept DEF HInv, Relocating
<1> QED BY <1>1, <1>3, <1>4

LEMMA Call32 ==
  ASSUME HInv, fragment.arch = "arm", A32!Relocate
  PROVE  CallInv' /\ fragment' = fragment
<1>1. CASE A32!GenerateTrampoline
  <2> DEFINE t == Placed(IF A32!Thumb THEN A32!generate_thumb_trampoline(A32!Src, env.hook + env.tag)
                         ELSE A32!generate_arm_trampoline(env.hook + env.tag), 0)
  <2>1. TrampolineOf(fragment, env) = t
    BY DEF TrampolineOf, A32!Src, A32!Thumb
  <2>2. /\ stage = "prepare" /\ stage' = "relocate" /\ fragment' = fragment /\ env' = env /\ pc' = pc /\ regs' = regs
        /\ tramp' = t
    BY <1>1, Same DEF A32!GenerateTrampoline, A32!Prepare, A32!given, A32!machine
  <2> HIDE DEF t
  <2> QED BY <2>1, <2>2, CallPrepared DEF HInv
<1>2. CASE A32!Finish
  <2>1. Relocating
    BY <1>2 DEF A32!Finish, A32!Done, A32!given, A32!machine, Relocating
  <2> QED BY <2>1, CallKept DEF HInv, Relocating
<1>3. CASE ~A32!GenerateTrampoline /\ ~A32!Finish
  <2>1. A32!Loop /\ \E n : A32!Consume(n)
    BY <1>3 DEF A32!Relocate, A32!RelocateLdrLiteral, A32!RelocateAdr, A32!RelocateBranch, A32!RelocateCopy,
                A32!RelocateMovPc, A32!RelocateBxPc, A32!RelocateThumb1LdrLiteral, A32!RelocateThumb1Adr,
                A32!RelocateThumb1BCond, A32!RelocateCbz, A32!RelocateThumb1B, A32!RelocateThumb2BCond,
                A32!RelocateThumb2B, A32!RelocateThumb2Call, A32!RelocateThumb2Adr, A32!RelocateThumb2LdrLiteral,
                A32!RelocateThumbCopy, A32!ArmInst, A32!Thumb1Inst, A32!Thumb2Inst,
                A32!Labelled, A32!Unlabelled, A32!Rewrite
  <2>2. Relocating
    BY <2>1 DEF A32!Consume, A32!Loop, A32!given, A32!machine, Relocating
  <2> QED BY <2>2, CallKept DEF HInv, Relocating
<1> QED BY <1>1, <1>2, <1>3

LEMMA CallX64 ==
  ASSUME HInv, fragment.arch = "x64", X64!Relocate
  PROVE  CallInv'
<1>1. CASE X64!GenerateTrampoline
  <2> DEFINE stub == X64!Near(8, X64!Src + 6)
             t == Placed(<<X64!JmpNearIndirect(stub, X64!Src)>>, 0)
  <2>1. stage = "prepare" /\ nearby = << >>
    BY <1>1 DEF X64!GenerateTrampoline, X64!Prepare, HInv, NearInv
  <2>2. stub = Src + 6 + env.near
    <3>1. HookInReach(fragment, env) /\ Src \in Nat
      BY InReach DEF HInv, IInv
    <3>2. env.near \in Int
      BY <3>1 DEF HookInReach
    <3>3. stub = (Src + 6) + env.near
      BY <2>1, <3>1, <3>2, NearFirst, SameLoop
    <3> QED BY <3>1, <3>2, <3>3
  <2>3. TrampolineOf(fragment, env) = t
    BY <2>2, SameLoop DEF TrampolineOf, Src
  <2>4. /\ stage' = "relocate" /\ fragment' = fragment /\ env' = env /\ pc' = pc /\ regs' = regs /\ tramp' = t
    BY <1>1, Same DEF X64!GenerateTrampoline, X64!Prepare, X64!given, X64!machine
  <2> HIDE DEF t
  <2> QED BY <2>1, <2>3, <2>4, CallPrepared DEF HInv
<1>2. CASE X64!AllocateRelocated \/ X64!TryAgain \/ X64!Finish
  <2>1. Relocating
    BY <1>2 DEF X64!AllocateRelocated, X64!TryAgain, X64!Finish, X64!Done, X64!given, X64!machine, Relocating
  <2> QED BY <2>1, CallKept DEF HInv
<1>3. CASE ~X64!GenerateTrampoline /\ ~(X64!AllocateRelocated \/ X64!TryAgain \/ X64!Finish)
  <2>1. X64!Looking /\ X64!ConsumeDecoded
    BY <1>3 DEF X64!Relocate, X64!RelocateJcc, X64!RelocateRip, X64!RelocateJmp8, X64!RelocateCallOrJmp32,
                X64!RelocateLoop, X64!RelocateCopy
  <2>2. Relocating
    BY <2>1 DEF X64!ConsumeDecoded, X64!Consume, X64!Looking, X64!Loop, X64!given, X64!machine, Relocating
  <2> QED BY <2>2, CallKept DEF HInv
<1> QED BY <1>1, <1>2, <1>3

-----------------------------------------------------------------------------
(* What has been given away of near memory stays there. *)
LEMMA NearKept ==
  ASSUME NearInv, fragment' = fragment, env' = env, nearby' = nearby, stage # "prepare", stage' # "prepare",
         fragment.arch = "x64" => arena' >= Arena /\ (relocated'.addr # 0 => relocated'.addr >= Arena)
  PROVE  NearInv'
<1>1. Stub' = Stub
  BY DEF Stub, Src
<1> QED BY <1>1 DEF NearInv

LEMMA PlacedSomewhere ==
  ASSUME NEW s, Insts(s), NEW at, NEW o \in DOMAIN Placed(s, at)
  PROVE  \E i \in 1 .. Len(s) : Offsets(s, at)[i] = o /\ Placed(s, at)[o] = s[i]
<1> DEFINE f == Offsets(s, at)
           p == Placed(s, at)
           c == CHOOSE i \in DOMAIN s : f[i] = o
<1>1. p = [q \in {f[k] : k \in DOMAIN s} |-> s[CHOOSE k \in DOMAIN s : f[k] = q]]
  BY DEF Placed
<1>2. o \in {f[k] : k \in DOMAIN s}
  BY <1>1
<1> HIDE DEF f
<1>3. c \in DOMAIN s /\ f[c] = o
  BY <1>2
<1>4. p[o] = s[c]
  BY <1>1, <1>2
<1> HIDE DEF c, p
<1>5. DOMAIN s = 1 .. Len(s)
  BY OffsetsStep
<1> QED BY <1>3, <1>4, <1>5 DEF f, p

(* An instruction and a jump behind it, wherever they are placed *)
LEMMA PlacedNear ==
  ASSUME NEW x, Sized(x), NEW target, NEW at \in Int
  PROVE  LET p == Placed(<<x>> \o X64!codegen_x64_jmp_absolute_addr(target), at)
         IN \A a \in DOMAIN p : /\ a \in Int /\ at <= a /\ p[a].len \in Nat \ {0}
                               /\ a + p[a].len <= at + (x.len + 14)
<1> DEFINE j == X64!JmpIndirect(0)
           d == X64!Datum(target, 8)
           s == <<x, j, d>>
           p == Placed(s, at)
           f == Offsets(s, at)
<1>1. Sized(j) /\ j.len = 6 /\ Sized(d) /\ d.len = 8
  BY SizedX64
<1>2. <<x>> \o X64!codegen_x64_jmp_absolute_addr(target) = s
  <2> DEFINE S == {x, j, d}
  <2>1. X64!codegen_x64_jmp_absolute_addr(target) = <<j, d>>
    BY DEF X64!codegen_x64_jmp_absolute_addr
  <2> HIDE DEF j, d
  <2>2. <<x>> \in Seq(S) /\ <<j, d>> \in Seq(S) /\ s \in Seq(S) /\ Len(s) = 3
    OBVIOUS
  <2>3. <<x>> \o <<j, d>> \in Seq(S) /\ Len(<<x>> \o <<j, d>>) = 3
        /\ \A i \in 1 .. 3 : (<<x>> \o <<j, d>>)[i] = s[i]
    BY <2>2, ConcatProperties
  <2>4. <<x>> \o <<j, d>> = s
    BY <2>2, <2>3, SeqEqual
  <2> QED BY <2>1, <2>4
<1> HIDE DEF j, d
<1>3. Insts(s) /\ Len(s) = 3 /\ s[1] = x /\ s[2] = j /\ s[3] = d
  BY <1>1, Three
<1> HIDE DEF s
<1>4. x.len \in Nat \ {0}
  BY DEF Sized
<1>5. f[1] = at /\ f[2] = at + x.len /\ f[3] = at + x.len + 6
  <2>1. f[1] = at /\ \A i \in 1 .. Len(s) : f[i + 1] = f[i] + s[i].len
    <3> HIDE DEF p
    <3>1. Insts(s)
      BY <1>3
    <3> QED BY <3>1, OffsetsStep
  <2> HIDE DEF f
  <2>2. f[1 + 1] = f[1] + x.len /\ f[2 + 1] = f[2] + j.len
    BY <1>3, <2>1
  <2> QED BY <1>1, <1>4, <2>1, <2>2
<1>6. ASSUME NEW a \in DOMAIN p
      PROVE  a \in Int /\ at <= a /\ p[a].len \in Nat \ {0} /\ a + p[a].len <= at + (x.len + 14)
  <2>1. PICK i \in 1 .. 3 : f[i] = a /\ p[a] = s[i]
    BY <1>3, PlacedSomewhere
  <2> HIDE DEF f, p
  <2>2. CASE i = 1
    BY <1>3, <1>4, <1>5, <2>1, <2>2
  <2>3. CASE i = 2
    BY <1>1, <1>3, <1>4, <1>5, <2>1, <2>3
  <2>4. CASE i = 3
    BY <1>1, <1>3, <1>4, <1>5, <2>1, <2>4
  <2> QED BY <2>2, <2>3, <2>4
<1> QED BY <1>2, <1>6

LEMMA NearGiven ==
  ASSUME IInv, NearInv, fragment.arch = "x64", X64!RelocateRip
  PROVE  NearInv'
<1>1. Loop /\ X64!Inst = Inst /\ X64!Src = Src
  BY SameLoop DEF X64!RelocateRip, X64!Looking
<1>2. X64!Decoded.length = Inst.len /\ Inst.len \in Nat \ {0} /\ Inst.disp \in Int /\ Sized(Inst)
  <2>1. X64!Described(Inst) /\ Sized(Inst)
    BY <1>1, InLoop DEF IInv
  <2>2. X64!Decoded.length = Inst.len
    BY <1>1, <2>1, DecodedLength DEF X64!Decoded
  <2> QED BY <2>1, <2>2 DEF Sized, X64!Described
<1>3. /\ fragment' = fragment /\ env' = env /\ stage = "relocate" /\ stage' = stage
      /\ arena' = arena /\ relocated' = relocated
  BY DEF X64!RelocateRip, X64!ConsumeDecoded, X64!Consume, X64!given, X64!memory, X64!blocks, X64!Looking, X64!Loop
<1> DEFINE ref == X64!orig_insn_ref_addr(Inst.disp)
           at == X64!Near(Inst.len + 14, ref)
           moved == [Inst EXCEPT !.disp = X64!Wrap(ref - (at + X64!Decoded.length))]
           seq == Placed(<<moved>> \o X64!codegen_x64_jmp_absolute_addr(X64!curr_relo_ip + 14), at)
           new == [a \in DOMAIN seq |-> [at |-> cursor, item |-> seq[a]]]
<1>4. nearby' = Overlay(new, nearby)
  <2> DEFINE insts == <<moved>> \o X64!codegen_x64_jmp_absolute_addr(X64!curr_relo_ip + 14)
             placed == X64!Placed(insts, at)
  <2>1. nearby' = X64!Overlay([a \in DOMAIN placed |-> [at |-> cursor, item |-> placed[a]]], nearby)
    BY <1>1 DEF X64!RelocateRip
  <2> HIDE DEF insts, at
  <2>2. placed = Placed(insts, at)
    BY Same
  <2> HIDE DEF placed
  <2>3. nearby' = Overlay([a \in DOMAIN placed |-> [at |-> cursor, item |-> placed[a]]], nearby)
    BY <2>1, Same
  <2> QED BY <2>2, <2>3 DEF insts
<1>5. HookInReach(fragment, env) /\ Src \in Nat /\ env.near \in Int /\ cursor \in Nat
  <2>1. HookInReach(fragment, env) /\ Src \in Nat
    BY InReach DEF IInv
  <2>2. env.near \in Int
    BY <2>1 DEF HookInReach
  <2>3. cursor \in Nat
    BY Fragments DEF IInv
  <2> QED BY <2>1, <2>2, <2>3
<1>6. ref \in Int
  BY <1>1, <1>2, <1>5 DEF X64!orig_insn_ref_addr
<1> HIDE DEF ref
<1>7. PICK top \in Int : \A b \in DOMAIN nearby : b + nearby[b].item.len <= top
  BY DEF NearInv
<1>8. /\ at \in Int
      /\ \A b \in DOMAIN nearby : b + nearby[b].item.len <= at \/ at + (Inst.len + 14) <= b
  <2>1. Inst.len + 14 \in Nat
    BY <1>2
  <2> QED BY <1>5, <1>6, <1>7, <2>1, NearFree DEF NearInv
<1> HIDE DEF at
<1>9. Sized(moved) /\ moved.len = Inst.len
  BY <1>2 DEF Sized
<1> HIDE DEF moved
<1>10. \A a \in DOMAIN seq : /\ a \in Int /\ at <= a /\ seq[a].len \in Nat \ {0}
                             /\ a + seq[a].len <= at + (Inst.len + 14)
  BY <1>8, <1>9, PlacedNear
<1> HIDE DEF seq
<1>11. /\ DOMAIN nearby' = DOMAIN seq \cup DOMAIN nearby
       /\ \A a \in DOMAIN seq : nearby'[a].item = seq[a]
       /\ \A a \in DOMAIN nearby \ DOMAIN seq : nearby'[a] = nearby[a]
  BY <1>4 DEF Overlay
<1>12. \A b \in DOMAIN nearby' : b \in Int /\ nearby'[b].item.len \in Nat \ {0}
  BY <1>10, <1>11 DEF NearInv
<1>13. \E t \in Int : \A b \in DOMAIN nearby' : b + nearby'[b].item.len <= t
  <2> DEFINE end == at + (Inst.len + 14)
             t == IF top <= end THEN end ELSE top
  <2>1. t \in Int /\ end <= t /\ top <= t /\ end \in Int
    BY <1>2, <1>8
  <2>2. \A a \in DOMAIN seq : a + seq[a].len <= end /\ a \in Int /\ seq[a].len \in Nat
    BY <1>10
  <2>3. \A b \in DOMAIN nearby : b + nearby[b].item.len <= top /\ b \in Int /\ nearby[b].item.len \in Nat
    BY <1>7 DEF NearInv
  <2> HIDE DEF end, t
  <2>4. ASSUME NEW b \in DOMAIN nearby' PROVE b + nearby'[b].item.len <= t
    <3>1. CASE b \in DOMAIN seq
      BY <1>11, <2>1, <2>2, <3>1
    <3>2. CASE b \notin DOMAIN seq
      BY <1>11, <2>1, <2>3, <2>4, <3>2
    <3> QED BY <3>1, <3>2
  <2> QED BY <2>1, <2>4
<1>14. Stub \in DOMAIN nearby /\ nearby[Stub].item = Datum(env.hook, 8) /\ Stub' = Stub
  BY <1>3 DEF NearInv, Stub, Src
<1>15. Stub \notin DOMAIN seq
  <2>1. Stub \in Int /\ nearby[Stub].item.len = 8
    BY <1>14 DEF NearInv, Datum
  <2>2. Stub + 8 <= at \/ at + (Inst.len + 14) <= Stub
    BY <1>8, <1>14, <2>1
  <2> QED BY <1>2, <1>8, <1>10, <2>1, <2>2
<1>16. Stub' \in DOMAIN nearby' /\ nearby'[Stub'].item = Datum(env'.hook, 8)
  BY <1>3, <1>11, <1>14, <1>15
<1> QED BY <1>3, <1>12, <1>13, <1>16 DEF NearInv

LEMMA NearX64 ==
  ASSUME HInv, fragment.arch = "x64", X64!Relocate
  PROVE  NearInv'
<1> USE DEF HInv
<1>1. arena >= Arena /\ (relocated.addr # 0 => relocated.addr >= Arena)
  BY DEF NearInv
<1>2. CASE X64!GenerateTrampoline
  <2>1. /\ stage = "prepare" /\ stage' = "relocate" /\ fragment' = fragment /\ env' = env
        /\ nearby' = [a \in {X64!Near(8, Src + 6)} |-> [at |-> 0, item |-> Datum(env.hook, 8)]]
        /\ arena' = arena /\ relocated' = relocated
    BY <1>2, SameLoop DEF X64!GenerateTrampoline, X64!Prepare, X64!given, X64!memory, X64!Datum, Datum
  <2>2. env.near \in Int /\ Src \in Nat
    <3>1. HookInReach(fragment, env) /\ Src \in Nat
      BY InReach DEF IInv
    <3> QED BY <3>1 DEF HookInReach
  <2>3. X64!Near(8, Src + 6) = Stub /\ Stub \in Int /\ Stub' = Stub
    <3>1. nearby = << >>
      BY <2>1 DEF NearInv
    <3>2. X64!Near(8, Src + 6) = (Src + 6) + env.near
      BY <2>2, <3>1, NearFirst
    <3> QED BY <2>1, <2>2, <3>2 DEF Stub, Src
  <2>4. DOMAIN nearby' = {Stub} /\ nearby'[Stub].item = Datum(env.hook, 8)
    BY <2>1, <2>3
  <2>5. Datum(env.hook, 8).len = 8 /\ Stub + 8 \in Int
    BY <2>3 DEF Datum
  <2>6. /\ \A b \in DOMAIN nearby' : b \in Int /\ nearby'[b].item.len \in Nat \ {0} /\ b + nearby'[b].item.len <= Stub + 8
        /\ Stub' \in DOMAIN nearby' /\ nearby'[Stub'].item = Datum(env'.hook, 8)
    BY <2>1, <2>3, <2>4, <2>5
  <2> QED BY <1>1, <2>1, <2>5, <2>6 DEF NearInv
<1>3. CASE X64!AllocateRelocated
  <2>1. /\ stage = "relocate" /\ stage' = stage /\ fragment' = fragment /\ env' = env /\ nearby' = nearby
        /\ relocated'.addr = arena /\ arena' = arena + expected_relocated_mem_size
    BY <1>3 DEF X64!AllocateRelocated, X64!given, X64!copied
  <2>2. arena' >= Arena
    BY <1>1, <2>1, ArenaAssumption DEF IInv, BlockInv
  <2> QED BY <1>1, <2>1, <2>2, NearKept
<1>4. CASE X64!Finish
  <2>1. /\ stage = "relocate" /\ stage' = "hooked" /\ fragment' = fragment /\ env' = env /\ nearby' = nearby
        /\ arena' = arena /\ relocated' = [relocated EXCEPT !.size = size']
    BY <1>4 DEF X64!Finish, X64!Done, X64!given, X64!memory
  <2>2. relocated'.addr = relocated.addr
    BY <2>1 DEF IInv, BlockInv
  <2> QED BY <1>1, <2>1, <2>2, NearKept
<1>5. CASE X64!TryAgain
  <2>1. /\ stage = "relocate" /\ stage' = stage /\ fragment' = fragment /\ env' = env /\ nearby' = nearby
        /\ arena' = arena /\ relocated'.addr = 0
    BY <1>5 DEF X64!TryAgain, X64!Done, X64!given
  <2> QED BY <1>1, <2>1, NearKept
<1>6. CASE X64!RelocateRip
  BY <1>6, NearGiven
<1>7. CASE X64!RelocateJcc \/ X64!RelocateJmp8 \/ X64!RelocateCallOrJmp32 \/ X64!RelocateLoop \/ X64!RelocateCopy
  <2>1. nearby' = nearby /\ X64!Looking /\ X64!ConsumeDecoded
    BY <1>7 DEF X64!RelocateJcc, X64!RelocateJmp8, X64!RelocateCallOrJmp32, X64!RelocateLoop, X64!RelocateCopy,
                X64!copied
  <2>2. /\ stage = "relocate" /\ stage' = stage /\ fragment' = fragment /\ env' = env
        /\ arena' = arena /\ relocated' = relocated
    BY <2>1 DEF X64!ConsumeDecoded, X64!Consume, X64!Looking, X64!Loop, X64!given, X64!memory, X64!blocks
  <2> QED BY <1>1, <2>1, <2>2, NearKept
<1> QED BY <1>2, <1>3, <1>4, <1>5, <1>6, <1>7 DEF X64!Relocate

-----------------------------------------------------------------------------
(* A thread on its way to the hook runs the code that it is at. *)
LEMMA Stepped ==
  ASSUME stage = "hooked", Step
  PROVE  /\ pc # env.hook /\ pc \in DOMAIN Code
         /\ pc' = Execute(fragment.arch, Code[pc], pc, regs, env, Data).pc
         /\ regs' = Execute(fragment.arch, Code[pc], pc, regs, env, Data).regs
         /\ fragment' = fragment /\ env' = env /\ stage' = stage /\ tramp' = tramp
<1>1. pc # env.hook /\ pc \in DOMAIN Code
  BY DEF Step, Running
<1>2. Run(Execute(fragment.arch, Code[pc], pc, regs, env, Data))
  BY <1>1 DEF Step
<1> QED BY <1>1, <1>2 DEF Run, given, buffers

(* x86_64: one jump by way of the address in near memory *)
LEMMA JumpExecuted ==
  ASSUME NEW d, NEW at, NEW r, NEW e, NEW data
  PROVE  X64!X86Execute(X64!JmpIndirect(d), at, r, e, data)
         = [pc |-> X64!Memory(data, at + 6 + d, 8).v, regs |-> r]
<1> DEFINE i == X64!JmpIndirect(d)
<1>1. /\ i.len = 6 /\ i.map = 1 /\ i.opcode = 255 /\ i.disp = d
      /\ i.modrm.mod = 0 /\ i.modrm.reg = 4 /\ i.modrm.rm = 5
  <2>1. i.len = 6
    BY SizedX64
  <2> QED BY <2>1 DEF X64!JmpIndirect, X64!X86, X64!Rip
<1> HIDE DEF i
<1>2. X64!RipRelative(i.map, i.opcode, i.modrm)
  BY <1>1 DEF X64!RipRelative, X64!HasModrm
<1>3. X64!X86Execute(i, at, r, e, data) = [pc |-> X64!Memory(data, at + i.len + i.disp, 8).v, regs |-> r]
  BY <1>1, <1>2 DEF X64!X86Execute
<1> QED BY <1>1, <1>3 DEF i

LEMMA WayX64 ==
  ASSUME HInv, fragment.arch = "x64", stage = "hooked", Step
  PROVE  OnTheWay'
<1>1. HookInReach(fragment, env) /\ Src \in Nat /\ WellFormed(fragment) /\ Bytes(fragment) \in Nat
  BY InReach, Fragments DEF HInv, IInv
<1>2. pc = Src /\ regs = env.regs
  BY Stepped DEF HInv, CallInv, OnTheWay
<1>3. env.near \in -2^(DispBits - 1) .. 2^(DispBits - 1) - 1 /\ env.near \in Int
  BY <1>1 DEF HookInReach
<1>4. X64!Wrap(env.near) = env.near
  BY <1>3, BitsAssumption, FieldOf DEF X64!Wrap, X64!Signed, X64!Field
<1>5. tramp = Placed(<<X64!JmpIndirect(env.near)>>, 0)
  <2>1. (Src + 6 + env.near) - (Src + 6) = env.near
    BY <1>1, <1>3
  <2>2. X64!JmpNearIndirect(Src + 6 + env.near, Src) = X64!JmpIndirect(env.near)
    BY <1>4, <2>1 DEF X64!JmpNearIndirect
  <2> QED BY <2>2 DEF HInv, CallInv, TrampolineOf, Src
<1>6. 0 \in DOMAIN tramp /\ tramp[0] = X64!JmpIndirect(env.near) /\ Fits(tramp, 6)
  <2>1. Sized(X64!JmpIndirect(env.near)) /\ X64!JmpIndirect(env.near).len = 6
    BY SizedX64
  <2>2. Insts(<<X64!JmpIndirect(env.near)>>) /\ Length(<<X64!JmpIndirect(env.near)>>) = 6
    BY <2>1, One
  <2>3. Fits(tramp, 0 + 6)
    BY <1>5, <2>2, PlacedFits
  <2> QED BY <1>5, <2>1, <2>3, JumpAlone
<1>7. Src + 0 \in DOMAIN Code /\ Code[Src + 0] = tramp[0] /\ Src + 0 = Src
  BY <1>1, <1>6, CodeTramp
<1>8. /\ Stub \in Int /\ Stub \in DOMAIN nearby /\ nearby[Stub].item = Datum(env.hook, 8)
      /\ Stub + 8 <= Src \/ Src + Bytes(fragment) <= Stub
      /\ Stub + 8 <= Arena /\ relocated.addr >= Arena
  <2>1. relocated.addr >= Arena
    BY DEF HInv, NearInv, IInv, BlockInv
  <2>2. Stub \in Int /\ (Stub + 8 <= Src \/ Src + Bytes(fragment) <= Stub) /\ Stub + 8 <= Arena
    BY <1>1, <1>3 DEF HookInReach, Stub, Src
  <2> QED BY <2>1, <2>2 DEF HInv, NearInv
<1>9. Stub \in DOMAIN Code /\ Code[Stub] = Datum(env.hook, 8)
  <2>1. 6 <= Bytes(fragment)
    BY Fragments DEF HInv, IInv, TrampolineBytes
  <2>2. \A o \in DOMAIN tramp : o \in Nat /\ o < 6
    BY <1>6 DEF Fits, Sized
  <2>3. Stub - Src \notin DOMAIN tramp
    BY <1>1, <1>8, <2>1, <2>2
  <2>4. Stub - Src \notin DOMAIN fragment.code
    BY <1>1, <1>8 DEF WellFormed
  <2>5. Stub - relocated.addr \notin DOMAIN out
    <3>1. \A o \in DOMAIN out : o \in Nat
      BY DEF HInv, IInv, BufferInv, Fits
    <3>2. relocated.addr \in Nat /\ Arena \in Nat
      BY ArenaAssumption DEF HInv, IInv, BlockInv
    <3> QED BY <1>8, <3>1, <3>2
  <2> QED BY <1>8, <2>3, <2>4, <2>5, CodeNear
<1>10. X64!Memory(Data, Stub, 8) = Address(env.hook)
  BY <1>9, ReadDatum
<1>11. Execute(fragment.arch, Code[pc], pc, regs, env, Data) = [pc |-> env.hook, regs |-> regs]
  <2>1. Execute(fragment.arch, Code[pc], pc, regs, env, Data)
        = X64!X86Execute(X64!JmpIndirect(env.near), Src, regs, env, Data)
    BY <1>2, <1>6, <1>7 DEF Execute
  <2>2. X64!Memory(Data, Src + 6 + env.near, 8).v = env.hook
    BY <1>10 DEF Stub, Address
  <2> QED BY <2>1, <2>2, JumpExecuted
<1>12. fragment' = fragment /\ env' = env /\ pc' = env.hook /\ regs' = env.regs
  BY <1>2, <1>11, Stepped
<1> QED BY <1>12 DEF OnTheWay

-----------------------------------------------------------------------------
(* arm64: the page of the hook comes from adrp, unless it is too far away. *)
LEMMA Page64 ==
  ASSUME NEW from \in Nat, NEW to \in Nat, A64!InAdrpRange(from, to),
         A64!TruncPage(to) - A64!TruncPage(from) # 2^(AdrBits - 1) * 2^PageBits
  PROVE  LET pages == (A64!TruncPage(to) - A64!TruncPage(from)) \div 2^PageBits
         IN /\ A64!PageOf(from) + A64!Signed(A64!Field(pages, AdrBits), AdrBits) * 2^PageBits = A64!TruncPage(to)
            /\ A64!TruncPage(to) \in Int /\ A64!TruncPage(to) + (to % 2^PageBits) = to
<1> DEFINE p == 2^PageBits
           h == 2^(AdrBits - 1)
           pages == (A64!TruncPage(to) - A64!TruncPage(from)) \div p
<1>1. p \in Nat \ {0} /\ h \in Nat \ {0}
  BY BitsAssumption, PowerDoubles
<1>2. 2^(AdrBits + PageBits - 1) = h * p
  <2>1. (AdrBits - 1) + PageBits = AdrBits + PageBits - 1 /\ AdrBits - 1 \in Nat /\ PageBits \in Nat
    BY BitsAssumption
  <2>2. 2^((AdrBits - 1) + PageBits) = h * p
    BY <2>1, PowerSum
  <2> QED BY <2>1, <2>2
<1>3. A64!TruncPage(to) = to - (to % p) /\ A64!TruncPage(from) = from - (from % p)
      /\ A64!PageOf(from) = from - (from % p)
  BY DEF A64!TruncPage, A64!PageOf
<1>4. (IF from > to THEN from - to ELSE to - from) < h * p
  BY <1>2 DEF A64!InAdrpRange
<1>5. (to - (to % p)) - (from - (from % p)) # h * p
  BY <1>3
<1> DEFINE d == ((to - (to % p)) - (from - (from % p))) \div p
<1>6. pages = d
  BY <1>3
<1> HIDE DEF p, h
<1>7. h * p \in Nat
  BY <1>1
<1>8. to - from < h * p /\ from - to < h * p
  BY <1>4, <1>7
<1>9. d \in -h .. h - 1 /\ (from - (from % p)) + d * p = to - (to % p)
  <2>1. PagesApart(from, to, p) = d /\ PageStart(from, p) = from - (from % p) /\ PageStart(to, p) = to - (to % p)
    BY DEF PagesApart, PageStart
  <2>2. WithinPages(from, to, h, p)
    BY <1>5, <1>8, <2>1 DEF WithinPages
  <2> HIDE DEF pages, d
  <2>3. LET q == PagesApart(from, to, p)
        IN q \in -h .. h - 1 /\ PageStart(from, p) + q * p = PageStart(to, p)
    BY <1>1, <2>2, PagesBetween
  <2> QED BY <2>1, <2>3
<1> HIDE DEF pages, d
<1>10. A64!Signed(A64!Field(d, AdrBits), AdrBits) = d
  BY <1>9, BitsAssumption, FieldOf DEF A64!Signed, A64!Field, h
<1>11. to % p \in Nat
  BY <1>1
<1>12. (to - (to % p)) + (to % p) = to /\ to - (to % p) \in Int
  BY <1>11
<1> QED BY <1>3, <1>6, <1>9, <1>10, <1>12 DEF pages, p

LEMMA LoadFields64 ==
  ASSUME NEW i, i.opc = 1, i.simd = 0, i.imm19 = 2
  PROVE  i.opc # 3 /\ A64!Target(i) = i.rt /\ A64!LoadedBytes(i) = 8 /\ 4 * A64!Signed(i.imm19, 19) = 8
<1>1. A64!Target(i) = i.rt
  BY DEF A64!Target
<1>2. A64!LoadedBytes(i) = 8
  <2>1. i.opc + 1 = 2
    OBVIOUS
  <2>2. \A x : <<4, 8, x>>[2] = 8
    OBVIOUS
  <2> QED BY <2>1, <2>2 DEF A64!LoadedBytes
<1>3. 4 * A64!Signed(i.imm19, 19) = 8
  <2>1. A64!Signed(2, 19) = 2
    BY DEF A64!Signed
  <2> QED BY <2>1
<1> QED BY <1>1, <1>2, <1>3

LEMMA Load64 ==
  ASSUME NEW n, NEW at, NEW r, NEW e, NEW data
  PROVE  LET i == [A64!Ldr(n) EXCEPT !.imm19 = 2]
         IN A64!Arm64Execute(i, at, r, e, data)
            = [pc |-> at + 4, regs |-> [r EXCEPT ![A64!Target(i)] =
                 A64!Memory(data, at + 4 * A64!Signed(i.imm19, 19), A64!LoadedBytes(i))]]
  BY DEF A64!Arm64Execute, A64!Ldr, A64!LdrLiteral

LEMMA Literal64 ==
  ASSUME NEW n, NEW at, NEW r, NEW e, NEW data
  PROVE  A64!Arm64Execute([A64!Ldr(n) EXCEPT !.imm19 = 2], at, r, e, data)
         = [pc |-> at + 4, regs |-> [r EXCEPT ![n] = A64!Memory(data, at + 8, 8)]]
<1>1. PICK i : i = [A64!Ldr(n) EXCEPT !.imm19 = 2]
  OBVIOUS
<1>3. i.rt = n /\ i.opc = 1 /\ i.simd = 0 /\ i.imm19 = 2
  BY <1>1 DEF A64!Ldr, A64!LdrLiteral
<1>4. i.opc # 3 /\ A64!Target(i) = i.rt /\ A64!LoadedBytes(i) = 8 /\ 4 * A64!Signed(i.imm19, 19) = 8
  BY <1>3, LoadFields64
<1>5. A64!Arm64Execute(i, at, r, e, data)
      = [pc |-> at + 4, regs |-> [r EXCEPT ![A64!Target(i)] =
           A64!Memory(data, at + 4 * A64!Signed(i.imm19, 19), A64!LoadedBytes(i))]]
  BY <1>1, Load64
<1> QED BY <1>1, <1>3, <1>4, <1>5

LEMMA Adrp64 ==
  ASSUME NEW n, NEW imm, NEW at, NEW r, NEW e, NEW data
  PROVE  A64!Arm64Execute(A64!Adrp(n, imm), at, r, e, data)
         = [pc |-> at + 4, regs |-> [r EXCEPT ![n] =
              Address(A64!PageOf(at) + A64!Signed(imm, AdrBits) * 2^PageBits)]]
  BY DEF A64!Arm64Execute, A64!Adrp, A64!Address, Address

LEMMA Add64 ==
  ASSUME NEW n, NEW imm, NEW at, NEW r, NEW e, NEW data
  PROVE  A64!Arm64Execute(A64!AddImm(n, n, imm), at, r, e, data)
         = [pc |-> at + 4, regs |-> [r EXCEPT ![n] = Address(r[n].v + imm)]]
  BY DEF A64!Arm64Execute, A64!AddImm, A64!Address, Address

LEMMA Br64 ==
  ASSUME NEW n, NEW at, NEW r, NEW e, NEW data
  PROVE  A64!Arm64Execute(A64!Br(n), at, r, e, data) = [pc |-> r[n].v, regs |-> r]
  BY DEF A64!Arm64Execute, A64!Br

LEMMA Way64 ==
  ASSUME HInv, fragment.arch = "arm64", stage = "hooked", Step
  PROVE  OnTheWay'
<1> DEFINE t == A64!GenerateNormalTrampolineBuffer(Src, env.hook)
           near == A64!InAdrpRange(Src, env.hook)
           r == A64!X17
<1>1. HookInReach(fragment, env) /\ Src \in Nat /\ env.hook \in Nat /\ Src = fragment.src
  BY InReach DEF HInv, IInv, Src
<1>2. r \in DOMAIN env.regs /\ (near => A64!TruncPage(env.hook) - A64!TruncPage(Src) # 2^(AdrBits - 1) * 2^PageBits)
  BY <1>1 DEF HookInReach
<1>3. tramp = t
  BY DEF HInv, CallInv, TrampolineOf, Src
<1>4. {0, 4, 8} \subseteq DOMAIN tramp
  BY <1>3, NearTrampoline64, FarTrampoline64
<1>5. /\ Src + 0 \in DOMAIN Code /\ Code[Src + 0] = tramp[0] /\ Src + 0 = Src
      /\ Src + 4 \in DOMAIN Code /\ Code[Src + 4] = tramp[4]
      /\ Src + 8 \in DOMAIN Code /\ Code[Src + 8] = tramp[8]
  <2>1. 0 \in DOMAIN tramp /\ 4 \in DOMAIN tramp /\ 8 \in DOMAIN tramp
    BY <1>4
  <2> QED BY <1>1, <2>1, CodeTramp
<1>6. /\ pc # env.hook /\ fragment' = fragment /\ env' = env /\ Src' = Src
      /\ pc' = A64!Arm64Execute(Code[pc], pc, regs, env, Data).pc
      /\ regs' = A64!Arm64Execute(Code[pc], pc, regs, env, Data).regs
  BY Stepped DEF Execute, Src
<1>7. \/ pc = Src /\ regs = env.regs
      \/ near /\ pc = Src + 4 /\ Holding(r, Address(A64!TruncPage(env.hook)))
      \/ pc = (Src + IF near THEN 8 ELSE 4) /\ Holding(r, Address(env.hook))
  BY <1>6 DEF HInv, CallInv, OnTheWay
<1>8. near' <=> near
  BY <1>6
<1> HIDE DEF t
<1>9. CASE near
  <2> DEFINE p == A64!TruncPage(env.hook)
             pages == (p - A64!TruncPage(Src)) \div 2^PageBits
             low == env.hook % 2^PageBits
  <2>1. /\ A64!PageOf(Src) + A64!Signed(A64!Field(pages, AdrBits), AdrBits) * 2^PageBits = p
        /\ p \in Int /\ p + low = env.hook
    BY <1>1, <1>2, <1>9, Page64
  <2>2. /\ tramp[0] = A64!Adrp(r, A64!Field(pages, AdrBits))
        /\ tramp[4] = A64!AddImm(r, r, low) /\ tramp[8] = A64!Br(r)
    BY <1>3, <1>9, NearTrampoline64 DEF t
  <2> HIDE DEF near, pages, low, r
  <2>3. CASE pc = Src /\ regs = env.regs
    <3>0. Code[pc] = A64!Adrp(r, A64!Field(pages, AdrBits))
      BY <1>5, <2>2, <2>3
    <3>1. /\ pc' = Src + 4
          /\ regs' = [regs EXCEPT ![r] = Address(A64!PageOf(Src) + A64!Signed(A64!Field(pages, AdrBits), AdrBits) * 2^PageBits)]
      <4>1. A64!Arm64Execute(Code[pc], Src, regs, env, Data)
            = [pc |-> Src + 4, regs |-> [regs EXCEPT ![r] =
                 Address(A64!PageOf(Src) + A64!Signed(A64!Field(pages, AdrBits), AdrBits) * 2^PageBits)]]
        BY <3>0, Adrp64
      <4> QED BY <1>6, <2>3, <4>1
    <3>2. regs' = [regs EXCEPT ![r] = Address(p)] /\ Address(p) = Address(p')
      BY <1>6, <2>1, <3>1
    <3>3. Holding(r, Address(p))'
      BY <1>2, <1>6, <2>3, <3>2 DEF Holding
    <3> QED BY <1>6, <1>8, <1>9, <3>1, <3>3 DEF OnTheWay, near, r
  <2>4. CASE pc = Src + 4 /\ Holding(r, Address(p))
    <3>1. pc' = (Src + 4) + 4 /\ regs' = [regs EXCEPT ![r] = Address(regs[r].v + low)]
      <4>1. Code[pc] = A64!AddImm(r, r, low)
        BY <1>5, <2>2, <2>4
      <4>2. A64!Arm64Execute(Code[pc], Src + 4, regs, env, Data)
            = [pc |-> (Src + 4) + 4, regs |-> [regs EXCEPT ![r] = Address(regs[r].v + low)]]
        BY <4>1, Add64
      <4>3. pc = Src + 4
        BY <2>4
      <4>4. A64!Arm64Execute(Code[pc], pc, regs, env, Data)
            = [pc |-> (Src + 4) + 4, regs |-> [regs EXCEPT ![r] = Address(regs[r].v + low)]]
        BY <4>2, <4>3
      <4> QED BY <1>6, <4>4
    <3>2. regs[r].v = p
      BY <2>4 DEF Holding, Address
    <3>3. pc' = Src + 8 /\ regs' = [regs EXCEPT ![r] = Address(env.hook)]
      <4>1. (Src + 4) + 4 = Src + 8 /\ regs[r].v + low = env.hook
        BY <1>1, <2>1, <3>2
      <4> QED BY <3>1, <4>1
    <3>4. Holding(r, Address(env.hook))'
      BY <1>6, <2>4, <3>3 DEF Holding
    <3> QED BY <1>6, <1>8, <1>9, <3>3, <3>4 DEF OnTheWay, near, r
  <2>5. CASE pc = Src + 8 /\ Holding(r, Address(env.hook))
    <3>1. pc' = regs[r].v /\ regs' = regs
      <4>1. Code[pc] = A64!Br(r)
        BY <1>5, <2>2, <2>5
      <4> QED BY <1>6, <4>1, Br64
    <3>2. pc' = env.hook
      BY <2>5, <3>1 DEF Holding, Address
    <3>3. Holding(r, Address(env.hook))'
      BY <1>6, <2>5, <3>1 DEF Holding
    <3> QED BY <1>6, <3>2, <3>3 DEF OnTheWay, r
  <2> QED BY <1>1, <1>7, <1>9, <2>3, <2>4, <2>5
<1>10. CASE ~near
  <2>1. tramp[0] = [A64!Ldr(r) EXCEPT !.imm19 = 2] /\ tramp[4] = A64!Br(r) /\ tramp[8] = Datum(env.hook, 8)
    BY <1>3, <1>10, FarTrampoline64 DEF t
  <2> HIDE DEF near
  <2>2. CASE pc = Src /\ regs = env.regs
    <3>1. pc' = Src + 4 /\ regs' = [regs EXCEPT ![r] = A64!Memory(Data, Src + 8, 8)]
      <4>1. Code[pc] = [A64!Ldr(r) EXCEPT !.imm19 = 2]
        BY <1>5, <2>1, <2>2
      <4>2. A64!Arm64Execute(Code[pc], Src, regs, env, Data)
            = [pc |-> Src + 4, regs |-> [regs EXCEPT ![r] = A64!Memory(Data, Src + 8, 8)]]
        BY <4>1, Literal64
      <4> QED BY <1>6, <2>2, <4>2
    <3>2. A64!Memory(Data, Src + 8, 8) = Address(env.hook)
      BY <1>5, <2>1, ReadDatum
    <3>3. Holding(r, Address(env.hook))'
      BY <1>2, <1>6, <2>2, <3>1, <3>2 DEF Holding
    <3> QED BY <1>6, <1>8, <1>10, <3>1, <3>3 DEF OnTheWay, near
  <2>3. CASE pc = Src + 4 /\ Holding(r, Address(env.hook))
    <3>1. pc' = regs[r].v /\ regs' = regs
      <4>1. Code[pc] = A64!Br(r)
        BY <1>5, <2>1, <2>3
      <4> QED BY <1>6, <4>1, Br64
    <3>2. pc' = env.hook
      BY <2>3, <3>1 DEF Holding, Address
    <3>3. Holding(r, Address(env.hook))'
      BY <1>6, <2>3, <3>1 DEF Holding
    <3> QED BY <1>6, <3>2, <3>3 DEF OnTheWay
  <2> QED BY <1>7, <1>10, <2>2, <2>3
<1> QED BY <1>9, <1>10

-----------------------------------------------------------------------------
(* 32-bit ARM: a load of pc, which says in the lowest bit of what is loaded
   which instruction set the hook is in. *)
LEMMA Load32 ==
  ASSUME NEW th \in BOOLEAN, NEW off, NEW at, NEW r, NEW e, NEW data, r[A32!T] = Some(A32!Flag(th))
  PROVE  LET here == at + IF th THEN 4 ELSE 8
         IN A32!Arm32Execute(A32!LdrLiteral(th, 4, A32!AL, 4, A32!PC, off), at, r, e, data)
            = A32!Interwork(A32!Memory(data, (here - (here % 4)) + off, 4).v, r)
<1>1. A32!Some(A32!Flag(th)) = Some(A32!Flag(th))
  BY DEF A32!Some, Some
<1> QED BY <1>1 DEF A32!Arm32Execute, A32!LdrLiteral, A32!ConditionHolds

LEMMA Nop32 ==
  ASSUME NEW at, NEW r, NEW e, NEW data, r[A32!T] = Some(A32!Flag(TRUE))
  PROVE  A32!Arm32Execute(A32!Nop(TRUE), at, r, e, data) = [pc |-> at + 2, regs |-> r]
<1>1. A32!Some(A32!Flag(TRUE)) = Some(A32!Flag(TRUE))
  BY DEF A32!Some, Some
<1> QED BY <1>1 DEF A32!Arm32Execute, A32!Nop, A32!ConditionHolds

(* The address of the hook and its instruction set *)
LEMMA Interworked ==
  ASSUME NEW a \in Nat, a % 2 = 0, NEW tag \in {0, 1}, NEW r
  PROVE  A32!Interwork(a + tag, r) = [pc |-> a, regs |-> [r EXCEPT ![A32!T] = Some(tag)]]
<1>1. (a + tag) % 2 = tag
  <2>1. CASE tag = 0
    BY <2>1
  <2>2. CASE tag = 1
    BY <2>2
  <2> QED BY <2>1, <2>2
<1>2. (a + tag) - ((a + tag) % 2) = a
  BY <1>1
<1>3. A32!Some(tag) = Some(tag)
  BY DEF A32!Some, Some
<1> QED BY <1>1, <1>2, <1>3 DEF A32!Interwork

LEMMA Way32 ==
  ASSUME HInv, fragment.arch = "arm", stage = "hooked", Step
  PROVE  OnTheWay'
<1> DEFINE to == env.hook + env.tag
           thumb == fragment.thumb
<1>1. HookInReach(fragment, env) /\ Src \in Nat /\ env.hook \in Nat /\ Src = fragment.src
  BY InReach DEF HInv, IInv, Src
<1>2. /\ thumb \in BOOLEAN /\ Src % (IF thumb THEN 2 ELSE 4) = 0
      /\ A32!T \in DOMAIN env.regs /\ env.regs[A32!T] = Some(A32!Flag(thumb))
      /\ env.hook % 2 = 0 /\ env.tag \in {0, 1}
  BY <1>1 DEF HookInReach
<1>3. tramp = Placed(IF thumb THEN A32!generate_thumb_trampoline(Src, to) ELSE A32!generate_arm_trampoline(to), 0)
  BY DEF HInv, CallInv, TrampolineOf, Src
<1>4. /\ pc # env.hook /\ fragment' = fragment /\ env' = env /\ Src' = Src
      /\ pc' = A32!Arm32Execute(Code[pc], pc, regs, env, Data).pc
      /\ regs' = A32!Arm32Execute(Code[pc], pc, regs, env, Data).regs
  BY Stepped DEF Execute, Src
<1>5. regs = env.regs /\ (pc = Src \/ (thumb /\ Src % 4 = 2 /\ pc = Src + 2))
  BY <1>4 DEF HInv, CallInv, OnTheWay
<1>6. ASSUME NEW th \in BOOLEAN, th = thumb, NEW off,
             Code[pc] = A32!LdrLiteral(th, 4, A32!AL, 4, A32!PC, off),
             NEW here, here = pc + IF th THEN 4 ELSE 8,
             NEW at \in DOMAIN Code, Code[at] = Datum(to, 4), (here - (here % 4)) + off = at
      PROVE  OnTheWay'
  <2>1. A32!Memory(Data, at, 4).v = to
    <3>1. A32!Memory(Data, at, 4) = Address(to)
      BY <1>6, ReadDatum
    <3> QED BY <3>1 DEF Address
  <2>2. A32!Arm32Execute(Code[pc], pc, regs, env, Data) = A32!Interwork(to, regs)
    <3>1. regs[A32!T] = Some(A32!Flag(th))
      BY <1>2, <1>5, <1>6
    <3> HIDE DEF to
    <3>2. A32!Arm32Execute(Code[pc], pc, regs, env, Data)
          = A32!Interwork(A32!Memory(Data, (here - (here % 4)) + off, 4).v, regs)
      BY <1>6, <3>1, Load32
    <3> QED BY <1>6, <2>1, <3>2
  <2>3. pc' = env.hook /\ regs' = [env.regs EXCEPT ![A32!T] = Some(env.tag)]
    <3>1. A32!Interwork(to, regs) = [pc |-> env.hook, regs |-> [regs EXCEPT ![A32!T] = Some(env.tag)]]
      BY <1>1, <1>2, Interworked
    <3>2. A32!Arm32Execute(Code[pc], pc, regs, env, Data) = [pc |-> env.hook, regs |-> [regs EXCEPT ![A32!T] = Some(env.tag)]]
      BY <2>2, <3>1
    <3> QED BY <1>4, <1>5, <3>2
  <2>4. Holding(A32!T, Some(env.tag))'
    BY <1>2, <1>4, <2>3 DEF Holding
  <2> QED BY <1>4, <2>3, <2>4 DEF OnTheWay
<1> HIDE DEF to
<1>7. CASE ~thumb
  <2>1. 0 \in DOMAIN tramp /\ 4 \in DOMAIN tramp /\ tramp[0] = A32!ArmLdr(A32!PC, -4) /\ tramp[4] = Datum(to, 4)
    BY <1>3, <1>7, ArmTrampoline
  <2>2. Code[Src + 0] = tramp[0] /\ Src + 0 = Src /\ Src + 4 \in DOMAIN Code /\ Code[Src + 4] = tramp[4]
    BY <1>1, <2>1, CodeTramp
  <2> DEFINE off == -4
  <2>3. Code[pc] = A32!LdrLiteral(FALSE, 4, A32!AL, 4, A32!PC, off) /\ Code[Src + 4] = Datum(to, 4)
    BY <1>5, <1>7, <2>1, <2>2 DEF A32!ArmLdr
  <2>4. pc + 8 = pc + (IF FALSE THEN 4 ELSE 8) /\ ((pc + 8) - ((pc + 8) % 4)) + off = Src + 4
    <3>1. pc = Src /\ Src % 4 = 0
      BY <1>2, <1>5, <1>7
    <3> QED BY <1>1, <3>1
  <2>5. FALSE = thumb
    BY <1>2, <1>7
  <2> HIDE DEF off
  <2> QED BY <1>6, <2>2, <2>3, <2>4, <2>5
<1>8. CASE thumb
  <2> DEFINE at == IF Src % 4 = 0 THEN 0 ELSE 2
  <2>0. Src % 4 \in {0, 2} /\ at \in {0, 2}
    <3>1. Src % 2 = 0
      BY <1>2, <1>8
    <3> QED BY <1>1, <3>1
  <2>1. /\ 0 \in DOMAIN tramp /\ at \in DOMAIN tramp /\ at + 4 \in DOMAIN tramp
        /\ at = 2 => tramp[0] = A32!Nop(TRUE)
        /\ tramp[at] = A32!t2_ldr(A32!PC, 0) /\ tramp[at + 4] = Datum(to, 4)
    BY <1>3, <1>8, ThumbTrampoline
  <2>2. /\ Code[Src + 0] = tramp[0] /\ Src + 0 = Src
        /\ Code[Src + at] = tramp[at]
        /\ Src + (at + 4) \in DOMAIN Code /\ Code[Src + (at + 4)] = tramp[at + 4]
    <3>1. 0 \in Int /\ at \in Int /\ at + 4 \in Int /\ Src \in Int
      BY <1>1, <2>0
    <3> HIDE DEF at
    <3>2. Code[Src + 0] = tramp[0] /\ Code[Src + at] = tramp[at]
      BY <2>1, <3>1, CodeTramp
    <3>3. Src + (at + 4) \in DOMAIN Code /\ Code[Src + (at + 4)] = tramp[at + 4]
      BY <2>1, <3>1, CodeTramp
    <3> QED BY <1>1, <3>2, <3>3
  <2>3. CASE pc = Src + at
    <3>1. Code[pc] = A32!LdrLiteral(TRUE, 4, A32!AL, 4, A32!PC, 0) /\ Code[Src + (at + 4)] = Datum(to, 4)
      BY <2>1, <2>2, <2>3 DEF A32!t2_ldr
    <3>2. pc + 4 = pc + (IF TRUE THEN 4 ELSE 8) /\ ((pc + 4) - ((pc + 4) % 4)) + 0 = Src + (at + 4)
      BY <1>1, <2>0, <2>3
    <3> QED BY <1>6, <1>8, <2>2, <3>1, <3>2
  <2>4. CASE pc = Src /\ at = 2
    <3>1. A32!Arm32Execute(Code[pc], pc, regs, env, Data) = [pc |-> pc + 2, regs |-> regs]
      <4>1. Code[pc] = A32!Nop(TRUE)
        BY <2>1, <2>2, <2>4
      <4>2. regs[A32!T] = Some(A32!Flag(TRUE))
        BY <1>2, <1>5, <1>8
      <4> QED BY <4>1, <4>2, Nop32
    <3>2. pc' = Src + 2 /\ regs' = env.regs
      BY <1>4, <1>5, <2>4, <3>1
    <3>3. Src % 4 = 2
      BY <2>0, <2>4
    <3> QED BY <1>4, <1>8, <3>2, <3>3 DEF OnTheWay
  <2>5. pc = Src + at \/ (pc = Src /\ at = 2)
    BY <1>1, <1>5, <2>0
  <2> QED BY <2>3, <2>4, <2>5
<1> QED BY <1>2, <1>7, <1>8

-----------------------------------------------------------------------------
LEMMA NextHInv == HInv /\ [Next]_vars => HInv'
<1> SUFFICES ASSUME HInv, [Next]_vars PROVE HInv'
  OBVIOUS
<1>1. IInv'
  BY NextIInv DEF HInv
<1>2. WellFormed(fragment)
  BY Fragments DEF HInv, IInv
<1>3. CASE GenRelocateCodeAndBranch
  <2>1. CallInv'
    BY <1>3, Call64, Call32, CallX64 DEF GenRelocateCodeAndBranch
  <2>2. NearInv'
    <3>1. CASE fragment.arch = "x64"
      BY <1>3, <3>1, NearX64 DEF GenRelocateCodeAndBranch
    <3>2. CASE fragment.arch # "x64"
      <4>1. fragment' = fragment
        BY <1>2, <1>3, <3>2, Call64, Call32 DEF GenRelocateCodeAndBranch, WellFormed
      <4> QED BY <3>2, <4>1 DEF NearInv
    <3> QED BY <3>1, <3>2
  <2> QED BY <1>1, <2>1, <2>2 DEF HInv
<1>4. CASE Step
  <2>1. stage \in {"hooked", "original"} /\ UNCHANGED <<given, stage, buffers, memory>>
    BY <1>4 DEF Step, Running, Run
  <2>2. NearInv'
    <3>1. /\ fragment' = fragment /\ env' = env /\ nearby' = nearby /\ stage' = stage
          /\ arena' = arena /\ relocated' = relocated
      BY <2>1 DEF given, memory, buffers, copied, blocks
    <3> QED BY <2>1, <3>1, NearKept DEF HInv, NearInv
  <2>3. CallInv'
    <3>1. fragment' = fragment /\ env' = env /\ stage' = stage /\ tramp' = tramp
      BY <2>1 DEF given, buffers
    <3>2. CASE stage = "original"
      BY <3>1, <3>2 DEF CallInv
    <3>3. CASE stage = "hooked"
      <4>1. OnTheWay'
        BY <1>2, <1>4, <3>3, Way64, Way32, WayX64 DEF WellFormed
      <4> QED BY <3>1, <3>3, <4>1 DEF HInv, CallInv
    <3> QED BY <2>1, <3>2, <3>3
  <2> QED BY <1>1, <2>2, <2>3 DEF HInv
<1>5. CASE CallOriginal(CallRelocated)
  <2>1. stage = "hooked" /\ stage' = "original" /\ UNCHANGED <<given, buffers, memory>>
    BY <1>5 DEF CallOriginal
  <2>2. CallInv'
    BY <2>1 DEF CallInv
  <2>3. /\ fragment' = fragment /\ env' = env /\ nearby' = nearby
        /\ arena' = arena /\ relocated' = relocated
    BY <2>1 DEF given, memory, buffers, copied, blocks
  <2>4. NearInv'
    BY <2>1, <2>3, NearKept DEF HInv, NearInv
  <2> QED BY <1>1, <2>2, <2>4 DEF HInv
<1>6. CASE UNCHANGED vars
  <2>1. NearInv'
    BY <1>6 DEF HInv, NearInv, vars, given, memory, buffers, copied, blocks, Stub, Src
  <2>2. CallInv'
    BY <1>6 DEF HInv, CallInv, vars, given, memory, buffers, machine, OnTheWay, Holding, Src
  <2> QED BY <1>1, <2>1, <2>2 DEF HInv
<1> QED BY <1>3, <1>4, <1>5, <1>6 DEF Next

(* A thread that has called a hooked function goes through the trampoline to
   the hook, with the registers of its call: theorem of CallReachesHook. *)
THEOREM HookReached == Spec => []CallReachesHook
<1>1. Init => HInv
  BY InitHInv
<1>2. HInv /\ [Next]_vars => HInv'
  BY NextHInv
<1>3. HInv => CallReachesHook
  <2> SUFFICES ASSUME HInv, stage = "hooked"
               PROVE  /\ pc - Src \in DOMAIN tramp \/ pc = env.hook
                      /\ \A n \in DOMAIN regs \ Scratch :
                           regs[n] = IF fragment.arch = "arm" /\ n = A32!T /\ pc = env.hook
                                     THEN Some(env.tag) ELSE env.regs[n]
    BY DEF CallReachesHook
  <2>1. /\ HookInReach(fragment, env) /\ Src \in Nat /\ env.hook \in Nat /\ Src = fragment.src
        /\ WellFormed(fragment) /\ TrampolineBytes(fragment, env) <= Bytes(fragment) /\ Bytes(fragment) \in Nat
    BY InReach, Fragments DEF HInv, IInv, Src
  <2>2. OnTheWay /\ tramp = TrampolineOf(fragment, env)
    BY DEF HInv, CallInv
  <2>3. \A o \in 0 .. Bytes(fragment) - 1 : env.hook # Src + o
    BY <2>1 DEF HookInReach
  <2>4. CASE fragment.arch = "arm64"
    <3> DEFINE near == A64!InAdrpRange(Src, env.hook)
    <3>1. tramp = A64!GenerateNormalTrampolineBuffer(Src, env.hook)
      BY <2>1, <2>2, <2>4 DEF TrampolineOf
    <3>2. {0, 4, 8} \subseteq DOMAIN tramp
      BY <3>1, NearTrampoline64, FarTrampoline64
    <3>3. Scratch = {A64!X17}
      BY <2>4 DEF Scratch
    <3> HIDE DEF near
    <3>4. pc \in {Src, Src + 4, Src + 8, env.hook}
      BY <2>2, <2>4 DEF OnTheWay
    <3>5. pc - Src \in DOMAIN tramp \/ pc = env.hook
      <4>1. pc = env.hook \/ pc - Src \in {0, 4, 8}
        BY <2>1, <3>4
      <4> QED BY <3>2, <4>1
    <3>6. regs = env.regs \/ \E v : Holding(A64!X17, v)
      BY <2>2, <2>4 DEF OnTheWay
    <3>7. \A n \in DOMAIN regs \ {A64!X17} : regs[n] = env.regs[n]
      BY <3>6 DEF Holding
    <3> QED BY <2>4, <3>3, <3>5, <3>7
  <2>5. CASE fragment.arch = "arm"
    <3> DEFINE to == env.hook + env.tag
    <3>1. tramp = Placed(IF fragment.thumb THEN A32!generate_thumb_trampoline(Src, to)
                                           ELSE A32!generate_arm_trampoline(to), 0)
      BY <2>1, <2>2, <2>5 DEF TrampolineOf
    <3> HIDE DEF to
    <3>2. 8 <= Bytes(fragment)
      BY <2>1, <2>5 DEF TrampolineBytes
    <3>3. env.hook # Src + 0 /\ env.hook # Src + 2
      BY <2>1, <2>3, <3>2
    <3>4. CASE pc = Src /\ regs = env.regs
      <4>1. 0 \in DOMAIN tramp
        BY <3>1, ArmTrampoline, ThumbTrampoline
      <4>2. pc - Src = 0 /\ pc # env.hook
        BY <2>1, <3>3, <3>4
      <4> QED BY <3>4, <4>1, <4>2
    <3>5. CASE fragment.thumb /\ Src % 4 = 2 /\ pc = Src + 2 /\ regs = env.regs
      <4>1. (IF Src % 4 = 0 THEN 0 ELSE 2) = 2
        BY <3>5
      <4>2. 2 \in DOMAIN tramp
        BY <3>1, <3>5, <4>1, ThumbTrampoline
      <4>3. pc - Src = 2 /\ pc # env.hook
        BY <2>1, <3>3, <3>5
      <4> QED BY <3>5, <4>2, <4>3
    <3>6. CASE pc = env.hook /\ Holding(A32!T, Some(env.tag))
      BY <2>5, <3>6 DEF Holding
    <3> QED BY <2>2, <2>5, <3>4, <3>5, <3>6 DEF OnTheWay
  <2>6. CASE fragment.arch = "x64"
    <3>1. regs = env.regs /\ (pc = Src \/ pc = env.hook)
      BY <2>2, <2>6 DEF OnTheWay
    <3>2. 0 \in DOMAIN tramp
      <4>1. Sized(X64!JmpNearIndirect(Src + 6 + env.near, Src))
        BY SizedX64 DEF X64!JmpNearIndirect
      <4>2. tramp = Placed(<<X64!JmpNearIndirect(Src + 6 + env.near, Src)>>, 0)
        BY <2>1, <2>2, <2>6 DEF TrampolineOf
      <4> QED BY <4>1, <4>2, JumpAlone
    <3>3. pc - Src \in DOMAIN tramp \/ pc = env.hook
      <4>1. pc = env.hook \/ pc - Src = 0
        BY <2>1, <3>1
      <4> QED BY <3>2, <4>1
    <3> QED BY <2>6, <3>1, <3>3
  <2> QED BY <2>1, <2>4, <2>5, <2>6 DEF WellFormed
<1> QED BY <1>1, <1>2, <1>3, PTL DEF Spec
-----------------------------------------------------------------------------
(* What the copy of an instruction does on arm64.  A thread that is at t gets
   to u through code. *)
Onward(code, e, data, t) == A64!Arm64Execute(code[t.pc], t.pc, t.regs, e, data)

Goes(code, e, data, t, u) == t.pc \in DOMAIN code /\ u = Onward(code, e, data, t)

Through(code, e, data, t, u) ==
  \E n \in Nat : \E path :
    /\ path = [i \in 0 .. n |-> path[i]] /\ path[0] = t /\ path[n] = u
    /\ \A i \in 0 .. n - 1 : Goes(code, e, data, path[i], path[i + 1])

LEMMA ThroughFirst ==
  ASSUME NEW code, NEW e, NEW data, NEW t, NEW u, Goes(code, e, data, t, u)
  PROVE  Through(code, e, data, t, u)
<1> DEFINE path == [i \in 0 .. 1 |-> IF i = 0 THEN t ELSE u]
<1>1. path = [i \in 0 .. 1 |-> path[i]] /\ path[0] = t /\ path[1] = u
  OBVIOUS
<1>2. \A i \in 0 .. 1 - 1 : i = 0 /\ i + 1 = 1
  OBVIOUS
<1> HIDE DEF path
<1>3. \A i \in 0 .. 1 - 1 : Goes(code, e, data, path[i], path[i + 1])
  BY <1>1, <1>2
<1>4. 1 \in Nat
  OBVIOUS
<1> QED BY <1>1, <1>3, <1>4 DEF Through

LEMMA ThroughNext ==
  ASSUME NEW code, NEW e, NEW data, NEW t, NEW u, Through(code, e, data, t, u), NEW w, Goes(code, e, data, u, w)
  PROVE  Through(code, e, data, t, w)
<1>0. PICK n \in Nat : \E path :
        /\ path[0] = t /\ path[n] = u
        /\ \A i \in 0 .. n - 1 : Goes(code, e, data, path[i], path[i + 1])
  BY DEF Through
<1>1. PICK path :
        /\ path[0] = t /\ path[n] = u
        /\ \A i \in 0 .. n - 1 : Goes(code, e, data, path[i], path[i + 1])
  BY <1>0
<1> DEFINE longer == [i \in 0 .. n + 1 |-> IF i = n + 1 THEN w ELSE path[i]]
<1>2. longer = [i \in 0 .. n + 1 |-> longer[i]] /\ longer[n + 1] = w
  OBVIOUS
<1>3. \A i \in 0 .. n : longer[i] = path[i]
  OBVIOUS
<1> HIDE DEF longer
<1>4. ASSUME NEW i \in 0 .. (n + 1) - 1 PROVE Goes(code, e, data, longer[i], longer[i + 1])
  <2>1. i \in 0 .. n /\ longer[i] = path[i]
    BY <1>3
  <2>2. CASE i = n
    <3>1. longer[i] = u /\ longer[i + 1] = w
      BY <1>1, <1>2, <2>1, <2>2
    <3> QED BY <3>1
  <2>3. CASE i # n
    <3>1. i \in 0 .. n - 1 /\ i + 1 \in 0 .. n
      BY <2>1, <2>3
    <3>2. longer[i + 1] = path[i + 1]
      BY <1>3, <3>1
    <3> QED BY <1>1, <2>1, <3>1, <3>2
  <2> QED BY <2>2, <2>3
<1>5. n + 1 \in Nat /\ 0 \in 0 .. n
  OBVIOUS
<1>6. longer[0] = t
  BY <1>1, <1>3, <1>5
<1> QED BY <1>2, <1>4, <1>5, <1>6 DEF Through

(* Instructions of four bytes are four bytes apart, data of eight are eight. *)
LEMMA PlacedEvenly ==
  ASSUME NEW w \in {4, 8}, NEW s, Insts(s), \A i \in 1 .. Len(s) : s[i].len = w, NEW at \in Nat, NEW i \in 1 .. Len(s)
  PROVE  at + w * (i - 1) \in DOMAIN Placed(s, at) /\ Placed(s, at)[at + w * (i - 1)] = s[i]
<1> DEFINE g == [k \in 1 .. Len(s) + 1 |-> at + w * (k - 1)]
<1>1. Len(s) \in Nat
  BY OffsetsStep
<1>2. \A k \in 1 .. Len(s) + 1 : g[k] = at + w * (k - 1)
  OBVIOUS
<1> HIDE DEF g
<1>3. g[1] = at
  <2>1. 1 \in 1 .. Len(s) + 1 /\ at + w * (1 - 1) = at
    BY <1>1
  <2> QED BY <1>2, <2>1
<1>4. ASSUME NEW k \in 1 .. Len(s) PROVE g[k + 1] = g[k] + s[k].len
  <2>1. k \in 1 .. Len(s) + 1 /\ k + 1 \in 1 .. Len(s) + 1
    BY <1>1
  <2>2. g[k] = at + w * (k - 1) /\ g[k + 1] = at + w * ((k + 1) - 1)
    BY <1>2, <2>1
  <2>3. CASE w = 4
    BY <2>1, <2>2, <2>3
  <2>4. CASE w = 8
    BY <2>1, <2>2, <2>4
  <2> QED BY <2>3, <2>4
<1>5. Offsets(s, at)[i] = at + w * (i - 1)
  <2>1. \A k \in 1 .. Len(s) + 1 : g[k] = Offsets(s, at)[k]
    BY <1>3, <1>4, OffsetsAre
  <2>2. i \in 1 .. Len(s) + 1
    BY <1>1
  <2> QED BY <1>2, <2>1, <2>2
<1> QED BY <1>5, PlacedAt

LEMMA PlacedWords ==
  ASSUME NEW s, Insts(s), \A i \in 1 .. Len(s) : s[i].len = 4, NEW at \in Nat
  PROVE  /\ Length(s) = 4 * Len(s)
         /\ \A i \in 1 .. Len(s) : at + 4 * (i - 1) \in DOMAIN Placed(s, at) /\ Placed(s, at)[at + 4 * (i - 1)] = s[i]
  BY DataLength, PlacedEvenly

-----------------------------------------------------------------------------
(* A value is put together from its digits to the base h. *)
LEMMA DigitAdded ==
  ASSUME NEW v \in Nat, NEW q \in Nat \ {0}, NEW h \in Nat \ {0}
  PROVE  /\ (v % q) + ((v \div q) % h) * q = v % (q * h)
         /\ (v % q) \div q = 0
<1> DEFINE a == v \div q
           b == a \div h
           c == a % h
           d == v % q
           m == c * q + d
<1>1. a \in Nat /\ d \in 0 .. q - 1 /\ v = a * q + d
  OBVIOUS
<1>2. b \in Nat /\ c \in 0 .. h - 1 /\ a = b * h + c
  BY <1>1
<1> HIDE DEF a, b, c, d
<1>3. q * h \in Nat \ {0} /\ c * q \in Nat /\ b * (q * h) \in Nat
  BY <1>2
<1>4. v = b * (q * h) + m
  <2>1. (b * h + c) * q = b * (q * h) + c * q
    BY <1>2
  <2> QED BY <1>1, <1>2, <1>3, <2>1
<1>5. m \in 0 .. (q * h) - 1
  <2>1. c * q <= (h - 1) * q /\ (h - 1) * q = q * h - q
    BY <1>2
  <2> QED BY <1>1, <1>3, <2>1
<1> HIDE DEF m
<1>6. v % (q * h) = m
  <2> DEFINE n == q * h
  <2>1. n \in Nat \ {0} /\ v = b * n + m /\ m \in 0 .. n - 1
    BY <1>3, <1>4, <1>5
  <2> HIDE DEF n
  <2>2. v % n = m
    BY <1>2, <2>1
  <2> QED BY <2>2 DEF n
<1>7. d \div q = 0
  BY <1>1
<1>8. c * q + d = d + c * q
  BY <1>1, <1>3
<1> QED BY <1>6, <1>7, <1>8 DEF m, c, a, d

LEMMA HalfAdded ==
  ASSUME NEW v \in Nat, NEW k \in Nat
  PROVE  LET q == 2^(HalfBits * k)
             w == v % q
         IN w + (A64!Half(v, k) - A64!Half(w, k)) * q = v % 2^(HalfBits * (k + 1))
<1> DEFINE q == 2^(HalfBits * k)
           h == 2^HalfBits
           w == v % q
<1>1. HalfBits \in Nat /\ HalfBits * k \in Nat /\ HalfBits * (k + 1) = HalfBits * k + HalfBits
  BY BitsAssumption
<1>2. q \in Nat \ {0} /\ h \in Nat \ {0}
  BY <1>1, PowerDoubles
<1>3. 2^(HalfBits * (k + 1)) = q * h
  BY <1>1, PowerSum
<1>4. A64!Half(v, k) = (v \div q) % h /\ A64!Half(w, k) = (w \div q) % h
  BY DEF A64!Half
<1> HIDE DEF q, h
<1>5. w + ((v \div q) % h) * q = v % (q * h) /\ w \div q = 0
  BY <1>2, DigitAdded
<1>6. 0 % h = 0 /\ (v \div q) % h \in Nat
  BY <1>2
<1> HIDE DEF w
<1>7. w + (A64!Half(v, k) - A64!Half(w, k)) * q = v % (q * h)
  BY <1>4, <1>5, <1>6
<1> QED BY <1>3, <1>7 DEF q, w

-----------------------------------------------------------------------------
(* What the processor does with what copies are made of *)
At(p, r) == [pc |-> p, regs |-> r]

With(r, n, v) == [r EXCEPT ![n] = v]

LEMMA WithIs ==
  ASSUME NEW r, NEW n
  PROVE  /\ \A v : DOMAIN With(r, n, v) = DOMAIN r
         /\ \A v, m : m \in DOMAIN r /\ m # n => With(r, n, v)[m] = r[m]
         /\ \A v : n \in DOMAIN r => With(r, n, v)[n] = v
         /\ \A v, w : With(With(r, n, v), n, w) = With(r, n, w)
  BY DEF With

LEMMA Movz64 ==
  ASSUME NEW n, NEW half, NEW at, NEW r, NEW e, NEW data
  PROVE  A64!Arm64Execute(A64!Movz(n, half, 0), at, r, e, data)
         = At(at + 4, With(r, n, Address(half * 2^(HalfBits * 0))))
  BY DEF A64!Arm64Execute, A64!Movz, A64!Address, Address, At, With

LEMMA Movk64 ==
  ASSUME NEW n, NEW half, NEW k, NEW at, NEW r, NEW e, NEW data,
         NEW made, made = r[n].v + (half - A64!Half(r[n].v, k)) * 2^(HalfBits * k)
  PROVE  A64!Arm64Execute(A64!Movk(n, half, k), at, r, e, data) = At(at + 4, With(r, n, Address(made)))
  BY DEF A64!Arm64Execute, A64!Movk, A64!Address, Address, At, With

(* Four moves make a register any value of as many bits. *)
LEMMA MoveMade ==
  ASSUME NEW n, NEW v \in 0 .. 2^(HalfBits * 4) - 1, NEW code, NEW p \in Nat, NEW r, NEW e, NEW data, n \in DOMAIN r,
         \A i \in 1 .. 4 : p + 4 * (i - 1) \in DOMAIN code /\ code[p + 4 * (i - 1)] = A64!Mov(n, v)[i]
  PROVE  Through(code, e, data, At(p, r), At(p + 16, With(r, n, Address(v))))
<1> DEFINE low(k) == v % 2^(HalfBits * k)
           made(k) == At(p + 4 * k, With(r, n, Address(low(k))))
<1>1. v \in Nat /\ HalfBits \in Nat
  <2>1. HalfBits * 4 \in Nat
    BY BitsAssumption
  <2>2. 2^(HalfBits * 4) \in Nat
    BY <2>1, PowerDoubles
  <2> QED BY <2>2, BitsAssumption
<1>2. /\ A64!Mov(n, v)[1] = A64!Movz(n, A64!Half(v, 0), 0)
      /\ \A k \in 1 .. 3 : A64!Mov(n, v)[k + 1] = A64!Movk(n, A64!Half(v, k), k)
  <2>1. 1 \in 1 .. 4 /\ \A k \in 1 .. 3 : k + 1 \in 1 .. 4 /\ k + 1 # 1 /\ (k + 1) - 1 = k
    OBVIOUS
  <2>2. A64!Mov(n, v) = [i \in 1 .. 4 |-> IF i = 1 THEN A64!Movz(n, A64!Half(v, 0), 0)
                                                   ELSE A64!Movk(n, A64!Half(v, i - 1), i - 1)]
    BY DEF A64!Mov
  <2>3. \A i \in 1 .. 4 : A64!Mov(n, v)[i] = IF i = 1 THEN A64!Movz(n, A64!Half(v, 0), 0)
                                                      ELSE A64!Movk(n, A64!Half(v, i - 1), i - 1)
    BY <2>2
  <2> QED BY <2>1, <2>3
<1>3. Goes(code, e, data, At(p, r), made(1))
  <2>1. p \in DOMAIN code /\ code[p] = A64!Movz(n, A64!Half(v, 0), 0)
    <3>1. 1 \in 1 .. 4 /\ p + 4 * (1 - 1) = p
      OBVIOUS
    <3> QED BY <1>2, <3>1
  <2>2. HalfBits * 0 = 0 /\ HalfBits * (0 + 1) = HalfBits * 1 /\ 0 \in Nat
    BY <1>1
  <2>3. v % 2^0 = 0 /\ 2^0 = 1
    BY <1>1, PowerDoubles
  <2>4. A64!Half(v, 0) * 2^(HalfBits * 0) = low(1)
    <3> DEFINE q == 2^(HalfBits * 0)
    <3>1. (v % q) + (A64!Half(v, 0) - A64!Half(v % q, 0)) * q = v % 2^(HalfBits * (0 + 1))
      BY <1>1, <2>2, HalfAdded
    <3>2. q = 1 /\ v % q = 0
      BY <2>2, <2>3
    <3>3. A64!Half(0, 0) = 0 /\ A64!Half(v, 0) \in Int
      <4>1. 2^HalfBits \in Nat \ {0}
        BY <1>1, PowerDoubles
      <4>2. 0 % 2^HalfBits = 0 /\ (v \div 1) % 2^HalfBits \in Int /\ 0 \div 1 = 0
        BY <1>1, <4>1
      <4> QED BY <2>2, <2>3, <4>2 DEF A64!Half
    <3> HIDE DEF q
    <3>4. A64!Half(v, 0) * q = v % 2^(HalfBits * (0 + 1))
      BY <3>1, <3>2, <3>3
    <3> QED BY <2>2, <3>4 DEF q
  <2>5. Onward(code, e, data, At(p, r)) = At(p + 4, With(r, n, Address(low(1))))
    <3> HIDE DEF low
    <3>1. At(p, r).pc = p /\ At(p, r).regs = r
      BY DEF At
    <3> QED BY <2>1, <2>4, <3>1, Movz64 DEF Onward
  <2>6. p + 4 * 1 = p + 4
    OBVIOUS
  <2> QED BY <2>1, <2>5, <2>6 DEF Goes, At
<1>4. ASSUME NEW k \in 1 .. 3 PROVE Goes(code, e, data, made(k), made(k + 1))
  <2>1. k \in Nat /\ p + 4 * ((k + 1) - 1) = p + 4 * k /\ k + 1 \in 1 .. 4 /\ p + 4 * k + 4 = p + 4 * (k + 1)
    BY <1>4
  <2>2. p + 4 * k \in DOMAIN code /\ code[p + 4 * k] = A64!Movk(n, A64!Half(v, k), k)
    BY <1>2, <2>1
  <2>3. low(k) + (A64!Half(v, k) - A64!Half(low(k), k)) * 2^(HalfBits * k) = low(k + 1)
    BY <1>1, <2>1, HalfAdded
  <2> HIDE DEF low
  <2> DEFINE rs == With(r, n, Address(low(k)))
  <2>4. rs[n].v = low(k) /\ With(rs, n, Address(low(k + 1))) = With(r, n, Address(low(k + 1)))
    BY WithIs DEF Address
  <2>5. made(k).pc = p + 4 * k /\ made(k).regs = rs
    BY DEF At
  <2> HIDE DEF rs
  <2>6. low(k + 1) = rs[n].v + (A64!Half(v, k) - A64!Half(rs[n].v, k)) * 2^(HalfBits * k)
    BY <2>3, <2>4
  <2>7. A64!Arm64Execute(A64!Movk(n, A64!Half(v, k), k), p + 4 * k, rs, e, data)
        = At(p + 4 * k + 4, With(rs, n, Address(low(k + 1))))
    BY <2>6, Movk64
  <2>8. A64!Arm64Execute(A64!Movk(n, A64!Half(v, k), k), p + 4 * k, rs, e, data) = made(k + 1)
    BY <2>1, <2>4, <2>7
  <2> QED BY <2>2, <2>5, <2>8 DEF Goes, Onward
<1>5. made(4) = At(p + 16, With(r, n, Address(v)))
  <2>1. v % 2^(HalfBits * 4) = v
    BY <1>1
  <2>2. p + 4 * 4 = p + 16
    OBVIOUS
  <2> QED BY <2>1, <2>2
<1> HIDE DEF made
<1>6. Through(code, e, data, At(p, r), made(1))
  BY <1>3, ThroughFirst
<1>7. Goes(code, e, data, made(1), made(2)) /\ Goes(code, e, data, made(2), made(3)) /\ Goes(code, e, data, made(3), made(4))
  <2>1. 1 \in 1 .. 3 /\ 2 \in 1 .. 3 /\ 3 \in 1 .. 3 /\ 1 + 1 = 2 /\ 2 + 1 = 3 /\ 3 + 1 = 4
    OBVIOUS
  <2> QED BY <1>4, <2>1
<1>8. Through(code, e, data, At(p, r), made(2))
  BY <1>6, <1>7, ThroughNext
<1>9. Through(code, e, data, At(p, r), made(3))
  BY <1>7, <1>8, ThroughNext
<1>10. Through(code, e, data, At(p, r), made(4))
  BY <1>7, <1>9, ThroughNext
<1> QED BY <1>5, <1>10

-----------------------------------------------------------------------------
(* The offsets that relocation decodes are those that the processor adds. *)
LEMMA SignExtended ==
  ASSUME NEW w \in Nat \ {0}, NEW x \in 0 .. 2^w - 1
  PROVE  A64!SignExtend(x, w) = A64!Signed(x, w)
<1> DEFINE h == 2^(w - 1)
           p == 2^w
<1>1. w - 1 \in Nat /\ (w - 1) + 1 = w
  OBVIOUS
<1>2. h \in Nat \ {0} /\ p = 2 * h
  BY <1>1, PowerDoubles
<1>3. A64!SignExtend(x, w) = IF (x \div h) % 2 = 1 THEN (x % p) - p ELSE x
  BY DEF A64!SignExtend
<1>4. A64!Signed(x, w) = IF x >= h THEN x - p ELSE x
  BY DEF A64!Signed
<1> HIDE DEF h, p
<1>5. x \in Nat /\ x < p
  BY <1>2 DEF p
<1>6. x % p = x
  BY <1>2, <1>5
<1>7. CASE x < h
  <2>1. x \div h = 0
    BY <1>2, <1>5, <1>7
  <2> QED BY <1>2, <1>3, <1>4, <1>5, <1>7, <2>1
<1>8. CASE x >= h
  <2>1. x \div h = 1
    BY <1>2, <1>5, <1>8
  <2> QED BY <1>3, <1>4, <1>6, <1>8, <2>1
<1> QED BY <1>2, <1>5, <1>7, <1>8

LEMMA WordsExtended ==
  ASSUME NEW w \in Nat \ {0}, NEW x \in 0 .. 2^w - 1
  PROVE  A64!SignExtend(x * 4, w + 2) = 4 * A64!Signed(x, w)
<1> DEFINE h == 2^(w - 1)
<1>1. w - 1 \in Nat /\ (w - 1) + 1 = w /\ w + 1 \in Nat /\ (w + 1) + 1 = w + 2 /\ (w + 2) - 1 = w + 1 /\ w + 2 \in Nat \ {0}
  OBVIOUS
<1>2. h \in Nat \ {0} /\ 2^w = 2 * h /\ 2^(w + 1) = 4 * h /\ 2^(w + 2) = 8 * h
  <2>1. 2^w = 2 * h /\ 2^(w + 1) = 2 * 2^w /\ 2^(w + 2) = 2 * 2^(w + 1) /\ h \in Nat \ {0}
    BY <1>1, PowerDoubles
  <2> QED BY <2>1
<1>3. A64!Signed(x * 4, w + 2) = IF x * 4 >= 2^(w + 1) THEN x * 4 - 2^(w + 2) ELSE x * 4
  BY <1>1 DEF A64!Signed
<1>4. A64!Signed(x, w) = IF x >= h THEN x - 2^w ELSE x
  BY DEF A64!Signed
<1> HIDE DEF h
<1>5. x \in Nat /\ x < 2 * h
  BY <1>2
<1>6. x * 4 \in 0 .. 2^(w + 2) - 1
  BY <1>2, <1>5
<1>7. A64!SignExtend(x * 4, w + 2) = A64!Signed(x * 4, w + 2)
  BY <1>1, <1>6, SignExtended
<1> QED BY <1>2, <1>3, <1>4, <1>5, <1>7

LEMMA Decoded64 ==
  ASSUME NEW i
  PROVE  /\ i.imm14 \in 0 .. 2^14 - 1 => A64!decode_imm14_offset(i) = 4 * A64!Signed(i.imm14, 14)
         /\ i.imm19 \in 0 .. 2^19 - 1 => A64!decode_imm19_offset(i) = 4 * A64!Signed(i.imm19, 19)
         /\ i.imm26 \in 0 .. 2^26 - 1 => A64!decode_imm26_offset(i) = 4 * A64!Signed(i.imm26, 26)
         /\ i.imm \in 0 .. 2^AdrBits - 1 => A64!decode_immhi_immlo_offset(i) = A64!Signed(i.imm, AdrBits)
<1>1. /\ 14 \in Nat \ {0} /\ 14 + 2 = 16 /\ 19 \in Nat \ {0} /\ 19 + 2 = 21
      /\ 26 \in Nat \ {0} /\ 26 + 2 = 28 /\ AdrBits \in Nat \ {0}
  BY BitsAssumption
<1>2. i.imm14 \in 0 .. 2^14 - 1 => A64!SignExtend(i.imm14 * 4, 16) = 4 * A64!Signed(i.imm14, 14)
  <2>1. i.imm14 \in 0 .. 2^14 - 1 => A64!SignExtend(i.imm14 * 4, 14 + 2) = 4 * A64!Signed(i.imm14, 14)
    BY <1>1, WordsExtended
  <2> QED BY <1>1, <2>1
<1>3. i.imm19 \in 0 .. 2^19 - 1 => A64!SignExtend(i.imm19 * 4, 21) = 4 * A64!Signed(i.imm19, 19)
  <2>1. i.imm19 \in 0 .. 2^19 - 1 => A64!SignExtend(i.imm19 * 4, 19 + 2) = 4 * A64!Signed(i.imm19, 19)
    BY <1>1, WordsExtended
  <2> QED BY <1>1, <2>1
<1>4. i.imm26 \in 0 .. 2^26 - 1 => A64!SignExtend(i.imm26 * 4, 28) = 4 * A64!Signed(i.imm26, 26)
  <2>1. i.imm26 \in 0 .. 2^26 - 1 => A64!SignExtend(i.imm26 * 4, 26 + 2) = 4 * A64!Signed(i.imm26, 26)
    BY <1>1, WordsExtended
  <2> QED BY <1>1, <2>1
<1>5. i.imm \in 0 .. 2^AdrBits - 1 => A64!SignExtend(i.imm, AdrBits) = A64!Signed(i.imm, AdrBits)
  BY <1>1, SignExtended
<1> QED BY <1>2, <1>3, <1>4, <1>5
    DEF A64!decode_imm14_offset, A64!decode_imm19_offset, A64!decode_imm26_offset, A64!decode_immhi_immlo_offset

(* Pages are moved by whole pages. *)
LEMMA PageMoved ==
  ASSUME NEW at \in Nat, NEW k \in Int
  PROVE  A64!TruncPage(at + k * 2^PageBits) = A64!PageOf(at) + k * 2^PageBits
<1> DEFINE p == 2^PageBits
           b == at \div p
           d == at % p
<1>1. p \in Nat \ {0}
  BY BitsAssumption, PowerDoubles
<1>2. A64!TruncPage(at + k * p) = (at + k * p) - ((at + k * p) % p) /\ A64!PageOf(at) = at - d
  BY DEF A64!TruncPage, A64!PageOf
<1> HIDE DEF p
<1>3. b \in Int /\ d \in 0 .. p - 1 /\ at = b * p + d
  BY <1>1
<1> HIDE DEF b, d
<1>4. at + k * p = (b + k) * p + d /\ b + k \in Int
  BY <1>1, <1>3
<1>5. (at + k * p) % p = d
  <2> DEFINE a == at + k * p
             c == b + k
  <2>1. a = c * p + d /\ c \in Int
    BY <1>4
  <2> HIDE DEF a, c
  <2>2. a % p = d
    BY <1>1, <1>3, <2>1
  <2> QED BY <2>2 DEF a
<1>6. k * p \in Int
  BY <1>1
<1> QED BY <1>2, <1>3, <1>5, <1>6 DEF p

-----------------------------------------------------------------------------
(* A thread u in a copy stands for a thread o in the function: only X17 is
   another, and where the copy ends stands for the next instruction. *)
StandsFor(u, o, next, end) ==
  /\ u.pc = o.pc \/ (o.pc = next /\ u.pc = end)
  /\ DOMAIN u.regs = DOMAIN o.regs
  /\ \A n \in DOMAIN o.regs \ {A64!X17} :
       u.regs[n] = o.regs[n] \/ (o.regs[n] = Address(next) /\ u.regs[n] = Address(end))

(* Instructions that are put at p do what one at address at does. *)
DoesAs(copy, inst, at, p, r, e, data) ==
  \E u : /\ Through(Placed(copy, p), e, data, At(p, r), u)
         /\ StandsFor(u, A64!Arm64Execute(inst, at, r, e, << >>), at + 4, p + Length(copy))

(* The address that an instruction refers to *)
Meant(inst, at) ==
  CASE inst.op = "adr" -> at + A64!Signed(inst.imm, AdrBits)
    [] inst.op = "adrp" -> A64!PageOf(at) + A64!Signed(inst.imm, AdrBits) * 2^PageBits
    [] inst.op \in {"b", "bl"} -> at + 4 * A64!Signed(inst.imm26, 26)
    [] inst.op = "tbz" -> at + 4 * A64!Signed(inst.imm14, 14)
    [] inst.op \in {"ldr literal", "b.cond", "cbz"} -> at + 4 * A64!Signed(inst.imm19, 19)

IsAddress(v) == v \in 0 .. 2^(HalfBits * 4) - 1

LEMMA MovWords ==
  ASSUME NEW n, NEW v
  PROVE  /\ Insts(A64!Mov(n, v)) /\ Len(A64!Mov(n, v)) = 4
         /\ \A i \in 1 .. 4 : A64!Mov(n, v)[i].len = 4
<1> DEFINE s == A64!Mov(n, v)
           word(i) == IF i = 1 THEN A64!Movz(n, A64!Half(v, 0), 0) ELSE A64!Movk(n, A64!Half(v, i - 1), i - 1)
<1>1. s = [i \in 1 .. 4 |-> word(i)]
  BY DEF A64!Mov
<1>2. \A i : word(i).len = 4
  BY DEF A64!Movz, A64!Movk
<1> HIDE DEF word
<1>3. DOMAIN s = 1 .. 4 /\ \A i \in 1 .. 4 : s[i].len = 4
  BY <1>1, <1>2
<1>4. Insts(s)
  BY Mov64
<1> HIDE DEF s
<1>5. Len(s) = 4
  <2>1. Len(s) \in Nat /\ DOMAIN s = 1 .. Len(s)
    BY <1>4, OffsetsStep
  <2>2. 1 .. Len(s) = 1 .. 4
    BY <1>3, <2>1
  <2> QED BY <2>1, <2>2
<1> QED BY <1>3, <1>4, <1>5 DEF s

(* The moves on their own, and before another instruction *)
LEMMA MoveCopy ==
  ASSUME NEW n, NEW v, IsAddress(v), NEW p \in Nat, NEW r, n \in DOMAIN r, NEW e, NEW data
  PROVE  /\ Length(A64!Mov(n, v)) = 16
         /\ Through(Placed(A64!Mov(n, v), p), e, data, At(p, r), At(p + 16, With(r, n, Address(v))))
<1> DEFINE s == A64!Mov(n, v)
<1>1. Insts(s) /\ Len(s) = 4 /\ \A i \in 1 .. 4 : s[i].len = 4
  BY MovWords
<1>2. /\ Length(s) = 4 * 4
      /\ \A i \in 1 .. 4 : p + 4 * (i - 1) \in DOMAIN Placed(s, p) /\ Placed(s, p)[p + 4 * (i - 1)] = s[i]
  <2> HIDE DEF s
  <2> QED BY <1>1, PlacedWords
<1>3. v \in 0 .. 2^(HalfBits * 4) - 1
  BY DEF IsAddress
<1>4. Through(Placed(s, p), e, data, At(p, r), At(p + 16, With(r, n, Address(v))))
  BY <1>2, <1>3, MoveMade
<1>5. 4 * 4 = 16
  OBVIOUS
<1> QED BY <1>2, <1>4, <1>5

LEMMA OneMore ==
  ASSUME NEW m, Insts(m), NEW i, Sized(i), NEW t, t = <<i>>
  PROVE  /\ Insts(m \o t) /\ Len(m \o t) = Len(m) + 1 /\ (m \o t)[Len(m) + 1] = i
         /\ \A k \in 1 .. Len(m) : (m \o t)[k] = m[k]
<1>2. Insts(t) /\ Len(t) = 1 /\ t[1] = i
  BY One
<1>3. PICK S : m \in Seq(S)
  BY DEF Insts
<1>4. m \in Seq(S \cup {i}) /\ t \in Seq(S \cup {i})
  BY <1>3
<1> DEFINE s == m \o t
<1>5. /\ Len(s) = Len(m) + Len(t) /\ Len(m) \in Nat
      /\ \A k \in 1 .. Len(s) : s[k] = IF k <= Len(m) THEN m[k] ELSE t[k - Len(m)]
  BY <1>4, ConcatProperties, LenProperties
<1>6. Insts(s)
  BY <1>2, Concatenated
<1> HIDE DEF s
<1>7. Len(s) = Len(m) + 1
  BY <1>2, <1>5
<1>8. ASSUME NEW k \in 1 .. Len(m) PROVE s[k] = m[k]
  <2>1. k \in 1 .. Len(s) /\ k <= Len(m)
    BY <1>5, <1>7
  <2> QED BY <1>5, <2>1
<1>9. s[Len(m) + 1] = i
  <2>1. Len(m) + 1 \in 1 .. Len(s) /\ ~(Len(m) + 1 <= Len(m)) /\ (Len(m) + 1) - Len(m) = 1
    BY <1>5, <1>7
  <2>2. s[Len(m) + 1] = t[(Len(m) + 1) - Len(m)]
    BY <1>5, <2>1
  <2> QED BY <1>2, <2>1, <2>2
<1> QED BY <1>6, <1>7, <1>8, <1>9 DEF s

LEMMA MoveBefore ==
  ASSUME NEW n, NEW v, IsAddress(v), NEW i, Sized(i), i.len = 4, NEW t, t = <<i>>,
         NEW p \in Nat, NEW r, n \in DOMAIN r, NEW e, NEW data
  PROVE  LET s == A64!Mov(n, v) \o t
             here == At(p + 16, With(r, n, Address(v)))
         IN /\ Length(s) = 20
            /\ Through(Placed(s, p), e, data, At(p, r), here)
            /\ p + 16 \in DOMAIN Placed(s, p) /\ Placed(s, p)[p + 16] = i
<1> DEFINE m == A64!Mov(n, v)
           s == m \o t
<1>1. Insts(m) /\ Len(m) = 4 /\ \A k \in 1 .. 4 : m[k].len = 4
  BY MovWords
<1> HIDE DEF m
<1>3. Insts(s)
  BY <1>1, OneMore
<1>4. Len(s) = 5 /\ (\A k \in 1 .. 4 : s[k] = m[k]) /\ s[5] = i
  <2>0. Insts(m)
    BY <1>1
  <2>1. Len(s) = Len(m) + 1 /\ s[Len(m) + 1] = i /\ \A k \in 1 .. Len(m) : s[k] = m[k]
    BY <2>0, OneMore
  <2>2. Len(m) = 4 /\ 4 + 1 = 5
    BY <1>1
  <2> HIDE DEF s
  <2>3. Len(s) = 5 /\ s[5] = i
    BY <2>1, <2>2
  <2> QED BY <2>1, <2>2, <2>3
<1> HIDE DEF s
<1>5. /\ Length(s) = 4 * 5
      /\ \A k \in 1 .. 5 : p + 4 * (k - 1) \in DOMAIN Placed(s, p) /\ Placed(s, p)[p + 4 * (k - 1)] = s[k]
  <2>1. \A k \in 1 .. 5 : k \in 1 .. 4 \/ k = 5
    OBVIOUS
  <2>2. Len(s) = 5
    BY <1>4
  <2>3. ASSUME NEW k \in 1 .. 5 PROVE s[k].len = 4
    BY <1>1, <1>4, <2>1
  <2>4. \A k \in 1 .. Len(s) : s[k].len = 4
    BY <2>2, <2>3
  <2>5. /\ Length(s) = 4 * Len(s)
        /\ \A k \in 1 .. Len(s) : p + 4 * (k - 1) \in DOMAIN Placed(s, p) /\ Placed(s, p)[p + 4 * (k - 1)] = s[k]
    BY <1>3, <2>4, PlacedWords
  <2> QED BY <2>2, <2>5
<1>6. \A k \in 1 .. 4 : p + 4 * (k - 1) \in DOMAIN Placed(s, p) /\ Placed(s, p)[p + 4 * (k - 1)] = A64!Mov(n, v)[k]
  <2>1. \A k \in 1 .. 4 : k \in 1 .. 5
    OBVIOUS
  <2> QED BY <1>4, <1>5, <2>1 DEF m
<1>7. v \in 0 .. 2^(HalfBits * 4) - 1
  BY DEF IsAddress
<1>8. Through(Placed(s, p), e, data, At(p, r), At(p + 16, With(r, n, Address(v))))
  BY <1>6, <1>7, MoveMade
<1>9. 5 \in 1 .. 5 /\ p + 4 * (5 - 1) = p + 16 /\ 4 * 5 = 20
  OBVIOUS
<1>10. p + 16 \in DOMAIN Placed(s, p) /\ Placed(s, p)[p + 16] = i
  BY <1>4, <1>5, <1>9
<1>11. Length(s) = 20
  BY <1>5, <1>9
<1> QED BY <1>8, <1>10, <1>11 DEF s, m

-----------------------------------------------------------------------------
(* What instructions that refer to an address do where they were *)
LEMMA Adr64 ==
  ASSUME NEW i, i.op = "adr", NEW at, NEW r, NEW e, NEW data
  PROVE  A64!Arm64Execute(i, at, r, e, data) = At(at + 4, With(r, i.rd, Address(Meant(i, at))))
  BY DEF A64!Arm64Execute, A64!Address, Address, At, With, Meant

LEMMA AdrpMeant64 ==
  ASSUME NEW i, i.op = "adrp", NEW at, NEW r, NEW e, NEW data
  PROVE  A64!Arm64Execute(i, at, r, e, data) = At(at + 4, With(r, i.rd, Address(Meant(i, at))))
  BY DEF A64!Arm64Execute, A64!Address, Address, At, With, Meant

(* A literal of 64 bits that goes to a general register *)
LoadsWord(i) == i.op = "ldr literal" /\ i.opc = 1 /\ i.simd = 0

LEMMA Word64 ==
  ASSUME NEW i, i.opc = 1, i.simd = 0
  PROVE  i.opc # 3 /\ A64!Target(i) = i.rt /\ A64!LoadedBytes(i) = 8
<1>1. A64!Target(i) = i.rt
  BY DEF A64!Target
<1>2. A64!LoadedBytes(i) = 8
  <2>1. i.opc + 1 = 2
    OBVIOUS
  <2>2. \A x : <<4, 8, x>>[2] = 8
    OBVIOUS
  <2> QED BY <2>1, <2>2 DEF A64!LoadedBytes
<1> QED BY <1>1, <1>2

LEMMA WordLoaded ==
  ASSUME NEW i, i.op = "ldr literal", NEW at, NEW r, NEW e, NEW data, i.opc # 3
  PROVE  A64!Arm64Execute(i, at, r, e, data)
         = At(at + 4, With(r, A64!Target(i), A64!Memory(data, Meant(i, at), A64!LoadedBytes(i))))
  BY DEF A64!Arm64Execute, At, With, Meant

LEMMA Literals64 ==
  ASSUME NEW i, LoadsWord(i), NEW at, NEW r, NEW e, NEW data
  PROVE  A64!Arm64Execute(i, at, r, e, data) = At(at + 4, With(r, i.rt, A64!Memory(data, Meant(i, at), 8)))
<1>1. i.op = "ldr literal"
  BY DEF LoadsWord
<1>2. i.opc # 3 /\ A64!Target(i) = i.rt /\ A64!LoadedBytes(i) = 8
  BY Word64 DEF LoadsWord
<1>3. A64!Arm64Execute(i, at, r, e, data)
      = At(at + 4, With(r, A64!Target(i), A64!Memory(data, Meant(i, at), A64!LoadedBytes(i))))
  BY <1>1, <1>2, WordLoaded
<1> QED BY <1>2, <1>3

LEMMA LoadX64 ==
  ASSUME NEW n, NEW m, NEW at, NEW r, NEW e, NEW data
  PROVE  A64!Arm64Execute(A64!LdrX(n, m), at, r, e, data) = At(at + 4, With(r, n, A64!Memory(data, r[m].v, 8)))
  BY DEF A64!Arm64Execute, A64!LdrX, At, With

(* What relocation puts in the place of adr, adrp and a literal of 64 bits *)
ValueCopy(i, v) ==
  IF i.op = "ldr literal" THEN A64!Mov(A64!X17, v) \o <<A64!LdrX(i.rt, A64!X17)>> ELSE A64!Mov(i.rd, v)

LEMMA AdrDone ==
  ASSUME NEW i, i.op \in {"adr", "adrp"}, NEW at \in Nat, IsAddress(Meant(i, at)), NEW p \in Nat, NEW r, i.rd \in DOMAIN r,
         NEW e, NEW data
  PROVE  DoesAs(ValueCopy(i, Meant(i, at)), i, at, p, r, e, data)
<1> DEFINE v == Meant(i, at)
           copy == A64!Mov(i.rd, v)
           after == With(r, i.rd, Address(v))
           u == At(p + 16, after)
           o == A64!Arm64Execute(i, at, r, e, << >>)
<1>1. Length(copy) = 16 /\ Through(Placed(copy, p), e, data, At(p, r), u)
  BY MoveCopy
<1>2. o = At(at + 4, after)
  BY Adr64, AdrpMeant64
<1>3. ValueCopy(i, v) = copy
  BY DEF ValueCopy
<1> HIDE DEF v, copy, after, o
<1>4. u.pc = p + 16 /\ u.regs = after /\ o.pc = at + 4 /\ o.regs = after
  BY <1>2 DEF At
<1> HIDE DEF u
<1>5. StandsFor(u, o, at + 4, p + Length(copy))
  BY <1>1, <1>4 DEF StandsFor
<1>6. DoesAs(copy, i, at, p, r, e, data)
  BY <1>1, <1>5 DEF DoesAs, o
<1> QED BY <1>3, <1>6 DEF v

LEMMA LiteralDone ==
  ASSUME NEW i, LoadsWord(i), NEW at \in Nat, IsAddress(Meant(i, at)),
         NEW p \in Nat, NEW r, {i.rt, A64!X17} \subseteq DOMAIN r, NEW e, NEW data, Meant(i, at) \notin DOMAIN data
  PROVE  DoesAs(ValueCopy(i, Meant(i, at)), i, at, p, r, e, data)
<1>1. PICK v : v = Meant(i, at)
  OBVIOUS
<1>2. PICK load : load = A64!LdrX(i.rt, A64!X17)
  OBVIOUS
<1>3. PICK t : t = <<load>>
  OBVIOUS
<1>4. PICK x : x = A64!X17
  OBVIOUS
<1> DEFINE copy == A64!Mov(x, v) \o t
           moved == With(r, x, Address(v))
           here == At(p + 16, moved)
           word == A64!Memory(data, v, 8)
           u == At(p + 20, With(moved, i.rt, word))
           o == A64!Arm64Execute(i, at, r, e, << >>)
<1>5. Sized(load) /\ load.len = 4
  <2>1. \A a, b : Sized(A64!LdrX(a, b)) /\ A64!LdrX(a, b).len = 4
    BY DEF A64!LdrX, Sized
  <2> QED BY <1>2, <2>1
<1>6. /\ Length(copy) = 20 /\ Through(Placed(copy, p), e, data, At(p, r), here)
      /\ p + 16 \in DOMAIN Placed(copy, p) /\ Placed(copy, p)[p + 16] = load
  BY <1>1, <1>3, <1>4, <1>5, MoveBefore
<1>7. ValueCopy(i, v) = copy
  BY <1>2, <1>3, <1>4 DEF ValueCopy, LoadsWord
<1> HIDE DEF copy
<1>8. Goes(Placed(copy, p), e, data, here, u)
  <2>1. here.pc = p + 16 /\ here.regs = moved
    BY DEF At
  <2>2. moved[x].v = v
    BY <1>4, WithIs DEF Address
  <2> HIDE DEF here, moved
  <2>3. A64!Arm64Execute(load, p + 16, moved, e, data) = At((p + 16) + 4, With(moved, i.rt, A64!Memory(data, moved[x].v, 8)))
    BY <1>2, <1>4, LoadX64
  <2>4. (p + 16) + 4 = p + 20
    OBVIOUS
  <2>5. A64!Arm64Execute(load, p + 16, moved, e, data) = u
    BY <2>2, <2>3, <2>4
  <2> QED BY <1>6, <2>1, <2>5 DEF Goes, Onward
<1>9. Through(Placed(copy, p), e, data, At(p, r), u)
  <2> HIDE DEF here, u
  <2> QED BY <1>6, <1>8, ThroughNext
<1>10. o = At(at + 4, With(r, i.rt, word))
  <2>2. o = At(at + 4, With(r, i.rt, A64!Memory(<< >>, Meant(i, at), 8)))
    BY Literals64
  <2>3. A64!Memory(<< >>, v, 8) = A64!Memory(data, v, 8)
    <3>1. DOMAIN << >> = {}
      OBVIOUS
    <3> QED BY <1>1, <3>1 DEF A64!Memory
  <2> HIDE DEF o
  <2> QED BY <1>1, <2>2, <2>3
<1>11. u.pc = p + 20 /\ u.regs = With(moved, i.rt, word) /\ o.pc = at + 4 /\ o.regs = With(r, i.rt, word)
  BY <1>10 DEF At
<1> HIDE DEF u, o, word
<1>12. DOMAIN u.regs = DOMAIN o.regs /\ \A n \in DOMAIN o.regs \ {x} : u.regs[n] = o.regs[n]
  BY <1>11 DEF With
<1>13. StandsFor(u, o, at + 4, p + Length(copy))
  BY <1>4, <1>6, <1>11, <1>12 DEF StandsFor
<1>14. DoesAs(copy, i, at, p, r, e, data)
  BY <1>9, <1>13 DEF DoesAs, o
<1> QED BY <1>1, <1>7, <1>14

LEMMA SignedInt ==
  ASSUME NEW w \in Nat, NEW x \in 0 .. 2^w - 1
  PROVE  A64!Signed(x, w) \in Int
<1>1. 2^w \in Nat
  BY PowerDoubles
<1> QED BY <1>1 DEF A64!Signed

(* The value that relocation has decoded is the one that the processor means. *)
LEMMA ValueDecoded ==
  ASSUME NEW i, NEW at \in Nat,
         i.op \in {"adr", "adrp"} => i.imm \in 0 .. 2^AdrBits - 1,
         i.op = "ldr literal" => i.imm19 \in 0 .. 2^19 - 1
  PROVE  /\ i.op = "adr" => at + A64!decode_immhi_immlo_offset(i) = Meant(i, at)
         /\ i.op = "adrp" => A64!TruncPage(at + A64!decode_immhi_immlo_zero12_offset(i)) = Meant(i, at)
         /\ i.op = "ldr literal" => at + A64!decode_imm19_offset(i) = Meant(i, at)
<1>1. CASE i.op = "adr"
  <2>1. A64!decode_immhi_immlo_offset(i) = A64!Signed(i.imm, AdrBits)
    BY <1>1, Decoded64
  <2> QED BY <1>1, <2>1 DEF Meant
<1>2. CASE i.op = "adrp"
  <2>1. A64!decode_immhi_immlo_offset(i) = A64!Signed(i.imm, AdrBits) /\ i.imm \in 0 .. 2^AdrBits - 1
    BY <1>2, Decoded64
  <2>2. A64!Signed(i.imm, AdrBits) \in Int
    BY <2>1, BitsAssumption, SignedInt
  <2>3. A64!TruncPage(at + A64!decode_immhi_immlo_zero12_offset(i))
        = A64!PageOf(at) + A64!Signed(i.imm, AdrBits) * 2^PageBits
    BY <2>1, <2>2, PageMoved DEF A64!decode_immhi_immlo_zero12_offset
  <2> QED BY <1>2, <2>3 DEF Meant
<1>3. CASE i.op = "ldr literal"
  <2>1. A64!decode_imm19_offset(i) = 4 * A64!Signed(i.imm19, 19)
    BY <1>3, Decoded64
  <2> QED BY <1>3, <2>1 DEF Meant
<1> QED BY <1>1, <1>2, <1>3

(* The register that an instruction loads *)
Loads(i) == IF i.op = "ldr literal" THEN i.rt ELSE i.rd

(* Fields of as many bits as the instruction has for them *)
Encoded(i) ==
  /\ i.op \in {"adr", "adrp"} => i.imm \in 0 .. 2^AdrBits - 1
  /\ i.op \in {"ldr literal", "b.cond", "cbz"} => i.imm19 \in 0 .. 2^19 - 1
  /\ i.op = "tbz" => i.imm14 \in 0 .. 2^14 - 1
  /\ i.op \in {"b", "bl"} => i.imm26 \in 0 .. 2^26 - 1

(* What relocation emits for adr, adrp and a literal of 64 bits gives the
   register the same value, wherever the copy is put: a step of the refinement
   of OriginalCode. *)
THEOREM ValuesCopied ==
  ASSUME CursorInv, A64!RelocateAdr \/ A64!RelocateAdrp \/ (A64!RelocateLdrLiteral /\ LoadsWord(Inst)),
         Encoded(Inst), IsAddress(Meant(Inst, Src + cursor))
  PROVE  \E copy :
           /\ A64!Emit(copy)
           /\ \A p \in Nat : \A r, e, data :
                {Loads(Inst), A64!X17} \subseteq DOMAIN r /\ Meant(Inst, Src + cursor) \notin DOMAIN data
                  => DoesAs(copy, Inst, Src + cursor, p, r, e, data)
<1> DEFINE at == Src + cursor
           copy == ValueCopy(Inst, Meant(Inst, at))
<1>1. at \in Nat
  <2>1. WellFormed(fragment) /\ cursor \in 0 .. Bytes(fragment) /\ Bytes(fragment) \in Nat
    BY Fragments
  <2>2. Src \in Nat
    BY <2>1 DEF WellFormed, Src
  <2> QED BY <2>1, <2>2
<1>2. A64!Inst = Inst /\ A64!relo_cur_src_vmaddr = at
  BY SameLoop DEF A64!relo_cur_src_vmaddr
<1> HIDE DEF at
<1>3. /\ Inst.op = "adr" => at + A64!decode_immhi_immlo_offset(Inst) = Meant(Inst, at)
      /\ Inst.op = "adrp" => A64!TruncPage(at + A64!decode_immhi_immlo_zero12_offset(Inst)) = Meant(Inst, at)
      /\ Inst.op = "ldr literal" => at + A64!decode_imm19_offset(Inst) = Meant(Inst, at)
  BY <1>1, ValueDecoded DEF Encoded
<1>4. CASE A64!RelocateAdr
  <2>1. Inst.op = "adr" /\ A64!Emit(A64!Mov(Inst.rd, at + A64!decode_immhi_immlo_offset(Inst)))
    BY <1>2, <1>4 DEF A64!RelocateAdr
  <2>2. copy = A64!Mov(Inst.rd, at + A64!decode_immhi_immlo_offset(Inst)) /\ Loads(Inst) = Inst.rd
    BY <1>3, <2>1 DEF ValueCopy, Loads
  <2>3. A64!Emit(copy)
    BY <2>1, <2>2
  <2> QED BY <1>1, <2>1, <2>2, <2>3, AdrDone DEF at
<1>5. CASE A64!RelocateAdrp
  <2>1. Inst.op = "adrp" /\ A64!Emit(A64!Mov(Inst.rd, A64!TruncPage(at + A64!decode_immhi_immlo_zero12_offset(Inst))))
    BY <1>2, <1>5 DEF A64!RelocateAdrp
  <2>2. copy = A64!Mov(Inst.rd, A64!TruncPage(at + A64!decode_immhi_immlo_zero12_offset(Inst))) /\ Loads(Inst) = Inst.rd
    BY <1>3, <2>1 DEF ValueCopy, Loads
  <2>3. A64!Emit(copy)
    BY <2>1, <2>2
  <2> QED BY <1>1, <2>1, <2>2, <2>3, AdrDone DEF at
<1>6. CASE A64!RelocateLdrLiteral /\ LoadsWord(Inst)
  <2>1. Inst.op = "ldr literal" /\ Inst.opc \in {0, 1}
    BY <1>6 DEF LoadsWord
  <2>2. A64!Emit(A64!Mov(A64!X17, at + A64!decode_imm19_offset(Inst)) \o <<A64!LdrX(Inst.rt, A64!X17)>>)
    BY <1>2, <1>6, <2>1 DEF A64!RelocateLdrLiteral
  <2>3. copy = A64!Mov(A64!X17, at + A64!decode_imm19_offset(Inst)) \o <<A64!LdrX(Inst.rt, A64!X17)>> /\ Loads(Inst) = Inst.rt
    BY <1>3, <2>1 DEF ValueCopy, Loads
  <2>4. A64!Emit(copy)
    BY <2>2, <2>3
  <2> QED BY <1>1, <1>6, <2>3, <2>4, LiteralDone DEF at
<1> QED BY <1>4, <1>5, <1>6

-----------------------------------------------------------------------------
(* A branch by way of a literal that is linked to f words further *)
Linked(f) == [A64!Ldr(A64!X17) EXCEPT !.imm19 = f]

Jump(i) == IF i.op = "bl" THEN A64!Blr(A64!X17) ELSE A64!Br(A64!X17)

LEMMA LinkedIs ==
  ASSUME NEW f, NEW at
  PROVE  /\ LoadsWord(Linked(f)) /\ Linked(f).rt = A64!X17 /\ Meant(Linked(f), at) = at + 4 * A64!Signed(f, 19)
         /\ Sized(Linked(f)) /\ Linked(f).len = 4
<1>1. LoadsWord(Linked(f)) /\ Linked(f).rt = A64!X17 /\ Linked(f).imm19 = f
  BY DEF Linked, A64!Ldr, A64!LdrLiteral, LoadsWord
<1>2. Linked(f).op = "ldr literal"
  BY <1>1 DEF LoadsWord
<1>3. Meant(Linked(f), at) = at + 4 * A64!Signed(f, 19)
  <2>1. PICK i : i = Linked(f)
    OBVIOUS
  <2>2. Meant(i, at) = at + 4 * A64!Signed(i.imm19, 19)
    BY <1>2, <2>1 DEF Meant
  <2> QED BY <1>1, <2>1, <2>2
<1>4. Sized(Linked(f)) /\ Linked(f).len = 4
  BY DEF Linked, A64!Ldr, A64!LdrLiteral, Sized
<1> QED BY <1>1, <1>3, <1>4

LEMMA Blr64 ==
  ASSUME NEW n, NEW at, NEW r, NEW e, NEW data
  PROVE  A64!Arm64Execute(A64!Blr(n), at, r, e, data) = At(r[n].v, With(r, A64!LR, Address(at + 4)))
  BY DEF A64!Arm64Execute, A64!Blr, A64!Address, Address, At, With

(* The registers after a branch, where at + 4 is the next instruction *)
LinkTo(i, r, next) == IF i.op = "bl" THEN With(r, A64!LR, Address(next)) ELSE r

LEMMA Jumped ==
  ASSUME NEW i, NEW f, NEW code, NEW at \in Nat, NEW r, A64!X17 \in DOMAIN r, NEW e, NEW data, NEW dst,
         at \in DOMAIN code, code[at] = Linked(f), at + 4 \in DOMAIN code, code[at + 4] = Jump(i),
         at + 4 * A64!Signed(f, 19) \in DOMAIN data, data[at + 4 * A64!Signed(f, 19)] = dst
  PROVE  LET loaded == With(r, A64!X17, Address(dst))
         IN /\ Goes(code, e, data, At(at, r), At(at + 4, loaded))
            /\ Goes(code, e, data, At(at + 4, loaded), At(dst, LinkTo(i, loaded, at + 8)))
<1> DEFINE loaded == With(r, A64!X17, Address(dst))
<1>1. \A p, q : At(p, q).pc = p /\ At(p, q).regs = q
  BY DEF At
<1>2. A64!Memory(data, at + 4 * A64!Signed(f, 19), 8) = Address(dst)
  BY DEF A64!Memory, A64!Address, Address
<1>3. A64!Arm64Execute(Linked(f), at, r, e, data) = At(at + 4, loaded)
  <2>1. A64!Arm64Execute(Linked(f), at, r, e, data)
        = At(at + 4, With(r, Linked(f).rt, A64!Memory(data, Meant(Linked(f), at), 8)))
    BY LinkedIs, Literals64
  <2> QED BY <1>2, <2>1, LinkedIs
<1>4. loaded[A64!X17].v = dst
  BY WithIs DEF Address
<1> HIDE DEF loaded
<1>5. A64!Arm64Execute(Jump(i), at + 4, loaded, e, data) = At(dst, LinkTo(i, loaded, at + 8))
  <2>1. CASE i.op = "bl"
    <3>1. A64!Arm64Execute(A64!Blr(A64!X17), at + 4, loaded, e, data)
          = At(loaded[A64!X17].v, With(loaded, A64!LR, Address((at + 4) + 4)))
      BY Blr64
    <3>2. (at + 4) + 4 = at + 8
      OBVIOUS
    <3> QED BY <1>4, <2>1, <3>1, <3>2 DEF Jump, LinkTo
  <2>2. CASE i.op # "bl"
    <3>1. A64!Arm64Execute(A64!Br(A64!X17), at + 4, loaded, e, data) = At(loaded[A64!X17].v, loaded)
      BY Br64 DEF At
    <3> QED BY <1>4, <2>2, <3>1 DEF Jump, LinkTo
  <2> QED BY <2>1, <2>2
<1> QED BY <1>1, <1>3, <1>5 DEF Goes, Onward, loaded

-----------------------------------------------------------------------------
(* Whether an instruction branches *)
Branches(i, e) ==
  CASE i.op \in {"b", "bl"} -> TRUE
    [] i.op = "b.cond" -> A64!ConditionHolds(i.cond, e)
    [] i.op \in {"cbz", "tbz"} -> e.zero = (i.bit24 = 0)

LEMMA Branched ==
  ASSUME NEW i, i.op \in {"b", "bl", "b.cond", "cbz", "tbz"}, NEW at, NEW r, NEW e, NEW data
  PROVE  A64!Arm64Execute(i, at, r, e, data)
         = IF Branches(i, e) THEN At(Meant(i, at), LinkTo(i, r, at + 4)) ELSE At(at + 4, r)
<1>1. CASE i.op = "b"
  BY <1>1 DEF A64!Arm64Execute, Meant, At, LinkTo, Branches
<1>2. CASE i.op = "bl"
  BY <1>2 DEF A64!Arm64Execute, Meant, At, LinkTo, Branches, With, A64!Address, Address
<1>3. CASE i.op = "b.cond"
  BY <1>3 DEF A64!Arm64Execute, Meant, At, LinkTo, Branches
<1>4. CASE i.op = "cbz"
  BY <1>4 DEF A64!Arm64Execute, Meant, At, LinkTo, Branches
<1>5. CASE i.op = "tbz"
  BY <1>5 DEF A64!Arm64Execute, Meant, At, LinkTo, Branches
<1> QED BY <1>1, <1>2, <1>3, <1>4, <1>5

(* The opposite of a conditional branch, over three instructions *)
Opposite(i) ==
  CASE i.op = "b.cond" -> A64!BCond(i.cond - (i.cond % 2) + A64!Flip(i.cond % 2), 3)
    [] i.op = "cbz" -> A64!CompareB(A64!Flip(i.bit24), 3)
    [] i.op = "tbz" -> A64!TestB(A64!Flip(i.bit24), 3)

(* b.al and b.nv have no opposite. *)
HasOpposite(i) ==
  CASE i.op = "b.cond" -> i.cond \in 0 .. 13
    [] i.op \in {"cbz", "tbz"} -> i.bit24 \in {0, 1}

LEMMA ConditionFlipped ==
  ASSUME NEW c \in 0 .. 13, NEW e, e.holds \in BOOLEAN
  PROVE  A64!ConditionHolds(c - (c % 2) + A64!Flip(c % 2), e) <=> ~A64!ConditionHolds(c, e)
<1>1. PICK d : d = c - (c % 2) + A64!Flip(c % 2)
  OBVIOUS
<1>2. c % 2 \in {0, 1}
  OBVIOUS
<1>3. d \in 0 .. 13 /\ (d % 2 = 0) = ~(c % 2 = 0)
  <2>1. d = c - (c % 2) + (1 - (c % 2))
    BY <1>1 DEF A64!Flip
  <2>2. CASE c % 2 = 0
    <3>1. d = c + 1 /\ c # 13
      BY <2>1, <2>2
    <3>2. d % 2 = 1 /\ d \in 0 .. 13
      BY <2>2, <3>1
    <3> QED BY <2>2, <3>2
  <2>3. CASE c % 2 = 1
    <3>1. d = c - 1 /\ c # 0
      BY <2>1, <2>3
    <3>2. d % 2 = 0 /\ d \in 0 .. 13
      BY <2>3, <3>1
    <3> QED BY <2>3, <3>2
  <2> QED BY <1>2, <2>2, <2>3
<1>4. ~(c >= 14) /\ ~(d >= 14)
  BY <1>3
<1>5. A64!ConditionHolds(c, e) <=> (e.holds = (c % 2 = 0))
  BY <1>4 DEF A64!ConditionHolds
<1>6. A64!ConditionHolds(d, e) <=> (e.holds = (d % 2 = 0))
  BY <1>4 DEF A64!ConditionHolds
<1> QED BY <1>1, <1>3, <1>5, <1>6

LEMMA OppositeIs ==
  ASSUME NEW i, i.op \in {"b.cond", "cbz", "tbz"}, HasOpposite(i), NEW at \in Nat, NEW r, NEW e, NEW data,
         e.holds \in BOOLEAN, e.zero \in BOOLEAN
  PROVE  /\ Sized(Opposite(i)) /\ Opposite(i).len = 4
         /\ A64!Arm64Execute(Opposite(i), at, r, e, data) = At(IF Branches(i, e) THEN at + 4 ELSE at + 12, r)
<1>1. 4 * A64!Signed(3, 19) = 12
  BY DEF A64!Signed
<1>2. \A b \in {0, 1} : (e.zero = (A64!Flip(b) = 0)) <=> ~(e.zero = (b = 0))
  <2>1. A64!Flip(0) = 1 /\ A64!Flip(1) = 0
    BY DEF A64!Flip
  <2> QED BY <2>1
<1>3. ASSUME NEW o, o.op \in {"b.cond", "cbz", "tbz"}, Meant(o, at) = at + 12, Branches(o, e) <=> ~Branches(i, e)
      PROVE  A64!Arm64Execute(o, at, r, e, data) = At(IF Branches(i, e) THEN at + 4 ELSE at + 12, r)
  <2>1. A64!Arm64Execute(o, at, r, e, data) = IF Branches(o, e) THEN At(at + 12, LinkTo(o, r, at + 4)) ELSE At(at + 4, r)
    BY <1>3, Branched
  <2>2. LinkTo(o, r, at + 4) = r
    BY <1>3 DEF LinkTo
  <2> QED BY <1>3, <2>1, <2>2
<1>4. \A c, b : /\ Sized(A64!BCond(c, 3)) /\ A64!BCond(c, 3).len = 4
               /\ Sized(A64!CompareB(b, 3)) /\ A64!CompareB(b, 3).len = 4
               /\ Sized(A64!TestB(b, 3)) /\ A64!TestB(b, 3).len = 4
  BY DEF A64!BCond, A64!CompareB, A64!TestB, Sized
<1>5. CASE i.op = "b.cond"
  <2>1. PICK c : c = i.cond - (i.cond % 2) + A64!Flip(i.cond % 2)
    OBVIOUS
  <2>2. Opposite(i) = A64!BCond(c, 3)
    BY <1>5, <2>1 DEF Opposite
  <2>3. PICK o : o = A64!BCond(c, 3)
    OBVIOUS
  <2>4. o.op = "b.cond" /\ o.cond = c /\ o.imm19 = 3
    BY <2>3 DEF A64!BCond
  <2>5. Meant(o, at) = at + 4 * A64!Signed(3, 19)
    BY <2>4 DEF Meant
  <2>6. Branches(o, e) <=> A64!ConditionHolds(c, e)
    BY <2>4 DEF Branches
  <2>7. Branches(i, e) <=> A64!ConditionHolds(i.cond, e)
    BY <1>5 DEF Branches
  <2>8. i.cond \in 0 .. 13
    BY <1>5 DEF HasOpposite
  <2>9. Branches(o, e) <=> ~Branches(i, e)
    BY <2>1, <2>6, <2>7, <2>8, ConditionFlipped
  <2>10. Meant(o, at) = at + 12
    BY <1>1, <2>5
  <2>11. A64!Arm64Execute(o, at, r, e, data) = At(IF Branches(i, e) THEN at + 4 ELSE at + 12, r)
    BY <1>3, <2>4, <2>9, <2>10
  <2> QED BY <1>4, <2>2, <2>3, <2>11
<1>6. CASE i.op = "cbz"
  <2>1. PICK b : b = A64!Flip(i.bit24)
    OBVIOUS
  <2>2. Opposite(i) = A64!CompareB(b, 3)
    BY <1>6, <2>1 DEF Opposite
  <2>3. PICK o : o = A64!CompareB(b, 3)
    OBVIOUS
  <2>4. o.op = "cbz" /\ o.bit24 = b /\ o.imm19 = 3
    BY <2>3 DEF A64!CompareB
  <2>5. Meant(o, at) = at + 4 * A64!Signed(3, 19)
    BY <2>4 DEF Meant
  <2>6. Branches(o, e) <=> (e.zero = (b = 0))
    BY <2>4 DEF Branches
  <2>7. Branches(i, e) <=> (e.zero = (i.bit24 = 0))
    BY <1>6 DEF Branches
  <2>8. i.bit24 \in {0, 1}
    BY <1>6 DEF HasOpposite
  <2>9. Branches(o, e) <=> ~Branches(i, e)
    BY <1>2, <2>1, <2>6, <2>7, <2>8
  <2>10. Meant(o, at) = at + 12
    BY <1>1, <2>5
  <2>11. A64!Arm64Execute(o, at, r, e, data) = At(IF Branches(i, e) THEN at + 4 ELSE at + 12, r)
    BY <1>3, <2>4, <2>9, <2>10
  <2> QED BY <1>4, <2>2, <2>3, <2>11
<1>7. CASE i.op = "tbz"
  <2>1. PICK b : b = A64!Flip(i.bit24)
    OBVIOUS
  <2>2. Opposite(i) = A64!TestB(b, 3)
    BY <1>7, <2>1 DEF Opposite
  <2>3. PICK o : o = A64!TestB(b, 3)
    OBVIOUS
  <2>4. o.op = "tbz" /\ o.bit24 = b /\ o.imm14 = 3
    BY <2>3 DEF A64!TestB
  <2>5. Meant(o, at) = at + 4 * A64!Signed(3, 14)
    BY <2>4 DEF Meant
  <2>6. Branches(o, e) <=> (e.zero = (b = 0))
    BY <2>4 DEF Branches
  <2>7. Branches(i, e) <=> (e.zero = (i.bit24 = 0))
    BY <1>7 DEF Branches
  <2>8. i.bit24 \in {0, 1}
    BY <1>7 DEF HasOpposite
  <2>9. Branches(o, e) <=> ~Branches(i, e)
    BY <1>2, <2>1, <2>6, <2>7, <2>8
  <2>10. Meant(o, at) = at + 12
    <3>1. 4 * A64!Signed(3, 14) = 12
      BY DEF A64!Signed
    <3> QED BY <2>5, <3>1
  <2>11. A64!Arm64Execute(o, at, r, e, data) = At(IF Branches(i, e) THEN at + 4 ELSE at + 12, r)
    BY <1>3, <2>4, <2>9, <2>10
  <2> QED BY <1>4, <2>2, <2>3, <2>11
<1> QED BY <1>5, <1>6, <1>7

-----------------------------------------------------------------------------
LEMMA Prefixed ==
  /\ \A x, y : << >> \o <<x, y>> = <<x, y>>
  /\ \A x, y, z : <<x>> \o <<y, z>> = <<x, y, z>>
<1>1. ASSUME NEW x, NEW y PROVE << >> \o <<x, y>> = <<x, y>>
  <2> DEFINE S == {x, y}
  <2>1. << >> \in Seq(S) /\ <<x, y>> \in Seq(S)
    OBVIOUS
  <2> QED BY <2>1
<1>2. ASSUME NEW x, NEW y, NEW z PROVE <<x>> \o <<y, z>> = <<x, y, z>>
  <2> DEFINE S == {x, y, z}
  <2>1. <<x>> \in Seq(S) /\ <<y, z>> \in Seq(S) /\ <<x, y, z>> \in Seq(S)
    OBVIOUS
  <2>2. <<x>> \o <<y, z>> \in Seq(S) /\ Len(<<x>> \o <<y, z>>) = 3
        /\ \A i \in 1 .. 3 : (<<x>> \o <<y, z>>)[i] = <<x, y, z>>[i]
    BY <2>1, ConcatProperties
  <2>3. Len(<<x, y, z>>) = 3
    OBVIOUS
  <2> QED BY <2>1, <2>2, <2>3, SeqEqual
<1> QED BY <1>1, <1>2

LEMMA PairPlaced ==
  ASSUME NEW x, NEW y, Sized(x), Sized(y), x.len = 4, y.len = 4, NEW p \in Nat, NEW s, s = <<x, y>>
  PROVE  /\ Length(s) = 8
         /\ p \in DOMAIN Placed(s, p) /\ Placed(s, p)[p] = x
         /\ p + 4 \in DOMAIN Placed(s, p) /\ Placed(s, p)[p + 4] = y
<1>1. Insts(s) /\ Len(s) = 2 /\ s[1] = x /\ s[2] = y
  BY Two
<1>2. \A i \in 1 .. Len(s) : s[i].len = 4
  <2>1. \A i \in 1 .. 2 : i = 1 \/ i = 2
    OBVIOUS
  <2> QED BY <1>1, <2>1
<1>3. /\ Length(s) = 4 * Len(s)
      /\ \A i \in 1 .. Len(s) : p + 4 * (i - 1) \in DOMAIN Placed(s, p) /\ Placed(s, p)[p + 4 * (i - 1)] = s[i]
  BY <1>1, <1>2, PlacedWords
<1>4. 1 \in 1 .. Len(s) /\ 2 \in 1 .. Len(s) /\ p + 4 * (1 - 1) = p /\ p + 4 * (2 - 1) = p + 4 /\ 4 * 2 = 8
  BY <1>1
<1>5. p \in DOMAIN Placed(s, p) /\ Placed(s, p)[p] = s[1]
  BY <1>3, <1>4
<1>6. p + 4 \in DOMAIN Placed(s, p) /\ Placed(s, p)[p + 4] = s[2]
  BY <1>3, <1>4
<1> QED BY <1>1, <1>3, <1>4, <1>5, <1>6

LEMMA TriplePlaced ==
  ASSUME NEW x, NEW y, NEW z, Sized(x), Sized(y), Sized(z), x.len = 4, y.len = 4, z.len = 4,
         NEW p \in Nat, NEW s, s = <<x, y, z>>
  PROVE  /\ Length(s) = 12
         /\ p \in DOMAIN Placed(s, p) /\ Placed(s, p)[p] = x
         /\ p + 4 \in DOMAIN Placed(s, p) /\ Placed(s, p)[p + 4] = y
         /\ p + 8 \in DOMAIN Placed(s, p) /\ Placed(s, p)[p + 8] = z
<1>1. Insts(s) /\ Len(s) = 3 /\ s[1] = x /\ s[2] = y /\ s[3] = z
  BY Three
<1>2. \A i \in 1 .. Len(s) : s[i].len = 4
  <2>1. \A i \in 1 .. 3 : i = 1 \/ i = 2 \/ i = 3
    OBVIOUS
  <2> QED BY <1>1, <2>1
<1>3. /\ Length(s) = 4 * Len(s)
      /\ \A i \in 1 .. Len(s) : p + 4 * (i - 1) \in DOMAIN Placed(s, p) /\ Placed(s, p)[p + 4 * (i - 1)] = s[i]
  BY <1>1, <1>2, PlacedWords
<1>4. /\ 1 \in 1 .. Len(s) /\ 2 \in 1 .. Len(s) /\ 3 \in 1 .. Len(s) /\ 4 * 3 = 12
      /\ p + 4 * (1 - 1) = p /\ p + 4 * (2 - 1) = p + 4 /\ p + 4 * (3 - 1) = p + 8
  BY <1>1
<1>5. p \in DOMAIN Placed(s, p) /\ Placed(s, p)[p] = s[1]
  BY <1>3, <1>4
<1>6. p + 4 \in DOMAIN Placed(s, p) /\ Placed(s, p)[p + 4] = s[2]
  BY <1>3, <1>4
<1>7. p + 8 \in DOMAIN Placed(s, p) /\ Placed(s, p)[p + 8] = s[3]
  BY <1>3, <1>4
<1> QED BY <1>1, <1>3, <1>4, <1>5, <1>6, <1>7

-----------------------------------------------------------------------------
(* Both threads have branched: they differ in X17 and in where bl links to. *)
LEMMA LandsAs ==
  ASSUME NEW i, NEW r, NEW dst, NEW next, NEW end, NEW u, NEW o,
         u = At(dst, LinkTo(i, With(r, A64!X17, Address(dst)), end)), o = At(dst, LinkTo(i, r, next))
  PROVE  StandsFor(u, o, next, end)
<1>1. PICK x, l : x = A64!X17 /\ l = A64!LR
  OBVIOUS
<1> DEFINE loaded == With(r, x, Address(dst))
<1>2. /\ u.pc = dst /\ o.pc = dst
      /\ u.regs = LinkTo(i, loaded, end) /\ o.regs = LinkTo(i, r, next)
  BY <1>1 DEF At
<1>3. DOMAIN loaded = DOMAIN r /\ \A n \in DOMAIN r \ {x} : loaded[n] = r[n]
  <2>1. DOMAIN loaded = DOMAIN r
    BY DEF With
  <2>2. ASSUME NEW n \in DOMAIN r \ {x} PROVE loaded[n] = r[n]
    BY <2>2 DEF With
  <2> QED BY <2>1, <2>2
<1> HIDE DEF loaded
<1>4. CASE i.op = "bl"
  <2>1. u.regs = With(loaded, l, Address(end)) /\ o.regs = With(r, l, Address(next))
    BY <1>1, <1>2, <1>4 DEF LinkTo
  <2>2. DOMAIN u.regs = DOMAIN r /\ DOMAIN o.regs = DOMAIN r
    BY <1>3, <2>1, WithIs
  <2>3. ASSUME NEW n \in DOMAIN r \ {x}
        PROVE  u.regs[n] = o.regs[n] \/ (o.regs[n] = Address(next) /\ u.regs[n] = Address(end))
    <3>1. CASE n = l
      BY <1>3, <2>1, <2>3, <3>1, WithIs
    <3>2. CASE n # l
      BY <1>3, <2>1, <2>3, <3>2, WithIs
    <3> QED BY <3>1, <3>2
  <2> QED BY <1>1, <1>2, <2>2, <2>3 DEF StandsFor
<1>5. CASE i.op # "bl"
  <2>1. u.regs = loaded /\ o.regs = r
    BY <1>2, <1>5 DEF LinkTo
  <2> QED BY <1>1, <1>2, <1>3, <2>1 DEF StandsFor
<1> QED BY <1>4, <1>5

Unconditional(i) == i.op \in {"b", "bl"}
Conditional(i) == i.op \in {"b.cond", "cbz", "tbz"}

LEMMA UnconditionalDone ==
  ASSUME NEW i, Unconditional(i), NEW at \in Nat, NEW f, NEW p \in Nat, NEW r, A64!X17 \in DOMAIN r, NEW e, NEW data,
         p + 4 * A64!Signed(f, 19) \in DOMAIN data, data[p + 4 * A64!Signed(f, 19)] = Meant(i, at),
         NEW copy, copy = <<Linked(f), Jump(i)>>
  PROVE  DoesAs(copy, i, at, p, r, e, data)
<1>1. PICK dst : dst = Meant(i, at)
  OBVIOUS
<1> DEFINE loaded == With(r, A64!X17, Address(dst))
           code == Placed(copy, p)
           u == At(dst, LinkTo(i, loaded, p + 8))
           o == A64!Arm64Execute(i, at, r, e, << >>)
<1>2. Sized(Jump(i)) /\ Jump(i).len = 4
  BY DEF Jump, A64!Br, A64!Blr, Sized
<1>3. /\ Length(copy) = 8 /\ p \in DOMAIN code /\ code[p] = Linked(f)
      /\ p + 4 \in DOMAIN code /\ code[p + 4] = Jump(i)
  BY <1>2, LinkedIs, PairPlaced
<1> HIDE DEF code
<1>4. Goes(code, e, data, At(p, r), At(p + 4, loaded)) /\ Goes(code, e, data, At(p + 4, loaded), u)
  BY <1>1, <1>3, Jumped
<1>5. o = At(dst, LinkTo(i, r, at + 4))
  <2>1. Branches(i, e) /\ i.op \in {"b", "bl", "b.cond", "cbz", "tbz"}
    BY DEF Branches, Unconditional
  <2> QED BY <1>1, <2>1, Branched
<1>6. StandsFor(u, o, at + 4, p + 8)
  BY <1>5, LandsAs
<1> HIDE DEF u, o, loaded
<1>7. Through(code, e, data, At(p, r), u)
  BY <1>4, ThroughFirst, ThroughNext
<1> QED BY <1>3, <1>6, <1>7 DEF DoesAs, code, o

LEMMA ConditionalDone ==
  ASSUME NEW i, Conditional(i), HasOpposite(i), NEW at \in Nat, NEW f, NEW p \in Nat, NEW r, A64!X17 \in DOMAIN r,
         NEW e, e.holds \in BOOLEAN, e.zero \in BOOLEAN, NEW data,
         (p + 4) + 4 * A64!Signed(f, 19) \in DOMAIN data, data[(p + 4) + 4 * A64!Signed(f, 19)] = Meant(i, at),
         NEW copy, copy = <<Opposite(i), Linked(f), Jump(i)>>
  PROVE  DoesAs(copy, i, at, p, r, e, data)
<1>1. PICK dst, here : dst = Meant(i, at) /\ here = p + 4
  OBVIOUS
<1> DEFINE loaded == With(r, A64!X17, Address(dst))
           code == Placed(copy, p)
           taken == At(dst, LinkTo(i, loaded, here + 8))
           o == A64!Arm64Execute(i, at, r, e, << >>)
<1>2. Sized(Jump(i)) /\ Jump(i).len = 4
  BY DEF Jump, A64!Br, A64!Blr, Sized
<1>3. /\ Sized(Opposite(i)) /\ Opposite(i).len = 4
      /\ A64!Arm64Execute(Opposite(i), p, r, e, data) = At(IF Branches(i, e) THEN p + 4 ELSE p + 12, r)
  BY OppositeIs DEF Conditional
<1>4. here \in Nat /\ here + 4 = p + 8 /\ here + 8 = p + 12
  BY <1>1
<1>5. /\ Length(copy) = 12 /\ p \in DOMAIN code /\ code[p] = Opposite(i)
      /\ here \in DOMAIN code /\ code[here] = Linked(f)
      /\ here + 4 \in DOMAIN code /\ code[here + 4] = Jump(i)
  <2>1. /\ Length(copy) = 12 /\ p \in DOMAIN code /\ code[p] = Opposite(i)
        /\ p + 4 \in DOMAIN code /\ code[p + 4] = Linked(f)
        /\ p + 8 \in DOMAIN code /\ code[p + 8] = Jump(i)
    BY <1>2, <1>3, LinkedIs, TriplePlaced
  <2> HIDE DEF code
  <2> QED BY <1>1, <1>4, <2>1
<1> HIDE DEF code
<1>6. Goes(code, e, data, At(p, r), At(IF Branches(i, e) THEN p + 4 ELSE p + 12, r))
  <2>1. At(p, r).pc = p /\ At(p, r).regs = r
    BY DEF At
  <2> QED BY <1>3, <1>5, <2>1 DEF Goes, Onward
<1>7. o = IF Branches(i, e) THEN At(dst, LinkTo(i, r, at + 4)) ELSE At(at + 4, r)
  <2>1. i.op \in {"b", "bl", "b.cond", "cbz", "tbz"}
    BY DEF Conditional
  <2> QED BY <1>1, <2>1, Branched
<1>8. CASE Branches(i, e)
  <2>1. here + 4 * A64!Signed(f, 19) \in DOMAIN data /\ data[here + 4 * A64!Signed(f, 19)] = dst
    BY <1>1
  <2>2. Goes(code, e, data, At(here, r), At(here + 4, loaded)) /\ Goes(code, e, data, At(here + 4, loaded), taken)
    BY <1>4, <1>5, <2>1, Jumped
  <2>3. StandsFor(taken, o, at + 4, p + 12)
    BY <1>4, <1>7, <1>8, LandsAs
  <2>4. Goes(code, e, data, At(p, r), At(here, r))
    BY <1>1, <1>6, <1>8
  <2> HIDE DEF taken, o, loaded
  <2>5. Through(code, e, data, At(p, r), At(here, r))
    BY <2>4, ThroughFirst
  <2>6. Through(code, e, data, At(p, r), At(here + 4, loaded))
    BY <2>2, <2>5, ThroughNext
  <2>7. Through(code, e, data, At(p, r), taken)
    BY <2>2, <2>6, ThroughNext
  <2> QED BY <1>5, <2>3, <2>7 DEF DoesAs, code, o
<1>9. CASE ~Branches(i, e)
  <2>1. Through(code, e, data, At(p, r), At(p + 12, r))
    BY <1>6, <1>9, ThroughFirst
  <2>2. StandsFor(At(p + 12, r), At(at + 4, r), at + 4, p + 12)
    BY DEF StandsFor, At
  <2> QED BY <1>5, <1>7, <1>9, <2>1, <2>2 DEF DoesAs, code
<1> QED BY <1>8, <1>9

LEMMA TargetDecoded ==
  ASSUME NEW i, Encoded(i), NEW at
  PROVE  /\ i.op \in {"b", "bl"} => at + A64!decode_imm26_offset(i) = Meant(i, at)
         /\ i.op \in {"b.cond", "cbz"} => at + A64!decode_imm19_offset(i) = Meant(i, at)
         /\ i.op = "tbz" => at + A64!decode_imm14_offset(i) = Meant(i, at)
<1>1. CASE i.op \in {"b", "bl"}
  <2>1. A64!decode_imm26_offset(i) = 4 * A64!Signed(i.imm26, 26)
    BY <1>1, Decoded64 DEF Encoded
  <2> QED BY <1>1, <2>1 DEF Meant
<1>2. CASE i.op \in {"b.cond", "cbz"}
  <2>1. A64!decode_imm19_offset(i) = 4 * A64!Signed(i.imm19, 19)
    BY <1>2, Decoded64 DEF Encoded
  <2> QED BY <1>2, <2>1 DEF Meant
<1>3. CASE i.op = "tbz"
  <2>1. A64!decode_imm14_offset(i) = 4 * A64!Signed(i.imm14, 14)
    BY <1>3, Decoded64 DEF Encoded
  <2> QED BY <1>3, <2>1 DEF Meant
<1> QED BY <1>1, <1>2, <1>3

(* A copy of a branch does what the branch does, once its literal is linked to
   the target. *)
BranchDoes(prefix, branch, inst, at) ==
  \A p \in Nat : \A f, r, e, data :
    LET literal == (p + Length(prefix)) + 4 * A64!Signed(f, 19)
    IN /\ A64!X17 \in DOMAIN r /\ e.holds \in BOOLEAN /\ e.zero \in BOOLEAN
       /\ literal \in DOMAIN data /\ data[literal] = Meant(inst, at)
       => DoesAs(prefix \o <<Linked(f), branch>>, inst, at, p, r, e, data)

LEMMA UnconditionalDoes ==
  ASSUME NEW i, Unconditional(i), NEW at \in Nat
  PROVE  BranchDoes(<< >>, Jump(i), i, at)
<1> SUFFICES ASSUME NEW p \in Nat, NEW f, NEW r, NEW e, NEW data, A64!X17 \in DOMAIN r,
                    (p + Length(<< >>)) + 4 * A64!Signed(f, 19) \in DOMAIN data,
                    data[(p + Length(<< >>)) + 4 * A64!Signed(f, 19)] = Meant(i, at)
             PROVE  DoesAs(<< >> \o <<Linked(f), Jump(i)>>, i, at, p, r, e, data)
  BY DEF BranchDoes
<1>1. p + Length(<< >>) = p
  <2>1. Length(<< >>) = 0
    BY None
  <2> QED BY <2>1
<1>2. PICK copy : copy = <<Linked(f), Jump(i)>>
  OBVIOUS
<1>3. << >> \o <<Linked(f), Jump(i)>> = copy
  BY <1>2, Prefixed
<1>4. p + 4 * A64!Signed(f, 19) \in DOMAIN data /\ data[p + 4 * A64!Signed(f, 19)] = Meant(i, at)
  BY <1>1
<1>5. DoesAs(copy, i, at, p, r, e, data)
  BY <1>2, <1>4, UnconditionalDone
<1> QED BY <1>3, <1>5

LEMMA ConditionalDoes ==
  ASSUME NEW i, Conditional(i), HasOpposite(i), NEW at \in Nat, NEW prefix, prefix = <<Opposite(i)>>
  PROVE  BranchDoes(prefix, A64!Br(A64!X17), i, at)
<1> SUFFICES ASSUME NEW p \in Nat, NEW f, NEW r, NEW e, NEW data, A64!X17 \in DOMAIN r,
                    e.holds \in BOOLEAN, e.zero \in BOOLEAN,
                    (p + Length(prefix)) + 4 * A64!Signed(f, 19) \in DOMAIN data,
                    data[(p + Length(prefix)) + 4 * A64!Signed(f, 19)] = Meant(i, at)
             PROVE  DoesAs(prefix \o <<Linked(f), A64!Br(A64!X17)>>, i, at, p, r, e, data)
  BY DEF BranchDoes
<1>1. Length(prefix) = 4
  <2>1. Sized(Opposite(i)) /\ Opposite(i).len = 4
    BY OppositeIs DEF Conditional
  <2> QED BY <2>1, One
<1>2. Jump(i) = A64!Br(A64!X17)
  BY DEF Jump, Conditional
<1>3. PICK copy : copy = <<Opposite(i), Linked(f), Jump(i)>>
  OBVIOUS
<1>4. prefix \o <<Linked(f), A64!Br(A64!X17)>> = copy
  BY <1>2, <1>3, Prefixed
<1>5. (p + 4) + 4 * A64!Signed(f, 19) \in DOMAIN data /\ data[(p + 4) + 4 * A64!Signed(f, 19)] = Meant(i, at)
  BY <1>1
<1>6. DoesAs(copy, i, at, p, r, e, data)
  BY <1>3, <1>5, ConditionalDone
<1> QED BY <1>4, <1>6

(* What relocation emits for a branch gets where the branch gets, taken or not,
   with the link that returns to what follows: a step of the refinement of
   OriginalCode. *)
THEOREM BranchesCopied ==
  ASSUME CursorInv, Encoded(Inst),
         \/ A64!RelocateBranch
         \/ HasOpposite(Inst) /\ (A64!RelocateBCond \/ A64!RelocateCompareB \/ A64!RelocateTestB)
  PROVE  \E prefix, branch :
           /\ A64!LoadAndBranch(prefix, Meant(Inst, Src + cursor), branch)
           /\ BranchDoes(prefix, branch, Inst, Src + cursor)
<1> DEFINE at == Src + cursor
<1>1. at \in Nat
  <2>1. WellFormed(fragment) /\ cursor \in 0 .. Bytes(fragment) /\ Bytes(fragment) \in Nat
    BY Fragments
  <2>2. Src \in Nat
    BY <2>1 DEF WellFormed, Src
  <2> QED BY <2>1, <2>2
<1>2. A64!Inst = Inst /\ A64!relo_cur_src_vmaddr = at
  BY SameLoop DEF A64!relo_cur_src_vmaddr
<1> HIDE DEF at
<1>3. CASE A64!RelocateBranch
  <2>1. Inst.op \in {"b", "bl"} /\ A64!LoadAndBranch(<< >>, at + A64!decode_imm26_offset(Inst), Jump(Inst))
    BY <1>2, <1>3 DEF A64!RelocateBranch, Jump
  <2>2. A64!LoadAndBranch(<< >>, Meant(Inst, at), Jump(Inst))
    BY <2>1, TargetDecoded
  <2>3. BranchDoes(<< >>, Jump(Inst), Inst, at)
    BY <1>1, <2>1, UnconditionalDoes DEF Unconditional
  <2> QED BY <2>2, <2>3 DEF at
<1>4. CASE HasOpposite(Inst) /\ A64!RelocateBCond
  <2>1. PICK prefix : prefix = <<Opposite(Inst)>>
    OBVIOUS
  <2>2. Inst.op = "b.cond"
    BY <1>2, <1>4 DEF A64!RelocateBCond
  <2>3. A64!LoadAndBranch(prefix, at + A64!decode_imm19_offset(Inst), A64!Br(A64!X17))
    BY <1>2, <1>4, <2>1, <2>2 DEF A64!RelocateBCond, Opposite
  <2>4. A64!LoadAndBranch(prefix, Meant(Inst, at), A64!Br(A64!X17))
    BY <2>2, <2>3, TargetDecoded
  <2>5. BranchDoes(prefix, A64!Br(A64!X17), Inst, at)
    BY <1>1, <1>4, <2>1, <2>2, ConditionalDoes DEF Conditional
  <2> QED BY <2>4, <2>5 DEF at
<1>5. CASE HasOpposite(Inst) /\ A64!RelocateCompareB
  <2>1. PICK prefix : prefix = <<Opposite(Inst)>>
    OBVIOUS
  <2>2. Inst.op = "cbz"
    BY <1>2, <1>5 DEF A64!RelocateCompareB
  <2>3. A64!LoadAndBranch(prefix, at + A64!decode_imm19_offset(Inst), A64!Br(A64!X17))
    BY <1>2, <1>5, <2>1, <2>2 DEF A64!RelocateCompareB, Opposite
  <2>4. A64!LoadAndBranch(prefix, Meant(Inst, at), A64!Br(A64!X17))
    BY <2>2, <2>3, TargetDecoded
  <2>5. BranchDoes(prefix, A64!Br(A64!X17), Inst, at)
    BY <1>1, <1>5, <2>1, <2>2, ConditionalDoes DEF Conditional
  <2> QED BY <2>4, <2>5 DEF at
<1>6. CASE HasOpposite(Inst) /\ A64!RelocateTestB
  <2>1. PICK prefix : prefix = <<Opposite(Inst)>>
    OBVIOUS
  <2>2. Inst.op = "tbz"
    BY <1>2, <1>6 DEF A64!RelocateTestB
  <2>3. A64!LoadAndBranch(prefix, at + A64!decode_imm14_offset(Inst), A64!Br(A64!X17))
    BY <1>2, <1>6, <2>1, <2>2 DEF A64!RelocateTestB, Opposite
  <2>4. A64!LoadAndBranch(prefix, Meant(Inst, at), A64!Br(A64!X17))
    BY <2>2, <2>3, TargetDecoded
  <2>5. BranchDoes(prefix, A64!Br(A64!X17), Inst, at)
    BY <1>1, <1>6, <2>1, <2>2, ConditionalDoes DEF Conditional
  <2> QED BY <2>4, <2>5 DEF at
<1> QED BY <1>3, <1>4, <1>5, <1>6

-----------------------------------------------------------------------------
LEMMA FieldSigned ==
  ASSUME NEW w \in Nat \ {0}, NEW x \in -(2^(w - 1)) .. 2^(w - 1) - 1
  PROVE  A64!Signed(A64!Field(x, w), w) = x
  BY FieldOf DEF A64!Signed, A64!Field

(* The datum of a label is behind the code, where the labels before it leave
   it. *)
LEMMA DatumPlaced ==
  ASSUME NEW ls, \E S : ls \in Seq(S), NEW n \in Nat, NEW i \in 1 .. Len(ls),
         NEW data, data = [k \in DOMAIN ls |-> A64!Datum(ls[k].v, 8)]
  PROVE  n + 8 * (i - 1) \in DOMAIN Placed(data, n) /\ Placed(data, n)[n + 8 * (i - 1)] = Datum(ls[i].v, 8)
<1>1. DOMAIN ls = 1 .. Len(ls) /\ Len(ls) \in Nat
  BY LenProperties
<1>2. \A v : Sized(A64!Datum(v, 8)) /\ A64!Datum(v, 8).len = 8 /\ A64!Datum(v, 8) = Datum(v, 8)
  BY DEF A64!Datum, Datum, Sized
<1> DEFINE D == {A64!Datum(ls[k].v, 8) : k \in 1 .. Len(ls)}
<1>3. data \in Seq(D) /\ Len(data) = Len(ls) /\ \A k \in 1 .. Len(ls) : data[k] = A64!Datum(ls[k].v, 8)
  BY <1>1
<1>4. \E S : data \in Seq(S)
  BY <1>3
<1>5. \A k \in 1 .. Len(data) : Sized(data[k]) /\ data[k].len = 8
  BY <1>2, <1>3
<1>6. Insts(data)
  BY <1>4, <1>5 DEF Insts
<1>7. i \in 1 .. Len(data) /\ data[i] = Datum(ls[i].v, 8)
  BY <1>2, <1>3
<1>8. n + 8 * (i - 1) \in DOMAIN Placed(data, n) /\ Placed(data, n)[n + 8 * (i - 1)] = data[i]
  BY <1>5, <1>6, <1>7, PlacedEvenly
<1> QED BY <1>7, <1>8

(* RelocBind links the load of a copied branch to the datum that holds its
   target, when no other label refers to the load and the datum is within a
   megabyte. *)
THEOREM LabelLinked ==
  ASSUME NEW code, NEW n \in Nat, Fits(code, n), NEW ls, \E S : ls \in Seq(S),
         NEW i \in 1 .. Len(ls), NEW o \in DOMAIN code, code[o] = A64!Ldr(A64!X17),
         \A k \in 1 .. Len(ls) : o \in ls[k].refs <=> k = i,
         ((n + 8 * (i - 1)) - o) % 4 = 0, (n + 8 * (i - 1)) - o < 2^20
  PROVE  LET bound == n + 8 * (i - 1)
             bytes == A64!RelocBind(code, n, ls)
         IN \E f : /\ bytes[o] = Linked(f) /\ o + 4 * A64!Signed(f, 19) = bound
                   /\ bound \in DOMAIN bytes /\ bytes[bound] = Datum(ls[i].v, 8)
<1> DEFINE at(k) == n + 8 * (k - 1)
           linked == [q \in DOMAIN code |->
                        IF \E k \in DOMAIN ls : q \in ls[k].refs
                        THEN LET k == CHOOSE j \in DOMAIN ls : q \in ls[j].refs
                             IN A64!encode_imm19_offset(code[q], at(k) - q)
                        ELSE code[q]]
           data == [k \in DOMAIN ls |-> A64!Datum(ls[k].v, 8)]
           words == (at(i) - o) \div 4
           f == A64!Field(words, 19)
           bytes == A64!RelocBind(code, n, ls)
<1>1. bytes = Overlay(linked, Placed(data, n))
  BY Same DEF A64!RelocBind
<1>2. DOMAIN ls = 1 .. Len(ls) /\ Len(ls) \in Nat
  BY LenProperties
<1>3. linked[o] = Linked(f)
  <2>1. i \in DOMAIN ls /\ o \in ls[i].refs
    BY <1>2
  <2>2. (CHOOSE j \in DOMAIN ls : o \in ls[j].refs) = i
    BY <1>2, <2>1
  <2>3. linked[o] = A64!encode_imm19_offset(code[o], at(i) - o)
    BY <2>1, <2>2
  <2> HIDE DEF linked
  <2> QED BY <2>3 DEF A64!encode_imm19_offset, Linked
<1>4. DOMAIN linked = DOMAIN code
  OBVIOUS
<1>5. at(i) \in DOMAIN Placed(data, n) /\ Placed(data, n)[at(i)] = Datum(ls[i].v, 8)
  BY DatumPlaced
<1>6. at(i) \in Nat /\ at(i) >= n
  OBVIOUS
<1> HIDE DEF linked, data, bytes
<1>7. o \in Nat /\ o < n
  <2>1. o \in Nat /\ Sized(code[o]) /\ o + code[o].len <= n
    BY DEF Fits
  <2> QED BY <2>1 DEF Sized
<1>8. at(i) \notin DOMAIN code
  <2> SUFFICES ASSUME at(i) \in DOMAIN code PROVE FALSE
    OBVIOUS
  <2>1. Sized(code[at(i)]) /\ at(i) + code[at(i)].len <= n
    BY DEF Fits
  <2> QED BY <1>6, <2>1 DEF Sized
<1>9. bytes[o] = linked[o] /\ at(i) \in DOMAIN bytes /\ bytes[at(i)] = Datum(ls[i].v, 8)
  <2> HIDE DEF at
  <2> QED BY <1>1, <1>4, <1>5, <1>8 DEF Overlay
<1>10. o + 4 * A64!Signed(f, 19) = at(i)
  <2>1. 2^18 \in Nat /\ 2^20 = 4 * 2^18
    <3>1. 2^(18 + 1) = 2 * 2^18 /\ 2^(19 + 1) = 2 * 2^19 /\ 2^18 \in Nat
      BY PowerDoubles
    <3> QED BY <3>1
  <2>2. at(i) - o \in Nat /\ (at(i) - o) % 4 = 0 /\ at(i) - o < 2^20
    BY <1>6, <1>7
  <2>3. words \in Nat /\ 4 * words = at(i) - o
    <3> DEFINE d == at(i) - o
    <3>1. d \in Nat /\ d % 4 = 0
      BY <2>2
    <3> HIDE DEF d
    <3>2. d \div 4 \in Nat /\ 4 * (d \div 4) = d
      BY <3>1
    <3> QED BY <3>2 DEF d
  <2> HIDE DEF words, at
  <2>4. PICK w \in Nat \ {0} : w = 19
    OBVIOUS
  <2>5. words \in -(2^(w - 1)) .. 2^(w - 1) - 1
    <3>1. words < 2^18 /\ -(2^18) <= words
      BY <2>1, <2>2, <2>3
    <3>2. w - 1 = 18
      BY <2>4
    <3> QED BY <2>1, <2>3, <3>1, <3>2
  <2>6. A64!Signed(A64!Field(words, w), w) = words
    BY <2>5, FieldSigned
  <2>7. A64!Signed(f, 19) = words
    BY <2>4, <2>6
  <2> QED BY <1>6, <1>7, <2>3, <2>7
<1> QED BY <1>3, <1>9, <1>10 DEF bytes
=============================================================================
