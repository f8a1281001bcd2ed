-------------------------- MODULE ProcReader_proofs --------------------------
(***************************************************************************)
(* For any bytes, any buffer and any notion of a dirty line, a line        *)
(* sanitizer returns exactly the bytes LineFilter keeps, in their order,   *)
(* and sanitize_status, which writes over the number byte by byte, returns *)
(* its buffer with the number hidden and the rest in its place.  A call of *)
(* hook_read or hook_pread64, with all the turns of its sanitizer's loop,  *)
(* is one step of FilteredReader, for any file and any way to cut it into  *)
(* pieces.                                                                 *)
(***************************************************************************)
EXTENDS ProcReader, FiniteSetTheorems, TLAPS

-----------------------------------------------------------------------------
(* The sanitizers: LineSanitizer *)
n == Len(input)

(* Bytes removed so far: byte j of the rest is byte j + removed of the input. *)
removed == n - buf_end

(* Every byte that counts is from the input, in order. *)
OriginInv ==
  /\ f \in LineSanitizers => \A j \in 1 .. buf_end : buf[j] = input[src[j]]
  /\ \A j, k \in 1 .. buf_end : j < k => src[j] < src[k]
  /\ \A j \in pos .. buf_end : src[j] = j + removed

(* pos is at the start of a line of the input, and line_num is its number. *)
LineInv ==
  f \in LineSanitizers /\ pos <= buf_end =>
    /\ pos + removed = 1 \/ input[pos + removed - 1] = NL
    /\ line_num = LineNumber(input, pos + removed)

(* Before pos is what is kept of the lines already looked at. *)
DoneInv ==
  f \in LineSanitizers =>
    /\ \A j \in 1 .. pos - 1 : Kept(f, input, src[j])
    /\ \A i \in 1 .. pos + removed - 1 :
          Kept(f, input, i) => \E j \in 1 .. pos - 1 : src[j] = i

ReturnInv == returned /\ f \in LineSanitizers => pos = buf_end + 1 /\ bytes_read = buf_end

(* The number begins with byte v, and the loop of sanitize_status has hidden
   what of it is before pos. *)
HiddenFrom(v) ==
  /\ val_end \in v .. n + 1 /\ Number(input, n, v, val_end)
  /\ v < pos /\ (pos <= val_end \/ pos = v + 1)
  /\ \A i \in 1 .. n :
       buf[i] = IF i = v THEN Zero ELSE IF v < i /\ i < pos THEN Blank ELSE input[i]

(* sanitize_status has not touched its buffer, is hiding the number, or has. *)
StatusInv ==
  f = "sanitize_status" =>
    /\ buf_end = n /\ bytes_read = n
    /\ \A i \in 1 .. n : src[i] = i
    /\ returned => buf = Masked(input)
    /\ ~returned /\ val_end = 0 => pos = 1 /\ buf = input
    /\ ~returned /\ val_end # 0 => \E v \in 2 .. n : HiddenFrom(v)

IInv == TypeOK /\ OriginInv /\ LineInv /\ DoneInv /\ ReturnInv /\ StatusInv
        /\ (~returned => bytes_read = n)

-----------------------------------------------------------------------------
(* A byte lies on one line. *)
LEMMA LineUnique ==
  ASSUME NEW s \in Seq(Byte), NEW a, NEW b, NEW c, NEW d,
         IsLine(s, a, b), IsLine(s, c, d),
         NEW i \in a .. b, i \in c .. d
  PROVE  a = c /\ b = d
<1>1. a \in Nat /\ b \in Nat /\ c \in Nat /\ d \in Nat /\ Len(s) \in Nat
  BY DEF IsLine
<1>2. a = c
  <2>1. ~(a < c)
    BY <1>1 DEF IsLine
  <2>2. ~(c < a)
    BY <1>1 DEF IsLine
  <2> QED BY <1>1, <2>1, <2>2
<1>3. b = d
  <2>1. ~(b < d)
    BY <1>1 DEF IsLine
  <2>2. ~(d < b)
    BY <1>1 DEF IsLine
  <2> QED BY <1>1, <2>1, <2>2
<1> QED BY <1>2, <1>3

(* So a byte is kept exactly if its line is. *)
LEMMA KeptOfLine ==
  ASSUME NEW g, NEW s \in Seq(Byte), NEW a, NEW b, IsLine(s, a, b), NEW i \in a .. b
  PROVE  Kept(g, s, i) <=> KeepsLine(g, s, a, b)
<1>1. a \in 1 .. i /\ b \in i .. Len(s)
  BY DEF IsLine
<1>2. ASSUME NEW c \in 1 .. i, NEW d \in i .. Len(s), IsLine(s, c, d)
      PROVE  c = a /\ d = b
  BY <1>1, <1>2, LineUnique
<1> QED BY <1>1, <1>2 DEF Kept

LEMMA LineNumberType ==
  ASSUME NEW s, NEW a \in Nat
  PROVE  IsFiniteSet({k \in 1 .. a - 1 : s[k] = NL}) /\ LineNumber(s, a) \in Nat
<1>1. IsFiniteSet(1 .. a - 1)
  BY FS_Interval
<1>2. IsFiniteSet({k \in 1 .. a - 1 : s[k] = NL})
  BY <1>1, FS_Subset
<1> QED BY <1>2, FS_CardinalityType DEF LineNumber

(* The line after line b of s has the next number. *)
LEMMA NextLineNumber ==
  ASSUME NEW s \in Seq(Byte), NEW a, NEW b, IsLine(s, a, b), b < Len(s)
  PROVE  s[b] = NL /\ LineNumber(s, b + 1) = LineNumber(s, a) + 1
<1>1. a \in Nat /\ b \in Nat /\ a <= b /\ a >= 1 /\ s[b] = NL
  BY DEF IsLine
<1>2. {k \in 1 .. (b + 1) - 1 : s[k] = NL} = {k \in 1 .. a - 1 : s[k] = NL} \cup {b}
  BY <1>1 DEF IsLine
<1>3. b \notin {k \in 1 .. a - 1 : s[k] = NL}
  BY <1>1
<1>4. /\ IsFiniteSet({k \in 1 .. a - 1 : s[k] = NL})
      /\ LineNumber(s, a) = Cardinality({k \in 1 .. a - 1 : s[k] = NL})
  BY <1>1, LineNumberType DEF LineNumber
<1>5. Cardinality({k \in 1 .. a - 1 : s[k] = NL} \cup {b}) = LineNumber(s, a) + 1
  BY <1>3, <1>4, FS_AddElement
<1>6. LineNumber(s, b + 1) = Cardinality({k \in 1 .. (b + 1) - 1 : s[k] = NL})
  BY DEF LineNumber
<1> QED BY <1>1, <1>2, <1>5, <1>6

-----------------------------------------------------------------------------
LEMMA Sizes ==
  ASSUME TypeOK
  PROVE  /\ input \in Seq(Byte) /\ n \in Nat /\ buf_end \in Nat /\ buf_end <= n
         /\ removed \in Nat /\ buf_end + removed = n
         /\ pos \in Nat /\ 1 <= pos /\ pos <= buf_end + 1
  BY InputAssumption DEF TypeOK, n, removed

(* sanitize_status does not go through its buffer line by line. *)
LEMMA StatusApart == "sanitize_status" \notin LineSanitizers
  BY DEF LineSanitizers, HeaderLines

(* The line the loop looks at is a line of the input, with its bytes. *)
LEMMA CurrentLine ==
  ASSUME IInv, f \in LineSanitizers, pos <= buf_end, NEW e \in pos .. buf_end, EndsAt(e)
  PROVE  /\ IsLine(input, pos + removed, e + removed)
         /\ KeepsLine(f, input, pos + removed, e + removed)
              <=> (IsHeader \/ ~Dirty(f, Bytes(buf, pos, e)))
<1> USE Sizes DEF IInv
<1>1. \A j \in pos .. buf_end : buf[j] = input[j + removed]
  BY DEF OriginInv
<1>2. IsLine(input, pos + removed, e + removed)
  <2>1. pos + removed \in 1 .. n /\ e + removed \in pos + removed .. n
    OBVIOUS
  <2>2. pos + removed = 1 \/ input[(pos + removed) - 1] = NL
    BY DEF LineInv
  <2>3. input[e + removed] = NL \/ e + removed = n
    BY <1>1 DEF EndsAt
  <2>4. ASSUME NEW k \in pos + removed .. (e + removed) - 1
        PROVE  input[k] # NL
    <3>1. k - removed \in pos .. e - 1 /\ k - removed \in pos .. buf_end /\ (k - removed) + removed = k
      OBVIOUS
    <3> QED BY <1>1, <3>1 DEF EndsAt
  <2> QED BY <2>1, <2>2, <2>3, <2>4 DEF IsLine, n
<1>3. Bytes(input, pos + removed, e + removed) = Bytes(buf, pos, e)
  <2>1. (e + removed) + 1 - (pos + removed) = e + 1 - pos
    OBVIOUS
  <2>2. ASSUME NEW i \in 1 .. e + 1 - pos
        PROVE  input[(pos + removed) + i - 1] = buf[pos + i - 1]
    <3>1. pos + i - 1 \in pos .. buf_end /\ (pos + i - 1) + removed = (pos + removed) + i - 1
      OBVIOUS
    <3> QED BY <1>1, <3>1
  <2> QED BY <2>1, <2>2 DEF Bytes
<1>4. line_num = LineNumber(input, pos + removed)
  BY DEF LineInv
<1> QED BY <1>2, <1>3, <1>4 DEF KeepsLine, IsHeader

(* A line that stays: what is done grows by it. *)
LEMMA NextLineStep ==
  ASSUME IInv, f \in LineSanitizers, pos <= buf_end,
         NEW e \in pos .. buf_end, EndsAt(e), NextLine(e),
         IsHeader \/ ~Dirty(f, Bytes(buf, pos, e)),
         line_num' = line_num + 1, UNCHANGED <<f, input, val_end, bytes_read, returned>>
  PROVE  IInv'
<1> USE Sizes DEF IInv
<1>1. /\ IsLine(input, pos + removed, e + removed)
      /\ KeepsLine(f, input, pos + removed, e + removed)
  BY CurrentLine
<1>2. UNCHANGED <<buf, buf_end, src, n, removed>> /\ pos' = e + 1
  BY DEF NextLine, n, removed
<1>3. TypeOK'
  BY <1>2 DEF TypeOK
<1>4. OriginInv'
  BY <1>2 DEF OriginInv
<1>5. LineInv'
  <2> SUFFICES ASSUME e + 1 <= buf_end
               PROVE  /\ input[(e + 1 + removed) - 1] = NL
                      /\ line_num + 1 = LineNumber(input, e + 1 + removed)
    BY <1>2 DEF LineInv
  <2>1. e + removed < n /\ (e + 1 + removed) - 1 = e + removed /\ e + 1 + removed = (e + removed) + 1
    OBVIOUS
  <2>2. /\ input[e + removed] = NL
        /\ LineNumber(input, (e + removed) + 1) = LineNumber(input, pos + removed) + 1
    BY <1>1, <2>1, NextLineNumber DEF n
  <2> QED BY <2>1, <2>2 DEF LineInv
<1>6. DoneInv'
  <2>1. ASSUME NEW j \in 1 .. e PROVE Kept(f, input, src[j])
    <3>1. CASE j \in pos .. e
      <4>1. src[j] = j + removed /\ j + removed \in pos + removed .. e + removed
        BY <3>1 DEF OriginInv
      <4> QED BY <1>1, <4>1, KeptOfLine
    <3>2. CASE j \in 1 .. pos - 1
      BY <3>2 DEF DoneInv
    <3> QED BY <3>1, <3>2
  <2>2. ASSUME NEW i \in 1 .. e + removed, Kept(f, input, i)
        PROVE  \E j \in 1 .. e : src[j] = i
    <3>1. CASE i \in pos + removed .. e + removed
      <4> DEFINE j == i - removed
      <4>1. j \in pos .. buf_end /\ j \in 1 .. e /\ j + removed = i
        BY <3>1
      <4>2. src[j] = j + removed
        BY <4>1 DEF OriginInv
      <4> QED BY <4>1, <4>2
    <3>2. CASE i \in 1 .. pos + removed - 1
      BY <2>2, <3>2 DEF DoneInv
    <3> QED BY <3>1, <3>2
  <2> QED BY <1>2, <2>1, <2>2 DEF DoneInv
<1>7. ReturnInv' /\ StatusInv' /\ (~returned' => bytes_read' = n')
  BY <1>2, StatusApart DEF ReturnInv, StatusInv
<1> QED BY <1>3, <1>4, <1>5, <1>6, <1>7

(* A line that goes: what is done stays, and the rest starts after it. *)
LEMMA RemoveLineStep ==
  ASSUME IInv, f \in LineSanitizers, pos <= buf_end,
         NEW e \in pos .. buf_end, EndsAt(e), remove_line(e),
         ~IsHeader, Dirty(f, Bytes(buf, pos, e)),
         line_num' = line_num + 1, UNCHANGED <<f, input, val_end, bytes_read, returned>>
  PROVE  IInv'
<1>0. /\ TypeOK /\ OriginInv /\ LineInv /\ DoneInv /\ ReturnInv
      /\ ~returned => bytes_read = n
      /\ input \in Seq(Byte) /\ n \in Nat /\ removed \in Nat
      /\ buf_end \in Nat /\ buf_end + removed = n
      /\ pos \in Nat /\ 1 <= pos
      /\ e \in Nat /\ pos <= e /\ e <= buf_end
  BY Sizes DEF IInv
<1>1. /\ IsLine(input, pos + removed, e + removed)
      /\ ~KeepsLine(f, input, pos + removed, e + removed)
  BY CurrentLine
<1>a. PICK L \in Nat : L = (e + 1) - pos
  BY <1>0
<1>b. /\ pos' = pos /\ input' = input /\ n' = n /\ buf_end' = pos + (buf_end - e) - 1
      /\ removed' = n - buf_end'
  BY DEF remove_line, n, removed
<1>c. PICK m \in Nat : m = pos + (buf_end - e) - 1
  BY <1>0
<1>2. /\ pos' = pos /\ n' = n /\ buf_end' = m
      /\ m + L = buf_end /\ pos + L = e + 1 /\ pos <= m + 1
      /\ removed' = removed + L
  BY <1>0, <1>a, <1>b, <1>c
<1>3. ASSUME NEW i \in 1 .. n
      PROVE  IF i \in pos .. m
             THEN i + L \in 1 .. buf_end /\ buf'[i] = buf[i + L] /\ src'[i] = src[i + L]
             ELSE buf'[i] = buf[i] /\ src'[i] = src[i]
  <2>1. i \in pos .. m <=> pos <= i /\ i < pos + (buf_end - e)
    BY <1>0, <1>c
  <2>2. i \in 1 .. Len(input) /\ i + (e + 1 - pos) = i + L
    BY <1>0, <1>a DEF n
  <2>3. /\ buf'[i] = IF i \in pos .. m THEN buf[i + L] ELSE buf[i]
        /\ src'[i] = IF i \in pos .. m THEN src[i + L] ELSE src[i]
    <3>1. /\ buf'[i] = IF pos <= i /\ i < pos + (buf_end - e)
                     THEN buf[i + (e + 1 - pos)] ELSE buf[i]
          /\ src'[i] = IF pos <= i /\ i < pos + (buf_end - e)
                     THEN src[i + (e + 1 - pos)] ELSE src[i]
      BY <2>2 DEF remove_line, Moved
    <3> QED BY <2>1, <2>2, <3>1
  <2>4. i \in pos .. m => i + L \in 1 .. buf_end
    BY <1>0, <1>a, <1>2
  <2> QED BY <2>3, <2>4
<1>4. TypeOK'
  <2>1. ASSUME NEW i \in 1 .. n PROVE buf'[i] \in Byte /\ src'[i] \in 1 .. n
    <3>1. \A j \in 1 .. n : buf[j] \in Byte /\ src[j] \in 1 .. n
      BY <1>0 DEF TypeOK, n
    <3>2. CASE i \in pos .. m
      <4>1. i + L \in 1 .. n
        BY <1>0, <1>3, <2>1, <3>2
      <4> QED BY <1>3, <2>1, <3>1, <3>2, <4>1
    <3>3. CASE i \notin pos .. m
      BY <1>3, <2>1, <3>1, <3>3
    <3> QED BY <3>2, <3>3
  <2>2. buf' \in [1 .. n -> Byte] /\ src' \in [1 .. n -> 1 .. n]
    BY <2>1 DEF remove_line, Moved, n
  <2> QED BY <1>0, <1>a, <1>2, <2>2 DEF TypeOK, n
<1>5. OriginInv'
  <2>0. /\ \A j \in 1 .. buf_end : buf[j] = input[src[j]]
        /\ \A j, k \in 1 .. buf_end : j < k => src[j] < src[k]
        /\ \A j \in 1 .. m : j \in 1 .. n /\ j \in 1 .. buf_end
    <3>1. m <= buf_end /\ buf_end <= n
      BY <1>0, <1>a, <1>c, <1>2
    <3>2. \A j \in 1 .. m : j \in 1 .. n /\ j \in 1 .. buf_end
      BY <1>0, <1>c, <3>1
    <3> QED BY <1>0, <3>2 DEF OriginInv
  <2>1. ASSUME NEW j \in 1 .. m PROVE buf'[j] = input[src'[j]]
    <3>1. j \in 1 .. n /\ j \in 1 .. buf_end
      BY <2>0, <2>1
    <3>2. CASE j \in pos .. m
      <4>1. j + L \in 1 .. buf_end /\ buf'[j] = buf[j + L] /\ src'[j] = src[j + L]
        BY <1>3, <3>1, <3>2
      <4> QED BY <2>0, <4>1
    <3>3. CASE j \notin pos .. m
      <4>1. buf'[j] = buf[j] /\ src'[j] = src[j]
        BY <1>3, <3>1, <3>3
      <4> QED BY <2>0, <3>1, <4>1
    <3> QED BY <3>2, <3>3
  <2>2. ASSUME NEW j \in 1 .. m, NEW k \in 1 .. m, j < k PROVE src'[j] < src'[k]
    <3>1. CASE k < pos
      <4>1. src'[j] = src[j] /\ src'[k] = src[k]
        BY <1>0, <1>3, <2>0, <2>2, <3>1
      <4> QED BY <2>0, <2>2, <4>1
    <3>2. CASE j < pos /\ pos <= k
      <4>1. j \in 1 .. n /\ k \in 1 .. n /\ j \notin pos .. m /\ k \in pos .. m
        BY <1>0, <1>c, <2>0, <3>2
      <4>2. src'[j] = src[j] /\ src'[k] = src[k + L] /\ k + L \in 1 .. buf_end
        BY <1>3, <4>1
      <4>3. j < k + L
        BY <1>a, <2>2, <4>1
      <4> QED BY <2>0, <4>2, <4>3
    <3>3. CASE pos <= j
      <4>1. j \in 1 .. n /\ k \in 1 .. n /\ j \in pos .. m /\ k \in pos .. m
        BY <1>0, <1>c, <2>0, <2>2, <3>3
      <4>2. /\ src'[j] = src[j + L] /\ src'[k] = src[k + L]
            /\ j + L \in 1 .. buf_end /\ k + L \in 1 .. buf_end
        BY <1>3, <4>1
      <4>3. j + L < k + L
        BY <1>a, <2>2, <4>1
      <4> QED BY <2>0, <4>2, <4>3
    <3> QED BY <1>0, <2>2, <3>1, <3>2, <3>3
  <2>3. ASSUME NEW j \in pos .. m PROVE src'[j] = j + removed'
    <3>1. src'[j] = src[j + L] /\ j + L \in pos .. buf_end
      <4>1. j \in 1 .. n /\ j + L \in pos .. buf_end
        BY <1>0, <1>a, <1>2, <1>c, <2>3
      <4> QED BY <1>3, <2>3, <4>1
    <3>2. src[j + L] = (j + L) + removed
      BY <1>0, <3>1 DEF OriginInv
    <3>3. j \in Nat /\ (j + L) + removed = j + (removed + L)
      BY <1>0, <1>a, <1>c, <2>3
    <3> QED BY <1>2, <3>1, <3>2, <3>3
  <2> QED BY <1>0, <1>a, <1>2, <2>1, <2>2, <2>3 DEF OriginInv
<1>6. LineInv'
  <2> SUFFICES ASSUME pos <= m
               PROVE  /\ input[(e + 1 + removed) - 1] = NL
                      /\ line_num + 1 = LineNumber(input, e + 1 + removed)
    <3>1. pos' + removed' = e + 1 + removed
      BY <1>0, <1>2
    <3> QED BY <1>0, <1>2, <3>1 DEF LineInv
  <2>1. e + removed < n /\ (e + 1 + removed) - 1 = e + removed /\ e + 1 + removed = (e + removed) + 1
    BY <1>0, <1>2
  <2>2. input[e + removed] = NL
        /\ LineNumber(input, (e + removed) + 1) = LineNumber(input, pos + removed) + 1
    <3> HIDE DEF n
    <3>1. e + removed < Len(input)
      BY <2>1 DEF n
    <3> QED BY <1>0, <1>1, <3>1, NextLineNumber
  <2>3. line_num = LineNumber(input, pos + removed)
    BY <1>0 DEF LineInv
  <2> QED BY <2>1, <2>2, <2>3
<1>7. DoneInv'
  <2>1. ASSUME NEW j \in 1 .. pos - 1 PROVE src'[j] = src[j]
    <3>1. j \in 1 .. n /\ j \notin pos .. m
      BY <1>0
    <3> QED BY <1>3, <3>1
  <2>2. ASSUME NEW i \in 1 .. e + removed, Kept(f, input, i)
        PROVE  \E j \in 1 .. pos - 1 : src[j] = i
    <3>1. i \notin pos + removed .. e + removed
      BY <1>0, <1>1, <2>2, KeptOfLine
    <3>2. i \in 1 .. (pos + removed) - 1
      BY <1>0, <3>1
    <3> QED BY <1>0, <2>2, <3>2 DEF DoneInv
  <2>3. pos' = pos /\ f' = f /\ input' = input /\ pos' + removed' - 1 = e + removed
    BY <1>0, <1>2
  <2>4. \A j \in 1 .. pos - 1 : Kept(f, input, src[j])
    BY <1>0 DEF DoneInv
  <2> QED BY <2>1, <2>2, <2>3, <2>4 DEF DoneInv
<1>8. ReturnInv' /\ StatusInv' /\ (~returned' => bytes_read' = n')
  <2>1. ~returned
    BY <1>0 DEF ReturnInv
  <2> QED BY <1>0, <1>2, <2>1, StatusApart DEF ReturnInv, StatusInv
<1> QED BY <1>4, <1>5, <1>6, <1>7, <1>8 DEF IInv

(* A buffer has one first needle. *)
LEMMA OneNeedle ==
  ASSUME NEW s, NEW k \in Nat, NEW m \in Nat, 1 <= k, 1 <= m,
         FirstNeedle(s, k), FirstNeedle(s, m)
  PROVE  k = m
<1>1. ~(k < m) /\ ~(m < k)
  BY DEF FirstNeedle
<1> QED BY <1>1

(* Where the number is from v to the byte before e, Masked hides just that. *)
LEMMA MaskedNumber ==
  ASSUME NEW s \in Seq(Byte), NEW v \in 2 .. Len(s), NEW e \in v .. Len(s) + 1,
         Number(s, Len(s), v, e), NEW i \in 1 .. Len(s)
  PROVE  Masked(s)[i] = IF i = v THEN Zero ELSE IF v < i /\ i < e THEN Blank ELSE s[i]
<1> DEFINE Behind == \E m \in 1 .. i - 1 : FirstNeedle(s, m) /\ \A k \in m + 1 .. i : s[k] # NL
<1>1. /\ FirstNeedle(s, v - 1) /\ (e <= Len(s) => s[e] = NL)
      /\ \A k \in v .. e - 1 : s[k] # NL
  BY DEF Number
<1>2. Masked(s)[i] = IF i > 1 /\ FirstNeedle(s, i - 1) THEN Zero ELSE IF Behind THEN Blank ELSE s[i]
  BY DEF Masked
<1>3. i > 1 /\ FirstNeedle(s, i - 1) <=> i = v
  <2>1. i > 1 /\ FirstNeedle(s, i - 1) => i - 1 = v - 1
    BY <1>1, OneNeedle
  <2> QED BY <1>1, <2>1
<1>4. ASSUME v < i PROVE Behind <=> i < e
  <2>1. ASSUME i < e PROVE Behind
    <3>1. v - 1 \in 1 .. i - 1 /\ \A k \in (v - 1) + 1 .. i : s[k] # NL
      BY <1>1, <1>4, <2>1
    <3> QED BY <1>1, <3>1
  <2>2. ASSUME Behind PROVE i < e
    <3>1. PICK m \in 1 .. i - 1 : FirstNeedle(s, m) /\ \A k \in m + 1 .. i : s[k] # NL
      BY <2>2
    <3>2. m = v - 1
      BY <1>1, <3>1, OneNeedle
    <3>3. ~(e \in v .. i)
      BY <1>1, <3>1, <3>2
    <3> QED BY <3>3
  <2> QED BY <2>1, <2>2
<1>5. ASSUME i < v PROVE ~Behind
  <2> SUFFICES ASSUME NEW m \in 1 .. i - 1, FirstNeedle(s, m) PROVE FALSE
    OBVIOUS
  <2>1. m = v - 1
    BY <1>1, OneNeedle
  <2> QED BY <1>5, <2>1
<1> HIDE DEF Behind
<1> QED BY <1>2, <1>3, <1>4, <1>5

(* What a step of sanitize_status leaves alone *)
LEMMA StatusStep ==
  ASSUME IInv, InStatus, UNCHANGED <<f, input, buf_end, line_num, bytes_read, src>>,
         TypeOK', StatusInv'
  PROVE  IInv'
<1>1. n' = n /\ removed' = removed /\ f \notin LineSanitizers /\ removed = 0
  BY StatusApart, Sizes DEF InStatus, n, removed, IInv, StatusInv
<1>2. OriginInv'
  <2>1. \A j \in 1 .. n : src[j] = j
    BY DEF IInv, StatusInv, InStatus
  <2>2. /\ buf_end = n /\ n \in Nat /\ \A j \in pos' .. n : j \in 1 .. n
    BY Sizes DEF IInv, StatusInv, InStatus, TypeOK
  <2> QED BY <1>1, <2>1, <2>2 DEF OriginInv
<1>3. LineInv' /\ DoneInv' /\ ReturnInv'
  BY <1>1 DEF LineInv, DoneInv, ReturnInv
<1>4. bytes_read' = n'
  BY <1>1 DEF IInv, InStatus
<1> QED BY <1>2, <1>3, <1>4 DEF IInv

(* Nothing to hide: the buffer it leaves is the masked one. *)
LEMMA LeaveStatusStep ==
  ASSUME IInv, LeaveStatus
  PROVE  IInv'
<1>1. /\ f = "sanitize_status" /\ buf = input /\ buf_end = n /\ bytes_read = n
      /\ \A i \in 1 .. n : src[i] = i
      /\ input \in Seq(Byte) /\ n = Len(input) /\ n \in Nat
      /\ InStatus /\ returned' = TRUE /\ n' = n
      /\ UNCHANGED <<f, input, buf, buf_end, pos, line_num, val_end, bytes_read, src>>
  BY Sizes DEF LeaveStatus, InStatus, IInv, StatusInv, n
<1>2. ASSUME NEW i \in 1 .. n PROVE Masked(input)[i] = input[i]
  <2>1. CASE \A v \in 2 .. n : ~FirstNeedle(input, v - 1)
    <3>1. ASSUME NEW m \in 1 .. i - 1 PROVE ~FirstNeedle(input, m)
      <4>1. m + 1 \in 2 .. n /\ (m + 1) - 1 = m
        BY <1>1
      <4> QED BY <2>1, <4>1
    <3>2. i > 1 => ~FirstNeedle(input, i - 1)
      BY <3>1
    <3> QED BY <1>1, <3>1, <3>2 DEF Masked
  <2>2. ASSUME NEW v \in 2 .. n, NEW e \in v .. n + 1, Number(input, n, v, e), IsZero(v, e)
        PROVE  Masked(input)[i] = input[i]
    <3>1. Masked(input)[i] = IF i = v THEN Zero ELSE IF v < i /\ i < e THEN Blank ELSE input[i]
      BY <1>1, <2>2, MaskedNumber
    <3>2. input[v] = Zero /\ ~(v < i /\ i < e)
      BY <1>1, <2>2 DEF IsZero
    <3> QED BY <3>1, <3>2
  <2> QED BY <1>1, <2>1, <2>2 DEF LeaveStatus
<1>3. input = Masked(input)
  BY <1>1, <1>2 DEF Masked
<1>4. TypeOK'
  BY <1>1 DEF IInv, TypeOK
<1>5. StatusInv'
  BY <1>1, <1>3 DEF StatusInv
<1> QED BY <1>1, <1>4, <1>5, StatusStep

(* The first byte of the number becomes a zero, *)
LEMMA ZeroFirstStep ==
  ASSUME IInv, ZeroFirst
  PROVE  IInv'
<1>1. /\ f = "sanitize_status" /\ buf = input /\ buf_end = n /\ bytes_read = n
      /\ \A i \in 1 .. n : src[i] = i
      /\ input \in Seq(Byte) /\ n = Len(input) /\ n \in Nat
      /\ InStatus /\ ~returned /\ n' = n
      /\ UNCHANGED <<f, input, buf_end, line_num, bytes_read, returned, src>>
  BY Sizes DEF ZeroFirst, InStatus, IInv, StatusInv, n
<1>2. PICK v \in 2 .. n : \E e \in v .. n + 1 :
        Number(input, n, v, e) /\ buf' = [buf EXCEPT ![v] = Zero] /\ pos' = v + 1 /\ val_end' = e
  BY <1>1 DEF ZeroFirst
<1>3. /\ val_end' \in v .. n + 1 /\ Number(input, n, v, val_end') /\ pos' = v + 1
      /\ buf' = [buf EXCEPT ![v] = Zero]
  BY <1>2
<1>4. buf \in [1 .. n -> Byte] /\ v \in 1 .. n
  BY <1>1 DEF IInv, TypeOK
<1>5. TypeOK'
  <2>1. buf' \in [1 .. n -> Byte]
    BY <1>3, <1>4, LineAssumption
  <2>2. pos' \in 1 .. n + 1 /\ val_end' \in 0 .. n + 1
    BY <1>1, <1>3
  <2> QED BY <1>1, <2>1, <2>2 DEF IInv, TypeOK
<1>6. HiddenFrom(v)'
  <2>1. \A i \in 1 .. n : buf'[i] = IF i = v THEN Zero ELSE IF v < i /\ i < pos' THEN Blank ELSE input[i]
    BY <1>1, <1>3, <1>4
  <2>2. Number(input, n, v, val_end)'
    BY <1>1, <1>3 DEF Number, FirstNeedle
  <2> QED BY <1>1, <1>3, <2>1, <2>2 DEF HiddenFrom
<1>7. StatusInv'
  BY <1>1, <1>3, <1>6 DEF StatusInv
<1> QED BY <1>1, <1>5, <1>7, StatusStep

(* each turn of the loop blanks the byte at pos, *)
LEMMA BlankNextStep ==
  ASSUME IInv, BlankNext
  PROVE  IInv'
<1>1. /\ f = "sanitize_status" /\ buf_end = n /\ bytes_read = n
      /\ \A i \in 1 .. n : src[i] = i
      /\ n = Len(input) /\ n \in Nat /\ buf \in [1 .. n -> Byte]
      /\ InStatus /\ ~returned /\ n' = n
      /\ val_end # 0 /\ pos < val_end /\ pos' = pos + 1 /\ buf' = [buf EXCEPT ![pos] = Blank]
      /\ UNCHANGED <<f, input, buf_end, line_num, val_end, bytes_read, returned, src>>
  BY Sizes DEF BlankNext, InStatus, IInv, TypeOK, StatusInv, n
<1>2. PICK v \in 2 .. n : HiddenFrom(v)
  BY <1>1 DEF IInv, StatusInv
<1>3. /\ val_end \in v .. n + 1 /\ v < pos /\ pos \in 1 .. n + 1
      /\ \A i \in 1 .. n :
           buf[i] = IF i = v THEN Zero ELSE IF v < i /\ i < pos THEN Blank ELSE input[i]
  BY <1>1, <1>2 DEF HiddenFrom, IInv, TypeOK
<1>4. TypeOK'
  <2>1. buf' \in [1 .. n -> Byte]
    BY <1>1, LineAssumption
  <2>2. pos' \in 1 .. n + 1
    BY <1>1, <1>3
  <2> QED BY <1>1, <2>1, <2>2 DEF IInv, TypeOK
<1>5. HiddenFrom(v)'
  <2>1. \A i \in 1 .. n : buf'[i] = IF i = v THEN Zero ELSE IF v < i /\ i < pos' THEN Blank ELSE input[i]
    BY <1>1, <1>3
  <2>2. Number(input, n, v, val_end)'
    BY <1>1, <1>2 DEF HiddenFrom, Number, FirstNeedle
  <2> QED BY <1>1, <1>3, <2>1, <2>2 DEF HiddenFrom
<1>6. StatusInv'
  BY <1>1, <1>5 DEF StatusInv
<1> QED BY <1>1, <1>4, <1>6, StatusStep

(* and at the end of the number the buffer is the masked one. *)
LEMMA ReturnStatusStep ==
  ASSUME IInv, ReturnStatus
  PROVE  IInv'
<1>1. /\ f = "sanitize_status" /\ buf_end = n /\ bytes_read = n
      /\ \A i \in 1 .. n : src[i] = i
      /\ input \in Seq(Byte) /\ n = Len(input) /\ n \in Nat /\ buf \in [1 .. n -> Byte]
      /\ InStatus /\ returned' = TRUE /\ n' = n /\ val_end # 0 /\ pos >= val_end
      /\ UNCHANGED <<f, input, buf, buf_end, pos, line_num, val_end, bytes_read, src>>
  BY Sizes DEF ReturnStatus, InStatus, IInv, TypeOK, StatusInv, n
<1>2. PICK v \in 2 .. n : HiddenFrom(v)
  BY <1>1 DEF IInv, StatusInv, InStatus
<1>3. ASSUME NEW i \in 1 .. n PROVE buf[i] = Masked(input)[i]
  <2>1. Masked(input)[i] = IF i = v THEN Zero ELSE IF v < i /\ i < val_end THEN Blank ELSE input[i]
    BY <1>1, <1>2, MaskedNumber DEF HiddenFrom
  <2>2. buf[i] = IF i = v THEN Zero ELSE IF v < i /\ i < pos THEN Blank ELSE input[i]
    BY <1>2 DEF HiddenFrom
  <2>3. v < i /\ i < pos <=> v < i /\ i < val_end
    <3>1. /\ pos \in Nat /\ val_end \in Nat /\ i \in Nat /\ v \in Nat
          /\ pos <= val_end \/ pos = v + 1
      BY <1>1, <1>2, Sizes DEF HiddenFrom, IInv
    <3> QED BY <1>1, <3>1
  <2> QED BY <2>1, <2>2, <2>3
<1>4. buf = Masked(input)
  BY <1>1, <1>3 DEF Masked
<1>5. TypeOK'
  BY <1>1 DEF IInv, TypeOK
<1>6. StatusInv'
  BY <1>1, <1>4 DEF StatusInv
<1> QED BY <1>1, <1>5, <1>6, StatusStep

-----------------------------------------------------------------------------
(* A sanitizer starts with the invariant. *)
LEMMA InitInv == Init => IInv
<1> SUFFICES ASSUME Init PROVE IInv
  OBVIOUS
<1>1. input \in Seq(Byte) /\ n \in Nat /\ removed = 0
  BY InputAssumption DEF Init, n, removed
<1>2. TypeOK
  <2>1. input \in [1 .. Len(input) -> Byte] /\ Len(input) \in Nat
    BY <1>1
  <2>2. [i \in 1 .. Len(input) |-> i] \in [1 .. Len(input) -> 1 .. Len(input)]
    OBVIOUS
  <2>3. buf \in [1 .. Len(input) -> Byte] /\ src \in [1 .. Len(input) -> 1 .. Len(input)]
    BY <2>1, <2>2 DEF Init
  <2>4. /\ buf_end \in 0 .. Len(input) /\ bytes_read \in 0 .. Len(input)
        /\ pos \in 1 .. buf_end + 1 /\ val_end \in 0 .. Len(input) + 1
    BY <2>1 DEF Init
  <2> QED BY <2>3, <2>4 DEF Init, TypeOK
<1>3. LineInv
  <2>1. {k \in 1 .. 1 - 1 : input[k] = NL} = {}
    OBVIOUS
  <2> QED BY <1>1, <2>1, FS_EmptySet DEF Init, LineInv, LineNumber
<1>4. OriginInv /\ DoneInv /\ ReturnInv /\ bytes_read = n
  BY <1>1 DEF Init, OriginInv, DoneInv, ReturnInv, n
<1>5. StatusInv
  BY <1>1 DEF Init, StatusInv, n
<1> QED BY <1>2, <1>3, <1>4, <1>5 DEF IInv

(* Every step keeps it. *)
LEMMA StepInv == IInv /\ [Next]_vars => IInv'
<1> SUFFICES ASSUME IInv, [Next]_vars PROVE IInv'
  OBVIOUS
<1>1. CASE Turn
  BY <1>1, NextLineStep, RemoveLineStep DEF Turn, SkipHeader, KeepLine, RemoveLine
<1>2. CASE Return
  <2>1. StatusInv'
    BY <1>2, StatusApart DEF Return, StatusInv
  <2> QED BY <1>2, <2>1, Sizes DEF Return, IInv, TypeOK, OriginInv, LineInv, DoneInv,
          ReturnInv, n, removed
<1>3. CASE LeaveStatus \/ ZeroFirst \/ BlankNext \/ ReturnStatus
  BY <1>3, LeaveStatusStep, ZeroFirstStep, BlankNextStep, ReturnStatusStep
<1>4. CASE UNCHANGED vars
  <2>1. StatusInv'
    BY <1>4 DEF vars, IInv, StatusInv, HiddenFrom, Number, FirstNeedle, n
  <2> QED BY <1>4, <2>1 DEF vars, IInv, TypeOK, OriginInv, LineInv, DoneInv, ReturnInv, n, removed
<1> QED BY <1>1, <1>2, <1>3, <1>4 DEF Next, Goes, Returns

(* The loop's invariant, on which the theorems below rest *)
THEOREM Invariance == Spec => []IInv
  BY InitInv, StepInv, PTL DEF Spec

(* Every variable keeps its type; no index leaves the buffer. *)
THEOREM TypeCorrect == Spec => []TypeOK
  BY Invariance, PTL DEF IInv

LEMMA ReturnedBytes == IInv => ReturnsKeptBytes
<1> SUFFICES ASSUME IInv, returned, f \in LineSanitizers PROVE ReturnsKeptBytes
  BY DEF ReturnsKeptBytes
<1>1. pos - 1 = bytes_read /\ bytes_read = buf_end /\ pos + removed - 1 = n
  BY Sizes DEF IInv, ReturnInv
<1>2. \A i \in 1 .. bytes_read : src[i] \in 1 .. n
  BY <1>1, Sizes DEF IInv, TypeOK, n
<1>3. {src[i] : i \in 1 .. bytes_read} = KeptBytes(f, input)
  BY <1>1, <1>2 DEF IInv, DoneInv, KeptBytes, n
<1> QED BY <1>1, <1>3 DEF IInv, OriginInv, ReturnsKeptBytes

(* A sanitizer returns the kept bytes of its buffer, each once and in order. *)
THEOREM KeptBytesReturned == Spec => []ReturnsKeptBytes
  BY ReturnedBytes, Invariance, PTL

(* No step of a sanitizer grows the buffer or touches what its loop has passed. *)
LEMMA StepShrinks ==
  IInv /\ [Next]_vars =>
    [returned \/ /\ buf_end' <= buf_end /\ bytes_read' <= bytes_read
                 /\ \A i \in 1 .. pos - 1 : buf'[i] = buf[i]]_vars
<1> SUFFICES ASSUME IInv, Next, ~returned
             PROVE  /\ buf_end' <= buf_end /\ bytes_read' <= bytes_read
                    /\ \A i \in 1 .. pos - 1 : buf'[i] = buf[i]
  BY DEF vars
<1> USE Sizes DEF IInv
<1>1. bytes_read \in Nat /\ buf_end <= bytes_read
  BY DEF TypeOK, ReturnInv, n
<1>2. CASE Turn
  <2> PICK e \in pos .. buf_end : NextLine(e) \/ remove_line(e)
    BY <1>2 DEF Turn, SkipHeader, KeepLine, RemoveLine
  <2>1. bytes_read' = bytes_read
    BY <1>2 DEF Turn
  <2>2. CASE NextLine(e)
    BY <1>1, <2>1, <2>2 DEF NextLine
  <2>3. CASE remove_line(e)
    BY <1>1, <2>1, <2>3 DEF remove_line, Moved, n
  <2> QED BY <2>2, <2>3
<1>3. CASE Return
  BY <1>1, <1>3 DEF Return
<1>4. CASE LeaveStatus \/ ReturnStatus
  BY <1>1, <1>4 DEF LeaveStatus, ReturnStatus
<1>5. CASE ZeroFirst
  <2>1. pos = 1
    BY <1>5 DEF ZeroFirst, InStatus, StatusInv
  <2> QED BY <1>1, <1>5, <2>1 DEF ZeroFirst
<1>6. CASE BlankNext
  <2>1. buf \in [1 .. n -> Byte] /\ \A i \in 1 .. pos - 1 : i \in 1 .. n /\ i # pos
    BY DEF TypeOK, n
  <2> QED BY <1>1, <1>6, <2>1 DEF BlankNext
<1> QED BY <1>2, <1>3, <1>4, <1>5, <1>6 DEF Next, Goes, Returns

(* The buffer only shrinks, and what the loop has passed is left alone. *)
THEOREM Shrinks == Spec => OnlyShrinks
  BY StepShrinks, Invariance, PTL DEF Spec, OnlyShrinks

-----------------------------------------------------------------------------
(* The hooks: ProcReader *)

(* The results so far; src and bytes are sequences of the length count. *)
ResultSet == [from : Nat, len : Nat, count : Nat,
              src : UNION {[1 .. k -> Nat] : k \in Nat},
              bytes : UNION {[1 .. k -> Byte] : k \in Nat}]

(* The buffer is the piece of the file the call in progress has read. *)
PieceInv ==
  /\ file \in Files
  /\ from \in Nat /\ at \in Nat
  /\ 1 <= n /\ from + n <= Len(file) /\ at <= Len(file)
  /\ input = Bytes(file, from + 1, from + n)
  /\ ~returned => at = from /\ ~ended
  /\ results \in Seq(ResultSet)

RInv == IInv /\ PieceInv

LEMMA PieceType ==
  ASSUME NEW s \in Files, NEW a \in Nat, NEW k \in Nat, 1 <= k, a + k <= Len(s)
  PROVE  /\ Bytes(s, a + 1, a + k) \in Inputs
         /\ Bytes(s, a + 1, a + k) \in Seq(Byte)
         /\ Len(Bytes(s, a + 1, a + k)) = k
<1>1. (a + k) + 1 - (a + 1) = k
  OBVIOUS
<1>2. Len(Bytes(s, a + 1, a + k)) = k
  BY <1>1 DEF Bytes
<1>3. a + 1 \in 1 .. Len(s) /\ a + k \in a + 1 .. Len(s)
  BY FileAssumption
<1>4. Bytes(s, a + 1, a + k) \in Inputs
  BY <1>3, FileAssumption
<1> QED BY <1>2, <1>4, InputAssumption

LEMMA ReaderInitInv == ReaderInit => RInv
<1> SUFFICES ASSUME ReaderInit PROVE RInv
  OBVIOUS
<1>1. PICK k \in 1 .. Len(file) : input = Bytes(file, 1, k)
  BY DEF ReaderInit
<1>2. /\ file \in Files /\ Len(file) \in Nat /\ k \in Nat /\ 1 <= k /\ k <= Len(file)
      /\ from = 0 /\ at = 0 /\ results = << >> /\ ended = FALSE
  BY <1>1, FileAssumption DEF ReaderInit
<1>3. input \in Inputs /\ n = k /\ input = Bytes(file, from + 1, from + n)
  <2>1. 0 + 1 = 1 /\ 0 + k = k /\ 0 \in Nat
    BY <1>2
  <2>2. Bytes(file, 1, k) \in Inputs /\ Len(Bytes(file, 1, k)) = k
    BY <1>2, <2>1, PieceType
  <2> QED BY <1>1, <1>2, <2>1, <2>2 DEF n
<1>4. IInv
  BY <1>3, InitInv DEF ReaderInit, Init
<1> QED BY <1>2, <1>3, <1>4 DEF RInv, PieceInv

(* The next piece of the file starts its sanitizer afresh. *)
LEMMA OrigReadStep ==
  ASSUME RInv, NEW k \in 1 .. Len(file) - at, OrigRead(k), Init' => IInv'
  PROVE  RInv'
<1>1. /\ file \in Files /\ file' = file /\ Len(file) \in Nat /\ at \in Nat /\ at' = at
      /\ k \in Nat /\ 1 <= k /\ at + k <= Len(file)
      /\ input' = Bytes(file, at + 1, at + k) /\ from' = at
      /\ ended' = FALSE /\ results' = results
  BY FileAssumption DEF RInv, PieceInv, OrigRead
<1>2. input' \in Inputs /\ Len(input') = k /\ n' = k
  BY <1>1, PieceType DEF n
<1>3. Init'
  BY <1>2 DEF RInv, IInv, TypeOK, Init, OrigRead
<1> QED BY <1>1, <1>2, <1>3 DEF RInv, PieceInv

(* What a call returns is a result. *)
LEMMA ResultType ==
  ASSUME RInv, IInv', input' = input
  PROVE  Result \in ResultSet /\ Result.count <= Result.len
<1>1. /\ n \in Nat /\ from \in Nat /\ bytes_read' \in Nat /\ bytes_read' <= n
      /\ buf' \in [1 .. n -> Byte] /\ src' \in [1 .. n -> 1 .. n]
  <2>1. n \in Nat /\ from \in Nat
    BY Sizes DEF RInv, IInv, PieceInv
  <2>2. /\ bytes_read' \in 0 .. Len(input)
        /\ buf' \in [1 .. Len(input) -> Byte]
        /\ src' \in [1 .. Len(input) -> 1 .. Len(input)]
    BY DEF IInv, TypeOK
  <2> QED BY <2>1, <2>2 DEF n
<1>2. /\ [i \in 1 .. bytes_read' |-> src'[i]] \in [1 .. bytes_read' -> Nat]
      /\ [i \in 1 .. bytes_read' |-> buf'[i]] \in [1 .. bytes_read' -> Byte]
  BY <1>1
<1> QED BY <1>1, <1>2 DEF Result, ResultSet, n

LEMMA HookReturnStep ==
  ASSUME RInv, HookReturn
  PROVE  RInv' /\ Result \in ResultSet
<1>1. IInv' /\ input' = input /\ n' = n /\ returned'
  <2>1. input' = input /\ returned' /\ Next
    BY DEF HookReturn, Returns, Return, LeaveStatus, ReturnStatus, Next
  <2> QED BY <2>1, StepInv DEF RInv, n
<1>2. Result \in ResultSet /\ Result.count <= Result.len
  BY <1>1, ResultType
<1>3. /\ file' = file /\ from' = from /\ Result.len = n
      /\ results' = Append(results, Result)
      /\ at' \in Nat /\ at' <= from + n
  <2>1. Result.count \in Nat /\ Result.len = n /\ Result.from = from /\ from \in Nat
    BY <1>2 DEF Result, ResultSet, RInv, PieceInv, n
  <2>2. n \in Nat
    BY Sizes DEF RInv, IInv
  <2>3. PICK c \in Nat : c = Result.count /\ c <= n
    BY <1>2, <2>1
  <2>4. /\ file' = file /\ from' = from /\ results' = Append(results, Result)
        /\ at' = from + (IF via = "read" THEN Result.len ELSE Result.count)
    BY DEF HookReturn, Advance
  <2>5. at' = from + n \/ at' = from + c
    BY <2>1, <2>3, <2>4
  <2>6. from + n \in Nat /\ from + c \in Nat /\ from + c <= from + n
    BY <2>1, <2>2, <2>3
  <2>7. at' \in Nat /\ at' <= from + n
    BY <2>5, <2>6
  <2> QED BY <2>1, <2>4, <2>7
<1>4. PieceInv'
  <2>1. /\ file \in Files /\ from \in Nat /\ 1 <= n /\ from + n <= Len(file)
        /\ input = Bytes(file, from + 1, from + n)
        /\ results \in Seq(ResultSet)
    BY DEF RInv, PieceInv
  <2>2. n \in Nat /\ Len(file) \in Nat
    BY <2>1, Sizes, FileAssumption DEF RInv, IInv
  <2>3. at' <= Len(file)
    BY <1>3, <2>1, <2>2
  <2>4. results' \in Seq(ResultSet)
    BY <1>2, <1>3, <2>1
  <2> QED BY <1>1, <1>3, <2>1, <2>3, <2>4 DEF PieceInv
<1> QED BY <1>1, <1>2, <1>4 DEF RInv

LEMMA ReaderStepInv ==
  ASSUME RInv, [ReaderNext]_reader_vars, Init' => IInv'
  PROVE  RInv'
<1>1. ASSUME NEW k \in 1 .. Len(file) - at, OrigRead(k) PROVE RInv'
  BY <1>1, OrigReadStep
<1>2. CASE OrigReadZero \/ Loop \/ UNCHANGED reader_vars
  <2>1. [Next]_vars /\ (Goes \/ UNCHANGED vars)
    BY <1>2 DEF OrigReadZero, Loop, reader_vars, Next
  <2>2. IInv'
    BY <2>1, StepInv DEF RInv
  <2>3. input' = input /\ n' = n /\ (returned' = returned)
    BY <2>1 DEF Goes, Turn, ZeroFirst, BlankNext, vars, n
  <2>4. /\ UNCHANGED <<file, from, at, results>>
        /\ ended' = ended \/ returned
    BY <1>2 DEF OrigReadZero, Loop, reader, reader_vars
  <2> QED BY <2>2, <2>3, <2>4 DEF RInv, PieceInv
<1>3. CASE HookReturn
  BY <1>3, HookReturnStep
<1> QED BY <1>1, <1>2, <1>3 DEF ReaderNext

(* The reader's invariant, on which the theorems below rest *)
THEOREM ReaderInvariance == ReaderSpec => []RInv
<1>1. RInv /\ [ReaderNext]_reader_vars /\ (Init' => IInv') => RInv'
  BY ReaderStepInv
<1> QED BY <1>1, ReaderInitInv, InitInv, PTL DEF ReaderSpec

(* Every variable keeps its type, over all the calls of a thread. *)
THEOREM ReaderTypeCorrect == ReaderSpec => []TypeOK
<1>1. RInv => TypeOK
  BY DEF RInv, IInv
<1> QED BY <1>1, ReaderInvariance, PTL

(* Every call returns the kept bytes of its piece, each once and in order. *)
THEOREM ReaderReturnsKeptBytes == ReaderSpec => []ReturnsKeptBytes
<1>1. RInv => IInv
  BY DEF RInv
<1> QED BY <1>1, ReturnedBytes, ReaderInvariance, PTL

(* In every call the buffer only shrinks. *)
THEOREM ReaderShrinks == ReaderSpec => OnlyShrinks
<1>1. RInv /\ [ReaderNext]_reader_vars =>
        [returned \/ /\ buf_end' <= buf_end /\ bytes_read' <= bytes_read
                     /\ \A i \in 1 .. pos - 1 : buf'[i] = buf[i]]_vars
  <2> SUFFICES ASSUME RInv, [ReaderNext]_reader_vars
               PROVE  [returned \/ /\ buf_end' <= buf_end /\ bytes_read' <= bytes_read
                                   /\ \A i \in 1 .. pos - 1 : buf'[i] = buf[i]]_vars
    OBVIOUS
  <2>1. returned \/ [Next]_vars
    BY DEF ReaderNext, OrigRead, OrigReadZero, Loop, HookReturn, reader_vars, Next
  <2> QED BY <2>1, StepShrinks DEF RInv
<1> QED BY <1>1, ReaderInvariance, PTL DEF ReaderSpec, OnlyShrinks

-----------------------------------------------------------------------------
(* The contract's notion of what a sanitizer keeps is LineFilter's. *)
LEMMA SameFilter ==
  /\ Contract!LineSanitizers = LineSanitizers
  /\ \A s, a, b : Contract!Bytes(s, a, b) = Bytes(s, a, b)
  /\ \A g, s : Contract!KeptBytes(g, s) = KeptBytes(g, s)
  /\ \A s : Contract!Masked(s) = Masked(s)
<1>1. Contract!HeaderLines = HeaderLines
  BY DEF Contract!HeaderLines, HeaderLines
<1>2. \A s, a, b : Contract!Bytes(s, a, b) = Bytes(s, a, b)
  BY DEF Contract!Bytes, Bytes
<1>3. \A s, a, b : Contract!IsLine(s, a, b) <=> IsLine(s, a, b)
  BY DEF Contract!IsLine, IsLine
<1>4. \A s, a : Contract!LineNumber(s, a) = LineNumber(s, a)
  BY DEF Contract!LineNumber, LineNumber, Cardinality, Contract!Cardinality
<1>5. \A g, s, a, b : Contract!KeepsLine(g, s, a, b) <=> KeepsLine(g, s, a, b)
  BY <1>1, <1>2, <1>4 DEF Contract!KeepsLine, KeepsLine
<1>6. \A g, s, i : Contract!Kept(g, s, i) <=> Kept(g, s, i)
  BY <1>3, <1>5 DEF Contract!Kept, Kept
<1>7. \A g, s : Contract!KeptBytes(g, s) = KeptBytes(g, s)
  BY <1>6 DEF Contract!KeptBytes, KeptBytes
<1>8. Contract!LineSanitizers = LineSanitizers
  BY <1>1 DEF Contract!LineSanitizers, LineSanitizers
<1>9. \A s : Contract!Masked(s) = Masked(s)
  <2>1. \A s, m : Contract!FirstNeedle(s, m) <=> FirstNeedle(s, m)
    BY DEF Contract!FirstNeedle, FirstNeedle
  <2> QED BY <2>1 DEF Contract!Masked, Masked
<1> QED BY <1>2, <1>7, <1>8, <1>9

(* What a call returns is what the contract says of its window. *)
LEMMA ResultYields ==
  ASSUME RInv, HookReturn, IInv' => ReturnsKeptBytes'
  PROVE  Contract!Yields(Result, at, n)
<1>1. /\ IInv' /\ input' = input /\ n' = n /\ returned' /\ f' = f /\ ~returned
      /\ input = Bytes(file, at + 1, at + n) /\ at = from
  <2>1. input' = input /\ returned' /\ f' = f /\ ~returned /\ Next
    BY DEF HookReturn, Returns, Return, LeaveStatus, ReturnStatus, InStatus, Next
  <2> QED BY <2>1, StepInv DEF RInv, PieceInv, n
<1>2. bytes_read' \in Nat /\ bytes_read' <= n /\ n \in Nat
  BY <1>1, Sizes DEF IInv, TypeOK, RInv, n
<1>3. /\ Result.from = at /\ Result.len = n /\ Result.count = bytes_read'
      /\ Result.src = [i \in 1 .. bytes_read' |-> src'[i]]
      /\ Result.bytes = [i \in 1 .. bytes_read' |-> buf'[i]]
  BY <1>1 DEF Result, n
<1>4. CASE f \in LineSanitizers
  <2>1. /\ \A i \in 1 .. bytes_read' : buf'[i] = input[src'[i]]
        /\ \A i, j \in 1 .. bytes_read' : i < j => src'[i] < src'[j]
        /\ {src'[i] : i \in 1 .. bytes_read'} = KeptBytes(f, input)
    BY <1>1, <1>4 DEF ReturnsKeptBytes
  <2>2. {Result.src[i] : i \in 1 .. Result.count} = KeptBytes(f, input)
    BY <1>3, <2>1
  <2> QED BY <1>1, <1>3, <1>4, <2>1, <2>2, SameFilter DEF Contract!Yields
<1>5. CASE f \notin LineSanitizers
  <2>1. f = "sanitize_status" /\ bytes_read' = n /\ buf' = Masked(input)
        /\ \A i \in 1 .. n : src'[i] = i
    BY <1>1, <1>5 DEF IInv, TypeOK, Sanitizers, StatusInv
  <2>2. \A i \in 1 .. n : Result.src[i] = i
    BY <1>2, <1>3, <2>1
  <2>3. {Result.src[i] : i \in 1 .. Result.count} = 1 .. n
    BY <1>3, <2>1, <2>2
  <2>4. \A i \in 1 .. n : Result.bytes[i] = Masked(input)[Result.src[i]]
    BY <1>3, <2>1, <2>2
  <2>5. Contract!Bytes(file, at + 1, at + n) = input /\ f \notin Contract!LineSanitizers
    BY <1>1, <1>5, SameFilter
  <2> QED BY <1>2, <1>3, <2>1, <2>2, <2>3, <2>4, <2>5, SameFilter DEF Contract!Yields
<1> QED BY <1>4, <1>5

(* The hooks implement the contract: a call that returns is one read of the
   window it was given, and every other step is the caller's end of file or is
   invisible to the caller. *)
THEOREM HooksImplementContract == ReaderSpec => ImplementsContract
<1>1. ReaderInit => Contract!Init
  BY DEF ReaderInit, Contract!Init
<1>2. RInv /\ [ReaderNext]_reader_vars /\ (IInv' => ReturnsKeptBytes')
        => [Contract!Next]_(Contract!vars)
  <2> SUFFICES ASSUME RInv, [ReaderNext]_reader_vars, IInv' => ReturnsKeptBytes'
               PROVE  [Contract!Next]_(Contract!vars)
    OBVIOUS
  <2>1. CASE HookReturn
    <3>1. n \in 1 .. Len(file) - at
      <4>1. HookReturn => ~returned
        BY DEF HookReturn, Returns, Return, LeaveStatus, ReturnStatus, InStatus
      <4> QED BY <2>1, <4>1, Sizes, FileAssumption DEF RInv, IInv, PieceInv
    <3>2. Contract!Read(n)
      <4>1. results \in Seq(ResultSet) /\ Result \in ResultSet /\ results' = Append(results, Result)
        BY <2>1, HookReturnStep DEF RInv, PieceInv, HookReturn, Advance
      <4>2. results' # << >> /\ results'[Len(results')] = Result
        BY <4>1
      <4>3. f' = f /\ ~returned
        BY <2>1 DEF HookReturn, Returns, Return, LeaveStatus, ReturnStatus, InStatus
      <4>4. /\ ~ended /\ f' = f /\ file' = file /\ via' = via
            /\ ended' = (Result.count = 0)
        BY <2>1, <4>3 DEF HookReturn, Advance, RInv, PieceInv
      <4>5. at' = Contract!NextOffset(Result)
        BY <2>1 DEF HookReturn, Advance, Result, Contract!NextOffset
      <4> QED BY <2>1, <4>1, <4>2, <4>4, <4>5, ResultYields DEF Contract!Read
    <3> QED BY <3>1, <3>2 DEF Contract!Next
  <2>2. CASE OrigReadZero
    BY <2>2 DEF OrigReadZero, vars, Contract!Next, Contract!EndOfFile
  <2>3. CASE Loop \/ UNCHANGED reader_vars \/ \E k \in 1 .. Len(file) - at : OrigRead(k)
    BY <2>3 DEF Loop, Goes, Turn, ZeroFirst, BlankNext, reader, reader_vars, vars, OrigRead, Contract!vars
  <2> QED BY <2>1, <2>2, <2>3 DEF ReaderNext
<1> QED BY <1>1, <1>2, ReturnedBytes, ReaderInvariance, PTL
       DEF ReaderSpec, ImplementsContract, Contract!Spec

-----------------------------------------------------------------------------
(* Each result so far is what the contract says of its window, and
   sanitize_status has left every byte at its place. *)
ResultOK(r) ==
  /\ 1 <= r.len /\ r.from + r.len <= Len(file)
  /\ Contract!Yields(r, r.from, r.len)
  /\ f = "sanitize_status" => r.count = r.len /\ \A i \in 1 .. r.count : r.src[i] = i

ResultsInv == \A k \in 1 .. Len(results) : ResultOK(results[k])

LEMMA HookReturnOK ==
  ASSUME RInv, HookReturn, IInv' => ReturnsKeptBytes'
  PROVE  ResultOK(Result)
<1>1. /\ IInv' /\ f' = f /\ n' = n /\ at = from /\ 1 <= n /\ from + n <= Len(file) /\ returned'
  <2>1. input' = input /\ returned' /\ f' = f /\ ~returned /\ Next
    BY DEF HookReturn, Returns, Return, LeaveStatus, ReturnStatus, InStatus, Next
  <2> QED BY <2>1, StepInv DEF RInv, PieceInv, n
<1>2. /\ Result.from = from /\ Result.len = n /\ Result.count = bytes_read'
      /\ Result.src = [i \in 1 .. bytes_read' |-> src'[i]]
  BY DEF Result, n
<1>3. ASSUME f = "sanitize_status"
      PROVE  Result.count = n /\ \A i \in 1 .. Result.count : Result.src[i] = i
  BY <1>1, <1>2, <1>3 DEF IInv, StatusInv
<1> QED BY <1>1, <1>2, <1>3, ResultYields DEF ResultOK

LEMMA ResultsStep ==
  ASSUME RInv, ResultsInv, [ReaderNext]_reader_vars, IInv' => ReturnsKeptBytes'
  PROVE  ResultsInv'
<1>1. f' = f /\ file' = file
  BY DEF ReaderNext, OrigRead, OrigReadZero, Loop, HookReturn, reader_vars, vars, reader, Goes,
         Turn, ZeroFirst, BlankNext, Returns, Return, LeaveStatus, ReturnStatus
<1>2. CASE results' = results
  <2>1. \A k \in 1 .. Len(results') : ResultOK(results'[k])
    BY <1>2 DEF ResultsInv
  <2> QED BY <1>1, <2>1 DEF ResultsInv, ResultOK, Contract!Yields
<1>3. CASE HookReturn
  <2>1. /\ Result \in ResultSet /\ results \in Seq(ResultSet) /\ results' = Append(results, Result)
        /\ ResultOK(Result)
    BY <1>3, HookReturnStep, HookReturnOK DEF RInv, PieceInv, HookReturn, Advance
  <2> HIDE DEF Result
  <2>2. \A k \in 1 .. Len(results') : ResultOK(results'[k])
    <3> SUFFICES ASSUME NEW k \in 1 .. Len(results') PROVE ResultOK(results'[k])
      OBVIOUS
    <3>1. k \in 1 .. Len(results) => results'[k] = results[k]
      BY <2>1
    <3>2. k \in 1 .. Len(results) \/ results'[k] = Result
      BY <2>1
    <3> QED BY <2>1, <3>1, <3>2 DEF ResultsInv
  <2> QED BY <1>1, <2>2 DEF ResultsInv, ResultOK, Contract!Yields
<1> QED BY <1>2, <1>3 DEF ReaderNext, OrigRead, OrigReadZero, Loop, reader, reader_vars

LEMMA ResultsInvariance == ReaderSpec => [](RInv /\ ResultsInv)
<1>1. ReaderInit => ResultsInv
  BY DEF ReaderInit, ResultsInv
<1>2. RInv => IInv
  BY DEF RInv
<1>3. RInv /\ ResultsInv /\ [ReaderNext]_reader_vars /\ (IInv' => ReturnsKeptBytes') => ResultsInv'
  BY ResultsStep
<1> QED BY <1>1, <1>2, <1>3, ReturnedBytes, ReaderInvariance, PTL DEF ReaderSpec

-----------------------------------------------------------------------------
(* The bytes from a to c are one line in the window of k bytes after o. *)
LineAt(s, o, k, a, c) ==
  LET w == Bytes(s, o + 1, o + k) IN
  IsLine(w, a - o, c - o) /\ Bytes(w, a - o, c - o) = Bytes(s, a, c)

(* A line of the file that lies in a window is a line of the window, *)
LEMMA LineOfWindow ==
  ASSUME NEW s \in Seq(Byte), NEW o \in Nat, NEW k \in Nat, o + k <= Len(s),
         NEW a, NEW c, IsLine(s, a, c), o < a, c <= o + k
  PROVE  LineAt(s, o, k, a, c)
<1> DEFINE w == Bytes(s, o + 1, o + k)
<1>1. Len(w) = k /\ \A i \in 1 .. k : w[i] = s[o + i]
  <2>1. (o + k) + 1 - (o + 1) = k
    OBVIOUS
  <2>2. \A i \in 1 .. k : o + 1 + i - 1 = o + i
    OBVIOUS
  <2> QED BY <2>1, <2>2 DEF Bytes
<1>2. /\ a \in Nat /\ c \in Nat /\ 1 <= a /\ a <= c /\ c <= Len(s) /\ Len(s) \in Nat
      /\ a = 1 \/ s[a - 1] = NL
      /\ s[c] = NL \/ c = Len(s)
      /\ \A j \in a .. c - 1 : s[j] # NL
  BY DEF IsLine
<1>3. a - o \in 1 .. k /\ c - o \in a - o .. k
  BY <1>2
<1>4. a - o = 1 \/ w[(a - o) - 1] = NL
  <2> SUFFICES ASSUME a - o # 1 PROVE w[(a - o) - 1] = NL
    OBVIOUS
  <2>1. (a - o) - 1 \in 1 .. k /\ o + ((a - o) - 1) = a - 1 /\ a # 1
    BY <1>2, <1>3
  <2> QED BY <1>1, <1>2, <2>1
<1>5. w[c - o] = NL \/ c - o = k
  <2>1. c - o \in 1 .. k /\ o + (c - o) = c
    BY <1>2, <1>3
  <2>2. c = Len(s) => c - o = k
    BY <1>2
  <2> QED BY <1>1, <1>2, <2>1, <2>2
<1>6. ASSUME NEW j \in a - o .. (c - o) - 1 PROVE w[j] # NL
  <2>1. j \in 1 .. k /\ o + j \in a .. c - 1
    BY <1>2, <1>3
  <2> QED BY <1>1, <1>2, <2>1
<1>7. Bytes(w, a - o, c - o) = Bytes(s, a, c)
  <2>1. (c - o) + 1 - (a - o) = c + 1 - a
    BY <1>2
  <2>2. ASSUME NEW i \in 1 .. c + 1 - a PROVE w[(a - o) + i - 1] = s[a + i - 1]
    <3>1. (a - o) + i - 1 \in 1 .. k /\ o + ((a - o) + i - 1) = a + i - 1
      BY <1>2, <1>3
    <3> QED BY <1>1, <3>1
  <2> QED BY <2>1, <2>2 DEF Bytes
<1>8. IsLine(w, a - o, c - o)
  BY <1>1, <1>3, <1>4, <1>5, <1>6 DEF IsLine
<1> QED BY <1>7, <1>8 DEF LineAt

(* and no more lines precede it there. *)
LEMMA FewerLines ==
  ASSUME NEW s \in Seq(Byte), NEW o \in Nat, NEW k \in Nat, o + k <= Len(s),
         NEW a \in 1 .. Len(s), o < a, a <= o + k
  PROVE  LET w == Bytes(s, o + 1, o + k) IN
         /\ LineNumber(w, a - o) \in Nat /\ LineNumber(s, a) \in Nat
         /\ LineNumber(w, a - o) <= LineNumber(s, a)
<1> DEFINE w == Bytes(s, o + 1, o + k)
           S == {i \in 1 .. (a - o) - 1 : w[i] = NL}
           T == {i \in 1 .. a - 1 : s[i] = NL}
           shift == [i \in S |-> o + i]
<1>1. \A i \in 1 .. (a - o) - 1 : w[i] = s[o + i] /\ o + i \in 1 .. a - 1
  <2> SUFFICES ASSUME NEW i \in 1 .. (a - o) - 1 PROVE w[i] = s[o + i] /\ o + i \in 1 .. a - 1
    OBVIOUS
  <2>1. i \in 1 .. (o + k) + 1 - (o + 1) /\ o + 1 + i - 1 = o + i /\ o + i \in 1 .. a - 1
    OBVIOUS
  <2> QED BY <2>1 DEF Bytes
<1> HIDE DEF w
<1>2. a - o \in Nat /\ a \in Nat
  OBVIOUS
<1>3. /\ IsFiniteSet(S) /\ LineNumber(w, a - o) \in Nat
      /\ IsFiniteSet(T) /\ LineNumber(s, a) \in Nat
  BY <1>2, LineNumberType
<1>4. shift \in Injection(S, T)
  <2>1. shift \in [S -> T]
    BY <1>1
  <2>2. \A i, j \in S : shift[i] = shift[j] => i = j
    OBVIOUS
  <2> QED BY <2>1, <2>2 DEF Injection, IsInjective
<1>5. Cardinality(S) <= Cardinality(T)
  BY <1>3, <1>4, FS_Injection
<1> QED BY <1>3, <1>5 DEF LineNumber, w

(* So what a result has of a line does not depend on the cut. *)
LEMMA LineDelivered ==
  ASSUME RInv, f \in LineSanitizers, NEW r \in ResultSet, ResultOK(r),
         NEW a \in 1 .. Len(file), NEW c \in a .. Len(file), WholeLine(r, a, c)
  PROVE  Delivered(r, a, c) = IF KeepsLine(f, file, a, c) \/ HeaderIn(r, a) THEN a .. c ELSE {}
<1>0. PICK o \in Nat, l \in Nat : o = r.from /\ l = r.len
  BY DEF ResultSet
<1> DEFINE w == Bytes(file, o + 1, o + l)
<1>1. /\ file \in Seq(Byte) /\ Len(file) \in Nat /\ file \in Files
      /\ 1 <= l /\ o + l <= Len(file)
      /\ IsLine(file, a, c) /\ o < a /\ c <= o + l /\ a <= c /\ a \in Nat /\ c \in Nat
  BY <1>0, FileAssumption DEF RInv, PieceInv, ResultOK, WholeLine
<1>2. w \in Seq(Byte) /\ Len(w) = l
  BY <1>1, PieceType
<1>3. IsLine(w, a - o, c - o) /\ Bytes(w, a - o, c - o) = Bytes(file, a, c)
  <2>1. LineAt(file, o, l, a, c)
    BY <1>1, LineOfWindow
  <2> QED BY <2>1 DEF LineAt
<1>4. /\ {r.src[i] : i \in 1 .. r.count} = KeptBytes(f, w)
      /\ f \in Contract!LineSanitizers
  BY <1>0, SameFilter DEF ResultOK, Contract!Yields
<1>5. KeepsLine(f, w, a - o, c - o) <=> (KeepsLine(f, file, a, c) \/ HeaderIn(r, a))
  <2>1. /\ LineNumber(w, a - o) \in Nat /\ LineNumber(file, a) \in Nat
        /\ LineNumber(w, a - o) <= LineNumber(file, a)
    <3>1. a <= o + l
      BY <1>1
    <3> QED BY <1>1, <3>1, FewerLines
  <2>2. HeaderLines[f] \in Nat
    BY DEF LineSanitizers, HeaderLines
  <2>3. LineNumber(file, a) < HeaderLines[f] => LineNumber(w, a - o) < HeaderLines[f]
    BY <2>1, <2>2
  <2> QED BY <1>0, <1>3, <2>3 DEF KeepsLine, HeaderIn
<1> HIDE DEF w
<1>6. ASSUME NEW i \in a .. c
      PROVE  i \in Delivered(r, a, c) <=> KeepsLine(f, w, a - o, c - o)
  <2>1. i - o \in a - o .. c - o /\ i - o \in 1 .. Len(w) /\ o + (i - o) = i
    BY <1>1, <1>2
  <2>2. i \in Delivered(r, a, c) <=> i - o \in KeptBytes(f, w)
    <3>1. \A j \in 1 .. r.count : r.src[j] \in 1 .. Len(w)
      BY <1>4 DEF KeptBytes
    <3>2. \A j \in 1 .. r.count : o + r.src[j] = i <=> r.src[j] = i - o
      BY <1>1, <1>2, <3>1
    <3> QED BY <1>0, <1>4, <3>2 DEF Delivered
  <2>3. i - o \in KeptBytes(f, w) <=> KeepsLine(f, w, a - o, c - o)
    BY <1>2, <1>3, <2>1, KeptOfLine DEF KeptBytes
  <2> QED BY <2>2, <2>3
<1>7. Delivered(r, a, c) \subseteq a .. c
  BY DEF Delivered
<1> QED BY <1>5, <1>6, <1>7

(* A line that is whole in a piece is delivered whole or not at all, wherever
   the kernel or the caller's buffer cuts the file. *)
THEOREM WholeLinesDelivered == ReaderSpec => []WholeLinesFiltered
<1>1. RInv /\ ResultsInv => WholeLinesFiltered
  <2> SUFFICES ASSUME RInv, ResultsInv, f \in LineSanitizers, NEW k \in 1 .. Len(results),
                      NEW a \in 1 .. Len(file), NEW c \in a .. Len(file),
                      WholeLine(results[k], a, c)
               PROVE  Delivered(results[k], a, c)
                        = IF KeepsLine(f, file, a, c) \/ HeaderIn(results[k], a) THEN a .. c ELSE {}
    BY DEF WholeLinesFiltered
  <2>1. results[k] \in ResultSet /\ ResultOK(results[k])
    BY DEF RInv, PieceInv, ResultsInv
  <2> QED BY <2>1, LineDelivered
<1> QED BY <1>1, ResultsInvariance, PTL

(* The first needle of w, the l bytes after o, and what is behind it are where
   the file has them. *)
SameNeedle(r, w, o, l) ==
  \A j \in 1 .. l :
    /\ FirstNeedleIn(r, o + j) <=> FirstNeedle(w, j)
    /\ OfTracer(r, o + j)
         <=> \E m \in 1 .. j - 1 : FirstNeedle(w, m) /\ \A c \in m + 1 .. j : w[c] # NL

LEMMA NeedleOfWindow ==
  ASSUME NEW r, NEW o \in Nat, NEW l \in Nat, o = r.from, l = r.len, NEW w,
         \A j \in 1 .. l : w[j] = file[o + j]
  PROVE  SameNeedle(r, w, o, l)
<1>1. ASSUME NEW j \in 1 .. l PROVE FirstNeedleIn(r, o + j) <=> FirstNeedle(w, j)
  <2>1. o + j \in o + 1 .. o + l /\ w[j] = file[o + j]
    OBVIOUS
  <2>2. ASSUME FirstNeedleIn(r, o + j), NEW k \in 1 .. j - 1 PROVE w[k] # TracerPid
    <3>1. k \in 1 .. l /\ o + k \in o + 1 .. (o + j) - 1
      OBVIOUS
    <3> QED BY <2>2, <3>1 DEF FirstNeedleIn
  <2>3. ASSUME FirstNeedle(w, j), NEW k \in o + 1 .. (o + j) - 1 PROVE file[k] # TracerPid
    <3>1. k - o \in 1 .. j - 1 /\ k - o \in 1 .. l /\ o + (k - o) = k
      OBVIOUS
    <3> QED BY <2>3, <3>1 DEF FirstNeedle
  <2>4. FirstNeedleIn(r, o + j) => FirstNeedle(w, j)
    BY <2>1, <2>2 DEF FirstNeedleIn, FirstNeedle
  <2>5. FirstNeedle(w, j) => FirstNeedleIn(r, o + j)
    BY <2>1, <2>3 DEF FirstNeedleIn, FirstNeedle
  <2> QED BY <2>4, <2>5
<1>2. ASSUME NEW j \in 1 .. l, OfTracer(r, o + j)
      PROVE  \E m \in 1 .. j - 1 : FirstNeedle(w, m) /\ \A k \in m + 1 .. j : w[k] # NL
  <2>1. PICK x \in o + 1 .. (o + j) - 1 : FirstNeedleIn(r, x) /\ \A k \in x + 1 .. o + j : file[k] # NL
    BY <1>2 DEF OfTracer
  <2>2. x - o \in 1 .. j - 1 /\ x - o \in 1 .. l /\ o + (x - o) = x
    OBVIOUS
  <2>3. FirstNeedle(w, x - o)
    BY <1>1, <2>1, <2>2
  <2>4. ASSUME NEW k \in (x - o) + 1 .. j PROVE w[k] # NL
    <3>1. k \in 1 .. l /\ o + k \in x + 1 .. o + j
      OBVIOUS
    <3> QED BY <2>1, <3>1
  <2> QED BY <2>2, <2>3, <2>4
<1>3. ASSUME NEW j \in 1 .. l, NEW m \in 1 .. j - 1, FirstNeedle(w, m), \A k \in m + 1 .. j : w[k] # NL
      PROVE  OfTracer(r, o + j)
  <2>1. m \in 1 .. l /\ o + m \in o + 1 .. (o + j) - 1
    OBVIOUS
  <2>2. FirstNeedleIn(r, o + m)
    BY <1>1, <1>3, <2>1
  <2>3. ASSUME NEW k \in (o + m) + 1 .. o + j PROVE file[k] # NL
    <3>1. k - o \in m + 1 .. j /\ k - o \in 1 .. l /\ o + (k - o) = k
      OBVIOUS
    <3> QED BY <1>3, <3>1
  <2> QED BY <2>1, <2>2, <2>3 DEF OfTracer
<1> QED BY <1>1, <1>2, <1>3 DEF SameNeedle

(* The tracer's number never reaches a caller whose piece has its needle, and
   nothing else of the file is hidden or moved, wherever the file is cut. *)
THEOREM TracerMasked == ReaderSpec => []TracerHidden
<1>1. RInv /\ ResultsInv => TracerHidden
  <2> SUFFICES ASSUME RInv, ResultsInv, f = "sanitize_status", NEW k \in 1 .. Len(results)
               PROVE  LET r == results[k] IN
                      /\ r.count = r.len
                      /\ \A i \in r.from + 1 .. r.from + r.len :
                           r.bytes[i - r.from] = IF FirstNeedleIn(r, i - 1) THEN Zero
                                                 ELSE IF OfTracer(r, i) THEN Blank ELSE file[i]
    BY DEF TracerHidden
  <2>1. PICK r \in ResultSet : r = results[k] /\ ResultOK(r)
    BY DEF RInv, PieceInv, ResultsInv
  <2>2. PICK o \in Nat, l \in Nat : o = r.from /\ l = r.len
    BY DEF ResultSet
  <2>3. file \in Files /\ 1 <= l /\ o + l <= Len(file)
    BY <2>1, <2>2 DEF RInv, PieceInv, ResultOK
  <2>4. PICK w : w = Bytes(file, o + 1, o + l)
    OBVIOUS
  <2>5. Len(w) = l /\ \A j \in 1 .. l : w[j] = file[o + j]
    <3>1. \A j \in 1 .. l : o + 1 + j - 1 = o + j /\ j \in 1 .. (o + l) + 1 - (o + 1)
      OBVIOUS
    <3> QED BY <2>3, <2>4, <3>1, PieceType DEF Bytes
  <2>6. r.count = l /\ \A j \in 1 .. l : r.bytes[j] = Masked(w)[j]
    <3>1. f \notin Contract!LineSanitizers
      BY StatusApart, SameFilter
    <3>2. \A j \in 1 .. r.count : r.bytes[j] = Masked(w)[r.src[j]]
      BY <2>1, <2>2, <2>4, <3>1, SameFilter DEF ResultOK, Contract!Yields
    <3> QED BY <2>1, <2>2, <3>2 DEF ResultOK
  <2>7. SameNeedle(r, w, o, l)
    BY <2>2, <2>5, NeedleOfWindow
  <2>8. ASSUME NEW j \in 1 .. l
        PROVE  r.bytes[j] = IF FirstNeedleIn(r, (o + j) - 1) THEN Zero
                            ELSE IF OfTracer(r, o + j) THEN Blank ELSE file[o + j]
    <3> DEFINE Behind == \E m \in 1 .. j - 1 : FirstNeedle(w, m) /\ \A c \in m + 1 .. j : w[c] # NL
    <3>1. r.bytes[j] = IF j > 1 /\ FirstNeedle(w, j - 1) THEN Zero
                       ELSE IF Behind THEN Blank ELSE file[o + j]
      BY <2>5, <2>6 DEF Masked
    <3>2. OfTracer(r, o + j) <=> Behind
      BY <2>7 DEF SameNeedle
    <3> HIDE DEF Behind
    <3>3. FirstNeedleIn(r, (o + j) - 1) <=> j > 1 /\ FirstNeedle(w, j - 1)
      <4>1. CASE j > 1
        <5>1. j - 1 \in 1 .. l /\ o + (j - 1) = (o + j) - 1
          BY <4>1
        <5>2. FirstNeedleIn(r, o + (j - 1)) <=> FirstNeedle(w, j - 1)
          BY <2>7, <5>1 DEF SameNeedle
        <5> QED BY <4>1, <5>1, <5>2
      <4>2. CASE ~(j > 1)
        BY <2>2, <4>2 DEF FirstNeedleIn
      <4> QED BY <4>1, <4>2
    <3> QED BY <3>1, <3>2, <3>3
  <2>9. ASSUME NEW i \in o + 1 .. o + l
        PROVE  r.bytes[i - o] = IF FirstNeedleIn(r, i - 1) THEN Zero
                                ELSE IF OfTracer(r, i) THEN Blank ELSE file[i]
    <3>1. i - o \in 1 .. l /\ o + (i - o) = i
      OBVIOUS
    <3> QED BY <2>8, <3>1
  <2> QED BY <2>1, <2>2, <2>6, <2>9
<1> QED BY <1>1, ResultsInvariance, PTL
=============================================================================
