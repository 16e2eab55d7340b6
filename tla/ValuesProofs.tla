----------------------------- MODULE ValuesProofs -----------------------------
(***************************************************************************)
(* Proofs about what the drivers write besides integers, for every float,  *)
(* time, length and tag: floats and times, whose redundant bytes binc      *)
(* drops; the lengths of containers; the headers of extensions; and        *)
(* readers that do not know the type.  The last theorem of each part says  *)
(* so of the states of MCDrivers.                                          *)
(***************************************************************************)
EXTENDS DriversProofs

\* What stands in the middle of a sequence.
LEMMA Middle ==
  ASSUME NEW a \in Seq(Byte), NEW b \in Seq(Byte), NEW c \in Seq(Byte)
  PROVE  /\ SubSeq((a \o b) \o c, Len(a) + 1, Len(a) + Len(b)) = b
         /\ Len((a \o b) \o c) = Len(a) + Len(b) + Len(c)
         /\ \A i \in 1..Len(a) : ((a \o b) \o c)[i] = a[i]
         /\ \A i \in 1..Len(b) : ((a \o b) \o c)[Len(a) + i] = b[i]
         /\ \A i \in 1..Len(c) : ((a \o b) \o c)[Len(a) + Len(b) + i] = c[i]
<1> DEFINE e == a \o b
           s == e \o c
           m == Len(a)
           n == Len(b)
<1>m. m \in Nat /\ n \in Nat
  OBVIOUS
<1>1. e \in Seq(Byte) /\ Len(e) = m + n /\ (\A i \in 1..m : e[i] = a[i]) /\ \A i \in 1..n : e[m + i] = b[i]
  OBVIOUS
<1> HIDE DEF e, m, n
<1>0. /\ s \in Seq(Byte) /\ Len(s) = Len(e) + Len(c)
      /\ \A i \in 1..(Len(e) + Len(c)) : s[i] = IF i <= Len(e) THEN e[i] ELSE c[i - Len(e)]
  BY <1>1, ConcatProperties
<1>c. Len(c) \in Nat
  OBVIOUS
<1> DEFINE k == Len(c)
<1> HIDE DEF s, k
<1>2. s \in Seq(Byte) /\ Len(s) = m + n + k /\ \A i \in 1..(m + n) : s[i] = e[i]
  BY <1>m, <1>0, <1>1, <1>c DEF k
<1>3. \A i \in 1..k : s[m + n + i] = c[i]
  <2> TAKE i \in 1..k
  <2>1. m + n + i \in 1..(m + n + k) /\ ~(m + n + i <= m + n) /\ (m + n + i) - (m + n) = i
    BY <1>m, <1>c DEF k
  <2> QED
    BY <1>0, <1>1, <2>1 DEF k
<1> HIDE DEF s
<1>4. /\ \A i \in 1..m : s[i] = a[i]
      /\ \A i \in 1..n : s[m + i] = b[i]
  <2>1. \A i \in 1..m : i \in 1..(m + n)
    BY <1>m
  <2>2. \A i \in 1..n : m + i \in 1..(m + n)
    BY <1>m
  <2> QED
    BY <1>1, <1>2, <2>1, <2>2
<1>5. m + 1 \in Int /\ m + n \in Int /\ \A i \in (m + 1)..(m + n) : s[i] \in Byte
  <2>1. \A i \in (m + 1)..(m + n) : i \in 1..(m + n + k)
    BY <1>m, <1>c DEF k
  <2> QED
    BY <1>m, <1>2, <2>1, ElementOfSeq
<1> DEFINE q == SubSeq(s, m + 1, m + n)
<1>6. /\ q \in Seq(Byte)
      /\ Len(q) = IF m + 1 <= m + n THEN (m + n) - (m + 1) + 1 ELSE 0
      /\ \A i \in 1..((m + n) - (m + 1) + 1) : q[i] = s[(m + 1) + i - 1]
  BY <1>5, SubSeqProperties
<1> HIDE DEF q
<1>7. Len(q) = n
  BY <1>m, <1>6
<1>8. \A i \in 1..n : q[i] = b[i]
  <2> TAKE i \in 1..n
  <2>1. (m + 1) + i - 1 = m + i /\ i \in 1..((m + n) - (m + 1) + 1)
    BY <1>m
  <2> QED
    BY <1>4, <1>6, <2>1
<1>9. q = b
  BY <1>6, <1>7, <1>8, SeqEqual DEF n
<1> QED
  BY <1>2, <1>3, <1>4, <1>9 DEF e, s, q, k, m, n

\* Framing, for payloads of known length.
LEMMA Framed ==
  ASSUME NEW bd \in Byte, NEW p \in Seq(Byte), NEW r \in Seq(Byte)
  PROVE  /\ ((<<bd>> \o p) \o r)[1] = bd
         /\ Len(p) = 1 => SubSeq((<<bd>> \o p) \o r, 2, 2) = p /\ Len(<<bd>> \o p) = 2
         /\ Len(p) = 2 => SubSeq((<<bd>> \o p) \o r, 2, 3) = p /\ Len(<<bd>> \o p) = 3
         /\ Len(p) = 4 => SubSeq((<<bd>> \o p) \o r, 2, 5) = p /\ Len(<<bd>> \o p) = 5
         /\ Len(p) = 8 => SubSeq((<<bd>> \o p) \o r, 2, 9) = p /\ Len(<<bd>> \o p) = 9
<1> DEFINE n == Len(p)
           e == <<bd>> \o p
           s == e \o r
<1>1. n \in Nat
  OBVIOUS
<1> HIDE DEF n
<1>2. s[1] = bd /\ SubSeq(s, 2, n + 1) = p /\ Len(e) = n + 1
  BY <1>1, Framing DEF n
<1> HIDE DEF e, s
<1>3. /\ n = 1 => n + 1 = 2
      /\ n = 2 => n + 1 = 3
      /\ n = 4 => n + 1 = 5
      /\ n = 8 => n + 1 = 9
  OBVIOUS
<1>4. /\ n = 1 => SubSeq(s, 2, 2) = p /\ Len(e) = 2
      /\ n = 2 => SubSeq(s, 2, 3) = p /\ Len(e) = 3
      /\ n = 4 => SubSeq(s, 2, 5) = p /\ Len(e) = 5
      /\ n = 8 => SubSeq(s, 2, 9) = p /\ Len(e) = 9
  BY <1>2, <1>3, Zenon
<1> QED
  BY <1>2, <1>4 DEF n, e, s

\* The first i bytes of a word, and zeros for the others.
LEMMA Padded ==
  ASSUME NEW w \in Word, NEW i \in 0..8, \A j \in (i + 1)..8 : w[j] = 0
  PROVE  /\ SubSeq(w, 1, i) \in Seq(Byte) /\ Len(SubSeq(w, 1, i)) = i
         /\ SubSeq(SubSeq(w, 1, i) \o Fill(0, 8 - i), 1, 8) = w
<1>1. w \in Seq(Byte) /\ Len(w) = 8
  BY DEF Word
<1> DEFINE p == SubSeq(w, 1, i)
           z == Fill(0, 8 - i)
<1>2. p \in Seq(Byte) /\ Len(p) = i /\ \A j \in 1..i : p[j] = w[j]
  BY <1>1
<1>3. z \in Seq(Byte) /\ Len(z) = 8 - i /\ \A j \in 1..(8 - i) : z[j] = 0
  BY DEF Fill, Byte
<1> HIDE DEF p, z
<1> DEFINE x == p \o z
<1>4. x \in Seq(Byte) /\ Len(x) = 8 /\ \A j \in 1..8 : x[j] = IF j <= i THEN p[j] ELSE z[j - i]
  <2>1. x \in Seq(Byte)
    BY <1>2, <1>3
  <2>2. Len(x) = 8
    BY <1>2, <1>3
  <2>3. ASSUME NEW j \in 1..8 PROVE x[j] = IF j <= i THEN p[j] ELSE z[j - i]
    BY <1>2, <1>3
  <2> QED
    BY <2>1, <2>2, <2>3
<1> HIDE DEF x
<1>5. ASSUME NEW j \in 1..8 PROVE x[j] = w[j]
  <2>1. CASE j <= i
    BY <1>2, <1>4, <2>1
  <2>2. CASE ~(j <= i)
    <3>1. j \in (i + 1)..8 /\ j - i \in 1..(8 - i)
      BY <2>2
    <3>2. w[j] = 0
      BY <3>1
    <3>3. x[j] = z[j - i]
      BY <1>4, <2>2
    <3> QED
      BY <1>3, <3>1, <3>2, <3>3
  <2> QED
    BY <2>1, <2>2
<1>6. x = w
  BY <1>4, <1>5, SameWord DEF Word
<1>7. SubSeq(x, 1, 8) = x
  BY <1>4
<1> QED
  BY <1>2, <1>6, <1>7 DEF p, z, x

-----------------------------------------------------------------------------
(* Floats.                                                                 *)

\* The descriptors of floats in binc.
LEMMA FloatDescriptors ==
  /\ B!vd(49) = 48 /\ B!vs(49) = 1 /\ B!vd(51) = 48 /\ B!vs(51) = 3
  /\ B!vd(59) = 48 /\ B!vs(59) = 11 /\ B!VdFloat = 48 /\ B!FlBin32 = 1 /\ B!FlBin64 = 3
  /\ B!VdSpecial + B!SpZeroFloat = 6 /\ B!VdSpecial + B!SpZero = 7
  /\ B!VdFloat + B!FlBin32 = 49 /\ B!VdFloat + B!FlBin64 = 51 /\ B!VdFloat + 8 + B!FlBin64 = 59
  /\ 49 \notin {6, 7} /\ 51 \notin {6, 7} /\ 59 \notin {6, 7} /\ 1 % 8 = 1 /\ 3 % 8 = 3 /\ 11 % 8 = 3
  /\ ~(1 >= 8) /\ ~(3 >= 8) /\ 11 >= 8 /\ 3 # 1 /\ 4 + 1 = 5 /\ 8 + 1 = 9
  BY DEF B!vd, B!vs, B!VdFloat, B!FlBin32, B!FlBin64, B!VdSpecial, B!SpZeroFloat, B!SpZero

\* decodeFloat on each of them.
LEMMA BincReadsFloat ==
  ASSUME NEW s
  PROVE  /\ s[1] = 6 => B!decodeFloat(s) = B!Ok(B!Zero, 1)
         /\ s[1] = 49 => B!decodeFloat(s) = B!Ok(SubSeq(s, 2, 5), 5)
         /\ s[1] = 51 => B!decodeFloat(s) = B!Ok(SubSeq(s, 2, 9), 9)
         /\ s[1] = 59 /\ ~(s[2] > 8) =>
              B!decodeFloat(s) = B!Ok(SubSeq(SubSeq(s, 3, s[2] + 2) \o Fill(0, 8 - s[2]), 1, 8), s[2] + 2)
<1>1. ASSUME s[1] = 6 PROVE B!decodeFloat(s) = B!Ok(B!Zero, 1)
  BY <1>1, FloatDescriptors, Zenon DEF B!decodeFloat
<1>2. ASSUME s[1] = 49 PROVE B!decodeFloat(s) = B!Ok(SubSeq(s, 2, 5), 5)
  <2>1. B!decodeFloat(s) = B!decFloat(s)
    BY <1>2, FloatDescriptors, Zenon DEF B!decodeFloat
  <2>2. B!decFloat(s) = B!Ok(B!Payload(s, 4), 4 + 1)
    <3>1. B!vs(s[1]) % 8 = B!FlBin32 /\ B!vs(s[1]) % 8 \in {B!FlBin32, B!FlBin64} /\ ~(B!vs(s[1]) >= 8)
      BY <1>2, FloatDescriptors
    <3> QED
      BY <3>1, Zenon DEF B!decFloat
  <2> QED
    BY <2>1, <2>2, FloatDescriptors, Zenon DEF B!Payload
<1>3. ASSUME s[1] = 51 PROVE B!decodeFloat(s) = B!Ok(SubSeq(s, 2, 9), 9)
  <2>1. B!decodeFloat(s) = B!decFloat(s)
    BY <1>3, FloatDescriptors, Zenon DEF B!decodeFloat
  <2>2. B!decFloat(s) = B!Ok(B!Payload(s, 8), 8 + 1)
    <3>1. /\ B!vs(s[1]) % 8 # B!FlBin32 /\ B!vs(s[1]) % 8 \in {B!FlBin32, B!FlBin64}
          /\ ~(B!vs(s[1]) >= 8)
      BY <1>3, FloatDescriptors
    <3> QED
      BY <3>1, Zenon DEF B!decFloat
  <2> QED
    BY <2>1, <2>2, FloatDescriptors, Zenon DEF B!Payload
<1>4. ASSUME s[1] = 59, ~(s[2] > 8)
      PROVE  B!decodeFloat(s) = B!Ok(SubSeq(SubSeq(s, 3, s[2] + 2) \o Fill(0, 8 - s[2]), 1, 8), s[2] + 2)
  <2>1. B!decodeFloat(s) = B!decFloat(s)
    BY <1>4, FloatDescriptors, Zenon DEF B!decodeFloat
  <2>2. B!decFloat(s) = B!Ok(SubSeq(SubSeq(s, 3, s[2] + 2) \o Fill(0, 8 - s[2]), 1, 8), s[2] + 2)
    <3>1. /\ B!vs(s[1]) % 8 # B!FlBin32 /\ B!vs(s[1]) % 8 \in {B!FlBin32, B!FlBin64}
          /\ B!vs(s[1]) >= 8
      BY <1>4, FloatDescriptors
    <3> QED
      BY <1>4, <3>1, BincBytes, Zenon DEF B!decFloat
  <2> QED
    BY <2>1, <2>2
<1> QED
  BY <1>1, <1>2, <1>3, <1>4

\* A float64 survives binc, whatever follows it, but for the sign of a zero
\* (encodeFloat64, decodeFloat, decFloat, decFloatPre).
THEOREM BincFloat64 ==
  ASSUME NEW w \in Word, NEW r \in Seq(Byte)
  PROVE  B!decodeFloat(B!encodeFloat64(w) \o r) =
           B!Ok(IF B!IsZeroFloat(w) THEN B!Zero ELSE w, Len(B!encodeFloat64(w)))
<1> DEFINE e == B!encodeFloat64(w)
           s == e \o r
           i == CHOOSE x \in 0..8 : (\A j \in (x + 1)..8 : w[j] = 0) /\ (x > 0 => w[x] # 0)
<1>1. e = IF B!IsZeroFloat(w) THEN <<6>>
          ELSE IF i <= 6 THEN <<59, i>> \o SubSeq(w, 1, i) ELSE <<51>> \o w
  <2>1. e = IF B!IsZeroFloat(w) THEN <<B!VdSpecial + B!SpZeroFloat>>
            ELSE IF i <= 6 THEN <<B!VdFloat + 8 + B!FlBin64, i>> \o SubSeq(w, 1, i)
            ELSE <<B!VdFloat + B!FlBin64>> \o w
    BY Zenon DEF B!encodeFloat64
  <2> HIDE DEF e, i
  <2> QED
    BY <2>1, FloatDescriptors
<1>2. i \in 0..8 /\ LastByte(w, i)
  <2>1. PICK t \in 0..8 : LastByte(w, t)
    BY LastByteExists
  <2> QED
    BY <2>1, LastByteUnique
<1> HIDE DEF e, i
<1>w. w \in Seq(Byte) /\ Len(w) = 8
  BY DEF Word
<1>3. CASE B!IsZeroFloat(w)
  <2>1. e = <<6>>
    BY <1>1, <1>3, Zenon
  <2>2. s[1] = 6 /\ Len(e) = 1
    BY <2>1
  <2> HIDE DEF s
  <2>3. B!decodeFloat(s) = B!Ok(B!Zero, 1)
    BY <2>2, BincReadsFloat
  <2> QED
    BY <1>3, <2>2, <2>3, Zenon DEF s, e
<1>4. CASE ~B!IsZeroFloat(w) /\ i <= 6
  <2> DEFINE p == SubSeq(w, 1, i)
             a == <<59, i>>
  <2>1. e = a \o p
    BY <1>1, <1>4, Zenon
  <2>2. /\ p \in Seq(Byte) /\ Len(p) = i /\ i \in Nat
        /\ SubSeq(p \o Fill(0, 8 - i), 1, 8) = w
    <3>1. i \in Nat /\ \A j \in (i + 1)..8 : w[j] = 0
      BY <1>2 DEF LastByte
    <3> QED
      BY <1>2, <3>1, Padded, Zenon
  <2>3. a \in Seq(Byte) /\ Len(a) = 2 /\ a[1] = 59 /\ a[2] = i
    BY <1>2 DEF Byte
  <2> HIDE DEF a, p
  <2>4. Len(e) = 2 + i
    <3>1. Len(a \o p) = Len(a) + Len(p)
      BY <2>2, <2>3, ConcatProperties, Zenon
    <3> QED
      BY <2>1, <2>2, <2>3, <3>1
  <2>5. s[1] = 59 /\ s[2] = i /\ SubSeq(s, 2 + 1, 2 + i) = p
    <3>1. PICK m \in Nat : m = 2
      OBVIOUS
    <3>2. /\ SubSeq((a \o p) \o r, m + 1, m + i) = p
          /\ \A j \in 1..m : ((a \o p) \o r)[j] = a[j]
      <4>1. a \in Seq(Byte) /\ p \in Seq(Byte) /\ Len(a) = m /\ Len(p) = i /\ i \in Nat
        BY <2>2, <2>3, <3>1
      <4>2. /\ SubSeq((a \o p) \o r, Len(a) + 1, Len(a) + Len(p)) = p
            /\ \A j \in 1..Len(a) : ((a \o p) \o r)[j] = a[j]
        BY <4>1, Middle, Zenon
      <4> QED
        BY <4>1, <4>2, Zenon
    <3>3. SubSeq(s, m + 1, m + i) = p /\ \A j \in 1..m : s[j] = a[j]
      BY <2>1, <3>2, Zenon
    <3> HIDE DEF s
    <3> QED
      BY <2>3, <3>1, <3>3
  <2>6. 2 + 1 = 3 /\ 2 + i = i + 2 /\ ~(i > 8)
    BY <1>2
  <2> HIDE DEF s
  <2>7. B!decodeFloat(s) = B!Ok(SubSeq(SubSeq(s, 3, i + 2) \o Fill(0, 8 - i), 1, 8), i + 2)
    BY <2>5, <2>6, BincReadsFloat
  <2>8. SubSeq(s, 3, i + 2) = p
    BY <2>5, <2>6
  <2> QED
    BY <1>4, <2>2, <2>4, <2>6, <2>7, <2>8, Zenon DEF s, e
<1>5. CASE ~B!IsZeroFloat(w) /\ ~(i <= 6)
  <2>1. e = <<51>> \o w
    BY <1>1, <1>5, Zenon
  <2>2. s[1] = 51 /\ SubSeq(s, 2, 9) = w /\ Len(e) = 9
    <3>1. 51 \in Byte
      BY DEF Byte
    <3> QED
      BY <1>w, <2>1, <3>1, Framed, ZenonT(60)
  <2> HIDE DEF s
  <2>3. B!decodeFloat(s) = B!Ok(w, 9)
    BY <2>2, BincReadsFloat
  <2> QED
    BY <1>5, <2>2, <2>3, Zenon DEF s, e
<1> QED
  BY <1>3, <1>4, <1>5

\* So does a float32 that is not zero (encodeFloat32).
THEOREM BincFloat32 ==
  ASSUME NEW p \in Seq(Byte), Len(p) = 4, ~B!IsZeroFloat(p), NEW r \in Seq(Byte)
  PROVE  B!decodeFloat(B!encodeFloat32(p) \o r) = B!Ok(p, Len(B!encodeFloat32(p)))
<1> DEFINE e == <<49>> \o p
           s == e \o r
<1>1. B!encodeFloat32(p) = e
  BY FloatDescriptors, Zenon DEF B!encodeFloat32
<1>2. s[1] = 49 /\ SubSeq(s, 2, 5) = p /\ Len(e) = 5
  <2>1. 49 \in Byte
    BY DEF Byte
  <2> QED
    BY <2>1, Framed, ZenonT(60)
<1> HIDE DEF s, e
<1>3. B!decodeFloat(s) = B!Ok(p, 5)
  BY <1>2, BincReadsFloat
<1> QED
  BY <1>1, <1>2, <1>3 DEF s

\* And every float survives simple (encodeFloat32, encodeFloat64, decodeFloat).
THEOREM SimpleFloats ==
  ASSUME NEW r \in Seq(Byte)
  PROVE  /\ \A w \in Word : S!decodeFloat(S!encodeFloat64(w) \o r) = S!Ok(w, Len(S!encodeFloat64(w)))
         /\ \A p \in Seq(Byte) : Len(p) = 4 =>
              S!decodeFloat(S!encodeFloat32(p) \o r) = S!Ok(p, Len(S!encodeFloat32(p)))
<1>1. /\ S!VdFloat32 = 4 /\ S!VdFloat64 = 5 /\ 4 # 5 /\ 4 + 1 = 5 /\ 8 + 1 = 9 /\ 4 \in Byte /\ 5 \in Byte
      /\ 4 \in Nat /\ 8 \in Nat
  BY DEF S!VdFloat32, S!VdFloat64, Byte
<1>2. ASSUME NEW w \in Word PROVE S!decodeFloat(S!encodeFloat64(w) \o r) = S!Ok(w, Len(S!encodeFloat64(w)))
  <2> DEFINE e == <<5>> \o w
             s == e \o r
  <2>1. S!encodeFloat64(w) = e
    BY <1>1, Zenon DEF S!encodeFloat64
  <2>2. w \in Seq(Byte) /\ Len(w) = 8
    BY DEF Word
  <2>3. s[1] = 5 /\ SubSeq(s, 2, 9) = w /\ Len(e) = 9
    BY <1>1, <2>2, Framed, ZenonT(60)
  <2> HIDE DEF s, e
  <2>4. S!decodeFloat(s) = S!Ok(w, 9)
    BY <1>1, <2>3, Zenon DEF S!decodeFloat, S!Payload
  <2> QED
    BY <2>1, <2>3, <2>4 DEF s
<1>3. ASSUME NEW p \in Seq(Byte), Len(p) = 4
      PROVE  S!decodeFloat(S!encodeFloat32(p) \o r) = S!Ok(p, Len(S!encodeFloat32(p)))
  <2> DEFINE e == <<4>> \o p
             s == e \o r
  <2>1. S!encodeFloat32(p) = e
    BY <1>1, Zenon DEF S!encodeFloat32
  <2>2. s[1] = 4 /\ SubSeq(s, 2, 5) = p /\ Len(e) = 5
    BY <1>1, <1>3, Framed, ZenonT(60)
  <2> HIDE DEF s, e
  <2>3. S!decodeFloat(s) = S!Ok(p, 5)
    BY <1>1, <2>2, Zenon DEF S!decodeFloat, S!Payload
  <2> QED
    BY <2>1, <2>2, <2>3 DEF s
<1> QED
  BY <1>2, <1>3

\* What a float encoder writes is bytes.
LEMMA FloatBytes ==
  ASSUME NEW p \in Seq(Byte)
  PROVE  S!encodeFloat64(p) \in Seq(Byte) /\ S!encodeFloat32(p) \in Seq(Byte)
<1>1. S!VdFloat32 \in Byte /\ S!VdFloat64 \in Byte
  BY DEF S!VdFloat32, S!VdFloat64, Byte
<1> HIDE DEF S!VdFloat32, S!VdFloat64
<1>2. \A b \in Byte : <<b>> \o p \in Seq(Byte)
  OBVIOUS
<1> QED
  BY <1>1, <1>2, Zenon DEF S!encodeFloat32, S!encodeFloat64

\* Every float survives binc and simple, as a float32 and as a float64.
LEMMA FloatsSurvive ==
  ASSUME NEW w \in Word
  PROVE  FloatSurvives(w)
<1> DEFINE short == Low(w, 4)
<1>1. short \in Seq(Byte) /\ Len(short) = 4
  <2>1. 4 \in 1..8
    OBVIOUS
  <2> QED
    BY <2>1, LowBytes, Zenon
<1>2. <<7, 7>> \in Seq(Byte) /\ <<>> \in Seq(Byte) /\ w \in Seq(Byte)
  BY DEF Byte, Word
<1> HIDE DEF short
<1>3. B!decodeFloat(B!encodeFloat64(w) \o <<7, 7>>) =
        B!Ok(IF B!IsZeroFloat(w) THEN B!Zero ELSE w, Len(B!encodeFloat64(w)))
  BY <1>2, BincFloat64, Zenon
<1>4. ~B!IsZeroFloat(short) =>
        B!decodeFloat(B!encodeFloat32(short) \o <<7, 7>>) = B!Ok(short, Len(B!encodeFloat32(short)))
  BY <1>1, <1>2, BincFloat32, Zenon
<1>5. PICK r \in Seq(Byte) : r = <<>>
  BY <1>2
<1>6. \A x \in Seq(Byte) : x \o r = x
  BY <1>5, ConcatEmptySeq
<1>7. /\ S!decodeFloat(S!encodeFloat64(w)) = S!Ok(w, Len(S!encodeFloat64(w)))
      /\ S!decodeFloat(S!encodeFloat32(short)) = S!Ok(short, Len(S!encodeFloat32(short)))
  <2>1. /\ S!encodeFloat64(w) \o r = S!encodeFloat64(w)
        /\ S!encodeFloat32(short) \o r = S!encodeFloat32(short)
    BY <1>1, <1>2, <1>6, FloatBytes, Zenon
  <2>2. /\ S!decodeFloat(S!encodeFloat64(w) \o r) = S!Ok(w, Len(S!encodeFloat64(w)))
        /\ S!decodeFloat(S!encodeFloat32(short) \o r) = S!Ok(short, Len(S!encodeFloat32(short)))
    BY <1>1, SimpleFloats, Zenon
  <2> QED
    BY <2>1, <2>2, Zenon
<1> QED
  BY <1>3, <1>4, <1>7, Zenon DEF FloatSurvives, short

\* A part of a sequence, recognised by its elements.
LEMMA Part ==
  ASSUME NEW s \in Seq(Byte), NEW b \in Seq(Byte), NEW m \in Nat, m + Len(b) <= Len(s),
         \A i \in 1..Len(b) : s[m + i] = b[i]
  PROVE  SubSeq(s, m + 1, m + Len(b)) = b
<1> DEFINE n == Len(b)
           k == Len(s)
<1>1. n \in Nat /\ k \in Nat
  OBVIOUS
<1> HIDE DEF n, k
<1>2. m + n <= k /\ \A i \in 1..n : s[m + i] = b[i]
  BY DEF n, k
<1>3. m + 1 \in Int /\ m + n \in Int /\ \A i \in (m + 1)..(m + n) : s[i] \in Byte
  <2>1. \A i \in (m + 1)..(m + n) : i \in 1..k
    BY <1>1, <1>2
  <2> QED
    BY <1>1, <2>1, ElementOfSeq DEF k
<1> DEFINE q == SubSeq(s, m + 1, m + n)
<1>4. /\ q \in Seq(Byte)
      /\ Len(q) = IF m + 1 <= m + n THEN (m + n) - (m + 1) + 1 ELSE 0
      /\ \A i \in 1..((m + n) - (m + 1) + 1) : q[i] = s[(m + 1) + i - 1]
  BY <1>3, SubSeqProperties
<1> HIDE DEF q
<1>5. Len(q) = n
  BY <1>1, <1>4
<1>6. \A i \in 1..n : q[i] = b[i]
  <2> TAKE i \in 1..n
  <2>1. (m + 1) + i - 1 = m + i /\ i \in 1..((m + n) - (m + 1) + 1)
    BY <1>1
  <2> QED
    BY <1>2, <1>4, <2>1
<1>7. q = b
  BY <1>4, <1>5, <1>6, SeqEqual DEF n
<1> QED
  BY <1>7 DEF q, n

-----------------------------------------------------------------------------
(* Times.                                                                  *)

\* The seconds without the bytes that repeat their sign.
LEMMA SecondsBack ==
  ASSUME NEW w \in Word
  PROVE  LET f == B!pruneSignExt(w, ~B!Negative(w))
             p == SubSeq(w, f + 1, 8)
         IN  f \in 0..7 /\ p \in Seq(Byte) /\ Len(p) = 8 - f /\ SignExt(p) = w
<1> DEFINE pos == ~B!Negative(w)
           f == B!pruneSignExt(w, pos)
           p == SubSeq(w, f + 1, 8)
<1>1. w \in Seq(Byte) /\ Len(w) = 8 /\ \A i \in 1..8 : w[i] \in Byte
  BY DEF Word
<1>2. pos \in BOOLEAN
  BY DEF B!Negative
<1> HIDE DEF pos
<1>3. /\ f \in 0..7 /\ \A j \in 1..f : w[j] = Ext(pos)
      /\ f > 0 => (pos <=> w[f + 1] < 128)
  <2>1. PICK n \in {4, 8} : n = 8
    OBVIOUS
  <2>2. /\ f \in 0..(n - 1) /\ \A j \in 1..f : w[j] = Ext(pos)
        /\ f > 0 => (pos <=> w[f + 1] < 128)
    BY <1>1, <1>2, <2>1, Prunes, Zenon
  <2> HIDE DEF f
  <2> QED
    BY <2>1, <2>2
<1> HIDE DEF f
<1> DEFINE m == 8 - f
<1>4. m \in 1..8 /\ 9 - m = f + 1 /\ 8 - m = f
  BY <1>3
<1> HIDE DEF m
<1>5. p = Low(w, m)
  BY <1>4 DEF Low
<1>6. FitsS(w, m)
  <2>1. \A i \in 1..(8 - m) : w[i] = IF w[9 - m] >= 128 THEN 255 ELSE 0
    <3> SUFFICES ASSUME NEW i \in 1..f PROVE w[i] = IF w[f + 1] >= 128 THEN 255 ELSE 0
      BY <1>4
    <3>1. f > 0 /\ f + 1 \in 1..8
      BY <1>3
    <3>2. w[f + 1] \in 0..255
      BY <1>1, <3>1 DEF Byte
    <3>3. w[i] = IF pos THEN 0 ELSE 255
      BY <1>3 DEF Ext
    <3>4. pos <=> w[f + 1] < 128
      BY <1>3, <3>1
    <3> DEFINE x == w[f + 1]
    <3>5. x \in 0..255 /\ (pos <=> x < 128)
      BY <3>2, <3>4
    <3> HIDE DEF x
    <3>6. x >= 128 <=> ~pos
      BY <1>2, <3>5
    <3> QED
      BY <3>3, <3>6, Zenon DEF x
  <2> QED
    BY <1>4, <2>1, Ranges, Zenon
<1>7. Low(w, m) \in Seq(Byte) /\ Len(Low(w, m)) = m
  BY <1>4, LowBytes, Zenon
<1> HIDE DEF p
<1> QED
  BY <1>3, <1>5, <1>6, <1>7 DEF FitsS, p, f, m, pos

\* The nanoseconds without their leading zero bytes.
LEMMA NanosBack ==
  ASSUME NEW s \in Seq(Byte), Len(s) = 4
  PROVE  LET g == B!pruneSignExt(s, TRUE)
             q == SubSeq(s, g + 1, 4)
         IN  g \in 0..3 /\ q \in Seq(Byte) /\ Len(q) = 4 - g /\ Fill(0, g) \o q = s
<1> DEFINE g == B!pruneSignExt(s, TRUE)
           q == SubSeq(s, g + 1, 4)
<1>1. g \in 0..3 /\ \A j \in 1..g : s[j] = 0
  <2>1. PICK n \in {4, 8} : n = 4
    OBVIOUS
  <2>2. PICK pos \in BOOLEAN : pos = TRUE
    OBVIOUS
  <2>3. B!pruneSignExt(s, pos) \in 0..(n - 1) /\ \A j \in 1..B!pruneSignExt(s, pos) : s[j] = Ext(pos)
    BY <2>1, Prunes, Zenon
  <2>4. g \in 0..(n - 1) /\ \A j \in 1..g : s[j] = Ext(TRUE)
    BY <2>2, <2>3, Zenon
  <2> HIDE DEF g
  <2> QED
    BY <2>1, <2>4 DEF Ext
<1> HIDE DEF g
<1>2. q \in Seq(Byte) /\ Len(q) = 4 - g /\ \A i \in 1..(4 - g) : q[i] = s[g + i]
  <2>1. g + 1 \in Int /\ 4 \in Int /\ \A i \in (g + 1)..4 : s[i] \in Byte
    <3>1. \A i \in (g + 1)..4 : i \in 1..4
      BY <1>1
    <3>2. \A i \in 1..Len(s) : s[i] \in Byte
      BY ElementOfSeq
    <3> QED
      BY <1>1, <3>1, <3>2
  <2>2. /\ q \in Seq(Byte)
        /\ Len(q) = IF g + 1 <= 4 THEN 4 - (g + 1) + 1 ELSE 0
        /\ \A i \in 1..(4 - (g + 1) + 1) : q[i] = s[(g + 1) + i - 1]
    BY <2>1, SubSeqProperties
  <2> HIDE DEF q
  <2>3. Len(q) = 4 - g
    BY <1>1, <2>2
  <2>4. ASSUME NEW i \in 1..(4 - g) PROVE q[i] = s[g + i]
    <3>1. i \in 1..(4 - (g + 1) + 1) /\ (g + 1) + i - 1 = g + i
      BY <1>1
    <3> QED
      BY <2>2, <3>1
  <2> QED
    BY <2>2, <2>3, <2>4
<1> DEFINE z == Fill(0, g)
<1>3. z \in Seq(Byte) /\ Len(z) = g /\ \A j \in 1..g : z[j] = 0
  BY <1>1 DEF Fill, Byte
<1> HIDE DEF q, z
<1> DEFINE x == z \o q
<1>4. x \in Seq(Byte) /\ Len(x) = 4 /\ \A j \in 1..4 : x[j] = IF j <= g THEN z[j] ELSE q[j - g]
  BY <1>1, <1>2, <1>3
<1> HIDE DEF x
<1>5. ASSUME NEW j \in 1..4 PROVE x[j] = s[j]
  <2>1. CASE j <= g
    BY <1>1, <1>3, <1>4, <2>1
  <2>2. CASE ~(j <= g)
    <3>1. j - g \in 1..(4 - g) /\ g + (j - g) = j
      BY <1>1, <2>2
    <3> QED
      BY <1>2, <1>4, <2>2, <3>1
  <2> QED
    BY <2>1, <2>2
<1>6. x = s
  BY <1>4, <1>5, SeqEqual
<1> QED
  BY <1>1, <1>2, <1>6 DEF x, z, q, g

\* The three flags and two lengths in the first byte of a timestamp.
LEMMA TimeDescriptor ==
  ASSUME NEW a \in 0..1, NEW b \in 0..1, NEW c \in 0..1, NEW x \in 0..7, NEW y \in 0..3
  PROVE  LET bd == 128 * a + 64 * b + 32 * c + 4 * x + y
         IN  /\ bd \in Byte /\ B!Bit(bd, 7) = a /\ B!Bit(bd, 6) = b /\ B!Bit(bd, 5) = c
             /\ (bd \div 4) % 8 = x /\ bd % 4 = y
<1> DEFINE bd == 128 * a + 64 * b + 32 * c + 4 * x + y
<1>1. bd \in Byte
  BY DEF Byte
<1>2. 2 ^ 7 = 128 /\ 2 ^ 6 = 64 /\ 2 ^ 5 = 32
  OBVIOUS
<1>3. bd \div 128 = a /\ bd \div 64 = 2 * a + b /\ bd \div 32 = 4 * a + 2 * b + c
  OBVIOUS
<1>4. bd \div 4 = 32 * a + 16 * b + 8 * c + x /\ bd % 4 = y
  OBVIOUS
<1>5. a % 2 = a /\ (2 * a + b) % 2 = b /\ (4 * a + 2 * b + c) % 2 = c /\ (32 * a + 16 * b + 8 * c + x) % 8 = x
  OBVIOUS
<1> HIDE DEF bd
<1>6. B!Bit(bd, 7) = a /\ B!Bit(bd, 6) = b /\ B!Bit(bd, 5) = c
  BY <1>2, <1>3, <1>5, Zenon DEF B!Bit
<1> QED
  BY <1>1, <1>4, <1>5, <1>6, Zenon DEF bd

\* The 14 bits that hold the minutes of a zone: the two bytes encodeTime writes,
\* and what decodeTime makes of them.
ZoneHi(m) == ((m % 65536) \div 256) % 64
ZoneLo(m) == (m % 65536) % 256
TzValue(tz) == IF tz < 8192 THEN tz ELSE tz - 16384
Tz(hi, lo) == TzValue((hi % 64) * 256 + lo)

\* They hold the minutes.
LEMMA ZoneBack ==
  ASSUME NEW m \in Int, -8192 < m, m < 8192
  PROVE  ZoneHi(m) \in Byte /\ ZoneLo(m) \in Byte /\ Tz(ZoneHi(m), ZoneLo(m)) = m
<1> DEFINE z == m % 65536
           hi == ZoneHi(m)
           lo == ZoneLo(m)
           tz == (hi % 64) * 256 + lo
<1>0. hi = (z \div 256) % 64 /\ lo = z % 256
  BY SMT DEF ZoneHi, ZoneLo
<1>1. z = IF m >= 0 THEN m ELSE m + 65536
  BY SMT
<1> HIDE DEF z, hi, lo
<1>2. z \in Nat /\ z < 65536
  BY <1>1, SMT
<1>3. PICK q \in Nat : q < 256 /\ z \div 256 = q
  BY <1>2, SMT
<1>4. z = 256 * q + lo /\ lo \in 0..255
  BY <1>0, <1>2, <1>3, SMT
<1>5. hi = q % 64 /\ hi \in 0..63 /\ hi % 64 = hi
  BY <1>0, <1>3, SMT
<1>6. m >= 0 => q < 32
  BY <1>1, <1>3, <1>4, SMT
<1>7. m < 0 => q >= 224
  BY <1>1, <1>3, <1>4, SMT
<1>8. (q < 32 => q % 64 = q) /\ (q >= 224 => q % 64 = q - 192)
  BY <1>3, SMT
<1>9. tz = hi * 256 + lo
  BY <1>5, SMT
<1> HIDE DEF tz
<1>10. (IF tz < 8192 THEN tz ELSE tz - 16384) = m
  <2>1. CASE m >= 0
    <3>1. hi = q /\ q < 32 /\ z = m
      BY <1>1, <1>5, <1>6, <1>8, <2>1, SMT
    <3>2. tz = m /\ m < 8192
      BY <1>4, <1>9, <3>1, SMT
    <3> QED
      BY <3>2, SMT
  <2>2. CASE m < 0
    <3>1. hi = q - 192 /\ z = m + 65536
      BY <1>1, <1>5, <1>7, <1>8, <2>2, SMT
    <3>2. tz = m + 16384 /\ ~(m + 16384 < 8192)
      BY <1>4, <1>9, <3>1, SMT
    <3> QED
      BY <3>2, SMT
  <2> QED
    BY <2>1, <2>2, SMT
<1>11. hi \in Byte /\ lo \in Byte
  BY <1>4, <1>5, SMT DEF Byte
<1> QED
  BY <1>10, <1>11, SMT DEF Tz, TzValue, tz, hi, lo

\* The minutes of a zone, truncated towards UTC.
LEMMA MinutesBounded ==
  ASSUME NEW o \in Int, -491520 < o, o < 491520
  PROVE  B!Minutes(o) \in Int /\ -8192 < B!Minutes(o) /\ B!Minutes(o) < 8192
<1>1. ASSUME NEW p \in Nat, p < 491520 PROVE p \div 60 \in Nat /\ p \div 60 < 8192
  <2> DEFINE x == p \div 60
  <2>1. x \in Int /\ 60 * x <= p /\ p < 60 * x + 60
    BY <1>1, SMT
  <2> HIDE DEF x
  <2>2. x \in Nat /\ x < 8192
    BY <1>1, <2>1, SMT
  <2> QED
    BY <2>2 DEF x
<1>2. CASE o >= 0
  <2>1. o \in Nat /\ B!Minutes(o) = o \div 60
    BY <1>2, SMT DEF B!Minutes
  <2>2. o \div 60 \in Nat /\ o \div 60 < 8192
    BY <1>1, <2>1, SMT
  <2> QED
    BY <2>1, <2>2, SMT
<1>3. CASE ~(o >= 0)
  <2>1. -o \in Nat /\ -o < 491520 /\ B!Minutes(o) = -((-o) \div 60)
    BY <1>3, SMT DEF B!Minutes
  <2>2. (-o) \div 60 \in Nat /\ (-o) \div 60 < 8192
    BY <1>1, <2>1, SMT
  <2> QED
    BY <2>1, <2>2, SMT
<1> QED
  BY <1>2, <1>3, SMT

\* Descriptor, seconds, nanoseconds and zone: what decodeTime finds where.
LEMMA TimeLayout ==
  ASSUME NEW bd \in Byte, NEW p \in Seq(Byte), NEW q \in Seq(Byte), NEW z \in Seq(Byte)
  PROVE  LET e == ((<<bd>> \o p) \o q) \o z
             n == Len(p)
             m == Len(q)
         IN  /\ e \in Seq(Byte) /\ Len(e) = n + m + Len(z) + 1 /\ e[1] = bd
             /\ SubSeq(e, 2, n + 1) = p /\ SubSeq(e, n + 2, n + m + 1) = q
             /\ Len(z) = 2 => e[n + m + 2] = z[1] /\ e[n + m + 3] = z[2]
<1> DEFINE a == <<bd>> \o p
           x == a \o q
           e == x \o z
           n == Len(p)
           m == Len(q)
           k == Len(z)
<1>1. n \in Nat /\ m \in Nat /\ k \in Nat
  OBVIOUS
<1>2. a \in Seq(Byte) /\ Len(a) = n + 1 /\ a[1] = bd /\ \A i \in 1..n : a[1 + i] = p[i]
  OBVIOUS
<1> HIDE DEF a
<1>3. x \in Seq(Byte)
  BY <1>2
<1>4. e \in Seq(Byte)
  <2> HIDE DEF x
  <2> QED
    BY <1>3
<1>5. /\ SubSeq(e, Len(a) + 1, Len(a) + Len(q)) = q
      /\ Len(e) = Len(a) + Len(q) + Len(z)
      /\ \A i \in 1..Len(a) : e[i] = a[i]
      /\ \A i \in 1..Len(z) : e[Len(a) + Len(q) + i] = z[i]
  <2>1. Len(x \o z) = Len(a) + Len(q) + Len(z) /\ SubSeq(x \o z, Len(a) + 1, Len(a) + Len(q)) = q
    BY <1>2, Middle, Zenon
  <2>2. \A i \in 1..Len(a) : (x \o z)[i] = a[i]
    BY <1>2, Middle, Zenon
  <2>3. \A i \in 1..Len(z) : (x \o z)[Len(a) + Len(q) + i] = z[i]
    BY <1>2, Middle, Zenon
  <2> QED
    BY <2>1, <2>2, <2>3, Zenon
<1> HIDE DEF e, n, m, k
<1>6. /\ SubSeq(e, n + 1 + 1, n + 1 + m) = q
      /\ Len(e) = n + 1 + m + k
      /\ \A i \in 1..(n + 1) : e[i] = a[i]
      /\ \A i \in 1..k : e[n + 1 + m + i] = z[i]
  BY <1>2, <1>5, Zenon DEF m, k
<1>7. n + 1 + 1 = n + 2 /\ n + 1 + m = n + m + 1 /\ n + 1 + m + k = n + m + k + 1
      /\ n + 1 + m + 1 = n + m + 2 /\ n + 1 + m + 2 = n + m + 3 /\ 1 + n = n + 1 /\ 1 + 1 = 2
  BY <1>1
<1>8. SubSeq(e, n + 2, n + m + 1) = q /\ Len(e) = n + m + k + 1
  BY <1>6, <1>7, Zenon
<1>9. e[1] = bd
  <2>1. 1 \in 1..(n + 1)
    BY <1>1
  <2> QED
    BY <1>2, <1>6, <2>1
<1>10. SubSeq(e, 2, n + 1) = p
  <2>1. \A i \in 1..n : e[1 + i] = p[i]
    <3> TAKE i \in 1..n
    <3>1. 1 + i \in 1..(n + 1)
      BY <1>1
    <3> QED
      BY <1>2, <1>6, <3>1
  <2>2. 1 \in Nat /\ 1 + n <= Len(e)
    BY <1>1, <1>8
  <2>3. SubSeq(e, 1 + 1, 1 + Len(p)) = p
    BY <1>4, <2>1, <2>2, Part, Zenon DEF n
  <2> QED
    BY <1>7, <2>3, Zenon DEF n
<1>11. k = 2 => e[n + m + 2] = z[1] /\ e[n + m + 3] = z[2]
  <2> HAVE k = 2
  <2>1. 1 \in 1..k /\ 2 \in 1..k
    OBVIOUS
  <2>2. e[n + 1 + m + 1] = z[1] /\ e[n + 1 + m + 2] = z[2]
    BY <1>6, <2>1, Zenon
  <2> QED
    BY <1>7, <2>2, Zenon
<1> QED
  BY <1>4, <1>8, <1>9, <1>10, <1>11 DEF a, x, e, n, m, k

\* What Go's time.Time can be for encodeTime: a zone is less than 8192 minutes
\* away from UTC.
Time(t) ==
  /\ t.secs \in Word
  /\ t.nsecs \in Seq(Byte) /\ Len(t.nsecs) = 4
  /\ t.utc \in BOOLEAN
  /\ B!Minutes(t.offset) \in Int /\ -8192 < B!Minutes(t.offset) /\ B!Minutes(t.offset) < 8192

\* What decodeTime computes from the descriptor.
SecsBytes(bd) == IF B!Bit(bd, 7) = 1 THEN ((bd \div 4) % 8) + 1 ELSE 0
NsecsBytes(bd) == IF B!Bit(bd, 6) = 1 THEN (bd % 4) + 1 ELSE 0

\* The parts of an encoded time.
TimeParts(t, bd, p, q, z) ==
  /\ B!encodeTime(t) = ((<<bd>> \o p) \o q) \o z
  /\ SecsBytes(bd) = Len(p) /\ NsecsBytes(bd) = Len(q) /\ B!Bit(bd, 5) = IF t.utc THEN 0 ELSE 1
  /\ (IF Len(p) > 0 THEN SignExt(p) ELSE B!Zero) = t.secs
  /\ Fill(0, 4 - Len(q)) \o q = t.nsecs
  /\ Len(p) <= 8 /\ Len(q) <= 4 /\ Len(z) = IF t.utc THEN 0 ELSE 2
  /\ ~t.utc => Tz(z[1], z[2]) = B!Minutes(t.offset)

\* A flag of the descriptor and the bytes it announces: the seconds.
LEMMA SecondsField ==
  ASSUME NEW w \in Word
  PROVE  LET has == w # B!Zero
             f == IF has THEN B!pruneSignExt(w, ~B!Negative(w)) ELSE 7
             p == B!TimeField(has, SubSeq(w, f + 1, 8))
         IN  /\ f \in 0..7 /\ p \in Seq(Byte)
             /\ Len(p) = IF has THEN 8 - f ELSE 0
             /\ (IF Len(p) > 0 THEN SignExt(p) ELSE B!Zero) = w
<1>1. CASE w # B!Zero
  <2> DEFINE f == B!pruneSignExt(w, ~B!Negative(w))
             p == SubSeq(w, f + 1, 8)
  <2>1. f \in 0..7 /\ p \in Seq(Byte) /\ Len(p) = 8 - f /\ SignExt(p) = w
    BY SecondsBack, Zenon
  <2> HIDE DEF f, p
  <2>2. 8 - f > 0
    BY <2>1
  <2> QED
    BY <1>1, <2>1, <2>2, Zenon DEF f, p, B!TimeField
<1>2. CASE ~(w # B!Zero)
  <2> DEFINE f == IF w # B!Zero THEN B!pruneSignExt(w, ~B!Negative(w)) ELSE 7
             p == B!TimeField(w # B!Zero, SubSeq(w, f + 1, 8))
  <2>1. f = 7
    BY <1>2, Zenon
  <2> HIDE DEF f
  <2>2. p = <<>>
    BY <1>2, Zenon DEF B!TimeField
  <2> HIDE DEF p
  <2>3. f \in 0..7 /\ p \in Seq(Byte) /\ Len(p) = 0 /\ ~(Len(p) > 0)
    BY <2>1, <2>2
  <2> QED
    BY <1>2, <2>3, Zenon DEF f, p
<1> QED
  BY <1>1, <1>2, Zenon

\* And the nanoseconds.
LEMMA NanosField ==
  ASSUME NEW s \in Seq(Byte), Len(s) = 4
  PROVE  LET has == s # B!Fill(0, 4)
             g == IF has THEN B!pruneSignExt(s, TRUE) ELSE 3
             q == B!TimeField(has, SubSeq(s, g + 1, 4))
         IN  /\ g \in 0..3 /\ q \in Seq(Byte)
             /\ Len(q) = IF has THEN 4 - g ELSE 0
             /\ Fill(0, 4 - Len(q)) \o q = s
<1>1. CASE s # B!Fill(0, 4)
  <2> DEFINE g == B!pruneSignExt(s, TRUE)
             q == SubSeq(s, g + 1, 4)
  <2>1. g \in 0..3 /\ q \in Seq(Byte) /\ Len(q) = 4 - g /\ Fill(0, g) \o q = s
    BY NanosBack, Zenon
  <2> HIDE DEF g, q
  <2>2. 4 - (4 - g) = g
    BY <2>1
  <2> QED
    BY <1>1, <2>1, <2>2, Zenon DEF g, q, B!TimeField
<1>2. CASE ~(s # B!Fill(0, 4))
  <2> DEFINE g == IF s # B!Fill(0, 4) THEN B!pruneSignExt(s, TRUE) ELSE 3
             q == B!TimeField(s # B!Fill(0, 4), SubSeq(s, g + 1, 4))
  <2>1. g = 3
    BY <1>2, Zenon
  <2> HIDE DEF g
  <2>2. q = <<>>
    BY <1>2, Zenon DEF B!TimeField
  <2> HIDE DEF q
  <2>3. g \in 0..3 /\ q \in Seq(Byte) /\ Len(q) = 0 /\ 4 - Len(q) = 4
    BY <2>1, <2>2
  <2>4. s \o q = s
    BY <2>2, <2>3, ConcatEmptySeq
  <2>5. Fill(0, 4 - Len(q)) \o q = s
    BY <1>2, <2>3, <2>4, BincBytes, Zenon
  <2> QED
    BY <1>2, <2>3, <2>5, Zenon DEF g, q
<1> QED
  BY <1>1, <1>2, Zenon

\* encodeTime writes those parts.
LEMMA TimeWritten ==
  ASSUME NEW t, Time(t)
  PROVE  \E bd \in Byte : \E p, q, z \in Seq(Byte) : TimeParts(t, bd, p, q, z)
<1> DEFINE hs == t.secs # B!Zero
           hn == t.nsecs # B!Fill(0, 4)
           f == IF hs THEN B!pruneSignExt(t.secs, ~B!Negative(t.secs)) ELSE 7
           g == IF hn THEN B!pruneSignExt(t.nsecs, TRUE) ELSE 3
           o == B!Minutes(t.offset) % 65536
           hi == (o \div 256) % 64
           lo == o % 256
           bd == (IF hs THEN 128 ELSE 0) + (IF hn THEN 64 ELSE 0) + (IF t.utc THEN 0 ELSE 32)
                   + 4 * (7 - f) + (3 - g)
           p == B!TimeField(hs, SubSeq(t.secs, f + 1, 8))
           q == B!TimeField(hn, SubSeq(t.nsecs, g + 1, 4))
           z == B!TimeField(~t.utc, <<hi, lo>>)
<1>1. B!encodeTime(t) = ((<<bd>> \o p) \o q) \o z
  BY SMT DEF B!encodeTime
<1>2. /\ f \in 0..7 /\ p \in Seq(Byte)
      /\ Len(p) = IF hs THEN 8 - f ELSE 0
      /\ (IF Len(p) > 0 THEN SignExt(p) ELSE B!Zero) = t.secs
  <2>1. t.secs \in Word
    BY DEF Time
  <2> QED
    BY <2>1, SecondsField, Zenon
<1>3. /\ g \in 0..3 /\ q \in Seq(Byte)
      /\ Len(q) = IF hn THEN 4 - g ELSE 0
      /\ Fill(0, 4 - Len(q)) \o q = t.nsecs
  <2>1. t.nsecs \in Seq(Byte) /\ Len(t.nsecs) = 4
    BY DEF Time
  <2> QED
    BY <2>1, NanosField, Zenon
<1>4. t.utc \in BOOLEAN
  BY DEF Time
<1>5. hi \in Byte /\ lo \in Byte /\ Tz(hi, lo) = B!Minutes(t.offset)
  <2> DEFINE m == B!Minutes(t.offset)
  <2>1. m \in Int /\ -8192 < m /\ m < 8192
    BY DEF Time
  <2>2. hi = ZoneHi(m) /\ lo = ZoneLo(m)
    BY SMT DEF ZoneHi, ZoneLo
  <2> HIDE DEF m, hi, lo
  <2>3. ZoneHi(m) \in Byte /\ ZoneLo(m) \in Byte /\ Tz(ZoneHi(m), ZoneLo(m)) = m
    BY <2>1, ZoneBack, SMT
  <2> QED
    BY <2>2, <2>3, SMT DEF m
<1> HIDE DEF hi, lo
<1>6. z \in Seq(Byte) /\ Len(z) = (IF t.utc THEN 0 ELSE 2) /\ (~t.utc => Tz(z[1], z[2]) = B!Minutes(t.offset))
  <2>1. CASE t.utc
    <3>1. z = <<>>
      BY <2>1, Zenon DEF B!TimeField
    <3> HIDE DEF z
    <3>2. z \in Seq(Byte) /\ Len(z) = 0
      BY <3>1
    <3> QED
      BY <2>1, <3>2, Zenon
  <2>2. CASE ~t.utc
    <3>1. z = <<hi, lo>>
      BY <2>2, Zenon DEF B!TimeField
    <3> HIDE DEF z
    <3>2. z \in Seq(Byte) /\ Len(z) = 2 /\ z[1] = hi /\ z[2] = lo
      BY <1>5, <3>1
    <3> QED
      BY <1>5, <2>2, <3>2, Zenon
  <2> QED
    BY <2>1, <2>2
<1> HIDE DEF hs, hn, f, g, p, q, z
<1>7. /\ bd \in Byte /\ SecsBytes(bd) = Len(p) /\ NsecsBytes(bd) = Len(q)
      /\ B!Bit(bd, 5) = IF t.utc THEN 0 ELSE 1
  <2> DEFINE a == IF hs THEN 1 ELSE 0
             b == IF hn THEN 1 ELSE 0
             c == IF t.utc THEN 0 ELSE 1
             x == 7 - f
             y == 3 - g
  <2>1. a \in 0..1 /\ b \in 0..1 /\ c \in 0..1 /\ x \in 0..7 /\ y \in 0..3
    BY <1>2, <1>3
  <2>2. bd = 128 * a + 64 * b + 32 * c + 4 * x + y
    BY <1>2, <1>3
  <2>3. /\ Len(p) = IF a = 1 THEN x + 1 ELSE 0
        /\ Len(q) = IF b = 1 THEN y + 1 ELSE 0
    BY <1>2, <1>3
  <2> HIDE DEF a, b, c, x, y, bd
  <2>4. /\ bd \in Byte /\ B!Bit(bd, 7) = a /\ B!Bit(bd, 6) = b /\ B!Bit(bd, 5) = c
        /\ (bd \div 4) % 8 = x /\ bd % 4 = y
    BY <2>1, <2>2, TimeDescriptor
  <2>5. SecsBytes(bd) = Len(p) /\ NsecsBytes(bd) = Len(q)
    BY <2>3, <2>4, Zenon DEF SecsBytes, NsecsBytes
  <2> QED
    BY <2>4, <2>5, Zenon DEF c
<1> HIDE DEF bd
<1>8. Len(p) <= 8 /\ Len(q) <= 4
  BY <1>2, <1>3
<1>9. TimeParts(t, bd, p, q, z)
  BY <1>1, <1>2, <1>3, <1>6, <1>7, <1>8, Zenon DEF TimeParts
<1> QED
  BY <1>2, <1>3, <1>6, <1>7, <1>9, Zenon

\* What comes back of a time: its zone to the minute.
TimeRead(t) == [secs |-> t.secs, nsecs |-> t.nsecs, zone |-> IF t.utc THEN 0 ELSE B!Minutes(t.offset)]

\* decodeTime on the parts of a time.
LEMMA TimeDecoded ==
  ASSUME NEW t, Time(t)
  PROVE  /\ B!encodeTime(t) \in Seq(Byte) /\ Len(B!encodeTime(t)) <= 15 /\ Len(B!encodeTime(t)) > 0
         /\ B!decodeTime(B!encodeTime(t)) = TimeRead(t)
<1>1. PICK bd \in Byte : \E p, q, z \in Seq(Byte) : TimeParts(t, bd, p, q, z)
  BY TimeWritten, Zenon
<1>2. PICK p, q, z \in Seq(Byte) : TimeParts(t, bd, p, q, z)
  BY <1>1, Zenon
<1> DEFINE e == ((<<bd>> \o p) \o q) \o z
           n == Len(p)
           m == Len(q)
<1>3. /\ B!encodeTime(t) = e /\ SecsBytes(bd) = n /\ NsecsBytes(bd) = m
      /\ B!Bit(bd, 5) = IF t.utc THEN 0 ELSE 1
      /\ (IF n > 0 THEN SignExt(p) ELSE B!Zero) = t.secs /\ Fill(0, 4 - m) \o q = t.nsecs
      /\ n <= 8 /\ m <= 4 /\ Len(z) = IF t.utc THEN 0 ELSE 2
      /\ ~t.utc => Tz(z[1], z[2]) = B!Minutes(t.offset)
  BY <1>2, Zenon DEF TimeParts
<1>p. bd \in Byte /\ p \in Seq(Byte) /\ q \in Seq(Byte) /\ z \in Seq(Byte)
  OBVIOUS
<1>4. /\ e \in Seq(Byte) /\ Len(e) = n + m + Len(z) + 1 /\ e[1] = bd
      /\ SubSeq(e, 2, n + 1) = p /\ SubSeq(e, n + 2, n + m + 1) = q
      /\ Len(z) = 2 => e[n + m + 2] = z[1] /\ e[n + m + 3] = z[2]
  <2>1. e \in Seq(Byte) /\ Len(e) = n + m + Len(z) + 1 /\ e[1] = bd
    BY <1>p, TimeLayout, SMT
  <2>2. SubSeq(e, 2, n + 1) = p
    BY <1>p, TimeLayout, SMT
  <2>3. SubSeq(e, n + 2, n + m + 1) = q
    BY <1>p, TimeLayout, SMT
  <2>4. Len(z) = 2 => e[n + m + 2] = z[1] /\ e[n + m + 3] = z[2]
    BY <1>p, TimeLayout, SMT
  <2> QED
    BY <2>1, <2>2, <2>3, <2>4, Zenon
<1>5. n \in Nat /\ m \in Nat /\ t.utc \in BOOLEAN
  BY DEF Time
<1> HIDE DEF e, n, m
<1>6. Len(e) <= 15 /\ Len(e) > 0
  BY <1>3, <1>4, <1>5
<1> DEFINE Read(x, y) == [secs |-> IF x > 0 THEN B!SignExt(SubSeq(e, 2, x + 1)) ELSE B!Zero,
                          nsecs |-> B!Fill(0, 4 - y) \o SubSeq(e, x + 2, x + y + 1),
                          zone |-> IF B!Bit(e[1], 5) = 0 THEN 0 ELSE Tz(e[x + y + 2], e[x + y + 3])]
<1>7. B!decodeTime(e) = Read(SecsBytes(e[1]), NsecsBytes(e[1]))
  BY SMT DEF B!decodeTime, SecsBytes, NsecsBytes, Tz, TzValue
<1>8. Read(SecsBytes(e[1]), NsecsBytes(e[1])) = Read(n, m)
  <2>1. SecsBytes(e[1]) = n /\ NsecsBytes(e[1]) = m
    BY <1>3, <1>4, Zenon
  <2> QED
    BY <2>1, Zenon
<1>9. Read(n, m) = TimeRead(t)
  <2>0. (\A x : B!SignExt(x) = SignExt(x)) /\ (\A b, k : B!Fill(b, k) = Fill(b, k))
    BY Zenon DEF B!SignExt, SignExt, B!Fill, Fill
  <2>1. (IF n > 0 THEN B!SignExt(SubSeq(e, 2, n + 1)) ELSE B!Zero) = t.secs
    BY <1>3, <1>4, <2>0, Zenon
  <2>2. B!Fill(0, 4 - m) \o SubSeq(e, n + 2, n + m + 1) = t.nsecs
    BY <1>3, <1>4, <2>0, Zenon
  <2>3. (IF B!Bit(e[1], 5) = 0 THEN 0 ELSE Tz(e[n + m + 2], e[n + m + 3])) = IF t.utc THEN 0 ELSE B!Minutes(t.offset)
    <3>1. CASE t.utc
      BY <1>3, <1>4, <3>1, Zenon
    <3>2. CASE ~t.utc
      <4>1. Len(z) = 2 /\ B!Bit(bd, 5) = 1 /\ 1 # 0
        BY <1>3, <3>2
      <4>2. Tz(e[n + m + 2], e[n + m + 3]) = B!Minutes(t.offset)
        BY <1>3, <1>4, <3>2, <4>1, Zenon
      <4> QED
        BY <1>4, <3>2, <4>1, <4>2, Zenon
    <3> QED
      BY <3>1, <3>2
  <2> QED
    BY <2>1, <2>2, <2>3, Zenon DEF TimeRead
<1> QED
  BY <1>3, <1>4, <1>6, <1>7, <1>8, <1>9, Zenon

\* A time survives binc, whatever follows it: the instant exactly, the zone to
\* the minute; and its length always fits the four bits there are for it
\* (encodeTime, decodeTime, EncodeBuiltin, DecodeBuiltin).
THEOREM BincTimes ==
  ASSUME NEW t, Time(t), NEW r \in Seq(Byte)
  PROVE  /\ Len(B!encodeTime(t)) <= 15
         /\ B!decodeBuiltin(B!encodeBuiltin(t) \o r) = B!Ok(TimeRead(t), Len(B!encodeBuiltin(t)))
<1> DEFINE e == B!encodeTime(t)
           n == Len(e)
           d == 128 + n
           s == (<<d>> \o e) \o r
<1>1. e \in Seq(Byte) /\ n <= 15 /\ n > 0 /\ B!decodeTime(e) = TimeRead(t)
  BY TimeDecoded, Zenon
<1> HIDE DEF e
<1>2. n \in Nat /\ Len(e) = n
  BY <1>1
<1>3. B!encodeBuiltin(t) = <<d>> \o e
  BY Zenon DEF B!encodeBuiltin, B!VdTimestamp, e
<1> HIDE DEF n
<1>4. d \in Byte /\ B!vd(d) = 128 /\ B!vs(d) = n /\ B!VdTimestamp = 128
  <2>1. n \in 0..15
    BY <1>1, <1>2
  <2>2. \A k \in 0..15 : 128 + k \in 0..255 /\ (128 + k) % 16 = k /\ (128 + k) - k = 128
    OBVIOUS
  <2>3. d \in Byte /\ d % 16 = n /\ d - n = 128
    BY <2>1, <2>2 DEF Byte
  <2> QED
    BY <2>3 DEF B!vd, B!vs, B!VdTimestamp
<1> HIDE DEF d
<1>5. s[1] = d /\ SubSeq(s, 2, n + 1) = e /\ Len(<<d>> \o e) = n + 1
  BY <1>1, <1>2, <1>4, Framing, SMT
<1> HIDE DEF s
<1>6. B!decodeBuiltin(s) = B!Ok(TimeRead(t), n + 1)
  BY <1>1, <1>4, <1>5, Zenon DEF B!decodeBuiltin, B!Payload
<1>7. s = B!encodeBuiltin(t) \o r /\ Len(B!encodeBuiltin(t)) = n + 1
  BY <1>3, <1>5, Zenon DEF s
<1> QED
  BY <1>1, <1>6, <1>7, Zenon DEF n, e

\* The powers in ToBytes.
LEMMA Powers ==
  256 ^ 0 = 1 /\ 256 ^ 1 = 256 /\ 256 ^ 2 = 65536 /\ 256 ^ 3 = 16777216
  BY SMT

\* The four bytes of a number.
LEMMA Digits ==
  ASSUME NEW x \in Nat
  PROVE  /\ ToBytes(x, 4) \in Seq(Byte) /\ Len(ToBytes(x, 4)) = 4
         /\ ToBytes(x, 4)[1] = (x \div 16777216) % 256 /\ ToBytes(x, 4)[2] = (x \div 65536) % 256
         /\ ToBytes(x, 4)[3] = (x \div 256) % 256 /\ ToBytes(x, 4)[4] = x % 256
<1> DEFINE Digit(i) == (x \div (256 ^ (4 - i))) % 256
           g == [i \in 1..4 |-> Digit(i)]
<1>1. Digit(1) = (x \div 16777216) % 256 /\ Digit(2) = (x \div 65536) % 256
      /\ Digit(3) = (x \div 256) % 256 /\ Digit(4) = x % 256
  <2>1. 4 - 1 = 3 /\ 4 - 2 = 2 /\ 4 - 3 = 1 /\ 4 - 4 = 0 /\ x \div 1 = x
    BY SMT
  <2> QED
    BY <2>1, Powers, SMT
<1>2. Digit(1) \in Byte /\ Digit(2) \in Byte /\ Digit(3) \in Byte /\ Digit(4) \in Byte
  BY <1>1, SMT DEF Byte
<1>3. ToBytes(x, 4) = g
  BY DEF ToBytes
<1> HIDE DEF Digit
<1>4. \A i \in 1..4 : Digit(i) \in Byte
  <2>1. \A i \in 1..4 : i = 1 \/ i = 2 \/ i = 3 \/ i = 4
    BY SMT
  <2> QED
    BY <1>2, <2>1
<1>5. g \in Seq(Byte) /\ Len(g) = 4 /\ g[1] = Digit(1) /\ g[2] = Digit(2) /\ g[3] = Digit(3) /\ g[4] = Digit(4)
  BY <1>4, SMT
<1> HIDE DEF g
<1> QED
  BY <1>1, <1>3, <1>5, SMT

\* They are bytes.
LEMMA ToBytesAreBytes ==
  ASSUME NEW x \in Nat
  PROVE  ToBytes(x, 4) \in Seq(Byte) /\ Len(ToBytes(x, 4)) = 4
  BY Digits, SMT

\* The samples of times.
LEMMA SampleTime ==
  ASSUME NEW x \in Samples, x.kind = "time"
  PROVE  Time(x)
<1> DEFINE Offs == Offsets \cup {-o : o \in Offsets}
           Ends == {Fill(0, 8), Fill(255, 8)}
           Utc == [kind : {"time"}, utc : {TRUE}, secs : Words, nsecs : Nanos, offset : {0}]
           Zoned == [kind : {"time"}, utc : {FALSE}, secs : Ends, nsecs : Nanos, offset : Offs]
           Ct == {B!VdString, B!VdByteArray, B!VdArray, B!VdMap}
           Cs == {S!VdString, S!VdByteArray, S!VdArray, S!VdMap}
           Rest == [kind : {"word"}, v : Words]
             \cup [kind : {"bool"}, b : BOOLEAN]
             \cup [kind : {"mplength"}, ct : Containers, l : Lengths, writeExt : BOOLEAN]
             \cup [kind : {"binclength"}, bd : Ct, l : Lengths]
             \cup [kind : {"simplelength"}, bd : Cs, l : Lengths]
             \cup [kind : {"ext"}, l : Lengths, tag : {0, 1, 255}]
<1>1. x \in Utc \/ x \in Zoned
  <2>1. Samples = Rest \cup Utc \cup Zoned
    BY Zenon DEF Samples
  <2> HIDE DEF Offs, Ends, Ct, Cs
  <2>2. \A y \in Rest : y.kind # "time"
    BY SMT
  <2> HIDE DEF Rest, Utc, Zoned
  <2> QED
    BY <2>1, <2>2, Zenon
<1>2. /\ x.utc \in BOOLEAN /\ x.secs \in Words \cup Ends /\ x.nsecs \in Nanos
      /\ x.offset = 0 \/ x.offset \in Offs
  <2> HIDE DEF Offs, Ends
  <2>0. ASSUME NEW K, NEW U, NEW W, NEW N, NEW O, NEW y \in [kind : K, utc : U, secs : W, nsecs : N, offset : O]
        PROVE  y.utc \in U /\ y.secs \in W /\ y.nsecs \in N /\ y.offset \in O
    BY SMT
  <2>1. x \in Utc => x.utc \in {TRUE} /\ x.secs \in Words /\ x.nsecs \in Nanos /\ x.offset \in {0}
    BY <2>0, Zenon
  <2>2. x \in Zoned => x.utc \in {FALSE} /\ x.secs \in Ends /\ x.nsecs \in Nanos /\ x.offset \in Offs
    BY <2>0, Zenon
  <2> HIDE DEF Utc, Zoned
  <2> QED
    BY <1>1, <2>1, <2>2, Zenon
<1>3. x.secs \in Word
  <2>1. Fill(0, 8) \in Word /\ Fill(255, 8) \in Word
    BY SMT DEF Fill, Word, Byte
  <2> QED
    BY <1>2, <2>1, WordsAreWords, Zenon
<1>4. x.nsecs \in Seq(Byte) /\ Len(x.nsecs) = 4
  <2>1. PICK y \in Nat : x.nsecs = ToBytes(y, 4)
    BY <1>2, SMT DEF Nanos
  <2> QED
    BY <2>1, ToBytesAreBytes, Zenon
<1>5. x.offset \in Int /\ -491520 < x.offset /\ x.offset < 491520
  <2>1. ASSUME NEW o \in Offsets PROVE o \in Int /\ 0 <= o /\ o < 491520
    BY OffsetsAssumption, SMT
  <2>2. x.offset = 0 \/ x.offset \in Offsets \/ \E o \in Offsets : x.offset = -o
    BY <1>2, Zenon
  <2> QED
    BY <2>1, <2>2, SMT
<1>6. B!Minutes(x.offset) \in Int /\ -8192 < B!Minutes(x.offset) /\ B!Minutes(x.offset) < 8192
  BY <1>5, MinutesBounded, SMT
<1> QED
  BY <1>2, <1>3, <1>4, <1>6, SMT DEF Time

\* Every float survives binc and simple, and every time binc, for all the values
\* of which MCDrivers has samples (encodeFloat32, encodeFloat64, decodeFloat,
\* encodeTime, decodeTime).
THEOREM PrunedValuesSurvive == Spec => []PrunedRoundTrip
<1> DEFINE Timed == sample.kind = "time" => Time(sample)
<1>1. Init => Timed
  BY SampleTime DEF Init
<1>2. Timed /\ [Next]_sample => Timed'
  <2> SUFFICES ASSUME Timed, sample' = sample PROVE Timed'
    BY DEF Next
  <2> QED
    BY DEF Time
<1>3. Timed /\ (IsWord => v \in Word) => PrunedRoundTrip
  <2> SUFFICES ASSUME Timed, IsWord => v \in Word PROVE PrunedRoundTrip
    OBVIOUS
  <2>1. IsWord => FloatSurvives(v)
    BY FloatsSurvive, Zenon
  <2>2. ASSUME Time(sample) PROVE TimeSurvives(sample)
    <3>1. <<7, 7>> \in Seq(Byte)
      BY DEF Byte
    <3>2. Len(B!encodeTime(sample)) <= 15 /\ B!decodeBuiltin(B!encodeBuiltin(sample) \o <<7, 7>>) =
            B!Ok(TimeRead(sample), Len(B!encodeBuiltin(sample)))
      BY <2>2, <3>1, BincTimes, Zenon
    <3> QED
      BY <3>2, Zenon DEF TimeSurvives, TimeRead
  <2> QED
    BY <2>1, <2>2, Zenon DEF PrunedRoundTrip
<1> QED
  BY <1>1, <1>2, <1>3, SampleWord, PTL DEF Spec

-----------------------------------------------------------------------------
(* Numbers.                                                                *)

\* A step of ToNat.
Step(x, b) == IF x >= Huge \div 256 THEN Huge ELSE 256 * x + b

\* The recursion of ToNat, for at most eight bytes: its steps, one by one.
Steps(bs, f) ==
  /\ f[0] = 0
  /\ \A i \in 1..Len(bs) : f[i] = Step(f[i - 1], bs[i])

\* ToNat takes them.
LEMMA ToNatSteps ==
  ASSUME NEW bs, NEW n \in 0..8, Len(bs) = n
  PROVE  \E f : Steps(bs, f) /\ ToNat(bs) = f[n]
<1> DEFINE V0 == 0
           V1 == Step(V0, bs[1])
           V2 == Step(V1, bs[2])
           V3 == Step(V2, bs[3])
           V4 == Step(V3, bs[4])
           V5 == Step(V4, bs[5])
           V6 == Step(V5, bs[6])
           V7 == Step(V6, bs[7])
           V8 == Step(V7, bs[8])
           V(i) == IF i = 0 THEN V0 ELSE IF i = 1 THEN V1 ELSE IF i = 2 THEN V2 ELSE IF i = 3 THEN V3
                   ELSE IF i = 4 THEN V4 ELSE IF i = 5 THEN V5 ELSE IF i = 6 THEN V6
                   ELSE IF i = 7 THEN V7 ELSE V8
           Rec(f) == [i \in 0..Len(bs) |-> IF i = 0 THEN 0 ELSE Step(f[i - 1], bs[i])]
           g == [i \in 0..n |-> V(i)]
           F == CHOOSE f : f = Rec(f)
<1>1. ToNat(bs) = F[Len(bs)]
  BY SMT DEF ToNat, Step
<1>2. g = Rec(g)
  <2> HIDE DEF V1, V2, V3, V4, V5, V6, V7, V8
  <2>1. V(0) = 0 /\ V(1) = V1 /\ V(2) = V2 /\ V(3) = V3 /\ V(4) = V4 /\ V(5) = V5 /\ V(6) = V6 /\ V(7) = V7 /\ V(8) = V8
    BY SMT
  <2> HIDE DEF V
  <2>2. ASSUME NEW i \in 1..8 PROVE V(i) = Step(V(i - 1), bs[i])
    <3>1. V1 = Step(V0, bs[1]) /\ V2 = Step(V1, bs[2]) /\ V3 = Step(V2, bs[3]) /\ V4 = Step(V3, bs[4])
          /\ V5 = Step(V4, bs[5]) /\ V6 = Step(V5, bs[6]) /\ V7 = Step(V6, bs[7]) /\ V8 = Step(V7, bs[8])
      BY Zenon DEF V1, V2, V3, V4, V5, V6, V7, V8
    <3> QED
      BY <2>1, <3>1, SMT
  <2>3. ASSUME NEW i \in 0..n PROVE V(i) = IF i = 0 THEN 0 ELSE Step(g[i - 1], bs[i])
    <3>1. CASE i = 0
      BY <2>1, <3>1, Zenon
    <3>2. CASE i # 0
      <4>1. i \in 1..8 /\ i - 1 \in 0..n
        BY <3>2, SMT
      <4>2. g[i - 1] = V(i - 1)
        BY <4>1, Zenon
      <4> QED
        BY <2>2, <3>2, <4>1, <4>2, Zenon
    <3> QED
      BY <3>1, <3>2, Zenon
  <2> QED
    BY <2>3, Zenon
<1> HIDE DEF g
<1>3. F = Rec(F)
  BY <1>2, Zenon
<1> HIDE DEF F
<1>4. F[0] = 0
  <2>1. 0 \in 0..n
    BY SMT
  <2> QED
    BY <1>3, <2>1, Zenon
<1>5. ASSUME NEW i \in 1..Len(bs) PROVE F[i] = Step(F[i - 1], bs[i])
  <2>1. i \in 0..n /\ i # 0
    BY SMT
  <2> QED
    BY <1>3, <2>1, Zenon
<1> QED
  BY <1>1, <1>4, <1>5, Zenon DEF Steps

\* What the lengths of containers stay below.
LEMMA HugeValue ==
  Huge = 1073741824 /\ Huge \div 256 = 4194304
  BY SMT DEF Huge

\* A step far from Huge.
LEMMA SmallStep ==
  ASSUME NEW x \in Nat, x < 4194304, NEW b \in Byte
  PROVE  Step(x, b) = 256 * x + b /\ 256 * x + b \in Nat
<1>1. b \in Nat
  BY SMT DEF Byte
<1> QED
  BY <1>1, HugeValue, SMT DEF Step

\* The number that four bytes stand for.
Number(a, b, c, d) == 256 * (256 * (256 * a + b) + c) + d

\* The first two steps.
LEMMA FirstSteps ==
  ASSUME NEW b \in Byte
  PROVE  Step(0, b) = b /\ \A c \in Byte : Step(b, c) = 256 * b + c
<1>1. b \in Nat /\ b < 256
  BY SMT DEF Byte
<1> QED
  BY <1>1, SmallStep, SMT

\* Three steps from the first of four bytes, if that is small enough.
LEMMA NumberSteps ==
  ASSUME NEW a \in Byte, a < 64, NEW b \in Byte, NEW c \in Byte, NEW d \in Byte
  PROVE  Step(Step(Step(a, b), c), d) = Number(a, b, c, d)
<1>1. a \in Nat /\ b \in Nat /\ c \in Nat /\ d \in Nat /\ b < 256 /\ c < 256
  BY SMT DEF Byte
<1> DEFINE x == 256 * a + b
           y == 256 * x + c
<1>3. Step(a, b) = x /\ x \in Nat /\ x < 16384
  BY <1>1, SmallStep, SMT
<1> HIDE DEF x
<1>4. Step(x, c) = y /\ y \in Nat /\ y < 4194304
  BY <1>1, <1>3, SmallStep, SMT
<1> HIDE DEF y
<1>5. Step(y, d) = 256 * y + d
  BY <1>4, SmallStep, SMT
<1> QED
  BY <1>3, <1>4, <1>5, SMT DEF Number, x, y

\* What ToNat computes from the bytes of a length.
LEMMA ToNatValue ==
  ASSUME NEW bs \in Seq(Byte)
  PROVE  /\ Len(bs) = 1 => ToNat(bs) = bs[1]
         /\ Len(bs) = 2 => ToNat(bs) = 256 * bs[1] + bs[2]
         /\ Len(bs) = 4 /\ bs[1] < 64 => ToNat(bs) = Number(bs[1], bs[2], bs[3], bs[4])
         /\ Len(bs) = 8 /\ bs[1] = 0 /\ bs[2] = 0 /\ bs[3] = 0 /\ bs[4] = 0 /\ bs[5] < 64 =>
              ToNat(bs) = Number(bs[5], bs[6], bs[7], bs[8])
<1>0. 0 \in Byte /\ \A i \in 1..Len(bs) : bs[i] \in Byte
  <2>1. 0 \in Byte
    BY SMT DEF Byte
  <2>2. \A i \in 1..Len(bs) : bs[i] \in Byte
    BY ElementOfSeq, Zenon
  <2> QED
    BY <2>1, <2>2
<1>1. ASSUME Len(bs) = 1 PROVE ToNat(bs) = bs[1]
  <2>1. PICK f : Steps(bs, f) /\ ToNat(bs) = f[1]
    BY <1>1, ToNatSteps, SMT
  <2>2. f[0] = 0 /\ f[1] = Step(f[0], bs[1])
    BY <1>1, <2>1, SMT DEF Steps
  <2>b. bs[1] \in Byte
    BY <1>0, <1>1, SMT
  <2>3. Step(0, bs[1]) = bs[1]
    BY <2>b, FirstSteps, Zenon
  <2> QED
    BY <2>1, <2>2, <2>3, Zenon
<1>2. ASSUME Len(bs) = 2 PROVE ToNat(bs) = 256 * bs[1] + bs[2]
  <2>1. PICK f : Steps(bs, f) /\ ToNat(bs) = f[2]
    BY <1>2, ToNatSteps, SMT
  <2>2. f[0] = 0 /\ f[1] = Step(f[0], bs[1]) /\ f[2] = Step(f[1], bs[2])
    BY <1>2, <2>1, SMT DEF Steps
  <2>b. bs[1] \in Byte /\ bs[2] \in Byte
    BY <1>0, <1>2, SMT
  <2>3. Step(0, bs[1]) = bs[1] /\ Step(bs[1], bs[2]) = 256 * bs[1] + bs[2]
    BY <2>b, FirstSteps, Zenon
  <2> QED
    BY <2>1, <2>2, <2>3, Zenon
<1>3. ASSUME Len(bs) = 4, bs[1] < 64 PROVE ToNat(bs) = Number(bs[1], bs[2], bs[3], bs[4])
  <2>1. PICK f : Steps(bs, f) /\ ToNat(bs) = f[4]
    BY <1>3, ToNatSteps, SMT
  <2>2. /\ f[0] = 0 /\ f[1] = Step(f[0], bs[1]) /\ f[2] = Step(f[1], bs[2]) /\ f[3] = Step(f[2], bs[3])
        /\ f[4] = Step(f[3], bs[4])
    BY <1>3, <2>1, SMT DEF Steps
  <2>b. bs[1] \in Byte /\ bs[2] \in Byte /\ bs[3] \in Byte /\ bs[4] \in Byte
    BY <1>0, <1>3, SMT
  <2>3. Step(0, bs[1]) = bs[1]
    BY <2>b, FirstSteps, Zenon
  <2>4. Step(Step(Step(bs[1], bs[2]), bs[3]), bs[4]) = Number(bs[1], bs[2], bs[3], bs[4])
    BY <1>3, <2>b, NumberSteps, SMT
  <2> QED
    BY <2>1, <2>2, <2>3, <2>4, Zenon
<1>4. ASSUME Len(bs) = 8, bs[1] = 0, bs[2] = 0, bs[3] = 0, bs[4] = 0, bs[5] < 64
      PROVE  ToNat(bs) = Number(bs[5], bs[6], bs[7], bs[8])
  <2>1. PICK f : Steps(bs, f) /\ ToNat(bs) = f[8]
    BY <1>4, ToNatSteps, SMT
  <2>2. /\ f[0] = 0 /\ f[1] = Step(f[0], bs[1]) /\ f[2] = Step(f[1], bs[2]) /\ f[3] = Step(f[2], bs[3])
        /\ f[4] = Step(f[3], bs[4]) /\ f[5] = Step(f[4], bs[5]) /\ f[6] = Step(f[5], bs[6])
        /\ f[7] = Step(f[6], bs[7]) /\ f[8] = Step(f[7], bs[8])
    BY <1>4, <2>1, SMT DEF Steps
  <2>b. bs[5] \in Byte /\ bs[6] \in Byte /\ bs[7] \in Byte /\ bs[8] \in Byte
    BY <1>0, <1>4, SMT
  <2>3. Step(0, bs[5]) = bs[5] /\ Step(0, 0) = 0
    BY <1>0, <2>b, FirstSteps, Zenon
  <2>5. Step(Step(Step(bs[5], bs[6]), bs[7]), bs[8]) = Number(bs[5], bs[6], bs[7], bs[8])
    BY <1>4, <2>b, NumberSteps, SMT
  <2>4. f[1] = 0 /\ f[2] = 0 /\ f[3] = 0 /\ f[4] = 0
    BY <1>4, <2>2, <2>3, Zenon
  <2> QED
    BY <2>1, <2>2, <2>3, <2>4, <2>5, Zenon
<1> QED
  BY <1>1, <1>2, <1>3, <1>4, Zenon

\* The digits of a number, put together again.
LEMMA DigitsBack ==
  ASSUME NEW x \in Nat, x < Huge
  PROVE  LET a == (x \div 16777216) % 256
             b == (x \div 65536) % 256
             c == (x \div 256) % 256
             d == x % 256
         IN  a \in Byte /\ a < 64 /\ b \in Byte /\ c \in Byte /\ d \in Byte
             /\ Number(a, b, c, d) = x
             /\ (x < 65536 => 256 * c + d = x)
             /\ (x < 256 => d = x)
             /\ (x < 65536 <=> a = 0 /\ b = 0)
<1> DEFINE p == x \div 16777216
           q == x \div 65536
           r == x \div 256
           a == p % 256
           b == q % 256
           c == r % 256
           d == x % 256
<1>0. x < 1073741824
  BY HugeValue, SMT
<1>1. p \in Nat /\ 16777216 * p <= x /\ x < 16777216 * p + 16777216
  BY SMT
<1>2. q \in Nat /\ 65536 * q <= x /\ x < 65536 * q + 65536
  BY SMT
<1>3. r \in Nat /\ x = 256 * r + d /\ d \in 0..255
  BY SMT
<1> HIDE DEF p, q, r, d
<1>4. p < 64
  BY <1>0, <1>1, SMT
<1>5. a = p /\ a \in Nat
  BY <1>1, <1>4, SMT
<1>6. 256 * p <= q /\ q < 256 * p + 256
  BY <1>1, <1>2, SMT
<1>7. 256 * q <= r /\ r < 256 * q + 256
  BY <1>2, <1>3, SMT
<1>8. q = 256 * p + b /\ b \in 0..255
  BY <1>1, <1>2, <1>6, SMT
<1>9. r = 256 * q + c /\ c \in 0..255
  BY <1>2, <1>3, <1>7, SMT
<1> HIDE DEF a, b, c
<1>10. Number(a, b, c, d) = x
  BY <1>3, <1>5, <1>8, <1>9, SMT DEF Number
<1>11. x < 65536 => p = 0 /\ q = 0
  BY <1>1, <1>2, SMT
<1>12. /\ x < 65536 => 256 * c + d = x
       /\ x < 256 => d = x
       /\ x < 65536 <=> a = 0 /\ b = 0
  <2>1. x < 65536 => 256 * c + d = x /\ a = 0 /\ b = 0
    BY <1>3, <1>5, <1>8, <1>9, <1>11, SMT
  <2>2. x < 256 => d = x
    BY <1>3, SMT
  <2>3. a = 0 /\ b = 0 => x < 65536
    BY <1>3, <1>5, <1>8, <1>9, SMT
  <2> QED
    BY <2>1, <2>2, <2>3, SMT
<1>13. a \in Byte /\ a < 64 /\ b \in Byte /\ c \in Byte /\ d \in Byte
  BY <1>3, <1>4, <1>5, <1>8, <1>9, SMT DEF Byte
<1> QED
  BY <1>10, <1>12, <1>13, SMT DEF p, q, r, a, b, c, d

\* The bytes of a length, and what ToNat makes of them.
LEMMA LengthBytes ==
  ASSUME NEW x \in Nat, x < Huge
  PROVE  /\ ToBytes(x, 4) \in Seq(Byte) /\ Len(ToBytes(x, 4)) = 4 /\ ToNat(ToBytes(x, 4)) = x
         /\ x < 65536 => ToBytes(x, 2) \in Seq(Byte) /\ Len(ToBytes(x, 2)) = 2 /\ ToNat(ToBytes(x, 2)) = x
         /\ x < 256 => x \in Byte /\ ToNat(<<x>>) = x
<1> DEFINE a == (x \div 16777216) % 256
           b == (x \div 65536) % 256
           c == (x \div 256) % 256
           d == x % 256
           t == ToBytes(x, 4)
<1>1. /\ a \in Byte /\ a < 64 /\ b \in Byte /\ c \in Byte /\ d \in Byte
      /\ Number(a, b, c, d) = x
      /\ (x < 65536 => 256 * c + d = x)
      /\ (x < 256 => d = x)
      /\ (x < 65536 <=> a = 0 /\ b = 0)
  BY DigitsBack, SMT
<1>2. t \in Seq(Byte) /\ Len(t) = 4 /\ t[1] = a /\ t[2] = b /\ t[3] = c /\ t[4] = d
  BY Digits, SMT
<1>3. x < 65536 => ToBytes(x, 2) = <<c, d>>
  <2> DEFINE g == [i \in 1..2 |-> (x \div (256 ^ (2 - i))) % 256]
  <2>1. ToBytes(x, 2) = g
    BY DEF ToBytes
  <2>2. g = <<(x \div (256 ^ (2 - 1))) % 256, (x \div (256 ^ (2 - 2))) % 256>>
    BY SMT
  <2>3. 2 - 1 = 1 /\ 2 - 2 = 0 /\ x \div 1 = x
    BY SMT
  <2>4. (x \div (256 ^ (2 - 1))) % 256 = c /\ (x \div (256 ^ (2 - 2))) % 256 = d
    BY <2>3, Powers, SMT
  <2> HIDE DEF g, c, d
  <2> QED
    BY <2>1, <2>2, <2>4, SMT
<1> HIDE DEF a, b, c, d, t
<1>4. ToNat(t) = x
  <2>1. ToNat(t) = Number(t[1], t[2], t[3], t[4])
    BY <1>1, <1>2, ToNatValue, SMT
  <2> QED
    BY <1>1, <1>2, <2>1, SMT
<1>5. x < 65536 => ToBytes(x, 2) \in Seq(Byte) /\ Len(ToBytes(x, 2)) = 2 /\ ToNat(ToBytes(x, 2)) = x
  <2> HAVE x < 65536
  <2> DEFINE u == <<c, d>>
  <2>1. u \in Seq(Byte) /\ Len(u) = 2 /\ u[1] = c /\ u[2] = d
    BY <1>1, SMT
  <2>2. ToBytes(x, 2) = u
    BY <1>3, SMT
  <2> HIDE DEF u
  <2>3. ToNat(u) = 256 * u[1] + u[2]
    BY <2>1, ToNatValue, SMT
  <2> QED
    BY <1>1, <2>1, <2>2, <2>3, SMT
<1>6. x < 256 => x \in Byte /\ ToNat(<<x>>) = x
  <2> HAVE x < 256
  <2> DEFINE u == <<x>>
  <2>1. x \in Byte
    BY SMT DEF Byte
  <2>2. u \in Seq(Byte) /\ Len(u) = 1 /\ u[1] = x
    BY <2>1, SMT
  <2> HIDE DEF u
  <2>3. ToNat(u) = u[1]
    BY <2>2, ToNatValue, SMT
  <2> QED
    BY <2>1, <2>2, <2>3, SMT DEF u
<1> QED
  BY <1>2, <1>4, <1>5, <1>6, SMT DEF t

\* The word of a length.
LEMMA LengthWords ==
  ASSUME NEW x \in Nat, x < Huge
  PROVE  LengthOf(x) \in Word /\ ToNat(LengthOf(x)) = x /\ (FitsU(LengthOf(x), 2) <=> ReadBack(x))
<1> DEFINE a == (x \div 16777216) % 256
           b == (x \div 65536) % 256
           c == (x \div 256) % 256
           d == x % 256
           t == ToBytes(x, 4)
<1>1. /\ a \in Byte /\ a < 64 /\ b \in Byte /\ c \in Byte /\ d \in Byte
      /\ Number(a, b, c, d) = x
      /\ (x < 65536 <=> a = 0 /\ b = 0)
  BY DigitsBack, SMT
<1>2. t \in Seq(Byte) /\ Len(t) = 4 /\ t[1] = a /\ t[2] = b /\ t[3] = c /\ t[4] = d
  BY Digits, SMT
<1> HIDE DEF a, b, c, d, t
<1> DEFINE w == LengthOf(x)
<1>3. w \in Word /\ \A i \in 1..8 : w[i] = IF i <= 4 THEN 0 ELSE t[i - 4]
  <2> DEFINE n == Len(t)
             y == Fill(0, 8 - n) \o t
  <2>1. w = y
    BY Zenon DEF LengthOf, ZeroExt, t
  <2>2. n \in 1..8 /\ 8 - n = 4
    BY <1>2, SMT
  <2>3. 0 \in Byte
    BY SMT DEF Byte
  <2>4. /\ y \in Word
        /\ \A i \in 1..8 : y[i] = IF i <= 8 - n THEN 0 ELSE t[i - (8 - n)]
    BY <1>2, <2>2, <2>3, Extended, Zenon
  <2> HIDE DEF w, y, n
  <2> QED
    BY <2>1, <2>2, <2>4, Zenon
<1> HIDE DEF w
<1>4. /\ w[1] = 0 /\ w[2] = 0 /\ w[3] = 0 /\ w[4] = 0
      /\ w[5] = a /\ w[6] = b /\ w[7] = c /\ w[8] = d
  BY <1>2, <1>3, SMT
<1>5. ToNat(w) = x
  <2>1. w \in Seq(Byte) /\ Len(w) = 8
    BY <1>3 DEF Word
  <2>2. ToNat(w) = Number(w[5], w[6], w[7], w[8])
    BY <1>1, <1>4, <2>1, ToNatValue, SMT
  <2> QED
    BY <1>1, <1>4, <2>2, SMT
<1>6. FitsU(w, 2) <=> ReadBack(x)
  <2>1. PICK n \in 1..8 : n = 2
    BY SMT
  <2>2. FitsU(w, n) <=> \A i \in 1..(8 - n) : w[i] = 0
    BY <1>3, <2>1, Ranges, Zenon
  <2>3. (\A i \in 1..(8 - n) : w[i] = 0) <=> a = 0 /\ b = 0
    BY <1>4, <2>1, SMT
  <2> QED
    BY <1>1, <2>1, <2>2, <2>3, SMT DEF ReadBack
<1> QED
  BY <1>3, <1>5, <1>6, Zenon DEF w

\* The drivers' numbers are those of Bytes.
LEMMA SameNumbers ==
  /\ \A s : M!ToNat(s) = ToNat(s) /\ S!ToNat(s) = ToNat(s) /\ B!ToNat(s) = ToNat(s)
  /\ \A x, n : M!ToBytes(x, n) = ToBytes(x, n)
<1>1. M!Huge = Huge /\ S!Huge = Huge /\ B!Huge = Huge
  BY SMT DEF M!Huge, S!Huge, B!Huge, Huge
<1>2. \A s : M!ToNat(s) = ToNat(s)
  BY <1>1, SMT DEF M!ToNat, ToNat
<1>3. \A s : S!ToNat(s) = ToNat(s)
  BY <1>1, SMT DEF S!ToNat, ToNat
<1>4. \A s : B!ToNat(s) = ToNat(s)
  BY <1>1, SMT DEF B!ToNat, ToNat
<1>5. \A x, n : M!ToBytes(x, n) = ToBytes(x, n)
  BY SMT DEF M!ToBytes, ToBytes
<1> QED
  BY <1>2, <1>3, <1>4, <1>5

-----------------------------------------------------------------------------
(* Lengths.                                                                *)

\* The bits of bFixMin in the descriptors of short containers.
LEMMA FixedBits ==
  /\ \A x \in 0..31 : M!HasBits(160, 160 + x)
  /\ \A x \in 0..15 : M!HasBits(144, 144 + x) /\ M!HasBits(128, 128 + x)
<1> DEFINE D(b, i) == (b \div (2 ^ i)) % 2
<1>0. 2 ^ 0 = 1 /\ 2 ^ 1 = 2 /\ 2 ^ 2 = 4 /\ 2 ^ 3 = 8 /\ 2 ^ 4 = 16 /\ 2 ^ 5 = 32 /\ 2 ^ 6 = 64 /\ 2 ^ 7 = 128
  BY SMT
<1>1. /\ D(160, 0) = 0 /\ D(160, 1) = 0 /\ D(160, 2) = 0 /\ D(160, 3) = 0 /\ D(160, 4) = 0 /\ D(160, 6) = 0
      /\ D(144, 0) = 0 /\ D(144, 1) = 0 /\ D(144, 2) = 0 /\ D(144, 3) = 0 /\ D(144, 5) = 0 /\ D(144, 6) = 0
      /\ D(128, 0) = 0 /\ D(128, 1) = 0 /\ D(128, 2) = 0 /\ D(128, 3) = 0 /\ D(128, 4) = 0 /\ D(128, 5) = 0
      /\ D(128, 6) = 0
  BY <1>0, SMT
<1>2. ASSUME NEW x \in 0..31 PROVE D(160 + x, 5) = 1 /\ D(160 + x, 7) = 1
  <2>1. (160 + x) \div 32 = 5 /\ (160 + x) \div 128 = 1 /\ 5 % 2 = 1 /\ 1 % 2 = 1
    BY SMT
  <2> QED
    BY <1>0, <2>1, Zenon
<1>3. ASSUME NEW x \in 0..15 PROVE D(144 + x, 4) = 1 /\ D(144 + x, 7) = 1 /\ D(128 + x, 7) = 1
  <2>1. (144 + x) \div 16 = 9 /\ (144 + x) \div 128 = 1 /\ (128 + x) \div 128 = 1 /\ 9 % 2 = 1 /\ 1 % 2 = 1
    BY SMT
  <2> QED
    BY <1>0, <2>1, Zenon
<1>4. \A m, b : M!HasBits(m, b) <=> \A i \in 0..7 : D(m, i) = 1 => D(b, i) = 1
  BY Zenon DEF M!HasBits, M!Bit
<1> HIDE DEF D
<1>5. \A i \in 0..7 : i = 0 \/ i = 1 \/ i = 2 \/ i = 3 \/ i = 4 \/ i = 5 \/ i = 6 \/ i = 7
  BY SMT
<1>6. 0 # 1
  BY SMT
<1>7. \A i \in 0..7 : /\ D(160, i) = 1 => i = 5 \/ i = 7
                      /\ D(144, i) = 1 => i = 4 \/ i = 7
                      /\ D(128, i) = 1 => i = 7
  BY <1>1, <1>5, <1>6, SMT
<1>8. ASSUME NEW x \in 0..31 PROVE M!HasBits(160, 160 + x)
  <2>0. D(160 + x, 5) = 1 /\ D(160 + x, 7) = 1
    BY <1>2, SMT
  <2>1. \A i \in 0..7 : D(160, i) = 1 => D(160 + x, i) = 1
    BY <1>7, <2>0, SMT
  <2> QED
    BY <1>4, <2>1, Zenon
<1>9. ASSUME NEW x \in 0..15 PROVE M!HasBits(144, 144 + x)
  <2>1. \A i \in 0..7 : D(144, i) = 1 => D(144 + x, i) = 1
    BY <1>3, <1>7, ZenonT(60)
  <2> QED
    BY <1>4, <2>1, Zenon
<1>10. ASSUME NEW x \in 0..15 PROVE M!HasBits(128, 128 + x)
  <2>1. \A i \in 0..7 : D(128, i) = 1 => D(128 + x, i) = 1
    BY <1>3, <1>7, ZenonT(60)
  <2> QED
    BY <1>4, <2>1, Zenon
<1> QED
  BY <1>8, <1>9, <1>10, SMT

\* How currentEncodedType classifies a container.
Kind(ct) == IF ct = M!ContainerList THEN "array" ELSE IF ct = M!ContainerMap THEN "map" ELSE "bytes"

\* A length x in the descriptor b itself.
FixedReadable(ct, b, x) ==
  /\ b \in Byte /\ b # M!mpNil /\ b # ct.b8 /\ b # ct.b16 /\ b # ct.b32 /\ b - ct.fixMin = x
  /\ M!HasBits(ct.fixMin, b) /\ M!currentEncodedType(b, FALSE) = Kind(ct)

\* What makes the descriptors of a container readable: they are distinct, and
\* each is classified as the container.
Readable(ct) ==
  /\ ct.b8 # M!mpNil /\ ct.b16 # M!mpNil /\ ct.b32 # M!mpNil
  /\ ct.b16 # ct.b8 /\ ct.b32 # ct.b8 /\ ct.b32 # ct.b16
  /\ ct.b16 \in Byte /\ M!currentEncodedType(ct.b16, FALSE) = Kind(ct)
  /\ ct.b32 \in Byte /\ M!currentEncodedType(ct.b32, FALSE) = Kind(ct)
  /\ ct.has8 => ct.b8 \in Byte /\ M!currentEncodedType(ct.b8, FALSE) = Kind(ct)
  /\ ct.hasFixMin => \A x \in Nat : x < ct.cutoff => FixedReadable(ct, ct.fixMin + x, x)

\* What readContainerLen makes of what writeContainerLen wrote.
LEMMA MsgpackLength ==
  ASSUME NEW ct, Readable(ct), NEW x \in Nat, x < Huge, NEW ext \in BOOLEAN, NEW r \in Seq(Byte)
  PROVE  LET e == M!writeContainerLen(ct, x, ext)
         IN  /\ M!readContainerLen(ct, e \o r) = M!Ok(x, Len(e))
             /\ M!currentEncodedType(e[1], FALSE) = Kind(ct)
<1> DEFINE e == M!writeContainerLen(ct, x, ext)
           s == e \o r
           Fixed == ct.hasFixMin /\ x < ct.cutoff
           Short == ct.has8 /\ x < 256 /\ (ct.has8Always \/ ext)
           Medium == x < 65536
<1>w. e = IF Fixed THEN <<ct.fixMin + x>> ELSE IF Short THEN <<ct.b8, x>>
          ELSE IF x < 65536 THEN <<ct.b16>> \o ToBytes(x, 2) ELSE <<ct.b32>> \o ToBytes(x, 4)
  <2>1. M!ToBytes(x, 2) = ToBytes(x, 2) /\ M!ToBytes(x, 4) = ToBytes(x, 4)
    BY SameNumbers, SMT
  <2> QED
    BY <2>1, SMT DEF M!writeContainerLen
<1>r. /\ ct.b8 # M!mpNil /\ ct.b16 # M!mpNil /\ ct.b32 # M!mpNil
      /\ ct.b16 # ct.b8 /\ ct.b32 # ct.b8 /\ ct.b32 # ct.b16
      /\ ct.b16 \in Byte /\ M!currentEncodedType(ct.b16, FALSE) = Kind(ct)
      /\ ct.b32 \in Byte /\ M!currentEncodedType(ct.b32, FALSE) = Kind(ct)
  BY Zenon DEF Readable
<1>l. /\ ToBytes(x, 4) \in Seq(Byte) /\ Len(ToBytes(x, 4)) = 4 /\ ToNat(ToBytes(x, 4)) = x
      /\ x < 65536 => ToBytes(x, 2) \in Seq(Byte) /\ Len(ToBytes(x, 2)) = 2 /\ ToNat(ToBytes(x, 2)) = x
      /\ x < 256 => x \in Byte /\ ToNat(<<x>>) = x
  BY LengthBytes, SMT
<1>n. 1 + 1 = 2 /\ 2 + 1 = 3 /\ 4 + 1 = 5
  BY SMT
<1>1. CASE Fixed
  <2> DEFINE b == ct.fixMin + x
  <2>1. e = <<b>>
    BY <1>1, <1>w, SMT
  <2>2. /\ b \in Byte /\ b # M!mpNil /\ b # ct.b8 /\ b # ct.b16 /\ b # ct.b32 /\ b - ct.fixMin = x
        /\ M!HasBits(ct.fixMin, b) /\ M!currentEncodedType(b, FALSE) = Kind(ct)
    BY <1>1, Zenon DEF Readable, FixedReadable
  <2> HIDE DEF b, e
  <2>3. s[1] = b /\ e[1] = b /\ Len(e) = 1
    BY <2>1, SMT
  <2> HIDE DEF s
  <2>4. M!readContainerLen(ct, s) = M!Ok(x, 1)
    BY <2>2, <2>3, Zenon DEF M!readContainerLen
  <2> QED
    BY <2>2, <2>3, <2>4, Zenon DEF s, e
<1>2. CASE ~Fixed /\ Short
  <2>1. e = <<ct.b8, x>>
    BY <1>2, <1>w, SMT
  <2>2. ct.b8 \in Byte /\ ct.b8 # M!mpNil /\ M!currentEncodedType(ct.b8, FALSE) = Kind(ct)
    BY <1>2, Zenon DEF Readable
  <2>3. x \in Byte /\ ToNat(<<x>>) = x
    BY <1>2, LengthBytes, SMT
  <2> DEFINE p == <<x>>
  <2> HIDE DEF e
  <2>4. e = <<ct.b8>> \o p /\ p \in Seq(Byte) /\ Len(p) = 1
    BY <2>1, <2>2, <2>3, SMT
  <2>p. ToNat(p) = x
    BY <2>3, Zenon
  <2> HIDE DEF p
  <2>5. s[1] = ct.b8 /\ SubSeq(s, 2, 2) = p /\ Len(e) = 2
    BY <2>2, <2>4, Framed, SMT
  <2>6. e[1] = ct.b8
    BY <2>1, SMT
  <2> HIDE DEF s
  <2>7. M!readContainerLen(ct, s) = M!Ok(x, 2)
    BY <1>n, <2>2, <2>p, <2>5, SameNumbers, Zenon DEF M!readContainerLen, M!Payload
  <2> QED
    BY <2>2, <2>5, <2>6, <2>7, Zenon DEF s, e
<1>3. CASE ~Fixed /\ ~Short /\ Medium
  <2> DEFINE p == ToBytes(x, 2)
  <2>1. e = <<ct.b16>> \o p
    BY <1>3, <1>w, SMT
  <2>2. ct.b16 \in Byte /\ ct.b16 # M!mpNil /\ ct.b16 # ct.b8 /\ M!currentEncodedType(ct.b16, FALSE) = Kind(ct)
    BY <1>r, Zenon
  <2>3. p \in Seq(Byte) /\ Len(p) = 2 /\ ToNat(p) = x
    <3> HIDE DEF Fixed, Short
    <3> QED
      BY <1>3, <1>l, SMT
  <2> HIDE DEF e, p
  <2>4. s[1] = ct.b16 /\ SubSeq(s, 2, 3) = p /\ Len(e) = 3
    BY <2>1, <2>2, <2>3, Framed, SMT
  <2>5. e[1] = ct.b16
    BY <2>1, <2>2, <2>3, SMT
  <2> HIDE DEF s
  <2>6. M!readContainerLen(ct, s) = M!Ok(x, 3)
    BY <1>n, <2>2, <2>3, <2>4, SameNumbers, Zenon DEF M!readContainerLen, M!Payload
  <2> QED
    BY <2>2, <2>4, <2>5, <2>6, Zenon DEF s, e
<1>4. CASE ~Fixed /\ ~Short /\ ~Medium
  <2> DEFINE p == ToBytes(x, 4)
  <2>1. e = <<ct.b32>> \o p
    BY <1>4, <1>w, SMT
  <2>2. /\ ct.b32 \in Byte /\ ct.b32 # M!mpNil /\ ct.b32 # ct.b8 /\ ct.b32 # ct.b16
        /\ M!currentEncodedType(ct.b32, FALSE) = Kind(ct)
    BY <1>r, Zenon
  <2>3. p \in Seq(Byte) /\ Len(p) = 4 /\ ToNat(p) = x
    BY <1>l, SMT
  <2> HIDE DEF e, p
  <2>4. s[1] = ct.b32 /\ SubSeq(s, 2, 5) = p /\ Len(e) = 5
    BY <2>1, <2>2, <2>3, Framed, SMT
  <2>5. e[1] = ct.b32
    BY <2>1, <2>2, <2>3, SMT
  <2> HIDE DEF s
  <2>6. M!readContainerLen(ct, s) = M!Ok(x, 5)
    BY <1>n, <2>2, <2>3, <2>4, SameNumbers, Zenon DEF M!readContainerLen, M!Payload
  <2> QED
    BY <2>2, <2>4, <2>5, <2>6, Zenon DEF s, e
<1> HIDE DEF Fixed, Short, Medium
<1> QED
  BY <1>1, <1>2, <1>3, <1>4, Zenon

\* The descriptors of msgpack, as numbers.
LEMMA MsgpackBounds ==
  /\ M!mpNil = 192 /\ M!mpFalse = 194 /\ M!mpTrue = 195 /\ M!mpFloat = 202 /\ M!mpDouble = 203
  /\ \A b : /\ b \in M!Uints <=> b \in 204..207
            /\ b \in M!Ints <=> b \in 208..211
            /\ b \in M!Bins <=> b \in 196..198
            /\ b \in M!Exts <=> b \in 199..201
            /\ b \in M!FixExts <=> b \in 212..216
            /\ b \in M!Strs <=> b \in 217..219
            /\ b \in M!PosFixNums <=> b \in 0..127
            /\ b \in M!NegFixNums <=> b \in 224..255
            /\ b \in M!FixStrs <=> b \in 160..191
            /\ b \in M!mpArray16..(M!mpArray16 + 1) <=> b \in 220..221
            /\ b \in M!mpFixArrayMin..(M!mpFixArrayMin + 15) <=> b \in 144..159
            /\ b \in M!mpMap16..(M!mpMap16 + 1) <=> b \in 222..223
            /\ b \in M!mpFixMapMin..(M!mpFixMapMin + 15) <=> b \in 128..143
<1>1. M!mpNil = 192 /\ M!mpFalse = 194 /\ M!mpTrue = 195 /\ M!mpFloat = 202 /\ M!mpDouble = 203
  BY DEF M!mpNil, M!mpFalse, M!mpTrue, M!mpFloat, M!mpDouble
<1>2. \A b : /\ b \in M!Uints <=> b \in 204..207
             /\ b \in M!Ints <=> b \in 208..211
             /\ b \in M!Bins <=> b \in 196..198
             /\ b \in M!Exts <=> b \in 199..201
             /\ b \in M!FixExts <=> b \in 212..216
             /\ b \in M!Strs <=> b \in 217..219
             /\ b \in M!PosFixNums <=> b \in 0..127
             /\ b \in M!NegFixNums <=> b \in 224..255
             /\ b \in M!FixStrs <=> b \in 160..191
  BY SMT DEF M!Uints, M!Ints, M!Bins, M!Exts, M!FixExts, M!Strs, M!PosFixNums, M!NegFixNums, M!FixStrs, M!mpUint8, M!mpInt8,
         M!mpBin8, M!mpExt8, M!mpFixExt1, M!mpStr8, M!mpPosFixNumMax, M!mpNegFixNumMin, M!mpFixStrMin, M!mpFixStrMax
<1>3. \A b : /\ b \in M!mpArray16..(M!mpArray16 + 1) <=> b \in 220..221
             /\ b \in M!mpFixArrayMin..(M!mpFixArrayMin + 15) <=> b \in 144..159
             /\ b \in M!mpMap16..(M!mpMap16 + 1) <=> b \in 222..223
             /\ b \in M!mpFixMapMin..(M!mpFixMapMin + 15) <=> b \in 128..143
  BY SMT DEF M!mpArray16, M!mpFixArrayMin, M!mpMap16, M!mpFixMapMin
<1> QED
  BY <1>1, <1>2, <1>3

\* How they are classified when raw bytes are read as strings.
LEMMA MsgpackTypes ==
  ASSUME NEW b \in Byte
  PROVE  LET vt == M!currentEncodedType(b, TRUE)
         IN  /\ b \in {M!mpFalse, M!mpTrue} => vt = "bool"
             /\ b \in {M!mpFloat, M!mpDouble} => vt = "float"
             /\ b \in M!Uints => vt = "uint"
             /\ b \in M!Ints \/ b \in M!PosFixNums \/ b \in M!NegFixNums => vt = "int"
             /\ b \in M!FixExts \/ b \in M!Exts => vt = "ext"
<1> DEFINE vt == M!currentEncodedType(b, TRUE)
<1>1. vt = IF b = 192 THEN "nil"
           ELSE IF b \in {194, 195} THEN "bool"
           ELSE IF b \in {202, 203} THEN "float"
           ELSE IF b \in 204..207 THEN "uint"
           ELSE IF b \in 208..211 \/ b \in 0..127 \/ b \in 224..255 THEN "int"
           ELSE IF b \in 217..219 \/ b \in 160..191 THEN "string"
           ELSE IF b \in 196..198 THEN "bytes"
           ELSE IF b \in 220..221 \/ b \in 144..159 THEN "array"
           ELSE IF b \in 222..223 \/ b \in 128..143 THEN "map"
           ELSE IF b \in 212..216 \/ b \in 199..201 THEN "ext" ELSE "bad"
  BY MsgpackBounds, SMT DEF M!currentEncodedType
<1> HIDE DEF vt
<1>2. /\ b \in {194, 195} => vt = "bool"
      /\ b \in {202, 203} => vt = "float"
      /\ b \in 204..207 => vt = "uint"
      /\ b \in 208..211 \/ b \in 0..127 \/ b \in 224..255 => vt = "int"
      /\ b \in 212..216 \/ b \in 199..201 => vt = "ext"
  BY <1>1, SMT DEF Byte
<1>3. /\ b \in {M!mpFalse, M!mpTrue} => vt = "bool"
      /\ b \in {M!mpFloat, M!mpDouble} => vt = "float"
      /\ b \in M!Uints => vt = "uint"
      /\ b \in M!Ints \/ b \in M!PosFixNums \/ b \in M!NegFixNums => vt = "int"
      /\ b \in M!FixExts \/ b \in M!Exts => vt = "ext"
  BY <1>2, SMT DEF M!mpFalse, M!mpTrue, M!mpFloat, M!mpDouble, M!Uints, M!Ints, M!PosFixNums, M!NegFixNums, M!FixExts,
             M!Exts, M!mpUint8, M!mpInt8, M!mpPosFixNumMax, M!mpNegFixNumMin, M!mpFixExt1, M!mpExt8
<1> QED
  BY <1>3, Zenon DEF vt

\* The fields of the four containers.
LEMMA ContainerFields ==
  /\ M!ContainerStr.cutoff = 32 /\ M!ContainerStr.fixMin = 160 /\ M!ContainerStr.b8 = 217
  /\ M!ContainerStr.b16 = 218 /\ M!ContainerStr.b32 = 219
  /\ M!ContainerBin.b8 = 196 /\ M!ContainerBin.b16 = 197 /\ M!ContainerBin.b32 = 198
  /\ M!ContainerList.cutoff = 16 /\ M!ContainerList.fixMin = 144 /\ M!ContainerList.b8 = 0
  /\ M!ContainerList.b16 = 220 /\ M!ContainerList.b32 = 221
  /\ M!ContainerMap.cutoff = 16 /\ M!ContainerMap.fixMin = 128 /\ M!ContainerMap.b8 = 0
  /\ M!ContainerMap.b16 = 222 /\ M!ContainerMap.b32 = 223
  /\ ~M!ContainerBin.hasFixMin /\ ~M!ContainerList.has8 /\ ~M!ContainerMap.has8
<1>1. M!ContainerStr.cutoff = 32 /\ M!ContainerStr.fixMin = 160 /\ M!ContainerStr.b8 = 217
      /\ M!ContainerStr.b16 = 218 /\ M!ContainerStr.b32 = 219
  BY SMT DEF M!ContainerStr, M!mpFixStrMin, M!mpStr8
<1>2. M!ContainerBin.b8 = 196 /\ M!ContainerBin.b16 = 197 /\ M!ContainerBin.b32 = 198
  BY SMT DEF M!ContainerBin, M!mpBin8
<1>3. M!ContainerList.cutoff = 16 /\ M!ContainerList.fixMin = 144 /\ M!ContainerList.b8 = 0
      /\ M!ContainerList.b16 = 220 /\ M!ContainerList.b32 = 221
  BY SMT DEF M!ContainerList, M!mpFixArrayMin, M!mpArray16
<1>4. M!ContainerMap.cutoff = 16 /\ M!ContainerMap.fixMin = 128 /\ M!ContainerMap.b8 = 0
      /\ M!ContainerMap.b16 = 222 /\ M!ContainerMap.b32 = 223
  BY SMT DEF M!ContainerMap, M!mpFixMapMin, M!mpMap16
<1>5. ~M!ContainerBin.hasFixMin
  BY DEF M!ContainerBin
<1>6. ~M!ContainerList.has8
  BY DEF M!ContainerList
<1>7. ~M!ContainerMap.has8
  BY DEF M!ContainerMap
<1> QED
  BY <1>1, <1>2, <1>3, <1>4, <1>5, <1>6, <1>7, Zenon

\* So a container is known by its b16.
LEMMA Kinds ==
  /\ Kind(M!ContainerStr) = "bytes" /\ Kind(M!ContainerBin) = "bytes"
  /\ Kind(M!ContainerList) = "array" /\ Kind(M!ContainerMap) = "map"
<1>1. M!ContainerStr # M!ContainerList /\ M!ContainerStr # M!ContainerMap
      /\ M!ContainerBin # M!ContainerList /\ M!ContainerBin # M!ContainerMap /\ M!ContainerMap # M!ContainerList
  BY ContainerFields, SMT
<1> QED
  BY <1>1, Zenon DEF Kind

\* All four can be read.
LEMMA ContainersReadable ==
  ASSUME NEW ct \in Containers
  PROVE  Readable(ct)
<1>n. M!mpNil = 192
  BY DEF M!mpNil
<1> DEFINE Type(b) == M!currentEncodedType(b, FALSE)
<1>0. /\ \A b \in 217..219 : b \in Byte /\ Type(b) = "bytes"
      /\ \A b \in 160..191 : b \in Byte /\ Type(b) = "bytes"
      /\ \A b \in 196..198 : b \in Byte /\ Type(b) = "bytes"
      /\ \A b \in 220..221 : b \in Byte /\ Type(b) = "array"
      /\ \A b \in 144..159 : b \in Byte /\ Type(b) = "array"
      /\ \A b \in 222..223 : b \in Byte /\ Type(b) = "map"
      /\ \A b \in 128..143 : b \in Byte /\ Type(b) = "map"
  <2>1. ASSUME NEW b \in 128..223
        PROVE  /\ b \in 217..219 \/ b \in 160..191 \/ b \in 196..198 => Type(b) = "bytes"
               /\ b \in 220..221 \/ b \in 144..159 => Type(b) = "array"
               /\ b \in 222..223 \/ b \in 128..143 => Type(b) = "map"
    <3>1. Type(b) = IF b = 192 THEN "nil"
                    ELSE IF b \in {194, 195} THEN "bool"
                    ELSE IF b \in {202, 203} THEN "float"
                    ELSE IF b \in 204..207 THEN "uint"
                    ELSE IF b \in 208..211 \/ b \in 0..127 \/ b \in 224..255 THEN "int"
                    ELSE IF b \in 217..219 \/ b \in 160..191 THEN "bytes"
                    ELSE IF b \in 196..198 THEN "bytes"
                    ELSE IF b \in 220..221 \/ b \in 144..159 THEN "array"
                    ELSE IF b \in 222..223 \/ b \in 128..143 THEN "map"
                    ELSE IF b \in 212..216 \/ b \in 199..201 THEN "ext" ELSE "bad"
      BY MsgpackBounds, SMT DEF M!currentEncodedType
    <3> HIDE DEF Type
    <3> QED
      BY <3>1, SMT
  <2> HIDE DEF Type
  <2>2. \A b \in 128..223 : b \in Byte
    BY SMT DEF Byte
  <2> QED
    BY <2>1, <2>2, SMT
<1> HIDE DEF Type
<1>1. CASE ct = M!ContainerStr
  <2> DEFINE K == Kind(ct)
  <2>1. /\ ct.cutoff = 32 /\ ct.fixMin = 160 /\ ct.b8 = 217 /\ ct.b16 = 218 /\ ct.b32 = 219 /\ K = "bytes"
    BY <1>1, ContainerFields, Kinds, Zenon
  <2> HIDE DEF K
  <2>2. /\ ct.b8 # 192 /\ ct.b16 # 192 /\ ct.b32 # 192 /\ ct.b16 # ct.b8 /\ ct.b32 # ct.b8 /\ ct.b32 # ct.b16
        /\ ct.b16 \in Byte /\ Type(ct.b16) = K /\ ct.b32 \in Byte /\ Type(ct.b32) = K
        /\ ct.b8 \in Byte /\ Type(ct.b8) = K
    BY <1>0, <2>1, SMT
  <2>3. ASSUME NEW x \in Nat, x < ct.cutoff, NEW b, b = ct.fixMin + x
        PROVE  FixedReadable(ct, b, x)
    <3>1. x \in 0..31 /\ b = 160 + x /\ b \in 160..191
      BY <2>1, <2>3, SMT
    <3>2. b \in Byte /\ Type(b) = K
      BY <1>0, <2>1, <3>1, SMT
    <3>3. M!HasBits(160, b)
      BY <3>1, FixedBits, SMT
    <3>4. b # 192 /\ b # ct.b8 /\ b # ct.b16 /\ b # ct.b32 /\ b - ct.fixMin = x
      BY <2>1, <3>1, SMT
    <3> QED
      BY <1>n, <2>1, <3>2, <3>3, <3>4, Zenon DEF FixedReadable, Type, K
  <2> QED
    BY <1>n, <2>2, <2>3, Zenon DEF Readable, Type, K
<1>2. CASE ct = M!ContainerBin
  <2> DEFINE K == Kind(ct)
  <2>1. ct.b8 = 196 /\ ct.b16 = 197 /\ ct.b32 = 198 /\ K = "bytes" /\ ~ct.hasFixMin
    BY <1>2, ContainerFields, Kinds, Zenon
  <2> HIDE DEF K
  <2>2. /\ ct.b8 # 192 /\ ct.b16 # 192 /\ ct.b32 # 192 /\ ct.b16 # ct.b8 /\ ct.b32 # ct.b8 /\ ct.b32 # ct.b16
        /\ ct.b16 \in Byte /\ Type(ct.b16) = K /\ ct.b32 \in Byte /\ Type(ct.b32) = K
        /\ ct.b8 \in Byte /\ Type(ct.b8) = K
    BY <1>0, <2>1, SMT
  <2> QED
    BY <1>n, <2>1, <2>2, Zenon DEF Readable, Type, K
<1>3. CASE ct = M!ContainerList
  <2> DEFINE K == Kind(ct)
  <2>1. /\ ct.cutoff = 16 /\ ct.fixMin = 144 /\ ct.b8 = 0 /\ ct.b16 = 220 /\ ct.b32 = 221 /\ K = "array" /\ ~ct.has8
    BY <1>3, ContainerFields, Kinds, Zenon
  <2> HIDE DEF K
  <2>2. /\ ct.b8 # 192 /\ ct.b16 # 192 /\ ct.b32 # 192 /\ ct.b16 # ct.b8 /\ ct.b32 # ct.b8 /\ ct.b32 # ct.b16
        /\ ct.b16 \in Byte /\ Type(ct.b16) = K /\ ct.b32 \in Byte /\ Type(ct.b32) = K
    BY <1>0, <2>1, SMT
  <2>3. ASSUME NEW x \in Nat, x < ct.cutoff, NEW b, b = ct.fixMin + x
        PROVE  FixedReadable(ct, b, x)
    <3>1. x \in 0..15 /\ b = 144 + x /\ b \in 144..159
      BY <2>1, <2>3, SMT
    <3>2. b \in Byte /\ Type(b) = K
      BY <1>0, <2>1, <3>1, SMT
    <3>3. M!HasBits(144, b)
      BY <3>1, FixedBits, SMT
    <3>4. b # 192 /\ b # ct.b8 /\ b # ct.b16 /\ b # ct.b32 /\ b - ct.fixMin = x
      BY <2>1, <3>1, SMT
    <3> QED
      BY <1>n, <2>1, <3>2, <3>3, <3>4, Zenon DEF FixedReadable, Type, K
  <2> QED
    BY <1>n, <2>1, <2>2, <2>3, Zenon DEF Readable, Type, K
<1>4. CASE ct = M!ContainerMap
  <2> DEFINE K == Kind(ct)
  <2>1. /\ ct.cutoff = 16 /\ ct.fixMin = 128 /\ ct.b8 = 0 /\ ct.b16 = 222 /\ ct.b32 = 223 /\ K = "map" /\ ~ct.has8
    BY <1>4, ContainerFields, Kinds, Zenon
  <2> HIDE DEF K
  <2>2. /\ ct.b8 # 192 /\ ct.b16 # 192 /\ ct.b32 # 192 /\ ct.b16 # ct.b8 /\ ct.b32 # ct.b8 /\ ct.b32 # ct.b16
        /\ ct.b16 \in Byte /\ Type(ct.b16) = K /\ ct.b32 \in Byte /\ Type(ct.b32) = K
    BY <1>0, <2>1, SMT
  <2>3. ASSUME NEW x \in Nat, x < ct.cutoff, NEW b, b = ct.fixMin + x
        PROVE  FixedReadable(ct, b, x)
    <3>1. x \in 0..15 /\ b = 128 + x /\ b \in 128..143
      BY <2>1, <2>3, SMT
    <3>2. b \in Byte /\ Type(b) = K
      BY <1>0, <2>1, <3>1, SMT
    <3>3. M!HasBits(128, b)
      BY <3>1, FixedBits, SMT
    <3>4. b # 192 /\ b # ct.b8 /\ b # ct.b16 /\ b # ct.b32 /\ b - ct.fixMin = x
      BY <2>1, <3>1, SMT
    <3> QED
      BY <1>n, <2>1, <3>2, <3>3, <3>4, Zenon DEF FixedReadable, Type, K
  <2> QED
    BY <1>n, <2>1, <2>2, <2>3, Zenon DEF Readable, Type, K
<1> QED
  BY <1>1, <1>2, <1>3, <1>4, Zenon DEF Containers

\* The descriptors that simple's and binc's encLen start from.
SimpleLens == {216, 224, 232, 240, 248}
BincLens == {64, 80, 96, 112, 240}

\* A length survives simple, whatever follows it, under a descriptor of the same kind.
LEMMA SimpleLength ==
  ASSUME NEW l \in Word, NEW bd \in SimpleLens, NEW r \in Seq(Byte)
  PROVE  LET e == S!encLen(bd, l)
         IN  /\ e \in Seq(Byte) /\ e[1] \in bd..(bd + 4) /\ (e \o r)[1] = e[1]
             /\ S!decLen(e \o r) = S!Ok(l, Len(e))
<1> DEFINE k == CHOOSE k \in 0..3 : FitsU(l, 2 ^ k) /\ \A j \in 0..(k - 1) : ~FitsU(l, 2 ^ j)
           p == Low(l, 2 ^ k)
           m == 2 ^ k
           e == S!encLen(bd, l)
           s == e \o r
<1> DEFINE c == CHOOSE c \in 0..3 : S!FitsU(l, 2 ^ c) /\ \A i \in 0..(c - 1) : ~S!FitsU(l, 2 ^ i)
<1>0. c = k /\ S!Low(l, 2 ^ k) = p
  BY SimpleBytes, Zenon
<1>1. e = IF l = S!Fill(0, 8) THEN <<bd>> ELSE <<bd + c + 1>> \o S!Low(l, 2 ^ c)
  BY DEF S!encLen
<1> HIDE DEF c
<1>2. k \in 0..3 /\ FitsU(l, 2 ^ k)
  BY LeastU
<1> HIDE DEF k, e
<1>3. m \in 1..8 /\ m \in Nat
  BY <1>2, Sizes, Zenon
<1>4. p \in Seq(Byte) /\ Len(p) = m /\ ZeroExt(p) = l
  BY <1>2, <1>3, LowBytes, Zenon DEF FitsU
<1>5. CASE l = S!Fill(0, 8)
  <2>1. e = <<bd>>
    BY <1>1, <1>5, Zenon
  <2>2. bd \in Byte /\ bd \in bd..(bd + 4) /\ bd % 8 = 0
    BY SMT DEF Byte, SimpleLens
  <2>3. e \in Seq(Byte) /\ e[1] = bd /\ s[1] = bd /\ Len(e) = 1
    BY <2>1, <2>2, SMT
  <2> HIDE DEF s
  <2>4. S!decLen(s) = S!Ok(S!Fill(0, 8), 1)
    BY <2>2, <2>3, Zenon DEF S!decLen
  <2> QED
    BY <1>5, <2>2, <2>3, <2>4, Zenon DEF s, e
<1>6. CASE l # S!Fill(0, 8)
  <2> DEFINE d == bd + k + 1
  <2>1. e = <<d>> \o p
    BY <1>0, <1>1, <1>6, Zenon
  <2>2. d \in Byte /\ d \in bd..(bd + 4) /\ d % 8 = k + 1 /\ k + 1 # 0 /\ k + 1 <= 4 /\ (k + 1) - 1 = k
    BY <1>2, SMT DEF Byte, SimpleLens
  <2> HIDE DEF d, p, m
  <2>3. s[1] = d /\ SubSeq(s, 2, m + 1) = p /\ Len(e) = m + 1
    BY <1>3, <1>4, <2>1, <2>2, Framing, SMT
  <2>4. e \in Seq(Byte) /\ e[1] = d
    BY <1>4, <2>1, <2>2, SMT
  <2> HIDE DEF s
  <2>5. S!decLen(s) = S!Ok(l, m + 1)
    BY <1>4, <2>2, <2>3, SimpleBytes, Zenon DEF S!decLen, S!Payload, m
  <2> QED
    BY <2>2, <2>3, <2>4, <2>5, Zenon DEF s, e
<1> QED
  BY <1>5, <1>6, Zenon

\* What fits one byte fits two.
LEMMA OneFitsTwo ==
  ASSUME NEW l \in Word, FitsU(l, 1)
  PROVE  FitsU(l, 2)
<1>1. PICK n \in 1..8 : n = 1
  BY SMT
<1>2. PICK m2 \in 1..8 : m2 = 2
  BY SMT
<1>3. FitsU(l, n) <=> \A i \in 1..(8 - n) : l[i] = 0
  BY <1>1, Ranges
<1>4. FitsU(l, m2) <=> \A i \in 1..(8 - m2) : l[i] = 0
  BY <1>2, Ranges
<1>5. \A i \in 1..(8 - m2) : i \in 1..(8 - n)
  BY <1>1, <1>2, SMT
<1>6. FitsU(l, n) => FitsU(l, m2)
  BY <1>3, <1>4, <1>5, Zenon
<1> QED
  BY <1>1, <1>2, <1>6, Zenon

\* A length survives binc, whatever follows it, exactly when two bytes hold it
\* (encLen, decLen).
LEMMA BincLength ==
  ASSUME NEW l \in Word, NEW bd \in BincLens, NEW r \in Seq(Byte)
  PROVE  LET e == B!encLen(bd, l)
         IN  /\ e \in Seq(Byte) /\ B!vd(e[1]) = bd /\ (e \o r)[1] = e[1]
             /\ (B!decLen(e \o r) = B!Ok(l, Len(e))) <=> FitsU(l, 2)
<1> DEFINE k == CHOOSE k \in 0..3 : FitsU(l, 2 ^ k) /\ \A j \in 0..(k - 1) : ~FitsU(l, 2 ^ j)
           p == Low(l, 2 ^ k)
           m == 2 ^ k
           e == B!encLen(bd, l)
           s == e \o r
<1> DEFINE c == CHOOSE c \in 0..3 : B!FitsU(l, 2 ^ c) /\ \A i \in 0..(c - 1) : ~B!FitsU(l, 2 ^ i)
<1>0. c = k /\ B!Low(l, 2 ^ k) = p /\ B!FitsU(l, 1) = FitsU(l, 1)
  BY BincBytes, Zenon
<1>1. e = IF B!FitsU(l, 1) /\ l[8] < 12 THEN <<bd + l[8] + 4>> ELSE <<bd + c>> \o B!Low(l, 2 ^ c)
  BY DEF B!encLen
<1> HIDE DEF c
<1>2. k \in 0..3 /\ FitsU(l, 2 ^ k) /\ \A j \in 0..(k - 1) : ~FitsU(l, 2 ^ j)
  BY LeastU
<1> HIDE DEF k, e
<1>3. m \in 1..8 /\ m \in Nat
  BY <1>2, Sizes, Zenon
<1>4. p \in Seq(Byte) /\ Len(p) = m /\ ZeroExt(p) = l
  BY <1>2, <1>3, LowBytes, Zenon DEF FitsU
<1>5. FitsU(l, 1) => FitsU(l, 2)
  BY OneFitsTwo
<1>6. CASE FitsU(l, 1) /\ l[8] < 12
  <2> DEFINE x == l[8]
             d == bd + x + 4
  <2>1. e = <<d>>
    BY <1>0, <1>1, <1>6, Zenon
  <2>2. ZeroExt(<<x>>) = l /\ x \in Byte
    <3>1. l[8] \in Byte /\ (FitsU(l, 1) => ZeroExt(<<l[8]>>) = l)
      BY OneByte
    <3> QED
      BY <1>6, <3>1
  <2>3. x < 12
    BY <1>6, Zenon
  <2> HIDE DEF x
  <2>4. d \in Byte /\ B!vd(d) = bd /\ ~(B!vs(d) <= 3) /\ B!vs(d) - 4 = x
    <3>1. x \in 0..11
      BY <2>2, <2>3, SMT DEF Byte
    <3>2. d % 16 = x + 4
      BY <3>1, SMT DEF BincLens
    <3> QED
      BY <3>1, <3>2, SMT DEF Byte, BincLens, B!vd, B!vs
  <2> HIDE DEF d
  <2>5. e \in Seq(Byte) /\ e[1] = d /\ s[1] = d /\ Len(e) = 1
    BY <2>1, <2>4, SMT
  <2> HIDE DEF s
  <2>6. B!decLen(s) = B!Ok(l, 1)
    BY <2>2, <2>4, <2>5, BincBytes, Zenon DEF B!decLen
  <2> QED
    BY <1>5, <1>6, <2>4, <2>5, <2>6, Zenon DEF s, e
<1>7. CASE ~(FitsU(l, 1) /\ l[8] < 12)
  <2> DEFINE d == bd + k
  <2>1. e = <<d>> \o p
    BY <1>0, <1>1, <1>7, Zenon
  <2>2. d \in Byte /\ B!vd(d) = bd /\ B!vs(d) = k /\ k <= 3 /\ k <= 7
    <3>1. d % 16 = k
      BY <1>2, SMT DEF BincLens
    <3> QED
      BY <1>2, <3>1, SMT DEF Byte, BincLens, B!vd, B!vs
  <2> HIDE DEF d, p
  <2>3. s[1] = d /\ Len(e) = m + 1 /\ SubSeq(s, 2, m + 1) = p
    BY <1>3, <1>4, <2>1, <2>2, Framing, SMT
  <2>4. e \in Seq(Byte) /\ e[1] = d
    BY <1>4, <2>1, <2>2, SMT
  <2> HIDE DEF s
  <2>5. B!decLen(s) = B!Ok(ZeroExt(SubSeq(s, 2, k + 1 + 1)), k + 2)
    BY <2>2, <2>3, BincBytes, Zenon DEF B!decLen, B!decUint, B!Payload
  <2>6. \A a, x : B!Ok(a, x).n = x
    BY SMT DEF B!Ok
  <2>7. CASE k = 0 \/ k = 1
    <3>1. m = k + 1
      <4>1. (k = 0 /\ m = 1) \/ (k = 1 /\ m = 2)
        BY <2>7, Sizes, Zenon
      <4> HIDE DEF m
      <4> QED
        BY <4>1, SMT
    <3>2. m + 1 = k + 2 /\ k + 1 + 1 = m + 1
      <4> HIDE DEF m
      <4> QED
        BY <1>2, <3>1, SMT
    <3>3. B!decLen(s) = B!Ok(l, m + 1)
      BY <1>4, <2>3, <2>5, <3>2, Zenon
    <3>4. FitsU(l, 2)
      <4>1. CASE k = 0
        <5>1. FitsU(l, 1)
          BY <1>2, <4>1, Sizes, Zenon
        <5> QED
          BY <1>5, <5>1, Zenon
      <4>2. CASE k = 1
        BY <1>2, <4>2, Sizes, Zenon
      <4> QED
        BY <2>7, <4>1, <4>2, Zenon
    <3> HIDE DEF m
    <3> QED
      BY <2>2, <2>3, <2>4, <3>3, <3>4, Zenon DEF s, e
  <2>8. CASE k = 2 \/ k = 3
    <3>1. (k = 2 /\ m = 4) \/ (k = 3 /\ m = 8)
      BY <2>8, Sizes, Zenon
    <3>2. m + 1 # k + 2
      <4> HIDE DEF m
      <4> QED
        BY <3>1, SMT
    <3>3. B!decLen(s) # B!Ok(l, m + 1)
      <4> HIDE DEF m
      <4> QED
        <5>1. B!decLen(s).n = k + 2 /\ B!Ok(l, m + 1).n = m + 1
          BY <2>5, <2>6, SMT
        <5> QED
          BY <3>2, <5>1, Zenon
    <3>4. ~FitsU(l, 2)
      <4>1. PICK i \in 0..(k - 1) : i = 1
        BY <1>2, <2>8, SMT
      <4>2. ~FitsU(l, 2 ^ i)
        BY <1>2, Zenon
      <4>3. 2 ^ i = 2
        BY <4>1, Sizes, Zenon
      <4> QED
        BY <4>2, <4>3, Zenon
    <3> HIDE DEF m
    <3> QED
      BY <2>2, <2>3, <2>4, <3>3, <3>4, Zenon DEF s, e
  <2>9. k = 0 \/ k = 1 \/ k = 2 \/ k = 3
    BY <1>2, SMT
  <2> QED
    BY <2>7, <2>8, <2>9, Zenon
<1> QED
  BY <1>6, <1>7, Zenon

\* What the samples of lengths, extensions and Booleans are made of.
Sampled(x) ==
  /\ x.kind \in {"mplength", "binclength", "simplelength", "ext"} => x.l \in Nat /\ x.l < Huge
  /\ x.kind = "mplength" => x.ct \in Containers /\ x.writeExt \in BOOLEAN
  /\ x.kind = "binclength" => x.bd \in {64, 80, 96, 112}
  /\ x.kind = "simplelength" => x.bd \in {216, 224, 232, 240}
  /\ x.kind = "ext" => x.tag \in {0, 1, 255}
  /\ x.kind = "bool" => x.b \in BOOLEAN

\* The samples are of that shape.
LEMMA SamplesSampled ==
  ASSUME NEW x \in Samples
  PROVE  Sampled(x)
<1> DEFINE Offs == Offsets \cup {-o : o \in Offsets}
           Ends == {Fill(0, 8), Fill(255, 8)}
           Cb == {B!VdString, B!VdByteArray, B!VdArray, B!VdMap}
           Cs == {S!VdString, S!VdByteArray, S!VdArray, S!VdMap}
           Tags == {0, 1, 255}
           Mp == [kind : {"mplength"}, ct : Containers, l : Lengths, writeExt : BOOLEAN]
           Bl == [kind : {"binclength"}, bd : Cb, l : Lengths]
           Sl == [kind : {"simplelength"}, bd : Cs, l : Lengths]
           Ex == [kind : {"ext"}, l : Lengths, tag : Tags]
           Bo == [kind : {"bool"}, b : BOOLEAN]
           Wo == [kind : {"word"}, v : Words]
           T1 == [kind : {"time"}, utc : {TRUE}, secs : Words, nsecs : Nanos, offset : {0}]
           T2 == [kind : {"time"}, utc : {FALSE}, secs : Ends, nsecs : Nanos, offset : Offs]
<1>1. Samples = Wo \cup Bo \cup Mp \cup Bl \cup Sl \cup Ex \cup T1 \cup T2
  BY Zenon DEF Samples
<1>2. Cb = {64, 80, 96, 112} /\ Cs = {216, 224, 232, 240}
  BY SMT DEF B!VdString, B!VdByteArray, B!VdArray, B!VdMap, S!VdString, S!VdByteArray, S!VdArray, S!VdMap
<1>3. \A n \in Lengths : n \in Nat /\ n < Huge
  BY LengthsAssumption, Zenon
<1> HIDE DEF Offs, Ends, Cb, Cs, Tags
<1>4. ASSUME NEW K, NEW C, NEW L, NEW U, NEW y \in [kind : K, ct : C, l : L, writeExt : U]
      PROVE  y.kind \in K /\ y.ct \in C /\ y.l \in L /\ y.writeExt \in U
  BY SMT
<1>5. ASSUME NEW K, NEW D, NEW L, NEW y \in [kind : K, bd : D, l : L]
      PROVE  y.kind \in K /\ y.bd \in D /\ y.l \in L
  BY SMT
<1>6. ASSUME NEW K, NEW L, NEW T, NEW y \in [kind : K, l : L, tag : T]
      PROVE  y.kind \in K /\ y.l \in L /\ y.tag \in T
  BY SMT
<1>7. ASSUME NEW K, NEW U, NEW y \in [kind : K, b : U]
      PROVE  y.kind \in K /\ y.b \in U
  BY SMT
<1>8. ASSUME NEW K, NEW U, NEW y \in [kind : K, v : U]
      PROVE  y.kind \in K
  BY SMT
<1>9. ASSUME NEW K, NEW U, NEW W, NEW N, NEW O, NEW y \in [kind : K, utc : U, secs : W, nsecs : N, offset : O]
      PROVE  y.kind \in K
  BY SMT
<1>10. x \in Mp => x.kind = "mplength" /\ x.ct \in Containers /\ x.l \in Lengths /\ x.writeExt \in BOOLEAN
  BY <1>4, Zenon
<1>11. x \in Bl => x.kind = "binclength" /\ x.bd \in Cb /\ x.l \in Lengths
  BY <1>5, Zenon
<1>12. x \in Sl => x.kind = "simplelength" /\ x.bd \in Cs /\ x.l \in Lengths
  BY <1>5, Zenon
<1>13. x \in Ex => x.kind = "ext" /\ x.l \in Lengths /\ x.tag \in Tags
  BY <1>6, Zenon
<1>14. x \in Bo => x.kind = "bool" /\ x.b \in BOOLEAN
  BY <1>7, Zenon
<1>15. x \in Wo => x.kind = "word"
  BY <1>8, Zenon
<1>16. (x \in T1 => x.kind = "time") /\ (x \in T2 => x.kind = "time")
  BY <1>9, Zenon
<1> HIDE DEF Mp, Bl, Sl, Ex, Bo, Wo, T1, T2
<1>17. x \in Wo \/ x \in Bo \/ x \in Mp \/ x \in Bl \/ x \in Sl \/ x \in Ex \/ x \in T1 \/ x \in T2
  BY <1>1, Zenon
<1>18. Tags = {0, 1, 255}
  BY DEF Tags
<1> DEFINE Lk == {"mplength", "binclength", "simplelength", "ext"}
<1>19. x.kind \in Lk => x.l \in Lengths
  BY <1>10, <1>11, <1>12, <1>13, <1>14, <1>15, <1>16, <1>17, SMT
<1>20. /\ x.kind = "mplength" => x.ct \in Containers /\ x.writeExt \in BOOLEAN
       /\ x.kind = "binclength" => x.bd \in Cb
       /\ x.kind = "simplelength" => x.bd \in Cs
       /\ x.kind = "ext" => x.tag \in Tags
       /\ x.kind = "bool" => x.b \in BOOLEAN
  <2>1. /\ x.kind = "mplength" => x \in Mp
        /\ x.kind = "binclength" => x \in Bl
        /\ x.kind = "simplelength" => x \in Sl
        /\ x.kind = "ext" => x \in Ex
        /\ x.kind = "bool" => x \in Bo
    BY <1>10, <1>11, <1>12, <1>13, <1>14, <1>15, <1>16, <1>17, SMT
  <2> QED
    BY <2>1, <1>10, <1>11, <1>12, <1>13, <1>14, Zenon
<1> QED
  BY <1>2, <1>3, <1>18, <1>19, <1>20, Zenon DEF Sampled

\* In every state the sample is of that shape.
LEMMA StateSampled == Spec => []Sampled(sample)
<1>1. Init => Sampled(sample)
  BY SamplesSampled DEF Init
<1>2. Sampled(sample) /\ [Next]_sample => Sampled(sample)'
  <2> SUFFICES ASSUME Sampled(sample), sample' = sample PROVE Sampled(sample)'
    BY DEF Next
  <2> QED
    BY DEF Sampled
<1> QED
  BY <1>1, <1>2, PTL DEF Spec

\* The descriptors of simple's lengths are of the kind of the shortest one.
LEMMA SimpleKinds ==
  ASSUME NEW bd \in SimpleLens, NEW b \in bd..(bd + 4)
  PROVE  S!currentEncodedType(b) = S!currentEncodedType(bd)
<1> DEFINE Type(y) == S!currentEncodedType(y)
<1>1. ASSUME NEW y \in 216..252
      PROVE  Type(y) = IF y \in 216..220 THEN "string"
                       ELSE IF y \in 224..228 THEN "bytes"
                       ELSE IF y \in 248..252 THEN "ext"
                       ELSE IF y \in 232..236 THEN "array"
                       ELSE IF y \in 240..244 THEN "map" ELSE "bad"
  BY SMT DEF S!currentEncodedType, S!Lens, S!PosInts, S!NegInts, S!VdNil, S!VdTrue, S!VdFalse, S!VdPosInt,
             S!VdNegInt, S!VdFloat32, S!VdFloat64, S!VdString, S!VdByteArray, S!VdExt, S!VdArray, S!VdMap
<1> HIDE DEF Type
<1>2. Type(b) = Type(bd)
  BY <1>1, SMT DEF SimpleLens
<1> QED
  BY <1>2, Zenon DEF Type

\* A length that was written is read back, and by the kind of container that was
\* written; in binc, exactly when two bytes hold it (writeContainerLen and
\* readContainerLen of msgpack, encLen and decLen of simple and binc).
THEOREM LengthsSurvive == Spec => []LengthRoundTrip
<1>1. Sampled(sample) => LengthRoundTrip
  <2> SUFFICES ASSUME Sampled(sample) PROVE LengthRoundTrip
    OBVIOUS
  <2> DEFINE r == <<7, 7>>
             x == sample.l
             w == LengthOf(x)
             bd == sample.bd
             ct == sample.ct
  <2>0. r \in Seq(Byte)
    BY DEF Byte
  <2> HIDE DEF r
  <2>1. ASSUME sample.kind = "mplength"
        PROVE  LET e == M!writeContainerLen(ct, x, sample.writeExt)
               IN  /\ M!readContainerLen(ct, e \o r) = M!Ok(x, Len(e))
                   /\ M!currentEncodedType(e[1], FALSE) =
                        IF ct = M!ContainerList THEN "array" ELSE IF ct = M!ContainerMap THEN "map" ELSE "bytes"
    <3>1. x \in Nat /\ x < Huge /\ ct \in Containers /\ sample.writeExt \in BOOLEAN
      BY <2>1, Zenon DEF Sampled
    <3>2. Readable(ct)
      BY <3>1, ContainersReadable, Zenon
    <3> HIDE DEF x, ct
    <3> QED
      BY <2>0, <3>1, <3>2, MsgpackLength, Zenon DEF Kind
  <2>2. ASSUME sample.kind = "simplelength"
        PROVE  LET e == S!encLen(bd, w)
               IN  /\ S!decLen(e \o r) = S!Ok(w, Len(e))
                   /\ S!currentEncodedType(e[1]) = S!currentEncodedType(bd)
    <3>1. x \in Nat /\ x < Huge /\ bd \in {216, 224, 232, 240}
      BY <2>2, Zenon DEF Sampled
    <3> HIDE DEF x, bd
    <3>2. bd \in SimpleLens
      BY <3>1, Zenon DEF SimpleLens
    <3>3. w \in Word
      BY <3>1, LengthWords, Zenon
    <3> HIDE DEF w
    <3> DEFINE e == S!encLen(bd, w)
    <3>4. S!decLen(e \o r) = S!Ok(w, Len(e)) /\ e[1] \in bd..(bd + 4)
      BY <2>0, <3>2, <3>3, SimpleLength, Zenon
    <3> HIDE DEF e
    <3>5. S!currentEncodedType(e[1]) = S!currentEncodedType(bd)
      BY <3>2, <3>4, SimpleKinds, Zenon
    <3> QED
      BY <3>4, <3>5, Zenon DEF e
  <2>3. ASSUME sample.kind = "binclength"
        PROVE  BincLengthRoundTrip <=> ReadBack(x)
    <3>1. x \in Nat /\ x < Huge /\ bd \in {64, 80, 96, 112}
      BY <2>3, Zenon DEF Sampled
    <3>0. BincLengthRoundTrip <=> B!decLen(B!encLen(bd, w) \o r) = B!Ok(w, Len(B!encLen(bd, w)))
      BY <2>3, Zenon DEF BincLengthRoundTrip, r
    <3> HIDE DEF x, bd
    <3>2. bd \in BincLens
      BY <3>1, Zenon DEF BincLens
    <3>3. w \in Word /\ (FitsU(w, 2) <=> ReadBack(x))
      BY <3>1, LengthWords, Zenon
    <3> HIDE DEF w
    <3>4. (B!decLen(B!encLen(bd, w) \o r) = B!Ok(w, Len(B!encLen(bd, w)))) <=> FitsU(w, 2)
      BY <2>0, <3>2, <3>3, BincLength, Zenon
    <3> QED
      BY <3>0, <3>3, <3>4, Zenon
  <2> QED
    BY <2>1, <2>2, <2>3, Zenon DEF LengthRoundTrip, r
<1> QED
  BY <1>1, StateSampled, PTL

-----------------------------------------------------------------------------
(* Extensions.                                                             *)

\* A tag after a header.
LEMMA Tagged ==
  ASSUME NEW e \in Seq(Byte), NEW tag \in Byte
  PROVE  /\ e \o <<tag>> \in Seq(Byte) /\ Len(e \o <<tag>>) = Len(e) + 1 /\ Len(e) \in Nat
         /\ (e \o <<tag>>)[Len(e) + 1] = tag /\ <<tag>> \in Seq(Byte)
  OBVIOUS

\* The header of an extension of simple: its length and its tag.
LEMMA SimpleExt ==
  ASSUME NEW l \in Word, NEW tag \in Byte
  PROVE  LET s == S!encodeExtPreamble(tag, l)
         IN  /\ S!decLen(s) = S!Ok(l, Len(s) - 1) /\ s[1] \in 248..252
             /\ Len(s) \in Nat /\ s[(Len(s) - 1) + 1] = tag
<1> DEFINE e == S!encLen(248, l)
           r == <<tag>>
           s == e \o r
<1>1. S!encodeExtPreamble(tag, l) = s
  BY Zenon DEF S!encodeExtPreamble, S!VdExt
<1>2. PICK bd \in SimpleLens : bd = 248
  BY DEF SimpleLens
<1>3. r \in Seq(Byte)
  OBVIOUS
<1> HIDE DEF r
<1>4. LET f == S!encLen(bd, l)
      IN  /\ f \in Seq(Byte) /\ f[1] \in bd..(bd + 4) /\ (f \o r)[1] = f[1]
          /\ S!decLen(f \o r) = S!Ok(l, Len(f))
  BY <1>3, SimpleLength, Zenon
<1>5. e \in Seq(Byte) /\ e[1] \in 248..(248 + 4) /\ s[1] = e[1] /\ S!decLen(s) = S!Ok(l, Len(e))
  BY <1>2, <1>4, Zenon
<1> HIDE DEF e
<1>6. Len(s) = Len(e) + 1 /\ Len(e) \in Nat /\ s[Len(e) + 1] = tag
  BY <1>5, Tagged DEF r
<1> HIDE DEF s
<1>7. Len(s) - 1 = Len(e) /\ Len(s) \in Nat /\ e[1] \in 248..252
  BY <1>5, <1>6, SMT
<1> QED
  BY <1>1, <1>5, <1>6, <1>7, Zenon

\* The header of an extension of binc.
LEMMA BincExt ==
  ASSUME NEW l \in Word, NEW tag \in Byte, FitsU(l, 2)
  PROVE  LET s == B!encodeExtPreamble(tag, l)
         IN  /\ B!decLen(s) = B!Ok(l, Len(s) - 1) /\ B!vd(s[1]) = 240
             /\ Len(s) \in Nat /\ s[(Len(s) - 1) + 1] = tag
<1> DEFINE e == B!encLen(240, l)
           r == <<tag>>
           s == e \o r
<1>1. B!encodeExtPreamble(tag, l) = s
  BY Zenon DEF B!encodeExtPreamble, B!VdCustomExt
<1>2. PICK bd \in BincLens : bd = 240
  BY DEF BincLens
<1>3. r \in Seq(Byte)
  OBVIOUS
<1> HIDE DEF r
<1>4. LET f == B!encLen(bd, l)
      IN  /\ f \in Seq(Byte) /\ B!vd(f[1]) = bd /\ (f \o r)[1] = f[1]
          /\ B!decLen(f \o r) = B!Ok(l, Len(f))
  BY <1>3, BincLength, Zenon
<1>5. e \in Seq(Byte) /\ B!vd(e[1]) = 240 /\ s[1] = e[1] /\ B!decLen(s) = B!Ok(l, Len(e))
  BY <1>2, <1>4, Zenon
<1> HIDE DEF e
<1>6. Len(s) = Len(e) + 1 /\ Len(e) \in Nat /\ s[Len(e) + 1] = tag
  BY <1>5, Tagged DEF r
<1> HIDE DEF s
<1>7. Len(s) - 1 = Len(e) /\ Len(s) \in Nat
  BY <1>6, SMT
<1> QED
  BY <1>1, <1>5, <1>6, <1>7, Zenon

\* The header of an extension of msgpack.
LEMMA MsgpackExt ==
  ASSUME NEW x \in Nat, x < Huge, NEW tag \in Byte
  PROVE  LET m == M!encodeExtPreamble(tag, x)
         IN  /\ M!readExtLen(m) = M!Ok(x, Len(m) - 1) /\ (m[1] \in 199..201 \/ m[1] \in 212..216)
             /\ Len(m) \in Nat /\ m[(Len(m) - 1) + 1] = tag
<1> DEFINE m == M!encodeExtPreamble(tag, x)
           Goal == /\ M!readExtLen(m) = M!Ok(x, Len(m) - 1) /\ (m[1] \in 199..201 \/ m[1] \in 212..216)
                   /\ Len(m) \in Nat /\ m[(Len(m) - 1) + 1] = tag
           Fixed == x \in {1, 2, 4, 8, 16}
           k == CHOOSE k \in 0..4 : 2 ^ k = x
           Medium == x < 65536
           Short == x < 256
<1> SUFFICES Goal
  BY Zenon
<1>1. m = IF Fixed THEN <<212 + k, tag>>
          ELSE IF Short THEN <<199, x, tag>>
          ELSE IF Medium THEN <<200>> \o ToBytes(x, 2) \o <<tag>>
          ELSE <<201>> \o ToBytes(x, 4) \o <<tag>>
  <2>1. M!mpFixExt1 = 212 /\ M!mpExt8 = 199 /\ M!mpExt8 + 1 = 200 /\ M!mpExt8 + 2 = 201
    BY SMT DEF M!mpFixExt1, M!mpExt8
  <2>2. m = IF Fixed THEN <<M!mpFixExt1 + k, tag>>
            ELSE IF Short THEN <<M!mpExt8, x, tag>>
            ELSE IF Medium THEN <<M!mpExt8 + 1>> \o M!ToBytes(x, 2) \o <<tag>>
            ELSE <<M!mpExt8 + 2>> \o M!ToBytes(x, 4) \o <<tag>>
    BY SMT DEF M!encodeExtPreamble
  <2>3. M!ToBytes(x, 2) = ToBytes(x, 2) /\ M!ToBytes(x, 4) = ToBytes(x, 4)
    BY SameNumbers
  <2> HIDE DEF m, Fixed, Short, Medium, k
  <2> QED
    BY <2>1, <2>2, <2>3, SMT
<1>2. Fixed => k \in 0..4 /\ 2 ^ k = x
  <2> HAVE Fixed
  <2>1. 2 ^ 0 = 1 /\ 2 ^ 1 = 2 /\ 2 ^ 2 = 4 /\ 2 ^ 3 = 8 /\ 2 ^ 4 = 16
    BY SMT
  <2>2. 0 \in 0..4 /\ 1 \in 0..4 /\ 2 \in 0..4 /\ 3 \in 0..4 /\ 4 \in 0..4
    BY SMT
  <2>3. \E i \in 0..4 : 2 ^ i = x
    BY <2>1, <2>2, Zenon
  <2> QED
    BY <2>3, Zenon
<1>l. /\ ToBytes(x, 4) \in Seq(Byte) /\ Len(ToBytes(x, 4)) = 4 /\ ToNat(ToBytes(x, 4)) = x
      /\ x < 65536 => ToBytes(x, 2) \in Seq(Byte) /\ Len(ToBytes(x, 2)) = 2 /\ ToNat(ToBytes(x, 2)) = x
      /\ x < 256 => x \in Byte /\ ToNat(<<x>>) = x
  BY LengthBytes, SMT
<1>s. /\ ToBytes(x, 4) \in Seq(Byte) /\ Len(ToBytes(x, 4)) = 4 /\ ToNat(ToBytes(x, 4)) = x
      /\ Medium => ToBytes(x, 2) \in Seq(Byte) /\ Len(ToBytes(x, 2)) = 2 /\ ToNat(ToBytes(x, 2)) = x
      /\ Short => x \in Byte /\ ToNat(<<x>>) = x
  BY <1>l, SMT
<1> HIDE DEF m, k, Fixed, Short, Medium, Goal
<1>r. ASSUME NEW s
      PROVE  M!readExtLen(s) = IF s[1] = 192 THEN M!Ok(-1, 1)
                               ELSE IF s[1] \in M!FixExts THEN M!Ok(2 ^ (s[1] - 212), 1)
                               ELSE IF s[1] \in M!Exts
                                 THEN M!Ok(ToNat(SubSeq(s, 2, 2 ^ (s[1] - 199) + 1)), 2 ^ (s[1] - 199) + 1)
                               ELSE M!Err
  BY SameNumbers, Zenon DEF M!readExtLen, M!Payload, M!mpNil, M!mpFixExt1, M!mpExt8
<1>3. CASE Fixed
  <2> DEFINE d == 212 + k
  <2>1. d \in 212..216 /\ d # 192 /\ d - 212 = k
    BY <1>2, <1>3, SMT
  <2>2. m = <<d, tag>>
    BY <1>1, <1>3, Zenon
  <2> HIDE DEF d
  <2>3. Len(m) = 2 /\ m[1] = d /\ m[2] = tag
    BY <2>2, SMT
  <2>4. Len(m) - 1 = 1 /\ Len(m) \in Nat /\ (Len(m) - 1) + 1 = 2
    BY <2>3, SMT
  <2>5. d \in M!FixExts
    BY <2>1, MsgpackBounds, SMT
  <2>6. M!readExtLen(m) = M!Ok(x, 1)
    BY <1>2, <1>3, <1>r, <2>1, <2>3, <2>5, Zenon
  <2> QED
    BY <2>1, <2>3, <2>4, <2>6, Zenon DEF Goal
<1>e. ASSUME NEW j \in 0..2, NEW p \in Seq(Byte), Len(p) = 2 ^ j, ToNat(p) = x, m = <<199 + j>> \o p \o <<tag>>
      PROVE  Goal
  <2> DEFINE n == 2 ^ j
             d == 199 + j
             f == <<d>> \o p
  <2>0. m = f \o <<tag>>
    BY <1>e, SMT
  <2>1. n \in Nat /\ d \in Byte /\ d \in 199..201 /\ d # 192 /\ d - 199 = j
    <3>1. n = 1 \/ n = 2 \/ n = 4
      <4>1. j = 0 \/ j = 1 \/ j = 2
        BY SMT
      <4> QED
        BY <4>1, Sizes, Zenon
    <3> HIDE DEF n
    <3> QED
      BY <3>1, SMT DEF Byte
  <2> HIDE DEF d
  <2>2. ~(d \in M!FixExts) /\ d \in M!Exts
    BY <2>1, SMT DEF M!FixExts, M!Exts, M!mpFixExt1, M!mpExt8
  <2>3. Len(p) = n
    BY <1>e
  <2> HIDE DEF n
  <2>4. f \in Seq(Byte) /\ <<tag>> \in Seq(Byte)
    BY <2>1, SMT
  <2>5. m[1] = d /\ SubSeq(m, 2, n + 1) = p /\ Len(f) = n + 1
    BY <2>0, <2>1, <2>3, <2>4, Framing, SMT
  <2> HIDE DEF f
  <2>6. Len(m) = Len(f) + 1 /\ m[Len(f) + 1] = tag
    BY <2>0, <2>4, Tagged, Zenon
  <2>7. Len(m) \in Nat /\ Len(m) - 1 = n + 1 /\ (Len(m) - 1) + 1 = Len(f) + 1
    BY <2>1, <2>5, <2>6, SMT
  <2>8. M!readExtLen(m) = M!Ok(x, n + 1)
    BY <1>e, <1>r, <2>1, <2>2, <2>5, ZenonT(60) DEF n
  <2> QED
    BY <2>1, <2>5, <2>6, <2>7, <2>8, Zenon DEF Goal
<1>4. CASE ~Fixed /\ Short
  <2> DEFINE p == <<x>>
  <2>1. PICK j \in 0..2 : j = 0
    BY SMT
  <2>2. x \in Byte /\ ToNat(<<x>>) = x
    BY <1>4, <1>s, Zenon
  <2>3. p \in Seq(Byte) /\ Len(p) = 2 ^ j /\ ToNat(p) = x
    BY <2>1, <2>2, SMT
  <2>4. m = <<199 + j>> \o p \o <<tag>>
    <3>1. m = <<199, x, tag>>
      BY <1>1, <1>4, Zenon
    <3>2. 199 + j = 199
      BY <2>1, SMT
    <3> QED
      BY <3>1, <3>2, <2>2, SMT
  <2> HIDE DEF p
  <2> QED
    BY <1>e, <2>3, <2>4, Zenon
<1>5. CASE ~Fixed /\ ~Short /\ Medium
  <2> DEFINE p == ToBytes(x, 2)
  <2>1. PICK j \in 0..2 : j = 1
    BY SMT
  <2>2. p \in Seq(Byte) /\ Len(p) = 2 /\ ToNat(p) = x
    BY <1>5, <1>s, Zenon
  <2>3. m = <<200>> \o p \o <<tag>>
    BY <1>1, <1>5, Zenon
  <2> HIDE DEF p
  <2>4. Len(p) = 2 ^ j /\ m = <<199 + j>> \o p \o <<tag>>
    BY <2>1, <2>2, <2>3, SMT
  <2> QED
    BY <1>e, <2>2, <2>4, Zenon
<1>6. CASE ~Fixed /\ ~Short /\ ~Medium
  <2> DEFINE p == ToBytes(x, 4)
  <2>1. PICK j \in 0..2 : j = 2
    BY SMT
  <2>2. p \in Seq(Byte) /\ Len(p) = 4 /\ ToNat(p) = x
    BY <1>s, Zenon
  <2>3. m = <<201>> \o p \o <<tag>>
    BY <1>1, <1>6, Zenon
  <2> HIDE DEF p
  <2>4. Len(p) = 2 ^ j /\ m = <<199 + j>> \o p \o <<tag>>
    BY <2>1, <2>2, <2>3, SMT
  <2> QED
    BY <1>e, <2>2, <2>4, Zenon
<1> QED
  BY <1>3, <1>4, <1>5, <1>6, Zenon

\* No tag is the one after it.
LEMMA NextTag ==
  ASSUME NEW tag \in {0, 1, 255}
  PROVE  tag \in Byte /\ (tag + 1) % 256 # tag
<1>1. tag = 0 \/ tag = 1 \/ tag = 255
  OBVIOUS
<1> QED
  BY <1>1, SMT DEF Byte

\* What decodeExt makes of the header of an extension, with the tag it expects and
\* with another.
LEMMA ExtsRead ==
  ASSUME NEW x \in Nat, x < Huge, NEW tag \in Byte, NEW want
  PROVE  LET m == M!encodeExtPreamble(tag, x)
             s == S!encodeExtPreamble(tag, LengthOf(x))
             b == B!encodeExtPreamble(tag, LengthOf(x))
         IN  /\ M!decodeExt(m, TRUE, want) = IF want = tag THEN M!Ok(<<tag, x>>, Len(m)) ELSE M!Err
             /\ S!decodeExt(s, TRUE, want) = IF want = tag THEN S!Ok(<<tag>> \o LengthOf(x), Len(s)) ELSE S!Err
             /\ ReadBack(x) =>
                  B!decodeExt(b, TRUE, want) = IF want = tag THEN B!Ok(<<tag>> \o LengthOf(x), Len(b)) ELSE B!Err
<1> DEFINE w == LengthOf(x)
           m == M!encodeExtPreamble(tag, x)
           s == S!encodeExtPreamble(tag, w)
           b == B!encodeExtPreamble(tag, w)
<1>1. w \in Word /\ (ReadBack(x) => FitsU(w, 2))
  BY LengthWords, Zenon
<1>2. /\ M!readExtLen(m) = M!Ok(x, Len(m) - 1) /\ (m[1] \in 199..201 \/ m[1] \in 212..216)
      /\ Len(m) \in Nat /\ m[(Len(m) - 1) + 1] = tag
  BY MsgpackExt, Zenon
<1> HIDE DEF w
<1>3. /\ S!decLen(s) = S!Ok(w, Len(s) - 1) /\ s[1] \in 248..252
      /\ Len(s) \in Nat /\ s[(Len(s) - 1) + 1] = tag
  BY <1>1, SimpleExt, Zenon
<1>4. ReadBack(x) =>
        /\ B!decLen(b) = B!Ok(w, Len(b) - 1) /\ B!vd(b[1]) = 240
        /\ Len(b) \in Nat /\ b[(Len(b) - 1) + 1] = tag
  <2> HAVE ReadBack(x)
  <2>1. FitsU(w, 2)
    BY <1>1, Zenon
  <2> QED
    BY <1>1, <2>1, BincExt
<1> HIDE DEF m, s, b
<1>5. /\ \A y, n : M!Ok(y, n).ok /\ M!Ok(y, n).v = y /\ M!Ok(y, n).n = n
      /\ \A y, n : S!Ok(y, n).ok /\ S!Ok(y, n).v = y /\ S!Ok(y, n).n = n
      /\ \A y, n : B!Ok(y, n).ok /\ B!Ok(y, n).v = y /\ B!Ok(y, n).n = n
  BY DEF M!Ok, S!Ok, B!Ok
<1>6. M!decodeExt(m, TRUE, want) = IF want = tag THEN M!Ok(<<tag, x>>, Len(m)) ELSE M!Err
  <2>1. ~(m[1] \in M!Bins \cup M!Strs \cup M!FixStrs)
    <3>1. \A d : d \in 199..201 \/ d \in 212..216 => ~(d \in M!Bins \cup M!Strs \cup M!FixStrs)
      BY SMT DEF M!Bins, M!Strs, M!FixStrs, M!mpBin8, M!mpStr8, M!mpFixStrMin, M!mpFixStrMax
    <3> QED
      BY <1>2, <3>1, Zenon
  <2>2. (Len(m) - 1) + 1 = Len(m)
    BY <1>2, SMT
  <2> DEFINE len == M!readExtLen(m)
  <2>3. len.ok /\ len.v = x /\ len.n = Len(m) - 1
    <3>1. len = M!Ok(x, Len(m) - 1)
      BY <1>2, Zenon
    <3> HIDE DEF len
    <3> QED
      BY <1>5, <3>1
  <2>4. M!decodeExt(m, TRUE, want) =
          IF ~len.ok \/ m[len.n + 1] # want THEN M!Err ELSE M!Ok(<<m[len.n + 1], len.v>>, len.n + 1)
    <3> HIDE DEF len
    <3> QED
      BY <2>1, Zenon DEF M!decodeExt, len
  <2> HIDE DEF len
  <2> QED
    BY <1>2, <2>2, <2>3, <2>4, Zenon
<1>7. S!decodeExt(s, TRUE, want) = IF want = tag THEN S!Ok(<<tag>> \o w, Len(s)) ELSE S!Err
  <2>1. s[1] \in S!Lens(S!VdExt)
    <3>1. \A d : d \in 248..252 => d \in S!Lens(S!VdExt)
      BY SMT DEF S!Lens, S!VdExt
    <3> QED
      BY <1>3, <3>1, Zenon
  <2>2. (Len(s) - 1) + 1 = Len(s)
    BY <1>3, SMT
  <2> DEFINE l == S!decLen(s)
  <2>3. l.v = w /\ l.n = Len(s) - 1
    <3>1. l = S!Ok(w, Len(s) - 1)
      BY <1>3, Zenon
    <3> HIDE DEF l
    <3> QED
      BY <1>5, <3>1
  <2>4. S!decodeExt(s, TRUE, want) =
          IF s[l.n + 1] # want THEN S!Err ELSE S!Ok(<<s[l.n + 1]>> \o l.v, l.n + 1)
    BY <2>1, Zenon DEF S!decodeExt
  <2> HIDE DEF l
  <2> QED
    BY <1>3, <2>2, <2>3, <2>4, Zenon
<1>8. ReadBack(x) => B!decodeExt(b, TRUE, want) = IF want = tag THEN B!Ok(<<tag>> \o w, Len(b)) ELSE B!Err
  <2> HAVE ReadBack(x)
  <2>1. B!vd(b[1]) = B!VdCustomExt
    BY <1>4, Zenon DEF B!VdCustomExt
  <2>2. (Len(b) - 1) + 1 = Len(b)
    BY <1>4, SMT
  <2> DEFINE l == B!decLen(b)
  <2>3. l.v = w /\ l.n = Len(b) - 1
    <3>1. l = B!Ok(w, Len(b) - 1)
      BY <1>4, Zenon
    <3> HIDE DEF l
    <3> QED
      BY <1>5, <3>1
  <2>4. B!decodeExt(b, TRUE, want) =
          IF b[l.n + 1] # want THEN B!Err ELSE B!Ok(<<b[l.n + 1]>> \o l.v, l.n + 1)
    BY <2>1, Zenon DEF B!decodeExt
  <2> HIDE DEF l
  <2> QED
    BY <1>4, <2>2, <2>3, <2>4, Zenon
<1> QED
  BY <1>6, <1>7, <1>8, Zenon DEF m, s, b, w

\* The tag and the length of an extension survive all three drivers, and a wrong
\* tag is refused (encodeExtPreamble, decodeExt).
THEOREM ExtensionsSurvive == Spec => []ExtRoundTrip
<1>1. Sampled(sample) => ExtRoundTrip
  <2> SUFFICES ASSUME Sampled(sample), sample.kind = "ext" PROVE ExtRoundTrip
    BY Zenon DEF ExtRoundTrip
  <2> DEFINE tag == sample.tag
             x == sample.l
             wrong == (tag + 1) % 256
             w == LengthOf(x)
             m == M!encodeExtPreamble(tag, x)
             s == S!encodeExtPreamble(tag, w)
             b == B!encodeExtPreamble(tag, w)
  <2>1. x \in Nat /\ x < Huge /\ tag \in {0, 1, 255}
    BY Zenon DEF Sampled
  <2>2. tag \in Byte /\ wrong # tag
    BY <2>1, NextTag, SMT
  <2>3. ~M!Err.ok /\ ~S!Err.ok /\ ~B!Err.ok
    BY DEF M!Err, S!Err, B!Err
  <2>4. ASSUME NEW y
        PROVE  /\ M!decodeExt(m, TRUE, y) = IF y = tag THEN M!Ok(<<tag, x>>, Len(m)) ELSE M!Err
               /\ S!decodeExt(s, TRUE, y) = IF y = tag THEN S!Ok(<<tag>> \o w, Len(s)) ELSE S!Err
               /\ ReadBack(x) =>
                    B!decodeExt(b, TRUE, y) = IF y = tag THEN B!Ok(<<tag>> \o w, Len(b)) ELSE B!Err
    <3> HIDE DEF tag, x
    <3> QED
      BY <2>1, <2>2, ExtsRead, Zenon
  <2> HIDE DEF m, s, b, w, tag, x, wrong
  <2>5. /\ M!decodeExt(m, TRUE, tag) = M!Ok(<<tag, x>>, Len(m))
        /\ S!decodeExt(s, TRUE, tag) = S!Ok(<<tag>> \o w, Len(s))
        /\ ReadBack(x) => B!decodeExt(b, TRUE, tag) = B!Ok(<<tag>> \o w, Len(b))
    BY <2>4, Zenon
  <2>6. /\ M!decodeExt(m, TRUE, wrong) = M!Err /\ S!decodeExt(s, TRUE, wrong) = S!Err
        /\ ReadBack(x) => B!decodeExt(b, TRUE, wrong) = B!Err
    BY <2>2, <2>4, Zenon
  <2> QED
    BY <2>3, <2>5, <2>6, Zenon DEF ExtRoundTrip, m, s, b, w, tag, x, wrong
<1> QED
  BY <1>1, StateSampled, PTL

-----------------------------------------------------------------------------
(* Readers that do not know the type.                                      *)

\* Where decodeInt reads an integer, decodeNaked consumes as many bytes.
LEMMA MsgpackNaked ==
  ASSUME NEW s, M!decodeInt(s, 8).ok
  PROVE  M!decodeNaked(s, TRUE).n = M!decodeInt(s, 8).n
<1> DEFINE bd == s[1]
           vt == M!currentEncodedType(bd, TRUE)
           d == M!decodeInt(s, 8)
<1>1. bd \in M!Uints \/ bd \in M!Ints \/ bd \in M!PosFixNums \/ bd \in M!NegFixNums
  <2>1. ~M!Err.ok
    BY DEF M!Err
  <2>2. bd \in M!Uints \cup M!Ints \cup M!PosFixNums \cup M!NegFixNums
    BY <2>1, Zenon DEF M!decodeInt
  <2> QED
    BY <2>2, Zenon
<1>2. d = M!Ok(d.v, (IF bd \in M!Uints THEN 2 ^ (bd - 204) ELSE IF bd \in M!Ints THEN 2 ^ (bd - 208) ELSE 0) + 1)
  <2>1. M!mpUint8 = 204 /\ M!mpInt8 = 208
    BY DEF M!mpUint8, M!mpInt8
  <2> DEFINE size == IF bd \in M!Uints THEN 2 ^ (bd - 204) ELSE IF bd \in M!Ints THEN 2 ^ (bd - 208) ELSE 0
             val == IF bd \in M!Uints THEN M!ZeroExt(M!Payload(s, size))
                    ELSE IF bd \in M!Ints THEN M!SignExt(M!Payload(s, size)) ELSE M!SignExt(<<bd>>)
  <2>2. ~M!Err.ok
    BY DEF M!Err
  <2>3. d = M!Ok(val, size + 1)
    BY <2>1, <2>2, Zenon DEF M!decodeInt
  <2> HIDE DEF d, val, size
  <2>4. d.v = val
    BY <2>3 DEF M!Ok
  <2> QED
    BY <2>3, <2>4, Zenon DEF size
<1> DEFINE size == IF bd \in M!Uints THEN 2 ^ (bd - 204) ELSE IF bd \in M!Ints THEN 2 ^ (bd - 208) ELSE 0
<1>3. d.n = size + 1
  <2> HIDE DEF d, size
  <2>1. d = M!Ok(d.v, size + 1)
    BY <1>2, Zenon DEF size
  <2> QED
    BY <2>1 DEF M!Ok
<1>4. vt = "uint" \/ vt = "int"
  <2> HIDE DEF bd
  <2>1. bd \in Byte
    BY <1>1, SMT DEF Byte, M!Uints, M!Ints, M!PosFixNums, M!NegFixNums, M!mpUint8, M!mpInt8, M!mpPosFixNumMax,
                     M!mpNegFixNumMin
  <2>2. /\ bd \in M!Uints => vt = "uint"
        /\ bd \in M!Ints \/ bd \in M!PosFixNums \/ bd \in M!NegFixNums => vt = "int"
    BY <2>1, MsgpackTypes, Zenon
  <2> HIDE DEF vt
  <2> QED
    BY <1>1, <2>2, Zenon
<1>5. M!decodeNaked(s, TRUE) = M!Ok(vt, IF bd \in M!Uints THEN 1 + 2 ^ (bd - 204)
                                         ELSE IF bd \in M!Ints THEN 1 + 2 ^ (bd - 208) ELSE 1)
  <2>1. "uint" # "bad" /\ "uint" # "float" /\ "uint" # "ext" /\ "int" # "bad" /\ "int" # "float" /\ "int" # "ext"
    OBVIOUS
  <2>2. M!mpUint8 = 204 /\ M!mpInt8 = 208
    BY DEF M!mpUint8, M!mpInt8
  <2>3. vt # "bad" /\ vt # "float" /\ vt # "ext"
    BY <1>4, <2>1, Zenon
  <2>4. M!decodeNaked(s, TRUE) =
          IF vt = "bad" THEN M!Err
          ELSE IF vt = "float" THEN M!Ok(vt, IF bd = M!mpFloat THEN 5 ELSE 9)
          ELSE IF bd \in M!Uints THEN M!Ok(vt, 1 + 2 ^ (bd - M!mpUint8))
          ELSE IF bd \in M!Ints THEN M!Ok(vt, 1 + 2 ^ (bd - M!mpInt8))
          ELSE IF vt = "ext" THEN M!Ok(vt, M!readExtLen(s).n + 1 + M!readExtLen(s).v)
          ELSE M!Ok(vt, 1)
    BY DEF M!decodeNaked
  <2> HIDE DEF vt, bd
  <2> QED
    BY <2>2, <2>3, <2>4, Zenon
<1>6. M!decodeNaked(s, TRUE).n = IF bd \in M!Uints THEN 1 + 2 ^ (bd - 204)
                                 ELSE IF bd \in M!Ints THEN 1 + 2 ^ (bd - 208) ELSE 1
  <2> DEFINE n == IF bd \in M!Uints THEN 1 + 2 ^ (bd - 204) ELSE IF bd \in M!Ints THEN 1 + 2 ^ (bd - 208) ELSE 1
  <2>1. M!decodeNaked(s, TRUE) = M!Ok(vt, n)
    BY <1>5, Zenon
  <2> HIDE DEF n, vt
  <2>2. M!Ok(vt, n).n = n
    BY DEF M!Ok
  <2>3. M!decodeNaked(s, TRUE).n = n
    BY <2>1, <2>2, Zenon
  <2> QED
    BY <2>3, Zenon DEF n
<1> HIDE DEF d, bd
<1>7. ASSUME NEW k \in 0..3 PROVE 1 + 2 ^ k = 2 ^ k + 1
  <2>1. 2 ^ k \in Nat
    BY Sizes, Zenon
  <2> DEFINE y == 2 ^ k
  <2> HIDE DEF y
  <2>2. 1 + y = y + 1
    BY <2>1, SMT DEF y
  <2> QED
    BY <2>2, Zenon DEF y
<1>8. CASE bd \in M!Uints
  <2>1. bd - 204 \in 0..3
    <3>1. bd \in 204..207
      BY <1>8, SMT DEF M!Uints, M!mpUint8
    <3> QED
      BY <3>1, SMT
  <2> QED
    BY <1>3, <1>6, <1>7, <1>8, <2>1, Zenon DEF d
<1>9. CASE ~(bd \in M!Uints) /\ bd \in M!Ints
  <2>1. bd - 208 \in 0..3
    <3>1. bd \in 208..211
      BY <1>9, SMT DEF M!Ints, M!mpInt8
    <3> QED
      BY <3>1, SMT
  <2> QED
    BY <1>3, <1>6, <1>7, <1>9, <2>1, Zenon DEF d
<1>10. CASE ~(bd \in M!Uints) /\ ~(bd \in M!Ints)
  <2>1. 0 + 1 = 1
    BY SMT
  <2> QED
    BY <1>3, <1>6, <1>10, <2>1, Zenon DEF d
<1> QED
  BY <1>8, <1>9, <1>10, Zenon

\* The same of decIntAny of simple, and the type is that of the sign.
LEMMA SimpleNaked ==
  ASSUME NEW s, NEW w, NEW m, S!decIntAny(s) = S!Ok(w, m)
  PROVE  S!decodeNaked(s) = S!Ok(IF s[1] \in S!NegInts THEN "int" ELSE "uint", m)
<1> DEFINE bd == s[1]
           vt == S!currentEncodedType(bd)
<1>1. S!Ok(w, m).ok /\ ~S!Err.ok /\ S!Ok(w, m).n = m
  BY DEF S!Ok, S!Err
<1>2. bd \in S!PosInts \/ bd \in S!NegInts
  BY <1>1, Zenon DEF S!decIntAny
<1>3. vt = IF bd \in S!NegInts THEN "int" ELSE "uint"
  <2> HIDE DEF bd
  <2> QED
    BY <1>2, SMT DEF S!currentEncodedType, S!PosInts, S!NegInts, S!VdNil, S!VdTrue, S!VdFalse, S!VdPosInt, S!VdNegInt
<1>4. "uint" # "bad" /\ "int" # "bad" /\ "uint" \in {"uint", "int"} /\ "int" \in {"uint", "int"}
  OBVIOUS
<1>5. vt # "bad" /\ vt \in {"uint", "int"}
  BY <1>3, <1>4, Zenon
<1>6. S!decodeNaked(s) = S!Ok(vt, S!decIntAny(s).n)
  <2> HIDE DEF vt
  <2> QED
    BY <1>5, Zenon DEF S!decodeNaked, vt
<1> HIDE DEF vt
<1> QED
  BY <1>1, <1>3, <1>6, Zenon

\* The same of decIntAny of binc.
LEMMA BincNaked ==
  ASSUME NEW s, NEW w, NEW m, B!decIntAny(s) = B!Ok(w, m)
  PROVE  /\ B!decodeNaked(s).n = m
         /\ ~(B!vd(s[1]) = 32 \/ s[1] = 8) => B!decodeNaked(s) = B!Ok("uint", m)
<1> DEFINE bd == s[1]
           kind == B!vd(bd)
           vt == B!currentEncodedType(bd)
           u == B!decUint(s)
<1>1. B!Ok(w, m).ok /\ ~B!Err.ok /\ \A y, n : B!Ok(y, n).n = n
  BY DEF B!Ok, B!Err
<1>c. /\ B!VdPosInt = 16 /\ B!VdNegInt = 32 /\ B!VdSmallInt = 144 /\ B!VdSpecial + B!SpZero = 7
      /\ B!VdSpecial + B!SpNegOne = 8 /\ B!VdSpecial = 0 /\ B!SpZero = 7 /\ B!SpNegOne = 8 /\ B!VdFloat = 48
      /\ B!vd(7) = 0 /\ B!vd(8) = 0
  BY DEF B!VdPosInt, B!VdNegInt, B!VdSmallInt, B!VdSpecial, B!SpZero, B!SpNegOne, B!VdFloat, B!vd
<1>d. B!decIntAny(s) =
        IF kind = 16 THEN u
        ELSE IF kind = 32 THEN IF u.ok THEN B!Ok(B!Negate(u.v), u.n) ELSE B!Err
        ELSE IF kind = 144 THEN B!Ok(B!ZeroExt(<<B!vs(bd) + 1>>), 1)
        ELSE IF bd = 7 THEN B!Ok(B!Zero, 1)
        ELSE IF bd = 8 THEN B!Ok(B!Fill(255, 8), 1) ELSE B!Err
  <2> HIDE DEF u
  <2>1. B!decIntAny(s) =
          IF kind = B!VdPosInt THEN u
          ELSE IF kind = B!VdNegInt THEN IF u.ok THEN B!Ok(B!Negate(u.v), u.n) ELSE B!Err
          ELSE IF kind = B!VdSmallInt THEN B!Ok(B!ZeroExt(<<B!vs(bd) + 1>>), 1)
          ELSE IF bd = B!VdSpecial + B!SpZero THEN B!Ok(B!Zero, 1)
          ELSE IF bd = B!VdSpecial + B!SpNegOne THEN B!Ok(B!Fill(255, 8), 1) ELSE B!Err
    BY DEF B!decIntAny, u
  <2> HIDE DEF bd, kind
  <2> QED
    BY <1>c, <2>1
<1>n. vt # "bad" /\ kind \in {16, 32} => B!decodeNaked(s) = B!Ok(vt, u.n)
  <2> HIDE DEF vt, kind
  <2> QED
    BY <1>c, Zenon DEF B!decodeNaked, vt, kind
<1>o. vt \in {"uint", "int"} /\ kind \notin {16, 32, 48} => B!decodeNaked(s) = B!Ok(vt, 1)
  <2>1. /\ "uint" # "bad" /\ "uint" # "timestamp" /\ "uint" # "ext" /\ "uint" \notin {"string", "bytes"}
        /\ "int" # "bad" /\ "int" # "timestamp" /\ "int" # "ext" /\ "int" \notin {"string", "bytes"}
    OBVIOUS
  <2>2. vt \in {"uint", "int"} =>
          vt # "bad" /\ vt # "timestamp" /\ vt # "ext" /\ vt \notin {"string", "bytes"}
    BY <2>1, Zenon
  <2>3. kind \notin {16, 32, 48} => kind \notin {16, 32} /\ kind # 48
    BY Zenon
  <2> HIDE DEF vt, kind
  <2> QED
    BY <1>c, <2>2, <2>3, Zenon DEF B!decodeNaked, vt, kind
<1>t. /\ kind = 16 \/ kind = 144 \/ bd = 7 => vt = "uint"
      /\ kind = 32 \/ bd = 8 => vt = "int"
  <2> HIDE DEF bd
  <2> DEFINE ki == B!vd(bd)
  <2>1. vt = IF ki = 0
               THEN IF bd = 0 THEN "nil"
                    ELSE IF bd \in {1, 2} THEN "bool"
                    ELSE IF bd \in {3, 4, 5, 6} THEN "float"
                    ELSE IF bd = 7 THEN "uint"
                    ELSE IF bd = 8 THEN "int" ELSE "bad"
             ELSE IF ki \in {16, 144} THEN "uint"
             ELSE IF ki = 32 THEN "int"
             ELSE vt
    BY DEF B!currentEncodedType, B!VdSpecial, B!SpNil, B!SpFalse, B!SpTrue, B!SpNan, B!SpPosInf, B!SpNegInf,
           B!SpZeroFloat, B!SpZero, B!SpNegOne, B!VdPosInt, B!VdSmallInt, B!VdNegInt
  <2>2. (bd = 7 => ki = 0) /\ (bd = 8 => ki = 0)
    BY <1>c, Zenon
  <2> HIDE DEF vt, ki
  <2>3. /\ ki = 16 \/ ki = 144 \/ bd = 7 => vt = "uint"
        /\ ki = 32 \/ bd = 8 => vt = "int"
    BY <2>1, <2>2, SMT
  <2> QED
    BY <2>3, Zenon DEF ki
<1>x. "uint" # "bad" /\ "int" # "bad" /\ "uint" \in {"uint", "int"} /\ "int" \in {"uint", "int"}
  OBVIOUS
<1> HIDE DEF vt, kind, u
<1>2. CASE kind = 16
  <2>1. u = B!Ok(w, m)
    BY <1>2, <1>d, Zenon
  <2>2. vt = "uint" /\ kind \in {16, 32}
    BY <1>2, <1>t, Zenon
  <2>3. B!decodeNaked(s) = B!Ok("uint", u.n) /\ u.n = m
    BY <1>1, <1>n, <1>x, <2>1, <2>2, Zenon
  <2> QED
    BY <1>1, <2>3, Zenon
<1>3. CASE kind = 32
  <2>1. kind # 16
    BY <1>3, SMT
  <2>2. u.ok
    BY <1>1, <1>3, <1>d, <2>1, Zenon
  <2>3. B!Ok(w, m) = B!Ok(B!Negate(u.v), u.n)
    BY <1>3, <1>d, <2>1, <2>2, Zenon
  <2>4. u.n = m
    <3>1. B!Ok(w, m).n = m
      BY <1>1, Zenon
    <3>2. B!Ok(B!Negate(u.v), u.n).n = u.n
      BY <1>1, Zenon
    <3> QED
      BY <2>3, <3>1, <3>2, Zenon
  <2>5. B!decodeNaked(s) = B!Ok(vt, m)
    BY <1>3, <1>n, <1>t, <1>x, <2>4, Zenon
  <2>6. B!Ok(vt, m).n = m
    BY <1>1, Zenon
  <2>7. B!vd(s[1]) = 32
    BY <1>3, Zenon DEF kind
  <2> QED
    BY <2>5, <2>6, <2>7, Zenon
<1>4. CASE kind # 16 /\ kind # 32
  <2>1. /\ kind = 144 \/ bd = 7 \/ bd = 8
        /\ m = 1
    <3>1. kind = 144 \/ bd = 7 \/ bd = 8
      BY <1>1, <1>4, <1>d, Zenon
    <3>2. \/ B!Ok(w, m) = B!Ok(B!ZeroExt(<<B!vs(bd) + 1>>), 1)
          \/ B!Ok(w, m) = B!Ok(B!Zero, 1)
          \/ B!Ok(w, m) = B!Ok(B!Fill(255, 8), 1)
      BY <1>4, <1>d, <3>1, Zenon
    <3>3. /\ B!Ok(w, m).n = m /\ B!Ok(B!ZeroExt(<<B!vs(bd) + 1>>), 1).n = 1
          /\ B!Ok(B!Zero, 1).n = 1 /\ B!Ok(B!Fill(255, 8), 1).n = 1
      BY <1>1, Zenon
    <3> QED
      BY <3>1, <3>2, <3>3, Zenon
  <2>2. kind \notin {16, 32, 48}
    <3>1. kind = 144 \/ kind = 0
      BY <1>c, <2>1, Zenon DEF kind
    <3> QED
      BY <3>1, SMT
  <2>3. vt \in {"uint", "int"}
    BY <1>t, <1>x, <2>1, Zenon
  <2>4. B!decodeNaked(s) = B!Ok(vt, m)
    BY <1>o, <2>1, <2>2, <2>3, Zenon
  <2>5. bd # 8 => vt = "uint"
    BY <1>t, <2>1, Zenon
  <2> QED
    BY <1>1, <2>4, <2>5, Zenon
<1> QED
  BY <1>2, <1>3, <1>4, Zenon

\* Nothing follows.
LEMMA NothingFollows ==
  ASSUME NEW e \in Seq(Byte)
  PROVE  <<>> \in Seq(Byte) /\ e \o <<>> = e
  OBVIOUS

\* Integers keep a naked reader of msgpack in its place.
LEMMA MsgpackNakedInts ==
  ASSUME NEW w \in Word
  PROVE  /\ M!decodeNaked(M!encodeInt(w), TRUE).n = Len(M!encodeInt(w))
         /\ M!decodeNaked(M!encodeUint(w), TRUE).n = Len(M!encodeUint(w))
<1> DEFINE e == M!encodeInt(w)
           f == M!encodeUint(w)
<1>1. FitsS(w, 8)
  BY Whole
<1>2. e \in Seq(Byte) /\ f \in Seq(Byte)
  BY EncodingsAreBytes, Zenon
<1>3. PICK r \in Seq(Byte) : e \o r = e /\ f \o r = f
  BY <1>2, NothingFollows, Zenon
<1>4. PICK n \in 1..8 : n = 8
  OBVIOUS
<1>5. /\ M!decodeInt(e \o r, n) = IF FitsS(w, n) THEN M!Ok(w, Len(e)) ELSE M!Err
      /\ M!decodeInt(f \o r, n) = IF FitsS(w, n) THEN M!Ok(w, Len(f)) ELSE M!Err
  BY <1>3, <1>4, MsgpackIntegers, Zenon
<1> HIDE DEF e, f
<1>6. M!decodeInt(e, 8) = M!Ok(w, Len(e)) /\ M!decodeInt(f, 8) = M!Ok(w, Len(f))
  BY <1>1, <1>3, <1>4, <1>5, Zenon
<1>7. \A y, m : M!Ok(y, m).ok /\ M!Ok(y, m).n = m
  BY DEF M!Ok
<1>8. M!decodeInt(e, 8).ok /\ M!decodeInt(f, 8).ok /\ M!decodeInt(e, 8).n = Len(e) /\ M!decodeInt(f, 8).n = Len(f)
  BY <1>6, <1>7
<1>9. M!decodeNaked(e, TRUE).n = Len(e) /\ M!decodeNaked(f, TRUE).n = Len(f)
  BY <1>8, MsgpackNaked, Zenon
<1> QED
  BY <1>9, Zenon DEF e, f

\* And one of simple, which also tells the sign.
LEMMA SimpleNakedInts ==
  ASSUME NEW w \in Word
  PROVE  S!decodeNaked(S!encodeInt(w)) = S!Ok(IF Negative(w) THEN "int" ELSE "uint", Len(S!encodeInt(w)))
<1> DEFINE e == S!encodeInt(w)
<1>1. e \in Seq(Byte)
  BY EncodingsAreBytes, Zenon
<1>2. PICK r \in Seq(Byte) : e \o r = e
  BY <1>1, NothingFollows, Zenon
<1>3. CASE Negative(w)
  <2> DEFINE u == Negate(w)
             q == S!encUint(u, S!VdNegInt)
  <2>1. u \in Word
    BY NegateTwice
  <2>2. e = q
    BY <1>3, SimpleBytes, Zenon DEF S!encodeInt
  <2> HIDE DEF u
  <2>3. S!decIntAny(q \o r) = S!Ok(Negate(u), Len(q)) /\ (q \o r)[1] \in S!NegInts
    BY <2>1, SimpleReads, Zenon
  <2> HIDE DEF q, e
  <2>4. S!decIntAny(e) = S!Ok(Negate(u), Len(e)) /\ e[1] \in S!NegInts
    BY <1>2, <2>2, <2>3, Zenon
  <2>5. S!decodeNaked(e) = S!Ok(IF e[1] \in S!NegInts THEN "int" ELSE "uint", Len(e))
    BY <2>4, SimpleNaked, Zenon
  <2>6. S!decodeNaked(e) = S!Ok(IF Negative(w) THEN "int" ELSE "uint", Len(e))
    BY <1>3, <2>4, <2>5, Zenon
  <2> QED
    BY <2>6, Zenon DEF e
<1>4. CASE ~Negative(w)
  <2> DEFINE p == S!encUint(w, S!VdPosInt)
  <2>1. e = p
    BY <1>4, SimpleBytes, Zenon DEF S!encodeInt
  <2>2. S!decIntAny(p \o r) = S!Ok(w, Len(p)) /\ (p \o r)[1] \notin S!NegInts
    BY SimpleReads, Zenon
  <2> HIDE DEF p, e
  <2>3. S!decIntAny(e) = S!Ok(w, Len(e)) /\ e[1] \notin S!NegInts
    BY <1>2, <2>1, <2>2, Zenon
  <2>4. S!decodeNaked(e) = S!Ok(IF e[1] \in S!NegInts THEN "int" ELSE "uint", Len(e))
    BY <2>3, SimpleNaked, Zenon
  <2>5. S!decodeNaked(e) = S!Ok(IF Negative(w) THEN "int" ELSE "uint", Len(e))
    BY <1>4, <2>3, <2>4, Zenon
  <2> QED
    BY <2>5, Zenon DEF e
<1> QED
  BY <1>3, <1>4, Zenon

\* And one of binc, also for the magnitudes that it misreads.
LEMMA BincNakedInts ==
  ASSUME NEW w \in Word, NEW r \in Seq(Byte)
  PROVE  /\ B!decodeNaked(B!encodeInt(w) \o r).n = Len(B!encodeInt(w))
         /\ B!decodeNaked(B!encodeUint(w) \o r) = B!Ok("uint", Len(B!encodeUint(w)))
<1> DEFINE e == B!encodeInt(w)
           p == B!encUint(16, TRUE, w)
           s == p \o r
<1>1. B!VdPosInt = 16
  BY DEF B!VdPosInt
<1>2. B!encodeUint(w) = p /\ (~Negative(w) => e = p)
  BY <1>1, BincBytes, Zenon DEF B!encodeUint, B!encodeInt
<1>3. B!decIntAny(s) = B!Ok(w, Len(p)) /\ B!vd(s[1]) # 32 /\ s[1] # 8
  BY BincPositive, Zenon
<1> HIDE DEF p
<1>4. B!decodeNaked(s).n = Len(p) /\ B!decodeNaked(s) = B!Ok("uint", Len(p))
  <2> HIDE DEF s
  <2> QED
    BY <1>3, BincNaked, Zenon
<1>5. CASE Negative(w)
  <2>1. PICK x \in Word : B!decIntAny(e \o r) = B!Ok(x, Len(e))
    BY <1>5, BincNegative, Zenon
  <2> HIDE DEF e
  <2>2. B!decodeNaked(e \o r).n = Len(e)
    BY <2>1, BincNaked, Zenon
  <2> QED
    BY <1>2, <1>4, <2>2, Zenon DEF s, e
<1>6. CASE ~Negative(w)
  BY <1>2, <1>4, <1>6, Zenon DEF s, e
<1> QED
  BY <1>5, <1>6, Zenon

\* A descriptor and its payload.
LEMMA Headed ==
  ASSUME NEW bd, NEW p \in Seq(Byte)
  PROVE  (<<bd>> \o p)[1] = bd /\ Len(<<bd>> \o p) = Len(p) + 1
  OBVIOUS

\* Floats keep a naked reader in its place: msgpack, ...
LEMMA MsgpackNakedFloats ==
  ASSUME NEW w \in Word, NEW p \in Seq(Byte), Len(p) = 4
  PROVE  /\ M!decodeNaked(M!encodeFloat64(w), TRUE) = M!Ok("float", Len(M!encodeFloat64(w)))
         /\ M!decodeNaked(M!encodeFloat32(p), TRUE) = M!Ok("float", Len(M!encodeFloat32(p)))
<1> DEFINE e == <<203>> \o w
           f == <<202>> \o p
<1>0. M!mpDouble = 203 /\ M!mpFloat = 202
  BY DEF M!mpDouble, M!mpFloat
<1>1. M!encodeFloat64(w) = e /\ M!encodeFloat32(p) = f
  BY <1>0, Zenon DEF M!encodeFloat64, M!encodeFloat32
<1>2. M!mpDouble \in Byte /\ M!mpFloat \in Byte /\ M!mpDouble # M!mpFloat
  BY DEF M!mpDouble, M!mpFloat, Byte
<1>3. w \in Seq(Byte) /\ Len(w) = 8
  BY DEF Word
<1>4. e[1] = M!mpDouble /\ Len(e) = Len(w) + 1 /\ f[1] = M!mpFloat /\ Len(f) = Len(p) + 1
  <2>1. e[1] = 203 /\ Len(e) = Len(w) + 1
    BY <1>3, Headed, Zenon
  <2>2. f[1] = 202 /\ Len(f) = Len(p) + 1
    BY Headed, Zenon
  <2> QED
    BY <1>0, <2>1, <2>2, Zenon
<1>5. Len(e) = 9 /\ Len(f) = 5
  BY <1>3, <1>4, SMT
<1> HIDE DEF e, f
<1>6. M!currentEncodedType(e[1], TRUE) = "float" /\ M!currentEncodedType(f[1], TRUE) = "float"
  <2>1. M!mpDouble \in {M!mpFloat, M!mpDouble} /\ M!mpFloat \in {M!mpFloat, M!mpDouble}
    BY Zenon
  <2> QED
    BY <1>2, <1>4, <2>1, MsgpackTypes, Zenon
<1>7. "float" # "bad"
  OBVIOUS
<1>8. M!decodeNaked(e, TRUE) = M!Ok("float", 9) /\ M!decodeNaked(f, TRUE) = M!Ok("float", 5)
  BY <1>2, <1>4, <1>6, <1>7, Zenon DEF M!decodeNaked
<1> QED
  BY <1>1, <1>5, <1>8, Zenon

\* ... simple, ...
LEMMA SimpleNakedFloats ==
  ASSUME NEW w \in Word, NEW p \in Seq(Byte), Len(p) = 4
  PROVE  /\ S!decodeNaked(S!encodeFloat64(w)) = S!Ok("float", Len(S!encodeFloat64(w)))
         /\ S!decodeNaked(S!encodeFloat32(p)) = S!Ok("float", Len(S!encodeFloat32(p)))
<1> DEFINE e == S!encodeFloat64(w)
           f == S!encodeFloat32(p)
<1>1. w \in Seq(Byte)
  BY DEF Word
<1>2. e \in Seq(Byte) /\ f \in Seq(Byte)
  BY <1>1, FloatBytes, Zenon
<1>3. PICK r \in Seq(Byte) : e \o r = e /\ f \o r = f
  BY <1>2, NothingFollows, Zenon
<1>4. S!decodeFloat(e \o r) = S!Ok(w, Len(e)) /\ S!decodeFloat(f \o r) = S!Ok(p, Len(f))
  BY SimpleFloats, Zenon
<1>5. e[1] = 5 /\ f[1] = 4
  BY <1>1, Headed, SMT DEF S!encodeFloat64, S!encodeFloat32, S!VdFloat32, S!VdFloat64
<1> HIDE DEF e, f
<1>6. \A y, n : S!Ok(y, n).n = n
  BY DEF S!Ok
<1>7. S!decodeFloat(e).n = Len(e) /\ S!decodeFloat(f).n = Len(f)
  BY <1>3, <1>4, <1>6, SMT
<1>8. S!currentEncodedType(4) = "float" /\ S!currentEncodedType(5) = "float"
  BY DEF S!currentEncodedType, S!PosInts, S!NegInts, S!VdNil, S!VdTrue, S!VdFalse, S!VdPosInt, S!VdNegInt,
         S!VdFloat32, S!VdFloat64
<1>9. "float" # "bad" /\ "float" \notin {"uint", "int"}
  OBVIOUS
<1>10. /\ S!decodeNaked(e) = S!Ok("float", S!decodeFloat(e).n)
       /\ S!decodeNaked(f) = S!Ok("float", S!decodeFloat(f).n)
  BY <1>5, <1>8, <1>9, Zenon DEF S!decodeNaked
<1> QED
  BY <1>7, <1>10, Zenon DEF e, f

\* ... and binc.
LEMMA BincNakedFloats ==
  ASSUME NEW w \in Word, NEW p \in Seq(Byte), Len(p) = 4, NEW r \in Seq(Byte)
  PROVE  /\ B!decodeNaked(B!encodeFloat64(w) \o r) = B!Ok("float", Len(B!encodeFloat64(w)))
         /\ B!decodeNaked(B!encodeFloat32(p) \o r) = B!Ok("float", Len(B!encodeFloat32(p)))
<1>o. \A y, n : B!Ok(y, n).n = n
  BY DEF B!Ok
<1>v. B!vd(6) = 0
  BY DEF B!vd
<1>f. /\ B!currentEncodedType(6) = "float" /\ B!currentEncodedType(49) = "float"
      /\ B!currentEncodedType(51) = "float" /\ B!currentEncodedType(59) = "float"
  <2>1. B!currentEncodedType(6) = "float"
    BY <1>v DEF B!currentEncodedType, B!VdSpecial, B!SpNil, B!SpFalse, B!SpTrue, B!SpNan, B!SpPosInf, B!SpNegInf,
                B!SpZeroFloat
  <2>2. ASSUME NEW bd, B!vd(bd) = 48
        PROVE  B!currentEncodedType(bd) = "float"
    BY <2>2 DEF B!currentEncodedType, B!VdSpecial, B!VdPosInt, B!VdSmallInt, B!VdNegInt, B!VdFloat
  <2> QED
    BY <2>1, <2>2, FloatDescriptors, Zenon
<1>1. ASSUME NEW s, s[1] = 6 PROVE B!decodeNaked(s) = B!Ok("float", 1)
  <2>1. B!currentEncodedType(s[1]) = "float" /\ B!vd(s[1]) = 0
    BY <1>1, <1>f, <1>v, Zenon
  <2>2. /\ "float" # "bad" /\ "float" # "timestamp" /\ "float" # "ext" /\ "float" \notin {"string", "bytes"}
        /\ 0 \notin {B!VdPosInt, B!VdNegInt} /\ 0 # B!VdFloat
    BY DEF B!VdPosInt, B!VdNegInt, B!VdFloat
  <2> QED
    BY <2>1, <2>2, Zenon DEF B!decodeNaked
<1>2. ASSUME NEW s, NEW y, NEW n, s[1] = 49 \/ s[1] = 51 \/ s[1] = 59, B!decodeFloat(s) = B!Ok(y, n)
      PROVE  B!decodeNaked(s) = B!Ok("float", n)
  <2>1. B!currentEncodedType(s[1]) = "float" /\ B!vd(s[1]) = 48 /\ s[1] \notin {6, 7}
    BY <1>2, <1>f, FloatDescriptors, ZenonT(60)
  <2>2. "float" # "bad" /\ 48 \notin {B!VdPosInt, B!VdNegInt} /\ B!VdFloat = 48
    BY DEF B!VdPosInt, B!VdNegInt, B!VdFloat
  <2>3. B!decodeFloat(s) = B!decFloat(s)
    BY <2>1, <2>2, FloatDescriptors, Zenon DEF B!decodeFloat
  <2>4. B!decodeNaked(s) = B!Ok("float", B!decFloat(s).n)
    BY <2>1, <2>2, Zenon DEF B!decodeNaked
  <2>5. B!Ok(y, n).n = n
    BY <1>o, Zenon
  <2> QED
    BY <1>2, <2>3, <2>4, <2>5, Zenon
<1>3. B!decodeNaked(B!encodeFloat64(w) \o r) = B!Ok("float", Len(B!encodeFloat64(w)))
  <2> DEFINE e == B!encodeFloat64(w)
             i == CHOOSE x \in 0..8 : (\A j \in (x + 1)..8 : w[j] = 0) /\ (x > 0 => w[x] # 0)
             s == e \o r
             y == IF B!IsZeroFloat(w) THEN B!Zero ELSE w
  <2>1. e = IF B!IsZeroFloat(w) THEN <<6>>
            ELSE IF i <= 6 THEN <<59, i>> \o SubSeq(w, 1, i) ELSE <<51>> \o w
    <3>1. e = IF B!IsZeroFloat(w) THEN <<B!VdSpecial + B!SpZeroFloat>>
              ELSE IF i <= 6 THEN <<B!VdFloat + 8 + B!FlBin64, i>> \o SubSeq(w, 1, i)
              ELSE <<B!VdFloat + B!FlBin64>> \o w
      BY Zenon DEF B!encodeFloat64
    <3> HIDE DEF e, i
    <3> QED
      BY <3>1, FloatDescriptors
  <2>2. i \in 0..8 /\ LastByte(w, i)
    <3>1. PICK t \in 0..8 : LastByte(w, t)
      BY LastByteExists
    <3> QED
      BY <3>1, LastByteUnique
  <2>3. B!decodeFloat(s) = B!Ok(y, Len(e))
    BY BincFloat64, Zenon
  <2> HIDE DEF e, i, y
  <2>w. w \in Seq(Byte) /\ Len(w) = 8
    BY DEF Word
  <2>4. CASE B!IsZeroFloat(w)
    <3>1. e = <<6>>
      BY <2>1, <2>4, Zenon
    <3>2. s[1] = 6 /\ Len(e) = 1
      BY <3>1
    <3> HIDE DEF s
    <3> QED
      BY <1>1, <3>2, Zenon DEF s, e
  <2>5. CASE ~B!IsZeroFloat(w)
    <3>1. s[1] = 51 \/ s[1] = 59
      <4>1. CASE i <= 6
        <5> DEFINE q == SubSeq(w, 1, i)
        <5>1. q \in Seq(Byte)
          <6>1. \A j \in (i + 1)..8 : w[j] = 0
            BY <2>2 DEF LastByte
          <6> QED
            BY <2>2, <6>1, Padded, Zenon
        <5>2. e = <<59, i>> \o q
          BY <2>1, <2>5, <4>1, Zenon
        <5> HIDE DEF q
        <5> QED
          BY <5>1, <5>2, SMT
      <4>2. CASE ~(i <= 6)
        <5>1. e = <<51>> \o w
          BY <2>1, <2>5, <4>2, Zenon
        <5> QED
          BY <2>w, <5>1, SMT
      <4> QED
        BY <4>1, <4>2, Zenon
    <3> HIDE DEF s
    <3> QED
      BY <1>2, <2>3, <3>1, ZenonT(60) DEF s, e
  <2> QED
    BY <2>4, <2>5, Zenon
<1>4. B!decodeNaked(B!encodeFloat32(p) \o r) = B!Ok("float", Len(B!encodeFloat32(p)))
  <2> DEFINE e == B!encodeFloat32(p)
             s == e \o r
  <2>1. CASE B!IsZeroFloat(p)
    <3>1. e = <<6>>
      BY <2>1, FloatDescriptors, Zenon DEF B!encodeFloat32
    <3> HIDE DEF e
    <3>2. s[1] = 6 /\ Len(e) = 1
      BY <3>1
    <3> HIDE DEF s
    <3> QED
      BY <1>1, <3>2, Zenon DEF s, e
  <2>2. CASE ~B!IsZeroFloat(p)
    <3>1. e = <<49>> \o p
      BY <2>2, FloatDescriptors, Zenon DEF B!encodeFloat32
    <3>2. B!decodeFloat(s) = B!Ok(p, Len(e))
      BY <2>2, BincFloat32, Zenon
    <3> HIDE DEF e
    <3>3. s[1] = 49
      BY <3>1, SMT
    <3> HIDE DEF s
    <3> QED
      BY <1>2, <3>2, <3>3, Zenon DEF s, e
  <2> QED
    BY <2>1, <2>2, Zenon
<1> QED
  BY <1>3, <1>4, Zenon

\* A naked reader of a Boolean, ...
LEMMA NakedBooleans ==
  ASSUME NEW b \in BOOLEAN
  PROVE  /\ M!decodeBool(M!encodeBool(b)) = M!Ok(b, 1) /\ M!decodeNaked(M!encodeBool(b), TRUE) = M!Ok("bool", 1)
         /\ B!decodeBool(B!encodeBool(b)) = B!Ok(b, 1) /\ B!decodeNaked(B!encodeBool(b)) = B!Ok("bool", 1)
         /\ S!decodeBool(S!encodeBool(b)) = S!Ok(b, 1) /\ S!decodeNaked(S!encodeBool(b)) = S!Ok("bool", 1)
<1>0. \A y : <<y>>[1] = y
  OBVIOUS
<1>b. b = TRUE \/ b = FALSE
  OBVIOUS
<1>1. M!decodeBool(M!encodeBool(b)) = M!Ok(b, 1)
  <2>1. M!mpFalse = 194 /\ M!mpTrue = 195 /\ 195 \notin {194, 0} /\ 194 \in {194, 0} /\ 195 \in {195, 1}
    BY DEF M!mpFalse, M!mpTrue
  <2>2. CASE b = TRUE
    BY <1>0, <2>1, <2>2, ZenonT(60) DEF M!decodeBool, M!encodeBool
  <2>3. CASE b = FALSE
    BY <1>0, <2>1, <2>3, ZenonT(60) DEF M!decodeBool, M!encodeBool
  <2> QED
    BY <1>b, <2>2, <2>3
<1>2. M!decodeNaked(M!encodeBool(b), TRUE) = M!Ok("bool", 1)
  <2> DEFINE e == M!encodeBool(b)
             d == e[1]
  <2>1. d = M!mpFalse \/ d = M!mpTrue
    BY <1>0, Zenon DEF M!encodeBool
  <2>2. M!mpFalse \in Byte /\ M!mpTrue \in Byte
    BY DEF M!mpFalse, M!mpTrue, Byte
  <2> HIDE DEF e, d
  <2>3. M!currentEncodedType(d, TRUE) = "bool"
    <3>1. d \in Byte /\ d \in {M!mpFalse, M!mpTrue}
      BY <2>1, <2>2, Zenon
    <3> QED
      BY <3>1, MsgpackTypes, Zenon
  <2>4. d \notin M!Uints /\ d \notin M!Ints
    BY <2>1, SMT DEF M!mpFalse, M!mpTrue, M!Uints, M!Ints, M!mpUint8, M!mpInt8
  <2>5. "bool" # "bad" /\ "bool" # "float" /\ "bool" # "ext"
    OBVIOUS
  <2> QED
    BY <2>3, <2>4, <2>5, Zenon DEF M!decodeNaked, e, d
<1>3. B!decodeBool(B!encodeBool(b)) = B!Ok(b, 1) /\ B!decodeNaked(B!encodeBool(b)) = B!Ok("bool", 1)
  <2> DEFINE e == B!encodeBool(b)
             d == e[1]
  <2>1. /\ B!VdSpecial = 0 /\ B!SpFalse = 1 /\ B!SpTrue = 2 /\ 0 + 1 = 1 /\ 0 + 2 = 2 /\ 1 # 2
        /\ B!vd(1) = 0 /\ B!vd(2) = 0 /\ 0 \notin {B!VdPosInt, B!VdNegInt} /\ 0 # B!VdFloat
        /\ B!SpNil = 0 /\ 1 # 0 /\ 2 # 0
    BY DEF B!VdSpecial, B!SpFalse, B!SpTrue, B!vd, B!VdPosInt, B!VdNegInt, B!VdFloat, B!SpNil
  <2>2. (b = TRUE => d = 2) /\ (b = FALSE => d = 1)
    <3>1. b = TRUE => e = <<2>>
      BY <2>1, Zenon DEF B!encodeBool
    <3>2. b = FALSE => e = <<1>>
      BY <2>1, Zenon DEF B!encodeBool
    <3> HIDE DEF e
    <3>3. <<2>>[1] = 2 /\ <<1>>[1] = 1
      OBVIOUS
    <3> QED
      BY <3>1, <3>2, <3>3, Zenon
  <2> HIDE DEF e
  <2>3. d = 1 \/ d = 2
    BY <1>b, <2>2, Zenon
  <2>4. B!currentEncodedType(d) = "bool" /\ B!vd(d) = 0
    BY <2>1, <2>3, Zenon DEF B!currentEncodedType
  <2>5. "bool" # "bad" /\ "bool" # "timestamp" /\ "bool" # "ext" /\ "bool" \notin {"string", "bytes"}
    OBVIOUS
  <2>6. B!decodeNaked(e) = B!Ok("bool", 1)
    BY <2>1, <2>4, <2>5, Zenon DEF B!decodeNaked
  <2>7. B!decodeBool(e) = B!Ok(b, 1)
    <3>1. CASE b = TRUE
      BY <2>1, <2>2, <3>1, Zenon DEF B!decodeBool
    <3>2. CASE b = FALSE
      BY <2>1, <2>2, <3>2, Zenon DEF B!decodeBool
    <3> QED
      BY <1>b, <3>1, <3>2
  <2> QED
    BY <2>6, <2>7, Zenon DEF e
<1>4. S!decodeBool(S!encodeBool(b)) = S!Ok(b, 1) /\ S!decodeNaked(S!encodeBool(b)) = S!Ok("bool", 1)
  <2> DEFINE e == S!encodeBool(b)
             d == e[1]
  <2>1. S!VdTrue = 3 /\ S!VdFalse = 2 /\ 3 # 2
    BY DEF S!VdTrue, S!VdFalse
  <2>2. (b = TRUE => d = 3) /\ (b = FALSE => d = 2)
    <3>1. (b = TRUE => e = <<3>>) /\ (b = FALSE => e = <<2>>)
      BY <2>1, Zenon DEF S!encodeBool
    <3> HIDE DEF e
    <3>2. <<3>>[1] = 3 /\ <<2>>[1] = 2
      OBVIOUS
    <3> QED
      BY <3>1, <3>2, Zenon
  <2> HIDE DEF e
  <2>3. S!currentEncodedType(3) = "bool" /\ S!currentEncodedType(2) = "bool"
    BY <2>1 DEF S!currentEncodedType, S!VdNil
  <2>4. S!currentEncodedType(d) = "bool"
    BY <1>b, <2>2, <2>3, Zenon
  <2>5. /\ "bool" # "bad" /\ "bool" # "float" /\ "bool" # "ext" /\ "bool" \notin {"string", "bytes"}
        /\ "bool" \notin {"uint", "int"}
    OBVIOUS
  <2>6. S!decodeNaked(e) = S!Ok("bool", 1)
    BY <2>4, <2>5, Zenon DEF S!decodeNaked
  <2>7. S!decodeBool(e) = S!Ok(b, 1)
    <3>1. CASE b = TRUE
      BY <2>1, <2>2, <3>1, Zenon DEF S!decodeBool
    <3>2. CASE b = FALSE
      BY <2>1, <2>2, <3>2, Zenon DEF S!decodeBool
    <3> QED
      BY <1>b, <3>1, <3>2
  <2> QED
    BY <2>6, <2>7, Zenon DEF e
<1> QED
  BY <1>1, <1>2, <1>3, <1>4, Zenon

\* ... of a time, ...
LEMMA NakedTimes ==
  ASSUME NEW t, Time(t)
  PROVE  B!decodeNaked(B!encodeBuiltin(t)) = B!Ok("timestamp", Len(B!encodeBuiltin(t)))
<1> DEFINE p == B!encodeTime(t)
           n == Len(p)
           d == 128 + n
           e == <<d>> \o p
<1>0. B!encodeBuiltin(t) = e
  BY Zenon DEF B!encodeBuiltin, B!VdTimestamp
<1>1. n <= 15 /\ p \in Seq(Byte)
  BY TimeDecoded, Zenon
<1> HIDE DEF p
<1>2. n \in Nat
  BY <1>1
<1> HIDE DEF n
<1>n. n \in 0..15
  BY <1>1, <1>2, SMT
<1>3. B!vd(d) = 128 /\ B!vs(d) = n
  <2>1. d % 16 = n
    BY <1>n, SMT
  <2> QED
    BY <1>n, <2>1, SMT DEF B!vd, B!vs
<1> HIDE DEF d
<1>4. e[1] = d /\ Len(e) = n + 1
  BY <1>1, SMT DEF n
<1> HIDE DEF e
<1>5. B!currentEncodedType(d) = "timestamp"
  BY <1>3, SMT DEF B!currentEncodedType, B!VdSpecial, B!VdPosInt, B!VdSmallInt, B!VdNegInt, B!VdFloat, B!VdString,
                   B!VdSymbol, B!VdByteArray, B!VdTimestamp
<1>6. "timestamp" # "bad" /\ 128 \notin {B!VdPosInt, B!VdNegInt} /\ 128 # B!VdFloat
  BY DEF B!VdPosInt, B!VdNegInt, B!VdFloat
<1>7. B!decodeNaked(e) = B!Ok("timestamp", n + 1)
  BY <1>3, <1>4, <1>5, <1>6, Zenon DEF B!decodeNaked
<1> QED
  BY <1>0, <1>4, <1>7, Zenon

\* ... and of an extension, whose data it skips.
LEMMA NakedExts ==
  ASSUME NEW x \in Nat, x < Huge, NEW tag \in Byte
  PROVE  LET m == M!encodeExtPreamble(tag, x)
             s == S!encodeExtPreamble(tag, LengthOf(x))
             b == B!encodeExtPreamble(tag, LengthOf(x))
         IN  /\ M!decodeNaked(m, TRUE) = M!Ok("ext", Len(m) + x)
             /\ S!decodeNaked(s) = S!Ok("ext", Len(s) + x)
             /\ ReadBack(x) => B!decodeNaked(b) = B!Ok("ext", Len(b) + x)
<1> DEFINE w == LengthOf(x)
           m == M!encodeExtPreamble(tag, x)
           s == S!encodeExtPreamble(tag, w)
           b == B!encodeExtPreamble(tag, w)
<1>1. w \in Word /\ ToNat(w) = x /\ (ReadBack(x) => FitsU(w, 2))
  BY LengthWords, Zenon
<1>2. /\ M!readExtLen(m) = M!Ok(x, Len(m) - 1) /\ (m[1] \in 199..201 \/ m[1] \in 212..216)
      /\ Len(m) \in Nat
  BY MsgpackExt, Zenon
<1> HIDE DEF w
<1>3. S!decLen(s) = S!Ok(w, Len(s) - 1) /\ s[1] \in 248..252 /\ Len(s) \in Nat
  BY <1>1, SimpleExt, Zenon
<1>4. ReadBack(x) => B!decLen(b) = B!Ok(w, Len(b) - 1) /\ B!vd(b[1]) = 240 /\ Len(b) \in Nat
  <2> HAVE ReadBack(x)
  <2>1. FitsU(w, 2)
    BY <1>1, Zenon
  <2> QED
    BY <1>1, <2>1, BincExt
<1> HIDE DEF m, s, b
<1>5. /\ \A y, n : M!Ok(y, n).v = y /\ M!Ok(y, n).n = n
      /\ \A y, n : S!Ok(y, n).v = y /\ S!Ok(y, n).n = n
      /\ \A y, n : B!Ok(y, n).v = y /\ B!Ok(y, n).n = n
  BY DEF M!Ok, S!Ok, B!Ok
<1>6. \A n \in Nat : (n - 1) + 1 + x = n + x
  BY SMT
<1>7. /\ "ext" # "bad" /\ "ext" # "float" /\ "ext" \notin {"uint", "int"} /\ "ext" \notin {"string", "bytes"}
      /\ "ext" # "timestamp"
  OBVIOUS
<1>8. M!decodeNaked(m, TRUE) = M!Ok("ext", Len(m) + x)
  <2> DEFINE d == m[1]
             l == M!readExtLen(m)
  <2>1. l.v = x /\ l.n = Len(m) - 1
    <3>1. l = M!Ok(x, Len(m) - 1)
      BY <1>2, Zenon
    <3> HIDE DEF l
    <3> QED
      BY <1>5, <3>1
  <2>2. d \in Byte /\ (d \in M!FixExts \/ d \in M!Exts) /\ d \notin M!Uints /\ d \notin M!Ints
    <3>1. d \in 199..201 \/ d \in 212..216
      BY <1>2, Zenon
    <3> HIDE DEF d
    <3> QED
      BY <3>1, SMT DEF Byte, M!FixExts, M!Exts, M!Uints, M!Ints, M!mpFixExt1, M!mpExt8, M!mpUint8, M!mpInt8
  <2> HIDE DEF d
  <2>3. M!currentEncodedType(d, TRUE) = "ext"
    BY <2>2, MsgpackTypes, Zenon
  <2> HIDE DEF l
  <2>4. M!decodeNaked(m, TRUE) = M!Ok("ext", l.n + 1 + l.v)
    BY <1>7, <2>2, <2>3, Zenon DEF M!decodeNaked, d, l
  <2> QED
    BY <1>2, <1>6, <2>1, <2>4, Zenon
<1>9. S!decodeNaked(s) = S!Ok("ext", Len(s) + x)
  <2> DEFINE d == s[1]
             l == S!decLen(s)
  <2>1. l.v = w /\ l.n = Len(s) - 1
    <3>1. l = S!Ok(w, Len(s) - 1)
      BY <1>3, Zenon
    <3> HIDE DEF l
    <3> QED
      BY <1>5, <3>1
  <2>2. S!currentEncodedType(d) = "ext"
    <3>1. d \in 248..252
      BY <1>3, Zenon
    <3> HIDE DEF d
    <3> QED
      BY <3>1, SMT DEF S!currentEncodedType, S!Lens, S!PosInts, S!NegInts, S!VdNil, S!VdTrue, S!VdFalse, S!VdPosInt,
                       S!VdNegInt, S!VdFloat32, S!VdFloat64, S!VdString, S!VdByteArray, S!VdExt
  <2> HIDE DEF d, l
  <2>3. S!decodeNaked(s) = S!Ok("ext", l.n + 1 + S!ToNat(l.v))
    BY <1>7, <2>2, Zenon DEF S!decodeNaked, d, l
  <2>4. S!ToNat(l.v) = x
    <3>1. S!ToNat(l.v) = ToNat(l.v)
      BY SameNumbers, Zenon
    <3> QED
      BY <1>1, <2>1, <3>1, Zenon
  <2> QED
    BY <1>3, <1>6, <2>1, <2>3, <2>4, Zenon
<1>10. ReadBack(x) => B!decodeNaked(b) = B!Ok("ext", Len(b) + x)
  <2> HAVE ReadBack(x)
  <2> DEFINE d == b[1]
             l == B!decLen(b)
  <2>1. l.v = w /\ l.n = Len(b) - 1
    <3>1. l = B!Ok(w, Len(b) - 1)
      BY <1>4, Zenon
    <3> HIDE DEF l
    <3> QED
      BY <1>5, <3>1
  <2>2. B!vd(d) = 240
    BY <1>4, Zenon
  <2> HIDE DEF d, l
  <2>3. B!currentEncodedType(d) = "ext"
    BY <2>2, SMT DEF B!currentEncodedType, B!VdSpecial, B!VdPosInt, B!VdSmallInt, B!VdNegInt, B!VdFloat, B!VdString,
                     B!VdSymbol, B!VdByteArray, B!VdTimestamp, B!VdCustomExt
  <2>4. 240 \notin {B!VdPosInt, B!VdNegInt} /\ 240 # B!VdFloat
    BY DEF B!VdPosInt, B!VdNegInt, B!VdFloat
  <2>5. B!decodeNaked(b) = B!Ok("ext", l.n + 1 + B!ToNat(l.v))
    BY <1>7, <2>2, <2>3, <2>4, Zenon DEF B!decodeNaked, d, l
  <2>6. B!ToNat(l.v) = x
    <3>1. B!ToNat(l.v) = ToNat(l.v)
      BY SameNumbers, Zenon
    <3> QED
      BY <1>1, <2>1, <3>1, Zenon
  <2> QED
    BY <1>4, <1>6, <2>1, <2>5, <2>6, Zenon
<1> QED
  BY <1>8, <1>9, <1>10, Zenon DEF m, s, b, w

\* A reader that does not know the type keeps its place in the stream, whatever
\* was written (decodeNaked of the three drivers).
THEOREM NakedReadersKeepPlace == Spec => []NakedConsumesAll
<1> DEFINE Timed == sample.kind = "time" => Time(sample)
<1>1. Init => Timed
  BY SampleTime DEF Init
<1>2. Timed /\ [Next]_sample => Timed'
  <2> SUFFICES ASSUME Timed, sample' = sample PROVE Timed'
    BY DEF Next
  <2> QED
    BY DEF Time
<1>3. Timed /\ Sampled(sample) /\ (IsWord => v \in Word) => NakedConsumesAll
  <2> SUFFICES ASSUME Timed, Sampled(sample), IsWord => v \in Word PROVE NakedConsumesAll
    OBVIOUS
  <2>1. ASSUME sample.kind = "bool"
        PROVE  LET b == sample.b IN
               /\ M!decodeBool(M!encodeBool(b)) = M!Ok(b, 1) /\ M!decodeNaked(M!encodeBool(b), TRUE) = M!Ok("bool", 1)
               /\ B!decodeBool(B!encodeBool(b)) = B!Ok(b, 1) /\ B!decodeNaked(B!encodeBool(b)) = B!Ok("bool", 1)
               /\ S!decodeBool(S!encodeBool(b)) = S!Ok(b, 1) /\ S!decodeNaked(S!encodeBool(b)) = S!Ok("bool", 1)
    <3> DEFINE b == sample.b
    <3>1. b \in BOOLEAN
      BY <2>1, Zenon DEF Sampled
    <3> HIDE DEF b
    <3>2. /\ M!decodeBool(M!encodeBool(b)) = M!Ok(b, 1) /\ M!decodeNaked(M!encodeBool(b), TRUE) = M!Ok("bool", 1)
          /\ B!decodeBool(B!encodeBool(b)) = B!Ok(b, 1) /\ B!decodeNaked(B!encodeBool(b)) = B!Ok("bool", 1)
          /\ S!decodeBool(S!encodeBool(b)) = S!Ok(b, 1) /\ S!decodeNaked(S!encodeBool(b)) = S!Ok("bool", 1)
      BY <3>1, NakedBooleans, Zenon
    <3> QED
      BY <3>2, Zenon DEF b
  <2>2. ASSUME IsWord
        PROVE  LET short == Low(v, 4) IN
               /\ M!decodeNaked(M!encodeInt(v), TRUE).n = Len(M!encodeInt(v))
               /\ M!decodeNaked(M!encodeUint(v), TRUE).n = Len(M!encodeUint(v))
               /\ M!decodeNaked(M!encodeFloat64(v), TRUE) = M!Ok("float", Len(M!encodeFloat64(v)))
               /\ M!decodeNaked(M!encodeFloat32(short), TRUE) = M!Ok("float", Len(M!encodeFloat32(short)))
               /\ B!decodeNaked(B!encodeInt(v) \o <<7>>).n = Len(B!encodeInt(v))
               /\ B!decodeNaked(B!encodeUint(v) \o <<7>>) = B!Ok("uint", Len(B!encodeUint(v)))
               /\ B!decodeNaked(B!encodeFloat64(v) \o <<7>>) = B!Ok("float", Len(B!encodeFloat64(v)))
               /\ B!decodeNaked(B!encodeFloat32(short) \o <<7>>) = B!Ok("float", Len(B!encodeFloat32(short)))
               /\ S!decodeNaked(S!encodeInt(v)) = S!Ok(IF Negative(v) THEN "int" ELSE "uint", Len(S!encodeInt(v)))
               /\ S!decodeNaked(S!encodeFloat64(v)) = S!Ok("float", Len(S!encodeFloat64(v)))
               /\ S!decodeNaked(S!encodeFloat32(short)) = S!Ok("float", Len(S!encodeFloat32(short)))
    <3> HIDE DEF v
    <3> DEFINE p == Low(v, 4)
               r == <<7>>
    <3>1. v \in Word
      BY <2>2, Zenon
    <3>2. p \in Seq(Byte) /\ Len(p) = 4
      <4>1. PICK n \in 1..8 : n = 4
        OBVIOUS
      <4>2. Low(v, n) \in Seq(Byte) /\ Len(Low(v, n)) = n
        BY <3>1, <4>1, LowBytes, Zenon
      <4> QED
        BY <4>1, <4>2, Zenon
    <3>3. r \in Seq(Byte)
      BY DEF Byte
    <3> HIDE DEF p, r
    <3>4. /\ M!decodeNaked(M!encodeInt(v), TRUE).n = Len(M!encodeInt(v))
          /\ M!decodeNaked(M!encodeUint(v), TRUE).n = Len(M!encodeUint(v))
      BY <3>1, MsgpackNakedInts, Zenon
    <3>5. /\ M!decodeNaked(M!encodeFloat64(v), TRUE) = M!Ok("float", Len(M!encodeFloat64(v)))
          /\ M!decodeNaked(M!encodeFloat32(p), TRUE) = M!Ok("float", Len(M!encodeFloat32(p)))
      BY <3>1, <3>2, MsgpackNakedFloats, Zenon
    <3>6. /\ B!decodeNaked(B!encodeInt(v) \o r).n = Len(B!encodeInt(v))
          /\ B!decodeNaked(B!encodeUint(v) \o r) = B!Ok("uint", Len(B!encodeUint(v)))
      BY <3>1, <3>3, BincNakedInts, Zenon
    <3>7. /\ B!decodeNaked(B!encodeFloat64(v) \o r) = B!Ok("float", Len(B!encodeFloat64(v)))
          /\ B!decodeNaked(B!encodeFloat32(p) \o r) = B!Ok("float", Len(B!encodeFloat32(p)))
      BY <3>1, <3>2, <3>3, BincNakedFloats, Zenon
    <3>8. S!decodeNaked(S!encodeInt(v)) = S!Ok(IF Negative(v) THEN "int" ELSE "uint", Len(S!encodeInt(v)))
      BY <3>1, SimpleNakedInts, Zenon
    <3>9. /\ S!decodeNaked(S!encodeFloat64(v)) = S!Ok("float", Len(S!encodeFloat64(v)))
          /\ S!decodeNaked(S!encodeFloat32(p)) = S!Ok("float", Len(S!encodeFloat32(p)))
      BY <3>1, <3>2, SimpleNakedFloats, Zenon
    <3> QED
      BY <3>4, <3>5, <3>6, <3>7, <3>8, <3>9, Zenon DEF p, r
  <2>3. ASSUME sample.kind = "time"
        PROVE  B!decodeNaked(B!encodeBuiltin(sample)) = B!Ok("timestamp", Len(B!encodeBuiltin(sample)))
    BY <2>3, NakedTimes, Zenon
  <2>4. ASSUME sample.kind = "ext"
        PROVE  LET m == M!encodeExtPreamble(sample.tag, sample.l)
                   s == S!encodeExtPreamble(sample.tag, LengthOf(sample.l))
                   b == B!encodeExtPreamble(sample.tag, LengthOf(sample.l))
               IN  /\ M!decodeNaked(m, TRUE) = M!Ok("ext", Len(m) + sample.l)
                   /\ S!decodeNaked(s) = S!Ok("ext", Len(s) + sample.l)
                   /\ ReadBack(sample.l) => B!decodeNaked(b) = B!Ok("ext", Len(b) + sample.l)
    <3>1. sample.l \in Nat /\ sample.l < Huge /\ sample.tag \in {0, 1, 255}
      BY <2>4, Zenon DEF Sampled
    <3>2. sample.tag \in Byte
      BY <3>1, NextTag, SMT
    <3> DEFINE x == sample.l
               tag == sample.tag
               m == M!encodeExtPreamble(tag, x)
               s == S!encodeExtPreamble(tag, LengthOf(x))
               b == B!encodeExtPreamble(tag, LengthOf(x))
    <3>3. x \in Nat /\ x < Huge /\ tag \in Byte
      BY <3>1, <3>2, Zenon
    <3> HIDE DEF x, tag
    <3>4. /\ M!decodeNaked(m, TRUE) = M!Ok("ext", Len(m) + x)
          /\ S!decodeNaked(s) = S!Ok("ext", Len(s) + x)
          /\ ReadBack(x) => B!decodeNaked(b) = B!Ok("ext", Len(b) + x)
      BY <3>3, NakedExts, Zenon
    <3> QED
      BY <3>4, Zenon DEF x, tag
  <2> HIDE DEF v
  <2> QED
    BY <2>1, <2>2, <2>3, <2>4, Zenon DEF NakedConsumesAll
<1> QED
  BY <1>1, <1>2, <1>3, SampleWord, StateSampled, PTL DEF Spec
=============================================================================
