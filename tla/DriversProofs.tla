---------------------------- MODULE DriversProofs ----------------------------
(***************************************************************************)
(* What MCDrivers checks for the integers around every boundary, for every *)
(* 64-bit word.                                                            *)
(***************************************************************************)
EXTENDS MCDrivers, SequenceTheorems, WellFoundedInduction, TLAPS

Byte == 0..255
Word == {w \in Seq(Byte) : Len(w) = 8}

-----------------------------------------------------------------------------
(* Sequences of bytes.                                                     *)

\* The four sizes of an integer.
LEMMA Sizes ==
  /\ 2 ^ 0 = 1 /\ 2 ^ 1 = 2 /\ 2 ^ 2 = 4 /\ 2 ^ 3 = 8
  /\ \A k \in 0..3 : 2 ^ k \in {1, 2, 4, 8} /\ 2 ^ k \in 1..8 /\ 2 ^ k \in Nat
<1>1. 2 ^ 0 = 1 /\ 2 ^ 1 = 2 /\ 2 ^ 2 = 4 /\ 2 ^ 3 = 8
  OBVIOUS
<1>2. ASSUME NEW k \in 0..3 PROVE 2 ^ k \in {1, 2, 4, 8}
  <2>1. k = 0 \/ k = 1 \/ k = 2 \/ k = 3
    OBVIOUS
  <2> QED
    BY <1>1, <2>1, Zenon
<1>3. \A x \in {1, 2, 4, 8} : x \in 1..8 /\ x \in Nat
  OBVIOUS
<1> QED
  BY <1>1, <1>2, <1>3, Zenon

\* The low bytes of a word.
LEMMA LowBytes ==
  ASSUME NEW w \in Word, NEW n \in 1..8
  PROVE  /\ Low(w, n) \in Seq(Byte) /\ Len(Low(w, n)) = n
         /\ \A i \in 1..n : Low(w, n)[i] = w[8 - n + i]
<1>1. w \in Seq(Byte) /\ Len(w) = 8
  BY DEF Word
<1>0. \A i \in 1..8 : w[i] \in Byte
  BY <1>1, ElementOfSeq
<1>2. 9 - n \in Int /\ 8 \in Int /\ \A i \in (9 - n)..8 : w[i] \in Byte
  <2>1. \A i \in (9 - n)..8 : i \in 1..8
    OBVIOUS
  <2> QED
    BY <1>0, <2>1
<1>3. /\ SubSeq(w, 9 - n, 8) \in Seq(Byte)
      /\ Len(SubSeq(w, 9 - n, 8)) = IF 9 - n <= 8 THEN 8 - (9 - n) + 1 ELSE 0
      /\ \A i \in 1..(8 - (9 - n) + 1) : SubSeq(w, 9 - n, 8)[i] = w[(9 - n) + i - 1]
  BY <1>2, SubSeqProperties
<1>4. 9 - n <= 8 /\ 8 - (9 - n) + 1 = n /\ \A i \in 1..n : (9 - n) + i - 1 = 8 - n + i
  OBVIOUS
<1> QED
  BY <1>3, <1>4 DEF Low

\* The bytes above them, all equal to b.
LEMMA Extended ==
  ASSUME NEW b \in Byte, NEW n \in 1..8, NEW s \in Seq(Byte), Len(s) = n
  PROVE  /\ Fill(b, 8 - n) \o s \in Word
         /\ \A i \in 1..8 : (Fill(b, 8 - n) \o s)[i] = IF i <= 8 - n THEN b ELSE s[i - (8 - n)]
<1>1. Fill(b, 8 - n) \in Seq(Byte) /\ Len(Fill(b, 8 - n)) = 8 - n
      /\ \A i \in 1..(8 - n) : Fill(b, 8 - n)[i] = b
  BY DEF Fill
<1> DEFINE f == Fill(b, 8 - n)
<1> HIDE DEF f
<1>2. f \o s \in Seq(Byte) /\ Len(f \o s) = 8
  BY <1>1 DEF f
<1>3. \A i \in 1..8 : (f \o s)[i] = IF i <= 8 - n THEN b ELSE s[i - (8 - n)]
  BY <1>1 DEF f
<1> QED
  BY <1>2, <1>3 DEF f, Word

\* A descriptor, a payload and what follows: what the decoder finds where.
LEMMA Framing ==
  ASSUME NEW bd \in Byte, NEW p \in Seq(Byte), NEW r \in Seq(Byte), NEW n \in Nat, Len(p) = n
  PROVE  /\ ((<<bd>> \o p) \o r)[1] = bd
         /\ SubSeq((<<bd>> \o p) \o r, 2, n + 1) = p
         /\ Len(<<bd>> \o p) = n + 1
<1> DEFINE e == <<bd>> \o p
           s == e \o r
<1>1. e \in Seq(Byte) /\ Len(e) = n + 1 /\ e[1] = bd /\ \A i \in 1..n : e[i + 1] = p[i]
  OBVIOUS
<1> HIDE DEF e
<1>2. s \in Seq(Byte) /\ Len(s) = n + 1 + Len(r) /\ \A i \in 1..(n + 1) : s[i] = e[i]
  BY <1>1
<1> HIDE DEF s
<1>3. SubSeq(s, 2, n + 1) \in Seq(Byte) /\ Len(SubSeq(s, 2, n + 1)) = n
      /\ \A i \in 1..n : SubSeq(s, 2, n + 1)[i] = s[i + 1]
  BY <1>1, <1>2
<1>4. SubSeq(s, 2, n + 1) = p
  BY <1>1, <1>2, <1>3
<1> QED
  BY <1>1, <1>2, <1>4 DEF e, s

-----------------------------------------------------------------------------
(* Ranges.                                                                 *)

\* Two words are equal when their bytes are.
LEMMA SameWord ==
  ASSUME NEW w \in Word, NEW u \in Word, \A i \in 1..8 : w[i] = u[i]
  PROVE  w = u
  BY SeqEqual DEF Word

\* In the range of n bytes are the words whose other bytes are zero, or repeat
\* the sign bit of the first of the n.
LEMMA Ranges ==
  ASSUME NEW w \in Word, NEW n \in 1..8
  PROVE  /\ ZeroExt(Low(w, n)) \in Word /\ SignExt(Low(w, n)) \in Word
         /\ FitsU(w, n) <=> \A i \in 1..(8 - n) : w[i] = 0
         /\ FitsS(w, n) <=> \A i \in 1..(8 - n) : w[i] = IF w[9 - n] >= 128 THEN 255 ELSE 0
<1> DEFINE l == Low(w, n)
<1>1. l \in Seq(Byte) /\ Len(l) = n /\ \A i \in 1..n : l[i] = w[8 - n + i]
  BY LowBytes
<1>2. l[1] = w[9 - n] /\ l[1] \in Byte
  BY <1>1
<1> HIDE DEF l
<1>3. ASSUME NEW b \in Byte
      PROVE  /\ Fill(b, 8 - n) \o l \in Word
             /\ Fill(b, 8 - n) \o l = w <=> \A i \in 1..(8 - n) : w[i] = b
  <2> DEFINE x == Fill(b, 8 - n) \o l
  <2>1. x \in Word /\ \A i \in 1..8 : x[i] = IF i <= 8 - n THEN b ELSE l[i - (8 - n)]
    BY <1>1, Extended
  <2> HIDE DEF x
  <2>2. \A i \in 1..(8 - n) : i \in 1..8 /\ x[i] = b
    BY <2>1
  <2>3. ASSUME NEW i \in 1..8, ~(i <= 8 - n) PROVE x[i] = w[i]
    <3>1. i - (8 - n) \in 1..n /\ 8 - n + (i - (8 - n)) = i
      BY <2>3
    <3> QED
      BY <1>1, <2>1, <2>3, <3>1
  <2>4. x = w => \A i \in 1..(8 - n) : w[i] = b
    BY <2>2
  <2>5. ASSUME \A i \in 1..(8 - n) : w[i] = b PROVE x = w
    <3>1. ASSUME NEW i \in 1..8 PROVE x[i] = w[i]
      <4>1. CASE i <= 8 - n
        BY <2>2, <2>5, <4>1
      <4> QED
        BY <2>3, <4>1
    <3> QED
      BY <2>1, <3>1, SameWord
  <2> QED
    BY <2>1, <2>4, <2>5 DEF x
<1>4. ZeroExt(l) = Fill(0, 8 - n) \o l
  BY <1>1 DEF ZeroExt
<1>5. SignExt(l) = Fill(IF w[9 - n] >= 128 THEN 255 ELSE 0, 8 - n) \o l
  BY <1>1, <1>2 DEF SignExt
<1> DEFINE b == IF w[9 - n] >= 128 THEN 255 ELSE 0
<1>6. 0 \in Byte /\ b \in Byte
  BY DEF Byte
<1>7. /\ ZeroExt(l) \in Word /\ SignExt(l) \in Word
      /\ ZeroExt(l) = w <=> \A i \in 1..(8 - n) : w[i] = 0
      /\ SignExt(l) = w <=> \A i \in 1..(8 - n) : w[i] = b
  <2> HIDE DEF b
  <2>1. SignExt(l) = Fill(b, 8 - n) \o l
    BY <1>5 DEF b
  <2> QED
    BY <1>3, <1>4, <1>6, <2>1
<1> QED
  BY <1>7 DEF FitsU, FitsS, l

\* Every word is in the range of 8 bytes.
LEMMA Whole ==
  ASSUME NEW w \in Word
  PROVE  FitsU(w, 8) /\ FitsS(w, 8)
  BY Ranges

\* The smallest of the four sizes that holds a word.
LEMMA LeastU ==
  ASSUME NEW w \in Word
  PROVE  LET k == CHOOSE k \in 0..3 : FitsU(w, 2 ^ k) /\ \A j \in 0..(k - 1) : ~FitsU(w, 2 ^ j)
         IN  k \in 0..3 /\ FitsU(w, 2 ^ k) /\ \A j \in 0..(k - 1) : ~FitsU(w, 2 ^ j)
<1> DEFINE P(k) == FitsU(w, 2 ^ k)
<1>1. P(3)
  BY Whole, Sizes
<1> HIDE DEF P
<1>2. \E k \in 0..3 : P(k) /\ \A j \in 0..(k - 1) : ~P(j)
  <2>1. CASE P(0)
    BY <2>1
  <2>2. CASE ~P(0) /\ P(1)
    BY <2>2
  <2>3. CASE ~P(0) /\ ~P(1) /\ P(2)
    BY <2>3
  <2>4. CASE ~P(0) /\ ~P(1) /\ ~P(2)
    BY <1>1, <2>4
  <2> QED
    BY <2>1, <2>2, <2>3, <2>4
<1> QED
  BY <1>2 DEF P

\* The same, for the ranges of signed integers.
LEMMA LeastS ==
  ASSUME NEW w \in Word
  PROVE  LET k == CHOOSE k \in 0..3 : FitsS(w, 2 ^ k) /\ \A j \in 0..(k - 1) : ~FitsS(w, 2 ^ j)
         IN  k \in 0..3 /\ FitsS(w, 2 ^ k)
<1> DEFINE P(k) == FitsS(w, 2 ^ k)
<1>1. P(3)
  BY Whole, Sizes
<1> HIDE DEF P
<1>2. \E k \in 0..3 : P(k) /\ \A j \in 0..(k - 1) : ~P(j)
  <2>1. CASE P(0)
    BY <2>1
  <2>2. CASE ~P(0) /\ P(1)
    BY <2>2
  <2>3. CASE ~P(0) /\ ~P(1) /\ P(2)
    BY <2>3
  <2>4. CASE ~P(0) /\ ~P(1) /\ ~P(2)
    BY <1>1, <2>4
  <2> QED
    BY <2>1, <2>2, <2>3, <2>4
<1> QED
  BY <1>2 DEF P

\* The range of one byte.
LEMMA OneByte ==
  ASSUME NEW w \in Word
  PROVE  /\ Low(w, 1) = <<w[8]>> /\ w[8] \in Byte
         /\ FitsU(w, 1) => ZeroExt(<<w[8]>>) = w
         /\ FitsS(w, 1) => SignExt(<<w[8]>>) = w
         /\ FitsU(w, 1) /\ w[8] <= 127 => FitsS(w, 1)
<1>1. Low(w, 1) \in Seq(Byte) /\ Len(Low(w, 1)) = 1 /\ Low(w, 1)[1] = w[8] /\ Low(w, 1)[1] \in Byte
  BY LowBytes
<1>2. Low(w, 1) = <<w[8]>>
  BY <1>1
<1>3. FitsU(w, 1) /\ w[8] <= 127 => FitsS(w, 1)
  <2>0. w[8] \in Byte
    BY <1>1, Zenon
  <2>1. w[8] \in Int /\ (w[8] <= 127 => ~(w[8] >= 128))
    BY <2>0 DEF Byte
  <2>2. 9 - 1 = 8
    OBVIOUS
  <2> QED
    BY <2>1, <2>2, Ranges
<1> QED
  BY <1>1, <1>2, <1>3 DEF FitsU, FitsS

-----------------------------------------------------------------------------
(* msgpack.                                                                *)

\* The drivers have the same machine integers.
LEMMA MsgpackBytes ==
  /\ \A s : M!ZeroExt(s) = ZeroExt(s) /\ M!SignExt(s) = SignExt(s)
  /\ \A w : M!Negative(w) = Negative(w)
  /\ \A w, n : M!Low(w, n) = Low(w, n) /\ M!FitsU(w, n) = FitsU(w, n) /\ M!FitsS(w, n) = FitsS(w, n)
  BY Zenon DEF M!ZeroExt, M!SignExt, M!Negative, M!Low, M!FitsU, M!FitsS, M!Fill, ZeroExt, SignExt,
               Negative, Low, FitsU, FitsS, Fill

\* The descriptors of integers.
LEMMA MsgpackDescriptors ==
  ASSUME NEW k \in 0..3
  PROVE  /\ M!mpUint8 + k \in M!Uints /\ M!mpUint8 + k \in Byte
         /\ M!mpInt8 + k \in M!Ints /\ M!mpInt8 + k \in Byte
  BY DEF M!Uints, M!Ints, M!mpUint8, M!mpInt8, Byte

\* The bytes that are numbers of their own.
LEMMA MsgpackFixnums ==
  ASSUME NEW b \in Byte
  PROVE  /\ b <= 127 => b \in M!PosFixNums
         /\ b >= 224 => b \in M!NegFixNums
  BY DEF M!PosFixNums, M!NegFixNums, M!mpPosFixNumMax, M!mpNegFixNumMin, Byte

\* No descriptor is of two kinds.
LEMMA MsgpackKinds ==
  /\ \A b \in M!Uints \cup M!PosFixNums : b \notin M!Ints
  /\ \A b \in M!NegFixNums : b \notin M!Uints \cup M!Ints \cup M!PosFixNums
  BY DEF M!Uints, M!Ints, M!PosFixNums, M!NegFixNums, M!mpUint8, M!mpInt8, M!mpPosFixNumMax,
         M!mpNegFixNumMin

\* decodeInt on a number with a payload.
LEMMA MsgpackReads ==
  ASSUME NEW k \in 0..3, NEW p \in Seq(Byte), Len(p) = 2 ^ k, NEW r \in Seq(Byte), NEW n \in Nat
  PROVE  /\ M!decodeInt((<<M!mpUint8 + k>> \o p) \o r, n) =
              IF n > 0 => FitsS(ZeroExt(p), n) THEN M!Ok(ZeroExt(p), 2 ^ k + 1) ELSE M!Err
         /\ M!decodeInt((<<M!mpInt8 + k>> \o p) \o r, n) =
              IF n > 0 => FitsS(SignExt(p), n) THEN M!Ok(SignExt(p), 2 ^ k + 1) ELSE M!Err
<1>0. 2 ^ k \in Nat
  BY Sizes
<1>1. ASSUME NEW bd \in Byte
      PROVE  ((<<bd>> \o p) \o r)[1] = bd /\ M!Payload((<<bd>> \o p) \o r, 2 ^ k) = p
  <2> DEFINE m == 2 ^ k
  <2>1. m \in Nat /\ Len(p) = m
    BY <1>0
  <2> HIDE DEF m
  <2>2. ((<<bd>> \o p) \o r)[1] = bd /\ SubSeq((<<bd>> \o p) \o r, 2, m + 1) = p
    BY <2>1, Framing
  <2> QED
    BY <2>2 DEF M!Payload, m
<1>2. /\ M!mpUint8 + k \in Byte /\ M!mpUint8 + k \in M!Uints /\ (M!mpUint8 + k) - M!mpUint8 = k
      /\ M!mpInt8 + k \in Byte /\ M!mpInt8 + k \in M!Ints /\ (M!mpInt8 + k) - M!mpInt8 = k
      /\ M!mpInt8 + k \notin M!Uints
  BY DEF M!mpUint8, M!mpInt8, M!Uints, M!Ints, Byte
<1>3. M!decodeInt((<<M!mpUint8 + k>> \o p) \o r, n) =
        IF n > 0 => FitsS(ZeroExt(p), n) THEN M!Ok(ZeroExt(p), 2 ^ k + 1) ELSE M!Err
  BY <1>1, <1>2, MsgpackBytes, Zenon DEF M!decodeInt
<1>4. M!decodeInt((<<M!mpInt8 + k>> \o p) \o r, n) =
        IF n > 0 => FitsS(SignExt(p), n) THEN M!Ok(SignExt(p), 2 ^ k + 1) ELSE M!Err
  BY <1>1, <1>2, MsgpackBytes, Zenon DEF M!decodeInt
<1> QED
  BY <1>3, <1>4

\* decodeInt on a fixnum.
LEMMA MsgpackFixnum ==
  ASSUME NEW b \in Byte, b <= 127 \/ b >= 224, NEW r \in Seq(Byte), NEW n \in Nat
  PROVE  /\ M!decodeInt(<<b>> \o r, n) =
              IF n > 0 => FitsS(SignExt(<<b>>), n) THEN M!Ok(SignExt(<<b>>), 1) ELSE M!Err
         /\ (<<b>> \o r)[1] = b
<1>1. (<<b>> \o r)[1] = b
  OBVIOUS
<1>2. b \notin M!Uints /\ b \notin M!Ints /\ b \in M!PosFixNums \cup M!NegFixNums
  BY DEF M!mpUint8, M!mpInt8, M!Uints, M!Ints, M!PosFixNums, M!NegFixNums, M!mpPosFixNumMax,
         M!mpNegFixNumMin, Byte
<1>3. 0 + 1 = 1
  OBVIOUS
<1>4. M!decodeInt(<<b>> \o r, n) =
        IF n > 0 => FitsS(SignExt(<<b>>), n) THEN M!Ok(SignExt(<<b>>), 0 + 1) ELSE M!Err
  BY <1>1, <1>2, MsgpackBytes, Zenon DEF M!decodeInt
<1> QED
  BY <1>1, <1>3, <1>4

\* The bytes of encodeUint are a fixnum or a number with a payload.
LEMMA MsgpackUint ==
  ASSUME NEW w \in Word, NEW r \in Seq(Byte), NEW n \in Nat
  PROVE  /\ M!decodeInt(M!encodeUint(w) \o r, n) =
              IF n > 0 => FitsS(w, n) THEN M!Ok(w, Len(M!encodeUint(w))) ELSE M!Err
         /\ (M!encodeUint(w) \o r)[1] \in M!Uints \cup M!PosFixNums
<1>1. CASE FitsU(w, 1) /\ w[8] <= 127
  <2>1. M!encodeUint(w) = <<w[8]>>
    BY <1>1, MsgpackBytes, Zenon DEF M!encodeUint
  <2>2. w[8] \in Byte /\ SignExt(<<w[8]>>) = w
    BY <1>1, OneByte
  <2>3. /\ M!decodeInt(<<w[8]>> \o r, n) =
             IF n > 0 => FitsS(SignExt(<<w[8]>>), n) THEN M!Ok(SignExt(<<w[8]>>), 1) ELSE M!Err
        /\ (<<w[8]>> \o r)[1] = w[8]
    BY <1>1, <2>2, MsgpackFixnum, Zenon
  <2>4. Len(<<w[8]>>) = 1
    OBVIOUS
  <2>5. w[8] \in M!PosFixNums
    BY <1>1, <2>2, MsgpackFixnums, Zenon
  <2> QED
    BY <2>1, <2>2, <2>3, <2>4, <2>5, Zenon
<1>2. CASE ~(FitsU(w, 1) /\ w[8] <= 127)
  <2> DEFINE k == CHOOSE k \in 0..3 : FitsU(w, 2 ^ k) /\ \A j \in 0..(k - 1) : ~FitsU(w, 2 ^ j)
             l == Low(w, 2 ^ k)
  <2>1. M!encodeUint(w) = <<M!mpUint8 + k>> \o l
    BY <1>2, MsgpackBytes, Zenon DEF M!encodeUint
  <2>2. k \in 0..3 /\ FitsU(w, 2 ^ k)
    BY LeastU
  <2> HIDE DEF k
  <2>s. 2 ^ k \in 1..8 /\ 2 ^ k \in Nat
    BY <2>2, Sizes, Zenon
  <2>3. l \in Seq(Byte) /\ Len(l) = 2 ^ k /\ ZeroExt(l) = w
    BY <2>2, <2>s, LowBytes, Zenon DEF FitsU
  <2> HIDE DEF l
  <2>4. M!decodeInt((<<M!mpUint8 + k>> \o l) \o r, n) =
          IF n > 0 => FitsS(ZeroExt(l), n) THEN M!Ok(ZeroExt(l), 2 ^ k + 1) ELSE M!Err
    BY <2>2, <2>3, MsgpackReads, Zenon
  <2>5. M!mpUint8 + k \in M!Uints /\ M!mpUint8 + k \in Byte /\ 2 ^ k \in Nat
    BY <2>2, <2>s, MsgpackDescriptors, Zenon
  <2>6. Len(<<M!mpUint8 + k>> \o l) = 2 ^ k + 1 /\ ((<<M!mpUint8 + k>> \o l) \o r)[1] = M!mpUint8 + k
    BY <2>3, <2>5, Framing
  <2> QED
    BY <2>1, <2>3, <2>4, <2>5, <2>6, Zenon
<1> QED
  BY <1>1, <1>2

\* So are those of encodeInt, in their signed forms if the word is negative.
LEMMA MsgpackInt ==
  ASSUME NEW w \in Word, NEW r \in Seq(Byte), NEW n \in Nat
  PROVE  /\ M!decodeInt(M!encodeInt(w) \o r, n) =
              IF n > 0 => FitsS(w, n) THEN M!Ok(w, Len(M!encodeInt(w))) ELSE M!Err
         /\ IF Negative(w) THEN (M!encodeInt(w) \o r)[1] \in M!Ints \cup M!NegFixNums
                           ELSE M!encodeInt(w) = M!encodeUint(w)
<1>1. CASE ~Negative(w)
  <2>1. M!encodeInt(w) = M!encodeUint(w)
    BY <1>1, MsgpackBytes, Zenon DEF M!encodeInt
  <2> QED
    BY <1>1, <2>1, MsgpackUint, Zenon
<1>2. CASE Negative(w) /\ FitsS(w, 1) /\ w[8] >= 224
  <2>1. M!encodeInt(w) = <<w[8]>>
    BY <1>2, MsgpackBytes, Zenon DEF M!encodeInt
  <2>2. w[8] \in Byte /\ SignExt(<<w[8]>>) = w
    BY <1>2, OneByte
  <2>3. /\ M!decodeInt(<<w[8]>> \o r, n) =
             IF n > 0 => FitsS(SignExt(<<w[8]>>), n) THEN M!Ok(SignExt(<<w[8]>>), 1) ELSE M!Err
        /\ (<<w[8]>> \o r)[1] = w[8]
    BY <1>2, <2>2, MsgpackFixnum, Zenon
  <2>4. Len(<<w[8]>>) = 1
    OBVIOUS
  <2>5. w[8] \in M!NegFixNums
    BY <1>2, <2>2, MsgpackFixnums, Zenon
  <2> QED
    BY <1>2, <2>1, <2>2, <2>3, <2>4, <2>5, Zenon
<1>3. CASE Negative(w) /\ ~(FitsS(w, 1) /\ w[8] >= 224)
  <2> DEFINE k == CHOOSE k \in 0..3 : FitsS(w, 2 ^ k) /\ \A j \in 0..(k - 1) : ~FitsS(w, 2 ^ j)
             l == Low(w, 2 ^ k)
  <2>1. M!encodeInt(w) = <<M!mpInt8 + k>> \o l
    BY <1>3, MsgpackBytes, Zenon DEF M!encodeInt
  <2>2. k \in 0..3 /\ FitsS(w, 2 ^ k)
    BY LeastS
  <2> HIDE DEF k
  <2>s. 2 ^ k \in 1..8 /\ 2 ^ k \in Nat
    BY <2>2, Sizes, Zenon
  <2>3. l \in Seq(Byte) /\ Len(l) = 2 ^ k /\ SignExt(l) = w
    BY <2>2, <2>s, LowBytes, Zenon DEF FitsS
  <2> HIDE DEF l
  <2>4. M!decodeInt((<<M!mpInt8 + k>> \o l) \o r, n) =
          IF n > 0 => FitsS(SignExt(l), n) THEN M!Ok(SignExt(l), 2 ^ k + 1) ELSE M!Err
    BY <2>2, <2>3, MsgpackReads, Zenon
  <2>5. M!mpInt8 + k \in M!Ints /\ M!mpInt8 + k \in Byte /\ 2 ^ k \in Nat
    BY <2>2, <2>s, MsgpackDescriptors, Zenon
  <2>6. Len(<<M!mpInt8 + k>> \o l) = 2 ^ k + 1 /\ ((<<M!mpInt8 + k>> \o l) \o r)[1] = M!mpInt8 + k
    BY <2>3, <2>5, Framing
  <2> QED
    BY <1>3, <2>1, <2>3, <2>4, <2>5, <2>6, Zenon
<1> QED
  BY <1>1, <1>2, <1>3

\* decodeUint is decodeInt with a check of sign and range.
LEMMA MsgpackReadsUint ==
  ASSUME NEW s, NEW n, NEW w, NEW m, M!decodeInt(s, 0) = M!Ok(w, m)
  PROVE  M!decodeUint(s, n) =
           IF /\ s[1] \in M!Uints \cup M!Ints \cup M!PosFixNums
              /\ s[1] \in M!Ints => ~Negative(w)
              /\ n > 0 => FitsU(w, n)
             THEN M!Ok(w, m) ELSE M!Err
<1>1. M!Ok(w, m).v = w
  BY DEF M!Ok
<1> QED
  BY <1>1, MsgpackBytes, Zenon DEF M!decodeUint

\* Every word survives msgpack, whatever follows it: as an integer of n bytes
\* of either sign it is read back, and exactly its bytes are consumed, if it is
\* in that range, and refused otherwise.  A word written by encodeUint is read
\* by decodeInt by its bits (encodeInt, encodeUint, decodeInt, decodeUint).
THEOREM MsgpackIntegers ==
  ASSUME NEW w \in Word, NEW r \in Seq(Byte), NEW n \in 1..8
  PROVE  /\ M!decodeInt(M!encodeInt(w) \o r, n) =
              IF FitsS(w, n) THEN M!Ok(w, Len(M!encodeInt(w))) ELSE M!Err
         /\ M!decodeInt(M!encodeUint(w) \o r, n) =
              IF FitsS(w, n) THEN M!Ok(w, Len(M!encodeUint(w))) ELSE M!Err
         /\ M!decodeUint(M!encodeUint(w) \o r, n) =
              IF FitsU(w, n) THEN M!Ok(w, Len(M!encodeUint(w))) ELSE M!Err
         /\ M!decodeUint(M!encodeInt(w) \o r, n) =
              IF ~Negative(w) /\ FitsU(w, n) THEN M!Ok(w, Len(M!encodeInt(w))) ELSE M!Err
<1>1. n \in Nat /\ n > 0 /\ 0 \in Nat /\ ~(0 > 0)
  OBVIOUS
<1>2. M!decodeInt(M!encodeInt(w) \o r, n) =
        IF FitsS(w, n) THEN M!Ok(w, Len(M!encodeInt(w))) ELSE M!Err
  BY <1>1, MsgpackInt, Zenon
<1>3. M!decodeInt(M!encodeUint(w) \o r, n) =
        IF FitsS(w, n) THEN M!Ok(w, Len(M!encodeUint(w))) ELSE M!Err
  BY <1>1, MsgpackUint, Zenon
<1>4. M!decodeInt(M!encodeInt(w) \o r, 0) = M!Ok(w, Len(M!encodeInt(w)))
  BY <1>1, MsgpackInt, Zenon
<1>5. M!decodeInt(M!encodeUint(w) \o r, 0) = M!Ok(w, Len(M!encodeUint(w)))
  BY <1>1, MsgpackUint, Zenon
<1>6. M!decodeUint(M!encodeUint(w) \o r, n) =
        IF FitsU(w, n) THEN M!Ok(w, Len(M!encodeUint(w))) ELSE M!Err
  <2> DEFINE s == M!encodeUint(w) \o r
             m == Len(M!encodeUint(w))
  <2>1. s[1] \in M!Uints \cup M!PosFixNums
    BY <1>1, MsgpackUint
  <2> HIDE DEF s, m
  <2>2. s[1] \in M!Uints \cup M!Ints \cup M!PosFixNums /\ s[1] \notin M!Ints
    BY <2>1, MsgpackKinds
  <2>3. M!decodeInt(s, 0) = M!Ok(w, m)
    BY <1>5 DEF s, m
  <2>4. M!decodeUint(s, n) = IF FitsU(w, n) THEN M!Ok(w, m) ELSE M!Err
    BY <1>1, <2>2, <2>3, MsgpackReadsUint, Zenon
  <2> QED
    BY <2>4 DEF s, m
<1>7. M!decodeUint(M!encodeInt(w) \o r, n) =
        IF ~Negative(w) /\ FitsU(w, n) THEN M!Ok(w, Len(M!encodeInt(w))) ELSE M!Err
  <2>1. CASE ~Negative(w)
    BY <1>1, <1>6, <2>1, MsgpackInt, Zenon
  <2>2. CASE Negative(w)
    <3> DEFINE s == M!encodeInt(w) \o r
               m == Len(M!encodeInt(w))
    <3>1. s[1] \in M!Ints \cup M!NegFixNums
      BY <1>1, <2>2, MsgpackInt, Zenon
    <3>2. M!decodeInt(s, 0) = M!Ok(w, m)
      BY <1>4
    <3> HIDE DEF s, m
    <3>3. s[1] \in M!Ints \/ s[1] \notin M!Uints \cup M!Ints \cup M!PosFixNums
      BY <3>1, MsgpackKinds
    <3>4. M!decodeUint(s, n) = M!Err
      BY <2>2, <3>2, <3>3, MsgpackReadsUint, Zenon
    <3> QED
      BY <2>2, <3>4 DEF s
  <2> QED
    BY <2>1, <2>2
<1> QED
  BY <1>2, <1>3, <1>6, <1>7

-----------------------------------------------------------------------------
(* Two's complement.                                                       *)

\* i is the place of the last byte that is not zero, or 0.
LastByte(w, i) == (\A j \in (i + 1)..8 : w[j] = 0) /\ (i > 0 => w[i] # 0)

\* There is one such place, the one that Negate chooses.
LEMMA LastByteUnique ==
  ASSUME NEW w, NEW i \in 0..8, LastByte(w, i)
  PROVE  i = CHOOSE x \in 0..8 : (\A j \in (x + 1)..8 : w[j] = 0) /\ (x > 0 => w[x] # 0)
<1>1. ASSUME NEW x \in 0..8, LastByte(w, x) PROVE x = i
  <2>1. CASE x < i
    <3>1. i \in (x + 1)..8 /\ i > 0
      BY <2>1
    <3> QED
      BY <1>1, <3>1 DEF LastByte
  <2>2. CASE i < x
    <3>1. x \in (i + 1)..8 /\ x > 0
      BY <2>2
    <3> QED
      BY <1>1, <3>1 DEF LastByte
  <2> QED
    BY <2>1, <2>2
<1>2. \A x \in 0..8 : LastByte(w, x) <=> x = i
  BY <1>1
<1> QED
  BY <1>2, Zenon DEF LastByte

\* There is always such a place.
LEMMA LastByteExists ==
  ASSUME NEW w
  PROVE  \E i \in 0..8 : LastByte(w, i)
<1> DEFINE Z(i) == \A j \in (i + 1)..8 : w[j] = 0
<1>1. Z(8)
  OBVIOUS
<1>2. ASSUME NEW i \in 1..8, Z(i), w[i] = 0 PROVE Z(i - 1)
  <2>1. \A j \in (i - 1 + 1)..8 : j = i \/ j \in (i + 1)..8
    OBVIOUS
  <2> QED
    BY <1>2, <2>1
<1>3. ASSUME NEW i \in 1..8, Z(i), w[i] # 0 PROVE LastByte(w, i)
  BY <1>3 DEF LastByte
<1>4. Z(0) => LastByte(w, 0)
  BY DEF LastByte
<1> HIDE DEF Z
<1>5. ASSUME \A i \in 0..8 : ~LastByte(w, i) PROVE FALSE
  <2>1. ASSUME NEW i \in 1..8, NEW k \in 0..7, k = i - 1, Z(i) PROVE Z(k)
    <3>1. w[i] = 0
      BY <1>3, <1>5, <2>1
    <3> QED
      BY <1>2, <2>1, <3>1
  <2>2. Z(7)
    <3>1. 8 \in 1..8 /\ 7 \in 0..7 /\ 7 = 8 - 1
      OBVIOUS
    <3> QED
      BY <1>1, <2>1, <3>1, Zenon
  <2>3. Z(6)
    BY <2>1, <2>2
  <2>4. Z(5)
    BY <2>1, <2>3
  <2>5. Z(4)
    BY <2>1, <2>4
  <2>6. Z(3)
    BY <2>1, <2>5
  <2>7. Z(2)
    BY <2>1, <2>6
  <2>8. Z(1)
    BY <2>1, <2>7
  <2>9. Z(0)
    BY <2>1, <2>8
  <2> QED
    BY <1>4, <1>5, <2>9
<1> QED
  BY <1>5

\* What Negate makes of the bytes before, at and after that place.
LEMMA NegateBytes ==
  ASSUME NEW w, NEW t \in 0..8, LastByte(w, t)
  PROVE  /\ Negate(w) = [i \in 1..8 |-> IF i < t THEN 255 - w[i] ELSE IF i = t THEN 256 - w[i] ELSE 0]
         /\ \A i \in 1..8 : i < t => Negate(w)[i] = 255 - w[i]
         /\ \A i \in 1..8 : i = t => Negate(w)[i] = 256 - w[i] /\ w[i] # 0
         /\ \A i \in 1..8 : i > t => Negate(w)[i] = 0 /\ w[i] = 0
<1> DEFINE c == CHOOSE x \in 0..8 : (\A j \in (x + 1)..8 : w[j] = 0) /\ (x > 0 => w[x] # 0)
<1>1. t = c
  BY LastByteUnique
<1>2. Negate(w) = [i \in 1..8 |-> IF i < c THEN 255 - w[i] ELSE IF i = c THEN 256 - w[i] ELSE 0]
  BY Zenon DEF Negate
<1> HIDE DEF c
<1>3. Negate(w) = [i \in 1..8 |-> IF i < t THEN 255 - w[i] ELSE IF i = t THEN 256 - w[i] ELSE 0]
  BY <1>1, <1>2
<1> QED
  BY <1>3 DEF LastByte

\* Negate is its own inverse; the magnitude of a negative number is at most 2^63.
LEMMA NegateTwice ==
  ASSUME NEW w \in Word
  PROVE  /\ Negate(w) \in Word /\ Negate(Negate(w)) = w
         /\ Negative(w) => Negate(w)[1] <= 128
<1>1. PICK t \in 0..8 : LastByte(w, t)
  BY LastByteExists
<1> DEFINE u == Negate(w)
<1>2. /\ u = [i \in 1..8 |-> IF i < t THEN 255 - w[i] ELSE IF i = t THEN 256 - w[i] ELSE 0]
      /\ \A i \in 1..8 : i < t => u[i] = 255 - w[i]
      /\ \A i \in 1..8 : i = t => u[i] = 256 - w[i] /\ w[i] # 0
      /\ \A i \in 1..8 : i > t => u[i] = 0 /\ w[i] = 0
  BY <1>1, NegateBytes
<1> HIDE DEF u
<1>3. \A i \in 1..8 : w[i] \in 0..255
  BY ElementOfSeq DEF Word, Byte
<1>4. ASSUME NEW i \in 1..8
      PROVE  /\ u[i] \in 0..255
             /\ i < t => 255 - u[i] = w[i]
             /\ i = t => 256 - u[i] = w[i] /\ u[i] # 0
  <2>1. PICK a \in 0..255 : a = w[i]
    BY <1>3
  <2>2. CASE i < t
    BY <1>2, <2>1, <2>2
  <2>3. CASE i = t
    <3>1. a # 0 /\ u[i] = 256 - a
      BY <1>2, <2>1, <2>3
    <3> QED
      BY <2>1, <2>3, <3>1
  <2>4. CASE i > t
    BY <1>2, <2>4
  <2> QED
    BY <2>2, <2>3, <2>4
<1>5. u \in Word
  <2>1. u = [i \in 1..8 |-> u[i]]
    BY <1>2
  <2>2. u \in Seq(0..255) /\ Len(u) = 8
    BY <1>4, <2>1
  <2> QED
    BY <2>2 DEF Word, Byte
<1>6. LastByte(u, t)
  BY <1>2, <1>4 DEF LastByte
<1> DEFINE x == Negate(u)
<1>7. /\ x = [i \in 1..8 |-> IF i < t THEN 255 - u[i] ELSE IF i = t THEN 256 - u[i] ELSE 0]
      /\ \A i \in 1..8 : i < t => x[i] = 255 - u[i]
      /\ \A i \in 1..8 : i = t => x[i] = 256 - u[i]
      /\ \A i \in 1..8 : i > t => x[i] = 0
  BY <1>6, NegateBytes
<1> HIDE DEF x
<1>8. ASSUME NEW i \in 1..8 PROVE x[i] = w[i]
  BY <1>2, <1>4, <1>7
<1>9. x = w
  <2>1. x = [i \in 1..8 |-> x[i]]
    BY <1>7
  <2>2. x \in Seq(0..255) /\ Len(x) = 8
    BY <1>3, <1>8, <2>1
  <2> QED
    BY <1>8, <2>2, SameWord DEF Word, Byte
<1>10. ASSUME Negative(w) PROVE u[1] <= 128
  <2>1. PICK a \in 0..255 : a = w[1] /\ a >= 128
    BY <1>3, <1>10 DEF Negative
  <2>2. u[1] = 255 - a \/ u[1] = 256 - a \/ u[1] = 0
    BY <1>2, <2>1
  <2> QED
    BY <2>1, <2>2
<1> QED
  BY <1>5, <1>9, <1>10 DEF u, x

-----------------------------------------------------------------------------
(* simple.                                                                 *)

\* simple has the same machine integers.
LEMMA SimpleBytes ==
  /\ \A s : S!ZeroExt(s) = ZeroExt(s) /\ S!Negate(s) = Negate(s)
  /\ \A w : S!Negative(w) = Negative(w)
  /\ \A w, n : S!Low(w, n) = Low(w, n) /\ S!FitsU(w, n) = FitsU(w, n) /\ S!FitsS(w, n) = FitsS(w, n)
  BY Zenon DEF S!ZeroExt, S!SignExt, S!Negative, S!Low, S!FitsU, S!FitsS, S!Fill, S!Negate, ZeroExt,
               SignExt, Negative, Low, FitsU, FitsS, Fill, Negate

\* The descriptors of integers in simple.
LEMMA SimpleDescriptors ==
  ASSUME NEW k \in 0..3
  PROVE  /\ S!VdPosInt + k \in S!PosInts /\ S!VdPosInt + k \in Byte /\ (S!VdPosInt + k) % 4 = k
         /\ S!VdNegInt + k \in S!NegInts /\ S!VdNegInt + k \in Byte /\ (S!VdNegInt + k) % 4 = k
         /\ S!VdNegInt + k \notin S!PosInts /\ S!VdPosInt + k \notin S!NegInts
  BY DEF S!PosInts, S!NegInts, S!VdPosInt, S!VdNegInt, Byte

\* decIntAny reads what encUint wrote, under either descriptor.
LEMMA SimpleReads ==
  ASSUME NEW w \in Word, NEW r \in Seq(Byte)
  PROVE  LET p == S!encUint(w, S!VdPosInt)
             q == S!encUint(w, S!VdNegInt)
         IN  /\ S!decIntAny(p \o r) = S!Ok(w, Len(p)) /\ (p \o r)[1] \notin S!NegInts
             /\ S!decIntAny(q \o r) = S!Ok(Negate(w), Len(q)) /\ (q \o r)[1] \in S!NegInts
<1> DEFINE k == CHOOSE k \in 0..3 : FitsU(w, 2 ^ k) /\ \A j \in 0..(k - 1) : ~FitsU(w, 2 ^ j)
           l == Low(w, 2 ^ k)
           m == 2 ^ k
<1>1. /\ S!encUint(w, S!VdPosInt) = <<S!VdPosInt + k>> \o l
      /\ S!encUint(w, S!VdNegInt) = <<S!VdNegInt + k>> \o l
  BY SimpleBytes, Zenon DEF S!encUint
<1>2. k \in 0..3 /\ FitsU(w, 2 ^ k)
  BY LeastU
<1> HIDE DEF k
<1>3. m \in 1..8 /\ m \in Nat
  BY <1>2, Sizes, Zenon
<1>4. l \in Seq(Byte) /\ Len(l) = m /\ ZeroExt(l) = w
  BY <1>2, <1>3, LowBytes, Zenon DEF FitsU
<1> HIDE DEF l, m
<1>5. ASSUME NEW bd \in Byte
      PROVE  /\ ((<<bd>> \o l) \o r)[1] = bd /\ S!Payload((<<bd>> \o l) \o r, m) = l
             /\ Len(<<bd>> \o l) = m + 1
  BY <1>3, <1>4, Framing DEF S!Payload
<1> DEFINE p == <<S!VdPosInt + k>> \o l
           q == <<S!VdNegInt + k>> \o l
<1>6. /\ (p \o r)[1] = S!VdPosInt + k /\ S!Payload(p \o r, m) = l /\ Len(p) = m + 1
      /\ (q \o r)[1] = S!VdNegInt + k /\ S!Payload(q \o r, m) = l /\ Len(q) = m + 1
  BY <1>2, <1>5, SimpleDescriptors, Zenon
<1> HIDE DEF p, q
<1>7. /\ (p \o r)[1] \in S!PosInts /\ (p \o r)[1] \notin S!NegInts /\ 2 ^ ((p \o r)[1] % 4) = m
      /\ (q \o r)[1] \notin S!PosInts /\ (q \o r)[1] \in S!NegInts /\ 2 ^ ((q \o r)[1] % 4) = m
  BY <1>2, <1>6, SimpleDescriptors, Zenon DEF m
<1>8. S!decIntAny(p \o r) = S!Ok(w, Len(p))
  BY <1>4, <1>6, <1>7, SimpleBytes, Zenon DEF S!decIntAny
<1>9. S!decIntAny(q \o r) = S!Ok(Negate(w), Len(q))
  BY <1>4, <1>6, <1>7, SimpleBytes, Zenon DEF S!decIntAny
<1> QED
  BY <1>1, <1>7, <1>8, <1>9 DEF p, q

\* decodeInt and decodeUint are decIntAny with checks of sign and range.
LEMMA SimpleChecks ==
  ASSUME NEW s, NEW n, NEW w, NEW m, S!decIntAny(s) = S!Ok(w, m), n > 0
  PROVE  /\ S!decodeInt(s, n) = IF FitsS(w, n) THEN S!Ok(w, m) ELSE S!Err
         /\ S!decodeUint(s, n) = IF s[1] \notin S!NegInts /\ FitsU(w, n) THEN S!Ok(w, m) ELSE S!Err
<1>1. S!Ok(w, m).v = w /\ S!Ok(w, m).ok
  BY DEF S!Ok
<1> QED
  BY <1>1, SimpleBytes, Zenon DEF S!decodeInt, S!decodeUint

\* Every word survives simple, as it does msgpack; a negative one as its
\* magnitude (encodeInt, encodeUint, decodeInt, decodeUint, decIntAny).
THEOREM SimpleIntegers ==
  ASSUME NEW w \in Word, NEW r \in Seq(Byte), NEW n \in 1..8
  PROVE  /\ S!decodeInt(S!encodeInt(w) \o r, n) =
              IF FitsS(w, n) THEN S!Ok(w, Len(S!encodeInt(w))) ELSE S!Err
         /\ S!decodeInt(S!encodeUint(w) \o r, n) =
              IF FitsS(w, n) THEN S!Ok(w, Len(S!encodeUint(w))) ELSE S!Err
         /\ S!decodeUint(S!encodeUint(w) \o r, n) =
              IF FitsU(w, n) THEN S!Ok(w, Len(S!encodeUint(w))) ELSE S!Err
         /\ S!decodeUint(S!encodeInt(w) \o r, n) =
              IF ~Negative(w) /\ FitsU(w, n) THEN S!Ok(w, Len(S!encodeInt(w))) ELSE S!Err
<1>1. n > 0
  OBVIOUS
<1> DEFINE e == S!encodeUint(w)
           f == S!encodeInt(w)
<1>2. S!decIntAny(e \o r) = S!Ok(w, Len(e)) /\ (e \o r)[1] \notin S!NegInts
  BY SimpleReads DEF S!encodeUint
<1>3. S!decIntAny(f \o r) = S!Ok(w, Len(f)) /\ ((f \o r)[1] \in S!NegInts <=> Negative(w))
  <2>1. CASE Negative(w)
    <3>1. f = S!encUint(Negate(w), S!VdNegInt)
      BY <2>1, SimpleBytes, Zenon DEF S!encodeInt
    <3>2. Negate(w) \in Word /\ Negate(Negate(w)) = w
      BY NegateTwice
    <3> QED
      BY <2>1, <3>1, <3>2, SimpleReads
  <2>2. CASE ~Negative(w)
    <3>1. f = S!encUint(w, S!VdPosInt)
      BY <2>2, SimpleBytes, Zenon DEF S!encodeInt
    <3> QED
      BY <2>2, <3>1, SimpleReads
  <2> QED
    BY <2>1, <2>2
<1> HIDE DEF e, f
<1>4. /\ S!decodeInt(e \o r, n) = IF FitsS(w, n) THEN S!Ok(w, Len(e)) ELSE S!Err
      /\ S!decodeUint(e \o r, n) = IF FitsU(w, n) THEN S!Ok(w, Len(e)) ELSE S!Err
  BY <1>1, <1>2, SimpleChecks, Zenon
<1>5. /\ S!decodeInt(f \o r, n) = IF FitsS(w, n) THEN S!Ok(w, Len(f)) ELSE S!Err
      /\ S!decodeUint(f \o r, n) = IF ~Negative(w) /\ FitsU(w, n) THEN S!Ok(w, Len(f)) ELSE S!Err
  BY <1>1, <1>3, SimpleChecks, Zenon
<1> QED
  BY <1>4, <1>5 DEF e, f

-----------------------------------------------------------------------------
(* binc.                                                                   *)

\* binc has the same machine integers.
LEMMA BincBytes ==
  /\ \A s : B!ZeroExt(s) = ZeroExt(s) /\ B!Negate(s) = Negate(s)
  /\ \A w : B!Negative(w) = Negative(w)
  /\ \A w, n : /\ B!Low(w, n) = Low(w, n) /\ B!FitsU(w, n) = FitsU(w, n) /\ B!FitsS(w, n) = FitsS(w, n)
               /\ B!Fill(w, n) = Fill(w, n)
  BY Zenon DEF B!ZeroExt, B!SignExt, B!Negative, B!Low, B!FitsU, B!FitsS, B!Fill, B!Negate, ZeroExt,
               SignExt, Negative, Low, FitsU, FitsS, Fill, Negate

\* The low bytes of the low bytes.
LEMMA LowOfLow ==
  ASSUME NEW w \in Word, NEW n \in 1..8, NEW i \in 0..(n - 1)
  PROVE  SubSeq(Low(w, n), i + 1, n) = Low(w, n - i)
<1> DEFINE l == Low(w, n)
           h == Low(w, n - i)
<1>1. l \in Seq(Byte) /\ Len(l) = n /\ \A j \in 1..n : l[j] = w[8 - n + j] /\ l[j] \in Byte
  BY LowBytes, ElementOfSeq
<1>2. n - i \in 1..8
  OBVIOUS
<1>3. h \in Seq(Byte) /\ Len(h) = n - i /\ \A j \in 1..(n - i) : h[j] = w[8 - (n - i) + j]
  BY <1>2, LowBytes
<1> HIDE DEF l, h
<1>4. i + 1 \in Int /\ n \in Int /\ \A j \in (i + 1)..n : l[j] \in Byte
  <2>1. \A j \in (i + 1)..n : j \in 1..n
    OBVIOUS
  <2> QED
    BY <1>1, <2>1
<1> DEFINE q == SubSeq(l, i + 1, n)
<1>5. /\ q \in Seq(Byte) /\ Len(q) = (IF i + 1 <= n THEN n - (i + 1) + 1 ELSE 0)
      /\ \A j \in 1..(n - (i + 1) + 1) : q[j] = l[(i + 1) + j - 1]
  BY <1>4, SubSeqProperties
<1> HIDE DEF q
<1>6. i + 1 <= n /\ n - (i + 1) + 1 = n - i
  OBVIOUS
<1>7. ASSUME NEW j \in 1..(n - i) PROVE q[j] = h[j]
  <2>1. i + j \in 1..n /\ (i + 1) + j - 1 = i + j /\ 8 - n + (i + j) = 8 - (n - i) + j
    OBVIOUS
  <2>2. q[j] = l[i + j]
    BY <1>5, <1>6, <2>1
  <2> QED
    BY <1>1, <1>3, <2>1, <2>2
<1>8. Len(q) = Len(h) /\ Len(q) = n - i
  BY <1>3, <1>5, <1>6
<1> QED
  BY <1>3, <1>5, <1>7, <1>8, SeqEqual DEF q, l, h

\* A set of natural numbers has a least element.
LEMMA LeastNat ==
  ASSUME NEW T, T \subseteq Nat, T # {}
  PROVE  \E x \in T : \A y \in T : x <= y
<1> DEFINE R == OpToRel(<, Nat)
<1>1. \A x, y \in Nat : y < x => <<y, x>> \in R
  BY DEF OpToRel
<1> HIDE DEF R
<1>2. \E x \in T : \A y \in T : ~(<<y, x>> \in R)
  BY NatLessThanWellFounded, WFMin DEF R
<1>3. PICK x \in T : \A y \in T : ~(<<y, x>> \in R)
  BY <1>2
<1>4. \A y \in T : ~(y < x)
  BY <1>1, <1>3
<1> QED
  BY <1>4

\* The byte that pruneSignExt takes for a sign extension.
Ext(pos) == IF pos THEN 0 ELSE 255

\* pruneSignExt drops bytes that are all equal to Ext, and none if the first
\* one is not or the one after it has the other sign; the first byte it keeps
\* has the sign of those it drops.
LEMMA Prunes ==
  ASSUME NEW s \in Seq(Byte), NEW n \in {4, 8}, Len(s) = n, NEW pos \in BOOLEAN
  PROVE  /\ B!pruneSignExt(s, pos) \in 0..(n - 1)
         /\ \A j \in 1..B!pruneSignExt(s, pos) : s[j] = Ext(pos)
         /\ B!pruneSignExt(s, pos) = 0 <=> ~(s[1] = Ext(pos) /\ (pos <=> s[2] < 128))
         /\ B!pruneSignExt(s, pos) > 0 => (pos <=> s[B!pruneSignExt(s, pos) + 1] < 128)
<1> DEFINE ext == IF pos THEN 0 ELSE 255
           Stop(x) == ~(s[x + 1] = ext /\ x + 1 < Len(s) /\ (pos <=> s[x + 2] < 128))
           First(x) == Stop(x) /\ \A m \in 0..(x - 1) : ~Stop(m)
           i == CHOOSE x \in 0..(Len(s) - 1) : First(x)
<1>1. B!pruneSignExt(s, pos) = i
  BY Zenon DEF B!pruneSignExt
<1>2. \E x \in 0..(Len(s) - 1) : First(x)
  <2> DEFINE T == {x \in 0..(n - 1) : Stop(x)}
  <2>1. n - 1 \in T
    OBVIOUS
  <2>2. \E x \in T : \A y \in T : x <= y
    <3> HIDE DEF Stop
    <3>1. T \subseteq Nat /\ T # {}
      BY <2>1
    <3> QED
      BY <3>1, LeastNat
  <2>3. PICK x \in T : \A y \in T : x <= y
    BY <2>2
  <2>4. \A m \in 0..(x - 1) : m \in 0..(n - 1) /\ ~(x <= m)
    BY <2>3
  <2> HIDE DEF Stop
  <2> QED
    BY <2>3, <2>4
<1>3. i \in 0..(Len(s) - 1) /\ First(i)
  BY <1>2, Zenon
<1> HIDE DEF i
<1>4. \A j \in 1..i : s[j] = ext
  <2> TAKE j \in 1..i
  <2>1. j - 1 \in 0..(i - 1) /\ (j - 1) + 1 = j
    BY <1>3
  <2>2. ~Stop(j - 1)
    <3> HIDE DEF Stop
    <3> QED
      BY <1>3, <2>1
  <2>3. s[(j - 1) + 1] = ext
    BY <2>2, Zenon
  <2> QED
    BY <2>1, <2>3
<1>5. i = 0 <=> Stop(0)
  <2> HIDE DEF Stop
  <2> QED
    BY <1>3
<1>6. Stop(0) <=> ~(s[1] = ext /\ (pos <=> s[2] < 128))
  OBVIOUS
<1>7. i > 0 => (pos <=> s[i + 1] < 128)
  <2> HAVE i > 0
  <2>1. i - 1 \in 0..(i - 1) /\ (i - 1) + 2 = i + 1
    BY <1>3
  <2>2. ~Stop(i - 1)
    <3> HIDE DEF Stop
    <3> QED
      BY <1>3, <2>1
  <2>3. pos <=> s[(i - 1) + 2] < 128
    BY <2>2, Zenon
  <2> QED
    BY <2>1, <2>3
<1> QED
  BY <1>1, <1>3, <1>4, <1>5, <1>6, <1>7 DEF Ext

\* encUint writes the m low bytes of a word, and they hold it, except for the
\* magnitudes that pruning misreads.
Written(bd, pos, w, m) ==
  /\ B!encUint(bd, pos, w) = <<bd + m - 1>> \o Low(w, m)
  /\ pos => FitsU(w, m)
  /\ ~pos /\ w[1] <= 128 => (FitsU(w, m) <=> ~(FitsU(w, 4) /\ w[5] = 255 /\ w[6] >= 128))

\* Whatever encUint prunes, this is what it does with a word that has no
\* descriptor of its own.
LEMMA BincWrites ==
  ASSUME NEW w \in Word, NEW bd \in {16, 32}, NEW pos \in BOOLEAN, w # B!Zero,
         ~(pos /\ FitsU(w, 1) /\ w[8] <= 16)
  PROVE  \E m \in 1..8 : Written(bd, pos, w, m)
<1> DEFINE E == B!encUint(bd, pos, w)
           Bad == FitsU(w, 4) /\ w[5] = 255 /\ w[6] >= 128
<1>w. /\ \A n \in 1..8 : FitsU(w, n) <=> \A i \in 1..(8 - n) : w[i] = 0
      /\ \A i \in 1..8 : w[i] \in Byte
  BY Ranges, ElementOfSeq DEF Word
<1>1. CASE FitsU(w, 1)
  <2>1. E = <<bd, w[8]>>
    BY <1>1, BincBytes, Zenon DEF B!encUint
  <2>2. bd + 1 - 1 = bd /\ <<bd, w[8]>> = <<bd>> \o <<w[8]>>
    OBVIOUS
  <2>3. E = <<bd + 1 - 1>> \o Low(w, 1)
    BY <2>1, <2>2, OneByte, Zenon
  <2>4. w[5] = 0
    BY <1>1, <1>w
  <2> QED
    BY <1>1, <2>3, <2>4 DEF Written
<1>2. CASE ~FitsU(w, 1) /\ FitsU(w, 2)
  <2>1. E = <<bd + 1>> \o Low(w, 2)
    BY <1>2, BincBytes, Zenon DEF B!encUint
  <2>2. bd + 2 - 1 = bd + 1
    OBVIOUS
  <2>3. w[5] = 0
    BY <1>2, <1>w
  <2> QED
    BY <1>2, <2>1, <2>2, <2>3 DEF Written
<1>3. CASE ~FitsU(w, 1) /\ ~FitsU(w, 2)
  <2> DEFINE n == IF FitsU(w, 4) THEN 4 ELSE 8
             s == Low(w, n)
             i == B!pruneSignExt(s, pos)
             m == n - i
  <2>1. E = B!encIntegerPrune(bd, pos, s)
    BY <1>3, BincBytes, Zenon DEF B!encUint
  <2>2. n \in {4, 8} /\ n \in 1..8 /\ FitsU(w, n) /\ (n = 4 <=> FitsU(w, 4))
    BY Whole
  <2> HIDE DEF n
  <2>3. s \in Seq(Byte) /\ Len(s) = n /\ \A j \in 1..n : s[j] = w[8 - n + j]
    BY <2>2, LowBytes
  <2> HIDE DEF s
  <2>4. /\ i \in 0..(n - 1) /\ \A j \in 1..i : s[j] = Ext(pos)
        /\ i = 0 <=> ~(s[1] = Ext(pos) /\ (pos <=> s[2] < 128))
    <3>1. s \in Seq(Byte) /\ n \in {4, 8} /\ Len(s) = n
      BY <2>2, <2>3
    <3> QED
      BY <3>1, Prunes, Zenon
  <2>5. E = <<bd + Len(s) - 1 - i>> \o SubSeq(s, i + 1, Len(s))
    BY <2>1, Zenon DEF B!encIntegerPrune
  <2> HIDE DEF i
  <2>6. SubSeq(s, i + 1, n) = Low(w, n - i)
    BY <2>2, <2>4, LowOfLow DEF s
  <2>7. m \in 1..8 /\ bd + n - 1 - i = bd + m - 1
    BY <2>2, <2>4
  <2>8. E = <<bd + m - 1>> \o Low(w, m)
    BY <2>3, <2>5, <2>6, <2>7
  <2>9. \A j \in 1..(8 - n) : w[j] = 0
    BY <2>2, <1>w
  <2>10. ASSUME pos PROVE FitsU(w, m)
    <3>1. ASSUME NEW j \in 1..(8 - m) PROVE w[j] = 0
      <4>1. CASE j <= 8 - n
        BY <2>2, <2>9, <4>1
      <4>2. CASE ~(j <= 8 - n)
        <5>1. j - (8 - n) \in 1..i /\ j - (8 - n) \in 1..n /\ 8 - n + (j - (8 - n)) = j
          BY <2>2, <2>4, <4>2
        <5>2. s[j - (8 - n)] = 0
          BY <2>4, <2>10, <5>1 DEF Ext
        <5> QED
          BY <2>3, <5>1, <5>2
      <4> QED
        BY <4>1, <4>2
    <3> QED
      BY <1>w, <2>7, <3>1
  <2>11. ASSUME ~pos, w[1] <= 128 PROVE FitsU(w, m) <=> ~Bad
    <3>1. CASE n = 8
      <4>1. s[1] = w[1]
        BY <2>3, <3>1
      <4>2. s[1] # 255
        BY <1>w, <2>11, <4>1 DEF Byte
      <4>3. i = 0 /\ m = 8
        BY <2>4, <2>11, <3>1, <4>2 DEF Ext
      <4> QED
        BY <2>2, <3>1, <4>3
    <3>2. CASE n = 4
      <4>1. s[1] = w[5] /\ s[2] = w[6]
        BY <2>3, <3>2
      <4>2. i = 0 <=> ~Bad
        <5>1. w[6] < 128 <=> ~(w[6] >= 128)
          BY <1>w DEF Byte
        <5> QED
          BY <2>2, <2>4, <2>11, <3>2, <4>1, <5>1 DEF Ext
      <4>3. CASE i = 0
        <5>1. m = 4
          BY <3>2, <4>3
        <5> QED
          BY <2>2, <3>2, <4>2, <4>3, <5>1
      <4>4. CASE i # 0
        <5>1. w[5] = 255 /\ 5 \in 1..(8 - m)
          BY <2>4, <3>2, <4>2, <4>4
        <5>2. ~FitsU(w, m)
          BY <1>w, <2>7, <5>1
        <5> QED
          BY <4>2, <4>4, <5>2
      <4> QED
        BY <4>3, <4>4
    <3> QED
      BY <2>2, <3>1, <3>2
  <2> HIDE DEF m, E
  <2>12. /\ m \in 1..8 /\ E = <<bd + m - 1>> \o Low(w, m)
         /\ pos => FitsU(w, m)
         /\ ~pos /\ w[1] <= 128 => (FitsU(w, m) <=> ~Bad)
    BY <2>7, <2>8, <2>10, <2>11
  <2> QED
    BY <2>12 DEF E, Written
<1> QED
  BY <1>1, <1>2, <1>3

\* decIntAny reads a number with a payload of m bytes.
LEMMA BincReads ==
  ASSUME NEW bd \in {16, 32}, NEW m \in 1..8, NEW p \in Seq(Byte), Len(p) = m, NEW r \in Seq(Byte)
  PROVE  /\ B!decIntAny((<<bd + m - 1>> \o p) \o r) =
              B!Ok(IF bd = 16 THEN ZeroExt(p) ELSE Negate(ZeroExt(p)), Len(<<bd + m - 1>> \o p))
         /\ ((<<bd + m - 1>> \o p) \o r)[1] = bd + m - 1
         /\ B!vd(bd + m - 1) = bd /\ bd + m - 1 > 8
<1> DEFINE d == bd + m - 1
           e == <<d>> \o p
           s == e \o r
<1>1. d \in Byte /\ d % 16 = m - 1 /\ m \in Nat /\ d > 8
  <2>1. \A x \in 1..8 : (16 + x - 1) % 16 = x - 1 /\ (32 + x - 1) % 16 = x - 1
    OBVIOUS
  <2>2. \A x \in 1..8 : 16 + x - 1 \in Byte /\ 32 + x - 1 \in Byte /\ 16 + x - 1 > 8 /\ 32 + x - 1 > 8
    BY DEF Byte
  <2>3. m \in Nat
    OBVIOUS
  <2>4. bd = 16 \/ bd = 32
    OBVIOUS
  <2> QED
    BY <2>1, <2>2, <2>3, <2>4, Zenon
<1>2. B!vd(d) = bd /\ B!vs(d) = m - 1
  BY <1>1 DEF B!vd, B!vs
<1> HIDE DEF d
<1>3. s[1] = d /\ SubSeq(s, 2, m + 1) = p /\ Len(e) = m + 1
  BY <1>1, Framing
<1> HIDE DEF e, s
<1>4. m - 1 <= 7 /\ (m - 1) + 1 = m /\ (m - 1) + 2 = m + 1
  OBVIOUS
<1>5. B!decUint(s) = B!Ok(ZeroExt(p), m + 1)
  <2>1. B!decUint(s) = B!Ok(ZeroExt(B!Payload(s, (m - 1) + 1)), (m - 1) + 2)
    BY <1>2, <1>3, <1>4, BincBytes, Zenon DEF B!decUint
  <2>2. B!Payload(s, m) = p
    BY <1>3 DEF B!Payload
  <2> QED
    BY <1>4, <2>1, <2>2
<1>6. /\ B!Ok(ZeroExt(p), m + 1).ok /\ B!Ok(ZeroExt(p), m + 1).v = ZeroExt(p)
      /\ B!Ok(ZeroExt(p), m + 1).n = m + 1
  BY DEF B!Ok
<1>7. 16 = B!VdPosInt /\ 32 = B!VdNegInt /\ 16 # 32
  BY DEF B!VdPosInt, B!VdNegInt
<1>8. CASE bd = 16
  <2>1. B!decIntAny(s) = B!decUint(s)
    BY <1>2, <1>3, <1>7, <1>8, Zenon DEF B!decIntAny
  <2> QED
    BY <1>1, <1>2, <1>3, <1>5, <1>8, <2>1 DEF d, e, s
<1>9. CASE bd = 32
  <2>1. B!decIntAny(s) = B!Ok(Negate(ZeroExt(p)), m + 1)
    BY <1>2, <1>3, <1>5, <1>6, <1>7, <1>9, BincBytes, Zenon DEF B!decIntAny
  <2> QED
    BY <1>1, <1>2, <1>3, <1>7, <1>9, <2>1 DEF d, e, s
<1> QED
  BY <1>8, <1>9

\* The word 0.
LEMMA BincZero ==
  /\ B!Zero \in Word /\ \A i \in 1..8 : B!Zero[i] = 0
  /\ \A w \in Word : w = B!Zero <=> \A i \in 1..8 : w[i] = 0
<1>1. \A i \in 1..8 : B!Zero[i] = 0
  BY DEF B!Zero, B!Fill
<1>2. B!Zero \in Word
  BY DEF B!Zero, B!Fill, Word, Byte
<1>3. \A w \in Word : (\A i \in 1..8 : w[i] = 0) => w = B!Zero
  BY <1>1, <1>2, SameWord
<1> QED
  BY <1>1, <1>2, <1>3

\* What decIntAny reads of a descriptor that holds a number of its own.
LEMMA BincSpecial ==
  ASSUME NEW r \in Seq(Byte)
  PROVE  /\ B!decIntAny(<<7>> \o r) = B!Ok(B!Zero, 1) /\ (<<7>> \o r)[1] = 7
         /\ B!decIntAny(<<8>> \o r) = B!Ok(Fill(255, 8), 1) /\ (<<8>> \o r)[1] = 8
         /\ B!vd(7) = 0 /\ B!vd(8) = 0
         /\ \A b \in 1..16 : /\ B!decIntAny(<<144 + b - 1>> \o r) = B!Ok(ZeroExt(<<b>>), 1)
                             /\ (<<144 + b - 1>> \o r)[1] = 144 + b - 1
                             /\ B!vd(144 + b - 1) = 144
<1>1. \A x : (<<x>> \o r)[1] = x
  OBVIOUS
<1>2. B!vd(7) = 0 /\ B!vd(8) = 0
  BY DEF B!vd
<1>3. \A b \in 1..16 : (144 + b - 1) % 16 = b - 1 /\ B!vd(144 + b - 1) = 144 /\ (b - 1) + 1 = b
  BY DEF B!vd
<1>4. /\ B!VdPosInt = 16 /\ B!VdNegInt = 32 /\ B!VdSmallInt = 144 /\ B!VdSpecial + B!SpZero = 7
      /\ B!VdSpecial + B!SpNegOne = 8 /\ 0 # 16 /\ 0 # 32 /\ 0 # 144 /\ 144 # 16 /\ 144 # 32 /\ 7 # 8
  BY DEF B!VdPosInt, B!VdNegInt, B!VdSmallInt, B!VdSpecial, B!SpZero, B!SpNegOne
<1>5. ASSUME NEW s, s[1] = 7 PROVE B!decIntAny(s) = B!Ok(B!Zero, 1)
  <2>1. /\ B!vd(s[1]) # B!VdPosInt /\ B!vd(s[1]) # B!VdNegInt /\ B!vd(s[1]) # B!VdSmallInt
        /\ s[1] = B!VdSpecial + B!SpZero
    BY <1>2, <1>4, <1>5
  <2> QED
    BY <2>1, Zenon DEF B!decIntAny
<1>6. ASSUME NEW s, s[1] = 8 PROVE B!decIntAny(s) = B!Ok(Fill(255, 8), 1)
  <2>1. /\ B!vd(s[1]) # B!VdPosInt /\ B!vd(s[1]) # B!VdNegInt /\ B!vd(s[1]) # B!VdSmallInt
        /\ s[1] # B!VdSpecial + B!SpZero /\ s[1] = B!VdSpecial + B!SpNegOne
    BY <1>2, <1>4, <1>6
  <2> QED
    BY <2>1, BincBytes, Zenon DEF B!decIntAny
<1>7. ASSUME NEW b \in 1..16
      PROVE  /\ B!decIntAny(<<144 + b - 1>> \o r) = B!Ok(ZeroExt(<<b>>), 1)
             /\ (<<144 + b - 1>> \o r)[1] = 144 + b - 1 /\ B!vd(144 + b - 1) = 144
  <2> DEFINE d == 144 + b - 1
             s == <<d>> \o r
  <2>1. s[1] = d /\ B!vd(d) = 144 /\ B!vs(d) + 1 = b
    BY <1>1, <1>3 DEF B!vs
  <2> HIDE DEF d, s
  <2>2. B!decIntAny(s) = B!Ok(ZeroExt(<<b>>), 1)
    BY <1>4, <2>1, BincBytes, Zenon DEF B!decIntAny
  <2> QED
    BY <2>1, <2>2 DEF s, d
<1>8. B!decIntAny(<<7>> \o r) = B!Ok(B!Zero, 1) /\ (<<7>> \o r)[1] = 7
  <2> DEFINE s == <<7>> \o r
  <2>1. s[1] = 7
    BY <1>1
  <2> HIDE DEF s
  <2>2. B!decIntAny(s) = B!Ok(B!Zero, 1)
    BY <1>5, <2>1
  <2> QED
    BY <2>1, <2>2 DEF s
<1>9. B!decIntAny(<<8>> \o r) = B!Ok(Fill(255, 8), 1) /\ (<<8>> \o r)[1] = 8
  <2> DEFINE s == <<8>> \o r
  <2>1. s[1] = 8
    BY <1>1
  <2> HIDE DEF s
  <2>2. B!decIntAny(s) = B!Ok(Fill(255, 8), 1)
    BY <1>6, <2>1
  <2> QED
    BY <2>1, <2>2 DEF s
<1> QED
  BY <1>2, <1>7, <1>8, <1>9, Zenon

\* A word written as a positive number is read back, under a descriptor that
\* is not one of a negative number.
LEMMA BincPositive ==
  ASSUME NEW w \in Word, NEW r \in Seq(Byte)
  PROVE  LET e == B!encUint(16, TRUE, w)
         IN  /\ B!decIntAny(e \o r) = B!Ok(w, Len(e))
             /\ B!vd((e \o r)[1]) # 32 /\ (e \o r)[1] # 8
<1> DEFINE e == B!encUint(16, TRUE, w)
<1>1. CASE w = B!Zero
  <2>1. e = <<7>> /\ Len(<<7>>) = 1
    <3>1. B!VdSpecial + B!SpZero = 7 /\ Len(<<7>>) = 1
      BY DEF B!VdSpecial, B!SpZero
    <3> QED
      BY <1>1, <3>1, Zenon DEF B!encUint
  <2> HIDE DEF e
  <2>2. B!decIntAny(e \o r) = B!Ok(w, Len(e)) /\ (e \o r)[1] = 7 /\ B!vd(7) = 0
    BY <1>1, <2>1, BincSpecial, Zenon
  <2>3. 7 # 8 /\ 0 # 32
    OBVIOUS
  <2> QED
    BY <2>2, <2>3 DEF e
<1>2. CASE w # B!Zero /\ FitsU(w, 1) /\ w[8] <= 16
  <2>1. e = <<144 + w[8] - 1>>
    <3>1. B!VdSmallInt = 144
      BY DEF B!VdSmallInt
    <3> QED
      BY <1>2, <3>1, BincBytes, Zenon DEF B!encUint
  <2>2. w[8] \in 1..16
    <3>1. w[8] # 0
      <4>1. \A i \in 1..7 : w[i] = 0
        BY <1>2, Ranges
      <4>2. w[8] = 0 => \A i \in 1..8 : w[i] = 0
        BY <4>1
      <4> QED
        BY <1>2, <4>2, BincZero
    <3>2. w[8] \in Byte
      BY OneByte
    <3>3. \A x \in Byte : x # 0 /\ x <= 16 => x \in 1..16
      BY DEF Byte
    <3> QED
      BY <1>2, <3>1, <3>2, <3>3, Zenon
  <2>3. Len(<<144 + w[8] - 1>>) = 1 /\ 144 + w[8] - 1 # 8 /\ 144 # 32
    BY <2>2
  <2>4. ZeroExt(<<w[8]>>) = w
    BY <1>2, OneByte
  <2> HIDE DEF e
  <2>5. /\ B!decIntAny(e \o r) = B!Ok(w, 1) /\ (e \o r)[1] = 144 + w[8] - 1
        /\ B!vd(144 + w[8] - 1) = 144
    BY <2>1, <2>2, <2>4, BincSpecial, Zenon
  <2>6. Len(e) = 1
    BY <2>1, <2>3
  <2>7. B!vd((e \o r)[1]) # 32
    BY <2>3, <2>5
  <2>8. (e \o r)[1] # 8
    <3> DEFINE d == 144 + w[8] - 1
    <3>1. d # 8 /\ (e \o r)[1] = d
      BY <2>3, <2>5
    <3> QED
      BY <3>1
  <2> QED
    BY <2>5, <2>6, <2>7, <2>8, Zenon DEF e
<1>3. CASE w # B!Zero /\ ~(FitsU(w, 1) /\ w[8] <= 16)
  <2>1. PICK m \in 1..8 : e = <<16 + m - 1>> \o Low(w, m) /\ FitsU(w, m)
    BY <1>3, BincWrites DEF Written
  <2> HIDE DEF e
  <2> DEFINE p == Low(w, m)
  <2>2. p \in Seq(Byte) /\ Len(p) = m /\ ZeroExt(p) = w
    BY <2>1, LowBytes DEF FitsU
  <2> HIDE DEF p
  <2>3. e = <<16 + m - 1>> \o p
    BY <2>1 DEF p
  <2>4. 16 \in {16, 32} /\ 16 # 32
    OBVIOUS
  <2>5. /\ B!decIntAny((<<16 + m - 1>> \o p) \o r) =
             B!Ok(IF 16 = 16 THEN ZeroExt(p) ELSE Negate(ZeroExt(p)), Len(<<16 + m - 1>> \o p))
        /\ ((<<16 + m - 1>> \o p) \o r)[1] = 16 + m - 1
        /\ B!vd(16 + m - 1) = 16 /\ 16 + m - 1 > 8
    BY <2>2, <2>4, BincReads, Zenon
  <2>6. 16 + m - 1 # 8
    BY <2>5
  <2> QED
    BY <2>2, <2>3, <2>4, <2>5, <2>6, Zenon DEF e
<1> QED
  BY <1>1, <1>2, <1>3

\* The magnitude of a negative word is not zero; that of -1 is not misread.
LEMMA BincMagnitude ==
  ASSUME NEW w \in Word, Negative(w)
  PROVE  /\ Negate(w) # B!Zero
         /\ w = Fill(255, 8) => ~Misread(w)
<1>1. Negate(Negate(w)) = w
  BY NegateTwice
<1>2. Negate(w) # B!Zero
  <2>1. LastByte(B!Zero, 0)
    BY BincZero DEF LastByte
  <2>2. Negate(B!Zero)[1] = 0
    BY <2>1, NegateBytes
  <2>3. w[1] # 0
    BY DEF Negative
  <2> QED
    BY <1>1, <2>2, <2>3
<1>3. ASSUME w = Fill(255, 8) PROVE ~Misread(w)
  <2>1. \A i \in 1..8 : w[i] = 255
    BY <1>3 DEF Fill
  <2>2. LastByte(w, 8)
    BY <2>1 DEF LastByte
  <2>3. Negate(w)[5] = 255 - w[5]
    BY <2>2, NegateBytes
  <2>4. Negate(w)[5] # 255
    BY <2>1, <2>3
  <2> QED
    BY <2>4 DEF Misread
<1> QED
  BY <1>2, <1>3

\* A negative word is written under a descriptor of a negative number and read
\* back, except for the magnitudes that pruning misreads.
LEMMA BincNegative ==
  ASSUME NEW w \in Word, Negative(w), NEW r \in Seq(Byte)
  PROVE  LET e == B!encodeInt(w)
         IN  \E x \in Word : /\ B!decIntAny(e \o r) = B!Ok(x, Len(e))
                             /\ x = w <=> ~Misread(w)
                             /\ B!vd((e \o r)[1]) = 32 \/ (e \o r)[1] = 8
<1> DEFINE e == B!encodeInt(w)
           u == Negate(w)
<1>1. CASE w = Fill(255, 8)
  <2>1. B!VdSpecial + B!SpNegOne = 8 /\ Len(<<8>>) = 1
    BY DEF B!VdSpecial, B!SpNegOne
  <2>2. e = <<8>>
    BY <1>1, <2>1, BincBytes, Zenon DEF B!encodeInt
  <2> HIDE DEF e
  <2>3. B!decIntAny(e \o r) = B!Ok(w, Len(e)) /\ (e \o r)[1] = 8
    BY <1>1, <2>1, <2>2, BincSpecial, Zenon
  <2>4. ~Misread(w)
    BY <1>1, BincMagnitude
  <2> QED
    BY <2>3, <2>4, Zenon DEF e
<1>2. CASE w # Fill(255, 8)
  <2>1. u \in Word /\ Negate(u) = w /\ u[1] <= 128 /\ u # B!Zero
    BY NegateTwice, BincMagnitude
  <2>2. e = B!encUint(32, FALSE, u)
    <3>1. B!VdNegInt = 32
      BY DEF B!VdNegInt
    <3> QED
      BY <1>2, <3>1, BincBytes, Zenon DEF B!encodeInt
  <2>3. Misread(w) <=> FitsU(u, 4) /\ u[5] = 255 /\ u[6] >= 128
    BY DEF Misread
  <2> HIDE DEF e, u
  <2>4. PICK m \in 1..8 : e = <<32 + m - 1>> \o Low(u, m) /\ (FitsU(u, m) <=> ~Misread(w))
    <3>1. PICK pos \in BOOLEAN : ~pos /\ pos = FALSE
      OBVIOUS
    <3>2. PICK bd \in {16, 32} : bd = 32
      OBVIOUS
    <3>3. ~(pos /\ FitsU(u, 1) /\ u[8] <= 16) /\ u \in Word /\ u # B!Zero
      BY <2>1, <3>1
    <3>4. \E m \in 1..8 : Written(bd, pos, u, m)
      BY <3>3, BincWrites, Zenon
    <3>5. PICK m \in 1..8 : Written(bd, pos, u, m)
      BY <3>4
    <3>6. B!encUint(bd, pos, u) = <<bd + m - 1>> \o Low(u, m) /\ (FitsU(u, m) <=> ~Misread(w))
      BY <2>1, <2>3, <3>1, <3>5, Zenon DEF Written
    <3> QED
      BY <2>2, <3>1, <3>2, <3>6, Zenon
  <2> DEFINE p == Low(u, m)
             y == ZeroExt(p)
  <2>5. p \in Seq(Byte) /\ Len(p) = m /\ y \in Word /\ (y = u <=> ~Misread(w))
    BY <2>1, <2>4, LowBytes, Ranges, Zenon DEF FitsU
  <2>6. e = <<32 + m - 1>> \o p
    BY <2>4
  <2> HIDE DEF p, y
  <2>7. /\ B!decIntAny((<<32 + m - 1>> \o p) \o r) =
             B!Ok(IF 32 = 16 THEN ZeroExt(p) ELSE Negate(ZeroExt(p)), Len(<<32 + m - 1>> \o p))
        /\ ((<<32 + m - 1>> \o p) \o r)[1] = 32 + m - 1
        /\ B!vd(32 + m - 1) = 32
    <3>1. 32 \in {16, 32}
      OBVIOUS
    <3> QED
      BY <2>5, <3>1, BincReads, Zenon
  <2>8. 32 # 16
    OBVIOUS
  <2>9. B!decIntAny(e \o r) = B!Ok(Negate(y), Len(e)) /\ B!vd((e \o r)[1]) = 32
    BY <2>6, <2>7, <2>8, Zenon DEF y
  <2>10. Negate(y) \in Word /\ (Negate(y) = w <=> ~Misread(w))
    <3>1. Negate(y) \in Word /\ Negate(Negate(y)) = y
      BY <2>5, NegateTwice
    <3>2. Negate(w) = u
      BY DEF u
    <3> QED
      BY <2>1, <2>5, <3>1, <3>2, Zenon
  <2> QED
    BY <2>9, <2>10, Zenon DEF e
<1> QED
  BY <1>1, <1>2

\* decodeInt and decodeUint are decIntAny with checks of sign and range.
LEMMA BincChecks ==
  ASSUME NEW s, NEW n, NEW w, NEW m, B!decIntAny(s) = B!Ok(w, m), n > 0
  PROVE  /\ B!decodeInt(s, n) = IF FitsS(w, n) THEN B!Ok(w, m) ELSE B!Err
         /\ B!decodeUint(s, n) =
              IF ~(B!vd(s[1]) = 32 \/ s[1] = 8) /\ FitsU(w, n) THEN B!Ok(w, m) ELSE B!Err
<1>1. B!Ok(w, m).v = w /\ B!Ok(w, m).ok
  BY DEF B!Ok
<1>2. B!VdNegInt = 32 /\ B!VdSpecial + B!SpNegOne = 8
  BY DEF B!VdNegInt, B!VdSpecial, B!SpNegOne
<1> QED
  BY <1>1, <1>2, BincBytes, Zenon DEF B!decodeInt, B!decodeUint

\* Every word written by encodeUint survives binc, and every word written by
\* encodeInt but those whose magnitude pruning misreads: as an integer of n
\* bytes it is read back, and exactly its bytes are consumed, if it is in that
\* range, and refused otherwise.  The others are never read back, and no
\* negative word is ever read as an unsigned one (encodeInt, encodeUint,
\* encIntegerPrune, pruneSignExt, decodeInt, decodeUint, decIntAny).
THEOREM BincIntegers ==
  ASSUME NEW w \in Word, NEW r \in Seq(Byte), NEW n \in 1..8
  PROVE  /\ ~Misread(w) => B!decodeInt(B!encodeInt(w) \o r, n) =
                             IF FitsS(w, n) THEN B!Ok(w, Len(B!encodeInt(w))) ELSE B!Err
         /\ Misread(w) => B!decodeInt(B!encodeInt(w) \o r, n) # B!Ok(w, Len(B!encodeInt(w)))
         /\ B!decodeInt(B!encodeUint(w) \o r, n) =
              IF FitsS(w, n) THEN B!Ok(w, Len(B!encodeUint(w))) ELSE B!Err
         /\ B!decodeUint(B!encodeUint(w) \o r, n) =
              IF FitsU(w, n) THEN B!Ok(w, Len(B!encodeUint(w))) ELSE B!Err
         /\ B!decodeUint(B!encodeInt(w) \o r, n) =
              IF ~Negative(w) /\ FitsU(w, n) THEN B!Ok(w, Len(B!encodeInt(w))) ELSE B!Err
<1>1. n > 0
  OBVIOUS
<1> DEFINE e == B!encodeUint(w)
           f == B!encodeInt(w)
<1>2. e = B!encUint(16, TRUE, w) /\ (~Negative(w) => f = e)
  <2>1. B!VdPosInt = 16
    BY DEF B!VdPosInt
  <2> QED
    BY <2>1, BincBytes, Zenon DEF B!encodeUint, B!encodeInt
<1>3. B!decIntAny(e \o r) = B!Ok(w, Len(e)) /\ ~(B!vd((e \o r)[1]) = 32 \/ (e \o r)[1] = 8)
  <2> HIDE DEF e
  <2> QED
    BY <1>2, BincPositive
<1>4. /\ B!decodeInt(e \o r, n) = IF FitsS(w, n) THEN B!Ok(w, Len(e)) ELSE B!Err
      /\ B!decodeUint(e \o r, n) = IF FitsU(w, n) THEN B!Ok(w, Len(e)) ELSE B!Err
  <2> HIDE DEF e
  <2> QED
    BY <1>1, <1>3, BincChecks, Zenon
<1>5. /\ ~Misread(w) => B!decodeInt(f \o r, n) = IF FitsS(w, n) THEN B!Ok(w, Len(f)) ELSE B!Err
      /\ Misread(w) => B!decodeInt(f \o r, n) # B!Ok(w, Len(f))
      /\ B!decodeUint(f \o r, n) = IF ~Negative(w) /\ FitsU(w, n) THEN B!Ok(w, Len(f)) ELSE B!Err
  <2>1. CASE ~Negative(w)
    <3>1. ~Misread(w)
      BY <2>1 DEF Misread
    <3> HIDE DEF e, f
    <3> QED
      BY <1>2, <1>4, <2>1, <3>1, Zenon
  <2>2. CASE Negative(w)
    <3>1. PICK x \in Word : /\ B!decIntAny(f \o r) = B!Ok(x, Len(f))
                            /\ x = w <=> ~Misread(w)
                            /\ B!vd((f \o r)[1]) = 32 \/ (f \o r)[1] = 8
      BY <2>2, BincNegative
    <3> HIDE DEF e, f
    <3>2. /\ B!decodeInt(f \o r, n) = IF FitsS(x, n) THEN B!Ok(x, Len(f)) ELSE B!Err
          /\ B!decodeUint(f \o r, n) = B!Err
      BY <1>1, <3>1, BincChecks, Zenon
    <3>3. /\ B!Ok(x, Len(f)) = B!Ok(w, Len(f)) => x = w
          /\ B!Err # B!Ok(w, Len(f))
      <4>1. /\ B!Ok(x, Len(f)).v = x /\ B!Ok(w, Len(f)).v = w
            /\ B!Ok(w, Len(f)).ok = TRUE /\ B!Err.ok = FALSE
        BY DEF B!Ok, B!Err
      <4> QED
        BY <4>1
    <3> QED
      BY <2>2, <3>1, <3>2, <3>3, Zenon
  <2> QED
    BY <2>1, <2>2
<1> QED
  BY <1>4, <1>5

\* What the drivers write for an integer is a sequence of bytes.
LEMMA EncodingsAreBytes ==
  ASSUME NEW w \in Word
  PROVE  /\ M!encodeInt(w) \in Seq(Byte) /\ M!encodeUint(w) \in Seq(Byte)
         /\ S!encodeInt(w) \in Seq(Byte) /\ S!encodeUint(w) \in Seq(Byte)
         /\ B!encodeInt(w) \in Seq(Byte) /\ B!encodeUint(w) \in Seq(Byte)
<1>1. ASSUME NEW b \in Byte PROVE <<b>> \in Seq(Byte) /\ \A p \in Seq(Byte) : <<b>> \o p \in Seq(Byte)
  OBVIOUS
<1>2. ASSUME NEW x \in Word, NEW k \in 0..3 PROVE Low(x, 2 ^ k) \in Seq(Byte)
  BY Sizes, LowBytes, Zenon
<1>3. M!encodeUint(w) \in Seq(Byte)
  <2> DEFINE k == CHOOSE k \in 0..3 : FitsU(w, 2 ^ k) /\ \A j \in 0..(k - 1) : ~FitsU(w, 2 ^ j)
  <2>1. M!encodeUint(w) \in {<<w[8]>>, <<M!mpUint8 + k>> \o Low(w, 2 ^ k)}
    BY MsgpackBytes, Zenon DEF M!encodeUint
  <2>2. k \in 0..3
    BY LeastU
  <2> HIDE DEF k
  <2>3. M!mpUint8 + k \in Byte /\ w[8] \in Byte
    BY <2>2, MsgpackDescriptors, OneByte, Zenon
  <2> QED
    BY <1>1, <1>2, <2>1, <2>2, <2>3, Zenon
<1>4. M!encodeInt(w) \in Seq(Byte)
  <2> DEFINE k == CHOOSE k \in 0..3 : FitsS(w, 2 ^ k) /\ \A j \in 0..(k - 1) : ~FitsS(w, 2 ^ j)
  <2>1. M!encodeInt(w) \in {M!encodeUint(w), <<w[8]>>, <<M!mpInt8 + k>> \o Low(w, 2 ^ k)}
    BY MsgpackBytes, Zenon DEF M!encodeInt
  <2>2. k \in 0..3
    BY LeastS
  <2> HIDE DEF k
  <2>3. M!mpInt8 + k \in Byte /\ w[8] \in Byte
    BY <2>2, MsgpackDescriptors, OneByte, Zenon
  <2> QED
    BY <1>1, <1>2, <1>3, <2>1, <2>2, <2>3, Zenon
<1>5. ASSUME NEW x \in Word
      PROVE  S!encUint(x, S!VdPosInt) \in Seq(Byte) /\ S!encUint(x, S!VdNegInt) \in Seq(Byte)
  <2> DEFINE k == CHOOSE k \in 0..3 : FitsU(x, 2 ^ k) /\ \A j \in 0..(k - 1) : ~FitsU(x, 2 ^ j)
  <2>1. /\ S!encUint(x, S!VdPosInt) = <<S!VdPosInt + k>> \o Low(x, 2 ^ k)
        /\ S!encUint(x, S!VdNegInt) = <<S!VdNegInt + k>> \o Low(x, 2 ^ k)
    BY SimpleBytes, Zenon DEF S!encUint
  <2>2. k \in 0..3
    BY LeastU
  <2> HIDE DEF k
  <2>3. S!VdPosInt + k \in Byte /\ S!VdNegInt + k \in Byte
    BY <2>2, SimpleDescriptors, Zenon
  <2> QED
    BY <1>1, <1>2, <2>1, <2>2, <2>3, Zenon
<1>6. Negate(w) \in Word
  BY NegateTwice
<1>7. S!encodeInt(w) \in Seq(Byte) /\ S!encodeUint(w) \in Seq(Byte)
  BY <1>5, <1>6, SimpleBytes, Zenon DEF S!encodeInt, S!encodeUint
<1>8. ASSUME NEW x \in Word, NEW bd \in {16, 32}, NEW pos \in BOOLEAN
      PROVE  B!encUint(bd, pos, x) \in Seq(Byte)
  <2>1. 7 \in Byte /\ B!VdSpecial + B!SpZero = 7 /\ B!VdSmallInt = 144
    BY DEF Byte, B!VdSpecial, B!SpZero, B!VdSmallInt
  <2>2. CASE x = B!Zero
    BY <1>1, <2>1, <2>2, Zenon DEF B!encUint
  <2>3. CASE x # B!Zero /\ pos /\ FitsU(x, 1) /\ x[8] <= 16
    <3>1. B!encUint(bd, pos, x) = <<144 + x[8] - 1>>
      BY <2>1, <2>3, BincBytes, Zenon DEF B!encUint
    <3>2. x[8] \in Byte
      BY OneByte
    <3>3. \A y \in Byte : y <= 16 => 144 + y - 1 \in Byte
      BY DEF Byte
    <3> QED
      BY <1>1, <2>3, <3>1, <3>2, <3>3, Zenon
  <2>4. CASE x # B!Zero /\ ~(pos /\ FitsU(x, 1) /\ x[8] <= 16)
    <3>1. PICK m \in 1..8 : Written(bd, pos, x, m)
      BY <2>4, BincWrites, Zenon
    <3>2. B!encUint(bd, pos, x) = <<bd + m - 1>> \o Low(x, m)
      BY <3>1, Zenon DEF Written
    <3>3. bd + m - 1 \in Byte
      BY DEF Byte
    <3>4. Low(x, m) \in Seq(Byte)
      BY LowBytes
    <3> QED
      BY <1>1, <3>2, <3>3, <3>4, Zenon
  <2> QED
    BY <2>2, <2>3, <2>4, Zenon
<1>9. B!encodeInt(w) \in Seq(Byte) /\ B!encodeUint(w) \in Seq(Byte)
  <2>1. /\ B!VdPosInt \in {16, 32} /\ B!VdNegInt \in {16, 32} /\ B!VdSpecial + B!SpNegOne \in Byte
        /\ TRUE \in BOOLEAN /\ FALSE \in BOOLEAN
    BY DEF B!VdPosInt, B!VdNegInt, B!VdSpecial, B!SpNegOne, Byte
  <2>2. /\ B!encUint(B!VdPosInt, TRUE, w) \in Seq(Byte)
        /\ B!encUint(B!VdNegInt, FALSE, Negate(w)) \in Seq(Byte)
        /\ <<B!VdSpecial + B!SpNegOne>> \in Seq(Byte)
    BY <1>1, <1>6, <1>8, <2>1, Zenon
  <2> QED
    BY <2>2, BincBytes, Zenon DEF B!encodeInt, B!encodeUint
<1> QED
  BY <1>3, <1>4, <1>7, <1>9

-----------------------------------------------------------------------------
(* The specification.                                                      *)

\* The samples of integers are 64-bit words.
LEMMA WordsAreWords ==
  Words \subseteq Word
<1>1. ASSUME NEW f \in {0, 255}, NEW n \in 1..8, NEW b \in Leads, NEW t \in Tails
      PROVE  Fill(f, 8 - n) \o <<b>> \o Fill(t, n - 1) \in Word
  <2>1. f \in Byte /\ b \in Byte /\ t \in Byte
    BY BytesAssumption DEF Byte
  <2> DEFINE x == Fill(f, 8 - n)
             y == Fill(t, n - 1)
  <2>2. x \in Seq(Byte) /\ Len(x) = 8 - n /\ y \in Seq(Byte) /\ Len(y) = n - 1
    BY <2>1 DEF Fill
  <2> HIDE DEF x, y
  <2>3. x \o <<b>> \in Seq(Byte) /\ Len(x \o <<b>>) = 9 - n
    BY <2>1, <2>2
  <2> DEFINE z == x \o <<b>>
  <2> HIDE DEF z
  <2>4. z \o y \in Seq(Byte) /\ Len(z \o y) = 8
    BY <2>2, <2>3 DEF z
  <2> QED
    BY <2>4 DEF x, y, z, Word
<1>2. ASSUME NEW f \in {0, 255}, NEW b \in Leads, NEW t \in Leads
      PROVE  Fill(f, 6) \o <<b, t>> \in Word
  <2>1. f \in Byte /\ b \in Byte /\ t \in Byte
    BY BytesAssumption DEF Byte
  <2> DEFINE y == <<b, t>>
  <2>2. y \in Seq(Byte) /\ Len(y) = 2
    BY <2>1
  <2> HIDE DEF y
  <2>3. 2 \in 1..8 /\ 8 - 2 = 6
    OBVIOUS
  <2>4. Fill(f, 8 - 2) \o y \in Word
    BY <2>1, <2>2, <2>3, Extended, Zenon
  <2> QED
    BY <2>3, <2>4 DEF y
<1> DEFINE F(f, n, b, t) == Fill(f, 8 - n) \o <<b>> \o Fill(t, n - 1)
           G(f, b, t) == Fill(f, 6) \o <<b, t>>
<1>3. Words = {F(f, n, b, t) : f \in {0, 255}, n \in 1..8, b \in Leads, t \in Tails}
              \cup {G(f, b, t) : f \in {0, 255}, b \in Leads, t \in Leads}
  BY DEF Words
<1>4. /\ \A f \in {0, 255}, n \in 1..8, b \in Leads, t \in Tails : F(f, n, b, t) \in Word
      /\ \A f \in {0, 255}, b \in Leads, t \in Leads : G(f, b, t) \in Word
  BY <1>1, <1>2, Zenon
<1> HIDE DEF F, G
<1> QED
  BY <1>3, <1>4

\* A sample never changes, and the value of one of kind "word" is a word.
LEMMA SampleWord ==
  Spec => [](IsWord => v \in Word)
<1>1. Init => (IsWord => v \in Word)
  <2> SUFFICES ASSUME sample \in Samples, sample.kind = "word" PROVE sample.v \in Words
    BY WordsAreWords DEF Init, IsWord, v
  <2>1. /\ \A x \in [kind : {"word"}, v : Words] : x.v \in Words
        /\ \A x \in Samples : x.kind = "word" => x \in [kind : {"word"}, v : Words]
    <3>1. \A x \in [kind : {"word"}, v : Words] : x.v \in Words
      OBVIOUS
    <3>2. ASSUME NEW x \in Samples, x.kind = "word"
          PROVE  x \in [kind : {"word"}, v : Words]
      BY <3>2 DEF Samples
    <3> QED
      BY <3>1, <3>2
  <2> QED
    BY <2>1
<1>2. (IsWord => v \in Word) /\ [Next]_sample => (IsWord => v \in Word)'
  BY DEF Next, IsWord, v
<1> QED
  BY <1>1, <1>2, PTL DEF Spec

\* Every integer survives every driver, but for the magnitudes that binc's
\* pruning misreads (encodeInt, encodeUint, decodeInt, decodeUint).
THEOREM IntegersSurvive == Spec => []IntRoundTrip
<1>1. (IsWord => v \in Word) => IntRoundTrip
  <2> SUFFICES ASSUME IsWord, v \in Word PROVE IntRoundTrip
    BY DEF IntRoundTrip
  <2> DEFINE r == <<7, 7>>
  <2>1. r \in Seq(Byte) /\ 8 \in 1..8
    BY DEF Byte
  <2> HIDE DEF r
  <2>2. FitsU(v, 8) /\ FitsS(v, 8)
    BY Whole
  <2> HIDE DEF v
  <2>3. /\ M!decodeInt(M!encodeInt(v) \o r, 8) = M!Ok(v, Len(M!encodeInt(v)))
        /\ M!decodeUint(M!encodeUint(v) \o r, 8) = M!Ok(v, Len(M!encodeUint(v)))
    BY <2>1, <2>2, MsgpackIntegers, Zenon
  <2>4. /\ S!decodeInt(S!encodeInt(v) \o r, 8) = S!Ok(v, Len(S!encodeInt(v)))
        /\ S!decodeUint(S!encodeUint(v) \o r, 8) = S!Ok(v, Len(S!encodeUint(v)))
    BY <2>1, <2>2, SimpleIntegers, Zenon
  <2>5. /\ B!decodeUint(B!encodeUint(v) \o r, 8) = B!Ok(v, Len(B!encodeUint(v)))
        /\ (B!decodeInt(B!encodeInt(v) \o r, 8) = B!Ok(v, Len(B!encodeInt(v)))) <=> ~Misread(v)
    BY <2>1, <2>2, BincIntegers, Zenon
  <2> QED
    BY <2>3, <2>4, <2>5, Zenon DEF IntRoundTrip, r
<1> QED
  BY <1>1, SampleWord, PTL

\* What a driver's theorem says of a result is what NarrowingChecked asks.
LEMMA CheckedIf ==
  ASSUME NEW r, NEW m, NEW fits \in BOOLEAN,
         \/ r = IF fits THEN M!Ok(v, m) ELSE M!Err
         \/ r = IF fits THEN S!Ok(v, m) ELSE S!Err
         \/ r = IF fits THEN B!Ok(v, m) ELSE B!Err
  PROVE  Checked(r, fits)
<1>1. /\ M!Ok(v, m).ok /\ M!Ok(v, m).v = v /\ ~M!Err.ok
      /\ S!Ok(v, m).ok /\ S!Ok(v, m).v = v /\ ~S!Err.ok
      /\ B!Ok(v, m).ok /\ B!Ok(v, m).v = v /\ ~B!Err.ok
  BY DEF M!Ok, S!Ok, B!Ok, M!Err, S!Err, B!Err
<1> QED
  BY <1>1, Zenon DEF Checked

\* For every 64-bit word: an integer is refused when it is not in the range of
\* the integer it is decoded into, and else comes back unchanged, up to binc's
\* misread magnitudes; an unsigned one that is read as a signed one is checked
\* by its bits, so that it may change sign (the overflow checks of decodeInt
\* and decodeUint).
THEOREM OverflowRefused == Spec => []NarrowingChecked
<1>1. (IsWord => v \in Word) => NarrowingChecked
  <2> SUFFICES ASSUME IsWord, v \in Word PROVE NarrowingChecked
    BY DEF NarrowingChecked
  <2> HIDE DEF v
  <2>1. \A n \in {1, 2, 4, 8} : n \in 1..8
    OBVIOUS
  <2> DEFINE r == <<>>
  <2>2. r \in Seq(Byte)
    OBVIOUS
  <2>3. ASSUME NEW e \in Seq(Byte) PROVE e \o r = e
    BY ConcatEmptySeq
  <2> HIDE DEF r
  <2>4. /\ M!encodeInt(v) \o r = M!encodeInt(v) /\ M!encodeUint(v) \o r = M!encodeUint(v)
        /\ S!encodeInt(v) \o r = S!encodeInt(v) /\ S!encodeUint(v) \o r = S!encodeUint(v)
        /\ B!encodeInt(v) \o r = B!encodeInt(v) /\ B!encodeUint(v) \o r = B!encodeUint(v)
    BY <2>3, EncodingsAreBytes, Zenon
  <2>5. ASSUME NEW n \in 1..8
        PROVE  FitsS(v, n) \in BOOLEAN /\ FitsU(v, n) \in BOOLEAN /\ (~Negative(v) /\ FitsU(v, n)) \in BOOLEAN
    BY DEF FitsS, FitsU
  <2>6. ASSUME NEW n \in 1..8
        PROVE  /\ Checked(M!decodeInt(M!encodeInt(v), n), FitsS(v, n))
               /\ Checked(M!decodeUint(M!encodeUint(v), n), FitsU(v, n))
               /\ Checked(M!decodeUint(M!encodeInt(v), n), ~Negative(v) /\ FitsU(v, n))
               /\ Checked(M!decodeInt(M!encodeUint(v), n), FitsS(v, n))
    <3>1. M!decodeInt(M!encodeInt(v), n) = IF FitsS(v, n) THEN M!Ok(v, Len(M!encodeInt(v))) ELSE M!Err
      BY <2>2, <2>4, MsgpackIntegers, Zenon
    <3>2. M!decodeUint(M!encodeUint(v), n) = IF FitsU(v, n) THEN M!Ok(v, Len(M!encodeUint(v))) ELSE M!Err
      BY <2>2, <2>4, MsgpackIntegers, Zenon
    <3>3. M!decodeUint(M!encodeInt(v), n) =
            IF ~Negative(v) /\ FitsU(v, n) THEN M!Ok(v, Len(M!encodeInt(v))) ELSE M!Err
      BY <2>2, <2>4, MsgpackIntegers, Zenon
    <3>4. M!decodeInt(M!encodeUint(v), n) = IF FitsS(v, n) THEN M!Ok(v, Len(M!encodeUint(v))) ELSE M!Err
      BY <2>2, <2>4, MsgpackIntegers, Zenon
    <3>5. Checked(M!decodeInt(M!encodeInt(v), n), FitsS(v, n))
      BY <2>5, <3>1, CheckedIf, Zenon
    <3>6. Checked(M!decodeUint(M!encodeUint(v), n), FitsU(v, n))
      BY <2>5, <3>2, CheckedIf, Zenon
    <3>7. Checked(M!decodeUint(M!encodeInt(v), n), ~Negative(v) /\ FitsU(v, n))
      BY <2>5, <3>3, CheckedIf, Zenon
    <3>8. Checked(M!decodeInt(M!encodeUint(v), n), FitsS(v, n))
      BY <2>5, <3>4, CheckedIf, Zenon
    <3> QED
      BY <3>5, <3>6, <3>7, <3>8, Zenon
  <2>7. ASSUME NEW n \in 1..8
        PROVE  /\ Checked(S!decodeInt(S!encodeInt(v), n), FitsS(v, n))
               /\ Checked(S!decodeUint(S!encodeUint(v), n), FitsU(v, n))
               /\ Checked(S!decodeUint(S!encodeInt(v), n), ~Negative(v) /\ FitsU(v, n))
               /\ Checked(S!decodeInt(S!encodeUint(v), n), FitsS(v, n))
    <3>1. S!decodeInt(S!encodeInt(v), n) = IF FitsS(v, n) THEN S!Ok(v, Len(S!encodeInt(v))) ELSE S!Err
      BY <2>2, <2>4, SimpleIntegers, Zenon
    <3>2. S!decodeUint(S!encodeUint(v), n) = IF FitsU(v, n) THEN S!Ok(v, Len(S!encodeUint(v))) ELSE S!Err
      BY <2>2, <2>4, SimpleIntegers, Zenon
    <3>3. S!decodeUint(S!encodeInt(v), n) =
            IF ~Negative(v) /\ FitsU(v, n) THEN S!Ok(v, Len(S!encodeInt(v))) ELSE S!Err
      BY <2>2, <2>4, SimpleIntegers, Zenon
    <3>4. S!decodeInt(S!encodeUint(v), n) = IF FitsS(v, n) THEN S!Ok(v, Len(S!encodeUint(v))) ELSE S!Err
      BY <2>2, <2>4, SimpleIntegers, Zenon
    <3>5. Checked(S!decodeInt(S!encodeInt(v), n), FitsS(v, n))
      BY <2>5, <3>1, CheckedIf, Zenon
    <3>6. Checked(S!decodeUint(S!encodeUint(v), n), FitsU(v, n))
      BY <2>5, <3>2, CheckedIf, Zenon
    <3>7. Checked(S!decodeUint(S!encodeInt(v), n), ~Negative(v) /\ FitsU(v, n))
      BY <2>5, <3>3, CheckedIf, Zenon
    <3>8. Checked(S!decodeInt(S!encodeUint(v), n), FitsS(v, n))
      BY <2>5, <3>4, CheckedIf, Zenon
    <3> QED
      BY <3>5, <3>6, <3>7, <3>8, Zenon
  <2>8. ASSUME NEW n \in 1..8
        PROVE  /\ IF Misread(v) THEN B!decodeInt(B!encodeInt(v), n) # B!Ok(v, Len(B!encodeInt(v)))
                                ELSE Checked(B!decodeInt(B!encodeInt(v), n), FitsS(v, n))
               /\ Checked(B!decodeUint(B!encodeUint(v), n), FitsU(v, n))
               /\ Checked(B!decodeUint(B!encodeInt(v), n), ~Negative(v) /\ FitsU(v, n))
               /\ Checked(B!decodeInt(B!encodeUint(v), n), FitsS(v, n))
    <3>1. /\ Misread(v) => B!decodeInt(B!encodeInt(v), n) # B!Ok(v, Len(B!encodeInt(v)))
          /\ ~Misread(v) =>
               B!decodeInt(B!encodeInt(v), n) = IF FitsS(v, n) THEN B!Ok(v, Len(B!encodeInt(v))) ELSE B!Err
      BY <2>2, <2>4, BincIntegers, Zenon
    <3>2. B!decodeUint(B!encodeUint(v), n) = IF FitsU(v, n) THEN B!Ok(v, Len(B!encodeUint(v))) ELSE B!Err
      BY <2>2, <2>4, BincIntegers, Zenon
    <3>3. B!decodeUint(B!encodeInt(v), n) =
            IF ~Negative(v) /\ FitsU(v, n) THEN B!Ok(v, Len(B!encodeInt(v))) ELSE B!Err
      BY <2>2, <2>4, BincIntegers, Zenon
    <3>4. B!decodeInt(B!encodeUint(v), n) = IF FitsS(v, n) THEN B!Ok(v, Len(B!encodeUint(v))) ELSE B!Err
      BY <2>2, <2>4, BincIntegers, Zenon
    <3>5. ~Misread(v) => Checked(B!decodeInt(B!encodeInt(v), n), FitsS(v, n))
      BY <2>5, <3>1, CheckedIf, Zenon
    <3>6. Checked(B!decodeUint(B!encodeUint(v), n), FitsU(v, n))
      BY <2>5, <3>2, CheckedIf, Zenon
    <3>7. Checked(B!decodeUint(B!encodeInt(v), n), ~Negative(v) /\ FitsU(v, n))
      BY <2>5, <3>3, CheckedIf, Zenon
    <3>8. Checked(B!decodeInt(B!encodeUint(v), n), FitsS(v, n))
      BY <2>5, <3>4, CheckedIf, Zenon
    <3> QED
      BY <3>1, <3>5, <3>6, <3>7, <3>8, Zenon
  <2> QED
    BY <2>1, <2>6, <2>7, <2>8, Zenon DEF NarrowingChecked
<1> QED
  BY <1>1, SampleWord, PTL
=============================================================================
