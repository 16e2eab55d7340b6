-------------------------- MODULE BincSymbolsProofs --------------------------
(***************************************************************************)
(* The decoder of a binc stream recovers every symbol, for any strings,    *)
(* any number of numbers and any lag between the two ends.                 *)
(***************************************************************************)
EXTENDS BincSymbols, TLAPS

Items == [kind : {"plain", "ref", "def"}, id : Nat, text : Strings]

\* Writing an item leaves the ones before it where they are.
LEMMA AppendEffect ==
  ASSUME NEW q \in Seq(Items), NEW i \in Items
  PROVE  /\ Append(q, i) \in Seq(Items)
         /\ Len(Append(q, i)) = Len(q) + 1
         /\ Append(q, i)[Len(q) + 1] = i
         /\ \A k \in 1..Len(q) : Append(q, i)[k] = q[k]
  OBVIOUS

\* Reading the first item moves the others up by one.
LEMMA TailEffect ==
  ASSUME NEW q \in Seq(Items), q # <<>>
  PROVE  /\ Tail(q) \in Seq(Items)
         /\ Len(q) >= 1
         /\ Len(Tail(q)) = Len(q) - 1
         /\ Head(q) = q[1] /\ Head(q) \in Items
         /\ \A k \in 1..Len(Tail(q)) : Tail(q)[k] = q[k + 1]
  OBVIOUS

\* The number of the next symbol: s + 1 until the last one, which is 0.
LEMMA NextNumber ==
  ASSUME NEW n \in Nat, n + 1 <= SymMod
  PROVE  /\ (n + 1) % SymMod \in Nat
         /\ n + 1 < SymMod => (n + 1) % SymMod = n + 1
         /\ n + 1 = SymMod => (n + 1) % SymMod = 0
  BY BoundsAssumption

-----------------------------------------------------------------------------
(* Type correctness.                                                       *)

\* The tables and the stream are well typed at the start.
LEMMA TypeInit == Init => TypeOK
<1> SUFFICES ASSUME Init PROVE TypeOK
  OBVIOUS
<1>1. DOMAIN encM = {} /\ encM \in [DOMAIN encM -> Nat]
  BY DEF Init
<1>2. DOMAIN decM = {} /\ decM \in [DOMAIN decM -> Strings]
  BY DEF Init
<1> QED
  BY <1>1, <1>2 DEF Init, TypeOK

\* Encoding and decoding a symbol keep the types.
LEMMA TypeStep ==
  ASSUME TypeOK, [Next]_vars
  PROVE  TypeOK'
<1> USE DEF Items
<1>a. stream \in Seq(Items) /\ s \in Nat
  BY DEF TypeOK
<1>1. ASSUME NEW x \in Strings, encodeSymbol(x) PROVE TypeOK'
  <2>1. CASE EncodePlain(x)
    <3>1. Item("plain", 0, x) \in Items
      BY DEF Item
    <3>2. stream' \in Seq(Items)
      BY <1>a, <2>1, <3>1, AppendEffect DEF EncodePlain
    <3> QED
      BY <2>1, <3>2 DEF EncodePlain, TypeOK
  <2>2. CASE EncodeRef(x)
    <3>1. Item("ref", encM[x], x) \in Items
      BY <2>2 DEF Item, EncodeRef, TypeOK
    <3>2. stream' \in Seq(Items)
      BY <1>a, <2>2, <3>1, AppendEffect DEF EncodeRef
    <3> QED
      BY <2>2, <3>2 DEF EncodeRef, TypeOK
  <2>3. CASE EncodeDef(x)
    <3> DEFINE ui == (s + 1) % SymMod
    <3>1. ui \in Nat /\ s' \in Nat /\ s' = s + 1
      BY <1>a, <2>3, BoundsAssumption DEF EncodeDef
    <3>2. Item("def", ui, x) \in Items
      BY <3>1 DEF Item
    <3>3. stream' \in Seq(Items)
      BY <1>a, <2>3, <3>1, <3>2, AppendEffect DEF EncodeDef
    <3>4. /\ encM' = [y \in DOMAIN encM \cup {x} |-> IF y = x THEN ui ELSE encM[y]]
          /\ decM' = decM /\ last' = last
      BY <2>3, <3>1 DEF EncodeDef
    <3>5. DOMAIN encM' \subseteq Strings /\ encM' \in [DOMAIN encM' -> Nat]
      BY <3>1, <3>4 DEF TypeOK
    <3> QED
      BY <3>1, <3>3, <3>4, <3>5 DEF TypeOK
  <2> QED
    BY <1>1, <2>1, <2>2, <2>3 DEF encodeSymbol
<1>2. ASSUME decodeString PROVE TypeOK'
  <2>1. /\ stream' \in Seq(Items) /\ Head(stream) \in Items
        /\ encM' = encM /\ s' = s
    BY <1>a, <1>2, TailEffect DEF decodeString
  <2>2. CASE DecodePlain
    BY <2>1, <2>2 DEF DecodePlain, TypeOK
  <2>3. CASE DecodeRef
    BY <2>1, <2>3 DEF DecodeRef, TypeOK
  <2>4. CASE DecodeDef
    BY <2>1, <2>4 DEF DecodeDef, TypeOK
  <2> QED
    BY <1>2, <2>2, <2>3, <2>4 DEF decodeString
<1>3. CASE UNCHANGED vars
  BY <1>3 DEF vars, TypeOK
<1> QED
  BY <1>1, <1>2, <1>3 DEF Next

-----------------------------------------------------------------------------
(* The tables agree.                                                       *)

\* What is defined before a position stays so when an item is written.
LEMMA DefinedAfterAppend ==
  ASSUME NEW m, NEW q \in Seq(Items), NEW i \in Items,
         NEW n \in Nat, NEW k \in 1..(Len(q) + 1), DefinedBefore(m, q, n, k)
  PROVE  DefinedBefore(m, Append(q, i), n, k) /\ DefinedBefore(m, Append(q, i), n, Len(q) + 2)
<1>1. Len(q) \in Nat /\ \A j \in 1..Len(q) : Append(q, i)[j] = q[j]
  BY AppendEffect
<1> QED
  BY <1>1 DEF DefinedBefore

\* Writing a symbol keeps the tables in agreement until the numbers wrap.
LEMMA EncodeAgrees ==
  ASSUME TypeOK, TablesAgree, s' <= SymMod, NEW x \in Strings, encodeSymbol(x)
  PROVE  TablesAgree'
<1>a. stream \in Seq(Items) /\ Len(stream) \in Nat /\ s \in Nat
  BY DEF TypeOK, Items
<1>b. \A y \in DOMAIN encM : encM[y] \in Nat
  BY DEF TypeOK
<1>c. \A k \in 1..Len(stream) : stream[k].id \in Nat /\ k \in 1..(Len(stream) + 1)
  <2>1. \A k \in 1..Len(stream) : stream[k] \in Items
    BY <1>a
  <2> QED
    BY <1>a, <2>1 DEF Items
<1>d. Len(stream) + 1 \in 1..(Len(stream) + 1)
  BY <1>a
<1>1. ASSUME NEW i \in Items, stream' = Append(stream, i), UNCHANGED <<encM, s, decM, last>>,
             i.kind # "def",
             i.kind = "ref" => i.text \in DOMAIN encM /\ encM[i.text] = i.id
      PROVE  TablesAgree'
  <2>1. /\ Len(stream') = Len(stream) + 1
        /\ stream'[Len(stream) + 1] = i
        /\ \A k \in 1..Len(stream) : stream'[k] = stream[k]
    BY <1>a, <1>1, AppendEffect
  <2>2. NumbersDistinct' /\ DecoderAgrees' /\ SymbolsFaithful'
    BY <1>1 DEF TablesAgree, NumbersDistinct, DecoderAgrees, SymbolsFaithful
  <2>3. StreamAgrees'
    BY <1>a, <1>1, <2>1 DEF TablesAgree, StreamAgrees, Items
  <2>4. \A y \in DOMAIN encM : DefinedBefore(decM', stream', encM[y], Len(stream) + 2)
    <3> TAKE y \in DOMAIN encM
    <3>1. encM[y] \in Nat /\ DefinedBefore(decM, stream, encM[y], Len(stream) + 1)
      BY <1>b DEF TablesAgree, RefsDefined
    <3> QED
      BY <1>a, <1>d, <1>1, <3>1, DefinedAfterAppend
  <2>5. \A k \in 1..Len(stream) :
          stream[k].kind = "ref" => DefinedBefore(decM', stream', stream[k].id, k)
    <3> SUFFICES ASSUME NEW k \in 1..Len(stream), stream[k].kind = "ref"
                 PROVE  DefinedBefore(decM', stream', stream[k].id, k)
      OBVIOUS
    <3>1. DefinedBefore(decM, stream, stream[k].id, k)
      BY DEF TablesAgree, RefsDefined
    <3> QED
      BY <1>a, <1>c, <1>1, <3>1, DefinedAfterAppend
  <2>6. i.kind = "ref" => DefinedBefore(decM', stream', i.id, Len(stream) + 1)
    BY <1>a, <1>b, <1>1, DefinedAfterAppend DEF TablesAgree, RefsDefined
  <2>7. RefsDefined'
    BY <1>a, <1>1, <2>1, <2>4, <2>5, <2>6 DEF RefsDefined
  <2> QED
    BY <2>2, <2>3, <2>7 DEF TablesAgree
<1>2. CASE EncodePlain(x)
  <2>1. Item("plain", 0, x) \in Items /\ Item("plain", 0, x).kind = "plain"
    BY DEF Item, Items
  <2> QED
    BY <1>1, <1>2, <2>1 DEF EncodePlain
<1>3. CASE EncodeRef(x)
  <2>1. /\ Item("ref", encM[x], x) \in Items
        /\ Item("ref", encM[x], x).kind = "ref"
        /\ Item("ref", encM[x], x).text = x
        /\ Item("ref", encM[x], x).id = encM[x]
    BY <1>b, <1>3 DEF Item, Items, EncodeRef
  <2> QED
    BY <1>1, <1>3, <2>1 DEF EncodeRef
<1>4. CASE EncodeDef(x)
  <2> DEFINE ui == (s + 1) % SymMod
             i == Item("def", ui, x)
  <2>1. s' = s + 1 /\ x \notin DOMAIN encM /\ decM' = decM /\ last' = last
    BY <1>4 DEF EncodeDef
  <2>2. /\ ui \in Nat
        /\ s + 1 < SymMod => ui = s + 1
        /\ s + 1 = SymMod => ui = 0
    BY <1>a, <2>1, NextNumber
  <2>3. /\ i \in Items /\ i.kind = "def" /\ i.id = ui /\ i.text = x
    BY <2>2 DEF Item, Items
  <2>4. /\ encM' = [y \in DOMAIN encM \cup {x} |-> IF y = x THEN ui ELSE encM[y]]
        /\ stream' = Append(stream, i)
    BY <1>4, <2>1 DEF EncodeDef
  <2> HIDE DEF i, ui
  <2>5. /\ Len(stream') = Len(stream) + 1
        /\ stream'[Len(stream) + 1] = i
        /\ \A k \in 1..Len(stream) : stream'[k] = stream[k]
    BY <1>a, <2>3, <2>4, AppendEffect
  <2>6. /\ DOMAIN encM' = DOMAIN encM \cup {x}
        /\ encM'[x] = ui
        /\ \A y \in DOMAIN encM : encM'[y] = encM[y]
    BY <2>1, <2>4
  <2>7. NumbersDistinct'
    BY <1>a, <1>b, <2>1, <2>2, <2>6, BoundsAssumption DEF TablesAgree, NumbersDistinct
  <2>8. StreamAgrees'
    BY <1>a, <2>3, <2>5, <2>6 DEF TablesAgree, StreamAgrees
  <2>9. DecoderAgrees' /\ SymbolsFaithful'
    BY <2>1, <2>6 DEF TablesAgree, DecoderAgrees, SymbolsFaithful
  <2>10. \A y \in DOMAIN encM : DefinedBefore(decM', stream', encM[y], Len(stream) + 2)
    BY <1>a, <1>b, <2>1, <2>3, <2>4, DefinedAfterAppend DEF TablesAgree, RefsDefined
  <2>11. \A k \in 1..Len(stream) :
           stream[k].kind = "ref" => DefinedBefore(decM', stream', stream[k].id, k)
    <3> SUFFICES ASSUME NEW k \in 1..Len(stream), stream[k].kind = "ref"
                 PROVE  DefinedBefore(decM', stream', stream[k].id, k)
      OBVIOUS
    <3>1. DefinedBefore(decM, stream, stream[k].id, k)
      BY DEF TablesAgree, RefsDefined
    <3> QED
      BY <1>a, <1>c, <2>1, <2>3, <2>4, <3>1, DefinedAfterAppend
  <2>12. DefinedBefore(decM', stream', ui, Len(stream) + 2)
    BY <1>a, <2>3, <2>5 DEF DefinedBefore
  <2>13. RefsDefined'
    BY <1>a, <2>3, <2>5, <2>6, <2>10, <2>11, <2>12 DEF RefsDefined
  <2> QED
    BY <2>7, <2>8, <2>9, <2>13 DEF TablesAgree
<1> QED
  BY <1>2, <1>3, <1>4 DEF encodeSymbol

\* What is defined before a position is defined one earlier when the first
\* item has been read, provided its number, if it defines one, is in the table.
LEMMA DefinedAfterTail ==
  ASSUME NEW m, NEW m2, NEW q \in Seq(Items), q # <<>>, DOMAIN m \subseteq DOMAIN m2,
         q[1].kind = "def" => q[1].id \in DOMAIN m2,
         NEW n \in Nat, NEW k \in 1..Len(q), DefinedBefore(m, q, n, k + 1)
  PROVE  DefinedBefore(m2, Tail(q), n, k)
<1>1. /\ Len(q) \in Nat /\ Len(Tail(q)) = Len(q) - 1
      /\ \A j \in 1..Len(Tail(q)) : Tail(q)[j] = q[j + 1]
  BY TailEffect
<1>2. CASE n \in DOMAIN m
  BY <1>2 DEF DefinedBefore
<1>3. CASE n \notin DOMAIN m
  <2>1. PICK j \in 1..k : q[j].kind = "def" /\ q[j].id = n
    BY <1>3 DEF DefinedBefore
  <2>2. CASE j = 1
    BY <2>1, <2>2 DEF DefinedBefore
  <2>3. CASE j # 1
    <3>1. j - 1 \in 1..(k - 1) /\ j - 1 \in 1..Len(Tail(q)) /\ (j - 1) + 1 = j
      BY <1>1, <2>3
    <3>2. Tail(q)[j - 1] = q[j]
      BY <1>1, <3>1
    <3> QED
      BY <2>1, <3>1, <3>2 DEF DefinedBefore
  <2> QED
    BY <2>2, <2>3
<1> QED
  BY <1>2, <1>3

\* Reading a symbol keeps the tables in agreement, and yields what was meant.
LEMMA DecodeAgrees ==
  ASSUME TypeOK, TablesAgree, decodeString
  PROVE  TablesAgree'
<1>a. /\ stream \in Seq(Items) /\ stream # <<>> /\ stream' = Tail(stream)
      /\ encM' = encM /\ s' = s
  BY DEF TypeOK, Items, decodeString
<1>b. /\ Len(stream) \in Nat /\ Len(stream) >= 1 /\ Len(stream') = Len(stream) - 1
      /\ Head(stream) = stream[1]
      /\ \A k \in 1..Len(stream') : stream'[k] = stream[k + 1]
  BY <1>a, TailEffect
<1>c. \A k \in 1..Len(stream) : stream[k].id \in Nat /\ stream[k].kind \in {"plain", "ref", "def"}
  <2>1. \A k \in 1..Len(stream) : stream[k] \in Items
    BY <1>a
  <2> QED
    BY <2>1 DEF Items
<1>d. \A y \in DOMAIN encM : encM[y] \in Nat
  BY DEF TypeOK
<1>e. 1 \in 1..Len(stream)
  BY <1>b
<1>1. /\ DOMAIN decM \subseteq DOMAIN decM'
      /\ stream[1].kind = "def" => stream[1].id \in DOMAIN decM'
  BY <1>b DEF decodeString, DecodePlain, DecodeRef, DecodeDef
<1>2. NumbersDistinct'
  BY <1>a DEF TablesAgree, NumbersDistinct
<1>3. StreamAgrees'
  BY <1>a, <1>b DEF TablesAgree, StreamAgrees
<1>4. RefsDefined'
  <2>1. ASSUME NEW k \in 1..Len(stream'), stream'[k].kind = "ref"
        PROVE  DefinedBefore(decM', stream', stream'[k].id, k)
    <3>1. k + 1 \in 1..Len(stream) /\ k \in 1..Len(stream) /\ stream'[k] = stream[k + 1]
      BY <1>b
    <3>2. DefinedBefore(decM, stream, stream[k + 1].id, k + 1)
      BY <2>1, <3>1 DEF TablesAgree, RefsDefined
    <3> QED
      BY <1>a, <1>c, <1>1, <3>1, <3>2, DefinedAfterTail
  <2>2. ASSUME NEW y \in DOMAIN encM
        PROVE  DefinedBefore(decM', stream', encM[y], Len(stream))
    <3>1. DefinedBefore(decM, stream, encM[y], Len(stream) + 1)
      BY DEF TablesAgree, RefsDefined
    <3>2. Len(stream) \in 1..Len(stream)
      BY <1>b
    <3> QED
      BY <1>a, <1>d, <1>1, <3>1, <3>2, DefinedAfterTail
  <2> QED
    BY <1>a, <1>b, <2>1, <2>2 DEF RefsDefined
<1>5. CASE DecodePlain
  <2>1. DecoderAgrees' /\ SymbolsFaithful'
    BY <1>a, <1>5 DEF DecodePlain, TablesAgree, DecoderAgrees, SymbolsFaithful
  <2> QED
    BY <1>2, <1>3, <1>4, <2>1 DEF TablesAgree
<1>6. CASE DecodeRef
  <2> DEFINE id == stream[1].id
  <2>1. id \in DOMAIN decM
    BY <1>b, <1>e, <1>6 DEF DecodeRef, TablesAgree, RefsDefined, DefinedBefore
  <2>2. decM[id] \in DOMAIN encM /\ encM[decM[id]] = id
    BY <2>1 DEF TablesAgree, DecoderAgrees
  <2>3. stream[1].text \in DOMAIN encM /\ encM[stream[1].text] = id
    BY <1>b, <1>e, <1>6 DEF DecodeRef, TablesAgree, StreamAgrees
  <2>4. decM[id] = stream[1].text
    BY <2>2, <2>3 DEF TablesAgree, NumbersDistinct
  <2>5. DecoderAgrees' /\ SymbolsFaithful'
    BY <1>a, <1>b, <1>6, <2>1, <2>4 DEF DecodeRef, TablesAgree, DecoderAgrees, SymbolsFaithful
  <2> QED
    BY <1>2, <1>3, <1>4, <2>5 DEF TablesAgree
<1>7. CASE DecodeDef
  <2>1. stream[1].text \in DOMAIN encM /\ encM[stream[1].text] = stream[1].id
    BY <1>b, <1>e, <1>7 DEF DecodeDef, TablesAgree, StreamAgrees
  <2>2. DecoderAgrees' /\ SymbolsFaithful'
    BY <1>a, <1>b, <1>7, <2>1 DEF DecodeDef, TablesAgree, DecoderAgrees, SymbolsFaithful
  <2> QED
    BY <1>2, <1>3, <1>4, <2>2 DEF TablesAgree
<1> QED
  BY <1>5, <1>6, <1>7 DEF decodeString

-----------------------------------------------------------------------------

\* SymbolInv is an invariant of a binc connection.
THEOREM SymbolInvariant == Spec => []SymbolInv
<1>1. Init => SymbolInv
  <2> SUFFICES ASSUME Init PROVE SymbolInv
    OBVIOUS
  <2>1. DOMAIN encM = {} /\ DOMAIN decM = {} /\ Len(stream) = 0
    BY DEF Init
  <2>2. TablesAgree
    BY <2>1 DEF Init, TablesAgree, NumbersDistinct, StreamAgrees, DecoderAgrees, RefsDefined, SymbolsFaithful
  <2> QED
    BY <2>2, TypeInit DEF SymbolInv
<1>2. SymbolInv /\ [Next]_vars => SymbolInv'
  <2> SUFFICES ASSUME SymbolInv, [Next]_vars PROVE SymbolInv'
    OBVIOUS
  <2>1. TypeOK /\ TypeOK'
    BY TypeStep DEF SymbolInv
  <2>2. ASSUME s' <= SymMod PROVE TablesAgree'
    <3>1. ASSUME NEW x \in Strings, encodeSymbol(x) PROVE TablesAgree'
      <4>1. s' = s \/ s' = s + 1
        BY <3>1 DEF encodeSymbol, EncodePlain, EncodeRef, EncodeDef
      <4>2. s <= SymMod
        BY <2>1, <2>2, <4>1, BoundsAssumption DEF TypeOK
      <4> QED
        BY <2>1, <2>2, <3>1, <4>2, EncodeAgrees DEF SymbolInv
    <3>2. CASE decodeString
      BY <2>1, <2>2, <3>2, DecodeAgrees DEF SymbolInv, decodeString
    <3>3. CASE UNCHANGED vars
      BY <2>2, <3>3 DEF SymbolInv, vars, TablesAgree, NumbersDistinct, StreamAgrees, DecoderAgrees,
         RefsDefined, DefinedBefore, SymbolsFaithful
    <3> QED
      BY <3>1, <3>2, <3>3 DEF Next
  <2> QED
    BY <2>1, <2>2 DEF SymbolInv
<1> QED
  BY <1>1, <1>2, PTL DEF Spec

\* Until the encoder runs out of numbers, every symbol is decoded as the
\* string that was written.
THEOREM SymbolsRecovered == Spec => []FaithfulBeforeWrap
<1>1. SymbolInv => FaithfulBeforeWrap
  BY DEF SymbolInv, TablesAgree, FaithfulBeforeWrap
<1> QED
  BY <1>1, SymbolInvariant, PTL
=============================================================================
