----------------------------- MODULE BincSymbols -----------------------------
(***************************************************************************)
(* The symbol tables of the binc drivers (src/go-msgpack/codec/binc.go).   *)
(* An encoder writes a string it has not written before together with a    *)
(* number, and afterwards the number alone; the decoder at the other end   *)
(* builds the same table as it reads.  Both tables live as long as the     *)
(* Encoder and the Decoder of a connection do, across messages.            *)
(***************************************************************************)
EXTENDS Naturals, Sequences

CONSTANTS
  Strings,    \* the strings written as symbols: struct field names, map keys
  Short,      \* those of length 0 or 1, never given a number
  NoString,   \* the empty string a failed map lookup yields
  SymMod,     \* 65536: numbers are uint16(e.s)
  MaxStream   \* bound: symbols written and not yet read

ASSUME StringsAssumption == Short \subseteq Strings /\ NoString \notin Strings \ Short
ASSUME BoundsAssumption == SymMod \in Nat \ {0} /\ MaxStream \in Nat

VARIABLES
  encM,       \* bincEncDriver.m: the number of each string
  s,          \* bincEncDriver.s
  stream,     \* what is written and not read
  decM,       \* bincDecDriver.m: the string of each number
  last        \* the last string decoded, and the one that was written

vars == <<encM, s, stream, decM, last>>

Init ==
  /\ encM = [x \in {} |-> 0]
  /\ s = 0
  /\ stream = <<>>
  /\ decM = [i \in {} |-> NoString]
  /\ last = [got |-> NoString, written |-> NoString]

-----------------------------------------------------------------------------

\* An item carries the string where the encoder writes it; text is what was
\* meant, which a "ref" does not transmit.
Item(kind, id, x) == [kind |-> kind, id |-> id, text |-> x]

EncodePlain(x) ==
  /\ x \in Short
  /\ stream' = Append(stream, Item("plain", 0, x))
  /\ UNCHANGED <<encM, s, decM, last>>

EncodeRef(x) ==
  /\ x \notin Short
  /\ x \in DOMAIN encM
  /\ stream' = Append(stream, Item("ref", encM[x], x))
  /\ UNCHANGED <<encM, s, decM, last>>

\* Mutant of EncodeDef: the sequencer is not advanced.
EncodeDefSame(x) ==
  /\ x \notin Short
  /\ x \notin DOMAIN encM
  /\ s' = s
  /\ LET ui == s' % SymMod IN
       /\ encM' = [y \in DOMAIN encM \cup {x} |-> IF y = x THEN ui ELSE encM[y]]
       /\ stream' = Append(stream, Item("def", ui, x))
  /\ UNCHANGED <<decM, last>>

EncodeDef(x) ==
  /\ x \notin Short
  /\ x \notin DOMAIN encM
  /\ s' = s + 1
  /\ LET ui == s' % SymMod IN
       /\ encM' = [y \in DOMAIN encM \cup {x} |-> IF y = x THEN ui ELSE encM[y]]
       /\ stream' = Append(stream, Item("def", ui, x))
  /\ UNCHANGED <<decM, last>>

encodeSymbol(x) ==
  /\ Len(stream) < MaxStream
  /\ EncodePlain(x) \/ EncodeRef(x) \/ EncodeDef(x)

DecodePlain ==
  /\ Head(stream).kind = "plain"
  /\ last' = [got |-> Head(stream).text, written |-> Head(stream).text]
  /\ UNCHANGED decM

\* Mutant of DecodeRef: the entry is used up.
DecodeRefOnce ==
  /\ Head(stream).kind = "ref"
  /\ LET id == Head(stream).id IN
       /\ last' = [got |-> IF id \in DOMAIN decM THEN decM[id] ELSE NoString,
                   written |-> Head(stream).text]
       /\ decM' = [i \in DOMAIN decM \ {id} |-> decM[i]]

\* s = d.m[symbol]: the empty string when there is no entry
DecodeRef ==
  /\ Head(stream).kind = "ref"
  /\ LET id == Head(stream).id IN
       last' = [got |-> IF id \in DOMAIN decM THEN decM[id] ELSE NoString,
                written |-> Head(stream).text]
  /\ UNCHANGED decM

DecodeDef ==
  /\ Head(stream).kind = "def"
  /\ LET i == Head(stream) IN
       /\ decM' = [j \in DOMAIN decM \cup {i.id} |-> IF j = i.id THEN i.text ELSE decM[j]]
       /\ last' = [got |-> i.text, written |-> i.text]

decodeString ==
  /\ stream # <<>>
  /\ DecodePlain \/ DecodeRef \/ DecodeDef
  /\ stream' = Tail(stream)
  /\ UNCHANGED <<encM, s>>

Next == (\E x \in Strings : encodeSymbol(x)) \/ decodeString

Spec == Init /\ [][Next]_vars

-----------------------------------------------------------------------------

\* The type invariant of the two tables and the stream.
TypeOK ==
  /\ DOMAIN encM \subseteq Strings
  /\ encM \in [DOMAIN encM -> Nat]
  /\ s \in Nat
  /\ stream \in Seq([kind : {"plain", "ref", "def"}, id : Nat, text : Strings])
  /\ DOMAIN decM \subseteq Nat
  /\ decM \in [DOMAIN decM -> Strings]
  /\ last \in [got : Strings \cup {NoString}, written : Strings \cup {NoString}]

\* Every string is decoded as the one that was written, however far the
\* decoder lags behind the encoder (encodeSymbol/decodeString).
SymbolsFaithful == last.got = last.written

\* SymbolsFaithful as long as the encoder has not run out of numbers.
FaithfulBeforeWrap == s <= SymMod => SymbolsFaithful

-----------------------------------------------------------------------------
(* Why it holds: the decoder's table, extended by the definitions still on *)
(* their way, is the inverse of the encoder's.                             *)

\* The numbers given out so far are the first s ones, each once.
NumbersDistinct ==
  /\ \A x \in DOMAIN encM : encM[x] = 0 \/ encM[x] \in 1..s
  /\ \A x \in DOMAIN encM : encM[x] = 0 => s >= SymMod
  /\ \A x, y \in DOMAIN encM : encM[x] = encM[y] => x = y

\* What is on its way carries the encoder's number for its string.
StreamAgrees ==
  \A k \in 1..Len(stream) :
    stream[k].kind # "plain" =>
      stream[k].text \in DOMAIN encM /\ encM[stream[k].text] = stream[k].id

DecoderAgrees == \A i \in DOMAIN decM : decM[i] \in DOMAIN encM /\ encM[decM[i]] = i

\* Number i is in the decoder's table m, or defined before position k of q.
DefinedBefore(m, q, i, k) ==
  i \in DOMAIN m \/ \E j \in 1..(k - 1) : q[j].kind = "def" /\ q[j].id = i

RefsDefined ==
  /\ \A k \in 1..Len(stream) :
       stream[k].kind = "ref" => DefinedBefore(decM, stream, stream[k].id, k)
  /\ \A x \in DOMAIN encM : DefinedBefore(decM, stream, encM[x], Len(stream) + 1)

TablesAgree == NumbersDistinct /\ StreamAgrees /\ DecoderAgrees /\ RefsDefined /\ SymbolsFaithful

\* The inductive invariant behind FaithfulBeforeWrap.
SymbolInv == TypeOK /\ (s <= SymMod => TablesAgree)
=============================================================================
