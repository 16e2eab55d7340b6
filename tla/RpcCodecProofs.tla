---------------------------- MODULE RpcCodecProofs ----------------------------
(***************************************************************************)
(* Proofs about RpcCodec, for any set of messages and of bodies that       *)
(* cannot be encoded, and every kind of codec: CodecInv is inductive.      *)
(***************************************************************************)
EXTENDS RpcCodec, TLAPS

-----------------------------------------------------------------------------
(* The stream of encoded items.                                            *)

\* The stream is the wire, followed by the buffer.
LEMMA EmittedParts ==
  ASSUME NEW w \in Seq(Items), NEW b \in Seq(Items)
  PROVE  /\ w \o b \in Seq(Items)
         /\ Len(w) \in Nat /\ Len(b) \in Nat
         /\ Len(w \o b) = Len(w) + Len(b)
         /\ \A i \in 1..Len(w) : (w \o b)[i] = w[i]
         /\ b = <<>> <=> Len(b) = 0
         /\ w \o <<>> = w
  OBVIOUS

\* Appending to the buffer appends to the stream.
LEMMA EmittedAppend ==
  ASSUME NEW w \in Seq(Items), NEW b \in Seq(Items), NEW x \in Items
  PROVE  /\ w \o Append(b, x) = Append(w \o b, x)
         /\ Append(b, x) \in Seq(Items)
         /\ Append(w, x) \in Seq(Items)
  OBVIOUS

\* Its elements.
LEMMA AppendItem ==
  ASSUME NEW S, NEW s \in Seq(S), NEW x \in S
  PROVE  /\ Append(s, x) \in Seq(S)
         /\ Len(s) \in Nat
         /\ Len(Append(s, x)) = Len(s) + 1
         /\ Append(s, x)[Len(s) + 1] = x
         /\ \A i \in 1..Len(s) : Append(s, x)[i] = s[i]
  OBVIOUS

\* An encoder adds one item to the stream, and none without a buffer once the
\* connection is closed.
LEMMA EmitEffect ==
  ASSUME TypeOK, LockInv, NEW x \in Items, Emit(x)
  PROVE  /\ Emitted' = Append(Emitted, x)
         /\ buf' \in Seq(Items) /\ wire' \in Seq(Items)
         /\ Len(wire) <= Len(wire')
         /\ \A i \in 1..Len(wire) : wire'[i] = wire[i]
         /\ codec.buffered => wire' = wire
         /\ ~codec.buffered => buf' = <<>> /\ ~connClosed
<1>1. wire \in Seq(Items) /\ buf \in Seq(Items)
  BY DEF TypeOK
<1>2. CASE codec.buffered
  <2>1. buf' = Append(buf, x) /\ wire' = wire
    BY <1>2 DEF Emit
  <2> QED
    BY <1>1, <1>2, <2>1, EmittedAppend DEF Emitted
<1>3. CASE ~codec.buffered
  <2>1. wire' = Append(wire, x) /\ buf' = buf /\ buf = <<>> /\ ~connClosed
    BY <1>3 DEF Emit, LockInv
  <2>2. Emitted = wire /\ Emitted' = wire'
    <3>1. wire' \in Seq(Items)
      BY <1>1, <2>1, EmittedAppend
    <3> QED
      BY <1>1, <2>1, <3>1, EmittedParts DEF Emitted
  <2> QED
    BY <1>1, <1>3, <2>1, <2>2, AppendItem
<1> QED
  BY <1>2, <1>3

\* Flushing changes where the items are, not the stream.
LEMMA FlushEffect ==
  ASSUME TypeOK, wire' = wire \o buf, buf' = <<>>
  PROVE  /\ Emitted' = Emitted
         /\ wire' = Emitted
         /\ wire' \in Seq(Items) /\ buf' \in Seq(Items)
         /\ Len(wire) <= Len(wire')
         /\ \A i \in 1..Len(wire) : wire'[i] = wire[i]
<1>1. wire \in Seq(Items) /\ buf \in Seq(Items)
  BY DEF TypeOK
<1>2. wire' \in Seq(Items) /\ wire' \o buf' = wire'
  BY <1>1, EmittedParts
<1> QED
  BY <1>1, <1>2, EmittedParts DEF Emitted

\* What is on the wire is the beginning of the stream.
LEMMA WireIsPrefix ==
  ASSUME TypeOK
  PROVE  /\ Emitted \in Seq(Items)
         /\ Len(wire) \in Nat /\ Len(Emitted) \in Nat /\ Len(wire) <= Len(Emitted)
         /\ \A i \in 1..Len(wire) : Emitted[i] = wire[i]
         /\ buf = <<>> => Emitted = wire
<1>1. wire \in Seq(Items) /\ buf \in Seq(Items)
  BY DEF TypeOK
<1> QED
  BY <1>1, EmittedParts DEF Emitted

\* Headers and bodies are sent as a unit when they are encoded as one.
LEMMA UnitFromStream ==
  ASSUME TypeOK, StreamInv
  PROVE  SentAsUnit
<1> SUFFICES ASSUME NEW i \in 1..Len(wire), wire[i].kind = "header",
                    \A j \in 1..i : wire[j].msg \notin codec.rejected, i # Len(wire)
             PROVE  wire[i + 1] = Item("body", wire[i].msg)
  BY DEF SentAsUnit
<1>1. /\ Len(wire) \in Nat /\ Len(Emitted) \in Nat /\ Len(wire) <= Len(Emitted)
      /\ \A j \in 1..Len(wire) : Emitted[j] = wire[j]
  BY WireIsPrefix
<1>2. i \in 1..Len(Emitted) /\ i # Len(Emitted) /\ i + 1 \in 1..Len(wire)
  BY <1>1
<1>3. Emitted[i] = wire[i] /\ Emitted[i + 1] = wire[i + 1] /\ \A j \in 1..i : Emitted[j] = wire[j]
  BY <1>1, <1>2
<1> QED
  BY <1>2, <1>3 DEF StreamInv

-----------------------------------------------------------------------------
(* Type correctness and the lock.                                          *)

\* The steps of a writer keep the types and the lock.
LEMMA TypeWrite ==
  ASSUME TypeOK, LockInv, NEW m \in Msgs, Write(m)
  PROVE  TypeOK' /\ LockInv'
<1> USE DEF Goto, readVars
<1>i. Item("header", m) \in Items /\ Item("body", m) \in Items /\ Item("part", m) \in Items
  BY DEF Item, Items
<1>r. /\ UNCHANGED <<rpc, rpos, rhdr, got, rclosed, codec>>
  BY DEF Write, WriteLock, CheckClosed, EncodeHeader, EncodeBody, RejectBody, GiveUp, Flush,
         WriteFails, WriteUnlock
<1>t. /\ wpc \in [Msgs -> {"idle", "check", "header", "body", "giveUp", "flush",
                           "written", "failed", "ok", "error"}]
      /\ lock \in BOOLEAN /\ rpos \in 0..Len(wire) /\ Len(wire) \in Nat
      /\ wire \in Seq(Items) /\ buf \in Seq(Items)
  BY DEF TypeOK
<1>w. ASSUME buf' \in Seq(Items), wire' \in Seq(Items), Len(wire) <= Len(wire'),
             lock' \in BOOLEAN, closed' \in BOOLEAN, connClosed' \in BOOLEAN, ignored' \in BOOLEAN,
             wpc' \in [Msgs -> {"idle", "check", "header", "body", "giveUp", "flush",
                                "written", "failed", "ok", "error"}]
      PROVE  TypeOK'
  <2>1. rpos' \in 0..Len(wire')
    BY <1>r, <1>t, <1>w
  <2> QED
    BY <1>r, <1>w, <2>1 DEF TypeOK
<1>1. CASE WriteLock(m)
  <2>1. TypeOK'
    BY <1>1, <1>t, <1>w DEF WriteLock, TypeOK
  <2>2. LockInv'
    BY <1>1, <1>r, <1>t DEF WriteLock, LockInv, Writing
  <2> QED
    BY <2>1, <2>2
<1>2. CASE CheckClosed(m) \/ WriteFails(m)
  <2>1. TypeOK'
    BY <1>2, <1>t, <1>w DEF CheckClosed, WriteFails, TypeOK
  <2>2. LockInv'
    BY <1>2, <1>r, <1>t DEF CheckClosed, WriteFails, LockInv, Writing
  <2> QED
    BY <2>1, <2>2
<1>3. CASE EncodeHeader(m) \/ EncodeBody(m) \/ (RejectBody(m) /\ Emit(Item("part", m)))
  <2>1. \E x \in Items : Emit(x)
    BY <1>3, <1>i DEF EncodeHeader, EncodeBody, RejectBody
  <2>2. /\ buf' \in Seq(Items) /\ wire' \in Seq(Items) /\ Len(wire) <= Len(wire')
        /\ ~codec.buffered => buf' = <<>>
    BY <2>1, EmitEffect
  <2>3. /\ wpc[m] \in {"header", "body"} /\ lock' = lock /\ UNCHANGED <<closed, connClosed, ignored>>
        /\ \/ wpc' = [wpc EXCEPT ![m] = "body"] \/ wpc' = [wpc EXCEPT ![m] = "flush"]
           \/ wpc' = [wpc EXCEPT ![m] = "giveUp"] \/ wpc' = [wpc EXCEPT ![m] = "failed"]
    BY <1>3 DEF EncodeHeader, EncodeBody, RejectBody
  <2>4. TypeOK'
    BY <1>t, <1>w, <2>2, <2>3 DEF TypeOK
  <2>5. LockInv'
    BY <1>r, <1>t, <2>2, <2>3 DEF LockInv, Writing
  <2> QED
    BY <2>4, <2>5
<1>4. CASE RejectBody(m) /\ UNCHANGED <<buf, wire>>
  <2>1. TypeOK'
    BY <1>4, <1>t, <1>w DEF RejectBody, TypeOK
  <2>2. LockInv'
    BY <1>4, <1>r, <1>t DEF RejectBody, LockInv, Writing
  <2> QED
    BY <2>1, <2>2
<1>5. CASE GiveUp(m) \/ Flush(m)
  <2>1. \/ UNCHANGED <<buf, wire>>
        \/ wire' = wire \o buf /\ buf' = <<>>
    BY <1>5 DEF GiveUp, Flush
  <2>2. /\ buf' \in Seq(Items) /\ wire' \in Seq(Items) /\ Len(wire) <= Len(wire')
        /\ buf = <<>> => buf' = <<>>
    BY <1>t, <2>1, FlushEffect
  <2>3. /\ wpc[m] \in {"giveUp", "flush"} /\ lock' = lock
        /\ closed' \in BOOLEAN /\ connClosed' \in BOOLEAN /\ ignored' \in BOOLEAN
        /\ wpc' = [wpc EXCEPT ![m] = "failed"] \/ wpc' = [wpc EXCEPT ![m] = "written"]
    BY <1>5 DEF GiveUp, Flush, TypeOK
  <2>4. TypeOK'
    BY <1>t, <1>w, <2>2, <2>3
  <2>5. LockInv'
    BY <1>r, <1>t, <2>2, <2>3 DEF LockInv, Writing
  <2> QED
    BY <2>4, <2>5
<1>6. CASE WriteUnlock(m)
  <2>1. TypeOK'
    BY <1>6, <1>t, <1>w DEF WriteUnlock, TypeOK
  <2>2. LockInv'
    BY <1>6, <1>r, <1>t DEF WriteUnlock, LockInv, Writing
  <2> QED
    BY <2>1, <2>2
<1> QED
  BY <1>1, <1>2, <1>3, <1>4, <1>5, <1>6 DEF Write, RejectBody

\* The reader is behind the header it took last.
LEMMA ReaderAt ==
  ASSUME TypeOK, ReadInv, rpc = "body"
  PROVE  rpos \in 1..Len(wire) /\ rhdr \in Msgs
  BY DEF TypeOK, ReadInv

\* The steps of the reader, of the buffer and of Close keep them too.
LEMMA TypeOthers ==
  ASSUME TypeOK, LockInv, ReadInv,
         Spill \/ CloseFlag \/ CloseConn \/ Read \/ ReaderClose \/ UNCHANGED vars
  PROVE  TypeOK' /\ LockInv'
<1> USE DEF writeVars, readVars
<1>t. wire \in Seq(Items) /\ buf \in Seq(Items) /\ Len(wire) \in Nat /\ rpos \in 0..Len(wire)
      /\ rhdr \in Msgs \cup {NoMsg} /\ got \in Seq(Msgs \X Items)
  BY DEF TypeOK
<1>1. CASE Spill
  <2>1. wire' \in Seq(Items) /\ buf' \in Seq(Items) /\ Len(wire) <= Len(wire') /\ buf' = <<>>
    BY <1>1, FlushEffect DEF Spill
  <2>2. UNCHANGED <<wpc, lock, closed, connClosed, ignored, rpc, rpos, rhdr, got, rclosed, codec>>
    BY <1>1 DEF Spill
  <2>3. rpos' \in 0..Len(wire')
    BY <1>t, <2>1, <2>2
  <2> QED
    BY <2>1, <2>2, <2>3 DEF TypeOK, LockInv, Writing
<1>2. CASE CloseFlag \/ CloseConn \/ ReaderClose \/ UNCHANGED vars
  BY <1>2 DEF CloseFlag, CloseConn, ReaderClose, vars, TypeOK, LockInv, Writing
<1>3. CASE Read
  <2>1. UNCHANGED <<wpc, lock, buf, wire, closed, connClosed, ignored, rclosed, codec>>
    BY <1>3 DEF Read, ReadHeader, ParseCustomHeader, TakeHeader, ReadBody, ReadEOF
  <2>2. LockInv'
    BY <2>1 DEF LockInv, Writing
  <2>3. /\ rpc' \in {"header", "body", "stopped"} /\ rpos' \in 0..Len(wire)
        /\ rhdr' \in Msgs \cup {NoMsg} /\ got' \in Seq(Msgs \X Items)
    <3>1. CASE ReadHeader \/ ParseCustomHeader
      <4>1. rpos + 1 \in 1..Len(wire)
        BY <1>t, <3>1 DEF ReadHeader, ParseCustomHeader, TakeHeader, HeaderThere
      <4>2. wire[rpos + 1].msg \in Msgs
        <5>1. wire[rpos + 1] \in Items
          BY <1>t, <4>1
        <5> QED
          BY <5>1 DEF Items
      <4> QED
        BY <1>t, <3>1, <4>1, <4>2 DEF ReadHeader, ParseCustomHeader, TakeHeader
    <3>2. CASE ReadBody
      <4>1. rhdr \in Msgs
        BY <3>2, ReaderAt DEF ReadBody
      <4>2. rpos + 1 \in 1..Len(wire) /\ rpos + Extent(rpos + 1) \in 0..Len(wire)
        BY <1>t, <3>2 DEF ReadBody, BodyThere, HeaderThere, Extent
      <4>3. <<rhdr, wire[rpos + 1]>> \in Msgs \X Items
        BY <1>t, <4>1, <4>2
      <4>4. Append(got, <<rhdr, wire[rpos + 1]>>) \in Seq(Msgs \X Items)
        BY <1>t, <4>3, AppendItem
      <4> QED
        BY <1>t, <3>2, <4>2, <4>4 DEF ReadBody
    <3>3. CASE ReadEOF
      BY <1>t, <3>3 DEF ReadEOF
    <3> QED
      BY <1>3, <3>1, <3>2, <3>3 DEF Read
  <2> QED
    BY <2>1, <2>2, <2>3 DEF TypeOK
<1> QED
  BY <1>1, <1>2, <1>3

-----------------------------------------------------------------------------
(* The stream.                                                             *)

\* The steps of a writer keep headers and bodies together.
LEMMA StreamWrite ==
  ASSUME TypeOK, LockInv, StreamInv, NEW m \in Msgs, Write(m)
  PROVE  StreamInv'
<1> USE DEF Goto
<1> DEFINE E == Emitted
           Clean(i) == \A j \in 1..i : E[j].msg \notin codec.rejected
<1>t. /\ wpc \in [Msgs -> {"idle", "check", "header", "body", "giveUp", "flush",
                           "written", "failed", "ok", "error"}]
      /\ E \in Seq(Items) /\ Len(E) \in Nat
  BY WireIsPrefix DEF TypeOK
<1>m. \A i \in 1..Len(E) : E[i].msg \in Msgs
  <2>1. \A i \in 1..Len(E) : E[i] \in Items
    BY <1>t
  <2> QED
    BY <2>1 DEF Items
<1>u. \A n \in Msgs : n # m => wpc'[n] = wpc[n] /\ (Writing(m) => ~Writing(n))
  BY <1>t DEF Write, WriteLock, CheckClosed, EncodeHeader, EncodeBody, RejectBody, GiveUp, Flush,
              WriteFails, WriteUnlock, LockInv
<1>c. codec' = codec /\ (connClosed => connClosed')
  BY DEF Write, WriteLock, CheckClosed, EncodeHeader, EncodeBody, RejectBody, GiveUp, Flush,
         WriteFails, WriteUnlock
<1>i. Item("header", m) \in Items /\ Item("body", m) \in Items /\ Item("part", m) \in Items
  BY DEF Item, Items
<1>s. ASSUME NEW i \in 1..Len(E), E[i].kind = "header", Clean(i)
      PROVE  IF i = Len(E) THEN wpc[E[i].msg] = "body" \/ (connClosed /\ ~codec.buffered)
                           ELSE E[i + 1] = Item("body", E[i].msg)
  BY <1>s DEF StreamInv
<1>1. ASSUME E' = E, wpc[m] = "body" => m \in codec.rejected \/ (connClosed' /\ ~codec.buffered)
      PROVE  StreamInv'
  <2> SUFFICES ASSUME NEW i \in 1..Len(E), E[i].kind = "header", Clean(i)
               PROVE  IF i = Len(E) THEN wpc'[E[i].msg] = "body" \/ (connClosed' /\ ~codec.buffered)
                                    ELSE E[i + 1] = Item("body", E[i].msg)
    BY <1>1, <1>c DEF StreamInv
  <2>1. E[i].msg \notin codec.rejected /\ E[i].msg \in Msgs
    BY <1>m
  <2>2. CASE E[i].msg # m
    BY <1>s, <1>u, <1>c, <2>1, <2>2
  <2>3. CASE E[i].msg = m
    BY <1>1, <1>s, <1>c, <2>1, <2>3
  <2> QED
    BY <2>2, <2>3
<1> HIDE DEF E
<1>2. ASSUME NEW x \in Items, E' = Append(E, x),
             ASSUME Len(E) # 0, E[Len(E)].kind = "header", Clean(Len(E))
             PROVE  x = Item("body", E[Len(E)].msg),
             x.kind = "header" => x = Item("header", m) /\ wpc'[m] = "body"
      PROVE  StreamInv'
  <2>1. /\ Len(E') = Len(E) + 1 /\ E'[Len(E) + 1] = x
        /\ \A i \in 1..Len(E) : E'[i] = E[i]
    BY <1>2, <1>t, AppendItem
  <2> SUFFICES ASSUME NEW i \in 1..(Len(E) + 1), E'[i].kind = "header",
                      \A j \in 1..i : E'[j].msg \notin codec.rejected
               PROVE  IF i = Len(E) + 1 THEN wpc'[E'[i].msg] = "body" \/ (connClosed' /\ ~codec.buffered)
                                        ELSE E'[i + 1] = Item("body", E'[i].msg)
    BY <1>c, <2>1 DEF StreamInv, E
  <2>2. CASE i = Len(E) + 1
    BY <1>2, <2>1, <2>2 DEF Item
  <2>3. CASE i \in 1..Len(E)
    <3>1. E[i].kind = "header" /\ Clean(i) /\ E'[i] = E[i]
      BY <1>t, <2>1, <2>3
    <3>2. CASE i = Len(E)
      <4>1. Len(E) # 0
        BY <1>t, <2>3
      <4>2. E'[i + 1] = Item("body", E[i].msg)
        BY <1>2, <2>1, <3>1, <3>2, <4>1
      <4> QED
        BY <1>t, <3>1, <3>2, <4>2
    <3>3. CASE i # Len(E)
      <4>1. i + 1 \in 1..Len(E)
        BY <1>t, <2>3, <3>3
      <4> QED
        BY <1>s, <1>t, <2>1, <2>3, <3>1, <3>3, <4>1
    <3> QED
      BY <3>2, <3>3
  <2> QED
    BY <1>t, <2>2, <2>3
<1>l. ASSUME Len(E) # 0, E[Len(E)].kind = "header", Clean(Len(E))
      PROVE  /\ E[Len(E)].msg \in Msgs \ codec.rejected
             /\ wpc[E[Len(E)].msg] = "body" \/ (connClosed /\ ~codec.buffered)
  <2>1. Len(E) \in 1..Len(E)
    BY <1>l, <1>t
  <2> QED
    BY <1>l, <1>m, <1>s, <2>1
<1>3. CASE WriteLock(m) \/ CheckClosed(m) \/ WriteUnlock(m) \/ WriteFails(m)
  BY <1>1, <1>3 DEF WriteLock, CheckClosed, WriteUnlock, WriteFails, E, Emitted
<1>4. CASE EncodeHeader(m)
  <2>1. E' = Append(E, Item("header", m)) /\ (~codec.buffered => ~connClosed)
    BY <1>4, <1>i, EmitEffect DEF EncodeHeader, E
  <2>2. wpc[m] = "header" /\ wpc'[m] = "body"
    BY <1>4, <1>t DEF EncodeHeader
  <2>3. ASSUME Len(E) # 0, E[Len(E)].kind = "header", Clean(Len(E))
        PROVE  FALSE
    BY <1>l, <1>u, <2>1, <2>2, <2>3 DEF Writing
  <2> QED
    BY <1>2, <1>i, <2>1, <2>2, <2>3
<1>5. CASE EncodeBody(m)
  <2>1. E' = Append(E, Item("body", m)) /\ (~codec.buffered => ~connClosed)
    BY <1>5, <1>i, EmitEffect DEF EncodeBody, E
  <2>2. wpc[m] = "body"
    BY <1>5 DEF EncodeBody
  <2>3. ASSUME Len(E) # 0, E[Len(E)].kind = "header", Clean(Len(E))
        PROVE  Item("body", m) = Item("body", E[Len(E)].msg)
    <3>1. wpc[E[Len(E)].msg] = "body" /\ E[Len(E)].msg \in Msgs
      BY <1>l, <2>1, <2>3
    <3>2. E[Len(E)].msg = m
      BY <1>u, <2>2, <3>1 DEF Writing
    <3> QED
      BY <3>2
  <2>4. Item("body", m).kind # "header"
    BY DEF Item
  <2> QED
    BY <1>2, <1>i, <2>1, <2>3, <2>4
<1>6. CASE RejectBody(m) /\ Emit(Item("part", m))
  <2>1. E' = Append(E, Item("part", m)) /\ (~codec.buffered => ~connClosed)
    BY <1>6, <1>i, EmitEffect DEF E
  <2>2. wpc[m] = "body" /\ m \in codec.rejected
    BY <1>6 DEF RejectBody
  <2>3. ASSUME Len(E) # 0, E[Len(E)].kind = "header", Clean(Len(E))
        PROVE  FALSE
    BY <1>l, <1>u, <2>1, <2>2, <2>3 DEF Writing
  <2>4. Item("part", m).kind # "header"
    BY DEF Item
  <2> QED
    BY <1>2, <1>i, <2>1, <2>3, <2>4
<1>7. CASE RejectBody(m) /\ UNCHANGED <<buf, wire>>
  BY <1>1, <1>7 DEF RejectBody, E, Emitted
<1>8. CASE GiveUp(m) \/ Flush(m)
  <2>1. wpc[m] \in {"giveUp", "flush"}
    BY <1>8 DEF GiveUp, Flush
  <2>2. UNCHANGED <<buf, wire>> \/ (wire' = wire \o buf /\ buf' = <<>>)
    BY <1>8 DEF GiveUp, Flush
  <2>3. E' = E
    BY <2>2, FlushEffect DEF E, Emitted
  <2> QED
    BY <1>1, <2>1, <2>3
<1> QED
  BY <1>3, <1>4, <1>5, <1>6, <1>7, <1>8 DEF Write, RejectBody

\* What neither encodes nor moves a writer keeps them together, too.
LEMMA StreamOthers ==
  ASSUME TypeOK, StreamInv,
         Spill \/ CloseFlag \/ CloseConn \/ Read \/ ReaderClose \/ UNCHANGED vars
  PROVE  StreamInv'
<1>1. UNCHANGED <<wpc, codec>> /\ (connClosed => connClosed')
  BY DEF Spill, CloseFlag, CloseConn, Read, ReadHeader, ParseCustomHeader, TakeHeader, ReadBody,
         ReadEOF, ReaderClose, vars, writeVars
<1>2. UNCHANGED <<wire, buf>> \/ (wire' = wire \o buf /\ buf' = <<>>)
  BY DEF Spill, CloseFlag, CloseConn, Read, ReadHeader, ParseCustomHeader, TakeHeader, ReadBody,
         ReadEOF, ReaderClose, vars, writeVars
<1>3. Emitted' = Emitted
  BY <1>2, FlushEffect DEF Emitted
<1> QED
  BY <1>1, <1>3 DEF StreamInv

\* The steps of a writer keep an item behind the header of its message.
LEMMA UnitWrite ==
  ASSUME TypeOK, LockInv, UnitInv, NEW m \in Msgs, Write(m)
  PROVE  UnitInv'
<1> USE DEF Goto
<1> DEFINE E == Emitted
<1>t. /\ wpc \in [Msgs -> {"idle", "check", "header", "body", "giveUp", "flush",
                           "written", "failed", "ok", "error"}]
      /\ E \in Seq(Items) /\ Len(E) \in Nat
  BY WireIsPrefix DEF TypeOK
<1>u. \A n \in Msgs : n # m => wpc'[n] = wpc[n] /\ (Writing(m) => ~Writing(n))
  BY <1>t DEF Write, WriteLock, CheckClosed, EncodeHeader, EncodeBody, RejectBody, GiveUp, Flush,
              WriteFails, WriteUnlock, LockInv
<1>i. Item("header", m) \in Items /\ Item("body", m) \in Items /\ Item("part", m) \in Items
  BY DEF Item, Items
<1>s. /\ \A i \in 1..Len(E) : E[i].kind # "header" => i > 1 /\ E[i - 1] = Item("header", E[i].msg)
      /\ \A n \in Msgs : wpc[n] = "body" => Len(E) > 0 /\ E[Len(E)] = Item("header", n)
  BY DEF UnitInv
<1> HIDE DEF E
<1>1. ASSUME E' = E, wpc'[m] = "body" => wpc[m] = "body"
      PROVE  UnitInv'
  <2>1. \A n \in Msgs : wpc'[n] = "body" => wpc[n] = "body"
    BY <1>1, <1>u
  <2> QED
    BY <1>1, <1>s, <2>1 DEF UnitInv, E
<1>2. ASSUME NEW x \in Items, E' = Append(E, x), x.msg = m, Writing(m),
             x.kind # "header" => wpc[m] = "body",
             wpc'[m] = "body" => x = Item("header", m)
      PROVE  UnitInv'
  <2>1. /\ Len(E') = Len(E) + 1 /\ E'[Len(E) + 1] = x
        /\ \A i \in 1..Len(E) : E'[i] = E[i]
    BY <1>2, <1>t, AppendItem
  <2>2. ASSUME NEW i \in 1..(Len(E) + 1), E'[i].kind # "header"
        PROVE  i > 1 /\ E'[i - 1] = Item("header", E'[i].msg)
    <3>1. CASE i = Len(E) + 1
      <4>1. Len(E) > 0 /\ E[Len(E)] = Item("header", m)
        BY <1>2, <1>s, <2>1, <2>2, <3>1
      <4>2. Len(E) \in 1..Len(E) /\ i - 1 = Len(E) /\ i > 1
        BY <1>t, <3>1, <4>1
      <4>3. E'[i].msg = m
        BY <1>2, <2>1, <3>1
      <4> QED
        BY <2>1, <4>1, <4>2, <4>3
    <3>2. CASE i \in 1..Len(E)
      <4>1. E'[i] = E[i] /\ i > 1 /\ E[i - 1] = Item("header", E[i].msg)
        BY <1>s, <2>1, <2>2, <3>2
      <4>2. i - 1 \in 1..Len(E)
        BY <1>t, <3>2, <4>1
      <4>3. E'[i - 1] = E[i - 1]
        BY <2>1, <4>2
      <4> QED
        BY <4>1, <4>3
    <3> QED
      BY <1>t, <3>1, <3>2
  <2>3. ASSUME NEW n \in Msgs, wpc'[n] = "body"
        PROVE  Len(E') > 0 /\ E'[Len(E')] = Item("header", n)
    <3>1. n = m
      BY <1>2, <1>u, <2>3 DEF Writing
    <3>2. E'[Len(E')] = Item("header", n)
      BY <1>2, <2>1, <2>3, <3>1
    <3> QED
      BY <1>t, <2>1, <3>2
  <2> QED
    BY <2>1, <2>2, <2>3 DEF UnitInv, E
<1>3. CASE WriteLock(m) \/ CheckClosed(m) \/ WriteUnlock(m) \/ WriteFails(m)
           \/ (RejectBody(m) /\ UNCHANGED <<buf, wire>>)
  <2>1. E' = E
    BY <1>3 DEF WriteLock, CheckClosed, WriteUnlock, WriteFails, E, Emitted
  <2>2. wpc'[m] # "body"
    BY <1>3, <1>t DEF WriteLock, CheckClosed, WriteUnlock, WriteFails, RejectBody
  <2> QED
    BY <1>1, <2>1, <2>2
<1>4. CASE GiveUp(m) \/ Flush(m)
  <2>1. UNCHANGED <<buf, wire>> \/ (wire' = wire \o buf /\ buf' = <<>>)
    BY <1>4 DEF GiveUp, Flush
  <2>2. E' = E
    BY <2>1, FlushEffect DEF E, Emitted
  <2>3. wpc'[m] # "body"
    BY <1>4, <1>t DEF GiveUp, Flush
  <2> QED
    BY <1>1, <2>2, <2>3
<1>5. CASE EncodeHeader(m)
  <2>1. E' = Append(E, Item("header", m)) /\ Writing(m)
    BY <1>5, <1>i, EmitEffect DEF EncodeHeader, E, Writing
  <2>2. Item("header", m).kind = "header" /\ Item("header", m).msg = m
    BY DEF Item
  <2> QED
    BY <1>2, <1>i, <2>1, <2>2
<1>6. CASE EncodeBody(m)
  <2>1. E' = Append(E, Item("body", m)) /\ Writing(m) /\ wpc[m] = "body" /\ wpc'[m] # "body"
    BY <1>6, <1>i, <1>t, EmitEffect DEF EncodeBody, E, Writing
  <2>2. Item("body", m).msg = m
    BY DEF Item
  <2> QED
    BY <1>2, <1>i, <2>1, <2>2
<1>7. CASE RejectBody(m) /\ Emit(Item("part", m))
  <2>1. E' = Append(E, Item("part", m)) /\ Writing(m) /\ wpc[m] = "body" /\ wpc'[m] # "body"
    BY <1>7, <1>i, <1>t, EmitEffect DEF RejectBody, E, Writing
  <2>2. Item("part", m).msg = m
    BY DEF Item
  <2> QED
    BY <1>2, <1>i, <2>1, <2>2
<1> QED
  BY <1>3, <1>4, <1>5, <1>6, <1>7 DEF Write, RejectBody

\* So do the others.
LEMMA UnitOthers ==
  ASSUME TypeOK, UnitInv,
         Spill \/ CloseFlag \/ CloseConn \/ Read \/ ReaderClose \/ UNCHANGED vars
  PROVE  UnitInv'
<1>1. UNCHANGED wpc
  BY DEF Spill, CloseFlag, CloseConn, Read, ReadHeader, ParseCustomHeader, TakeHeader, ReadBody,
         ReadEOF, ReaderClose, vars, writeVars
<1>2. UNCHANGED <<wire, buf>> \/ (wire' = wire \o buf /\ buf' = <<>>)
  BY DEF Spill, CloseFlag, CloseConn, Read, ReadHeader, ParseCustomHeader, TakeHeader, ReadBody,
         ReadEOF, ReaderClose, vars, writeVars
<1>3. Emitted' = Emitted
  BY <1>2, FlushEffect DEF Emitted
<1> QED
  BY <1>1, <1>3 DEF UnitInv

\* ignored stays set.
LEMMA IgnoredStays ==
  ASSUME NEW m \in Msgs, Write(m), ignored
  PROVE  ignored'
<1>1. CASE GiveUp(m)
  <2>1. ignored' = ignored \/ ignored' = (ignored \/ closed)
    BY <1>1 DEF GiveUp
  <2> QED
    BY <2>1
<1>2. CASE ~GiveUp(m)
  BY <1>2 DEF Write, WriteLock, CheckClosed, EncodeHeader, EncodeBody, RejectBody, Flush,
              WriteFails, WriteUnlock
<1> QED
  BY <1>1, <1>2

\* A step that encodes nothing keeps GobInv if what it flushes goes to an open
\* connection and a writer of a rejected response that moves on closes it.
LEMMA GobQuiet ==
  ASSUME TypeOK, GobInv, codec' = codec, Emitted' = Emitted, connClosed => connClosed',
         ignored => ignored',
         wire' = wire \/ (wire' = Emitted /\ ~connClosed),
         \A n \in codec.rejected \cap Msgs :
            wpc[n] \in {"body", "giveUp"} => wpc'[n] \in {"body", "giveUp"} \/ connClosed' \/ ignored'
  PROVE  GobInv'
<1> SUFFICES ASSUME codec.kind = "gobServer", ~ignored'
             PROVE  /\ \A i \in 1..Len(Emitted) :
                         Emitted[i].msg \in codec.rejected /\ ~connClosed' =>
                           i = Len(Emitted) /\ wpc'[Emitted[i].msg] \in {"body", "giveUp"}
                    /\ \A i \in 1..Len(wire') : wire'[i].msg \in codec.rejected => i = Len(wire')
  BY DEF GobInv
<1>1. \A i \in 1..Len(Emitted) : Emitted[i].msg \in Msgs
  <2>1. \A i \in 1..Len(Emitted) : Emitted[i] \in Items
    BY WireIsPrefix
  <2> QED
    BY <2>1 DEF Items
<1>2. ASSUME NEW i \in 1..Len(Emitted), Emitted[i].msg \in codec.rejected, ~connClosed'
      PROVE  i = Len(Emitted) /\ wpc'[Emitted[i].msg] \in {"body", "giveUp"}
  BY <1>1, <1>2 DEF GobInv
<1>3. ASSUME NEW i \in 1..Len(wire'), wire'[i].msg \in codec.rejected
      PROVE  i = Len(wire')
  BY <1>3 DEF GobInv
<1> QED
  BY <1>2, <1>3

\* The steps of a writer keep GobInv: while the header of a rejected response
\* is last in the stream its writer has the lock, and it closes the connection
\* before it lets go of it.
LEMMA GobWrite ==
  ASSUME TypeOK, LockInv, GobInv, NEW m \in Msgs, Write(m)
  PROVE  GobInv'
<1> USE DEF Goto
<1>t. wpc \in [Msgs -> {"idle", "check", "header", "body", "giveUp", "flush",
                        "written", "failed", "ok", "error"}]
  BY DEF TypeOK
<1>d. codec' = codec /\ (connClosed => connClosed')
  BY DEF Write, WriteLock, CheckClosed, EncodeHeader, EncodeBody, RejectBody, GiveUp, Flush,
         WriteFails, WriteUnlock
<1>c. codec' = codec /\ (connClosed => connClosed') /\ (ignored => ignored')
  BY <1>d, IgnoredStays
<1> SUFFICES ASSUME codec.kind = "gobServer", ~ignored, ~ignored'
             PROVE  GobInv'
  BY <1>c DEF GobInv
<1>b. codec.buffered /\ ~UsesMsgpack
  BY DEF TypeOK, Codecs, UsesMsgpack
<1>i. Item("header", m) \in Items /\ Item("body", m) \in Items
  BY DEF Item, Items
<1>1. CASE WriteLock(m) \/ CheckClosed(m) \/ WriteUnlock(m) \/ RejectBody(m)
  <2>1. UNCHANGED <<wire, buf>>
    BY <1>1, <1>b DEF WriteLock, CheckClosed, WriteUnlock, RejectBody
  <2>2. Emitted' = Emitted
    BY <2>1 DEF Emitted
  <2>3. \A n \in Msgs : wpc[n] \in {"body", "giveUp"} => wpc'[n] \in {"body", "giveUp"}
    BY <1>1, <1>t DEF WriteLock, CheckClosed, WriteUnlock, RejectBody
  <2> QED
    BY <1>c, <2>1, <2>2, <2>3, GobQuiet
<1>2. CASE GiveUp(m) \/ Flush(m)
  <2>1. UNCHANGED <<buf, wire>> \/ (wire' = wire \o buf /\ buf' = <<>> /\ ~connClosed)
    BY <1>2, <1>b DEF GiveUp, Flush
  <2>2. Emitted' = Emitted /\ (wire' = wire \/ (wire' = Emitted /\ ~connClosed))
    BY <2>1, FlushEffect DEF Emitted
  <2>3. \A n \in Msgs :
          wpc[n] \in {"body", "giveUp"} => wpc'[n] \in {"body", "giveUp"} \/ connClosed' \/ ignored'
    <3>1. CASE GiveUp(m)
      <4>1. connClosed' \/ ignored'
        BY <3>1 DEF GiveUp, TypeOK
      <4> QED
        BY <4>1
    <3>2. CASE Flush(m)
      BY <1>t, <3>2 DEF Flush
    <3> QED
      BY <1>2, <3>1, <3>2
  <2> QED
    BY <1>c, <2>2, <2>3, GobQuiet
<1>3. CASE EncodeHeader(m) \/ EncodeBody(m)
  <2>1. PICK x \in Items : /\ Emit(x) /\ x.msg = m /\ UNCHANGED connClosed
                           /\ m \in codec.rejected => wpc[m] = "header" /\ wpc'[m] = "body"
    BY <1>3, <1>i, <1>t DEF EncodeHeader, EncodeBody, Item
  <2>2. Emitted' = Append(Emitted, x) /\ wire' = wire
    BY <1>b, <2>1, EmitEffect
  <2>e. Emitted \in Seq(Items) /\ Len(Emitted) \in Nat
    BY WireIsPrefix
  <2>3. /\ Len(Emitted') = Len(Emitted) + 1 /\ Emitted'[Len(Emitted) + 1] = x
        /\ \A i \in 1..Len(Emitted) : Emitted'[i] = Emitted[i]
    BY <2>2, <2>e, AppendItem
  <2>w. m \in codec.rejected => wpc[m] \notin {"body", "giveUp"}
    BY <2>1
  <2>4. ASSUME NEW i \in 1..Len(Emitted), Emitted[i].msg \in codec.rejected, ~connClosed
        PROVE  FALSE
    <3>1. wpc[Emitted[i].msg] \in {"body", "giveUp"}
      BY <2>4 DEF GobInv
    <3>2. Emitted[i].msg \in Msgs
      <4>1. Emitted[i] \in Items
        BY <2>e
      <4> QED
        BY <4>1 DEF Items
    <3>3. Writing(m) /\ Writing(Emitted[i].msg)
      BY <1>3, <3>1 DEF EncodeHeader, EncodeBody, Writing
    <3>4. Emitted[i].msg = m
      BY <3>2, <3>3 DEF LockInv
    <3> QED
      BY <2>w, <2>4, <3>1, <3>4
  <2>5. ASSUME NEW i \in 1..Len(Emitted'), Emitted'[i].msg \in codec.rejected, ~connClosed'
        PROVE  i = Len(Emitted') /\ wpc'[Emitted'[i].msg] \in {"body", "giveUp"}
    <3>1. i \notin 1..Len(Emitted)
      BY <2>1, <2>3, <2>4, <2>5
    <3>2. i = Len(Emitted) + 1
      BY <2>e, <2>3, <3>1
    <3> QED
      BY <2>1, <2>3, <2>5, <3>2
  <2>6. \A i \in 1..Len(wire') : wire'[i].msg \in codec.rejected => i = Len(wire')
    BY <2>2 DEF GobInv
  <2> QED
    BY <1>c, <2>5, <2>6 DEF GobInv
<1> QED
  BY <1>1, <1>2, <1>3, <1>b DEF Write, WriteFails

\* The other steps keep it, too.
LEMMA GobOthers ==
  ASSUME TypeOK, GobInv,
         Spill \/ CloseFlag \/ CloseConn \/ Read \/ ReaderClose \/ UNCHANGED vars
  PROVE  GobInv'
<1>1. UNCHANGED <<wpc, codec, ignored>> /\ (connClosed => connClosed')
  BY DEF Spill, CloseFlag, CloseConn, Read, ReadHeader, ParseCustomHeader, TakeHeader, ReadBody,
         ReadEOF, ReaderClose, vars, writeVars
<1>2. UNCHANGED <<wire, buf>> \/ (wire' = wire \o buf /\ buf' = <<>> /\ ~connClosed)
  BY DEF Spill, CloseFlag, CloseConn, Read, ReadHeader, ParseCustomHeader, TakeHeader, ReadBody,
         ReadEOF, ReaderClose, vars, writeVars
<1>3. Emitted' = Emitted /\ (wire' = wire \/ (wire' = Emitted /\ ~connClosed))
  BY <1>2, FlushEffect DEF Emitted
<1> QED
  BY <1>1, <1>3, GobQuiet

-----------------------------------------------------------------------------
(* The reader.                                                             *)

\* What is on the wire stays there.
LEMMA WireGrows ==
  ASSUME TypeOK, LockInv, (\E m \in Msgs : Write(m)) \/ Spill
  PROVE  /\ \A i \in 1..Len(wire) : wire'[i] = wire[i]
         /\ UNCHANGED <<rpc, rpos, rhdr, got, codec>>
<1> USE DEF readVars
<1>1. CASE Spill
  BY <1>1, FlushEffect DEF Spill
<1>2. ASSUME NEW m \in Msgs, Write(m)
      PROVE  /\ \A i \in 1..Len(wire) : wire'[i] = wire[i]
             /\ UNCHANGED <<rpc, rpos, rhdr, got, codec>>
  <2>1. UNCHANGED <<rpc, rpos, rhdr, got, codec>>
    BY <1>2 DEF Write, WriteLock, CheckClosed, EncodeHeader, EncodeBody, RejectBody, GiveUp, Flush,
                WriteFails, WriteUnlock
  <2>2. Item("header", m) \in Items /\ Item("body", m) \in Items /\ Item("part", m) \in Items
    BY DEF Item, Items
  <2>3. \/ UNCHANGED wire
        \/ wire' = wire \o buf /\ buf' = <<>>
        \/ \E x \in Items : Emit(x)
    BY <1>2, <2>2 DEF Write, WriteLock, CheckClosed, EncodeHeader, EncodeBody, RejectBody, GiveUp,
                      Flush, WriteFails, WriteUnlock
  <2> QED
    BY <2>1, <2>3, FlushEffect, EmitEffect
<1> QED
  BY <1>1, <1>2

\* Nothing the reader has read changes under it.
LEMMA ReadOthers ==
  ASSUME TypeOK, LockInv, ReadInv, DamageOnlyAfterReject, GobServerStops,
         \/ \E m \in Msgs : Write(m)
         \/ Spill \/ CloseFlag \/ CloseConn \/ ReaderClose \/ UNCHANGED vars
  PROVE  ReadInv' /\ DamageOnlyAfterReject' /\ GobServerStops'
<1>1. /\ \A i \in 1..Len(wire) : wire'[i] = wire[i]
      /\ UNCHANGED <<rpc, rpos, rhdr, got, codec>>
  BY WireGrows DEF CloseFlag, CloseConn, ReaderClose, vars, readVars
<1>g. ignored => ignored'
  BY IgnoredStays DEF Spill, CloseFlag, CloseConn, ReaderClose, vars
<1>2. DamageOnlyAfterReject' /\ GobServerStops'
  BY <1>1, <1>g DEF DamageOnlyAfterReject, GobServerStops, PairsIntact
<1>3. rpos \in Nat /\ Len(wire) \in Nat /\ rpos <= Len(wire)
  BY DEF TypeOK
<1>4. \A j \in 1..rpos : wire'[j] = wire[j]
  BY <1>1, <1>3
<1>5. rpos # 0 => rpos \in 1..rpos
  BY <1>3
<1>6. rpos # 0 => wire'[rpos] = wire[rpos]
  BY <1>4, <1>5
<1>7. ReadInv'
  BY <1>1, <1>3, <1>4, <1>6 DEF ReadInv
<1> QED
  BY <1>2, <1>7

\* Reading a header: only behind a rejected message something else is there.
LEMMA ReadsHeader ==
  ASSUME TypeOK, UnitInv, ReadInv, TakeHeader
  PROVE  ReadInv'
<1>1. /\ rpos \in Nat /\ Len(wire) \in Nat /\ rpos + 1 \in 1..Len(wire)
      /\ rpos' = rpos + 1
      /\ UNCHANGED <<wire, got, codec>> /\ rpc = "header"
  BY DEF TakeHeader, HeaderThere, TypeOK
<1>2. wire[rpos + 1] \in Items /\ wire[rpos + 1].msg \in Msgs
  <2>1. wire[rpos + 1] \in Items
    BY <1>1 DEF TypeOK
  <2> QED
    BY <2>1 DEF Items
<1>3. CASE wire[rpos + 1].kind = "header"
  <2>1. rhdr' = wire[rpos + 1].msg /\ rpc' = "body"
    BY <1>3 DEF TakeHeader
  <2>2. wire'[rpos'] = Item("header", rhdr')
    BY <1>1, <1>2, <1>3, <2>1 DEF Item, Items
  <2>3. ASSUME \A i \in 1..Len(got) : got[i][1] \notin codec.rejected, rhdr' \notin codec.rejected,
               NEW j \in 1..(rpos + 1)
        PROVE  wire[j].msg \notin codec.rejected
    <3>1. CASE j = rpos + 1
      BY <2>1, <2>3, <3>1
    <3>2. CASE j \in 1..rpos
      BY <1>1, <2>3, <3>2 DEF ReadInv
    <3> QED
      BY <1>1, <3>1, <3>2
  <2>4. rpos' > 0 /\ rhdr' \in Msgs
    BY <1>1, <1>2, <2>1
  <2> QED
    BY <1>1, <2>1, <2>2, <2>3, <2>4 DEF ReadInv
<1>4. CASE wire[rpos + 1].kind # "header"
  <2>1. /\ Len(Emitted) \in Nat /\ Len(wire) <= Len(Emitted)
        /\ \A i \in 1..Len(wire) : Emitted[i] = wire[i]
    BY WireIsPrefix
  <2>2. rpos + 1 > 1 /\ Emitted[(rpos + 1) - 1] = Item("header", Emitted[rpos + 1].msg)
    <3>1. rpos + 1 \in 1..Len(Emitted) /\ Emitted[rpos + 1] = wire[rpos + 1]
      BY <1>1, <2>1
    <3> QED
      BY <1>4, <3>1 DEF UnitInv
  <2>3. rpos \in 1..Len(wire) /\ (rpos + 1) - 1 = rpos
    BY <1>1, <2>2
  <2>4. wire[rpos].kind = "header" /\ rpos # 0
    BY <2>1, <2>2, <2>3 DEF Item
  <2>5. ~\A i \in 1..Len(got) : got[i][1] \notin codec.rejected
    BY <1>1, <2>4 DEF ReadInv
  <2>6. rpc' = "body" => rpos' > 0 /\ rhdr' \in Msgs
    BY <1>1, <1>4 DEF TakeHeader
  <2> QED
    BY <1>1, <2>5, <2>6 DEF ReadInv
<1> QED
  BY <1>3, <1>4

\* Reading a body: behind a header of a message that could be encoded is its
\* own body, and behind a header that gobServerCodec could not follow up with
\* a body there is nothing.
LEMMA ReadsBody ==
  ASSUME TypeOK, StreamInv, GobInv, ReadInv, DamageOnlyAfterReject, GobServerStops, ReadBody
  PROVE  ReadInv' /\ DamageOnlyAfterReject' /\ GobServerStops'
<1>1. /\ rpos \in Nat /\ Len(wire) \in Nat /\ rpos + 1 \in 1..Len(wire)
      /\ rpos' = rpos + Extent(rpos + 1)
      /\ UNCHANGED <<wire, codec, ignored>> /\ rpc = "body"
      /\ rpc' \in {"header", "stopped"}
  BY DEF ReadBody, BodyThere, HeaderThere, TypeOK
<1>2. rpos \in 1..Len(wire) /\ rhdr \in Msgs
  BY <1>1, ReaderAt
<1>h. ASSUME \A i \in 1..Len(got) : got[i][1] \notin codec.rejected
      PROVE  wire[rpos] = Item("header", rhdr)
  BY <1>1, <1>h DEF ReadInv
<1>3. CASE got' = got /\ rpc' = "stopped"
  BY <1>1, <1>3 DEF ReadInv, DamageOnlyAfterReject, GobServerStops, PairsIntact
<1>4. CASE got' = Append(got, <<rhdr, wire[rpos + 1]>>) /\ rpc' = "header"
  <2>g. got \in Seq(Msgs \X Items) /\ <<rhdr, wire[rpos + 1]>> \in Msgs \X Items
    BY <1>1, <1>2 DEF TypeOK
  <2>1. /\ Len(got) \in Nat /\ Len(got') = Len(got) + 1
        /\ got'[Len(got) + 1] = <<rhdr, wire[rpos + 1]>>
        /\ \A i \in 1..Len(got) : got'[i] = got[i]
    BY <1>4, <2>g, AppendItem
  <2>2. ASSUME \A i \in 1..Len(got) : got[i][1] \notin codec.rejected, rhdr \notin codec.rejected
        PROVE  /\ wire[rpos + 1] = Item("body", rhdr)
               /\ \A j \in 1..rpos : wire[j].msg \notin codec.rejected
    <3>1. \A j \in 1..rpos : wire[j].msg \notin codec.rejected
      BY <1>1, <2>2 DEF ReadInv
    <3>2. SentAsUnit /\ rpos # Len(wire)
      BY <1>1, UnitFromStream
    <3>3. wire[rpos].kind = "header" /\ wire[rpos].msg = rhdr
      BY <1>h, <2>2 DEF Item
    <3> QED
      BY <1>2, <3>1, <3>2, <3>3 DEF SentAsUnit
  <2>3. ASSUME \A i \in 1..Len(got') : got'[i][1] \notin codec.rejected
        PROVE  \A i \in 1..Len(got) : got[i][1] \notin codec.rejected
    <3>1. \A i \in 1..Len(got) : i \in 1..Len(got')
      BY <2>1
    <3> QED
      BY <2>1, <2>3, <3>1
  <2>r. ASSUME \A i \in 1..Len(got') : got'[i][1] \notin codec.rejected
        PROVE  rhdr \notin codec.rejected
    <3>1. Len(got) + 1 \in 1..Len(got')
      BY <2>1
    <3> QED
      BY <2>1, <2>r, <3>1
  <2>4. ReadInv'
    <3> SUFFICES ASSUME \A i \in 1..Len(got') : got'[i][1] \notin codec.rejected
                 PROVE  /\ wire[rpos'].kind # "header"
                        /\ \A j \in 1..rpos' : wire[j].msg \notin codec.rejected
      BY <1>1, <1>4 DEF ReadInv
    <3>1. /\ wire[rpos + 1] = Item("body", rhdr)
          /\ \A k \in 1..rpos : wire[k].msg \notin codec.rejected
      BY <2>2, <2>3, <2>r
    <3>2. wire[rpos + 1].msg = rhdr /\ rhdr \notin codec.rejected /\ rpos' = rpos + 1
      BY <1>1, <2>r, <3>1 DEF Extent, Item
    <3>3. wire[rpos'].kind # "header"
      BY <3>1, <3>2 DEF Item
    <3>4. ASSUME NEW j \in 1..rpos' PROVE wire[j].msg \notin codec.rejected
      <4>1. j \in 1..rpos \/ j = rpos + 1
        BY <1>1, <3>2
      <4> QED
        BY <3>1, <3>2, <4>1
    <3> QED
      BY <3>3, <3>4
  <2>5. DamageOnlyAfterReject'
    <3> SUFFICES ASSUME NEW i \in 1..Len(got'), \A j \in 1..i : got'[j][1] \notin codec.rejected
                 PROVE  got'[i][2] = Item("body", got'[i][1])
      BY <1>1 DEF DamageOnlyAfterReject
    <3>1. CASE i \in 1..Len(got)
      <4>1. \A j \in 1..i : j \in 1..Len(got)
        BY <2>1, <3>1
      <4>2. \A j \in 1..i : got[j][1] \notin codec.rejected
        BY <2>1, <4>1
      <4> QED
        BY <2>1, <3>1, <4>2 DEF DamageOnlyAfterReject
    <3>2. CASE i = Len(got) + 1
      <4>1. i = Len(got')
        BY <2>1, <3>2
      <4>2. wire[rpos + 1] = Item("body", rhdr)
        BY <2>2, <2>3, <2>r, <4>1
      <4> QED
        BY <2>1, <3>2, <4>2
    <3> QED
      BY <2>1, <3>1, <3>2
  <2>6. GobServerStops'
    <3> SUFFICES ASSUME codec.kind = "gobServer", ~ignored
                 PROVE  PairsIntact' /\ \A i \in 1..Len(got') : got'[i][1] \notin codec.rejected
      BY <1>1 DEF GobServerStops
    <3>2. \A i \in 1..Len(got) : got[i][1] \notin codec.rejected
      BY DEF GobServerStops
    <3>1. rhdr \notin codec.rejected
      <4>1. rpos # Len(wire) /\ wire[rpos].msg = rhdr
        BY <1>1, <1>h, <3>2 DEF Item
      <4> QED
        BY <1>2, <4>1 DEF GobInv
    <3>3. \A i \in 1..Len(got') : got'[i][1] \notin codec.rejected
      <4> TAKE i \in 1..Len(got')
      <4>1. i \in 1..Len(got) \/ i = Len(got) + 1
        BY <2>1
      <4> QED
        BY <2>1, <3>1, <3>2, <4>1
    <3>4. ASSUME NEW i \in 1..Len(got')
          PROVE  got'[i][2] = Item("body", got'[i][1])
      <4>1. \A j \in 1..i : j \in 1..Len(got')
        BY <2>1
      <4>2. \A j \in 1..i : got'[j][1] \notin codec'.rejected
        BY <1>1, <3>3, <4>1
      <4> QED
        BY <2>5, <4>2 DEF DamageOnlyAfterReject
    <3> QED
      BY <3>3, <3>4 DEF PairsIntact
  <2> QED
    BY <2>4, <2>5, <2>6
<1> QED
  BY <1>3, <1>4 DEF ReadBody

\* The steps of the reader.
LEMMA ReadStep ==
  ASSUME CodecInv, Read
  PROVE  ReadInv' /\ DamageOnlyAfterReject' /\ GobServerStops'
<1> USE DEF CodecInv
<1>1. CASE ReadHeader \/ ParseCustomHeader
  <2>1. TakeHeader /\ UNCHANGED <<got, codec, ignored>>
    BY <1>1 DEF ReadHeader, ParseCustomHeader, TakeHeader
  <2>2. DamageOnlyAfterReject' /\ GobServerStops'
    BY <2>1 DEF DamageOnlyAfterReject, GobServerStops, PairsIntact
  <2> QED
    BY <2>1, <2>2, ReadsHeader
<1>2. CASE ReadBody
  BY <1>2, ReadsBody
<1>3. CASE ReadEOF
  BY <1>3 DEF ReadEOF, ReadInv, DamageOnlyAfterReject, GobServerStops, PairsIntact
<1> QED
  BY <1>1, <1>2, <1>3 DEF Read

-----------------------------------------------------------------------------
(* The theorems.                                                           *)

\* CodecInv holds initially: nothing is written or read.
LEMMA CodecInitially ==
  ASSUME Init
  PROVE  CodecInv
<1>1. /\ wire = <<>> /\ buf = <<>> /\ got = <<>> /\ rpos = 0 /\ rpc = "header"
      /\ \A m \in Msgs : wpc[m] = "idle"
  BY DEF Init
<1>2. TypeOK
  <2>1. wire \in Seq(Items) /\ buf \in Seq(Items) /\ got \in Seq(Msgs \X Items) /\ Len(wire) = 0
    BY <1>1
  <2>2. rpos \in 0..Len(wire)
    BY <1>1, <2>1
  <2> QED
    BY <2>1, <2>2 DEF Init, TypeOK
<1>3. LockInv
  BY <1>1 DEF LockInv, Writing
<1>4. Len(Emitted) = 0 /\ Len(wire) = 0 /\ Len(got) = 0
  BY <1>1 DEF Emitted
<1>5. 1..0 = {}
  OBVIOUS
<1>6. StreamInv /\ UnitInv /\ GobInv
  BY <1>1, <1>4, <1>5 DEF StreamInv, UnitInv, GobInv
<1>7. ReadInv /\ DamageOnlyAfterReject /\ GobServerStops
  BY <1>1, <1>4, <1>5 DEF ReadInv, DamageOnlyAfterReject, GobServerStops, PairsIntact
<1> QED
  BY <1>2, <1>3, <1>6, <1>7 DEF CodecInv

\* Every step of writers, reader and Close keeps CodecInv.
LEMMA CodecStep ==
  ASSUME CodecInv, [Next]_vars
  PROVE  CodecInv'
<1> USE DEF CodecInv
<1>1. CASE \E m \in Msgs : Write(m)
  <2>1. TypeOK' /\ LockInv' /\ StreamInv' /\ UnitInv' /\ GobInv'
    BY <1>1, TypeWrite, StreamWrite, UnitWrite, GobWrite
  <2>2. ReadInv' /\ DamageOnlyAfterReject' /\ GobServerStops'
    BY <1>1, ReadOthers
  <2> QED
    BY <2>1, <2>2
<1>2. CASE Spill \/ CloseFlag \/ CloseConn \/ ReaderClose \/ UNCHANGED vars
  <2>1. TypeOK' /\ LockInv' /\ StreamInv' /\ UnitInv' /\ GobInv'
    BY <1>2, TypeOthers, StreamOthers, UnitOthers, GobOthers
  <2>2. ReadInv' /\ DamageOnlyAfterReject' /\ GobServerStops'
    BY <1>2, ReadOthers
  <2> QED
    BY <2>1, <2>2
<1>3. CASE Read
  <2>1. TypeOK' /\ LockInv' /\ StreamInv' /\ UnitInv' /\ GobInv'
    BY <1>3, TypeOthers, StreamOthers, UnitOthers, GobOthers
  <2> QED
    BY <1>3, <2>1, ReadStep
<1> QED
  BY <1>1, <1>2, <1>3 DEF Next, Ended

\* CodecInv is an invariant: the writers of WriteRequest and WriteResponse, the
\* spilling and flushing of their buffer, Close at either end and the reader
\* keep, in every order, the relations between what is encoded, what is sent
\* and what is read.
THEOREM CodecInvariant == Spec => []CodecInv
<1>1. Init => CodecInv
  BY CodecInitially
<1>2. CodecInv /\ [Next]_vars => CodecInv'
  BY CodecStep
<1> QED
  BY <1>1, <1>2, PTL DEF Spec

\* The connection's variables keep their types.
THEOREM TypeCorrect == Spec => []TypeOK
<1>1. CodecInv => TypeOK
  BY DEF CodecInv
<1> QED
  BY <1>1, CodecInvariant, PTL

\* A header is followed by its own body as long as no body was rejected,
\* however many goroutines write and whenever the codec is closed: the write
\* lock and the order of encoding and flushing see to it.
THEOREM HeadersWithBodies == Spec => []SentAsUnit
<1>1. CodecInv => SentAsUnit
  BY UnitFromStream DEF CodecInv
<1> QED
  BY <1>1, CodecInvariant, PTL

\* Until the reader meets the header of a message whose body the encoder
\* rejected, it pairs every header with the body of the same message.
THEOREM PairsBeforeReject == Spec => []DamageOnlyAfterReject
<1>1. CodecInv => DamageOnlyAfterReject
  BY DEF CodecInv
<1> QED
  BY <1>1, CodecInvariant, PTL

\* With gobServerCodec the reader never pairs a header with a body of another
\* message and never completes a rejected response: WriteResponse flushes the
\* header at most and closes the connection, unless its Close is ignored because
\* another one, which has not closed the connection yet, has set closed.
THEOREM GobServerSafe == Spec => []GobServerStops
<1>1. CodecInv => GobServerStops
  BY DEF CodecInv
<1> QED
  BY <1>1, CodecInvariant, PTL
=============================================================================
