---------------------------- MODULE RpcSyncProofs ----------------------------
(***************************************************************************)
(* Proofs about RpcSync: SyncInv is inductive for any number of calls,     *)
(* unless a server goes on behind a value of which a part is left unread.  *)
(***************************************************************************)
EXTENDS RpcSync, SequenceTheorems, TLAPS

-----------------------------------------------------------------------------
(* Sequences of items.                                                     *)

\* What the items built by the model are.
LEMMA ItemTypes ==
  ASSUME NEW n \in Nat, NEW e \in BOOLEAN
  PROVE  /\ Item("header", n) \in Items /\ Item("body", n) \in Items /\ Item("rest", n) \in Items
         /\ Header(n, e) \in Items
         /\ Header(n, e).kind = "header" /\ Header(n, e).n = n /\ Header(n, e).error = e
         /\ Item("header", n).kind = "header" /\ Item("header", n).n = n
  BY DEF Item, Items, Header

\* Taking the first items off a sequence.
LEMMA TailTypes ==
  ASSUME NEW s \in Seq(Items)
  PROVE  /\ s # <<>> => Head(s) \in Items /\ Head(s) = s[1] /\ Tail(s) \in Seq(Items)
         /\ Len(s) >= 2 => s # <<>> /\ Tail(s) # <<>> /\ Tail(Tail(s)) \in Seq(Items)
<1>1. s # <<>> => Head(s) \in Items /\ Head(s) = s[1] /\ Tail(s) \in Seq(Items)
  OBVIOUS
<1>2. ASSUME Len(s) >= 2
      PROVE  s # <<>> /\ Tail(s) # <<>>
  <2>1. s # <<>> /\ Len(s) \in Nat
    BY <1>2
  <2>2. Len(Tail(s)) = Len(s) - 1
    BY <2>1, HeadTailProperties
  <2>3. Len(Tail(s)) # 0
    BY <1>2, <2>1, <2>2
  <2>4. Len(<<>>) = 0
    OBVIOUS
  <2> QED
    BY <2>1, <2>3, <2>4
<1>3. ASSUME Len(s) >= 2
      PROVE  Tail(Tail(s)) \in Seq(Items)
  BY <1>1, <1>2, <1>3
<1> QED
  BY <1>1, <1>2, <1>3

\* A pair, its first item and what follows.
LEMMA PairParts ==
  ASSUME NEW x \in Items, NEW y \in Items
  PROVE  /\ <<x, y>> \in Seq(Items) /\ <<x, y>> # <<>> /\ Head(<<x, y>>) = x
         /\ <<x, y>>[1] = x
         /\ Tail(<<x, y>>) = <<y>> /\ Tail(Tail(<<x, y>>)) = <<>>
         /\ Tail(<<y>>) = <<>> /\ <<y>> # <<>> /\ <<y>> \in Seq(Items) /\ Head(<<y>>) = y
         /\ <<>> \o <<>> \o <<x, y>> = <<x, y>>
         /\ <<>> \o <<x, y>> = <<x, y>>
  OBVIOUS

\* Joining sequences of items.
LEMMA JoinTypes ==
  ASSUME NEW s \in Seq(Items), NEW r \in Seq(Items), NEW x \in Items, NEW y \in Items
  PROVE  /\ s \o r \in Seq(Items) /\ Append(s, x) \in Seq(Items)
         /\ s \o <<x, y>> \in Seq(Items) /\ s \o r \o <<x, y>> \in Seq(Items)
         /\ <<x>> \o s \in Seq(Items)
         /\ <<>> \in Seq(Items)
  OBVIOUS

\* The results after a call has returned.
LEMMA ReturnEffect ==
  ASSUME TypeOK, pc # "idle", NEW err \in {"nil", "server", "other"}, NEW from \in Nat,
         Return(err, from)
  PROVE  /\ pc' = "idle" /\ answered' = 0
         /\ results' \in Seq([err : {"nil", "server", "other"}, from : Nat])
         /\ Len(results') = nextCallSeq
         /\ CleanUpTo(Len(results))' => CleanUpTo(Len(results)) /\ err # "other"
         /\ OwnAnswer /\ (err # "other" /\ CleanUpTo(Len(results)) => from = nextCallSeq) => OwnAnswer'
<1> DEFINE R == [err : {"nil", "server", "other"}, from : Nat]
           r == [err |-> err, from |-> from]
           k == Len(results)
<1>1. results \in Seq(R) /\ r \in R /\ results' = Append(results, r) /\ nextCallSeq = k + 1 /\ k \in Nat
  BY DEF TypeOK, Return
<1>2. /\ results' \in Seq(R) /\ Len(results') = k + 1 /\ results'[k + 1] = r
      /\ DOMAIN results = 1..k /\ DOMAIN results' = 1..(k + 1)
      /\ \A i \in 1..k : results'[i] = results[i]
  BY <1>1
<1>3. results'[k + 1].err = err /\ results'[k + 1].from = from
  BY <1>2
<1>k. k \in Nat
  BY <1>1
<1> HIDE DEF k, r
<1>4. k + 1 \in 1..(k + 1) /\ \A i \in 1..k : i \in 1..(k + 1) /\ \A j \in 1..i : j \in 1..k
  BY <1>1
<1>5. (\A j \in 1..(k + 1) : results'[j].err # "other") => CleanUpTo(k) /\ err # "other"
  BY <1>2, <1>3, <1>4 DEF CleanUpTo
<1>6. ASSUME OwnAnswer, err # "other" /\ CleanUpTo(k) => from = nextCallSeq
      PROVE  OwnAnswer'
  <2> SUFFICES ASSUME NEW i \in 1..(k + 1), \A j \in 1..i : results'[j].err # "other"
               PROVE  results'[i].from = i
    BY <1>2 DEF OwnAnswer, CleanUpTo
  <2>1. CASE i = k + 1
    BY <1>1, <1>3, <1>5, <1>6, <2>1
  <2>2. CASE i \in 1..k
    <3>1. \A j \in 1..i : results[j].err # "other"
      BY <1>2, <1>4, <2>2
    <3> QED
      BY <1>2, <1>6, <2>2, <3>1 DEF OwnAnswer, CleanUpTo
  <2>3. i \in 1..k \/ i = k + 1
    BY <1>k
  <2> QED
    BY <2>1, <2>2, <2>3
<1> QED
  BY <1>1, <1>2, <1>5, <1>6 DEF Return, CleanUpTo, k

-----------------------------------------------------------------------------
(* The steps of CallWithCodec.                                             *)

\* Starting a call and writing its request.
LEMMA CallerWrites ==
  ASSUME SyncInv, Start \/ WriteRequest
  PROVE  SyncInv'
<1> USE DEF SyncInv
<1>1. nextCallSeq \in Nat /\ Len(results) \in Nat /\ buf \in Seq(Items) /\ up \in Seq(Items)
      /\ UNCHANGED <<results, mode, open, down, answered>>
  BY DEF TypeOK, Start, WriteRequest
<1>2. OwnAnswer' /\ (CleanUpTo(Len(results))' <=> CleanUpTo(Len(results)))
  BY <1>1 DEF OwnAnswer, CleanUpTo
<1>3. CASE Start
  <2>1. TypeOK'
    BY <1>1, <1>3 DEF Start, TypeOK
  <2>2. Aligned => Aligned'
    BY <1>3 DEF Start, Aligned
  <2> QED
    BY <1>2, <2>1, <2>2
<1>4. CASE WriteRequest
  <2>1. /\ up' = up \o buf \o Pair(Item("header", nextCallSeq), nextCallSeq)
        /\ buf' = <<>> /\ pc = "write" /\ pc' = "header" /\ nextCallSeq' = nextCallSeq
    BY <1>4 DEF WriteRequest, Pair
  <2>2. up' \in Seq(Items) /\ buf' \in Seq(Items)
    BY <1>1, <2>1, ItemTypes, JoinTypes DEF Pair
  <2>3. TypeOK'
    BY <1>1, <2>1, <2>2 DEF TypeOK
  <2>4. ASSUME Aligned PROVE Aligned'
    <3>1. buf = <<>> /\ down = <<>> /\ (open => up = <<>>)
      BY <2>1, <2>4 DEF Aligned
    <3>2. open => up' = Pair(Item("header", nextCallSeq), nextCallSeq)
      BY <1>1, <2>1, <3>1, ItemTypes, PairParts DEF Pair
    <3> QED
      BY <1>1, <2>1, <3>1, <3>2 DEF Aligned
  <2> QED
    BY <1>2, <2>3, <2>4
<1> QED
  BY <1>3, <1>4

\* Failing to write or to read ends what is promised.
LEMMA CallerFails ==
  ASSUME SyncInv, WriteFails \/ ReadFails
  PROVE  SyncInv'
<1> USE DEF SyncInv
<1>1. /\ Return("other", 0) /\ pc # "idle" /\ UNCHANGED <<mode, nextCallSeq, down, open>>
  BY DEF WriteFails, ReadFails
<1>2. /\ pc' = "idle" /\ answered' = 0
      /\ results' \in Seq([err : {"nil", "server", "other"}, from : Nat])
      /\ Len(results') = nextCallSeq /\ ~CleanUpTo(Len(results))' /\ OwnAnswer'
  BY <1>1, ReturnEffect
<1>3. buf' \in Seq(Items) /\ up' \in Seq(Items)
  <2>1. buf \in Seq(Items) /\ up \in Seq(Items) /\ nextCallSeq \in Nat
    BY DEF TypeOK
  <2>2. /\ Append(buf, Item("header", nextCallSeq)) \in Seq(Items)
    BY <2>1, ItemTypes, JoinTypes
  <2>3. up \o Append(buf, Item("header", nextCallSeq)) \in Seq(Items) /\ <<>> \in Seq(Items)
    BY <2>1, <2>2
  <2> QED
    BY <2>1, <2>2, <2>3 DEF WriteFails, ReadFails
<1>4. TypeOK'
  BY <1>1, <1>2, <1>3 DEF TypeOK
<1> QED
  BY <1>2, <1>4

\* Reading a header.
LEMMA CallerReadsHeader ==
  ASSUME SyncInv, ReadResponseHeader
  PROVE  SyncInv'
<1> USE DEF SyncInv
<1>1. /\ pc = "header" /\ down # <<>> /\ down \in Seq(Items) /\ down' = Tail(down)
      /\ UNCHANGED <<mode, nextCallSeq, buf, up, open>> /\ nextCallSeq \in Nat
  BY DEF ReadResponseHeader, TypeOK
<1>2. Head(down) \in Items /\ Head(down).n \in Nat /\ Tail(down) \in Seq(Items)
  <2>1. Head(down) \in Items /\ Tail(down) \in Seq(Items)
    BY <1>1, TailTypes
  <2> QED
    BY <2>1 DEF Items
<1>3. CASE Return("other", 0)
  <2>1. /\ pc' = "idle" /\ answered' = 0
        /\ results' \in Seq([err : {"nil", "server", "other"}, from : Nat])
        /\ Len(results') = nextCallSeq /\ ~CleanUpTo(Len(results))' /\ OwnAnswer'
    BY <1>1, <1>3, ReturnEffect
  <2>2. TypeOK'
    BY <1>1, <1>2, <2>1 DEF TypeOK
  <2> QED
    BY <2>1, <2>2
<1>4. CASE results' = results
  <2>0. /\ pc' \in {"discard", "body"} /\ answered' \in Nat
        /\ Head(down).kind = "header" => answered' = Head(down).n
    BY <1>2, <1>4 DEF ReadResponseHeader, Return, TypeOK
  <2>1. TypeOK'
    BY <1>1, <1>2, <1>4, <2>0 DEF TypeOK
  <2>2. OwnAnswer' /\ (CleanUpTo(Len(results))' <=> CleanUpTo(Len(results)))
    BY <1>4 DEF OwnAnswer, CleanUpTo
  <2>3. ASSUME Aligned PROVE Aligned'
    <3>1. PICK e \in BOOLEAN : /\ open => up = <<>>
                               /\ down = <<Header(nextCallSeq, e), Item("body", nextCallSeq)>>
                               /\ buf = <<>>
      BY <1>1, <2>3 DEF Aligned, Pair
    <3>2. /\ Head(down) = Header(nextCallSeq, e) /\ Tail(down) = <<Item("body", nextCallSeq)>>
      BY <1>1, <3>1, ItemTypes, PairParts
    <3>3. answered' = nextCallSeq
      BY <1>1, <2>0, <3>2, ItemTypes
    <3> QED
      BY <1>1, <2>0, <3>1, <3>2, <3>3 DEF Aligned
  <2> QED
    BY <2>1, <2>2, <2>3
<1> QED
  BY <1>3, <1>4 DEF ReadResponseHeader

\* Reading a body, or discarding the one behind an error.
LEMMA CallerReadsBody ==
  ASSUME SyncInv, DiscardBody \/ ReadResponseBody
  PROVE  SyncInv'
<1> USE DEF SyncInv
<1>1. /\ pc \in {"discard", "body"} /\ down \in Seq(Items) /\ nextCallSeq \in Nat /\ answered \in Nat
      /\ UNCHANGED <<mode, nextCallSeq, buf, up, open>>
  BY DEF DiscardBody, ReadResponseBody, TypeOK
<1>2. PICK err \in {"nil", "server", "other"}, from \in Nat :
        /\ Return(err, from)
        /\ err # "other" => from = answered /\ down' = IF down = <<>> THEN down ELSE Tail(down)
  <2>1. CASE DiscardBody
    BY <1>1, <2>1 DEF DiscardBody
  <2>2. CASE ReadResponseBody
    BY <1>1, <2>2 DEF ReadResponseBody
  <2> QED
    BY <2>1, <2>2
<1>3. ASSUME CleanUpTo(Len(results))
      PROVE  /\ answered = nextCallSeq /\ down = <<Item("body", nextCallSeq)>> /\ buf = <<>>
             /\ open => up = <<>>
  BY <1>1, <1>3 DEF Aligned
<1>4. /\ pc' = "idle" /\ answered' = 0
      /\ results' \in Seq([err : {"nil", "server", "other"}, from : Nat])
      /\ Len(results') = nextCallSeq
      /\ CleanUpTo(Len(results))' => CleanUpTo(Len(results)) /\ err # "other"
      /\ OwnAnswer'
  BY <1>1, <1>2, <1>3, ReturnEffect
<1>5. down' \in Seq(Items)
  <2>1. Item("rest", 0) \in Items
    BY ItemTypes
  <2>2. down # <<>> => Tail(down) \in Seq(Items) /\ <<Item("rest", 0)>> \o Tail(down) \in Seq(Items)
    BY <1>1, <2>1, TailTypes, JoinTypes
  <2> QED
    BY <1>1, <2>2 DEF DiscardBody, ReadResponseBody
<1>6. TypeOK'
  BY <1>1, <1>4, <1>5 DEF TypeOK
<1>7. ASSUME CleanUpTo(Len(results))' PROVE Aligned'
  <2>1. CleanUpTo(Len(results)) /\ err # "other"
    BY <1>4, <1>7
  <2>2. down' = <<>>
    BY <1>1, <1>2, <1>3, <2>1, ItemTypes, PairParts
  <2> QED
    BY <1>1, <1>3, <1>4, <2>1, <2>2 DEF Aligned
<1> QED
  BY <1>4, <1>6, <1>7

-----------------------------------------------------------------------------
(* The steps of the server and of the connection.                          *)

\* What a mode says.
LEMMA ModeFacts ==
  ASSUME TypeOK
  PROVE  /\ KeepServing \in BOOLEAN
         /\ (\A m \in Modes : LeavesNothing(m)) => (KeepServing => Framed /\ ~Rejecting)
<1>1. mode \in Modes /\ mode \in BOOLEAN \X BOOLEAN \X BOOLEAN
  BY SyncAssumption DEF TypeOK
<1>2. mode[2] \in BOOLEAN
  BY <1>1
<1> QED
  BY <1>1, <1>2, Zenon DEF KeepServing, Framed, Rejecting, LeavesNothing

\* Answering a request, or rejecting it.
LEMMA ServerAnswers ==
  ASSUME \A m \in Modes : LeavesNothing(m), SyncInv, Serve \/ ServeRejects
  PROVE  SyncInv'
<1> USE DEF SyncInv
<1> DEFINE n == nextCallSeq
<1>1. /\ open /\ Len(up) >= 2 /\ up \in Seq(Items) /\ down \in Seq(Items) /\ n \in Nat
      /\ UNCHANGED <<mode, nextCallSeq, pc, answered, buf, results>>
  BY DEF Serve, ServeRejects, TypeOK
<1>2. up # <<>> /\ up[1] \in Items /\ up[1].n \in Nat /\ Tail(Tail(up)) \in Seq(Items)
  <2>1. up # <<>> /\ up[1] \in Items /\ Tail(Tail(up)) \in Seq(Items)
    BY <1>1, TailTypes
  <2> QED
    BY <2>1 DEF Items
<1>3. PICK k \in Nat, e \in BOOLEAN :
        /\ down' = down \o <<Header(k, e), Item("body", k)>>
        /\ up[1].kind = "header" => k = up[1].n
  <2>1. CASE Serve
    BY <1>2, <2>1 DEF Serve, Answer
  <2>2. CASE ServeRejects
    BY <1>2, <2>2 DEF ServeRejects, Answer
  <2> QED
    BY <2>1, <2>2
<1>4. down' \in Seq(Items)
  BY <1>1, <1>3, ItemTypes, JoinTypes
<1>5. /\ up' \in Seq(Items) /\ open' \in BOOLEAN
      /\ open' => up' = Tail(Tail(up))
  <2>2. KeepServing => Framed
    BY ModeFacts
  <2>3. /\ Undecoded(up) \in Seq(Items) /\ (Framed => Undecoded(up) = Tail(Tail(up)))
    <3>1. Item("rest", 0) \in Items
      BY ItemTypes
    <3>2. <<Item("rest", 0)>> \o Tail(Tail(up)) \in Seq(Items)
      BY <1>2, <3>1, JoinTypes
    <3> QED
      BY <1>2, <3>2 DEF Undecoded
  <2>4. KeepServing \in BOOLEAN
    BY ModeFacts
  <2>5. CASE Serve
    BY <1>1, <1>2, <2>5 DEF Serve
  <2>6. CASE ServeRejects
    <3>1. open' = KeepServing /\ (up' = Tail(Tail(up)) \/ up' = Undecoded(up))
      BY <2>6 DEF ServeRejects
    <3>2. up' \in Seq(Items)
      BY <1>2, <2>3, <3>1
    <3>3. open' => up' = Tail(Tail(up))
      BY <2>2, <2>3, <3>1
    <3> QED
      BY <2>4, <3>1, <3>2, <3>3
  <2> QED
    BY <2>5, <2>6
<1>6. TypeOK'
  BY <1>1, <1>4, <1>5 DEF TypeOK
<1>7. OwnAnswer' /\ (CleanUpTo(Len(results))' <=> CleanUpTo(Len(results)))
  BY <1>1 DEF OwnAnswer, CleanUpTo
<1>8. ASSUME Aligned PROVE Aligned'
  <2>1. /\ pc = "header" /\ up = <<Item("header", n), Item("body", n)>> /\ down = <<>> /\ buf = <<>>
    BY <1>1, <1>2, <1>8 DEF Aligned, Pair, TypeOK
  <2>2. up[1] = Item("header", n) /\ Tail(Tail(up)) = <<>>
    BY <1>1, <2>1, ItemTypes, PairParts
  <2>3. k = n
    BY <1>1, <1>3, <2>2, ItemTypes
  <2>4. down' = Pair(Header(n, e), n)
    BY <1>1, <1>3, <2>1, <2>3, ItemTypes, PairParts DEF Pair
  <2> QED
    BY <1>1, <1>5, <2>1, <2>2, <2>4 DEF Aligned
<1> QED
  BY <1>6, <1>7, <1>8

\* Rejecting a request before its body is read; the server stops.
LEMMA ServerRejectsEarly ==
  ASSUME \A m \in Modes : LeavesNothing(m), SyncInv, ServeRejectsEarly
  PROVE  SyncInv'
<1> USE DEF SyncInv
<1> DEFINE n == nextCallSeq
<1>1. /\ open /\ up # <<>> /\ up[1].kind = "header" /\ up \in Seq(Items) /\ down \in Seq(Items)
      /\ n \in Nat /\ UNCHANGED <<mode, nextCallSeq, pc, answered, buf, results>>
      /\ up' = Tail(up)
  BY DEF ServeRejectsEarly, TypeOK
<1>2. open' = FALSE
  <2>1. open' = KeepServing /\ Rejecting
    BY DEF ServeRejectsEarly
  <2>2. KeepServing \in BOOLEAN /\ ~KeepServing
    BY <2>1, ModeFacts
  <2> QED
    BY <2>1, <2>2
<1>3. up[1] \in Items /\ up[1].n \in Nat /\ Tail(up) \in Seq(Items)
  <2>1. up[1] \in Items /\ Tail(up) \in Seq(Items)
    BY <1>1, TailTypes
  <2> QED
    BY <2>1 DEF Items
<1>k. PICK k \in Nat, e \in BOOLEAN :
        /\ down' = down \o <<Header(k, e), Item("body", k)>>
        /\ k = up[1].n
  BY <1>3 DEF ServeRejectsEarly, Answer
<1>4. down' \in Seq(Items)
  BY <1>1, <1>k, ItemTypes, JoinTypes
<1>5. TypeOK'
  BY <1>1, <1>2, <1>3, <1>4 DEF TypeOK
<1>6. OwnAnswer' /\ (CleanUpTo(Len(results))' <=> CleanUpTo(Len(results)))
  BY <1>1 DEF OwnAnswer, CleanUpTo
<1>7. ASSUME Aligned PROVE Aligned'
  <2>1. /\ pc = "header" /\ up = <<Item("header", n), Item("body", n)>> /\ down = <<>> /\ buf = <<>>
    BY <1>1, <1>7 DEF Aligned, Pair, TypeOK
  <2>2. up[1] = Item("header", n) /\ up[1].n = n
    BY <1>1, <2>1, ItemTypes, PairParts
  <2>3. k = n
    BY <1>k, <2>2
  <2>4. down' = Pair(Header(n, e), n)
    <3>1. down' = <<>> \o <<Header(n, e), Item("body", n)>>
      BY <1>k, <2>1, <2>3
    <3>2. Header(n, e) \in Items /\ Item("body", n) \in Items
      BY <1>1, ItemTypes
    <3> QED
      BY <3>1, <3>2, PairParts DEF Pair
  <2> QED
    BY <1>1, <1>2, <2>1, <2>4 DEF Aligned
<1> QED
  BY <1>5, <1>6, <1>7

\* Failing to decode a header, and the end of the connection.
LEMMA ServerStops ==
  ASSUME SyncInv, ServeFails \/ Disconnect \/ UNCHANGED vars
  PROVE  SyncInv'
<1> USE DEF SyncInv
<1>1. UNCHANGED <<mode, nextCallSeq, pc, answered, buf, down, results>>
  BY DEF ServeFails, Disconnect, vars
<1>2. up' \in Seq(Items) /\ open' \in BOOLEAN
  <2>1. up \in Seq(Items) /\ open \in BOOLEAN /\ KeepServing \in BOOLEAN
    BY ModeFacts DEF TypeOK
  <2>2. up # <<>> => Tail(up) \in Seq(Items)
    BY <2>1, TailTypes
  <2> QED
    BY <2>1, <2>2 DEF ServeFails, Disconnect, vars
<1>3. TypeOK'
  BY <1>1, <1>2 DEF TypeOK
<1>4. OwnAnswer' /\ (CleanUpTo(Len(results))' <=> CleanUpTo(Len(results)))
  BY <1>1 DEF OwnAnswer, CleanUpTo
<1>5. ASSUME Aligned PROVE Aligned'
  <2>1. CASE ServeFails
    <3>1. open /\ up # <<>> /\ up[1].kind # "header" /\ nextCallSeq \in Nat
      BY <2>1 DEF ServeFails, TypeOK
    <3>2. up = <<Item("header", nextCallSeq), Item("body", nextCallSeq)>>
      BY <1>5, <3>1 DEF Aligned, Pair, TypeOK
    <3>3. up[1].kind = "header"
      BY <3>1, <3>2, ItemTypes, PairParts
    <3> QED
      BY <3>1, <3>3
  <2>2. CASE Disconnect \/ UNCHANGED vars
    BY <1>5, <2>2 DEF Disconnect, vars, Aligned
  <2> QED
    BY <2>1, <2>2
<1> QED
  BY <1>3, <1>4, <1>5

-----------------------------------------------------------------------------
(* The theorems.                                                           *)

\* SyncInv holds initially.
LEMMA SyncInitially ==
  ASSUME Init
  PROVE  SyncInv
<1>1. <<>> \in Seq(Items) /\ <<>> \in Seq([err : {"nil", "server", "other"}, from : Nat])
  OBVIOUS
<1>2. TypeOK
  BY <1>1 DEF Init, TypeOK
<1>3. Aligned
  BY DEF Init, Aligned
<1>4. OwnAnswer
  BY DEF Init, OwnAnswer
<1> QED
  BY <1>2, <1>3, <1>4 DEF SyncInv

\* Every call of CallWithCodec that fails with no other error than one of the
\* server leaves the connection as it found it.  The hypothesis leaves out a
\* server that goes on after an error although something is left unread: the
\* rest of what its codec could not decode, or the body of a request that its
\* pre-body interceptor rejected.
THEOREM SyncInvariant ==
  ASSUME \A m \in Modes : LeavesNothing(m)
  PROVE  Spec => []SyncInv
<1>1. Init => SyncInv
  BY SyncInitially
<1>2. SyncInv /\ [Next]_vars => SyncInv'
  BY CallerWrites, CallerFails, CallerReadsHeader, CallerReadsBody, ServerAnswers,
     ServerRejectsEarly, ServerStops
     DEF Next, Ended
<1> QED
  BY <1>1, <1>2, PTL DEF Spec

\* CallWithCodec returns the answer to its own request although it compares no
\* Seq, until a call has failed otherwise than with an error of the server.  As
\* above, the server does not go on behind something it has not read.
THEOREM AnswersOwn ==
  ASSUME \A m \in Modes : LeavesNothing(m)
  PROVE  Spec => []OwnAnswer
<1>1. SyncInv => OwnAnswer
  BY DEF SyncInv
<1> QED
  BY <1>1, SyncInvariant, PTL
=============================================================================
