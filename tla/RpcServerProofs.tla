--------------------------- MODULE RpcServerProofs ---------------------------
(***************************************************************************)
(* Proofs about RpcServer, for any number of connections, services and     *)
(* requests.  What does not depend on the interceptor is proved without an *)
(* assumption on it; the rest is proved for interceptors that call the     *)
(* handler they are given at most once (HandlerCalls \subseteq {0, 1}).    *)
(***************************************************************************)
EXTENDS RpcServer, FiniteSetTheorems, TLAPS

-----------------------------------------------------------------------------
(* Free lists.                                                             *)

\* The size of an interval that starts at 1.
LEMMA FirstN ==
  ASSUME NEW n \in Nat
  PROVE  IsFiniteSet(1..n) /\ Cardinality(1..n) = n
<1>1. 1 \in Int /\ n \in Int
  OBVIOUS
<1>2. IsFiniteSet(1..n) /\ Cardinality(1..n) = IF 1 > n THEN 0 ELSE n - 1 + 1
  BY <1>1, FS_Interval
<1> QED
  BY <1>2

\* A list is empty exactly when its head is nil, and its objects are allocated.
LEMMA FreeListHead ==
  ASSUME NEW objs, NEW head, NEW F, Len(objs) \in Nat, FreeList(objs, head, F)
  PROVE  /\ F \subseteq 1..Len(objs)
         /\ head = 0 <=> F = {}
         /\ head # 0 => head \in F
<1>0. PICK n \in 0..Len(objs) : \E L \in [1..n -> 1..Len(objs)] :
        Linked(objs, head, n, L) /\ F = {L[i] : i \in 1..n}
  BY DEF FreeList
<1>1. PICK L \in [1..n -> 1..Len(objs)] : Linked(objs, head, n, L) /\ F = {L[i] : i \in 1..n}
  BY <1>0
<1> USE DEF Linked
<1>2. CASE n = 0
  BY <1>1, <1>2
<1>3. CASE n # 0
  <2>1. n \in 1..n /\ L[n] \in 1..Len(objs)
    BY <1>3
  <2>2. head = L[n] /\ head # 0
    BY <1>1, <1>3, <2>1
  <2>3. head \in F
    BY <1>1, <2>1, <2>2
  <2>4. F \subseteq 1..Len(objs)
    BY <1>1
  <2> QED
    BY <2>2, <2>3, <2>4
<1> QED
  BY <1>2, <1>3

\* A list only depends on the next fields of its own objects.
LEMMA FreeListSame ==
  ASSUME NEW objs, NEW objs2, NEW head, NEW F,
         Len(objs) \in Nat, Len(objs2) \in Nat, Len(objs) <= Len(objs2),
         FreeList(objs, head, F),
         \A a \in F : objs2[a].next = objs[a].next
  PROVE  FreeList(objs2, head, F)
<1>0. PICK n \in 0..Len(objs) : \E L \in [1..n -> 1..Len(objs)] :
        Linked(objs, head, n, L) /\ F = {L[i] : i \in 1..n}
  BY DEF FreeList
<1>1. PICK L \in [1..n -> 1..Len(objs)] : Linked(objs, head, n, L) /\ F = {L[i] : i \in 1..n}
  BY <1>0
<1> USE DEF Linked
<1>2. n \in 0..Len(objs2) /\ L \in [1..n -> 1..Len(objs2)]
  OBVIOUS
<1>3. \A i \in 1..n : objs2[L[i]].next = IF i = 1 THEN 0 ELSE L[i - 1]
  BY <1>1
<1> QED
  BY <1>1, <1>2, <1>3 DEF FreeList

\* Taking the head: the rest is linked from the next of the old head.
LEMMA FreeListPop ==
  ASSUME NEW objs, NEW objs2, NEW head, NEW F,
         Len(objs) \in Nat, Len(objs2) = Len(objs),
         FreeList(objs, head, F), head # 0,
         \A a \in F \ {head} : objs2[a].next = objs[a].next
  PROVE  FreeList(objs2, objs[head].next, F \ {head})
<1>0. PICK n \in 0..Len(objs) : \E L \in [1..n -> 1..Len(objs)] :
        Linked(objs, head, n, L) /\ F = {L[i] : i \in 1..n}
  BY DEF FreeList
<1>1. PICK L \in [1..n -> 1..Len(objs)] : Linked(objs, head, n, L) /\ F = {L[i] : i \in 1..n}
  BY <1>0
<1> USE DEF Linked
<1>2. n # 0 /\ n \in 1..n /\ head = L[n]
  BY <1>1
<1> DEFINE M == [i \in 1..(n - 1) |-> L[i]]
<1>3. n - 1 \in 0..Len(objs2) /\ M \in [1..(n - 1) -> 1..Len(objs2)]
  BY <1>2
<1>4. objs[head].next = IF n - 1 = 0 THEN 0 ELSE M[n - 1]
  BY <1>1, <1>2
<1>m. \A i \in 1..(n - 1) : M[i] = L[i] /\ i \in 1..n /\ (i # 1 => M[i - 1] = L[i - 1])
  BY <1>2
<1> HIDE DEF M
<1>5. \A i \in 1..(n - 1) : L[i] # head /\ L[i] \in F
  BY <1>1, <1>2
<1>6. \A i \in 1..(n - 1) : objs2[M[i]].next = IF i = 1 THEN 0 ELSE M[i - 1]
  BY <1>1, <1>5, <1>m, SMTT(30)
<1>7. \A i, j \in 1..(n - 1) : i # j => M[i] # M[j]
  BY <1>1, <1>m
<1>8. F \ {head} = {M[i] : i \in 1..(n - 1)}
  <2>1. ASSUME NEW a \in F \ {head} PROVE a \in {M[i] : i \in 1..(n - 1)}
    <3>1. PICK i \in 1..n : a = L[i]
      BY <1>1
    <3>2. i # n
      BY <1>2, <3>1
    <3>3. i \in 1..(n - 1) /\ M[i] = a
      BY <1>m, <3>1, <3>2
    <3> QED
      BY <3>3
  <2>2. ASSUME NEW i \in 1..(n - 1) PROVE M[i] \in F \ {head}
    BY <1>5, <1>m
  <2> QED
    BY <2>1, <2>2
<1> QED
  BY <1>3, <1>4, <1>6, <1>7, <1>8 DEF FreeList

\* Putting an object back.
LEMMA FreeListPush ==
  ASSUME NEW objs, NEW objs2, NEW head, NEW F, NEW x,
         Len(objs) \in Nat, Len(objs2) = Len(objs),
         FreeList(objs, head, F), x \in 1..Len(objs), x \notin F,
         objs2[x].next = head,
         \A a \in F : objs2[a].next = objs[a].next
  PROVE  FreeList(objs2, x, F \cup {x})
<1>0. PICK n \in 0..Len(objs) : \E L \in [1..n -> 1..Len(objs)] :
        Linked(objs, head, n, L) /\ F = {L[i] : i \in 1..n}
  BY DEF FreeList
<1>1. PICK L \in [1..n -> 1..Len(objs)] : Linked(objs, head, n, L) /\ F = {L[i] : i \in 1..n}
  BY <1>0
<1> USE DEF Linked
<1> DEFINE M == [i \in 1..(n + 1) |-> IF i = n + 1 THEN x ELSE L[i]]
<1>2. M \in [1..(n + 1) -> 1..Len(objs)] /\ n \in Nat
  OBVIOUS
<1>3. \A i \in 1..n : M[i] = L[i] /\ L[i] # x /\ L[i] \in F
  BY <1>1
<1>4. M[n + 1] = x
  OBVIOUS
<1> HIDE DEF M
<1>5. \A i, j \in 1..(n + 1) : i # j => M[i] # M[j]
  <2> SUFFICES ASSUME NEW i \in 1..(n + 1), NEW j \in 1..(n + 1), i # j PROVE M[i] # M[j]
    OBVIOUS
  <2>1. CASE i = n + 1
    BY <1>3, <1>4, <2>1
  <2>2. CASE j = n + 1
    BY <1>3, <1>4, <2>2
  <2>3. CASE i # n + 1 /\ j # n + 1
    <3>1. i \in 1..n /\ j \in 1..n
      BY <2>3
    <3> QED
      BY <1>1, <1>3, <3>1
  <2> QED
    BY <2>1, <2>2, <2>3
<1>6. \A i \in 1..(n + 1) : objs2[M[i]].next = IF i = 1 THEN 0 ELSE M[i - 1]
  <2> SUFFICES ASSUME NEW i \in 1..(n + 1)
               PROVE  objs2[M[i]].next = IF i = 1 THEN 0 ELSE M[i - 1]
    OBVIOUS
  <2>1. CASE i = n + 1
    <3>1. n # 0 => M[n] = L[n]
      BY <1>3
    <3> QED
      BY <1>1, <1>4, <2>1, <3>1
  <2>2. CASE i # n + 1
    <3>1. i \in 1..n /\ (i # 1 => i - 1 \in 1..n)
      BY <2>2
    <3>2. objs[L[i]].next = IF i = 1 THEN 0 ELSE L[i - 1]
      BY <1>1, <3>1
    <3>3. objs2[L[i]].next = objs[L[i]].next /\ M[i] = L[i] /\ (i # 1 => M[i - 1] = L[i - 1])
      BY <1>3, <3>1
    <3> QED
      BY <3>2, <3>3
  <2> QED
    BY <2>1, <2>2
<1>7. F \cup {x} = {M[i] : i \in 1..(n + 1)}
  <2>1. ASSUME NEW i \in 1..(n + 1) PROVE M[i] \in F \cup {x}
    <3>1. i = n + 1 \/ i \in 1..n
      OBVIOUS
    <3> QED
      BY <1>3, <1>4, <3>1
  <2>2. ASSUME NEW a \in F PROVE a \in {M[i] : i \in 1..(n + 1)}
    <3>1. PICK i \in 1..n : a = L[i]
      BY <1>1
    <3>2. i \in 1..(n + 1) /\ M[i] = a
      BY <1>3, <3>1
    <3> QED
      BY <3>2
  <2>3. n + 1 \in 1..(n + 1)
    OBVIOUS
  <2> QED
    BY <1>4, <2>1, <2>2, <2>3
<1>8. n + 1 <= Len(objs)
  <2>1. IsFiniteSet(1..(n + 1)) /\ Cardinality(1..(n + 1)) = n + 1
    BY <1>2, FirstN
  <2>2. IsFiniteSet(1..Len(objs)) /\ Cardinality(1..Len(objs)) = Len(objs)
    BY FirstN
  <2>3. M \in Injection(1..(n + 1), 1..Len(objs))
    <3>1. \A i, j \in 1..(n + 1) : M[i] = M[j] => i = j
      BY <1>5
    <3> QED
      BY <1>2, <3>1 DEF Injection, IsInjective
  <2> QED
    BY <2>1, <2>2, <2>3, FS_Injection
<1>9. n + 1 \in 0..Len(objs2) /\ M \in [1..(n + 1) -> 1..Len(objs2)]
  BY <1>2, <1>8
<1>10. x = IF n + 1 = 0 THEN 0 ELSE M[n + 1]
  BY <1>4, <1>2
<1> QED
  BY <1>5, <1>6, <1>7, <1>9, <1>10 DEF FreeList

-----------------------------------------------------------------------------
(* The pools: what an operation does to the objects, element by element.   *)

\* Allocating an object.
LEMMA AppendEffect ==
  ASSUME NEW S, NEW T, S \subseteq T, NEW s \in Seq(S), NEW x \in T
  PROVE  /\ Append(s, x) \in Seq(T)
         /\ Len(s) \in Nat
         /\ Len(Append(s, x)) = Len(s) + 1
         /\ Append(s, x)[Len(s) + 1] = x
         /\ \A i \in 1..Len(s) : Append(s, x)[i] = s[i]
<1>1. s \in Seq(T)
  OBVIOUS
<1> QED
  BY <1>1

\* Writing an object.
LEMMA UpdateEffect ==
  ASSUME NEW S, NEW s \in Seq(S), NEW i \in 1..Len(s), NEW x \in S
  PROVE  /\ [s EXCEPT ![i] = x] \in Seq(S)
         /\ Len([s EXCEPT ![i] = x]) = Len(s)
         /\ [s EXCEPT ![i] = x][i] = x
         /\ \A j \in 1..Len(s) : j # i => [s EXCEPT ![i] = x][j] = s[j]
  OBVIOUS

\* getRequest hands out a zeroed Request and changes no other.
LEMMA GetRequestEffect ==
  ASSUME TypeOK, NEW w \in Workers, GetRequest(w)
  PROVE  /\ reqs' \in Seq(ReqType(Len(reqs')))
         /\ Len(reqs) \in Nat /\ Len(reqs') \in Nat /\ Len(reqs) <= Len(reqs')
         /\ freeReq' \in 0..Len(reqs')
         /\ req' = [req EXCEPT ![w] = req'[w]]
         /\ req'[w] \in 1..Len(reqs')
         /\ reqs'[req'[w]] = ZeroReq
         /\ \A a \in 1..Len(reqs) : a # req'[w] => reqs'[a] = reqs[a]
<1>1. reqs \in Seq(ReqType(Len(reqs))) /\ Len(reqs) \in Nat /\ freeReq \in 0..Len(reqs)
      /\ req \in [Workers -> 0..Len(reqs)]
  BY DEF TypeOK, RequestTypes
<1>2. \A n \in Nat : ZeroReq \in ReqType(n)
  BY DEF ZeroReq, ReqType, Names
<1>3. CASE freeReq = 0
  <2>1. reqs' = Append(reqs, ZeroReq) /\ req' = [req EXCEPT ![w] = Len(reqs) + 1] /\ freeReq' = freeReq
    BY <1>3 DEF GetRequest
  <2>2. ReqType(Len(reqs)) \subseteq ReqType(Len(reqs) + 1)
    BY <1>1 DEF ReqType
  <2>3. /\ reqs' \in Seq(ReqType(Len(reqs) + 1))
        /\ Len(reqs') = Len(reqs) + 1
        /\ reqs'[Len(reqs) + 1] = ZeroReq
        /\ \A i \in 1..Len(reqs) : reqs'[i] = reqs[i]
    BY <1>1, <1>2, <2>1, <2>2, AppendEffect
  <2> QED
    BY <1>1, <1>3, <2>1, <2>3
<1>4. CASE freeReq # 0
  <2>1. /\ reqs' = [reqs EXCEPT ![freeReq] = ZeroReq]
        /\ req' = [req EXCEPT ![w] = freeReq]
        /\ freeReq' = reqs[freeReq].next
    BY <1>4 DEF GetRequest
  <2>2. freeReq \in 1..Len(reqs)
    BY <1>1, <1>4
  <2>3. reqs[freeReq].next \in 0..Len(reqs)
    <3>1. reqs[freeReq] \in ReqType(Len(reqs))
      BY <1>1, <2>2
    <3> QED
      BY <3>1 DEF ReqType
  <2>4. ZeroReq \in ReqType(Len(reqs))
    BY <1>1, <1>2
  <2>5. /\ reqs' \in Seq(ReqType(Len(reqs)))
        /\ Len(reqs') = Len(reqs)
        /\ reqs'[freeReq] = ZeroReq
        /\ \A i \in 1..Len(reqs) : i # freeReq => reqs'[i] = reqs[i]
    BY <1>1, <2>1, <2>2, <2>4, UpdateEffect
  <2> QED
    BY <1>1, <2>1, <2>2, <2>3, <2>5
<1> QED
  BY <1>3, <1>4

\* getResponse likewise.
LEMMA GetResponseEffect ==
  ASSUME TypeOK, NEW w \in Workers, GetResponse(w)
  PROVE  /\ resps' \in Seq(RespType(Len(resps')))
         /\ Len(resps) \in Nat /\ Len(resps') \in Nat /\ Len(resps) <= Len(resps')
         /\ freeResp' \in 0..Len(resps')
         /\ resp' = [resp EXCEPT ![w] = resp'[w]]
         /\ resp'[w] \in 1..Len(resps')
         /\ resps'[resp'[w]] = ZeroResp
         /\ \A a \in 1..Len(resps) : a # resp'[w] => resps'[a] = resps[a]
<1>1. resps \in Seq(RespType(Len(resps))) /\ Len(resps) \in Nat /\ freeResp \in 0..Len(resps)
      /\ resp \in [Workers -> 0..Len(resps)]
  BY DEF TypeOK, MapTypes, RequestTypes, ResponseTypes, CallTypes, WorkTypes
<1>2. \A n \in Nat : ZeroResp \in RespType(n)
  BY DEF ZeroResp, RespType, Names, ErrKinds
<1>3. CASE freeResp = 0
  <2>1. resps' = Append(resps, ZeroResp) /\ resp' = [resp EXCEPT ![w] = Len(resps) + 1] /\ freeResp' = freeResp
    BY <1>3 DEF GetResponse
  <2>2. RespType(Len(resps)) \subseteq RespType(Len(resps) + 1)
    BY <1>1 DEF RespType
  <2>3. /\ resps' \in Seq(RespType(Len(resps) + 1))
        /\ Len(resps') = Len(resps) + 1
        /\ resps'[Len(resps) + 1] = ZeroResp
        /\ \A i \in 1..Len(resps) : resps'[i] = resps[i]
    BY <1>1, <1>2, <2>1, <2>2, AppendEffect
  <2> QED
    BY <1>1, <1>3, <2>1, <2>3
<1>4. CASE freeResp # 0
  <2>1. /\ resps' = [resps EXCEPT ![freeResp] = ZeroResp]
        /\ resp' = [resp EXCEPT ![w] = freeResp]
        /\ freeResp' = resps[freeResp].next
    BY <1>4 DEF GetResponse
  <2>2. freeResp \in 1..Len(resps)
    BY <1>1, <1>4
  <2>3. resps[freeResp].next \in 0..Len(resps)
    <3>1. resps[freeResp] \in RespType(Len(resps))
      BY <1>1, <2>2
    <3> QED
      BY <3>1 DEF RespType
  <2>4. ZeroResp \in RespType(Len(resps))
    BY <1>1, <1>2
  <2>5. /\ resps' \in Seq(RespType(Len(resps)))
        /\ Len(resps') = Len(resps)
        /\ resps'[freeResp] = ZeroResp
        /\ \A i \in 1..Len(resps) : i # freeResp => resps'[i] = resps[i]
    BY <1>1, <2>1, <2>2, <2>4, UpdateEffect
  <2> QED
    BY <1>1, <2>1, <2>2, <2>3, <2>5
<1> QED
  BY <1>3, <1>4

\* A worker inside ServeRequest has a Request, inside sendResponse a Response.
LEMMA Holds ==
  ASSUME TypeOK, WorkInv, NEW w \in Workers
  PROVE  /\ pc[w] \notin {"idle", "stopped"} <=> req[w] # 0
         /\ req[w] # 0 => req[w] \in 1..Len(reqs)
         /\ pc[w] \in {"fill", "write", "freeResp"} <=> resp[w] # 0
         /\ resp[w] # 0 => resp[w] \in 1..Len(resps)
<1>1. req[w] \in 0..Len(reqs) /\ resp[w] \in 0..Len(resps) /\ Len(reqs) \in Nat /\ Len(resps) \in Nat
  BY DEF TypeOK, MapTypes, RequestTypes, ResponseTypes, CallTypes, WorkTypes
<1>2. /\ req[w] = 0 <=> pc[w] \in {"idle", "stopped"}
      /\ resp[w] # 0 <=> pc[w] \in {"fill", "write", "freeResp"}
  BY DEF WorkInv, WorkOK
<1> QED
  BY <1>1, <1>2

\* Decoding a header touches the worker's own Request, and not its link; a
\* field that is zero on the wire keeps its value.
LEMMA ReadHeaderEffect ==
  ASSUME TypeOK, WorkInv, NEW w \in Workers, ReadHeader(w)
  PROVE  /\ hdr' = [hdr EXCEPT ![w] = hdr'[w]]
         /\ hdr'[w] \in Headers
         /\ pos[w] = "header" => hdr'[w].seq = nread[w]
         /\ reqs' \in Seq(ReqType(Len(reqs)))
         /\ Len(reqs') = Len(reqs)
         /\ req[w] \in 1..Len(reqs)
         /\ reqs'[req[w]].next = reqs[req[w]].next
         /\ reqs'[req[w]].seq = IF hdr'[w].seq = 0 THEN reqs[req[w]].seq ELSE hdr'[w].seq
         /\ reqs'[req[w]].method =
              IF hdr'[w].method = <<>> THEN reqs[req[w]].method ELSE hdr'[w].method
         /\ \A a \in 1..Len(reqs) : a # req[w] => reqs'[a] = reqs[a]
<1>1. reqs \in Seq(ReqType(Len(reqs))) /\ Len(reqs) \in Nat /\ req \in [Workers -> 0..Len(reqs)]
      /\ nread \in [Workers -> Nat] /\ hdr \in [Workers -> Headers]
  BY DEF TypeOK, MapTypes, RequestTypes, ResponseTypes, CallTypes, WorkTypes
<1>2. req[w] \in 1..Len(reqs)
  BY Holds DEF ReadHeader
<1> DEFINE r == reqs[req[w]]
<1>3. PICK h \in NextHeaders(w) : /\ hdr' = [hdr EXCEPT ![w] = h]
                                  /\ reqs' = [reqs EXCEPT ![req[w]] = Decoded(r, h)]
  BY DEF ReadHeader
<1>4. h \in Headers /\ (pos[w] = "header" => h.seq = nread[w]) /\ hdr'[w] = h
  <2>1. hdr'[w] = h
    BY <1>1, <1>3
  <2>2. CASE pos[w] = "header"
    BY <1>1, <1>3, <2>1, <2>2 DEF NextHeaders, Headers, Names
  <2>3. CASE pos[w] # "header"
    BY <1>3, <2>1, <2>3, ServerAssumption DEF NextHeaders, Strays, Headers
  <2> QED
    BY <2>2, <2>3
<1>5. r \in ReqType(Len(reqs))
  BY <1>1, <1>2
<1>6. /\ Decoded(r, h) \in ReqType(Len(reqs))
      /\ Decoded(r, h).next = r.next
      /\ Decoded(r, h).seq = IF h.seq = 0 THEN r.seq ELSE h.seq
      /\ Decoded(r, h).method = IF h.method = <<>> THEN r.method ELSE h.method
  BY <1>4, <1>5 DEF Decoded, ReqType, Headers
<1> HIDE DEF r
<1>7. /\ reqs' \in Seq(ReqType(Len(reqs)))
      /\ Len(reqs') = Len(reqs)
      /\ reqs'[req[w]] = Decoded(r, h)
      /\ \A i \in 1..Len(reqs) : i # req[w] => reqs'[i] = reqs[i]
  BY <1>1, <1>2, <1>3, <1>6, UpdateEffect
<1> QED
  BY <1>2, <1>3, <1>4, <1>6, <1>7 DEF r

\* sendResponse fills the worker's own Response, and not its link.
LEMMA FillResponseEffect ==
  ASSUME TypeOK, WorkInv, NEW w \in Workers, FillResponse(w)
  PROVE  /\ resps' \in Seq(RespType(Len(resps)))
         /\ Len(resps') = Len(resps)
         /\ resp[w] \in 1..Len(resps)
         /\ req[w] \in 1..Len(reqs)
         /\ resps'[resp[w]].next = resps[resp[w]].next
         /\ resps'[resp[w]].seq = reqs[req[w]].seq
         /\ resps'[resp[w]].method = reqs[req[w]].method
         /\ resps'[resp[w]].error = IF err[w] # "nil" THEN err[w] ELSE resps[resp[w]].error
         /\ \A a \in 1..Len(resps) : a # resp[w] => resps'[a] = resps[a]
<1>1. /\ reqs \in Seq(ReqType(Len(reqs))) /\ Len(reqs) \in Nat /\ req \in [Workers -> 0..Len(reqs)]
      /\ resps \in Seq(RespType(Len(resps))) /\ Len(resps) \in Nat /\ resp \in [Workers -> 0..Len(resps)]
      /\ err[w] \in ErrKinds
  BY DEF TypeOK, MapTypes, RequestTypes, ResponseTypes, CallTypes, WorkTypes
<1>2. req[w] \in 1..Len(reqs) /\ resp[w] \in 1..Len(resps)
  BY Holds DEF FillResponse
<1> DEFINE r == resps[resp[w]]
           q == reqs[req[w]]
           z == [r EXCEPT !.method = q.method, !.error = IF err[w] # "nil" THEN err[w] ELSE @, !.seq = q.seq]
<1>3. r \in RespType(Len(resps)) /\ q \in ReqType(Len(reqs))
  BY <1>1, <1>2
<1>4. /\ z \in RespType(Len(resps))
      /\ z.next = r.next /\ z.seq = q.seq /\ z.method = q.method
      /\ z.error = IF err[w] # "nil" THEN err[w] ELSE r.error
  BY <1>1, <1>3 DEF ReqType, RespType
<1>5. resps' = [resps EXCEPT ![resp[w]] = z]
  BY <1>1, <1>2, <1>3 DEF FillResponse, RespType
<1> HIDE DEF r, q, z
<1>6. /\ resps' \in Seq(RespType(Len(resps)))
      /\ Len(resps') = Len(resps)
      /\ resps'[resp[w]] = z
      /\ \A i \in 1..Len(resps) : i # resp[w] => resps'[i] = resps[i]
  BY <1>1, <1>2, <1>4, <1>5, UpdateEffect
<1> QED
  BY <1>2, <1>4, <1>6 DEF r, q

\* freeRequest links the worker's Request before the head.
LEMMA FreeRequestEffect ==
  ASSUME TypeOK, WorkInv, NEW w \in Workers, FreeRequest(w)
  PROVE  /\ reqs' \in Seq(ReqType(Len(reqs)))
         /\ Len(reqs') = Len(reqs)
         /\ req[w] \in 1..Len(reqs)
         /\ reqs'[req[w]].next = freeReq
         /\ reqs'[req[w]].seq = reqs[req[w]].seq
         /\ reqs'[req[w]].method = reqs[req[w]].method
         /\ \A a \in 1..Len(reqs) : a # req[w] => reqs'[a] = reqs[a]
<1>1. reqs \in Seq(ReqType(Len(reqs))) /\ Len(reqs) \in Nat /\ freeReq \in 0..Len(reqs)
      /\ req \in [Workers -> 0..Len(reqs)]
  BY DEF TypeOK, MapTypes, RequestTypes, ResponseTypes, CallTypes, WorkTypes
<1>2. req[w] \in 1..Len(reqs)
  BY Holds DEF FreeRequest
<1> DEFINE r == reqs[req[w]]
           z == [r EXCEPT !.next = freeReq]
<1>3. r \in ReqType(Len(reqs))
  BY <1>1, <1>2
<1>4. z \in ReqType(Len(reqs)) /\ z.next = freeReq /\ z.seq = r.seq /\ z.method = r.method
  BY <1>1, <1>3 DEF ReqType
<1>5. reqs' = [reqs EXCEPT ![req[w]] = z]
  BY DEF FreeRequest
<1> HIDE DEF r, z
<1>6. /\ reqs' \in Seq(ReqType(Len(reqs)))
      /\ Len(reqs') = Len(reqs)
      /\ reqs'[req[w]] = z
      /\ \A i \in 1..Len(reqs) : i # req[w] => reqs'[i] = reqs[i]
  BY <1>1, <1>2, <1>4, <1>5, UpdateEffect
<1> QED
  BY <1>2, <1>4, <1>6 DEF r

\* freeResponse likewise.
LEMMA FreeResponseEffect ==
  ASSUME TypeOK, WorkInv, NEW w \in Workers, FreeResponse(w)
  PROVE  /\ resps' \in Seq(RespType(Len(resps)))
         /\ Len(resps') = Len(resps)
         /\ resp[w] \in 1..Len(resps)
         /\ resps'[resp[w]].next = freeResp
         /\ \A a \in 1..Len(resps) : a # resp[w] => resps'[a] = resps[a]
<1>1. resps \in Seq(RespType(Len(resps))) /\ Len(resps) \in Nat /\ freeResp \in 0..Len(resps)
      /\ resp \in [Workers -> 0..Len(resps)]
  BY DEF TypeOK, MapTypes, RequestTypes, ResponseTypes, CallTypes, WorkTypes
<1>2. resp[w] \in 1..Len(resps)
  BY Holds DEF FreeResponse
<1> DEFINE r == resps[resp[w]]
           z == [r EXCEPT !.next = freeResp]
<1>3. r \in RespType(Len(resps))
  BY <1>1, <1>2
<1>4. z \in RespType(Len(resps)) /\ z.next = freeResp
  BY <1>1, <1>3 DEF RespType
<1>5. resps' = [resps EXCEPT ![resp[w]] = z]
  BY DEF FreeResponse
<1> HIDE DEF r, z
<1>6. /\ resps' \in Seq(RespType(Len(resps)))
      /\ Len(resps') = Len(resps)
      /\ resps'[resp[w]] = z
      /\ \A i \in 1..Len(resps) : i # resp[w] => resps'[i] = resps[i]
  BY <1>1, <1>2, <1>4, <1>5, UpdateEffect
<1> QED
  BY <1>2, <1>4, <1>6 DEF r

-----------------------------------------------------------------------------
(* Type correctness, and where a worker is; no assumption on HandlerCalls. *)

\* findMethod returns a method of a registered service or nil.
LEMMA FindMethodType ==
  ASSUME TypeOK, NEW sm
  PROVE  FindMethod(sm) \in Methods \cup {NoMethod}
<1>1. CASE /\ sm # <<>>
           /\ sm[1] \in DOMAIN serviceMap
           /\ sm[2] \in RegMethods[serviceMap[sm[1]]]
  <2>1. serviceMap[sm[1]] \in Registrars
    BY <1>1 DEF TypeOK, MapTypes
  <2>2. sm[2] \in UNION {RegMethods[r] : r \in Registrars}
    BY <1>1, <2>1
  <2>3. <<serviceMap[sm[1]], sm[2]>> \in Methods
    BY <1>1, <2>1, <2>2 DEF Methods
  <2> QED
    BY <1>1, <2>3 DEF FindMethod
<1>2. CASE ~(/\ sm # <<>>
             /\ sm[1] \in DOMAIN serviceMap
             /\ sm[2] \in RegMethods[serviceMap[sm[1]]])
  BY <1>2 DEF FindMethod
<1> QED
  BY <1>1, <1>2

\* The parts of a method.
LEMMA MethodParts ==
  ASSUME NEW x \in Methods
  PROVE  /\ x[1] \in Registrars
         /\ x[2] \in RegMethods[x[1]]
         /\ x = <<x[1], x[2]>>
         /\ x # NoMethod
  BY ServerAssumption DEF Methods

\* The initial state is well typed.
LEMMA TypeInit == Init => TypeOK
<1> SUFFICES ASSUME Init PROVE TypeOK
  OBVIOUS
<1>1. MapTypes
  BY DEF Init, MapTypes
<1>2. RequestTypes
  BY DEF Init, RequestTypes
<1>3. ResponseTypes
  BY DEF Init, ResponseTypes
<1>4. CallTypes
  BY DEF Init, CallTypes
<1>5. WorkTypes
  <2>1. <<>> \in Seq(Answers)
    OBVIOUS
  <2>2. ZeroHdr \in Headers
    BY DEF ZeroHdr, Headers, Names
  <2> QED
    BY <2>1, <2>2 DEF Init, WorkTypes, WorkPcs, ErrKinds
<1> QED
  BY <1>1, <1>2, <1>3, <1>4, <1>5 DEF TypeOK

\* No step of ServeRequest touches the service map.
LEMMA TypeMap ==
  ASSUME MapTypes, UNCHANGED mapVars
  PROVE  MapTypes'
  BY DEF MapTypes, mapVars

\* The steps of readRequest keep the types.
LEMMA TypeRead ==
  ASSUME TypeOK, WorkInv, NEW w \in Workers, ReadRequest(w)
  PROVE  TypeOK'
<1> USE DEF mapVars, reqPool, respPool, WorkPcs, TypeOK
<1>m. MapTypes'
  BY TypeMap DEF ReadRequest, GetRequest, ReadHeader, HeaderFails, Find, DiscardBody, PreBody, ReadBody
<1>c. CallTypes'
  BY DEF ReadRequest, GetRequest, ReadHeader, HeaderFails, Find, DiscardBody, PreBody, ReadBody, CallTypes
<1>p. ResponseTypes'
  BY DEF ReadRequest, GetRequest, ReadHeader, HeaderFails, Find, DiscardBody, PreBody, ReadBody, ResponseTypes
<1>1. CASE GetRequest(w)
  <2>1. RequestTypes'
    BY <1>1, GetRequestEffect DEF RequestTypes
  <2>2. WorkTypes'
    BY <1>1 DEF GetRequest, WorkTypes
  <2> QED
    BY <1>m, <1>c, <1>p, <2>1, <2>2
<1>2. CASE ReadHeader(w)
  <2>1. RequestTypes'
    BY <1>2, ReadHeaderEffect DEF ReadHeader, RequestTypes
  <2>2. WorkTypes'
    <3>1. hdr' \in [Workers -> Headers]
      BY <1>2, ReadHeaderEffect DEF WorkTypes
    <3>2. /\ pos' = [pos EXCEPT ![w] = IF @ = "header" THEN "body" ELSE "astray"]
          /\ nread' = [nread EXCEPT ![w] = @ + 1]
          /\ pc' = [pc EXCEPT ![w] = "find"]
          /\ UNCHANGED <<mtype, err, times, skipped, written>>
      BY <1>2 DEF ReadHeader
    <3> QED
      BY <3>1, <3>2 DEF WorkTypes
  <2> QED
    BY <1>m, <1>c, <1>p, <2>1, <2>2
<1>3. CASE HeaderFails(w)
  <2>1. RequestTypes'
    BY <1>3 DEF HeaderFails, RequestTypes
  <2>2. WorkTypes'
    <3>1. pc' \in [Workers -> WorkPcs]
      BY <1>3 DEF HeaderFails, WorkTypes
    <3>p. pos' \in [Workers -> {"header", "body", "orphan", "lost", "garbled", "astray"}]
      <4>1. AfterBadHeader(w) \in {"header", "body", "orphan", "lost", "garbled", "astray"}
        BY DEF AfterBadHeader, WorkTypes
      <4> QED
        BY <1>3, <4>1 DEF HeaderFails, WorkTypes
    <3>2. nread' \in [Workers -> Nat] /\ skipped' \in [Workers -> Nat]
      <4>1. nread \in [Workers -> Nat] /\ skipped \in [Workers -> Nat]
        BY DEF WorkTypes
      <4>2. \/ nread' = nread /\ skipped' = skipped
            \/ /\ nread' = [nread EXCEPT ![w] = nread[w] + 1]
               /\ skipped' = [skipped EXCEPT ![w] = skipped[w] + 1]
        BY <1>3 DEF HeaderFails
      <4> QED
        BY <4>1, <4>2
    <3>3. UNCHANGED <<mtype, err, times, hdr, written>>
      BY <1>3 DEF HeaderFails
    <3> QED
      BY <3>1, <3>p, <3>2, <3>3 DEF WorkTypes
  <2> QED
    BY <1>m, <1>c, <1>p, <2>1, <2>2
<1>4. CASE Find(w)
  <2>1. FindMethod(reqs[req[w]].method) \in Methods \cup {NoMethod}
    BY FindMethodType
  <2>2. RequestTypes'
    BY <1>4 DEF Find, RequestTypes
  <2>3. WorkTypes'
    BY <1>4, <2>1 DEF Find, WorkTypes, ErrKinds
  <2> QED
    BY <1>m, <1>c, <1>p, <2>2, <2>3
<1>5. CASE DiscardBody(w) \/ PreBody(w) \/ ReadBody(w)
  <2>1. RequestTypes'
    BY <1>5 DEF DiscardBody, PreBody, ReadBody, RequestTypes
  <2>2. WorkTypes'
    <3>1. /\ AfterBody(w) \in {"header", "body", "orphan", "lost", "garbled", "astray"}
          /\ AfterBadBody(w) \in {"header", "body", "orphan", "lost", "garbled", "astray"}
      BY DEF AfterBody, AfterBadBody, WorkTypes
    <3>2. pos' \in [Workers -> {"header", "body", "orphan", "lost", "garbled", "astray"}]
      BY <1>5, <3>1 DEF DiscardBody, PreBody, ReadBody, WorkTypes
    <3> QED
      BY <1>5, <3>2 DEF DiscardBody, PreBody, ReadBody, WorkTypes, ErrKinds
  <2> QED
    BY <1>m, <1>c, <1>p, <2>1, <2>2
<1> QED
  BY <1>1, <1>2, <1>3, <1>4, <1>5 DEF ReadRequest

\* The steps around the method call keep the types.
LEMMA TypeCall ==
  ASSUME TypeOK, WorkInv, NEW w \in Workers, ServiceCall(w)
  PROVE  TypeOK'
<1> USE DEF mapVars, reqPool, respPool, WorkPcs, TypeOK
<1>m. MapTypes'
  BY TypeMap DEF ServiceCall, Dispatch, CountCall, RunMethod
<1>p. ResponseTypes'
  BY DEF ServiceCall, Dispatch, CountCall, RunMethod, ResponseTypes
<1>1. CASE Dispatch(w)
  <2>1. RequestTypes'
    BY <1>1, SMTT(30) DEF Dispatch, RequestTypes
  <2>2. WorkTypes' /\ CallTypes'
    <3>1. PICK n \in HandlerCalls :
            /\ times' = [times EXCEPT ![w] = n]
            /\ IF n = 0
                 THEN /\ pc' = [pc EXCEPT ![w] = "idle"]
                      /\ skipped' = [skipped EXCEPT ![w] = @ + 1]
                 ELSE /\ pc' = [pc EXCEPT ![w] = "call"]
                      /\ UNCHANGED skipped
      BY <1>1 DEF Dispatch
    <3>2. n \in Nat
      BY ServerAssumption
    <3>3. /\ times' \in [Workers -> Nat]
          /\ pc' \in [Workers -> WorkPcs]
          /\ skipped' \in [Workers -> Nat]
      <4>1. /\ times \in [Workers -> Nat]
            /\ pc \in [Workers -> WorkPcs]
            /\ skipped \in [Workers -> Nat]
        BY DEF WorkTypes
      <4>2. CASE n = 0
        BY <3>1, <3>2, <4>1, <4>2
      <4>3. CASE n # 0
        BY <3>1, <3>2, <4>1, <4>3
      <4> QED
        BY <4>2, <4>3
    <3>4. UNCHANGED <<numCalls, mtype, err, pos, hdr, nread, written>>
      BY <1>1 DEF Dispatch
    <3> QED
      BY <3>3, <3>4 DEF WorkTypes, CallTypes
  <2> QED
    BY <1>m, <1>p, <2>1, <2>2
<1>2. CASE CountCall(w)
  <2> DEFINE r == mtype[w][1]
             m == mtype[w][2]
  <2>1. mtype[w] \in Methods
    BY <1>2 DEF CountCall, WorkInv, WorkOK, WorkTypes
  <2>2. r \in Registrars /\ m \in RegMethods[r]
    BY <2>1, MethodParts
  <2>3. numCalls' = [numCalls EXCEPT ![r] = [numCalls[r] EXCEPT ![m] = numCalls[r][m] + 1]]
    BY <1>2 DEF CountCall
  <2>4. [numCalls[r] EXCEPT ![m] = numCalls[r][m] + 1] \in [RegMethods[r] -> Nat]
    BY <2>2 DEF CallTypes
  <2> HIDE DEF r, m
  <2>5. CallTypes'
    BY <2>2, <2>3, <2>4 DEF CallTypes
  <2>6. RequestTypes' /\ WorkTypes'
    BY <1>2 DEF CountCall, RequestTypes, WorkTypes
  <2> QED
    BY <1>m, <1>p, <2>5, <2>6
<1>3. CASE RunMethod(w)
  <2>1. CallTypes' /\ RequestTypes' /\ WorkTypes'
    BY <1>3 DEF RunMethod, CallTypes, RequestTypes, WorkTypes, ErrKinds
  <2> QED
    BY <1>m, <1>p, <2>1
<1> QED
  BY <1>1, <1>2, <1>3 DEF ServiceCall

\* The steps of sendResponse and freeRequest keep the types.
LEMMA TypeAnswer ==
  ASSUME TypeOK, WorkInv, NEW w \in Workers, SendResponse(w)
  PROVE  TypeOK'
<1> USE DEF mapVars, reqPool, respPool, WorkPcs, TypeOK
<1>m. MapTypes'
  BY TypeMap DEF SendResponse, GetResponse, FillResponse, WriteResponse, FreeResponse, FreeRequest
<1>c. CallTypes'
  BY DEF SendResponse, GetResponse, FillResponse, WriteResponse, FreeResponse, FreeRequest, CallTypes
<1>1. CASE GetResponse(w)
  <2>1. ResponseTypes'
    BY <1>1, GetResponseEffect DEF ResponseTypes
  <2>2. RequestTypes' /\ WorkTypes'
    BY <1>1 DEF GetResponse, RequestTypes, WorkTypes
  <2> QED
    BY <1>m, <1>c, <2>1, <2>2
<1>2. CASE FillResponse(w)
  <2>1. ResponseTypes'
    BY <1>2, FillResponseEffect DEF FillResponse, ResponseTypes
  <2>2. RequestTypes' /\ WorkTypes'
    BY <1>2 DEF FillResponse, RequestTypes, WorkTypes
  <2> QED
    BY <1>m, <1>c, <2>1, <2>2
<1>3. CASE WriteResponse(w)
  <2> DEFINE r == resps[resp[w]]
             a == [seq |-> r.seq, method |-> r.method, error |-> r.error,
                   to |-> hdr[w], err |-> err[w], by |-> mtype[w]]
  <2>1. resp[w] \in 1..Len(resps)
    BY <1>3, Holds DEF WriteResponse
  <2>2. r \in RespType(Len(resps))
    BY <2>1 DEF ResponseTypes
  <2>3. a \in Answers
    BY <2>2 DEF WorkTypes, Answers, RespType
  <2>4. written' = [written EXCEPT ![w] = Append(written[w], a)]
    BY <1>3 DEF WriteResponse
  <2> HIDE DEF a
  <2>5. Append(written[w], a) \in Seq(Answers)
    BY <2>3 DEF WorkTypes
  <2>6. WorkTypes'
    BY <1>3, <2>4, <2>5 DEF WriteResponse, WorkTypes
  <2>7. RequestTypes' /\ ResponseTypes'
    BY <1>3 DEF WriteResponse, RequestTypes, ResponseTypes
  <2> QED
    BY <1>m, <1>c, <2>6, <2>7
<1>4. CASE FreeResponse(w)
  <2>1. ResponseTypes'
    <3>1. freeResp' = resp[w] /\ resp' = [resp EXCEPT ![w] = 0]
      BY <1>4 DEF FreeResponse
    <3> QED
      BY <1>4, <3>1, FreeResponseEffect DEF ResponseTypes
  <2>2. RequestTypes' /\ WorkTypes'
    BY <1>4 DEF FreeResponse, RequestTypes, WorkTypes
  <2> QED
    BY <1>m, <1>c, <2>1, <2>2
<1>5. CASE FreeRequest(w)
  <2>1. RequestTypes'
    <3>1. freeReq' = req[w] /\ (req' = req \/ req' = [req EXCEPT ![w] = 0])
      BY <1>5 DEF FreeRequest
    <3> QED
      BY <1>5, <3>1, FreeRequestEffect DEF RequestTypes
  <2>2. ResponseTypes'
    BY <1>5 DEF FreeRequest, ResponseTypes
  <2>3. WorkTypes'
    <3>1. pc' \in [Workers -> WorkPcs]
      BY <1>5 DEF FreeRequest, WorkTypes
    <3>2. times' \in [Workers -> Nat]
      <4>1. times \in [Workers -> Nat]
        BY DEF WorkTypes
      <4>2. \/ times[w] > 1 /\ times' = [times EXCEPT ![w] = times[w] - 1]
            \/ times' = [times EXCEPT ![w] = 0]
        BY <1>5 DEF FreeRequest
      <4> QED
        BY <4>1, <4>2
    <3>3. UNCHANGED <<mtype, err, pos, hdr, nread, skipped, written>>
      BY <1>5 DEF FreeRequest
    <3> QED
      BY <3>1, <3>2, <3>3 DEF WorkTypes
  <2> QED
    BY <1>m, <1>c, <2>1, <2>2, <2>3
<1> QED
  BY <1>1, <1>2, <1>3, <1>4, <1>5 DEF SendResponse

\* Registering a service keeps the types, and touches nothing else.
LEMMA TypeRegister ==
  ASSUME TypeOK, NEW r \in Registrars, Register(r)
  PROVE  TypeOK'
<1> USE DEF mapVars, reqPool, respPool, workVars, TypeOK
<1>1. MapTypes'
  <2>1. CASE r \in Unnamed \/ RegMethods[r] = {} \/ RegName[r] \in DOMAIN serviceMap
    BY <2>1 DEF Register, MapTypes
  <2>2. CASE ~(r \in Unnamed \/ RegMethods[r] = {} \/ RegName[r] \in DOMAIN serviceMap)
    <3>1. /\ serviceMap' = [n \in DOMAIN serviceMap \cup {RegName[r]} |->
                              IF n = RegName[r] THEN r ELSE serviceMap[n]]
          /\ regPc' = [regPc EXCEPT ![r] = "ok"]
      BY <2>2 DEF Register
    <3> QED
      BY <3>1 DEF MapTypes
  <2> QED
    BY <2>1, <2>2
<1>2. RequestTypes' /\ ResponseTypes'
  BY DEF Register, RequestTypes, ResponseTypes
<1>3. CallTypes' /\ WorkTypes'
  BY DEF Register, CallTypes, WorkTypes
<1> QED
  BY <1>1, <1>2, <1>3

\* A step of one connection's ServeRequest leaves the variables of the others.
LEMMA OthersKept ==
  ASSUME TypeOK, NEW w \in Workers, NEW v \in Workers, v # w,
         ReadRequest(w) \/ ServiceCall(w) \/ SendResponse(w)
  PROVE  /\ pc'[v] = pc[v] /\ req'[v] = req[v] /\ resp'[v] = resp[v]
         /\ mtype'[v] = mtype[v] /\ err'[v] = err[v] /\ times'[v] = times[v]
         /\ pos'[v] = pos[v] /\ hdr'[v] = hdr[v] /\ nread'[v] = nread[v]
         /\ skipped'[v] = skipped[v] /\ written'[v] = written[v]
<1>1. CASE ReadRequest(w)
  <2>1. CASE ReadHeader(w)
    BY <2>1 DEF ReadHeader, TypeOK, RequestTypes, WorkTypes
  <2>2. CASE ~ReadHeader(w)
    BY <1>1, <2>2 DEF ReadRequest, GetRequest, HeaderFails, Find, DiscardBody, PreBody, ReadBody,
                      TypeOK, RequestTypes, WorkTypes
  <2> QED
    BY <2>1, <2>2
<1>2. CASE ServiceCall(w)
  BY <1>2 DEF ServiceCall, Dispatch, CountCall, RunMethod, TypeOK, RequestTypes, WorkTypes
<1>3. CASE SendResponse(w)
  BY <1>3 DEF SendResponse, GetResponse, FillResponse, WriteResponse, FreeResponse, FreeRequest,
              TypeOK, RequestTypes, ResponseTypes, WorkTypes
<1> QED
  BY <1>1, <1>2, <1>3

\* Once something else has been taken for a header, a connection stays astray.
LEMMA StrayStays ==
  ASSUME TypeOK, NEW w \in Workers, ReadRequest(w) \/ ServiceCall(w) \/ SendResponse(w),
         pos[w] = "astray"
  PROVE  pos'[w] = "astray"
<1>t. pos \in [Workers -> {"header", "body", "orphan", "lost", "garbled", "astray"}]
  BY DEF TypeOK, WorkTypes
<1>0. CASE ReadHeader(w)
  <2>1. pos' = [pos EXCEPT ![w] = IF pos[w] = "header" THEN "body" ELSE "astray"]
    BY <1>0 DEF ReadHeader
  <2> QED
    BY <1>t, <2>1
<1>1. CASE HeaderFails(w)
  <2>1. pos' = pos \/ pos' = [pos EXCEPT ![w] = AfterBadHeader(w)]
    BY <1>1 DEF HeaderFails
  <2>2. AfterBadHeader(w) = "astray"
    BY DEF AfterBadHeader
  <2> QED
    BY <1>t, <2>1, <2>2
<1>2. CASE DiscardBody(w) \/ ReadBody(w)
  BY <1>2, <1>t DEF DiscardBody, ReadBody, AfterBody, AfterBadBody
<1>3. CASE GetRequest(w) \/ Find(w) \/ PreBody(w) \/ ServiceCall(w) \/ SendResponse(w)
  BY <1>3 DEF GetRequest, Find, PreBody, ServiceCall, Dispatch, CountCall, RunMethod, SendResponse,
              GetResponse, FillResponse, WriteResponse, FreeResponse, FreeRequest
<1> QED
  BY <1>0, <1>1, <1>2, <1>3 DEF ReadRequest

\* WorkOK and PosOK are kept for the connection that takes a step.
LEMMA WorkStep ==
  ASSUME TypeOK, WorkInv, PosInv, NEW w \in Workers,
         ReadRequest(w) \/ ServiceCall(w) \/ SendResponse(w)
  PROVE  WorkOK(w)' /\ PosOK(w)'
<1>t. /\ pc \in [Workers -> WorkPcs] /\ req \in [Workers -> 0..Len(reqs)]
      /\ resp \in [Workers -> 0..Len(resps)] /\ mtype \in [Workers -> Methods \cup {NoMethod}]
      /\ err \in [Workers -> ErrKinds] /\ times \in [Workers -> Nat]
      /\ pos \in [Workers -> {"header", "body", "orphan", "lost", "garbled", "astray"}]
      /\ Len(reqs) \in Nat /\ Len(resps) \in Nat
  BY DEF TypeOK, RequestTypes, ResponseTypes, WorkTypes
<1>i. WorkOK(w) /\ PosOK(w)
  BY DEF WorkInv, PosInv
<1> USE DEF Answering
<1>1. CASE GetRequest(w)
  BY <1>1, <1>i, <1>t, GetRequestEffect DEF GetRequest, WorkOK, PosOK
<1>2. CASE ReadHeader(w)
  BY <1>2, <1>i, <1>t DEF ReadHeader, WorkOK, PosOK
<1>3. CASE HeaderFails(w)
  <2>1. CASE pc'[w] = "stopped"
    BY <1>3, <1>i, <1>t, <2>1 DEF HeaderFails, WorkOK, PosOK
  <2>2. CASE pc'[w] # "stopped"
    <3>1. pc'[w] = "idle" /\ pos'[w] = AfterBadHeader(w) /\ w \in KeepServing
      BY <1>3, <1>t, <2>2 DEF HeaderFails
    <3>2. \/ AfterBadHeader(w) \in {"header", "orphan", "garbled", "astray"}
          \/ w \in Rejecting \/ w \notin Framed
      BY <1>3, <1>i, <1>t DEF HeaderFails, PosOK, AfterBadHeader
    <3>3. PosOK(w)'
      BY <3>1, <3>2 DEF PosOK
    <3> QED
      BY <1>3, <1>i, <1>t, <3>1, <3>3 DEF HeaderFails, WorkOK
  <2> QED
    BY <2>1, <2>2
<1>4. CASE Find(w)
  BY <1>4, <1>i, <1>t DEF Find, WorkOK, PosOK
<1>5. CASE DiscardBody(w)
  <2>1. /\ pc[w] = "discard" /\ pc'[w] = "getResp" /\ err'[w] = err[w]
        /\ pos'[w] = AfterBody(w) \/ pos'[w] = AfterBadBody(w)
    BY <1>5, <1>t DEF DiscardBody
  <2>2. PosOK(w)'
    BY <1>i, <2>1 DEF WorkOK, PosOK, AfterBody, AfterBadBody
  <2> QED
    BY <1>5, <1>i, <1>t, <2>2 DEF DiscardBody, WorkOK
<1>6. CASE PreBody(w)
  BY <1>6, <1>i, <1>t DEF PreBody, WorkOK, PosOK
<1>7. CASE ReadBody(w)
  BY <1>7, <1>i, <1>t DEF ReadBody, WorkOK, PosOK, AfterBody, AfterBadBody
<1>8. CASE Dispatch(w)
  BY <1>8, <1>i, <1>t, ServerAssumption DEF Dispatch, WorkOK, PosOK
<1>9. CASE CountCall(w)
  BY <1>9, <1>i, <1>t DEF CountCall, WorkOK, PosOK
<1>10. CASE RunMethod(w)
  BY <1>10, <1>i, <1>t DEF RunMethod, WorkOK, PosOK
<1>11. CASE GetResponse(w)
  BY <1>11, <1>i, <1>t, GetResponseEffect DEF GetResponse, WorkOK, PosOK
<1>12. CASE FillResponse(w)
  BY <1>12, <1>i, <1>t DEF FillResponse, WorkOK, PosOK
<1>13. CASE WriteResponse(w)
  BY <1>13, <1>i, <1>t DEF WriteResponse, WorkOK, PosOK
<1>14. CASE FreeResponse(w)
  BY <1>14, <1>i, <1>t DEF FreeResponse, WorkOK, PosOK
<1>15. CASE FreeRequest(w)
  BY <1>15, <1>i, <1>t DEF FreeRequest, WorkOK, PosOK
<1> QED
  BY <1>1, <1>2, <1>3, <1>4, <1>5, <1>6, <1>7, <1>8, <1>9, <1>10, <1>11, <1>12, <1>13, <1>14, <1>15
  DEF ReadRequest, ServiceCall, SendResponse

\* What holds however often an interceptor calls its handler.
LoopInv == TypeOK /\ WorkInv /\ PosInv

\* LoopInv holds at first.
LEMMA LoopInit == Init => LoopInv
<1> SUFFICES ASSUME Init PROVE WorkInv /\ PosInv
  BY TypeInit DEF LoopInv
<1> QED
  BY DEF Init, WorkInv, WorkOK, PosInv, PosOK, Answering

\* Every step keeps LoopInv.
LEMMA LoopStep ==
  ASSUME LoopInv, [Next]_vars
  PROVE  LoopInv'
<1> USE DEF LoopInv
<1>1. ASSUME NEW w \in Workers, ReadRequest(w) \/ ServiceCall(w) \/ SendResponse(w)
      PROVE  LoopInv'
  <2>1. TypeOK'
    BY <1>1, TypeRead, TypeCall, TypeAnswer
  <2>2. ASSUME NEW v \in Workers PROVE WorkOK(v)' /\ PosOK(v)'
    <3>1. CASE v = w
      BY <1>1, <3>1, WorkStep
    <3>2. CASE v # w
      <4>1. WorkOK(v) /\ PosOK(v)
        BY DEF WorkInv, PosInv
      <4> QED
        BY <1>1, <3>2, <4>1, OthersKept DEF WorkOK, PosOK, Answering
    <3> QED
      BY <3>1, <3>2
  <2> QED
    BY <2>1, <2>2 DEF WorkInv, PosInv
<1>2. ASSUME NEW r \in Registrars, Register(r)
      PROVE  LoopInv'
  <2>1. TypeOK'
    BY <1>2, TypeRegister
  <2>2. UNCHANGED workVars
    BY <1>2 DEF Register
  <2> QED
    BY <2>1, <2>2 DEF WorkInv, PosInv, WorkOK, PosOK, Answering, workVars
<1>3. CASE UNCHANGED vars
  BY <1>3 DEF vars, mapVars, reqPool, respPool, workVars, TypeOK, MapTypes, RequestTypes,
              ResponseTypes, CallTypes, WorkTypes, WorkInv, PosInv, WorkOK, PosOK, Answering
<1> QED
  BY <1>1, <1>2, <1>3 DEF Next, Stopped

\* TypeOK is an invariant of the server, whatever the interceptors do.
THEOREM TypeCorrect == Spec => []TypeOK
<1>1. LoopInv => TypeOK
  BY DEF LoopInv
<1> QED
  BY <1>1, LoopInit, LoopStep, PTL DEF Spec

\* ServeRequest recovers from an error for the connections that are served on
\* after it: provided their codec reads a bad value to its end and no pre-body
\* interceptor rejects on them, no header is read from the body of a header
\* that was decoded, or from inside one.
THEOREM KeepsItsPlace ==
  ASSUME KeepServing \subseteq Framed \ Rejecting
  PROVE  Spec => []RecoversAfterError
<1>1. LoopInv => RecoversAfterError
  BY DEF LoopInv, PosInv, PosOK, RecoversAfterError, PairedReads
<1> QED
  BY <1>1, LoopInit, LoopStep, PTL DEF Spec

\* LoadOrStore: a step only adds to the service map.
THEOREM ServicesStable == Spec => RegistrationStable
<1> DEFINE Kept == \A n \in DOMAIN serviceMap :
                     n \in DOMAIN serviceMap' /\ serviceMap'[n] = serviceMap[n]
<1>1. [Next]_vars => [Kept]_vars
  <2>1. ASSUME NEW r \in Registrars, Register(r) PROVE Kept
    <3>1. CASE r \in Unnamed \/ RegMethods[r] = {} \/ RegName[r] \in DOMAIN serviceMap
      BY <2>1, <3>1 DEF Register
    <3>2. CASE ~(r \in Unnamed \/ RegMethods[r] = {} \/ RegName[r] \in DOMAIN serviceMap)
      BY <2>1, <3>2 DEF Register
    <3> QED
      BY <3>1, <3>2
  <2>2. ASSUME NEW w \in Workers, ReadRequest(w) \/ ServiceCall(w) \/ SendResponse(w) PROVE Kept
    <3>1. serviceMap' = serviceMap
      BY <2>2 DEF ReadRequest, GetRequest, ReadHeader, HeaderFails, Find, DiscardBody, PreBody,
                  ReadBody, ServiceCall, Dispatch, CountCall, RunMethod, SendResponse, GetResponse,
                  FillResponse, WriteResponse, FreeResponse, FreeRequest, mapVars
    <3> QED
      BY <3>1
  <2>3. ASSUME Next PROVE Kept \/ UNCHANGED vars
    BY <2>1, <2>2, <2>3 DEF Next, Stopped
  <2> QED
    BY <2>3
<1> QED
  BY <1>1, PTL DEF Spec, RegistrationStable

-----------------------------------------------------------------------------
(* The pools, for interceptors that call the handler at most once.         *)

\* A worker without an object takes one.
LEMMA Acquire ==
  ASSUME NEW f \in [Workers -> Nat], NEW w \in Workers, f[w] = 0, NEW x \in Nat, x # 0,
         NEW g, g = [f EXCEPT ![w] = x]
  PROVE  {g[v] : v \in Workers} \ {0} = ({f[v] : v \in Workers} \ {0}) \cup {x}
<1>1. g[w] = x /\ \A v \in Workers : v # w => g[v] = f[v]
  OBVIOUS
<1> QED
  BY <1>1

\* A worker gives up its object, which no other has.
LEMMA Release ==
  ASSUME NEW f \in [Workers -> Nat], NEW w \in Workers, f[w] # 0,
         \A v \in Workers : v # w => f[v] # f[w],
         NEW g, g = [f EXCEPT ![w] = 0]
  PROVE  {g[v] : v \in Workers} \ {0} = ({f[v] : v \in Workers} \ {0}) \ {f[w]}
<1>1. g[w] = 0 /\ \A v \in Workers : v # w => g[v] = f[v]
  OBVIOUS
<1> QED
  BY <1>1

\* There are no more objects held than workers.
LEMMA HeldSize ==
  ASSUME NEW f \in [Workers -> Nat]
  PROVE  LET H == {f[v] : v \in Workers} \ {0} IN
           IsFiniteSet(H) /\ Cardinality(H) \in Nat /\ Cardinality(H) <= Cardinality(Workers)
<1> DEFINE I == {f[v] : v \in Workers}
<1>1. f \in Surjection(Workers, I)
  BY DEF Surjection
<1>2. IsFiniteSet(Workers)
  BY ServerAssumption
<1>3. IsFiniteSet(I) /\ Cardinality(I) <= Cardinality(Workers)
  BY <1>1, <1>2, FS_Surjection
<1> HIDE DEF I
<1>4. IsFiniteSet(I \ {0}) /\ Cardinality(I \ {0}) <= Cardinality(I)
  BY <1>3, FS_Subset
<1>5. Cardinality(I \ {0}) \in Nat /\ Cardinality(I) \in Nat /\ Cardinality(Workers) \in Nat
  BY <1>2, <1>3, <1>4, FS_CardinalityType
<1> QED
  BY <1>3, <1>4, <1>5 DEF I

\* The connections that ended, and the requests without a response.
Ended == {w \in Workers : pc[w] = "stopped"}
Skips == {x \in Workers \X (1..MaxRequests) : x[2] <= skipped[x[1]]}

\* Both are finite, whatever pc and skipped are.
LEMMA LeaksFinite ==
  ASSUME NEW p, NEW k
  PROVE  /\ IsFiniteSet({w \in Workers : p[w] = "stopped"})
         /\ IsFiniteSet({x \in Workers \X (1..MaxRequests) : x[2] <= k[x[1]]})
<1>1. IsFiniteSet(Workers) /\ MaxRequests \in Nat
  BY ServerAssumption
<1>2. IsFiniteSet(1..MaxRequests)
  BY <1>1, FirstN
<1>3. IsFiniteSet(Workers \X (1..MaxRequests))
  BY <1>1, <1>2, FS_Product
<1> QED
  BY <1>1, <1>3, FS_Subset

\* Leaks is a number, now and in the next state.
LEMMA LeaksType ==
  /\ IsFiniteSet(Ended) /\ IsFiniteSet(Skips)
  /\ Cardinality(Ended) \in Nat /\ Cardinality(Skips) \in Nat
  /\ Leaks = Cardinality(Ended) + Cardinality(Skips)
  /\ IsFiniteSet(Ended') /\ IsFiniteSet(Skips')
  /\ Cardinality(Ended') \in Nat /\ Cardinality(Skips') \in Nat
  /\ Leaks' = Cardinality(Ended') + Cardinality(Skips')
<1>1. IsFiniteSet(Ended) /\ IsFiniteSet(Skips)
  BY LeaksFinite DEF Ended, Skips
<1>2. IsFiniteSet(Ended') /\ IsFiniteSet(Skips')
  BY LeaksFinite DEF Ended, Skips
<1>3. /\ Leaks = Cardinality(Ended) + Cardinality(Skips)
      /\ Leaks' = Cardinality(Ended') + Cardinality(Skips')
  BY DEF Leaks, Ended, Skips
<1> QED
  BY <1>1, <1>2, <1>3, FS_CardinalityType

\* Leaks never shrinks when the ended connections and the skipped requests do not.
LEMMA LeaksGrow ==
  ASSUME Ended \subseteq Ended', Skips \subseteq Skips'
  PROVE  Leaks <= Leaks'
<1>1. Cardinality(Ended) <= Cardinality(Ended')
  BY LeaksType, FS_Subset
<1>2. Cardinality(Skips) <= Cardinality(Skips')
  BY LeaksType, FS_Subset
<1> QED
  BY <1>1, <1>2, LeaksType

\* It grows when one of the two gains an element.
LEMMA LeaksMore ==
  ASSUME Ended \subseteq Ended', Skips \subseteq Skips', Ended # Ended' \/ Skips # Skips'
  PROVE  Leaks + 1 <= Leaks'
<1>1. Cardinality(Ended) <= Cardinality(Ended') /\ (Ended # Ended' => Cardinality(Ended) < Cardinality(Ended'))
  BY LeaksType, FS_Subset
<1>2. Cardinality(Skips) <= Cardinality(Skips') /\ (Skips # Skips' => Cardinality(Skips) < Cardinality(Skips'))
  BY LeaksType, FS_Subset
<1> QED
  BY <1>1, <1>2, LeaksType

\* Two workers never hold the same object: req and resp in NoSharing.
Alone(f) == \A v, w \in Workers : v # w /\ f[v] # 0 => f[v] # f[w]

\* The Response free list holds exactly the Responses nobody uses.
LEMMA ResponsesStep ==
  ASSUME LoopInv, ResponsesInv, Alone(resp), NEW w \in Workers,
         ReadRequest(w) \/ ServiceCall(w) \/ SendResponse(w)
  PROVE  ResponsesInv' /\ Alone(resp)'
<1>t. /\ TypeOK /\ WorkInv /\ Len(resps) \in Nat /\ resp \in [Workers -> Nat]
      /\ resp \in [Workers -> 0..Len(resps)]
  BY DEF LoopInv, TypeOK, ResponseTypes
<1> DEFINE F == (1..Len(resps)) \ HeldResps
<1>f. FreeList(resps, freeResp, F)
  BY DEF ResponsesInv
<1>1. CASE GetResponse(w)
  <2> DEFINE x == resp'[w]
  <2>1. resp[w] = 0
    BY <1>1, <1>t, Holds DEF GetResponse
  <2>2. x \in 1..Len(resps') /\ resp' = [resp EXCEPT ![w] = x] /\ Len(resps') \in Nat
        /\ \A a \in 1..Len(resps) : a # x => resps'[a] = resps[a]
    BY <1>1, <1>t, GetResponseEffect
  <2>3. HeldResps' = HeldResps \cup {x}
    BY <1>t, <2>1, <2>2, Acquire DEF HeldResps
  <2>4. x \notin HeldResps /\ FreeList(resps', freeResp', (1..Len(resps')) \ HeldResps')
    <3>1. CASE freeResp = 0
      <4>1. Len(resps') = Len(resps) + 1 /\ x = Len(resps) + 1 /\ freeResp' = freeResp
        <5>1. /\ resps' = Append(resps, ZeroResp)
              /\ resp' = [resp EXCEPT ![w] = Len(resps) + 1]
              /\ freeResp' = freeResp
          BY <1>1, <3>1 DEF GetResponse
        <5>2. resps \in Seq(RespType(Len(resps)))
          BY <1>t DEF TypeOK, ResponseTypes
        <5> QED
          BY <1>t, <5>1, <5>2
      <4>2. F = {}
        BY <1>f, <1>t, <3>1, FreeListHead
      <4>3. (1..Len(resps')) \ HeldResps' = {}
        BY <1>t, <2>3, <4>1, <4>2
      <4>4. FreeList(resps', freeResp', {})
        <5>1. FreeList(resps, freeResp, {}) /\ \A a \in {} : resps'[a].next = resps[a].next
          BY <1>f, <4>2
        <5>2. Len(resps) \in Nat /\ Len(resps') \in Nat /\ Len(resps) <= Len(resps')
          BY <1>t, <4>1
        <5> QED
          BY <4>1, <5>1, <5>2, FreeListSame
      <4>5. x \notin HeldResps
        BY <1>t, <4>1 DEF HeldResps
      <4> QED
        BY <4>3, <4>4, <4>5
    <3>2. CASE freeResp # 0
      <4>1. x = freeResp /\ freeResp' = resps[freeResp].next /\ resps' = [resps EXCEPT ![freeResp] = ZeroResp]
        BY <1>1, <1>t, <3>2 DEF GetResponse
      <4>2. Len(resps') = Len(resps)
        BY <1>t, <4>1 DEF TypeOK, ResponseTypes
      <4>3. freeResp \in F
        BY <1>f, <1>t, <3>2, FreeListHead
      <4>4. FreeList(resps', freeResp', F \ {freeResp})
        BY <1>f, <1>t, <2>2, <3>2, <4>1, <4>2, FreeListPop
      <4>5. (1..Len(resps')) \ HeldResps' = F \ {freeResp}
        BY <2>3, <4>1, <4>2
      <4> QED
        BY <4>1, <4>3, <4>4, <4>5
    <3> QED
      BY <3>1, <3>2
  <2>5. Alone(resp)'
    BY <1>t, <2>2, <2>4 DEF Alone, HeldResps
  <2> QED
    BY <2>4, <2>5 DEF ResponsesInv
<1>2. CASE FillResponse(w)
  <2>1. /\ Len(resps') = Len(resps) /\ resp[w] \in 1..Len(resps)
        /\ \A a \in 1..Len(resps) : resps'[a].next = resps[a].next
    BY <1>2, <1>t, FillResponseEffect
  <2>2. resp' = resp /\ freeResp' = freeResp
    BY <1>2 DEF FillResponse
  <2>3. FreeList(resps', freeResp', F)
    BY <1>f, <1>t, <2>1, <2>2, FreeListSame
  <2> QED
    BY <2>1, <2>2, <2>3 DEF ResponsesInv, Alone, HeldResps
<1>3. CASE FreeResponse(w)
  <2> DEFINE x == resp[w]
  <2>1. /\ x \in 1..Len(resps) /\ Len(resps') = Len(resps) /\ resps'[x].next = freeResp
        /\ \A a \in 1..Len(resps) : a # x => resps'[a] = resps[a]
    BY <1>3, <1>t, FreeResponseEffect
  <2>2. freeResp' = x /\ resp' = [resp EXCEPT ![w] = 0]
    BY <1>3 DEF FreeResponse
  <2>3. x # 0 /\ x \in HeldResps
    BY <2>1 DEF HeldResps
  <2>4. HeldResps' = HeldResps \ {x}
    <3>1. \A v \in Workers : v # w => resp[v] # resp[w]
      BY <2>3 DEF Alone
    <3> QED
      BY <1>t, <2>2, <2>3, <3>1, Release DEF HeldResps
  <2>5. FreeList(resps', freeResp', F \cup {x})
    BY <1>f, <1>t, <2>1, <2>2, <2>3, FreeListPush
  <2>6. (1..Len(resps')) \ HeldResps' = F \cup {x}
    BY <2>1, <2>4
  <2>7. Alone(resp)'
    BY <1>t, <2>2 DEF Alone
  <2> QED
    BY <2>5, <2>6, <2>7 DEF ResponsesInv
<1>4. CASE ReadRequest(w) \/ ServiceCall(w) \/ WriteResponse(w) \/ FreeRequest(w)
  <2>1. resps' = resps /\ freeResp' = freeResp /\ resp' = resp
    BY <1>4 DEF ReadRequest, GetRequest, ReadHeader, HeaderFails, Find, DiscardBody, PreBody,
                ReadBody, ServiceCall, Dispatch, CountCall, RunMethod, WriteResponse, FreeRequest,
                respPool
  <2> QED
    BY <2>1 DEF ResponsesInv, Alone, HeldResps
<1> QED
  BY <1>1, <1>2, <1>3, <1>4 DEF SendResponse

\* The Request free list holds Requests nobody uses, and the rest of those is
\* bounded by what has been leaked.
LEMMA RequestsStep ==
  ASSUME LoopInv, RequestsInv, AnswerInv, Alone(req), \A v \in Workers : times[v] <= 1,
         NEW w \in Workers, ReadRequest(w) \/ ServiceCall(w) \/ SendResponse(w)
  PROVE  RequestsInv' /\ Alone(req)'
<1>t. /\ TypeOK /\ WorkInv /\ Len(reqs) \in Nat /\ req \in [Workers -> Nat]
      /\ req \in [Workers -> 0..Len(reqs)] /\ pc \in [Workers -> WorkPcs]
      /\ skipped \in [Workers -> Nat] /\ nread \in [Workers -> Nat] /\ times[w] \in Nat
  BY DEF LoopInv, TypeOK, RequestTypes, WorkTypes
<1> DEFINE U == (1..Len(reqs)) \ HeldReqs
<1>p. PICK F \in SUBSET U : FreeList(reqs, freeReq, F) /\ Cardinality(U \ F) <= Leaks
  BY DEF RequestsInv
<1>u. IsFiniteSet(U \ F) /\ Cardinality(U \ F) \in Nat /\ Leaks \in Nat /\ Leaks' \in Nat
  <2>1. IsFiniteSet(1..Len(reqs))
    BY <1>t, FirstN
  <2>2. IsFiniteSet(U \ F)
    BY <2>1, FS_Subset
  <2> QED
    BY <2>2, FS_CardinalityType, LeaksType
<1> HIDE DEF U
<1>1. CASE GetRequest(w)
  <2> DEFINE x == req'[w]
  <2>1. req[w] = 0
    BY <1>1, <1>t, Holds DEF GetRequest
  <2>2. x \in 1..Len(reqs') /\ req' = [req EXCEPT ![w] = x] /\ Len(reqs') \in Nat
        /\ \A a \in 1..Len(reqs) : a # x => reqs'[a] = reqs[a]
    BY <1>1, <1>t, GetRequestEffect
  <2>3. HeldReqs' = HeldReqs \cup {x}
    BY <1>t, <2>1, <2>2, Acquire DEF HeldReqs
  <2>4. Leaks <= Leaks'
    <3>1. Ended' = Ended /\ Skips' = Skips
      BY <1>1, <1>t DEF GetRequest, Ended, Skips
    <3> QED
      BY <3>1, LeaksGrow
  <2>5. x \notin HeldReqs /\ RequestsInv'
    <3>1. CASE freeReq = 0
      <4>1. Len(reqs') = Len(reqs) + 1 /\ x = Len(reqs) + 1 /\ freeReq' = freeReq
        <5>1. /\ reqs' = Append(reqs, ZeroReq)
              /\ req' = [req EXCEPT ![w] = Len(reqs) + 1]
              /\ freeReq' = freeReq
          BY <1>1, <3>1 DEF GetRequest
        <5>2. reqs \in Seq(ReqType(Len(reqs)))
          BY <1>t DEF TypeOK, RequestTypes
        <5> QED
          BY <1>t, <5>1, <5>2
      <4>2. F = {}
        BY <1>p, <1>t, <3>1, FreeListHead
      <4>3. ((1..Len(reqs')) \ HeldReqs') = U
        <5>1. x \notin 1..Len(reqs)
          BY <1>t, <4>1
        <5>2. 1..Len(reqs') = (1..Len(reqs)) \cup {x}
          BY <1>t, <4>1
        <5> QED
          BY <2>3, <5>1, <5>2 DEF U
      <4>4. FreeList(reqs', freeReq', {})
        <5>1. FreeList(reqs, freeReq, {}) /\ \A a \in {} : reqs'[a].next = reqs[a].next
          BY <1>p, <4>2
        <5>2. Len(reqs) \in Nat /\ Len(reqs') \in Nat /\ Len(reqs) <= Len(reqs')
          BY <1>t, <4>1
        <5> QED
          BY <4>1, <5>1, <5>2, FreeListSame
      <4>5. x \notin HeldReqs
        BY <1>t, <4>1 DEF HeldReqs
      <4>6. Cardinality(U \ {}) <= Leaks'
        BY <1>p, <1>u, <2>4, <4>2
      <4> QED
        BY <4>3, <4>4, <4>5, <4>6 DEF RequestsInv
    <3>2. CASE freeReq # 0
      <4>1. x = freeReq /\ freeReq' = reqs[freeReq].next /\ reqs' = [reqs EXCEPT ![freeReq] = ZeroReq]
        BY <1>1, <1>t, <3>2 DEF GetRequest
      <4>2. Len(reqs') = Len(reqs)
        BY <1>t, <4>1 DEF TypeOK, RequestTypes
      <4>3. freeReq \in F
        BY <1>p, <1>t, <3>2, FreeListHead
      <4>4. FreeList(reqs', freeReq', F \ {x})
        <5>1. \A a \in F \ {freeReq} : reqs'[a].next = reqs[a].next
          BY <2>2, <4>1 DEF U
        <5> QED
          BY <1>p, <1>t, <3>2, <4>1, <4>2, <5>1, FreeListPop
      <4>5. (1..Len(reqs')) \ HeldReqs' = U \ {x}
        BY <2>3, <4>2 DEF U
      <4>6. (U \ {x}) \ (F \ {x}) = U \ F
        BY <4>1, <4>3
      <4>7. Cardinality((U \ {x}) \ (F \ {x})) <= Leaks'
        BY <1>p, <1>u, <2>4, <4>6
      <4>8. x \notin HeldReqs
        BY <4>1, <4>3 DEF U
      <4>9. F \ {x} \in SUBSET (U \ {x})
        OBVIOUS
      <4> QED
        BY <4>4, <4>5, <4>7, <4>8, <4>9 DEF RequestsInv
    <3> QED
      BY <3>1, <3>2
  <2>6. Alone(req)'
    <3>1. \A v \in Workers : v # w => req'[v] = req[v] /\ req[v] # x
      BY <1>t, <2>2, <2>5 DEF HeldReqs
    <3>2. req'[w] = x
      OBVIOUS
    <3> HIDE DEF x
    <3> QED
      BY <3>1, <3>2 DEF Alone
  <2> QED
    BY <2>5, <2>6
<1>2. CASE ReadHeader(w)
  <2>1. /\ Len(reqs') = Len(reqs) /\ req[w] \in 1..Len(reqs)
        /\ \A a \in 1..Len(reqs) : reqs'[a].next = reqs[a].next
    BY <1>2, <1>t, ReadHeaderEffect
  <2>2. req' = req /\ freeReq' = freeReq
    BY <1>2 DEF ReadHeader
  <2>3. FreeList(reqs', freeReq', F)
    <3>1. \A a \in F : reqs'[a].next = reqs[a].next
      BY <2>1 DEF U
    <3>2. Len(reqs') \in Nat /\ Len(reqs) <= Len(reqs')
      BY <1>t, <2>1
    <3> QED
      BY <1>p, <1>t, <2>2, <3>1, <3>2, FreeListSame
  <2>4. Leaks <= Leaks'
    <3>1. Ended' = Ended /\ Skips' = Skips
      BY <1>2, <1>t DEF ReadHeader, Ended, Skips
    <3> QED
      BY <3>1, LeaksGrow
  <2>5. Cardinality(U \ F) <= Leaks'
    BY <1>p, <1>u, <2>4
  <2>6. (1..Len(reqs')) \ HeldReqs' = U
    BY <2>1, <2>2 DEF U, HeldReqs
  <2> QED
    BY <2>2, <2>3, <2>5, <2>6 DEF RequestsInv, Alone
<1>3. CASE /\ HeaderFails(w) \/ Dispatch(w)
           /\ req' = [req EXCEPT ![w] = 0]
  <2> DEFINE x == req[w]
  <2>1. x \in 1..Len(reqs) /\ x # 0 /\ reqs' = reqs /\ freeReq' = freeReq /\ x \in HeldReqs
    <3>1. pc[w] \notin {"idle", "stopped"} /\ reqs' = reqs /\ freeReq' = freeReq
      BY <1>3 DEF HeaderFails, Dispatch, reqPool
    <3>2. x \in 1..Len(reqs) /\ x # 0
      BY <1>t, <3>1, Holds
    <3> QED
      BY <3>1, <3>2 DEF HeldReqs
  <2>2. HeldReqs' = HeldReqs \ {x}
    <3>1. \A v \in Workers : v # w => req[v] # req[w]
      BY <2>1 DEF Alone
    <3> QED
      BY <1>3, <1>t, <2>1, <3>1, Release DEF HeldReqs
  <2>3. (1..Len(reqs')) \ HeldReqs' = U \cup {x}
    BY <2>1, <2>2 DEF U
  <2>4. x \notin U
    BY <2>1 DEF U
  <2>5. IsFiniteSet((U \cup {x}) \ F) /\ Cardinality((U \cup {x}) \ F) = Cardinality(U \ F) + 1
    <3>1. (U \cup {x}) \ F = (U \ F) \cup {x} /\ x \notin U \ F
      BY <2>4
    <3>2. IsFiniteSet((U \ F) \cup {x}) /\ Cardinality((U \ F) \cup {x}) = Cardinality(U \ F) + 1
      BY <1>u, <3>1, FS_AddElement
    <3> QED
      BY <3>1, <3>2
  <2>6. Leaks + 1 <= Leaks'
    <3>1. CASE pc' = [pc EXCEPT ![w] = "stopped"] /\ skipped' = skipped
      <4>1. w \in Ended' /\ w \notin Ended
        BY <1>3, <1>t, <3>1 DEF Ended, HeaderFails, Dispatch
      <4>2. Ended \subseteq Ended' /\ Skips' = Skips
        BY <1>t, <3>1 DEF Ended, Skips
      <4> QED
        BY <4>1, <4>2, LeaksMore
    <3>2. CASE pc' = [pc EXCEPT ![w] = "idle"] /\ skipped' = [skipped EXCEPT ![w] = @ + 1]
      <4>1. Ended' = Ended
        BY <1>3, <1>t, <3>2 DEF Ended, HeaderFails, Dispatch
      <4>2. Skips \subseteq Skips'
        BY <1>t, <3>2, ServerAssumption DEF Skips
      <4>3. skipped[w] + 1 <= MaxRequests
        <5>1. AnswerOK(w) /\ Len(written[w]) \in Nat /\ MaxRequests \in Nat
          BY <1>t, ServerAssumption DEF AnswerInv, TypeOK, WorkTypes
        <5>2. CASE HeaderFails(w)
          <6>1. nread[w] < MaxRequests
            BY <3>2, <5>2, <1>t DEF HeaderFails
          <6>2. Len(written[w]) + skipped[w] = nread[w]
            BY <5>1, <5>2 DEF HeaderFails, AnswerOK, CountOK, OrderOK, Open
          <6> QED
            BY <1>t, <5>1, <6>1, <6>2
        <5>3. CASE Dispatch(w)
          <6>1. Len(written[w]) + skipped[w] = nread[w] - 1 /\ nread[w] <= MaxRequests
            BY <5>1, <5>3 DEF Dispatch, AnswerOK, CountOK, OrderOK, Open
          <6> QED
            BY <1>t, <5>1, <6>1
        <5> QED
          BY <1>3, <5>2, <5>3
      <4>4. <<w, skipped[w] + 1>> \in Skips' /\ <<w, skipped[w] + 1>> \notin Skips
        BY <1>t, <3>2, <4>3, ServerAssumption DEF Skips
      <4> QED
        BY <4>1, <4>2, <4>4, LeaksMore
    <3>3. \/ pc' = [pc EXCEPT ![w] = "stopped"] /\ skipped' = skipped
          \/ pc' = [pc EXCEPT ![w] = "idle"] /\ skipped' = [skipped EXCEPT ![w] = @ + 1]
      <4>1. CASE HeaderFails(w)
        BY <4>1 DEF HeaderFails
      <4>2. CASE Dispatch(w)
        BY <1>3, <1>t, <2>1, <4>2 DEF Dispatch
      <4> QED
        BY <1>3, <4>1, <4>2
    <3> QED
      BY <3>1, <3>2, <3>3
  <2>7. Cardinality((U \cup {x}) \ F) <= Leaks'
    BY <1>p, <1>u, <2>5, <2>6
  <2>8. F \in SUBSET (U \cup {x}) /\ FreeList(reqs', freeReq', F)
    BY <1>p, <2>1
  <2>9. Alone(req)'
    BY <1>3, <1>t DEF Alone
  <2> QED
    BY <2>3, <2>7, <2>8, <2>9 DEF RequestsInv
<1>4. CASE FreeRequest(w)
  <2> DEFINE x == req[w]
  <2>1. /\ x \in 1..Len(reqs) /\ Len(reqs') = Len(reqs) /\ reqs'[x].next = freeReq
        /\ \A a \in 1..Len(reqs) : a # x => reqs'[a] = reqs[a]
    BY <1>4, <1>t, FreeRequestEffect
  <2>2. freeReq' = x /\ req' = [req EXCEPT ![w] = 0] /\ skipped' = skipped
    BY <1>4, <1>t DEF FreeRequest
  <2>3. x # 0 /\ x \in HeldReqs
    BY <2>1 DEF HeldReqs
  <2>4. HeldReqs' = HeldReqs \ {x}
    <3>1. \A v \in Workers : v # w => req[v] # req[w]
      BY <2>3 DEF Alone
    <3> QED
      BY <1>t, <2>2, <2>3, <3>1, Release DEF HeldReqs
  <2>5. x \notin U
    BY <2>3 DEF U
  <2>6. FreeList(reqs', freeReq', F \cup {x})
    BY <1>p, <1>t, <2>1, <2>2, <2>5, FreeListPush DEF U
  <2>7. (1..Len(reqs')) \ HeldReqs' = U \cup {x}
    BY <2>1, <2>4 DEF U
  <2>8. (U \cup {x}) \ (F \cup {x}) = U \ F /\ F \cup {x} \in SUBSET (U \cup {x})
    BY <2>5
  <2>9. Leaks <= Leaks'
    <3>1. Ended \subseteq Ended' /\ Skips' = Skips
      BY <1>4, <1>t, <2>2 DEF FreeRequest, Ended, Skips
    <3> QED
      BY <3>1, LeaksGrow
  <2>10. Cardinality((U \cup {x}) \ (F \cup {x})) <= Leaks'
    BY <1>p, <1>u, <2>8, <2>9
  <2>11. Alone(req)'
    BY <1>t, <2>2 DEF Alone
  <2> QED
    BY <2>6, <2>7, <2>8, <2>10, <2>11 DEF RequestsInv
<1>5. CASE reqs' = reqs /\ freeReq' = freeReq /\ req' = req /\ skipped' = skipped /\ Ended' = Ended
  <2>1. Leaks <= Leaks'
    <3>1. Skips' = Skips
      BY <1>5 DEF Skips
    <3> QED
      BY <1>5, <3>1, LeaksGrow
  <2>2. Cardinality(U \ F) <= Leaks'
    BY <1>p, <1>u, <2>1
  <2>3. (1..Len(reqs')) \ HeldReqs' = U /\ FreeList(reqs', freeReq', F)
    BY <1>5, <1>p DEF U, HeldReqs
  <2> QED
    BY <1>5, <2>2, <2>3 DEF RequestsInv, Alone
<1>6. ASSUME \/ Find(w) \/ DiscardBody(w) \/ PreBody(w) \/ ReadBody(w) \/ CountCall(w) \/ RunMethod(w)
             \/ GetResponse(w) \/ FillResponse(w) \/ WriteResponse(w) \/ FreeResponse(w)
      PROVE  reqs' = reqs /\ freeReq' = freeReq /\ req' = req /\ skipped' = skipped /\ Ended' = Ended
  BY <1>6, <1>t DEF Find, DiscardBody, PreBody, ReadBody, CountCall, RunMethod, GetResponse,
                    FillResponse, WriteResponse, FreeResponse, reqPool, Ended
<1>7. ASSUME Dispatch(w), req' # [req EXCEPT ![w] = 0]
      PROVE  reqs' = reqs /\ freeReq' = freeReq /\ req' = req /\ skipped' = skipped /\ Ended' = Ended
  BY <1>7, <1>t DEF Dispatch, reqPool, Ended
<1>8. HeaderFails(w) => req' = [req EXCEPT ![w] = 0]
  BY DEF HeaderFails
<1> QED
  BY <1>1, <1>2, <1>3, <1>4, <1>5, <1>6, <1>7, <1>8 DEF ReadRequest, ServiceCall, SendResponse

\* Each handler is called at most once.
LEMMA TimesStep ==
  ASSUME LoopInv, \A v \in Workers : times[v] <= 1, HandlerCalls \subseteq {0, 1},
         NEW w \in Workers, ReadRequest(w) \/ ServiceCall(w) \/ SendResponse(w)
  PROVE  \A v \in Workers : times'[v] <= 1
<1>t. TypeOK /\ times \in [Workers -> Nat]
  BY DEF LoopInv, TypeOK, WorkTypes
<1>1. times'[w] <= 1
  <2>1. times' = times \/ Dispatch(w) \/ FreeRequest(w)
    BY DEF ReadRequest, GetRequest, ReadHeader, HeaderFails, Find, DiscardBody, PreBody,
           ReadBody, ServiceCall, CountCall, RunMethod, SendResponse, GetResponse, FillResponse,
           WriteResponse, FreeResponse
  <2>2. CASE Dispatch(w)
    BY <1>t, <2>2 DEF Dispatch
  <2>3. CASE FreeRequest(w)
    BY <1>t, <2>3 DEF FreeRequest
  <2> QED
    BY <2>1, <2>2, <2>3
<1> QED
  BY <1>1, <1>t, OthersKept

\* When every object up to n is held or in D, n is bounded.
LEMMA AllHeld ==
  ASSUME NEW n \in Nat, NEW f \in [Workers -> Nat], NEW D, IsFiniteSet(D),
         1..n \subseteq ({f[v] : v \in Workers} \ {0}) \cup D
  PROVE  n <= Cardinality(Workers) + Cardinality(D)
<1> DEFINE H == {f[v] : v \in Workers} \ {0}
<1>1. IsFiniteSet(H) /\ Cardinality(H) \in Nat /\ Cardinality(H) <= Cardinality(Workers)
  BY HeldSize
<1>2. 1..n \subseteq H \cup D
  OBVIOUS
<1> HIDE DEF H
<1>3. /\ IsFiniteSet(H \cup D)
      /\ Cardinality(H \cup D) = Cardinality(H) + Cardinality(D) - Cardinality(H \cap D)
  BY <1>1, FS_Union
<1>4. IsFiniteSet(H \cap D)
  BY <1>1, FS_Subset
<1>5. Cardinality(1..n) = n /\ Cardinality(1..n) <= Cardinality(H \cup D)
  BY <1>2, <1>3, FirstN, FS_Subset
<1>6. Cardinality(H \cap D) \in Nat /\ Cardinality(D) \in Nat /\ Cardinality(Workers) \in Nat
  BY <1>4, ServerAssumption, FS_CardinalityType
<1> QED
  BY <1>1, <1>3, <1>5, <1>6

\* An object is only allocated when all are in use or leaked.
LEMMA BoundedStep ==
  ASSUME LoopInv, LoopInv', ResponsesInv', RequestsInv', PoolsBounded,
         NEW w \in Workers, ReadRequest(w) \/ ServiceCall(w) \/ SendResponse(w),
         Leaks <= Leaks'
  PROVE  PoolsBounded'
<1>t. /\ TypeOK /\ WorkInv /\ Len(reqs) \in Nat /\ Len(resps) \in Nat
      /\ Len(reqs') \in Nat /\ Len(resps') \in Nat
      /\ req' \in [Workers -> Nat] /\ resp' \in [Workers -> Nat]
      /\ reqs \in Seq(ReqType(Len(reqs))) /\ resps \in Seq(RespType(Len(resps)))
  BY DEF LoopInv, TypeOK, RequestTypes, ResponseTypes
<1>n. Cardinality(Workers) \in Nat /\ Leaks \in Nat /\ Leaks' \in Nat
  BY ServerAssumption, FS_CardinalityType, LeaksType
<1>1. Len(resps') <= Cardinality(Workers)
  <2>1. CASE GetResponse(w) /\ freeResp = 0
    <3>1. freeResp' = 0
      BY <2>1 DEF GetResponse
    <3>2. (1..Len(resps')) \ HeldResps' = {}
      BY <1>t, <3>1, FreeListHead DEF ResponsesInv
    <3>3. 1..Len(resps') \subseteq ({resp'[v] : v \in Workers} \ {0}) \cup {}
      BY <3>2 DEF HeldResps
    <3>4. IsFiniteSet({}) /\ Cardinality({}) = 0
      BY FS_EmptySet
    <3> QED
      <4>1. Len(resps') <= Cardinality(Workers) + Cardinality({})
        BY <1>t, <3>3, <3>4, AllHeld
      <4> QED
        BY <1>n, <3>4, <4>1
  <2>2. CASE GetResponse(w) /\ freeResp # 0
    <3>1. Len(resps') = Len(resps)
      BY <1>t, <2>2 DEF GetResponse
    <3> QED
      BY <3>1 DEF PoolsBounded
  <2>3. CASE ~GetResponse(w)
    <3>1. Len(resps') = Len(resps)
      <4>1. CASE FillResponse(w) \/ FreeResponse(w)
        BY <1>t, <4>1, FillResponseEffect, FreeResponseEffect
      <4>2. CASE ~(FillResponse(w) \/ FreeResponse(w))
        BY <2>3, <4>2 DEF ReadRequest, GetRequest, ReadHeader, HeaderFails, Find, DiscardBody, PreBody,
                ReadBody, ServiceCall, Dispatch, CountCall, RunMethod, SendResponse, WriteResponse,
                FreeRequest, respPool
      <4> QED
        BY <4>1, <4>2
    <3> QED
      BY <3>1 DEF PoolsBounded
  <2> QED
    BY <2>1, <2>2, <2>3
<1>2. Len(reqs') <= Cardinality(Workers) + Leaks'
  <2>0. Len(reqs) <= Cardinality(Workers) + Leaks
    BY DEF PoolsBounded
  <2>1. CASE GetRequest(w) /\ freeReq = 0
    <3>1. freeReq' = 0
      BY <2>1 DEF GetRequest
    <3> DEFINE D == (1..Len(reqs')) \ HeldReqs'
    <3>2. PICK F \in SUBSET D : FreeList(reqs', freeReq', F) /\ Cardinality(D \ F) <= Leaks'
      BY DEF RequestsInv
    <3>3. F = {}
      BY <1>t, <3>1, <3>2, FreeListHead
    <3>4. Cardinality(D) <= Leaks' /\ IsFiniteSet(D) /\ Cardinality(D) \in Nat
      <4>1. D \ F = D
        BY <3>3
      <4>2. IsFiniteSet(1..Len(reqs'))
        BY <1>t, FirstN
      <4>3. IsFiniteSet(D)
        BY <4>2, FS_Subset
      <4> QED
        BY <3>2, <4>1, <4>3, FS_CardinalityType
    <3>5. 1..Len(reqs') \subseteq ({req'[v] : v \in Workers} \ {0}) \cup D
      BY DEF HeldReqs
    <3> HIDE DEF D
    <3>6. Len(reqs') <= Cardinality(Workers) + Cardinality(D)
      BY <1>t, <3>4, <3>5, AllHeld
    <3> QED
      BY <1>t, <1>n, <3>4, <3>6
  <2>2. CASE ~(GetRequest(w) /\ freeReq = 0)
    <3>1. Len(reqs') = Len(reqs)
      <4>1. CASE GetRequest(w)
        BY <1>t, <2>2, <4>1 DEF GetRequest
      <4>2. CASE ReadHeader(w) \/ FreeRequest(w)
        BY <1>t, <4>2, ReadHeaderEffect, FreeRequestEffect
      <4>3. CASE ~(GetRequest(w) \/ ReadHeader(w) \/ FreeRequest(w))
        BY <4>3 DEF ReadRequest, HeaderFails, Find, DiscardBody, PreBody, ReadBody, ServiceCall,
                    Dispatch, CountCall, RunMethod, SendResponse, GetResponse, FillResponse,
                    WriteResponse, FreeResponse, reqPool
      <4> QED
        BY <4>1, <4>2, <4>3
    <3> QED
      BY <1>t, <1>n, <2>0, <3>1
  <2> QED
    BY <2>1, <2>2
<1> QED
  BY <1>1, <1>2 DEF PoolsBounded

\* Connections never restart and skipped requests stay skipped.
LEMMA LeaksStep ==
  ASSUME LoopInv, NEW w \in Workers, ReadRequest(w) \/ ServiceCall(w) \/ SendResponse(w)
  PROVE  Leaks <= Leaks'
<1>t. TypeOK /\ pc \in [Workers -> WorkPcs] /\ skipped \in [Workers -> Nat]
  BY DEF LoopInv, TypeOK, WorkTypes
<1>1. pc[w] # "stopped"
  BY DEF ReadRequest, GetRequest, ReadHeader, HeaderFails, Find, DiscardBody, PreBody, ReadBody,
         ServiceCall, Dispatch, CountCall, RunMethod, SendResponse, GetResponse, FillResponse,
         WriteResponse, FreeResponse, FreeRequest
<1>2. Ended \subseteq Ended'
  BY <1>1, <1>t, OthersKept DEF Ended
<1>3. skipped' = skipped \/ skipped' = [skipped EXCEPT ![w] = skipped[w] + 1]
  BY DEF ReadRequest, GetRequest, ReadHeader, HeaderFails, Find, DiscardBody, PreBody, ReadBody,
         ServiceCall, Dispatch, CountCall, RunMethod, SendResponse, GetResponse, FillResponse,
         WriteResponse, FreeResponse, FreeRequest
<1>4. Skips \subseteq Skips'
  BY <1>3, <1>t, ServerAssumption DEF Skips
<1> QED
  BY <1>2, <1>4, LeaksGrow

-----------------------------------------------------------------------------
(* Requests and responses, for interceptors that call the handler at most  *)
(* once.                                                                   *)

\* A step of one connection leaves the objects the others hold.
LEMMA ObjectsKept ==
  ASSUME LoopInv, Alone(req), Alone(req)', Alone(resp), Alone(resp)',
         NEW w \in Workers, NEW v \in Workers, v # w,
         ReadRequest(w) \/ ServiceCall(w) \/ SendResponse(w)
  PROVE  /\ req[v] # 0 => reqs'[req[v]] = reqs[req[v]]
         /\ resp[v] # 0 => resps'[resp[v]] = resps[resp[v]]
<1>t. TypeOK /\ WorkInv /\ req'[v] = req[v] /\ resp'[v] = resp[v]
  BY OthersKept DEF LoopInv
<1>1. ASSUME req[v] # 0 PROVE reqs'[req[v]] = reqs[req[v]]
  <2>1. req[v] \in 1..Len(reqs) /\ req[v] # req[w] /\ req[v] # req'[w]
    BY <1>1, <1>t, Holds DEF Alone
  <2>2. CASE GetRequest(w)
    BY <1>t, <2>1, <2>2, GetRequestEffect
  <2>3. CASE ReadHeader(w)
    BY <1>t, <2>1, <2>3, ReadHeaderEffect
  <2>4. CASE FreeRequest(w)
    BY <1>t, <2>1, <2>4, FreeRequestEffect
  <2>5. CASE ~(GetRequest(w) \/ ReadHeader(w) \/ FreeRequest(w))
    BY <2>5 DEF ReadRequest, HeaderFails, Find, DiscardBody, PreBody, ReadBody, ServiceCall,
                Dispatch, CountCall, RunMethod, SendResponse, GetResponse, FillResponse,
                WriteResponse, FreeResponse, reqPool
  <2> QED
    BY <2>2, <2>3, <2>4, <2>5
<1>2. ASSUME resp[v] # 0 PROVE resps'[resp[v]] = resps[resp[v]]
  <2>1. resp[v] \in 1..Len(resps) /\ resp[v] # resp[w] /\ resp[v] # resp'[w]
    BY <1>2, <1>t, Holds DEF Alone
  <2>2. CASE GetResponse(w)
    BY <1>t, <2>1, <2>2, GetResponseEffect
  <2>3. CASE FillResponse(w)
    BY <1>t, <2>1, <2>3, FillResponseEffect
  <2>4. CASE FreeResponse(w)
    BY <1>t, <2>1, <2>4, FreeResponseEffect
  <2>5. CASE ~(GetResponse(w) \/ FillResponse(w) \/ FreeResponse(w))
    BY <2>5 DEF ReadRequest, GetRequest, ReadHeader, HeaderFails, Find, DiscardBody, PreBody,
                ReadBody, ServiceCall, Dispatch, CountCall, RunMethod, SendResponse, WriteResponse,
                FreeRequest, respPool
  <2> QED
    BY <2>2, <2>3, <2>4, <2>5
<1> QED
  BY <1>1, <1>2

\* HeaderOK is kept for the connection that takes a step.
LEMMA HeaderOwn ==
  ASSUME LoopInv, HeaderInv, \A v \in Workers : times[v] <= 1, NEW w \in Workers,
         ReadRequest(w) \/ ServiceCall(w) \/ SendResponse(w)
  PROVE  HeaderOK(w)'
<1>t. /\ TypeOK /\ WorkInv /\ pc \in [Workers -> WorkPcs] /\ req \in [Workers -> 0..Len(reqs)]
      /\ resp \in [Workers -> 0..Len(resps)] /\ err \in [Workers -> ErrKinds]
      /\ hdr \in [Workers -> Headers] /\ times \in [Workers -> Nat]
  BY DEF LoopInv, TypeOK, RequestTypes, ResponseTypes, WorkTypes
<1>i. HeaderOK(w)
  BY DEF HeaderInv
<1>1. CASE GetRequest(w)
  <2>1. pc'[w] = "header" /\ reqs'[req'[w]] = ZeroReq
    BY <1>1, <1>t, GetRequestEffect DEF GetRequest
  <2> QED
    BY <2>1 DEF HeaderOK, ZeroReq
<1>2. CASE ReadHeader(w)
  <2>1. pc'[w] = "find" /\ req'[w] = req[w]
    BY <1>2, <1>t DEF ReadHeader
  <2>2. reqs[req[w]].seq = 0 /\ reqs[req[w]].method = <<>>
    BY <1>2, <1>i DEF ReadHeader, HeaderOK
  <2>3. reqs'[req[w]].seq = hdr'[w].seq /\ reqs'[req[w]].method = hdr'[w].method
    BY <1>2, <1>t, <2>2, ReadHeaderEffect
  <2> QED
    BY <2>1, <2>3 DEF HeaderOK
<1>3. CASE HeaderFails(w)
  BY <1>3, <1>t DEF HeaderFails, HeaderOK
<1>4. CASE Find(w) \/ DiscardBody(w) \/ PreBody(w) \/ ReadBody(w) \/ CountCall(w) \/ RunMethod(w)
  <2>1. /\ pc[w] \notin {"idle", "header", "stopped"}
        /\ pc'[w] \in {"discard", "preBody", "getResp", "body", "dispatch", "run"}
        /\ reqs' = reqs /\ req' = req /\ hdr' = hdr
    BY <1>4, <1>t DEF Find, DiscardBody, PreBody, ReadBody, CountCall, RunMethod, reqPool
  <2> QED
    BY <1>i, <2>1 DEF HeaderOK
<1>5. CASE Dispatch(w)
  <2>1. /\ pc[w] = "dispatch" /\ reqs' = reqs /\ hdr' = hdr
        /\ pc'[w] = "idle" \/ (pc'[w] = "call" /\ req' = req)
    BY <1>5, <1>t DEF Dispatch, reqPool
  <2> QED
    BY <1>i, <2>1 DEF HeaderOK
<1>6. CASE GetResponse(w)
  <2>1. /\ pc[w] = "getResp" /\ pc'[w] = "fill" /\ reqs' = reqs /\ req' = req /\ hdr' = hdr
        /\ resps'[resp'[w]] = ZeroResp
    BY <1>6, <1>t, GetResponseEffect DEF GetResponse, reqPool
  <2> QED
    BY <1>i, <2>1 DEF HeaderOK, ZeroResp
<1>7. CASE FillResponse(w)
  <2>1. /\ pc[w] = "fill" /\ pc'[w] = "write" /\ reqs' = reqs /\ req' = req /\ resp' = resp
        /\ hdr' = hdr /\ err' = err
    BY <1>7, <1>t DEF FillResponse, reqPool
  <2>2. /\ reqs[req[w]].seq = hdr[w].seq /\ reqs[req[w]].method = hdr[w].method
        /\ resps[resp[w]].error = "nil"
    BY <1>i, <2>1 DEF HeaderOK
  <2>3. /\ resps'[resp[w]].seq = hdr[w].seq /\ resps'[resp[w]].method = hdr[w].method
        /\ resps'[resp[w]].error = err[w]
    BY <1>7, <1>t, <2>2, FillResponseEffect
  <2> QED
    BY <2>1, <2>2, <2>3 DEF HeaderOK
<1>8. CASE WriteResponse(w) \/ FreeResponse(w)
  <2>1. /\ pc[w] \in {"write", "freeResp"} /\ pc'[w] \in {"freeResp", "freeReq"}
        /\ reqs' = reqs /\ req' = req /\ hdr' = hdr
    BY <1>8, <1>t DEF WriteResponse, FreeResponse, reqPool
  <2> QED
    BY <1>i, <2>1 DEF HeaderOK
<1>9. CASE FreeRequest(w)
  <2>1. pc'[w] \in {"idle", "stopped"}
    BY <1>9, <1>t DEF FreeRequest
  <2> QED
    BY <2>1 DEF HeaderOK
<1> QED
  BY <1>1, <1>2, <1>3, <1>4, <1>5, <1>6, <1>7, <1>8, <1>9
  DEF ReadRequest, ServiceCall, SendResponse

\* A worker's Request and Response carry its own header.
LEMMA HeaderStep ==
  ASSUME LoopInv, HeaderInv, \A v \in Workers : times[v] <= 1,
         Alone(req), Alone(req)', Alone(resp), Alone(resp)',
         NEW w \in Workers, ReadRequest(w) \/ ServiceCall(w) \/ SendResponse(w)
  PROVE  HeaderInv'
<1> SUFFICES ASSUME NEW v \in Workers PROVE HeaderOK(v)'
  BY DEF HeaderInv
<1>1. CASE v = w
  BY <1>1, HeaderOwn
<1>2. CASE v # w
  <2>1. TypeOK /\ WorkInv /\ HeaderOK(v)
    BY DEF LoopInv, HeaderInv
  <2>2. /\ pc'[v] = pc[v] /\ req'[v] = req[v] /\ resp'[v] = resp[v] /\ hdr'[v] = hdr[v]
        /\ err'[v] = err[v]
    BY <1>2, <2>1, OthersKept
  <2>3. /\ req[v] # 0 => reqs'[req[v]] = reqs[req[v]]
        /\ resp[v] # 0 => resps'[resp[v]] = resps[resp[v]]
    BY <1>2, ObjectsKept
  <2>4. /\ pc[v] \notin {"idle", "stopped"} => req[v] # 0
        /\ pc[v] \in {"fill", "write", "freeResp"} => resp[v] # 0
    BY <2>1, Holds
  <2> QED
    BY <2>1, <2>2, <2>3, <2>4 DEF HeaderOK
<1> QED
  BY <1>1, <1>2

\* WriteResponse appends one record; every other step leaves the responses.
LEMMA WriteEffect ==
  ASSUME TypeOK, NEW w \in Workers, WriteResponse(w)
  PROVE  /\ Len(written[w]) \in Nat
         /\ Len(written'[w]) = Len(written[w]) + 1
         /\ written'[w][Len(written[w]) + 1].seq = resps[resp[w]].seq
         /\ written'[w][Len(written[w]) + 1].method = resps[resp[w]].method
         /\ written'[w][Len(written[w]) + 1].error = resps[resp[w]].error
         /\ written'[w][Len(written[w]) + 1].to = hdr[w]
         /\ written'[w][Len(written[w]) + 1].err = err[w]
         /\ written'[w][Len(written[w]) + 1].by = mtype[w]
         /\ \A i \in 1..Len(written[w]) : written'[w][i] = written[w][i]
<1> DEFINE r == resps[resp[w]]
           a == [seq |-> r.seq, method |-> r.method, error |-> r.error,
                 to |-> hdr[w], err |-> err[w], by |-> mtype[w]]
<1>1. written[w] \in Seq(Answers) /\ written \in [Workers -> Seq(Answers)]
  BY DEF TypeOK, WorkTypes
<1>2. written' = [written EXCEPT ![w] = Append(written[w], a)]
  BY DEF WriteResponse
<1> HIDE DEF a
<1>3. written'[w] = Append(written[w], a)
  BY <1>1, <1>2
<1>4. /\ Len(written[w]) \in Nat
      /\ Len(written'[w]) = Len(written[w]) + 1
      /\ written'[w][Len(written[w]) + 1] = a
      /\ \A i \in 1..Len(written[w]) : written'[w][i] = written[w][i]
  BY <1>1, <1>3
<1> QED
  BY <1>4 DEF a

\* Every other step leaves the responses written.
LEMMA WrittenKept ==
  ASSUME NEW w \in Workers, ReadRequest(w) \/ ServiceCall(w) \/ SendResponse(w), ~WriteResponse(w)
  PROVE  written' = written
  BY DEF ReadRequest, GetRequest, ReadHeader, HeaderFails, Find, DiscardBody, PreBody, ReadBody,
         ServiceCall, Dispatch, CountCall, RunMethod, SendResponse, GetResponse, FillResponse,
         FreeResponse, FreeRequest

\* The numbers of requests and responses of the connection that takes a step.
LEMMA AnswerOwn ==
  ASSUME LoopInv, AnswerInv, \A v \in Workers : times[v] <= 1, NEW w \in Workers,
         ReadRequest(w) \/ ServiceCall(w) \/ SendResponse(w)
  PROVE  AnswerOK(w)'
<1>t. /\ TypeOK /\ WorkInv /\ pc \in [Workers -> WorkPcs] /\ hdr \in [Workers -> Headers]
      /\ nread \in [Workers -> Nat] /\ skipped \in [Workers -> Nat] /\ times \in [Workers -> Nat]
      /\ Len(written[w]) \in Nat
  BY DEF LoopInv, TypeOK, WorkTypes
<1>h. hdr[w].seq \in Nat /\ MaxRequests \in Nat /\ \A i \in 1..Len(written[w]) : written[w][i].to.seq \in Nat
  <2>1. \A i \in 1..Len(written[w]) : written[w][i] \in Answers
    BY <1>t DEF TypeOK, WorkTypes
  <2> QED
    BY <1>t, <2>1, ServerAssumption DEF Headers, Answers
<1>i. CountOK(w) /\ (pos[w] # "astray" => OrderOK(w))
  BY DEF AnswerInv, AnswerOK
<1>s. pos'[w] # "astray" => pos[w] # "astray" /\ OrderOK(w)
  BY <1>i, StrayStays DEF LoopInv
<1> USE DEF Open
<1>1. CASE ReadHeader(w)
  <2>1. /\ pc[w] = "header" /\ pc'[w] = "find" /\ nread[w] < MaxRequests
        /\ nread'[w] = nread[w] + 1 /\ skipped' = skipped /\ written' = written
    BY <1>1, <1>t DEF ReadHeader
  <2>p. pos'[w] # "astray" => pos[w] = "header"
    <3>1. pos' = [pos EXCEPT ![w] = IF pos[w] = "header" THEN "body" ELSE "astray"]
      BY <1>1 DEF ReadHeader
    <3>2. pos \in [Workers -> {"header", "body", "orphan", "lost", "garbled", "astray"}]
      BY <1>t DEF TypeOK, WorkTypes
    <3> QED
      BY <3>1, <3>2
  <2>2. pos'[w] # "astray" => hdr'[w].seq = nread[w]
    BY <1>1, <1>t, <2>p, ReadHeaderEffect
  <2>3. CountOK(w)'
    BY <1>i, <1>t, <1>h, <2>1 DEF CountOK
  <2>4. ASSUME pos'[w] # "astray" PROVE OrderOK(w)'
    BY <1>s, <1>t, <1>h, <2>1, <2>2, <2>4 DEF OrderOK
  <2> QED
    BY <2>3, <2>4 DEF AnswerOK
<1>2. CASE HeaderFails(w)
  <2>1. /\ pc[w] = "header" /\ written' = written
        /\ \/ pc'[w] = "stopped" /\ nread' = nread /\ skipped' = skipped
           \/ /\ pc'[w] = "idle" /\ nread[w] < MaxRequests /\ nread'[w] = nread[w] + 1
              /\ skipped'[w] = skipped[w] + 1
    BY <1>2, <1>t DEF HeaderFails
  <2>2. /\ ~Open(w) /\ ~Open(w)' /\ nread[w] <= MaxRequests /\ Len(written[w]) + skipped[w] = nread[w]
        /\ nread[w] \in Nat /\ skipped[w] \in Nat /\ Len(written[w]) \in Nat
    BY <1>i, <1>t, <2>1 DEF CountOK
  <2>3. CountOK(w)'
    <3>1. CASE nread' = nread /\ skipped' = skipped
      BY <2>1, <2>2, <3>1 DEF CountOK
    <3>2. CASE nread[w] < MaxRequests /\ nread'[w] = nread[w] + 1 /\ skipped'[w] = skipped[w] + 1
      <4>1. nread[w] + 1 <= MaxRequests
        BY <1>h, <2>2, <3>2
      <4>2. Len(written[w]) + (skipped[w] + 1) = nread[w] + 1
        BY <2>2
      <4> QED
        BY <2>1, <2>2, <3>2, <4>1, <4>2 DEF CountOK
    <3> QED
      BY <2>1, <3>1, <3>2
  <2>4. ASSUME pos'[w] # "astray" PROVE OrderOK(w)'
    <3>1. \A i \in 1..Len(written[w]) : written[w][i].to.seq < nread[w]
      BY <1>s, <2>2, <2>4 DEF OrderOK
    <3>2. \A i \in 1..Len(written[w]) : written[w][i].to.seq < nread'[w]
      BY <1>h, <2>1, <2>2, <3>1
    <3> QED
      BY <2>1, <2>2, <3>2 DEF OrderOK
  <2> QED
    BY <2>3, <2>4 DEF AnswerOK
<1>3. CASE Dispatch(w)
  <2>1. /\ pc[w] = "dispatch" /\ written' = written /\ nread' = nread /\ hdr' = hdr
        /\ \/ pc'[w] = "idle" /\ skipped'[w] = skipped[w] + 1
           \/ pc'[w] = "call" /\ skipped' = skipped
    BY <1>3, <1>t DEF Dispatch
  <2>2. /\ nread[w] <= MaxRequests /\ Len(written[w]) + skipped[w] = nread[w] - 1
        /\ Len(written[w]) \in Nat /\ nread[w] \in Nat /\ skipped[w] \in Nat
    BY <1>i, <1>t, <2>1 DEF CountOK
  <2>3. CountOK(w)'
    <3>1. CASE pc'[w] = "idle" /\ skipped'[w] = skipped[w] + 1
      <4>1. Len(written[w]) + (skipped[w] + 1) = nread[w]
        BY <2>2
      <4>2. ~Open(w)'
        BY <3>1
      <4> QED
        BY <2>1, <2>2, <3>1, <4>1, <4>2 DEF CountOK
    <3>2. CASE pc'[w] = "call" /\ skipped' = skipped
      BY <2>1, <2>2, <3>2 DEF CountOK
    <3> QED
      BY <2>1, <3>1, <3>2
  <2>4. ASSUME pos'[w] # "astray" PROVE OrderOK(w)'
    <3>1. /\ hdr[w].seq + 1 = nread[w]
          /\ \A i \in 1..Len(written[w]) : written[w][i].to.seq < hdr[w].seq
      BY <1>s, <2>1, <2>4 DEF OrderOK
    <3>2. \A i \in 1..Len(written[w]) : written[w][i].to.seq < nread[w]
      <4> SUFFICES ASSUME NEW i \in 1..Len(written[w]) PROVE written[w][i].to.seq < nread[w]
        OBVIOUS
      <4>1. written[w][i].to.seq \in Nat /\ hdr[w].seq \in Nat /\ nread[w] \in Nat
        BY <1>h, <2>2
      <4>2. written[w][i].to.seq < hdr[w].seq /\ hdr[w].seq + 1 = nread[w]
        BY <3>1
      <4> QED
        BY <4>1, <4>2
    <3>3. CASE pc'[w] = "idle"
      BY <2>1, <3>2, <3>3 DEF OrderOK
    <3>4. CASE pc'[w] = "call"
      BY <2>1, <3>1, <3>4 DEF OrderOK
    <3> QED
      BY <2>1, <3>3, <3>4
  <2> QED
    BY <2>3, <2>4 DEF AnswerOK
<1>4. CASE WriteResponse(w)
  <2>1. /\ pc[w] = "write" /\ pc'[w] = "freeResp" /\ nread' = nread /\ skipped' = skipped
    BY <1>4, <1>t DEF WriteResponse
  <2>2. /\ Len(written'[w]) = Len(written[w]) + 1
        /\ written'[w][Len(written[w]) + 1].to = hdr[w]
        /\ \A i \in 1..Len(written[w]) : written'[w][i] = written[w][i]
    BY <1>4, <1>t, WriteEffect
  <2>3. /\ nread[w] <= MaxRequests /\ Len(written[w]) + skipped[w] = nread[w] - 1
        /\ Len(written[w]) \in Nat /\ skipped[w] \in Nat /\ nread[w] \in Nat
    BY <1>i, <1>t, <2>1 DEF CountOK
  <2>4. CountOK(w)'
    <3>1. (Len(written[w]) + 1) + skipped[w] = nread[w]
      BY <2>3
    <3>2. ~Open(w)' /\ Len(written'[w]) + skipped'[w] = nread'[w]
      BY <2>1, <2>2, <3>1
    <3> QED
      BY <2>1, <2>3, <3>2 DEF CountOK
  <2>5. ASSUME pos'[w] # "astray" PROVE OrderOK(w)'
    <3>0. /\ hdr[w].seq + 1 = nread[w]
          /\ \A i \in 1..Len(written[w]) : written[w][i].to.seq < hdr[w].seq
      BY <1>s, <2>1, <2>5 DEF OrderOK
    <3>1. ASSUME NEW i \in 1..Len(written'[w]) PROVE written'[w][i].to.seq < nread[w]
      <4>0. nread[w] \in Nat /\ hdr[w].seq \in Nat /\ hdr[w].seq < nread[w]
        BY <1>h, <2>3, <3>0
      <4>1. CASE i = Len(written[w]) + 1
        BY <2>2, <4>0, <4>1
      <4>2. CASE i \in 1..Len(written[w])
        <5>1. /\ written[w][i].to.seq \in Nat /\ written[w][i].to.seq < hdr[w].seq
              /\ written'[w][i] = written[w][i]
          BY <1>h, <2>2, <3>0, <4>2
        <5> QED
          BY <4>0, <5>1
      <4> QED
        BY <2>2, <2>3, <4>1, <4>2
    <3> QED
      BY <2>1, <3>1 DEF OrderOK
  <2> QED
    BY <2>4, <2>5 DEF AnswerOK
<1>5. CASE \/ GetRequest(w) \/ Find(w) \/ DiscardBody(w) \/ PreBody(w) \/ ReadBody(w) \/ CountCall(w)
           \/ RunMethod(w) \/ GetResponse(w) \/ FillResponse(w) \/ FreeResponse(w) \/ FreeRequest(w)
  <2>1. nread' = nread /\ skipped' = skipped /\ written' = written /\ hdr' = hdr /\ Open(w)' = Open(w)
    <3>1. CASE FreeRequest(w)
      BY <1>t, <3>1 DEF FreeRequest
    <3>2. CASE ~FreeRequest(w)
      BY <1>5, <1>t, <3>2 DEF GetRequest, Find, DiscardBody, PreBody, ReadBody, CountCall,
                              RunMethod, GetResponse, FillResponse, FreeResponse
    <3> QED
      BY <3>1, <3>2
  <2>2. CountOK(w)'
    BY <1>i, <2>1 DEF CountOK
  <2>3. pos'[w] # "astray" => OrderOK(w)'
    BY <1>s, <2>1 DEF OrderOK
  <2> QED
    BY <2>2, <2>3 DEF AnswerOK
<1> QED
  BY <1>1, <1>2, <1>3, <1>4, <1>5 DEF ReadRequest, ServiceCall, SendResponse

\* Every request is answered, skipped or at hand, on every connection.
LEMMA AnswerStep ==
  ASSUME LoopInv, AnswerInv, \A v \in Workers : times[v] <= 1, NEW w \in Workers,
         ReadRequest(w) \/ ServiceCall(w) \/ SendResponse(w)
  PROVE  AnswerInv'
<1> SUFFICES ASSUME NEW v \in Workers PROVE AnswerOK(v)'
  BY DEF AnswerInv
<1>1. CASE v = w
  BY <1>1, AnswerOwn
<1>2. CASE v # w
  <2>1. TypeOK /\ AnswerOK(v)
    BY DEF LoopInv, AnswerInv
  <2>2. /\ pc'[v] = pc[v] /\ hdr'[v] = hdr[v] /\ nread'[v] = nread[v]
        /\ skipped'[v] = skipped[v] /\ written'[v] = written[v]
    BY <1>2, <2>1, OthersKept
  <2>3. pos'[v] = pos[v]
    BY <1>2, <2>1, OthersKept
  <2> QED
    BY <2>1, <2>2, <2>3 DEF AnswerOK, CountOK, OrderOK, Open
<1> QED
  BY <1>1, <1>2

\* The responses written echo their requests, in the order of the requests.
LEMMA EchoStep ==
  ASSUME LoopInv, HeaderInv, AnswerInv, AnswerInv', EchoesRequest, AnsweredOnce,
         NEW w \in Workers, ReadRequest(w) \/ ServiceCall(w) \/ SendResponse(w)
  PROVE  EchoesRequest' /\ AnsweredOnce'
<1>t. TypeOK /\ WorkInv
  BY DEF LoopInv
<1>a. \A v \in Workers : (pc[v] \in {"idle", "header", "stopped"} => Len(written[v]) + skipped[v] = nread[v])'
  BY DEF AnswerInv, AnswerOK, CountOK, Open
<1>s. \A v \in Workers : pos'[v] # "astray" => pos[v] # "astray"
  BY <1>t, StrayStays, OthersKept
<1>1. CASE ~WriteResponse(w)
  <2>1. written' = written
    BY <1>1, WrittenKept
  <2> QED
    BY <1>a, <1>s, <2>1 DEF EchoesRequest, AnsweredOnce
<1>2. CASE WriteResponse(w)
  <2> DEFINE n == Len(written[w])
             a == written'[w][n + 1]
  <2>1. /\ n \in Nat /\ Len(written'[w]) = n + 1 /\ a.to = hdr[w]
        /\ \A i \in 1..n : written'[w][i] = written[w][i]
        /\ a.seq = resps[resp[w]].seq /\ a.method = resps[resp[w]].method
        /\ a.error = resps[resp[w]].error /\ a.err = err[w]
    BY <1>2, <1>t, WriteEffect
  <2>2. /\ resps[resp[w]].seq = hdr[w].seq /\ resps[resp[w]].method = hdr[w].method
        /\ resps[resp[w]].error = err[w]
    BY <1>2 DEF WriteResponse, HeaderInv, HeaderOK
  <2>3. pos[w] # "astray" => \A i \in 1..n : written[w][i].to.seq < hdr[w].seq
    BY <1>2 DEF WriteResponse, AnswerInv, AnswerOK, OrderOK, Open
  <2>4. \A v \in Workers : v # w => written'[v] = written[v]
    BY <1>t, OthersKept
  <2> HIDE DEF a, n
  <2>5. \A i \in 1..(n + 1) : i = n + 1 \/ i \in 1..n
    BY <2>1
  <2>6. EchoesRequest'
    <3> SUFFICES ASSUME NEW v \in Workers, NEW i \in 1..Len(written'[v])
                 PROVE  LET x == written'[v][i] IN
                          x.seq = x.to.seq /\ x.method = x.to.method /\ x.error = x.err
      BY DEF EchoesRequest
    <3>1. CASE v # w
      BY <2>4, <3>1 DEF EchoesRequest
    <3>2. CASE v = w /\ i = n + 1
      BY <2>1, <2>2, <3>2 DEF a
    <3>3. CASE v = w /\ i \in 1..n
      BY <2>1, <3>3 DEF EchoesRequest, n
    <3> QED
      BY <2>1, <2>5, <3>1, <3>2, <3>3
  <2>7. ASSUME NEW v \in Workers, NEW i \in 1..Len(written'[v]), NEW j \in 1..Len(written'[v]), i < j,
               pos[v] # "astray"
        PROVE  written'[v][i].to.seq < written'[v][j].to.seq
    <3>1. CASE v # w
      BY <2>4, <2>7, <3>1 DEF AnsweredOnce
    <3>2. CASE v = w
      <4>1. i \in 1..n
        BY <2>1, <2>7, <3>2
      <4>2. CASE j = n + 1
        BY <2>1, <2>3, <2>7, <3>2, <4>1, <4>2 DEF a
      <4>3. CASE j \in 1..n
        BY <2>1, <2>7, <3>2, <4>1, <4>3 DEF AnsweredOnce, n
      <4> QED
        BY <2>1, <2>5, <3>2, <4>2, <4>3
    <3> QED
      BY <3>1, <3>2
  <2> QED
    BY <1>a, <1>s, <2>6, <2>7 DEF AnsweredOnce
<1> QED
  BY <1>1, <1>2

-----------------------------------------------------------------------------
(* Counting calls.                                                         *)

\* Sets of workers and of responses are finite.
LEMMA FiniteSubsets ==
  /\ \A S \in SUBSET Workers : IsFiniteSet(S) /\ Cardinality(S) \in Nat
  /\ \A S \in SUBSET (Workers \X (1..MaxRequests)) : IsFiniteSet(S) /\ Cardinality(S) \in Nat
<1>1. IsFiniteSet(Workers) /\ MaxRequests \in Nat
  BY ServerAssumption
<1>2. IsFiniteSet(1..MaxRequests)
  BY <1>1, FirstN
<1>3. IsFiniteSet(Workers \X (1..MaxRequests))
  BY <1>1, <1>2, FS_Product
<1> QED
  BY <1>1, <1>3, FS_Subset, FS_CardinalityType

\* Only service.call and WriteResponse change whether a worker is in a call.
LEMMA InCallKept ==
  ASSUME LoopInv, NEW w \in Workers, ReadRequest(w) \/ ServiceCall(w) \/ SendResponse(w),
         ~CountCall(w), ~WriteResponse(w), NEW r, NEW m
  PROVE  InCall(w, r, m)' <=> InCall(w, r, m)
<1>t. TypeOK /\ WorkOK(w) /\ pc \in [Workers -> WorkPcs] /\ err \in [Workers -> ErrKinds]
      /\ mtype \in [Workers -> Methods \cup {NoMethod}]
  BY DEF LoopInv, TypeOK, WorkTypes, WorkInv
<1>1. CASE ReadRequest(w)
  <2>1. ~InCall(w, r, m)
    BY <1>1 DEF ReadRequest, GetRequest, ReadHeader, HeaderFails, Find, DiscardBody, PreBody,
                ReadBody, InCall
  <2>2. ~InCall(w, r, m)'
    <3>1. CASE GetRequest(w) \/ ReadHeader(w) \/ HeaderFails(w) \/ Find(w)
      <4>1. pc'[w] \notin {"run", "getResp", "fill", "write"}
        BY <1>t, <3>1 DEF GetRequest, ReadHeader, HeaderFails, Find
      <4> QED
        BY <4>1 DEF InCall
    <3>2. CASE DiscardBody(w)
      <4>1. pc'[w] = "getResp" /\ err'[w] = "find"
        BY <1>t, <3>2 DEF DiscardBody, WorkOK
      <4> QED
        BY <4>1 DEF InCall
    <3>3. CASE PreBody(w) \/ ReadBody(w)
      <4>1. pc'[w] \in {"body", "dispatch"} \/ (pc'[w] = "getResp" /\ err'[w] \in {"reject", "body"})
        BY <1>t, <3>3 DEF PreBody, ReadBody
      <4> QED
        BY <4>1 DEF InCall
    <3> QED
      BY <1>1, <3>1, <3>2, <3>3 DEF ReadRequest
  <2> QED
    BY <2>1, <2>2
<1>2. CASE Dispatch(w)
  <2>1. pc[w] = "dispatch" /\ pc'[w] \in {"idle", "call"}
    BY <1>2, <1>t DEF Dispatch
  <2> QED
    BY <2>1 DEF InCall
<1>3. CASE RunMethod(w)
  <2>1. /\ pc[w] = "run" /\ pc'[w] = "getResp" /\ err'[w] \in {"nil", "call"} /\ mtype' = mtype
    BY <1>3, <1>t DEF RunMethod
  <2> QED
    BY <2>1 DEF InCall
<1>4. CASE GetResponse(w) \/ FillResponse(w)
  <2>1. /\ pc[w] \in {"getResp", "fill"} /\ pc'[w] \in {"fill", "write"}
        /\ err' = err /\ mtype' = mtype
    BY <1>4, <1>t DEF GetResponse, FillResponse
  <2> QED
    BY <2>1 DEF InCall
<1>5. CASE FreeResponse(w) \/ FreeRequest(w)
  <2>1. pc[w] \in {"freeResp", "freeReq"} /\ pc'[w] \in {"freeReq", "call", "idle", "stopped"}
    BY <1>5, <1>t DEF FreeResponse, FreeRequest
  <2> QED
    BY <2>1 DEF InCall
<1> QED
  BY <1>1, <1>2, <1>3, <1>4, <1>5 DEF ServiceCall, SendResponse

\* Every call is counted once and answered once.
LEMMA CountStep ==
  ASSUME LoopInv, AnswerInv, CallsCounted, NEW w \in Workers,
         ReadRequest(w) \/ ServiceCall(w) \/ SendResponse(w)
  PROVE  CallsCounted'
<1>t. /\ TypeOK /\ WorkOK(w) /\ pc \in [Workers -> WorkPcs] /\ err \in [Workers -> ErrKinds]
      /\ mtype \in [Workers -> Methods \cup {NoMethod}]
      /\ written \in [Workers -> Seq(Answers)] /\ CallTypes
  BY DEF LoopInv, TypeOK, WorkTypes, WorkInv
<1> SUFFICES ASSUME NEW r \in Registrars, NEW m \in RegMethods[r]
             PROVE  (numCalls[r][m] = Cardinality({v \in Workers : InCall(v, r, m)})
                                        + Cardinality(AnswersOf(r, m)))'
  BY DEF CallsCounted
<1> DEFINE C == {v \in Workers : InCall(v, r, m)}
           A == AnswersOf(r, m)
<1>c. numCalls[r][m] = Cardinality(C) + Cardinality(A)
  BY DEF CallsCounted
<1>f. /\ IsFiniteSet(C) /\ Cardinality(C) \in Nat /\ IsFiniteSet(C') /\ Cardinality(C') \in Nat
      /\ IsFiniteSet(A) /\ Cardinality(A) \in Nat /\ IsFiniteSet(A') /\ Cardinality(A') \in Nat
  <2>1. C \in SUBSET Workers /\ C' \in SUBSET Workers
    OBVIOUS
  <2>2. A \in SUBSET (Workers \X (1..MaxRequests)) /\ A' \in SUBSET (Workers \X (1..MaxRequests))
    BY DEF AnswersOf
  <2> QED
    BY <2>1, <2>2, FiniteSubsets
<1>o. \A v \in Workers : v # w => (InCall(v, r, m)' <=> InCall(v, r, m)) /\ written'[v] = written[v]
  BY <1>t, OthersKept DEF InCall
<1>d. C' \subseteq Workers /\ \A v \in Workers : v \in C' <=> InCall(v, r, m)'
  OBVIOUS
<1>e. C \subseteq Workers /\ \A v \in Workers : v \in C <=> InCall(v, r, m)
  OBVIOUS
<1> SUFFICES numCalls'[r][m] = Cardinality(C') + Cardinality(A')
  OBVIOUS
<1> HIDE DEF C
<1>1. CASE CountCall(w)
  <2>1. /\ pc[w] = "call" /\ pc'[w] = "run" /\ mtype' = mtype /\ written' = written
        /\ numCalls' = [numCalls EXCEPT ![mtype[w][1]][mtype[w][2]] = @ + 1]
    BY <1>1, <1>t DEF CountCall
  <2>2. mtype[w] \in Methods
    BY <1>t, <2>1 DEF WorkOK
  <2>3. mtype[w][1] \in Registrars /\ mtype[w][2] \in RegMethods[mtype[w][1]]
        /\ mtype[w] = <<mtype[w][1], mtype[w][2]>>
    BY <2>2, MethodParts
  <2>4. A' = A
    BY <2>1 DEF AnswersOf
  <2>5. CASE mtype[w] = <<r, m>>
    <3>1. w \notin C /\ w \in C'
      BY <1>d, <1>e, <2>1, <2>5 DEF InCall
    <3>2. C' = C \cup {w}
      BY <1>o, <1>d, <1>e, <3>1
    <3>3. Cardinality(C') = Cardinality(C) + 1
      BY <1>f, <3>1, <3>2, FS_AddElement
    <3>4. mtype[w][1] = r /\ mtype[w][2] = m
      BY <2>5
    <3>5. numCalls'[r][m] = numCalls[r][m] + 1
      BY <1>t, <2>1, <3>4 DEF CallTypes
    <3> QED
      BY <1>c, <1>f, <2>4, <3>3, <3>5
  <2>6. CASE mtype[w] # <<r, m>>
    <3>1. w \notin C /\ w \notin C'
      BY <1>d, <1>e, <2>1, <2>6 DEF InCall
    <3>2. C' = C
      BY <1>o, <1>d, <1>e, <3>1
    <3>3. mtype[w][1] # r \/ mtype[w][2] # m
      BY <2>3, <2>6
    <3>4. numCalls'[r][m] = numCalls[r][m]
      BY <1>t, <2>1, <2>3, <3>3 DEF CallTypes
    <3> QED
      BY <1>c, <2>4, <3>2, <3>4
  <2> QED
    BY <2>5, <2>6
<1>2. CASE WriteResponse(w)
  <2> DEFINE n == Len(written[w])
             x == <<w, n + 1>>
  <2>1. /\ pc[w] = "write" /\ pc'[w] = "freeResp" /\ numCalls' = numCalls
    BY <1>2, <1>t DEF WriteResponse
  <2>2. /\ n \in Nat /\ Len(written'[w]) = n + 1
        /\ written'[w][n + 1].err = err[w] /\ written'[w][n + 1].by = mtype[w]
        /\ \A i \in 1..n : written'[w][i] = written[w][i]
    BY <1>2, <1>t, WriteEffect
  <2>3. n + 1 \in 1..MaxRequests
    <3>1. /\ Len(written[w]) + skipped[w] = nread[w] - 1 /\ nread[w] <= MaxRequests
      BY <2>1 DEF AnswerInv, AnswerOK, CountOK, OrderOK, Open
    <3>2. skipped[w] \in Nat /\ nread[w] \in Nat /\ MaxRequests \in Nat
      BY <1>t, ServerAssumption DEF TypeOK, WorkTypes
    <3> QED
      BY <2>2, <3>1, <3>2
  <2>4. w \notin C' /\ (w \in C <=> mtype[w] = <<r, m>> /\ err[w] \in {"nil", "call"})
    BY <1>d, <1>e, <2>1 DEF InCall
  <2> HIDE DEF n, x
  <2>5. x \in Workers \X (1..MaxRequests) /\ x[1] = w /\ x[2] = n + 1
    BY <2>3 DEF x
  <2>6. x \notin A
    BY <2>2, <2>5 DEF AnswersOf, n
  <2>7. x \in A' <=> mtype[w] = <<r, m>> /\ err[w] \in {"nil", "call"}
    BY <2>2, <2>5 DEF AnswersOf
  <2>8. ASSUME NEW y, y # x PROVE y \in A' <=> y \in A
    <3> SUFFICES ASSUME y \in Workers \X (1..MaxRequests) PROVE y \in A' <=> y \in A
      BY DEF AnswersOf
    <3>1. CASE y[1] # w
      <4>1. written'[y[1]] = written[y[1]]
        BY <1>o, <3>1
      <4> QED
        BY <4>1 DEF AnswersOf
    <3>2. CASE y[1] = w
      <4>1. y[2] # n + 1 /\ y[2] \in 1..MaxRequests
        BY <2>8, <3>2 DEF x
      <4>2. y[2] <= n + 1 <=> y[2] <= n
        BY <2>2, <4>1
      <4>3. y[2] <= n => written'[w][y[2]] = written[w][y[2]]
        BY <2>2, <4>1
      <4> QED
        BY <2>2, <3>2, <4>2, <4>3 DEF AnswersOf, n
    <3> QED
      BY <3>1, <3>2
  <2> HIDE DEF A
  <2>9. CASE mtype[w] = <<r, m>> /\ err[w] \in {"nil", "call"}
    <3>1. C' = C \ {w} /\ w \in C
      BY <1>o, <1>d, <1>e, <2>4, <2>9
    <3>2. A' = A \cup {x}
      BY <2>7, <2>8, <2>9
    <3>3. Cardinality(C') = Cardinality(C) - 1
      BY <1>f, <3>1, FS_RemoveElement
    <3>4. Cardinality(A') = Cardinality(A) + 1
      BY <1>f, <2>6, <3>2, FS_AddElement
    <3> QED
      BY <1>c, <1>f, <2>1, <3>3, <3>4
  <2>10. CASE ~(mtype[w] = <<r, m>> /\ err[w] \in {"nil", "call"})
    <3>1. C' = C
      BY <1>o, <1>d, <1>e, <2>4, <2>10
    <3>2. A' = A
      BY <2>6, <2>7, <2>8, <2>10
    <3> QED
      BY <1>c, <2>1, <3>1, <3>2
  <2> QED
    BY <2>9, <2>10
<1>3. CASE ~CountCall(w) /\ ~WriteResponse(w)
  <2>1. InCall(w, r, m)' <=> InCall(w, r, m)
    BY <1>3, InCallKept
  <2>2. C' = C
    BY <1>o, <1>d, <1>e, <2>1
  <2>3. A' = A
    BY <1>3, WrittenKept DEF AnswersOf
  <2>4. numCalls' = numCalls
    BY <1>3 DEF ReadRequest, GetRequest, ReadHeader, HeaderFails, Find, DiscardBody, PreBody,
                ReadBody, ServiceCall, Dispatch, RunMethod, SendResponse, GetResponse, FillResponse,
                FreeResponse, FreeRequest
  <2> QED
    BY <1>c, <2>2, <2>3, <2>4
<1> QED
  BY <1>1, <1>2, <1>3

-----------------------------------------------------------------------------
(* The inductive invariant and what follows from it.                       *)

\* NoSharing, for each of the two pools.
LEMMA SharingParts ==
  /\ NoSharing <=> Alone(req) /\ Alone(resp)
  /\ NoSharing' <=> Alone(req)' /\ Alone(resp)'
  BY DEF NoSharing, Alone

\* Initially nothing is allocated, read or answered.
LEMMA ServerInit == Init => ServerInv
<1> SUFFICES ASSUME Init PROVE ServerInv
  OBVIOUS
<1>1. TypeOK /\ WorkInv /\ PosInv
  BY LoopInit DEF LoopInv
<1>2. /\ reqs = <<>> /\ freeReq = 0 /\ resps = <<>> /\ freeResp = 0 /\ Len(reqs) = 0 /\ Len(resps) = 0
      /\ \A w \in Workers : /\ pc[w] = "idle" /\ req[w] = 0 /\ resp[w] = 0 /\ times[w] = 0
                            /\ nread[w] = 0 /\ skipped[w] = 0 /\ written[w] = <<>> /\ mtype[w] = NoMethod
  BY DEF Init
<1>3. 1..Len(reqs) = {} /\ 1..Len(resps) = {}
  BY <1>2
<1>4. Cardinality({}) = 0 /\ Cardinality(Workers) \in Nat /\ Leaks \in Nat
  BY FS_EmptySet, ServerAssumption, FS_CardinalityType, LeaksType
<1>5. ASSUME NEW objs, NEW head, Len(objs) = 0, head = 0 PROVE FreeList(objs, head, {})
  <2> DEFINE L == [i \in 1..0 |-> 0]
  <2>1. 0 \in 0..Len(objs) /\ L \in [1..0 -> 1..Len(objs)] /\ 1..0 = {}
    BY <1>5
  <2>2. Linked(objs, head, 0, L) /\ {} = {L[i] : i \in 1..0}
    BY <1>5, <2>1 DEF Linked
  <2> HIDE DEF L
  <2> QED
    BY <2>1, <2>2 DEF FreeList
<1>6. PoolInv
  <2>1. NoSharing /\ \A w \in Workers : times[w] <= 1
    BY <1>2 DEF NoSharing
  <2>2. ResponsesInv
    BY <1>2, <1>3, <1>5 DEF ResponsesInv
  <2>3. RequestsInv
    <3>1. FreeList(reqs, freeReq, {}) /\ ((1..Len(reqs)) \ HeldReqs) \ {} = {}
      BY <1>2, <1>3, <1>5
    <3>2. {} \in SUBSET ((1..Len(reqs)) \ HeldReqs) /\ Cardinality({}) <= Leaks
      BY <1>4
    <3> QED
      BY <3>1, <3>2 DEF RequestsInv
  <2> QED
    BY <2>1, <2>2, <2>3 DEF PoolInv
<1>7. HeaderInv /\ EchoesRequest
  BY <1>2 DEF HeaderInv, HeaderOK, EchoesRequest
<1>8. AnswerInv /\ AnsweredOnce
  <2>1. \A w \in Workers : Len(written[w]) = 0
    BY <1>2
  <2> QED
    BY <1>2, <2>1, ServerAssumption DEF AnswerInv, AnswerOK, CountOK, OrderOK, AnsweredOnce, Open
<1>9. PoolsBounded
  BY <1>2, <1>4 DEF PoolsBounded
<1>10. CallsCounted
  <2> SUFFICES ASSUME NEW r \in Registrars, NEW m \in RegMethods[r]
               PROVE  numCalls[r][m] = Cardinality({w \in Workers : InCall(w, r, m)})
                                         + Cardinality(AnswersOf(r, m))
    BY DEF CallsCounted
  <2>1. {w \in Workers : InCall(w, r, m)} = {}
    BY <1>2 DEF InCall
  <2>2. AnswersOf(r, m) = {}
    <3>1. \A w \in Workers : Len(written[w]) = 0
      BY <1>2
    <3> QED
      BY <3>1, ServerAssumption DEF AnswersOf
  <2>3. numCalls[r][m] = 0
    BY DEF Init
  <2> QED
    BY <1>4, <2>1, <2>2, <2>3
<1> QED
  BY <1>1, <1>6, <1>7, <1>8, <1>9, <1>10 DEF ServerInv

\* Every step keeps the invariant.
LEMMA ServerStep ==
  ASSUME HandlerCalls \subseteq {0, 1}, ServerInv, [Next]_vars
  PROVE  ServerInv'
<1>i. /\ LoopInv /\ LoopInv' /\ ResponsesInv /\ RequestsInv /\ Alone(req) /\ Alone(resp)
      /\ \A v \in Workers : times[v] <= 1
  BY LoopStep, SharingParts DEF ServerInv, LoopInv, PoolInv
<1>1. ASSUME NEW w \in Workers, ReadRequest(w) \/ ServiceCall(w) \/ SendResponse(w)
      PROVE  ServerInv'
  <2>1. AnswerInv /\ HeaderInv /\ EchoesRequest /\ AnsweredOnce /\ PoolsBounded /\ CallsCounted
    BY DEF ServerInv
  <2>2. ResponsesInv' /\ Alone(resp)'
    BY <1>1, <1>i, ResponsesStep
  <2>3. RequestsInv' /\ Alone(req)'
    BY <1>1, <1>i, <2>1, RequestsStep
  <2>4. \A v \in Workers : times'[v] <= 1
    BY <1>1, <1>i, TimesStep
  <2>5. PoolInv'
    BY <2>2, <2>3, <2>4, SharingParts DEF PoolInv
  <2>6. HeaderInv'
    BY <1>1, <1>i, <2>1, <2>2, <2>3, HeaderStep
  <2>7. AnswerInv'
    BY <1>1, <1>i, <2>1, AnswerStep
  <2>8. EchoesRequest' /\ AnsweredOnce'
    BY <1>1, <1>i, <2>1, <2>7, EchoStep
  <2>9. PoolsBounded'
    BY <1>1, <1>i, <2>1, <2>2, <2>3, LeaksStep, BoundedStep
  <2>10. CallsCounted'
    BY <1>1, <1>i, <2>1, CountStep
  <2> QED
    BY <1>i, <2>5, <2>6, <2>7, <2>8, <2>9, <2>10 DEF ServerInv, LoopInv
<1>2. ASSUME UNCHANGED <<reqPool, respPool, numCalls, workVars>>
      PROVE  ServerInv'
  <2> USE <1>2 DEF ServerInv, reqPool, respPool, workVars
  <2>1. PoolInv'
    <3>1. ResponsesInv' /\ HeldReqs' = HeldReqs /\ Leaks' = Leaks
      BY DEF PoolInv, ResponsesInv, HeldReqs, HeldResps, Leaks
    <3>2. RequestsInv'
      BY <3>1 DEF PoolInv, RequestsInv
    <3>3. NoSharing' /\ \A v \in Workers : times'[v] <= 1
      BY DEF PoolInv, NoSharing
    <3> QED
      BY <3>1, <3>2, <3>3 DEF PoolInv
  <2>2. HeaderInv' /\ AnswerInv'
    BY DEF HeaderInv, HeaderOK, AnswerInv, AnswerOK, CountOK, OrderOK, Open
  <2>3. EchoesRequest' /\ AnsweredOnce'
    BY DEF EchoesRequest, AnsweredOnce
  <2>4. PoolsBounded'
    BY DEF PoolsBounded, Leaks
  <2>5. CallsCounted'
    <3>1. \A r, m : (\A v \in Workers : InCall(v, r, m)' <=> InCall(v, r, m)) /\ AnswersOf(r, m)' = AnswersOf(r, m)
      BY DEF InCall, AnswersOf
    <3>2. \A r, m : {v \in Workers : InCall(v, r, m)'} = {v \in Workers : InCall(v, r, m)}
      BY <3>1
    <3> QED
      BY <3>1, <3>2 DEF CallsCounted
  <2> QED
    BY <1>i, <2>1, <2>2, <2>3, <2>4, <2>5 DEF LoopInv
<1>3. ASSUME NEW r \in Registrars, Register(r)
      PROVE  ServerInv'
  BY <1>2, <1>3 DEF Register
<1>4. CASE UNCHANGED vars
  BY <1>2, <1>4 DEF vars
<1> QED
  BY <1>1, <1>3, <1>4 DEF Next, Stopped

\* For interceptors that call the handler they are given at most once, the
\* server's invariant holds, with any number of connections sharing the pools.
THEOREM ServerInvariant ==
  ASSUME HandlerCalls \subseteq {0, 1}
  PROVE  Spec => []ServerInv
  BY ServerInit, ServerStep, PTL DEF Spec

\* Then no Request or Response is used by two goroutines at once.
THEOREM HeadersNotShared ==
  ASSUME HandlerCalls \subseteq {0, 1}
  PROVE  Spec => []NoSharing
<1>1. ServerInv => NoSharing
  BY DEF ServerInv, PoolInv
<1> QED
  BY <1>1, ServerInvariant, PTL

\* Then every response carries the number, method and error of its request.
THEOREM ResponsesEcho ==
  ASSUME HandlerCalls \subseteq {0, 1}
  PROVE  Spec => []EchoesRequest
<1>1. ServerInv => EchoesRequest
  BY DEF ServerInv
<1> QED
  BY <1>1, ServerInvariant, PTL

\* Then every request is answered exactly once, in order, or was skipped.
THEOREM RequestsAnsweredOnce ==
  ASSUME HandlerCalls \subseteq {0, 1}
  PROVE  Spec => []AnsweredOnce
<1>1. ServerInv => AnsweredOnce
  BY DEF ServerInv
<1> QED
  BY <1>1, ServerInvariant, PTL

\* Then the pools are bounded by the connections and the leaked Requests.
THEOREM AllocationBounded ==
  ASSUME HandlerCalls \subseteq {0, 1}
  PROVE  Spec => []PoolsBounded
<1>1. ServerInv => PoolsBounded
  BY DEF ServerInv
<1> QED
  BY <1>1, ServerInvariant, PTL

\* Then numCalls is the number of calls answered or under way.
THEOREM CountsExact ==
  ASSUME HandlerCalls \subseteq {0, 1}
  PROVE  Spec => []CallsCounted
<1>1. ServerInv => CallsCounted
  BY DEF ServerInv
<1> QED
  BY <1>1, ServerInvariant, PTL
=============================================================================
