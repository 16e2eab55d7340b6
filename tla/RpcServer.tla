------------------------------ MODULE RpcServer ------------------------------
(***************************************************************************)
(* The server half of net/rpc (src/net/rpc/server.go): goroutines that     *)
(* each serve one connection by calling ServeRequest in a loop, and        *)
(* goroutines registering services, over one Server.  They share its       *)
(* service map and its free lists of Request and Response headers, which   *)
(* are linked through the next field and protected by reqLock and          *)
(* respLock: each locked section is one step.                              *)
(*                                                                         *)
(* The loop around ServeRequest is the caller's: the tests keep serving    *)
(* after an error that is not io.EOF, others close at the first error.     *)
(* A header field that is zero is not on the wire (gob omits it), so       *)
(* decoding leaves the field of the Request as it was.                     *)
(*                                                                         *)
(* A loop that goes on may read a header where the peer put something      *)
(* else.  If that decodes all the same, a body of the right shape for      *)
(* instance, headers and bodies are exchanged from there on; what is read  *)
(* from then on, or from the middle of a value, is arbitrary here.         *)
(***************************************************************************)
EXTENDS Naturals, FiniteSets, Sequences

CONSTANTS
  Workers,      \* goroutines serving a connection
  Registrars,   \* goroutines calling Register, one receiver each
  Unnamed,      \* those whose name is empty, or that of a type not exported
  RegName,      \* the service name each registers
  RegMethods,   \* the suitable methods of each receiver
  ServiceMethods, \* the ServiceMethod of requests: <<service, method>>, or <<>>
                \* for the empty string, which has no dot
  NoMethod,     \* the nil *methodType
  HandlerCalls, \* how often the service call interceptor may call its handler
  Rejecting,    \* connections (source addresses) the pre-body interceptor may
                \* return an error for
  KeepServing,  \* connections whose loop goes on after an error other than EOF
  Framed,       \* connections whose codec reads a value it cannot decode to its end
  StraySeqs,    \* the numbers something other than a header can be read with
  MaxRequests   \* bound: requests per connection

ASSUME ServerAssumption ==
  /\ NoMethod \notin Registrars \X UNION {RegMethods[r] : r \in Registrars}
  /\ Unnamed \subseteq Registrars
  /\ Rejecting \cup KeepServing \cup Framed \subseteq Workers
  /\ MaxRequests \in Nat
  /\ StraySeqs \subseteq Nat
  /\ HandlerCalls \subseteq Nat
  /\ IsFiniteSet(Workers)

VARIABLES
  serviceMap,  \* Server.serviceMap: from names to the registered receiver
  regPc,       \* "idle", "ok" or "error" for each goroutine in register
  reqs,        \* every Request ever allocated; its address is its index, 0 is nil
  freeReq,     \* Server.freeReq
  resps,       \* every Response ever allocated
  freeResp,    \* Server.freeResp
  numCalls,    \* methodType.numCalls, by receiver and method
  pc,          \* where each worker is
  req,         \* its *Request
  resp,        \* its *Response, inside sendResponse
  mtype,       \* the *methodType findMethod returned to it
  err,         \* the error it will report: "nil", "find", "reject", "body" or "call"
  times,       \* calls of the handler its interceptor has still to make
  pos,         \* where its connection's read side is: at a "header", at the "body"
               \* of the header read last, at the "orphan" of one that could not be
               \* decoded, "lost" inside a body, "garbled" inside a header, or
               \* "astray", once something else has passed for a header
  hdr,         \* history: the header it read, as it was on the wire
  nread,       \* history: headers it has read or could not decode
  skipped,     \* history: those that get no response
  written      \* history: responses written, with the request each is to

mapVars == <<serviceMap, regPc>>
reqPool == <<reqs, freeReq>>
respPool == <<resps, freeResp>>
workVars == <<pc, req, resp, mtype, err, times, pos, hdr, nread, skipped, written>>
vars == <<mapVars, reqPool, respPool, numCalls, workVars>>

ZeroHdr == [seq |-> 0, method |-> <<>>]
ZeroReq == [seq |-> 0, method |-> <<>>, next |-> 0]
ZeroResp == [seq |-> 0, method |-> <<>>, error |-> "nil", next |-> 0]

WorkPcs == {"idle", "header", "find", "discard", "preBody", "body", "dispatch", "call",
            "run", "getResp", "fill", "write", "freeResp", "freeReq", "stopped"}
ErrKinds == {"nil", "find", "reject", "body", "call"}

\* The registered methods there can be, and the ServiceMethods a Request can hold.
Methods == {x \in Registrars \X UNION {RegMethods[r] : r \in Registrars} : x[2] \in RegMethods[x[1]]}
Names == ServiceMethods \cup {<<>>}
Headers == [seq : Nat, method : Names]

\* A response written, with the request it is to, its error and method.
Answers == [seq : Nat, method : Names, error : ErrKinds, to : Headers, err : ErrKinds,
            by : Methods \cup {NoMethod}]

\* What can be read as a header where there is none.
Strays == [seq : StraySeqs, method : Names]

\* The Requests and Responses there can be when n of them have been allocated.
ReqType(n) == [seq : Nat, method : Names, next : 0..n]
RespType(n) == [seq : Nat, method : Names, error : ErrKinds, next : 0..n]

Init ==
  /\ serviceMap = [n \in {} |-> 0]
  /\ regPc = [r \in Registrars |-> "idle"]
  /\ reqs = <<>>
  /\ freeReq = 0
  /\ resps = <<>>
  /\ freeResp = 0
  /\ numCalls = [r \in Registrars |-> [m \in RegMethods[r] |-> 0]]
  /\ pc = [w \in Workers |-> "idle"]
  /\ req = [w \in Workers |-> 0]
  /\ resp = [w \in Workers |-> 0]
  /\ mtype = [w \in Workers |-> NoMethod]
  /\ err = [w \in Workers |-> "nil"]
  /\ times = [w \in Workers |-> 0]
  /\ pos = [w \in Workers |-> "header"]
  /\ hdr = [w \in Workers |-> ZeroHdr]
  /\ nread = [w \in Workers |-> 0]
  /\ skipped = [w \in Workers |-> 0]
  /\ written = [w \in Workers |-> <<>>]

-----------------------------------------------------------------------------
(* Registration and lookup.                                                *)

\* Mutant of Register: Store instead of LoadOrStore.
RegisterStores(r) ==
  /\ regPc[r] = "idle"
  /\ r \notin Unnamed /\ RegMethods[r] # {}
  /\ regPc' = [regPc EXCEPT ![r] = "ok"]
  /\ serviceMap' = [n \in DOMAIN serviceMap \cup {RegName[r]} |->
                      IF n = RegName[r] THEN r ELSE serviceMap[n]]
  /\ UNCHANGED <<reqPool, respPool, numCalls, workVars>>

\* register: LoadOrStore keeps the first service of a name.
Register(r) ==
  /\ regPc[r] = "idle"
  /\ IF r \in Unnamed \/ RegMethods[r] = {} \/ RegName[r] \in DOMAIN serviceMap
       THEN /\ regPc' = [regPc EXCEPT ![r] = "error"]
            /\ UNCHANGED serviceMap
       ELSE /\ regPc' = [regPc EXCEPT ![r] = "ok"]
            /\ serviceMap' = [n \in DOMAIN serviceMap \cup {RegName[r]} |->
                                IF n = RegName[r] THEN r ELSE serviceMap[n]]
  /\ UNCHANGED <<reqPool, respPool, numCalls, workVars>>

\* findMethod: the method a ServiceMethod names, NoMethod when there is an error
FindMethod(sm) ==
  IF /\ sm # <<>>
     /\ sm[1] \in DOMAIN serviceMap
     /\ sm[2] \in RegMethods[serviceMap[sm[1]]]
    THEN <<serviceMap[sm[1]], sm[2]>>
    ELSE NoMethod

-----------------------------------------------------------------------------
(* ServeRequest: reading the request.                                      *)

\* Mutant of GetRequest: the head stays on the free list.
GetRequestStays(w) ==
  /\ pc[w] = "idle"
  /\ IF freeReq = 0
       THEN /\ reqs' = Append(reqs, ZeroReq)
            /\ req' = [req EXCEPT ![w] = Len(reqs) + 1]
       ELSE /\ req' = [req EXCEPT ![w] = freeReq]
            /\ UNCHANGED reqs
  /\ pc' = [pc EXCEPT ![w] = "header"]
  /\ UNCHANGED <<mapVars, freeReq, respPool, numCalls, resp, mtype, err, times, pos, hdr, nread, skipped, written>>

\* Mutant of GetRequest: a recycled Request is not zeroed.
GetRequestStale(w) ==
  /\ pc[w] = "idle"
  /\ IF freeReq = 0
       THEN /\ reqs' = Append(reqs, ZeroReq)
            /\ req' = [req EXCEPT ![w] = Len(reqs) + 1]
            /\ UNCHANGED freeReq
       ELSE /\ req' = [req EXCEPT ![w] = freeReq]
            /\ freeReq' = reqs[freeReq].next
            /\ UNCHANGED reqs
  /\ pc' = [pc EXCEPT ![w] = "header"]
  /\ UNCHANGED <<mapVars, respPool, numCalls, resp, mtype, err, times, pos, hdr, nread, skipped, written>>

\* getRequest: the head of the free list, zeroed, or a new object
GetRequest(w) ==
  /\ pc[w] = "idle"
  /\ IF freeReq = 0
       THEN /\ reqs' = Append(reqs, ZeroReq)
            /\ req' = [req EXCEPT ![w] = Len(reqs) + 1]
            /\ UNCHANGED freeReq
       ELSE /\ req' = [req EXCEPT ![w] = freeReq]
            /\ freeReq' = reqs[freeReq].next
            /\ reqs' = [reqs EXCEPT ![freeReq] = ZeroReq]
  /\ pc' = [pc EXCEPT ![w] = "header"]
  /\ UNCHANGED <<mapVars, respPool, numCalls, resp, mtype, err, times, pos, hdr, nread, skipped, written>>

\* Decoding header h into the Request r.
Decoded(r, h) ==
  [r EXCEPT !.seq = IF h.seq = 0 THEN @ ELSE h.seq,
            !.method = IF h.method = <<>> THEN @ ELSE h.method]

\* What the next value decodes to as a header.  The numbers of the peer's
\* requests start at 0 and increase.
NextHeaders(w) ==
  IF pos[w] = "header" THEN {[seq |-> nread[w], method |-> sm] : sm \in ServiceMethods} ELSE Strays

\* ReadRequestHeader succeeds
ReadHeader(w) ==
  /\ pc[w] = "header"
  /\ nread[w] < MaxRequests
  /\ \E h \in NextHeaders(w) :
       /\ hdr' = [hdr EXCEPT ![w] = h]
       /\ reqs' = [reqs EXCEPT ![req[w]] = Decoded(@, h)]
  /\ pos' = [pos EXCEPT ![w] = IF @ = "header" THEN "body" ELSE "astray"]
  /\ nread' = [nread EXCEPT ![w] = @ + 1]
  /\ pc' = [pc EXCEPT ![w] = "find"]
  /\ UNCHANGED <<mapVars, freeReq, respPool, numCalls, req, resp, mtype, err, times, skipped, written>>

\* Where a value that does not decode as a header leaves the read side: with
\* a framed codec, at the value after it.
AfterBadHeader(w) ==
  IF pos[w] \in {"header", "body", "orphan"}
    THEN IF w \notin Framed THEN "garbled" ELSE IF pos[w] = "header" THEN "orphan" ELSE "header"
    ELSE pos[w]

\* ReadRequestHeader fails, by the end of the connection or on a header it
\* cannot decode: req is set to nil and never freed, and ServeRequest returns
\* without reading a body.
HeaderFails(w) ==
  /\ pc[w] = "header"
  /\ req' = [req EXCEPT ![w] = 0]
  /\ \/ /\ pc' = [pc EXCEPT ![w] = "stopped"]
        /\ UNCHANGED <<pos, nread, skipped>>
     \/ /\ w \in KeepServing
        /\ nread[w] < MaxRequests
        /\ pc' = [pc EXCEPT ![w] = "idle"]
        /\ pos' = [pos EXCEPT ![w] = AfterBadHeader(w)]
        /\ nread' = [nread EXCEPT ![w] = @ + 1]
        /\ skipped' = [skipped EXCEPT ![w] = @ + 1]
  /\ UNCHANGED <<mapVars, reqPool, respPool, numCalls, resp, mtype, err, times, hdr, written>>

\* findMethod on the header in the Request, which decides what is read next
Find(w) ==
  /\ pc[w] = "find"
  /\ LET m == FindMethod(reqs[req[w]].method) IN
       /\ mtype' = [mtype EXCEPT ![w] = m]
       /\ err' = [err EXCEPT ![w] = IF m = NoMethod THEN "find" ELSE "nil"]
       /\ pc' = [pc EXCEPT ![w] = IF m = NoMethod THEN "discard" ELSE "preBody"]
  /\ UNCHANGED <<mapVars, reqPool, respPool, numCalls, req, resp, times, pos, hdr, nread, skipped, written>>

\* Where a body leaves the read side, and one that cannot be decoded.
AfterBody(w) == IF pos[w] = "body" THEN "header" ELSE pos[w]
AfterBadBody(w) == IF pos[w] = "body" /\ w \notin Framed THEN "lost" ELSE AfterBody(w)

\* ReadRequestBody(nil), its error ignored
DiscardBody(w) ==
  /\ pc[w] = "discard"
  /\ \E p \in {AfterBody(w), AfterBadBody(w)} : pos' = [pos EXCEPT ![w] = p]
  /\ pc' = [pc EXCEPT ![w] = "getResp"]
  /\ UNCHANGED <<mapVars, reqPool, respPool, numCalls, req, resp, mtype, err, times, hdr, nread, skipped, written>>

\* The pre-body interceptor: its error is answered at once, the body unread.
PreBody(w) ==
  /\ pc[w] = "preBody"
  /\ \/ /\ pc' = [pc EXCEPT ![w] = "body"]
        /\ UNCHANGED err
     \/ /\ w \in Rejecting
        /\ pc' = [pc EXCEPT ![w] = "getResp"]
        /\ err' = [err EXCEPT ![w] = "reject"]
  /\ UNCHANGED <<mapVars, reqPool, respPool, numCalls, req, resp, mtype, times, pos, hdr, nread, skipped, written>>

ReadBody(w) ==
  /\ pc[w] = "body"
  /\ \/ /\ pc' = [pc EXCEPT ![w] = "dispatch"]
        /\ pos' = [pos EXCEPT ![w] = AfterBody(w)]
        /\ UNCHANGED err
     \/ /\ pc' = [pc EXCEPT ![w] = "getResp"]
        /\ pos' = [pos EXCEPT ![w] = AfterBadBody(w)]
        /\ err' = [err EXCEPT ![w] = "body"]
  /\ UNCHANGED <<mapVars, reqPool, respPool, numCalls, req, resp, mtype, times, hdr, nread, skipped, written>>

-----------------------------------------------------------------------------
(* ServeRequest: calling the method and answering.                         *)

\* Mutant of Dispatch: the else is missing, the handler is also called after
\* the interceptor.
DispatchFallsThrough(w) ==
  /\ pc[w] = "dispatch"
  /\ \E n \in HandlerCalls : times' = [times EXCEPT ![w] = n + 1]
  /\ pc' = [pc EXCEPT ![w] = "call"]
  /\ UNCHANGED <<mapVars, reqPool, respPool, numCalls, req, resp, mtype, err, pos, hdr, nread, skipped, written>>

\* The interceptor gets the handler (without one, the handler is called
\* once).  If it never calls it there is no response, and req is not freed.
Dispatch(w) ==
  /\ pc[w] = "dispatch"
  /\ \E n \in HandlerCalls :
       /\ times' = [times EXCEPT ![w] = n]
       /\ IF n = 0
            THEN /\ pc' = [pc EXCEPT ![w] = "idle"]
                 /\ req' = [req EXCEPT ![w] = 0]
                 /\ skipped' = [skipped EXCEPT ![w] = @ + 1]
            ELSE /\ pc' = [pc EXCEPT ![w] = "call"]
                 /\ UNCHANGED <<req, skipped>>
  /\ UNCHANGED <<mapVars, reqPool, respPool, numCalls, resp, mtype, err, pos, hdr, nread, written>>

\* Mutant of CountCall: without the lock two increments may become one.
CountCallUnlocked(w) ==
  /\ pc[w] = "call"
  /\ numCalls' = IF \E v \in Workers : pc[v] = "run" /\ mtype[v] = mtype[w]
                   THEN numCalls
                   ELSE [numCalls EXCEPT ![mtype[w][1]][mtype[w][2]] = @ + 1]
  /\ pc' = [pc EXCEPT ![w] = "run"]
  /\ UNCHANGED <<mapVars, reqPool, respPool, req, resp, mtype, err, times, pos, hdr, nread, skipped, written>>

\* service.call: numCalls++ under the method's lock
CountCall(w) ==
  /\ pc[w] = "call"
  /\ numCalls' = [numCalls EXCEPT ![mtype[w][1]][mtype[w][2]] = @ + 1]
  /\ pc' = [pc EXCEPT ![w] = "run"]
  /\ UNCHANGED <<mapVars, reqPool, respPool, req, resp, mtype, err, times, pos, hdr, nread, skipped, written>>

\* callServiceMethod
RunMethod(w) ==
  /\ pc[w] = "run"
  /\ \E e \in {"nil", "call"} : err' = [err EXCEPT ![w] = e]
  /\ pc' = [pc EXCEPT ![w] = "getResp"]
  /\ UNCHANGED <<mapVars, reqPool, respPool, numCalls, req, resp, mtype, times, pos, hdr, nread, skipped, written>>

\* Mutant of GetResponse: a recycled Response is not zeroed.
GetResponseStale(w) ==
  /\ pc[w] = "getResp"
  /\ IF freeResp = 0
       THEN /\ resps' = Append(resps, ZeroResp)
            /\ resp' = [resp EXCEPT ![w] = Len(resps) + 1]
            /\ UNCHANGED freeResp
       ELSE /\ resp' = [resp EXCEPT ![w] = freeResp]
            /\ freeResp' = resps[freeResp].next
            /\ UNCHANGED resps
  /\ pc' = [pc EXCEPT ![w] = "fill"]
  /\ UNCHANGED <<mapVars, reqPool, numCalls, req, mtype, err, times, pos, hdr, nread, skipped, written>>

\* getResponse
GetResponse(w) ==
  /\ pc[w] = "getResp"
  /\ IF freeResp = 0
       THEN /\ resps' = Append(resps, ZeroResp)
            /\ resp' = [resp EXCEPT ![w] = Len(resps) + 1]
            /\ UNCHANGED freeResp
       ELSE /\ resp' = [resp EXCEPT ![w] = freeResp]
            /\ freeResp' = resps[freeResp].next
            /\ resps' = [resps EXCEPT ![freeResp] = ZeroResp]
  /\ pc' = [pc EXCEPT ![w] = "fill"]
  /\ UNCHANGED <<mapVars, reqPool, numCalls, req, mtype, err, times, pos, hdr, nread, skipped, written>>

\* sendResponse up to WriteResponse: Error is only assigned for an error
FillResponse(w) ==
  /\ pc[w] = "fill"
  /\ resps' = [resps EXCEPT ![resp[w]].method = reqs[req[w]].method,
                            ![resp[w]].error = IF err[w] # "nil" THEN err[w] ELSE @,
                            ![resp[w]].seq = reqs[req[w]].seq]
  /\ pc' = [pc EXCEPT ![w] = "write"]
  /\ UNCHANGED <<mapVars, reqPool, freeResp, numCalls, req, resp, mtype, err, times, pos, hdr, nread, skipped, written>>

\* WriteResponse; its error is ignored.  sending is a new mutex for every
\* ServeRequest, so it never blocks.
WriteResponse(w) ==
  /\ pc[w] = "write"
  /\ LET r == resps[resp[w]] IN
       written' = [written EXCEPT ![w] = Append(@,
                     [seq |-> r.seq, method |-> r.method, error |-> r.error,
                      to |-> hdr[w], err |-> err[w], by |-> mtype[w]])]
  /\ pc' = [pc EXCEPT ![w] = "freeResp"]
  /\ UNCHANGED <<mapVars, reqPool, respPool, numCalls, req, resp, mtype, err, times, pos, hdr, nread, skipped>>

\* Mutant of FreeResponse: the Response is not put back.
FreeResponseLost(w) ==
  /\ pc[w] = "freeResp"
  /\ resp' = [resp EXCEPT ![w] = 0]
  /\ pc' = [pc EXCEPT ![w] = "freeReq"]
  /\ UNCHANGED <<mapVars, reqPool, respPool, numCalls, req, mtype, err, times, pos, hdr, nread, skipped, written>>

FreeResponse(w) ==
  /\ pc[w] = "freeResp"
  /\ resps' = [resps EXCEPT ![resp[w]].next = freeResp]
  /\ freeResp' = resp[w]
  /\ resp' = [resp EXCEPT ![w] = 0]
  /\ pc' = [pc EXCEPT ![w] = "freeReq"]
  /\ UNCHANGED <<mapVars, reqPool, numCalls, req, mtype, err, times, pos, hdr, nread, skipped, written>>

\* Mutant of FreeRequest: ServeRequest does not return the error.
FreeRequestNoError(w) ==
  /\ pc[w] = "freeReq"
  /\ reqs' = [reqs EXCEPT ![req[w]].next = freeReq]
  /\ freeReq' = req[w]
  /\ times' = [times EXCEPT ![w] = 0]
  /\ pc' = [pc EXCEPT ![w] = "idle"]
  /\ req' = [req EXCEPT ![w] = 0]
  /\ UNCHANGED <<mapVars, respPool, numCalls, resp, mtype, err, pos, hdr, nread, skipped, written>>

\* freeRequest; then the interceptor may call its handler again, or
\* ServeRequest returns to the loop: an error found while reading the request
\* is its result, an error of the method is not.
FreeRequest(w) ==
  /\ pc[w] = "freeReq"
  /\ reqs' = [reqs EXCEPT ![req[w]].next = freeReq]
  /\ freeReq' = req[w]
  /\ IF times[w] > 1
       THEN /\ times' = [times EXCEPT ![w] = @ - 1]
            /\ pc' = [pc EXCEPT ![w] = "call"]
            /\ UNCHANGED req
       ELSE /\ times' = [times EXCEPT ![w] = 0]
            /\ pc' = [pc EXCEPT ![w] = IF w \in KeepServing \/ err[w] \in {"nil", "call"}
                                         THEN "idle" ELSE "stopped"]
            /\ req' = [req EXCEPT ![w] = 0]
  /\ UNCHANGED <<mapVars, respPool, numCalls, resp, mtype, err, pos, hdr, nread, skipped, written>>

-----------------------------------------------------------------------------
ReadRequest(w) ==
  \/ GetRequest(w) \/ ReadHeader(w) \/ HeaderFails(w) \/ Find(w)
  \/ DiscardBody(w) \/ PreBody(w) \/ ReadBody(w)

ServiceCall(w) == Dispatch(w) \/ CountCall(w) \/ RunMethod(w)

SendResponse(w) ==
  GetResponse(w) \/ FillResponse(w) \/ WriteResponse(w) \/ FreeResponse(w) \/ FreeRequest(w)

\* Every connection has ended and nothing else is running.
Stopped ==
  /\ \A w \in Workers : pc[w] = "stopped"
  /\ \A r \in Registrars : regPc[r] # "idle"
  /\ UNCHANGED vars

Next ==
  \/ \E w \in Workers : ReadRequest(w) \/ ServiceCall(w) \/ SendResponse(w)
  \/ \E r \in Registrars : Register(r)
  \/ Stopped

Spec == Init /\ [][Next]_vars

-----------------------------------------------------------------------------
(* Properties.                                                             *)

\* The types of the service map, of the two pools, and of the workers' variables.
MapTypes ==
  /\ DOMAIN serviceMap \subseteq {RegName[r] : r \in Registrars}
  /\ serviceMap \in [DOMAIN serviceMap -> Registrars]
  /\ regPc \in [Registrars -> {"idle", "ok", "error"}]

RequestTypes ==
  /\ reqs \in Seq(ReqType(Len(reqs)))
  /\ freeReq \in 0..Len(reqs)
  /\ req \in [Workers -> 0..Len(reqs)]

ResponseTypes ==
  /\ resps \in Seq(RespType(Len(resps)))
  /\ freeResp \in 0..Len(resps)
  /\ resp \in [Workers -> 0..Len(resps)]

CallTypes ==
  /\ DOMAIN numCalls = Registrars
  /\ \A r \in Registrars : numCalls[r] \in [RegMethods[r] -> Nat]

WorkTypes ==
  /\ pc \in [Workers -> WorkPcs]
  /\ mtype \in [Workers -> Methods \cup {NoMethod}]
  /\ err \in [Workers -> ErrKinds]
  /\ times \in [Workers -> Nat]
  /\ pos \in [Workers -> {"header", "body", "orphan", "lost", "garbled", "astray"}]
  /\ hdr \in [Workers -> Headers]
  /\ nread \in [Workers -> Nat]
  /\ skipped \in [Workers -> Nat]
  /\ written \in [Workers -> Seq(Answers)]

\* The type invariant of the server.
TypeOK == MapTypes /\ RequestTypes /\ ResponseTypes /\ CallTypes /\ WorkTypes

\* The pooled headers workers hold are theirs alone: no Request or Response
\* is used by two goroutines at once (getRequest .. freeRequest).
NoSharing ==
  \A v, w \in Workers :
    v # w => /\ req[v] # 0 => req[v] # req[w]
             /\ resp[v] # 0 => resp[v] # resp[w]

\* Every response carries the Seq, ServiceMethod and error of the request it
\* answers, although all four fields live in recycled objects (sendResponse).
EchoesRequest ==
  \A w \in Workers : \A i \in 1..Len(written[w]) :
    LET x == written[w][i] IN
      x.seq = x.to.seq /\ x.method = x.to.method /\ x.error = x.err

\* Between two requests, each header that was read has had exactly one
\* response, unless it was undecodable or the interceptor dropped the request;
\* and until something else is taken for a header, responses come in the order
\* of the requests (ServeRequest).
AnsweredOnce ==
  \A w \in Workers :
    /\ pc[w] \in {"idle", "header", "stopped"} => Len(written[w]) + skipped[w] = nread[w]
    /\ pos[w] # "astray" =>
         \A i, j \in 1..Len(written[w]) : i < j => written[w][i].to.seq < written[w][j].to.seq

\* Requests nobody will use again, at most: one for each connection that
\* ended, and one for each header without a response.
Leaks == Cardinality({w \in Workers : pc[w] = "stopped"})
         + Cardinality({x \in Workers \X (1..MaxRequests) : x[2] <= skipped[x[1]]})

\* The free lists bound allocation: there are never more Response objects
\* than workers, and never more Requests than workers plus those lost when a
\* header could not be read or the interceptor dropped the request.
PoolsBounded ==
  /\ Len(resps) <= Cardinality(Workers)
  /\ Len(reqs) <= Cardinality(Workers) + Leaks

\* A call of method m of r has been counted and is not answered yet.
InCall(w, r, m) ==
  /\ mtype[w] = <<r, m>>
  /\ \/ pc[w] = "run"
     \/ pc[w] \in {"getResp", "fill", "write"} /\ err[w] \in {"nil", "call"}

\* The responses method m of r produced: connection and position.
AnswersOf(r, m) ==
  {x \in Workers \X (1..MaxRequests) :
    /\ x[2] <= Len(written[x[1]])
    /\ written[x[1]][x[2]].err \in {"nil", "call"}
    /\ written[x[1]][x[2]].by = <<r, m>>}

\* numCalls counts the calls: a method's count is the number of responses it
\* produced plus the workers between the increment and their response.
CallsCounted ==
  \A r \in Registrars : \A m \in RegMethods[r] :
    numCalls[r][m] = Cardinality({w \in Workers : InCall(w, r, m)}) + Cardinality(AnswersOf(r, m))

\* A registered service is never replaced, whoever registers the name again.
RegistrationStable ==
  [][\A n \in DOMAIN serviceMap : n \in DOMAIN serviceMap' /\ serviceMap'[n] = serviceMap[n]]_vars

\* ReadRequestHeader and ReadRequestBody are called in pairs: no header is
\* read where the body of the header before is next (ServerCodec's
\* documentation).
PairedReads == \A w \in Workers : pc[w] = "header" => pos[w] # "body"

\* "We read the header successfully. If we see an error now, we can still
\* recover and move on to the next request": after such an error no header is
\* read from the unread body of that request, or from the middle of it
\* (readRequest's keepReading, and the loop that stops at an error).  After a
\* header that could not be decoded nothing is promised: its body is next, and
\* a loop that goes on takes that for a header.
RecoversAfterError == PairedReads /\ \A w \in Workers : pc[w] = "header" => pos[w] # "lost"

-----------------------------------------------------------------------------
(* The inductive invariant.                                                *)

\* A request has been read and its response is still to be written.
Open(w) == pc[w] \in {"find", "discard", "preBody", "body", "dispatch", "call", "run",
                      "getResp", "fill", "write"}

\* sendResponse, and freeRequest after it.
Answering(w) == pc[w] \in {"getResp", "fill", "write", "freeResp", "freeReq"}

\* Which of its variables mean something where a worker is; the second handler
\* call of one request (times > 1) is only met after the first.
WorkOK(w) ==
  /\ req[w] = 0 <=> pc[w] \in {"idle", "stopped"}
  /\ resp[w] # 0 <=> pc[w] \in {"fill", "write", "freeResp"}
  /\ pc[w] \in {"preBody", "body", "dispatch", "call", "run"} => mtype[w] # NoMethod
  /\ Answering(w) /\ err[w] # "find" => mtype[w] # NoMethod
  /\ pc[w] \in {"preBody", "body"} => err[w] = "nil"
  /\ pc[w] = "discard" => err[w] = "find"
  /\ times[w] > 0 => \/ pc[w] \in {"call", "run"}
                     \/ Answering(w) /\ err[w] \in {"nil", "call"}

WorkInv == \A w \in Workers : WorkOK(w)

\* Where the read side of a connection is.
PosOK(w) ==
  /\ pc[w] \in {"find", "discard", "preBody", "body"} => pos[w] \in {"body", "astray"}
  /\ pc[w] \in {"dispatch", "call", "run"} => pos[w] \in {"header", "astray"}
  /\ Answering(w) => \/ pos[w] \in {"header", "astray"}
                     \/ err[w] = "reject" /\ pos[w] = "body" /\ w \in Rejecting
                     \/ err[w] \in {"find", "body"} /\ pos[w] = "lost" /\ w \notin Framed
  /\ pc[w] \in {"idle", "header"} =>
       \/ pos[w] \in {"header", "orphan", "garbled", "astray"}
       \/ w \in KeepServing /\ (w \in Rejecting \/ w \notin Framed)

PosInv == \A w \in Workers : PosOK(w)

\* From head, the next fields lead through L[n], ..., L[1] to nil.
Linked(objs, head, n, L) ==
  /\ head = IF n = 0 THEN 0 ELSE L[n]
  /\ \A i \in 1..n : objs[L[i]].next = IF i = 1 THEN 0 ELSE L[i - 1]
  /\ \A i, j \in 1..n : i # j => L[i] # L[j]

\* The objects on the free list that starts at head are those of F.
FreeList(objs, head, F) ==
  \E n \in 0..Len(objs) : \E L \in [1..n -> 1..Len(objs)] :
    Linked(objs, head, n, L) /\ F = {L[i] : i \in 1..n}

HeldReqs == {req[w] : w \in Workers} \ {0}
HeldResps == {resp[w] : w \in Workers} \ {0}

\* An object is on its free list or held by one worker; only Requests leak.
ResponsesInv == FreeList(resps, freeResp, (1..Len(resps)) \ HeldResps)

RequestsInv ==
  \E F \in SUBSET ((1..Len(reqs)) \ HeldReqs) :
    /\ FreeList(reqs, freeReq, F)
    /\ Cardinality(((1..Len(reqs)) \ HeldReqs) \ F) <= Leaks

\* The pools; a Request is freed once for each call of the handler.
PoolInv == NoSharing /\ ResponsesInv /\ RequestsInv /\ \A w \in Workers : times[w] <= 1

\* The Request a worker holds is zero until it is decoded into, and then
\* equals the header read; the Response is filled from it.
HeaderOK(w) ==
  /\ pc[w] = "header" => reqs[req[w]].seq = 0 /\ reqs[req[w]].method = <<>>
  /\ pc[w] \notin {"idle", "header", "stopped"} =>
       reqs[req[w]].seq = hdr[w].seq /\ reqs[req[w]].method = hdr[w].method
  /\ pc[w] = "fill" => resps[resp[w]].error = "nil"
  /\ pc[w] = "write" => /\ resps[resp[w]].seq = hdr[w].seq
                        /\ resps[resp[w]].method = hdr[w].method
                        /\ resps[resp[w]].error = err[w]

HeaderInv == \A w \in Workers : HeaderOK(w)

\* Every header is answered, skipped or the one at hand; its number is above
\* all answered before, until something else is taken for a header.
CountOK(w) ==
  /\ nread[w] <= MaxRequests
  /\ Len(written[w]) + skipped[w] = IF Open(w) THEN nread[w] - 1 ELSE nread[w]

OrderOK(w) ==
  /\ Open(w) => hdr[w].seq + 1 = nread[w]
  /\ \A i \in 1..Len(written[w]) :
       written[w][i].to.seq < IF Open(w) THEN hdr[w].seq ELSE nread[w]

AnswerOK(w) == CountOK(w) /\ (pos[w] # "astray" => OrderOK(w))

AnswerInv == \A w \in Workers : AnswerOK(w)

\* The inductive invariant, for interceptors that call the handler at most once.
ServerInv ==
  /\ TypeOK /\ WorkInv /\ PosInv /\ PoolInv /\ HeaderInv /\ AnswerInv
  /\ EchoesRequest /\ AnsweredOnce /\ PoolsBounded /\ CallsCounted
=============================================================================
