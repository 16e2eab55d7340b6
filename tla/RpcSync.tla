------------------------------- MODULE RpcSync -------------------------------
(***************************************************************************)
(* CallWithCodec (src/net-rpc-msgpackrpc/client.go): one call at a time on *)
(* a codec, without a Client.  It never compares Response.Seq with the Seq *)
(* it sent, so that a call gets its own answer only because the connection *)
(* holds nothing else: every call must leave it as it found it.            *)
(*                                                                         *)
(* The peer is a loop around ServeRequest (src/net/rpc/server.go, see      *)
(* RpcServer) that answers in order and stops at the first error, or goes  *)
(* on; the codecs are those of RpcCodec.  The caller may use its codec     *)
(* again after an error.                                                   *)
(***************************************************************************)
EXTENDS Naturals, Sequences

CONSTANTS
  MaxCalls,   \* bound on the calls
  Modes       \* triples <<framed, keepServing, rejecting>>: whether a value that
              \* cannot be decoded is read to its end (gob does), whether the
              \* server goes on after an error that ServeRequest returns, and
              \* whether it has a pre-body interceptor that may reject requests

ASSUME SyncAssumption ==
  MaxCalls \in Nat /\ Modes \subseteq BOOLEAN \X BOOLEAN \X BOOLEAN

VARIABLES
  mode,        \* the triple in force
  nextCallSeq, \* the counter.  Callers with other codecs also draw from it; here
               \* it numbers the calls on this one
  pc,          \* where CallWithCodec is
  answered,    \* the request that the header it has read answers, 0 for none
  buf,         \* what is left in the codec's buffer
  up,          \* items on their way to the server
  down,        \* items on their way back
  open,        \* whether the connection is
  results      \* history: what each call returned

vars == <<mode, nextCallSeq, pc, answered, buf, up, down, open, results>>

\* Headers and bodies of requests and responses; n is the request they belong
\* to, error whether the header of a response has one.  A "rest" is what is
\* left of a value that could not be decoded.
Item(kind, n) == [kind |-> kind, n |-> n, error |-> FALSE]
Header(n, e) == [Item("header", n) EXCEPT !.error = e]

Framed == mode[1]
KeepServing == mode[2]
Rejecting == mode[3]

Init ==
  /\ mode \in Modes
  /\ nextCallSeq = 0
  /\ pc = "idle"
  /\ answered = 0
  /\ buf = <<>> /\ up = <<>> /\ down = <<>>
  /\ open = TRUE
  /\ results = <<>>

-----------------------------------------------------------------------------
(* CallWithCodec.                                                          *)

\* err is "nil", "server" for a ServerError, or "other"; from is the request
\* whose answer was given to the caller.
Return(err, from) ==
  /\ results' = Append(results, [err |-> err, from |-> from])
  /\ pc' = "idle"
  /\ answered' = 0

Start ==
  /\ pc = "idle"
  /\ nextCallSeq < MaxCalls
  /\ nextCallSeq' = nextCallSeq + 1
  /\ pc' = "write"
  /\ UNCHANGED <<mode, answered, buf, up, down, open, results>>

\* WriteRequest, header and body and what an earlier one left.  A peer that
\* has closed the connection need not be noticed.
WriteRequest ==
  /\ pc = "write"
  /\ up' = up \o buf \o <<Item("header", nextCallSeq), Item("body", nextCallSeq)>>
  /\ buf' = <<>>
  /\ pc' = "header"
  /\ UNCHANGED <<mode, nextCallSeq, answered, down, open, results>>

\* WriteRequest fails: the connection is closed, or the body cannot be encoded
\* and the header stays behind, in the buffer or on the wire
WriteFails ==
  /\ pc = "write"
  /\ LET left == Append(buf, Item("header", nextCallSeq)) IN
       \/ ~open /\ UNCHANGED <<buf, up>>
       \/ buf' = left /\ UNCHANGED up
       \/ buf' = <<>> /\ up' = up \o left
  /\ Return("other", 0)
  /\ UNCHANGED <<mode, nextCallSeq, down, open>>

\* ReadResponseHeader; something else may be taken for a header without an error
ReadResponseHeader ==
  /\ pc = "header"
  /\ down # <<>>
  /\ down' = Tail(down)
  /\ LET x == Head(down) IN
       IF x.kind = "header"
         THEN /\ answered' = x.n
              /\ pc' = IF x.error THEN "discard" ELSE "body"
              /\ UNCHANGED results
         ELSE \/ Return("other", 0)
              \/ answered' = 0 /\ pc' = "body" /\ UNCHANGED results
  /\ UNCHANGED <<mode, nextCallSeq, buf, up, open>>

\* Mutant of DiscardBody: the body of an error is not read.
DiscardBodyLeft ==
  /\ pc = "discard"
  /\ Return("server", answered)
  /\ UNCHANGED <<mode, nextCallSeq, buf, up, down, open>>

\* ReadResponseBody(nil) after an error; its own error is only reported
DiscardBody ==
  /\ pc = "discard"
  /\ down # <<>> \/ ~open
  /\ down' = IF down = <<>> THEN down ELSE Tail(down)
  /\ Return("server", answered)
  /\ UNCHANGED <<mode, nextCallSeq, buf, up, open>>

\* ReadResponseBody(resp)
ReadResponseBody ==
  /\ pc = "body"
  /\ down # <<>>
  /\ \/ down' = Tail(down) /\ Return("nil", answered)
     \/ /\ down' = IF Framed THEN Tail(down) ELSE <<Item("rest", 0)>> \o Tail(down)
        /\ Return("other", 0)
  /\ UNCHANGED <<mode, nextCallSeq, buf, up, open>>

\* io.EOF from ReadResponseHeader or ReadResponseBody
ReadFails ==
  /\ pc \in {"header", "body"}
  /\ ~open /\ down = <<>>
  /\ Return("other", 0)
  /\ UNCHANGED <<mode, nextCallSeq, buf, up, down, open>>

-----------------------------------------------------------------------------
(* The peer and the connection.                                            *)

Answer(n, e) == down' = down \o <<Header(n, e), Item("body", n)>>

\* What is next after two values, the second of which could not be decoded.
Undecoded(s) == IF Framed THEN Tail(Tail(s)) ELSE <<Item("rest", 0)>> \o Tail(Tail(s))

\* ServeRequest calls the method, and the loop goes on whatever it returns.
Serve ==
  /\ open /\ Len(up) >= 2
  /\ up[1].kind = "header"
  /\ \E e \in BOOLEAN : Answer(up[1].n, e)
  /\ up' = Tail(Tail(up))
  /\ UNCHANGED <<mode, nextCallSeq, pc, answered, buf, open, results>>

\* ServeRequest finds no method, or cannot decode the body: an answer and an
\* error.  What is not a header may pass for one without a method.
ServeRejects ==
  /\ open /\ Len(up) >= 2
  /\ Answer(IF up[1].kind = "header" THEN up[1].n ELSE 0, TRUE)
  /\ \/ up' = Tail(Tail(up))
     \/ up' = Undecoded(up)
  /\ open' = KeepServing
  /\ UNCHANGED <<mode, nextCallSeq, pc, answered, buf, results>>

\* The pre-body interceptor rejects a request whose method was found: an answer
\* and an error, with the body of the request unread.
ServeRejectsEarly ==
  /\ Rejecting
  /\ open /\ up # <<>>
  /\ up[1].kind = "header"
  /\ Answer(up[1].n, TRUE)
  /\ up' = Tail(up)
  /\ open' = KeepServing
  /\ UNCHANGED <<mode, nextCallSeq, pc, answered, buf, results>>

\* A header that cannot be decoded: no answer, and its body is next.
ServeFails ==
  /\ open /\ up # <<>>
  /\ up[1].kind # "header"
  /\ up' = Tail(up)
  /\ open' = KeepServing
  /\ UNCHANGED <<mode, nextCallSeq, pc, answered, buf, down, results>>

\* The connection ends.  What has arrived can still be read.
Disconnect ==
  /\ open
  /\ open' = FALSE
  /\ UNCHANGED <<mode, nextCallSeq, pc, answered, buf, up, down, results>>

\* The caller has made its calls.
Ended == pc = "idle" /\ nextCallSeq = MaxCalls /\ UNCHANGED vars

Next ==
  \/ Start \/ WriteRequest \/ WriteFails \/ ReadResponseHeader
  \/ DiscardBody \/ ReadResponseBody \/ ReadFails
  \/ Serve \/ ServeRejects \/ ServeRejectsEarly \/ ServeFails \/ Disconnect
  \/ Ended

Spec == Init /\ [][Next]_vars

-----------------------------------------------------------------------------
(* Properties.                                                             *)

\* A server of mode m that goes on has left nothing of a request unread.
LeavesNothing(m) == m[2] => m[1] /\ ~m[3]

\* No call up to the i-th failed otherwise than with an error of the server.
CleanUpTo(i) == \A j \in 1..i : results[j].err # "other"

\* A call that returns an answer, a reply or a ServerError, returns that to its
\* own request, as rpc.Client.Call would; errors of the server in earlier calls
\* do not matter, whether they came from a method or from a body the server
\* could not decode.  Only after another error is this not promised: then the
\* codec must not be used again (CallWithCodec has no check of Seq).  Nor is it
\* promised of a server that goes on behind something unread, the body of a
\* request that a pre-body interceptor rejected or the rest of a value that an
\* unframed codec could not decode: what is unread passes for the next header,
\* and the next call gets the answer to that.  No mode of the run is of that
\* kind (LeavesNothing).
OwnAnswer ==
  \A i \in DOMAIN results :
    CleanUpTo(i) => results[i].from = i

-----------------------------------------------------------------------------
(* The inductive invariant.                                                *)

Items == [kind : {"header", "body", "rest"}, n : Nat, error : BOOLEAN]

\* The type invariant; the call under way is the one after those returned.
TypeOK ==
  /\ mode \in Modes
  /\ nextCallSeq \in Nat
  /\ pc \in {"idle", "write", "header", "discard", "body"}
  /\ answered \in Nat
  /\ buf \in Seq(Items) /\ up \in Seq(Items) /\ down \in Seq(Items)
  /\ open \in BOOLEAN
  /\ results \in Seq([err : {"nil", "server", "other"}, from : Nat])
  /\ nextCallSeq = IF pc = "idle" THEN Len(results) ELSE Len(results) + 1

Pair(header, n) == <<header, Item("body", n)>>

\* The connection holds the request of the call under way, or its answer, or
\* what is left of that, and nothing else.  What is sent to a server that has
\* stopped does not count.
Aligned ==
  LET n == nextCallSeq
      ToServer(s) == open => up = s
  IN
    /\ buf = <<>>
    /\ pc \in {"idle", "write"} => ToServer(<<>>) /\ down = <<>>
    /\ pc = "header" =>
         \/ ToServer(Pair(Item("header", n), n)) /\ down = <<>>
         \/ ToServer(<<>>) /\ \E e \in BOOLEAN : down = Pair(Header(n, e), n)
    /\ pc \in {"discard", "body"} =>
         ToServer(<<>>) /\ down = <<Item("body", n)>> /\ answered = n

\* The inductive invariant.
SyncInv == TypeOK /\ (CleanUpTo(Len(results)) => Aligned) /\ OwnAnswer
=============================================================================
