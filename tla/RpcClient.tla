------------------------------ MODULE RpcClient ------------------------------
(***************************************************************************)
(* The client half of net/rpc (src/net/rpc/client.go): any number of user  *)
(* goroutines inside Go/Call, the input goroutine that reads responses,    *)
(* and goroutines that Close the client, over one connection.              *)
(*                                                                         *)
(* A sync.Mutex is a Boolean.  reqMutex is held across blocking calls, so  *)
(* taking and releasing it are steps of their own; mutex protects short    *)
(* sections that are one step each, except the loop in input that          *)
(* terminates the pending calls, which holds it from step to step.         *)
(*                                                                         *)
(* The codec and the peer are external: a request may or may not reach the *)
(* peer, WriteRequest may or may not fail, answers come back in any order  *)
(* and possibly more than once, and either side may drop the connection.   *)
(***************************************************************************)
EXTENDS Naturals, FiniteSets, Sequences

CONSTANTS
  Calls,      \* the *Call values; each is one invocation of Go
  NoCall,     \* the nil *Call
  Chans,      \* the Done channels
  ChanOf,     \* the Done channel each call is given
  Cap,        \* the capacity of each channel
  Careful,    \* channels whose users never have more than Cap calls out
  Closers,    \* goroutines that call Close
  WireMod,    \* the codec carries Seq modulo WireMod
  MaxDups     \* bound: how often the peer repeats an answer

ASSUME CallsAssumption == NoCall \notin Calls /\ IsFiniteSet(Calls)
ASSUME ChansAssumption ==
  /\ ChanOf \in [Calls -> Chans]
  /\ Cap \in [Chans -> Nat]
  /\ Careful \subseteq Chans
ASSUME WireAssumption == WireMod \in Nat \ {0} /\ MaxDups \in Nat

VARIABLES
  pc,         \* where the goroutine inside Go/send of each call is
  mySeq,      \* its local variable seq
  late,       \* history: calls made when the client was already down
  reqMutex,   \* Client.reqMutex: TRUE when locked
  request,    \* Client.request.Seq, protected by reqMutex
  mutex,      \* Client.mutex: TRUE when held across steps
  seq,        \* Client.seq
  pending,    \* Client.pending: a function from sequence numbers to calls
  closing,    \* Client.closing
  shutdown,   \* Client.shutdown
  callError,  \* Call.Error
  reply,      \* the call whose answer was stored in Call.Error/Call.Reply
  completed,  \* how often done() ran for the call
  chan,       \* contents of each Done channel
  received,   \* calls their user took from a Done channel
  inPc,       \* where the input goroutine is
  inHdr,      \* its variable response
  inCall,     \* its variable call
  inErr,      \* its variable err
  todo,       \* sequence numbers its last loop has not visited
  closePc,    \* where each goroutine inside Close is
  requests,   \* requests the peer has and can still answer
  dups,       \* repeated answers so far
  connClosed, \* codec.Close has been called
  peerClosed  \* the peer dropped the connection

userVars == <<pc, mySeq, late>>
lockVars == <<reqMutex, request, mutex>>
tableVars == <<seq, pending, closing, shutdown>>
callVars == <<callError, reply, completed, chan>>
inVars == <<inPc, inHdr, inCall, inErr, todo>>
wireVars == <<requests, dups, connClosed, peerClosed>>
vars == <<userVars, lockVars, tableVars, callVars, received, inVars, closePc, wireVars>>

Errors == {"nil", "ErrShutdown", "write", "server", "body", "unexpectedEOF", "read"}

\* A response header: the Seq it carries, the call it answers, whether Error # "".
NoHdr == [seq |-> 0, call |-> NoCall, failed |-> FALSE]

SendPcs == {"idle", "panic", "lock", "register", "write", "writing", "remove", "unlock", "returned"}
InPcs == {"header", "lookup", "discard", "errorBody", "body", "termLock", "termMutex", "terminate", "exited"}

Init ==
  /\ pc = [c \in Calls |-> "idle"]
  /\ mySeq = [c \in Calls |-> 0]
  /\ late = {}
  /\ reqMutex = FALSE
  /\ request = 0
  /\ mutex = FALSE
  /\ seq = 0
  /\ pending = [s \in {} |-> NoCall]
  /\ closing = FALSE
  /\ shutdown = FALSE
  /\ callError = [c \in Calls |-> "nil"]
  /\ reply = [c \in Calls |-> NoCall]
  /\ completed = [c \in Calls |-> 0]
  /\ chan = [h \in Chans |-> <<>>]
  /\ received = {}
  /\ inPc = "header"
  /\ inHdr = NoHdr
  /\ inCall = NoCall
  /\ inErr = "nil"
  /\ todo = {}
  /\ closePc = [k \in Closers |-> "idle"]
  /\ requests = {}
  /\ dups = 0
  /\ connClosed = FALSE
  /\ peerClosed = FALSE

-----------------------------------------------------------------------------
(* Helpers on the client's tables.                                         *)

Down == closing \/ shutdown

\* pending[s], nil when there is no entry
Lookup(s) == IF s \in DOMAIN pending THEN pending[s] ELSE NoCall

\* delete(client.pending, s)
Delete(s) == [t \in DOMAIN pending \ {s} |-> pending[t]]

\* client.pending[s] = c
Insert(s, c) == [t \in DOMAIN pending \cup {s} |-> IF t = s THEN c ELSE pending[t]]

\* call.done(): a send that never blocks; a full channel drops the call
Done(c) ==
  /\ completed' = [completed EXCEPT ![c] = @ + 1]
  /\ chan' = IF Len(chan[ChanOf[c]]) < Cap[ChanOf[c]]
               THEN [chan EXCEPT ![ChanOf[c]] = Append(@, c)]
               ELSE chan

\* Assign call.Error and call done().
Complete(c, err) ==
  /\ callError' = [callError EXCEPT ![c] = err]
  /\ Done(c)

-----------------------------------------------------------------------------
(* The user's goroutines: Go, send and receiving from a Done channel.      *)

Outstanding(h) == {c \in Calls : ChanOf[c] = h /\ pc[c] # "idle" /\ c \notin received}

\* Go up to the call of send; a careful user keeps the rule of Go's comment.
Go(c) ==
  /\ pc[c] = "idle"
  /\ Cap[ChanOf[c]] # 0
  /\ ChanOf[c] \in Careful => Cardinality(Outstanding(ChanOf[c])) < Cap[ChanOf[c]]
  /\ pc' = [pc EXCEPT ![c] = "lock"]
  /\ late' = IF Down THEN late \cup {c} ELSE late
  /\ UNCHANGED <<mySeq, lockVars, tableVars, callVars, received, inVars, closePc, wireVars>>

GoPanics(c) ==
  /\ pc[c] = "idle"
  /\ Cap[ChanOf[c]] = 0
  /\ pc' = [pc EXCEPT ![c] = "panic"]
  /\ UNCHANGED <<mySeq, late, lockVars, tableVars, callVars, received, inVars, closePc, wireVars>>

\* Mutant of SendLock: send without reqMutex.
SendLockFree(c) ==
  /\ pc[c] = "lock"
  /\ pc' = [pc EXCEPT ![c] = "register"]
  /\ UNCHANGED <<mySeq, late, lockVars, tableVars, callVars, received, inVars, closePc, wireVars>>

SendLock(c) ==
  /\ pc[c] = "lock"
  /\ ~reqMutex
  /\ reqMutex' = TRUE
  /\ pc' = [pc EXCEPT ![c] = "register"]
  /\ UNCHANGED <<mySeq, late, request, mutex, tableVars, callVars, received, inVars, closePc, wireVars>>

SendRefused(c) ==
  /\ pc[c] = "register"
  /\ ~mutex
  /\ Down
  /\ Complete(c, "ErrShutdown")
  /\ pc' = [pc EXCEPT ![c] = "unlock"]
  /\ UNCHANGED <<mySeq, late, lockVars, tableVars, reply, received, inVars, closePc, wireVars>>

\* Mutant of SendRegister: a closing client still accepts calls.
SendRegisterClosing(c) ==
  /\ pc[c] = "register"
  /\ ~mutex
  /\ ~shutdown
  /\ mySeq' = [mySeq EXCEPT ![c] = seq]
  /\ seq' = seq + 1
  /\ pending' = Insert(seq, c)
  /\ request' = seq
  /\ pc' = [pc EXCEPT ![c] = "write"]
  /\ UNCHANGED <<late, reqMutex, mutex, closing, shutdown, callVars, received, inVars, closePc, wireVars>>

SendRegister(c) ==
  /\ pc[c] = "register"
  /\ ~mutex
  /\ ~Down
  /\ mySeq' = [mySeq EXCEPT ![c] = seq]
  /\ seq' = seq + 1
  /\ pending' = Insert(seq, c)
  /\ request' = seq
  /\ pc' = [pc EXCEPT ![c] = "write"]
  /\ UNCHANGED <<late, reqMutex, mutex, closing, shutdown, callVars, received, inVars, closePc, wireVars>>

\* WriteRequest, first half: the request reaches the peer, or is lost.
SendWrite(c) ==
  /\ pc[c] = "write"
  /\ \/ requests' = requests \cup {[seq |-> request % WireMod, call |-> c]}
     \/ requests' = requests
  /\ pc' = [pc EXCEPT ![c] = "writing"]
  /\ UNCHANGED <<mySeq, late, lockVars, tableVars, callVars, received, inVars, closePc, dups, connClosed, peerClosed>>

\* WriteRequest returns: err == nil, or an error whatever reached the peer.
SendWritten(c) ==
  /\ pc[c] = "writing"
  /\ \E next \in {"unlock", "remove"} : pc' = [pc EXCEPT ![c] = next]
  /\ UNCHANGED <<mySeq, late, lockVars, tableVars, callVars, received, inVars, closePc, wireVars>>

\* Mutant of SendRemove: completes its call without looking whether input has it.
SendRemoveBlind(c) ==
  /\ pc[c] = "remove"
  /\ ~mutex
  /\ pending' = Delete(mySeq[c])
  /\ Complete(c, "write")
  /\ pc' = [pc EXCEPT ![c] = "unlock"]
  /\ UNCHANGED <<mySeq, late, lockVars, seq, closing, shutdown, reply, received, inVars, closePc, wireVars>>

\* After a failed WriteRequest: take the call back, unless input has it.
SendRemove(c) ==
  /\ pc[c] = "remove"
  /\ ~mutex
  /\ pending' = Delete(mySeq[c])
  /\ LET call == Lookup(mySeq[c]) IN
       IF call # NoCall THEN Complete(call, "write") /\ UNCHANGED reply
                        ELSE UNCHANGED callVars
  /\ pc' = [pc EXCEPT ![c] = "unlock"]
  /\ UNCHANGED <<mySeq, late, lockVars, seq, closing, shutdown, received, inVars, closePc, wireVars>>

\* Mutant of SendUnlock: the unlock is missing.
SendUnlockMissing(c) ==
  /\ pc[c] = "unlock"
  /\ pc' = [pc EXCEPT ![c] = "returned"]
  /\ UNCHANGED <<mySeq, late, lockVars, tableVars, callVars, received, inVars, closePc, wireVars>>

\* The deferred reqMutex.Unlock, and Go returns the *Call.
SendUnlock(c) ==
  /\ pc[c] = "unlock"
  /\ reqMutex' = FALSE
  /\ pc' = [pc EXCEPT ![c] = "returned"]
  /\ UNCHANGED <<mySeq, late, request, mutex, tableVars, callVars, received, inVars, closePc, wireVars>>

\* The user (or Call) receives a *Call from a Done channel.
Receive(h) ==
  /\ chan[h] # <<>>
  /\ received' = received \cup {Head(chan[h])}
  /\ chan' = [chan EXCEPT ![h] = Tail(@)]
  /\ UNCHANGED <<userVars, lockVars, tableVars, callError, reply, completed, inVars, closePc, wireVars>>

-----------------------------------------------------------------------------
(* The input goroutine.                                                    *)

\* ReadResponseHeader returns an answer to some request the peer has; the
\* peer can answer again when it keeps the request.
InputHeader ==
  /\ inPc = "header"
  /\ \E r \in requests, failed \in BOOLEAN :
       /\ inHdr' = [seq |-> r.seq, call |-> r.call, failed |-> failed]
       /\ \/ requests' = requests \ {r} /\ dups' = dups
          \/ dups < MaxDups /\ dups' = dups + 1 /\ requests' = requests
  /\ inPc' = "lookup"
  /\ UNCHANGED <<userVars, lockVars, tableVars, callVars, received, inCall, inErr, todo, closePc, connClosed, peerClosed>>

\* What a failing read returns: io.EOF needs a connection that ended.
ReadErrors == IF connClosed \/ peerClosed THEN {"EOF", "read"} ELSE {"read"}

InputHeaderFails ==
  /\ inPc = "header"
  /\ inErr' \in ReadErrors
  /\ inPc' = "termLock"
  /\ UNCHANGED <<userVars, lockVars, tableVars, callVars, received, inHdr, inCall, todo, closePc, wireVars>>

\* Mutant of InputLookup: the entry stays in pending.
InputLookupKeeps ==
  /\ inPc = "lookup"
  /\ ~mutex
  /\ inCall' = Lookup(inHdr.seq)
  /\ inPc' = IF inCall' = NoCall THEN "discard"
             ELSE IF inHdr.failed THEN "errorBody" ELSE "body"
  /\ UNCHANGED <<userVars, lockVars, tableVars, callVars, received, inHdr, inErr, todo, closePc, wireVars>>

InputLookup ==
  /\ inPc = "lookup"
  /\ ~mutex
  /\ inCall' = Lookup(inHdr.seq)
  /\ pending' = Delete(inHdr.seq)
  /\ inPc' = IF inCall' = NoCall THEN "discard"
             ELSE IF inHdr.failed THEN "errorBody" ELSE "body"
  /\ UNCHANGED <<userVars, lockVars, seq, closing, shutdown, callVars, received, inHdr, inErr, todo, closePc, wireVars>>

\* case call == nil; a read error is wrapped, so it is never io.EOF
InputDiscard ==
  /\ inPc = "discard"
  /\ inErr' \in {"nil", "read"}
  /\ inPc' = IF inErr' = "nil" THEN "header" ELSE "termLock"
  /\ UNCHANGED <<userVars, lockVars, tableVars, callVars, received, inHdr, inCall, todo, closePc, wireVars>>

\* case response.Error != ""
InputErrorBody ==
  /\ inPc = "errorBody"
  /\ Complete(inCall, "server")
  /\ reply' = [reply EXCEPT ![inCall] = inHdr.call]
  /\ inErr' \in {"nil", "read"}
  /\ inPc' = IF inErr' = "nil" THEN "header" ELSE "termLock"
  /\ inCall' = NoCall
  /\ UNCHANGED <<userVars, lockVars, tableVars, received, inHdr, todo, closePc, wireVars>>

\* Mutant of InputBody: an unreadable body does not end the loop.
InputBodyGoesOn ==
  /\ inPc = "body"
  /\ inErr' \in {"nil"} \cup ReadErrors
  /\ Complete(inCall, IF inErr' = "nil" THEN "nil" ELSE "body")
  /\ reply' = [reply EXCEPT ![inCall] = inHdr.call]
  /\ inPc' = "header"
  /\ inCall' = NoCall
  /\ UNCHANGED <<userVars, lockVars, tableVars, received, inHdr, todo, closePc, wireVars>>

\* default: decode the body into call.Reply
InputBody ==
  /\ inPc = "body"
  /\ inErr' \in {"nil"} \cup ReadErrors
  /\ Complete(inCall, IF inErr' = "nil" THEN "nil" ELSE "body")
  /\ reply' = [reply EXCEPT ![inCall] = inHdr.call]
  /\ inPc' = IF inErr' = "nil" THEN "header" ELSE "termLock"
  /\ inCall' = NoCall
  /\ UNCHANGED <<userVars, lockVars, tableVars, received, inHdr, todo, closePc, wireVars>>

\* Mutant of InputTermLock: the pending calls are terminated without reqMutex.
InputTermLockFree ==
  /\ inPc = "termLock"
  /\ inPc' = "termMutex"
  /\ UNCHANGED <<userVars, lockVars, tableVars, callVars, received, inHdr, inCall, inErr, todo, closePc, wireVars>>

InputTermLock ==
  /\ inPc = "termLock"
  /\ ~reqMutex
  /\ reqMutex' = TRUE
  /\ inPc' = "termMutex"
  /\ UNCHANGED <<userVars, request, mutex, tableVars, callVars, received, inHdr, inCall, inErr, todo, closePc, wireVars>>

\* Mutant of InputTermMutex: shutdown is not set.
InputTermMutexStaysUp ==
  /\ inPc = "termMutex"
  /\ ~mutex
  /\ mutex' = TRUE
  /\ inErr' = IF inErr # "EOF" THEN inErr
              ELSE IF closing THEN "ErrShutdown" ELSE "unexpectedEOF"
  /\ todo' = DOMAIN pending
  /\ inPc' = "terminate"
  /\ UNCHANGED <<userVars, reqMutex, request, tableVars, callVars, received, inHdr, inCall, closePc, wireVars>>

\* mutex.Lock, shutdown = true, and the error the pending calls will get
InputTermMutex ==
  /\ inPc = "termMutex"
  /\ ~mutex
  /\ mutex' = TRUE
  /\ shutdown' = TRUE
  /\ inErr' = IF inErr # "EOF" THEN inErr
              ELSE IF closing THEN "ErrShutdown" ELSE "unexpectedEOF"
  /\ todo' = DOMAIN pending
  /\ inPc' = "terminate"
  /\ UNCHANGED <<userVars, reqMutex, request, seq, pending, closing, callVars, received, inHdr, inCall, closePc, wireVars>>

\* one turn of the loop over client.pending; the entries stay in the map
InputTerminate ==
  /\ inPc = "terminate"
  /\ \E s \in todo :
       /\ Complete(pending[s], inErr)
       /\ todo' = todo \ {s}
  /\ UNCHANGED <<userVars, lockVars, tableVars, reply, received, inPc, inHdr, inCall, inErr, closePc, wireVars>>

InputExit ==
  /\ inPc = "terminate"
  /\ todo = {}
  /\ mutex' = FALSE
  /\ reqMutex' = FALSE
  /\ inPc' = "exited"
  /\ UNCHANGED <<userVars, request, tableVars, callVars, received, inHdr, inCall, inErr, todo, closePc, wireVars>>

-----------------------------------------------------------------------------
(* Close, and the connection.                                              *)

CloseBegin(k) ==
  /\ closePc[k] = "idle"
  /\ ~mutex
  /\ closePc' = [closePc EXCEPT ![k] = IF closing THEN "ErrShutdown" ELSE "codec"]
  /\ closing' = TRUE
  /\ UNCHANGED <<userVars, lockVars, seq, pending, shutdown, callVars, received, inVars, wireVars>>

CloseCodec(k) ==
  /\ closePc[k] = "codec"
  /\ connClosed' = TRUE
  /\ closePc' = [closePc EXCEPT ![k] = "closed"]
  /\ UNCHANGED <<userVars, lockVars, tableVars, callVars, received, inVars, requests, dups, peerClosed>>

PeerClose ==
  /\ ~peerClosed
  /\ peerClosed' = TRUE
  /\ UNCHANGED <<userVars, lockVars, tableVars, callVars, received, inVars, closePc, requests, dups, connClosed>>

\* The only state in which nothing is left to run.
Quiescent ==
  /\ inPc = "exited"
  /\ \A c \in Calls : pc[c] \in {"panic", "returned"}
  /\ \A k \in Closers : closePc[k] \in {"closed", "ErrShutdown"}
  /\ UNCHANGED vars

Send(c) ==
  \/ Go(c) \/ GoPanics(c) \/ SendLock(c) \/ SendRefused(c) \/ SendRegister(c)
  \/ SendWrite(c) \/ SendWritten(c) \/ SendRemove(c) \/ SendUnlock(c)

Input ==
  \/ InputHeader \/ InputHeaderFails \/ InputLookup \/ InputDiscard \/ InputErrorBody
  \/ InputBody \/ InputTermLock \/ InputTermMutex \/ InputTerminate \/ InputExit

Next ==
  \/ \E c \in Calls : Send(c)
  \/ \E h \in Chans : Receive(h)
  \/ Input
  \/ \E k \in Closers : CloseBegin(k) \/ CloseCodec(k)
  \/ PeerClose
  \/ Quiescent

Spec == Init /\ [][Next]_vars

-----------------------------------------------------------------------------
(* Fairness.  A goroutine that can run does run, and a goroutine waiting   *)
(* for a sync.Mutex gets it if it is released again and again (Mutex has a *)
(* starvation mode), hence SF for reqMutex.  Nothing obliges the peer to   *)
(* answer or to drain what is written to it: reads and writes are only     *)
(* certain to return once the connection is closed on this side.           *)

LockFairness ==
  /\ \A c \in Calls :
       /\ SF_vars(SendLock(c))
       /\ WF_vars(SendRefused(c) \/ SendRegister(c))
       /\ WF_vars(SendRemove(c))
       /\ WF_vars(SendUnlock(c))
  /\ SF_vars(InputTermLock)
  /\ WF_vars(InputLookup)
  /\ WF_vars(InputTermMutex \/ InputTerminate \/ InputExit)
  /\ \A k \in Closers : WF_vars(CloseCodec(k))

WriteReturns(c) == SendWrite(c) \/ SendWritten(c)
ReadReturns == InputHeaderFails \/ InputDiscard \/ InputErrorBody \/ InputBody

ClosedFairness ==
  /\ \A c \in Calls : WF_vars(connClosed /\ WriteReturns(c))
  /\ WF_vars(connClosed /\ ReadReturns)

\* Writes always return, and reads return once either side has closed.
DrainedFairness ==
  /\ \A c \in Calls : WF_vars(WriteReturns(c))
  /\ WF_vars((connClosed \/ peerClosed) /\ ReadReturns)

FairSpec == Spec /\ LockFairness /\ ClosedFairness

-----------------------------------------------------------------------------
(* Properties.                                                             *)

Issued(c) == pc[c] \notin {"idle", "panic"}
IsDone(c) == completed[c] > 0

\* The type invariant of the client.
TypeOK ==
  /\ pc \in [Calls -> SendPcs]
  /\ mySeq \in [Calls -> Nat]
  /\ late \subseteq Calls
  /\ reqMutex \in BOOLEAN
  /\ request \in Nat
  /\ mutex \in BOOLEAN
  /\ seq \in Nat
  /\ DOMAIN pending \subseteq Nat
  /\ pending \in [DOMAIN pending -> Calls]
  /\ closing \in BOOLEAN
  /\ shutdown \in BOOLEAN
  /\ callError \in [Calls -> Errors]
  /\ reply \in [Calls -> Calls \cup {NoCall}]
  /\ completed \in [Calls -> Nat]
  /\ chan \in [Chans -> Seq(Calls)]
  /\ received \subseteq Calls
  /\ inPc \in InPcs
  /\ inHdr \in [seq : Nat, call : Calls \cup {NoCall}, failed : BOOLEAN]
  /\ inCall \in Calls \cup {NoCall}
  /\ inErr \in Errors \cup {"EOF"}
  /\ todo \subseteq DOMAIN pending
  /\ closePc \in [Closers -> {"idle", "codec", "closed", "ErrShutdown"}]
  /\ requests \subseteq [seq : Nat, call : Calls]
  /\ dups \in Nat
  /\ connClosed \in BOOLEAN
  /\ peerClosed \in BOOLEAN

\* done() runs at most once for a call, although send's error path, the
\* answer and input's final loop may all be after the same call (send/input).
AtMostOnce == \A c \in Calls : completed[c] <= 1

\* No call is forgotten: once Go has returned, the call has completed, or is
\* pending, or input holds it; once input has exited, it has completed.
NoneForgotten ==
  \A c \in Calls :
    pc[c] = "returned" =>
      \/ IsDone(c)
      \/ /\ inPc # "exited"
         /\ inCall = c \/ \E s \in DOMAIN pending : pending[s] = c

\* The answer stored in a call is the answer to that very call: no crossed
\* replies between goroutines sharing the client, nor from repeated answers.
OwnReply == \A c \in Calls : reply[c] \in {NoCall, c}

\* OwnReply as long as the codec's sequence numbers have not wrapped around.
OwnReplyBeforeWrap == seq <= WireMod => OwnReply

\* If the user of a channel keeps Go's rule (enough buffer for the calls that
\* are out), no completion is dropped by done().
NoCompletionDropped ==
  \A c \in Calls :
    (ChanOf[c] \in Careful /\ IsDone(c)) =>
      c \in received \/ \E i \in 1..Len(chan[ChanOf[c]]) : chan[ChanOf[c]][i] = c

\* A completed call is never touched again: its Error and Reply, which the
\* user reads without a lock after receiving it, stay what they were.
OutcomeStable ==
  [][\A c \in Calls : IsDone(c) => callError'[c] = callError[c] /\ reply'[c] = reply[c]]_vars

\* A call made when the client is already closing or shut down is never sent.
LateNeverSent == \A r \in requests : r.call \notin late

\* After Close has closed the codec, every call that was issued completes,
\* even if the peer neither answers nor reads.
ClosedCompletes == \A c \in Calls : (connClosed /\ Issued(c)) ~> IsDone(c)

\* Whenever the connection ends, by either side or by an unreadable answer,
\* every call that was issued completes, provided writes do return and reads
\* return once either side has closed (input's last loop).
EndedCompletes ==
  DrainedFairness =>
    \A c \in Calls : ((connClosed \/ peerClosed \/ inErr # "nil") /\ Issued(c)) ~> IsDone(c)

-----------------------------------------------------------------------------
(* The client implements RpcCalls.                                         *)

phaseBar ==
  [c \in Calls |-> IF IsDone(c) THEN "done"
                   ELSE IF ~Issued(c) THEN "new"
                   ELSE IF c \in late THEN "late" ELSE "issued"]

outcomeBar ==
  [c \in Calls |-> IF ~IsDone(c) THEN "none"
                   ELSE IF callError[c] = "ErrShutdown" THEN "refused"
                   ELSE IF callError[c] \in {"nil", "server"}
                        THEN IF reply[c] = c THEN "answered" ELSE "crossed"
                   ELSE "failed"]

Abstract == INSTANCE RpcCalls WITH phase <- phaseBar, outcome <- outcomeBar, up <- ~Down

\* Every behaviour of the client is one RpcCalls allows.
ImplementsCalls == Abstract!CallsSpec

-----------------------------------------------------------------------------
(* Why the invariants hold: every call has one owner.  It belongs to its   *)
(* goroutine until it is registered, then to the entry of pending with its *)
(* own sequence number, then to whoever takes it out (send's error path or *)
(* input) or, during the last loop, to todo; the owner completes it.       *)

InSend(c) == pc[c] \in {"register", "write", "writing", "remove", "unlock"}
Unregistered(c) == pc[c] \in {"idle", "panic", "lock", "register"}
Entry(c) == mySeq[c] \in DOMAIN pending /\ pending[mySeq[c]] = c

\* reqMutex has one holder; mutex is held across steps by the last loop only.
LockInv ==
  /\ mutex <=> inPc = "terminate"
  /\ \A c \in Calls : InSend(c) => reqMutex
  /\ \A c, d \in Calls : InSend(c) /\ InSend(d) => c = d
  /\ inPc \in {"termMutex", "terminate"} => reqMutex /\ \A c \in Calls : ~InSend(c)

\* The local variables of input.
InputInv ==
  /\ inPc # "terminate" => todo = {}
  /\ inPc \in {"errorBody", "body"} <=> inCall # NoCall
  /\ inPc \in {"termLock", "termMutex"} => inErr \in {"EOF", "read"}
  /\ inPc = "terminate" => inErr \in {"read", "ErrShutdown", "unexpectedEOF"}
  /\ inPc \in {"terminate", "exited"} => shutdown
  /\ inPc \in {"terminate", "exited"} =>
       \A c \in Calls : pc[c] \notin {"write", "writing", "remove"}

\* A call that is not registered yet has not completed.
FreshInv == \A c \in Calls : Unregistered(c) => completed[c] = 0

\* An entry of pending is under its call's own number, given out already.
EntryInv ==
  \A s \in DOMAIN pending : s = mySeq[pending[s]] /\ s < seq /\ ~Unregistered(pending[s])

\* Entries have not completed, except those the last loop has visited.
TallyInv ==
  \A s \in DOMAIN pending :
    completed[pending[s]] = IF inPc \in {"terminate", "exited"} /\ s \notin todo THEN 1 ELSE 0

\* The call input holds has not completed and is no longer an entry.
HeldInv == inCall # NoCall => completed[inCall] = 0 /\ ~Unregistered(inCall) /\ ~Entry(inCall)

\* No registered call is without an owner.
OwnedInv == \A c \in Calls : Unregistered(c) \/ IsDone(c) \/ inCall = c \/ Entry(c)

\* Who owns a call that has not completed, and that no one else does.
OwnerInv == AtMostOnce /\ FreshInv /\ EntryInv /\ TallyInv /\ HeldInv /\ OwnedInv

\* A request or answer under way that has the number of a pending call is a
\* request or answer of that call.
WireFacts ==
  /\ \A c \in Calls : pc[c] \in {"write", "writing", "remove"} =>
       /\ mySeq[c] < seq
       /\ mySeq[c] \in DOMAIN pending => pending[mySeq[c]] = c
       /\ request = mySeq[c]
  /\ \A r \in requests : r.seq < seq /\ (r.seq \in DOMAIN pending => pending[r.seq] = r.call)
  /\ inPc = "lookup" =>
       inHdr.seq < seq /\ (inHdr.seq \in DOMAIN pending => pending[inHdr.seq] = inHdr.call)
  /\ inCall # NoCall => inHdr.call = inCall
  /\ OwnReply

\* That is so until the numbers on the wire wrap around.
WireInv == seq <= WireMod => WireFacts

\* Numbers are given to registered calls, one each.
SeqInv == seq <= Cardinality({c \in Calls : ~Unregistered(c)})

\* A call made when the client was down is refused: it is not registered, so
\* that once it is past the test of closing and shutdown it has completed.
LateInv ==
  /\ \A c \in late : Down /\ (pc[c] \in {"lock", "register"} \/
                               (pc[c] \in {"unlock", "returned"} /\ IsDone(c)))
  /\ \A r \in requests : ~Unregistered(r.call) /\ r.call \notin late

\* Completed, but not yet taken from its Done channel.
Queued(h) == {c \in Calls : ChanOf[c] = h /\ IsDone(c) /\ c \notin received}

\* A channel holds calls that are queued on it, each once.  One whose users
\* keep Go's rule holds them all: there is room for one more as long as a call
\* is out that has not completed.
ChanInv ==
  /\ \A c \in received : IsDone(c)
  /\ \A c \in Calls : Issued(c) => Cap[ChanOf[c]] # 0
  /\ \A h \in Chans : \A i \in 1..Len(chan[h]) :
       chan[h][i] \in Queued(h) /\ \A j \in 1..Len(chan[h]) : chan[h][i] = chan[h][j] => i = j
  /\ \A h \in Careful :
       /\ Cap[h] # 0 => Cardinality(Outstanding(h)) <= Cap[h]
       /\ Cardinality(Queued(h)) = Len(chan[h])
       /\ \A c \in Queued(h) : \E i \in 1..Len(chan[h]) : chan[h][i] = c

\* The inductive invariant of the client.
ClientInv ==
  TypeOK /\ LockInv /\ InputInv /\ OwnerInv /\ WireInv /\ SeqInv /\ LateInv /\ ChanInv
=============================================================================
