--------------------------- MODULE RpcClientProofs ---------------------------
(***************************************************************************)
(* Proofs about RpcClient, for any calls, channels, closers and wire       *)
(* format: ClientInv is inductive, hence its consequences hold.            *)
(***************************************************************************)
EXTENDS RpcClient, FiniteSetTheorems, TLAPS

-----------------------------------------------------------------------------
(* The helpers.                                                            *)

\* Done(c) increments the counter of c alone and at most appends to its channel.
LEMMA DoneEffect ==
  ASSUME TypeOK, NEW c \in Calls, Done(c)
  PROVE  /\ completed' \in [Calls -> Nat]
         /\ completed'[c] = completed[c] + 1
         /\ \A d \in Calls : d # c => completed'[d] = completed[d]
         /\ chan' \in [Chans -> Seq(Calls)]
<1>1. completed \in [Calls -> Nat] /\ chan \in [Chans -> Seq(Calls)]
  BY DEF TypeOK
<1>2. ChanOf[c] \in Chans
  BY ChansAssumption
<1>3. Append(chan[ChanOf[c]], c) \in Seq(Calls)
  BY <1>1, <1>2
<1> QED
  BY <1>1, <1>2, <1>3 DEF Done

\* Complete(c, err) touches the error, counter and channel of c alone.
LEMMA CompleteEffect ==
  ASSUME TypeOK, NEW c \in Calls, NEW err \in Errors, Complete(c, err)
  PROVE  /\ callError' \in [Calls -> Errors]
         /\ \A d \in Calls : d # c => callError'[d] = callError[d]
         /\ completed' \in [Calls -> Nat]
         /\ completed'[c] = completed[c] + 1
         /\ \A d \in Calls : d # c => completed'[d] = completed[d]
         /\ chan' \in [Chans -> Seq(Calls)]
<1>1. callError \in [Calls -> Errors]
  BY DEF TypeOK
<1>2. /\ callError' = [callError EXCEPT ![c] = err]
      /\ Done(c)
  BY DEF Complete
<1> QED
  BY <1>1, <1>2, DoneEffect

\* Deleting an entry of pending.
LEMMA DeleteEffect ==
  ASSUME TypeOK, NEW s \in Nat
  PROVE  /\ DOMAIN Delete(s) = DOMAIN pending \ {s}
         /\ \A t \in DOMAIN pending \ {s} : Delete(s)[t] = pending[t]
         /\ Delete(s) \in [DOMAIN Delete(s) -> Calls]
         /\ DOMAIN Delete(s) \subseteq Nat
  BY DEF TypeOK, Delete

\* Adding an entry to pending.
LEMMA InsertEffect ==
  ASSUME TypeOK, NEW s \in Nat, NEW c \in Calls
  PROVE  /\ DOMAIN Insert(s, c) = DOMAIN pending \cup {s}
         /\ Insert(s, c)[s] = c
         /\ \A t \in DOMAIN pending \ {s} : Insert(s, c)[t] = pending[t]
         /\ Insert(s, c) \in [DOMAIN Insert(s, c) -> Calls]
         /\ DOMAIN Insert(s, c) \subseteq Nat
  BY DEF TypeOK, Insert

\* What looking a number up yields.
LEMMA LookupEffect ==
  ASSUME TypeOK, NEW s \in Nat
  PROVE  /\ Lookup(s) \in Calls \cup {NoCall}
         /\ Lookup(s) # NoCall <=> s \in DOMAIN pending
         /\ s \in DOMAIN pending => Lookup(s) = pending[s]
  BY CallsAssumption DEF TypeOK, Lookup

-----------------------------------------------------------------------------
(* Type correctness.                                                       *)

\* The initial state is well typed.
LEMMA TypeInit == Init => TypeOK
<1> SUFFICES ASSUME Init PROVE TypeOK
  OBVIOUS
<1>1. DOMAIN pending = {} /\ pending \in [DOMAIN pending -> Calls]
  BY DEF Init
<1>2. chan \in [Chans -> Seq(Calls)]
  <2>1. <<>> \in Seq(Calls)
    OBVIOUS
  <2> QED
    BY <2>1 DEF Init
<1>3. inHdr \in [seq : Nat, call : Calls \cup {NoCall}, failed : BOOLEAN]
  BY DEF Init, NoHdr
<1> QED
  BY <1>1, <1>2, <1>3 DEF Init, TypeOK, SendPcs, InPcs, Errors

\* The steps of a goroutine inside Go and send keep the types.
LEMMA TypeSend ==
  ASSUME TypeOK, LockInv, InputInv, NEW c \in Calls, Send(c)
  PROVE  TypeOK'
<1> USE DEF userVars, lockVars, tableVars, callVars, inVars, wireVars
<1>a. TypeOK /\ seq \in Nat /\ mySeq[c] \in Nat /\ request \in Nat
  BY DEF TypeOK
<1>1. CASE Go(c)
  BY <1>1, SMTT(30) DEF Go, TypeOK, SendPcs
<1>2. CASE GoPanics(c)
  BY <1>2 DEF GoPanics, TypeOK, SendPcs
<1>3. CASE SendLock(c)
  BY <1>3, SMTT(30) DEF SendLock, TypeOK, SendPcs
<1>4. CASE SendRefused(c)
  <2>1. "ErrShutdown" \in Errors
    BY DEF Errors
  <2>2. Complete(c, "ErrShutdown")
    BY <1>4 DEF SendRefused
  <2>3. /\ callError' \in [Calls -> Errors]
        /\ completed' \in [Calls -> Nat]
        /\ chan' \in [Chans -> Seq(Calls)]
    BY <2>1, <2>2, CompleteEffect
  <2> QED
    BY <1>4, <2>3 DEF SendRefused, TypeOK, SendPcs
<1>5. CASE SendRegister(c)
  <2>1. pending' = Insert(seq, c) /\ todo = {} /\ todo' = todo
    BY <1>5 DEF SendRegister, LockInv, InputInv
  <2>2. pending' \in [DOMAIN pending' -> Calls] /\ DOMAIN pending' \subseteq Nat
    BY <1>a, <2>1, InsertEffect
  <2> QED
    BY <1>5, <1>a, <2>1, <2>2, SMTT(30) DEF SendRegister, TypeOK, SendPcs
<1>6. CASE SendWrite(c)
  <2>1. request % WireMod \in Nat
    BY <1>a, WireAssumption
  <2> QED
    BY <1>6, <2>1 DEF SendWrite, TypeOK, SendPcs
<1>7. CASE SendWritten(c)
  BY <1>7 DEF SendWritten, TypeOK, SendPcs
<1>8. CASE SendRemove(c)
  <2>1. pending' = Delete(mySeq[c]) /\ todo = {} /\ todo' = todo
    BY <1>8 DEF SendRemove, LockInv, InputInv
  <2>2. pending' \in [DOMAIN pending' -> Calls] /\ DOMAIN pending' \subseteq Nat
    BY <1>a, <2>1, DeleteEffect
  <2>3. /\ callError' \in [Calls -> Errors]
        /\ completed' \in [Calls -> Nat]
        /\ chan' \in [Chans -> Seq(Calls)]
        /\ reply' = reply
    <3>1. CASE Lookup(mySeq[c]) = NoCall
      BY <1>8, <3>1 DEF SendRemove, TypeOK
    <3>2. CASE Lookup(mySeq[c]) # NoCall
      <4>1. Lookup(mySeq[c]) \in Calls
        BY <1>a, <3>2, LookupEffect
      <4>2. Complete(Lookup(mySeq[c]), "write") /\ reply' = reply
        BY <1>8, <3>2 DEF SendRemove
      <4>3. "write" \in Errors
        BY DEF Errors
      <4> QED
        BY <4>1, <4>2, <4>3, CompleteEffect
    <3> QED
      BY <3>1, <3>2
  <2> QED
    BY <1>8, <2>1, <2>2, <2>3 DEF SendRemove, TypeOK, SendPcs
<1>9. CASE SendUnlock(c)
  BY <1>9 DEF SendUnlock, TypeOK, SendPcs
<1> QED
  BY <1>1, <1>2, <1>3, <1>4, <1>5, <1>6, <1>7, <1>8, <1>9 DEF Send

\* The steps of the input goroutine keep the types.
LEMMA TypeInput ==
  ASSUME TypeOK, LockInv, InputInv, Input
  PROVE  TypeOK'
<1> USE DEF userVars, lockVars, tableVars, callVars, inVars, wireVars
<1>a. inHdr.seq \in Nat /\ inHdr.call \in Calls \cup {NoCall}
  BY DEF TypeOK
<1>1. CASE InputHeader
  <2>1. PICK r \in requests, failed \in BOOLEAN :
          /\ inHdr' = [seq |-> r.seq, call |-> r.call, failed |-> failed]
          /\ \/ requests' = requests \ {r} /\ dups' = dups
             \/ dups < MaxDups /\ dups' = dups + 1 /\ requests' = requests
    BY <1>1 DEF InputHeader
  <2>2. r.seq \in Nat /\ r.call \in Calls
    BY DEF TypeOK
  <2>3. inHdr' \in [seq : Nat, call : Calls \cup {NoCall}, failed : BOOLEAN]
    BY <2>1, <2>2
  <2>4. requests' \subseteq [seq : Nat, call : Calls] /\ dups' \in Nat
    BY <2>1 DEF TypeOK
  <2> QED
    BY <1>1, <2>3, <2>4 DEF InputHeader, TypeOK, InPcs
<1>2. CASE InputHeaderFails
  BY <1>2 DEF InputHeaderFails, ReadErrors, TypeOK, InPcs, Errors
<1>3. CASE InputLookup
  <2>1. /\ pending' = Delete(inHdr.seq)
        /\ inCall' = Lookup(inHdr.seq)
        /\ todo = {} /\ todo' = todo
    BY <1>3 DEF InputLookup, InputInv
  <2>2. pending' \in [DOMAIN pending' -> Calls] /\ DOMAIN pending' \subseteq Nat
    BY <1>a, <2>1, DeleteEffect
  <2>3. inCall' \in Calls \cup {NoCall}
    BY <1>a, <2>1, LookupEffect
  <2> QED
    BY <1>3, <2>1, <2>2, <2>3 DEF InputLookup, TypeOK, InPcs
<1>4. CASE InputDiscard
  BY <1>4 DEF InputDiscard, TypeOK, InPcs, Errors
<1>5. CASE InputErrorBody
  <2>1. inCall \in Calls /\ "server" \in Errors
    BY <1>5 DEF InputErrorBody, InputInv, TypeOK, Errors
  <2>2. Complete(inCall, "server")
    BY <1>5 DEF InputErrorBody
  <2>3. /\ callError' \in [Calls -> Errors]
        /\ completed' \in [Calls -> Nat]
        /\ chan' \in [Chans -> Seq(Calls)]
    BY <2>1, <2>2, CompleteEffect
  <2>4. inErr' \in Errors \cup {"EOF"}
    BY <1>5 DEF InputErrorBody, Errors
  <2> QED
    BY <1>5, <1>a, <2>3, <2>4 DEF InputErrorBody, TypeOK, InPcs
<1>6. CASE InputBody
  <2>1. inCall \in Calls
    BY <1>6 DEF InputBody, InputInv, TypeOK
  <2>2. /\ Complete(inCall, IF inErr' = "nil" THEN "nil" ELSE "body")
        /\ (IF inErr' = "nil" THEN "nil" ELSE "body") \in Errors
    BY <1>6 DEF InputBody, Errors
  <2>3. /\ callError' \in [Calls -> Errors]
        /\ completed' \in [Calls -> Nat]
        /\ chan' \in [Chans -> Seq(Calls)]
    BY <2>1, <2>2, CompleteEffect
  <2>4. inErr' \in Errors \cup {"EOF"}
    BY <1>6 DEF InputBody, ReadErrors, Errors
  <2> QED
    BY <1>6, <1>a, <2>3, <2>4 DEF InputBody, TypeOK, InPcs
<1>7. CASE InputTermLock
  BY <1>7 DEF InputTermLock, TypeOK, InPcs
<1>8. CASE InputTermMutex
  BY <1>8 DEF InputTermMutex, TypeOK, InPcs, Errors
<1>9. CASE InputTerminate
  <2>1. PICK s \in todo : Complete(pending[s], inErr) /\ todo' = todo \ {s}
    BY <1>9 DEF InputTerminate
  <2>2. pending[s] \in Calls /\ inErr \in Errors
    BY <1>9 DEF InputTerminate, TypeOK, InputInv
  <2>3. /\ callError' \in [Calls -> Errors]
        /\ completed' \in [Calls -> Nat]
        /\ chan' \in [Chans -> Seq(Calls)]
    BY <2>1, <2>2, CompleteEffect
  <2> QED
    BY <1>9, <2>1, <2>3 DEF InputTerminate, TypeOK
<1>10. CASE InputExit
  BY <1>10 DEF InputExit, TypeOK, InPcs
<1> QED
  BY <1>1, <1>2, <1>3, <1>4, <1>5, <1>6, <1>7, <1>8, <1>9, <1>10 DEF Input

\* Every step keeps the types.
LEMMA TypeStep ==
  ASSUME TypeOK, LockInv, InputInv, [Next]_vars
  PROVE  TypeOK'
<1> USE DEF userVars, lockVars, tableVars, callVars, inVars, wireVars
<1>1. ASSUME NEW c \in Calls, Send(c) PROVE TypeOK'
  BY <1>1, TypeSend
<1>2. ASSUME NEW h \in Chans, Receive(h) PROVE TypeOK'
  <2>1. chan[h] \in Seq(Calls) /\ chan[h] # <<>>
    BY <1>2 DEF Receive, TypeOK
  <2>2. Head(chan[h]) \in Calls /\ Tail(chan[h]) \in Seq(Calls)
    BY <2>1
  <2> QED
    BY <1>2, <2>2 DEF Receive, TypeOK
<1>3. CASE Input
  BY <1>3, TypeInput
<1>4. ASSUME NEW k \in Closers, CloseBegin(k) PROVE TypeOK'
  BY <1>4 DEF CloseBegin, TypeOK
<1>5. ASSUME NEW k \in Closers, CloseCodec(k) PROVE TypeOK'
  BY <1>5, SMTT(30) DEF CloseCodec, TypeOK
<1>6. CASE PeerClose
  BY <1>6 DEF PeerClose, TypeOK
<1>7. CASE UNCHANGED vars
  BY <1>7 DEF vars, TypeOK
<1> QED
  BY <1>1, <1>2, <1>3, <1>4, <1>5, <1>6, <1>7 DEF Next, Quiescent

-----------------------------------------------------------------------------
(* The locks and the local variables of input.                             *)

\* Every step keeps the lock discipline.
LEMMA LockInvStep ==
  ASSUME TypeOK, LockInv, [Next]_vars
  PROVE  LockInv'
<1> USE DEF userVars, lockVars, tableVars, callVars, inVars, wireVars
<1>1. ASSUME NEW c \in Calls, Send(c) PROVE LockInv'
  <2>1. CASE Go(c)
    BY <2>1, <1>1 DEF Go, LockInv, InSend, TypeOK
  <2>2. CASE GoPanics(c)
    BY <2>2, <1>1 DEF GoPanics, LockInv, InSend, TypeOK
  <2>3. CASE SendLock(c)
    BY <2>3, <1>1 DEF SendLock, LockInv, InSend, TypeOK
  <2>4. CASE SendRefused(c)
    BY <2>4, <1>1 DEF SendRefused, LockInv, InSend, TypeOK
  <2>5. CASE SendRegister(c)
    BY <2>5, <1>1 DEF SendRegister, LockInv, InSend, TypeOK
  <2>6. CASE SendWrite(c)
    BY <2>6, <1>1 DEF SendWrite, LockInv, InSend, TypeOK
  <2>7. CASE SendWritten(c)
    BY <2>7, <1>1 DEF SendWritten, LockInv, InSend, TypeOK
  <2>8. CASE SendRemove(c)
    BY <2>8, <1>1 DEF SendRemove, LockInv, InSend, TypeOK
  <2>9. CASE SendUnlock(c)
    BY <2>9, <1>1 DEF SendUnlock, LockInv, InSend, TypeOK
  <2> QED
    BY <1>1, <2>1, <2>2, <2>3, <2>4, <2>5, <2>6, <2>7, <2>8, <2>9 DEF Send
<1>2. ASSUME NEW h \in Chans, Receive(h) PROVE LockInv'
  BY <1>2 DEF Receive, LockInv, InSend, TypeOK
<1>3. ASSUME Input PROVE LockInv'
  <2>1. CASE InputHeader
    BY <2>1 DEF InputHeader, LockInv, InSend, TypeOK
  <2>2. CASE InputHeaderFails
    BY <2>2 DEF InputHeaderFails, LockInv, InSend, TypeOK
  <2>3. CASE InputLookup
    BY <2>3 DEF InputLookup, LockInv, InSend, TypeOK
  <2>4. CASE InputDiscard
    BY <2>4 DEF InputDiscard, LockInv, InSend, TypeOK
  <2>5. CASE InputErrorBody
    BY <2>5 DEF InputErrorBody, LockInv, InSend, TypeOK
  <2>6. CASE InputBody
    BY <2>6 DEF InputBody, LockInv, InSend, TypeOK
  <2>7. CASE InputTermLock
    BY <2>7 DEF InputTermLock, LockInv, InSend, TypeOK
  <2>8. CASE InputTermMutex
    BY <2>8 DEF InputTermMutex, LockInv, InSend, TypeOK
  <2>9. CASE InputTerminate
    BY <2>9 DEF InputTerminate, LockInv, InSend, TypeOK
  <2>10. CASE InputExit
    BY <2>10 DEF InputExit, LockInv, InSend, TypeOK
  <2> QED
    BY <1>3, <2>1, <2>2, <2>3, <2>4, <2>5, <2>6, <2>7, <2>8, <2>9, <2>10 DEF Input
<1>4. ASSUME NEW k \in Closers, CloseBegin(k) PROVE LockInv'
  BY <1>4 DEF CloseBegin, LockInv, InSend, TypeOK
<1>5. ASSUME NEW k \in Closers, CloseCodec(k) PROVE LockInv'
  BY <1>5 DEF CloseCodec, LockInv, InSend, TypeOK
<1>6. CASE PeerClose
  BY <1>6 DEF PeerClose, LockInv, InSend, TypeOK
<1>7. CASE UNCHANGED vars
  BY <1>7 DEF vars, LockInv, InSend, TypeOK
<1> QED
  BY <1>1, <1>2, <1>3, <1>4, <1>5, <1>6, <1>7 DEF Next, Quiescent

\* Every step keeps what input's variables say.
LEMMA InputInvStep ==
  ASSUME TypeOK, LockInv, InputInv, [Next]_vars
  PROVE  InputInv'
<1> USE DEF userVars, lockVars, tableVars, callVars, inVars, wireVars
<1>1. ASSUME NEW c \in Calls, Send(c) PROVE InputInv'
  <2>1. CASE Go(c)
    BY <2>1, <1>1 DEF Go, InputInv, LockInv, InSend, TypeOK
  <2>2. CASE GoPanics(c)
    BY <2>2, <1>1 DEF GoPanics, InputInv, LockInv, InSend, TypeOK
  <2>3. CASE SendLock(c)
    BY <2>3, <1>1 DEF SendLock, InputInv, LockInv, InSend, TypeOK
  <2>4. CASE SendRefused(c)
    BY <2>4, <1>1 DEF SendRefused, InputInv, LockInv, InSend, TypeOK
  <2>5. CASE SendRegister(c)
    BY <2>5, <1>1 DEF SendRegister, Down, InputInv, LockInv, InSend, TypeOK
  <2>6. CASE SendWrite(c)
    BY <2>6, <1>1 DEF SendWrite, InputInv, LockInv, InSend, TypeOK
  <2>7. CASE SendWritten(c)
    BY <2>7, <1>1 DEF SendWritten, InputInv, LockInv, InSend, TypeOK
  <2>8. CASE SendRemove(c)
    BY <2>8, <1>1 DEF SendRemove, InputInv, LockInv, InSend, TypeOK
  <2>9. CASE SendUnlock(c)
    BY <2>9, <1>1 DEF SendUnlock, InputInv, LockInv, InSend, TypeOK
  <2> QED
    BY <1>1, <2>1, <2>2, <2>3, <2>4, <2>5, <2>6, <2>7, <2>8, <2>9 DEF Send
<1>2. ASSUME NEW h \in Chans, Receive(h) PROVE InputInv'
  BY <1>2 DEF Receive, InputInv, LockInv, InSend, TypeOK
<1>3. ASSUME Input PROVE InputInv'
  <2>1. CASE InputHeader
    BY <2>1 DEF InputHeader, InputInv, LockInv, InSend, TypeOK
  <2>2. CASE InputHeaderFails
    BY <2>2 DEF InputHeaderFails, ReadErrors, InputInv, LockInv, InSend, TypeOK
  <2>3. CASE InputLookup
    BY <2>3 DEF InputLookup, InputInv, LockInv, InSend, TypeOK
  <2>4. CASE InputDiscard
    BY <2>4 DEF InputDiscard, InputInv, LockInv, InSend, TypeOK
  <2>5. CASE InputErrorBody
    BY <2>5 DEF InputErrorBody, InputInv, LockInv, InSend, TypeOK
  <2>6. CASE InputBody
    BY <2>6 DEF InputBody, ReadErrors, InputInv, LockInv, InSend, TypeOK
  <2>7. CASE InputTermLock
    BY <2>7 DEF InputTermLock, InputInv, LockInv, InSend, TypeOK
  <2>8. CASE InputTermMutex
    BY <2>8 DEF InputTermMutex, InputInv, LockInv, InSend, TypeOK
  <2>9. CASE InputTerminate
    BY <2>9 DEF InputTerminate, InputInv, LockInv, InSend, TypeOK
  <2>10. CASE InputExit
    BY <2>10 DEF InputExit, InputInv, LockInv, InSend, TypeOK
  <2> QED
    BY <1>3, <2>1, <2>2, <2>3, <2>4, <2>5, <2>6, <2>7, <2>8, <2>9, <2>10 DEF Input
<1>4. ASSUME NEW k \in Closers, CloseBegin(k) PROVE InputInv'
  BY <1>4 DEF CloseBegin, InputInv, LockInv, InSend, TypeOK
<1>5. ASSUME NEW k \in Closers, CloseCodec(k) PROVE InputInv'
  BY <1>5 DEF CloseCodec, InputInv, LockInv, InSend, TypeOK
<1>6. CASE PeerClose
  BY <1>6 DEF PeerClose, InputInv, LockInv, InSend, TypeOK
<1>7. CASE UNCHANGED vars
  BY <1>7 DEF vars, InputInv, LockInv, InSend, TypeOK
<1> QED
  BY <1>1, <1>2, <1>3, <1>4, <1>5, <1>6, <1>7 DEF Next, Quiescent

-----------------------------------------------------------------------------
(* Ownership.                                                              *)

\* A call that completes for the first time keeps AtMostOnce, and whatever
\* had completed has still completed.
LEMMA CompletesOne ==
  ASSUME TypeOK, AtMostOnce, NEW x \in Calls, completed[x] = 0,
         completed' \in [Calls -> Nat],
         completed'[x] = completed[x] + 1,
         \A d \in Calls : d # x => completed'[d] = completed[d]
  PROVE  AtMostOnce' /\ completed'[x] > 0 /\ \A d \in Calls : IsDone(d) => IsDone(d)'
<1>1. \A d \in Calls : completed[d] \in Nat /\ completed'[d] \in Nat /\ completed[d] <= 1
  BY DEF TypeOK, AtMostOnce
<1>2. completed'[x] = 1
  BY <1>1
<1> QED
  BY <1>1, <1>2 DEF AtMostOnce, IsDone

\* Every step keeps each call with one owner.
LEMMA OwnerInvStep ==
  ASSUME TypeOK, LockInv, InputInv, OwnerInv, [Next]_vars
  PROVE  OwnerInv'
<1> USE DEF userVars, lockVars, tableVars, callVars, inVars, wireVars
<1>1. ASSUME NEW c \in Calls, Send(c) PROVE OwnerInv'
  <2>1. CASE Go(c)
    BY <2>1, <1>1 DEF Go, OwnerInv, AtMostOnce, FreshInv, EntryInv, TallyInv, HeldInv, OwnedInv, Unregistered, Entry, IsDone, InputInv, LockInv, TypeOK
  <2>2. CASE GoPanics(c)
    BY <2>2, <1>1 DEF GoPanics, OwnerInv, AtMostOnce, FreshInv, EntryInv, TallyInv, HeldInv, OwnedInv, Unregistered, Entry, IsDone, InputInv, LockInv, TypeOK
  <2>3. CASE SendLock(c)
    BY <2>3, <1>1 DEF SendLock, OwnerInv, AtMostOnce, FreshInv, EntryInv, TallyInv, HeldInv, OwnedInv, Unregistered, Entry, IsDone, InputInv, LockInv, TypeOK
  <2>4. CASE SendRefused(c)
    <3>1. "ErrShutdown" \in Errors /\ Complete(c, "ErrShutdown")
      BY <2>4 DEF SendRefused, Errors
    <3>2. /\ completed' \in [Calls -> Nat]
          /\ completed'[c] = completed[c] + 1
          /\ \A d \in Calls : d # c => completed'[d] = completed[d]
      BY <3>1, CompleteEffect
    <3> QED
      <4>0. completed[c] = 0
        BY <2>4 DEF SendRefused, OwnerInv, FreshInv, Unregistered
      <4>1. AtMostOnce' /\ completed'[c] > 0 /\ \A d \in Calls : IsDone(d) => IsDone(d)'
        BY <3>2, <4>0, CompletesOne DEF OwnerInv
      <4>2. FreshInv'
        BY <2>4, <3>2 DEF SendRefused, OwnerInv, AtMostOnce, FreshInv, EntryInv, TallyInv, HeldInv, OwnedInv, Unregistered, Entry, IsDone, InputInv, LockInv, TypeOK
      <4>3. EntryInv'
        BY <2>4, <3>2 DEF SendRefused, OwnerInv, AtMostOnce, FreshInv, EntryInv, TallyInv, HeldInv, OwnedInv, Unregistered, Entry, IsDone, InputInv, LockInv, TypeOK
      <4>4. TallyInv'
        BY <2>4, <3>2 DEF SendRefused, OwnerInv, AtMostOnce, FreshInv, EntryInv, TallyInv, HeldInv, OwnedInv, Unregistered, Entry, IsDone, InputInv, LockInv, TypeOK
      <4>5. HeldInv'
        BY <2>4, <3>2 DEF SendRefused, OwnerInv, AtMostOnce, FreshInv, EntryInv, TallyInv, HeldInv, OwnedInv, Unregistered, Entry, IsDone, InputInv, LockInv, TypeOK
      <4>6. OwnedInv'
        BY <2>4, <4>1 DEF SendRefused, OwnerInv, OwnedInv, EntryInv, Unregistered, Entry, IsDone, TypeOK
      <4> QED
        BY <4>1, <4>2, <4>3, <4>4, <4>5, <4>6 DEF OwnerInv
  <2>5. CASE SendRegister(c)
    <3>1. seq \in Nat /\ seq \notin DOMAIN pending /\ ~shutdown /\ pending' = Insert(seq, c)
      BY <2>5 DEF SendRegister, Down, OwnerInv, EntryInv, TypeOK
    <3>2. /\ DOMAIN pending' = DOMAIN pending \cup {seq}
          /\ pending'[seq] = c
          /\ \A t \in DOMAIN pending : pending'[t] = pending[t]
      <4>1. /\ DOMAIN Insert(seq, c) = DOMAIN pending \cup {seq}
            /\ Insert(seq, c)[seq] = c
            /\ \A t \in DOMAIN pending \ {seq} : Insert(seq, c)[t] = pending[t]
        BY <3>1, InsertEffect
      <4> QED
        BY <3>1, <4>1
    <3> QED
      BY <2>5, <3>1, <3>2 DEF SendRegister, OwnerInv, AtMostOnce, FreshInv, EntryInv, TallyInv, HeldInv, OwnedInv, Unregistered, Entry, IsDone, InputInv, LockInv, TypeOK
  <2>6. CASE SendWrite(c)
    BY <2>6, <1>1 DEF SendWrite, OwnerInv, AtMostOnce, FreshInv, EntryInv, TallyInv, HeldInv, OwnedInv, Unregistered, Entry, IsDone, InputInv, LockInv, TypeOK
  <2>7. CASE SendWritten(c)
    BY <2>7, <1>1 DEF SendWritten, OwnerInv, AtMostOnce, FreshInv, EntryInv, TallyInv, HeldInv, OwnedInv, Unregistered, Entry, IsDone, InputInv, LockInv, TypeOK
  <2>8. CASE SendRemove(c)
    <3>1. mySeq[c] \in Nat /\ pending' = Delete(mySeq[c]) /\ inPc \notin {"terminate", "exited"}
      BY <2>8 DEF SendRemove, LockInv, InputInv, TypeOK
    <3>2. /\ DOMAIN pending' = DOMAIN pending \ {mySeq[c]}
          /\ \A t \in DOMAIN pending' : pending'[t] = pending[t]
      BY <3>1, DeleteEffect
    <3>3. CASE mySeq[c] \notin DOMAIN pending
      <4>1. Lookup(mySeq[c]) = NoCall
        BY <3>1, <3>3, LookupEffect
      <4> QED
        BY <2>8, <3>1, <3>2, <3>3, <4>1 DEF SendRemove, OwnerInv, AtMostOnce, FreshInv, EntryInv, TallyInv, HeldInv, OwnedInv, Unregistered, Entry, IsDone, InputInv, LockInv, TypeOK
    <3>4. CASE mySeq[c] \in DOMAIN pending
      <4>1. /\ Lookup(mySeq[c]) # NoCall
            /\ Lookup(mySeq[c]) = pending[mySeq[c]]
            /\ pending[mySeq[c]] \in Calls
            /\ "write" \in Errors
        BY <3>1, <3>4, LookupEffect DEF TypeOK, Errors
      <4> DEFINE call == pending[mySeq[c]]
      <4>2. Complete(call, "write")
        BY <2>8, <4>1 DEF SendRemove
      <4>3. /\ completed' \in [Calls -> Nat]
            /\ completed'[call] = completed[call] + 1
            /\ \A d \in Calls : d # call => completed'[d] = completed[d]
        BY <4>1, <4>2, CompleteEffect
      <4> QED
        <5>0. completed[call] = 0
          BY <3>1, <3>4 DEF OwnerInv, TallyInv
        <5>1. AtMostOnce' /\ completed'[call] > 0 /\ \A d \in Calls : IsDone(d) => IsDone(d)'
          BY <4>1, <4>3, <5>0, CompletesOne DEF OwnerInv
        <5>2. FreshInv'
          BY <2>8, <3>1, <3>2, <3>4, <4>1, <4>3 DEF SendRemove, OwnerInv, AtMostOnce, FreshInv, EntryInv, TallyInv, HeldInv, OwnedInv, Unregistered, Entry, IsDone, InputInv, LockInv, TypeOK
        <5>3. EntryInv'
          BY <2>8, <3>1, <3>2, <3>4, <4>1, <4>3 DEF SendRemove, OwnerInv, AtMostOnce, FreshInv, EntryInv, TallyInv, HeldInv, OwnedInv, Unregistered, Entry, IsDone, InputInv, LockInv, TypeOK
        <5>4. TallyInv'
          BY <2>8, <3>1, <3>2, <3>4, <4>1, <4>3 DEF SendRemove, OwnerInv, AtMostOnce, FreshInv, EntryInv, TallyInv, HeldInv, OwnedInv, Unregistered, Entry, IsDone, InputInv, LockInv, TypeOK
        <5>5. HeldInv'
          BY <2>8, <3>1, <3>2, <3>4, <4>1, <4>3 DEF SendRemove, OwnerInv, AtMostOnce, FreshInv, EntryInv, TallyInv, HeldInv, OwnedInv, Unregistered, Entry, IsDone, InputInv, LockInv, TypeOK
        <5>6. OwnedInv'
          BY <2>8, <3>1, <3>2, <3>4, <4>1, <5>1 DEF SendRemove, OwnerInv, OwnedInv, EntryInv, Unregistered, Entry, IsDone, TypeOK
        <5> QED
          BY <5>1, <5>2, <5>3, <5>4, <5>5, <5>6 DEF OwnerInv
    <3> QED
      BY <3>3, <3>4
  <2>9. CASE SendUnlock(c)
    BY <2>9, <1>1 DEF SendUnlock, OwnerInv, AtMostOnce, FreshInv, EntryInv, TallyInv, HeldInv, OwnedInv, Unregistered, Entry, IsDone, InputInv, LockInv, TypeOK
  <2> QED
    BY <1>1, <2>1, <2>2, <2>3, <2>4, <2>5, <2>6, <2>7, <2>8, <2>9 DEF Send
<1>2. ASSUME NEW h \in Chans, Receive(h) PROVE OwnerInv'
  BY <1>2 DEF Receive, OwnerInv, AtMostOnce, FreshInv, EntryInv, TallyInv, HeldInv, OwnedInv, Unregistered, Entry, IsDone, InputInv, LockInv, TypeOK
<1>3. ASSUME Input PROVE OwnerInv'
  <2>1. CASE InputHeader
    BY <2>1 DEF InputHeader, OwnerInv, AtMostOnce, FreshInv, EntryInv, TallyInv, HeldInv, OwnedInv, Unregistered, Entry, IsDone, InputInv, LockInv, TypeOK
  <2>2. CASE InputHeaderFails
    BY <2>2 DEF InputHeaderFails, OwnerInv, AtMostOnce, FreshInv, EntryInv, TallyInv, HeldInv, OwnedInv, Unregistered, Entry, IsDone, InputInv, LockInv, TypeOK
  <2>3. CASE InputLookup
    <3>1. inHdr.seq \in Nat /\ pending' = Delete(inHdr.seq) /\ inCall' = Lookup(inHdr.seq)
      BY <2>3 DEF InputLookup, TypeOK
    <3>2. /\ DOMAIN pending' = DOMAIN pending \ {inHdr.seq}
          /\ \A t \in DOMAIN pending' : pending'[t] = pending[t]
      BY <3>1, DeleteEffect
    <3>3. /\ inCall' # NoCall <=> inHdr.seq \in DOMAIN pending
          /\ inHdr.seq \in DOMAIN pending => inCall' = pending[inHdr.seq]
      BY <3>1, LookupEffect
    <3> QED
      <4>1. AtMostOnce'
        BY <2>3, <3>1, <3>2, <3>3 DEF InputLookup, OwnerInv, AtMostOnce, FreshInv, EntryInv, TallyInv, HeldInv, OwnedInv, Unregistered, Entry, IsDone, InputInv, LockInv, TypeOK
      <4>2. FreshInv'
        BY <2>3, <3>1, <3>2, <3>3 DEF InputLookup, OwnerInv, AtMostOnce, FreshInv, EntryInv, TallyInv, HeldInv, OwnedInv, Unregistered, Entry, IsDone, InputInv, LockInv, TypeOK
      <4>3. EntryInv'
        BY <2>3, <3>1, <3>2, <3>3 DEF InputLookup, OwnerInv, AtMostOnce, FreshInv, EntryInv, TallyInv, HeldInv, OwnedInv, Unregistered, Entry, IsDone, InputInv, LockInv, TypeOK
      <4>4. TallyInv'
        BY <2>3, <3>1, <3>2, <3>3 DEF InputLookup, OwnerInv, AtMostOnce, FreshInv, EntryInv, TallyInv, HeldInv, OwnedInv, Unregistered, Entry, IsDone, InputInv, LockInv, TypeOK
      <4>5. HeldInv'
        BY <2>3, <3>1, <3>2, <3>3 DEF InputLookup, OwnerInv, AtMostOnce, FreshInv, EntryInv, TallyInv, HeldInv, OwnedInv, Unregistered, Entry, IsDone, InputInv, LockInv, TypeOK
      <4>6. OwnedInv'
        BY <2>3, <3>1, <3>2, <3>3, CallsAssumption DEF InputLookup, InputInv, OwnerInv, OwnedInv, EntryInv, Unregistered, Entry, IsDone, TypeOK
      <4> QED
        BY <4>1, <4>2, <4>3, <4>4, <4>5, <4>6 DEF OwnerInv
  <2>4. CASE InputDiscard
    BY <2>4 DEF InputDiscard, OwnerInv, AtMostOnce, FreshInv, EntryInv, TallyInv, HeldInv, OwnedInv, Unregistered, Entry, IsDone, InputInv, LockInv, TypeOK
  <2>5. CASE InputErrorBody
    <3>1. inCall \in Calls /\ inCall' = NoCall
      BY <2>5 DEF InputErrorBody, InputInv, TypeOK
    <3>2. Complete(inCall, "server") /\ ("server") \in Errors
      BY <2>5 DEF InputErrorBody, Errors
    <3>3. /\ completed' \in [Calls -> Nat]
          /\ completed'[inCall] = completed[inCall] + 1
          /\ \A d \in Calls : d # inCall => completed'[d] = completed[d]
      BY <3>1, <3>2, CompleteEffect
    <3> QED
      <4>0. completed[inCall] = 0
        BY <2>5 DEF InputErrorBody, OwnerInv, HeldInv, InputInv
      <4>1. AtMostOnce' /\ completed'[inCall] > 0 /\ \A d \in Calls : IsDone(d) => IsDone(d)'
        BY <3>1, <3>3, <4>0, CompletesOne DEF OwnerInv
      <4>2. FreshInv'
        BY <2>5, <3>1, <3>3 DEF InputErrorBody, OwnerInv, AtMostOnce, FreshInv, EntryInv, TallyInv, HeldInv, OwnedInv, Unregistered, Entry, IsDone, InputInv, LockInv, TypeOK
      <4>3. EntryInv'
        BY <2>5, <3>1, <3>3 DEF InputErrorBody, OwnerInv, AtMostOnce, FreshInv, EntryInv, TallyInv, HeldInv, OwnedInv, Unregistered, Entry, IsDone, InputInv, LockInv, TypeOK
      <4>4. TallyInv'
        BY <2>5, <3>1, <3>3 DEF InputErrorBody, OwnerInv, AtMostOnce, FreshInv, EntryInv, TallyInv, HeldInv, OwnedInv, Unregistered, Entry, IsDone, InputInv, LockInv, TypeOK
      <4>5. HeldInv'
        BY <2>5, <3>1, <3>3 DEF InputErrorBody, OwnerInv, AtMostOnce, FreshInv, EntryInv, TallyInv, HeldInv, OwnedInv, Unregistered, Entry, IsDone, InputInv, LockInv, TypeOK
      <4>6. OwnedInv'
        BY <2>5, <3>1, <4>1 DEF InputErrorBody, OwnerInv, OwnedInv, EntryInv, Unregistered, Entry, IsDone, TypeOK
      <4> QED
        BY <4>1, <4>2, <4>3, <4>4, <4>5, <4>6 DEF OwnerInv
  <2>6. CASE InputBody
    <3>1. inCall \in Calls /\ inCall' = NoCall
      BY <2>6 DEF InputBody, InputInv, TypeOK
    <3>2. Complete(inCall, IF inErr' = "nil" THEN "nil" ELSE "body") /\ (IF inErr' = "nil" THEN "nil" ELSE "body") \in Errors
      BY <2>6 DEF InputBody, Errors
    <3>3. /\ completed' \in [Calls -> Nat]
          /\ completed'[inCall] = completed[inCall] + 1
          /\ \A d \in Calls : d # inCall => completed'[d] = completed[d]
      BY <3>1, <3>2, CompleteEffect
    <3> QED
      <4>0. completed[inCall] = 0
        BY <2>6 DEF InputBody, OwnerInv, HeldInv, InputInv
      <4>1. AtMostOnce' /\ completed'[inCall] > 0 /\ \A d \in Calls : IsDone(d) => IsDone(d)'
        BY <3>1, <3>3, <4>0, CompletesOne DEF OwnerInv
      <4>2. FreshInv'
        BY <2>6, <3>1, <3>3 DEF InputBody, OwnerInv, AtMostOnce, FreshInv, EntryInv, TallyInv, HeldInv, OwnedInv, Unregistered, Entry, IsDone, InputInv, LockInv, TypeOK
      <4>3. EntryInv'
        BY <2>6, <3>1, <3>3 DEF InputBody, OwnerInv, AtMostOnce, FreshInv, EntryInv, TallyInv, HeldInv, OwnedInv, Unregistered, Entry, IsDone, InputInv, LockInv, TypeOK
      <4>4. TallyInv'
        BY <2>6, <3>1, <3>3 DEF InputBody, OwnerInv, AtMostOnce, FreshInv, EntryInv, TallyInv, HeldInv, OwnedInv, Unregistered, Entry, IsDone, InputInv, LockInv, TypeOK
      <4>5. HeldInv'
        BY <2>6, <3>1, <3>3 DEF InputBody, OwnerInv, AtMostOnce, FreshInv, EntryInv, TallyInv, HeldInv, OwnedInv, Unregistered, Entry, IsDone, InputInv, LockInv, TypeOK
      <4>6. OwnedInv'
        BY <2>6, <3>1, <4>1 DEF InputBody, OwnerInv, OwnedInv, EntryInv, Unregistered, Entry, IsDone, TypeOK
      <4> QED
        BY <4>1, <4>2, <4>3, <4>4, <4>5, <4>6 DEF OwnerInv
  <2>7. CASE InputTermLock
    BY <2>7 DEF InputTermLock, OwnerInv, AtMostOnce, FreshInv, EntryInv, TallyInv, HeldInv, OwnedInv, Unregistered, Entry, IsDone, InputInv, LockInv, TypeOK
  <2>8. CASE InputTermMutex
    BY <2>8 DEF InputTermMutex, OwnerInv, AtMostOnce, FreshInv, EntryInv, TallyInv, HeldInv, OwnedInv, Unregistered, Entry, IsDone, InputInv, LockInv, TypeOK
  <2>9. CASE InputTerminate
    <3>1. PICK s \in todo : Complete(pending[s], inErr) /\ todo' = todo \ {s}
      BY <2>9 DEF InputTerminate
    <3>2. s \in DOMAIN pending /\ pending[s] \in Calls /\ inErr \in Errors
      BY <2>9 DEF InputTerminate, TypeOK, InputInv
    <3>3. /\ completed' \in [Calls -> Nat]
          /\ completed'[pending[s]] = completed[pending[s]] + 1
          /\ \A d \in Calls : d # pending[s] => completed'[d] = completed[d]
      BY <3>1, <3>2, CompleteEffect
    <3> QED
      <4>0. completed[pending[s]] = 0
        BY <2>9, <3>1, <3>2 DEF InputTerminate, OwnerInv, TallyInv
      <4>1. AtMostOnce' /\ completed'[pending[s]] > 0 /\ \A d \in Calls : IsDone(d) => IsDone(d)'
        BY <3>2, <3>3, <4>0, CompletesOne DEF OwnerInv
      <4>2. FreshInv'
        BY <2>9, <3>1, <3>2, <3>3 DEF InputTerminate, OwnerInv, AtMostOnce, FreshInv, EntryInv, TallyInv, HeldInv, OwnedInv, Unregistered, Entry, IsDone, InputInv, LockInv, TypeOK
      <4>3. EntryInv'
        BY <2>9, <3>1, <3>2, <3>3 DEF InputTerminate, OwnerInv, AtMostOnce, FreshInv, EntryInv, TallyInv, HeldInv, OwnedInv, Unregistered, Entry, IsDone, InputInv, LockInv, TypeOK
      <4>4. TallyInv'
        BY <2>9, <3>1, <3>2, <3>3 DEF InputTerminate, OwnerInv, AtMostOnce, FreshInv, EntryInv, TallyInv, HeldInv, OwnedInv, Unregistered, Entry, IsDone, InputInv, LockInv, TypeOK
      <4>5. HeldInv'
        BY <2>9, <3>1, <3>2, <3>3 DEF InputTerminate, OwnerInv, AtMostOnce, FreshInv, EntryInv, TallyInv, HeldInv, OwnedInv, Unregistered, Entry, IsDone, InputInv, LockInv, TypeOK
      <4>6. OwnedInv'
        BY <2>9, <3>1, <3>2, <4>1 DEF InputTerminate, OwnerInv, OwnedInv, EntryInv, Unregistered, Entry, IsDone, TypeOK
      <4> QED
        BY <4>1, <4>2, <4>3, <4>4, <4>5, <4>6 DEF OwnerInv
  <2>10. CASE InputExit
    BY <2>10 DEF InputExit, OwnerInv, AtMostOnce, FreshInv, EntryInv, TallyInv, HeldInv, OwnedInv, Unregistered, Entry, IsDone, InputInv, LockInv, TypeOK
  <2> QED
    BY <1>3, <2>1, <2>2, <2>3, <2>4, <2>5, <2>6, <2>7, <2>8, <2>9, <2>10 DEF Input
<1>4. ASSUME NEW k \in Closers, CloseBegin(k) PROVE OwnerInv'
  BY <1>4 DEF CloseBegin, OwnerInv, AtMostOnce, FreshInv, EntryInv, TallyInv, HeldInv, OwnedInv, Unregistered, Entry, IsDone, InputInv, LockInv, TypeOK
<1>5. ASSUME NEW k \in Closers, CloseCodec(k) PROVE OwnerInv'
  BY <1>5 DEF CloseCodec, OwnerInv, AtMostOnce, FreshInv, EntryInv, TallyInv, HeldInv, OwnedInv, Unregistered, Entry, IsDone, InputInv, LockInv, TypeOK
<1>6. CASE PeerClose
  BY <1>6 DEF PeerClose, OwnerInv, AtMostOnce, FreshInv, EntryInv, TallyInv, HeldInv, OwnedInv, Unregistered, Entry, IsDone, InputInv, LockInv, TypeOK
<1>7. CASE UNCHANGED vars
  BY <1>7 DEF vars, OwnerInv, AtMostOnce, FreshInv, EntryInv, TallyInv, HeldInv, OwnedInv, Unregistered, Entry, IsDone, InputInv, LockInv, TypeOK
<1> QED
  BY <1>1, <1>2, <1>3, <1>4, <1>5, <1>6, <1>7 DEF Next, Quiescent

-----------------------------------------------------------------------------
(* The numbers on the wire.                                                *)

\* A number below the modulus is its own remainder.
LEMMA SmallRemainder ==
  ASSUME NEW x \in Nat, NEW m \in Nat \ {0}, x < m
  PROVE  x % m = x
  OBVIOUS

\* Every step that does not wrap the numbers keeps requests and calls together.
LEMMA WireFactsStep ==
  ASSUME TypeOK, LockInv, InputInv, OwnerInv, WireFacts, seq' <= WireMod, [Next]_vars
  PROVE  WireFacts'
<1> USE DEF userVars, lockVars, tableVars, callVars, inVars, wireVars
<1>1. ASSUME NEW c \in Calls, Send(c) PROVE WireFacts'
  <2>1. CASE Go(c)
    BY <2>1, <1>1 DEF Go, WireFacts, OwnReply, InputInv, TypeOK
  <2>2. CASE GoPanics(c)
    BY <2>2, <1>1 DEF GoPanics, WireFacts, OwnReply, InputInv, TypeOK
  <2>3. CASE SendLock(c)
    BY <2>3, <1>1 DEF SendLock, WireFacts, OwnReply, InputInv, TypeOK
  <2>4. CASE SendRefused(c)
    BY <2>4 DEF SendRefused, Complete, WireFacts, OwnReply, InputInv, TypeOK
  <2>5. CASE SendRegister(c)
    <3>1. seq \in Nat /\ seq \notin DOMAIN pending /\ pending' = Insert(seq, c)
      BY <2>5 DEF SendRegister, OwnerInv, EntryInv, TypeOK
    <3>2. /\ DOMAIN pending' = DOMAIN pending \cup {seq}
          /\ pending'[seq] = c
          /\ \A t \in DOMAIN pending : pending'[t] = pending[t]
      <4>1. /\ DOMAIN Insert(seq, c) = DOMAIN pending \cup {seq}
            /\ Insert(seq, c)[seq] = c
            /\ \A t \in DOMAIN pending \ {seq} : Insert(seq, c)[t] = pending[t]
        BY <3>1, InsertEffect
      <4> QED
        BY <3>1, <4>1
    <3>3. \A d \in Calls : d # c => pc[d] \notin {"write", "writing", "remove"}
      BY <2>5 DEF SendRegister, LockInv, InSend
    <3> QED
      BY <2>5, <3>1, <3>2, <3>3 DEF SendRegister, WireFacts, OwnReply, InputInv, TypeOK
  <2>6. CASE SendWrite(c)
    <3>1. request = mySeq[c] /\ request \in Nat /\ request < WireMod
      BY <2>6, WireAssumption DEF SendWrite, WireFacts, OwnReply, InputInv, TypeOK
    <3>2. request % WireMod = request
      BY <3>1, WireAssumption, SmallRemainder
    <3> QED
      BY <2>6, <3>1, <3>2 DEF SendWrite, WireFacts, OwnReply, InputInv, TypeOK
  <2>7. CASE SendWritten(c)
    BY <2>7, <1>1 DEF SendWritten, WireFacts, OwnReply, InputInv, TypeOK
  <2>8. CASE SendRemove(c)
    <3>1. mySeq[c] \in Nat /\ pending' = Delete(mySeq[c])
      BY <2>8 DEF SendRemove, TypeOK
    <3>2. /\ DOMAIN pending' = DOMAIN pending \ {mySeq[c]}
          /\ \A t \in DOMAIN pending' : pending'[t] = pending[t]
      BY <3>1, DeleteEffect
    <3>3. reply' = reply
      BY <2>8 DEF SendRemove
    <3> QED
      BY <2>8, <3>2, <3>3 DEF SendRemove, WireFacts, OwnReply, InputInv, TypeOK
  <2>9. CASE SendUnlock(c)
    BY <2>9, <1>1 DEF SendUnlock, WireFacts, OwnReply, InputInv, TypeOK
  <2> QED
    BY <1>1, <2>1, <2>2, <2>3, <2>4, <2>5, <2>6, <2>7, <2>8, <2>9 DEF Send
<1>2. ASSUME NEW h \in Chans, Receive(h) PROVE WireFacts'
  BY <1>2 DEF Receive, WireFacts, OwnReply, InputInv, TypeOK
<1>3. ASSUME Input PROVE WireFacts'
  <2>1. CASE InputHeader
    <3>1. PICK r \in requests, failed \in BOOLEAN :
            /\ inHdr' = [seq |-> r.seq, call |-> r.call, failed |-> failed]
            /\ requests' \subseteq requests
      BY <2>1 DEF InputHeader
    <3>2. inHdr'.seq = r.seq /\ inHdr'.call = r.call
      BY <3>1
    <3> QED
      BY <2>1, <3>1, <3>2 DEF InputHeader, WireFacts, OwnReply, InputInv, TypeOK
  <2>2. CASE InputHeaderFails
    BY <2>2 DEF InputHeaderFails, WireFacts, OwnReply, InputInv, TypeOK
  <2>3. CASE InputLookup
    <3>1. inHdr.seq \in Nat /\ pending' = Delete(inHdr.seq) /\ inCall' = Lookup(inHdr.seq)
      BY <2>3 DEF InputLookup, TypeOK
    <3>2. /\ DOMAIN pending' = DOMAIN pending \ {inHdr.seq}
          /\ \A t \in DOMAIN pending' : pending'[t] = pending[t]
      BY <3>1, DeleteEffect
    <3>3. /\ inCall' # NoCall <=> inHdr.seq \in DOMAIN pending
          /\ inHdr.seq \in DOMAIN pending => inCall' = pending[inHdr.seq]
      BY <3>1, LookupEffect
    <3> QED
      BY <2>3, <3>1, <3>2, <3>3 DEF InputLookup, WireFacts, OwnReply, InputInv, TypeOK
  <2>4. CASE InputDiscard
    BY <2>4 DEF InputDiscard, WireFacts, OwnReply, InputInv, TypeOK
  <2>5. CASE InputErrorBody
    <3>1. inCall \in Calls /\ inHdr.call = inCall /\ reply' = [reply EXCEPT ![inCall] = inHdr.call]
      BY <2>5 DEF InputErrorBody, WireFacts, OwnReply, InputInv, TypeOK
    <3>2. OwnReply'
      BY <3>1 DEF WireFacts, OwnReply, TypeOK
    <3> QED
      BY <2>5, <3>2 DEF InputErrorBody, WireFacts, OwnReply, InputInv, TypeOK
  <2>6. CASE InputBody
    <3>1. inCall \in Calls /\ inHdr.call = inCall /\ reply' = [reply EXCEPT ![inCall] = inHdr.call]
      BY <2>6 DEF InputBody, WireFacts, OwnReply, InputInv, TypeOK
    <3>2. OwnReply'
      BY <3>1 DEF WireFacts, OwnReply, TypeOK
    <3> QED
      BY <2>6, <3>2 DEF InputBody, WireFacts, OwnReply, InputInv, TypeOK
  <2>7. CASE InputTermLock
    BY <2>7 DEF InputTermLock, WireFacts, OwnReply, InputInv, TypeOK
  <2>8. CASE InputTermMutex
    BY <2>8 DEF InputTermMutex, WireFacts, OwnReply, InputInv, TypeOK
  <2>9. CASE InputTerminate
    BY <2>9 DEF InputTerminate, Complete, WireFacts, OwnReply, InputInv, TypeOK
  <2>10. CASE InputExit
    BY <2>10 DEF InputExit, WireFacts, OwnReply, InputInv, TypeOK
  <2> QED
    BY <1>3, <2>1, <2>2, <2>3, <2>4, <2>5, <2>6, <2>7, <2>8, <2>9, <2>10 DEF Input
<1>4. ASSUME NEW k \in Closers, CloseBegin(k) PROVE WireFacts'
  BY <1>4 DEF CloseBegin, WireFacts, OwnReply, InputInv, TypeOK
<1>5. ASSUME NEW k \in Closers, CloseCodec(k) PROVE WireFacts'
  BY <1>5 DEF CloseCodec, WireFacts, OwnReply, InputInv, TypeOK
<1>6. CASE PeerClose
  BY <1>6 DEF PeerClose, WireFacts, OwnReply, InputInv, TypeOK
<1>7. CASE UNCHANGED vars
  BY <1>7 DEF vars, WireFacts, OwnReply, InputInv, TypeOK
<1> QED
  BY <1>1, <1>2, <1>3, <1>4, <1>5, <1>6, <1>7 DEF Next, Quiescent

\* Every step keeps WireInv: the numbers handed out only grow.
LEMMA WireInvStep ==
  ASSUME TypeOK, LockInv, InputInv, OwnerInv, WireInv, [Next]_vars
  PROVE  WireInv'
<1> SUFFICES ASSUME seq' <= WireMod PROVE WireFacts'
  BY DEF WireInv
<1>1. seq' = seq \/ seq' = seq + 1
  BY DEF Next, Send, Input, Go, GoPanics, SendLock, SendRefused, SendRegister, SendWrite,
     SendWritten, SendRemove, SendUnlock, Receive, InputHeader, InputHeaderFails, InputLookup,
     InputDiscard, InputErrorBody, InputBody, InputTermLock, InputTermMutex, InputTerminate,
     InputExit, CloseBegin, CloseCodec, PeerClose, Quiescent, vars, tableVars
<1>2. seq <= WireMod
  BY <1>1, WireAssumption DEF TypeOK
<1> QED
  BY <1>2, WireFactsStep DEF WireInv

-----------------------------------------------------------------------------
(* What a step does to the calls.                                          *)

\* No call is made or panics.
NoneMade ==
  \A d \in Calls : (pc'[d] = "idle" <=> pc[d] = "idle") /\ (pc'[d] = "panic" <=> pc[d] = "panic")

\* A call that is out and has not completed ends: refused if it was made too
\* late, and if it ends with an answer, the one input has read for it.
Ends(c) ==
  /\ Issued(c) /\ completed[c] = 0
  /\ Done(c)
  /\ c \in late => callError'[c] = "ErrShutdown"
  /\ callError'[c] \in {"nil", "server"} => inCall = c /\ reply'[c] = inHdr.call
  /\ NoneMade
  /\ UNCHANGED <<received, late, closing, shutdown>>

\* Nothing happens to the calls.
NothingEnds ==
  /\ UNCHANGED <<completed, callError, reply, chan, received, late>>
  /\ NoneMade

\* Entries of pending that have not completed are not late.
LEMMA NotLate ==
  ASSUME OwnerInv, LateInv, NEW c \in Calls, ~Unregistered(c), completed[c] = 0
  PROVE  c \notin late /\ Issued(c)
  BY DEF LateInv, Unregistered, IsDone, Issued

\* Every step makes a call, ends one, hands one to its user, or none of these.
LEMMA StepKinds ==
  ASSUME TypeOK, LockInv, InputInv, OwnerInv, LateInv, [Next]_vars
  PROVE  \/ \E c \in Calls : Go(c) \/ GoPanics(c) \/ Ends(c)
         \/ \E h \in Chans : Receive(h)
         \/ NothingEnds
<1> USE DEF userVars, lockVars, tableVars, callVars, inVars, wireVars
<1>p. pc \in [Calls -> SendPcs] /\ completed \in [Calls -> Nat] /\ callError \in [Calls -> Errors]
      /\ reply \in [Calls -> Calls \cup {NoCall}]
  BY DEF TypeOK
<1>1. ASSUME NEW c \in Calls, SendRefused(c) PROVE Ends(c)
  <2>1. /\ pc[c] = "register" /\ pc' = [pc EXCEPT ![c] = "unlock"]
        /\ callError' = [callError EXCEPT ![c] = "ErrShutdown"] /\ Done(c)
        /\ UNCHANGED <<received, late, closing, shutdown>>
    BY <1>1 DEF SendRefused, Complete
  <2>2. completed[c] = 0 /\ Issued(c)
    BY <2>1 DEF OwnerInv, FreshInv, Unregistered, Issued
  <2> QED
    BY <1>p, <2>1, <2>2 DEF Ends, NoneMade
<1>2. ASSUME NEW c \in Calls, SendRemove(c) PROVE NothingEnds \/ \E d \in Calls : Ends(d)
  <2>1. /\ pc[c] = "remove" /\ pc' = [pc EXCEPT ![c] = "unlock"]
        /\ UNCHANGED <<received, late, closing, shutdown>> /\ ~mutex
    BY <1>2 DEF SendRemove
  <2>2. NoneMade
    BY <1>p, <2>1 DEF NoneMade
  <2>3. CASE Lookup(mySeq[c]) = NoCall
    BY <1>2, <2>1, <2>2, <2>3 DEF SendRemove, NothingEnds
  <2>4. CASE Lookup(mySeq[c]) # NoCall
    <3> DEFINE d == pending[mySeq[c]]
    <3>1. mySeq[c] \in DOMAIN pending /\ Lookup(mySeq[c]) = d /\ d \in Calls
      BY <2>4 DEF Lookup, TypeOK
    <3>2. completed[d] = 0 /\ ~Unregistered(d)
      BY <2>1, <3>1 DEF OwnerInv, TallyInv, EntryInv, InputInv, LockInv
    <3>3. callError' = [callError EXCEPT ![d] = "write"] /\ Done(d)
      BY <1>2, <2>4, <3>1 DEF SendRemove, Complete
    <3>4. d \notin late /\ Issued(d)
      BY <3>1, <3>2, NotLate
    <3>5. callError'[d] = "write"
      BY <1>p, <3>1, <3>3
    <3>6. Ends(d)
      BY <2>1, <2>2, <3>2, <3>3, <3>4, <3>5 DEF Ends
    <3> QED
      BY <3>1, <3>6
  <2> QED
    BY <2>3, <2>4
<1>3. ASSUME InputErrorBody \/ InputBody PROVE Ends(inCall) /\ inCall \in Calls
  <2>1. /\ inCall \in Calls /\ completed[inCall] = 0 /\ ~Unregistered(inCall)
    BY <1>3 DEF InputErrorBody, InputBody, InputInv, OwnerInv, HeldInv, TypeOK
  <2>2. /\ Done(inCall) /\ reply' = [reply EXCEPT ![inCall] = inHdr.call]
        /\ UNCHANGED <<pc, received, late, closing, shutdown>>
    BY <1>3 DEF InputErrorBody, InputBody, Complete
  <2>3. inCall \notin late /\ Issued(inCall)
    BY <2>1, NotLate
  <2>4. reply'[inCall] = inHdr.call
    BY <1>p, <2>1, <2>2
  <2>5. NoneMade
    BY <2>2 DEF NoneMade
  <2> QED
    BY <2>1, <2>2, <2>3, <2>4, <2>5 DEF Ends
<1>4. ASSUME InputTerminate PROVE \E d \in Calls : Ends(d)
  <2>1. PICK s \in todo : Complete(pending[s], inErr)
    BY <1>4 DEF InputTerminate
  <2> DEFINE d == pending[s]
  <2>2. d \in Calls /\ s \in DOMAIN pending
    BY DEF TypeOK
  <2>3. completed[d] = 0 /\ ~Unregistered(d)
    BY <1>4, <2>2 DEF InputTerminate, OwnerInv, TallyInv, EntryInv
  <2>4. callError' = [callError EXCEPT ![d] = inErr] /\ Done(d)
        /\ UNCHANGED <<pc, received, late, closing, shutdown>>
    BY <1>4, <2>1 DEF InputTerminate, Complete
  <2>5. d \notin late /\ Issued(d)
    BY <2>2, <2>3, NotLate
  <2>6. callError'[d] = inErr /\ inErr \notin {"nil", "server"}
    BY <1>4, <1>p, <2>2, <2>4 DEF InputTerminate, InputInv
  <2>7. NoneMade
    BY <2>4 DEF NoneMade
  <2>8. Ends(d)
    BY <2>3, <2>4, <2>5, <2>6, <2>7 DEF Ends
  <2> QED
    BY <2>2, <2>8
<1>5. ASSUME NEW c \in Calls, \/ SendLock(c) \/ SendRegister(c) \/ SendWrite(c)
                              \/ SendWritten(c) \/ SendUnlock(c)
      PROVE  NothingEnds
  <2>1. /\ UNCHANGED <<completed, callError, reply, chan, received, late>>
        /\ pc[c] \notin {"idle", "panic"}
        /\ \E l \in SendPcs \ {"idle", "panic"} : pc' = [pc EXCEPT ![c] = l]
    BY <1>5 DEF SendLock, SendRegister, SendWrite, SendWritten, SendUnlock, SendPcs
  <2> QED
    BY <1>p, <2>1 DEF NothingEnds, NoneMade
<1>6. ASSUME \/ InputHeader \/ InputHeaderFails \/ InputLookup \/ InputDiscard \/ InputTermLock
             \/ InputTermMutex \/ InputExit \/ PeerClose \/ UNCHANGED vars
             \/ \E k \in Closers : CloseBegin(k) \/ CloseCodec(k)
      PROVE  NothingEnds
  <2>1. UNCHANGED <<completed, callError, reply, chan, received, late, pc>>
    BY <1>6 DEF InputHeader, InputHeaderFails, InputLookup, InputDiscard, InputTermLock,
       InputTermMutex, InputExit, PeerClose, vars, CloseBegin, CloseCodec
  <2> QED
    BY <2>1 DEF NothingEnds, NoneMade
<1> QED
  BY <1>1, <1>2, <1>3, <1>4, <1>5, <1>6 DEF Next, Send, Input, Quiescent

-----------------------------------------------------------------------------
(* Calls made too late.                                                    *)

\* Every step keeps LateInv: a client that is down stays down.
LEMMA LateInvStep ==
  ASSUME TypeOK, LockInv, InputInv, OwnerInv, LateInv, [Next]_vars
  PROVE  LateInv'
<1> USE DEF userVars, lockVars, tableVars, callVars, inVars, wireVars
<1>p. pc \in [Calls -> SendPcs] /\ completed \in [Calls -> Nat] /\ late \subseteq Calls
      /\ \A r \in requests : r.call \in Calls
  BY DEF TypeOK
<1>d. Down => Down'
  BY DEF Down, Next, Send, Input, Go, GoPanics, SendLock, SendRefused, SendRegister, SendWrite,
     SendWritten, SendRemove, SendUnlock, Receive, InputHeader, InputHeaderFails, InputLookup,
     InputDiscard, InputErrorBody, InputBody, InputTermLock, InputTermMutex, InputTerminate,
     InputExit, CloseBegin, CloseCodec, PeerClose, Quiescent, vars
<1>c. \A c \in Calls : IsDone(c) => IsDone(c)'
  <2>1. ASSUME NEW c \in Calls, Ends(c)
        PROVE  \A d \in Calls : IsDone(d) => IsDone(d)'
    <3>1. completed'[c] = completed[c] + 1 /\ \A d \in Calls : d # c => completed'[d] = completed[d]
      BY <2>1, DoneEffect DEF Ends
    <3> QED
      BY <1>p, <3>1 DEF IsDone
  <2>2. ASSUME completed' = completed
        PROVE  \A d \in Calls : IsDone(d) => IsDone(d)'
    BY <2>2 DEF IsDone
  <2> QED
    BY <2>1, <2>2, StepKinds DEF Go, GoPanics, Receive, NothingEnds
<1>1. ASSUME requests' \subseteq requests, late' = late, pc' = pc
      PROVE  LateInv'
  BY <1>1, <1>c, <1>d, <1>p DEF LateInv, Unregistered
<1>2. ASSUME NEW c \in Calls, Go(c) \/ GoPanics(c) \/ SendLock(c)
      PROVE  LateInv'
  <2>1. /\ requests' = requests /\ UNCHANGED <<closing, shutdown>>
        /\ \E l \in {"lock", "panic", "register"} : pc' = [pc EXCEPT ![c] = l]
        /\ Unregistered(c)
    BY <1>2 DEF Go, GoPanics, SendLock, Unregistered
  <2>2. \A r \in requests : r.call # c /\ r.call \in Calls /\ Unregistered(r.call)' = Unregistered(r.call)
    BY <1>p, <2>1 DEF LateInv, Unregistered
  <2>3. late' \subseteq late \cup {c}
    BY <1>2 DEF Go, GoPanics, SendLock
  <2>4. ASSUME NEW d \in late'
        PROVE  Down' /\ (pc'[d] \in {"lock", "register"} \/ (pc'[d] \in {"unlock", "returned"} /\ IsDone(d)'))
    <3>1. CASE d # c
      <4>1. d \in late /\ d \in Calls /\ pc'[d] = pc[d]
        BY <1>p, <2>1, <2>3, <2>4, <3>1
      <4> QED
        BY <1>c, <1>d, <4>1 DEF LateInv
    <3>2. CASE d = c
      BY <1>2, <1>p, <1>d, <2>4, <3>2 DEF Go, GoPanics, SendLock, LateInv
    <3> QED
      BY <3>1, <3>2
  <2> QED
    BY <2>1, <2>2, <2>3, <2>4 DEF LateInv
<1>3. ASSUME NEW c \in Calls, SendRefused(c) \/ SendUnlock(c)
      PROVE  LateInv'
  <2>1. /\ requests' = requests /\ late' = late
        /\ \E l \in {"unlock", "returned"} : pc' = [pc EXCEPT ![c] = l]
    BY <1>3 DEF SendRefused, SendUnlock
  <2>2. c \in late => IsDone(c)'
    <3>1. CASE SendRefused(c)
      <4>1. completed'[c] = completed[c] + 1
        BY <3>1, DoneEffect DEF SendRefused, Complete
      <4> QED
        BY <1>p, <4>1 DEF IsDone
    <3>2. CASE SendUnlock(c)
      BY <1>c, <3>2 DEF SendUnlock, LateInv
    <3> QED
      BY <1>3, <3>1, <3>2
  <2>3. \A r \in requests : ~Unregistered(r.call)'
    BY <1>p, <2>1 DEF LateInv, Unregistered
  <2>4. ASSUME NEW d \in late
        PROVE  Down' /\ (pc'[d] \in {"lock", "register"} \/ (pc'[d] \in {"unlock", "returned"} /\ IsDone(d)'))
    BY <1>c, <1>d, <1>p, <2>1, <2>2 DEF LateInv
  <2> QED
    BY <2>1, <2>3, <2>4 DEF LateInv
<1>4. ASSUME NEW c \in Calls, SendRegister(c) \/ SendWrite(c) \/ SendWritten(c) \/ SendRemove(c)
      PROVE  LateInv'
  <2>1. /\ late' = late /\ c \notin late
        /\ \A r \in requests' : r \in requests \/ r.call = c
        /\ \E l \in {"write", "writing", "remove", "unlock"} : pc' = [pc EXCEPT ![c] = l]
    BY <1>4 DEF SendRegister, SendWrite, SendWritten, SendRemove, LateInv
  <2>2. \A r \in requests' : ~Unregistered(r.call)' /\ r.call \notin late
    BY <1>p, <2>1 DEF LateInv, Unregistered
  <2>3. \A d \in late : pc'[d] = pc[d]
    BY <1>p, <2>1
  <2> QED
    BY <1>c, <1>d, <1>p, <2>1, <2>2, <2>3 DEF LateInv
<1>5. ASSUME \/ \E h \in Chans : Receive(h)
             \/ Input \/ PeerClose \/ UNCHANGED vars
             \/ \E k \in Closers : CloseBegin(k) \/ CloseCodec(k)
      PROVE  requests' \subseteq requests /\ late' = late /\ pc' = pc
  BY <1>5 DEF Receive, Input, InputHeader, InputHeaderFails, InputLookup, InputDiscard,
     InputErrorBody, InputBody, InputTermLock, InputTermMutex, InputTerminate, InputExit,
     PeerClose, vars, CloseBegin, CloseCodec
<1> QED
  BY <1>1, <1>2, <1>3, <1>4, <1>5 DEF Next, Send, Quiescent

-----------------------------------------------------------------------------
(* Sequence numbers.                                                       *)

\* Every step keeps SeqInv: a number is taken by a call being registered.
LEMMA SeqInvStep ==
  ASSUME TypeOK, SeqInv, [Next]_vars
  PROVE  SeqInv'
<1> USE DEF userVars, lockVars, tableVars, callVars, inVars, wireVars
<1> DEFINE Registered == {c \in Calls : ~Unregistered(c)}
<1>p. pc \in [Calls -> SendPcs] /\ seq \in Nat
  BY DEF TypeOK
<1>f. IsFiniteSet(Registered) /\ Cardinality(Registered) \in Nat
  BY CallsAssumption, FS_Subset, FS_CardinalityType
<1>1. ASSUME NEW c \in Calls, SendRegister(c) \/ SendRefused(c)
      PROVE  SeqInv'
  <2>1. /\ pc[c] = "register" /\ seq' <= seq + 1
        /\ \E l \in {"write", "unlock"} : pc' = [pc EXCEPT ![c] = l]
    BY <1>1, <1>p DEF SendRegister, SendRefused
  <2>2. Registered' = Registered \cup {c} /\ c \notin Registered
    BY <1>p, <2>1 DEF Unregistered
  <2>3. Cardinality(Registered') = Cardinality(Registered) + 1
    BY <1>f, <2>2, FS_AddElement
  <2>4. seq' \in Nat
    BY <1>1, <1>p DEF SendRegister, SendRefused
  <2> QED
    BY <1>f, <1>p, <2>1, <2>3, <2>4 DEF SeqInv
<1>2. ASSUME seq' = seq, \A d \in Calls : Unregistered(d)' <=> Unregistered(d)
      PROVE  SeqInv'
  <2>1. Registered' = Registered
    BY <1>2
  <2> QED
    BY <1>2, <2>1 DEF SeqInv
<1>3. ASSUME NEW c \in Calls, \/ Go(c) \/ GoPanics(c) \/ SendLock(c) \/ SendWrite(c)
                              \/ SendWritten(c) \/ SendRemove(c) \/ SendUnlock(c)
      PROVE  seq' = seq /\ \A d \in Calls : Unregistered(d)' <=> Unregistered(d)
  <2>1. /\ seq' = seq
        /\ \/ Unregistered(c) /\ \E l \in {"lock", "panic", "register"} : pc' = [pc EXCEPT ![c] = l]
           \/ ~Unregistered(c) /\ \E l \in {"writing", "remove", "unlock", "returned"} :
                                    pc' = [pc EXCEPT ![c] = l]
    BY <1>3 DEF Go, GoPanics, SendLock, SendWrite, SendWritten, SendRemove, SendUnlock, Unregistered
  <2> QED
    BY <1>p, <2>1 DEF Unregistered
<1>4. ASSUME \/ \E h \in Chans : Receive(h)
             \/ Input \/ PeerClose \/ UNCHANGED vars
             \/ \E k \in Closers : CloseBegin(k) \/ CloseCodec(k)
      PROVE  seq' = seq /\ pc' = pc
  BY <1>4 DEF Receive, Input, InputHeader, InputHeaderFails, InputLookup, InputDiscard,
     InputErrorBody, InputBody, InputTermLock, InputTermMutex, InputTerminate, InputExit,
     PeerClose, vars, CloseBegin, CloseCodec
<1>5. pc' = pc => \A d \in Calls : Unregistered(d)' <=> Unregistered(d)
  BY DEF Unregistered
<1> QED
  BY <1>1, <1>2, <1>3, <1>4, <1>5 DEF Next, Send, Quiescent

-----------------------------------------------------------------------------
(* The Done channels.                                                      *)

\* The sets of ChanInv are finite.
LEMMA ChanSetsFinite ==
  ASSUME NEW h
  PROVE  /\ IsFiniteSet(Queued(h)) /\ Cardinality(Queued(h)) \in Nat
         /\ IsFiniteSet(Outstanding(h)) /\ Cardinality(Outstanding(h)) \in Nat
<1>1. Queued(h) \in SUBSET Calls /\ Outstanding(h) \in SUBSET Calls
  BY DEF Queued, Outstanding
<1> QED
  BY <1>1, CallsAssumption, FS_Subset, FS_CardinalityType

\* Making a call.
LEMMA ChanGo ==
  ASSUME TypeOK, OwnerInv, ChanInv, NEW c \in Calls, Go(c) \/ GoPanics(c)
  PROVE  ChanInv'
<1> USE DEF userVars, lockVars, tableVars, callVars, inVars, wireVars
<1>1. /\ pc \in [Calls -> SendPcs] /\ pc[c] = "idle"
      /\ \E l \in {"lock", "panic"} : pc' = [pc EXCEPT ![c] = l]
      /\ UNCHANGED <<completed, chan, received>>
      /\ ChanOf[c] \in Chans /\ Cap[ChanOf[c]] \in Nat
  BY ChansAssumption DEF Go, GoPanics, TypeOK
<1>2. \A h : Queued(h)' = Queued(h)
  BY <1>1 DEF Queued, IsDone
<1>3. \A d \in received' : IsDone(d)'
  BY <1>1 DEF ChanInv, IsDone
<1>4. \A d \in Calls : Issued(d)' => Cap[ChanOf[d]] # 0
  BY <1>1 DEF ChanInv, Go, GoPanics, Issued
<1>5. ASSUME NEW h \in Careful, Cap[h] # 0
      PROVE  Cardinality(Outstanding(h)') <= Cap[h]
  <2>1. CASE ChanOf[c] # h
    <3>1. Outstanding(h)' = Outstanding(h)
      BY <1>1, <2>1 DEF Outstanding
    <3> QED
      BY <1>5, <3>1 DEF ChanInv
  <2>2. CASE ChanOf[c] = h
    <3>1. Cardinality(Outstanding(h)) < Cap[h]
      BY <1>5, <2>2 DEF Go, GoPanics
    <3>2. Outstanding(h)' \subseteq Outstanding(h) \cup {c}
      BY <1>1 DEF Outstanding
    <3>3. /\ IsFiniteSet(Outstanding(h) \cup {c})
          /\ Cardinality(Outstanding(h) \cup {c}) <= Cardinality(Outstanding(h)) + 1
      BY ChanSetsFinite, FS_AddElement
    <3>4. /\ Cardinality(Outstanding(h)') <= Cardinality(Outstanding(h) \cup {c})
          /\ IsFiniteSet(Outstanding(h)')
      BY <3>2, <3>3, FS_Subset
    <3>5. Cardinality(Outstanding(h)') \in Nat /\ Cardinality(Outstanding(h) \cup {c}) \in Nat
      BY <3>3, <3>4, FS_CardinalityType
    <3> QED
      BY <1>1, <2>2, <3>1, <3>3, <3>4, <3>5, ChanSetsFinite
  <2> QED
    BY <2>1, <2>2
<1>6. \A h \in Careful : Cap[h] # 0 => Cardinality(Outstanding(h)') <= Cap[h]
  BY <1>5
<1> QED
  BY <1>1, <1>2, <1>3, <1>4, <1>6 DEF ChanInv

\* A call that ends finds room in a channel whose users keep Go's rule: what
\* is queued there is out, and so is the call itself.
LEMMA RoomLeft ==
  ASSUME TypeOK, OwnerInv, ChanInv, NEW c \in Calls, Issued(c), completed[c] = 0,
         ChanOf[c] \in Careful
  PROVE  Len(chan[ChanOf[c]]) < Cap[ChanOf[c]]
<1> DEFINE h == ChanOf[c]
<1>1. h \in Chans /\ Cap[h] \in Nat /\ Cap[h] # 0 /\ Cardinality(Outstanding(h)) <= Cap[h]
      /\ Cardinality(Queued(h)) = Len(chan[h])
  BY ChansAssumption DEF ChanInv
<1>2. c \in Outstanding(h) /\ c \notin Queued(h)
  BY DEF Outstanding, Queued, ChanInv, IsDone, Issued
<1>3. Queued(h) \cup {c} \subseteq Outstanding(h)
  <2>1. ASSUME NEW d \in Queued(h)
        PROVE  d \in Outstanding(h)
    <3>1. ~Unregistered(d)
      BY DEF Queued, IsDone, OwnerInv, FreshInv
    <3> QED
      BY <3>1 DEF Queued, Outstanding, Unregistered
  <2> QED
    BY <1>2, <2>1
<1>4. Cardinality(Queued(h) \cup {c}) = Cardinality(Queued(h)) + 1
  BY <1>2, ChanSetsFinite, FS_AddElement
<1>5. Cardinality(Queued(h) \cup {c}) <= Cardinality(Outstanding(h))
  BY <1>3, ChanSetsFinite, FS_Subset
<1> QED
  BY <1>1, <1>4, <1>5, ChanSetsFinite

\* Ending a call.
LEMMA ChanEnds ==
  ASSUME TypeOK, OwnerInv, ChanInv, NEW c \in Calls, Ends(c)
  PROVE  ChanInv'
<1> DEFINE g == ChanOf[c]
           room == Len(chan[g]) < Cap[g]
<1>1. /\ Issued(c) /\ completed[c] = 0 /\ ~IsDone(c) /\ c \notin received
      /\ received' = received /\ NoneMade
  BY DEF Ends, ChanInv, IsDone
<1>2. IsDone(c)' /\ \A d \in Calls : d # c => (IsDone(d)' <=> IsDone(d))
  <2>1. /\ completed'[c] = completed[c] + 1
        /\ \A d \in Calls : d # c => completed'[d] = completed[d]
    BY DoneEffect DEF Ends
  <2> QED
    BY <1>1, <2>1 DEF IsDone
<1>3. /\ g \in Chans /\ chan \in [Chans -> Seq(Calls)]
      /\ \A h \in Chans : h # g => chan'[h] = chan[h]
      /\ chan'[g] = IF room THEN Append(chan[g], c) ELSE chan[g]
  <2>1. g \in Chans /\ chan \in [Chans -> Seq(Calls)]
    BY ChansAssumption DEF TypeOK
  <2> QED
    BY <2>1 DEF Ends, Done
<1>4. /\ Queued(g)' = Queued(g) \cup {c} /\ c \notin Queued(g)
      /\ \A h : h # g => Queued(h)' = Queued(h)
  BY <1>1, <1>2 DEF Queued
<1>5. \A h : Outstanding(h)' = Outstanding(h)
  BY <1>1 DEF Outstanding, NoneMade
<1>6. \A d \in received' : IsDone(d)'
  BY <1>1, <1>2 DEF ChanInv, TypeOK
<1>7. \A d \in Calls : Issued(d)' => Cap[ChanOf[d]] # 0
  BY <1>1 DEF ChanInv, NoneMade, Issued
<1>8. ASSUME NEW h \in Chans
      PROVE  /\ \A i \in 1..Len(chan'[h]) :
                  /\ chan'[h][i] \in Queued(h)'
                  /\ \A j \in 1..Len(chan'[h]) : chan'[h][i] = chan'[h][j] => i = j
             /\ h \in Careful =>
                  /\ Cap[h] # 0 => Cardinality(Outstanding(h)') <= Cap[h]
                  /\ Cardinality(Queued(h)') = Len(chan'[h])
                  /\ \A d \in Queued(h)' : \E i \in 1..Len(chan'[h]) : chan'[h][i] = d
  <2>0. h \in Careful /\ Cap[h] # 0 => Cardinality(Outstanding(h)') <= Cap[h]
    BY <1>5 DEF ChanInv
  <2>1. CASE h # g
    BY <1>3, <1>4, <2>0, <2>1 DEF ChanInv
  <2>2. CASE h = g /\ ~room
    <3>1. g \notin Careful /\ chan'[g] = chan[g]
      BY <1>1, <1>3, <2>2, RoomLeft
    <3> QED
      BY <1>3, <1>4, <2>2, <3>1 DEF ChanInv
  <2>3. CASE h = g /\ room
    <3> DEFINE n == Len(chan[g])
    <3>1. /\ n \in Nat /\ Len(chan'[g]) = n + 1 /\ chan'[g][n + 1] = c
          /\ \A i \in 1..n : chan'[g][i] = chan[g][i]
      <4>1. chan[g] \in Seq(Calls) /\ chan'[g] = Append(chan[g], c)
        BY <1>3, <2>3
      <4> QED
        BY <4>1
    <3>2. \A i \in 1..n : chan[g][i] \in Queued(g) /\ \A j \in 1..n : chan[g][i] = chan[g][j] => i = j
      BY <1>3 DEF ChanInv
    <3> HIDE DEF n
    <3>n. \A i \in 1..(n + 1) : i \in 1..n \/ i = n + 1
      BY <3>1
    <3>3. \A i \in 1..(n + 1) : chan'[g][i] \in Queued(g)'
      BY <1>4, <3>1, <3>2, <3>n
    <3>4. \A i \in 1..(n + 1), j \in 1..(n + 1) : chan'[g][i] = chan'[g][j] => i = j
      <4> TAKE i \in 1..(n + 1), j \in 1..(n + 1)
      <4>1. CASE i \in 1..n /\ j \in 1..n
        BY <3>1, <3>2, <4>1
      <4>2. CASE i = n + 1 /\ j = n + 1
        BY <4>2
      <4>3. CASE i \in 1..n /\ j = n + 1
        BY <1>4, <3>1, <3>2, <4>3
      <4>4. CASE i = n + 1 /\ j \in 1..n
        BY <1>4, <3>1, <3>2, <4>4, Zenon
      <4> QED
        BY <3>n, <4>1, <4>2, <4>3, <4>4
    <3>5. g \in Careful => Cardinality(Queued(g)') = n + 1
      <4>1. Cardinality(Queued(g)') = Cardinality(Queued(g)) + 1
        BY <1>4, ChanSetsFinite, FS_AddElement
      <4> QED
        BY <4>1 DEF ChanInv, n
    <3>6. g \in Careful => \A d \in Queued(g)' : \E i \in 1..(n + 1) : chan'[g][i] = d
      <4> SUFFICES ASSUME g \in Careful, NEW d \in Queued(g)'
                   PROVE  \E i \in 1..(n + 1) : chan'[g][i] = d
        OBVIOUS
      <4>1. CASE d = c
        <5>1. n + 1 \in 1..(n + 1)
          BY <3>1
        <5> QED
          BY <3>1, <4>1, <5>1
      <4>2. CASE d \in Queued(g)
        <5>1. PICK i \in 1..n : chan[g][i] = d
          BY <4>2 DEF ChanInv, n
        <5>2. i \in 1..(n + 1) /\ chan'[g][i] = d
          BY <3>1, <5>1
        <5> QED
          BY <5>2
      <4> QED
        BY <1>4, <4>1, <4>2
    <3> QED
      BY <2>0, <2>3, <3>1, <3>3, <3>4, <3>5, <3>6
  <2> QED
    BY <2>1, <2>2, <2>3
<1>9. Careful \subseteq Chans
  BY ChansAssumption
<1> QED
  BY <1>6, <1>7, <1>8, <1>9 DEF ChanInv

\* The head and the tail of a channel.
LEMMA HeadTail ==
  ASSUME NEW s \in Seq(Calls), s # <<>>
  PROVE  /\ Len(s) \in Nat \ {0} /\ Head(s) = s[1] /\ Len(Tail(s)) = Len(s) - 1
         /\ \A i \in 1..(Len(s) - 1) : Tail(s)[i] = s[i + 1]
         /\ s[1] \in Calls
  OBVIOUS

\* Receiving a call.
LEMMA ChanReceive ==
  ASSUME TypeOK, ChanInv, NEW g \in Chans, Receive(g)
  PROVE  ChanInv'
<1> USE DEF userVars
<1> DEFINE c == chan[g][1]
           n == Len(chan[g])
<1>1. chan \in [Chans -> Seq(Calls)] /\ chan[g] # <<>> /\ chan[g] \in Seq(Calls)
  BY DEF Receive, TypeOK
<1>2. /\ n \in Nat \ {0} /\ c \in Calls
      /\ received' = received \cup {c}
      /\ Len(chan'[g]) = n - 1
      /\ \A i \in 1..(n - 1) : chan'[g][i] = chan[g][i + 1]
      /\ \A h \in Chans : h # g => chan'[h] = chan[h]
      /\ UNCHANGED <<pc, completed>>
  BY <1>1, HeadTail DEF Receive
<1>3. \A i \in 1..n : chan[g][i] \in Queued(g) /\ \A j \in 1..n : chan[g][i] = chan[g][j] => i = j
  BY DEF ChanInv
<1>4. 1 \in 1..n /\ c \in Queued(g)
  BY <1>2, <1>3
<1>5. /\ Queued(g)' = Queued(g) \ {c}
      /\ \A h : h # g => Queued(h)' = Queued(h)
  BY <1>2, <1>4 DEF Queued, IsDone
<1>6. \A h : Outstanding(h)' \subseteq Outstanding(h)
  BY <1>2 DEF Outstanding
<1>7. \A d \in received' : IsDone(d)'
  BY <1>2, <1>4 DEF ChanInv, Queued, IsDone
<1>8. \A d \in Calls : Issued(d)' => Cap[ChanOf[d]] # 0
  BY <1>2 DEF ChanInv, Issued
<1>9. \A h \in Careful : Cap[h] # 0 => Cardinality(Outstanding(h)') <= Cap[h]
  <2> SUFFICES ASSUME NEW h \in Careful, Cap[h] # 0
               PROVE  Cardinality(Outstanding(h)') <= Cap[h]
    OBVIOUS
  <2>1. Cardinality(Outstanding(h)) <= Cap[h] /\ Cap[h] \in Nat
    BY ChansAssumption DEF ChanInv
  <2>2. Cardinality(Outstanding(h)') <= Cardinality(Outstanding(h)) /\ IsFiniteSet(Outstanding(h)')
    BY <1>6, ChanSetsFinite, FS_Subset
  <2>3. Cardinality(Outstanding(h)') \in Nat
    BY <2>2, FS_CardinalityType
  <2> QED
    BY <2>1, <2>2, <2>3, ChanSetsFinite
<1>q. g \in Careful =>
        /\ Cardinality(Queued(g)) = n
        /\ \A d \in Queued(g) : \E i \in 1..n : chan[g][i] = d
  BY DEF ChanInv
<1>h. \A h \in Chans : h # g =>
        /\ \A i \in 1..Len(chan'[h]) :
             /\ chan'[h][i] \in Queued(h)'
             /\ \A j \in 1..Len(chan'[h]) : chan'[h][i] = chan'[h][j] => i = j
        /\ h \in Careful =>
             /\ Cardinality(Queued(h)') = Len(chan'[h])
             /\ \A d \in Queued(h)' : \E i \in 1..Len(chan'[h]) : chan'[h][i] = d
  BY <1>2, <1>5 DEF ChanInv
<1> HIDE DEF c, n
<1>i. \A i \in 1..(n - 1) : i + 1 \in 1..n /\ i + 1 # 1
  BY <1>2
<1>10. \A i \in 1..(n - 1) : chan'[g][i] \in Queued(g)'
  BY <1>2, <1>3, <1>4, <1>5, <1>i DEF c
<1>11. \A i \in 1..(n - 1), j \in 1..(n - 1) : chan'[g][i] = chan'[g][j] => i = j
  <2> TAKE i \in 1..(n - 1), j \in 1..(n - 1)
  <2> HAVE chan'[g][i] = chan'[g][j]
  <2>1. i + 1 = j + 1
    BY <1>2, <1>3, <1>i
  <2> QED
    BY <2>1
<1>12. g \in Careful => Cardinality(Queued(g)') = n - 1
  BY <1>4, <1>5, <1>q, ChanSetsFinite, FS_RemoveElement
<1>13. g \in Careful => \A d \in Queued(g)' : \E i \in 1..(n - 1) : chan'[g][i] = d
  <2> SUFFICES ASSUME g \in Careful, NEW d \in Queued(g)'
               PROVE  \E i \in 1..(n - 1) : chan'[g][i] = d
    OBVIOUS
  <2>1. PICK i \in 1..n : chan[g][i] = d
    BY <1>5, <1>q
  <2>2. i # 1
    BY <1>5, <2>1 DEF c
  <2>3. i - 1 \in 1..(n - 1) /\ (i - 1) + 1 = i
    BY <1>2, <2>2
  <2>4. chan'[g][i - 1] = d
    BY <1>2, <2>1, <2>3
  <2> QED
    BY <2>3, <2>4
<1>14. Careful \subseteq Chans
  BY ChansAssumption
<1>15. ASSUME NEW h \in Chans
       PROVE  /\ \A i \in 1..Len(chan'[h]) :
                   /\ chan'[h][i] \in Queued(h)'
                   /\ \A j \in 1..Len(chan'[h]) : chan'[h][i] = chan'[h][j] => i = j
              /\ h \in Careful =>
                   /\ Cardinality(Queued(h)') = Len(chan'[h])
                   /\ \A d \in Queued(h)' : \E i \in 1..Len(chan'[h]) : chan'[h][i] = d
  <2>1. CASE h = g
    BY <1>2, <1>10, <1>11, <1>12, <1>13, <2>1
  <2> QED
    BY <1>h, <2>1
<1> QED
  BY <1>7, <1>8, <1>9, <1>14, <1>15 DEF ChanInv

\* Every step keeps ChanInv.
LEMMA ChanInvStep ==
  ASSUME TypeOK, LockInv, InputInv, OwnerInv, LateInv, ChanInv, [Next]_vars
  PROVE  ChanInv'
<1>1. CASE NothingEnds
  <2>1. \A h : Queued(h)' = Queued(h) /\ Outstanding(h)' = Outstanding(h)
    BY <1>1 DEF NothingEnds, NoneMade, Queued, Outstanding, IsDone
  <2>2. \A d \in Calls : (Issued(d)' <=> Issued(d)) /\ (IsDone(d)' <=> IsDone(d))
    BY <1>1 DEF NothingEnds, NoneMade, Issued, IsDone
  <2> QED
    BY <1>1, <2>1, <2>2 DEF NothingEnds, ChanInv, TypeOK
<1> QED
  BY <1>1, StepKinds, ChanGo, ChanEnds, ChanReceive

-----------------------------------------------------------------------------
(* The theorems.                                                           *)

\* ClientInv holds initially.
LEMMA ClientInvInit == Init => ClientInv
<1> SUFFICES ASSUME Init PROVE ClientInv
  OBVIOUS
<1>1. TypeOK
  BY TypeInit
<1>2. LockInv /\ InputInv
  BY DEF Init, LockInv, InputInv, InSend
<1>3. DOMAIN pending = {} /\ NoCall \notin Calls
  BY CallsAssumption DEF Init
<1>4. OwnerInv
  BY <1>3 DEF Init, OwnerInv, AtMostOnce, FreshInv, EntryInv, TallyInv, HeldInv, OwnedInv, Unregistered
<1>5. WireInv
  BY <1>3 DEF Init, WireInv, WireFacts, OwnReply
<1>6. SeqInv
  <2>1. IsFiniteSet({c \in Calls : ~Unregistered(c)})
    BY CallsAssumption, FS_Subset
  <2> QED
    BY <2>1, FS_CardinalityType DEF Init, SeqInv
<1>7. LateInv
  BY DEF Init, LateInv
<1>8. ChanInv
  <2>1. \A h \in Chans : Len(chan[h]) = 0 /\ 1..Len(chan[h]) = {}
    BY DEF Init
  <2>2. \A h : Queued(h) = {} /\ Outstanding(h) = {}
    BY DEF Init, Queued, Outstanding, IsDone
  <2>3. \A h \in Careful : h \in Chans /\ 0 <= Cap[h]
    BY ChansAssumption
  <2>4. received = {} /\ \A c \in Calls : ~Issued(c)
    BY DEF Init, Issued
  <2> QED
    BY <2>1, <2>2, <2>3, <2>4, FS_EmptySet DEF ChanInv
<1> QED
  BY <1>1, <1>2, <1>4, <1>5, <1>6, <1>7, <1>8 DEF ClientInv

\* ClientInv is kept by every step.
LEMMA ClientInvStep == ClientInv /\ [Next]_vars => ClientInv'
  BY TypeStep, LockInvStep, InputInvStep, OwnerInvStep, WireInvStep, SeqInvStep, LateInvStep,
     ChanInvStep DEF ClientInv

\* ClientInv is an invariant of the client, for any calls, channels, closers.
THEOREM ClientInvariant == Spec => []ClientInv
  BY ClientInvInit, ClientInvStep, PTL DEF Spec

\* Type correctness: the type invariant holds in every reachable state.
THEOREM TypeCorrect == Spec => []TypeOK
<1>1. ClientInv => TypeOK
  BY DEF ClientInv
<1> QED
  BY <1>1, ClientInvariant, PTL

\* done() runs at most once for every call, whoever races for it.
THEOREM CompletedAtMostOnce == Spec => []AtMostOnce
<1>1. ClientInv => AtMostOnce
  BY DEF ClientInv, OwnerInv
<1> QED
  BY <1>1, ClientInvariant, PTL

\* No call is forgotten once Go has returned it.
THEOREM NoCallForgotten == Spec => []NoneForgotten
<1>1. ClientInv => NoneForgotten
  <2> SUFFICES ASSUME ClientInv, NEW c \in Calls, pc[c] = "returned"
               PROVE  \/ IsDone(c)
                      \/ /\ inPc # "exited"
                         /\ inCall = c \/ \E s \in DOMAIN pending : pending[s] = c
    BY DEF NoneForgotten
  <2>1. IsDone(c) \/ inCall = c \/ Entry(c)
    BY DEF ClientInv, OwnerInv, OwnedInv, Unregistered
  <2>2. CASE inPc # "exited"
    BY <2>1, <2>2 DEF Entry
  <2>3. CASE inPc = "exited"
    <3>1. inCall = NoCall /\ todo = {}
      BY <2>3 DEF ClientInv, InputInv
    <3>2. Entry(c) => completed[c] = 1
      BY <2>3, <3>1 DEF ClientInv, OwnerInv, TallyInv, Entry
    <3> QED
      BY <2>1, <3>1, <3>2, CallsAssumption DEF IsDone
  <2> QED
    BY <2>2, <2>3
<1> QED
  BY <1>1, ClientInvariant, PTL

\* Replies are never crossed before the sequence numbers wrap on the wire.
THEOREM RepliesNotCrossed == Spec => []OwnReplyBeforeWrap
<1>1. ClientInv => OwnReplyBeforeWrap
  BY DEF ClientInv, WireInv, WireFacts, OwnReplyBeforeWrap
<1> QED
  BY <1>1, ClientInvariant, PTL

-----------------------------------------------------------------------------
(* The outcome of a completed call.                                        *)

\* No step writes the Error or the Reply of a call that has completed.
LEMMA OutcomeStep ==
  ASSUME ClientInv, [Next]_vars, NEW d \in Calls, IsDone(d)
  PROVE  callError'[d] = callError[d] /\ reply'[d] = reply[d]
<1> USE DEF userVars, lockVars, tableVars, callVars, inVars, wireVars
<1> DEFINE Stable == callError'[d] = callError[d] /\ reply'[d] = reply[d]
<1>a. TypeOK /\ InputInv /\ LockInv /\ OwnerInv /\ completed[d] # 0
  BY DEF ClientInv, IsDone, TypeOK
<1>1. ASSUME NEW c \in Calls, SendRefused(c) PROVE Stable
  <2>1. completed[c] = 0 /\ Complete(c, "ErrShutdown") /\ reply' = reply
    BY <1>a, <1>1 DEF SendRefused, OwnerInv, FreshInv, Unregistered
  <2> QED
    BY <1>a, <2>1 DEF Complete, TypeOK
<1>2. ASSUME NEW c \in Calls, SendRemove(c) PROVE Stable
  <2>1. CASE Lookup(mySeq[c]) = NoCall
    BY <1>2, <2>1 DEF SendRemove
  <2>2. CASE Lookup(mySeq[c]) # NoCall
    <3>1. mySeq[c] \in DOMAIN pending /\ Lookup(mySeq[c]) = pending[mySeq[c]]
      BY <2>2 DEF Lookup
    <3>2. completed[pending[mySeq[c]]] = 0
      BY <1>a, <1>2, <3>1 DEF SendRemove, OwnerInv, TallyInv, InputInv, LockInv
    <3>3. Complete(pending[mySeq[c]], "write") /\ reply' = reply
      BY <1>2, <2>2, <3>1 DEF SendRemove
    <3> QED
      BY <1>a, <3>2, <3>3 DEF Complete, TypeOK
  <2> QED
    BY <2>1, <2>2
<1>3. CASE InputErrorBody
  <2>1. completed[inCall] = 0
    BY <1>a, <1>3 DEF InputErrorBody, OwnerInv, HeldInv, InputInv
  <2> QED
    BY <1>a, <1>3, <2>1 DEF InputErrorBody, Complete, TypeOK
<1>4. CASE InputBody
  <2>1. completed[inCall] = 0
    BY <1>a, <1>4 DEF InputBody, OwnerInv, HeldInv, InputInv
  <2> QED
    BY <1>a, <1>4, <2>1 DEF InputBody, Complete, TypeOK
<1>5. CASE InputTerminate
  <2>1. PICK s \in todo : Complete(pending[s], inErr)
    BY <1>5 DEF InputTerminate
  <2>2. completed[pending[s]] = 0
    BY <1>a DEF OwnerInv, TallyInv, TypeOK
  <2> QED
    BY <1>a, <1>5, <2>1, <2>2 DEF InputTerminate, Complete, TypeOK
<1>6. ASSUME NEW c \in Calls, Send(c), ~SendRefused(c), ~SendRemove(c) PROVE Stable
  BY <1>6 DEF Send, Go, GoPanics, SendLock, SendRegister, SendWrite, SendWritten, SendUnlock
<1>7. ASSUME Input, ~InputErrorBody, ~InputBody, ~InputTerminate PROVE Stable
  BY <1>7 DEF Input, InputHeader, InputHeaderFails, InputLookup, InputDiscard, InputTermLock,
     InputTermMutex, InputExit
<1>8. ASSUME NEW h \in Chans, Receive(h) PROVE Stable
  BY <1>8 DEF Receive
<1>9. ASSUME NEW k \in Closers, CloseBegin(k) \/ CloseCodec(k) PROVE Stable
  BY <1>9 DEF CloseBegin, CloseCodec
<1>10. CASE PeerClose \/ UNCHANGED vars
  BY <1>10 DEF PeerClose, vars
<1> QED
  BY <1>1, <1>2, <1>3, <1>4, <1>5, <1>6, <1>7, <1>8, <1>9, <1>10 DEF Next, Quiescent

\* A completed call is never touched again, so its user reads it safely.
THEOREM OutcomeNeverChanges == Spec => OutcomeStable
<1>1. ClientInv /\ [Next]_vars =>
        [\A c \in Calls : IsDone(c) => callError'[c] = callError[c] /\ reply'[c] = reply[c]]_vars
  BY OutcomeStep
<1> QED
  BY <1>1, ClientInvariant, PTL DEF Spec, OutcomeStable

-----------------------------------------------------------------------------
(* Channels and late calls.                                                *)

\* done() drops no completion on a channel whose users keep the rule of Go's
\* comment, however the calls race and whenever they are received.
THEOREM CompletionsDelivered == Spec => []NoCompletionDropped
<1>1. ClientInv => NoCompletionDropped
  <2> SUFFICES ASSUME ClientInv, NEW c \in Calls, ChanOf[c] \in Careful, IsDone(c), c \notin received
               PROVE  \E i \in 1..Len(chan[ChanOf[c]]) : chan[ChanOf[c]][i] = c
    BY DEF NoCompletionDropped
  <2>1. c \in Queued(ChanOf[c])
    BY DEF Queued
  <2> QED
    BY <2>1 DEF ClientInv, ChanInv
<1> QED
  BY <1>1, ClientInvariant, PTL

\* A call made on a client that is closing or shut down never reaches the peer.
THEOREM LateCallsNotSent == Spec => []LateNeverSent
<1>1. ClientInv => LateNeverSent
  BY DEF ClientInv, LateInv, LateNeverSent
<1> QED
  BY <1>1, ClientInvariant, PTL

-----------------------------------------------------------------------------
(* The client implements RpcCalls.                                         *)

\* As many numbers as calls are enough for the numbers not to wrap.
LEMMA NoWrap ==
  ASSUME Cardinality(Calls) <= WireMod, ClientInv
  PROVE  WireFacts
<1>1. {c \in Calls : ~Unregistered(c)} \in SUBSET Calls
  OBVIOUS
<1>2. /\ Cardinality({c \in Calls : ~Unregistered(c)}) <= Cardinality(Calls)
      /\ Cardinality({c \in Calls : ~Unregistered(c)}) \in Nat /\ Cardinality(Calls) \in Nat
  BY <1>1, CallsAssumption, FS_Subset, FS_CardinalityType
<1>3. seq \in Nat /\ seq <= Cardinality({c \in Calls : ~Unregistered(c)})
  BY DEF ClientInv, TypeOK, SeqInv
<1>4. seq <= WireMod
  BY <1>2, <1>3, WireAssumption
<1> QED
  BY <1>4 DEF ClientInv, WireInv

\* The client starts as RpcCalls does.
LEMMA StartsAsCalls ==
  ASSUME Init
  PROVE  Abstract!CallsInit
  BY DEF Init, Abstract!CallsInit, phaseBar, outcomeBar, IsDone, Issued, Down

\* Making a call is Issue; a call that panics does not exist for RpcCalls.
LEMMA GoIsIssue ==
  ASSUME ClientInv, NEW c \in Calls, Go(c)
  PROVE  Abstract!Issue(c)
<1> USE DEF lockVars, tableVars, callVars
<1>1. /\ pc \in [Calls -> SendPcs] /\ pc[c] = "idle" /\ late \subseteq Calls
      /\ pc' = [pc EXCEPT ![c] = "lock"]
      /\ late' = IF Down THEN late \cup {c} ELSE late
      /\ UNCHANGED <<completed, callError, reply, closing, shutdown>>
  BY DEF ClientInv, TypeOK, Go
<1>2. ~IsDone(c) /\ ~Issued(c) /\ c \notin late
  BY <1>1 DEF ClientInv, OwnerInv, FreshInv, LateInv, Unregistered, IsDone, Issued
<1>3. \A d \in Calls : /\ IsDone(d)' <=> IsDone(d)
                       /\ d # c => (Issued(d)' <=> Issued(d)) /\ (d \in late' <=> d \in late)
  BY <1>1 DEF IsDone, Issued
<1>4. Issued(c)' /\ (c \in late' <=> Down)
  BY <1>1, <1>2 DEF Issued
<1>5. phaseBar[c] = "new"
  BY <1>2 DEF phaseBar
<1>6. phaseBar' = [phaseBar EXCEPT ![c] = IF ~Down THEN "issued" ELSE "late"]
  BY <1>2, <1>3, <1>4 DEF phaseBar
<1>7. outcomeBar' = outcomeBar
  BY <1>1, <1>3 DEF outcomeBar
<1>8. (~Down)' = ~Down
  BY <1>1 DEF Down
<1> QED
  BY <1>5, <1>6, <1>7, <1>8 DEF Abstract!Issue

\* Completing a call is End.
LEMMA EndsIsEnd ==
  ASSUME ClientInv, WireFacts, [Next]_vars, NEW c \in Calls, Ends(c)
  PROVE  Abstract!End(c)
<1>1. /\ Issued(c) /\ ~IsDone(c) /\ NoneMade /\ UNCHANGED <<late, closing, shutdown>>
      /\ completed \in [Calls -> Nat]
  BY DEF Ends, IsDone, ClientInv, TypeOK
<1>2. /\ completed'[c] = completed[c] + 1
      /\ \A d \in Calls : d # c => completed'[d] = completed[d]
  BY DoneEffect DEF Ends, ClientInv
<1>3. IsDone(c)' /\ \A d \in Calls : /\ d # c => (IsDone(d)' <=> IsDone(d))
                                     /\ Issued(d)' <=> Issued(d)
  BY <1>1, <1>2 DEF IsDone, Issued, NoneMade
<1>4. phaseBar[c] \in {"issued", "late"} /\ (phaseBar[c] = "late" <=> c \in late)
  BY <1>1 DEF phaseBar
<1>5. phaseBar' = [phaseBar EXCEPT ![c] = "done"]
  BY <1>1, <1>3 DEF phaseBar
<1>6. /\ c \in late => callError'[c] = "ErrShutdown"
      /\ callError'[c] \in {"nil", "server"} => reply'[c] = c
  BY CallsAssumption DEF Ends, WireFacts
<1> DEFINE o == outcomeBar'[c]
<1>7. /\ o \in {"answered", "failed", "refused"}
      /\ c \in late => o = "refused"
  BY <1>3, <1>6 DEF outcomeBar
<1>8. \A d \in Calls : IsDone(d) => callError'[d] = callError[d] /\ reply'[d] = reply[d]
  BY OutcomeStep
<1>9. outcomeBar' = [outcomeBar EXCEPT ![c] = o]
  <2>1. \A d \in Calls : d # c => outcomeBar'[d] = outcomeBar[d]
    BY <1>3, <1>8 DEF outcomeBar
  <2> QED
    BY <2>1 DEF outcomeBar
<1>10. (~Down)' = ~Down
  BY <1>1 DEF Down
<1> HIDE DEF o
<1> QED
  BY <1>4, <1>5, <1>7, <1>9, <1>10 DEF Abstract!End, Abstract!Outcomes

\* The other steps leave the calls alone; they may take the client down.
LEMMA OthersGoDown ==
  ASSUME ClientInv, [Next]_vars,
         NothingEnds \/ (\E c \in Calls : GoPanics(c)) \/ \E h \in Chans : Receive(h)
  PROVE  Abstract!GoDown \/ UNCHANGED Abstract!callsVars
<1> USE DEF userVars, lockVars, tableVars, callVars, inVars, wireVars
<1>1. /\ UNCHANGED <<completed, callError, reply, late>>
      /\ \A d \in Calls : Issued(d)' <=> Issued(d)
  <2>1. CASE NothingEnds
    BY <2>1 DEF NothingEnds, NoneMade, Issued
  <2>2. ASSUME NEW c \in Calls, GoPanics(c)
        PROVE  /\ UNCHANGED <<completed, callError, reply, late>>
               /\ \A d \in Calls : Issued(d)' <=> Issued(d)
    <3>1. pc \in [Calls -> SendPcs]
      BY DEF ClientInv, TypeOK
    <3> QED
      BY <2>2, <3>1 DEF GoPanics, Issued
  <2>3. ASSUME NEW h \in Chans, Receive(h)
        PROVE  /\ UNCHANGED <<completed, callError, reply, late>>
               /\ \A d \in Calls : Issued(d)' <=> Issued(d)
    BY <2>3 DEF Receive, Issued
  <2> QED
    BY <2>1, <2>2, <2>3
<1>2. \A d \in Calls : IsDone(d)' <=> IsDone(d)
  BY <1>1 DEF IsDone
<1>3. phaseBar' = phaseBar /\ outcomeBar' = outcomeBar
  BY <1>1, <1>2 DEF phaseBar, outcomeBar
<1>4. Down => Down'
  BY DEF Down, Next, Send, Input, Go, GoPanics, SendLock, SendRefused, SendRegister, SendWrite,
     SendWritten, SendRemove, SendUnlock, Receive, InputHeader, InputHeaderFails, InputLookup,
     InputDiscard, InputErrorBody, InputBody, InputTermLock, InputTermMutex, InputTerminate,
     InputExit, CloseBegin, CloseCodec, PeerClose, Quiescent, vars
<1>5. Down \in BOOLEAN /\ Down' \in BOOLEAN
  BY DEF Down
<1>6. CASE Down' = Down
  BY <1>3, <1>6 DEF Abstract!callsVars
<1>7. CASE ~Down /\ Down'
  BY <1>3, <1>7 DEF Abstract!GoDown
<1> QED
  BY <1>4, <1>5, <1>6, <1>7

\* Every step of the client is a step of RpcCalls, or none.
LEMMA StepsAsCalls ==
  ASSUME Cardinality(Calls) <= WireMod, ClientInv, [Next]_vars
  PROVE  [Abstract!CallsNext]_(Abstract!callsVars)
<1>1. WireFacts
  BY NoWrap
<1>2. \/ \E c \in Calls : Go(c) \/ GoPanics(c) \/ Ends(c)
      \/ \E h \in Chans : Receive(h)
      \/ NothingEnds
  BY StepKinds DEF ClientInv
<1>3. ASSUME NEW c \in Calls, Go(c) PROVE Abstract!CallsNext
  BY <1>3, GoIsIssue DEF Abstract!CallsNext
<1>4. ASSUME NEW c \in Calls, Ends(c) PROVE Abstract!CallsNext
  BY <1>1, <1>4, EndsIsEnd DEF Abstract!CallsNext
<1>5. ASSUME NothingEnds \/ (\E c \in Calls : GoPanics(c)) \/ \E h \in Chans : Receive(h)
      PROVE  Abstract!CallsNext \/ UNCHANGED Abstract!callsVars
  BY <1>5, OthersGoDown DEF Abstract!CallsNext
<1> QED
  BY <1>2, <1>3, <1>4, <1>5

\* The client keeps its promise to its users: as long as it makes no more calls
\* than the wire has sequence numbers, every behaviour of Go, send, input and
\* Close is one RpcCalls allows, whatever codec and peer do.
THEOREM ClientImplementsCalls ==
  ASSUME Cardinality(Calls) <= WireMod
  PROVE  Spec => ImplementsCalls
<1>1. Init => Abstract!CallsInit
  BY StartsAsCalls
<1>2. ClientInv /\ [Next]_vars => [Abstract!CallsNext]_(Abstract!callsVars)
  BY StepsAsCalls
<1> QED
  BY <1>1, <1>2, ClientInvariant, PTL DEF Spec, ImplementsCalls, Abstract!CallsSpec
=============================================================================
