------------------------------- MODULE RpcCodec -------------------------------
(***************************************************************************)
(* One direction of a connection between two rpc codecs: goroutines that   *)
(* write messages, each a header and a body encoded one after the other,   *)
(* and a reader that reads headers and bodies in pairs.  codec.kind is the *)
(* codec in use:                                                           *)
(*   "msgpack"    MsgpackCodec (src/net-rpc-msgpackrpc/codec.go) and       *)
(*                goRpcCodec (src/go-msgpack/codec/rpc.go)                 *)
(*   "spec"       msgpackSpecRpcCodec (src/go-msgpack/codec/msgpack.go),   *)
(*                whose message is one array: the descriptor and the first *)
(*                three elements are its header, the last is its body      *)
(*   "gobClient"  gobClientCodec (src/net/rpc/client.go)                   *)
(*   "gobServer"  gobServerCodec (src/net/rpc/server.go)                   *)
(* Those of "msgpack" have a write lock; writes of the others are          *)
(* serialised by their callers (Client.reqMutex, one ServeRequest at a     *)
(* time), which is the same lock here.  Both ends may be closed at any     *)
(* moment; closed is a plain bool that no lock protects.                   *)
(***************************************************************************)
EXTENDS Naturals, Sequences

CONSTANTS
  Msgs,       \* messages, each written once by its own goroutine
  NoMsg,
  Kinds,      \* the codecs to look at
  Unencodable \* messages whose body the encoder may reject

ASSUME CodecAssumption ==
  /\ NoMsg \notin Msgs
  /\ Unencodable \subseteq Msgs
  /\ Kinds \subseteq {"msgpack", "spec", "gobClient", "gobServer"}

VARIABLES
  wpc,        \* where each writer is; "ok" and "error" are results
  lock,       \* writeLock / mu: TRUE when locked
  buf,        \* what is in the bufio.Writer
  wire,       \* everything that left for the peer
  closed,     \* the writing codec's closed / cls
  connClosed, \* the connection is closed on the writing side
  ignored,    \* history: gobServerCodec called Close to stop the stream and
              \* found closed set while the connection was still open
  rpc,        \* where the reader is
  rpos,       \* items of the wire the reader has consumed
  rhdr,       \* the message whose header it read last
  got,        \* the header and body items it paired
  rclosed,    \* the reading codec's closed
  codec       \* kind; buffered: there is a bufio.Writer; rejected: the
              \* messages whose body its encoder rejects.  Never changes.

writeVars == <<wpc, lock, buf>>
readVars == <<rpc, rpos, rhdr, got, rclosed>>
vars == <<writeVars, wire, closed, connClosed, ignored, readVars, codec>>

\* What the encoder emits: a header, a body, or part of a rejected body.
Item(kind, m) == [kind |-> kind, msg |-> m]
Items == [kind : {"header", "body", "part"}, msg : Msgs]

\* bufWrites is a parameter of MsgpackCodec; the other codecs always buffer.
Codecs ==
  {c \in [kind : Kinds, buffered : BOOLEAN, rejected : SUBSET Unencodable] :
     c.buffered \/ c.kind = "msgpack"}

\* The codecs that write with the Encoder of go-msgpack.
UsesMsgpack == codec.kind \in {"msgpack", "spec"}

Init ==
  /\ wpc = [m \in Msgs |-> "idle"]
  /\ lock = FALSE
  /\ buf = <<>>
  /\ wire = <<>>
  /\ closed = FALSE
  /\ connClosed = FALSE
  /\ ignored = FALSE
  /\ rpc = "header"
  /\ rpos = 0
  /\ rhdr = NoMsg
  /\ got = <<>>
  /\ rclosed = FALSE
  /\ codec \in Codecs

-----------------------------------------------------------------------------
(* Writing: WriteRequest and WriteResponse.                                *)

Goto(m, label) == wpc' = [wpc EXCEPT ![m] = label]

\* An encoder emits an item: into the buffer, or straight to the connection.
Emit(item) ==
  IF codec.buffered
    THEN buf' = Append(buf, item) /\ UNCHANGED wire
    ELSE ~connClosed /\ wire' = Append(wire, item) /\ UNCHANGED buf

\* Mutant of WriteLock: no lock around a write.
WriteLockFree(m) ==
  /\ wpc[m] = "idle"
  /\ Goto(m, "check")
  /\ UNCHANGED <<lock, buf, wire, closed, connClosed, ignored, readVars, codec>>

WriteLock(m) ==
  /\ wpc[m] = "idle"
  /\ ~lock
  /\ lock' = TRUE
  /\ Goto(m, "check")
  /\ UNCHANGED <<buf, wire, closed, connClosed, ignored, readVars, codec>>

\* Mutant of CheckClosed: the lock is held for the test only.
CheckClosedUnlocks(m) ==
  /\ wpc[m] = "check"
  /\ lock' = FALSE
  /\ Goto(m, IF closed /\ UsesMsgpack THEN "failed" ELSE "header")
  /\ UNCHANGED <<buf, wire, closed, connClosed, ignored, readVars, codec>>

\* The closed test of write; the gob codecs have none.
CheckClosed(m) ==
  /\ wpc[m] = "check"
  /\ Goto(m, IF closed /\ UsesMsgpack THEN "failed" ELSE "header")
  /\ UNCHANGED <<lock, buf, wire, closed, connClosed, ignored, readVars, codec>>

\* The header, or the elements of the array before the body.
EncodeHeader(m) ==
  /\ wpc[m] = "header"
  /\ Emit(Item("header", m))
  /\ Goto(m, "body")
  /\ UNCHANGED <<lock, closed, connClosed, ignored, readVars, codec>>

\* Mutant of EncodeBody: the buffer is not flushed after the body.
EncodeBodyUnflushed(m) ==
  /\ wpc[m] = "body"
  /\ m \notin codec.rejected
  /\ Emit(Item("body", m))
  /\ Goto(m, "written")
  /\ UNCHANGED <<lock, closed, connClosed, ignored, readVars, codec>>

EncodeBody(m) ==
  /\ wpc[m] = "body"
  /\ m \notin codec.rejected
  /\ Emit(Item("body", m))
  /\ Goto(m, "flush")
  /\ UNCHANGED <<lock, closed, connClosed, ignored, readVars, codec>>

\* A body the encoder rejects: the msgpack encoder has written what came
\* before the offending value, gob encodes a message before it writes it.
RejectBody(m) ==
  /\ wpc[m] = "body"
  /\ m \in codec.rejected
  /\ \/ UsesMsgpack /\ Emit(Item("part", m))
     \/ UNCHANGED <<buf, wire>>
  /\ Goto(m, IF codec.kind = "gobServer" THEN "giveUp" ELSE "failed")
  /\ UNCHANGED <<lock, closed, connClosed, ignored, readVars, codec>>

\* Mutant of GiveUp: the connection stays open.
GiveUpOpen(m) ==
  /\ wpc[m] = "giveUp"
  /\ wire' = IF connClosed THEN wire ELSE wire \o buf
  /\ buf' = <<>>
  /\ Goto(m, "failed")
  /\ UNCHANGED <<lock, closed, connClosed, ignored, readVars, codec>>

\* gobServerCodec flushes what it has and, if that worked, calls its Close,
\* which does nothing when closed is set: another Close that has set the flag
\* may not have closed the connection yet.
GiveUp(m) ==
  /\ wpc[m] = "giveUp"
  /\ IF connClosed
       THEN UNCHANGED <<buf, wire, closed, connClosed, ignored>>
       ELSE /\ wire' = wire \o buf
            /\ buf' = <<>>
            /\ closed' = TRUE
            /\ connClosed' = ~closed
            /\ ignored' = (ignored \/ closed)
  /\ Goto(m, "failed")
  /\ UNCHANGED <<lock, readVars, codec>>

Flush(m) ==
  /\ wpc[m] = "flush"
  /\ IF connClosed /\ codec.buffered
       THEN Goto(m, "failed") /\ UNCHANGED <<buf, wire>>
       ELSE Goto(m, "written") /\ wire' = wire \o buf /\ buf' = <<>>
  /\ UNCHANGED <<lock, closed, connClosed, ignored, readVars, codec>>

\* An encoder writing to a closed connection without a buffer fails.
WriteFails(m) ==
  /\ wpc[m] \in {"header", "body"}
  /\ connClosed /\ ~codec.buffered
  /\ Goto(m, "failed")
  /\ UNCHANGED <<lock, buf, wire, closed, connClosed, ignored, readVars, codec>>

WriteUnlock(m) ==
  /\ wpc[m] \in {"written", "failed"}
  /\ lock' = FALSE
  /\ Goto(m, IF wpc[m] = "written" THEN "ok" ELSE "error")
  /\ UNCHANGED <<buf, wire, closed, connClosed, ignored, readVars, codec>>

\* The bufio.Writer fills up while something is encoded and writes it out.
Spill ==
  /\ \E m \in Msgs : wpc[m] \in {"body", "flush"}
  /\ buf # <<>>
  /\ ~connClosed
  /\ wire' = wire \o buf
  /\ buf' = <<>>
  /\ UNCHANGED <<wpc, lock, closed, connClosed, ignored, readVars, codec>>

-----------------------------------------------------------------------------
(* Close, in two steps: the flag, then the connection.                     *)

CloseFlag ==
  /\ ~closed
  /\ closed' = TRUE
  /\ UNCHANGED <<writeVars, wire, connClosed, ignored, readVars, codec>>

CloseConn ==
  /\ closed /\ ~connClosed
  /\ connClosed' = TRUE
  /\ UNCHANGED <<writeVars, wire, closed, ignored, readVars, codec>>

-----------------------------------------------------------------------------
(* Reading, as input and ServeRequest do: a header, then its body.         *)

\* The items that make up the value at position i: an array that starts with a
\* header holds what comes after it, too.
Extent(i) == IF codec.kind = "spec" /\ wire[i].kind = "header" THEN 2 ELSE 1

\* All of what is read next has arrived.
HeaderThere == rpos < Len(wire)
BodyThere == HeaderThere /\ rpos + Extent(rpos + 1) <= Len(wire)

\* The next item is taken for a header; one that is not may fail to decode, or
\* pass for the header of any message.
TakeHeader ==
  /\ rpc = "header"
  /\ ~rclosed
  /\ HeaderThere
  /\ rpos' = rpos + 1
  /\ IF wire[rpos + 1].kind = "header"
       THEN rhdr' = wire[rpos + 1].msg /\ rpc' = "body"
       ELSE \/ UNCHANGED rhdr /\ rpc' = "stopped"
            \/ rhdr' \in Msgs /\ rpc' = "body"
  /\ UNCHANGED <<writeVars, wire, closed, connClosed, ignored, got, rclosed, codec>>

ReadHeader == codec.kind # "spec" /\ TakeHeader

\* The descriptor of an array of four and its first three elements.
ParseCustomHeader == codec.kind = "spec" /\ TakeHeader

\* read of a body decodes whatever value is next; one that is not a body, or
\* only part of one, may decode as the wrong thing or fail
ReadBody ==
  /\ rpc = "body"
  /\ ~rclosed
  /\ BodyThere
  /\ rpos' = rpos + Extent(rpos + 1)
  /\ \/ got' = Append(got, <<rhdr, wire[rpos + 1]>>) /\ rpc' = "header"
     \/ wire[rpos + 1].kind # "body" /\ UNCHANGED got /\ rpc' = "stopped"
  /\ UNCHANGED <<writeVars, wire, closed, connClosed, ignored, rhdr, rclosed, codec>>

\* io.EOF: this end was closed, or the other was and there is no further value
ReadEOF ==
  /\ rpc \in {"header", "body"}
  /\ rclosed \/ (connClosed /\ ~(IF rpc = "header" THEN HeaderThere ELSE BodyThere))
  /\ rpc' = "stopped"
  /\ UNCHANGED <<writeVars, wire, closed, connClosed, ignored, rpos, rhdr, got, rclosed, codec>>

ReaderClose ==
  /\ ~rclosed
  /\ rclosed' = TRUE
  /\ UNCHANGED <<writeVars, wire, closed, connClosed, ignored, rpc, rpos, rhdr, got, codec>>

-----------------------------------------------------------------------------
Write(m) ==
  \/ WriteLock(m) \/ CheckClosed(m) \/ EncodeHeader(m) \/ EncodeBody(m) \/ RejectBody(m)
  \/ GiveUp(m) \/ Flush(m) \/ WriteFails(m) \/ WriteUnlock(m)

Read == ReadHeader \/ ParseCustomHeader \/ ReadBody \/ ReadEOF

\* All writes have returned and the reader has stopped.
Ended ==
  /\ \A m \in Msgs : wpc[m] \in {"ok", "error"}
  /\ rpc = "stopped"
  /\ UNCHANGED vars

Next ==
  \/ \E m \in Msgs : Write(m)
  \/ Spill
  \/ CloseFlag \/ CloseConn
  \/ Read
  \/ ReaderClose
  \/ Ended

Spec == Init /\ [][Next]_vars

\* Goroutines that can run do run; nobody has to close anything.
FairSpec == Spec /\ (\A m \in Msgs : WF_vars(Write(m))) /\ WF_vars(Read)

-----------------------------------------------------------------------------
(* Properties.                                                             *)

\* The type invariant of the connection.
TypeOK ==
  /\ wpc \in [Msgs -> {"idle", "check", "header", "body", "giveUp", "flush",
                       "written", "failed", "ok", "error"}]
  /\ lock \in BOOLEAN
  /\ buf \in Seq(Items)
  /\ wire \in Seq(Items)
  /\ closed \in BOOLEAN
  /\ connClosed \in BOOLEAN
  /\ ignored \in BOOLEAN
  /\ rpc \in {"header", "body", "stopped"}
  /\ rpos \in 0..Len(wire)
  /\ rhdr \in Msgs \cup {NoMsg}
  /\ got \in Seq(Msgs \X Items)
  /\ rclosed \in BOOLEAN
  /\ codec \in Codecs

\* A header and its payload are sent as a unit: until a message that cannot be
\* encoded leaves its header, what follows a header is its own body, whoever
\* else writes or closes (write, WriteRequest, WriteResponse).
SentAsUnit ==
  \A i \in 1..Len(wire) :
    (wire[i].kind = "header" /\ \A j \in 1..i : wire[j].msg \notin codec.rejected) =>
       i = Len(wire) \/ wire[i + 1] = Item("body", wire[i].msg)

\* The reader never pairs a header with the body of another message.
PairsIntact == \A i \in 1..Len(got) : got[i][2] = Item("body", got[i][1])

\* Damage starts with a rejected body: as long as every header the reader has
\* met is of a message that could be encoded, its pairs are intact.
DamageOnlyAfterReject ==
  \A i \in 1..Len(got) :
    (\A j \in 1..i : got[j][1] \notin codec.rejected) => got[i][2] = Item("body", got[i][1])

\* gobServerCodec closes the connection when it cannot encode a response, so
\* that the reader pairs every header with its own body and never completes a
\* message whose write reported an encoding error; unless a Close that is under
\* way has set closed, which makes WriteResponse's own Close do nothing.
GobServerStops ==
  codec.kind = "gobServer" /\ ~ignored =>
    PairsIntact /\ \A i \in 1..Len(got) : got[i][1] \notin codec.rejected

\* The header of a rejected message is on the wire before that of m.
Damaged(m) ==
  \E j \in 1..Len(wire) :
    wire[j] = Item("header", m) /\ \E i \in 1..j : wire[i].msg \in codec.rejected

\* A message whose write returned nil reaches the reader, unless an end is
\* closed or the stream was damaged before it: nothing is left behind in the
\* buffer.
WrittenArrives ==
  \A m \in Msgs :
    (wpc[m] = "ok") ~> \/ connClosed \/ rclosed \/ Damaged(m)
                       \/ \E i \in 1..Len(got) : got[i] = <<m, Item("body", m)>>

-----------------------------------------------------------------------------
(* The inductive invariant.                                                *)

\* Everything encoded so far, in order.
Emitted == wire \o buf

\* A writer between locking and unlocking.
Writing(m) == wpc[m] \notin {"idle", "ok", "error"}

\* One writer at a time; a codec without a bufio.Writer keeps nothing back.
LockInv ==
  /\ \A m \in Msgs : Writing(m) => lock
  /\ \A m, n \in Msgs : Writing(m) /\ Writing(n) => m = n
  /\ ~codec.buffered => buf = <<>>

\* As SentAsUnit, for all that was encoded: behind the last header there is
\* nothing yet because its writer is at the body, or because it has failed.
StreamInv ==
  \A i \in 1..Len(Emitted) :
    (Emitted[i].kind = "header" /\ \A j \in 1..i : Emitted[j].msg \notin codec.rejected) =>
      IF i = Len(Emitted)
        THEN wpc[Emitted[i].msg] = "body" \/ (connClosed /\ ~codec.buffered)
        ELSE Emitted[i + 1] = Item("body", Emitted[i].msg)

\* What is not a header is of the message whose header is before it; a writer
\* at the body has just encoded its header.
UnitInv ==
  /\ \A i \in 1..Len(Emitted) :
       Emitted[i].kind # "header" => i > 1 /\ Emitted[i - 1] = Item("header", Emitted[i].msg)
  /\ \A m \in Msgs :
       wpc[m] = "body" => Len(Emitted) > 0 /\ Emitted[Len(Emitted)] = Item("header", m)

\* gobServerCodec sends at most the header of a rejected response, and last.
GobInv ==
  codec.kind = "gobServer" /\ ~ignored =>
    /\ \A i \in 1..Len(Emitted) :
         Emitted[i].msg \in codec.rejected /\ ~connClosed =>
           i = Len(Emitted) /\ wpc[Emitted[i].msg] \in {"body", "giveUp"}
    /\ \A i \in 1..Len(wire) : wire[i].msg \in codec.rejected => i = Len(wire)

\* As long as the reader has completed no rejected message, it is behind the
\* header it read last or behind a body, and unless that header is of a rejected
\* message there is nothing of one behind it.
ReadInv ==
  /\ rpc = "body" => rpos > 0 /\ rhdr \in Msgs
  /\ (\A i \in 1..Len(got) : got[i][1] \notin codec.rejected) =>
       /\ rpc = "body" => wire[rpos] = Item("header", rhdr)
       /\ rpc = "header" => rpos = 0 \/ wire[rpos].kind # "header"
       /\ rpc = "header" \/ (rpc = "body" /\ rhdr \notin codec.rejected) =>
            \A j \in 1..rpos : wire[j].msg \notin codec.rejected

\* The inductive invariant.
CodecInv ==
  /\ TypeOK /\ LockInv /\ StreamInv /\ UnitInv /\ GobInv /\ ReadInv
  /\ DamageOnlyAfterReject /\ GobServerStops
=============================================================================
