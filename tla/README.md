# consul-net-rpc in TLA+

TLA+ models of the RPC stack in this repository: the `net/rpc` client and
server, `CallWithCodec`, the codecs between them and the wire, the encoder and
decoder of `go-msgpack` with their three binary formats, and the cache of type
information that all of them share. TLC checks them on small instances; TLAPS
proves the central theorems about the client, the server, the codecs,
`CallWithCodec`, the values of the three formats (integers, floats, times, lengths,
headers of extensions), binc's symbol tables and the type cache for all
instances.

`PROJECT.json` lists components, runs, hazards, findings, theorems and, for every
definition that models code, the source lines it stands for.

## 1. Inventory

| component | state it keeps | operations | interacts with |
|---|---|---|---|
| RPC client (`net/rpc/client.go`) | `seq`, `pending`, `closing`, `shutdown`, the shared `request`, two mutexes, each `Call`'s `Error`/`Reply`/`Done` | `Go`, `Call`, `send`, `input`, `Close`, `done` | users through `Done` channels; the codec through blocking reads and writes |
| RPC server (`net/rpc/server.go`) | `serviceMap`, the free lists `freeReq`/`freeResp`, `numCalls` | `register`, `readRequest`, `ServeRequestContext`, `service.call`, `sendResponse`, get/free of headers | one goroutine per connection, all over the shared lists and map; user interceptors and methods as callbacks |
| RPC codecs (`net-rpc-msgpackrpc/codec.go`, `codec/rpc.go`, the two gob codecs) | write buffer, `closed`, the write lock | header/body writes and reads, `Close` | concurrent writers, one reader, a peer |
| msgpack-rpc spec codec (`codec/msgpack.go`) | the peeked header | array-framed headers, 32-bit `Seq` | as above |
| msgpack, binc and simple drivers | a peeked descriptor; binc also a symbol table per direction | encode and decode of scalars, lengths, extensions, times | the encoder and decoder core |
| encoder/decoder core (`encode.go`, `decode.go`) | the stream; the destination, which may have been used before | walks of Go values by reflection | a driver, the type information, the extensions of the handle |
| type information (`helper.go`) | a map of the process from types to `typeInfo`s, under an RWMutex | `getTypeInfo`, `indexForEncName` | every goroutine that encodes or decodes |
| extension registry (`helper.go`) | the handle's list of types, tags and functions | `AddExt`, lookups by type and by tag | the core |
| `CallWithCodec` (`net-rpc-msgpackrpc/client.go`) | a counter | one synchronous call on a codec | a codec used for many calls, without a `Client` |
| constructors, dialling, debug page | none of their own | I/O, HTML | client, server |

What is hard here, and to be covered by properties:

* *Concurrency.* In the client, `send`'s error path, an answer and `input`'s last
  loop may all be after the same call; two mutexes, one held over a blocking
  write, keep them apart. In the server, connections recycle header objects
  through shared linked lists. In the codecs, goroutines write two-part messages
  while anyone may close either end. Goroutines of all connections fill one map
  of type information.
* *Failure.* Writes fail after the peer got the request; peers answer twice, in
  any order, or never; bodies fail to encode after their header was buffered,
  or to decode half way; interceptors refuse a request before its body is read.
* *Places in a stream.* Nothing marks where a message starts: each reader must
  take exactly what one writer wrote, whatever it wants of it, and
  `CallWithCodec` tells its own answer from another's by position alone.
* *What was there before.* Destinations, slices, maps, buffers and header
  objects are used again and are updated rather than replaced.
* *Waiting.* Every issued call must end once the connection does, although
  `input` needs a lock that a blocked write holds.
* *Numbers.* `Seq` and symbol numbers are narrower on the wire than in memory,
  and each format has a dozen boundaries where the encoding changes.

Each component's correctness properties are those of its run in section 4; the
`hazards` of `PROJECT.json` tie each of them to the line where it bites.

## 2. Modules

| module | models |
|---|---|
| `RpcClient` | the client, with codec and peer as an unreliable environment |
| `RpcCalls` | abstract: what a client's user may rely on |
| `MCRpcClient` | instances of `RpcClient` |
| `RpcClientProofs` | theorems about `RpcClient` |
| `RpcServer`, `MCRpcServer` | the server, and its instances |
| `RpcServerProofs` | theorems about `RpcServer` |
| `RpcCodec`, `RpcCodecProofs` | one direction of a connection between two codecs, and theorems about it |
| `RpcSync`, `MCRpcSync`, `RpcSyncProofs` | `CallWithCodec` on one codec and the server behind it, its instance, theorems |
| `TypeInfo` | the fields, names and lookup of struct types |
| `ExtHandle` | the extensions of a handle |
| `Encode`, `Decode` | the walks over Go values, with the msgpack driver |
| `Stream`, `MCStream` | an Encoder and a Decoder at the ends of a stream of messages |
| `TypeCache`, `TypeCacheProofs`, `MCTypes` | `getTypeInfo` and its map |
| `Bytes` | 64-bit integers as bytes, range checks, fixed-width reads and writes |
| `Msgpack`, `Binc`, `Simple` | the drivers, as functions between values and bytes |
| `MCDrivers` | round-trip properties of the three drivers over boundary values |
| `DriversProofs` | theorems about their integers, for every 64-bit word |
| `ValuesProofs` | theorems about their floats, times, lengths, extensions and untyped readers |
| `BincSymbols`, `BincSymbolsProofs` | the symbol tables at both ends of a binc stream |

The components are composed at their interfaces. `RpcClient` has in its
environment what `RpcCodec` and `RpcServer` can do to it: lost, repeated and
reordered answers, failed writes, dropped connections, a narrowed `Seq`.
`RpcServer` takes the codec's behaviour on undecodable values as the constant
`Framed`. `RpcSync` has in one module the caller, the codec's leftovers and the
server's three ways to serve a request. `Stream` is built on `Encode` and `Decode`,
which are built on `Msgpack`, `TypeInfo` and `ExtHandle`; `MCTypes` gives `TypeCache`
the field lists that `TypeInfo` computes.

### RpcClient

`pc[c]` follows the goroutine that runs `Go` for call `c`: `lock` (waiting for
`reqMutex`), `register`, `write` and `writing` (inside `WriteRequest`, before and
after the peer may have got the request), `remove` (its error path), `unlock`,
`returned`. `inPc` follows `input`, `closePc` each goroutine in `Close`. A section
under `mutex` is one step, except `input`'s last loop, which keeps the lock from
step to step and visits the entries in any order (Go's map iteration);
as in the code, it does not delete them. A request in `requests` may be
answered, with or without a server error, and kept for another answer up to
`MaxDups` times. `done` on a full channel drops the call; on an unbuffered one
`Go` panics before sending. `Careful` channels are those whose users keep the
rule in `Go`'s comment; it restricts the users, not the client.

### RpcServer

One step per locked section or codec call of `ServeRequest`. `reqs` and `resps` are
all header objects ever allocated, linked through `next`, with 0 for nil.
Decoding leaves a field that is zero on the wire as it was (gob), which is why
recycled objects must be zeroed. Interceptors are choices: the pre-body one may
reject requests of connections in `Rejecting`, the call interceptor calls its
handler as often as `HandlerCalls` says. `KeepServing` are connections whose caller
goes on after an error, as the repository's tests do. `pos` is where the
connection's read side is. A body may be left unread (`body`, after a rejection),
or left half read (`lost`, after a value that an unframed codec cannot decode, also
one that is only discarded). After a header that cannot be decoded,
`readRequest` returns without touching the body (`server.go:574-577`): the body is next
(`orphan`), or the decoder stands inside the header (`garbled`). A loop that goes on
reads a header there all the same; it may fail again, and be back in place if
the codec is framed, or take what it finds for a header (`Strays`) and be
`astray` from then on. `Unnamed` receivers are those `register` refuses for their
name. `hdr`, `nread`, `skipped` and `written` are history.

### RpcCodec

`codec`, chosen in `Init`, says which codec it is, whether it has a write buffer
and which bodies its encoder rejects. Writers take the lock, test `closed`,
encode header and body, flush and unlock; the buffer may spill at any time. The
spec codec's message is one array: its descriptor and first three elements are
the header, the last is the body, so a reader that takes a message for a body
takes all of it (`Extent`), and `ParseCustomHeader` accepts nothing but the start of
an array.
`Close` sets the flag and closes the connection in two steps. A rejected body
leaves its header, and for msgpack possibly part of the body, behind;
`gobServerCodec` flushes and calls its own `Close`, which does nothing when another
`Close` has set the flag, even if that has not closed the connection yet
(`server.go:488-492`); `ignored` records that this happened. The reader takes anything
for a body, or fails on it, when it is not one, and so it does for headers: what
is not one fails to decode or passes for the header of some message.

### Msgpack, Binc, Simple

`encodeX` maps a value to bytes, `decodeX` maps bytes to `Ok(value, bytes consumed)`
or `Err` (the code's panic). An integer is its eight bytes, so widths, sign
extension and overflow are those of the machine. These modules have the lengths
of strings and containers; their contents are in `Encode` and `Decode`.

### RpcSync

`pc` follows `CallWithCodec`; `up` and `down` are the headers and bodies on their way,
`buf` what a failed write left in the codec. `mode` says whether a value that
cannot be decoded is read to its end (gob) or not (msgpack), whether the
server's loop goes on after an error, and whether a pre-body interceptor may
reject requests, which are answered with their body unread (`ServeRejectsEarly`).
Both ends use the same codec, so what was written as a header is read as one.
`results` is history.

### TypeInfo, ExtHandle, Encode, Decode, Stream

A Go type is a tuple that starts with its kind, and so is a value; structs are
described by the constant `Defs`, as reflection would. `encode` and `encodeValue`
map a value to bytes or to `encErr`, `decode` and `decodeValue` map a destination
and the bytes left to the new value and the bytes left then, or to `decErr`; the
operators keep the names of the functions they stand for. Slices carry the
elements between length and capacity, because the decoder may bring them back;
`set` says whether reflection can assign to the destination. `Stream` has the
state: the handle, the bytes between the two ends, the destination used last.
Extensions are registered and deregistered before the first message, which is
when the code allows it. A failed call ends the stream; what it did to its
destination is not modelled. Field names are one byte long, ordered as strings
are, and Go's random order of map iteration is one of two orders that the handle
picks. Data of length zero is nil when it is read by `readn` (`NilIfEmpty`), so that an
extension with empty data becomes a nil `RawExt.Data`.

Results of `Decode` carry a history flag, `strict`: every length that was read had a
descriptor of the kind that was asked for. `readContainerLen` does not see to that. For
the short forms it tests the bits of `bFixMin` (`msgpack.go:612`), which other
descriptors also have: -32 (0xe0) read as a string is a string of 64 bytes, and an empty
array read as a map is a map of 16 entries. `strict` does not influence what is
decoded; `Stream` accumulates it, so that properties can say "unless that happened".

### TypeCache

One step for each lock operation, each access to the map and each stage of
building, per goroutine. `Lock` is two steps, as in `sync.RWMutex`: from the first on
(`writer`) new readers wait, in the second (`Drain`) the readers inside have left.
A pointer is the pair of its type and the goroutine that allocated it; `heap` has
what it points to, so that an unfinished `typeInfo` would be visible.

### BincSymbols

`encM`, `s`, `decM` are the fields of the two drivers; `stream` is what is written
and not read, at most `MaxStream` symbols; `SymMod` stands for 65536.

## 3. Properties worth the name

The type invariants aside: `AtMostOnce`, `NoneForgotten`, `OwnReplyBeforeWrap`,
`OutcomeStable`, `NoCompletionDropped`, `LateNeverSent`, `ImplementsCalls` and the two
completion properties say together that a call ends exactly once, with the right
outcome, and that its user learns of it. `NoSharing`, `EchoesRequest`,
`AnsweredOnce`, `PoolsBounded`, `CallsCounted`, `RegistrationStable`, `PairedReads`
and `RecoversAfterError` say that requests of different connections do not leak
into each other or into later ones. `SentAsUnit`, `DamageOnlyAfterReject`,
`GobServerStops` and `WrittenArrives` say what a stream shared by writers keeps.
The driver properties say that values survive, that narrowing never truncates
(which is not to say that signs are kept, see section 4), and that a reader
ignorant of the type stays in place.
`KeepsPlace`, `DecodeUpdates`, `RelayStable` and `ExtsTyped` say that messages do not
run into each other, that a destination used before shows through only where the
stream says nothing, that a relay passes on what it does not know, and that a
tag finds its type after any sequence of registrations. `NoMapRace`,
`OneCompleteInfo`, `FieldsFound` and `CallsReturn` are about the type information
that all of this rests on, and `OwnAnswer` about calls told apart by position.

## 4. Runs

Passing runs:

| run | instance | shows |
|---|---|---|
| `client_safety` | 3 calls (two on one channel of capacity 1, one alone), a closer, `WireMod` 2, one repeated answer; symmetry of the two calls | the client's safety properties and the inductive invariant; 2.1 million states |
| `client_live` | 2 calls on one channel and one on an unbuffered channel, where `Go` panics, a closer; `FairSpec`, no symmetry | the refinement of `RpcCalls`; completion after `Close` and after the connection's end |
| `server_serve` | 2 connections of 2 requests each, one that keeps serving with a framed codec, one that stops at errors with an unframed one and a rejecting interceptor; 2 receivers registering one name; a call interceptor that may drop the request | the server's properties and the inductive invariant; 2.2 million states |
| `codec` | 3 writers; every kind of codec, the spec codec included, buffered and not, every choice of rejected bodies among two; `FairSpec` | the codec's properties and the inductive invariant; 221000 states |
| `drivers` | about 1500 words around every power of 2 and of 256, 25 lengths, 3 tags, times on both sides of the epoch with zones | the drivers' round trips |
| `binc_symbols` | 4 long names and a short one, 3 numbers, a lag of 5 | symbol tables agree, and the inductive invariant |
| `stream` | every pair of messages of one type among 37 values of every kind (embedded and omitted fields, `toarray`, slices with hidden elements, maps, nil pointers, nil slices and maps, extensions and marshalers with and without data, `RawExt`, a `MapBySlice` of odd length, a func), and three messages that contain -32 with a long string behind it; destinations of 22 types, fresh, prepared, or the one used last; 4 settings of the options; up to 3 registrations of 2 types with tags 0 and 1, before a single message that has extensions in it | the encoder's and decoder's properties; 97000 states |
| `types` | 3 goroutines, 2 struct types (one embeds another between fields of the same names, one has 17 fields), any number of calls; `FairSpec` | the type cache's properties and the lookup of fields |
| `sync_call` | 4 calls; gob with a server that goes on or stops after errors, msgpack with one that stops, servers that stop with a pre-body interceptor | `OwnAnswer`; 19000 states |

Why the bounds are enough. The client's races are between at most three parties
for one call (its sender, `input`, a closer), and crossed answers need two calls;
a third lets the number wrap with `WireMod` 2 while both earlier calls are out. Sharing a pooled object
needs two goroutines, staleness a second request on a recycled object. On a
stream, damage needs a message before, at and after the failing one. Every
driver function branches only on ranges, and a value just below, at and above
each range's ends is sampled. In `binc_symbols` the names outnumber the numbers,
so the wrap is reached. In `stream` the second message meets what the first left
in the destination, and a decoder that lost its place would show in the second;
the constraint `ExtsUsed` keeps registrations to conversations that have
extensions in them, as others are not affected by any. In `types` a third
goroutine finds the entry that a second one missed and a first one publishes.
In `sync_call` an answer that is left behind is met by the next call, and four
allow a second failure after a recovery. Its modes are those of `LeavesNothing`:
no server goes on after an error with a codec that stops inside a bad value
(msgpack), or with a pre-body interceptor that leaves bodies unread. With either,
TLC finds `OwnAnswer` violated: what was left unread passes for the next header, and
the next call gets the answer to that. In `server_serve` an undecodable header
takes the first of two requests, and the second is read where its body is;
`server_prebody` also has a receiver that `register` refuses for its name.

`stream` does not check for deadlock: a conversation ends.

Violation runs, each with the finding it supports (`findings` in `PROJECT.json`):

| run | property | what the code does |
|---|---|---|
| `server_prebody` | `PairedReads` | a request the pre-body interceptor rejects leaves its body unread, and a loop that goes on reads it as a header |
| `codec_reject` | `PairsIntact` | the header of a message whose body could not be encoded stays on the stream, and the next header is taken for its body |
| `stream_bytes` | `BytesReplaced` | a `[]byte` decoded at the top level into one of the same length becomes nil: `decode` ignores `changed` |

Next to each there is a passing property that says how far the promise does hold
(`PairedReads`, as part of `RecoversAfterError`, for a loop that stops at the first
error; `DamageOnlyAfterReject`; `DecodeUpdates`, which has `[]byte` fields).

Other deviations are stated by passing properties that say exactly when they
happen:

* `OwnReplyBeforeWrap`: `msgpackSpecRpcCodec` sends `uint32(Seq)` (`msgpack.go:729`, `741`)
  while `pending` is keyed by 64 bits, so a call gets its own answer until the
  numbers wrap, and `client_safety` goes on past that point.
* `NarrowingChecked`: an unsigned integer that is read as a signed one is converted
  before it is checked (`msgpack.go:387`, `408`; `simple.go:217`, `245`; `binc.go:475`, `500`), so
  it is accepted when its bits are in range: 2^64 - 1 is read as -1, without an
  error, by all three drivers into integers of every width. Whatever else is out
  of range is refused, and nothing is truncated.
* `KeepsPlace` and, for relays, `RelayStable`: a decoder loses its place when the mask of
  `msgpack.go:612` lets a descriptor of another kind pass for a string's or a map's.
  `stream` reaches this (with -32 and a string as destination, or as a key of a
  `map[string]`), and only this is excluded, by `strict`.
* `RelayStable`: an extension with empty data is passed on as nil, since `readn(0)` is
  nil (`decode.go:72`, `139`) and `encRawExt` writes nil for that (`encode.go:904-906`).
* `FieldsFound` and `DecodeUpdates`: of two fields of one name the one met first is
  encoded and decoded, the other is neither, even if it is at a higher level and
  the first one is in an embedded struct. The comments say otherwise: "do not let
  fields with same name in embedded structs override field at higher level"
  (`helper.go:526`), "Each exported struct field is encoded unless" (`encode.go:653`). The types
  of `types` and of `stream` have such fields.
* `DecodeUpdates`: a nil slice or map that is the whole message and of a type that
  `encode` knows by name is written as an empty one, and comes back empty.
* `GobServerStops`: not if WriteResponse's `Close` finds `closed` set by a `Close` that has
  not yet closed the connection; in that window a rejected body does not stop the
  stream (`server.go:472-478`, `488-492`).
* `IntRoundTrip`: binc loses the negative numbers of magnitude 0xFF800000 to
  0xFFFFFFFF, whose leading 0xff bytes `encIntegerPrune` drops as a sign extension
  (`binc.go:133`), and no others.
* `LengthRoundTrip`: binc lengths from 65536 on are written in 4 or 8 bytes and read
  from 3 or 4 (`binc.go:298-304`, `578`); shorter ones survive.

Met while modelling `encode.go` and `decode.go`, modelled, and without a property
of their own: an omitted field of a struct in array form makes Encode fail
(`encode.go:484`, "encode as nil"); so does a nil pointer to an embedded struct
(`encode.go:475`) and a nil pointer to a type that `encode` knows by name
(`encode.go:763`). A nil in the stream does not reset a top-level map or slice of a
type that `decode` knows by name, as `decode.go:627-628` says it does: the map stays
as it is, since `readContainerLen` gives -1, and for the slice Decode fails in
`decContLens`. A map of interfaces that is decoded into
again fails unless its old values are pointers (`decode.go:1019`).

`RecoversAfterError` is about errors after a header that was read, which is what the
comment "We read the header successfully. If we see an error now, we can still
recover and move on to the next request" (`server.go:618-619`) speaks of, and is
checked where it can hold: with a codec that reads an undecodable value to its
end (gob), or a loop that stops at the first error. A msgpack decoder stops inside
the value. After a header that cannot be decoded nothing is promised, and a loop
that goes on does meet the body. One smaller difference met on the way has no
run: `simple.go:435` gives the size of a length as `pow(2, bd%3)` where the code uses
`2^(bd%8 - 1)`.

Every property of a passing run has a mutant in `PROJECT.json`: an operator beside
the definition it alters, with a plausible slip, under which TLC finds the
property violated.

### Fairness

`RpcClient!FairSpec` has weak fairness for goroutines that can run, and strong
fairness for taking `reqMutex`, because a `sync.Mutex` that is released again and
again is handed to a waiter (starvation mode). Nothing obliges the peer to read
or to answer: reads and writes are only fair once this side has closed the
connection, when the runtime fails them. `EndedCompletes` also assumes
`DrainedFairness` (writes return, reads return once either side has closed): it
is about the calls when the connection ends without `Close`, and a `WriteRequest`
stuck on a peer that does not read would hold `reqMutex` for ever.
`RpcCodec!FairSpec` has weak fairness for each writer and for the reader; nobody
has to close anything. The write lock needs no strong fairness as each
goroutine writes one message. `TypeCache!FairSpec` has weak fairness for each
goroutine inside `getTypeInfo`, none for making calls. Weak fairness is enough to
get the mutex although others come and go: a goroutine that finds its type
leaves, and after at most one build per type everyone finds theirs. What it does
need is that a waiting writer keeps new readers out; with readers that overtake
it (the mutant `RLockAhead`) `CallsReturn` fails.

## 5. Proofs

All proofs are checked by TLAPS from the named assumptions of the modules only
(finitely many calls and workers, no bound on how many; any channels, capacities,
moduli, codecs, kinds of failure) and, where a theorem says so, from a hypothesis
of its own. None of the properties is inductive alone; each proof rests on one
inductive invariant, whose preservation is proved action by action.

### The client (`RpcClientProofs`)

* `ClientInvariant`: `ClientInv` is invariant;
* `TypeCorrect`, `CompletedAtMostOnce`, `NoCallForgotten`, `RepliesNotCrossed`,
  `CompletionsDelivered`, `LateCallsNotSent`: the invariants `TypeOK`, `AtMostOnce`,
  `NoneForgotten`, `OwnReplyBeforeWrap`, `NoCompletionDropped`, `LateNeverSent`;
* `OutcomeNeverChanges`: the action property `OutcomeStable`;
* `ClientImplementsCalls`: the refinement `ImplementsCalls` of `RpcCalls`.

`AtMostOnce` fails to be preserved unless one knows that whoever completes a call
is its only owner, so `ClientInv` is an ownership argument. A call belongs to its
goroutine until it is registered (`FreshInv`), then to the entry of `pending` under
its own number (`EntryInv`), then to whoever takes it out: `send`'s error path or
`input` (`HeldInv`). `TallyInv` says that entries are not completed, except those
that the last loop has visited, which stay in the map; `OwnedInv` that no
registered call is without an owner. Two parts carry this: `LockInv` (one holder
of `reqMutex`; the last loop runs only when no send is between registering and
removing) and `InputInv` (the locals of `input`, and that nothing is registered
after the last loop). `WireInv` adds that until numbers wrap, a request or answer
with the number of a pending call belongs to that call.

`LateInv` says that a call made when the client was down is refused under the
lock, hence never among the requests. `ChanInv` counts: on a channel whose users
keep `Go`'s rule the calls outstanding (issued, not received) never exceed the
capacity, and the channel holds exactly the completed ones of them; a call that
is about to complete is outstanding and not yet in the channel, so there is room.

The refinement maps every step to a step of `RpcCalls` or to a stutter: `Go` to
issuing a call, every place that runs `done` to ending it, `Close` and
the end of `input` to going down; `StepKinds` shows that no other step touches
what `RpcCalls` sees. An outcome of `RpcCalls` is the call's own answer or an error, so the
theorem has the hypothesis that there are no more calls than numbers on the wire
(`Cardinality(Calls) <= WireMod`, 2^32 calls for the spec codec and 2^64 for the
others). `SeqInv` (one number for each registered call) then keeps the numbers
from wrapping.

### The server (`RpcServerProofs`)

* `TypeCorrect` and `ServicesStable` (`RegistrationStable`) need no hypothesis.
* `KeepsItsPlace` (`RecoversAfterError`) has the hypothesis that a connection that is
  served on after errors has a codec that reads a bad value to its end, and no
  interceptor that rejects before the body. Both are needed: the run
  `server_prebody` is a counterexample without the second, and a msgpack decoder
  stops inside a bad value. The theorem covers executions with undecodable
  headers, but says nothing of the place of the header read after one.
* `ServerInvariant`, `HeadersNotShared`, `ResponsesEcho`, `RequestsAnsweredOnce`,
  `AllocationBounded` and `CountsExact` (`ServerInv`, `NoSharing`, `EchoesRequest`,
  `AnsweredOnce`, `PoolsBounded`, `CallsCounted`) have the hypothesis that an
  interceptor calls its handler at most once. One that calls it twice makes the
  server free one `Request` twice, which links it to itself.

`NoSharing` depends on the shape of the free lists, of which the code only has
`next` pointers. `PoolInv` says that each list is the image of an injective
sequence along `next` (`FreeList`, so it is acyclic and ends), that nothing on it is
held by a worker, and that every object is on it or held, with as many Requests
left over as `Leaks` allows. Taking pops the sequence, freeing pushes onto it, and
a list found empty means that all objects are held, which bounds allocation.
`WorkInv` says which objects a worker holds at each step and `PosInv` where its
read side is. `HeaderInv` carries `EchoesRequest`: a Request is zero when it is
decoded into, equals the header read from then on, and the Response is filled
from it; it needs `NoSharing` for steps of other workers. `AnswerInv` numbers the
request at hand above all those answered, until the connection is `astray`, when
numbers mean nothing; the counts hold on.

### The codecs (`RpcCodecProofs`)

`CodecInvariant` (`CodecInv`), `TypeCorrect`, `HeadersWithBodies` (`SentAsUnit`),
`PairsBeforeReject` (`DamageOnlyAfterReject`) and `GobServerSafe` (`GobServerStops`), for
any number of writers and messages and for every kind of codec. `SentAsUnit` is
about the wire; the invariant is about all that was encoded, on the wire or still
in the buffer (`Emitted`), so that spilling and flushing leave it alone. `LockInv`
has one writer at a time; `StreamInv` says that behind a header there is its body,
or nothing because its writer is at the body or the connection failed under it;
`UnitInv` that what is not a header is behind the header of its own message;
`GobInv` that for gobServerCodec nothing follows the header of a rejected response, as
long as no `Close` of it was ignored;
`ReadInv` that the reader is behind the header it read last, and has met nothing
of a rejected message as long as it did not take such a header. `GobServerSafe` has
the same condition as `GobInv`, in the property itself.

### CallWithCodec (`RpcSyncProofs`)

`SyncInvariant` (`SyncInv`) and `AnswersOwn` (`OwnAnswer`), for any number of calls, under
the hypothesis that every mode satisfies `LeavesNothing`: a server that goes on
after an error has a codec that reads bad values to their end, and no interceptor
that rejects before the body. `Aligned` is the reason: until the first other error the connection holds
the request of the call under way, or its answer, or what is left of that, and
nothing else; what is sent to a server that has stopped does not count. The run
`sync_call` checks `OwnAnswer`; TLC also finds `SyncInv` to hold of its instance
(`INVARIANT SyncInv` in `RpcSync.cfg`, 19367 states).

### Binc symbols and the type cache

`BincSymbolsProofs` proves `SymbolInvariant` and from it `SymbolsRecovered`
(`FaithfulBeforeWrap`) for any set of strings, any modulus and any lag. The
invariant says that the decoder's table, extended by the definitions still in the
stream, is the inverse of the encoder's (`TablesAgree`): numbers are distinct, what
is on its way carries the encoder's number, and every reference comes after its
definition.

`TypeCacheProofs` proves `CacheInvariant`, and from it `MapNeverRaced` (`NoMapRace`) and
`InfoUnique` (`OneCompleteInfo`), for any goroutines, types and field lists, from
`CacheAssumption` alone. `NoMapRace` needs that the goroutine past `Drain` is the
writer and that no reader was let in since, and `OneCompleteInfo` needs to know
what a builder's `typeInfo` holds at each stage and that nobody replaces an entry.
`CacheInv` therefore has `LockInv` (who is inside the mutex: readers between `RLock`
and `RUnlock`, one writer from `Lock` to `Unlock`, and no reader once it is past
`Drain`), `CachedInv` (entries are complete and filed under their own type),
`BuildInv` (how far the only builder has got, with no entry for its type yet, which
is what the second look under the lock is for) and `ReturnInv` (what a goroutine
returned is the entry).

### Integers (`DriversProofs`)

`MsgpackIntegers`, `SimpleIntegers` and `BincIntegers` are about every 64-bit word
(`Word`), every width from 1 to 8 bytes and whatever bytes follow: what `encodeInt` or
`encodeUint` writes is read back by `decodeInt` and `decodeUint` as the same word, and
exactly those bytes are consumed, if the word is in the range and of the sign
asked for; otherwise it is refused. A word that was written as unsigned and is
read as signed is judged by its bits. From them follow `IntegersSurvive`
(`IntRoundTrip`) and `OverflowRefused` (`NarrowingChecked`) for any sample of bytes that
`MCDrivers` is given.

The range of n bytes is turned into a condition on the other bytes (`Ranges`), so
that the smallest size that holds a word loses nothing (`LeastU`, `LeastS`), and
`Framing` says where a decoder finds descriptor and payload. simple and binc
write a magnitude: `NegateTwice` proves that two's complement undoes itself,
the least int64 included, by the place of the last nonzero byte. binc prunes as
well. `Prunes` says that only bytes equal to the sign extension are dropped. For a
positive number those are zeros, which the decoder puts back; for a magnitude
they are 255s, which it does not, and `BincNegative` shows that this happens
exactly to the words of `Misread`: `BincIntegers` has the round trip for all words
but those, and for those that they never come back.

### Floats, times, lengths and extensions (`ValuesProofs`)

The other invariants of `MCDrivers` hold for every value of its constants too:
`PrunedValuesSurvive` (`PrunedRoundTrip`), `LengthsSurvive` (`LengthRoundTrip`),
`ExtensionsSurvive` (`ExtRoundTrip`) and `NakedReadersKeepPlace` (`NakedConsumesAll`).
Besides `BytesAssumption` they use two assumptions, which TLC evaluates in
`drivers`: lengths are below `Huge` (2^30, from where on `Bytes` no longer
tells numbers apart, so that TLC's integers do not overflow), and a zone is less
than 8192 minutes from UTC, which is what 14 bits with a sign hold (real zones are
within 840). They rest on theorems about single values, with any bytes behind
them.

* `BincFloat64`, `BincFloat32`, `SimpleFloats`: all floats, bit for bit, but for the sign
  of a zero in binc. What binc drops from a float64 are zeros at its end, and
  `Padded` says that the first i bytes of such a word, filled up with zeros, are the
  word.
* `BincTimes`: seconds, nanoseconds and zone come one after the other, with the
  sizes of the first two in the first byte. `TimeDescriptor` proves that the first byte
  is undone by its masks, `SecondsBack` and `NanosBack` that a field survives
  losing the bytes that extend its sign or are zero, `ZoneBack` that the 14 bits give
  back the minutes and the sign, and `TimeLayout` that the fields are found where they were
  put. The time is at most 15 bytes, the most that fits binc's four bits for its
  length.
* `MsgpackLength`, `SimpleLength`, `BincLength`: the forms of a length, each over its
  range of values. `ToBytes` and `ToNat` are inverse below `Huge` (`DigitsBack`, from
  `ToNatSteps`, which unfolds the recursive function eight bytes deep: all a header
  has, so no induction is needed). For binc the result is an equivalence: a length
  that needs more than two bytes does not come back.
* `MsgpackExt`, `SimpleExt`, `BincExt`: tag and length of an extension, in the short and in
  the long forms; the wrong tag is refused.
* `MsgpackNaked`, `SimpleNaked`, `BincNaked` say what `decodeNaked` does for each
  descriptor, and the lemmas after them that the descriptors the encoders choose are
  among those with the right length.

`Sampled` says what kinds of values the states of `MCDrivers` hold; `StateSampled`
carries it to every state, and the four theorems follow from it.

TLC checks `ClientInv`, `ServerInv`, `CodecInv` and `SymbolInv` too, in the runs
`client_safety`, `server_serve`, `codec` and `binc_symbols`.

### Only model-checked

* Liveness (`ClosedCompletes`, `EndedCompletes`, `WrittenArrives`, `CallsReturn`): the
  prover has no reasoning about fairness.
* What the encoder and decoder compute (`KeepsPlace`, `DecodeUpdates`, `ExtsTyped`,
  `RelayStable`) and the field lists (`FieldsFound`): recursion over values and types,
  which is out of the prover's reach.

## 6. Not modelled

* In the encoder and decoder: floats and integers narrower than 64 bits, which
  differ from what is there only in the driver's function that is called
  (`MCDrivers` is about those functions); arrays of bytes; interfaces with methods;
  `SliceType`; binc and simple as the driver below the walks; the tables of
  functions per type that each coder keeps, which only save time as long as the
  handle is not changed while in use.
* A struct type that embeds itself: `rgetTypeInfo` does not end, with the lock held
  (`helper.go:522`).
* `suitableMethods`: the methods of a receiver are a constant. `InvokeMethod`, the
  in-process path without a codec, changes nothing in the server.
* An interceptor that calls its handler twice: the server would free the same
  `Request` twice. The comment at `server.go:228-229` only says that it must call it.
* Dialling, the constructors and the debug page: pure I/O.

## 7. Plan

Done, in this order: `RpcClient` with `RpcCalls` and its proofs, `RpcServer`,
`RpcCodec`, the drivers, `BincSymbols` and its proofs; then the spec codec in
`RpcCodec`, `TypeInfo`, `ExtHandle`, `Encode`, `Decode` and `Stream`, `TypeCache` and its
proofs, `RpcSync`; then the proofs about the server, the codecs, `RpcSync`, the
client's channels, late calls and refinement, and the drivers' integers; last the
proofs about floats, times, lengths, extensions and untyped readers. The
invariants that no theorem states are those under "Only model-checked": they are about
recursion over values and types of any depth. What could be added to the model is
listed in section 6.
