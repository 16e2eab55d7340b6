------------------------------- MODULE Stream -------------------------------
(***************************************************************************)
(* An Encoder and a Decoder at the two ends of a stream of messages, with  *)
(* one handle between them (src/go-msgpack/codec: encode.go, decode.go,    *)
(* helper.go).  The user registers extensions before the handle is used,   *)
(* then values are encoded, and decoded in order into destinations: new    *)
(* ones, or the one that was used last.  A call that fails ends the        *)
(* stream, as the RPC codecs end theirs.                                   *)
(*                                                                         *)
(* The tables of functions per type that Encoder and Decoder keep are not  *)
(* state here: the handle is not changed once it is in use.                *)
(***************************************************************************)
EXTENDS Decode

CONSTANTS
  Handles,       \* settings of the options of a handle
  ExtTypes,      \* types that extensions are registered for
  Tags,          \* the tags they are given
  MaxExts,       \* bound on the calls of AddExt
  Conversations, \* sequences of messages, pairs of a type and a value
  Destinations   \* pairs of a type and a value that are decoded into

VARIABLES
  h,       \* the handle
  live,    \* history: the calls of AddExt, most recent last
  todo,    \* the messages that are still to be sent
  used,    \* whether one was sent
  stream,  \* bytes written and not yet read
  sent,    \* history: the messages they stand for
  dest,    \* the destination used last
  strict,  \* history: whether every Decode was (see Decode)
  last     \* history: the last call, what it was given and what came of it

vars == <<h, live, todo, used, stream, sent, dest, strict, last>>

Idle == [op |-> "none"]
Fresh(T) == <<T, Zero(T)>>

Init ==
  /\ h \in {o @@ [exts |-> <<>>] : o \in Handles}
  /\ live = <<>>
  /\ todo \in Conversations
  /\ used = FALSE
  /\ stream = <<>>
  /\ sent = <<>>
  /\ dest = Fresh(INTF)
  /\ strict = TRUE
  /\ last = Idle

Configure(rt, tag, on) ==
  /\ ~used /\ Len(live) < MaxExts
  /\ h' = [h EXCEPT !.exts = AddExt(h.exts, rt, tag, on)]
  /\ live' = Append(live, [rt |-> rt, tag |-> tag, on |-> on])
  /\ UNCHANGED <<todo, used, stream, sent, dest, strict, last>>

Register(rt, tag) == Configure(rt, tag, TRUE)

\* "To Deregister an ext, call AddExt with 0 tag, nil encfn and nil decfn."
Deregister(rt) == Configure(rt, 0, FALSE)

\* A call that fails ends the stream.
Fail(call, m, d) ==
  /\ todo' = <<>>
  /\ stream' = <<>>
  /\ sent' = <<>>
  /\ dest' = d
  /\ last' = [op |-> "failed", call |-> call, m |-> m, before |-> d, placed |-> strict]

\* The message m is written as r.b.
EncodeTo(m, r) ==
  IF ~r.ok THEN Fail("encode", m, dest)
  ELSE /\ todo' = Tail(todo)
       /\ stream' = stream \o r.b
       /\ sent' = Append(sent, m)
       /\ UNCHANGED <<dest, last>>

\* Encoder.Encode
Encode ==
  /\ todo # <<>>
  /\ used' = TRUE
  /\ EncodeTo(Head(todo), encode(h, Dyn(Head(todo)[1], Head(todo)[2])))
  /\ UNCHANGED <<h, live, strict>>

\* The message m is read from the stream, which makes r of the destination d.
DecodeInto(d, m, r) ==
  /\ strict' = (strict /\ r.strict)
  /\ IF ~r.ok THEN Fail("decode", m, d)
     ELSE /\ stream' = r.s
          /\ sent' = Tail(sent)
          /\ dest' = <<d[1], r.v>>
          /\ last' = [op |-> "decoded", m |-> m, before |-> d, placed |-> strict]
          /\ UNCHANGED todo

\* Decoder.Decode with a pointer to the destination
Decode(d) ==
  /\ sent # <<>>
  /\ DecodeInto(d, Head(sent), decode(h, d[1], d[2], stream))
  /\ UNCHANGED <<h, live, used>>

Next ==
  \/ \E rt \in ExtTypes, tag \in Tags : Register(rt, tag)
  \/ \E rt \in ExtTypes : Deregister(rt)
  \/ Encode
  \/ \E d \in Destinations \cup {dest} : Decode(d)

Spec == Init /\ [][Next]_vars

-----------------------------------------------------------------------------

\* What is left of the stream is what was written for the messages left.
AtMessage == stream = FlattenSeq([i \in DOMAIN sent |-> encode(h, Dyn(sent[i][1], sent[i][2])).b])

\* Whatever the destination, a Decode that succeeds has taken exactly the
\* bytes that one Encode wrote: unknown fields, surplus elements and values of
\* unknown types are read to their end, and the next message starts where the
\* Decoder stands (kStruct, kInterface, kSlice, kMap of decode.go).  There is
\* one way to lose the place, and it is excluded: a destination or a field
\* name that asks for a string, or a destination that asks for a map, when the
\* stream has something else that the mask of readContainerLen lets pass
\* (msgpack.go:612), such as -32, which is read as a string of 64 bytes.
KeepsPlace == strict => AtMessage

-----------------------------------------------------------------------------
(* What Decode's comment calls an update of the destination.               *)

RECURSIVE HasInterface(_), Updated(_, _, _, _)
HasInterface(T) ==
  CASE T[1] \in {"ptr", "slice", "mbs", "array"} -> HasInterface(T[2])
    [] T[1] = "map" -> T[2] = INTF \/ HasInterface(T[3])
    [] T[1] = "struct" -> \E j \in DOMAIN Defs[T[2]].fields : HasInterface(Defs[T[2]].fields[j].type)
    [] OTHER -> T \in {INTF, RAWEXT}

\* r is d, of type T, after v was decoded into it.
Updated(T, d, v, r) ==
  CASE T[1] = "ptr" -> IF v = NIL THEN r = NIL ELSE r # NIL /\ Updated(T[2], IF d = NIL THEN Zero(T[2]) ELSE d[2], v[2], r[2])
    [] T[1] \in {"slice", "mbs", "array"} ->
         \* the first n elements are updated, further ones stay, and none comes
         \* from beyond the length
         IF v = NIL THEN r = NIL
         ELSE /\ r # NIL
              /\ Len(r[2]) = IF Len(v[2]) > Len(Elems(d)) THEN Len(v[2]) ELSE Len(Elems(d))
              /\ \A i \in DOMAIN r[2] :
                   IF i <= Len(v[2]) THEN Updated(T[2], IF i <= Len(Elems(d)) THEN d[2][i] ELSE Zero(T[2]), v[2][i], r[2][i])
                   ELSE r[2][i] = d[2][i]
    [] T[1] = "map" ->
         \* matching keys are updated, with nothing of their former values
         IF v = NIL THEN r = NIL
         ELSE /\ r # NIL
              /\ DOMAIN r[2] = DOMAIN v[2] \cup DOMAIN Elems(d)
              /\ \A k \in DOMAIN r[2] :
                   IF k \in DOMAIN v[2] THEN Updated(T[3], Zero(T[3]), v[2][k], r[2][k]) ELSE r[2][k] = d[2][k]
    [] T[1] = "struct" ->
         \* the fields in the stream are updated, the others stay
         LET tisfi == cachedTypeInfo[T[2]].sfip
             at(x, is) == IF Reachable(x, is) THEN FieldByIndex(x, is) ELSE Zero(FieldType(T[2], is))
             leftOut(si) == si.omitEmpty /\ isEmptyValue(at(v, si.is))
         IN  /\ \A i \in DOMAIN tisfi :
                  LET si == tisfi[i] IN
                    IF leftOut(si) THEN at(r, si.is) = at(d, si.is)
                    ELSE Updated(FieldType(T[2], si.is), at(d, si.is), at(v, si.is), at(r, si.is))
             /\ \A j \in DOMAIN r[2] : (\A i \in DOMAIN tisfi : tisfi[i].is[1] # j) => r[2][j] = d[2][j]
         \* whether empty data comes back as nil depends on the format
    [] T[1] = "marsh" -> Elems(r[2]) = Elems(v[2])
    [] T[1] = "named" /\ HasExt(h.exts, T) -> Elems(r) = Elems(v)
    [] T[1] \in {"bytes", "named"} /\ v # NIL /\ v[2] = <<>> /\ ~HasExt(h.exts, T) -> r = d
    [] OTHER -> r = v

\* What a caller of Encode has sent: a nil slice or map of a type that encode
\* knows by name, or that a pointer leads to, is written as an empty one.
Empties == [slice |-> <<"slice", <<>>, <<>>>>, map |-> <<"map", <<>>>>, bytes |-> <<"bytes", <<>>>>]
AsWritten(T, v) ==
  LET Filled(X, x) == IF x = NIL /\ X \in FastTypes /\ X[1] \in DOMAIN Empties THEN Empties[X[1]] ELSE x
  IN  IF T[1] = "ptr" /\ v # NIL THEN <<"ptr", Filled(T[2], v[2])>> ELSE Filled(T, v)

\* A message decoded into a destination of its own type, without interfaces,
\* succeeds, keeps the place, and leaves there what was sent: every field that
\* the struct is encoded with, element and entry.  What the destination held
\* before shows only where the stream says nothing: omitted fields, elements
\* after the last one, other keys, and empty []byte; and in fields that are
\* not encoded at all, the unexported ones and those whose name a field met
\* earlier has, be it one of an embedded struct (see FieldsFound).  In
\* particular no element between length and capacity comes back.  A nil slice
\* or map that is the whole message and of a type known by name comes back
\* empty, and empty data of extensions may come back nil (encode, decode and
\* their encodeValue, decodeValue, kStruct, kSlice, kMap).  A top-level []byte
\* is not included: decode drops it when it has the length of the one before.
DecodeUpdates ==
  LET T == last.m[1] IN
  ( /\ last.op = "decoded" \/ (last.op = "failed" /\ last.call = "decode")
    /\ last.placed
    /\ T = last.before[1] /\ ~HasInterface(T) /\ T # BYTES )
  => /\ last.op = "decoded" /\ AtMessage
     /\ Updated(T, last.before[2], AsWritten(T, last.m[2]), dest[2])

-----------------------------------------------------------------------------

\* What becomes of x, the contents of an interface: an extension whose data
\* has no contents is read with nil data, and that is written as nil.
RECURSIVE PassedOn(_)
PassedOn(x) ==
  LET T == x[2]
      v == x[3]
  IN  CASE x = NIL -> NIL
        [] x # NIL /\ T = RAWEXT -> IF v[3] = NIL THEN NIL ELSE x
        [] x # NIL /\ T[1] = "named" -> IF v = NIL THEN NIL ELSE x
        [] x # NIL /\ T = SliceOf(INTF) -> Dyn(T, [v EXCEPT ![2] = Tuple([i \in DOMAIN v[2] |-> PassedOn(v[2][i])])])
        [] x # NIL /\ T[1] = "map" -> Dyn(T, <<"map", [k \in DOMAIN v[2] |-> PassedOn(v[2][k])]>>)
        [] OTHER -> x

\* x, the outcome of a Decode, is encoded, and decoded to that
SurvivesRelay(e, x) == e.ok /\ decode(h, INTF, NIL, e.b) = Got(PassedOn(x.v), <<>>)
Relayed(x) ==
  /\ h.mapType = NIL => x.ok
  /\ x.ok => SurvivesRelay(encode(h, x.v), x)

\* A relay that decodes what it does not know the type of and encodes it again
\* passes it on: a second relay sees the value that the first one saw, except
\* that an extension with empty data has become nil (readn and encRawExt make
\* no difference between the two).  Only a MapType for other keys keeps the
\* first one from decoding it (decodeNaked, kInterface, decMapIntfIntf,
\* decSliceIntf, decodeExt against encode, encRawExt, ext).
RelayStable == (strict /\ sent # <<>>) => Relayed(decode(h, INTF, NIL, stream))

\* What the last call of AddExt for each type said.
Registered(rt) ==
  LET i == SelectLastInSeq(live, LAMBDA x : x.rt = rt) IN i # 0 /\ live[i].on
TagOf(rt) == live[SelectLastInSeq(live, LAMBDA x : x.rt = rt)].tag
WasDeregistered == \E i \in DOMAIN live : ~live[i].on

\* After any sequence of registrations, a value of a registered type is
\* decoded as that type where the destination does not say which, provided its
\* tag belongs to no other type; only tag 0 may also be that of a type that
\* was deregistered.  Its data is that of the value, nil if that was empty
\* (AddExt, getExt, getExtForTag, ext, kInterface, readn).
ExtsTyped ==
  \A i \in DOMAIN sent :
    LET rt == sent[i][1] IN
      ( /\ rt \in ExtTypes /\ Registered(rt) /\ h.writeExt
        /\ \A x \in ExtTypes \ {rt} : Registered(x) => TagOf(x) # TagOf(rt)
        /\ TagOf(rt) = 0 => ~WasDeregistered )
      => decode(h, INTF, NIL, encode(h, Dyn(rt, sent[i][2])).b) = Got(Dyn(rt, NilIfEmpty(sent[i][2][2])), <<>>)

\* A []byte with contents that is decoded into a []byte replaces it: Decode
\* "stores the result in the value pointed to by v" (decode, decodeBytes).
BytesReplaced ==
  (last.op = "decoded" /\ last.m[1] = BYTES /\ last.before[1] = BYTES)
  => (last.m[2] # NIL /\ last.m[2][2] # <<>> => dest[2] = last.m[2])
=============================================================================
