------------------------------- MODULE Decode -------------------------------
(***************************************************************************)
(* The decoder (src/go-msgpack/codec/decode.go): the walk over a           *)
(* destination that takes what it needs from the stream through the        *)
(* msgpack driver.  Types, values and handles are those of Encode.         *)
(*                                                                         *)
(* Every operator is given the destination's type and value and the bytes  *)
(* that are left, the next one a descriptor, and returns the new value and *)
(* the bytes that are left then, or decErr for a panic, the end of the     *)
(* stream included.  What a failed call did to its destination before it   *)
(* failed is not modelled.  The result also has a history: it is strict if *)
(* every length was read from a descriptor of the kind that was asked for, *)
(* which the mask of readContainerLen does not ensure.                     *)
(*                                                                         *)
(* set says whether the destination can be assigned to.  It cannot if it   *)
(* was found inside an interface, but what it points to can.               *)
(***************************************************************************)
EXTENDS Encode

Got(v, s) == [ok |-> TRUE, v |-> v, s |-> s, strict |-> TRUE]
decErr == [ok |-> FALSE, v |-> NIL, s |-> <<>>, strict |-> TRUE]
If(cond, r) == IF cond THEN r ELSE decErr

\* what follows a read, given what was read and what is left
Use(r, F(_, _)) == IF r.ok THEN LET u == F(r.v, r.s) IN [u EXCEPT !.strict = r.strict /\ @] ELSE decErr

\* r, what the driver made of the stream s, provided s is long enough
Padded(s) == s \o Fill(0, 9)
After(n, s) == SubSeq(s, n + 1, Len(s))
Driver(r, s) == If(r.ok /\ r.n <= Len(s), Got(r.v, After(r.n, s)))
Scalar(kind, r, s) == Use(Driver(r, s), LAMBDA w, rest : Got(<<kind, w>>, rest))

streamType(h, s) == IF s = <<>> THEN "eof" ELSE M!currentEncodedType(s[1], h.rawToString)

\* a length r read from s, where something of one of these types is expected
Expect(types, r, s) ==
  IF r.ok THEN [r EXCEPT !.strict = M!currentEncodedType(s[1], TRUE) \in types \cup {"nil"}] ELSE r

\* The length of a container.  Elements take a byte each at least: whatever is
\* done with more of them than there are bytes ends at the end of the stream.
Count(r) == If(r.ok /\ r.v <= Len(r.s), r)
readMapLen(s) == Count(Expect({"map"}, Driver(M!readContainerLen(M!ContainerMap, Padded(s)), s), s))
readArrayLen(s) == Count(Driver(M!readContainerLen(M!ContainerList, Padded(s)), s))

\* n bytes; a length of -1 stands for nil and reads nothing
Content(n, s) ==
  IF n > Len(s) THEN decErr
  ELSE IF n <= 0 THEN Got(<<>>, s)
  ELSE Got(SubSeq(s, 1, n), After(n, s))

readString(s) == Use(Expect({"string"}, Driver(M!readContainerLen(M!ContainerStr, Padded(s)), s), s), Content)
readBytes(s) == Use(Expect({"string", "bytes"}, Driver(M!bytesLen(Padded(s)), s), s), Content)
decodeString(s) == Use(readString(s), LAMBDA b, rest : Got(<<"str", b>>, rest))

\* readn(0), and decodeBytes of a nil slice where there are no contents
NilIfEmpty(b) == IF b = <<>> THEN NIL ELSE <<"bytes", b>>

\* The tag and the data of an extension, or of bytes or a string in place of
\* one.  Data without contents is nil unless it was made from a string.
readExt(s, verifyTag, tag) ==
  Use(Driver(M!decodeExt(Padded(s), verifyTag, tag), s), LAMBDA x, at :
    Use(Content(x[2], at), LAMBDA b, rest :
      Got(<<"rawext", x[1], IF s[1] \in M!Strs \cup M!FixStrs THEN <<"bytes", b>> ELSE NilIfEmpty(b)>>, rest)))

decodeScalar(kind, s) ==
  CASE kind = "bool" -> Scalar(kind, M!decodeBool(Padded(s)), s)
    [] kind = "int" -> Scalar(kind, M!decodeInt(Padded(s), 8), s)
    [] kind = "uint" -> Scalar(kind, M!decodeUint(Padded(s), 8), s)
    [] kind = "u8" -> Scalar(kind, M!decodeUint(Padded(s), 1), s)
    [] OTHER -> decodeString(s)

\* f as a tuple, element by element
Tuple(f) == <<>> \o f
UpTo(n) == [j \in 1..n |-> j]

\* reflect.Zero
RECURSIVE Zero(_)
Zero(T) ==
  CASE T[1] = "bool" -> <<"bool", FALSE>>
    [] T[1] \in {"int", "uint", "u8"} -> <<T[1], Fill(0, 8)>>
    [] T[1] = "str" -> <<"str", <<>>>>
    [] T[1] = "array" -> <<"array", Tuple([i \in 1..T[3] |-> Zero(T[2])])>>
    [] T[1] = "struct" -> <<"struct", Tuple([j \in DOMAIN Defs[T[2]].fields |-> Zero(Defs[T[2]].fields[j].type)])>>
    [] T[1] = "marsh" -> <<"marsh", NIL>>
    [] T[1] = "rawext" -> <<"rawext", 0, NIL>>
    [] OTHER -> NIL

Zeros(E, n) == Tuple([i \in 1..n |-> Zero(E)])

\* decContLens: a map counts for its keys and its values
decContLens(h, s) ==
  CASE streamType(h, s) = "array" -> readArrayLen(s)
    [] streamType(h, s) = "map" -> Use(readMapLen(s), LAMBDA n, rest : Got(2 * n, rest))
    [] OTHER -> decErr

-----------------------------------------------------------------------------
(* Slices and arrays.                                                      *)

RECURSIVE decodeValue(_, _, _, _, _), decEmbeddedField(_, _, _, _, _, _)

\* n elements in a row, each into the one that is there
decodeElems(h, E, made, n, s) ==
  FoldLeft(LAMBDA p, j :
      Use(p, LAMBDA l, at :
        Use(decodeValue(h, E, l[2][j], TRUE, at), LAMBDA v, rest : Got([l EXCEPT ![2][j] = v], rest))),
    Got(made, s), UpTo(n))

\* decSliceIntf: elements of interface type may be nil in the stream
\* decSliceInt64, ...Uint64, ...Str: nil is left to the driver
decSliceElems(h, E, made, n, s) ==
  IF E = INTF THEN decodeElems(h, E, made, n, s)
  ELSE FoldLeft(LAMBDA p, j :
           Use(p, LAMBDA l, at : Use(decodeScalar(E[1], at), LAMBDA v, rest : Got([l EXCEPT ![2][j] = v], rest))),
         Got(made, s), UpTo(n))

\* The slice that decSliceIntf and its siblings decode n elements into: one
\* grows into its capacity, with the elements that are there, before a longer
\* one is made.
growToCap(E, old, n) ==
  LET all == old[2] \o old[3]
  IN  IF old = NIL THEN <<"slice", Zeros(E, n), <<>>>>
      ELSE IF n > Len(all) THEN <<"slice", old[2] \o Zeros(E, n - Len(old[2])), <<>>>>
      ELSE IF n > Len(old[2]) THEN <<"slice", SubSeq(all, 1, n), After(n, all)>>
      ELSE old

decSlice(h, T, old, s) ==
  Use(decContLens(h, s), LAMBDA n, at : decSliceElems(h, T[2], growToCap(T[2], old, n), n, at))

\* kSlice exchanges the names of length and capacity, so a slice that is too
\* short is always replaced by one with fresh elements.
growSlice(E, old, n) ==
  IF old = NIL THEN <<"slice", Zeros(E, n), <<>>>>
  ELSE IF n > Len(old[2]) THEN <<"slice", old[2] \o Zeros(E, n - Len(old[2])), <<>>>>
  ELSE old

\* kSlice without its fast paths, of a slice or (as kArray) of an array
kSliceElems(h, T, old, set, s) ==
  Use(decContLens(h, s), LAMBDA n, at :
    LET short == old = NIL \/ n > Len(old[2])
        cannot == IF T[1] = "array" THEN ~set \/ short ELSE ~set /\ short
    IN  IF cannot THEN decErr
        ELSE decodeElems(h, T[2], IF T[1] = "array" THEN old ELSE growSlice(T[2], old, n), n, at))

\* decodeBytes, and kSlice around it: a slice of the right length is filled in
\* place, and one stays as it is if the stream has no contents.
decodeBytes(old, set, s) ==
  Use(readBytes(s), LAMBDA b, rest :
    IF b = <<>> THEN Got(old, rest)
    ELSE If(set \/ Len(b) = Len(Elems(old)), Got(<<"bytes", b>>, rest)))

\* kSlice of []byte from a stream array or map, one element after the other
kSliceOfBytes(h, old, set, s) ==
  LET bytes == Tuple([i \in DOMAIN Elems(old) |-> <<"u8", ZeroExt(<<old[2][i]>>)>>])
  IN  Use(kSliceElems(h, SliceOf(<<"u8">>), IF old = NIL THEN NIL ELSE <<"slice", bytes, <<>>>>, set, s),
          LAMBDA l, rest : Got(<<"bytes", [i \in DOMAIN l[2] |-> l[2][i][2][8]]>>, rest))

kSlice(h, T, old, set, s) ==
  CASE T[1] \in {"bytes", "named"} ->
         IF streamType(h, s) \in {"bytes", "string"} THEN decodeBytes(old, set, s) ELSE kSliceOfBytes(h, old, set, s)
    [] T \in FastSlices /\ set -> decSlice(h, T, old, s)
    [] OTHER -> kSliceElems(h, T, old, set, s)

-----------------------------------------------------------------------------
(* Maps.                                                                   *)

\* A key of interface type: bytes become a string, and a slice or a map is
\* not a key at all.
AsKey(x) == IF x # NIL /\ x[2] = BYTES THEN Dyn(STR, <<"str", Elems(x[3])>>) ELSE x
IsKey(x) == x = NIL \/ x[2] \in {BOOL, INT, UINT, STR}

interfaceKey(h, s) ==
  Use(decodeValue(h, INTF, NIL, TRUE, s), LAMBDA x, rest : If(IsKey(AsKey(x)), Got(AsKey(x), rest)))

\* The next key.  The types known by name (fast) leave it to the driver; kMap
\* asks a key of interface type for the type in it, which a nil does not have.
mapKey(h, K, fast, s) ==
  CASE K = INTF -> Use(interfaceKey(h, s), LAMBDA x, rest : If(fast \/ x # NIL, Got(x, rest)))
    [] K # INTF /\ fast -> decodeScalar(K[1], s)
    [] OTHER -> decodeValue(h, K, Zero(K), TRUE, s)

\* n entries, decoded into the values that the map has or into fresh ones
decodeEntries(h, T, fast, old, n, s) ==
  FoldLeft(LAMBDA p, j :
      Use(p, LAMBDA m, at :
        Use(mapKey(h, T[2], fast, at), LAMBDA k, next :
          Use(decodeValue(h, T[3], IF fast /\ k \in DOMAIN m[2] THEN m[2][k] ELSE Zero(T[3]), TRUE, next),
              LAMBDA v, rest : Got(<<"map", (k :> v) @@ m[2]>>, rest)))),
    Got(<<"map", Elems(old)>>, s), UpTo(n))

\* decMapStrIntf and its siblings decode into the value that the map has.
decMap(h, T, old, s) == Use(readMapLen(s), LAMBDA n, at : decodeEntries(h, T, TRUE, old, n, at))

\* kMap decodes into a fresh value: what MapIndex returns cannot be set.
kMap(h, T, old, set, s) ==
  IF T \in FastMaps /\ set THEN decMap(h, T, old, s)
  ELSE IF old = NIL /\ ~set THEN decErr
  ELSE Use(readMapLen(s), LAMBDA n, at : decodeEntries(h, T, FALSE, old, n, at))

-----------------------------------------------------------------------------
(* Structs.                                                                *)

\* The field at a path of indices, nil pointers on the way replaced by new
\* structs.
decEmbeddedField(h, T, old, set, is, s) ==
  IF is = <<>> THEN decodeValue(h, T, old, set, s)
  ELSE IF T[1] = "ptr"
    THEN IF old = NIL /\ ~set THEN decErr
         ELSE Use(decEmbeddedField(h, T[2], IF old = NIL THEN Zero(T[2]) ELSE old[2], TRUE, is, s),
                  LAMBDA v, rest : Got(<<"ptr", v>>, rest))
  ELSE Use(decEmbeddedField(h, Defs[T[2]].fields[is[1]].type, old[2][is[1]], set, Tail(is), s),
           LAMBDA v, rest : Got(<<"struct", [old[2] EXCEPT ![is[1]] = v]>>, rest))

\* a value that is read and thrown away
Skip(h, v, s) == Use(decodeValue(h, INTF, NIL, TRUE, s), LAMBDA x, rest : Got(v, rest))

\* the position of a field by its key in the stream
fieldFor(T, key) == IF Len(key) = 1 THEN indexForEncName(cachedTypeInfo[T[2]].sfi, key[1]) ELSE 0

\* Mutant of decodeField: the value of an unknown field is left where it is.
decodeFieldLeaves(h, T, k, v, set, s) ==
  IF k # 0 THEN decEmbeddedField(h, T, v, set, cachedTypeInfo[T[2]].sfi[k].is, s)
  ELSE If(~h.errorIfNoField, Got(v, s))

\* the value of the field at k, or of one that the struct does not have
decodeField(h, T, k, v, set, s) ==
  IF k # 0 THEN decEmbeddedField(h, T, v, set, cachedTypeInfo[T[2]].sfi[k].is, s)
  ELSE IF h.errorIfNoField THEN decErr
  ELSE Skip(h, v, s)

\* one key of a stream map and the value of the field it names
decodeFieldNamed(h, T, v, set, s) ==
  Use(readString(s), LAMBDA key, at : decodeField(h, T, fieldFor(T, key), v, set, at))

\* the j-th element of a stream array
decodeFieldAt(h, T, j, v, set, s) ==
  LET sfip == cachedTypeInfo[T[2]].sfip
  IN  IF j <= Len(sfip) THEN decEmbeddedField(h, T, v, set, sfip[j].is, s) ELSE Skip(h, v, s)

\* kStruct
decodeStruct(h, T, old, set, s) ==
  CASE streamType(h, s) = "map" ->
         Use(readMapLen(s), LAMBDA n, at :
           FoldLeft(LAMBDA p, j : Use(p, LAMBDA v, rest : decodeFieldNamed(h, T, v, set, rest)), Got(old, at), UpTo(n)))
    [] streamType(h, s) = "array" ->
         Use(readArrayLen(s), LAMBDA n, at :
           FoldLeft(LAMBDA p, j : Use(p, LAMBDA v, rest : decodeFieldAt(h, T, j, v, set, rest)), Got(old, at), UpTo(n)))
    [] OTHER -> decErr

-----------------------------------------------------------------------------
(* Interfaces, and the switch on the type.                                 *)

\* The type that decodeNaked finds in the stream, RawExt for an extension.
nakedType(h, s) ==
  CASE streamType(h, s) = "bool" -> BOOL
    [] streamType(h, s) = "int" -> INT
    [] streamType(h, s) = "uint" -> UINT
    [] streamType(h, s) = "string" -> STR
    [] streamType(h, s) = "bytes" -> BYTES
    [] streamType(h, s) = "map" -> IF h.mapType = NIL THEN MapOf(INTF, INTF) ELSE h.mapType
    [] streamType(h, s) = "array" -> SliceOf(INTF)
    [] streamType(h, s) = "ext" -> RAWEXT
    [] OTHER -> NIL

\* an extension as the type that is registered for its tag
AsExt(h, x) == IF HasExtForTag(h.exts, x[2]) THEN Dyn(ExtTypeForTag(h.exts, x[2]), x[3]) ELSE Dyn(RAWEXT, x)

\* decodeNaked and kInterface of a nil interface: the stream says the type.
decodeNaked(h, T, s) ==
  CASE T = NIL -> decErr
    [] T = RAWEXT -> Use(readExt(s, FALSE, 0), LAMBDA x, rest : Got(AsExt(h, x), rest))
    [] T \in {BOOL, INT, UINT, STR} -> Use(decodeScalar(T[1], s), LAMBDA v, rest : Got(Dyn(T, v), rest))
    [] OTHER -> Use(decodeValue(h, T, NIL, TRUE, s), LAMBDA v, rest : Got(Dyn(T, v), rest))

\* what an interface holds can be changed only through a pointer in it
kInterface(h, old, s) ==
  IF old = NIL THEN decodeNaked(h, nakedType(h, s), s)
  ELSE Use(decodeValue(h, old[2], old[3], FALSE, s), LAMBDA v, rest : Got(Dyn(old[2], v), rest))

\* The switch of decodeValue on what the type is.
decodeBase(h, T, old, set, s) ==
  CASE T = RAWEXT -> If(set, readExt(s, FALSE, 0))
    [] T[1] = "named" /\ HasExt(h.exts, T) ->
         If(set, Use(readExt(s, TRUE, ExtTag(h.exts, T)), LAMBDA x, rest : Got(x[3], rest)))
    [] T[1] = "marsh" -> If(set, Use(readBytes(s), LAMBDA b, rest : Got(<<"marsh", NilIfEmpty(b)>>, rest)))
    [] T[1] \in {"bool", "int", "uint", "u8", "str"} -> If(set, decodeScalar(T[1], s))
    [] T = INTF -> kInterface(h, old, s)
    [] T[1] = "struct" -> decodeStruct(h, T, old, set, s)
    [] T[1] \in {"bytes", "named", "slice", "mbs", "array"} -> kSlice(h, T, old, set, s)
    [] T[1] = "map" -> kMap(h, T, old, set, s)
    [] OTHER -> decErr

\* A nil in the stream makes the destination zero.  Pointers are followed, nil
\* ones made, until something else is found.
decodeValue(h, T, old, set, s) ==
  IF s = <<>> THEN decErr
  ELSE IF s[1] = M!mpNil THEN If(set \/ (T[1] = "ptr" /\ old = NIL), Got(Zero(T), Tail(s)))
  ELSE IF T[1] # "ptr" THEN decodeBase(h, T, old, set, s)
  ELSE IF old = NIL /\ ~set THEN decErr
  ELSE Use(decodeValue(h, T[2], IF old = NIL THEN Zero(T[2]) ELSE old[2], TRUE, s),
           LAMBDA v, rest : Got(<<"ptr", v>>, rest))

\* decode: the destination that the caller points to.  Types known by name
\* leave a nil to the driver, and []byte takes what decodeBytes returns also
\* when it is not marked as changed.
decode(h, T, old, s) ==
  CASE T \in {BOOL, INT, UINT, STR} -> decodeScalar(T[1], s)
    [] T = BYTES -> Use(readBytes(s), LAMBDA b, rest :
                      Got(IF b # <<>> /\ Len(b) # Len(Elems(old)) THEN <<"bytes", b>> ELSE NIL, rest))
    [] T \in FastSlices -> decSlice(h, T, old, s)
    [] T \in FastMaps -> decMap(h, T, old, s)
    [] OTHER -> decodeValue(h, T, old, TRUE, s)
=============================================================================
