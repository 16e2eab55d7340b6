------------------------------- MODULE Encode -------------------------------
(***************************************************************************)
(* The encoder (src/go-msgpack/codec/encode.go): the walk over a Go value  *)
(* that calls the msgpack driver for each part.                            *)
(*                                                                         *)
(* A type is a tuple that starts with its kind, and so is a value:         *)
(*   <<"bool", b>>  <<"int", w>>  <<"uint", w>>  <<"u8", w>>, w an 8-byte  *)
(*   word; <<"str", bytes>>; <<"bytes", bytes>> of []byte and of a named   *)
(*   type <<"named", n>> over it; <<"ptr", v>>; <<"slice", elems, hidden>> *)
(*   with the elements between length and capacity, of types               *)
(*   <<"slice", E>> and <<"mbs", E>> (a MapBySlice); <<"array", elems>> of *)
(*   <<"array", E, n>>; <<"map", f>> of <<"map", K, V>>; <<"struct", fs>>; *)
(*   <<"marsh", data>> of a type that marshals itself and                  *)
(*   <<"rawext", tag, data>>, whose data is a value of type []byte;        *)
(*   <<"func">>, which cannot be encoded.                                  *)
(* An interface holds <<"intf", T, v>>, and NIL is the nil of every kind.  *)
(*                                                                         *)
(* A handle h is a record of its options and its extensions h.exts, and of *)
(* the order in which Go happens to walk through maps.                     *)
(*                                                                         *)
(* Not among the values: floats and integers of other widths, which only   *)
(* differ in the driver's function that is called (MCDrivers is about      *)
(* those), arrays of bytes, and interfaces with methods.                   *)
(***************************************************************************)
EXTENDS TypeInfo, ExtHandle, Bytes

M == INSTANCE Msgpack

NIL == <<"nil">>
BOOL == <<"bool">>
INT == <<"int">>
UINT == <<"uint">>
STR == <<"str">>
BYTES == <<"bytes">>
INTF == <<"intf">>
RAWEXT == <<"rawext">>
MapOf(K, V) == <<"map", K, V>>
SliceOf(E) == <<"slice", E>>
Dyn(T, v) == <<"intf", T, v>>

\* The types that encode and decode know by name.
FastSlices == {SliceOf(E) : E \in {INTF, STR, INT, UINT}}
FastMaps == {MapOf(K, INTF) : K \in {INTF, STR, INT, UINT}}
FastTypes == {BOOL, INT, UINT, STR, BYTES, MapOf(STR, STR)} \cup FastSlices \cup FastMaps

\* What is written, and whether the encoder got to the end or panicked.
Wrote(b) == [ok |-> TRUE, b |-> b]
encErr == [ok |-> FALSE, b |-> <<>>]
Then(a, c) == IF a.ok THEN [ok |-> c.ok, b |-> a.b \o c.b] ELSE a
InTurn(parts) == FoldLeft(Then, Wrote(<<>>), parts)

encodeNil == Wrote(<<M!mpNil>>)
encodeArrayPreamble(n) == Wrote(M!writeContainerLen(M!ContainerList, n, FALSE))
encodeMapPreamble(n) == Wrote(M!writeContainerLen(M!ContainerMap, n, FALSE))
encodeString(h, bs) == Wrote(M!writeContainerLen(M!ContainerStr, Len(bs), h.writeExt) \o bs)
encodeStringBytes(h, bs) ==
  Wrote(M!writeContainerLen(IF h.writeExt THEN M!ContainerBin ELSE M!ContainerStr, Len(bs), h.writeExt) \o bs)

\* data of an extension, with its tag if the handle writes tags
encodeTagged(h, tag, data) ==
  IF h.writeExt THEN Wrote(M!encodeExtPreamble(tag, Len(data)) \o data) ELSE encodeStringBytes(h, data)

Elems(v) == IF v = NIL THEN <<>> ELSE v[2]

\* the keys of a map in the order of the iteration
KeysOf(h, m) == LET ks == SetToSeq(DOMAIN m) IN IF h.backwards THEN Reverse(ks) ELSE ks

\* what was made of the keys and of the values, in turn
Entries(keys, vals) ==
  InTurn(<<encodeMapPreamble(Len(keys))>> \o FlattenSeq([i \in DOMAIN keys |-> <<keys[i], vals[i]>>]))

\* rv.FieldByIndex panics on the way through a nil pointer to a struct
Base(v) == IF v[1] = "ptr" THEN v[2] ELSE v
FieldByIndex(v, is) ==
  FoldLeft(LAMBDA at, j : IF at = NIL \/ Base(at) = NIL THEN NIL ELSE Base(at)[2][j], v, is)
Reachable(v, is) == FieldByIndex(v, SubSeq(is, 1, Len(is) - 1)) # NIL

\* isEmptyValue: pointers are not followed and structs are never empty
isEmptyValue(v) ==
  CASE v = NIL -> TRUE
    [] v[1] = "bool" -> ~v[2]
    [] v[1] \in {"int", "uint", "u8"} -> v[2] = Fill(0, 8)
    [] v[1] \in {"str", "bytes", "slice", "array"} -> v[2] = <<>>
    [] v[1] = "map" -> DOMAIN v[2] = {}
    [] OTHER -> FALSE

-----------------------------------------------------------------------------

RECURSIVE encode(_, _), encodeValue(_, _, _)

encodeSeq(h, preamble, E, elems) ==
  InTurn(<<preamble>> \o [i \in DOMAIN elems |-> encodeValue(h, E, elems[i])])

\* kSlice and kArray beyond the nil and the fast cases
encodeElems(h, T, elems) ==
  IF T[1] # "mbs" THEN encodeSeq(h, encodeArrayPreamble(Len(elems)), T[2], elems)
  ELSE IF Len(elems) % 2 = 1 THEN encErr
  ELSE encodeSeq(h, encodeMapPreamble(Len(elems) \div 2), T[2], elems)

\* encSliceIntf and its siblings; elements of interface type go through encode
encSlice(h, T, elems) ==
  IF T[2] = INTF
    THEN InTurn(<<encodeArrayPreamble(Len(elems))>> \o [i \in DOMAIN elems |-> encode(h, elems[i])])
    ELSE encodeSeq(h, encodeArrayPreamble(Len(elems)), T[2], elems)

\* encMapStrIntf and its siblings pass what is in interfaces to encode.
\* AsSymbols makes no difference to msgpack.
encMap(h, T, m) ==
  LET ks == KeysOf(h, m)
      part(X, x) == IF X = INTF THEN encode(h, x) ELSE encodeValue(h, X, x)
  IN  Entries([i \in DOMAIN ks |-> part(T[2], ks[i])], [i \in DOMAIN ks |-> part(T[3], m[ks[i]])])

\* kMap
encodeMap(h, T, m) ==
  LET ks == KeysOf(h, m) IN
    IF T \in FastMaps THEN encMap(h, T, m)
    ELSE Entries([i \in DOMAIN ks |-> encodeValue(h, T[2], ks[i])], [i \in DOMAIN ks |-> encodeValue(h, T[3], m[ks[i]])])

omitted(v, si) == si.omitEmpty /\ isEmptyValue(FieldByIndex(v, si.is))
encodeField(h, name, v, si) == encodeValue(h, FieldType(name, si.is), FieldByIndex(v, si.is))

\* a map of n entries, and the fields in sfi
encodeFields(h, name, v, n, sfi) ==
  InTurn(<<encodeMapPreamble(n)>>
         \o FlattenSeq([j \in DOMAIN sfi |-> <<encodeString(h, <<sfi[j].encName>>), encodeField(h, name, v, sfi[j])>>]))

\* Mutant of structToMap: the length counts the fields that are left out.
structToMapCount(h, name, v, sfi) ==
  encodeFields(h, name, v, Len(sfi), SelectSeq(sfi, LAMBDA si : ~omitted(v, si)))

\* The map form, without the fields that are left out.
structToMap(h, name, v, sfi) ==
  LET kept == SelectSeq(sfi, LAMBDA si : ~omitted(v, si)) IN encodeFields(h, name, v, Len(kept), kept)

\* The array form.  A field that is left out becomes the zero reflect.Value,
\* whose Type encodeValue asks for: that panics.
structToArray(h, name, v, sfip) ==
  InTurn(<<encodeArrayPreamble(Len(sfip))>>
         \o [j \in DOMAIN sfip |-> IF omitted(v, sfip[j]) THEN encErr ELSE encodeField(h, name, v, sfip[j])])

\* kStruct.  All fields are fetched before anything is written.
encodeStruct(h, name, v) ==
  LET ti == cachedTypeInfo[name]
  IN  IF \E i \in DOMAIN ti.sfip : ~Reachable(v, ti.sfip[i].is) THEN encErr
      ELSE IF ti.toArray \/ h.structToArray THEN structToArray(h, name, v, ti.sfip)
      ELSE structToMap(h, name, v, ti.sfi)

\* The switch of encodeValue on what the type is: RawExt, an extension, a
\* binaryMarshaler, or else its kind.
encodeBase(h, T, v) ==
  CASE T = RAWEXT -> IF v[3] = NIL THEN encodeNil ELSE encodeTagged(h, v[2], v[3][2])
    [] T[1] = "named" /\ HasExt(h.exts, T) -> IF v = NIL THEN encodeNil ELSE encodeTagged(h, ExtTag(h.exts, T), v[2])
    [] T[1] = "marsh" -> IF v[2] = NIL THEN encodeNil ELSE encodeStringBytes(h, v[2][2])
    [] T = BOOL -> Wrote(M!encodeBool(v[2]))
    [] T = INT -> Wrote(M!encodeInt(v[2]))
    [] T = UINT -> Wrote(M!encodeUint(v[2]))
    [] T = STR -> encodeString(h, v[2])
    [] T[1] \in {"bytes", "named", "slice", "mbs", "map", "intf"} /\ v = NIL -> encodeNil
    [] T[1] \in {"bytes", "named"} -> encodeStringBytes(h, v[2])
    [] T \in FastSlices -> encSlice(h, T, v[2])
    [] T[1] \in {"slice", "mbs", "array"} -> encodeElems(h, T, v[2])
    [] T[1] = "map" -> encodeMap(h, T, v[2])
    [] T[1] = "struct" -> encodeStruct(h, T[2], v)
    [] T = INTF -> encodeValue(h, v[2], v[3])
    [] OTHER -> encErr

encodeValue(h, T, v) ==
  IF T[1] # "ptr" THEN encodeBase(h, T, v)
  ELSE IF v = NIL THEN encodeNil
  ELSE encodeValue(h, T[2], v[2])

\* encode of what an interface holds.  A pointer to a type known by name is
\* followed whether it is nil or not; a nil slice or map of such a type is
\* written as an empty one.
encode(h, x) ==
  LET T == x[2]
      v == x[3]
  IN  IF x = NIL THEN encodeNil
      ELSE IF T[1] = "ptr" /\ T[2] \in FastTypes THEN IF v = NIL THEN encErr ELSE encode(h, Dyn(T[2], v[2]))
      ELSE IF T \in FastSlices THEN encSlice(h, T, Elems(v))
      ELSE IF T \in FastMaps \cup {MapOf(STR, STR)} THEN encMap(h, T, IF v = NIL THEN <<>> ELSE v[2])
      ELSE IF T = BYTES THEN encodeStringBytes(h, Elems(v))
      ELSE encodeValue(h, T, v)
=============================================================================
