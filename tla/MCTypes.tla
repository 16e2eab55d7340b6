------------------------------- MODULE MCTypes -------------------------------
(* An instance of TypeCache for TLC, about types that TypeInfo knows. *)
EXTENDS TypeCache, TypeInfo

Field(name) ==
  [name |-> name, type |-> <<"int">>, tagged |-> FALSE, key |-> 0, omitEmpty |-> FALSE, anon |-> FALSE, ignored |-> FALSE]
Embedded(name, type) == [Field(name) EXCEPT !.anon = TRUE, !.type = type]
Renamed(name, key) == [Field(name) EXCEPT !.tagged = TRUE, !.key = key]
Struct(fields) == [info |-> [omitEmpty |-> FALSE, toArray |-> FALSE], fields |-> fields]

\* names 2, 4, .., 2n, in no order
Shuffled(n) == [i \in 1..n |-> Field(2 * (((7 * i) % n) + 1))]

\* outer: an embedded struct between two fields that have names of its fields
\* wide: enough fields for the binary search
MCDefs ==
  [inner |-> Struct(<<Field(4), Field(2), Renamed(6, 9)>>),
   outer |-> Struct(<<Field(2), Embedded(8, <<"ptr", <<"struct", "inner">>>>), Field(4), Field(6)>>),
   wide |-> Struct(Shuffled(17))]

MCFields == [rt \in DOMAIN Defs |-> cachedTypeInfo[rt].sfip]
MCSorted == [rt \in DOMAIN Defs |-> cachedTypeInfo[rt].sfi]

-----------------------------------------------------------------------------

\* The fields of a struct type and of the structs embedded in it that are not
\* ignored, as paths of indices.
RECURSIVE FieldPaths(_, _)
FieldPaths(rt, at) ==
  UNION { LET f == Defs[rt].fields[j]
              is == Append(at, j)
          IN  IF f.ignored THEN {} ELSE IF IsInlined(f) THEN FieldPaths(StructOf(f.type)[2], is) ELSE {is}
        : j \in DOMAIN Defs[rt].fields }

FieldAt(rt, is) ==
  LET T == FieldType(rt, SubSeq(is, 1, Len(is) - 1)) IN Defs[StructOf(T)[2]].fields[is[Len(is)]]
KeyOf(f) == IF f.tagged /\ f.key # 0 THEN f.key ELSE f.name
SameName(rt, p, q) == FieldAt(rt, p).name = FieldAt(rt, q).name

\* Fields are met in the order in which they are written down, those of an
\* embedded struct in its place.
MetBefore(p, q) ==
  \E i \in DOMAIN p \cap DOMAIN q : p[i] < q[i] /\ SubSeq(p, 1, i - 1) = SubSeq(q, 1, i - 1)

\* By type, of the fields of one name, the first one.
FirstOfName ==
  [rt \in DOMAIN Defs |->
     LET paths == FieldPaths(rt, <<>>)
     IN  {p \in paths : \A q \in paths : SameName(rt, p, q) => ~MetBefore(q, p)}]

\* In a typeInfo that goroutines can see, every name that the type or a struct
\* embedded in it gives to a field stands for one field, the first of that
\* name, at whatever depth; the array form has these fields in the order they
\* are met, and each of their keys leads to its field, by the linear search
\* and by the binary one, while other keys are not found.  So a struct is
\* decoded into the fields it was encoded from.  That is what the code does,
\* not what its comment says, "do not let fields with same name in embedded
\* structs override field at higher level" (helper.go:526): a field that has
\* the name of one in a struct embedded before it is hidden by that, as field 4
\* of outer is (rgetTypeInfo, indexForEncName).
FieldsFound ==
  \A rt \in Types : cached[rt] # None =>
    LET ti == heap[cached[rt]]
        first == FirstOfName[rt]
    IN  /\ {ti.sfip[i].is : i \in DOMAIN ti.sfip} = first
        /\ \A i \in 2..Len(ti.sfip) : MetBefore(ti.sfip[i - 1].is, ti.sfip[i].is)
        /\ \A n \in 0..36 :
             LET k == indexForEncName(ti.sfi, n)
                 withKey == {p \in first : KeyOf(FieldAt(rt, p)) = n}
             IN  IF withKey = {} THEN k = 0 ELSE k # 0 /\ withKey = {ti.sfi[k].is}
=============================================================================
