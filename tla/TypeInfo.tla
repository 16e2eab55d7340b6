------------------------------ MODULE TypeInfo ------------------------------
(***************************************************************************)
(* What the codecs know of a struct type (typeInfo and structFieldInfo of  *)
(* src/go-msgpack/codec/helper.go): which fields are encoded, under which  *)
(* names, in which order, and how a name in the stream is looked up.       *)
(*                                                                         *)
(* Names are natural numbers, ordered like the strings they stand for.     *)
(***************************************************************************)
EXTENDS Integers, Sequences, FiniteSets, SequencesExt, TLC

CONSTANT
  \* What reflection says of each struct type: [info, fields], where info is
  \* the tag of its _struct field, [omitEmpty, toArray], and each field has a
  \* name, a type, the parts of its tag (tagged, key, omitEmpty; key 0 is an
  \* empty name) and is anonymous or not, and ignored (unexported, or the tag
  \* "-") or not.
  Defs

\* types are tuples: <<"struct", name>>, <<"ptr", type>>, ...
StructOf(T) == IF T[1] = "ptr" THEN T[2] ELSE T
FieldType(rt, is) == FoldLeft(LAMBDA T, j : Defs[StructOf(T)[2]].fields[j].type, <<"struct", rt>>, is)
IsInlined(f) == f.anon /\ ~f.tagged /\ StructOf(f.type)[1] = "struct"

-----------------------------------------------------------------------------

\* is is the path of field indices, of length one for a field of the struct
parseStructFieldInfo(f, info, is) ==
  [encName |-> IF f.tagged /\ f.key # 0 THEN f.key ELSE f.name,
   omitEmpty |-> (f.tagged /\ f.omitEmpty) \/ info.omitEmpty,
   is |-> is]

RECURSIVE rgetTypeInfo(_, _, _, _)

\* Mutant of rgetTypeInfo: fields of embedded structs are not checked against
\* the names that are already taken.
rgetTypeInfoAll(rt, indexstack, info, acc) ==
  FoldLeft(LAMBDA a, j :
      LET f == Defs[rt].fields[j]
          is == Append(indexstack, j)
      IN  IF f.ignored THEN a
          ELSE IF IsInlined(f) THEN rgetTypeInfo(StructOf(f.type)[2], is, info, a)
          ELSE [names |-> a.names \cup {f.name}, sfi |-> Append(a.sfi, parseStructFieldInfo(f, info, is))],
    acc, [j \in DOMAIN Defs[rt].fields |-> j])

\* The fields of rt in the order they are met, embedded structs inlined; a
\* name that was met before, at whatever depth, is skipped.
rgetTypeInfo(rt, indexstack, info, acc) ==
  FoldLeft(LAMBDA a, j :
      LET f == Defs[rt].fields[j]
          is == Append(indexstack, j)
      IN  IF f.ignored THEN a
          ELSE IF IsInlined(f) THEN rgetTypeInfo(StructOf(f.type)[2], is, info, a)
          ELSE IF f.name \in a.names THEN a
          ELSE [names |-> a.names \cup {f.name}, sfi |-> Append(a.sfi, parseStructFieldInfo(f, info, is))],
    acc, [j \in DOMAIN Defs[rt].fields |-> j])

\* sort.Sort(sfiSortedByEncName(sfip)); equal names keep their order in the
\* insertion sort that it is for fewer than twelve fields
sortByEncName(sfip) ==
  LET before(i, j) == sfip[i].encName < sfip[j].encName \/ (sfip[i].encName = sfip[j].encName /\ i < j)
      order == SortSeq([i \in DOMAIN sfip |-> i], before)
  IN  [i \in DOMAIN sfip |-> sfip[order[i]]]

\* the typeInfo that getTypeInfo builds for a struct type
buildTypeInfo(rt) ==
  LET sfip == rgetTypeInfo(rt, <<>>, Defs[rt].info, [names |-> {}, sfi |-> <<>>]).sfi
  IN  [sfip |-> sfip, sfi |-> sortByEncName(sfip), toArray |-> Defs[rt].info.toArray]

\* what getTypeInfo returns for each type (TypeCache has how it comes about)
cachedTypeInfo[rt \in DOMAIN Defs] == buildTypeInfo(rt)

-----------------------------------------------------------------------------

binarySearchThreshold == 16

\* The least position in i..j-1 of a sorted sequence whose name is not below.
RECURSIVE binarySearch(_, _, _, _)
binarySearch(sfi, name, i, j) ==
  LET h == i + (j - i) \div 2
  IN  IF i >= j THEN i
      ELSE IF sfi[h].encName < name THEN binarySearch(sfi, name, h + 1, j)
      ELSE binarySearch(sfi, name, i, h)

\* Positions start at 1, and 0 stands for -1.
indexForEncName(sfi, name) ==
  IF Len(sfi) < binarySearchThreshold
    THEN SelectInSeq(sfi, LAMBDA si : si.encName = name)
    ELSE LET i == binarySearch(sfi, name, 1, Len(sfi) + 1)
         IN  IF i <= Len(sfi) /\ sfi[i].encName = name THEN i ELSE 0
=============================================================================
