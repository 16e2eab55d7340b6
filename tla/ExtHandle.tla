------------------------------ MODULE ExtHandle ------------------------------
(***************************************************************************)
(* The extensions registered with a handle (extHandle of                   *)
(* src/go-msgpack/codec/helper.go).  The table is a sequence of entries    *)
(* that is searched from the front; `on' says whether the functions of an  *)
(* entry are not nil.  Go's functions are not modelled: what they do to a  *)
(* value is in Encode and Decode.  Types are named ones, which AddExt      *)
(* insists on.                                                             *)
(***************************************************************************)
EXTENDS Naturals, Sequences, SequencesExt

extTypeTagFn(rt, tag, on) == [rt |-> rt, tag |-> tag, on |-> on]

\* Mutant of AddExt: a second registration does not change the tag.
AddExtKeepsTag(o, rt, tag, on) ==
  IF \E i \in DOMAIN o : o[i].rt = rt
    THEN [i \in DOMAIN o |-> IF o[i].rt = rt THEN [o[i] EXCEPT !.on = on] ELSE o[i]]
    ELSE Append(o, extTypeTagFn(rt, tag, on))

\* A type that has an entry keeps its place in the table.
AddExt(o, rt, tag, on) ==
  IF \E i \in DOMAIN o : o[i].rt = rt
    THEN [i \in DOMAIN o |-> IF o[i].rt = rt THEN extTypeTagFn(rt, tag, on) ELSE o[i]]
    ELSE Append(o, extTypeTagFn(rt, tag, on))

\* The first entry for the type, or for the tag; 0 for a nil pointer.
getExt(o, rt) == SelectInSeq(o, LAMBDA x : x.rt = rt)
getExtForTag(o, tag) == SelectInSeq(o, LAMBDA x : x.tag = tag)

\* getEncodeExt and getDecodeExt return a function only if there is one.
HasExt(o, rt) == getExt(o, rt) # 0 /\ o[getExt(o, rt)].on
ExtTag(o, rt) == o[getExt(o, rt)].tag

\* getDecodeExtForTag: the type that a tag decodes to, if it decodes at all.
HasExtForTag(o, tag) == getExtForTag(o, tag) # 0 /\ o[getExtForTag(o, tag)].on
ExtTypeForTag(o, tag) == o[getExtForTag(o, tag)].rt
=============================================================================
