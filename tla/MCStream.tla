------------------------------ MODULE MCStream ------------------------------
(* Instances of Stream for TLC. *)
EXTENDS Stream

Struct(n) == <<"struct", n>>
Ptr(T) == <<"ptr", T>>
ArrayOf(E, n) == <<"array", E, n>>
Mbs(E) == <<"mbs", E>>
Ext1 == <<"named", 1>>
Ext2 == <<"named", 2>>

\* in:   a struct with a field that may be omitted and one nobody sees
\* out:  in, embedded by pointer between two fields, the second of which has
\*       the name of a field of in; tags that exchange the order of names
\* less: what an older version of out knows
\* pair: always an array
\* bag:  containers, one of each
MCDefs ==
  LET F(name, type) == [name |-> name, type |-> type, tagged |-> FALSE, key |-> 0, omitEmpty |-> FALSE,
                        anon |-> FALSE, ignored |-> FALSE]
      Omit(f) == [f EXCEPT !.tagged = TRUE, !.omitEmpty = TRUE]
      Key(f, k) == [f EXCEPT !.tagged = TRUE, !.key = k]
      Embed(f) == [f EXCEPT !.anon = TRUE]
      Hide(f) == [f EXCEPT !.ignored = TRUE]
      Plain == [omitEmpty |-> FALSE, toArray |-> FALSE]
      AsArray == [omitEmpty |-> FALSE, toArray |-> TRUE]
  IN
  [in |-> [info |-> Plain, fields |-> <<F(1, INT), Omit(F(2, STR)), Hide(F(9, INT))>>],
   out |-> [info |-> Plain, fields |-> <<Key(F(5, UINT), 7), Embed(F(8, Ptr(Struct("in")))), F(2, BOOL), Key(Omit(F(6, BYTES)), 3)>>],
   less |-> [info |-> Plain, fields |-> <<F(2, STR), F(7, UINT)>>],
   pair |-> [info |-> AsArray, fields |-> <<F(4, INT), F(3, Ptr(INT))>>],
   bag |-> [info |-> Plain, fields |->
     <<F(1, SliceOf(Struct("in"))), F(2, MapOf(STR, Struct("in"))), F(3, ArrayOf(INT, 2)), F(4, SliceOf(INT)), F(5, BYTES)>>]]

I(n) == <<"int", IF n < 0 THEN Negate(ZeroExt(<<-n>>)) ELSE ZeroExt(ToBytes(n, 2))>>
U(n) == <<"uint", ZeroExt(ToBytes(n, 2))>>
S(b) == <<"str", b>>
B(b) == <<"bytes", b>>
P(v) == <<"ptr", v>>
L(elems) == <<"slice", elems, <<>>>>
A(elems) == <<"array", elems>>
R(fs) == <<"struct", fs>>

In(a, b) == R(<<I(a), S(b), I(0)>>)
Out(u, a, b, y) == R(<<U(u), P(In(a, b)), <<"bool", TRUE>>, y>>)
Bag(l, m, a, n, y) == R(<<l, m, a, n, y>>)

Bags1 ==
  { Bag(L(<<In(1, <<97>>)>>), <<"map", S(<<97>>) :> In(1, <<>>)>>, A(<<I(1), I(2)>>), L(<<I(-1), I(300)>>), B(<<1, 2>>)),
    Bag(L(<<In(2, <<>>), In(3, <<98>>)>>), <<"map", (S(<<97>>) :> In(2, <<97>>)) @@ (S(<<98>>) :> In(3, <<>>))>>,
        A(<<I(3), I(0)>>), L(<<>>), B(<<>>)),
    Bag(NIL, NIL, A(<<I(0), I(0)>>), NIL, NIL) }

\* the same containers with elements beyond their length
Cut(l) == <<"slice", <<>>, l>>

MCMessages ==
  { <<INT, I(-33)>>, <<INT, I(-32)>>, <<STR, S(<<97>>)>>, <<BYTES, B(<<1, 2>>)>>, <<Ptr(INTF), NIL>>,
    <<Struct("out"), Out(200, 1, <<97>>, NIL)>>, <<Struct("out"), Out(1, 2, <<>>, B(<<7>>))>>,
    <<Struct("out"), R(<<U(1), NIL, <<"bool", TRUE>>, NIL>>)>>,
    <<Ptr(Struct("in")), P(In(5, <<>>))>>, <<Ptr(Struct("in")), NIL>>, <<Ptr(STR), NIL>>,
    <<Struct("pair"), R(<<I(1), P(I(2))>>)>>, <<Struct("pair"), R(<<I(3), NIL>>)>>,
    <<SliceOf(INT), L(<<I(1), I(2)>>)>>, <<SliceOf(INTF), L(<<Dyn(INT, I(1)), NIL, Dyn(STR, S(<<>>))>>)>>,
    <<SliceOf(INTF), L(<<>>)>>,
    <<SliceOf(Struct("in")), L(<<In(1, <<97>>), In(2, <<>>)>>)>>,
    <<Mbs(INT), L(<<I(1), I(2)>>)>>, <<Mbs(INT), L(<<I(1)>>)>>,
    <<MapOf(STR, INTF), <<"map", (S(<<97>>) :> Dyn(INT, I(1))) @@ (S(<<98>>) :> Dyn(SliceOf(INTF), L(<<>>)))>>>>,
    <<MapOf(INTF, INTF), <<"map", (Dyn(INT, I(1)) :> NIL) @@ (Dyn(STR, S(<<97>>)) :> Dyn(BOOL, <<"bool", TRUE>>))>>>>,
    <<MapOf(STR, STR), <<"map", S(<<97>>) :> S(<<98>>)>>>>,
    <<SliceOf(INT), NIL>>, <<MapOf(STR, STR), NIL>>, <<MapOf(STR, INTF), NIL>>, <<Ptr(SliceOf(INT)), P(NIL)>>,
    <<Ext1, B(<<5, 6>>)>>, <<Ext1, B(<<>>)>>, <<Ext2, B(<<6>>)>>, <<RAWEXT, <<"rawext", 1, B(<<9>>)>>>>,
    <<SliceOf(INTF), L(<<Dyn(Ext1, B(<<7>>)), Dyn(Ext2, B(<<>>)), Dyn(RAWEXT, <<"rawext", 1, B(<<9>>)>>)>>)>>,
    <<<<"marsh">>, <<"marsh", B(<<3>>)>>>>, <<<<"marsh">>, <<"marsh", B(<<>>)>>>>, <<<<"func">>, <<"func">>>> }
  \cup {<<Struct("bag"), b>> : b \in Bags1}

MCDestinations ==
  {Fresh(T) : T \in {INTF, INT, STR, BYTES, Struct("out"), Struct("less"), Struct("pair"), Struct("bag"), Ptr(Struct("in")), Ptr(SliceOf(INT)),
                     SliceOf(INT), SliceOf(INTF), SliceOf(Struct("in")), Mbs(INT), MapOf(STR, INTF), MapOf(INTF, INTF),
                     MapOf(STR, STR), Ext1, Ext2, RAWEXT, <<"marsh">>, ArrayOf(INT, 1)}}
  \cup { <<SliceOf(Struct("in")), Cut(<<In(8, <<99>>), In(9, <<99>>)>>)>>,
         <<SliceOf(INT), Cut(<<I(8), I(9), I(7)>>)>>,
         <<SliceOf(INTF), Cut(<<Dyn(INT, I(8)), NIL, NIL>>)>>,
         <<Struct("bag"), Bag(Cut(<<In(8, <<99>>)>>), NIL, A(<<I(8), I(8)>>), Cut(<<I(8)>>), B(<<8, 8>>))>> }

Options(a, w, r, b, e, m) ==
  [structToArray |-> a, writeExt |-> w, rawToString |-> r, backwards |-> b, errorIfNoField |-> e, mapType |-> m]
MCHandles ==
  { Options(FALSE, FALSE, FALSE, FALSE, FALSE, NIL), Options(FALSE, TRUE, TRUE, TRUE, TRUE, MapOf(STR, INTF)),
    Options(TRUE, TRUE, FALSE, TRUE, FALSE, NIL), Options(FALSE, TRUE, FALSE, FALSE, FALSE, NIL) }

MCExtTypes == {Ext1, Ext2}

TypesOf(m) == {m[1]} \cup {x[2] : x \in IF m[1] = SliceOf(INTF) THEN Range(m[2][2]) \ {NIL} ELSE {}}
HasExts(m) == Ext1 \in TypesOf(m)

\* Messages that some destinations read as something else, and a message that
\* is long enough for what they take it for.
LongString == S(Fill(97, 70))
Misread ==
  { <<INT, I(-32)>>, <<SliceOf(INTF), L(<<Dyn(INT, I(-32)), Dyn(STR, LongString)>>)>>,
    <<MapOf(INTF, INTF), <<"map", Dyn(INT, I(-32)) :> Dyn(STR, LongString)>>>> }

\* Two messages of one type, or one with an extension in it, or two of which
\* the first may be misread.
MCConversations ==
  {c \in MCMessages \X MCMessages : c[1][1] = c[2][1]} \cup {<<m>> : m \in {m \in MCMessages : HasExts(m)}}
  \cup {<<m, <<STR, LongString>>>> : m \in Misread}

\* Extensions are registered only for the latter; Ext1 and Ext2 are alike.
ExtsUsed == live # <<>> => Len(todo) <= 1 /\ \A i \in DOMAIN todo : HasExts(todo[i])

\* two []byte of one length, for a reader that uses its buffer again
TwoBuffers == {<<<<BYTES, B(<<1, 2>>)>>, <<BYTES, B(<<3, 4>>)>>>>}
OneBuffer == {Fresh(BYTES)}
=============================================================================
