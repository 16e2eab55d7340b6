------------------------------ MODULE MCDrivers ------------------------------
(***************************************************************************)
(* What the msgpack, binc and simple drivers promise, over boundary values *)
(* of integers, lengths, extensions and times.  There is nothing to step   *)
(* through: every sample is an initial state.                              *)
(***************************************************************************)
EXTENDS Bytes

CONSTANTS
  Leads,      \* values of the first significant byte
  Tails,      \* values of the bytes after it
  Lengths,    \* lengths of containers and extensions
  Offsets     \* zone offsets in seconds, east or west

\* they are bytes
ASSUME BytesAssumption == Leads \subseteq 0..255 /\ Tails \subseteq 0..255

\* lengths that Bytes can tell apart, zones within the 14 bits of minutes that a
\* timestamp has for them
ASSUME LengthsAssumption == \A n \in Lengths : n \in Nat /\ n < Huge
ASSUME OffsetsAssumption == \A o \in Offsets : o \in Nat /\ o < 60 * 8192

VARIABLE sample

M == INSTANCE Msgpack
B == INSTANCE Binc
S == INSTANCE Simple

\* 64-bit values around every boundary of the encodings.
Words == {Fill(f, 8 - n) \o <<b>> \o Fill(t, n - 1) : f \in {0, 255}, n \in 1..8, b \in Leads, t \in Tails}
         \cup {Fill(f, 6) \o <<b, t>> : f \in {0, 255}, b \in Leads, t \in Leads}

\* what t.Nanosecond() returns: below 10^9
Nanos == {ToBytes(x, 4) : x \in {0, 1, 127, 128, 255, 256, 32768, 8388608, 999999999}}

Containers == {M!ContainerStr, M!ContainerBin, M!ContainerList, M!ContainerMap}

Samples ==
  [kind : {"word"}, v : Words]
  \cup [kind : {"bool"}, b : BOOLEAN]
  \cup [kind : {"mplength"}, ct : Containers, l : Lengths, writeExt : BOOLEAN]
  \cup [kind : {"binclength"}, bd : {B!VdString, B!VdByteArray, B!VdArray, B!VdMap}, l : Lengths]
  \cup [kind : {"simplelength"}, bd : {S!VdString, S!VdByteArray, S!VdArray, S!VdMap}, l : Lengths]
  \cup [kind : {"ext"}, l : Lengths, tag : {0, 1, 255}]
  \cup [kind : {"time"}, utc : {TRUE}, secs : Words, nsecs : Nanos, offset : {0}]
  \cup [kind : {"time"}, utc : {FALSE}, secs : {Fill(0, 8), Fill(255, 8)}, nsecs : Nanos,
        offset : Offsets \cup {-o : o \in Offsets}]

Init == sample \in Samples
Next == UNCHANGED sample
Spec == Init /\ [][Next]_sample

IsWord == sample.kind = "word"
v == sample.v
LengthOf(n) == ZeroExt(ToBytes(n, 4))

-----------------------------------------------------------------------------
(* Integers.  A value is decoded from its encoding followed by other bytes *)
(* and must consume exactly the encoding.                                  *)

\* The magnitudes 0xFF800000..0xFFFFFFFF of negative numbers, whose first byte
\* encIntegerPrune takes for a sign extension.
Misread(w) == Negative(w) /\ LET m == Negate(w) IN FitsU(m, 4) /\ m[5] = 255 /\ m[6] >= 128

\* Every int64 and every uint64 survives, the least int64 included: encodeInt,
\* encodeUint, decodeInt and decodeUint of msgpack and simple and the unsigned
\* ones of binc, whose leading zero bytes are pruned.  An int64 survives binc's
\* encodeInt exactly when its magnitude is not one that pruning misreads.
IntRoundTrip ==
  IsWord =>
    /\ LET e == M!encodeInt(v) IN M!decodeInt(e \o <<7, 7>>, 8) = M!Ok(v, Len(e))
    /\ LET e == M!encodeUint(v) IN M!decodeUint(e \o <<7, 7>>, 8) = M!Ok(v, Len(e))
    /\ LET e == S!encodeInt(v) IN S!decodeInt(e \o <<7, 7>>, 8) = S!Ok(v, Len(e))
    /\ LET e == S!encodeUint(v) IN S!decodeUint(e \o <<7, 7>>, 8) = S!Ok(v, Len(e))
    /\ LET e == B!encodeUint(v) IN B!decodeUint(e \o <<7, 7>>, 8) = B!Ok(v, Len(e))
    /\ LET e == B!encodeInt(v) IN (B!decodeInt(e \o <<7, 7>>, 8) = B!Ok(v, Len(e))) <=> ~Misread(v)

\* What was read is v if it fits, and else an error.
Checked(r, fits) == IF fits THEN r.ok /\ r.v = v ELSE ~r.ok

\* Decoding into an integer of n bytes (checkOverflow in decodeInt and
\* decodeUint of the three drivers).  An integer of the same signedness is
\* refused exactly when it is out of range, and a signed one is read as an
\* unsigned one exactly when it is neither negative nor out of range; so
\* nothing is truncated.  Only a magnitude that binc's pruning misreads is not
\* covered: whatever is read in its place is another value.  But an unsigned
\* integer that is read as a signed one is taken by its bits before it is
\* checked: in all three drivers and at every width, it is accepted exactly if
\* these are in range, so that 2^64 - 1 is read as -1, without an error.
NarrowingChecked ==
  IsWord => \A n \in {1, 2, 4, 8} :
    /\ Checked(M!decodeInt(M!encodeInt(v), n), FitsS(v, n))
    /\ Checked(S!decodeInt(S!encodeInt(v), n), FitsS(v, n))
    /\ IF Misread(v) THEN B!decodeInt(B!encodeInt(v), n) # B!Ok(v, Len(B!encodeInt(v)))
                     ELSE Checked(B!decodeInt(B!encodeInt(v), n), FitsS(v, n))
    /\ Checked(M!decodeUint(M!encodeUint(v), n), FitsU(v, n))
    /\ Checked(S!decodeUint(S!encodeUint(v), n), FitsU(v, n))
    /\ Checked(B!decodeUint(B!encodeUint(v), n), FitsU(v, n))
    /\ Checked(M!decodeUint(M!encodeInt(v), n), ~Negative(v) /\ FitsU(v, n))
    /\ Checked(S!decodeUint(S!encodeInt(v), n), ~Negative(v) /\ FitsU(v, n))
    /\ Checked(B!decodeUint(B!encodeInt(v), n), ~Negative(v) /\ FitsU(v, n))
    /\ Checked(M!decodeInt(M!encodeUint(v), n), FitsS(v, n))
    /\ Checked(S!decodeInt(S!encodeUint(v), n), FitsS(v, n))
    /\ Checked(B!decodeInt(B!encodeUint(v), n), FitsS(v, n))

-----------------------------------------------------------------------------
(* Floats and times.                                                       *)

\* A float survives simple and binc bit for bit, also when binc drops its
\* trailing zero bytes; only the sign of a zero is lost to binc (encodeFloat32,
\* encodeFloat64, decodeFloat).
FloatSurvives(w) ==
  LET short == Low(w, 4)
      b8 == B!encodeFloat64(w)
      b4 == B!encodeFloat32(short)
  IN  /\ B!decodeFloat(b8 \o <<7, 7>>) = B!Ok(IF B!IsZeroFloat(w) THEN B!Zero ELSE w, Len(b8))
      /\ B!IsZeroFloat(short) \/ B!decodeFloat(b4 \o <<7, 7>>) = B!Ok(short, Len(b4))
      /\ S!decodeFloat(S!encodeFloat64(w)) = S!Ok(w, Len(S!encodeFloat64(w)))
      /\ S!decodeFloat(S!encodeFloat32(short)) = S!Ok(short, Len(S!encodeFloat32(short)))

\* A time survives: the instant exactly, the zone to the minute; and its
\* encoding always fits the four bits that hold its length in the stream
\* (encodeTime, decodeTime).
TimeSurvives(t) ==
  LET e == B!encodeBuiltin(t)
  IN  /\ Len(B!encodeTime(t)) <= 15
      /\ B!decodeBuiltin(e \o <<7, 7>>) =
           B!Ok([secs |-> t.secs, nsecs |-> t.nsecs, zone |-> IF t.utc THEN 0 ELSE B!Minutes(t.offset)], Len(e))

\* Floats and times, the values binc writes without their redundant bytes,
\* survive encoding and decoding.
PrunedRoundTrip ==
  /\ IsWord => FloatSurvives(v)
  /\ sample.kind = "time" => TimeSurvives(sample)

-----------------------------------------------------------------------------
(* Lengths and extensions.                                                 *)

\* Whether the length of a string, byte slice, array or map survives binc's
\* encLen and decLen.
BincLengthRoundTrip ==
  sample.kind = "binclength" =>
    LET e == B!encLen(sample.bd, LengthOf(sample.l))
    IN  B!decLen(e \o <<7, 7>>) = B!Ok(LengthOf(sample.l), Len(e))

\* The lengths that binc's encLen writes in the one or two bytes that decLen reads.
ReadBack(n) == n < 65536

\* A written length is read back, and its descriptor is classified as the
\* container that was written, so that the reader picks the same one
\* (writeContainerLen/readContainerLen with and without WriteExt, and simple's
\* encLen/decLen).  In binc it is read back exactly when two bytes hold it: no
\* shorter one is lost, and no longer one survives by chance.
LengthRoundTrip ==
  /\ sample.kind = "mplength" =>
       LET e == M!writeContainerLen(sample.ct, sample.l, sample.writeExt)
       IN  /\ M!readContainerLen(sample.ct, e \o <<7, 7>>) = M!Ok(sample.l, Len(e))
           /\ M!currentEncodedType(e[1], FALSE) =
                IF sample.ct = M!ContainerList THEN "array"
                ELSE IF sample.ct = M!ContainerMap THEN "map" ELSE "bytes"
  /\ sample.kind = "simplelength" =>
       LET e == S!encLen(sample.bd, LengthOf(sample.l))
       IN  /\ S!decLen(e \o <<7, 7>>) = S!Ok(LengthOf(sample.l), Len(e))
           /\ S!currentEncodedType(e[1]) = S!currentEncodedType(sample.bd)
  /\ sample.kind = "binclength" => (BincLengthRoundTrip <=> ReadBack(sample.l))

\* Tag and length of an extension survive, and a wrong tag is refused
\* (encodeExtPreamble, decodeExt).
ExtRoundTrip ==
  sample.kind = "ext" =>
    LET tag == sample.tag
        wrong == (tag + 1) % 256
        m == M!encodeExtPreamble(tag, sample.l)
        s == S!encodeExtPreamble(tag, LengthOf(sample.l))
        b == B!encodeExtPreamble(tag, LengthOf(sample.l))
    IN  /\ M!decodeExt(m, TRUE, tag) = M!Ok(<<tag, sample.l>>, Len(m)) /\ ~M!decodeExt(m, TRUE, wrong).ok
        /\ S!decodeExt(s, TRUE, tag) = S!Ok(<<tag>> \o LengthOf(sample.l), Len(s)) /\ ~S!decodeExt(s, TRUE, wrong).ok
        /\ ReadBack(sample.l) =>
             B!decodeExt(b, TRUE, tag) = B!Ok(<<tag>> \o LengthOf(sample.l), Len(b)) /\ ~B!decodeExt(b, TRUE, wrong).ok

-----------------------------------------------------------------------------

\* decodeNaked reports the type that was encoded and consumes exactly what
\* the encoder wrote: a reader that does not know the type keeps its place in
\* the stream, and a Boolean is read as the one that was written.
NakedConsumesAll ==
  /\ sample.kind = "bool" =>
       LET b == sample.b IN
       /\ M!decodeBool(M!encodeBool(b)) = M!Ok(b, 1) /\ M!decodeNaked(M!encodeBool(b), TRUE) = M!Ok("bool", 1)
       /\ B!decodeBool(B!encodeBool(b)) = B!Ok(b, 1) /\ B!decodeNaked(B!encodeBool(b)) = B!Ok("bool", 1)
       /\ S!decodeBool(S!encodeBool(b)) = S!Ok(b, 1) /\ S!decodeNaked(S!encodeBool(b)) = S!Ok("bool", 1)
  /\ IsWord =>
       LET short == Low(v, 4) IN
       /\ M!decodeNaked(M!encodeInt(v), TRUE).n = Len(M!encodeInt(v))
       /\ M!decodeNaked(M!encodeUint(v), TRUE).n = Len(M!encodeUint(v))
       /\ M!decodeNaked(M!encodeFloat64(v), TRUE) = M!Ok("float", Len(M!encodeFloat64(v)))
       /\ M!decodeNaked(M!encodeFloat32(short), TRUE) = M!Ok("float", Len(M!encodeFloat32(short)))
       /\ B!decodeNaked(B!encodeInt(v) \o <<7>>).n = Len(B!encodeInt(v))
       /\ B!decodeNaked(B!encodeUint(v) \o <<7>>) = B!Ok("uint", Len(B!encodeUint(v)))
       /\ B!decodeNaked(B!encodeFloat64(v) \o <<7>>) = B!Ok("float", Len(B!encodeFloat64(v)))
       /\ B!decodeNaked(B!encodeFloat32(short) \o <<7>>) = B!Ok("float", Len(B!encodeFloat32(short)))
       /\ S!decodeNaked(S!encodeInt(v)) = S!Ok(IF Negative(v) THEN "int" ELSE "uint", Len(S!encodeInt(v)))
       /\ S!decodeNaked(S!encodeFloat64(v)) = S!Ok("float", Len(S!encodeFloat64(v)))
       /\ S!decodeNaked(S!encodeFloat32(short)) = S!Ok("float", Len(S!encodeFloat32(short)))
  /\ sample.kind = "time" =>
       B!decodeNaked(B!encodeBuiltin(sample)) = B!Ok("timestamp", Len(B!encodeBuiltin(sample)))
  /\ sample.kind = "ext" =>
       LET m == M!encodeExtPreamble(sample.tag, sample.l)
           s == S!encodeExtPreamble(sample.tag, LengthOf(sample.l))
           b == B!encodeExtPreamble(sample.tag, LengthOf(sample.l))
       IN  /\ M!decodeNaked(m, TRUE) = M!Ok("ext", Len(m) + sample.l)
           /\ S!decodeNaked(s) = S!Ok("ext", Len(s) + sample.l)
           /\ ReadBack(sample.l) => B!decodeNaked(b) = B!Ok("ext", Len(b) + sample.l)
=============================================================================
