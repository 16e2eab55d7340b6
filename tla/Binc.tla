--------------------------------- MODULE Binc ---------------------------------
(***************************************************************************)
(* The binc encoding driver (src/go-msgpack/codec/binc.go) and the         *)
(* timestamps it holds (time.go).  As in Msgpack, an encoder is the        *)
(* sequence of bytes it writes, and a decoder takes the stream from the    *)
(* descriptor on.  The high half of a descriptor is the kind vd, the low   *)
(* half vs.  A length is an 8-byte word, like every uint64.                *)
(***************************************************************************)
EXTENDS Bytes

VdSpecial == 0
VdPosInt == 16
VdNegInt == 32
VdFloat == 48
VdString == 64
VdByteArray == 80
VdArray == 96
VdMap == 112
VdTimestamp == 128
VdSmallInt == 144
VdSymbol == 176
VdCustomExt == 240

SpNil == 0
SpFalse == 1
SpTrue == 2
SpNan == 3
SpPosInf == 4
SpNegInf == 5
SpZeroFloat == 6
SpZero == 7
SpNegOne == 8

FlBin32 == 1
FlBin64 == 3

vd(bd) == bd - (bd % 16)
vs(bd) == bd % 16

Err == [ok |-> FALSE, v |-> <<>>, n |-> 0]
Ok(v, n) == [ok |-> TRUE, v |-> v, n |-> n]
Payload(s, k) == SubSeq(s, 2, k + 1)

Zero == Fill(0, 8)

-----------------------------------------------------------------------------
(* Integers.                                                               *)

\* Mutant of pruneSignExt: the sign bit of the byte kept is not looked at.
pruneSignExtBlind(bs, pos) ==
  LET ext == IF pos THEN 0 ELSE 255
      stop(n) == ~(bs[n + 1] = ext /\ n + 1 < Len(bs))
  IN  CHOOSE n \in 0..(Len(bs) - 1) : stop(n) /\ \A m \in 0..(n - 1) : ~stop(m)

\* how many leading bytes only repeat the sign bit of the byte after them
pruneSignExt(bs, pos) ==
  LET ext == IF pos THEN 0 ELSE 255
      stop(n) == ~(bs[n + 1] = ext /\ n + 1 < Len(bs) /\ (pos <=> bs[n + 2] < 128))
  IN  CHOOSE n \in 0..(Len(bs) - 1) : stop(n) /\ \A m \in 0..(n - 1) : ~stop(m)

encIntegerPrune(bd, pos, bs) ==
  LET i == pruneSignExt(bs, pos)
  IN  <<bd + Len(bs) - 1 - i>> \o SubSeq(bs, i + 1, Len(bs))

encUint(bd, pos, v) ==
  IF v = Zero THEN <<VdSpecial + SpZero>>
  ELSE IF pos /\ FitsU(v, 1) /\ v[8] <= 16 THEN <<VdSmallInt + v[8] - 1>>
  ELSE IF FitsU(v, 1) THEN <<bd, v[8]>>
  ELSE IF FitsU(v, 2) THEN <<bd + 1>> \o Low(v, 2)
  ELSE encIntegerPrune(bd, pos, Low(v, IF FitsU(v, 4) THEN 4 ELSE 8))

encodeInt(v) ==
  IF ~Negative(v) THEN encUint(VdPosInt, TRUE, v)
  ELSE IF v = Fill(255, 8) THEN <<VdSpecial + SpNegOne>>
  ELSE encUint(VdNegInt, FALSE, Negate(v))

encodeUint(v) == encUint(VdPosInt, TRUE, v)

\* vs + 1 bytes, zero extended
decUint(s) ==
  IF vs(s[1]) <= 7 THEN Ok(ZeroExt(Payload(s, vs(s[1]) + 1)), vs(s[1]) + 2) ELSE Err

\* the value as an int64 or, when it is not negative, as a uint64
decIntAny(s) ==
  LET bd == s[1]
      u == decUint(s)
  IN  IF vd(bd) = VdPosInt THEN u
      ELSE IF vd(bd) = VdNegInt THEN IF u.ok THEN Ok(Negate(u.v), u.n) ELSE Err
      ELSE IF vd(bd) = VdSmallInt THEN Ok(ZeroExt(<<vs(bd) + 1>>), 1)
      ELSE IF bd = VdSpecial + SpZero THEN Ok(Zero, 1)
      ELSE IF bd = VdSpecial + SpNegOne THEN Ok(Fill(255, 8), 1)
      ELSE Err

decodeInt(s, bytes) ==
  LET r == decIntAny(s) IN IF r.ok /\ (bytes > 0 => FitsS(r.v, bytes)) THEN r ELSE Err

decodeUint(s, bytes) ==
  LET r == decIntAny(s)
      neg == vd(s[1]) = VdNegInt \/ s[1] = VdSpecial + SpNegOne
  IN  IF r.ok /\ ~neg /\ (bytes > 0 => FitsU(r.v, bytes)) THEN r ELSE Err

encodeBool(b) == <<VdSpecial + IF b THEN SpTrue ELSE SpFalse>>

decodeBool(s) ==
  IF s[1] \in {SpFalse, SpTrue} THEN Ok(s[1] = SpTrue, 1) ELSE Err

-----------------------------------------------------------------------------
(* Floats, as their IEEE bits.  +0 and -0 are both == 0.                   *)

IsZeroFloat(bits) == bits[1] \in {0, 128} /\ \A i \in 2..Len(bits) : bits[i] = 0

encodeFloat32(bits) ==
  IF IsZeroFloat(bits) THEN <<VdSpecial + SpZeroFloat>> ELSE <<VdFloat + FlBin32>> \o bits

\* trailing zero bytes are dropped when there are two or more
encodeFloat64(bits) ==
  LET i == CHOOSE i \in 0..8 : (\A j \in (i + 1)..8 : bits[j] = 0) /\ (i > 0 => bits[i] # 0)
  IN  IF IsZeroFloat(bits) THEN <<VdSpecial + SpZeroFloat>>
      ELSE IF i <= 6 THEN <<VdFloat + 8 + FlBin64, i>> \o SubSeq(bits, 1, i)
      ELSE <<VdFloat + FlBin64>> \o bits

\* decFloatPre and decFloat: the bits of the float32 or float64
decFloat(s) ==
  LET size == IF vs(s[1]) % 8 = FlBin32 THEN 4 ELSE 8
      pruned == vs(s[1]) >= 8
      l == s[2]
  IN  IF vs(s[1]) % 8 \notin {FlBin32, FlBin64} THEN Err
      ELSE IF ~pruned THEN Ok(Payload(s, size), size + 1)
      ELSE IF l > 8 THEN Err
      ELSE Ok(SubSeq(SubSeq(s, 3, l + 2) \o Fill(0, 8 - l), 1, size), l + 2)

\* decodeFloat of what the float encoders write; integers, infinities and NaN
\* descriptors become floats by the machine's conversion and are left out
decodeFloat(s) ==
  IF s[1] \in {VdSpecial + SpZeroFloat, VdSpecial + SpZero} THEN Ok(Zero, 1)
  ELSE IF vd(s[1]) = VdFloat THEN decFloat(s) ELSE Err

-----------------------------------------------------------------------------
(* Lengths of strings, bytes, arrays, maps and extensions.                 *)

encLen(bd, l) ==
  IF FitsU(l, 1) /\ l[8] < 12 THEN <<bd + l[8] + 4>>
  ELSE LET k == CHOOSE k \in 0..3 : FitsU(l, 2 ^ k) /\ \A j \in 0..(k - 1) : ~FitsU(l, 2 ^ j)
       IN  <<bd + k>> \o Low(l, 2 ^ k)

\* The size of the number is read as decUint reads an integer's.
decLen(s) == IF vs(s[1]) <= 3 THEN decUint(s) ELSE Ok(ZeroExt(<<vs(s[1]) - 4>>), 1)

encodeExtPreamble(tag, l) == encLen(VdCustomExt, l) \o <<tag>>

\* decodeExt up to the data: the tag followed by the length
decodeExt(s, verifyTag, tag) ==
  LET l == decLen(s) IN
    IF vd(s[1]) = VdCustomExt
      THEN IF verifyTag /\ s[l.n + 1] # tag THEN Err ELSE Ok(<<s[l.n + 1]>> \o l.v, l.n + 1)
    ELSE IF vd(s[1]) = VdByteArray THEN Ok(<<0>> \o l.v, l.n) ELSE Err

\* currentEncodedType; "bad" is a decErr panic
currentEncodedType(bd) ==
  LET kind == vd(bd) IN
    IF kind = VdSpecial
      THEN IF bd = SpNil THEN "nil"
           ELSE IF bd \in {SpFalse, SpTrue} THEN "bool"
           ELSE IF bd \in {SpNan, SpPosInf, SpNegInf, SpZeroFloat} THEN "float"
           ELSE IF bd = SpZero THEN "uint"
           ELSE IF bd = SpNegOne THEN "int" ELSE "bad"
    ELSE IF kind \in {VdPosInt, VdSmallInt} THEN "uint"
    ELSE IF kind = VdNegInt THEN "int"
    ELSE IF kind = VdFloat THEN "float"
    ELSE IF kind = VdString THEN "string"
    ELSE IF kind = VdSymbol THEN "symbol"
    ELSE IF kind = VdByteArray THEN "bytes"
    ELSE IF kind = VdTimestamp THEN "timestamp"
    ELSE IF kind = VdCustomExt THEN "ext"
    ELSE IF kind = VdArray THEN "array"
    ELSE IF kind = VdMap THEN "map" ELSE "bad"

-----------------------------------------------------------------------------
(* Timestamps.  A time is its Unix seconds, its nanoseconds as 4 bytes,    *)
(* whether its location is UTC, and the zone's offset in seconds.          *)

\* offset / 60, truncated towards zero
Minutes(offset) == IF offset >= 0 THEN offset \div 60 ELSE -((-offset) \div 60)

TimeField(present, bytes) == IF present THEN bytes ELSE <<>>

\* Mutant of encodeTime: one bit too many is cleared for the dst flags.
encodeTimeZone(t) ==
  LET hasSecs == t.secs # Zero
      hasNsecs == t.nsecs # Fill(0, 4)
      f == IF hasSecs THEN pruneSignExt(t.secs, ~Negative(t.secs)) ELSE 7
      g == IF hasNsecs THEN pruneSignExt(t.nsecs, TRUE) ELSE 3
      z == Minutes(t.offset) % 65536
  IN  <<(IF hasSecs THEN 128 ELSE 0) + (IF hasNsecs THEN 64 ELSE 0) + (IF t.utc THEN 0 ELSE 32)
          + 4 * (7 - f) + (3 - g)>>
      \o TimeField(hasSecs, SubSeq(t.secs, f + 1, 8))
      \o TimeField(hasNsecs, SubSeq(t.nsecs, g + 1, 4))
      \o TimeField(~t.utc, <<(z \div 256) % 32, z % 256>>)

encodeTime(t) ==
  LET hasSecs == t.secs # Zero
      hasNsecs == t.nsecs # Fill(0, 4)
      f == IF hasSecs THEN pruneSignExt(t.secs, ~Negative(t.secs)) ELSE 7
      g == IF hasNsecs THEN pruneSignExt(t.nsecs, TRUE) ELSE 3
      z == Minutes(t.offset) % 65536
  IN  <<(IF hasSecs THEN 128 ELSE 0) + (IF hasNsecs THEN 64 ELSE 0) + (IF t.utc THEN 0 ELSE 32)
          + 4 * (7 - f) + (3 - g)>>
      \o TimeField(hasSecs, SubSeq(t.secs, f + 1, 8))
      \o TimeField(hasNsecs, SubSeq(t.nsecs, g + 1, 4))
      \o TimeField(~t.utc, <<(z \div 256) % 64, z % 256>>)

\* zone is in minutes; 0 is UTC.  Bits 15 and 14 of tz are not looked at.
decodeTime(bs) ==
  LET bd == bs[1]
      n == IF Bit(bd, 7) = 1 THEN ((bd \div 4) % 8) + 1 ELSE 0
      m == IF Bit(bd, 6) = 1 THEN (bd % 4) + 1 ELSE 0
      tz == (bs[n + m + 2] % 64) * 256 + bs[n + m + 3]
  IN  [secs |-> IF n > 0 THEN SignExt(SubSeq(bs, 2, n + 1)) ELSE Zero,
       nsecs |-> Fill(0, 4 - m) \o SubSeq(bs, n + 2, n + m + 1),
       zone |-> IF Bit(bd, 5) = 0 THEN 0 ELSE IF tz < 8192 THEN tz ELSE tz - 16384]

\* encodeBuiltin: the length of the timestamp goes into vs
encodeBuiltin(t) == LET bs == encodeTime(t) IN <<VdTimestamp + Len(bs)>> \o bs

decodeBuiltin(s) ==
  IF vd(s[1]) # VdTimestamp THEN Err
  ELSE Ok(decodeTime(Payload(s, vs(s[1]))), vs(s[1]) + 1)

-----------------------------------------------------------------------------

\* Mutant of decodeNaked: a small integer is followed by a byte.
decodeNakedSmall(s) ==
  LET vt == currentEncodedType(s[1])
      l == decLen(s)
  IN  IF vt = "bad" THEN Err
      ELSE IF vd(s[1]) \in {VdPosInt, VdNegInt} THEN Ok(vt, decUint(s).n)
      ELSE IF vd(s[1]) = VdFloat THEN Ok(vt, decFloat(s).n)
      ELSE IF vt = "timestamp" THEN Ok(vt, vs(s[1]) + 1)
      ELSE IF vt = "ext" THEN Ok(vt, l.n + 1 + ToNat(l.v))
      ELSE IF vt \in {"string", "bytes"} THEN Ok(vt, l.n + ToNat(l.v))
      ELSE Ok(vt, IF vd(s[1]) = VdSmallInt THEN 2 ELSE 1)

\* decodeNaked: the type it reports and the bytes it consumes.  Of an array or
\* a map only the descriptor is read (decodeFurther); symbols are in BincSymbols.
decodeNaked(s) ==
  LET vt == currentEncodedType(s[1])
      l == decLen(s)
  IN  IF vt = "bad" THEN Err
      ELSE IF vd(s[1]) \in {VdPosInt, VdNegInt} THEN Ok(vt, decUint(s).n)
      ELSE IF vd(s[1]) = VdFloat THEN Ok(vt, decFloat(s).n)
      ELSE IF vt = "timestamp" THEN Ok(vt, vs(s[1]) + 1)
      ELSE IF vt = "ext" THEN Ok(vt, l.n + 1 + ToNat(l.v))
      ELSE IF vt \in {"string", "bytes"} THEN Ok(vt, l.n + ToNat(l.v))
      ELSE Ok(vt, 1)
=============================================================================
