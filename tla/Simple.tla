-------------------------------- MODULE Simple --------------------------------
(***************************************************************************)
(* The "simple" encoding driver (src/go-msgpack/codec/simple.go).  An      *)
(* encoder is the sequence of bytes it writes, a decoder takes the stream  *)
(* from the descriptor on.  A length is an 8-byte word.                    *)
(***************************************************************************)
EXTENDS Bytes

VdNil == 1
VdFalse == 2
VdTrue == 3
VdFloat32 == 4
VdFloat64 == 5
VdPosInt == 8
VdNegInt == 12
VdString == 216
VdByteArray == 224
VdArray == 232
VdMap == 240
VdExt == 248

\* the descriptors of a kind: four sizes of integers, five of lengths
PosInts == VdPosInt..(VdPosInt + 3)
NegInts == VdNegInt..(VdNegInt + 3)
Lens(kind) == kind..(kind + 4)

Err == [ok |-> FALSE, v |-> <<>>, n |-> 0]
Ok(v, n) == [ok |-> TRUE, v |-> v, n |-> n]
Payload(s, k) == SubSeq(s, 2, k + 1)

encUint(v, bd) ==
  LET k == CHOOSE k \in 0..3 : FitsU(v, 2 ^ k) /\ \A j \in 0..(k - 1) : ~FitsU(v, 2 ^ j)
  IN  <<bd + k>> \o Low(v, 2 ^ k)

encodeInt(v) == IF Negative(v) THEN encUint(Negate(v), VdNegInt) ELSE encUint(v, VdPosInt)
encodeUint(v) == encUint(v, VdPosInt)
encodeBool(b) == IF b THEN <<VdTrue>> ELSE <<VdFalse>>
encodeFloat32(bits) == <<VdFloat32>> \o bits
encodeFloat64(bits) == <<VdFloat64>> \o bits

decIntAny(s) ==
  LET size == 2 ^ (s[1] % 4) IN
    IF s[1] \in PosInts THEN Ok(ZeroExt(Payload(s, size)), size + 1)
    ELSE IF s[1] \in NegInts THEN Ok(Negate(ZeroExt(Payload(s, size))), size + 1)
    ELSE Err

decodeInt(s, bytes) ==
  LET r == decIntAny(s) IN IF r.ok /\ (bytes > 0 => FitsS(r.v, bytes)) THEN r ELSE Err

decodeUint(s, bytes) ==
  LET r == decIntAny(s)
  IN  IF r.ok /\ s[1] \notin NegInts /\ (bytes > 0 => FitsU(r.v, bytes)) THEN r ELSE Err

\* the bits of the float; integers become floats by the machine's conversion
\* and are left out
decodeFloat(s) ==
  IF s[1] = VdFloat32 THEN Ok(Payload(s, 4), 5)
  ELSE IF s[1] = VdFloat64 THEN Ok(Payload(s, 8), 9) ELSE Err

decodeBool(s) == IF s[1] \in {VdTrue, VdFalse} THEN Ok(s[1] = VdTrue, 1) ELSE Err

-----------------------------------------------------------------------------
(* Lengths of strings, bytes, arrays, maps and extensions.                 *)

encLen(bd, l) ==
  LET k == CHOOSE k \in 0..3 : FitsU(l, 2 ^ k) /\ \A j \in 0..(k - 1) : ~FitsU(l, 2 ^ j)
  IN  IF l = Fill(0, 8) THEN <<bd>> ELSE <<bd + k + 1>> \o Low(l, 2 ^ k)

\* Only bd % 8 is looked at.  The check against intBitsize (64) refuses
\* nothing, so a length of 2^63 or more wraps to a negative int.
decLen(s) ==
  LET k == s[1] % 8 IN
    IF k = 0 THEN Ok(Fill(0, 8), 1)
    ELSE IF k <= 4 THEN Ok(ZeroExt(Payload(s, 2 ^ (k - 1))), 2 ^ (k - 1) + 1)
    ELSE Err

encodeExtPreamble(tag, l) == encLen(VdExt, l) \o <<tag>>

\* Mutant of decodeExt: the tag is read before the length.
decodeExtTagFirst(s, verifyTag, tag) ==
  LET l == decLen(<<s[1]>> \o SubSeq(s, 3, Len(s))) IN
    IF s[1] \in Lens(VdExt)
      THEN IF verifyTag /\ s[2] # tag THEN Err ELSE Ok(<<s[2]>> \o l.v, l.n + 1)
    ELSE IF s[1] \in Lens(VdByteArray) THEN Ok(<<0>> \o l.v, l.n) ELSE Err

\* decodeExt up to the data: the tag followed by the length
decodeExt(s, verifyTag, tag) ==
  LET l == decLen(s) IN
    IF s[1] \in Lens(VdExt)
      THEN IF verifyTag /\ s[l.n + 1] # tag THEN Err ELSE Ok(<<s[l.n + 1]>> \o l.v, l.n + 1)
    ELSE IF s[1] \in Lens(VdByteArray) THEN Ok(<<0>> \o l.v, l.n) ELSE Err

\* currentEncodedType; "bad" is a decErr panic
currentEncodedType(bd) ==
  IF bd = VdNil THEN "nil"
  ELSE IF bd \in {VdTrue, VdFalse} THEN "bool"
  ELSE IF bd \in PosInts THEN "uint"
  ELSE IF bd \in NegInts THEN "int"
  ELSE IF bd \in {VdFloat32, VdFloat64} THEN "float"
  ELSE IF bd \in Lens(VdString) THEN "string"
  ELSE IF bd \in Lens(VdByteArray) THEN "bytes"
  ELSE IF bd \in Lens(VdExt) THEN "ext"
  ELSE IF bd \in Lens(VdArray) THEN "array"
  ELSE IF bd \in Lens(VdMap) THEN "map"
  ELSE "bad"

\* decodeNaked: the type it reports and the bytes it consumes; of an array or
\* a map only the descriptor is read (decodeFurther)
decodeNaked(s) ==
  LET vt == currentEncodedType(s[1]) IN
    IF vt = "bad" THEN Err
    ELSE IF vt \in {"uint", "int"} THEN Ok(vt, decIntAny(s).n)
    ELSE IF vt = "float" THEN Ok(vt, decodeFloat(s).n)
    ELSE IF vt \in {"string", "bytes"} THEN Ok(vt, decLen(s).n + ToNat(decLen(s).v))
    ELSE IF vt = "ext" THEN Ok(vt, decLen(s).n + 1 + ToNat(decLen(s).v))
    ELSE Ok(vt, 1)
=============================================================================
