------------------------------- MODULE Msgpack -------------------------------
(***************************************************************************)
(* The msgpack encoding driver (src/go-msgpack/codec/msgpack.go): how      *)
(* integers, booleans, lengths and extensions become bytes and come back.  *)
(* An encoder is the sequence of bytes it writes.  A decoder takes the     *)
(* stream, whose first byte is the descriptor bd, and returns its value    *)
(* and the number of bytes it consumed; a decErr panic is the record Err.  *)
(***************************************************************************)
EXTENDS Bytes

mpPosFixNumMax == 127
mpFixMapMin == 128
mpFixArrayMin == 144
mpFixStrMin == 160
mpFixStrMax == 191
mpNil == 192
mpFalse == 194
mpTrue == 195
mpBin8 == 196
mpExt8 == 199
mpFloat == 202
mpDouble == 203
mpUint8 == 204
mpInt8 == 208
mpFixExt1 == 212
mpStr8 == 217
mpArray16 == 220
mpMap16 == 222
mpNegFixNumMin == 224

\* Descriptors come in runs ordered by size: mpUint8, mpUint16, mpUint32, ...
Uints == mpUint8..(mpUint8 + 3)
Ints == mpInt8..(mpInt8 + 3)
Bins == mpBin8..(mpBin8 + 2)
Exts == mpExt8..(mpExt8 + 2)
FixExts == mpFixExt1..(mpFixExt1 + 4)
Strs == mpStr8..(mpStr8 + 2)
PosFixNums == 0..mpPosFixNumMax
NegFixNums == mpNegFixNumMin..255
FixStrs == mpFixStrMin..mpFixStrMax

Err == [ok |-> FALSE, v |-> <<>>, n |-> 0]
Ok(v, n) == [ok |-> TRUE, v |-> v, n |-> n]

\* the k bytes that follow the descriptor
Payload(s, k) == SubSeq(s, 2, k + 1)

-----------------------------------------------------------------------------
(* Integers.                                                               *)

encodeUint(v) ==
  IF FitsU(v, 1) /\ v[8] <= 127 THEN <<v[8]>>
  ELSE LET k == CHOOSE k \in 0..3 : FitsU(v, 2 ^ k) /\ \A j \in 0..(k - 1) : ~FitsU(v, 2 ^ j)
       IN  <<mpUint8 + k>> \o Low(v, 2 ^ k)

encodeInt(v) ==
  IF ~Negative(v) THEN encodeUint(v)
  ELSE IF FitsS(v, 1) /\ v[8] >= 224 THEN <<v[8]>>
  ELSE LET k == CHOOSE k \in 0..3 : FitsS(v, 2 ^ k) /\ \A j \in 0..(k - 1) : ~FitsS(v, 2 ^ j)
       IN  <<mpInt8 + k>> \o Low(v, 2 ^ k)

\* Mutant of decodeInt: no overflow check.
decodeIntUnchecked(s, bytes) ==
  LET bd == s[1]
      size == IF bd \in Uints THEN 2 ^ (bd - mpUint8)
              ELSE IF bd \in Ints THEN 2 ^ (bd - mpInt8) ELSE 0
      v == IF bd \in Uints THEN ZeroExt(Payload(s, size))
           ELSE IF bd \in Ints THEN SignExt(Payload(s, size)) ELSE SignExt(<<bd>>)
  IN  IF bd \in Uints \cup Ints \cup PosFixNums \cup NegFixNums THEN Ok(v, size + 1) ELSE Err

\* decodeInt for a target of the given number of bytes; 0 means no check
decodeInt(s, bytes) ==
  LET bd == s[1]
      size == IF bd \in Uints THEN 2 ^ (bd - mpUint8)
              ELSE IF bd \in Ints THEN 2 ^ (bd - mpInt8) ELSE 0
      v == IF bd \in Uints THEN ZeroExt(Payload(s, size))
           ELSE IF bd \in Ints THEN SignExt(Payload(s, size)) ELSE SignExt(<<bd>>)
  IN  IF /\ bd \in Uints \cup Ints \cup PosFixNums \cup NegFixNums
         /\ bytes > 0 => FitsS(v, bytes)
        THEN Ok(v, size + 1)
        ELSE Err

decodeUint(s, bytes) ==
  LET bd == s[1]
      r == decodeInt(s, 0)
  IN  IF /\ bd \in Uints \cup Ints \cup PosFixNums
         /\ bd \in Ints => ~Negative(r.v)
         /\ bytes > 0 => FitsU(r.v, bytes)
        THEN r
        ELSE Err

encodeBool(b) == IF b THEN <<mpTrue>> ELSE <<mpFalse>>

\* bool can be decoded from bool, fixnum 0 or 1
decodeBool(s) ==
  IF s[1] \in {mpFalse, 0} THEN Ok(FALSE, 1)
  ELSE IF s[1] \in {mpTrue, 1} THEN Ok(TRUE, 1) ELSE Err

-----------------------------------------------------------------------------
(* Lengths of strings, byte slices, arrays and maps.                       *)

ContainerStr == [cutoff |-> 32, fixMin |-> mpFixStrMin, b8 |-> mpStr8, b16 |-> mpStr8 + 1,
                 b32 |-> mpStr8 + 2, hasFixMin |-> TRUE, has8 |-> TRUE, has8Always |-> FALSE]
ContainerBin == [cutoff |-> 0, fixMin |-> 0, b8 |-> mpBin8, b16 |-> mpBin8 + 1,
                 b32 |-> mpBin8 + 2, hasFixMin |-> FALSE, has8 |-> TRUE, has8Always |-> TRUE]
ContainerList == [cutoff |-> 16, fixMin |-> mpFixArrayMin, b8 |-> 0, b16 |-> mpArray16,
                  b32 |-> mpArray16 + 1, hasFixMin |-> TRUE, has8 |-> FALSE, has8Always |-> FALSE]
ContainerMap == [cutoff |-> 16, fixMin |-> mpFixMapMin, b8 |-> 0, b16 |-> mpMap16,
                 b32 |-> mpMap16 + 1, hasFixMin |-> TRUE, has8 |-> FALSE, has8Always |-> FALSE]

\* Mutant of writeContainerLen: the cutoff itself is written in the descriptor.
writeContainerLenCutoff(ct, l, writeExt) ==
  IF ct.hasFixMin /\ l <= ct.cutoff THEN <<ct.fixMin + l>>
  ELSE IF ct.has8 /\ l < 256 /\ (ct.has8Always \/ writeExt) THEN <<ct.b8, l>>
  ELSE IF l < 65536 THEN <<ct.b16>> \o ToBytes(l, 2)
  ELSE <<ct.b32>> \o ToBytes(l, 4)

\* l < cutoff, so bFixMin | byte(l) is a sum
writeContainerLen(ct, l, writeExt) ==
  IF ct.hasFixMin /\ l < ct.cutoff THEN <<ct.fixMin + l>>
  ELSE IF ct.has8 /\ l < 256 /\ (ct.has8Always \/ writeExt) THEN <<ct.b8, l>>
  ELSE IF l < 65536 THEN <<ct.b16>> \o ToBytes(l, 2)
  ELSE <<ct.b32>> \o ToBytes(l, 4)

\* The test of the fixed forms is on the bits of bFixMin only, and where it
\* holds bFixMin ^ bd is a difference; -1 stands for nil.
readContainerLen(ct, s) ==
  LET bd == s[1] IN
    IF bd = mpNil THEN Ok(-1, 1)
    ELSE IF bd = ct.b8 THEN Ok(ToNat(Payload(s, 1)), 2)
    ELSE IF bd = ct.b16 THEN Ok(ToNat(Payload(s, 2)), 3)
    ELSE IF bd = ct.b32 THEN Ok(ToNat(Payload(s, 4)), 5)
    ELSE IF HasBits(ct.fixMin, bd) THEN Ok(bd - ct.fixMin, 1)
    ELSE Err

\* decodeBytes: the container it reads the length of
bytesLen(s) == readContainerLen(IF s[1] \in Bins THEN ContainerBin ELSE ContainerStr, s)

-----------------------------------------------------------------------------
(* Extensions: descriptor, tag and the length of the data.                 *)

encodeExtPreamble(tag, l) ==
  IF l \in {1, 2, 4, 8, 16} THEN <<mpFixExt1 + (CHOOSE k \in 0..4 : 2 ^ k = l), tag>>
  ELSE IF l < 256 THEN <<mpExt8, l, tag>>
  ELSE IF l < 65536 THEN <<mpExt8 + 1>> \o ToBytes(l, 2) \o <<tag>>
  ELSE <<mpExt8 + 2>> \o ToBytes(l, 4) \o <<tag>>

readExtLen(s) ==
  LET bd == s[1] IN
    IF bd = mpNil THEN Ok(-1, 1)
    ELSE IF bd \in FixExts THEN Ok(2 ^ (bd - mpFixExt1), 1)
    ELSE IF bd \in Exts
      THEN LET k == 2 ^ (bd - mpExt8) IN Ok(ToNat(Payload(s, k)), k + 1)
    ELSE Err

\* decodeExt up to the data: <<tag, length>>; a string or bytes is accepted
\* in place of an extension, without a tag
decodeExt(s, verifyTag, tag) ==
  LET len == IF s[1] \in Bins \cup Strs \cup FixStrs THEN bytesLen(s) ELSE readExtLen(s)
      tagged == s[1] \notin Bins \cup Strs \cup FixStrs
      xtag == IF tagged THEN s[len.n + 1] ELSE 0
  IN  IF ~len.ok \/ (tagged /\ verifyTag /\ xtag # tag) THEN Err
      ELSE Ok(<<xtag, len.v>>, IF tagged THEN len.n + 1 ELSE len.n)

-----------------------------------------------------------------------------
(* Classification of a descriptor.                                         *)

\* currentEncodedType; "bad" is a decErr panic
currentEncodedType(bd, rawToString) ==
  IF bd = mpNil THEN "nil"
  ELSE IF bd \in {mpFalse, mpTrue} THEN "bool"
  ELSE IF bd \in {mpFloat, mpDouble} THEN "float"
  ELSE IF bd \in Uints THEN "uint"
  ELSE IF bd \in Ints \cup PosFixNums \cup NegFixNums THEN "int"
  ELSE IF bd \in Strs \cup FixStrs THEN IF rawToString THEN "string" ELSE "bytes"
  ELSE IF bd \in Bins THEN "bytes"
  ELSE IF bd \in mpArray16..(mpArray16 + 1) \/ bd \in mpFixArrayMin..(mpFixArrayMin + 15) THEN "array"
  ELSE IF bd \in mpMap16..(mpMap16 + 1) \/ bd \in mpFixMapMin..(mpFixMapMin + 15) THEN "map"
  ELSE IF bd \in FixExts \cup Exts THEN "ext"
  ELSE "bad"

\* decodeNaked: the type it reports and the bytes it consumes.  Of strings,
\* bytes, arrays and maps only the descriptor is read (decodeFurther).
decodeNaked(s, rawToString) ==
  LET bd == s[1]
      vt == currentEncodedType(bd, rawToString)
      ext == readExtLen(s)
  IN  IF vt = "bad" THEN Err
      ELSE IF vt = "float" THEN Ok(vt, IF bd = mpFloat THEN 5 ELSE 9)
      ELSE IF bd \in Uints THEN Ok(vt, 1 + 2 ^ (bd - mpUint8))
      ELSE IF bd \in Ints THEN Ok(vt, 1 + 2 ^ (bd - mpInt8))
      ELSE IF vt = "ext" THEN Ok(vt, ext.n + 1 + ext.v)
      ELSE Ok(vt, 1)

encodeFloat32(bits) == <<mpFloat>> \o bits
encodeFloat64(bits) == <<mpDouble>> \o bits
=============================================================================
