-------------------------------- MODULE Bytes --------------------------------
(***************************************************************************)
(* Machine integers as bytes.  A 64-bit integer is its 8 bytes, most       *)
(* significant first, whether it is read as an int64 or as a uint64: the   *)
(* conversions of Go between the two leave the bytes alone.                *)
(***************************************************************************)
EXTENDS Integers, Sequences

Fill(b, n) == [i \in 1..n |-> b]

\* uint64(x) of an unsigned, int64(x) of a signed integer of Len(bs) bytes
ZeroExt(bs) == Fill(0, 8 - Len(bs)) \o bs
SignExt(bs) == Fill(IF bs[1] >= 128 THEN 255 ELSE 0, 8 - Len(bs)) \o bs

\* the n low bytes: uint16(x), uint32(x), byte(x)
Low(v, n) == SubSeq(v, 9 - n, 8)

\* v, as a uint64 or as an int64, is in the range of n bytes
FitsU(v, n) == ZeroExt(Low(v, n)) = v
FitsS(v, n) == SignExt(Low(v, n)) = v

Negative(v) == v[1] >= 128

\* the n bytes of a natural number small enough for them
ToBytes(x, n) == [i \in 1..n |-> (x \div (256 ^ (n - i))) % 256]

\* the number a short sequence of bytes stands for; Huge is all those that are
\* not below it
Huge == 2 ^ 30
ToNat(bs) ==
  LET value[i \in 0..Len(bs)] ==
        IF i = 0 THEN 0 ELSE IF value[i - 1] >= Huge \div 256 THEN Huge ELSE 256 * value[i - 1] + bs[i]
  IN  value[Len(bs)]

\* two's complement: -v for an int64, bit pattern kept
Negate(v) ==
  LET tail == CHOOSE i \in 0..8 : (\A j \in (i + 1)..8 : v[j] = 0) /\ (i > 0 => v[i] # 0)
  IN  [i \in 1..8 |-> IF i < tail THEN 255 - v[i] ELSE IF i = tail THEN 256 - v[i] ELSE 0]

\* bit i of a byte, and (mask & b) == mask
Bit(b, i) == (b \div (2 ^ i)) % 2
HasBits(mask, b) == \A i \in 0..7 : Bit(mask, i) = 1 => Bit(b, i) = 1
=============================================================================
