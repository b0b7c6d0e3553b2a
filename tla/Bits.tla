-------------------------------- MODULE Bits --------------------------------
(***************************************************************************)
(* Machine words as tuples of bits, the highest bit first, and byte arrays *)
(* as the concatenation of their bytes.  A byte has BYTE bits (8 in the    *)
(* code), so that small arrays have bytes, words and bits left over.       *)
(***************************************************************************)
EXTENDS Integers, Sequences, FiniteSets

CONSTANT BYTE  \* bits in a byte

ASSUME ByteAssumption == BYTE \in Nat \ {0}

Bit == {0, 1}
Zeros(n) == [i \in 1..n |-> 0]
Ones(n) == [i \in 1..n |-> 1]
Words(n) == [1..n -> Bit]

DivCeil(a, b) == (a + b - 1) \div b
Least(a, b) == IF a < b THEN a ELSE b

\* v << k and v >> k in the width of v.
Shl(v, k) == [i \in 1..Len(v) |-> IF i + k <= Len(v) THEN v[i + k] ELSE 0]
Shr(v, k) == [i \in 1..Len(v) |-> IF i > k THEN v[i - k] ELSE 0]
Or(v, w) == [i \in 1..Len(v) |-> IF v[i] + w[i] > 0 THEN 1 ELSE 0]
And(v, w) == [i \in 1..Len(v) |-> v[i] * w[i]]
Xor(v, w) == [i \in 1..Len(v) |-> (v[i] + w[i]) % 2]

\* Conversions to a narrower and to a wider unsigned type.
Low(v, n) == SubSeq(v, Len(v) - n + 1, Len(v))
Wide(v, n) == Zeros(n - Len(v)) \o v

IsZero(v) == \A i \in 1..Len(v) : v[i] = 0
leading_zeros(v) == CHOOSE n \in 0..Len(v) :
    IsZero(SubSeq(v, 1, n)) /\ (n < Len(v) => v[n + 1] = 1)
trailing_zeros(v) == CHOOSE n \in 0..Len(v) :
    IsZero(Low(v, n)) /\ (n < Len(v) => v[Len(v) - n] = 1)

\* The low n bits of an integer (two's complement), and back.
ToBits(x, n) == [i \in 1..n |-> (x \div 2^(n - i)) % 2]
ToNat(v) == LET f[i \in 0..Len(v)] == IF i = 0 THEN 0 ELSE 2 * f[i - 1] + v[i] IN f[Len(v)]
ToInt(v) == IF v = <<>> THEN 0 ELSE ToNat(v) - v[1] * 2^Len(v)

\* n bytes of a byte array from byte q on; the array with the bytes v there.
BytesLen(d) == Len(d) \div BYTE
Bytes(d, q, n) == SubSeq(d, q * BYTE + 1, (q + n) * BYTE)
Byte(d, q) == Bytes(d, q, 1)
Put(d, q, v) == SubSeq(d, 1, q * BYTE) \o v \o SubSeq(d, q * BYTE + Len(v) + 1, Len(d))

\* 0xff << (8 - n) % 8 and 0xff >> n.
HighMask(n) == Shl(Ones(BYTE), (BYTE - n) % BYTE)
LowMask(n) == Shr(Ones(BYTE), n)
=============================================================================
