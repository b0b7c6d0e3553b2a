----------------------------- MODULE BitsProofs -----------------------------
(***************************************************************************)
(* Facts about words and byte arrays, for bytes of any width: what shifts, *)
(* masks and parts of an array are, bit by bit.                            *)
(***************************************************************************)
EXTENDS Bits, SequenceTheorems, TLAPS

\* A function on 1..n is a sequence of length n.
LEMMA SeqFcn ==
  ASSUME NEW S, NEW n \in Nat, NEW f \in [1..n -> S]
  PROVE  f \in Seq(S) /\ Len(f) = n
OBVIOUS

\* Two sequences of one length are equal when their elements are.
LEMMA SeqSame ==
  ASSUME NEW S, NEW v \in Seq(S), NEW w \in Seq(S), Len(v) = Len(w),
         \A i \in 1..Len(v) : v[i] = w[i]
  PROVE  v = w
BY SeqEqual

\* A part of a sequence.
LEMMA PartFacts ==
  ASSUME NEW S, NEW v \in Seq(S), NEW a \in Nat, NEW b \in Nat, a <= b, b <= Len(v)
  PROVE  /\ SubSeq(v, a + 1, b) \in Seq(S) /\ Len(SubSeq(v, a + 1, b)) = b - a
         /\ \A i \in 1..(b - a) : SubSeq(v, a + 1, b)[i] = v[a + i]
<1>1. Len(v) \in Nat
  BY LenProperties
<1> QED BY <1>1, SubSeqProperties

\* Two sequences, one after the other.
LEMMA JoinFacts ==
  ASSUME NEW S, NEW v \in Seq(S), NEW w \in Seq(S)
  PROVE  /\ v \o w \in Seq(S) /\ Len(v \o w) = Len(v) + Len(w)
         /\ \A i \in 1..Len(v) : (v \o w)[i] = v[i]
         /\ \A i \in 1..Len(w) : (v \o w)[Len(v) + i] = w[i]
<1>1. Len(v) \in Nat /\ Len(w) \in Nat
  BY LenProperties
<1> QED BY <1>1, ConcatProperties

-----------------------------------------------------------------------------
(* Bits and bytes                                                           *)

\* The byte a bit is in, and its place there.
LEMMA DivMod ==
  ASSUME NEW a \in Nat
  PROVE  /\ a \div BYTE \in Nat /\ a % BYTE \in Nat /\ a % BYTE < BYTE
         /\ (a \div BYTE) * BYTE \in Nat
         /\ a = (a \div BYTE) * BYTE + (a % BYTE)
<1>1. BYTE \in Nat /\ BYTE > 0
  BY ByteAssumption
<1>2. \A b \in Nat : b > 0 => /\ a \div b \in Nat /\ a % b \in Nat /\ a % b < b
                              /\ a = (a \div b) * b + (a % b)
  BY SMT
<1>3. \A x \in Nat, y \in Nat : x * y \in Nat
  BY SMT
<1> QED BY <1>1, <1>2, <1>3

\* The only byte and place that give the bit.
LEMMA DivModIs ==
  ASSUME NEW q \in Nat, NEW r \in Nat, r < BYTE
  PROVE  (q * BYTE + r) \div BYTE = q /\ (q * BYTE + r) % BYTE = r
<1>1. BYTE \in Nat /\ BYTE > 0
  BY ByteAssumption
<1>2. \A b \in Nat : b > 0 /\ r < b => (q * b + r) \div b = q /\ (q * b + r) % b = r
  BY SMT
<1> QED BY <1>1, <1>2

LEMMA Product ==
  ASSUME NEW q \in Nat, NEW n \in Nat
  PROVE  /\ q * BYTE \in Nat /\ n * BYTE \in Nat /\ (q + n) * BYTE = q * BYTE + n * BYTE
         /\ (q + 1) * BYTE = q * BYTE + BYTE /\ 0 * BYTE = 0 /\ 1 * BYTE = BYTE
         /\ q <= n <=> q * BYTE <= n * BYTE
         /\ q < n <=> q * BYTE < n * BYTE
         /\ q < n => q * BYTE + BYTE <= n * BYTE
<1>1. BYTE \in Nat /\ BYTE > 0
  BY ByteAssumption
<1>2. \A b \in Nat : b > 0 =>
         /\ q * b \in Nat /\ n * b \in Nat /\ (q + n) * b = q * b + n * b
         /\ (q + 1) * b = q * b + b /\ 0 * b = 0 /\ 1 * b = b
         /\ q <= n <=> q * b <= n * b
         /\ q < n <=> q * b < n * b
         /\ q < n => q * b + b <= n * b
  <2> TAKE b \in Nat
  <2>1. q * b \in Nat /\ n * b \in Nat /\ (q + n) * b = q * b + n * b /\ (q + 1) * b = q * b + b
    BY SMT
  <2>2. ASSUME b > 0, NEW k \in Nat, n = q + k PROVE q * b <= n * b /\ (k > 0 => q * b + b <= n * b)
    BY <2>2, SMT
  <2>3. ASSUME b > 0, NEW k \in Nat, q = n + k, k > 0 PROVE n * b + b <= q * b
    BY <2>3, SMT
  <2>4. (q <= n /\ n - q \in Nat /\ n = q + (n - q)) \/ (q > n /\ q - n \in Nat /\ q = n + (q - n))
    OBVIOUS
  <2> QED BY <2>1, <2>2, <2>3, <2>4
<1> QED BY <1>1, <1>2

\* The bytes that hold n bits.
LEMMA CeilFacts ==
  ASSUME NEW n \in Nat
  PROVE  /\ DivCeil(n, BYTE) \in Nat /\ DivCeil(n, BYTE) * BYTE \in Nat
         /\ n <= DivCeil(n, BYTE) * BYTE /\ DivCeil(n, BYTE) * BYTE < n + BYTE
<1>1. BYTE \in Nat /\ BYTE > 0 /\ n + BYTE - 1 \in Nat
  BY ByteAssumption
<1>2. PICK m : m = n + BYTE - 1
  OBVIOUS
<1>3. /\ m \div BYTE \in Nat /\ m % BYTE \in Nat /\ m % BYTE < BYTE
      /\ (m \div BYTE) * BYTE \in Nat
      /\ m = (m \div BYTE) * BYTE + (m % BYTE)
  BY <1>1, <1>2, DivMod
<1>4. DivCeil(n, BYTE) = m \div BYTE
  BY <1>2 DEF DivCeil
<1> QED BY <1>1, <1>2, <1>3, <1>4

\* A bit is a number.
LEMMA BitFacts == 0 \in Bit /\ 1 \in Bit /\ Bit \subseteq Nat /\ \A x \in Bit : x = 0 \/ x = 1
BY DEF Bit

LEMMA ElementIsBit ==
  ASSUME NEW v \in Seq(Bit), NEW i \in 1..Len(v)
  PROVE  v[i] \in Bit /\ v[i] \in Nat /\ (v[i] = 0 \/ v[i] = 1)
BY ElementOfSeq, BitFacts

LEMMA ZerosFacts ==
  ASSUME NEW n \in Nat
  PROVE  /\ Zeros(n) \in Seq(Bit) /\ Len(Zeros(n)) = n /\ \A i \in 1..n : Zeros(n)[i] = 0
         /\ Ones(n) \in Seq(Bit) /\ Len(Ones(n)) = n /\ \A i \in 1..n : Ones(n)[i] = 1
<1>1. Zeros(n) \in [1..n -> Bit] /\ Ones(n) \in [1..n -> Bit]
  BY BitFacts DEF Zeros, Ones
<1>2. /\ \A i \in 1..n : Zeros(n)[i] = 0
      /\ \A i \in 1..n : Ones(n)[i] = 1
  BY DEF Zeros, Ones
<1> QED BY <1>1, <1>2, SeqFcn

\* Two lists of bits, one after the other.
LEMMA BitJoin ==
  ASSUME NEW v \in Seq(Bit), NEW w \in Seq(Bit)
  PROVE  /\ v \o w \in Seq(Bit) /\ Len(v \o w) = Len(v) + Len(w)
         /\ \A i \in 1..Len(v) : (v \o w)[i] = v[i]
         /\ \A i \in 1..Len(w) : (v \o w)[Len(v) + i] = w[i]
BY JoinFacts, SMT

\* The shifts within a width.
LEMMA ShlFacts ==
  ASSUME NEW v \in Seq(Bit), NEW k \in Nat
  PROVE  /\ Shl(v, k) \in Seq(Bit) /\ Len(Shl(v, k)) = Len(v)
         /\ \A i \in 1..Len(v) : Shl(v, k)[i] = IF i + k <= Len(v) THEN v[i + k] ELSE 0
<1>1. Len(v) \in Nat
  BY LenProperties
<1>2. \A i \in 1..Len(v) : Shl(v, k)[i] = IF i + k <= Len(v) THEN v[i + k] ELSE 0
  BY DEF Shl
<1>3. Shl(v, k) \in [1..Len(v) -> Bit]
  <2>1. \A i \in 1..Len(v) : i + k <= Len(v) => v[i + k] \in Bit
    BY <1>1, ElementIsBit
  <2> QED BY <2>1, BitFacts DEF Shl
<1> QED BY <1>1, <1>2, <1>3, SeqFcn

LEMMA ShrFacts ==
  ASSUME NEW v \in Seq(Bit), NEW k \in Nat
  PROVE  /\ Shr(v, k) \in Seq(Bit) /\ Len(Shr(v, k)) = Len(v)
         /\ \A i \in 1..Len(v) : Shr(v, k)[i] = IF i > k THEN v[i - k] ELSE 0
<1>1. Len(v) \in Nat
  BY LenProperties
<1>2. \A i \in 1..Len(v) : Shr(v, k)[i] = IF i > k THEN v[i - k] ELSE 0
  BY DEF Shr
<1>3. Shr(v, k) \in [1..Len(v) -> Bit]
  <2>1. \A i \in 1..Len(v) : i > k => v[i - k] \in Bit
    BY <1>1, ElementIsBit
  <2> QED BY <2>1, BitFacts DEF Shr
<1> QED BY <1>1, <1>2, <1>3, SeqFcn

\* The operations on two words of one width.
LEMMA OrFacts ==
  ASSUME NEW v \in Seq(Bit), NEW w \in Seq(Bit), Len(w) = Len(v)
  PROVE  /\ Or(v, w) \in Seq(Bit) /\ Len(Or(v, w)) = Len(v)
         /\ \A i \in 1..Len(v) : /\ v[i] = 0 => Or(v, w)[i] = w[i]
                                 /\ w[i] = 0 => Or(v, w)[i] = v[i]
<1>1. Len(v) \in Nat
  BY LenProperties
<1>2. \A i \in 1..Len(v) : Or(v, w)[i] = IF v[i] + w[i] > 0 THEN 1 ELSE 0
  BY DEF Or
<1>3. \A i \in 1..Len(v) : v[i] \in {0, 1} /\ w[i] \in {0, 1}
  BY ElementIsBit
<1>4. Or(v, w) \in [1..Len(v) -> Bit]
  BY BitFacts DEF Or
<1> QED BY <1>1, <1>2, <1>3, <1>4, SeqFcn

LEMMA AndFacts ==
  ASSUME NEW v \in Seq(Bit), NEW w \in Seq(Bit), Len(w) = Len(v)
  PROVE  /\ And(v, w) \in Seq(Bit) /\ Len(And(v, w)) = Len(v)
         /\ \A i \in 1..Len(v) : And(v, w)[i] = IF w[i] = 1 THEN v[i] ELSE 0
<1>1. Len(v) \in Nat
  BY LenProperties
<1>2. \A i \in 1..Len(v) : And(v, w)[i] = v[i] * w[i]
  BY DEF And
<1>3. \A i \in 1..Len(v) : (v[i] = 0 \/ v[i] = 1) /\ (w[i] = 0 \/ w[i] = 1)
  BY ElementIsBit
<1>4. \A i \in 1..Len(v) : v[i] * w[i] = IF w[i] = 1 THEN v[i] ELSE 0
  BY <1>3
<1>5. And(v, w) \in [1..Len(v) -> Bit]
  BY <1>3, <1>4, BitFacts DEF And
<1> QED BY <1>1, <1>2, <1>4, <1>5, SeqFcn

\* The masks of the first bits of a byte (all of them when n is 0) and of those
\* after the first n.
LEMMA MaskFacts ==
  ASSUME NEW n \in Nat, n < BYTE
  PROVE  /\ HighMask(n) \in Seq(Bit) /\ Len(HighMask(n)) = BYTE
         /\ \A i \in 1..BYTE : HighMask(n)[i] = IF n = 0 \/ i <= n THEN 1 ELSE 0
         /\ LowMask(n) \in Seq(Bit) /\ Len(LowMask(n)) = BYTE
         /\ \A i \in 1..BYTE : LowMask(n)[i] = IF i > n THEN 1 ELSE 0
<1>1. BYTE \in Nat /\ BYTE > 0
  BY ByteAssumption
<1>2. PICK k : k = (BYTE - n) % BYTE
  OBVIOUS
<1>3. k \in Nat /\ k = (IF n = 0 THEN 0 ELSE BYTE - n)
  <2>1. 0 \in Nat /\ 1 \in Nat /\ 0 * BYTE = 0 /\ 1 * BYTE = BYTE
    BY <1>1
  <2>2. CASE n = 0
    <3>1. (1 * BYTE + 0) % BYTE = 0
      BY <1>1, DivModIs
    <3> QED BY <1>1, <1>2, <2>1, <2>2, <3>1
  <2>3. CASE n # 0
    <3>1. BYTE - n \in Nat /\ BYTE - n < BYTE
      BY <1>1, <2>3
    <3>2. (0 * BYTE + (BYTE - n)) % BYTE = BYTE - n
      BY <3>1, DivModIs
    <3> QED BY <1>1, <1>2, <2>1, <2>3, <3>1, <3>2
  <2> QED BY <2>2, <2>3
<1>4. HighMask(n) = Shl(Ones(BYTE), k) /\ LowMask(n) = Shr(Ones(BYTE), n)
  BY <1>2 DEF HighMask, LowMask
<1>5. Ones(BYTE) \in Seq(Bit) /\ Len(Ones(BYTE)) = BYTE /\ \A i \in 1..BYTE : Ones(BYTE)[i] = 1
  BY <1>1, ZerosFacts
<1>6. /\ HighMask(n) \in Seq(Bit) /\ Len(HighMask(n)) = BYTE
      /\ \A i \in 1..BYTE : HighMask(n)[i] = IF i + k <= BYTE THEN Ones(BYTE)[i + k] ELSE 0
  <2>1. /\ Shl(Ones(BYTE), k) \in Seq(Bit) /\ Len(Shl(Ones(BYTE), k)) = Len(Ones(BYTE))
        /\ \A i \in 1..Len(Ones(BYTE)) : Shl(Ones(BYTE), k)[i] =
             IF i + k <= Len(Ones(BYTE)) THEN Ones(BYTE)[i + k] ELSE 0
    BY <1>3, <1>5, ShlFacts
  <2> QED BY <1>4, <1>5, <2>1
<1>7. /\ LowMask(n) \in Seq(Bit) /\ Len(LowMask(n)) = BYTE
      /\ \A i \in 1..BYTE : LowMask(n)[i] = IF i > n THEN Ones(BYTE)[i - n] ELSE 0
  BY <1>4, <1>5, ShrFacts
<1> QED BY <1>1, <1>3, <1>5, <1>6, <1>7

\* The narrower and the wider word.
LEMMA LowFacts ==
  ASSUME NEW v \in Seq(Bit), NEW n \in Nat, n <= Len(v)
  PROVE  /\ Low(v, n) \in Seq(Bit) /\ Len(Low(v, n)) = n
         /\ \A i \in 1..n : Low(v, n)[i] = v[Len(v) - n + i]
<1>1. Len(v) \in Nat /\ Len(v) - n \in Nat
  BY LenProperties
<1> QED BY <1>1, PartFacts DEF Low

LEMMA WideFacts ==
  ASSUME NEW v \in Seq(Bit), NEW n \in Nat, Len(v) <= n
  PROVE  /\ Wide(v, n) \in Seq(Bit) /\ Len(Wide(v, n)) = n
         /\ \A i \in 1..(n - Len(v)) : Wide(v, n)[i] = 0
         /\ \A i \in 1..Len(v) : Wide(v, n)[n - Len(v) + i] = v[i]
<1>1. Len(v) \in Nat /\ n - Len(v) \in Nat
  BY LenProperties
<1>2. /\ Zeros(n - Len(v)) \in Seq(Bit) /\ Len(Zeros(n - Len(v))) = n - Len(v)
      /\ \A i \in 1..(n - Len(v)) : Zeros(n - Len(v))[i] = 0
  BY <1>1, ZerosFacts
<1>3. PICK k \in Nat, z \in Seq(Bit) : /\ k = n - Len(v) /\ z = Zeros(n - Len(v)) /\ Len(z) = k
                                       /\ \A i \in 1..k : z[i] = 0
  BY <1>1, <1>2
<1>4. /\ z \o v \in Seq(Bit) /\ Len(z \o v) = k + Len(v)
      /\ \A i \in 1..k : (z \o v)[i] = z[i]
      /\ \A i \in 1..Len(v) : (z \o v)[k + i] = v[i]
  BY <1>3, JoinFacts
<1>5. Wide(v, n) = z \o v
  BY <1>3 DEF Wide
<1>6. k + Len(v) = n /\ n - Len(v) = k
  BY <1>1, <1>3
<1> QED BY <1>3, <1>4, <1>5, <1>6

\* Whole bytes of an array, and the array with other bytes at a place.
LEMMA BytesFacts ==
  ASSUME NEW d \in Seq(Bit), NEW q \in Nat, NEW n \in Nat, q * BYTE + n * BYTE <= Len(d)
  PROVE  /\ Bytes(d, q, n) \in Seq(Bit) /\ Len(Bytes(d, q, n)) = n * BYTE
         /\ \A i \in 1..(n * BYTE) : Bytes(d, q, n)[i] = d[q * BYTE + i]
<1>1. PICK a \in Nat, b \in Nat : a = q * BYTE /\ b = n * BYTE /\ (q + n) * BYTE = a + b
  BY Product
<1>2. PICK e \in Nat : e = a + b /\ a <= e /\ e <= Len(d) /\ e - a = b
  BY <1>1, LenProperties
<1>3. Bytes(d, q, n) = SubSeq(d, a + 1, e)
  BY <1>1, <1>2 DEF Bytes
<1>4. /\ SubSeq(d, a + 1, e) \in Seq(Bit) /\ Len(SubSeq(d, a + 1, e)) = e - a
      /\ \A i \in 1..(e - a) : SubSeq(d, a + 1, e)[i] = d[a + i]
  BY <1>2, PartFacts
<1> QED BY <1>1, <1>2, <1>3, <1>4

LEMMA ByteFacts ==
  ASSUME NEW d \in Seq(Bit), NEW q \in Nat, q * BYTE + BYTE <= Len(d)
  PROVE  /\ Byte(d, q) \in Seq(Bit) /\ Len(Byte(d, q)) = BYTE
         /\ \A i \in 1..BYTE : Byte(d, q)[i] = d[q * BYTE + i]
<1>1. 1 \in Nat /\ 1 * BYTE = BYTE
  BY ByteAssumption
<1> QED BY <1>1, BytesFacts DEF Byte

LEMMA PutFacts ==
  ASSUME NEW d \in Seq(Bit), NEW q \in Nat, NEW v \in Seq(Bit), q * BYTE + Len(v) <= Len(d)
  PROVE  /\ Put(d, q, v) \in Seq(Bit) /\ Len(Put(d, q, v)) = Len(d)
         /\ \A i \in 1..Len(d) : Put(d, q, v)[i] =
              IF q * BYTE < i /\ i <= q * BYTE + Len(v) THEN v[i - q * BYTE] ELSE d[i]
<1>1. PICK a \in Nat : a = q * BYTE
  BY Product
<1>2. PICK n \in Nat, m \in Nat : n = Len(v) /\ m = Len(d)
  BY LenProperties
<1>3. a + n \in Nat /\ a <= m /\ a + n <= m
  BY <1>1, <1>2
<1>4. PICK x : x = SubSeq(d, 1, a)
  OBVIOUS
<1>5. PICK y : y = SubSeq(d, a + n + 1, m)
  OBVIOUS
<1>6. x \in Seq(Bit) /\ Len(x) = a /\ \A i \in 1..a : x[i] = d[i]
  <2>1. 0 \in Nat /\ 0 + 1 = 1 /\ a - 0 = a /\ \A i \in 1..a : 0 + i = i
    OBVIOUS
  <2> QED BY <1>2, <1>3, <1>4, <2>1, PartFacts
<1>7. y \in Seq(Bit) /\ Len(y) = m - (a + n) /\ \A i \in 1..(m - (a + n)) : y[i] = d[a + n + i]
  BY <1>2, <1>3, <1>5, PartFacts
<1>8. PICK z : z = x \o v
  OBVIOUS
<1>9. /\ z \in Seq(Bit) /\ Len(z) = a + n /\ \A i \in 1..a : z[i] = d[i]
      /\ \A i \in 1..n : z[a + i] = v[i]
  <2>1. /\ x \o v \in Seq(Bit) /\ Len(x \o v) = Len(x) + Len(v)
        /\ \A i \in 1..Len(x) : (x \o v)[i] = x[i]
        /\ \A i \in 1..Len(v) : (x \o v)[Len(x) + i] = v[i]
    BY <1>6, BitJoin
  <2> QED BY <1>2, <1>6, <1>8, <2>1
<1>10. Put(d, q, v) = z \o y
  BY <1>1, <1>2, <1>4, <1>5, <1>8 DEF Put
<1>11. /\ Put(d, q, v) \in Seq(Bit) /\ Len(Put(d, q, v)) = a + n + (m - (a + n))
       /\ \A i \in 1..(a + n) : Put(d, q, v)[i] = z[i]
       /\ \A i \in 1..(m - (a + n)) : Put(d, q, v)[a + n + i] = y[i]
  <2>1. /\ z \o y \in Seq(Bit) /\ Len(z \o y) = Len(z) + Len(y)
        /\ \A i \in 1..Len(z) : (z \o y)[i] = z[i]
        /\ \A i \in 1..Len(y) : (z \o y)[Len(z) + i] = y[i]
    BY <1>7, <1>9, BitJoin
  <2> QED BY <1>7, <1>9, <1>10, <2>1
<1>12. ASSUME NEW i \in 1..m
       PROVE  Put(d, q, v)[i] = IF a < i /\ i <= a + n THEN v[i - a] ELSE d[i]
  <2>1. CASE i <= a
    <3>1. i \in 1..a /\ i \in 1..(a + n) /\ ~(a < i)
      BY <1>3, <2>1
    <3>2. Put(d, q, v)[i] = z[i] /\ z[i] = d[i]
      BY <1>9, <1>11, <3>1
    <3> QED BY <3>1, <3>2
  <2>2. CASE a < i /\ i <= a + n
    <3>1. i - a \in 1..n /\ a + (i - a) = i /\ i \in 1..(a + n)
      BY <1>3, <2>2
    <3>2. Put(d, q, v)[i] = z[i] /\ z[i] = v[i - a]
      BY <1>9, <1>11, <3>1
    <3> QED BY <2>2, <3>2
  <2>3. CASE a + n < i
    <3>1. i - (a + n) \in 1..(m - (a + n)) /\ a + n + (i - (a + n)) = i
      BY <1>3, <2>3
    <3>2. Put(d, q, v)[i] = y[i - (a + n)] /\ y[i - (a + n)] = d[i]
      BY <1>7, <1>11, <3>1
    <3> QED BY <1>3, <2>3, <3>2
  <2> QED BY <1>3, <2>1, <2>2, <2>3
<1> QED BY <1>1, <1>2, <1>3, <1>11, <1>12

\* The array c of m bits is d with the n bits v behind the first `at` bits.
IsPut(c, d, at, v, n, m) ==
  /\ c \in Seq(Bit) /\ Len(c) = m
  /\ \A i \in 1..m : c[i] = IF at < i /\ i <= at + n THEN v[i - at] ELSE d[i]

\* The same with the place in bits.
LEMMA PutAt ==
  ASSUME NEW d \in Seq(Bit), NEW q \in Nat, NEW v \in Seq(Bit), NEW at, at = q * BYTE,
         NEW n, Len(v) = n, NEW m, Len(d) = m, at + n <= m
  PROVE  IsPut(Put(d, q, v), d, at, v, n, m)
BY PutFacts DEF IsPut

LEMMA BytesAt ==
  ASSUME NEW d \in Seq(Bit), NEW q \in Nat, NEW n \in Nat, NEW at \in Nat, NEW k \in Nat,
         at = q * BYTE, k = n * BYTE, at + k <= Len(d)
  PROVE  /\ Bytes(d, q, n) \in Seq(Bit) /\ Len(Bytes(d, q, n)) = k
         /\ \A i \in 1..k : Bytes(d, q, n)[i] = d[at + i]
BY BytesFacts

LEMMA ByteAt ==
  ASSUME NEW d \in Seq(Bit), NEW q \in Nat, NEW at \in Nat, at = q * BYTE, at + BYTE <= Len(d)
  PROVE  /\ Byte(d, q) \in Seq(Bit) /\ Len(Byte(d, q)) = BYTE
         /\ \A i \in 1..BYTE : Byte(d, q)[i] = d[at + i]
BY ByteFacts
=============================================================================
