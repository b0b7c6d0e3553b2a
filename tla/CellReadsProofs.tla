-------------------------- MODULE CellReadsProofs --------------------------
(***************************************************************************)
(* What a number is as bits and what each read of a slice gives back, for  *)
(* bytes and words of any width: the facts the refinement rests on.        *)
(***************************************************************************)
EXTENDS CellsProofs

-----------------------------------------------------------------------------
(* Powers of two                                                            *)

LEMMA PowerZero == 2^0 = 1
<1>1. PICK S : S = {} /\ IsFiniteSet(S) /\ Cardinality(S) = 0
  BY FS_EmptySet
<1>2. Cardinality(SUBSET S) = 2^0
  BY <1>1, FS_SUBSET
<1>3. SUBSET S = {{}}
  BY <1>1
<1>4. Cardinality({{}}) = 1
  BY FS_Singleton
<1> QED BY <1>2, <1>3, <1>4

\* The subsets of n + 1 elements, without and with the last of them.
LEMMA PowerNext ==
  ASSUME NEW n \in Nat
  PROVE  2^(n + 1) = 2 * 2^n
<1>1. PICK S : S = 1..n /\ IsFiniteSet(S) /\ Cardinality(S) = n
  BY FS_Interval
<1>2. PICK R : R = S \union {n + 1} /\ IsFiniteSet(R) /\ Cardinality(R) = n + 1
  <2>1. PICK e : e = n + 1 /\ e \notin S
    BY <1>1
  <2>2. IsFiniteSet(S \union {e}) /\ Cardinality(S \union {e}) = Cardinality(S) + 1
    BY <1>1, <2>1, FS_AddElement
  <2> QED BY <1>1, <2>1, <2>2, Zenon
<1>3. PICK A : A = SUBSET S /\ IsFiniteSet(A) /\ Cardinality(A) = 2^n
  BY <1>1, FS_SUBSET
<1>4. Cardinality(SUBSET R) = 2^(n + 1)
  BY <1>2, FS_SUBSET
<1>5. PICK f : f = [X \in A |-> X \union {n + 1}]
  OBVIOUS
<1>6. PICK B : B = {X \union {n + 1} : X \in A}
  OBVIOUS
<1>7. \A X \in A : n + 1 \notin X
  BY <1>1, <1>3
<1>8. f \in Bijection(A, B)
  <2>1. f \in [A -> B]
    BY <1>5, <1>6
  <2>2. ASSUME NEW X \in A, NEW Y \in A, f[X] = f[Y] PROVE X = Y
    <3>1. X \union {n + 1} = Y \union {n + 1}
      BY <1>5, <2>2
    <3>2. \A z : z \in X <=> z \in Y
      BY <1>7, <3>1
    <3> QED BY <3>2, Zenon
  <2>3. \A Z \in B : \E X \in A : f[X] = Z
    BY <1>5, <1>6
  <2> QED BY <2>1, <2>2, <2>3 DEF Bijection, Injection, Surjection, IsInjective
<1>9. IsFiniteSet(B) /\ Cardinality(B) = 2^n
  <2>1. ExistsBijection(A, B)
    BY <1>8 DEF ExistsBijection
  <2> QED BY <1>3, <2>1, FS_Bijection
<1>10. SUBSET R = A \union B
  <2>1. \A X \in SUBSET R : X \in A \/ X \in B
    <3> TAKE X \in SUBSET R
    <3>1. CASE n + 1 \in X
      <4>1. X \ {n + 1} \in A
        BY <1>2, <1>3
      <4>2. X = (X \ {n + 1}) \union {n + 1}
        BY <3>1
      <4> QED BY <1>6, <4>1, <4>2
    <3>2. CASE n + 1 \notin X
      BY <1>2, <1>3, <3>2
    <3> QED BY <3>1, <3>2
  <2>2. A \subseteq SUBSET R
    BY <1>2, <1>3
  <2>3. B \subseteq SUBSET R
    BY <1>2, <1>3, <1>6
  <2> QED BY <2>1, <2>2, <2>3
<1>11. A \cap B = {}
  BY <1>6, <1>7
<1>12. Cardinality(A \union B) = Cardinality(A) + Cardinality(B) - Cardinality({})
  BY <1>3, <1>9, <1>11, FS_Union
<1>13. 2^n \in Nat /\ Cardinality({}) = 0
  BY PowerFacts, FS_EmptySet
<1>14. PICK p, a, c : p \in Nat /\ p = 2^n /\ a = 2^(n + 1) /\ c = Cardinality(A \union B) /\ a = c /\ c = p + p - 0
  BY <1>3, <1>4, <1>9, <1>10, <1>12, <1>13, Zenon
<1>15. a = 2 * p
  BY <1>14
<1> QED BY <1>14, <1>15

LEMMA PowerSum ==
  ASSUME NEW a \in Nat, NEW b \in Nat
  PROVE  2^(a + b) = 2^a * 2^b
<1>1. PICK T : T = {n \in Nat : 2^(a + n) # 2^a * 2^n}
  OBVIOUS
<1>2. T = {}
  <2> SUFFICES ASSUME T # {} PROVE FALSE
    OBVIOUS
  <2>1. PICK n \in T : \A m \in T : n <= m
    BY <1>1, LeastOf
  <2>2. n \in Nat /\ 2^(a + n) # 2^a * 2^n
    BY <1>1
  <2>3. 2^a \in Nat
    BY PowerFacts
  <2>4. n # 0
    <3>1. a + 0 = a /\ 2^a * 1 = 2^a
      BY <2>3
    <3> QED BY <2>2, <3>1, PowerZero, Zenon
  <2>5. PICK m \in Nat : n = m + 1 /\ m < n
    BY <2>2, <2>4
  <2>6. m \notin T
    BY <2>1, <2>2, <2>5
  <2>7. 2^(a + m) = 2^a * 2^m
    BY <1>1, <2>6
  <2>8. 2^(m + 1) = 2 * 2^m /\ 2^(a + m + 1) = 2 * 2^(a + m)
    BY PowerNext
  <2>9. PICK p \in Nat, q \in Nat : p = 2^a /\ q = 2^m
    BY PowerFacts
  <2>10. 2 * (p * q) = p * (2 * q)
    BY <2>9
  <2>11. a + n = a + m + 1
    BY <2>5
  <2>12. 2^(a + n) = 2 * (p * q) /\ 2^n = 2 * q
    BY <2>5, <2>7, <2>8, <2>9, <2>11, Zenon
  <2> QED BY <2>2, <2>9, <2>10, <2>12, Zenon
<1> QED BY <1>1, <1>2

LEMMA PowerOrder ==
  ASSUME NEW a \in Nat, NEW b \in Nat
  PROVE  (a <= b <=> 2^a <= 2^b) /\ (a < b <=> 2^a < 2^b) /\ 2^a > 0
<1>1. ASSUME NEW c \in Nat, NEW d \in Nat, c < d PROVE 2^c < 2^d
  <2>1. PICK k \in Nat : d = c + k /\ k > 0
    BY <1>1
  <2>2. PICK p \in Nat, q \in Nat : p = 2^c /\ q = 2^k /\ p > 0 /\ q > 1
    <3>1. 2^c \in Nat /\ c < 2^c /\ 2^k \in Nat /\ k < 2^k
      BY PowerFacts
    <3> QED BY <2>1, <3>1
  <2>3. 2^d = p * q
    BY <2>1, <2>2, PowerSum
  <2>4. p < p * q
    BY <2>2
  <2> QED BY <2>2, <2>3, <2>4
<1>2. PICK p \in Nat, q \in Nat : p = 2^a /\ q = 2^b /\ p > 0
  <2>1. 2^a \in Nat /\ a < 2^a /\ 2^b \in Nat
    BY PowerFacts
  <2> QED BY <2>1
<1>3. (a < b => p < q) /\ (b < a => q < p) /\ (a = b => p = q)
  BY <1>1, <1>2
<1>4. (a <= b <=> p <= q) /\ (a < b <=> p < q)
  BY <1>2, <1>3
<1> QED BY <1>2, <1>4

-----------------------------------------------------------------------------
(* Division *)

\* The quotient rounded down and the rest, for negative numbers too.
LEMMA DivParts ==
  ASSUME NEW x \in Int, NEW q \in Nat, q > 0
  PROVE  \E d \in Int, r \in Nat : d = x \div q /\ r = x % q /\ r < q /\ x = d * q + r
<1>1. x \div q \in Int /\ x % q \in Nat /\ x % q < q /\ x = (x \div q) * q + (x % q)
  BY SMT
<1> QED BY <1>1

LEMMA DivIs ==
  ASSUME NEW x \in Int, NEW q \in Nat, q > 0, NEW d \in Int, NEW r \in Nat, r < q, x = d * q + r
  PROVE  x \div q = d /\ x % q = r
BY SMT

\* One division after the other.
LEMMA DivTwice ==
  ASSUME NEW x \in Int, NEW p \in Nat, p > 0, NEW q \in Nat, q > 0
  PROVE  (x \div p) \div q = x \div (p * q)
<1>1. PICK d \in Int, r \in Nat : d = x \div p /\ r < p /\ x = d * p + r
  BY DivParts
<1>2. PICK e \in Int, t \in Nat : e = d \div q /\ t < q /\ d = e * q + t
  BY DivParts
<1>3. PICK m \in Nat : m = p * q /\ m > 0
  BY SMT
<1>4. PICK k \in Nat : k = t * p + r
  BY SMT
<1>5. k < m
  <2>1. PICK u \in Nat : q = t + 1 + u
    BY <1>2
  <2>2. p * q = t * p + p + u * p /\ u * p \in Nat /\ t * p \in Nat
    BY <2>1
  <2> QED BY <1>1, <1>3, <1>4, <2>2
<1>6. x = e * m + k
  <2>1. x = (e * q + t) * p + r
    BY <1>1, <1>2
  <2>2. (e * q + t) * p + r = e * (p * q) + (t * p + r)
    OBVIOUS
  <2> QED BY <1>3, <1>4, <2>1, <2>2
<1>7. x \div m = e
  BY <1>3, <1>5, <1>6, DivIs
<1> QED BY <1>1, <1>2, <1>3, <1>7

\* A factor of both sides.
LEMMA DivScaled ==
  ASSUME NEW x \in Int, NEW p \in Nat, p > 0, NEW q \in Nat, q > 0
  PROVE  (x * p) \div (p * q) = x \div q
<1>1. PICK y \in Int : y = x * p
  BY SMT
<1>2. y \div p = x
  <2>1. y = x * p + 0
    BY <1>1
  <2> QED BY <2>1, DivIs
<1>3. (y \div p) \div q = y \div (p * q)
  BY DivTwice
<1> QED BY <1>1, <1>2, <1>3

-----------------------------------------------------------------------------
(* Numbers that are stored *)

\* The narrower and the wider word of a word of w bits.
LEMMA LowAt ==
  ASSUME NEW v \in Seq(Bit), NEW w \in Nat, Len(v) = w, NEW n \in Nat, n <= w
  PROVE  /\ Low(v, n) \in Seq(Bit) /\ Len(Low(v, n)) = n
         /\ \A i \in 1..n : Low(v, n)[i] = v[w - n + i]
<1>1. n <= Len(v)
  OBVIOUS
<1>2. /\ Low(v, n) \in Seq(Bit) /\ Len(Low(v, n)) = n
      /\ \A i \in 1..n : Low(v, n)[i] = v[Len(v) - n + i]
  BY <1>1, LowFacts
<1> QED BY <1>2

IsWide(z, v, k, w) ==
  /\ z \in Seq(Bit) /\ Len(z) = k + w
  /\ \A i \in 1..k : z[i] = 0
  /\ \A i \in 1..w : z[k + i] = v[i]

LEMMA WideAt ==
  ASSUME NEW v \in Seq(Bit), NEW w \in Nat, Len(v) = w, NEW k \in Nat, NEW n \in Nat, n = k + w
  PROVE  IsWide(Wide(v, n), v, k, w)
<1>1. Len(v) <= n /\ n - Len(v) = k
  OBVIOUS
<1>2. /\ Wide(v, n) \in Seq(Bit) /\ Len(Wide(v, n)) = n
      /\ \A i \in 1..(n - Len(v)) : Wide(v, n)[i] = 0
      /\ \A i \in 1..Len(v) : Wide(v, n)[n - Len(v) + i] = v[i]
  BY <1>1, WideFacts
<1> QED BY <1>1, <1>2 DEF IsWide

\* A number in the bits of a word is the number in as many bits as are stored.
LEMMA WordBits ==
  ASSUME NEW w \in Nat, NEW x \in Nat, NEW n \in Nat, n <= w \/ x < 2^w
  PROVE  NumberBits(ToBits(x, w), n) = ToBits(x, n)
<1>1. PICK v : v = ToBits(x, w) /\ v \in Seq(Bit) /\ Len(v) = w
  BY ToBitsFacts
<1>2. \A i \in 1..w : v[i] = (x \div 2^(w - i)) % 2
  BY <1>1 DEF ToBits
<1>3. PICK y : y = ToBits(x, n) /\ y \in Seq(Bit) /\ Len(y) = n
  BY ToBitsFacts
<1>4. \A i \in 1..n : y[i] = (x \div 2^(n - i)) % 2
  BY <1>3 DEF ToBits
<1>5. CASE n <= w
  <2>1. NumberBits(v, n) = Low(v, n)
    BY <1>1, <1>5 DEF NumberBits
  <2>2. /\ Low(v, n) \in Seq(Bit) /\ Len(Low(v, n)) = n
        /\ \A i \in 1..n : Low(v, n)[i] = v[w - n + i]
    BY <1>1, <1>5, LowAt
  <2>3. ASSUME NEW i \in 1..n PROVE Low(v, n)[i] = y[i]
    <3>1. PICK j \in 1..w : j = w - n + i /\ w - j = n - i
      BY <1>5
    <3>2. Low(v, n)[i] = (x \div 2^(w - j)) % 2
      BY <1>2, <2>2, <3>1
    <3> QED BY <1>4, <3>1, <3>2
  <2>4. Low(v, n) = y
    BY <1>3, <2>2, <2>3, SeqSame
  <2> QED BY <1>1, <1>3, <2>1, <2>4
<1>6. CASE ~(n <= w)
  <2>1. NumberBits(v, n) = Wide(v, n)
    BY <1>1, <1>6 DEF NumberBits
  <2>2. PICK k \in Nat : k = n - w
    BY <1>6
  <2>3. PICK z : z = Wide(v, n) /\ z \in Seq(Bit) /\ Len(z) = n /\ (\A i \in 1..k : z[i] = 0)
                 /\ (\A i \in 1..w : z[k + i] = v[i])
    <3>1. n = k + w
      BY <1>6, <2>2
    <3>2. IsWide(Wide(v, n), v, k, w)
      BY <1>1, <3>1, WideAt, Zenon
    <3> QED BY <3>1, <3>2, Zenon DEF IsWide
  <2>4. ASSUME NEW i \in 1..n PROVE z[i] = y[i]
    <3>1. CASE i <= k
      <4>1. PICK m \in Nat : m = n - i /\ w <= m
        BY <2>2, <3>1
      <4>2. PICK p \in Nat : p = 2^m /\ x < p
        <5>1. 2^w <= 2^m /\ 2^w \in Nat /\ 2^m \in Nat
          BY <4>1, PowerOrder, PowerFacts
        <5> QED BY <1>6, <5>1
      <4>3. x \div p = 0
        <5>1. x = 0 * p + x
          OBVIOUS
        <5> QED BY <4>2, <5>1, DivIs
      <4>4. y[i] = 0 % 2
        BY <1>4, <4>1, <4>2, <4>3
      <4> QED BY <2>3, <3>1, <4>4
    <3>2. CASE ~(i <= k)
      <4>1. PICK j \in 1..w : i = k + j /\ w - j = n - i
        <5>1. i - k \in 1..w /\ i = k + (i - k) /\ w - (i - k) = n - i
          BY <2>2, <3>2
        <5> QED BY <5>1
      <4>2. z[i] = (x \div 2^(w - j)) % 2
        BY <1>2, <2>3, <4>1
      <4> QED BY <1>4, <4>1, <4>2
    <3> QED BY <3>1, <3>2
  <2>5. z = y
    BY <1>3, <2>3, <2>4, SeqSame
  <2> QED BY <1>1, <1>3, <2>1, <2>3, <2>5
<1> QED BY <1>5, <1>6

\* The bits that fill up the last byte.
LEMMA FillFacts ==
  ASSUME NEW n \in Nat
  PROVE  \E a \in Nat, m \in Nat : /\ a = (BYTE - (n % BYTE)) % BYTE /\ m = DivCeil(n, BYTE)
                                   /\ m * BYTE = n + a
<1>1. BYTE \in Nat /\ BYTE > 0
  BY SizeFacts
<1>2. PICK q \in Nat, r \in Nat : q = n \div BYTE /\ r = n % BYTE /\ r < BYTE /\ n = q * BYTE + r
  BY DivMod
<1>3. PICK m \in Nat, e \in Nat : m = DivCeil(n, BYTE) /\ e = m * BYTE /\ n <= e /\ e < n + BYTE
  BY CeilFacts
<1>4. PICK at \in Nat : at = q * BYTE /\ n = at + r
  BY <1>2, Product
<1>5. CASE r = 0
  <2>1. BYTE % BYTE = 0
    <3>1. (1 * BYTE + 0) % BYTE = 0 /\ 1 * BYTE + 0 = BYTE
      BY <1>1, DivModIs
    <3> QED BY <3>1
  <2>2. (BYTE - (n % BYTE)) % BYTE = 0
    BY <1>1, <1>2, <1>5, <2>1
  <2>3. e < at + BYTE /\ at <= e
    BY <1>3, <1>4, <1>5
  <2>4. e <= at
    BY <1>3, <1>4, <2>3, WholeBytes
  <2>5. e = n + 0
    BY <1>3, <1>4, <1>5, <2>3, <2>4
  <2> QED BY <1>3, <2>2, <2>5
<1>6. CASE r # 0
  <2>1. PICK a \in Nat : a = BYTE - r /\ a < BYTE
    BY <1>1, <1>2, <1>6
  <2>2. a % BYTE = a
    <3>1. (0 * BYTE + a) % BYTE = a /\ 0 * BYTE + a = a
      BY <1>1, <2>1, DivModIs
    <3> QED BY <3>1
  <2>3. (q + 1) * BYTE = at + BYTE /\ q + 1 \in Nat
    BY <1>4, Product
  <2>4. q < m
    <3>1. at < e
      BY <1>3, <1>4, <1>6
    <3> QED BY <1>3, <1>4, <3>1, Product
  <2>5. at + BYTE <= e
    BY <1>3, <1>4, <2>4, Product
  <2>6. e <= at + BYTE
    <3>1. e < at + BYTE + BYTE
      BY <1>1, <1>2, <1>3, <1>4
    <3>2. m * BYTE <= (q + 1) * BYTE
      BY <1>3, <2>3, <3>1, WholeBytes
    <3> QED BY <1>3, <2>3, <3>2
  <2>7. e = n + a
    BY <1>1, <1>3, <1>4, <2>1, <2>5, <2>6
  <2>8. a = (BYTE - (n % BYTE)) % BYTE
    BY <1>2, <2>1, <2>2
  <2> QED BY <1>3, <2>7, <2>8
<1> QED BY <1>5, <1>6

\* A number moved to the start of its first byte: its bits come first.
LEMMA MovedBits ==
  ASSUME NEW x \in Int, NEW n \in Nat, NEW a \in Nat
  PROVE  RawBits(ToBits(x * 2^a, n + a), n) = ToBits(x, n)
<1>1. PICK p \in Nat : p = 2^a /\ p > 0
  BY PowerFacts, PowerOrder
<1>2. PICK y \in Int : y = x * p
  BY SMT
<1>3. PICK v : v = ToBits(y, n + a) /\ v \in Seq(Bit) /\ Len(v) = n + a
  BY ToBitsFacts
<1>4. \A i \in 1..(n + a) : v[i] = (y \div 2^(n + a - i)) % 2
  BY <1>3 DEF ToBits
<1>5. PICK z : z = ToBits(x, n) /\ z \in Seq(Bit) /\ Len(z) = n
  BY ToBitsFacts
<1>6. \A i \in 1..n : z[i] = (x \div 2^(n - i)) % 2
  BY <1>5 DEF ToBits
<1>7. RawBits(v, n) \in Seq(Bit) /\ Len(RawBits(v, n)) = n /\ \A i \in 1..n : RawBits(v, n)[i] = v[i]
  <2>1. 0 = n - Least(n, Len(v)) /\ 0 \in Nat
    BY <1>3 DEF Least
  <2>2. /\ RawBits(v, n) \in Seq(Bit) /\ Len(RawBits(v, n)) = n
        /\ \A i \in 1..n : RawBits(v, n)[i] = IF i <= 0 THEN 0 ELSE v[i - 0]
    BY <1>3, <2>1, RawBitsFacts
  <2>3. \A i \in 1..n : ~(i <= 0) /\ i - 0 = i
    OBVIOUS
  <2> QED BY <2>2, <2>3
<1>8. ASSUME NEW i \in 1..n PROVE RawBits(v, n)[i] = z[i]
  <2>1. PICK k \in Nat : k = n - i /\ n + a - i = a + k /\ i \in 1..(n + a)
    OBVIOUS
  <2>2. PICK q \in Nat : q = 2^k /\ q > 0
    BY PowerFacts, PowerOrder
  <2>3. 2^(n + a - i) = p * q
    BY <1>1, <2>1, <2>2, PowerSum
  <2>4. y \div (p * q) = x \div q
    BY <1>1, <1>2, <2>2, DivScaled
  <2> QED BY <1>4, <1>6, <1>7, <2>1, <2>2, <2>3, <2>4
<1>9. RawBits(v, n) = z
  BY <1>5, <1>7, <1>8, SeqSame
<1> QED BY <1>1, <1>2, <1>3, <1>5, <1>9

\* A number is stored as its low bits.
LEMMA TruncatedStored ==
  ASSUME NEW b, WellFormed(b), NEW x \in Int, NEW bits \in Nat
  PROVE  Stored(b, store_bigint_truncate(b, x, bits), ToBits(x, bits))
<1>1. BYTE \in Nat /\ BYTE > 0 /\ WORD \in Nat /\ WORD_BITS = WORD * BYTE /\ WORD_BITS > 0 /\ WORD_BITS \in Nat
  BY SizeFacts
<1>2. CASE 0 <= x /\ x < 2^WORD_BITS
  <2>1. PICK v : v = ToBits(x, WORD_BITS) /\ v \in Seq(Bit) /\ Len(v) = WORD_BITS /\ Aligned(v)
    BY <1>1, ToBytesFacts
  <2>2. store_bigint_truncate(b, x, bits) = store_word(b, v, bits)
    BY <1>2, <2>1 DEF store_bigint_truncate
  <2>3. Stored(b, store_word(b, v, bits), NumberBits(v, bits))
    BY <1>1, <2>1, WordStored
  <2>4. NumberBits(v, bits) = ToBits(x, bits)
    <3>1. x \in Nat
      BY <1>2
    <3> QED BY <1>1, <1>2, <2>1, <3>1, WordBits
  <2> QED BY <2>2, <2>3, <2>4
<1>3. CASE ~(0 <= x /\ x < 2^WORD_BITS)
  <2>1. PICK a \in Nat, m \in Nat : /\ a = (BYTE - (bits % BYTE)) % BYTE /\ m = DivCeil(bits, BYTE)
                                    /\ m * BYTE = bits + a
    BY FillFacts
  <2>2. PICK y \in Int : y = x * 2^a
    <3>1. PICK p \in Nat : p = 2^a
      BY PowerFacts
    <3>2. x * p \in Int
      OBVIOUS
    <3> QED BY <3>1, <3>2
  <2>3. PICK v : v = ToBits(y, m * BYTE) /\ v \in Seq(Bit) /\ Aligned(v)
    BY ToBytesFacts
  <2>4. store_bigint_truncate(b, x, bits) = store_raw(b, v, bits)
    BY <1>3, <2>1, <2>2, <2>3 DEF store_bigint_truncate
  <2>5. Stored(b, store_raw(b, v, bits), RawBits(v, bits))
    BY <2>3, RawStored
  <2>6. RawBits(v, bits) = ToBits(x, bits)
    BY <2>1, <2>2, <2>3, MovedBits
  <2> QED BY <2>4, <2>5, <2>6
<1> QED BY <1>2, <1>3

\* A number fits n bits exactly when its size does.
LEMMA SizeIsRange ==
  ASSUME NEW x \in Int, NEW n \in Nat, NEW signed \in BOOLEAN, signed \/ x >= 0
  PROVE  bitsize(x, signed) <= n <=> Representable(x, n, signed)
<1>1. PICK m \in Nat : m = IF x < 0 THEN -x ELSE x
  <2>1. (IF x < 0 THEN -x ELSE x) \in Nat
    OBVIOUS
  <2> QED BY <2>1
<1>2. PICK k \in Nat : k = NumBits(m) /\ m < 2^k /\ (k = 0 \/ m >= 2^(k - 1)) /\ k <= m
  BY NumBitsFacts
<1>3. ASSUME NEW j \in Nat PROVE k <= j <=> m < 2^j
  <2>1. PICK p \in Nat, q \in Nat : p = 2^k /\ q = 2^j
    BY PowerFacts
  <2>2. k <= j => p <= q
    BY <2>1, PowerOrder
  <2>3. ASSUME j < k PROVE m >= q
    <3>1. PICK h \in Nat : h = k - 1 /\ j <= h
      BY <2>3
    <3>2. 2^j <= 2^h /\ 2^h \in Nat
      BY <3>1, PowerOrder, PowerFacts
    <3>3. m >= 2^h
      BY <1>2, <2>3, <3>1
    <3> QED BY <2>1, <3>2, <3>3
  <2> QED BY <1>2, <2>1, <2>2, <2>3
<1>4. Representable(x, n, signed) <=>
        IF n = 0 THEN x = 0
        ELSE IF signed THEN -(2^(n - 1)) <= x /\ x < 2^(n - 1) ELSE 0 <= x /\ x < 2^n
  BY DEF Representable
<1>5. CASE x = 0
  <2>1. m = 0 /\ k = 0
    BY <1>1, <1>2, <1>5
  <2>2. bitsize(x, signed) = 0
    BY <1>1, <1>2, <1>5, <2>1 DEF bitsize
  <2>3. CASE n = 0
    BY <1>4, <1>5, <2>2, <2>3
  <2>4. CASE n # 0
    <3>1. PICK p \in Nat, q \in Nat : p = 2^(n - 1) /\ q = 2^n /\ p > 0 /\ q > 0
      <4>1. n - 1 \in Nat
        BY <2>4
      <4> QED BY <4>1, PowerFacts, PowerOrder
    <3>2. -p <= 0 /\ 0 < p /\ 0 < q
      BY <3>1
    <3> QED BY <1>4, <1>5, <2>2, <2>4, <3>1, <3>2
  <2> QED BY <2>3, <2>4
<1>6. CASE x # 0 /\ ~signed
  <2>1. bitsize(x, signed) = k
    BY <1>1, <1>2, <1>6 DEF bitsize
  <2>2. m = x /\ x > 0
    BY <1>1, <1>6
  <2>3. CASE n = 0
    <3>1. ~(x < 2^n)
      BY <2>2, <2>3, PowerZero
    <3>2. ~(k <= n) /\ x # 0
      BY <1>3, <1>6, <2>2, <3>1, Zenon
    <3> QED BY <1>4, <2>1, <2>3, <3>2, Zenon
  <2>4. CASE n # 0
    <3>1. Representable(x, n, signed) <=> (0 <= x /\ x < 2^n)
      BY <1>4, <1>6, <2>4, Zenon
    <3>2. 0 <= x
      BY <2>2
    <3>3. k <= n <=> x < 2^n
      BY <1>3, <2>2, Zenon
    <3> QED BY <2>1, <3>1, <3>2, <3>3, Zenon
  <2> QED BY <2>3, <2>4
<1>7. CASE x > 0 /\ signed
  <2>1. bitsize(x, signed) = k + 1
    BY <1>1, <1>2, <1>7 DEF bitsize
  <2>2. m = x
    BY <1>1, <1>7
  <2>3. CASE n = 0
    <3>1. ~(k + 1 <= n) /\ x # 0
      BY <1>7, <2>3
    <3> QED BY <1>4, <2>1, <2>3, <3>1, Zenon
  <2>4. CASE n # 0
    <3>1. PICK h \in Nat : h = n - 1
      BY <2>4
    <3>2. PICK p \in Nat : p = 2^h
      BY PowerFacts
    <3>3. k <= h <=> x < p
      BY <1>3, <2>2, <3>2
    <3>4. Representable(x, n, signed) <=> (-p <= x /\ x < p)
      BY <1>4, <1>7, <2>4, <3>1, <3>2, Zenon
    <3>5. -p <= x /\ (k + 1 <= n <=> k <= h)
      BY <1>7, <3>1, <3>2
    <3> QED BY <2>1, <3>3, <3>4, <3>5, Zenon
  <2> QED BY <2>3, <2>4
<1>8. CASE x < 0 /\ signed
  <2>1. bitsize(x, signed) = IF m = 2^(k - 1) THEN k ELSE k + 1
    BY <1>1, <1>2, <1>8 DEF bitsize
  <2>2. m = -x /\ m > 0
    BY <1>1, <1>8
  <2>3. k # 0
    <3>1. k = 0 => m < 1
      BY <1>2, PowerZero, Zenon
    <3> QED BY <2>2, <3>1
  <2>4. CASE n = 0
    <3>1. bitsize(x, signed) > 0 /\ bitsize(x, signed) \in Nat
      BY <2>1, <2>3
    <3>2. \A y \in Nat : y > 0 => ~(y <= n)
      BY <2>4
    <3>3. ~(bitsize(x, signed) <= n)
      BY <3>1, <3>2, Zenon
    <3>4. x # 0
      BY <1>8
    <3> QED BY <1>4, <2>4, <3>3, <3>4, Zenon
  <2>5. CASE n # 0
    <3>1. PICK h \in Nat : h = n - 1
      BY <2>5
    <3>2. PICK p \in Nat : p = 2^h
      BY PowerFacts
    <3>3. PICK j \in Nat : j = k - 1
      BY <2>3
    <3>4. PICK q \in Nat : q = 2^j /\ m >= q
      BY <1>2, <2>3, <3>3, PowerFacts
    <3>5. Representable(x, n, signed) <=> m <= p
      <4>1. Representable(x, n, signed) <=> (-p <= x /\ x < p)
        BY <1>4, <1>8, <2>5, <3>1, <3>2, Zenon
      <4>2. (-p <= x /\ x < p) <=> m <= p
        BY <1>8, <2>2, <3>2
      <4> QED BY <4>1, <4>2, Zenon
    <3>6. (k <= h <=> m < p) /\ (j <= h <=> q <= p)
      <4>1. k <= h <=> m < p
        BY <1>3, <3>2
      <4>2. j <= h <=> q <= p
        BY <3>2, <3>4, PowerOrder
      <4> QED BY <4>1, <4>2
    <3>7. CASE m = q
      <4>1. bitsize(x, signed) = k
        BY <2>1, <3>3, <3>4, <3>7
      <4> QED BY <3>1, <3>3, <3>5, <3>6, <3>7, <4>1
    <3>8. CASE m # q
      <4>1. bitsize(x, signed) = k + 1
        BY <2>1, <3>3, <3>4, <3>8
      <4>2. m = p => (j <= h /\ ~(k <= h))
        BY <3>4, <3>6
      <4>3. j <= h /\ ~(k <= h) => j = h
        BY <3>3
      <4>4. m # p
        BY <3>2, <3>4, <3>8, <4>2, <4>3
      <4> QED BY <3>1, <3>5, <3>6, <4>1, <4>4
    <3> QED BY <3>7, <3>8
  <2> QED BY <2>4, <2>5
<1> QED BY <1>5, <1>6, <1>7, <1>8

\* A number is stored in the bits asked for, or refused.
LEMMA NumberStored ==
  ASSUME NEW b, WellFormed(b), NEW x \in Int, NEW bits \in Nat, NEW signed \in BOOLEAN, signed \/ x >= 0
  PROVE  IF Representable(x, bits, signed) THEN Stored(b, store_bigint(b, x, bits, signed), ToBits(x, bits))
         ELSE store_bigint(b, x, bits, signed) = Refused(b)
<1>1. PICK k \in Nat : k = bitsize(x, signed)
  BY BitsizeFacts
<1>2. k <= bits <=> Representable(x, bits, signed)
  BY <1>1, SizeIsRange
<1>3. store_bigint(b, x, bits, signed) = IF k > bits THEN Refused(b) ELSE store_bigint_truncate(b, x, bits)
  BY <1>1 DEF store_bigint
<1>4. CASE k <= bits
  <2>1. store_bigint(b, x, bits, signed) = store_bigint_truncate(b, x, bits)
    BY <1>3, <1>4
  <2> QED BY <1>2, <1>4, <2>1, TruncatedStored
<1>5. CASE ~(k <= bits)
  <2>1. store_bigint(b, x, bits, signed) = Refused(b)
    BY <1>3, <1>5
  <2> QED BY <1>2, <1>5, <2>1
<1> QED BY <1>4, <1>5

\* The fewest bytes that a number fits.
LEMMA FewestBytes ==
  ASSUME NEW x \in Int, NEW signed \in BOOLEAN, signed \/ x >= 0
  PROVE  DivCeil(bitsize(x, signed), BYTE) =
           CHOOSE k \in 0..Magnitude(x) + 1 :
             /\ Representable(x, k * BYTE, signed)
             /\ \A j \in 0..k - 1 : ~Representable(x, j * BYTE, signed)
<1> DEFINE P(k) == /\ Representable(x, k * BYTE, signed)
                   /\ \A j \in 0..k - 1 : ~Representable(x, j * BYTE, signed)
<1>1. PICK s \in Nat : s = bitsize(x, signed)
  BY BitsizeFacts
<1>2. PICK m \in Nat, e \in Nat : m = DivCeil(s, BYTE) /\ e = m * BYTE /\ s <= e /\ e < s + BYTE
  BY CeilFacts
<1>3. PICK g \in Nat : g = Magnitude(x) /\ s <= g + 1
  <2>1. PICK g \in Nat : g = IF x < 0 THEN -x ELSE x
    <3>1. (IF x < 0 THEN -x ELSE x) \in Nat
      OBVIOUS
    <3> QED BY <3>1
  <2>2. PICK k \in Nat : k = NumBits(g) /\ k <= g
    BY NumBitsFacts
  <2>3. s \in {k, k + 1}
    BY <1>1, <2>1, <2>2 DEF bitsize
  <2> QED BY <2>1, <2>2, <2>3 DEF Magnitude
<1>4. m <= s
  <2>1. BYTE \in Nat /\ BYTE > 0
    BY SizeFacts
  <2>2. ASSUME m > s PROVE FALSE
    <3>1. PICK f \in Nat : f = s * BYTE /\ f + BYTE <= e
      BY <1>2, <2>2, Product
    <3>2. s <= f
      <4>1. \A y \in Nat, z \in Nat : z > 0 => y <= y * z
        OBVIOUS
      <4> QED BY <2>1, <3>1, <4>1
    <3> QED BY <1>2, <3>1, <3>2, <2>1
  <2> QED BY <2>2
<1>5. m \in 0..Magnitude(x) + 1
  BY <1>3, <1>4
<1>6. ASSUME NEW k \in Nat PROVE Representable(x, k * BYTE, signed) <=> m <= k
  <2>1. PICK f \in Nat : f = k * BYTE
    BY Product
  <2>2. Representable(x, f, signed) <=> s <= f
    BY <1>1, SizeIsRange, Zenon
  <2>3. s <= f <=> m <= k
    <3>1. m <= k => e <= f
      BY <1>2, <2>1, Product
    <3>2. k < m => f + BYTE <= e
      BY <1>2, <2>1, Product
    <3>3. BYTE \in Nat /\ BYTE > 0
      BY SizeFacts
    <3> QED BY <1>2, <3>1, <3>2, <3>3
  <2> QED BY <2>1, <2>2, <2>3, Zenon
<1>7. P(m)
  <2>1. Representable(x, m * BYTE, signed)
    BY <1>6
  <2>2. ASSUME NEW j \in 0..m - 1 PROVE ~Representable(x, j * BYTE, signed)
    <3>1. j \in Nat /\ ~(m <= j)
      OBVIOUS
    <3> QED BY <1>6, <3>1, Zenon
  <2> QED BY <2>1, <2>2
<1>8. ASSUME NEW k \in 0..Magnitude(x) + 1, P(k) PROVE k = m
  <2>1. k \in Nat
    BY <1>3
  <2>2. m <= k
    BY <1>6, <1>8, <2>1, Zenon
  <2>3. ASSUME m < k PROVE FALSE
    <3>1. m \in 0..k - 1 /\ m <= m
      BY <2>1, <2>3
    <3> QED BY <1>6, <1>8, <3>1, Zenon
  <2> QED BY <2>1, <2>2, <2>3
<1>9. (CHOOSE k \in 0..Magnitude(x) + 1 : P(k)) = m
  <2> HIDE DEF P
  <2> QED BY <1>5, <1>7, <1>8, Zenon
<1> QED BY <1>1, <1>2, <1>9, Zenon

\* A length and a number behind it: both, the length alone, or nothing.
StoredVar(b, r, len, bits, fits_len) ==
  \/ /\ fits_len /\ b.bit_len + Len(len) < Full /\ b.bit_len + Len(len) + Len(bits) < Full
     /\ r.ok = TRUE /\ Appended(b, r.b, len \o bits)
  \/ /\ fits_len /\ b.bit_len + Len(len) < Full /\ ~(b.bit_len + Len(len) + Len(bits) < Full)
     /\ r.ok = FALSE /\ Appended(b, r.b, len)
  \/ /\ ~(fits_len /\ b.bit_len + Len(len) < Full)
     /\ r.ok = FALSE /\ r.b = b

LEMMA VarNumberStored ==
  ASSUME NEW b, WellFormed(b), NEW x \in Int, NEW n \in Nat, n <= BYTE, NEW signed \in BOOLEAN,
         NEW m, m = DivCeil(bitsize(x, signed), BYTE)
  PROVE  /\ m \in Nat
         /\ StoredVar(b, store_var_bigint(b, x, n, signed), ToBits(m, n), ToBits(x, m * BYTE), m < 2^n)
<1>1. m \in Nat
  BY BitsizeFacts, CeilFacts
<1>2. PICK v : v = ToBits(m, BYTE) /\ v \in Seq(Bit) /\ Aligned(v) /\ Len(v) > 0
  <2>1. 1 * BYTE = BYTE /\ BYTE \in Nat /\ BYTE > 0 /\ m \in Int
    BY <1>1, SizeFacts
  <2>2. /\ ToBits(m, 1 * BYTE) \in Seq(Bit) /\ Len(ToBits(m, 1 * BYTE)) = 1 * BYTE
        /\ Aligned(ToBits(m, 1 * BYTE))
    BY <2>1, ToBytesFacts
  <2> QED BY <2>1, <2>2
<1>3. PICK r : r = store_word(b, v, n)
  OBVIOUS
<1>4. PICK len : len = ToBits(m, n) /\ len \in Seq(Bit)
  BY <1>1, ToBitsFacts
<1>5. Stored(b, r, len)
  <2>1. Stored(b, r, NumberBits(v, n))
    BY <1>2, <1>3, WordStored
  <2>2. NumberBits(v, n) = len
    BY <1>1, <1>2, <1>4, SizeFacts, WordBits
  <2> QED BY <2>1, <2>2
<1>6. PICK bits \in Nat : bits = m * BYTE
  BY <1>1, Product
<1>7. PICK y : y = ToBits(x, bits) /\ y \in Seq(Bit)
  BY ToBitsFacts
<1>8. PICK s : s = store_bigint_truncate(r.b, x, bits)
  OBVIOUS
<1>9. PICK t : t = store_var_bigint(b, x, n, signed)
  OBVIOUS
<1>10. t = IF m >= 2^n THEN Refused(b) ELSE IF r.ok THEN s ELSE r
  BY <1>2, <1>3, <1>6, <1>8, <1>9 DEF store_var_bigint, Chain
<1>11. 2^n \in Nat
  BY PowerFacts
<1>12. StoredVar(b, t, len, y, m < 2^n)
  <2>1. CASE m >= 2^n
    <3>1. t.ok = FALSE /\ t.b = b /\ ~(m < 2^n)
      BY <1>1, <1>10, <1>11, <2>1 DEF Refused
    <3> QED BY <3>1 DEF StoredVar
  <2>2. CASE m < 2^n /\ ~(b.bit_len + Len(len) < Full)
    <3>1. r.ok = FALSE /\ r.b = b
      BY <1>5, <2>2 DEF Stored
    <3>2. t = r
      BY <1>1, <1>10, <1>11, <2>2, <3>1
    <3> QED BY <2>2, <3>1, <3>2 DEF StoredVar
  <2>3. CASE m < 2^n /\ b.bit_len + Len(len) < Full
    <3>1. r.ok = TRUE /\ Appended(b, r.b, len)
      BY <1>5, <2>3 DEF Stored
    <3>2. t = s
      BY <1>1, <1>10, <1>11, <2>3, <3>1
    <3>3. WellFormed(r.b)
      BY <1>4, <3>1, AppendedIsFormed
    <3>4. Stored(r.b, s, y)
      BY <1>7, <1>8, <3>3, TruncatedStored
    <3>5. r.b.bit_len = b.bit_len + Len(len)
      BY <3>1 DEF Appended
    <3>6. CASE b.bit_len + Len(len) + Len(y) < Full
      <4>1. s.ok = TRUE /\ Appended(r.b, s.b, y)
        BY <3>4, <3>5, <3>6 DEF Stored
      <4>2. Appended(b, s.b, len \o y)
        BY <1>4, <1>7, <3>1, <4>1, AppendedTwice
      <4> QED BY <2>3, <3>2, <3>6, <4>1, <4>2 DEF StoredVar
    <3>7. CASE ~(b.bit_len + Len(len) + Len(y) < Full)
      <4>1. s.ok = FALSE /\ s.b = r.b
        BY <3>4, <3>5, <3>7 DEF Stored
      <4> QED BY <2>3, <3>1, <3>2, <3>7, <4>1 DEF StoredVar
    <3> QED BY <3>6, <3>7
  <2> QED BY <1>1, <1>11, <2>1, <2>2, <2>3
<1> QED BY <1>1, <1>4, <1>6, <1>7, <1>9, <1>12, Zenon

-----------------------------------------------------------------------------
(* Numbers that are read *)

\* The numbers of the first bits of v, one bit more at a time.
Counts(f, v, n) == f \in [0..n -> Nat] /\ f[0] = 0 /\ \A i \in 1..n : f[i] = 2 * f[i - 1] + v[i]

LEMMA CountsExist ==
  ASSUME NEW v \in Seq(Bit), NEW n \in Nat, n <= Len(v)
  PROVE  \E f : Counts(f, v, n)
<1>1. PICK T : T = {k \in Nat : k <= Len(v) /\ ~\E f : Counts(f, v, k)}
  OBVIOUS
<1>2. T = {}
  <2> SUFFICES ASSUME T # {} PROVE FALSE
    OBVIOUS
  <2>1. PICK k \in T : \A m \in T : k <= m
    BY <1>1, LeastOf
  <2>2. k \in Nat /\ k <= Len(v) /\ ~\E f : Counts(f, v, k)
    BY <1>1
  <2>3. k # 0
    <3>1. Counts([i \in 0..0 |-> 0], v, 0)
      BY DEF Counts
    <3> QED BY <2>2, <3>1
  <2>4. PICK m \in Nat : k = m + 1
    BY <2>2, <2>3
  <2>5. m \notin T /\ m <= Len(v)
    BY <2>1, <2>2, <2>4, LenProperties
  <2>6. PICK f : Counts(f, v, m)
    BY <1>1, <2>5
  <2>7. PICK g : g = [i \in 0..k |-> IF i <= m THEN f[i] ELSE 2 * f[m] + v[k]]
    OBVIOUS
  <2>8. v[k] \in Nat
    BY <2>2, <2>3, ElementIsBit, LenProperties
  <2>9. f[m] \in Nat /\ \A i \in 0..m : f[i] \in Nat
    BY <2>6 DEF Counts
  <2>10. g \in [0..k -> Nat]
    BY <2>4, <2>7, <2>8, <2>9
  <2>11. ASSUME NEW i \in 1..k PROVE g[i] = 2 * g[i - 1] + v[i]
    <3>1. i \in 0..k /\ i - 1 \in 0..k /\ i - 1 <= m
      BY <2>4
    <3>2. g[i - 1] = f[i - 1]
      BY <2>7, <3>1
    <3>3. CASE i <= m
      <4>1. i \in 1..m /\ g[i] = f[i]
        BY <2>7, <3>1, <3>3
      <4> QED BY <2>6, <3>2, <4>1 DEF Counts
    <3>4. CASE ~(i <= m)
      <4>1. i = k /\ i - 1 = m
        BY <2>4, <3>4
      <4>2. g[k] = 2 * f[m] + v[k]
        BY <2>7, <3>1, <3>4, <4>1
      <4> QED BY <3>2, <4>1, <4>2
    <3> QED BY <3>3, <3>4
  <2>12. g[0] = 0
    BY <2>4, <2>6, <2>7 DEF Counts
  <2>13. Counts(g, v, k)
    BY <2>10, <2>11, <2>12 DEF Counts
  <2> QED BY <2>2, <2>13
<1> QED BY <1>1, <1>2

LEMMA NatCounts ==
  ASSUME NEW v \in Seq(Bit)
  PROVE  \E f : Counts(f, v, Len(v)) /\ ToNat(v) = f[Len(v)]
<1> DEFINE R(f) == f = [i \in 0..Len(v) |-> IF i = 0 THEN 0 ELSE 2 * f[i - 1] + v[i]]
<1>1. Len(v) \in Nat
  BY LenProperties
<1>2. PICK f : Counts(f, v, Len(v))
  BY <1>1, CountsExist
<1>3. R(f)
  <2>1. PICK g : g = [i \in 0..Len(v) |-> IF i = 0 THEN 0 ELSE 2 * f[i - 1] + v[i]]
    OBVIOUS
  <2>2. ASSUME NEW i \in 0..Len(v) PROVE f[i] = g[i]
    <3>1. CASE i = 0
      BY <1>2, <2>1, <3>1 DEF Counts
    <3>2. CASE i # 0
      <4>1. i \in 1..Len(v)
        BY <1>1, <3>2
      <4> QED BY <1>2, <2>1, <3>2, <4>1 DEF Counts
    <3> QED BY <3>1, <3>2
  <2>3. f = g
    BY <1>2, <2>1, <2>2 DEF Counts
  <2> QED BY <2>1, <2>3
<1>4. PICK h : h = (CHOOSE g : R(g)) /\ R(h)
  BY <1>3, Zenon
<1>5. ToNat(v) = h[Len(v)]
  BY <1>4, Zenon DEF ToNat
<1>6. /\ \A i \in 0..Len(v) : h[i] = IF i = 0 THEN 0 ELSE 2 * h[i - 1] + v[i]
      /\ DOMAIN h = 0..Len(v)
  BY <1>4
<1>7. PICK T : T = {k \in 0..Len(v) : h[k] # f[k]}
  OBVIOUS
<1>8. T = {}
  <2> SUFFICES ASSUME T # {} PROVE FALSE
    OBVIOUS
  <2>1. T \subseteq Nat
    BY <1>7
  <2>2. PICK k \in T : \A m \in T : k <= m
    BY <2>1, LeastOf
  <2>3. k \in 0..Len(v) /\ h[k] # f[k]
    BY <1>7
  <2>4. k # 0
    BY <1>1, <1>2, <1>6, <2>3 DEF Counts
  <2>5. k - 1 \in 0..Len(v) /\ k - 1 < k /\ k \in 1..Len(v)
    BY <1>1, <2>3, <2>4
  <2>6. k - 1 \notin T
    BY <1>1, <2>2, <2>3, <2>5
  <2>7. h[k - 1] = f[k - 1]
    BY <1>7, <2>5, <2>6
  <2>8. h[k] = 2 * h[k - 1] + v[k]
    BY <1>6, <2>3, <2>4
  <2>9. f[k] = 2 * f[k - 1] + v[k]
    BY <1>2, <2>5 DEF Counts
  <2> QED BY <2>3, <2>7, <2>8, <2>9
<1>9. ToNat(v) = f[Len(v)]
  BY <1>1, <1>5, <1>7, <1>8
<1> HIDE DEF R
<1> QED BY <1>2, <1>9

\* The bits of the number x are those of v, which has w.
HasBits(x, v, w) == x \in Int /\ \A k \in Nat : k < w => (x \div 2^k) % 2 = v[w - k]

\* Each bit of a number read from bits is the bit it was read from.
LEMMA NatBits ==
  ASSUME NEW v \in Seq(Bit), NEW w \in Nat, w = Len(v)
  PROVE  HasBits(ToNat(v), v, w) /\ ToNat(v) \in Nat
<1>1. PICK f : Counts(f, v, w) /\ ToNat(v) = f[w]
  BY NatCounts
<1>2. /\ \A i \in 0..w : f[i] \in Nat
      /\ \A i \in 1..w : f[i] = 2 * f[i - 1] + v[i]
  BY <1>1 DEF Counts
<1>3. PICK x \in Nat : x = f[w] /\ x = ToNat(v)
  BY <1>1, <1>2
<1>4. ASSUME NEW i \in 1..w PROVE f[i] \div 2 = f[i - 1] /\ f[i] % 2 = v[i]
  <2>1. PICK y \in Nat, z \in Nat : y = f[i] /\ z = f[i - 1]
    BY <1>2
  <2>2. v[i] \in Nat /\ v[i] < 2
    BY ElementIsBit
  <2>3. PICK two \in Nat, t \in Nat : two = 2 /\ two > 0 /\ t = v[i] /\ t < two
    BY <2>2
  <2>4. y = z * two + t /\ z \in Int /\ y \in Int
    BY <1>2, <2>1, <2>3
  <2>5. y \div two = z /\ y % two = t
    BY <2>3, <2>4, DivIs
  <2> QED BY <2>1, <2>3, <2>5
<1>5. PICK T : T = {k \in Nat : k <= w /\ x \div 2^k # f[w - k]}
  OBVIOUS
<1>6. T = {}
  <2> SUFFICES ASSUME T # {} PROVE FALSE
    OBVIOUS
  <2>1. PICK k \in T : \A m \in T : k <= m
    BY <1>5, LeastOf
  <2>2. k \in Nat /\ k <= w /\ x \div 2^k # f[w - k]
    BY <1>5
  <2>3. k # 0
    <3>1. x \div 1 = x
      <4>1. x = x * 1 + 0
        OBVIOUS
      <4> QED BY <4>1, DivIs
    <3>2. w - 0 = w
      OBVIOUS
    <3> QED BY <1>3, <2>2, <3>1, <3>2, PowerZero, Zenon
  <2>4. PICK m \in Nat : k = m + 1 /\ m < k /\ m <= w
    BY <2>2, <2>3
  <2>5. m \notin T
    BY <2>1, <2>2, <2>4
  <2>6. x \div 2^m = f[w - m]
    BY <1>5, <2>4, <2>5
  <2>7. PICK p \in Nat : p = 2^m /\ p > 0
    BY PowerFacts, PowerOrder
  <2>8. (x \div p) \div 2 = x \div (p * 2)
    BY <2>7, DivTwice
  <2>9. p * 2 = 2^k
    <3>1. p * 2 = 2 * p
      OBVIOUS
    <3> QED BY <2>4, <2>7, <3>1, PowerNext
  <2>10. PICK i \in 1..w : i = w - m /\ i - 1 = w - k
    <3>1. w - m \in 1..w /\ w - m - 1 = w - k
      BY <2>2, <2>4
    <3> QED BY <3>1
  <2>11. f[i] \div 2 = f[i - 1]
    BY <1>4
  <2> QED BY <2>2, <2>6, <2>7, <2>8, <2>9, <2>10, <2>11, Zenon
<1>7. ASSUME NEW k \in Nat, k < w PROVE (x \div 2^k) % 2 = v[w - k]
  <2>1. x \div 2^k = f[w - k]
    <3>1. k <= w /\ k \notin T
      BY <1>6, <1>7
    <3> QED BY <1>5, <3>1
  <2>2. w - k \in 1..w
    BY <1>7
  <2> QED BY <1>4, <2>1, <2>2
<1> QED BY <1>3, <1>7 DEF HasBits

\* The same for a number with a sign.
LEMMA IntBits ==
  ASSUME NEW v \in Seq(Bit), NEW w \in Nat, w = Len(v), w > 0
  PROVE  HasBits(ToInt(v), v, w)
<1>1. PICK x \in Nat : x = ToNat(v) /\ \A k \in Nat : k < w => (x \div 2^k) % 2 = v[w - k]
  BY NatBits DEF HasBits
<1>2. PICK p \in Nat : p = 2^w
  BY PowerFacts
<1>3. v[1] = 0 \/ v[1] = 1
  BY ElementIsBit
<1>4. ToInt(v) = x - v[1] * p
  <2>1. v # <<>>
    OBVIOUS
  <2> QED BY <1>1, <1>2, <2>1 DEF ToInt
<1>5. ToInt(v) \in {x, x - p}
  BY <1>2, <1>3, <1>4
<1>6. ASSUME NEW k \in Nat, k < w PROVE ((x - p) \div 2^k) % 2 = (x \div 2^k) % 2
  <2>1. PICK j \in Nat : w = k + j + 1
    <3>1. w - k - 1 \in Nat /\ w = k + (w - k - 1) + 1
      BY <1>6
    <3> QED BY <3>1
  <2>2. PICK q \in Nat, h \in Nat : q = 2^k /\ q > 0 /\ h = 2^j
    BY PowerFacts, PowerOrder
  <2>3. p = (2 * h) * q
    <3>1. 2^(k + (j + 1)) = 2^k * 2^(j + 1) /\ 2^(j + 1) = 2 * 2^j
      BY PowerSum, PowerNext
    <3>2. k + (j + 1) = w /\ q * (2 * h) = (2 * h) * q
      BY <2>1
    <3> QED BY <1>2, <2>2, <3>1, <3>2
  <2>4. PICK d \in Int, r \in Nat : d = x \div q /\ r < q /\ x = d * q + r
    BY <2>2, DivParts
  <2>5. x - p = (d - 2 * h) * q + r
    BY <2>3, <2>4, SMTT(30)
  <2>6. (x - p) \div q = d - 2 * h
    BY <2>2, <2>4, <2>5, DivIs
  <2>7. (d - 2 * h) % 2 = d % 2
    <3>1. PICK two \in Nat : two = 2 /\ two > 0
      OBVIOUS
    <3>2. PICK c \in Int, t \in Nat : t = d % two /\ t < two /\ d = c * two + t
      BY <3>1, DivParts
    <3>3. PICK e \in Int : e = d - 2 * h /\ e = (c - h) * two + t
      <4>1. d - 2 * h \in Int /\ d - 2 * h = (c - h) * two + t
        BY <3>1, <3>2
      <4> QED BY <4>1
    <3>4. c - h \in Int
      OBVIOUS
    <3>5. e % two = t
      BY <3>1, <3>2, <3>3, <3>4, DivIs
    <3> QED BY <3>1, <3>2, <3>3, <3>5
  <2> QED BY <2>2, <2>4, <2>6, <2>7
<1>7. ASSUME NEW k \in Nat, k < w PROVE (ToInt(v) \div 2^k) % 2 = v[w - k]
  BY <1>1, <1>5, <1>6, <1>7
<1>8. ToInt(v) \in Int
  BY <1>2, <1>5
<1> QED BY <1>7, <1>8 DEF HasBits

LEMMA LowOfNumber ==
  ASSUME NEW v \in Seq(Bit), NEW w \in Nat, w = Len(v), NEW x, HasBits(x, v, w), NEW n \in Nat, n <= w
  PROVE  ToBits(x, n) = Low(v, n)
<1>1. PICK y : y = ToBits(x, n) /\ y \in Seq(Bit) /\ Len(y) = n
  BY ToBitsFacts DEF HasBits
<1>2. \A i \in 1..n : y[i] = (x \div 2^(n - i)) % 2
  BY <1>1 DEF ToBits
<1>3. PICK z : z = Low(v, n) /\ z \in Seq(Bit) /\ Len(z) = n /\ \A i \in 1..n : z[i] = v[w - n + i]
  <2>1. /\ Low(v, n) \in Seq(Bit) /\ Len(Low(v, n)) = n
        /\ \A i \in 1..n : Low(v, n)[i] = v[w - n + i]
    BY LowAt
  <2> QED BY <2>1, Zenon
<1>4. ASSUME NEW i \in 1..n PROVE y[i] = z[i]
  <2>1. PICK k \in Nat : k = n - i /\ k < w /\ w - k = w - n + i
    OBVIOUS
  <2>2. (x \div 2^k) % 2 = v[w - k]
    BY <2>1 DEF HasBits
  <2> QED BY <1>2, <1>3, <2>1, <2>2
<1>5. y = z
  BY <1>1, <1>3, <1>4, SeqSame
<1> QED BY <1>1, <1>3, <1>5

\* The first bits are left when the others are shifted out.
LEMMA FirstOfNumber ==
  ASSUME NEW v \in Seq(Bit), NEW n \in Nat, NEW a \in Nat, NEW w \in Nat, w = n + a, Len(v) = w,
         NEW x, HasBits(x, v, w)
  PROVE  ToBits(x \div 2^a, n) = SubSeq(v, 1, n)
<1>1. PICK p \in Nat : p = 2^a /\ p > 0
  BY PowerFacts, PowerOrder
<1>2. x \in Int
  BY DEF HasBits
<1>3. PICK d \in Int : d = x \div p
  BY <1>1, <1>2, DivParts
<1>4. PICK y : y = ToBits(d, n) /\ y \in Seq(Bit) /\ Len(y) = n
  BY ToBitsFacts
<1>5. \A i \in 1..n : y[i] = (d \div 2^(n - i)) % 2
  BY <1>4 DEF ToBits
<1>6. PICK z : z = SubSeq(v, 1, n) /\ z \in Seq(Bit) /\ Len(z) = n /\ \A i \in 1..n : z[i] = v[i]
  <2>1. 0 \in Nat /\ 0 <= n /\ n <= Len(v) /\ 0 + 1 = 1 /\ n - 0 = n /\ \A i \in 1..n : 0 + i = i
    OBVIOUS
  <2>2. /\ SubSeq(v, 0 + 1, n) \in Seq(Bit) /\ Len(SubSeq(v, 0 + 1, n)) = n - 0
        /\ \A i \in 1..(n - 0) : SubSeq(v, 0 + 1, n)[i] = v[0 + i]
    BY <2>1, PartFacts
  <2> QED BY <2>1, <2>2
<1>7. ASSUME NEW i \in 1..n PROVE y[i] = z[i]
  <2>1. PICK k \in Nat : k = n - i /\ a + k < w /\ w - (a + k) = i /\ a + k \in Nat
    OBVIOUS
  <2>2. PICK q \in Nat : q = 2^k /\ q > 0
    BY PowerFacts, PowerOrder
  <2>3. d \div q = x \div (p * q)
    BY <1>1, <1>2, <1>3, <2>2, DivTwice
  <2>4. p * q = 2^(a + k)
    BY <1>1, <2>2, PowerSum
  <2>5. (x \div 2^(a + k)) % 2 = v[i]
    <3>1. \A j \in Nat : j < w => (x \div 2^j) % 2 = v[w - j]
      BY DEF HasBits
    <3> QED BY <2>1, <3>1, Zenon
  <2> QED BY <1>5, <1>6, <2>1, <2>2, <2>3, <2>4, <2>5
<1>8. y = z
  BY <1>4, <1>6, <1>7, SeqSame
<1> QED BY <1>1, <1>3, <1>4, <1>6, <1>8

\* Zeros in front do not change a number.
LEMMA WideNumber ==
  ASSUME NEW v \in Seq(Bit), NEW w \in Nat, Len(v) = w, NEW k \in Nat, NEW z, IsWide(z, v, k, w)
  PROVE  ToNat(z) = ToNat(v)
<1>1. PICK f : Counts(f, v, w) /\ ToNat(v) = f[w]
  BY NatCounts
<1>2. z \in Seq(Bit) /\ Len(z) = k + w
  BY DEF IsWide
<1>3. PICK g : Counts(g, z, k + w) /\ ToNat(z) = g[k + w]
  BY <1>2, NatCounts
<1>4. PICK h : h = [i \in 0..k + w |-> IF i <= k THEN 0 ELSE f[i - k]]
  OBVIOUS
<1>5. \A i \in 0..w : f[i] \in Nat
  BY <1>1 DEF Counts
<1>6. ASSUME NEW i \in 1..(k + w) PROVE h[i] = 2 * h[i - 1] + z[i]
  <2>1. i \in 0..k + w /\ i - 1 \in 0..k + w
    OBVIOUS
  <2>2. CASE i <= k
    <3>1. h[i] = 0 /\ h[i - 1] = 0
      BY <1>4, <2>1, <2>2
    <3>2. z[i] = 0
      BY <2>2 DEF IsWide
    <3> QED BY <3>1, <3>2
  <2>3. CASE ~(i <= k)
    <3>1. PICK j \in 1..w : i = k + j
      <4>1. i - k \in 1..w /\ i = k + (i - k)
        BY <2>3
      <4> QED BY <4>1
    <3>2. z[i] = v[j]
      BY <3>1 DEF IsWide
    <3>3. f[j] = 2 * f[j - 1] + v[j]
      BY <1>1 DEF Counts
    <3>4. h[i] = f[j]
      <4>1. ~(i <= k) /\ i - k = j
        BY <3>1
      <4> QED BY <1>4, <2>1, <4>1
    <3>5. h[i - 1] = f[j - 1]
      <4>1. CASE j = 1
        <5>1. i - 1 <= k /\ j - 1 = 0
          BY <3>1, <4>1
        <5>2. f[0] = 0
          BY <1>1 DEF Counts
        <5> QED BY <1>4, <2>1, <5>1, <5>2
      <4>2. CASE j # 1
        <5>1. ~(i - 1 <= k) /\ i - 1 - k = j - 1
          BY <3>1, <4>2
        <5> QED BY <1>4, <2>1, <5>1
      <4> QED BY <4>1, <4>2
    <3> QED BY <3>2, <3>3, <3>4, <3>5
  <2> QED BY <2>2, <2>3
<1>7. PICK T : T = {i \in 0..k + w : g[i] # h[i]}
  OBVIOUS
<1>8. T = {}
  <2> SUFFICES ASSUME T # {} PROVE FALSE
    OBVIOUS
  <2>1. T \subseteq Nat
    BY <1>7
  <2>2. PICK i \in T : \A m \in T : i <= m
    BY <2>1, LeastOf
  <2>3. i \in 0..k + w /\ g[i] # h[i]
    BY <1>7
  <2>4. i # 0
    <3>1. g[0] = 0 /\ h[0] = 0
      BY <1>3, <1>4 DEF Counts
    <3> QED BY <2>3, <3>1
  <2>5. i - 1 \in 0..k + w /\ i - 1 < i /\ i \in 1..(k + w)
    BY <2>3, <2>4
  <2>6. i - 1 \notin T
    BY <2>2, <2>3, <2>5
  <2>7. g[i - 1] = h[i - 1]
    BY <1>7, <2>5, <2>6
  <2>8. g[i] = 2 * g[i - 1] + z[i]
    BY <1>3, <2>5 DEF Counts
  <2> QED BY <1>6, <2>3, <2>5, <2>7, <2>8, Zenon
<1>9. g[k + w] = h[k + w]
  <2>1. k + w \in 0..k + w /\ k + w \notin T
    BY <1>8
  <2> QED BY <1>7, <2>1
<1>10. h[k + w] = f[w]
  <2>1. CASE w = 0
    BY <1>1, <1>4, <2>1 DEF Counts
  <2>2. CASE w # 0
    <3>1. ~(k + w <= k) /\ k + w - k = w /\ k + w \in 0..k + w
      BY <2>2
    <3> QED BY <1>4, <3>1
  <2> QED BY <2>1, <2>2
<1> QED BY <1>1, <1>3, <1>9, <1>10

-----------------------------------------------------------------------------
(* Reads *)

\* The window of s is that of the bits from..end of the bytes d.
Covers(s, d, from, end) ==
  /\ d = s.cell.data /\ d \in Seq(Bit) /\ Aligned(d)
  /\ from \in Nat /\ end \in Nat /\ from = s.range.bits_start /\ end = s.range.bits_end
  /\ from <= end /\ end <= Len(d)

\* Bit from is bit r of byte q, which starts at bit at; the w bytes have len bits.
Place(s, from, q, r, at, w, len) ==
  /\ q = from \div BYTE /\ r = from % BYTE /\ at = q * BYTE /\ len = w * BYTE /\ DataLen(s) = w
Near(d, from, end, r, at, len) ==
  /\ d \in Seq(Bit) /\ from \in Nat /\ end \in Nat /\ r \in Nat /\ at \in Nat /\ len \in Nat
  /\ from = at + r /\ r < BYTE /\ Len(d) = len /\ end <= len /\ from <= end /\ BYTE \in Nat

LEMMA PlaceOf ==
  ASSUME NEW s, NEW d, NEW from, NEW end, Covers(s, d, from, end)
  PROVE  \E q \in Nat, w \in Nat : \E r, at, len :
            Place(s, from, q, r, at, w, len) /\ Near(d, from, end, r, at, len)
<1>1. from \in Nat /\ d \in Seq(Bit) /\ d = s.cell.data /\ end \in Nat /\ end <= Len(d) /\ from <= end
  BY DEF Covers
<1>2. PICK w \in Nat : Len(d) = w * BYTE
  BY DEF Covers, Aligned
<1>3. DataLen(s) = w
  <2>1. BYTE \in Nat /\ BYTE > 0 /\ w * BYTE \in Nat
    BY SizeFacts, Product
  <2>2. (w * BYTE + 0) \div BYTE = w /\ w * BYTE + 0 = w * BYTE
    BY <2>1, DivModIs
  <2> QED BY <1>1, <1>2, <2>2 DEF DataLen, BytesLen
<1>4. /\ from \div BYTE \in Nat /\ from % BYTE \in Nat /\ from % BYTE < BYTE
      /\ (from \div BYTE) * BYTE \in Nat /\ from = (from \div BYTE) * BYTE + (from % BYTE)
  BY <1>1, DivMod
<1>5. PICK len \in Nat : len = w * BYTE /\ Len(d) = len /\ end <= len
  BY <1>1, <1>2, LenProperties
<1>6. PICK q \in Nat, r \in Nat, at \in Nat : q = from \div BYTE /\ r = from % BYTE /\ at = q * BYTE
                                           /\ r < BYTE /\ from = at + r
  BY <1>4
<1>7. Place(s, from, q, r, at, w, len)
  BY <1>3, <1>5, <1>6, Zenon DEF Place
<1>8. Near(d, from, end, r, at, len)
  BY <1>1, <1>5, <1>6, SizeFacts, Zenon DEF Near
<1> QED BY <1>7, <1>8, Zenon

\* Whole bytes that end within the array.
Ends(q, n, w, at, k, len) ==
  /\ at + k <= len <=> q + n <= w
  /\ at + k < len <=> q + n + 1 <= w
  /\ at + k < len => at + k + BYTE <= len
  /\ at < len <=> q < w
  /\ at < len => at + BYTE <= len

LEMMA BytesEnd ==
  ASSUME NEW s, NEW from, NEW q \in Nat, NEW r, NEW at \in Nat, NEW w \in Nat, NEW len \in Nat,
         Place(s, from, q, r, at, w, len), NEW n \in Nat, NEW k \in Nat, k = n * BYTE
  PROVE  Ends(q, n, w, at, k, len)
<1>1. PICK m \in Nat : m = q + n
  OBVIOUS
<1>2. at = q * BYTE /\ len = w * BYTE
  BY DEF Place
<1>3. m * BYTE = at + k
  BY <1>1, <1>2, Product
<1>4. /\ m <= w <=> m * BYTE <= w * BYTE
      /\ m < w <=> m * BYTE < w * BYTE
      /\ m < w => m * BYTE + BYTE <= w * BYTE
      /\ q < w <=> q * BYTE < w * BYTE
      /\ q < w => q * BYTE + BYTE <= w * BYTE
  BY Product
<1>5. /\ m <= w <=> at + k <= len
      /\ m < w <=> at + k < len
      /\ m < w => at + k + BYTE <= len
      /\ q < w <=> at < len
      /\ q < w => at + BYTE <= len
  BY <1>2, <1>3, <1>4, Zenon
<1>6. m < w <=> m + 1 <= w
  OBVIOUS
<1> QED BY <1>1, <1>5, <1>6, Zenon DEF Ends

\* A part of d, a part of a word, and a shifted word of w bits.
IsPart(x, d, at, k) == x \in Seq(Bit) /\ Len(x) = k /\ \A i \in 1..k : x[i] = d[at + i]
IsShr(z, y, c, w) == z \in Seq(Bit) /\ Len(z) = w /\ \A i \in 1..w : z[i] = IF i > c THEN y[i - c] ELSE 0
IsShl(z, y, c, w) == z \in Seq(Bit) /\ Len(z) = w /\ \A i \in 1..w : z[i] = IF i + c <= w THEN y[i + c] ELSE 0

LEMMA AnyBytesPart ==
  ASSUME NEW d \in Seq(Bit), NEW q \in Nat, NEW n \in Nat, NEW at \in Nat, NEW k \in Nat,
         at = q * BYTE, k = n * BYTE, at + k <= Len(d)
  PROVE  IsPart(Bytes(d, q, n), d, at, k)
<1>1. q * BYTE + n * BYTE <= Len(d)
  OBVIOUS
<1>2. /\ Bytes(d, q, n) \in Seq(Bit) /\ Len(Bytes(d, q, n)) = n * BYTE
      /\ \A i \in 1..(n * BYTE) : Bytes(d, q, n)[i] = d[q * BYTE + i]
  BY <1>1, BytesFacts
<1> QED BY <1>2, Zenon DEF IsPart

LEMMA BytesPart ==
  ASSUME NEW s, NEW from, NEW q \in Nat, NEW r, NEW at \in Nat, NEW w, NEW len, Place(s, from, q, r, at, w, len),
         NEW n \in Nat, NEW k \in Nat, k = n * BYTE, NEW d \in Seq(Bit), at + k <= Len(d)
  PROVE  IsPart(Bytes(d, q, n), d, at, k)
<1>1. at = q * BYTE
  BY DEF Place
<1> QED BY <1>1, AnyBytesPart, Zenon

LEMMA NextBytesPart ==
  ASSUME NEW s, NEW from, NEW q \in Nat, NEW r, NEW at \in Nat, NEW w, NEW len, Place(s, from, q, r, at, w, len),
         NEW n \in Nat, NEW k \in Nat, k = n * BYTE, NEW d \in Seq(Bit),
         NEW next \in Nat, next = at + BYTE, next + k <= Len(d)
  PROVE  IsPart(Bytes(d, q + 1, n), d, next, k)
<1>1. at = q * BYTE
  BY DEF Place
<1>2. next = (q + 1) * BYTE /\ q + 1 \in Nat
  BY <1>1, Product
<1> QED BY <1>2, AnyBytesPart, Zenon

LEMMA BytePart ==
  ASSUME NEW s, NEW from, NEW q \in Nat, NEW r, NEW at \in Nat, NEW w, NEW len, Place(s, from, q, r, at, w, len),
         NEW d \in Seq(Bit), at + BYTE <= Len(d)
  PROVE  IsPart(Byte(d, q), d, at, BYTE)
<1>1. BYTE = 1 * BYTE /\ BYTE \in Nat /\ 1 \in Nat
  BY SizeFacts
<1> QED BY <1>1, BytesPart, Zenon DEF Byte

LEMMA LowPart ==
  ASSUME NEW z \in Seq(Bit), NEW w \in Nat, Len(z) = w, NEW n \in Nat, NEW m \in Nat, w = m + n
  PROVE  IsPart(Low(z, n), z, m, n)
<1>1. n <= w /\ w - n = m
  OBVIOUS
<1>2. /\ Low(z, n) \in Seq(Bit) /\ Len(Low(z, n)) = n
      /\ \A i \in 1..n : Low(z, n)[i] = z[w - n + i]
  BY <1>1, LowAt
<1> QED BY <1>1, <1>2, Zenon DEF IsPart

LEMMA ShrAt ==
  ASSUME NEW y \in Seq(Bit), NEW w, Len(y) = w, NEW c \in Nat
  PROVE  IsShr(Shr(y, c), y, c, w)
<1>1. /\ Shr(y, c) \in Seq(Bit) /\ Len(Shr(y, c)) = Len(y)
      /\ \A i \in 1..Len(y) : Shr(y, c)[i] = IF i > c THEN y[i - c] ELSE 0
  BY ShrFacts
<1> QED BY <1>1, Zenon DEF IsShr

LEMMA ShlAt ==
  ASSUME NEW y \in Seq(Bit), NEW w, Len(y) = w, NEW c \in Nat
  PROVE  IsShl(Shl(y, c), y, c, w)
<1>1. /\ Shl(y, c) \in Seq(Bit) /\ Len(Shl(y, c)) = Len(y)
      /\ \A i \in 1..Len(y) : Shl(y, c)[i] = IF i + c <= Len(y) THEN y[i + c] ELSE 0
  BY ShlFacts
<1> QED BY <1>1, Zenon DEF IsShl

\* The n bits of d behind bit from are the last of the word v of w bits.
IsLow(v, d, from, n, w) ==
  v \in Seq(Bit) /\ Len(v) = w /\ n <= w /\ \A i \in 1..n : v[w - n + i] = d[from + i]

LEMMA BitRead ==
  ASSUME NEW s, NEW d, NEW from, NEW end, Covers(s, d, from, end)
  PROVE  get_bit(s, 0) = IF from < end THEN d[from + 1] ELSE Underflow
<1>1. PICK q \in Nat, w \in Nat : \E r, at, len :
         Place(s, from, q, r, at, w, len) /\ Near(d, from, end, r, at, len)
  BY PlaceOf
<1>2. PICK r, at, len : Place(s, from, q, r, at, w, len) /\ Near(d, from, end, r, at, len)
  BY <1>1
<1>3. /\ d \in Seq(Bit) /\ from \in Nat /\ end \in Nat /\ r \in Nat /\ at \in Nat /\ len \in Nat
      /\ from = at + r /\ r < BYTE /\ Len(d) = len /\ end <= len /\ BYTE \in Nat
  BY <1>2, Zenon DEF Near
<1>4. from + 0 = from
  BY <1>3
<1>5. PICK k \in Nat : k = BYTE - 1 - r
  BY <1>3
<1>6. get_bit(s, 0) = IF from < end /\ q < w
                      THEN And(Shr(Byte(d, q), k), Wide(<<1>>, BYTE))[BYTE] ELSE Underflow
  BY <1>2, <1>4, <1>5, Zenon DEF get_bit, Covers, Place
<1>7. CASE from < end
  <2>1. 0 \in Nat /\ 0 = 0 * BYTE
    BY <1>3
  <2>2. Ends(q, 0, w, at, 0, len)
    BY <1>2, <1>3, <2>1, BytesEnd, Zenon
  <2>3. q < w /\ at + BYTE <= Len(d)
    <3>1. at < len
      BY <1>3, <1>7
    <3> QED BY <1>3, <2>2, <3>1, Zenon DEF Ends
  <2>4. PICK x : x = Byte(d, q) /\ IsPart(x, d, at, BYTE)
    BY <1>2, <1>3, <2>3, BytePart, Zenon
  <2>5. x \in Seq(Bit) /\ Len(x) = BYTE /\ x[r + 1] = d[at + (r + 1)]
    <3>1. r + 1 \in 1..BYTE
      BY <1>3
    <3> QED BY <2>4, <3>1, Zenon DEF IsPart
  <2>6. PICK y : y = Shr(x, k) /\ IsShr(y, x, k, BYTE)
    BY <1>5, <2>5, ShrAt, Zenon
  <2>7. y \in Seq(Bit) /\ Len(y) = BYTE /\ y[BYTE] = x[r + 1]
    <3>1. BYTE \in 1..BYTE /\ BYTE > k /\ BYTE - k = r + 1
      BY <1>3, <1>5
    <3> QED BY <2>6, <3>1 DEF IsShr
  <2>8. PICK z : z = Wide(<<1>>, BYTE) /\ z \in Seq(Bit) /\ Len(z) = BYTE /\ z[BYTE] = 1
    <3>1. <<1>> \in Seq(Bit) /\ Len(<<1>>) = 1 /\ <<1>>[1] = 1
      BY BitFacts
    <3>2. PICK c \in Nat : c = BYTE - 1 /\ BYTE = c + 1
      BY <1>3
    <3>3. IsWide(Wide(<<1>>, BYTE), <<1>>, c, 1)
      BY <1>3, <3>1, <3>2, WideAt
    <3> QED BY <3>1, <3>2, <3>3 DEF IsWide
  <2>9. And(y, z)[BYTE] = y[BYTE]
    <3>1. \A i \in 1..BYTE : And(y, z)[i] = IF z[i] = 1 THEN y[i] ELSE 0
      BY <2>7, <2>8, AndFacts
    <3>2. BYTE \in 1..BYTE
      BY <1>3
    <3> QED BY <2>8, <3>1, <3>2
  <2>10. at + (r + 1) = from + 1
    BY <1>3
  <2> QED BY <1>6, <1>7, <2>3, <2>4, <2>5, <2>6, <2>7, <2>8, <2>9, <2>10, Zenon
<1>8. CASE ~(from < end)
  BY <1>6, <1>8, Zenon
<1> QED BY <1>7, <1>8

\* Whole bytes, read with one more and shifted.
LEMMA FixedRead ==
  ASSUME NEW s, NEW d, NEW from, NEW end, Covers(s, d, from, end), NEW n \in Nat, n > 0,
         NEW k \in Nat, k = n * BYTE
  PROVE  IF from + k <= end THEN IsPart(get_fixed(s, 0, n), d, from, k) ELSE get_fixed(s, 0, n) = Underflow
<1>1. PICK q \in Nat, w \in Nat : \E r, at, len :
         Place(s, from, q, r, at, w, len) /\ Near(d, from, end, r, at, len)
  BY PlaceOf
<1>2. PICK r, at, len : Place(s, from, q, r, at, w, len) /\ Near(d, from, end, r, at, len)
  BY <1>1
<1>3. /\ d \in Seq(Bit) /\ from \in Nat /\ end \in Nat /\ r \in Nat /\ at \in Nat /\ len \in Nat
      /\ from = at + r /\ r < BYTE /\ Len(d) = len /\ end <= len /\ BYTE \in Nat
  BY <1>2, Zenon DEF Near
<1>4. from + 0 = from
  BY <1>3
<1>5. PICK c \in Nat : c = BYTE - r
  BY <1>3
<1>6. 2 * n * BYTE = k + k /\ (n + 1) * BYTE = k + BYTE /\ k + BYTE \in Nat
  BY <1>3
<1>7. get_fixed(s, 0, n) =
        IF from + k > end THEN Underflow
        ELSE IF r = 0 /\ q + n <= w THEN Bytes(d, q, n)
        ELSE IF r # 0 /\ q + n + 1 <= w THEN Low(Shr(Wide(Bytes(d, q, n + 1), k + k), c), k)
        ELSE Underflow
  BY <1>2, <1>4, <1>5, <1>6, Zenon DEF get_fixed, Covers, Place
<1>8. CASE ~(from + k <= end)
  <2>1. from + k > end
    BY <1>3, <1>8
  <2> QED BY <1>7, <1>8, <2>1, Zenon
<1>9. Ends(q, n, w, at, k, len)
  BY <1>2, <1>3, BytesEnd, Zenon
<1>10. CASE from + k <= end /\ r = 0
  <2>1. at + k <= len /\ ~(from + k > end) /\ at = from
    BY <1>3, <1>10
  <2>2. get_fixed(s, 0, n) = Bytes(d, q, n)
    BY <1>7, <1>9, <1>10, <2>1, Zenon DEF Ends
  <2>3. IsPart(Bytes(d, q, n), d, at, k)
    BY <1>2, <1>3, <2>1, BytesPart, Zenon
  <2> QED BY <1>10, <2>1, <2>2, <2>3, Zenon
<1>11. CASE from + k <= end /\ r # 0
  <2>1. at + k < len /\ ~(from + k > end)
    BY <1>3, <1>11
  <2>2. PICK x : x = Bytes(d, q, n + 1) /\ IsPart(x, d, at, k + BYTE)
    <3>1. PICK m \in Nat, e \in Nat : m = n + 1 /\ e = k + BYTE /\ e = m * BYTE
      BY <1>6
    <3>2. at + k + BYTE <= len
      BY <1>9, <2>1, Zenon DEF Ends
    <3>3. at + e <= Len(d)
      BY <1>3, <3>1, <3>2
    <3>4. IsPart(Bytes(d, q, m), d, at, e)
      BY <1>2, <1>3, <3>1, <3>3, BytesPart, Zenon
    <3> QED BY <3>1, <3>4, Zenon
  <2>3. x \in Seq(Bit) /\ Len(x) = k + BYTE /\ \A i \in 1..(k + BYTE) : x[i] = d[at + i]
    BY <2>2, Zenon DEF IsPart
  <2>4. PICK h \in Nat : k = h + BYTE
    <3>1. BYTE <= k
      <4>1. 1 * BYTE <= n * BYTE /\ 1 * BYTE = BYTE
        BY Product, SizeFacts
      <4> QED BY <4>1
    <3> QED BY <1>3, <3>1
  <2>5. k + k = h + (k + BYTE) /\ k + k \in Nat /\ k + k = k + k
    BY <1>3, <2>4
  <2>6. PICK y : y = Wide(x, k + k) /\ IsWide(y, x, h, k + BYTE)
    BY <1>6, <2>3, <2>5, WideAt, Zenon
  <2>7. y \in Seq(Bit) /\ Len(y) = k + k /\ \A i \in 1..(k + BYTE) : y[h + i] = x[i]
    BY <2>5, <2>6, Zenon DEF IsWide
  <2>8. PICK z : z = Shr(y, c) /\ IsShr(z, y, c, k + k)
    BY <1>5, <2>7, ShrAt, Zenon
  <2>9. z \in Seq(Bit) /\ Len(z) = k + k /\ \A i \in 1..(k + k) : z[i] = IF i > c THEN y[i - c] ELSE 0
    BY <2>8, Zenon DEF IsShr
  <2>10. PICK v : v = Low(z, k) /\ IsPart(v, z, k, k)
    BY <2>5, <2>9, LowPart, Zenon
  <2>11. v \in Seq(Bit) /\ Len(v) = k /\ \A i \in 1..k : v[i] = z[k + i]
    BY <2>10, Zenon DEF IsPart
  <2>12. ASSUME NEW i \in 1..k PROVE v[i] = d[from + i]
    <3>1. /\ k + i \in 1..(k + k) /\ k + i > c
          /\ r + i \in 1..(k + BYTE) /\ k + i - c = h + (r + i) /\ at + (r + i) = from + i
      BY <1>3, <1>5, <2>4
    <3>2. v[i] = z[k + i]
      BY <2>11
    <3>3. z[k + i] = y[h + (r + i)]
      <4>1. PICK j \in 1..(k + k) : j = k + i /\ j > c /\ j - c = h + (r + i)
        BY <3>1
      <4>2. z[j] = IF j > c THEN y[j - c] ELSE 0
        BY <2>9
      <4> QED BY <4>1, <4>2, Zenon
    <3>4. y[h + (r + i)] = x[r + i]
      BY <2>7, <3>1, Zenon
    <3>5. x[r + i] = d[at + (r + i)]
      BY <2>3, <3>1, Zenon
    <3> QED BY <3>1, <3>2, <3>3, <3>4, <3>5, Zenon
  <2>13. IsPart(v, d, from, k)
    BY <2>11, <2>12 DEF IsPart
  <2>14. get_fixed(s, 0, n) = v
    BY <1>7, <1>9, <1>11, <2>1, <2>2, <2>6, <2>8, <2>10, Zenon DEF Ends
  <2> QED BY <1>11, <2>13, <2>14, Zenon
<1> QED BY <1>8, <1>10, <1>11

\* The last byte of a word, behind the first h bits, is that of d at bit at.
EndsWith(a, d, h, at) ==
  a \in Seq(Bit) /\ Len(a) = h + BYTE /\ \A o \in 1..BYTE : a[h + o] = d[at + o]

\* The last byte of one word is put over another, shifted behind it.
LEMMA Overlap ==
  ASSUME NEW d, NEW a, NEW b, NEW k \in Nat, NEW h \in Nat, k = h + BYTE,
         NEW r \in Nat, r < BYTE, NEW c \in Nat, c = BYTE - r,
         NEW at \in Nat, NEW from \in Nat, from = at + r, NEW next \in Nat, next = at + BYTE,
         EndsWith(a, d, h, at), IsPart(b, d, next, k)
  PROVE  /\ IsPart(Or(Shl(a, h + r), Shr(b, c)), d, from, k)
         /\ IsPart(Or(Shr(b, c), Shl(a, h + r)), d, from, k)
<1>0. /\ a \in Seq(Bit) /\ Len(a) = k /\ \A o \in 1..BYTE : a[h + o] = d[at + o]
      /\ b \in Seq(Bit) /\ Len(b) = k /\ \A j \in 1..k : b[j] = d[next + j]
  BY Zenon DEF EndsWith, IsPart
<1>1. BYTE \in Nat /\ h + r \in Nat
  <2>1. BYTE \in Nat
    BY SizeFacts, Zenon
  <2> QED BY <2>1
<1>2. PICK x : x = Shl(a, h + r) /\ IsShl(x, a, h + r, k)
  BY <1>0, <1>1, ShlAt, Zenon
<1>3. PICK y : y = Shr(b, c) /\ IsShr(y, b, c, k)
  BY <1>0, ShrAt, Zenon
<1>4. /\ x \in Seq(Bit) /\ Len(x) = k /\ y \in Seq(Bit) /\ Len(y) = k
      /\ \A i \in 1..k : x[i] = IF i + (h + r) <= k THEN a[i + (h + r)] ELSE 0
      /\ \A i \in 1..k : y[i] = IF i > c THEN b[i - c] ELSE 0
  BY <1>2, <1>3, Zenon DEF IsShl, IsShr
<1>5. /\ Or(x, y) \in Seq(Bit) /\ Len(Or(x, y)) = k /\ Or(y, x) \in Seq(Bit) /\ Len(Or(y, x)) = k
      /\ \A i \in 1..k : /\ x[i] = 0 => Or(x, y)[i] = y[i] /\ Or(y, x)[i] = y[i]
                         /\ y[i] = 0 => Or(x, y)[i] = x[i] /\ Or(y, x)[i] = x[i]
  BY <1>4, OrFacts
<1>6. ASSUME NEW i \in 1..k PROVE Or(x, y)[i] = d[from + i] /\ Or(y, x)[i] = d[from + i]
  <2>1. CASE i <= c
    <3>1. PICK o \in 1..BYTE : o = r + i
      BY <1>1, <2>1
    <3>2. i + (h + r) <= k /\ i + (h + r) = h + o /\ ~(i > c) /\ at + o = from + i
      BY <1>1, <2>1, <3>1
    <3>3. x[i] = a[i + (h + r)] /\ y[i] = 0
      BY <1>4, <3>2, Zenon
    <3>4. a[h + o] = d[at + o]
      BY <1>0
    <3> QED BY <1>5, <3>2, <3>3, <3>4, Zenon
  <2>2. CASE ~(i <= c)
    <3>1. PICK j \in 1..k : j = i - c
      BY <1>1, <2>2
    <3>2. ~(i + (h + r) <= k) /\ i > c /\ next + j = from + i
      BY <1>1, <2>2, <3>1
    <3>3. y[i] = b[i - c] /\ x[i] = 0
      BY <1>4, <3>2, Zenon
    <3>4. b[j] = d[next + j]
      BY <1>0
    <3> QED BY <1>5, <3>1, <3>2, <3>3, <3>4, Zenon
  <2> QED BY <2>1, <2>2
<1> QED BY <1>2, <1>3, <1>5, <1>6 DEF IsPart

\* The first byte is put over the others.
LEMMA WideRead ==
  ASSUME NEW s, NEW d, NEW from, NEW end, Covers(s, d, from, end), NEW n \in Nat, n > 0,
         NEW k \in Nat, k = n * BYTE
  PROVE  IF from + k <= end THEN IsPart(get_u128(s, 0, n), d, from, k) ELSE get_u128(s, 0, n) = Underflow
<1>1. PICK q \in Nat, w \in Nat : \E r, at, len :
         Place(s, from, q, r, at, w, len) /\ Near(d, from, end, r, at, len)
  BY PlaceOf
<1>2. PICK r, at, len : Place(s, from, q, r, at, w, len) /\ Near(d, from, end, r, at, len)
  BY <1>1
<1>3. /\ d \in Seq(Bit) /\ from \in Nat /\ end \in Nat /\ r \in Nat /\ at \in Nat /\ len \in Nat
      /\ from = at + r /\ r < BYTE /\ Len(d) = len /\ end <= len /\ BYTE \in Nat
  BY <1>2, Zenon DEF Near
<1>4. from + 0 = from
  BY <1>3
<1>5. PICK c \in Nat : c = BYTE - r
  BY <1>3
<1>6. PICK h \in Nat : h = (n - 1) * BYTE /\ k = h + BYTE
  <2>1. PICK m \in Nat : m = n - 1 /\ n = m + 1
    OBVIOUS
  <2>2. m * BYTE \in Nat /\ (m + 1) * BYTE = m * BYTE + BYTE
    BY <2>1, Product
  <2> QED BY <2>1, <2>2
<1>7. get_u128(s, 0, n) =
        IF from + k > end THEN Underflow
        ELSE IF r = 0 /\ q + n <= w THEN Bytes(d, q, n)
        ELSE IF r # 0 /\ q + n + 1 <= w
             THEN Or(Shl(Wide(Byte(d, q), k), h + r), Shr(Bytes(d, q + 1, n), c))
        ELSE Underflow
  BY <1>2, <1>4, <1>5, <1>6, Zenon DEF get_u128, Covers, Place
<1>8. CASE ~(from + k <= end)
  <2>1. from + k > end
    BY <1>3, <1>8
  <2> QED BY <1>7, <1>8, <2>1, Zenon
<1>9. Ends(q, n, w, at, k, len)
  BY <1>2, <1>3, BytesEnd, Zenon
<1>10. CASE from + k <= end /\ r = 0
  <2>1. at + k <= len /\ ~(from + k > end) /\ at = from
    BY <1>3, <1>10
  <2>2. get_u128(s, 0, n) = Bytes(d, q, n)
    BY <1>7, <1>9, <1>10, <2>1, Zenon DEF Ends
  <2>3. IsPart(Bytes(d, q, n), d, at, k)
    BY <1>2, <1>3, <2>1, BytesPart, Zenon
  <2> QED BY <1>10, <2>1, <2>2, <2>3, Zenon
<1>11. CASE from + k <= end /\ r # 0
  <2>1. at + k < len /\ ~(from + k > end)
    BY <1>3, <1>11
  <2>2. PICK next \in Nat : next = at + BYTE /\ next + k <= Len(d)
    <3>1. at + k + BYTE <= len
      BY <1>9, <2>1, Zenon DEF Ends
    <3> QED BY <1>3, <3>1
  <2>3. PICK x : x = Byte(d, q) /\ IsPart(x, d, at, BYTE)
    <3>1. at + BYTE <= Len(d)
      BY <1>3, <2>2
    <3> QED BY <1>2, <1>3, <3>1, BytePart, Zenon
  <2>4. PICK b : b = Bytes(d, q + 1, n) /\ IsPart(b, d, next, k)
    BY <1>2, <1>3, <2>2, NextBytesPart, Zenon
  <2>5. /\ x \in Seq(Bit) /\ Len(x) = BYTE /\ \A o \in 1..BYTE : x[o] = d[at + o]
        /\ b \in Seq(Bit) /\ Len(b) = k /\ \A j \in 1..k : b[j] = d[next + j]
    BY <2>3, <2>4, Zenon DEF IsPart
  <2>6. PICK a : a = Wide(x, k) /\ IsWide(a, x, h, BYTE)
    BY <1>3, <1>6, <2>5, WideAt, Zenon
  <2>7. EndsWith(a, d, h, at)
    BY <2>5, <2>6, Zenon DEF IsWide, EndsWith
  <2>8. IsPart(Or(Shl(a, h + r), Shr(b, c)), d, from, k)
    BY <1>3, <1>5, <1>6, <2>2, <2>4, <2>7, Overlap, Zenon
  <2>9. get_u128(s, 0, n) = Or(Shl(a, h + r), Shr(b, c))
    BY <1>7, <1>9, <1>11, <2>1, <2>3, <2>4, <2>6, Zenon DEF Ends
  <2> QED BY <1>11, <2>8, <2>9, Zenon
<1> QED BY <1>8, <1>10, <1>11

\* Two parts that follow each other.
LEMMA PartsJoin ==
  ASSUME NEW d, NEW x, NEW y, NEW from \in Nat, NEW k \in Nat, NEW m \in Nat, NEW mid, mid = from + k,
         IsPart(x, d, from, k), IsPart(y, d, mid, m)
  PROVE  IsPart(x \o y, d, from, k + m)
<1>1. /\ x \in Seq(Bit) /\ Len(x) = k /\ \A i \in 1..k : x[i] = d[from + i]
      /\ y \in Seq(Bit) /\ Len(y) = m /\ \A i \in 1..m : y[i] = d[mid + i]
  BY Zenon DEF IsPart
<1>2. /\ x \o y \in Seq(Bit) /\ Len(x \o y) = k + m
      /\ \A i \in 1..k : (x \o y)[i] = x[i]
      /\ \A i \in 1..m : (x \o y)[k + i] = y[i]
  BY <1>1, BitJoin
<1>3. ASSUME NEW i \in 1..(k + m) PROVE (x \o y)[i] = d[from + i]
  <2>1. CASE i <= k
    <3>1. i \in 1..k
      BY <2>1
    <3> QED BY <1>1, <1>2, <3>1
  <2>2. CASE ~(i <= k)
    <3>1. PICK j \in 1..m : i = k + j /\ mid + j = from + i
      <4>1. i - k \in 1..m /\ i = k + (i - k) /\ mid + (i - k) = from + i
        BY <2>2
      <4> QED BY <4>1
    <3>2. (x \o y)[k + j] = y[j] /\ y[j] = d[mid + j]
      BY <1>1, <1>2
    <3> QED BY <3>1, <3>2, Zenon
  <2> QED BY <2>1, <2>2
<1> QED BY <1>2, <1>3 DEF IsPart

\* Two halves, shifted one into the other.
LEMMA HalvesRead ==
  ASSUME NEW s, NEW d, NEW from, NEW end, Covers(s, d, from, end), NEW n \in Nat, n > 0,
         NEW k \in Nat, k = n * BYTE
  PROVE  IF from + (k + k) <= end THEN IsPart(get_u256(s, 0, n), d, from, k + k)
         ELSE get_u256(s, 0, n) = Underflow
<1>1. PICK q \in Nat, w \in Nat : \E r, at, len :
         Place(s, from, q, r, at, w, len) /\ Near(d, from, end, r, at, len)
  BY PlaceOf
<1>2. PICK r, at, len : Place(s, from, q, r, at, w, len) /\ Near(d, from, end, r, at, len)
  BY <1>1
<1>3. /\ d \in Seq(Bit) /\ from \in Nat /\ end \in Nat /\ r \in Nat /\ at \in Nat /\ len \in Nat
      /\ from = at + r /\ r < BYTE /\ Len(d) = len /\ end <= len /\ BYTE \in Nat
  BY <1>2, Zenon DEF Near
<1>4. from + 0 = from
  BY <1>3
<1>5. PICK c \in Nat : c = BYTE - r
  BY <1>3
<1>6. PICK h \in Nat : h = (n - 1) * BYTE /\ k = h + BYTE
  <2>1. PICK m \in Nat : m = n - 1 /\ n = m + 1
    OBVIOUS
  <2>2. m * BYTE \in Nat /\ (m + 1) * BYTE = m * BYTE + BYTE
    BY <2>1, Product
  <2> QED BY <2>1, <2>2
<1>7. PICK two \in Nat, all \in Nat : two = 2 * n /\ all = two * BYTE /\ all = k + k
  <2>1. 2 * n \in Nat /\ 2 * n * BYTE = k + k /\ k + k \in Nat
    BY <1>3
  <2> QED BY <2>1
<1>8. get_u256(s, 0, n) =
        IF from + all > end THEN Underflow
        ELSE IF r = 0 /\ q + two <= w THEN Bytes(d, q, two)
        ELSE IF r # 0 /\ q + two + 1 <= w
             THEN Or(Shr(Bytes(d, q + 1, n), c), Shl(Wide(Byte(d, q), k), h + r))
                  \o Or(Shr(Bytes(d, q + 1 + n, n), c), Shl(Bytes(d, q + 1, n), h + r))
        ELSE Underflow
  BY <1>2, <1>4, <1>5, <1>6, <1>7, Zenon DEF get_u256, Covers, Place
<1>9. CASE ~(from + all <= end)
  <2>1. from + all > end
    BY <1>3, <1>9
  <2> QED BY <1>7, <1>8, <1>9, <2>1, Zenon
<1>10. Ends(q, two, w, at, all, len)
  BY <1>2, <1>3, <1>7, BytesEnd, Zenon
<1>11. CASE from + all <= end /\ r = 0
  <2>1. at + all <= len /\ ~(from + all > end) /\ at = from
    BY <1>3, <1>11
  <2>2. get_u256(s, 0, n) = Bytes(d, q, two)
    BY <1>8, <1>10, <1>11, <2>1, Zenon DEF Ends
  <2>3. IsPart(Bytes(d, q, two), d, at, all)
    BY <1>2, <1>3, <1>7, <2>1, BytesPart, Zenon
  <2> QED BY <1>7, <1>11, <2>1, <2>2, <2>3, Zenon
<1>12. CASE from + all <= end /\ r # 0
  <2>1. at + all < len /\ ~(from + all > end)
    BY <1>3, <1>12
  <2>2. PICK next \in Nat, at2 \in Nat, next2 \in Nat, from2 \in Nat :
          /\ next = at + BYTE /\ at2 = at + k /\ next2 = at2 + BYTE /\ next2 = next + k /\ from2 = at2 + r
          /\ next + k <= Len(d) /\ next2 + k <= Len(d) /\ from2 = from + k
    <3>1. at + all + BYTE <= len
      BY <1>10, <2>1, Zenon DEF Ends
    <3>2. /\ at + BYTE \in Nat /\ at + k \in Nat /\ at + k + BYTE \in Nat /\ at + k + r \in Nat
          /\ at + BYTE + k <= Len(d) /\ at + k + BYTE + k <= Len(d) /\ at + k + r = from + k
          /\ at + k + BYTE = at + BYTE + k
      BY <1>3, <1>7, <3>1
    <3> QED BY <3>2
  <2>3. PICK x : x = Byte(d, q) /\ IsPart(x, d, at, BYTE)
    <3>1. at + BYTE <= Len(d)
      BY <1>3, <2>2
    <3> QED BY <1>2, <1>3, <3>1, BytePart, Zenon
  <2>4. PICK hi : hi = Bytes(d, q + 1, n) /\ IsPart(hi, d, next, k)
    BY <1>2, <1>3, <2>2, NextBytesPart, ZenonT(30)
  <2>5. PICK lo : lo = Bytes(d, q + 1 + n, n) /\ IsPart(lo, d, next2, k)
    <3>1. PICK m \in Nat : m = q + 1 + n
      OBVIOUS
    <3>2. next2 = m * BYTE
      <4>1. PICK p \in Nat : p = q + 1 /\ p * BYTE = q * BYTE + BYTE
        BY Product
      <4>2. (p + n) * BYTE = p * BYTE + n * BYTE
        BY Product
      <4>3. at = q * BYTE
        BY <1>2, Zenon DEF Place
      <4>4. m = p + n
        BY <3>1, <4>1
      <4>5. m * BYTE = at + BYTE + k
        BY <4>1, <4>2, <4>3, <4>4, Zenon
      <4>6. next2 = at + BYTE + k
        BY <1>3, <2>2
      <4> QED BY <4>5, <4>6, Zenon
    <3> QED BY <1>3, <2>2, <3>1, <3>2, AnyBytesPart, Zenon
  <2>6. PICK a : a = Wide(x, k) /\ IsWide(a, x, h, BYTE)
    <3>1. x \in Seq(Bit) /\ Len(x) = BYTE
      BY <2>3, Zenon DEF IsPart
    <3> QED BY <1>3, <1>6, <3>1, WideAt, Zenon
  <2>7. EndsWith(a, d, h, at)
    BY <2>3, <2>6, SMTT(30) DEF IsWide, EndsWith, IsPart
  <2>8. IsPart(Or(Shr(hi, c), Shl(a, h + r)), d, from, k)
    BY <1>3, <1>5, <1>6, <2>2, <2>4, <2>7, Overlap, Zenon
  <2>9. EndsWith(hi, d, h, at2)
    <3>1. hi \in Seq(Bit) /\ Len(hi) = h + BYTE /\ \A i \in 1..k : hi[i] = d[next + i]
      BY <1>6, <2>4, Zenon DEF IsPart
    <3>2. ASSUME NEW o \in 1..BYTE PROVE hi[h + o] = d[at2 + o]
      <4>1. h + o \in 1..k /\ next + (h + o) = at2 + o
        BY <1>3, <1>6, <2>2
      <4> QED BY <3>1, <4>1, Zenon
    <3> QED BY <3>1, <3>2 DEF EndsWith
  <2>10. IsPart(Or(Shr(lo, c), Shl(hi, h + r)), d, from2, k)
    BY <1>3, <1>5, <1>6, <2>2, <2>5, <2>9, Overlap, Zenon
  <2>11. IsPart(Or(Shr(hi, c), Shl(a, h + r)) \o Or(Shr(lo, c), Shl(hi, h + r)), d, from, k + k)
    BY <1>3, <2>2, <2>8, <2>10, PartsJoin, Zenon
  <2>12. get_u256(s, 0, n) = Or(Shr(hi, c), Shl(a, h + r)) \o Or(Shr(lo, c), Shl(hi, h + r))
    BY <1>8, <1>10, <1>12, <2>1, <2>3, <2>4, <2>5, <2>6, Zenon DEF Ends
  <2> QED BY <1>7, <1>12, <2>11, <2>12, Zenon
<1> QED BY <1>9, <1>11, <1>12

\* At most a byte: in one byte of the cell, or over two.
LEMMA SmallRead ==
  ASSUME NEW s, NEW d, NEW from, NEW end, Covers(s, d, from, end), NEW n \in Nat
  PROVE  IF n = 0 \/ (n <= BYTE /\ from + n <= end) THEN IsLow(get_small_uint(s, 0, n), d, from, n, BYTE)
         ELSE get_small_uint(s, 0, n) = Underflow
<1>1. PICK q \in Nat, w \in Nat : \E r, at, len :
         Place(s, from, q, r, at, w, len) /\ Near(d, from, end, r, at, len)
  BY PlaceOf
<1>2. PICK r, at, len : Place(s, from, q, r, at, w, len) /\ Near(d, from, end, r, at, len)
  BY <1>1
<1>3. /\ d \in Seq(Bit) /\ from \in Nat /\ end \in Nat /\ r \in Nat /\ at \in Nat /\ len \in Nat
      /\ from = at + r /\ r < BYTE /\ Len(d) = len /\ end <= len /\ BYTE \in Nat
  BY <1>2, Zenon DEF Near
<1>4. from + 0 = from
  BY <1>3
<1>5. PICK c \in Nat : c = BYTE - r /\ BYTE = c + r
  BY <1>3
<1>6. get_small_uint(s, 0, n) =
        IF n = 0 THEN Zeros(BYTE)
        ELSE IF n > BYTE \/ from + n > end \/ q >= w THEN Underflow
        ELSE IF r = 0 THEN Shr(Byte(d, q), BYTE - n)
        ELSE IF n <= c THEN And(Shr(Byte(d, q), c - n), LowMask(BYTE - n))
        ELSE IF q + 1 >= w THEN Underflow
        ELSE Shr(Low(Shr(Bytes(d, q, 2), c), BYTE), BYTE - n)
  BY <1>2, <1>4, <1>5, Zenon DEF get_small_uint, Covers, Place
<1>7. CASE n = 0
  <2>1. Zeros(BYTE) \in Seq(Bit) /\ Len(Zeros(BYTE)) = BYTE
    BY <1>3, ZerosFacts
  <2>2. 0 <= BYTE /\ \A i : i \notin 1..0
    BY <1>3
  <2>3. IsLow(Zeros(BYTE), d, from, 0, BYTE)
    BY <2>1, <2>2, Zenon DEF IsLow
  <2> QED BY <1>6, <1>7, <2>3, Zenon
<1>8. CASE n # 0 /\ ~(n <= BYTE /\ from + n <= end)
  <2>1. n > BYTE \/ from + n > end
    BY <1>3, <1>8
  <2> QED BY <1>6, <1>8, <2>1, Zenon
<1>9. CASE n # 0 /\ n <= BYTE /\ from + n <= end
  <2>1. PICK z \in Nat : z = BYTE - n /\ BYTE = z + n /\ z < BYTE
    BY <1>3, <1>9
  <2>2. Ends(q, 1, w, at, BYTE, len)
    <3>1. 1 \in Nat /\ BYTE = 1 * BYTE
      BY <1>3
    <3> QED BY <1>2, <1>3, <3>1, BytesEnd, Zenon
  <2>3. at < len /\ ~(n > BYTE) /\ ~(from + n > end)
    BY <1>3, <1>9
  <2>4. ~(q >= w) /\ at + BYTE <= Len(d)
    <3>1. q < w /\ at + BYTE <= len
      BY <2>2, <2>3, Zenon DEF Ends
    <3> QED BY <1>3, <3>1
  <2>5. PICK x : x = Byte(d, q) /\ IsPart(x, d, at, BYTE)
    BY <1>2, <1>3, <2>4, BytePart, Zenon
  <2>6. x \in Seq(Bit) /\ Len(x) = BYTE /\ \A o \in 1..BYTE : x[o] = d[at + o]
    BY <2>5, Zenon DEF IsPart
  <2>7. CASE r = 0
    <3>1. PICK v : v = Shr(x, z) /\ IsShr(v, x, z, BYTE)
      BY <2>1, <2>6, ShrAt, Zenon
    <3>2. v \in Seq(Bit) /\ Len(v) = BYTE /\ \A i \in 1..BYTE : v[i] = IF i > z THEN x[i - z] ELSE 0
      BY <3>1, Zenon DEF IsShr
    <3>3. ASSUME NEW i \in 1..n PROVE v[BYTE - n + i] = d[from + i]
      <4>1. PICK j \in 1..BYTE : j = BYTE - n + i /\ j > z /\ j - z = i /\ i \in 1..BYTE /\ at + i = from + i
        BY <1>3, <2>1, <2>7
      <4> QED BY <2>6, <3>2, <4>1, Zenon
    <3>4. IsLow(v, d, from, n, BYTE)
      BY <1>9, <3>2, <3>3 DEF IsLow
    <3>5. get_small_uint(s, 0, n) = v
      BY <1>6, <1>9, <2>1, <2>3, <2>4, <2>5, <2>7, <3>1, Zenon
    <3> QED BY <1>9, <3>4, <3>5, Zenon
  <2>8. CASE r # 0 /\ n <= c
    <3>1. PICK e \in Nat : e = c - n
      BY <2>8
    <3>2. PICK y : y = Shr(x, e) /\ IsShr(y, x, e, BYTE)
      BY <3>1, <2>6, ShrAt, Zenon
    <3>3. y \in Seq(Bit) /\ Len(y) = BYTE /\ \A i \in 1..BYTE : y[i] = IF i > e THEN x[i - e] ELSE 0
      BY <3>2, Zenon DEF IsShr
    <3>4. PICK m : m = LowMask(z) /\ m \in Seq(Bit) /\ Len(m) = BYTE
                   /\ \A i \in 1..BYTE : m[i] = IF i > z THEN 1 ELSE 0
      BY <2>1, MaskFacts
    <3>5. PICK v : v = And(y, m) /\ v \in Seq(Bit) /\ Len(v) = BYTE
                   /\ \A i \in 1..BYTE : v[i] = IF m[i] = 1 THEN y[i] ELSE 0
      <4>1. /\ And(y, m) \in Seq(Bit) /\ Len(And(y, m)) = Len(y)
            /\ \A i \in 1..Len(y) : And(y, m)[i] = IF m[i] = 1 THEN y[i] ELSE 0
        BY <3>3, <3>4, AndFacts
      <4> QED BY <3>3, <4>1, Zenon
    <3>6. ASSUME NEW i \in 1..n PROVE v[BYTE - n + i] = d[from + i]
      <4>0. PICK j, o : j = BYTE - n + i /\ o = r + i
        OBVIOUS
      <4>1. /\ j \in 1..BYTE /\ o \in 1..BYTE /\ j > z /\ j > e /\ j - e = o /\ at + o = from + i
        BY <1>3, <1>5, <2>1, <2>8, <3>1, <4>0
      <4>2. v[j] = y[j]
        BY <3>4, <3>5, <4>1, Zenon
      <4>3. y[j] = x[o]
        BY <3>3, <4>1, Zenon
      <4> QED BY <2>6, <4>0, <4>1, <4>2, <4>3, Zenon
    <3>7. IsLow(v, d, from, n, BYTE)
      BY <1>9, <3>5, <3>6 DEF IsLow
    <3>8. get_small_uint(s, 0, n) = v
      BY <1>6, <1>9, <2>1, <2>3, <2>4, <2>5, <2>8, <3>1, <3>2, <3>4, <3>5, Zenon
    <3> QED BY <1>9, <3>7, <3>8, Zenon
  <2>9. CASE r # 0 /\ ~(n <= c)
    <3>1. at + BYTE < len
      BY <1>3, <1>5, <1>9, <2>9
    <3>2. ~(q + 1 >= w) /\ at + (BYTE + BYTE) <= Len(d)
      <4>1. q + 1 + 1 <= w /\ at + BYTE + BYTE <= len
        BY <2>2, <3>1, Zenon DEF Ends
      <4> QED BY <1>3, <4>1
    <3>3. PICK y : y = Bytes(d, q, 2) /\ IsPart(y, d, at, BYTE + BYTE)
      <4>1. PICK e \in Nat : e = BYTE + BYTE /\ e = 2 * BYTE
        BY <1>3
      <4>2. 2 \in Nat
        OBVIOUS
      <4>3. IsPart(Bytes(d, q, 2), d, at, e)
        BY <1>2, <1>3, <3>2, <4>1, <4>2, BytesPart, Zenon
      <4> QED BY <4>1, <4>3, Zenon
    <3>4. y \in Seq(Bit) /\ Len(y) = BYTE + BYTE /\ \A i \in 1..(BYTE + BYTE) : y[i] = d[at + i]
      BY <3>3, Zenon DEF IsPart
    <3>5. PICK u : u = Shr(y, c) /\ IsShr(u, y, c, BYTE + BYTE)
      BY <1>5, <3>4, ShrAt, Zenon
    <3>6. /\ u \in Seq(Bit) /\ Len(u) = BYTE + BYTE
          /\ \A i \in 1..(BYTE + BYTE) : u[i] = IF i > c THEN y[i - c] ELSE 0
      BY <3>5, Zenon DEF IsShr
    <3>7. PICK l : l = Low(u, BYTE) /\ IsPart(l, u, BYTE, BYTE)
      <4>1. BYTE + BYTE \in Nat /\ BYTE + BYTE = BYTE + BYTE
        BY <1>3
      <4> QED BY <1>3, <3>6, <4>1, LowPart, Zenon
    <3>8. l \in Seq(Bit) /\ Len(l) = BYTE /\ \A i \in 1..BYTE : l[i] = u[BYTE + i]
      BY <3>7, Zenon DEF IsPart
    <3>9. PICK v : v = Shr(l, z) /\ IsShr(v, l, z, BYTE)
      BY <2>1, <3>8, ShrAt, Zenon
    <3>10. v \in Seq(Bit) /\ Len(v) = BYTE /\ \A i \in 1..BYTE : v[i] = IF i > z THEN l[i - z] ELSE 0
      BY <3>9, Zenon DEF IsShr
    <3>11. ASSUME NEW i \in 1..n PROVE v[BYTE - n + i] = d[from + i]
      <4>0. PICK j, e, o : j = BYTE - n + i /\ e = BYTE + i /\ o = r + i
        OBVIOUS
      <4>1. /\ j \in 1..BYTE /\ j > z /\ j - z = i /\ i \in 1..BYTE /\ e \in 1..(BYTE + BYTE) /\ e > c
            /\ e - c = o /\ o \in 1..(BYTE + BYTE) /\ at + o = from + i
        BY <1>3, <1>5, <2>1, <4>0
      <4>2. v[j] = l[i]
        BY <3>10, <4>1, Zenon
      <4>3. l[i] = u[e]
        BY <3>8, <4>0, <4>1, Zenon
      <4>4. u[e] = y[o]
        BY <3>6, <4>1, Zenon
      <4>5. y[o] = d[at + o]
        BY <3>4, <4>1, Zenon
      <4> QED BY <4>0, <4>1, <4>2, <4>3, <4>4, <4>5, Zenon
    <3>12. IsLow(v, d, from, n, BYTE)
      BY <1>9, <3>10, <3>11 DEF IsLow
    <3>13. get_small_uint(s, 0, n) = v
      BY <1>6, <1>9, <2>1, <2>3, <2>4, <2>9, <3>2, <3>3, <3>5, <3>7, <3>9, Zenon
    <3> QED BY <1>9, <3>12, <3>13, Zenon
  <2> QED BY <2>7, <2>8, <2>9
<1> QED BY <1>7, <1>8, <1>9

\* The word v of w bits is the number of the n bits of d behind bit from.
IsWord(v, d, from, n, w) ==
  /\ v \in Seq(Bit) /\ Len(v) = w /\ n <= w
  /\ \A i \in 1..w : v[i] = IF i <= w - n THEN 0 ELSE d[from + (i - (w - n))]

\* Behind n bits that start r bits into a byte.
LEMMA RightShift ==
  ASSUME NEW n \in Nat, NEW r \in Nat, n > 0, n + r <= BYTE
  PROVE  (BYTE - ((n + r) % BYTE)) % BYTE = BYTE - (n + r)
<1>1. BYTE \in Nat /\ BYTE > 0
  BY ByteAssumption
<1>2. PICK m \in Nat : m = n + r
  OBVIOUS
<1>3. ASSUME NEW k \in Nat, k < BYTE PROVE k % BYTE = k
  <2>1. (0 * BYTE + k) % BYTE = k /\ 0 * BYTE + k = k /\ 0 \in Nat
    BY <1>1, <1>3, DivModIs
  <2> QED BY <2>1
<1>4. BYTE % BYTE = 0
  <2>1. (1 * BYTE + 0) % BYTE = 0 /\ 1 * BYTE + 0 = BYTE
    BY <1>1, DivModIs
  <2> QED BY <2>1
<1>5. CASE m = BYTE
  <2>1. BYTE - 0 = BYTE /\ BYTE - m = 0
    BY <1>1, <1>5
  <2> QED BY <1>2, <1>4, <1>5, <2>1
<1>6. CASE m # BYTE
  <2>1. m < BYTE /\ BYTE - m \in Nat /\ BYTE - m < BYTE
    BY <1>1, <1>2, <1>6
  <2>2. m % BYTE = m /\ (BYTE - m) % BYTE = BYTE - m
    BY <1>3, <2>1
  <2> QED BY <1>2, <2>2
<1> QED BY <1>5, <1>6

\* The first byte without the bits before the window.
IsMasked(x, d, at, r) ==
  x \in Seq(Bit) /\ Len(x) = BYTE /\ \A o \in 1..BYTE : x[o] = IF o > r THEN d[at + o] ELSE 0

LEMMA FirstMasked ==
  ASSUME NEW s, NEW from, NEW q \in Nat, NEW r \in Nat, NEW at \in Nat, NEW w, NEW len, Place(s, from, q, r, at, w, len),
         NEW d \in Seq(Bit), at + BYTE <= Len(d), r < BYTE
  PROVE  IsMasked(And(Byte(d, q), LowMask(r)), d, at, r)
<1>1. PICK x : x = Byte(d, q) /\ IsPart(x, d, at, BYTE)
  BY BytePart, Zenon
<1>2. x \in Seq(Bit) /\ Len(x) = BYTE /\ \A o \in 1..BYTE : x[o] = d[at + o]
  BY <1>1, Zenon DEF IsPart
<1>3. PICK m : m = LowMask(r) /\ m \in Seq(Bit) /\ Len(m) = BYTE /\ \A i \in 1..BYTE : m[i] = IF i > r THEN 1 ELSE 0
  BY MaskFacts
<1>4. /\ And(x, m) \in Seq(Bit) /\ Len(And(x, m)) = Len(x)
      /\ \A i \in 1..Len(x) : And(x, m)[i] = IF m[i] = 1 THEN x[i] ELSE 0
  BY <1>2, <1>3, AndFacts
<1>5. ASSUME NEW o \in 1..BYTE PROVE And(x, m)[o] = IF o > r THEN d[at + o] ELSE 0
  <2>1. And(x, m)[o] = IF m[o] = 1 THEN x[o] ELSE 0
    BY <1>2, <1>4
  <2>2. m[o] = IF o > r THEN 1 ELSE 0
    BY <1>3
  <2>3. x[o] = d[at + o]
    BY <1>2
  <2> QED BY <2>1, <2>2, <2>3
<1> QED BY <1>1, <1>2, <1>3, <1>4, <1>5 DEF IsMasked

\* A number within the first byte.
LEMMA WordInByte ==
  ASSUME NEW d, NEW x, NEW at \in Nat, NEW r \in Nat, IsMasked(x, d, at, r), NEW n \in Nat, n > 0, r + n <= BYTE,
         NEW from \in Nat, from = at + r, NEW w \in Nat, BYTE <= w, BYTE \in Nat
  PROVE  IsWord(Wide(Shr(x, BYTE - (n + r)), w), d, from, n, w)
<1>1. x \in Seq(Bit) /\ Len(x) = BYTE /\ \A o \in 1..BYTE : x[o] = IF o > r THEN d[at + o] ELSE 0
  BY Zenon DEF IsMasked
<1>2. PICK c \in Nat : c = BYTE - (n + r)
  OBVIOUS
<1>3. PICK y : y = Shr(x, c) /\ IsShr(y, x, c, BYTE)
  BY <1>1, <1>2, ShrAt, Zenon
<1>4. y \in Seq(Bit) /\ Len(y) = BYTE /\ \A i \in 1..BYTE : y[i] = IF i > c THEN x[i - c] ELSE 0
  BY <1>3, Zenon DEF IsShr
<1>5. PICK k \in Nat : w = k + BYTE
  <2>1. w - BYTE \in Nat /\ w = (w - BYTE) + BYTE
    OBVIOUS
  <2> QED BY <2>1
<1>6. PICK z : z = Wide(y, w) /\ IsWide(z, y, k, BYTE)
  BY <1>4, <1>5, WideAt, Zenon
<1>7. /\ z \in Seq(Bit) /\ Len(z) = w
      /\ \A i \in 1..k : z[i] = 0
      /\ \A i \in 1..BYTE : z[k + i] = y[i]
  BY <1>5, <1>6, Zenon DEF IsWide
<1>8. ASSUME NEW i \in 1..w PROVE z[i] = IF i <= w - n THEN 0 ELSE d[from + (i - (w - n))]
  <2>1. CASE i <= k
    <3>1. i \in 1..k /\ i <= w - n
      BY <1>5, <2>1
    <3> QED BY <1>7, <3>1, Zenon
  <2>2. CASE ~(i <= k)
    <3>1. PICK o : o = i - k
      OBVIOUS
    <3>2. o \in 1..BYTE /\ i = k + o
      BY <1>5, <2>2, <3>1
    <3>3. z[i] = y[o] /\ y[o] = IF o > c THEN x[o - c] ELSE 0
      BY <1>4, <1>7, <3>2, Zenon
    <3>4. CASE ~(o > c)
      <4>1. i <= w - n
        BY <1>2, <1>5, <3>2, <3>4
      <4> QED BY <3>3, <3>4, <4>1, Zenon
    <3>5. CASE o > c
      <4>1. PICK p : p = o - c
        OBVIOUS
      <4>2. p \in 1..BYTE /\ (p > r <=> ~(i <= w - n)) /\ at + p = from + (i - (w - n))
        BY <1>2, <1>5, <3>2, <3>5, <4>1
      <4>3. x[p] = IF p > r THEN d[at + p] ELSE 0
        BY <1>1, <4>2, Zenon
      <4> QED BY <3>3, <3>5, <4>1, <4>2, <4>3, Zenon
    <3> QED BY <3>4, <3>5
  <2> QED BY <2>1, <2>2
<1>9. n <= w
  OBVIOUS
<1>10. IsWord(z, d, from, n, w)
  BY <1>7, <1>8, <1>9 DEF IsWord
<1> QED BY <1>2, <1>3, <1>6, <1>10, Zenon

\* A number over several bytes: the others are copied and shifted behind the first.
LEMMA WordOverBytes ==
  ASSUME NEW d, NEW x, NEW at \in Nat, NEW r \in Nat, r < BYTE, IsMasked(x, d, at, r),
         NEW n \in Nat, NEW left \in Nat, left > 0, n = left + (BYTE - r),
         NEW next \in Nat, next = at + BYTE, NEW e \in Nat, NEW more, IsPart(more, d, next, e), left <= e,
         NEW from \in Nat, from = at + r, NEW w \in Nat, BYTE <= w, n <= w, e <= w, BYTE \in Nat
  PROVE  IsWord(Or(Shr(more \o Zeros(w - Len(more)), w - left), Shl(Wide(x, w), left)), d, from, n, w)
<1>1. x \in Seq(Bit) /\ Len(x) = BYTE /\ \A o \in 1..BYTE : x[o] = IF o > r THEN d[at + o] ELSE 0
  BY Zenon DEF IsMasked
<1>2. more \in Seq(Bit) /\ Len(more) = e /\ \A i \in 1..e : more[i] = d[next + i]
  BY Zenon DEF IsPart
<1>3. PICK g \in Nat : g = w - e /\ w = e + g
  OBVIOUS
<1>4. PICK full : full = more \o Zeros(g) /\ full \in Seq(Bit) /\ Len(full) = w /\ \A i \in 1..e : full[i] = more[i]
  <2>1. Zeros(g) \in Seq(Bit) /\ Len(Zeros(g)) = g
    BY <1>3, ZerosFacts
  <2>2. /\ more \o Zeros(g) \in Seq(Bit) /\ Len(more \o Zeros(g)) = Len(more) + Len(Zeros(g))
        /\ \A i \in 1..Len(more) : (more \o Zeros(g))[i] = more[i]
    BY <1>2, <2>1, BitJoin
  <2> QED BY <1>2, <1>3, <2>1, <2>2, ZenonT(30)
<1>5. PICK b \in Nat : b = w - left /\ w = b + left
  OBVIOUS
<1>6. PICK y : y = Shr(full, b) /\ IsShr(y, full, b, w)
  BY <1>4, <1>5, ShrAt, Zenon
<1>7. y \in Seq(Bit) /\ Len(y) = w /\ \A i \in 1..w : y[i] = IF i > b THEN full[i - b] ELSE 0
  BY <1>6, Zenon DEF IsShr
<1>8. PICK k \in Nat : w = k + BYTE
  <2>1. w - BYTE \in Nat /\ w = (w - BYTE) + BYTE
    OBVIOUS
  <2> QED BY <2>1
<1>9. PICK z : z = Wide(x, w) /\ IsWide(z, x, k, BYTE)
  BY <1>1, <1>8, WideAt, Zenon
<1>10. /\ z \in Seq(Bit) /\ Len(z) = w
       /\ \A i \in 1..k : z[i] = 0
       /\ \A i \in 1..BYTE : z[k + i] = x[i]
  BY <1>8, <1>9, Zenon DEF IsWide
<1>11. PICK u : u = Shl(z, left) /\ IsShl(u, z, left, w)
  BY <1>10, ShlAt, Zenon
<1>12. u \in Seq(Bit) /\ Len(u) = w /\ \A i \in 1..w : u[i] = IF i + left <= w THEN z[i + left] ELSE 0
  BY <1>11, Zenon DEF IsShl
<1>13. PICK v : /\ v = Or(y, u) /\ v \in Seq(Bit) /\ Len(v) = w
                /\ \A i \in 1..w : (y[i] = 0 => v[i] = u[i]) /\ (u[i] = 0 => v[i] = y[i])
  <2>1. /\ Or(y, u) \in Seq(Bit) /\ Len(Or(y, u)) = Len(y)
        /\ \A i \in 1..Len(y) : /\ y[i] = 0 => Or(y, u)[i] = u[i]
                                /\ u[i] = 0 => Or(y, u)[i] = y[i]
    BY <1>7, <1>12, OrFacts, SMTT(30)
  <2> QED BY <1>7, <2>1, Zenon
<1>14. ASSUME NEW i \in 1..w PROVE v[i] = IF i <= w - n THEN 0 ELSE d[from + (i - (w - n))]
  <2>1. CASE i <= b
    <3>1. i + left <= w /\ ~(i > b)
      BY <1>5, <2>1
    <3>2. v[i] = z[i + left]
      BY <1>7, <1>12, <1>13, <3>1, Zenon
    <3>3. PICK j : j = i + left
      OBVIOUS
    <3>4. CASE j <= k
      <4>1. j \in 1..k /\ i <= w - n
        BY <1>8, <3>3, <3>4
      <4> QED BY <1>10, <3>2, <3>3, <4>1, Zenon
    <3>5. CASE ~(j <= k)
      <4>1. PICK o : o = j - k
        OBVIOUS
      <4>2. o \in 1..BYTE /\ j = k + o /\ (o > r <=> ~(i <= w - n)) /\ at + o = from + (i - (w - n))
        BY <1>8, <3>1, <3>3, <3>5, <4>1
      <4>3. z[j] = x[o] /\ x[o] = IF o > r THEN d[at + o] ELSE 0
        BY <1>1, <1>10, <4>2, Zenon
      <4> QED BY <3>2, <3>3, <4>2, <4>3, Zenon
    <3> QED BY <3>3, <3>4, <3>5
  <2>2. CASE ~(i <= b)
    <3>1. ~(i + left <= w) /\ i > b /\ ~(i <= w - n)
      BY <1>5, <2>2
    <3>2. v[i] = full[i - b]
      BY <1>7, <1>12, <1>13, <3>1, Zenon
    <3>3. PICK j : j = i - b
      OBVIOUS
    <3>4. j \in 1..e /\ next + j = from + (i - (w - n))
      BY <1>5, <3>1, <3>3
    <3>5. full[j] = d[next + j]
      BY <1>2, <1>4, <3>4, Zenon
    <3> QED BY <3>1, <3>2, <3>3, <3>4, <3>5, Zenon
  <2> QED BY <2>1, <2>2
<1>15. IsWord(v, d, from, n, w)
  BY <1>13, <1>14 DEF IsWord
<1> QED BY <1>2, <1>3, <1>4, <1>5, <1>6, <1>9, <1>11, <1>13, <1>15, Zenon

\* At most a word.
LEMMA WordRead ==
  ASSUME NEW s, NEW d, NEW from, NEW end, Covers(s, d, from, end), NEW n \in Nat
  PROVE  IF n = 0 \/ (n <= WORD_BITS /\ from + n <= end) THEN IsWord(get_uint(s, 0, n), d, from, n, WORD_BITS)
         ELSE get_uint(s, 0, n) = Underflow
<1>1. PICK q \in Nat, w \in Nat : \E r, at, len :
         Place(s, from, q, r, at, w, len) /\ Near(d, from, end, r, at, len)
  BY PlaceOf
<1>2. PICK r, at, len : Place(s, from, q, r, at, w, len) /\ Near(d, from, end, r, at, len)
  BY <1>1
<1>3. /\ d \in Seq(Bit) /\ from \in Nat /\ end \in Nat /\ r \in Nat /\ at \in Nat /\ len \in Nat
      /\ from = at + r /\ r < BYTE /\ Len(d) = len /\ end <= len /\ BYTE \in Nat
  BY <1>2, Zenon DEF Near
<1>4. from + 0 = from
  BY <1>3
<1>5. PICK W \in Nat : W = WORD_BITS /\ BYTE <= W
  BY SizeFacts, Zenon
<1>6. ~DataMissing(s)
  <2>1. PICK m \in Nat, f \in Nat : m = DivCeil(end, BYTE) /\ f = m * BYTE /\ f < end + BYTE
    BY <1>3, CeilFacts
  <2>2. len = w * BYTE
    BY <1>2, Zenon DEF Place
  <2>3. f < len + BYTE
    BY <1>3, <2>1
  <2>4. m * BYTE <= w * BYTE
    BY <2>1, <2>2, <2>3, WholeBytes
  <2>5. m <= w
    BY <2>4, Product
  <2>6. ~(m > w)
    BY <2>5
  <2> QED BY <1>2, <2>1, <2>6, Zenon DEF DataMissing, Covers, Place
<1>7. PICK left : left = n - (BYTE - r)
  OBVIOUS
<1>8. get_uint(s, 0, n) =
        LET more == Bytes(d, q + 1, DivCeil(left, BYTE))
            first == And(Byte(d, q), LowMask(r))
        IN IF n = 0 THEN Zeros(W)
           ELSE IF n > W \/ from + n > end THEN Underflow
           ELSE IF r + n <= BYTE THEN Wide(Shr(first, (BYTE - ((n + r) % BYTE)) % BYTE), W)
           ELSE Or(Shr(more \o Zeros(W - Len(more)), W - left), Shl(Wide(first, W), left))
  BY <1>2, <1>4, <1>5, <1>6, <1>7, Zenon DEF get_uint, Covers, Place
<1>9. CASE n = 0
  <2>1. Zeros(W) \in Seq(Bit) /\ Len(Zeros(W)) = W /\ \A i \in 1..W : Zeros(W)[i] = 0
    BY <1>5, ZerosFacts
  <2>2. 0 <= W /\ \A i \in 1..W : i <= W - 0
    BY <1>5
  <2>3. IsWord(Zeros(W), d, from, 0, W)
    BY <2>1, <2>2, Zenon DEF IsWord
  <2> QED BY <1>5, <1>8, <1>9, <2>3, Zenon
<1>10. CASE n # 0 /\ ~(n <= W /\ from + n <= end)
  <2>1. n > W \/ from + n > end
    BY <1>3, <1>5, <1>10
  <2> QED BY <1>5, <1>8, <1>10, <2>1, Zenon
<1>11. CASE n # 0 /\ n <= W /\ from + n <= end
  <2>1. at < len /\ ~(n > W) /\ ~(from + n > end)
    BY <1>3, <1>5, <1>11
  <2>2. at + BYTE <= Len(d)
    <3>1. 0 \in Nat /\ 0 = 0 * BYTE
      BY <1>3
    <3>2. Ends(q, 0, w, at, 0, len)
      BY <1>2, <1>3, <3>1, BytesEnd, Zenon
    <3> QED BY <1>3, <2>1, <3>2, Zenon DEF Ends
  <2>3. PICK x : x = And(Byte(d, q), LowMask(r)) /\ IsMasked(x, d, at, r)
    BY <1>2, <1>3, <2>2, FirstMasked, Zenon
  <2>4. CASE r + n <= BYTE
    <3>1. n > 0 /\ n + r <= BYTE
      BY <1>3, <1>11, <2>4
    <3>2. (BYTE - ((n + r) % BYTE)) % BYTE = BYTE - (n + r)
      BY <1>3, <3>1, RightShift
    <3>3. IsWord(Wide(Shr(x, BYTE - (n + r)), W), d, from, n, W)
      BY <1>3, <1>5, <2>3, <2>4, <3>1, WordInByte, Zenon
    <3>4. get_uint(s, 0, n) = Wide(Shr(x, BYTE - (n + r)), W)
      BY <1>8, <1>11, <2>1, <2>3, <2>4, <3>2, Zenon
    <3> QED BY <1>5, <1>11, <3>3, <3>4, Zenon
  <2>5. CASE ~(r + n <= BYTE)
    <3>1. left \in Nat /\ left > 0 /\ n = left + (BYTE - r)
      BY <1>3, <1>7, <2>5
    <3>2. PICK m \in Nat, e \in Nat : m = DivCeil(left, BYTE) /\ e = m * BYTE /\ left <= e /\ e < left + BYTE
      BY <3>1, CeilFacts
    <3>3. PICK next \in Nat : next = at + BYTE
      BY <1>3
    <3>4. next + e <= Len(d)
      <4>1. PICK p \in Nat, f \in Nat : p = q + 1 + m /\ f = p * BYTE /\ f = next + e
        <5>1. PICK t \in Nat : t = q + 1 /\ t * BYTE = q * BYTE + BYTE
          BY Product
        <5>2. (t + m) * BYTE = t * BYTE + m * BYTE
          BY Product
        <5>3. at = q * BYTE
          BY <1>2, Zenon DEF Place
        <5>4. (t + m) * BYTE = next + e
          BY <3>2, <3>3, <5>1, <5>2, <5>3, Zenon
        <5>5. t + m \in Nat /\ next + e \in Nat
          OBVIOUS
        <5> QED BY <5>1, <5>4, <5>5, Zenon
      <4>2. len = w * BYTE
        BY <1>2, Zenon DEF Place
      <4>3. f < len + BYTE
        <5>1. f = next + e /\ e < left + BYTE
          BY <3>2, <4>1, Zenon
        <5>2. next + left <= len
          BY <1>3, <1>11, <3>1, <3>3
        <5> QED BY <1>3, <3>1, <5>1, <5>2
      <4>4. f <= len
        BY <4>1, <4>2, <4>3, WholeBytes
      <4> QED BY <1>3, <4>1, <4>4
    <3>5. PICK more : more = Bytes(d, q + 1, m) /\ IsPart(more, d, next, e)
      BY <1>2, <1>3, <3>2, <3>3, <3>4, NextBytesPart, ZenonT(30)
    <3>6. e <= W
      <4>1. WORD \in Nat /\ W = WORD * BYTE
        BY <1>5, SizeFacts, Zenon
      <4>2. e < W + BYTE
        BY <1>3, <1>5, <1>11, <3>1, <3>2
      <4>3. m * BYTE < WORD * BYTE + BYTE
        BY <3>2, <4>1, <4>2, Zenon
      <4>4. m * BYTE <= WORD * BYTE
        BY <4>1, <4>3, WholeBytes
      <4> QED BY <3>2, <4>1, <4>4, Zenon
    <3>7. IsWord(Or(Shr(more \o Zeros(W - Len(more)), W - left), Shl(Wide(x, W), left)), d, from, n, W)
      BY <1>3, <1>5, <1>11, <2>3, <3>1, <3>2, <3>3, <3>5, <3>6, WordOverBytes, Zenon
    <3>8. get_uint(s, 0, n) = Or(Shr(more \o Zeros(W - Len(more)), W - left), Shl(Wide(x, W), left))
      BY <1>8, <1>11, <2>1, <2>3, <2>5, <3>2, <3>5, Zenon
    <3> QED BY <1>5, <1>11, <3>7, <3>8, Zenon
  <2> QED BY <2>4, <2>5
<1> QED BY <1>5, <1>9, <1>10, <1>11, Zenon

\* An error is told from bits.
LEMMA NoUnderflow ==
  /\ \A v \in Seq(Bit) : v # Underflow /\ v # None
  /\ \A x \in Int : x # Underflow /\ x # None
  /\ \A c \in RefCells : c # Underflow /\ c # None
  /\ \A t \in Slices : t # Underflow /\ t # None /\ t # NoSlice
  /\ Underflow # None
BY ResultAssumption

\* The bits at the start of as many whole bytes as hold them.
LEMMA RawLoaded ==
  ASSUME NEW s, NEW d, NEW from, NEW end, Covers(s, d, from, end), NEW n \in Nat
  PROVE  IF n = 0 \/ from + n <= end
         THEN IsRaw(get_raw(s, 0, n), d, from, n) /\ (n > 0 => Len(get_raw(s, 0, n)) = DivCeil(n, BYTE) * BYTE)
         ELSE get_raw(s, 0, n) = Underflow
<1>1. /\ d = s.cell.data /\ d \in Seq(Bit) /\ Aligned(d) /\ from \in Nat /\ end \in Nat
      /\ from = s.range.bits_start /\ end = s.range.bits_end /\ from <= end /\ end <= Len(d)
  BY Zenon DEF Covers
<1>2. CASE from + n <= end
  <2>1. IsRaw(get_raw(s, 0, n), d, from, n)
    BY <1>1, <1>2, RawRead, Zenon
  <2>2. ASSUME n > 0 PROVE Len(get_raw(s, 0, n)) = DivCeil(n, BYTE) * BYTE
    <3>1. PICK v : v = get_raw(s, 0, n) /\ v \in Seq(Bit) /\ v # Underflow
      BY <2>1, NoUnderflow, Zenon DEF IsRaw
    <3>2. PICK m \in Nat, e \in Nat : m = DivCeil(n, BYTE) /\ e = m * BYTE
      BY CeilFacts
    <3>3. n # 0
      BY <2>2
    <3>4. PICK f : v = JoinBytes(f, m)
      BY <3>1, <3>2, <3>3, Zenon DEF get_raw
    <3>5. DOMAIN v = 1..e
      BY <3>2, <3>4 DEF JoinBytes
    <3>6. DOMAIN v = 1..Len(v) /\ Len(v) \in Nat
      BY <3>1, LenProperties
    <3>7. Len(v) = e
      BY <3>5, <3>6
    <3> QED BY <3>1, <3>2, <3>7, Zenon
  <2> QED BY <1>2, <2>1, <2>2, Zenon
<1>3. CASE ~(from + n <= end)
  <2>1. n # 0 /\ from + n > end
    BY <1>1, <1>3
  <2>2. get_raw(s, 0, n) = Underflow
    BY <1>1, <2>1, Zenon DEF get_raw
  <2> QED BY <1>3, <2>1, <2>2, Zenon
<1> QED BY <1>2, <1>3

\* What load_bigint gives back has the bits that were read: of a word, whose
\* sign is cloned into the bits above, or of whole bytes.
Cloned(v, n, w) == [i \in 1..w |-> IF i <= w - n + 1 /\ v[w - n + 1] = 1 THEN 1 ELSE v[i]]

LEMMA ClonedBits ==
  ASSUME NEW d, NEW v, NEW from, NEW n \in Nat, n > 0, NEW w \in Nat, IsWord(v, d, from, n, w),
         NEW x, x = Cloned(v, n, w)
  PROVE  x \in Seq(Bit) /\ Len(x) = w /\ Low(x, n) = Low(v, n)
<1>1. v \in Seq(Bit) /\ Len(v) = w /\ n <= w
  BY Zenon DEF IsWord
<1>2. \A i \in 1..w : v[i] \in Bit
  BY <1>1, ElementIsBit
<1>3. x \in [1..w -> Bit]
  BY <1>2, BitFacts DEF Cloned
<1>4. x \in Seq(Bit) /\ Len(x) = w
  BY <1>3, SeqFcn
<1>5. PICK m \in Nat : w = m + n /\ w - n = m
  <2>1. w - n \in Nat /\ w = (w - n) + n
    BY <1>1
  <2> QED BY <2>1
<1>6. IsPart(Low(x, n), x, m, n) /\ IsPart(Low(v, n), v, m, n)
  BY <1>1, <1>4, <1>5, LowPart, Zenon
<1>7. ASSUME NEW i \in 1..n PROVE Low(x, n)[i] = Low(v, n)[i]
  <2>1. PICK j : j = m + i
    OBVIOUS
  <2>2. Low(x, n)[i] = x[j] /\ Low(v, n)[i] = v[j]
    BY <1>6, <2>1, Zenon DEF IsPart
  <2>3. j \in 1..w /\ (j <= w - n + 1 => j = w - n + 1)
    BY <1>5, <2>1
  <2>4. x[j] = IF j <= w - n + 1 /\ v[w - n + 1] = 1 THEN 1 ELSE v[j]
    BY <2>3 DEF Cloned
  <2>5. x[j] = v[j]
    BY <2>3, <2>4, Zenon
  <2> QED BY <2>2, <2>5, Zenon
<1>8. /\ Low(x, n) \in Seq(Bit) /\ Len(Low(x, n)) = n
      /\ Low(v, n) \in Seq(Bit) /\ Len(Low(v, n)) = n
  BY <1>6, Zenon DEF IsPart
<1>9. Low(x, n) = Low(v, n)
  BY <1>7, <1>8, SeqSame
<1> QED BY <1>4, <1>9

=============================================================================
