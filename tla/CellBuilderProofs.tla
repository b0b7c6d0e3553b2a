------------------------- MODULE CellBuilderProofs -------------------------
(***************************************************************************)
(* Proofs, for bytes, words and arrays of any size, that the byte-wise     *)
(* stores of a builder append the bits they were asked to and leave zeroes *)
(* behind them.                                                            *)
(***************************************************************************)
EXTENDS Cells, BitsProofs

\* The bits of the array.
Full == CAPACITY * BYTE

Builder == [data : Seq(Bit), bit_len : Nat, refs : Seq(RefCells)]

\* The array is full of zeroes behind the bits in use, and one bit is left for
\* the completion tag.
WellFormed(b) ==
  /\ b \in Builder /\ Len(b.data) = Full /\ b.bit_len < Full
  /\ \A i \in 1..Full : i > b.bit_len => b.data[i] = 0

\* Bits of whole bytes.
Aligned(v) == v \in Seq(Bit) /\ \E w \in Nat : Len(v) = w * BYTE

\* Builder c is b with the bits x behind its own, and zeroes behind those.
Appended(b, c, x) ==
  /\ c \in Builder /\ Len(c.data) = Full /\ c.bit_len < Full
  /\ c.refs = b.refs /\ c.bit_len = b.bit_len + Len(x)
  /\ \A i \in 1..Full : c.data[i] = IF i <= b.bit_len THEN b.data[i]
                                    ELSE IF i <= c.bit_len THEN x[i - b.bit_len] ELSE 0

-----------------------------------------------------------------------------
(* Sizes                                                                    *)

LEMMA SizeFacts ==
  /\ BYTE \in Nat /\ BYTE > 0 /\ CAPACITY \in Nat /\ CAPACITY > 0 /\ MAX_REF_COUNT \in Nat
  /\ WORD \in Nat /\ WORD > 0 /\ WORD_BITS \in Nat /\ WORD_BITS >= BYTE
  /\ Full \in Nat /\ Full >= BYTE /\ MAX_BIT_LEN = Full - 1 /\ WORD_BITS = WORD * BYTE
<1>1. /\ BYTE \in Nat /\ BYTE > 0 /\ CAPACITY \in Nat /\ CAPACITY > 0 /\ MAX_REF_COUNT \in Nat
      /\ WORD \in Nat /\ WORD > 0
  BY ByteAssumption, BuilderAssumption
<1>2. 0 * BYTE + BYTE <= CAPACITY * BYTE /\ 0 * BYTE + BYTE <= WORD * BYTE
  BY <1>1, Product
<1>3. 0 * BYTE = 0 /\ CAPACITY * BYTE \in Nat /\ WORD * BYTE \in Nat
  BY <1>1, Product
<1> QED BY <1>1, <1>2, <1>3 DEF Full, MAX_BIT_LEN, WORD_BITS

\* What begins before the end of whole bytes ends with them.
LEMMA WholeBytes ==
  ASSUME NEW a \in Nat, NEW m \in Nat, a * BYTE < m * BYTE + BYTE
  PROVE  a * BYTE <= m * BYTE
<1>1. m + 1 \in Nat /\ (m + 1) * BYTE = m * BYTE + BYTE
  BY Product
<1>2. a < m + 1
  BY <1>1, Product
<1>3. a <= m
  BY <1>2
<1> QED BY <1>3, Product

\* The byte of the first free bit.
LEMMA PlaceFacts ==
  ASSUME NEW b, WellFormed(b)
  PROVE  \E q \in Nat, r \in Nat, at \in Nat :
           /\ q = b.bit_len \div BYTE /\ r = b.bit_len % BYTE /\ at = q * BYTE
           /\ r < BYTE /\ b.bit_len = at + r /\ at + BYTE <= Full
<1>1. b.bit_len \in Nat /\ b.bit_len < Full
  BY DEF WellFormed, Builder
<1>2. PICK q \in Nat, r \in Nat, at \in Nat :
        /\ q = b.bit_len \div BYTE /\ r = b.bit_len % BYTE /\ at = q * BYTE
        /\ r < BYTE /\ b.bit_len = at + r
  BY <1>1, DivMod
<1>3. at + BYTE <= Full
  <2>1. at < CAPACITY * BYTE
    BY <1>1, <1>2, SizeFacts DEF Full
  <2>2. q < CAPACITY
    BY <1>2, <2>1, SizeFacts, Product
  <2> QED BY <1>2, <2>2, SizeFacts, Product DEF Full
<1> QED BY <1>2, <1>3

LEMMA AppendedIsFormed ==
  ASSUME NEW b, WellFormed(b), NEW c, NEW x \in Seq(Bit), Appended(b, c, x)
  PROVE  WellFormed(c)
<1>1. Len(x) \in Nat /\ b.bit_len \in Nat
  BY LenProperties DEF WellFormed, Builder
<1>2. \A i \in 1..Full : i > c.bit_len => c.data[i] = 0
  BY <1>1, SizeFacts DEF Appended
<1> QED BY <1>2 DEF Appended, WellFormed

\* It is enough to know the bits of the new array.
LEMMA AppendedBy ==
  ASSUME NEW b, WellFormed(b), NEW d \in Seq(Bit), Len(d) = Full,
         NEW x \in Seq(Bit), NEW m \in Nat, m = b.bit_len + Len(x), m < Full,
         \A i \in 1..Full : d[i] = IF i <= b.bit_len THEN b.data[i]
                                   ELSE IF i <= m THEN x[i - b.bit_len] ELSE 0,
         NEW c, c = [b EXCEPT !.bit_len = m, !.data = d]
  PROVE  Appended(b, c, x)
<1>1. b \in Builder
  BY DEF WellFormed
<1>2. c \in Builder /\ c.data = d /\ c.bit_len = m /\ c.refs = b.refs
  BY <1>1 DEF Builder
<1> QED BY <1>2 DEF Appended

LEMMA AppendedTwice ==
  ASSUME NEW b, WellFormed(b), NEW c, NEW e, NEW x \in Seq(Bit), NEW y \in Seq(Bit),
         Appended(b, c, x), Appended(c, e, y)
  PROVE  Appended(b, e, x \o y)
<1>1. Len(x) \in Nat /\ Len(y) \in Nat /\ b.bit_len \in Nat /\ Full \in Nat
  BY LenProperties, SizeFacts DEF WellFormed, Builder
<1>2. /\ x \o y \in Seq(Bit) /\ Len(x \o y) = Len(x) + Len(y)
      /\ \A i \in 1..Len(x) : (x \o y)[i] = x[i]
      /\ \A i \in 1..Len(y) : (x \o y)[Len(x) + i] = y[i]
  BY BitJoin
<1>3. c.bit_len = b.bit_len + Len(x) /\ e.bit_len = c.bit_len + Len(y)
  BY DEF Appended
<1>4. ASSUME NEW i \in 1..Full
      PROVE  e.data[i] = IF i <= b.bit_len THEN b.data[i]
                         ELSE IF i <= e.bit_len THEN (x \o y)[i - b.bit_len] ELSE 0
  <2>1. e.data[i] = IF i <= c.bit_len THEN c.data[i]
                    ELSE IF i <= e.bit_len THEN y[i - c.bit_len] ELSE 0
    BY DEF Appended
  <2>2. c.data[i] = IF i <= b.bit_len THEN b.data[i]
                    ELSE IF i <= c.bit_len THEN x[i - b.bit_len] ELSE 0
    BY DEF Appended
  <2>3. CASE i <= b.bit_len
    BY <1>1, <1>3, <2>1, <2>2, <2>3
  <2>4. CASE i > b.bit_len /\ i <= c.bit_len
    <3>1. i - b.bit_len \in 1..Len(x)
      BY <1>1, <1>3, <2>4
    <3> QED BY <1>1, <1>2, <1>3, <2>1, <2>2, <2>4, <3>1
  <2>5. CASE i > c.bit_len /\ i <= e.bit_len
    <3>1. PICK j \in 1..Len(y) : j = i - c.bit_len
      BY <1>1, <1>3, <2>5
    <3>2. Len(x) + j = i - b.bit_len
      BY <1>1, <1>3, <3>1
    <3>3. e.data[i] = y[j]
      BY <1>1, <1>3, <2>1, <2>5, <3>1
    <3>4. (x \o y)[Len(x) + j] = y[j]
      BY <1>2
    <3>5. ~(i <= b.bit_len) /\ i <= e.bit_len
      BY <1>1, <1>3, <2>5
    <3> QED BY <3>2, <3>3, <3>4, <3>5
  <2>6. CASE i > e.bit_len
    BY <1>1, <1>3, <2>1, <2>6
  <2> QED BY <1>1, <1>3, <2>3, <2>4, <2>5, <2>6
<1> QED BY <1>1, <1>2, <1>3, <1>4, SMTT(30) DEF Appended

\* Bits that are skipped are zero.
LEMMA Skipped ==
  ASSUME NEW b, WellFormed(b), NEW k \in Nat, b.bit_len + k < Full,
         NEW c, c = [b EXCEPT !.bit_len = @ + k]
  PROVE  Appended(b, c, Zeros(k)) /\ WellFormed(c) /\ c.data = b.data /\ (k = 0 => c = b)
<1>1. b \in Builder /\ b.bit_len \in Nat /\ b.data \in Seq(Bit) /\ Len(b.data) = Full
  BY DEF WellFormed, Builder
<1>2. c \in Builder /\ c.data = b.data /\ c.bit_len = b.bit_len + k /\ c.refs = b.refs
  BY <1>1, SMTT(30) DEF Builder
<1>3. Zeros(k) \in Seq(Bit) /\ Len(Zeros(k)) = k /\ \A i \in 1..k : Zeros(k)[i] = 0
  BY ZerosFacts
<1>4. ASSUME NEW i \in 1..Full
      PROVE  c.data[i] = IF i <= b.bit_len THEN b.data[i]
                         ELSE IF i <= c.bit_len THEN Zeros(k)[i - b.bit_len] ELSE 0
  <2>1. i > b.bit_len => c.data[i] = 0
    BY <1>2 DEF WellFormed
  <2>2. i > b.bit_len /\ i <= c.bit_len => i - b.bit_len \in 1..k
    BY <1>1, <1>2
  <2> QED BY <1>1, <1>2, <1>3, <2>1, <2>2
<1>5. Appended(b, c, Zeros(k))
  BY <1>1, <1>2, <1>3, <1>4 DEF Appended
<1>6. k = 0 => c = b
  BY <1>1, <1>2 DEF Builder
<1> QED BY <1>2, <1>3, <1>5, <1>6, AppendedIsFormed

\* The bytes that hold the first n bits of whole bytes.
LEMMA AlignedCeil ==
  ASSUME NEW v, Aligned(v), NEW n \in Nat, n <= Len(v)
  PROVE  DivCeil(n, BYTE) * BYTE <= Len(v)
<1>1. PICK w \in Nat : Len(v) = w * BYTE
  BY DEF Aligned
<1>2. DivCeil(n, BYTE) \in Nat /\ DivCeil(n, BYTE) * BYTE < n + BYTE /\ w * BYTE \in Nat
  BY CeilFacts, Product
<1>3. DivCeil(n, BYTE) * BYTE < w * BYTE + BYTE
  <2>1. \A x, y, z, u \in Nat : x < y + u /\ y <= z => x < z + u
    OBVIOUS
  <2> QED BY <1>1, <1>2, <2>1, CeilFacts, SizeFacts
<1> QED BY <1>1, <1>2, <1>3, WholeBytes

\* Bytes from byte q on that begin before the end of the array end with it.
LEMMA FitsArray ==
  ASSUME NEW q \in Nat, NEW m \in Nat, q * BYTE + m * BYTE < Full + BYTE
  PROVE  q * BYTE + m * BYTE <= Full
<1>1. q + m \in Nat /\ (q + m) * BYTE = q * BYTE + m * BYTE
  BY Product
<1> QED BY <1>1, SizeFacts, WholeBytes DEF Full

-----------------------------------------------------------------------------
(* Stores of words                                                          *)

\* The value is appended whose first n bits are significant and whose others are
\* zero.
LEMMA SpliceFacts ==
  ASSUME NEW b, WellFormed(b), NEW v \in Seq(Bit), Aligned(v),
         NEW n \in Nat, n > 0, n <= Len(v), b.bit_len + n < Full,
         \A i \in 1..Len(v) : i > n => v[i] = 0,
         NEW x \in Seq(Bit), Len(x) = n, \A i \in 1..n : x[i] = v[i]
  PROVE  Appended(b, Splice(b, v, n), x)
<1>0. PICK q \in Nat, r \in Nat, at \in Nat :
        /\ q = b.bit_len \div BYTE /\ r = b.bit_len % BYTE /\ at = q * BYTE
        /\ r < BYTE /\ b.bit_len = at + r /\ at + BYTE <= Full
  BY PlaceFacts
<1>a. q = b.bit_len \div BYTE /\ r = b.bit_len % BYTE
  BY <1>0
<1>b. at = q * BYTE
  BY <1>0
<1>1. r < BYTE /\ b.bit_len = at + r /\ at + BYTE <= Full
  BY <1>0
<1>2. b \in Builder /\ b.data \in Seq(Bit) /\ Len(b.data) = Full /\ b.bit_len \in Nat
  BY DEF WellFormed, Builder
<1>3. BYTE \in Nat /\ BYTE > 0 /\ Full \in Nat /\ Len(v) \in Nat /\ Len(v) >= BYTE
  <2>1. Len(v) \in Nat /\ Len(v) > 0
    BY LenProperties
  <2>2. PICK w \in Nat : Len(v) = w * BYTE
    BY DEF Aligned
  <2>3. 0 * BYTE = 0 /\ 0 < w
    BY <2>1, <2>2, SizeFacts
  <2> QED BY <2>1, <2>2, <2>3, SizeFacts, Product
<1>4. \A i \in 1..Full : i > at + r => b.data[i] = 0
  BY <1>1 DEF WellFormed
<1> DEFINE shift == BYTE - r
           left == n - shift
           full == Put(b.data, q, Bytes(v, 0, DivCeil(n, BYTE)))
           head == Put(b.data, q, Or(Byte(b.data, q), Shr(Byte(v, 0), r)))
           tail == Put(head, q + 1, Bytes(Shl(v, shift), 0, DivCeil(left, BYTE)))
           data == IF r = 0 THEN full ELSE IF left > 0 THEN tail ELSE head
<1>5. Splice(b, v, n) = [b EXCEPT !.bit_len = b.bit_len + n, !.data = data]
  BY <1>a DEF Splice
<1> SUFFICES ASSUME TRUE
             PROVE  /\ data \in Seq(Bit) /\ Len(data) = Full
                    /\ \A i \in 1..Full : data[i] = IF i <= at + r THEN b.data[i]
                                                    ELSE IF i <= at + r + n THEN v[i - (at + r)] ELSE 0
  <2> HIDE DEF data
  <2>1. ASSUME /\ data \in Seq(Bit) /\ Len(data) = Full
               /\ \A i \in 1..Full : data[i] = IF i <= at + r THEN b.data[i]
                                               ELSE IF i <= at + r + n THEN v[i - (at + r)] ELSE 0
        PROVE  Appended(b, Splice(b, v, n), x)
    <3>1. PICK m \in Nat : m = at + r + n
      OBVIOUS
    <3>2. PICK d \in Seq(Bit) : d = data
      BY <2>1
    <3>3. Splice(b, v, n) = [b EXCEPT !.bit_len = m, !.data = d]
      BY <1>1, <1>5, <3>1, <3>2
    <3>4. ASSUME NEW i \in 1..Full
          PROVE  d[i] = IF i <= b.bit_len THEN b.data[i]
                        ELSE IF i <= m THEN x[i - b.bit_len] ELSE 0
      <4>1. i > at + r /\ i <= m => i - (at + r) \in 1..n
        BY <1>1, <1>3, <3>1
      <4> QED BY <1>1, <2>1, <3>1, <3>2, <4>1
    <3>5. Len(d) = Full /\ m = b.bit_len + Len(x) /\ m < Full
      BY <1>1, <2>1, <3>1, <3>2
    <3> HIDE DEF data
    <3> QED BY <3>3, <3>4, <3>5, AppendedBy
  <2> QED BY <2>1
<1>6. CASE r = 0
  <2>1. PICK m \in Nat, k \in Nat : m = DivCeil(n, BYTE) /\ k = m * BYTE /\ n <= k /\ k < n + BYTE
    BY CeilFacts
  <2>2. k <= Len(v)
    BY <2>1, AlignedCeil
  <2>3. at + k <= Full
    <3>1. n <= k /\ k < n + BYTE
      BY <2>1
    <3>2. at + k < Full + BYTE
      BY <1>1, <1>3, <1>6, <3>1
    <3>3. q * BYTE + m * BYTE < Full + BYTE
      BY <1>b, <2>1, <3>2
    <3> QED BY <1>b, <2>1, <3>3, FitsArray
  <2>4. PICK y : y = Bytes(v, 0, m)
    OBVIOUS
  <2>5. y \in Seq(Bit) /\ Len(y) = k /\ \A i \in 1..k : y[i] = v[i]
    <3>1. 0 \in Nat /\ 0 * BYTE = 0
      BY SizeFacts
    <3>2. /\ Bytes(v, 0, m) \in Seq(Bit) /\ Len(Bytes(v, 0, m)) = m * BYTE
          /\ \A i \in 1..(m * BYTE) : Bytes(v, 0, m)[i] = v[0 * BYTE + i]
      BY <1>3, <2>1, <2>2, <3>1, BytesFacts
    <3> QED BY <2>1, <2>4, <3>1, <3>2
  <2>6. /\ data \in Seq(Bit) /\ Len(data) = Full
        /\ \A i \in 1..Full : data[i] = IF at < i /\ i <= at + k THEN y[i - at] ELSE b.data[i]
    <3>1. data = Put(b.data, q, y)
      BY <1>6, <2>1, <2>4
    <3> HIDE DEF data
    <3>2. IsPut(Put(b.data, q, y), b.data, at, y, k, Full)
      BY <1>b, <1>2, <2>3, <2>5, PutAt, Zenon
    <3> QED BY <3>1, <3>2 DEF IsPut
  <2> HIDE DEF data
  <2>7. ASSUME NEW i \in 1..Full
        PROVE  data[i] = IF i <= at + r THEN b.data[i]
                         ELSE IF i <= at + r + n THEN v[i - (at + r)] ELSE 0
    <3>1. CASE at < i /\ i <= at + k
      <4>1. i - at \in 1..k /\ i - at \in 1..Len(v)
        BY <1>3, <2>2, <3>1
      <4>2. data[i] = v[i - at]
        BY <2>5, <2>6, <3>1, <4>1
      <4>3. i > at + n => v[i - at] = 0
        BY <1>3, <4>1
      <4> QED BY <1>3, <1>6, <3>1, <4>2, <4>3
    <3>2. CASE i <= at
      BY <1>6, <2>6, <3>2
    <3>3. CASE at + k < i
      BY <1>3, <1>4, <1>6, <2>1, <2>6, <3>3, SMTT(30)
    <3> QED BY <2>1, <3>1, <3>2, <3>3
  <2> QED BY <2>6, <2>7
<1>7. CASE r # 0
  <2>0. shift \in Nat /\ shift > 0 /\ shift < BYTE /\ r > 0
    BY <1>1, <1>3, <1>7
  <2>1. PICK y : y = Or(Byte(b.data, q), Shr(Byte(v, 0), r))
    OBVIOUS
  <2>2. /\ y \in Seq(Bit) /\ Len(y) = BYTE
        /\ \A i \in 1..BYTE : y[i] = IF i <= r THEN b.data[at + i] ELSE v[i - r]
    <3>1. /\ Byte(b.data, q) \in Seq(Bit) /\ Len(Byte(b.data, q)) = BYTE
          /\ \A i \in 1..BYTE : Byte(b.data, q)[i] = b.data[at + i]
      BY <1>b, <1>1, <1>2, ByteFacts
    <3>2. /\ Byte(v, 0) \in Seq(Bit) /\ Len(Byte(v, 0)) = BYTE
          /\ \A i \in 1..BYTE : Byte(v, 0)[i] = v[i]
      <4>1. 0 \in Nat /\ 0 * BYTE = 0
        BY SizeFacts
      <4> QED BY <1>3, <4>1, ByteFacts
    <3>3. PICK s : s = Shr(Byte(v, 0), r)
      OBVIOUS
    <3>4. /\ s \in Seq(Bit) /\ Len(s) = BYTE
          /\ \A i \in 1..BYTE : s[i] = IF i > r THEN Byte(v, 0)[i - r] ELSE 0
      BY <3>2, <3>3, ShrFacts
    <3>5. /\ y \in Seq(Bit) /\ Len(y) = BYTE
          /\ \A i \in 1..BYTE : /\ Byte(b.data, q)[i] = 0 => y[i] = s[i]
                                /\ s[i] = 0 => y[i] = Byte(b.data, q)[i]
      BY <2>1, <3>1, <3>3, <3>4, OrFacts
    <3>6. ASSUME NEW i \in 1..BYTE PROVE y[i] = IF i <= r THEN b.data[at + i] ELSE v[i - r]
      <4>1. CASE i <= r
        <5>1. s[i] = 0 /\ Byte(b.data, q)[i] = b.data[at + i]
          BY <3>1, <3>4, <4>1
        <5> QED BY <3>5, <4>1, <5>1
      <4>2. CASE i > r
        <5>1. b.data[at + i] = 0
          <6>1. at + i \in 1..Full /\ at + i > at + r
            BY <1>1, <1>3, <4>2
          <6> QED BY <1>4, <6>1
        <5>2. i - r \in 1..BYTE
          BY <1>1, <1>3, <4>2
        <5> QED BY <3>1, <3>2, <3>4, <3>5, <4>2, <5>1, <5>2, SMTT(30)
      <4> QED BY <1>1, <1>3, <4>1, <4>2
    <3> QED BY <3>5, <3>6
  <2>3. /\ head \in Seq(Bit) /\ Len(head) = Full
        /\ \A i \in 1..Full : head[i] = IF at < i /\ i <= at + BYTE THEN y[i - at] ELSE b.data[i]
    <3>1. head = Put(b.data, q, y)
      BY <2>1
    <3> HIDE DEF head
    <3>2. IsPut(Put(b.data, q, y), b.data, at, y, BYTE, Full)
      BY <1>b, <1>1, <1>2, <2>2, PutAt, Zenon
    <3> QED BY <3>1, <3>2 DEF IsPut
  <2> HIDE DEF head
  \* The bits of the first byte and those before it.
  <2>4. ASSUME NEW i \in 1..Full, i <= at + BYTE
        PROVE  head[i] = IF i <= at + r THEN b.data[i] ELSE v[i - (at + r)]
    <3>1. CASE i <= at
      BY <1>1, <1>3, <2>3, <3>1
    <3>2. CASE i > at
      <4>1. i - at \in 1..BYTE /\ at + (i - at) = i /\ (i - at) - r = i - (at + r)
        BY <1>1, <1>3, <2>4, <3>2
      <4> QED BY <1>1, <1>3, <2>2, <2>3, <2>4, <3>2, <4>1
    <3> QED BY <1>3, <3>1, <3>2
  <2>5. CASE ~(left > 0)
    <3>1. data = head
      BY <1>7, <2>5
    <3>2. at + r + n <= at + BYTE
      BY <1>1, <1>3, <2>5
    <3>3. ASSUME NEW i \in 1..Full
          PROVE  head[i] = IF i <= at + r THEN b.data[i]
                           ELSE IF i <= at + r + n THEN v[i - (at + r)] ELSE 0
      <4>1. CASE i <= at + r + n
        BY <1>3, <2>4, <3>2, <4>1
      <4>2. CASE i > at + r + n /\ i <= at + BYTE
        <5>1. i - (at + r) \in 1..Len(v) /\ i - (at + r) > n
          BY <1>1, <1>3, <4>2
        <5> QED BY <1>3, <2>4, <4>2, <5>1
      <4>3. CASE i > at + BYTE
        <5>1. head[i] = 0
          BY <1>1, <1>3, <1>4, <2>3, <4>3
        <5>2. ~(i <= at + r) /\ ~(i <= at + r + n)
          BY <1>1, <1>3, <3>2, <4>3
        <5> QED BY <5>1, <5>2
      <4> QED BY <1>3, <3>2, <4>1, <4>2, <4>3
    <3> QED BY <2>3, <3>1, <3>3
  <2>6. CASE left > 0
    <3>0. left \in Nat /\ left + shift = n /\ at + BYTE + left = at + r + n
      BY <1>1, <1>3, <2>0, <2>6
    <3>1. PICK m \in Nat, k \in Nat :
            m = DivCeil(left, BYTE) /\ k = m * BYTE /\ left <= k /\ k < left + BYTE
      BY <3>0, CeilFacts
    <3> HIDE DEF left, shift
    <3>2. k <= Len(v)
      <4>1. left <= Len(v)
        BY <1>3, <2>0, <3>0
      <4> QED BY <3>0, <3>1, <4>1, AlignedCeil
    <3>3. at + BYTE + k <= Full /\ q + 1 \in Nat /\ (q + 1) * BYTE = at + BYTE
      <4>1. q + 1 \in Nat /\ (q + 1) * BYTE = at + BYTE
        BY <1>b, Product
      <4>2. left <= k /\ k < left + BYTE
        BY <3>1
      <4>3. at + BYTE + k < Full + BYTE
        BY <1>1, <1>2, <1>3, <3>0, <4>2
      <4>4. (q + 1) * BYTE + m * BYTE < Full + BYTE
        BY <3>1, <4>1, <4>3
      <4> QED BY <3>1, <4>1, <4>4, FitsArray
    <3>4. PICK s : s = Shl(v, shift)
      OBVIOUS
    <3>5. /\ s \in Seq(Bit) /\ Len(s) = Len(v)
          /\ \A i \in 1..Len(v) : s[i] = IF i + shift <= Len(v) THEN v[i + shift] ELSE 0
      BY <2>0, <3>4, ShlFacts
    <3>6. PICK z : z = Bytes(s, 0, m)
      OBVIOUS
    <3>7. z \in Seq(Bit) /\ Len(z) = k /\ \A i \in 1..k : z[i] = s[i]
      <4>1. 0 \in Nat /\ 0 * BYTE = 0
        BY SizeFacts
      <4>2. /\ Bytes(s, 0, m) \in Seq(Bit) /\ Len(Bytes(s, 0, m)) = m * BYTE
            /\ \A i \in 1..(m * BYTE) : Bytes(s, 0, m)[i] = s[0 * BYTE + i]
        BY <1>3, <3>1, <3>2, <3>5, <4>1, BytesFacts
      <4> QED BY <3>1, <3>6, <4>1, <4>2
    <3>8. /\ data \in Seq(Bit) /\ Len(data) = Full
          /\ \A i \in 1..Full : data[i] =
               IF at + BYTE < i /\ i <= at + BYTE + k THEN z[i - (at + BYTE)] ELSE head[i]
      <4>1. data = Put(head, q + 1, z)
        BY <1>7, <2>6, <3>1, <3>4, <3>6
      <4> HIDE DEF data
      <4>2. at + BYTE = (q + 1) * BYTE
        BY <3>3
      <4>3. IsPut(Put(head, q + 1, z), head, at + BYTE, z, k, Full)
        BY <2>3, <3>3, <3>7, <4>2, PutAt, Zenon
      <4> QED BY <4>1, <4>3 DEF IsPut
    <3> HIDE DEF data
    <3>9. ASSUME NEW i \in 1..Full
          PROVE  data[i] = IF i <= at + r THEN b.data[i]
                           ELSE IF i <= at + r + n THEN v[i - (at + r)] ELSE 0
      <4>1. CASE i <= at + BYTE
        <5>1. i <= at + r + n
          BY <1>3, <3>0, <4>1
        <5>2. data[i] = head[i]
          BY <1>3, <3>8, <4>1
        <5> QED BY <2>4, <4>1, <5>1, <5>2
      <4>2. CASE i > at + BYTE /\ i <= at + BYTE + k
        <5>1. PICK j \in 1..k : j = i - (at + BYTE)
          BY <1>3, <4>2
        <5>2. j \in 1..Len(v) /\ data[i] = s[j] /\ ~(i <= at + r)
          BY <1>1, <1>3, <3>2, <3>7, <3>8, <4>2, <5>1
        <5>3. j + shift = i - (at + r)
          BY <1>1, <1>3, <5>1 DEF shift
        <5>4. CASE j + shift <= Len(v)
          <6>1. data[i] = v[i - (at + r)] /\ i - (at + r) \in 1..Len(v)
            <7>1. s[j] = v[j + shift] /\ j + shift \in 1..Len(v)
              BY <1>3, <2>0, <3>5, <5>2, <5>4
            <7> QED BY <5>2, <5>3, <7>1
          <6>2. i > at + r + n => v[i - (at + r)] = 0
            BY <1>1, <1>3, <6>1
          <6> QED BY <5>2, <6>1, <6>2
        <5>5. CASE j + shift > Len(v)
          <6>1. data[i] = 0
            BY <1>3, <2>0, <3>5, <5>2, <5>5
          <6>2. i > at + r + n
            BY <1>1, <1>3, <5>3, <5>5
          <6> QED BY <1>1, <1>3, <5>2, <6>1, <6>2
        <5> QED BY <1>3, <2>0, <5>4, <5>5
      <4>3. CASE i > at + BYTE + k
        <5>1. ~(i <= at + r) /\ ~(i <= at + r + n) /\ i > at + r
          BY <1>1, <1>3, <3>0, <3>1, <4>3, SMTT(30)
        <5>2. data[i] = head[i] /\ head[i] = b.data[i]
          BY <1>1, <1>3, <2>3, <3>8, <4>3
        <5> QED BY <1>4, <5>1, <5>2
      <4> QED BY <1>3, <3>1, <4>1, <4>2, <4>3
    <3> QED BY <3>8, <3>9
  <2> QED BY <2>5, <2>6
<1> QED BY <1>6, <1>7

\* What a store does: the bits are appended if there is room for them, and else
\* nothing is.
Stored(b, r, x) ==
  \/ b.bit_len + Len(x) < Full /\ r.ok = TRUE /\ Appended(b, r.b, x)
  \/ ~(b.bit_len + Len(x) < Full) /\ r.ok = FALSE /\ r.b = b

\* The test of the capacity.
LEMMA CapacityFacts ==
  ASSUME NEW b, WellFormed(b), NEW n \in Nat
  PROVE  has_capacity_bits(b, n) <=> b.bit_len + n < Full
<1>1. b.bit_len \in Nat
  BY DEF WellFormed, Builder
<1> QED BY <1>1, SizeFacts DEF has_capacity_bits

LEMMA FixedStored ==
  ASSUME NEW b, WellFormed(b), NEW v \in Seq(Bit), Aligned(v), Len(v) > 0
  PROVE  Stored(b, store_fixed(b, v), v)
<1>1. Len(v) \in Nat
  BY LenProperties
<1>2. ASSUME b.bit_len + Len(v) < Full PROVE Appended(b, Splice(b, v, Len(v)), v)
  BY <1>1, <1>2, SpliceFacts
<1> QED BY <1>1, <1>2, CapacityFacts DEF Stored, store_fixed, Done, Refused

LEMMA WordStored ==
  ASSUME NEW b, WellFormed(b), NEW v \in Seq(Bit), Aligned(v), Len(v) > 0, NEW bits \in Nat
  PROVE  Stored(b, store_word(b, v, bits), NumberBits(v, bits)) /\ NumberBits(v, bits) \in Seq(Bit)
<1>1. Len(v) \in Nat /\ b.bit_len \in Nat /\ b.bit_len < Full /\ Full \in Nat
  BY LenProperties, SizeFacts DEF WellFormed, Builder
<1>2. NumberBits(v, bits) \in Seq(Bit) /\ Len(NumberBits(v, bits)) = bits
  BY <1>1, LowFacts, WideFacts, SMTT(30) DEF NumberBits
<1>3. CASE bits = 0
  <2>1. b = [b EXCEPT !.bit_len = @ + 0]
    BY <1>1 DEF WellFormed, Builder
  <2>2. Appended(b, b, Zeros(0))
    BY <1>1, <2>1, Skipped
  <2>3. Appended(b, b, NumberBits(v, bits))
    <3>1. Len(Zeros(0)) = 0
      BY ZerosFacts
    <3> QED BY <1>1, <1>2, <1>3, <2>2, <3>1 DEF Appended
  <2> QED BY <1>1, <1>2, <1>3, <2>3 DEF Stored, store_word, Done
<1>4. CASE bits # 0 /\ ~(b.bit_len + bits < Full)
  BY <1>2, <1>4, CapacityFacts DEF Stored, store_word, Refused
<1>5. CASE bits # 0 /\ b.bit_len + bits < Full
  <2>1. PICK n \in Nat : n = Least(bits, Len(v))
    BY <1>1 DEF Least
  <2>2. n > 0 /\ n <= Len(v) /\ n <= bits /\ (n = bits \/ n = Len(v))
    BY <1>1, <1>5, <2>1 DEF Least
  <2>3. PICK at : at = [b EXCEPT !.bit_len = @ + (bits - n)]
    OBVIOUS
  <2>4. bits - n \in Nat /\ b.bit_len + (bits - n) < Full
    BY <1>1, <1>5, <2>2
  <2>5. /\ Appended(b, at, Zeros(bits - n)) /\ WellFormed(at) /\ (bits - n = 0 => at = b)
        /\ at.bit_len = b.bit_len + (bits - n)
    <3>1. Appended(b, at, Zeros(bits - n)) /\ WellFormed(at) /\ (bits - n = 0 => at = b)
      BY <2>3, <2>4, Skipped
    <3>2. Len(Zeros(bits - n)) = bits - n
      BY <2>4, ZerosFacts
    <3> QED BY <3>1, <3>2 DEF Appended
  <2>6. PICK y : y = Shl(v, Len(v) - n)
    OBVIOUS
  <2>7. /\ y \in Seq(Bit) /\ Len(y) = Len(v) /\ Aligned(y)
        /\ \A i \in 1..Len(v) : y[i] = IF i <= n THEN v[Len(v) - n + i] ELSE 0
    <3>1. Len(v) - n \in Nat
      BY <1>1, <2>2
    <3>2. /\ y \in Seq(Bit) /\ Len(y) = Len(v)
          /\ \A i \in 1..Len(v) : y[i] = IF i + (Len(v) - n) <= Len(v) THEN v[i + (Len(v) - n)] ELSE 0
      BY <2>6, <3>1, ShlFacts
    <3>3. \A i \in 1..Len(v) : /\ i + (Len(v) - n) <= Len(v) <=> i <= n
                               /\ i + (Len(v) - n) = Len(v) - n + i
      BY <1>1, <2>2
    <3> QED BY <3>2, <3>3 DEF Aligned
  <2>8. PICK x : x = Low(v, n)
    OBVIOUS
  <2>9. x \in Seq(Bit) /\ Len(x) = n /\ \A i \in 1..n : x[i] = v[Len(v) - n + i]
    BY <2>2, <2>8, LowFacts
  <2>10. Appended(at, Splice(at, y, n), x)
    <3>1. at.bit_len + n < Full /\ n <= Len(y)
      BY <1>1, <1>5, <2>2, <2>5, <2>7
    <3>2. \A i \in 1..n : x[i] = y[i]
      BY <1>1, <2>2, <2>7, <2>9, SMTT(30)
    <3>3. \A i \in 1..Len(y) : i > n => y[i] = 0
      BY <1>1, <2>2, <2>7
    <3> QED BY <2>2, <2>5, <2>7, <2>9, <3>1, <3>2, <3>3, SpliceFacts
  <2>11. Appended(b, Splice(at, y, n), NumberBits(v, bits))
    <3>1. CASE bits <= Len(v)
      <4>1. n = bits /\ at = b
        BY <1>1, <2>1, <2>5, <3>1 DEF Least
      <4> QED BY <2>8, <2>10, <3>1, <4>1 DEF NumberBits
    <3>2. CASE bits > Len(v)
      <4>1. n = Len(v)
        BY <1>1, <2>1, <3>2 DEF Least
      <4>2. x = v
        BY <1>1, <2>9, <4>1, SeqSame
      <4>3. NumberBits(v, bits) = Zeros(bits - n) \o x
        BY <1>1, <3>2, <4>1, <4>2 DEF NumberBits, Wide
      <4>4. Zeros(bits - n) \in Seq(Bit)
        BY <2>4, ZerosFacts
      <4> QED BY <2>5, <2>9, <2>10, <4>3, <4>4, AppendedTwice
    <3> QED BY <1>1, <3>1, <3>2
  <2>12. store_word(b, v, bits) = Done(Splice(at, y, n))
    BY <1>5, <2>1, <2>3, <2>6, CapacityFacts DEF store_word
  <2> QED BY <1>2, <1>5, <2>11, <2>12 DEF Stored, Done
<1> QED BY <1>2, <1>3, <1>4, <1>5

LEMMA ZerosStored ==
  ASSUME NEW b, WellFormed(b), NEW bits \in Nat
  PROVE  Stored(b, store_zeros(b, bits), Zeros(bits))
<1>1. Len(Zeros(bits)) = bits
  BY ZerosFacts
<1> QED BY <1>1, CapacityFacts, Skipped DEF Stored, store_zeros, Done, Refused

LEMMA BitZeroStored ==
  ASSUME NEW b, WellFormed(b)
  PROVE  Stored(b, store_bit_zero(b), <<0>>)
<1>1. <<0>> \in Seq(Bit) /\ Len(<<0>>) = 1 /\ b.bit_len \in Nat
  BY BitFacts DEF WellFormed, Builder
<1>2. Zeros(1) = <<0>>
  <2>1. Zeros(1) \in Seq(Bit) /\ Len(Zeros(1)) = 1 /\ \A i \in 1..1 : Zeros(1)[i] = 0
    BY ZerosFacts
  <2> QED BY <1>1, <2>1, SeqSame
<1>3. b.bit_len < MAX_BIT_LEN <=> b.bit_len + 1 < Full
  BY <1>1, SizeFacts
<1>4. b.bit_len + 1 < Full => Appended(b, [b EXCEPT !.bit_len = @ + 1], <<0>>)
  BY <1>2, Skipped
<1> QED BY <1>1, <1>3, <1>4 DEF Stored, store_bit_zero, Done, Refused

\* The mask of one bit of a byte.
LEMMA BitMaskFacts ==
  ASSUME NEW r \in Nat, r < BYTE
  PROVE  LET m == Shl(Wide(<<1>>, BYTE), BYTE - 1 - r)
         IN m \in Seq(Bit) /\ Len(m) = BYTE /\ \A i \in 1..BYTE : m[i] = IF i = r + 1 THEN 1 ELSE 0
<1>1. BYTE \in Nat /\ BYTE > 0 /\ BYTE - 1 - r \in Nat
  BY SizeFacts
<1>2. <<1>> \in Seq(Bit) /\ Len(<<1>>) = 1 /\ <<1>>[1] = 1
  BY BitFacts
<1>a. PICK one \in Seq(Bit) : one = <<1>> /\ Len(one) = 1 /\ one[1] = 1
  BY <1>2
<1>3. PICK w : w = Wide(one, BYTE)
  OBVIOUS
<1>4. w \in Seq(Bit) /\ Len(w) = BYTE /\ \A i \in 1..BYTE : w[i] = IF i = BYTE THEN 1 ELSE 0
  <2>0. PICK z : z = Zeros(BYTE - 1)
    OBVIOUS
  <2>1. z \in Seq(Bit) /\ Len(z) = BYTE - 1 /\ \A i \in 1..(BYTE - 1) : z[i] = 0
    BY <1>1, <2>0, ZerosFacts
  <2>2. w = z \o one
    BY <1>a, <1>3, <2>0 DEF Wide
  <2>3. /\ w \in Seq(Bit) /\ Len(w) = Len(z) + Len(one) /\ \A i \in 1..Len(z) : w[i] = z[i]
        /\ \A i \in 1..Len(one) : w[Len(z) + i] = one[i]
    BY <2>1, <2>2, BitJoin
  <2>4. BYTE - 1 + 1 = BYTE /\ \A i \in 1..BYTE : i # BYTE => i \in 1..(BYTE - 1)
    BY <1>1
  <2> QED BY <1>1, <1>a, <2>1, <2>3, <2>4
<1>5. PICK m : m = Shl(w, BYTE - 1 - r)
  OBVIOUS
<1>6. /\ m \in Seq(Bit) /\ Len(m) = BYTE
      /\ \A i \in 1..BYTE : m[i] = IF i + (BYTE - 1 - r) <= BYTE THEN w[i + (BYTE - 1 - r)] ELSE 0
  BY <1>1, <1>4, <1>5, ShlFacts
<1>7. ASSUME NEW i \in 1..BYTE PROVE m[i] = IF i = r + 1 THEN 1 ELSE 0
  <2>1. i + (BYTE - 1 - r) <= BYTE => i + (BYTE - 1 - r) \in 1..BYTE
    BY <1>1
  <2>2. i + (BYTE - 1 - r) = BYTE <=> i = r + 1
    BY <1>1
  <2>3. CASE i = r + 1
    BY <1>1, <1>4, <1>6, <2>1, <2>2, <2>3
  <2>4. CASE i # r + 1
    BY <1>4, <1>6, <2>1, <2>2, <2>4
  <2> QED BY <2>3, <2>4
<1> QED BY <1>a, <1>3, <1>5, <1>6, <1>7

LEMMA BitOneStored ==
  ASSUME NEW b, WellFormed(b)
  PROVE  Stored(b, store_bit_one(b), <<1>>)
<1>0. PICK q \in Nat, r \in Nat, at \in Nat :
        /\ q = b.bit_len \div BYTE /\ r = b.bit_len % BYTE /\ at = q * BYTE
        /\ r < BYTE /\ b.bit_len = at + r /\ at + BYTE <= Full
  BY PlaceFacts
<1>a. q = b.bit_len \div BYTE /\ r = b.bit_len % BYTE
  BY <1>0
<1>b. at = q * BYTE
  BY <1>0
<1>1. r < BYTE /\ b.bit_len = at + r /\ at + BYTE <= Full /\ BYTE \in Nat /\ Full \in Nat
  BY <1>0, SizeFacts
<1>2. <<1>> \in Seq(Bit) /\ Len(<<1>>) = 1 /\ <<1>>[1] = 1
  BY BitFacts
<1>3. b.data \in Seq(Bit) /\ Len(b.data) = Full /\ \A i \in 1..Full : i > at + r => b.data[i] = 0
  BY <1>1 DEF WellFormed, Builder
<1>4. PICK mask : mask = Shl(Wide(<<1>>, BYTE), BYTE - 1 - r)
  OBVIOUS
<1>5. mask \in Seq(Bit) /\ Len(mask) = BYTE /\ \A i \in 1..BYTE : mask[i] = IF i = r + 1 THEN 1 ELSE 0
  BY <1>1, <1>4, BitMaskFacts
<1>6. PICK y : y = Or(Byte(b.data, q), mask)
  OBVIOUS
<1>7. /\ y \in Seq(Bit) /\ Len(y) = BYTE
      /\ \A i \in 1..BYTE : y[i] = IF i = r + 1 THEN 1 ELSE b.data[at + i]
  <2>1. /\ Byte(b.data, q) \in Seq(Bit) /\ Len(Byte(b.data, q)) = BYTE
        /\ \A i \in 1..BYTE : Byte(b.data, q)[i] = b.data[at + i]
    BY <1>b, <1>1, <1>3, ByteAt
  <2>2. /\ y \in Seq(Bit) /\ Len(y) = BYTE
        /\ \A i \in 1..BYTE : /\ Byte(b.data, q)[i] = 0 => y[i] = mask[i]
                              /\ mask[i] = 0 => y[i] = Byte(b.data, q)[i]
    BY <1>5, <1>6, <2>1, OrFacts
  <2>3. r + 1 \in 1..BYTE /\ at + (r + 1) \in 1..Full /\ at + (r + 1) > at + r
    BY <1>1
  <2>4. y[r + 1] = 1
    BY <1>3, <1>5, <2>1, <2>2, <2>3
  <2> QED BY <1>5, <2>1, <2>2, <2>4
<1>8. PICK d : d = Put(b.data, q, y)
  OBVIOUS
<1>9. /\ d \in Seq(Bit) /\ Len(d) = Full
      /\ \A i \in 1..Full : d[i] = IF at < i /\ i <= at + BYTE THEN y[i - at] ELSE b.data[i]
  <2>1. IsPut(Put(b.data, q, y), b.data, at, y, BYTE, Full)
    BY <1>b, <1>1, <1>3, <1>7, PutAt, Zenon
  <2> QED BY <1>8, <2>1 DEF IsPut
<1>10. ASSUME b.bit_len + 1 < Full
       PROVE  Appended(b, [b EXCEPT !.bit_len = @ + 1, !.data = Put(@, q, Or(Byte(@, q), mask))], <<1>>)
  <2>1. PICK m \in Nat : m = b.bit_len + 1
    BY <1>1
  <2>2. PICK c : c = [b EXCEPT !.bit_len = m, !.data = d]
    OBVIOUS
  <2>3. ASSUME NEW i \in 1..Full
        PROVE  d[i] = IF i <= b.bit_len THEN b.data[i]
                      ELSE IF i <= m THEN <<1>>[i - b.bit_len] ELSE 0
    <3>1. CASE at < i /\ i <= at + BYTE
      <4>1. i - at \in 1..BYTE /\ at + (i - at) = i /\ (i - at = r + 1 <=> i = at + r + 1)
        BY <1>1, <3>1
      <4>2. d[i] = IF i = at + r + 1 THEN 1 ELSE b.data[i]
        BY <1>7, <1>9, <3>1, <4>1
      <4>3. CASE i = at + r + 1
        <5>1. i - b.bit_len = 1 /\ ~(i <= b.bit_len) /\ i <= m
          BY <1>1, <2>1, <4>3
        <5> QED BY <1>2, <4>2, <4>3, <5>1
      <4>4. CASE i # at + r + 1
        <5>1. d[i] = b.data[i] /\ (i > at + r => b.data[i] = 0)
          BY <1>3, <4>2, <4>4
        <5>2. i <= b.bit_len \/ (i > at + r /\ ~(i <= b.bit_len) /\ ~(i <= m))
          BY <1>1, <2>1, <4>4
        <5> QED BY <5>1, <5>2
      <4> QED BY <4>3, <4>4
    <3>2. CASE i <= at
      BY <1>1, <1>9, <3>2
    <3>3. CASE i > at + BYTE
      <4>1. d[i] = 0
        BY <1>1, <1>3, <1>9, <3>3
      <4>2. ~(i <= b.bit_len) /\ ~(i <= m)
        BY <1>1, <2>1, <3>3
      <4> QED BY <4>1, <4>2
    <3> QED BY <1>1, <3>1, <3>2, <3>3
  <2>4. m = b.bit_len + Len(<<1>>) /\ m < Full
    BY <1>2, <1>10, <2>1
  <2>5. Appended(b, c, <<1>>)
    BY <1>2, <1>9, <2>2, <2>3, <2>4, AppendedBy
  <2> QED BY <1>6, <1>8, <2>1, <2>2, <2>5
<1>11. b.bit_len < MAX_BIT_LEN <=> b.bit_len + 1 < Full
  BY <1>1, SizeFacts
<1>12. store_bit_one(b) =
         IF b.bit_len < MAX_BIT_LEN
         THEN Done([b EXCEPT !.bit_len = @ + 1, !.data = Put(@, q, Or(Byte(@, q), mask))])
         ELSE Refused(b)
  BY <1>a, <1>4 DEF store_bit_one
<1> QED BY <1>2, <1>10, <1>11, <1>12 DEF Stored, Done, Refused

-----------------------------------------------------------------------------
(* Two halves                                                               *)

\* The bytes that hold nearly all bits are all bytes.
LEMMA AllBytes ==
  ASSUME NEW s \in Seq(Bit), Aligned(s), NEW n \in Nat, n <= Len(s), Len(s) < n + BYTE
  PROVE  Bytes(s, 0, DivCeil(n, BYTE)) = s
<1>1. PICK m \in Nat, k \in Nat : m = DivCeil(n, BYTE) /\ k = m * BYTE /\ n <= k
  BY CeilFacts
<1>2. k <= Len(s)
  BY <1>1, AlignedCeil
<1>3. Len(s) <= k
  <2>1. PICK u \in Nat, l \in Nat : Len(s) = l /\ l = u * BYTE
    BY Product DEF Aligned
  <2>2. n <= k
    BY <1>1
  <2>3. l < k + BYTE
    BY <2>1, <2>2, SizeFacts
  <2>4. u * BYTE < m * BYTE + BYTE
    BY <1>1, <2>1, <2>3
  <2>5. u * BYTE <= m * BYTE
    BY <2>4, WholeBytes
  <2> QED BY <1>1, <2>1, <2>5
<1>4. Len(s) = k
  BY <1>2, <1>3, LenProperties
<1>5. 0 \in Nat /\ 0 = 0 * BYTE /\ 0 + k <= Len(s)
  BY <1>2, SizeFacts
<1>6. /\ Bytes(s, 0, m) \in Seq(Bit) /\ Len(Bytes(s, 0, m)) = k
      /\ \A i \in 1..k : Bytes(s, 0, m)[i] = s[0 + i]
  BY <1>1, <1>5, BytesAt
<1>7. \A i \in 1..k : Bytes(s, 0, m)[i] = s[i]
  BY <1>6
<1> QED BY <1>1, <1>4, <1>6, <1>7, SeqSame

\* Two halves shifted one into the other are the whole shifted.
LEMMA HalvesShifted ==
  ASSUME NEW v \in Seq(Bit), NEW h \in Nat, Len(v) = h + h, NEW k \in Nat, k <= h
  PROVE  Or(Shl(SubSeq(v, 1, h), k), Shr(Low(v, h), h - k)) \o Shl(Low(v, h), k) = Shl(v, k)
<1>hi. PICK hi : hi = SubSeq(v, 1, h)
  OBVIOUS
<1>lo. PICK lo : lo = Low(v, h)
  OBVIOUS
<1> SUFFICES Or(Shl(hi, k), Shr(lo, h - k)) \o Shl(lo, k) = Shl(v, k)
  BY <1>hi, <1>lo
<1>1. hi \in Seq(Bit) /\ Len(hi) = h /\ \A i \in 1..h : hi[i] = v[i]
  <2>1. 0 \in Nat /\ 0 <= h /\ h <= Len(v)
    OBVIOUS
  <2>2. /\ SubSeq(v, 0 + 1, h) \in Seq(Bit) /\ Len(SubSeq(v, 0 + 1, h)) = h - 0
        /\ \A i \in 1..(h - 0) : SubSeq(v, 0 + 1, h)[i] = v[0 + i]
    BY <2>1, PartFacts
  <2> QED BY <1>hi, <2>2
<1>2. lo \in Seq(Bit) /\ Len(lo) = h /\ \A i \in 1..h : lo[i] = v[h + i]
  <2>1. h <= Len(v) /\ Len(v) - h = h
    OBVIOUS
  <2>2. /\ Low(v, h) \in Seq(Bit) /\ Len(Low(v, h)) = h
        /\ \A i \in 1..h : Low(v, h)[i] = v[Len(v) - h + i]
    BY <2>1, LowFacts, Zenon
  <2> QED BY <1>lo, <2>1, <2>2
<1>3. PICK x : x = Shl(hi, k)
  OBVIOUS
<1>4. x \in Seq(Bit) /\ Len(x) = h /\ \A i \in 1..h : x[i] = IF i + k <= h THEN v[i + k] ELSE 0
  <2>1. x \in Seq(Bit) /\ Len(x) = h /\ \A i \in 1..h : x[i] = IF i + k <= h THEN hi[i + k] ELSE 0
    BY <1>1, <1>3, ShlFacts
  <2> QED BY <1>1, <2>1
<1>5. PICK y : y = Shr(lo, h - k)
  OBVIOUS
<1>6. y \in Seq(Bit) /\ Len(y) = h /\ \A i \in 1..h : y[i] = IF i + k > h THEN v[i + k] ELSE 0
  <2>1. h - k \in Nat
    OBVIOUS
  <2>2. /\ y \in Seq(Bit) /\ Len(y) = h
        /\ \A i \in 1..h : y[i] = IF i > h - k THEN lo[i - (h - k)] ELSE 0
    BY <1>2, <1>5, <2>1, ShrFacts
  <2>3. ASSUME NEW i \in 1..h PROVE y[i] = IF i + k > h THEN v[i + k] ELSE 0
    <3>1. i > h - k <=> i + k > h
      OBVIOUS
    <3>2. i + k > h => i - (h - k) \in 1..h /\ h + (i - (h - k)) = i + k
      OBVIOUS
    <3> QED BY <1>2, <2>2, <3>1, <3>2
  <2> QED BY <2>2, <2>3
<1>7. PICK z : z = Or(x, y)
  OBVIOUS
<1>8. z \in Seq(Bit) /\ Len(z) = h /\ \A i \in 1..h : z[i] = v[i + k]
  <2>1. /\ z \in Seq(Bit) /\ Len(z) = h
        /\ \A i \in 1..h : (x[i] = 0 => z[i] = y[i]) /\ (y[i] = 0 => z[i] = x[i])
    <3>1. /\ Or(x, y) \in Seq(Bit) /\ Len(Or(x, y)) = Len(x)
          /\ \A i \in 1..Len(x) : /\ x[i] = 0 => Or(x, y)[i] = y[i]
                                  /\ y[i] = 0 => Or(x, y)[i] = x[i]
      BY <1>4, <1>6, OrFacts, ZenonT(40)
    <3> QED BY <1>4, <1>7, <3>1
  <2> QED BY <1>4, <1>6, <2>1
<1>9. PICK u : u = Shl(lo, k)
  OBVIOUS
<1>10. u \in Seq(Bit) /\ Len(u) = h /\ \A i \in 1..h : u[i] = IF i + k <= h THEN v[h + (i + k)] ELSE 0
  <2>1. u \in Seq(Bit) /\ Len(u) = h /\ \A i \in 1..h : u[i] = IF i + k <= h THEN lo[i + k] ELSE 0
    BY <1>2, <1>9, ShlFacts
  <2> QED BY <1>2, <2>1
<1>11. PICK s : s = Shl(v, k)
  OBVIOUS
<1>12. /\ s \in Seq(Bit) /\ Len(s) = h + h
       /\ \A i \in 1..(h + h) : s[i] = IF i + k <= h + h THEN v[i + k] ELSE 0
  BY <1>11, ShlFacts
<1>13. PICK j : j = z \o u
  OBVIOUS
<1>14. /\ j \in Seq(Bit) /\ Len(j) = h + h /\ \A i \in 1..h : j[i] = z[i]
       /\ \A i \in 1..h : j[h + i] = u[i]
  <2>1. /\ z \o u \in Seq(Bit) /\ Len(z \o u) = Len(z) + Len(u)
        /\ \A i \in 1..Len(z) : (z \o u)[i] = z[i]
        /\ \A i \in 1..Len(u) : (z \o u)[Len(z) + i] = u[i]
    BY <1>8, <1>10, BitJoin
  <2> QED BY <1>8, <1>10, <1>13, <2>1
<1>15. ASSUME NEW i \in 1..(h + h) PROVE j[i] = s[i]
  <2>1. CASE i <= h
    <3>1. i \in 1..h /\ i + k <= h + h
      BY <2>1
    <3> QED BY <1>8, <1>12, <1>14, <3>1
  <2>2. CASE i > h
    <3>1. PICK n \in 1..h : n = i - h
      BY <2>2
    <3>2. h + n = i /\ (n + k <= h <=> i + k <= h + h) /\ h + (n + k) = i + k
      BY <3>1
    <3> QED BY <1>10, <1>12, <1>14, <3>2, ZenonT(40)
  <2> QED BY <2>1, <2>2
<1>16. j = s
  BY <1>12, <1>14, <1>15, SeqSame
<1> QED BY <1>3, <1>5, <1>7, <1>9, <1>11, <1>13, <1>16

\* The first bits of the upper half are those of its first byte.
LEMMA FirstBits ==
  ASSUME NEW v \in Seq(Bit), NEW h \in Nat, Len(v) = h + h, h >= BYTE, NEW r \in Nat, r < BYTE,
         NEW hi, hi = SubSeq(v, 1, h)
  PROVE  Low(Shr(hi, h - (BYTE - r)), BYTE) = Shr(Byte(v, 0), r)
<1>0. BYTE \in Nat /\ BYTE > 0 /\ h - (BYTE - r) \in Nat
  BY SizeFacts
<1>1. hi \in Seq(Bit) /\ Len(hi) = h /\ \A i \in 1..h : hi[i] = v[i]
  <2>1. 0 \in Nat /\ 0 <= h /\ h <= Len(v)
    OBVIOUS
  <2>2. /\ SubSeq(v, 0 + 1, h) \in Seq(Bit) /\ Len(SubSeq(v, 0 + 1, h)) = h - 0
        /\ \A i \in 1..(h - 0) : SubSeq(v, 0 + 1, h)[i] = v[0 + i]
    BY <2>1, PartFacts
  <2> QED BY <2>2
<1>2. PICK x : x = Shr(hi, h - (BYTE - r))
  OBVIOUS
<1>3. /\ x \in Seq(Bit) /\ Len(x) = h
      /\ \A i \in 1..h : x[i] = IF i > h - (BYTE - r) THEN hi[i - (h - (BYTE - r))] ELSE 0
  <2>1. PICK k \in Nat : k = h - (BYTE - r)
    BY <1>0
  <2>2. /\ Shr(hi, k) \in Seq(Bit) /\ Len(Shr(hi, k)) = Len(hi)
        /\ \A i \in 1..Len(hi) : Shr(hi, k)[i] = IF i > k THEN hi[i - k] ELSE 0
    BY <1>1, ShrFacts, Zenon
  <2> QED BY <1>1, <1>2, <2>1, <2>2
<1>4. PICK y : y = Low(x, BYTE)
  OBVIOUS
<1>5. y \in Seq(Bit) /\ Len(y) = BYTE /\ \A i \in 1..BYTE : y[i] = x[h - BYTE + i]
  BY <1>0, <1>3, <1>4, LowFacts
<1>6. PICK z : z = Shr(Byte(v, 0), r)
  OBVIOUS
<1>7. z \in Seq(Bit) /\ Len(z) = BYTE /\ \A i \in 1..BYTE : z[i] = IF i > r THEN v[i - r] ELSE 0
  <2>1. 0 \in Nat /\ 0 = 0 * BYTE /\ 0 + BYTE <= Len(v)
    BY <1>0
  <2>2. /\ Byte(v, 0) \in Seq(Bit) /\ Len(Byte(v, 0)) = BYTE
        /\ \A i \in 1..BYTE : Byte(v, 0)[i] = v[0 + i]
    BY <2>1, ByteAt
  <2>3. /\ z \in Seq(Bit) /\ Len(z) = BYTE
        /\ \A i \in 1..BYTE : z[i] = IF i > r THEN Byte(v, 0)[i - r] ELSE 0
    BY <1>6, <2>2, ShrFacts
  <2> QED BY <1>0, <2>2, <2>3, SMTT(30)
<1>8. ASSUME NEW i \in 1..BYTE PROVE y[i] = z[i]
  <2>1. PICK n \in 1..h : n = h - BYTE + i
    BY <1>0
  <2>2. n > h - (BYTE - r) <=> i > r
    BY <1>0, <2>1
  <2>3. n - (h - (BYTE - r)) = i - r /\ (i > r => i - r \in 1..h)
    BY <1>0, <2>1
  <2> QED BY <1>1, <1>3, <1>5, <1>7, <2>1, <2>2, <2>3, ZenonT(40)
<1>9. y = z
  BY <1>5, <1>7, <1>8, SeqSame
<1> QED BY <1>2, <1>4, <1>6, <1>9

\* The store of two halves is the store of the whole.
LEMMA U256IsFixed ==
  ASSUME NEW b, WellFormed(b), NEW v \in Seq(Bit), Aligned(v),
         NEW h \in Nat, Len(v) = h + h, h >= BYTE
  PROVE  store_u256(b, v) = store_fixed(b, v)
<1>1. PICK q \in Nat, r \in Nat, at \in Nat :
        /\ q = b.bit_len \div BYTE /\ r = b.bit_len % BYTE /\ at = q * BYTE
        /\ r < BYTE /\ b.bit_len = at + r /\ at + BYTE <= Full
  BY PlaceFacts
<1>2. r < BYTE /\ BYTE \in Nat /\ BYTE > 0
  BY <1>1, SizeFacts
<1>3. q = b.bit_len \div BYTE /\ r = b.bit_len % BYTE
  BY <1>1
<1>4. Len(v) \div 2 = h
  OBVIOUS
<1> DEFINE shift == BYTE - r
           hi == SubSeq(v, 1, h)
           lo == Low(v, h)
<1>5. Or(Shl(hi, shift), Shr(lo, h - shift)) \o Shl(lo, shift) = Shl(v, shift)
  <2>1. PICK k \in Nat : k = shift /\ k <= h
    BY <1>2
  <2>2. Or(Shl(SubSeq(v, 1, h), k), Shr(Low(v, h), h - k)) \o Shl(Low(v, h), k) = Shl(v, k)
    BY <2>1, HalvesShifted
  <2> QED BY <2>1, <2>2
<1>6. Low(Shr(hi, h - shift), BYTE) = Shr(Byte(v, 0), r)
  BY <1>2, FirstBits
<1>7. Bytes(v, 0, DivCeil(Len(v), BYTE)) = v
  <2>1. Len(v) \in Nat /\ Len(v) < Len(v) + BYTE
    BY <1>2
  <2> QED BY <2>1, AllBytes
<1>8. r # 0 => Bytes(Shl(v, shift), 0, DivCeil(Len(v) - shift, BYTE)) = Shl(v, shift) /\ Len(v) - shift > 0
  <2> SUFFICES ASSUME r # 0
               PROVE  Bytes(Shl(v, shift), 0, DivCeil(Len(v) - shift, BYTE)) = Shl(v, shift) /\ Len(v) - shift > 0
    OBVIOUS
  <2>1. shift \in Nat /\ Len(v) - shift \in Nat /\ Len(v) - shift > 0
    BY <1>2
  <2>2. PICK s : s = Shl(v, shift)
    OBVIOUS
  <2>3. s \in Seq(Bit) /\ Len(s) = Len(v)
    BY <2>1, <2>2, ShlFacts
  <2>4. Aligned(s) /\ Len(v) - shift <= Len(s) /\ Len(s) < Len(v) - shift + BYTE
    BY <1>2, <2>3 DEF Aligned
  <2> QED BY <2>1, <2>2, <2>3, <2>4, AllBytes
<1>9. store_u256(b, v) =
        IF ~has_capacity_bits(b, Len(v)) THEN Refused(b)
        ELSE Done([b EXCEPT !.bit_len = @ + Len(v),
                            !.data = IF r = 0 THEN Put(b.data, q, v)
                                     ELSE Put(Put(b.data, q, Or(Byte(b.data, q), Shr(Byte(v, 0), r))),
                                              q + 1, Shl(v, shift))])
  <2> HIDE DEF shift
  <2> QED BY <1>3, <1>4, <1>5, <1>6 DEF store_u256, shift
<1>10. Splice(b, v, Len(v)) =
         [b EXCEPT !.bit_len = @ + Len(v),
                   !.data = IF r = 0 THEN Put(b.data, q, v)
                            ELSE Put(Put(b.data, q, Or(Byte(b.data, q), Shr(Byte(v, 0), r))),
                                     q + 1, Shl(v, shift))]
  BY <1>3, <1>7, <1>8 DEF Splice
<1> QED BY <1>9, <1>10 DEF store_fixed

-----------------------------------------------------------------------------
(* store_raw *)

\* The byte of a bit, and its place in it.
LEMMA Position ==
  ASSUME NEW i \in Nat, i >= 1
  PROVE  \E p \in Nat, o \in 1..BYTE, a \in Nat :
           /\ p = (i - 1) \div BYTE /\ o = ((i - 1) % BYTE) + 1 /\ a = p * BYTE /\ i = a + o
<1>1. BYTE \in Nat /\ BYTE > 0 /\ i - 1 \in Nat
  BY SizeFacts
<1>2. PICK p \in Nat, m \in Nat, a \in Nat :
        p = (i - 1) \div BYTE /\ m = (i - 1) % BYTE /\ m < BYTE /\ a = p * BYTE /\ i - 1 = a + m
  BY <1>1, DivMod
<1>3. m + 1 \in 1..BYTE /\ i = a + (m + 1)
  BY <1>1, <1>2
<1> QED BY <1>2, <1>3

\* The last byte of a row of n bits.
LEMMA LastByte ==
  ASSUME NEW n \in Nat, n > 0, NEW r \in Nat
  PROVE  \E last \in Nat, e \in Nat :
           last = DivCeil(n + r, BYTE) - 1 /\ e = last * BYTE /\ e < n + r /\ n + r <= e + BYTE
<1>1. n + r \in Nat /\ n + r > 0 /\ BYTE \in Nat /\ BYTE > 0
  BY SizeFacts
<1>2. PICK c \in Nat, k \in Nat : c = DivCeil(n + r, BYTE) /\ k = c * BYTE /\ n + r <= k /\ k < n + r + BYTE
  BY <1>1, CeilFacts
<1>3. c # 0
  BY <1>1, <1>2, Product
<1>4. PICK m \in Nat : m = c - 1 /\ m + 1 = c
  BY <1>2, <1>3
<1>5. m * BYTE \in Nat /\ k = m * BYTE + BYTE
  BY <1>2, <1>4, Product
<1>6. m * BYTE < n + r /\ n + r <= m * BYTE + BYTE
  BY <1>1, <1>2, <1>5
<1> QED BY <1>2, <1>4, <1>5, <1>6

\* The mask of the last byte keeps the bits that are stored.
LEMMA LastMask ==
  ASSUME NEW n \in Nat, NEW last \in Nat, NEW e \in Nat, e = last * BYTE, e < n, n <= e + BYTE
  PROVE  /\ HighMask(n % BYTE) \in Seq(Bit) /\ Len(HighMask(n % BYTE)) = BYTE
         /\ \A o \in 1..BYTE : HighMask(n % BYTE)[o] = IF e + o <= n THEN 1 ELSE 0
<1>1. BYTE \in Nat /\ BYTE > 0
  BY SizeFacts
<1>2. CASE n < e + BYTE
  <2>1. PICK t \in Nat : t = n - e /\ t < BYTE /\ t > 0 /\ n = e + t
    BY <1>1, <1>2
  <2>2. (last * BYTE + t) % BYTE = t
    BY <2>1, DivModIs
  <2>3. n % BYTE = t
    BY <2>1, <2>2
  <2>4. /\ HighMask(t) \in Seq(Bit) /\ Len(HighMask(t)) = BYTE
        /\ \A i \in 1..BYTE : HighMask(t)[i] = IF t = 0 \/ i <= t THEN 1 ELSE 0
    BY <2>1, MaskFacts
  <2>5. \A o \in 1..BYTE : (t = 0 \/ o <= t) <=> e + o <= n
    BY <1>1, <2>1
  <2> QED BY <2>3, <2>4, <2>5
<1>3. CASE n = e + BYTE
  <2>1. ((last + 1) * BYTE + 0) % BYTE = 0
    BY <1>1, DivModIs
  <2>2. (last + 1) * BYTE = last * BYTE + BYTE
    BY Product
  <2>3. n = (last + 1) * BYTE + 0
    BY <1>1, <1>3, <2>2
  <2>4. n % BYTE = 0
    BY <2>1, <2>3
  <2>5. /\ HighMask(0) \in Seq(Bit) /\ Len(HighMask(0)) = BYTE
        /\ \A i \in 1..BYTE : HighMask(0)[i] = 1
    BY <1>1, MaskFacts
  <2>6. \A o \in 1..BYTE : e + o <= n
    BY <1>1, <1>3
  <2> QED BY <2>4, <2>5, <2>6
<1> QED BY <1>1, <1>2, <1>3

\* A byte x with the bits of d behind bit at, and the disjunction w of two bytes.
IsByteOf(x, d, at) == x \in Seq(Bit) /\ Len(x) = BYTE /\ \A o \in 1..BYTE : x[o] = d[at + o]
IsOrOf(w, x, s) ==
  /\ w \in Seq(Bit) /\ Len(w) = BYTE
  /\ \A o \in 1..BYTE : (x[o] = 0 => w[o] = s[o]) /\ (s[o] = 0 => w[o] = x[o])

LEMMA ByteIs ==
  ASSUME NEW d \in Seq(Bit), NEW q \in Nat, NEW at \in Nat, at = q * BYTE, at + BYTE <= Len(d)
  PROVE  IsByteOf(Byte(d, q), d, at)
BY ByteAt DEF IsByteOf

LEMMA OrIs ==
  ASSUME NEW x \in Seq(Bit), Len(x) = BYTE, NEW s \in Seq(Bit), Len(s) = BYTE
  PROVE  IsOrOf(Or(x, s), x, s)
<1>1. Len(s) = Len(x)
  OBVIOUS
<1>2. /\ Or(x, s) \in Seq(Bit) /\ Len(Or(x, s)) = Len(x)
      /\ \A i \in 1..Len(x) : /\ x[i] = 0 => Or(x, s)[i] = s[i]
                              /\ s[i] = 0 => Or(x, s)[i] = x[i]
  BY <1>1, OrFacts, Zenon
<1> QED BY <1>2 DEF IsOrOf

\* A byte of the value that has a bit to store is a byte of the string.
LEMMA ValueByteFacts ==
  ASSUME NEW v \in Seq(Bit), Aligned(v), NEW n \in Nat, n <= Len(v),
         NEW j \in Nat, NEW a \in Nat, a = j * BYTE
  PROVE  /\ ValueByte(v, n, j) \in Seq(Bit) /\ Len(ValueByte(v, n, j)) = BYTE
         /\ a < n => ValueByte(v, n, j) = Byte(v, j) /\ IsByteOf(Byte(v, j), v, a)
<1>1. BYTE \in Nat /\ BYTE > 0
  BY SizeFacts
<1>2. PICK vl \in Nat, k \in Nat : vl = DivCeil(n, BYTE) /\ k = vl * BYTE /\ n <= k /\ k <= Len(v)
  BY CeilFacts, AlignedCeil
<1>3. j < vl => a + BYTE <= k
  BY <1>2, Product
<1>4. a < k => j < vl
  BY <1>2, Product
<1>5. CASE j < vl
  <2>1. ValueByte(v, n, j) = Byte(v, j)
    BY <1>2, <1>5 DEF ValueByte
  <2>2. a + BYTE <= Len(v)
    BY <1>1, <1>2, <1>3, <1>5
  <2>3. IsByteOf(Byte(v, j), v, a)
    BY <2>2, ByteIs
  <2> QED BY <2>1, <2>3 DEF IsByteOf
<1>6. CASE ~(j < vl)
  <2>1. ValueByte(v, n, j) = Zeros(BYTE)
    BY <1>2, <1>6 DEF ValueByte
  <2>2. ~(a < n)
    BY <1>2, <1>4, <1>6
  <2> QED BY <1>1, <2>1, <2>2, ZerosFacts
<1> QED BY <1>5, <1>6

\* What the loop leaves in byte q + j, before the mask.
IsLooped(w, d, v, n, r, start, a) ==
  /\ w \in Seq(Bit) /\ Len(w) = BYTE
  /\ \A o \in 1..BYTE : a + o <= r + n => w[o] = IF a + o <= r THEN d[start + o] ELSE v[a + o - r]

LEMMA LoopedFacts ==
  ASSUME NEW d \in Seq(Bit), Len(d) = Full, NEW v \in Seq(Bit), Aligned(v),
         NEW n \in Nat, n > 0, n <= Len(v), NEW q \in Nat, NEW r \in Nat, r < BYTE,
         NEW start \in Nat, start = q * BYTE, start + BYTE <= Full,
         \A i \in 1..Full : i > start + r => d[i] = 0,
         NEW j \in Nat, NEW a \in Nat, a = j * BYTE, a < n + r
  PROVE  IsLooped(LoopedByte(d, v, n, q, r, j), d, v, n, r, start, a)
<1>1. BYTE \in Nat /\ BYTE > 0
  BY SizeFacts
<1>2. PICK y : y = ValueByte(v, n, j)
  OBVIOUS
<1>3. /\ y \in Seq(Bit) /\ Len(y) = BYTE
      /\ a < n => y = Byte(v, j) /\ \A o \in 1..BYTE : y[o] = v[a + o]
  <2>1. /\ ValueByte(v, n, j) \in Seq(Bit) /\ Len(ValueByte(v, n, j)) = BYTE
        /\ a < n => ValueByte(v, n, j) = Byte(v, j) /\ IsByteOf(Byte(v, j), v, a)
    BY ValueByteFacts, Zenon
  <2> QED BY <1>2, <2>1 DEF IsByteOf
<1>4. PICK w : w = LoopedByte(d, v, n, q, r, j)
  OBVIOUS
<1>5. CASE r = 0
  <2>1. a < n /\ w = Byte(v, j)
    BY <1>4, <1>5 DEF LoopedByte
  <2>2. \A o \in 1..BYTE : ~(a + o <= r) /\ a + o - r = a + o
    BY <1>1, <1>5
  <2>3. w \in Seq(Bit) /\ Len(w) = BYTE /\ \A o \in 1..BYTE : w[o] = v[a + o]
    BY <1>3, <2>1
  <2>4. \A o \in 1..BYTE : w[o] = IF a + o <= r THEN d[start + o] ELSE v[a + o - r]
    BY <2>2, <2>3
  <2> QED BY <1>4, <2>3, <2>4 DEF IsLooped
<1>6. PICK s : s = Shr(y, r)
  OBVIOUS
<1>7. s \in Seq(Bit) /\ Len(s) = BYTE /\ \A o \in 1..BYTE : s[o] = IF o > r THEN y[o - r] ELSE 0
  <2>1. /\ Shr(y, r) \in Seq(Bit) /\ Len(Shr(y, r)) = Len(y)
        /\ \A o \in 1..Len(y) : Shr(y, r)[o] = IF o > r THEN y[o - r] ELSE 0
    BY <1>3, ShrFacts, Zenon
  <2> QED BY <1>3, <1>6, <2>1
<1>8. CASE r # 0 /\ j = 0
  <2>1. a = 0
    BY <1>8, Product
  <2>2. PICK x : x = Byte(d, q)
    OBVIOUS
  <2>3. x \in Seq(Bit) /\ Len(x) = BYTE /\ \A o \in 1..BYTE : x[o] = d[start + o]
    <3>1. start + BYTE <= Len(d)
      OBVIOUS
    <3>2. IsByteOf(Byte(d, q), d, start)
      BY <3>1, ByteIs, Zenon
    <3> QED BY <2>2, <3>2 DEF IsByteOf
  <2>4. w = Or(x, s)
    BY <1>2, <1>4, <1>6, <1>8, <2>2 DEF LoopedByte
  <2>5. /\ w \in Seq(Bit) /\ Len(w) = BYTE
        /\ \A o \in 1..BYTE : (x[o] = 0 => w[o] = s[o]) /\ (s[o] = 0 => w[o] = x[o])
    <3>1. IsOrOf(Or(x, s), x, s)
      BY <1>7, <2>3, OrIs, Zenon
    <3> QED BY <2>4, <3>1 DEF IsOrOf
  <2>6. ASSUME NEW o \in 1..BYTE PROVE w[o] = IF a + o <= r THEN d[start + o] ELSE v[a + o - r]
    <3>1. CASE o <= r
      <4>1. s[o] = 0 /\ a + o <= r
        BY <1>7, <2>1, <3>1
      <4> QED BY <2>3, <2>5, <4>1
    <3>2. CASE o > r
      <4>1. start + o \in 1..Full /\ start + o > start + r /\ ~(a + o <= r)
        BY <1>1, <2>1, <3>2, SizeFacts
      <4>2. x[o] = 0
        BY <2>3, <4>1
      <4>3. w[o] = y[o - r]
        BY <1>7, <2>5, <3>2, <4>2
      <4>4. o - r \in 1..BYTE /\ a + (o - r) = a + o - r /\ a < n
        BY <1>1, <2>1, <3>2
      <4>5. y[o - r] = v[a + (o - r)]
        BY <1>3, <4>4
      <4> QED BY <4>1, <4>3, <4>4, <4>5
    <3> QED BY <1>1, <3>1, <3>2
  <2> QED BY <1>4, <2>5, <2>6 DEF IsLooped
<1>9. CASE r # 0 /\ j # 0
  <2>1. PICK k \in Nat : k = j - 1 /\ k + 1 = j
    BY <1>9
  <2>2. PICK c \in Nat : c = k * BYTE
    BY Product
  <2>3. a = c + BYTE
    BY <2>1, <2>2, Product
  <2>4. c < n /\ ~(a <= r)
    BY <1>1, <2>3
  <2>5. PICK x : x = ValueByte(v, n, k)
    OBVIOUS
  <2>6. x \in Seq(Bit) /\ Len(x) = BYTE /\ \A o \in 1..BYTE : x[o] = v[c + o]
    <3>1. IsByteOf(ValueByte(v, n, k), v, c)
      <4>1. /\ ValueByte(v, n, k) \in Seq(Bit) /\ Len(ValueByte(v, n, k)) = BYTE
            /\ c < n => ValueByte(v, n, k) = Byte(v, k) /\ IsByteOf(Byte(v, k), v, c)
        BY <2>2, ValueByteFacts, Zenon
      <4> QED BY <2>4, <4>1
    <3> QED BY <2>5, <3>1 DEF IsByteOf
  <2>7. PICK m \in Nat : m = BYTE - r
    BY <1>1
  <2>8. PICK t : t = Shl(x, m)
    OBVIOUS
  <2>9. t \in Seq(Bit) /\ Len(t) = BYTE /\ \A o \in 1..BYTE : t[o] = IF o + m <= BYTE THEN x[o + m] ELSE 0
    <3>1. /\ Shl(x, m) \in Seq(Bit) /\ Len(Shl(x, m)) = Len(x)
          /\ \A o \in 1..Len(x) : Shl(x, m)[o] = IF o + m <= Len(x) THEN x[o + m] ELSE 0
      BY <2>6, ShlFacts, Zenon
    <3> QED BY <2>6, <2>8, <3>1
  <2>10. w = Or(t, s)
    BY <1>2, <1>4, <1>6, <1>9, <2>1, <2>5, <2>7, <2>8 DEF LoopedByte
  <2>11. /\ w \in Seq(Bit) /\ Len(w) = BYTE
         /\ \A o \in 1..BYTE : (t[o] = 0 => w[o] = s[o]) /\ (s[o] = 0 => w[o] = t[o])
    <3>1. IsOrOf(Or(t, s), t, s)
      BY <1>7, <2>9, OrIs, Zenon
    <3> QED BY <2>10, <3>1 DEF IsOrOf
  <2>12. ASSUME NEW o \in 1..BYTE, a + o <= r + n
         PROVE  w[o] = IF a + o <= r THEN d[start + o] ELSE v[a + o - r]
    <3>1. ~(a + o <= r)
      BY <1>1, <2>4
    <3>2. CASE o <= r
      <4>1. s[o] = 0 /\ o + m <= BYTE /\ o + m \in 1..BYTE /\ c + (o + m) = a + o - r
        BY <1>1, <1>7, <2>3, <2>7, <3>2
      <4>2. t[o] = x[o + m]
        BY <2>9, <4>1
      <4>3. x[o + m] = v[c + (o + m)]
        BY <2>6, <4>1
      <4> QED BY <2>11, <3>1, <4>1, <4>2, <4>3
    <3>3. CASE o > r
      <4>1. ~(o + m <= BYTE) /\ a < n /\ o - r \in 1..BYTE /\ a + (o - r) = a + o - r
        BY <1>1, <2>7, <2>12, <3>3
      <4>2. t[o] = 0
        BY <2>9, <4>1
      <4>3. w[o] = y[o - r]
        BY <1>7, <2>11, <3>3, <4>2
      <4>4. y[o - r] = v[a + (o - r)]
        BY <1>3, <4>1
      <4> QED BY <3>1, <4>1, <4>3, <4>4
    <3> QED BY <1>1, <3>2, <3>3
  <2> QED BY <1>4, <2>11, <2>12 DEF IsLooped
<1> QED BY <1>5, <1>8, <1>9

\* The array behind the store, bit by bit.
LEMMA SpreadFacts ==
  ASSUME NEW d \in Seq(Bit), Len(d) = Full, NEW v \in Seq(Bit), Aligned(v),
         NEW n \in Nat, n > 0, n <= Len(v), NEW at \in Nat, at + n < Full,
         \A i \in 1..Full : i > at => d[i] = 0
  PROVE  /\ Spread(d, v, at, n) \in Seq(Bit) /\ Len(Spread(d, v, at, n)) = Full
         /\ \A i \in 1..Full : Spread(d, v, at, n)[i] = IF i <= at THEN d[i]
                                                        ELSE IF i <= at + n THEN v[i - at] ELSE 0
<1>1. BYTE \in Nat /\ BYTE > 0 /\ Full \in Nat /\ CAPACITY \in Nat /\ Full = CAPACITY * BYTE
  BY SizeFacts DEF Full
<1>2. PICK q \in Nat, r \in Nat, start \in Nat :
        q = at \div BYTE /\ r = at % BYTE /\ r < BYTE /\ start = q * BYTE /\ at = start + r
  BY DivMod
<1>3. start + BYTE <= Full
  <2>1. start < Full
    BY <1>1, <1>2
  <2> QED BY <1>1, <1>2, <2>1, Product
<1>4. PICK last \in Nat, e \in Nat :
        last = DivCeil(n + r, BYTE) - 1 /\ e = last * BYTE /\ e < n + r /\ n + r <= e + BYTE
  BY LastByte
<1>5. PICK mask : mask = HighMask((r + n) % BYTE)
  OBVIOUS
<1>6. /\ mask \in Seq(Bit) /\ Len(mask) = BYTE
      /\ \A o \in 1..BYTE : mask[o] = IF e + o <= r + n THEN 1 ELSE 0
  <2>1. r + n \in Nat /\ e < r + n /\ r + n <= e + BYTE
    BY <1>1, <1>2, <1>4
  <2>2. PICK m \in Nat : m = r + n
    BY <2>1
  <2>3. /\ HighMask(m % BYTE) \in Seq(Bit) /\ Len(HighMask(m % BYTE)) = BYTE
        /\ \A o \in 1..BYTE : HighMask(m % BYTE)[o] = IF e + o <= m THEN 1 ELSE 0
    BY <1>4, <2>1, <2>2, LastMask
  <2> QED BY <1>5, <2>2, <2>3
<1> DEFINE looped == [j \in 0..last |-> LoopedByte(d, v, n, q, r, j)]
           masked == [looped EXCEPT ![last] = And(@, mask)]
\* Every byte after the mask.
<1>7. ASSUME NEW j \in 0..last, NEW a \in Nat, a = j * BYTE
      PROVE  /\ masked[j] \in Seq(Bit) /\ Len(masked[j]) = BYTE
             /\ \A o \in 1..BYTE : masked[j][o] = IF a + o <= r THEN d[start + o]
                                                  ELSE IF a + o <= r + n THEN v[a + o - r] ELSE 0
  <2>1. j \in Nat /\ j <= last /\ a <= e /\ (j # last => a + BYTE <= e)
    <3>1. j \in Nat /\ j <= last /\ (j # last => j < last)
      BY <1>7
    <3> QED BY <1>4, <1>7, <3>1, Product, ZenonT(40)
  <2>2. PICK w : w = LoopedByte(d, v, n, q, r, j)
    OBVIOUS
  <2>3. /\ w \in Seq(Bit) /\ Len(w) = BYTE
        /\ \A o \in 1..BYTE : a + o <= r + n => w[o] = IF a + o <= r THEN d[start + o] ELSE v[a + o - r]
    <3>1. a < n + r
      BY <1>2, <1>4, <2>1, SMTT(30)
    <3>2. \A i \in 1..Full : i > start + r => d[i] = 0
      BY <1>2
    <3>3. j \in Nat
      BY <2>1
    <3>4. IsLooped(LoopedByte(d, v, n, q, r, j), d, v, n, r, start, a)
      <4> HIDE DEF masked, looped
      <4> QED BY <1>2, <1>3, <1>7, <3>1, <3>2, <3>3, LoopedFacts, Zenon
    <3> QED BY <2>2, <3>4 DEF IsLooped
  <2>4. looped[j] = w
    BY <1>7, <2>2
  <2>5. CASE j # last
    <3>1. masked[j] = w
      BY <1>7, <2>4, <2>5
    <3>2. \A o \in 1..BYTE : a + o <= r + n
      BY <1>1, <1>2, <1>4, <2>1, <2>5
    <3> HIDE DEF masked
    <3> QED BY <2>3, <3>1, <3>2
  <2>6. CASE j = last
    <3>1. masked[j] = And(w, mask)
      BY <1>7, <2>4, <2>6
    <3>2. PICK x : x = And(w, mask)
      OBVIOUS
    <3>3. x \in Seq(Bit) /\ Len(x) = BYTE /\ \A o \in 1..BYTE : x[o] = IF mask[o] = 1 THEN w[o] ELSE 0
      <4>1. Len(mask) = Len(w) /\ mask \in Seq(Bit) /\ w \in Seq(Bit)
        BY <1>6, <2>3
      <4>2. /\ And(w, mask) \in Seq(Bit) /\ Len(And(w, mask)) = Len(w)
            /\ \A i \in 1..Len(w) : And(w, mask)[i] = IF mask[i] = 1 THEN w[i] ELSE 0
        <5> HIDE DEF masked, looped
        <5> QED BY <4>1, AndFacts, SMTT(30)
      <4> QED BY <2>3, <3>2, <4>2
    <3>4. a = e
      BY <1>4, <1>7, <2>6
    <3>5. ASSUME NEW o \in 1..BYTE
          PROVE  x[o] = IF a + o <= r THEN d[start + o] ELSE IF a + o <= r + n THEN v[a + o - r] ELSE 0
      <4>1. mask[o] = (IF a + o <= r + n THEN 1 ELSE 0) /\ (a + o <= r => a + o <= r + n)
        BY <1>1, <1>2, <1>6, <3>4
      <4> QED BY <2>3, <3>3, <4>1
    <3> HIDE DEF masked
    <3> QED BY <3>1, <3>2, <3>3, <3>5
  <2> QED BY <2>5, <2>6
<1>8. Spread(d, v, at, n) =
        [i \in 1..Len(d) |->
            LET j == (i - 1) \div BYTE - q
            IN IF j \in 0..last THEN masked[j][((i - 1) % BYTE) + 1] ELSE d[i]]
  BY <1>2, <1>4, <1>5 DEF Spread
<1> HIDE DEF masked, looped
<1>9. ASSUME NEW i \in 1..Full
      PROVE  /\ Spread(d, v, at, n)[i] \in Bit
             /\ Spread(d, v, at, n)[i] = IF i <= at THEN d[i] ELSE IF i <= at + n THEN v[i - at] ELSE 0
  <2>1. PICK p \in Nat, o \in 1..BYTE, c \in Nat :
          p = (i - 1) \div BYTE /\ o = ((i - 1) % BYTE) + 1 /\ c = p * BYTE /\ i = c + o
    <3>1. i \in Nat /\ i >= 1
      BY <1>1
    <3> QED BY <3>1, Position
  <2>2. Spread(d, v, at, n)[i] = IF p - q \in 0..last THEN masked[p - q][o] ELSE d[i]
    BY <1>8, <2>1
  <2>3. CASE p - q \in 0..last
    <3>1. PICK j \in 0..last : j = p - q /\ q + j = p /\ j \in Nat
      BY <1>4, <2>3
    <3>2. PICK a \in Nat : a = j * BYTE /\ c = start + a
      <4>1. j * BYTE \in Nat /\ (q + j) * BYTE = q * BYTE + j * BYTE
        BY <3>1, Product
      <4>2. c = start + j * BYTE
        BY <1>2, <2>1, <3>1, <4>1
      <4> QED BY <4>1, <4>2
    <3>3. /\ masked[j] \in Seq(Bit) /\ Len(masked[j]) = BYTE
          /\ masked[j][o] = IF a + o <= r THEN d[start + o] ELSE IF a + o <= r + n THEN v[a + o - r] ELSE 0
      BY <1>7, <3>2
    <3>4. masked[j][o] \in Bit
      <4>1. PICK w : w = masked[j]
        OBVIOUS
      <4>2. w \in Seq(Bit) /\ o \in 1..Len(w)
        BY <3>3, <4>1
      <4> QED BY <4>1, <4>2, ElementIsBit
    <3>5. /\ a + o <= r <=> i <= at
          /\ a + o <= r + n <=> i <= at + n
          /\ a + o - r = i - at
      BY <1>1, <1>2, <2>1, <3>2
    <3>6. a + o <= r => start + o = i
      <4>1. j # 0 => a >= BYTE
        BY <1>1, <3>1, <3>2, Product
      <4>2. j = 0 => a = 0
        BY <3>1, <3>2, Product
      <4> QED BY <1>1, <1>2, <2>1, <3>1, <3>2, <4>1, <4>2
    <3> QED BY <2>2, <2>3, <3>1, <3>3, <3>4, <3>5, <3>6
  <2>4. CASE p - q \notin 0..last
    <3>1. i <= at \/ i > at + n
      <4>1. CASE p < q
        <5>1. c + BYTE <= start
          BY <1>2, <2>1, <4>1, Product
        <5> QED BY <1>1, <1>2, <2>1, <5>1
      <4>2. CASE p > q + last
        <5>1. p >= q + (last + 1) /\ q + (last + 1) \in Nat
          BY <4>2
        <5>2. PICK m \in Nat : m = last + 1
          OBVIOUS
        <5>3. PICK g \in Nat : g = m * BYTE /\ g = e + BYTE
          BY <1>4, <5>2, Product
        <5>4. (q + m) * BYTE = start + g
          BY <1>2, <5>3, Product
        <5>5. q + m \in Nat /\ q + m <= p
          BY <5>1, <5>2
        <5>6. (q + m) * BYTE <= p * BYTE
          BY <5>5, Product
        <5>7. start + g <= c
          BY <2>1, <5>4, <5>6
        <5>8. i = c + o /\ at = start + r /\ n + r <= e + BYTE /\ g = e + BYTE
          BY <1>2, <1>4, <2>1, <5>3
        <5>9. i > at + n
          BY <1>1, <5>7, <5>8
        <5> QED BY <5>9
      <4> QED BY <2>4, <4>1, <4>2
    <3>2. d[i] \in Bit /\ (i > at => d[i] = 0)
      BY ElementIsBit
    <3>3. i > at + n => i > at
      BY <1>1
    <3> QED BY <1>1, <2>2, <2>4, <3>1, <3>2, <3>3
  <2> QED BY <2>3, <2>4
<1>10. Spread(d, v, at, n) \in [1..Full -> Bit]
  BY <1>8, <1>9
<1> QED BY <1>1, <1>9, <1>10, SeqFcn

\* What a store of bytes is asked to append.
LEMMA RawBitsFacts ==
  ASSUME NEW v \in Seq(Bit), NEW bits \in Nat, NEW k \in Nat, k = bits - Least(bits, Len(v))
  PROVE  /\ RawBits(v, bits) \in Seq(Bit) /\ Len(RawBits(v, bits)) = bits
         /\ \A i \in 1..bits : RawBits(v, bits)[i] = IF i <= k THEN 0 ELSE v[i - k]
<1>1. CASE bits <= Len(v)
  <2>1. k = 0 /\ RawBits(v, bits) = SubSeq(v, 0 + 1, bits) /\ 0 <= bits
    BY <1>1 DEF Least, RawBits
  <2>2. /\ SubSeq(v, 0 + 1, bits) \in Seq(Bit) /\ Len(SubSeq(v, 0 + 1, bits)) = bits - 0
        /\ \A i \in 1..(bits - 0) : SubSeq(v, 0 + 1, bits)[i] = v[0 + i]
    BY <1>1, <2>1, PartFacts
  <2> QED BY <2>1, <2>2
<1>2. CASE bits > Len(v)
  <2>1. k = bits - Len(v) /\ RawBits(v, bits) = Wide(v, bits) /\ Len(v) \in Nat /\ Len(v) <= bits
    BY <1>2 DEF Least, RawBits
  <2>2. /\ Wide(v, bits) \in Seq(Bit) /\ Len(Wide(v, bits)) = bits
        /\ \A i \in 1..(bits - Len(v)) : Wide(v, bits)[i] = 0
        /\ \A i \in 1..Len(v) : Wide(v, bits)[bits - Len(v) + i] = v[i]
    BY <2>1, WideFacts
  <2>3. ASSUME NEW i \in 1..bits PROVE Wide(v, bits)[i] = IF i <= k THEN 0 ELSE v[i - k]
    <3>1. CASE i <= k
      BY <2>1, <2>2, <3>1
    <3>2. CASE i > k
      <4>1. PICK j \in 1..Len(v) : j = i - k /\ bits - Len(v) + j = i
        BY <2>1, <3>2
      <4>2. Wide(v, bits)[bits - Len(v) + j] = v[j]
        BY <2>2
      <4>3. ~(i <= k)
        BY <3>2
      <4> QED BY <4>1, <4>2, <4>3
    <3> QED BY <3>1, <3>2
  <2> QED BY <2>1, <2>2, <2>3
<1> QED BY <1>1, <1>2

\* A store of bytes appends the bits asked for, or refuses.
LEMMA RawStored ==
  ASSUME NEW b, WellFormed(b), NEW v \in Seq(Bit), Aligned(v), NEW bits \in Nat
  PROVE  Stored(b, store_raw(b, v, bits), RawBits(v, bits)) /\ RawBits(v, bits) \in Seq(Bit)
<1>1. PICK n \in Nat : n = Least(bits, Len(v)) /\ n <= bits /\ n <= Len(v)
  BY DEF Least
<1>2. PICK k \in Nat : k = bits - n /\ k + n = bits
  BY <1>1
<1>3. PICK x : x = RawBits(v, bits)
  OBVIOUS
<1>4. x \in Seq(Bit) /\ Len(x) = bits /\ \A i \in 1..bits : x[i] = IF i <= k THEN 0 ELSE v[i - k]
  <2>1. k = bits - Least(bits, Len(v))
    BY <1>1, <1>2
  <2>2. /\ RawBits(v, bits) \in Seq(Bit) /\ Len(RawBits(v, bits)) = bits
        /\ \A i \in 1..bits : RawBits(v, bits)[i] = IF i <= k THEN 0 ELSE v[i - k]
    BY <2>1, RawBitsFacts, Zenon
  <2> QED BY <1>3, <2>2
<1>5. /\ b.bit_len \in Nat /\ b.data \in Seq(Bit) /\ Len(b.data) = Full /\ b \in Builder
      /\ \A i \in 1..Full : i > b.bit_len => b.data[i] = 0
  BY DEF WellFormed, Builder
<1>6. PICK l \in Nat, at \in Nat, m \in Nat :
        l = b.bit_len /\ at = l + k /\ m = l + bits /\ m = at + n
  <2>1. b.bit_len + bits \in Nat /\ b.bit_len + bits = b.bit_len + k + n
    BY <1>2, <1>5
  <2> QED BY <1>5, <2>1
<1>7. has_capacity_bits(b, bits) <=> b.bit_len + bits < Full
  BY CapacityFacts
<1>8. PICK r : r = store_raw(b, v, bits)
  OBVIOUS
<1>9. r = IF ~has_capacity_bits(b, bits) THEN Refused(b)
          ELSE IF n = 0 THEN Done([b EXCEPT !.bit_len = at])
          ELSE Done([b EXCEPT !.bit_len = at + n, !.data = Spread(b.data, v, at, n)])
  BY <1>1, <1>2, <1>6, <1>8 DEF store_raw
<1>10. Full \in Nat
  BY SizeFacts
<1>11. CASE ~(b.bit_len + bits < Full)
  BY <1>3, <1>4, <1>7, <1>8, <1>9, <1>11 DEF Stored, Refused
<1>12. at = l + k /\ m = l + bits /\ m = at + n /\ k + n = bits
  BY <1>2, <1>6
<1>13. CASE b.bit_len + bits < Full /\ n = 0
  <2>1. r.ok = TRUE /\ r.b = [b EXCEPT !.bit_len = at]
    BY <1>7, <1>9, <1>13 DEF Done
  <2>2. m = at /\ m < Full /\ m = b.bit_len + Len(x)
    BY <1>4, <1>6, <1>13
  <2>a. r.b = [b EXCEPT !.bit_len = m, !.data = b.data]
    BY <1>5, <2>1, <2>2 DEF Builder
  <2>3. ASSUME NEW i \in 1..Full
        PROVE  b.data[i] = IF i <= b.bit_len THEN b.data[i] ELSE IF i <= m THEN x[i - b.bit_len] ELSE 0
    <3>1. i > l /\ i <= m => i - l \in 1..bits /\ i - l <= k
      BY <1>10, <1>12, <1>13
    <3>2. i > l => b.data[i] = 0
      BY <1>5, <1>6
    <3>3. i > l /\ i <= m => x[i - l] = 0
      BY <1>4, <3>1
    <3>4. i <= l \/ (i > l /\ i <= m) \/ (~(i <= l) /\ ~(i <= m) /\ i > l)
      BY <1>10
    <3> QED BY <1>6, <3>2, <3>3, <3>4
  <2>4. Appended(b, r.b, x)
    BY <1>4, <1>5, <2>2, <2>a, <2>3, AppendedBy
  <2> QED BY <1>3, <1>4, <1>8, <1>13, <2>1, <2>4 DEF Stored
<1>14. CASE b.bit_len + bits < Full /\ n # 0
  <2>1. PICK s : s = Spread(b.data, v, at, n)
    OBVIOUS
  <2>2. /\ s \in Seq(Bit) /\ Len(s) = Full
        /\ \A i \in 1..Full : s[i] = IF i <= at THEN b.data[i] ELSE IF i <= at + n THEN v[i - at] ELSE 0
    <3>1. PICK d : d = b.data
      OBVIOUS
    <3>2. n > 0 /\ at + n < Full /\ d \in Seq(Bit) /\ Len(d) = Full
      BY <1>5, <1>6, <1>12, <1>14, <3>1, SMTT(30)
    <3>3. \A i \in 1..Full : i > at => d[i] = 0
      <4>1. \A i \in 1..Full : i > at => i > l
        BY <1>10, <1>12
      <4> QED BY <1>5, <1>6, <3>1, <4>1
    <3>4. /\ Spread(d, v, at, n) \in Seq(Bit) /\ Len(Spread(d, v, at, n)) = Full
          /\ \A i \in 1..Full : Spread(d, v, at, n)[i] = IF i <= at THEN d[i]
                                                         ELSE IF i <= at + n THEN v[i - at] ELSE 0
      <4>1. n <= Len(v) /\ n > 0 /\ at + n < Full /\ d \in Seq(Bit) /\ Len(d) = Full
        BY <1>1, <3>2
      <4> QED BY <3>3, <4>1, SpreadFacts
    <3> QED BY <2>1, <3>1, <3>4
  <2>3. r.ok = TRUE /\ r.b = [b EXCEPT !.bit_len = m, !.data = s]
    BY <1>6, <1>7, <1>9, <1>12, <1>14, <2>1 DEF Done
  <2>4. ASSUME NEW i \in 1..Full
        PROVE  s[i] = IF i <= b.bit_len THEN b.data[i] ELSE IF i <= m THEN x[i - b.bit_len] ELSE 0
    <3>1. CASE i <= l
      <4>1. i <= at
        BY <1>10, <1>12, <3>1
      <4> QED BY <1>6, <2>2, <3>1, <4>1
    <3>2. CASE i > l /\ i <= at
      <4>1. PICK j \in 1..bits : j = i - l /\ j <= k /\ i <= m /\ ~(i <= l)
        BY <1>10, <1>12, <3>2
      <4>2. b.data[i] = 0
        BY <1>5, <1>6, <3>2
      <4> QED BY <1>4, <1>6, <2>2, <3>2, <4>1, <4>2
    <3>3. CASE i > at /\ i <= m
      <4>1. PICK j \in 1..bits : j = i - l /\ ~(j <= k) /\ ~(i <= l) /\ ~(i <= at) /\ j - k = i - at
        BY <1>10, <1>12, <3>3
      <4>2. x[j] = v[i - at]
        BY <1>4, <4>1
      <4> QED BY <1>6, <1>12, <2>2, <3>3, <4>1, <4>2
    <3>4. CASE i > m
      <4>1. ~(i <= l) /\ ~(i <= at) /\ ~(i <= at + n) /\ ~(i <= m)
        BY <1>10, <1>12, <3>4
      <4> QED BY <1>6, <2>2, <4>1
    <3> QED BY <1>10, <3>1, <3>2, <3>3, <3>4
  <2>5. Appended(b, r.b, x)
    <3>1. m < Full /\ m = b.bit_len + Len(x)
      BY <1>4, <1>6, <1>14
    <3> QED BY <1>4, <2>2, <2>3, <2>4, <3>1, AppendedBy
  <2> QED BY <1>3, <1>4, <1>8, <1>14, <2>3, <2>5 DEF Stored
<1> QED BY <1>3, <1>4, <1>11, <1>13, <1>14

=============================================================================
