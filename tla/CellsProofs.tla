---------------------------- MODULE CellsProofs ----------------------------
(***************************************************************************)
(* Every store leaves a builder well formed, so the array is zero behind   *)
(* the bits in use whatever is stored, prepended or taken back.            *)
(***************************************************************************)
EXTENDS CellBuilderProofs, FiniteSetTheorems, WellFoundedInduction, NaturalsInduction

\* A store that appends keeps the builder well formed, and so does a refusal.
LEMMA StoredIsFormed ==
  ASSUME NEW b, WellFormed(b), NEW r, NEW x \in Seq(Bit), Stored(b, r, x)
  PROVE  WellFormed(r.b) /\ r.b.refs = b.refs
<1>1. CASE Appended(b, r.b, x)
  BY <1>1, AppendedIsFormed DEF Appended
<1>2. CASE r.b = b
  BY <1>2
<1> QED BY <1>1, <1>2 DEF Stored

\* The cell of ones.
LEMMA OnesStored ==
  ASSUME NEW b, WellFormed(b), NEW n \in Nat
  PROVE  Stored(b, store_ones(b, n), Ones(n))
<1>1. Full \in Nat /\ CAPACITY \in Nat /\ Full = CAPACITY * BYTE
  BY SizeFacts DEF Full
<1>2. PICK v : v = Ones(Full)
  OBVIOUS
<1>3. v \in Seq(Bit) /\ Len(v) = Full /\ \A i \in 1..Full : v[i] = 1
  BY <1>1, <1>2, ZerosFacts
<1>4. Aligned(v)
  BY <1>1, <1>3 DEF Aligned
<1>5. PICK x : x = RawBits(v, n)
  OBVIOUS
<1>6. PICK r : r = store_ones(b, n)
  OBVIOUS
<1>7. Stored(b, r, x) /\ x \in Seq(Bit)
  <2>1. r = store_raw(b, v, n)
    BY <1>1, <1>2, <1>6 DEF store_ones, Full
  <2> QED BY <1>3, <1>4, <1>5, <2>1, RawStored
<1>8. PICK k \in Nat : k = n - Least(n, Len(v)) /\ (n <= Full => k = 0)
  BY <1>1, <1>3 DEF Least
<1>9. Len(x) = n /\ \A i \in 1..n : x[i] = IF i <= k THEN 0 ELSE v[i - k]
  <2>1. /\ RawBits(v, n) \in Seq(Bit) /\ Len(RawBits(v, n)) = n
        /\ \A i \in 1..n : RawBits(v, n)[i] = IF i <= k THEN 0 ELSE v[i - k]
    BY <1>3, <1>8, RawBitsFacts, Zenon
  <2> QED BY <1>5, <2>1
<1>10. Ones(n) \in Seq(Bit) /\ Len(Ones(n)) = n /\ \A i \in 1..n : Ones(n)[i] = 1
  BY ZerosFacts
<1>11. b.bit_len \in Nat
  BY DEF WellFormed, Builder
<1>12. CASE n <= Full
  <2>1. \A i \in 1..n : x[i] = 1
    <3>1. \A i \in 1..n : ~(i <= k) /\ i - k = i /\ i \in 1..Full
      BY <1>1, <1>8, <1>12
    <3> QED BY <1>3, <1>9, <3>1
  <2>2. x = Ones(n)
    BY <1>7, <1>9, <1>10, <2>1, SeqSame
  <2> QED BY <1>6, <1>7, <2>2
<1>13. CASE n > Full
  <2>1. ~(b.bit_len + Len(x) < Full) /\ ~(b.bit_len + Len(Ones(n)) < Full)
    BY <1>1, <1>9, <1>10, <1>11, <1>13
  <2> QED BY <1>6, <1>7, <2>1 DEF Stored
<1> QED BY <1>1, <1>12, <1>13

\* References do not disturb the data.
LEMMA RefsKept ==
  ASSUME NEW b, WellFormed(b), NEW cells \in Seq(RefCells)
  PROVE  WellFormed([b EXCEPT !.refs = cells])
BY DEF WellFormed, Builder

LEMMA ReferenceStored ==
  ASSUME NEW b, WellFormed(b), NEW cell \in RefCells
  PROVE  WellFormed(store_reference(b, cell).b)
<1>1. b.refs \in Seq(RefCells)
  BY DEF WellFormed, Builder
<1>2. Append(b.refs, cell) \in Seq(RefCells)
  BY <1>1
<1>3. WellFormed([b EXCEPT !.refs = Append(b.refs, cell)])
  BY <1>2, RefsKept
<1> QED BY <1>3 DEF store_reference, Done, Refused

LEMMA ReferencesStored ==
  ASSUME NEW b, WellFormed(b), NEW cells \in Seq(RefCells), Len(b.refs) + Len(cells) <= MAX_REF_COUNT
  PROVE  /\ store_references(b, cells) = Done([b EXCEPT !.refs = b.refs \o cells])
         /\ WellFormed(store_references(b, cells).b)
<1>1. b.refs \in Seq(RefCells)
  BY DEF WellFormed, Builder
<1>2. b.refs \o cells \in Seq(RefCells) /\ Len(b.refs) \in Nat /\ Len(cells) \in Nat
  BY <1>1
<1>3. Len(cells) <= MAX_REF_COUNT - Len(b.refs)
  BY <1>2, SizeFacts
<1>4. store_references(b, cells) = Done([b EXCEPT !.refs = b.refs \o cells])
  BY <1>3 DEF store_references
<1>5. WellFormed([b EXCEPT !.refs = b.refs \o cells])
  BY <1>2, RefsKept
<1> QED BY <1>4, <1>5 DEF Done

-----------------------------------------------------------------------------
(* rewind_bits, clear_bits and prepend_raw *)

\* The first n bits are kept and the others are cleared.
Rewound(b, c, n) ==
  /\ c \in Builder /\ Len(c.data) = Full /\ c.refs = b.refs /\ c.bit_len = n
  /\ \A i \in 1..Full : c.data[i] = IF i <= n THEN b.data[i] ELSE 0

LEMMA RewoundIsFormed ==
  ASSUME NEW b, WellFormed(b), NEW n \in Nat, n <= b.bit_len, NEW c, Rewound(b, c, n)
  PROVE  WellFormed(c)
<1>1. b.bit_len \in Nat /\ b.bit_len < Full /\ Full \in Nat
  BY SizeFacts DEF WellFormed, Builder
<1>2. n < Full /\ \A i \in 1..Full : i > n => ~(i <= n)
  BY <1>1
<1> QED BY <1>2 DEF WellFormed, Rewound

LEMMA RewoundBy ==
  ASSUME NEW b, WellFormed(b), NEW n \in Nat, NEW d \in Seq(Bit), Len(d) = Full,
         \A i \in 1..Full : d[i] = IF i <= n THEN b.data[i] ELSE 0,
         NEW c, c = [b EXCEPT !.bit_len = n, !.data = d]
  PROVE  Rewound(b, c, n)
BY DEF WellFormed, Builder, Rewound

\* The array c is d with the bits between two places cleared.
Cleared(c, d, first, last) ==
  /\ c \in Seq(Bit) /\ Len(c) = Full
  /\ \A i \in 1..Full : c[i] = IF first < i /\ i <= last THEN 0 ELSE d[i]

\* The bytes behind the new length are cleared, and part of the one it is in.
LEMMA ClearedBytes ==
  ASSUME NEW d \in Seq(Bit), Len(d) = Full, NEW q \in Nat, NEW start \in Nat, start = q * BYTE,
         start <= Full, NEW left \in Nat, start + left < Full + 1,
         \A i \in 1..Full : i > start + left => d[i] = 0
  PROVE  Cleared(Put(d, q, Zeros(DivCeil(left, BYTE) * BYTE)), d, start, Full)
<1>1. BYTE \in Nat /\ BYTE > 0 /\ Full \in Nat
  BY SizeFacts
<1>2. PICK m \in Nat, k \in Nat : m = DivCeil(left, BYTE) /\ k = m * BYTE /\ left <= k /\ k < left + BYTE
  BY CeilFacts
<1>3. start + k <= Full
  <2>1. q * BYTE + m * BYTE < Full + BYTE
    <3>1. start + k < Full + BYTE
      <4>1. start + left <= Full /\ k < left + BYTE
        BY <1>1, <1>2
      <4> QED BY <1>1, <4>1
    <3> QED BY <1>2, <3>1
  <2>2. q * BYTE + m * BYTE <= Full
    BY <2>1, FitsArray
  <2> QED BY <1>2, <2>2
<1>4. PICK z : z = Zeros(k)
  OBVIOUS
<1>5. z \in Seq(Bit) /\ Len(z) = k /\ \A i \in 1..k : z[i] = 0
  BY <1>4, ZerosFacts
<1>6. PICK c : c = Put(d, q, z)
  OBVIOUS
<1>7. IsPut(Put(d, q, z), d, start, z, k, Full)
  BY <1>3, <1>5, PutAt, Zenon
<1>8. ASSUME NEW i \in 1..Full PROVE c[i] = IF i <= start THEN d[i] ELSE 0
  <2>1. c[i] = IF start < i /\ i <= start + k THEN z[i - start] ELSE d[i]
    BY <1>6, <1>7 DEF IsPut
  <2>2. CASE i <= start
    BY <1>1, <2>1, <2>2
  <2>3. CASE start < i /\ i <= start + k
    <3>1. i - start \in 1..k /\ ~(i <= start)
      BY <1>1, <2>3
    <3> QED BY <1>5, <2>1, <2>3, <3>1
  <2>4. CASE i > start + k
    <3>1. i > start + left /\ ~(i <= start + k) /\ ~(i <= start)
      <4>1. left <= k
        BY <1>2
      <4> QED BY <1>1, <2>4, <4>1
    <3> QED BY <2>1, <3>1
  <2> QED BY <1>1, <2>2, <2>3, <2>4
<1>9. c \in Seq(Bit) /\ Len(c) = Full
  BY <1>6, <1>7 DEF IsPut
<1>10. c = Put(d, q, Zeros(DivCeil(left, BYTE) * BYTE))
  BY <1>2, <1>4, <1>6
<1>11. \A i \in 1..Full : (start < i /\ i <= Full) <=> ~(i <= start)
  BY <1>1
<1> QED BY <1>8, <1>9, <1>10, <1>11 DEF Cleared

\* The byte the new length is in.
LEMMA ClearedPart ==
  ASSUME NEW d \in Seq(Bit), Len(d) = Full, NEW q \in Nat, NEW start \in Nat, start = q * BYTE,
         start + BYTE <= Full, NEW r \in Nat, r > 0, r < BYTE
  PROVE  Cleared(Put(d, q, And(Byte(d, q), HighMask(r))), d, start + r, start + BYTE)
<1>1. BYTE \in Nat /\ BYTE > 0 /\ Full \in Nat
  BY SizeFacts
<1>2. PICK x : x = Byte(d, q)
  OBVIOUS
<1>3. x \in Seq(Bit) /\ Len(x) = BYTE /\ \A o \in 1..BYTE : x[o] = d[start + o]
  <2>1. start + BYTE <= Len(d)
    OBVIOUS
  <2>2. IsByteOf(Byte(d, q), d, start)
    BY <2>1, ByteIs, Zenon
  <2> QED BY <1>2, <2>2 DEF IsByteOf
<1>4. PICK mask : mask = HighMask(r)
  OBVIOUS
<1>5. mask \in Seq(Bit) /\ Len(mask) = BYTE /\ \A o \in 1..BYTE : mask[o] = IF o <= r THEN 1 ELSE 0
  <2>1. /\ HighMask(r) \in Seq(Bit) /\ Len(HighMask(r)) = BYTE
        /\ \A i \in 1..BYTE : HighMask(r)[i] = IF r = 0 \/ i <= r THEN 1 ELSE 0
    BY MaskFacts
  <2> QED BY <1>4, <2>1
<1>6. PICK w : w = And(x, mask)
  OBVIOUS
<1>7. w \in Seq(Bit) /\ Len(w) = BYTE /\ \A o \in 1..BYTE : w[o] = IF o <= r THEN d[start + o] ELSE 0
  <2>1. Len(mask) = Len(x)
    BY <1>3, <1>5
  <2>2. /\ And(x, mask) \in Seq(Bit) /\ Len(And(x, mask)) = Len(x)
        /\ \A i \in 1..Len(x) : And(x, mask)[i] = IF mask[i] = 1 THEN x[i] ELSE 0
    BY <1>3, <1>5, <2>1, AndFacts, Zenon
  <2> QED BY <1>3, <1>5, <1>6, <2>2
<1>8. PICK c : c = Put(d, q, w)
  OBVIOUS
<1>9. IsPut(Put(d, q, w), d, start, w, BYTE, Full)
  BY <1>7, PutAt, Zenon
<1>10. ASSUME NEW i \in 1..Full PROVE c[i] = IF start + r < i /\ i <= start + BYTE THEN 0 ELSE d[i]
  <2>1. c[i] = IF start < i /\ i <= start + BYTE THEN w[i - start] ELSE d[i]
    BY <1>8, <1>9 DEF IsPut
  <2>2. CASE start < i /\ i <= start + BYTE
    <3>1. PICK o \in 1..BYTE : o = i - start /\ start + o = i /\ (o <= r <=> ~(start + r < i))
      BY <1>1, <2>2
    <3>2. w[o] = IF o <= r THEN d[i] ELSE 0
      BY <1>7, <3>1
    <3> QED BY <2>1, <2>2, <3>1, <3>2
  <2>3. CASE ~(start < i /\ i <= start + BYTE)
    <3>1. ~(start + r < i /\ i <= start + BYTE)
      BY <1>1, <2>3
    <3> QED BY <2>1, <2>3, <3>1
  <2> QED BY <2>2, <2>3
<1>11. c \in Seq(Bit) /\ Len(c) = Full
  BY <1>8, <1>9 DEF IsPut
<1>12. c = Put(d, q, And(Byte(d, q), HighMask(r)))
  BY <1>2, <1>4, <1>6, <1>8
<1> QED BY <1>10, <1>11, <1>12 DEF Cleared

LEMMA BitsRewound ==
  ASSUME NEW b, WellFormed(b), NEW bits \in Nat
  PROVE  \/ bits > b.bit_len /\ rewind_bits(b, bits) = Refused(b)
         \/ /\ bits <= b.bit_len /\ rewind_bits(b, bits).ok = TRUE
            /\ Rewound(b, rewind_bits(b, bits).b, b.bit_len - bits)
<1>1. PICK l \in Nat, d \in Seq(Bit) : l = b.bit_len /\ d = b.data /\ l < Full
  BY DEF WellFormed, Builder
<1>2. /\ d \in Seq(Bit) /\ Len(d) = Full /\ b \in Builder
      /\ \A i \in 1..Full : i > l => d[i] = 0
  BY <1>1 DEF WellFormed, Builder
<1>3. BYTE \in Nat /\ BYTE > 0 /\ Full \in Nat /\ CAPACITY \in Nat
  BY SizeFacts
<1>4. CASE bits = 0
  <2>1. rewind_bits(b, bits) = Done(b)
    BY <1>4 DEF rewind_bits
  <2>2. b.bit_len - bits = l /\ bits <= b.bit_len
    BY <1>1, <1>4
  <2>3. \A i \in 1..Full : d[i] = IF i <= l THEN d[i] ELSE 0
    BY <1>2, <1>3
  <2>4. Rewound(b, b, l)
    BY <1>1, <1>2, <2>3 DEF Rewound
  <2> QED BY <2>1, <2>2, <2>4 DEF Done
<1>5. CASE bits # 0 /\ bits > l
  <2>1. b.bit_len - bits < 0
    BY <1>1, <1>5
  <2> QED BY <1>1, <1>5, <2>1 DEF rewind_bits
<1>6. CASE bits # 0 /\ bits <= l
  <2>1. PICK len \in Nat : len = b.bit_len - bits /\ len + bits = l /\ len < Full
    BY <1>1, <1>3, <1>6
  <2>2. PICK q \in Nat, r \in Nat, start \in Nat :
          q = len \div BYTE /\ r = len % BYTE /\ r < BYTE /\ start = q * BYTE /\ len = start + r
    BY DivMod
  <2>a. r < BYTE /\ len = start + r
    BY <2>2
  <2>b. start = q * BYTE
    BY <2>2
  <2>3. start + BYTE <= Full
    <3>1. start < Full
      BY <1>3, <2>1, <2>a
    <3> QED BY <1>3, <2>2, <3>1, Product DEF Full
  <2>4. PICK c : c = rewind_bits(b, bits).b
    OBVIOUS
  <2>5. CASE r = 0
    <3>1. PICK e : e = Put(d, q, Zeros(DivCeil(bits, BYTE) * BYTE))
      OBVIOUS
    <3>2. rewind_bits(b, bits) = Done([b EXCEPT !.bit_len = len, !.data = e])
      <4>1. len = b.bit_len - bits /\ len \div BYTE = q /\ len % BYTE = 0 /\ ~(len < 0) /\ bits # 0
        BY <1>6, <2>1, <2>2, <2>5
      <4> QED BY <1>1, <3>1, <4>1, Zenon DEF rewind_bits
    <3>3. start <= Full /\ start + bits < Full + 1 /\ start + bits = l /\ start = len
      BY <1>1, <1>3, <2>1, <2>a, <2>3, <2>5
    <3>4. \A i \in 1..Full : i > start + bits => d[i] = 0
      BY <1>2, <3>3
    <3>5. e \in Seq(Bit) /\ Len(e) = Full /\ \A i \in 1..Full : e[i] = IF i <= start THEN d[i] ELSE 0
      <4>1. Cleared(Put(d, q, Zeros(DivCeil(bits, BYTE) * BYTE)), d, start, Full)
        BY <1>2, <2>b, <3>3, <3>4, ClearedBytes, Zenon
      <4>2. \A i \in 1..Full : (start < i /\ i <= Full) <=> ~(i <= start)
        BY <1>3
      <4> QED BY <3>1, <4>1, <4>2 DEF Cleared
    <3>6. Rewound(b, c, len)
      <4>1. \A i \in 1..Full : e[i] = IF i <= len THEN b.data[i] ELSE 0
        BY <1>1, <3>3, <3>5
      <4>2. c = [b EXCEPT !.bit_len = len, !.data = e]
        BY <2>4, <3>2 DEF Done
      <4> QED BY <3>5, <4>1, <4>2, RewoundBy
    <3> QED BY <1>1, <1>6, <2>1, <2>4, <3>2, <3>6 DEF Done
  <2>6. CASE r # 0
    <3>1. PICK f : f = Put(d, q, And(Byte(d, q), HighMask(r)))
      OBVIOUS
    <3>2. /\ f \in Seq(Bit) /\ Len(f) = Full
          /\ \A i \in 1..Full : f[i] = IF start + r < i /\ i <= start + BYTE THEN 0 ELSE d[i]
      <4>1. r > 0
        BY <2>6
      <4>2. Cleared(Put(d, q, And(Byte(d, q), HighMask(r))), d, start + r, start + BYTE)
        BY <1>2, <2>a, <2>b, <2>3, <4>1, ClearedPart, Zenon
      <4> QED BY <3>1, <4>2 DEF Cleared
    <3>3. PICK left \in Nat : left = IF bits > BYTE - r THEN bits - (BYTE - r) ELSE 0
      <4>1. (IF bits > BYTE - r THEN bits - (BYTE - r) ELSE 0) \in Nat
        BY <1>3, <2>a
      <4> QED BY <4>1
    <3>4. PICK e : e = Put(f, q + 1, Zeros(DivCeil(left, BYTE) * BYTE))
      OBVIOUS
    <3>5. rewind_bits(b, bits) = Done([b EXCEPT !.bit_len = len, !.data = e])
      BY <1>1, <1>6, <2>1, <2>2, <2>6, <3>1, <3>3, <3>4 DEF rewind_bits
    <3>6. PICK p \in Nat, next \in Nat : p = q + 1 /\ next = p * BYTE /\ next = start + BYTE
      BY <1>3, <2>2, Product
    <3>7. next <= Full /\ next + left < Full + 1 /\ l <= next + left
      <4>1. len = start + r /\ len + bits = l /\ l < Full /\ r < BYTE
        BY <1>1, <2>1, <2>a
      <4> QED BY <1>3, <2>3, <3>3, <3>6, <4>1
    <3>8. ASSUME NEW i \in 1..Full, i > next + left PROVE f[i] = 0
      <4>1. i > l
        BY <1>3, <3>7, <3>8
      <4> QED BY <1>2, <3>2, <4>1
    <3>9. e \in Seq(Bit) /\ Len(e) = Full /\ \A i \in 1..Full : e[i] = IF i <= next THEN f[i] ELSE 0
      <4>1. Cleared(Put(f, p, Zeros(DivCeil(left, BYTE) * BYTE)), f, next, Full)
        BY <3>2, <3>6, <3>7, <3>8, ClearedBytes
      <4>2. \A i \in 1..Full : (next < i /\ i <= Full) <=> ~(i <= next)
        BY <1>3
      <4> QED BY <3>4, <3>6, <4>1, <4>2 DEF Cleared
    <3>10. ASSUME NEW i \in 1..Full PROVE e[i] = IF i <= len THEN d[i] ELSE 0
      <4>1. len = start + r /\ next = start + BYTE /\ r < BYTE
        BY <2>2, <3>6
      <4>2. CASE i <= len
        <5>1. i <= next /\ ~(start + r < i)
          BY <1>3, <4>1, <4>2
        <5> QED BY <3>2, <3>9, <4>2, <5>1
      <4>3. CASE i > len /\ i <= next
        <5>1. ~(i <= len) /\ start + r < i /\ i <= start + BYTE
          BY <1>3, <4>1, <4>3
        <5> QED BY <3>2, <3>9, <4>3, <5>1
      <4>4. CASE i > next
        <5>1. ~(i <= len) /\ ~(i <= next)
          BY <1>3, <4>1, <4>4
        <5> QED BY <3>9, <5>1
      <4> QED BY <1>3, <4>2, <4>3, <4>4
    <3>11. Rewound(b, c, len)
      <4>1. \A i \in 1..Full : e[i] = IF i <= len THEN b.data[i] ELSE 0
        BY <1>1, <3>10
      <4>2. c = [b EXCEPT !.bit_len = len, !.data = e]
        BY <2>4, <3>5 DEF Done
      <4> QED BY <3>9, <4>1, <4>2, RewoundBy
    <3>12. rewind_bits(b, bits).ok = TRUE
      BY <3>5 DEF Done
    <3>13. bits <= b.bit_len /\ len = b.bit_len - bits
      BY <1>1, <1>6, <2>1
    <3> QED BY <2>4, <3>11, <3>12, <3>13
  <2> QED BY <2>5, <2>6
<1>7. bits = 0 \/ (bits # 0 /\ bits > l) \/ (bits # 0 /\ bits <= l)
  OBVIOUS
<1> QED BY <1>4, <1>5, <1>6, <1>7

\* A fresh builder, with references or without.
LEMMA NewIsFormed ==
  ASSUME NEW refs \in Seq(RefCells)
  PROVE  WellFormed([new EXCEPT !.refs = refs]) /\ WellFormed(new)
<1>1. Full \in Nat /\ Full > 0 /\ 0 \in Nat /\ Full = CAPACITY * BYTE
  BY SizeFacts DEF Full
<1>2. PICK z : z = Zeros(Full) /\ z \in Seq(Bit) /\ Len(z) = Full /\ \A i \in 1..Full : z[i] = 0
  BY <1>1, ZerosFacts
<1>3. new = [data |-> z, bit_len |-> 0, refs |-> <<>>] /\ <<>> \in Seq(RefCells)
  BY <1>1, <1>2 DEF new
<1>4. WellFormed(new)
  BY <1>1, <1>2, <1>3 DEF WellFormed, Builder
<1> QED BY <1>4, RefsKept

LEMMA BitsCleared ==
  ASSUME NEW b, WellFormed(b)
  PROVE  Rewound(b, clear_bits(b), 0) /\ WellFormed(clear_bits(b))
<1>1. Full \in Nat /\ Full > 0 /\ 0 \in Nat /\ Full = CAPACITY * BYTE
  BY SizeFacts DEF Full
<1>2. PICK z : z = Zeros(Full) /\ z \in Seq(Bit) /\ Len(z) = Full /\ \A i \in 1..Full : z[i] = 0
  BY <1>1, ZerosFacts
<1>3. clear_bits(b) = [b EXCEPT !.bit_len = 0, !.data = z]
  BY <1>1, <1>2 DEF clear_bits, WellFormed, Builder
<1>4. \A i \in 1..Full : z[i] = IF i <= 0 THEN b.data[i] ELSE 0
  BY <1>1, <1>2
<1>5. Rewound(b, clear_bits(b), 0)
  BY <1>1, <1>2, <1>3, <1>4, RewoundBy
<1>6. 0 <= b.bit_len
  BY DEF WellFormed, Builder
<1> QED BY <1>1, <1>5, <1>6, RewoundIsFormed

\* The bits in use.
LEMMA TextFacts ==
  ASSUME NEW b, WellFormed(b)
  PROVE  /\ RawBits(b.data, b.bit_len) = Text(b) /\ Text(b) \in Seq(Bit) /\ Len(Text(b)) = b.bit_len
         /\ \A i \in 1..b.bit_len : Text(b)[i] = b.data[i]
         /\ Aligned(b.data) /\ b.data \in Seq(Bit) /\ b.bit_len \in Nat
<1>1. PICK l \in Nat, d \in Seq(Bit) : l = b.bit_len /\ d = b.data /\ l < Full /\ Len(d) = Full
  BY DEF WellFormed, Builder
<1>2. 0 \in Nat /\ 0 <= l /\ l <= Len(d) /\ CAPACITY \in Nat /\ Full = CAPACITY * BYTE
  BY <1>1, SizeFacts DEF Full
<1>3. /\ SubSeq(d, 0 + 1, l) \in Seq(Bit) /\ Len(SubSeq(d, 0 + 1, l)) = l - 0
      /\ \A i \in 1..(l - 0) : SubSeq(d, 0 + 1, l)[i] = d[0 + i]
  BY <1>2, PartFacts
<1>4. Text(b) = SubSeq(d, 0 + 1, l) /\ RawBits(b.data, b.bit_len) = Text(b)
  BY <1>1, <1>2 DEF Text, RawBits
<1>5. Aligned(d)
  BY <1>1, <1>2 DEF Aligned
<1> QED BY <1>1, <1>3, <1>4, <1>5

\* The value and then the bits of the builder, or nothing.
LEMMA RawPrepended ==
  ASSUME NEW b, WellFormed(b), NEW v \in Seq(Bit), Aligned(v), NEW bits \in Nat
  PROVE  \/ bits = 0 /\ prepend_raw(b, v, bits) = Done(b)
         \/ /\ bits # 0 /\ b.bit_len + bits < Full /\ prepend_raw(b, v, bits).ok = TRUE
            /\ Appended([new EXCEPT !.refs = b.refs], prepend_raw(b, v, bits).b, RawBits(v, bits) \o Text(b))
         \/ bits # 0 /\ ~(b.bit_len + bits < Full) /\ prepend_raw(b, v, bits) = Refused(b)
<1>1. CASE bits = 0
  BY <1>1 DEF prepend_raw
<1>2. has_capacity_bits(b, bits) <=> b.bit_len + bits < Full
  BY CapacityFacts
<1>3. CASE bits # 0 /\ ~(b.bit_len + bits < Full)
  BY <1>2, <1>3 DEF prepend_raw
<1>4. CASE bits # 0 /\ b.bit_len + bits < Full
  <2>1. PICK a : a = [new EXCEPT !.refs = b.refs] /\ WellFormed(a)
    BY NewIsFormed DEF WellFormed, Builder
  <2>2. a.bit_len = 0
    BY <2>1 DEF new
  <2>3. PICK x : x = RawBits(v, bits)
    OBVIOUS
  <2>4. x \in Seq(Bit) /\ Len(x) = bits
    <3>1. PICK k \in Nat : k = bits - Least(bits, Len(v))
      BY DEF Least
    <3> QED BY <2>3, <3>1, RawBitsFacts
  <2>5. PICK r : r = store_raw(a, v, bits)
    OBVIOUS
  <2>6. Stored(a, r, x)
    BY <2>1, <2>3, <2>5, RawStored
  <2>7. PICK l \in Nat, y \in Seq(Bit) : l = b.bit_len /\ y = Text(b) /\ Len(y) = l
    BY TextFacts
  <2>8. l + bits < Full /\ 0 + bits < Full /\ bits + l < Full
    BY <1>4, <2>7, SizeFacts
  <2>9. r.ok = TRUE /\ Appended(a, r.b, x)
    BY <2>2, <2>4, <2>6, <2>8 DEF Stored
  <2>10. WellFormed(r.b) /\ r.b.bit_len = bits
    <3>1. r.b.bit_len = a.bit_len + Len(x)
      BY <2>9 DEF Appended
    <3> QED BY <2>1, <2>2, <2>4, <2>9, <3>1, AppendedIsFormed
  <2>11. PICK c : c = r.b
    OBVIOUS
  <2>12. PICK s : s = store_raw(c, b.data, b.bit_len)
    OBVIOUS
  <2>13. Stored(c, s, y)
    <3>1. WellFormed(c) /\ b.data \in Seq(Bit) /\ Aligned(b.data) /\ b.bit_len \in Nat
      BY <2>10, <2>11, TextFacts
    <3>2. Stored(c, store_raw(c, b.data, b.bit_len), RawBits(b.data, b.bit_len))
      BY <3>1, RawStored
    <3> QED BY <2>7, <2>12, <3>2, TextFacts
  <2>14. s.ok = TRUE /\ Appended(c, s.b, y)
    BY <2>7, <2>8, <2>10, <2>11, <2>13 DEF Stored
  <2>15. Appended(a, s.b, x \o y)
    BY <2>1, <2>4, <2>7, <2>9, <2>11, <2>14, AppendedTwice
  <2>16. prepend_raw(b, v, bits) = s
    BY <1>2, <1>4, <2>1, <2>5, <2>9, <2>11, <2>12, <2>14 DEF prepend_raw, Chain
  <2> QED BY <1>4, <2>1, <2>3, <2>7, <2>14, <2>15, <2>16
<1> QED BY <1>1, <1>3, <1>4

LEMMA PrependedIsFormed ==
  ASSUME NEW b, WellFormed(b), NEW v \in Seq(Bit), Aligned(v), NEW bits \in Nat
  PROVE  WellFormed(prepend_raw(b, v, bits).b)
<1>1. WellFormed([new EXCEPT !.refs = b.refs])
  BY NewIsFormed DEF WellFormed, Builder
<1>2. RawBits(v, bits) \o Text(b) \in Seq(Bit)
  <2>1. RawBits(v, bits) \in Seq(Bit)
    BY RawStored
  <2> QED BY <2>1, TextFacts, BitJoin
<1>3. PICK r : r = prepend_raw(b, v, bits)
  OBVIOUS
<1>4. \/ r = Done(b) \/ r = Refused(b)
      \/ Appended([new EXCEPT !.refs = b.refs], r.b, RawBits(v, bits) \o Text(b))
  BY <1>3, RawPrepended
<1>5. CASE r = Done(b) \/ r = Refused(b)
  BY <1>3, <1>5 DEF Done, Refused
<1>6. CASE Appended([new EXCEPT !.refs = b.refs], r.b, RawBits(v, bits) \o Text(b))
  BY <1>1, <1>2, <1>3, <1>6, AppendedIsFormed
<1> QED BY <1>4, <1>5, <1>6

-----------------------------------------------------------------------------
(* store_builder and store_slice: bits and references *)

\* Both are stored, or neither.
StoredWith(b, r, x, cells) ==
  \/ /\ b.bit_len + Len(x) < Full /\ Len(b.refs) + Len(cells) <= MAX_REF_COUNT /\ r.ok = TRUE
     /\ \E c : Appended(b, c, x) /\ r.b = [c EXCEPT !.refs = b.refs \o cells]
  \/ /\ ~(b.bit_len + Len(x) < Full /\ Len(b.refs) + Len(cells) <= MAX_REF_COUNT)
     /\ r.ok = FALSE /\ r.b = b

LEMMA StoredWithIsFormed ==
  ASSUME NEW b, WellFormed(b), NEW r, NEW x \in Seq(Bit), NEW cells \in Seq(RefCells), StoredWith(b, r, x, cells)
  PROVE  WellFormed(r.b)
<1>1. CASE r.b = b
  BY <1>1
<1>2. CASE \E c : Appended(b, c, x) /\ r.b = [c EXCEPT !.refs = b.refs \o cells]
  <2>1. PICK c : Appended(b, c, x) /\ r.b = [c EXCEPT !.refs = b.refs \o cells]
    BY <1>2
  <2>2. WellFormed(c)
    BY <2>1, AppendedIsFormed
  <2>3. b.refs \o cells \in Seq(RefCells)
    BY DEF WellFormed, Builder
  <2> QED BY <2>1, <2>2, <2>3, RefsKept, ZenonT(40)
<1> QED BY <1>1, <1>2 DEF StoredWith

\* The references follow the bits.
LEMMA RefsFollow ==
  ASSUME NEW b, WellFormed(b), NEW x \in Seq(Bit), NEW r, Stored(b, r, x), b.bit_len + Len(x) < Full,
         NEW cells \in Seq(RefCells), Len(b.refs) + Len(cells) <= MAX_REF_COUNT
  PROVE  StoredWith(b, store_references(r.b, cells), x, cells) /\ r.ok = TRUE
<1>1. r.ok = TRUE /\ Appended(b, r.b, x)
  BY DEF Stored
<1>2. WellFormed(r.b) /\ r.b.refs = b.refs
  BY StoredIsFormed
<1>3. PICK c : c = r.b
  OBVIOUS
<1>4. store_references(c, cells) = Done([c EXCEPT !.refs = c.refs \o cells])
  BY <1>2, <1>3, ReferencesStored
<1>5. PICK s : s = store_references(r.b, cells)
  OBVIOUS
<1>6. s.ok = TRUE /\ s.b = [c EXCEPT !.refs = b.refs \o cells]
  <2>1. PICK e : e = [c EXCEPT !.refs = c.refs \o cells]
    OBVIOUS
  <2>2. c.refs = b.refs
    BY <1>2, <1>3
  <2>3. e = [c EXCEPT !.refs = b.refs \o cells]
    BY <2>1, <2>2
  <2>4. s = Done(e)
    BY <1>3, <1>4, <1>5, <2>1
  <2> QED BY <2>3, <2>4 DEF Done
<1>7. StoredWith(b, s, x, cells)
  BY <1>1, <1>3, <1>6, Zenon DEF StoredWith
<1> QED BY <1>1, <1>5, <1>7

LEMMA BuilderStored ==
  ASSUME NEW b, WellFormed(b), NEW other, WellFormed(other)
  PROVE  StoredWith(b, store_builder(b, other), Text(other), other.refs)
<1>1. PICK l \in Nat, y \in Seq(Bit) : l = other.bit_len /\ y = Text(other) /\ Len(y) = l
  BY TextFacts
<1>2. has_capacity_bits(b, l) <=> b.bit_len + l < Full
  BY CapacityFacts
<1>3. PICK cells \in Seq(RefCells) : cells = other.refs
  BY DEF WellFormed, Builder
<1>4. CASE ~(b.bit_len + l < Full /\ Len(b.refs) + Len(cells) <= MAX_REF_COUNT)
  <2>1. store_builder(b, other) = Refused(b)
    BY <1>1, <1>2, <1>3, <1>4 DEF store_builder
  <2>2. PICK s : s = store_builder(b, other) /\ s.ok = FALSE /\ s.b = b
    BY <2>1 DEF Refused
  <2>3. StoredWith(b, s, y, cells)
    BY <1>1, <1>4, <2>2 DEF StoredWith
  <2> QED BY <1>1, <1>3, <2>2, <2>3
<1>5. CASE b.bit_len + l < Full /\ Len(b.refs) + Len(cells) <= MAX_REF_COUNT
  <2>1. PICK r : r = store_raw(b, other.data, other.bit_len)
    OBVIOUS
  <2>2. Stored(b, r, y)
    <3>1. Stored(b, store_raw(b, other.data, other.bit_len), RawBits(other.data, other.bit_len))
      BY TextFacts, RawStored
    <3> QED BY <1>1, <2>1, <3>1, TextFacts
  <2>3. StoredWith(b, store_references(r.b, cells), y, cells) /\ r.ok = TRUE
    BY <1>1, <1>5, <2>2, RefsFollow
  <2>4. store_builder(b, other) = store_references(r.b, cells)
    BY <1>1, <1>2, <1>3, <1>5, <2>1, <2>3 DEF store_builder, Chain
  <2> QED BY <1>1, <1>3, <2>3, <2>4
<1> QED BY <1>4, <1>5

\* A cell of whole bytes whose first n bits are those of d.
Holds(cell, d, n) ==
  /\ cell.data \in Seq(Bit) /\ Aligned(cell.data) /\ cell.bit_len = n /\ n <= Len(cell.data)
  /\ \A i \in 1..n : cell.data[i] = d[i]

\* The mask of the tagged byte keeps the bits before the tag.
LEMMA TagMask ==
  ASSUME NEW r \in Nat, r < BYTE
  PROVE  /\ HighMask(r + 1) \in Seq(Bit) /\ Len(HighMask(r + 1)) = BYTE
         /\ \A o \in 1..BYTE : o <= r => HighMask(r + 1)[o] = 1
<1>1. BYTE \in Nat /\ BYTE > 0 /\ r + 1 \in Nat
  BY SizeFacts
<1>2. CASE r + 1 < BYTE
  <2>1. PICK n \in Nat : n = r + 1 /\ n < BYTE
    BY <1>1, <1>2
  <2>2. /\ HighMask(n) \in Seq(Bit) /\ Len(HighMask(n)) = BYTE
        /\ \A i \in 1..BYTE : HighMask(n)[i] = IF n = 0 \/ i <= n THEN 1 ELSE 0
    BY <2>1, MaskFacts
  <2>3. \A o \in 1..BYTE : o <= r => o <= n
    BY <1>1, <2>1
  <2> QED BY <2>1, <2>2, <2>3
<1>3. CASE r + 1 = BYTE
  <2>1. BYTE - (r + 1) = 0 /\ 0 % BYTE = 0
    <3>1. (0 * BYTE + 0) % BYTE = 0 /\ 0 * BYTE = 0
      BY <1>1, DivModIs, Product
    <3> QED BY <1>1, <1>3, <3>1
  <2>2. PICK u : u = Ones(BYTE) /\ u \in Seq(Bit) /\ Len(u) = BYTE /\ \A i \in 1..BYTE : u[i] = 1
    BY <1>1, ZerosFacts
  <2>3. HighMask(r + 1) = Shl(u, 0)
    BY <2>1, <2>2 DEF HighMask
  <2>4. /\ Shl(u, 0) \in Seq(Bit) /\ Len(Shl(u, 0)) = Len(u)
        /\ \A i \in 1..Len(u) : Shl(u, 0)[i] = IF i + 0 <= Len(u) THEN u[i + 0] ELSE 0
    BY <1>1, <2>2, ShlFacts
  <2>5. \A i \in 1..BYTE : i + 0 = i /\ i <= BYTE
    BY <1>1
  <2> QED BY <2>2, <2>3, <2>4, <2>5
<1> QED BY <1>1, <1>2, <1>3

\* A finished cell holds the bits of its builder.
LEMMA BuiltHolds ==
  ASSUME NEW b, WellFormed(b)
  PROVE  Holds(build(b), b.data, b.bit_len) /\ build(b).refs = b.refs
<1>1. PICK q \in Nat, r \in Nat, at \in Nat :
        /\ q = b.bit_len \div BYTE /\ r = b.bit_len % BYTE /\ at = q * BYTE
        /\ r < BYTE /\ b.bit_len = at + r /\ at + BYTE <= Full
  BY PlaceFacts
<1>2. PICK l \in Nat, d \in Seq(Bit) : l = b.bit_len /\ d = b.data /\ Len(d) = Full /\ l < Full
  BY DEF WellFormed, Builder
<1>3. BYTE \in Nat /\ BYTE > 0 /\ Full \in Nat
  BY SizeFacts
<1>4. l = at + r /\ r < BYTE /\ at + BYTE <= Full
  BY <1>1, <1>2
<1>5. at = q * BYTE
  BY <1>1
<1>6. PICK w : w = Or(And(Byte(d, q), HighMask(r + 1)), Shl(Wide(<<1>>, BYTE), BYTE - 1 - r))
  OBVIOUS
<1>7. PICK g : g = IF r = 0 THEN d ELSE Put(d, q, w)
  OBVIOUS
<1>8. /\ build(b).data = Bytes(g, 0, DivCeil(l, BYTE))
      /\ build(b).bit_len = l /\ build(b).refs = b.refs
  BY <1>1, <1>2, <1>6, <1>7 DEF build
<1>9. w \in Seq(Bit) /\ Len(w) = BYTE /\ \A o \in 1..BYTE : o <= r => w[o] = d[at + o]
  <2>1. PICK x : x = Byte(d, q)
    OBVIOUS
  <2>2. x \in Seq(Bit) /\ Len(x) = BYTE /\ \A o \in 1..BYTE : x[o] = d[at + o]
    <3>1. at + BYTE <= Len(d)
      BY <1>2, <1>4
    <3>2. IsByteOf(Byte(d, q), d, at)
      BY <1>5, <3>1, ByteIs, Zenon
    <3> QED BY <2>1, <3>2 DEF IsByteOf
  <2>3. PICK mask : mask = HighMask(r + 1)
    OBVIOUS
  <2>4. mask \in Seq(Bit) /\ Len(mask) = BYTE /\ \A o \in 1..BYTE : o <= r => mask[o] = 1
    BY <1>4, <2>3, TagMask
  <2>5. PICK y : y = And(x, mask)
    OBVIOUS
  <2>6. y \in Seq(Bit) /\ Len(y) = BYTE /\ \A o \in 1..BYTE : o <= r => y[o] = d[at + o]
    <3>1. Len(mask) = Len(x)
      BY <2>2, <2>4
    <3>2. /\ And(x, mask) \in Seq(Bit) /\ Len(And(x, mask)) = Len(x)
          /\ \A i \in 1..Len(x) : And(x, mask)[i] = IF mask[i] = 1 THEN x[i] ELSE 0
      BY <2>2, <2>4, <3>1, AndFacts, Zenon
    <3> QED BY <2>2, <2>4, <2>5, <3>2
  <2>7. PICK tag : tag = Shl(Wide(<<1>>, BYTE), BYTE - 1 - r)
    OBVIOUS
  <2>8. tag \in Seq(Bit) /\ Len(tag) = BYTE /\ \A i \in 1..BYTE : tag[i] = IF i = r + 1 THEN 1 ELSE 0
    BY <1>4, <2>7, BitMaskFacts
  <2>9. w = Or(y, tag)
    BY <1>6, <2>1, <2>3, <2>5, <2>7
  <2>10. IsOrOf(Or(y, tag), y, tag)
    BY <2>6, <2>8, OrIs, Zenon
  <2>11. ASSUME NEW o \in 1..BYTE, o <= r PROVE w[o] = d[at + o]
    <3>1. tag[o] = 0
      BY <1>3, <2>8, <2>11
    <3> QED BY <2>6, <2>9, <2>10, <2>11, <3>1 DEF IsOrOf
  <2> QED BY <2>9, <2>10, <2>11 DEF IsOrOf
<1>10. g \in Seq(Bit) /\ Len(g) = Full /\ \A i \in 1..Full : i <= l => g[i] = d[i]
  <2>1. CASE r = 0
    BY <1>2, <1>7, <2>1
  <2>2. CASE r # 0
    <3>1. IsPut(Put(d, q, w), d, at, w, BYTE, Full)
      BY <1>2, <1>4, <1>5, <1>9, PutAt, Zenon
    <3>2. ASSUME NEW i \in 1..Full, i <= l PROVE g[i] = d[i]
      <4>1. g[i] = IF at < i /\ i <= at + BYTE THEN w[i - at] ELSE d[i]
        BY <1>7, <2>2, <3>1 DEF IsPut
      <4>2. CASE at < i
        <5>1. PICK o \in 1..BYTE : o = i - at /\ o <= r /\ at + o = i /\ i <= at + BYTE
          BY <1>3, <1>4, <3>2, <4>2
        <5> QED BY <1>9, <4>1, <4>2, <5>1
      <4>3. CASE ~(at < i)
        BY <4>1, <4>3
      <4> QED BY <4>2, <4>3
    <3> QED BY <1>7, <2>2, <3>1, <3>2 DEF IsPut
  <2> QED BY <2>1, <2>2
<1>11. PICK n \in Nat, k \in Nat : n = DivCeil(l, BYTE) /\ k = n * BYTE /\ l <= k /\ k < l + BYTE
  BY CeilFacts
<1>12. k <= Full
  <2>1. CAPACITY \in Nat /\ n * BYTE < CAPACITY * BYTE + BYTE
    BY <1>2, <1>3, <1>11, SizeFacts DEF Full
  <2>2. n * BYTE <= CAPACITY * BYTE
    BY <2>1, WholeBytes
  <2> QED BY <1>11, <2>2 DEF Full
<1>13. PICK c : c = Bytes(g, 0, n)
  OBVIOUS
<1>14. c \in Seq(Bit) /\ Len(c) = k /\ \A i \in 1..k : c[i] = g[i]
  <2>1. 0 \in Nat /\ 0 = 0 * BYTE /\ 0 + k <= Len(g) /\ k = n * BYTE
    BY <1>3, <1>10, <1>11, <1>12
  <2>2. /\ Bytes(g, 0, n) \in Seq(Bit) /\ Len(Bytes(g, 0, n)) = k
        /\ \A i \in 1..k : Bytes(g, 0, n)[i] = g[0 + i]
    BY <1>10, <2>1, BytesAt
  <2> QED BY <1>13, <2>2
<1>15. build(b).data = c
  BY <1>8, <1>11, <1>13
<1>16. Aligned(c)
  BY <1>11, <1>14 DEF Aligned
<1>17. \A i \in 1..l : i \in 1..k /\ i \in 1..Full /\ i <= l
  BY <1>2, <1>3, <1>11
<1>18. \A i \in 1..l : c[i] = d[i]
  BY <1>10, <1>14, <1>17
<1>19. l <= Len(c)
  BY <1>11, <1>14
<1> QED BY <1>2, <1>8, <1>14, <1>15, <1>16, <1>18, <1>19 DEF Holds

\* A byte that is read has the bits behind the start of the window, as far as
\* the window reaches.
IsRead(w, d, from, limit) ==
  /\ w \in Seq(Bit) /\ Len(w) = BYTE
  /\ \A o \in 1..BYTE : from + o <= limit => w[o] = d[from + o]

LEMMA ReadByteFacts ==
  ASSUME NEW d \in Seq(Bit), NEW q \in Nat, NEW r \in Nat, r < BYTE, NEW n \in Nat, NEW j \in Nat, j <= n,
         NEW start \in Nat, start = q * BYTE, NEW a \in Nat, a = j * BYTE, NEW e \in Nat, e = n * BYTE,
         start + e + BYTE <= Len(d), NEW limit \in Nat, limit <= start + e + BYTE
  PROVE  IsRead(ReadByte(d, q, r, n, j), d, start + r + a, limit)
<1>1. BYTE \in Nat /\ BYTE > 0 /\ Len(d) \in Nat
  BY SizeFacts
<1>2. a <= e /\ (j < n => a + BYTE <= e)
  BY Product
<1>3. PICK p \in Nat, f \in Nat : p = q + j /\ f = p * BYTE /\ f = start + a
  <2>1. (q + j) * BYTE = q * BYTE + j * BYTE
    BY Product
  <2>2. (q + j) * BYTE = start + a /\ q + j \in Nat /\ start + a \in Nat
    BY <2>1, SMTT(30)
  <2>3. PICK p \in Nat, f \in Nat : p = q + j /\ f = start + a
    BY <2>2
  <2>4. f = p * BYTE
    BY <2>2, <2>3
  <2> QED BY <2>3, <2>4
<1>4. PICK x : x = Byte(d, p)
  OBVIOUS
<1>5. x \in Seq(Bit) /\ Len(x) = BYTE /\ \A o \in 1..BYTE : x[o] = d[f + o]
  <2>1. f + BYTE <= Len(d)
    BY <1>1, <1>2, <1>3
  <2>2. f = p * BYTE
    BY <1>3
  <2>3. IsByteOf(Byte(d, p), d, f)
    BY <2>1, <2>2, ByteIs, Zenon
  <2> QED BY <1>4, <2>3 DEF IsByteOf
<1>6. PICK w : w = ReadByte(d, q, r, n, j)
  OBVIOUS
<1>7. f = start + a
  BY <1>3
<1>8. CASE r = 0
  <2>1. w = x
    BY <1>3, <1>4, <1>6, <1>8 DEF ReadByte
  <2>2. \A o \in 1..BYTE : start + r + a + o = f + o
    BY <1>1, <1>7, <1>8
  <2> QED BY <1>5, <1>6, <2>1, <2>2, ZenonT(40) DEF IsRead
<1>9. PICK s : s = Shl(x, r)
  OBVIOUS
<1>10. s \in Seq(Bit) /\ Len(s) = BYTE /\ \A o \in 1..BYTE : s[o] = IF o + r <= BYTE THEN x[o + r] ELSE 0
  <2>1. /\ Shl(x, r) \in Seq(Bit) /\ Len(Shl(x, r)) = Len(x)
        /\ \A o \in 1..Len(x) : Shl(x, r)[o] = IF o + r <= Len(x) THEN x[o + r] ELSE 0
    BY <1>5, ShlFacts, Zenon
  <2> QED BY <1>5, <1>9, <2>1
<1>11. ASSUME NEW o \in 1..BYTE, o + r <= BYTE PROVE s[o] = d[start + r + a + o]
  <2>1. PICK i \in 1..BYTE : i = o + r
    BY <1>1, <1>11
  <2>2. f + i = start + r + a + o
    BY <1>1, <1>7, <2>1
  <2> QED BY <1>5, <1>10, <1>11, <2>1, <2>2
<1>12. CASE r # 0 /\ ~(j < n)
  <2>1. w = s
    BY <1>3, <1>4, <1>6, <1>9, <1>12 DEF ReadByte
  <2>2. j = n /\ a = e
    BY <1>12
  <2>3. \A o \in 1..BYTE : start + r + a + o <= limit => o + r <= BYTE
    BY <1>1, <2>2
  <2> QED BY <1>6, <1>10, <1>11, <2>1, <2>3 DEF IsRead
<1>13. CASE r # 0 /\ j < n
  <2>1. PICK g \in Nat, h \in Nat : g = q + (j + 1) /\ h = g * BYTE /\ h = f + BYTE
    <3>1. q + (j + 1) = p + 1
      BY <1>3
    <3>2. (p + 1) * BYTE = p * BYTE + BYTE /\ p * BYTE \in Nat
      BY Product
    <3>3. (p + 1) * BYTE \in Nat /\ (p + 1) * BYTE = f + BYTE
      BY <1>1, <1>3, <3>2
    <3> QED BY <3>1, <3>3
  <2>2. PICK y : y = Byte(d, g)
    OBVIOUS
  <2>3. y \in Seq(Bit) /\ Len(y) = BYTE /\ \A o \in 1..BYTE : y[o] = d[h + o]
    <3>1. h + BYTE <= Len(d)
      <4>1. h = f + BYTE /\ a + BYTE <= e
        BY <1>2, <1>13, <2>1
      <4> QED BY <1>1, <1>7, <4>1
    <3>2. h = g * BYTE
      BY <2>1
    <3>3. IsByteOf(Byte(d, g), d, h)
      BY <3>1, <3>2, ByteIs, Zenon
    <3> QED BY <2>2, <3>3 DEF IsByteOf
  <2>4. PICK m \in Nat : m = BYTE - r
    BY <1>1
  <2>5. PICK t : t = Shr(y, m)
    OBVIOUS
  <2>6. t \in Seq(Bit) /\ Len(t) = BYTE /\ \A o \in 1..BYTE : t[o] = IF o > m THEN y[o - m] ELSE 0
    <3>1. /\ Shr(y, m) \in Seq(Bit) /\ Len(Shr(y, m)) = Len(y)
          /\ \A o \in 1..Len(y) : Shr(y, m)[o] = IF o > m THEN y[o - m] ELSE 0
      BY <2>3, ShrFacts, Zenon
    <3> QED BY <2>3, <2>5, <3>1
  <2>7. w = Or(s, t)
    BY <1>3, <1>4, <1>6, <1>9, <1>13, <2>1, <2>2, <2>4, <2>5 DEF ReadByte
  <2>8. IsOrOf(Or(s, t), s, t)
    BY <1>10, <2>6, OrIs, Zenon
  <2>9. ASSUME NEW o \in 1..BYTE PROVE w[o] = d[start + r + a + o]
    <3>1. CASE o + r <= BYTE
      <4>1. ~(o > m)
        BY <1>1, <2>4, <3>1
      <4>2. t[o] = 0
        BY <2>6, <4>1
      <4>3. w[o] = s[o]
        BY <2>7, <2>8, <4>2 DEF IsOrOf
      <4> QED BY <1>11, <3>1, <4>3
    <3>2. CASE ~(o + r <= BYTE)
      <4>1. s[o] = 0
        BY <1>10, <3>2
      <4>2. w[o] = t[o]
        BY <2>7, <2>8, <4>1 DEF IsOrOf
      <4>3. PICK i \in 1..BYTE : i = o - m /\ o > m
        BY <1>1, <2>4, <3>2
      <4>4. h + i = start + r + a + o
        <5>1. h = f + BYTE
          BY <2>1
        <5> QED BY <1>1, <1>7, <2>4, <4>3, <5>1
      <4>5. t[o] = y[i]
        BY <2>6, <4>3
      <4>6. y[i] = d[h + i]
        BY <2>3
      <4> QED BY <4>2, <4>4, <4>5, <4>6
    <3> QED BY <3>1, <3>2
  <2> QED BY <1>6, <2>7, <2>8, <2>9 DEF IsRead, IsOrOf
<1> QED BY <1>8, <1>12, <1>13

\* A read of n bits of a window returns them at the start of whole bytes.
IsRaw(v, d, from, bits) ==
  v \in Seq(Bit) /\ Aligned(v) /\ bits <= Len(v) /\ \A i \in 1..bits : v[i] = d[from + i]

LEMMA RawRead ==
  ASSUME NEW s, NEW d \in Seq(Bit), Aligned(d), d = s.cell.data, NEW from \in Nat, from = s.range.bits_start,
         NEW bits \in Nat, NEW end \in Nat, end = s.range.bits_end, from + bits <= end, end <= Len(d)
  PROVE  IsRaw(get_raw(s, 0, bits), d, from, bits)
<1>1. BYTE \in Nat /\ BYTE > 0 /\ Len(d) \in Nat
  BY SizeFacts
<1>2. CASE bits = 0
  <2>1. get_raw(s, 0, bits) = <<>>
    BY <1>2 DEF get_raw
  <2>2. 0 = 0 * BYTE /\ 0 \in Nat /\ <<>> \in Seq(Bit) /\ Len(<<>>) = 0
    BY <1>1, Product
  <2>3. Aligned(<<>>)
    BY <2>2 DEF Aligned
  <2>4. 0 <= Len(<<>>) /\ \A i \in 1..0 : FALSE
    BY <2>2
  <2> QED BY <1>2, <2>1, <2>2, <2>3, <2>4 DEF IsRaw
<1>3. CASE bits # 0
  <2>1. PICK q \in Nat, r \in Nat, start \in Nat :
          q = from \div BYTE /\ r = from % BYTE /\ r < BYTE /\ start = q * BYTE /\ from = start + r
    BY DivMod
  <2>2. r < BYTE /\ from = start + r
    BY <2>1
  <2>3. PICK w \in Nat : Len(d) = w * BYTE
    BY DEF Aligned
  <2>4. PICK n \in Nat, e \in Nat :
          n = DivCeil(bits + r, BYTE) - 1 /\ e = n * BYTE /\ e < bits + r /\ bits + r <= e + BYTE
    <3>1. bits > 0
      BY <1>3
    <3> QED BY <3>1, LastByte
  <2>5. PICK t \in Nat, u \in Nat :
          t = DivCeil(bits, BYTE) - 1 /\ u = t * BYTE /\ u < bits /\ bits <= u + BYTE /\ t + 1 = DivCeil(bits, BYTE)
    <3>1. bits + 0 \in Nat /\ bits + 0 > 0 /\ bits + 0 = bits
      BY <1>3
    <3>2. PICK t \in Nat, u \in Nat :
            t = DivCeil(bits + 0, BYTE) - 1 /\ u = t * BYTE /\ u < bits + 0 /\ bits + 0 <= u + BYTE
      <4>1. bits > 0 /\ 0 \in Nat
        BY <1>3
      <4> QED BY <4>1, LastByte
    <3>3. DivCeil(bits, BYTE) \in Nat
      BY CeilFacts
    <3> QED BY <3>1, <3>2, <3>3
  <2>6. t <= n
    <3>1. u < e + BYTE
      <4>1. bits + r <= e + BYTE /\ u < bits
        BY <2>4, <2>5
      <4> QED BY <1>1, <4>1
    <3>2. t * BYTE < n * BYTE + BYTE
      BY <2>4, <2>5, <3>1
    <3>3. t * BYTE <= n * BYTE
      BY <3>2, WholeBytes
    <3> QED BY <3>3, Product
  <2>7. start + e + BYTE <= Len(d) /\ q + n + 1 <= w
    <3>1. PICK m \in Nat, k \in Nat : m = q + n + 1 /\ k = m * BYTE /\ k = start + e + BYTE
      <4>1. PICK x \in Nat : x = q + n
        OBVIOUS
      <4>a. (q + n) * BYTE = q * BYTE + n * BYTE
        BY Product
      <4>b. (x + 1) * BYTE = x * BYTE + BYTE
        BY Product
      <4>2. ((q + n) + 1) * BYTE = start + e + BYTE
        BY <2>1, <2>4, <4>1, <4>a, <4>b
      <4>3. start + e + BYTE \in Nat
        BY <1>1
      <4> QED BY <4>2, <4>3
    <3>2. k < Len(d) + BYTE
      <4>1. e < bits + r /\ k = start + e + BYTE
        BY <2>4, <3>1
      <4> QED BY <1>1, <2>2, <4>1
    <3>3. m * BYTE < w * BYTE + BYTE
      BY <2>3, <3>1, <3>2
    <3>4. m * BYTE <= w * BYTE
      BY <3>3, WholeBytes
    <3>5. m <= w
      BY <3>4, Product
    <3> QED BY <2>3, <3>1, <3>4, <3>5
  <2>8. DataLen(s) = w
    <3>1. (w * BYTE + 0) \div BYTE = w
      BY <1>1, DivModIs
    <3>2. w * BYTE + 0 = Len(d)
      BY <1>1, <2>3
    <3> QED BY <3>1, <3>2 DEF DataLen, BytesLen
  <2>9. PICK mask : mask = HighMask(bits % BYTE)
    OBVIOUS
  <2>10. mask \in Seq(Bit) /\ Len(mask) = BYTE /\ \A o \in 1..BYTE : mask[o] = IF u + o <= bits THEN 1 ELSE 0
    BY <2>5, <2>9, LastMask
  <2> DEFINE copied == [j \in 0..t |-> ReadByte(d, q, r, n, j)]
             masked == [copied EXCEPT ![t] = And(@, mask)]
             v == JoinBytes(masked, t + 1)
  <2>11. get_raw(s, 0, bits) = v
    <3>1. s.range.bits_start + 0 = from
      OBVIOUS
    <3>2. ~(s.range.bits_start + bits > s.range.bits_end) /\ ~(q + (t + 1) > w) /\ ~(q + n > w)
      BY <1>1, <2>6, <2>7
    <3>3. PICK l \in Nat : l = DivCeil(bits, BYTE) /\ l = t + 1 /\ l - 1 = t
      BY <2>5
    <3>4. get_raw(s, 0, bits) =
            JoinBytes([[j \in 0..l - 1 |-> ReadByte(d, q, r, n, j)] EXCEPT ![l - 1] = And(@, mask)], l)
      <4>1. q = from \div BYTE /\ r = from % BYTE /\ n = DivCeil(bits + r, BYTE) - 1
        BY <2>1, <2>4
      <4> HIDE DEF v
      <4> QED BY <1>3, <2>8, <2>9, <3>1, <3>2, <3>3, <4>1 DEF get_raw
    <3>5. l - 1 = t /\ l = t + 1
      BY <3>3
    <3> QED BY <3>4, <3>5, Zenon
  <2>12. ASSUME NEW j \in 0..t, NEW a \in Nat, a = j * BYTE
         PROVE  /\ masked[j] \in Seq(Bit) /\ Len(masked[j]) = BYTE
                /\ \A o \in 1..BYTE : a + o <= bits => masked[j][o] = d[from + (a + o)]
    <3>1. PICK x : x = ReadByte(d, q, r, n, j)
      OBVIOUS
    <3>2. IsRead(x, d, start + r + a, start + r + bits)
      <4>1. j \in Nat /\ j <= n
        BY <2>6, <2>12
      <4>2. start + r + bits \in Nat /\ start + r + bits <= start + e + BYTE
        <5>1. bits + r <= e + BYTE
          BY <2>4
        <5> QED BY <1>1, <5>1
      <4>3. start = q * BYTE /\ e = n * BYTE /\ start + e + BYTE <= Len(d)
        BY <2>1, <2>4, <2>7
      <4>4. PICK limit \in Nat : limit = start + r + bits
        BY <4>2
      <4>5. limit <= start + e + BYTE
        BY <4>2, <4>4
      <4>6. IsRead(ReadByte(d, q, r, n, j), d, start + r + a, limit)
        <5> HIDE DEF masked, copied, v
        <5> QED BY <2>2, <2>12, <4>1, <4>3, <4>5, ReadByteFacts, Zenon
      <4> QED BY <3>1, <4>4, <4>6
    <3>3. \A o \in 1..BYTE : /\ start + r + a + o = from + (a + o)
                             /\ a + o <= bits => start + r + a + o <= start + r + bits
      BY <1>1, <2>2
    <3>4. x \in Seq(Bit) /\ Len(x) = BYTE /\ \A o \in 1..BYTE : a + o <= bits => x[o] = d[from + (a + o)]
      BY <3>2, <3>3 DEF IsRead
    <3>5. copied[j] = x
      BY <2>12, <3>1
    <3>6. CASE j # t
      <4>1. masked[j] = x
        BY <2>12, <3>5, <3>6
      <4> HIDE DEF masked
      <4> QED BY <3>4, <4>1
    <3>7. CASE j = t
      <4>1. masked[j] = And(x, mask)
        BY <2>12, <3>5, <3>7
      <4>2. Len(mask) = Len(x)
        BY <2>10, <3>4
      <4>3. /\ And(x, mask) \in Seq(Bit) /\ Len(And(x, mask)) = Len(x)
            /\ \A i \in 1..Len(x) : And(x, mask)[i] = IF mask[i] = 1 THEN x[i] ELSE 0
        <5> HIDE DEF masked, copied, v
        <5> QED BY <2>10, <3>4, <4>2, AndFacts, Zenon
      <4>4. a = u
        BY <2>5, <2>12, <3>7
      <4> HIDE DEF masked
      <4> QED BY <2>10, <3>4, <4>1, <4>3, <4>4, ZenonT(40)
    <3> QED BY <3>6, <3>7
  <2> HIDE DEF masked, copied
  <2>13. PICK k \in Nat : k = (t + 1) * BYTE /\ k = u + BYTE
    BY <1>1, <2>5, Product
  <2>14. ASSUME NEW i \in 1..k PROVE v[i] \in Bit /\ (i <= bits => v[i] = d[from + i])
    <3>1. PICK p \in Nat, o \in 1..BYTE, a \in Nat :
            p = (i - 1) \div BYTE /\ o = ((i - 1) % BYTE) + 1 /\ a = p * BYTE /\ i = a + o
      <4>1. i \in Nat /\ i >= 1
        BY <2>13
      <4> QED BY <4>1, Position
    <3>2. p \in 0..t
      <4>1. a < u + BYTE
        <5>1. i = a + o /\ i <= u + BYTE
          BY <2>13, <3>1
        <5> QED BY <1>1, <5>1
      <4>2. p * BYTE < t * BYTE + BYTE
        BY <2>5, <3>1, <4>1
      <4>3. p * BYTE <= t * BYTE
        BY <4>2, WholeBytes
      <4>4. p <= t
        BY <4>3, Product
      <4> QED BY <4>4
    <3>3. v[i] = masked[p][o]
      BY <2>13, <3>1 DEF JoinBytes
    <3>4. PICK x : x = masked[p]
      OBVIOUS
    <3>5. x \in Seq(Bit) /\ Len(x) = BYTE /\ (a + o <= bits => x[o] = d[from + (a + o)])
      BY <2>12, <3>1, <3>2, <3>4
    <3>6. x[o] \in Bit
      BY <3>5, ElementIsBit
    <3>7. i = a + o
      BY <3>1
    <3> HIDE DEF v
    <3> QED BY <3>3, <3>4, <3>5, <3>6, <3>7
  <2>15. v \in [1..k -> Bit]
    BY <2>13, <2>14 DEF JoinBytes
  <2>16. v \in Seq(Bit) /\ Len(v) = k
    <3> HIDE DEF v
    <3> QED BY <2>15, SeqFcn
  <2>17. Aligned(v)
    <3>1. t + 1 \in Nat /\ k = (t + 1) * BYTE
      BY <2>13
    <3> HIDE DEF v
    <3> QED BY <2>16, <3>1 DEF Aligned
  <2>18. bits <= k /\ \A i \in 1..bits : i \in 1..k /\ i <= bits
    BY <1>1, <2>5, <2>13
  <2> HIDE DEF v
  <2> QED BY <2>11, <2>14, <2>16, <2>17, <2>18 DEF IsRaw
<1> QED BY <1>2, <1>3

\* What a store of a slice is given: a window of a cell of whole bytes.
IsWindow(s, cell, n, from, end) ==
  /\ from = s.range.bits_start /\ end = s.range.bits_end /\ from <= end /\ end <= n
  /\ end <= Len(cell.data) /\ size_bits(s) = end - from
  /\ \A i \in 1..(end - from) : Unread(s)[i] = cell.data[from + i]

LEMMA WindowFacts ==
  ASSUME NEW cell, NEW d, NEW n \in Nat, Holds(cell, d, n), cell.refs \in Seq(RefCells), NEW s \in SlicesOf(cell)
  PROVE  /\ s.cell = cell
         /\ \E from \in Nat, end \in Nat : IsWindow(s, cell, n, from, end)
         /\ Unread(s) \in Seq(Bit) /\ size_bits(s) \in Nat /\ Len(Unread(s)) = size_bits(s)
         /\ references(s) \in Seq(RefCells) /\ Len(references(s)) = size_refs(s)
<1>1. PICK w \in Windows(cell) : s = [cell |-> cell, range |-> w]
  BY DEF SlicesOf
<1>2. s.cell = cell /\ s.range = w
  BY <1>1
<1>3. cell.bit_len = n /\ cell.data \in Seq(Bit) /\ n <= Len(cell.data)
  BY DEF Holds
<1>4. PICK from \in Nat, end \in Nat : from = w.bits_start /\ end = w.bits_end /\ from <= end /\ end <= n
  BY <1>3 DEF Windows
<1>5. PICK rs \in Nat, re \in Nat : rs = w.refs_start /\ re = w.refs_end /\ rs <= re /\ re <= Len(cell.refs)
  BY DEF Windows
<1>6. end <= Len(cell.data)
  BY <1>3, <1>4
<1>7. size_bits(s) = end - from /\ size_refs(s) = re - rs /\ end - from \in Nat /\ re - rs \in Nat
  <2>1. end - from \in Nat /\ ~(end - from < 0)
    BY <1>4
  <2>2. re - rs \in Nat /\ ~(re - rs < 0)
    BY <1>5
  <2>3. size_bits(s) = end - from
    BY <1>2, <1>4, <2>1, Zenon DEF size_bits
  <2>4. size_refs(s) = re - rs
    BY <1>2, <1>5, <2>2, Zenon DEF size_refs
  <2> QED BY <2>1, <2>2, <2>3, <2>4
<1>8. /\ Unread(s) = SubSeq(cell.data, from + 1, end)
      /\ references(s) = SubSeq(cell.refs, rs + 1, re)
  BY <1>2, <1>4, <1>5 DEF Unread, references
<1>9. PICK v : v = cell.data
  OBVIOUS
<1>10. /\ SubSeq(v, from + 1, end) \in Seq(Bit) /\ Len(SubSeq(v, from + 1, end)) = end - from
       /\ \A i \in 1..(end - from) : SubSeq(v, from + 1, end)[i] = v[from + i]
  <2>1. v \in Seq(Bit) /\ from <= end /\ end <= Len(v)
    BY <1>3, <1>4, <1>6, <1>9
  <2> QED BY <2>1, PartFacts
<1>11. PICK k : k = cell.refs /\ k \in Seq(RefCells)
  OBVIOUS
<1>12. SubSeq(k, rs + 1, re) \in Seq(RefCells) /\ Len(SubSeq(k, rs + 1, re)) = re - rs
  <2>1. rs <= re /\ re <= Len(k)
    BY <1>5, <1>11
  <2> QED BY <1>11, <2>1, PartFacts
<1>13. Unread(s) \in Seq(Bit) /\ size_bits(s) \in Nat /\ Len(Unread(s)) = size_bits(s)
  BY <1>7, <1>8, <1>9, <1>10
<1>14. references(s) \in Seq(RefCells) /\ Len(references(s)) = size_refs(s)
  BY <1>7, <1>8, <1>11, <1>12
<1>15. \A i \in 1..(end - from) : Unread(s)[i] = cell.data[from + i]
  BY <1>8, <1>9, <1>10
<1>16. IsWindow(s, cell, n, from, end)
  BY <1>2, <1>4, <1>6, <1>7, <1>15 DEF IsWindow
<1> QED BY <1>2, <1>13, <1>14, <1>16

\* The data of a slice is appended, or the read of it failed.
LEMMA SliceDataStored ==
  ASSUME NEW b, WellFormed(b), NEW cell, NEW d, NEW n \in Nat, Holds(cell, d, n),
         cell.refs \in Seq(RefCells), NEW s \in SlicesOf(cell)
  PROVE  \/ Stored(b, store_slice_data(b, s), Unread(s))
         \/ get_raw(s, 0, size_bits(s)) = Underflow /\ store_slice_data(b, s) = Refused(b)
<1>1. PICK from \in Nat, end \in Nat :
        /\ from = s.range.bits_start /\ end = s.range.bits_end /\ from <= end
        /\ end <= Len(cell.data) /\ size_bits(s) = end - from
        /\ \A i \in 1..(end - from) : Unread(s)[i] = cell.data[from + i]
  <2>1. PICK from \in Nat, end \in Nat : IsWindow(s, cell, n, from, end)
    BY WindowFacts
  <2> QED BY <2>1 DEF IsWindow
<1>2. s.cell = cell /\ Unread(s) \in Seq(Bit) /\ Len(Unread(s)) = size_bits(s)
  BY WindowFacts
<1>3. PICK bits \in Nat : bits = size_bits(s) /\ bits = end - from /\ from + bits <= end
  BY <1>1
<1>4. PICK c : c = cell.data /\ c \in Seq(Bit) /\ Aligned(c)
  BY DEF Holds
<1>5. PICK v : v = get_raw(s, 0, bits)
  OBVIOUS
<1>6. v \in Seq(Bit) /\ Aligned(v) /\ bits <= Len(v) /\ \A i \in 1..bits : v[i] = c[from + i]
  <2>1. c = s.cell.data /\ end <= Len(c)
    BY <1>1, <1>2, <1>4
  <2>2. from = s.range.bits_start /\ end = s.range.bits_end /\ from + bits <= end
    BY <1>1, <1>3
  <2>3. IsRaw(get_raw(s, 0, bits), c, from, bits)
    BY <1>4, <2>1, <2>2, RawRead, Zenon
  <2> QED BY <1>5, <2>3 DEF IsRaw
<1>7. PICK x : x = RawBits(v, bits)
  OBVIOUS
<1>8. x \in Seq(Bit) /\ Len(x) = bits /\ \A i \in 1..bits : x[i] = v[i]
  <2>1. bits - Least(bits, Len(v)) = 0 /\ 0 \in Nat
    BY <1>6 DEF Least
  <2>2. PICK k \in Nat : k = bits - Least(bits, Len(v)) /\ k = 0
    BY <2>1
  <2>3. /\ RawBits(v, bits) \in Seq(Bit) /\ Len(RawBits(v, bits)) = bits
        /\ \A i \in 1..bits : RawBits(v, bits)[i] = IF i <= k THEN 0 ELSE v[i - k]
    BY <1>6, <2>2, RawBitsFacts
  <2>4. \A i \in 1..bits : ~(i <= k) /\ i - k = i
    BY <2>2
  <2> QED BY <1>7, <2>3, <2>4
<1>9. x = Unread(s)
  <2>1. Len(x) = Len(Unread(s))
    BY <1>2, <1>3, <1>8
  <2>2. \A i \in 1..Len(x) : x[i] = Unread(s)[i]
    BY <1>1, <1>3, <1>4, <1>6, <1>8
  <2> QED BY <1>2, <1>8, <2>1, <2>2, SeqSame
<1>10. Stored(b, store_raw(b, v, bits), x)
  BY <1>6, <1>7, RawStored
<1>11. has_capacity_bits(b, bits) <=> b.bit_len + bits < Full
  BY CapacityFacts
<1>12. CASE v = Underflow
  <2>1. store_slice_data(b, s) = Refused(b)
    BY <1>3, <1>5, <1>12 DEF store_slice_data
  <2> QED BY <1>3, <1>5, <1>12, <2>1
<1>13. CASE v # Underflow /\ has_capacity_bits(b, bits)
  <2>1. store_slice_data(b, s) = store_raw(b, v, bits)
    BY <1>3, <1>5, <1>13 DEF store_slice_data
  <2> QED BY <1>9, <1>10, <2>1
<1>14. CASE v # Underflow /\ ~has_capacity_bits(b, bits)
  <2>1. PICK r : r = store_slice_data(b, s) /\ r.ok = FALSE /\ r.b = b
    <3>1. store_slice_data(b, s) = Refused(b)
      BY <1>3, <1>14 DEF store_slice_data
    <3> QED BY <3>1 DEF Refused
  <2>2. Stored(b, r, x)
    BY <1>8, <1>11, <1>14, <2>1 DEF Stored
  <2> QED BY <1>9, <2>1, <2>2
<1> QED BY <1>12, <1>13, <1>14

LEMMA SliceStored ==
  ASSUME NEW b, WellFormed(b), NEW cell, NEW d, NEW n \in Nat, Holds(cell, d, n),
         cell.refs \in Seq(RefCells), NEW s \in SlicesOf(cell)
  PROVE  \/ StoredWith(b, store_slice(b, s), Unread(s), references(s))
         \/ get_raw(s, 0, size_bits(s)) = Underflow /\ store_slice(b, s) = Refused(b)
<1>1. PICK bits \in Nat, x \in Seq(Bit), cells \in Seq(RefCells) :
        /\ bits = size_bits(s) /\ x = Unread(s) /\ Len(x) = bits
        /\ cells = references(s) /\ Len(cells) = size_refs(s)
  BY WindowFacts
<1>2. has_capacity_bits(b, bits) <=> b.bit_len + bits < Full
  BY CapacityFacts
<1>3. PICK r : r = store_slice_data(b, s)
  OBVIOUS
<1>4. CASE ~(b.bit_len + bits < Full /\ Len(b.refs) + Len(cells) <= MAX_REF_COUNT)
  <2>1. PICK t : t = store_slice(b, s) /\ t.ok = FALSE /\ t.b = b
    <3>1. store_slice(b, s) = Refused(b)
      BY <1>1, <1>2, <1>4 DEF store_slice
    <3> QED BY <3>1 DEF Refused
  <2>2. StoredWith(b, t, x, cells)
    BY <1>1, <1>4, <2>1 DEF StoredWith
  <2> QED BY <1>1, <2>1, <2>2
<1>5. CASE b.bit_len + bits < Full /\ Len(b.refs) + Len(cells) <= MAX_REF_COUNT
  <2>1. store_slice(b, s) = IF r.ok THEN store_references(r.b, cells) ELSE r
    BY <1>1, <1>2, <1>3, <1>5 DEF store_slice, Chain
  <2>2. CASE Stored(b, r, x)
    <3>1. StoredWith(b, store_references(r.b, cells), x, cells) /\ r.ok = TRUE
      BY <1>1, <1>5, <2>2, RefsFollow
    <3> QED BY <1>1, <2>1, <3>1
  <2>3. CASE get_raw(s, 0, size_bits(s)) = Underflow /\ r = Refused(b)
    <3>1. store_slice(b, s) = Refused(b)
      BY <2>1, <2>3 DEF Refused
    <3> QED BY <2>3, <3>1
  <2>4. Stored(b, r, x) \/ (get_raw(s, 0, size_bits(s)) = Underflow /\ r = Refused(b))
    <3>1. \/ Stored(b, store_slice_data(b, s), Unread(s))
          \/ get_raw(s, 0, size_bits(s)) = Underflow /\ store_slice_data(b, s) = Refused(b)
      BY SliceDataStored
    <3> QED BY <1>1, <1>3, <3>1
  <2> QED BY <2>2, <2>3, <2>4
<1> QED BY <1>4, <1>5

\* The builder as a cell, with its references and without.
LEMMA SeenAsCell ==
  ASSUME NEW b, WellFormed(b)
  PROVE  /\ Holds(as_full_cell(b), b.data, b.bit_len) /\ as_full_cell(b).refs \in Seq(RefCells)
         /\ Holds(as_data_cell(b), b.data, b.bit_len) /\ as_data_cell(b).refs \in Seq(RefCells)
<1>1. b.data \in Seq(Bit) /\ Aligned(b.data) /\ b.bit_len \in Nat /\ b.bit_len <= Len(b.data) /\ b \in Builder
  BY TextFacts, SizeFacts DEF WellFormed, Builder
<1>2. PICK a : a = as_data_cell(b)
  OBVIOUS
<1>3. a.data = b.data /\ a.bit_len = b.bit_len /\ a.refs = <<>>
  BY <1>1, <1>2 DEF as_data_cell, Builder
<1>4. Holds(a, b.data, b.bit_len)
  BY <1>1, <1>3 DEF Holds
<1>5. Holds(b, b.data, b.bit_len) /\ b.refs \in Seq(RefCells)
  BY <1>1 DEF Holds, Builder
<1> QED BY <1>2, <1>3, <1>4, <1>5 DEF as_full_cell

-----------------------------------------------------------------------------
(* Numbers *)

\* Powers of two, as numbers of subsets.
LEMMA PowerFacts ==
  ASSUME NEW n \in Nat
  PROVE  2^n \in Nat /\ n < 2^n
<1>1. PICK S : S = 1..n /\ IsFiniteSet(S) /\ Cardinality(S) = n
  BY FS_Interval
<1>2. IsFiniteSet(SUBSET S) /\ Cardinality(SUBSET S) = 2^n
  BY <1>1, FS_SUBSET
<1>3. PICK T : T = SUBSET S /\ IsFiniteSet(T) /\ Cardinality(T) = 2^n
  BY <1>2
<1>4. Cardinality(T) \in Nat
  BY <1>3, FS_CardinalityType
<1>5. PICK f : f = [x \in S |-> {x}]
  OBVIOUS
<1>6. f \in Injection(S, T)
  <2>1. f \in [S -> T]
    BY <1>3, <1>5
  <2>2. \A x, y \in S : f[x] = f[y] => x = y
    BY <1>5
  <2> QED BY <2>1, <2>2 DEF Injection, IsInjective
<1>7. f \notin Surjection(S, T)
  <2>1. {} \in T /\ \A x \in S : f[x] # {}
    BY <1>3, <1>5
  <2> QED BY <2>1 DEF Surjection
<1>8. Cardinality(S) <= Cardinality(T) /\ Cardinality(S) # Cardinality(T)
  BY <1>3, <1>6, <1>7, FS_Injection
<1> QED BY <1>1, <1>3, <1>4, <1>8

LEMMA LeastOf ==
  ASSUME NEW T, T \subseteq Nat, T # {}
  PROVE  \E x \in T : \A y \in T : x <= y
<1>1. PICK x \in T : \A y \in T : ~ (<<y, x>> \in OpToRel(<, Nat))
  BY NatLessThanWellFounded, WFMin, Zenon
<1>2. \A y \in T : ~(y < x)
  BY <1>1, Zenon DEF OpToRel
<1>3. x \in Nat /\ \A y \in T : y \in Nat /\ ~(y < x)
  BY <1>2
<1>4. \A y \in T : x <= y
  BY <1>3, SMT
<1> QED BY <1>4

\* The number of bits of a number.
LEMMA NumBitsFacts ==
  ASSUME NEW x \in Nat
  PROVE  NumBits(x) \in 0..x /\ x < 2^NumBits(x) /\ (NumBits(x) = 0 \/ x >= 2^(NumBits(x) - 1))
<1>1. PICK T : T = {n \in Nat : x < 2^n}
  OBVIOUS
<1>2. x \in T
  BY <1>1, PowerFacts
<1>3. PICK n \in T : \A m \in T : n <= m
  BY <1>1, <1>2, LeastOf
<1>4. n \in Nat /\ x < 2^n /\ n <= x
  BY <1>1, <1>2, <1>3
<1>5. n \in 0..x
  BY <1>4
<1>6. n = 0 \/ x >= 2^(n - 1)
  <2> SUFFICES ASSUME n # 0 PROVE x >= 2^(n - 1)
    OBVIOUS
  <2>1. PICK m \in Nat : m = n - 1 /\ m < n
    BY <1>4
  <2>2. m \notin T
    BY <1>3, <1>4, <2>1
  <2>3. ~(x < 2^m) /\ 2^m \in Nat
    BY <1>1, <2>2, PowerFacts
  <2>4. x >= 2^m
    BY <2>3
  <2> QED BY <2>1, <2>4
<1>7. \E k \in 0..x : x < 2^k /\ (k = 0 \/ x >= 2^(k - 1))
  BY <1>4, <1>5, <1>6
<1> QED BY <1>7, Zenon DEF NumBits

LEMMA BitsizeFacts ==
  ASSUME NEW x \in Int, NEW signed \in BOOLEAN
  PROVE  bitsize(x, signed) \in Nat
<1>1. PICK m \in Nat : m = IF x < 0 THEN -x ELSE x
  <2>1. (IF x < 0 THEN -x ELSE x) \in Nat
    OBVIOUS
  <2> QED BY <2>1
<1>2. PICK bits \in Nat : bits = NumBits(m)
  BY NumBitsFacts
<1>3. bitsize(x, signed) \in {bits, bits + 1}
  BY <1>1, <1>2 DEF bitsize
<1> QED BY <1>3

\* The bits of an integer.
LEMMA ToBitsFacts ==
  ASSUME NEW x \in Int, NEW n \in Nat
  PROVE  ToBits(x, n) \in Seq(Bit) /\ Len(ToBits(x, n)) = n
<1>1. ASSUME NEW i \in 1..n PROVE (x \div 2^(n - i)) % 2 \in Bit
  <2>1. PICK k \in Nat : k = n - i
    OBVIOUS
  <2>2. PICK p \in Nat : p = 2^k /\ p > 0
    BY PowerFacts
  <2>3. x \div p \in Int
    BY <2>2
  <2>4. PICK y \in Int : y = x \div p
    BY <2>3
  <2>5. y % 2 \in {0, 1}
    OBVIOUS
  <2> QED BY <2>1, <2>2, <2>4, <2>5 DEF Bit
<1>2. ToBits(x, n) \in [1..n -> Bit]
  BY <1>1 DEF ToBits
<1> QED BY <1>2, SeqFcn

LEMMA ToBytesFacts ==
  ASSUME NEW x \in Int, NEW m \in Nat
  PROVE  ToBits(x, m * BYTE) \in Seq(Bit) /\ Len(ToBits(x, m * BYTE)) = m * BYTE /\ Aligned(ToBits(x, m * BYTE))
<1>1. m * BYTE \in Nat
  BY Product
<1>2. ToBits(x, m * BYTE) \in Seq(Bit) /\ Len(ToBits(x, m * BYTE)) = m * BYTE
  BY <1>1, ToBitsFacts
<1> QED BY <1>2 DEF Aligned

\* A number is stored as one row of bits or refused.
LEMMA BigintStored ==
  ASSUME NEW b, WellFormed(b), NEW x \in Int, NEW bits \in Nat
  PROVE  \E y \in Seq(Bit) : Stored(b, store_bigint_truncate(b, x, bits), y)
<1>1. BYTE \in Nat /\ BYTE > 0 /\ WORD \in Nat /\ WORD_BITS = WORD * BYTE /\ WORD_BITS > 0
  BY SizeFacts
<1>2. CASE 0 <= x /\ x < 2^WORD_BITS
  <2>1. PICK v : v = ToBits(x, WORD_BITS) /\ v \in Seq(Bit) /\ Len(v) = WORD_BITS /\ Aligned(v)
    BY <1>1, ToBytesFacts
  <2>2. store_bigint_truncate(b, x, bits) = store_word(b, v, bits)
    BY <1>2, <2>1 DEF store_bigint_truncate
  <2>3. Stored(b, store_word(b, v, bits), NumberBits(v, bits)) /\ NumberBits(v, bits) \in Seq(Bit)
    BY <1>1, <2>1, WordStored
  <2> QED BY <2>2, <2>3
<1>3. CASE ~(0 <= x /\ x < 2^WORD_BITS)
  <2>1. PICK a \in Nat : a = (BYTE - (bits % BYTE)) % BYTE
    <3>1. PICK r \in Nat : r = bits % BYTE /\ r < BYTE
      BY DivMod
    <3>2. PICK k \in Nat : k = BYTE - r
      BY <1>1, <3>1
    <3>3. k % BYTE \in Nat
      BY DivMod
    <3> QED BY <3>1, <3>2, <3>3
  <2>2. PICK p \in Nat : p = 2^a
    BY PowerFacts
  <2>3. PICK y \in Int : y = x * p
    OBVIOUS
  <2>4. PICK m \in Nat : m = DivCeil(bits, BYTE)
    BY CeilFacts
  <2>5. PICK v : v = ToBits(y, m * BYTE) /\ v \in Seq(Bit) /\ Aligned(v)
    BY ToBytesFacts
  <2>6. store_bigint_truncate(b, x, bits) = store_raw(b, v, bits)
    BY <1>3, <2>1, <2>2, <2>3, <2>4, <2>5 DEF store_bigint_truncate
  <2>7. Stored(b, store_raw(b, v, bits), RawBits(v, bits)) /\ RawBits(v, bits) \in Seq(Bit)
    BY <2>5, RawStored
  <2> QED BY <2>6, <2>7
<1> QED BY <1>2, <1>3

LEMMA BigintIsFormed ==
  ASSUME NEW b, WellFormed(b), NEW x \in Int, NEW bits \in Nat
  PROVE  WellFormed(store_bigint_truncate(b, x, bits).b)
BY BigintStored, StoredIsFormed

\* The length and then the number; the length may stay alone.
LEMMA VarBigintIsFormed ==
  ASSUME NEW b, WellFormed(b), NEW x \in Int, NEW n \in Nat, NEW signed \in BOOLEAN
  PROVE  WellFormed(store_var_bigint(b, x, n, signed).b)
<1>1. PICK bytes \in Nat : bytes = DivCeil(bitsize(x, signed), BYTE)
  BY BitsizeFacts, CeilFacts
<1>2. PICK v : v = ToBits(bytes, BYTE) /\ v \in Seq(Bit) /\ Aligned(v) /\ Len(v) > 0
  <2>1. 1 * BYTE = BYTE /\ BYTE \in Nat /\ BYTE > 0 /\ bytes \in Int
    BY SizeFacts
  <2>2. /\ ToBits(bytes, 1 * BYTE) \in Seq(Bit) /\ Len(ToBits(bytes, 1 * BYTE)) = 1 * BYTE
        /\ Aligned(ToBits(bytes, 1 * BYTE))
    BY <2>1, ToBytesFacts
  <2> QED BY <2>1, <2>2
<1>3. PICK r : r = store_word(b, v, n)
  OBVIOUS
<1>4. WellFormed(r.b)
  <2>1. Stored(b, r, NumberBits(v, n)) /\ NumberBits(v, n) \in Seq(Bit)
    BY <1>2, <1>3, WordStored
  <2> QED BY <2>1, StoredIsFormed
<1>5. PICK bits \in Nat : bits = bytes * BYTE
  BY Product
<1>6. PICK s : s = store_bigint_truncate(r.b, x, bits)
  OBVIOUS
<1>7. WellFormed(s.b)
  BY <1>4, <1>6, BigintIsFormed
<1>8. store_var_bigint(b, x, n, signed) \in {Refused(b), r, s}
  BY <1>1, <1>2, <1>3, <1>5, <1>6 DEF store_var_bigint, Chain
<1> QED BY <1>4, <1>7, <1>8 DEF Refused

-----------------------------------------------------------------------------
(* The specification *)

\* Lengths, words and byte strings that are asked for.
LEMMA AskedFacts ==
  /\ \A n \in Lens : n \in Nat
  /\ \A x \in Numbers : x \in Int
  /\ \A v \in Raw : v \in Seq(Bit) /\ Aligned(v)
  /\ \A v \in Values : /\ v \in Seq(Bit) /\ Aligned(v) /\ Len(v) = WORD_BITS /\ Len(v) > 0
                       /\ \E h \in Nat : Len(v) = h + h /\ h >= BYTE
<1>1. \A n \in Lens : n \in Nat
  BY InputAssumption DEF Lens
<1>2. \A x \in Numbers : x \in Int
  BY InputAssumption
<1>3. ASSUME NEW v \in Raw PROVE v \in Seq(Bit) /\ Aligned(v)
  <2>1. v \in Seq(Bit) /\ Len(v) % BYTE = 0 /\ Len(v) \in Nat
    BY InputAssumption
  <2>2. PICK q \in Nat : q = Len(v) \div BYTE /\ Len(v) = q * BYTE + (Len(v) % BYTE) /\ q * BYTE \in Nat
    BY <2>1, DivMod
  <2>3. Len(v) = q * BYTE
    BY <2>1, <2>2
  <2> QED BY <2>1, <2>3 DEF Aligned
<1>4. PICK w \in Nat : WORD = w + w /\ w >= 1
  <2>1. WORD \in Nat /\ WORD > 0 /\ WORD % 2 = 0
    BY BuilderAssumption
  <2>2. WORD \div 2 \in Nat /\ WORD = (WORD \div 2) + (WORD \div 2) /\ WORD \div 2 >= 1
    BY <2>1
  <2> QED BY <2>2
<1>5. PICK h \in Nat : h = w * BYTE /\ WORD_BITS = h + h /\ h >= BYTE
  <2>1. w * BYTE \in Nat /\ (w + w) * BYTE = w * BYTE + w * BYTE
    BY Product
  <2>2. 1 * BYTE = BYTE /\ 1 * BYTE <= w * BYTE
    BY <1>4, Product
  <2> QED BY <1>4, <2>1, <2>2 DEF WORD_BITS
<1>6. ASSUME NEW v \in Values
      PROVE  v \in Seq(Bit) /\ Aligned(v) /\ Len(v) = WORD_BITS /\ Len(v) > 0
  <2>1. WORD_BITS \in Nat /\ WORD_BITS > 0 /\ WORD \in Nat /\ WORD_BITS = WORD * BYTE
    BY SizeFacts
  <2>2. v \in [1..WORD_BITS -> Bit]
    BY InputAssumption DEF Words
  <2>3. v \in Seq(Bit) /\ Len(v) = WORD_BITS
    BY <2>1, <2>2, SeqFcn
  <2> QED BY <2>1, <2>3 DEF Aligned
<1> QED BY <1>1, <1>2, <1>3, <1>5, <1>6

\* Every call of the builder leaves it well formed.
LEMMA WritesKeepForm ==
  ASSUME WellFormed(builder), Writes
  PROVE  WellFormed(builder')
<1> DEFINE b == builder
<1>1. WellFormed(b)
  OBVIOUS
<1> HIDE DEF b
<1>2. ASSUME NEW r, NEW c, Write(r, c), WellFormed(r.b) PROVE WellFormed(builder')
  BY <1>2 DEF Write
<1>3. ASSUME NEW r, NEW x \in Seq(Bit), Stored(b, r, x) PROVE WellFormed(r.b)
  BY <1>1, <1>3, StoredIsFormed
<1>4. ASSUME NEW bit \in Bit, StoreBit(bit) PROVE WellFormed(builder')
  <2>1. <<0>> \in Seq(Bit) /\ <<1>> \in Seq(Bit)
    BY BitFacts
  <2>2. WellFormed(store_bit_one(b).b) /\ WellFormed(store_bit_zero(b).b)
    BY <1>1, <1>3, <2>1, BitZeroStored, BitOneStored
  <2>3. PICK r : r = (IF bit = 1 THEN store_bit_one(b) ELSE store_bit_zero(b)) /\ WellFormed(r.b)
    BY <2>2
  <2>4. Write(r, Asked(<<bit>>, <<>>))
    BY <1>4, <2>3 DEF StoreBit, b
  <2> QED BY <1>2, <2>3, <2>4
<1>5. ASSUME NEW n \in Lens, StoreZeros(n) \/ StoreOnes(n) \/ RewindBits(n) PROVE WellFormed(builder')
  <2>1. n \in Nat
    BY AskedFacts
  <2>2. CASE StoreZeros(n)
    <3>1. WellFormed(store_zeros(b, n).b)
      BY <1>1, <1>3, <2>1, ZerosStored, ZerosFacts
    <3> QED BY <1>2, <2>2, <3>1 DEF StoreZeros, b
  <2>3. CASE StoreOnes(n)
    <3>1. WellFormed(store_ones(b, n).b)
      BY <1>1, <1>3, <2>1, OnesStored, ZerosFacts
    <3> QED BY <1>2, <2>3, <3>1 DEF StoreOnes, b
  <2>4. CASE RewindBits(n)
    <3>1. PICK r : r = rewind_bits(b, n)
      OBVIOUS
    <3>2. r = Refused(b) \/ (n <= b.bit_len /\ Rewound(b, r.b, b.bit_len - n))
      BY <1>1, <2>1, <3>1, BitsRewound
    <3>3. CASE r = Refused(b)
      BY <1>1, <1>2, <2>4, <3>1, <3>3 DEF RewindBits, Refused, b
    <3>4. CASE n <= b.bit_len /\ Rewound(b, r.b, b.bit_len - n)
      <4>1. PICK l \in Nat : l = b.bit_len - n /\ l <= b.bit_len
        BY <1>1, <2>1, <3>4 DEF WellFormed, Builder
      <4>2. WellFormed(r.b)
        BY <1>1, <3>4, <4>1, RewoundIsFormed
      <4> QED BY <1>2, <2>4, <3>1, <4>2 DEF RewindBits, b
    <3> QED BY <3>2, <3>3, <3>4
  <2> QED BY <1>5, <2>2, <2>3, <2>4
<1>6. ASSUME NEW v \in Values, StoreFixed(v) \/ StoreU256(v) PROVE WellFormed(builder')
  <2>1. PICK h \in Nat : v \in Seq(Bit) /\ Aligned(v) /\ Len(v) > 0 /\ Len(v) = h + h /\ h >= BYTE
    BY AskedFacts
  <2>2. store_u256(b, v) = store_fixed(b, v)
    BY <1>1, <2>1, U256IsFixed
  <2>3. WellFormed(store_fixed(b, v).b)
    BY <1>1, <1>3, <2>1, FixedStored
  <2> QED BY <1>2, <1>6, <2>2, <2>3 DEF StoreFixed, StoreU256, b
<1>7. ASSUME NEW v \in Values, NEW n \in Lens, StoreUint(v, n) \/ StoreSmallUint(v, n) PROVE WellFormed(builder')
  <2>1. v \in Seq(Bit) /\ Aligned(v) /\ Len(v) = WORD_BITS /\ Len(v) > 0 /\ n \in Nat
    BY AskedFacts
  <2>2. PICK u : u = Low(v, BYTE) /\ u \in Seq(Bit) /\ Aligned(u) /\ Len(u) > 0
    <3>1. BYTE \in Nat /\ BYTE > 0 /\ BYTE <= Len(v) /\ BYTE = 1 * BYTE
      BY <2>1, SizeFacts
    <3>2. Low(v, BYTE) \in Seq(Bit) /\ Len(Low(v, BYTE)) = BYTE
      BY <2>1, <3>1, LowFacts
    <3>3. Aligned(Low(v, BYTE))
      BY <3>1, <3>2 DEF Aligned
    <3> QED BY <3>1, <3>2, <3>3
  <2>3. WellFormed(store_word(b, v, n).b) /\ WellFormed(store_word(b, u, n).b)
    <3>1. Stored(b, store_word(b, v, n), NumberBits(v, n)) /\ NumberBits(v, n) \in Seq(Bit)
      BY <1>1, <2>1, WordStored
    <3>2. Stored(b, store_word(b, u, n), NumberBits(u, n)) /\ NumberBits(u, n) \in Seq(Bit)
      BY <1>1, <2>1, <2>2, WordStored
    <3> QED BY <1>3, <3>1, <3>2
  <2> QED BY <1>2, <1>7, <2>2, <2>3 DEF StoreUint, StoreSmallUint, b
<1>8. ASSUME NEW v \in Raw, NEW n \in Lens, StoreRaw(v, n) \/ PrependRaw(v, n) PROVE WellFormed(builder')
  <2>1. v \in Seq(Bit) /\ Aligned(v) /\ n \in Nat
    BY AskedFacts
  <2>2. WellFormed(store_raw(b, v, n).b)
    BY <1>1, <1>3, <2>1, RawStored
  <2>3. WellFormed(prepend_raw(b, v, n).b)
    BY <1>1, <2>1, PrependedIsFormed
  <2> QED BY <1>2, <1>8, <2>2, <2>3 DEF StoreRaw, PrependRaw, b
<1>9. ASSUME NEW x \in Numbers, NEW n \in Lens, NEW signed \in BOOLEAN, StoreBigint(x, n, signed)
      PROVE  WellFormed(builder')
  <2>1. PICK r : r = store_bigint(b, x, n, signed)
    OBVIOUS
  <2>2. r = Refused(b) \/ r = store_bigint_truncate(b, x, n)
    BY <2>1 DEF store_bigint
  <2>3. WellFormed(r.b)
    BY <1>1, <2>2, AskedFacts, BigintIsFormed DEF Refused
  <2> QED BY <1>2, <1>9, <2>1, <2>3 DEF StoreBigint, b
<1>10. ASSUME NEW x \in Numbers, NEW n \in Lens, NEW signed \in BOOLEAN, StoreVarBigint(x, n, signed)
       PROVE  WellFormed(builder')
  <2>1. WellFormed(store_var_bigint(b, x, n, signed).b)
    BY <1>1, AskedFacts, VarBigintIsFormed
  <2> QED BY <1>2, <1>10, <2>1 DEF StoreVarBigint, b
<1>11. ASSUME NEW c \in RefCells, StoreReference(c) \/ SetReferences(<<c>>) PROVE WellFormed(builder')
  <2>1. WellFormed(store_reference(b, c).b)
    BY <1>1, ReferenceStored
  <2>2. Done(set_references(b, <<c>>)).b = set_references(b, <<c>>)
    BY DEF Done
  <2>3. WellFormed(Done(set_references(b, <<c>>)).b)
    <3>1. <<c>> \in Seq(RefCells)
      OBVIOUS
    <3>2. WellFormed(set_references(b, <<c>>))
      BY <1>1, <3>1, RefsKept DEF set_references
    <3> QED BY <2>2, <3>2
  <2> QED BY <1>2, <1>11, <2>1, <2>3 DEF StoreReference, SetReferences, b
<1>12. ASSUME StoreBuilder PROVE WellFormed(builder')
  <2>1. StoredWith(b, store_builder(b, b), Text(b), b.refs) /\ Text(b) \in Seq(Bit) /\ b.refs \in Seq(RefCells)
    BY <1>1, BuilderStored, TextFacts DEF WellFormed, Builder
  <2>2. WellFormed(store_builder(b, b).b)
    BY <1>1, <2>1, StoredWithIsFormed
  <2> QED BY <1>2, <1>12, <2>2 DEF StoreBuilder, b
<1>13. PICK cell : cell = build(b) /\ Holds(cell, b.data, b.bit_len) /\ cell.refs \in Seq(RefCells) /\ b.bit_len \in Nat
  BY <1>1, BuiltHolds DEF WellFormed, Builder
<1>14. ASSUME StoreCellData PROVE WellFormed(builder')
  <2>1. cell.data \in Seq(Bit) /\ Aligned(cell.data) /\ cell.bit_len \in Nat
    BY <1>13 DEF Holds
  <2>2. WellFormed(store_raw(b, cell.data, cell.bit_len).b)
    BY <1>1, <1>3, <2>1, RawStored
  <2> QED BY <1>2, <1>13, <1>14, <2>2 DEF StoreCellData, b
<1>15. ASSUME StoreSliceData PROVE WellFormed(builder')
  <2>1. PICK s \in SlicesOf(cell) : Write(store_slice_data(b, s), Asked(Unread(s), <<>>))
    BY <1>13, <1>15 DEF StoreSliceData, b
  <2>2. Stored(b, store_slice_data(b, s), Unread(s)) \/ store_slice_data(b, s) = Refused(b)
    BY <1>1, <1>13, SliceDataStored
  <2>3. Unread(s) \in Seq(Bit)
    BY <1>13, WindowFacts
  <2>4. WellFormed(store_slice_data(b, s).b)
    BY <1>1, <1>3, <2>2, <2>3 DEF Refused
  <2> QED BY <1>2, <2>1, <2>4
<1>16. ASSUME StoreSlice PROVE WellFormed(builder')
  <2>1. PICK c \in {build(b), as_full_cell(b), as_data_cell(b)} :
          \E s \in SlicesOf(c) : Write(store_slice(b, s), Asked(Unread(s), references(s)))
    BY <1>16 DEF StoreSlice, b
  <2>2. PICK s \in SlicesOf(c) : Write(store_slice(b, s), Asked(Unread(s), references(s)))
    BY <2>1
  <2>3. Holds(c, b.data, b.bit_len) /\ c.refs \in Seq(RefCells)
    BY <1>1, <1>13, <2>1, SeenAsCell
  <2>4. StoredWith(b, store_slice(b, s), Unread(s), references(s)) \/ store_slice(b, s) = Refused(b)
    BY <1>1, <1>13, <2>2, <2>3, SliceStored
  <2>5. Unread(s) \in Seq(Bit) /\ references(s) \in Seq(RefCells)
    BY <1>13, <2>2, <2>3, WindowFacts
  <2>6. WellFormed(store_slice(b, s).b)
    BY <1>1, <2>4, <2>5, StoredWithIsFormed DEF Refused
  <2> QED BY <1>2, <2>2, <2>6
<1>17. ASSUME ClearBits PROVE WellFormed(builder')
  <2>1. Done(clear_bits(b)).b = clear_bits(b)
    BY DEF Done
  <2>2. WellFormed(Done(clear_bits(b)).b)
    BY <1>1, <2>1, BitsCleared
  <2> QED BY <1>2, <1>17, <2>1, <2>2 DEF ClearBits, b
<1> QED BY <1>4, <1>5, <1>6, <1>7, <1>8, <1>9, <1>10, <1>11, <1>12, <1>14, <1>15, <1>16, <1>17 DEF Writes

\* Loads and window calls leave the builder alone.
LEMMA ReadsKeepBuilder ==
  ASSUME Reads
  PROVE  builder' = builder
<1>1. ASSUME NEW op, NEW n, NEW m, Window(op, n, m) PROVE builder' = builder
  BY <1>1 DEF Window, Read
<1>2. ASSUME LoadRemaining \/ WithoutReferences \/ LoadReference PROVE builder' = builder
  BY <1>2 DEF LoadRemaining, WithoutReferences, LoadReference, Read
<1>3. ASSUME LoadBit PROVE builder' = builder
  BY <1>3 DEF LoadBit, Read
<1>4. ASSUME NEW n, LoadFixed(n) \/ LoadU128(n) \/ LoadU256(n) PROVE builder' = builder
  BY <1>4 DEF LoadFixed, LoadU128, LoadU256, Read
<1>5. ASSUME NEW n, LoadSmallUint(n) PROVE builder' = builder
  BY <1>5 DEF LoadSmallUint, Read
<1>6. ASSUME NEW n, LoadUint(n) PROVE builder' = builder
  BY <1>6 DEF LoadUint, Read
<1>7. ASSUME NEW n, LoadRaw(n) PROVE builder' = builder
  BY <1>7 DEF LoadRaw, Read
<1>8. ASSUME NEW n, NEW signed, LoadBigint(n, signed) PROVE builder' = builder
  BY <1>8 DEF LoadBigint, Read
<1>9. ASSUME NEW n, LoadVarBigint(n) PROVE builder' = builder
  BY <1>9 DEF LoadVarBigint, Read
<1> QED BY <1>1, <1>2, <1>3, <1>4, <1>5, <1>6, <1>7, <1>8, <1>9 DEF Reads

\* The inductive invariant: a whole array, zeroes behind the bits in use, and
\* room for the completion tag.
BuilderInv == WellFormed(builder)

\* Whatever was stored, prepended, rewound or refused, the array is whole, it is
\* zero behind the bits in use, and one bit is left for the completion tag that
\* build sets (builder.rs: every store tests the capacity, MAX_BIT_LEN is one
\* less than the array).
THEOREM BuilderInvariance == Spec => []BuilderInv
<1>1. WellFormed(new)
  BY EmptySeq, NewIsFormed
<1>2. Init => BuilderInv
  BY <1>1 DEF Init, BuilderInv
<1>3. BuilderInv /\ [Next]_vars => BuilderInv'
  <2>1. SUFFICES ASSUME WellFormed(builder), [Next]_vars PROVE WellFormed(builder')
    BY DEF BuilderInv
  <2>2. CASE Writes
    BY <2>1, <2>2, WritesKeepForm
  <2>3. CASE Build
    BY <1>1, <2>3 DEF Build
  <2>4. CASE Reads
    BY <2>1, <2>4, ReadsKeepBuilder
  <2>5. CASE UNCHANGED vars
    BY <2>1, <2>5 DEF vars
  <2> QED BY <2>1, <2>2, <2>3, <2>4, <2>5 DEF Next
<1> QED BY <1>2, <1>3, PTL DEF Spec

\* Nothing is left in the array behind the bits in use, whatever was stored,
\* prepended, rewound or refused before (builder.rs: store_zeros skips over that
\* part, PartialEq for CellDataBuilder compares it).
THEOREM TailIsZeroCorrect == Spec => []TailIsZero
<1>1. BuilderInv => TailIsZero
  <2>1. SUFFICES ASSUME WellFormed(builder) PROVE TailIsZero
    BY DEF BuilderInv
  <2>2. PICK d \in Seq(Bit), l \in Nat, m \in Nat :
          /\ d = builder.data /\ l = builder.bit_len /\ m = Len(d) /\ l <= m
          /\ \A i \in 1..m : i > l => d[i] = 0
    BY <2>1, SizeFacts DEF WellFormed, Builder
  <2>3. /\ Len(SubSeq(d, l + 1, m)) = m - l
        /\ \A i \in 1..(m - l) : SubSeq(d, l + 1, m)[i] = d[l + i]
    BY <2>2, PartFacts, SMTT(30)
  <2>4. PICK t : t = SubSeq(d, l + 1, m) /\ Len(t) = m - l /\ \A i \in 1..(m - l) : t[i] = d[l + i]
    BY <2>3
  <2>5. ASSUME NEW i \in 1..Len(t) PROVE t[i] = 0
    <3>1. i \in 1..(m - l) /\ l <= m
      BY <2>2, <2>4, Zenon
    <3>2. l + i \in 1..m /\ l + i > l
      BY <3>1
    <3>3. t[i] = d[l + i] /\ d[l + i] = 0
      BY <2>2, <2>4, <3>1, <3>2
    <3> QED BY <3>3
  <2>6. IsZero(t)
    BY <2>5 DEF IsZero
  <2> QED BY <2>2, <2>4, <2>6 DEF TailIsZero
<1> QED BY <1>1, BuilderInvariance, PTL

=============================================================================
