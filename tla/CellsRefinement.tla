-------------------------- MODULE CellsRefinement --------------------------
(***************************************************************************)
(* The bytes and windows of Cells implement the strings of bits and the    *)
(* lists of references of BitCell, step by step.                           *)
(***************************************************************************)
EXTENDS CellReadsProofs

-----------------------------------------------------------------------------
(* Windows *)

\* A window within the bits and the references of a cell that fits a builder.
IsSlice(s) ==
  /\ s \in Slices /\ Aligned(s.cell.data)
  /\ s.cell.bit_len < Full /\ s.cell.bit_len <= Len(s.cell.data)
  /\ s.range.bits_start <= s.range.bits_end /\ s.range.bits_end <= s.cell.bit_len
  /\ s.range.refs_start <= s.range.refs_end /\ s.range.refs_end <= Len(s.cell.refs)

\* The part x of v behind a, up to b.
IsSub(S, x, v, a, b) == x \in Seq(S) /\ Len(x) = b - a /\ \A i \in 1..(b - a) : x[i] = v[a + i]

LEMMA SubIs ==
  ASSUME NEW S, NEW v \in Seq(S), NEW a \in Nat, NEW b \in Nat, a <= b, b <= Len(v),
         NEW x, x = SubSeq(v, a + 1, b)
  PROVE  IsSub(S, x, v, a, b)
<1>1. /\ SubSeq(v, a + 1, b) \in Seq(S) /\ Len(SubSeq(v, a + 1, b)) = b - a
      /\ \A i \in 1..(b - a) : SubSeq(v, a + 1, b)[i] = v[a + i]
  BY PartFacts
<1> QED BY <1>1, Zenon DEF IsSub

\* A part of a part.
LEMMA PartOfPart ==
  ASSUME NEW S, NEW v \in Seq(S), NEW a \in Nat, NEW b \in Nat, a <= b, b <= Len(v),
         NEW c \in Nat, NEW e \in Nat, c <= e, e <= b - a
  PROVE  SubSeq(SubSeq(v, a + 1, b), c + 1, e) = SubSeq(v, (a + c) + 1, a + e)
<1>1. PICK p : p = SubSeq(v, a + 1, b) /\ IsSub(S, p, v, a, b)
  BY SubIs, Zenon
<1>a. p \in Seq(S) /\ Len(p) = b - a /\ \A i \in 1..(b - a) : p[i] = v[a + i]
  BY <1>1, Zenon DEF IsSub
<1>b. e <= Len(p)
  BY <1>a
<1>c. PICK x : x = SubSeq(p, c + 1, e) /\ IsSub(S, x, p, c, e)
  BY <1>a, <1>b, SubIs, Zenon
<1>2. x \in Seq(S) /\ Len(x) = e - c /\ \A i \in 1..(e - c) : x[i] = p[c + i]
  BY <1>c, Zenon DEF IsSub
<1>3. PICK g : g = a + c
  OBVIOUS
<1>4. PICK h : h = a + e
  OBVIOUS
<1>5. g \in Nat /\ h \in Nat /\ g <= h /\ h <= Len(v) /\ h - g = e - c
  BY <1>3, <1>4, LenProperties
<1>d. PICK y : y = SubSeq(v, g + 1, h) /\ IsSub(S, y, v, g, h)
  BY <1>5, SubIs, Zenon
<1>6. y \in Seq(S) /\ Len(y) = h - g /\ \A i \in 1..(h - g) : y[i] = v[g + i]
  BY <1>d, Zenon DEF IsSub
<1>7. ASSUME NEW i \in 1..(e - c) PROVE x[i] = y[i]
  <2>1. PICK j : j = c + i
    OBVIOUS
  <2>2. j \in 1..(b - a) /\ a + j = g + i
    BY <1>3, <2>1
  <2> QED BY <1>a, <1>2, <1>5, <1>6, <2>1, <2>2, Zenon
<1>8. x = y
  BY <1>2, <1>5, <1>6, <1>7, SeqSame
<1> QED BY <1>1, <1>c, <1>d, <1>3, <1>4, <1>8

\* What a window shows: nb bits u and nr references c.
Shows(s, u, c, nb, nr) ==
  /\ u = Unread(s) /\ u \in Seq(Bit) /\ Len(u) = nb /\ nb \in Nat /\ nb < Full
  /\ c = references(s) /\ c \in Seq(RefCells) /\ Len(c) = nr /\ nr \in Nat
  /\ s.range.bits_start \in Nat /\ s.range.bits_end = s.range.bits_start + nb
  /\ s.range.refs_start \in Nat /\ s.range.refs_end = s.range.refs_start + nr

LEMMA SliceShows ==
  ASSUME NEW s, IsSlice(s)
  PROVE  \E u, c, nb, nr : Shows(s, u, c, nb, nr)
<1>1. /\ s.cell.data \in Seq(Bit) /\ s.cell.refs \in Seq(RefCells) /\ s.cell.bit_len \in Nat
      /\ s.range.bits_start \in Nat /\ s.range.bits_end \in Nat
      /\ s.range.refs_start \in Nat /\ s.range.refs_end \in Nat
  BY DEF IsSlice, Slices
<1>2. PICK d \in Seq(Bit), r \in Seq(RefCells), a \in Nat, b \in Nat, e \in Nat, f \in Nat :
        /\ d = s.cell.data /\ r = s.cell.refs
        /\ a = s.range.bits_start /\ b = s.range.bits_end
        /\ e = s.range.refs_start /\ f = s.range.refs_end
  BY <1>1
<1>3. a <= b /\ b <= Len(d) /\ e <= f /\ f <= Len(r) /\ b < Full
  BY <1>1, <1>2, SizeFacts DEF IsSlice
<1>a. PICK u, c : u = SubSeq(d, a + 1, b) /\ c = SubSeq(r, e + 1, f)
  OBVIOUS
<1>b. IsSub(Bit, u, d, a, b) /\ IsSub(RefCells, c, r, e, f)
  BY <1>3, <1>a, SubIs, Zenon
<1>4. u = SubSeq(d, a + 1, b) /\ u \in Seq(Bit) /\ Len(u) = b - a
  BY <1>a, <1>b, Zenon DEF IsSub
<1>5. c = SubSeq(r, e + 1, f) /\ c \in Seq(RefCells) /\ Len(c) = f - e
  BY <1>a, <1>b, Zenon DEF IsSub
<1>6. u = Unread(s) /\ c = references(s)
  BY <1>2, <1>4, <1>5 DEF Unread, references
<1>7. PICK nb, nr : nb = b - a /\ nr = f - e
  OBVIOUS
<1>8. nb \in Nat /\ nr \in Nat /\ b = a + nb /\ f = e + nr /\ nb < Full
  BY <1>3, <1>7, SizeFacts
<1>9. Shows(s, u, c, nb, nr)
  BY <1>2, <1>4, <1>5, <1>6, <1>7, <1>8, Zenon DEF Shows
<1> QED BY <1>9

\* The bits that a window covers, for the reads.
LEMMA ShownBits ==
  ASSUME NEW s, IsSlice(s), NEW u, NEW c, NEW nb, NEW nr, Shows(s, u, c, nb, nr)
  PROVE  \E d, from, end : /\ Covers(s, d, from, end) /\ end = from + nb
                           /\ \A i \in 1..nb : u[i] = d[from + i]
<1>1. PICK d, from, end : d = s.cell.data /\ from = s.range.bits_start /\ end = s.range.bits_end
  OBVIOUS
<1>2. d \in Seq(Bit) /\ Aligned(d) /\ s.cell.bit_len \in Nat /\ end \in Nat /\ from \in Nat
  BY <1>1 DEF IsSlice, Slices
<1>3. from <= end /\ end <= Len(d)
  BY <1>1, <1>2 DEF IsSlice
<1>4. Covers(s, d, from, end)
  BY <1>1, <1>2, <1>3, Zenon DEF Covers
<1>5. end = from + nb /\ nb \in Nat /\ end - from = nb
  BY <1>1, <1>2 DEF Shows
<1>6. u = SubSeq(d, from + 1, end)
  BY <1>1 DEF Shows, Unread
<1>7. \A i \in 1..nb : u[i] = d[from + i]
  BY <1>2, <1>3, <1>5, <1>6, PartFacts
<1> QED BY <1>4, <1>5, <1>7

\* A window of the same cell, its ends counted from the start of that of s.
Within(s, t, a, b, e, f) ==
  /\ t \in Slices /\ t.cell = s.cell
  /\ t.range.bits_start = s.range.bits_start + a /\ t.range.bits_end = s.range.bits_start + b
  /\ t.range.refs_start = s.range.refs_start + e /\ t.range.refs_end = s.range.refs_start + f

\* It shows that part.
LEMMA WithinShows ==
  ASSUME NEW s, IsSlice(s), NEW u, NEW c, NEW nb, NEW nr, Shows(s, u, c, nb, nr),
         NEW a \in Nat, NEW b \in Nat, a <= b, b <= nb, NEW e \in Nat, NEW f \in Nat, e <= f, f <= nr,
         NEW t, Within(s, t, a, b, e, f)
  PROVE  IsSlice(t) /\ Unread(t) = SubSeq(u, a + 1, b) /\ references(t) = SubSeq(c, e + 1, f)
<1>1. PICK d \in Seq(Bit), r \in Seq(RefCells), l \in Nat, x \in Nat, y \in Nat, z \in Nat, w \in Nat :
        /\ d = s.cell.data /\ r = s.cell.refs /\ l = s.cell.bit_len
        /\ x = s.range.bits_start /\ y = s.range.bits_end
        /\ z = s.range.refs_start /\ w = s.range.refs_end
  BY DEF IsSlice, Slices
<1>2. /\ x <= y /\ y <= l /\ l <= Len(d) /\ z <= w /\ w <= Len(r) /\ l < Full /\ Aligned(d)
  BY <1>1 DEF IsSlice
<1>3. y = x + nb /\ w = z + nr /\ nb \in Nat /\ nr \in Nat
  BY <1>1 DEF Shows
<1>4. /\ t \in Slices /\ t.cell.data = d /\ t.cell.refs = r /\ t.cell.bit_len = l
      /\ t.range.bits_start = x + a /\ t.range.bits_end = x + b
      /\ t.range.refs_start = z + e /\ t.range.refs_end = z + f
  BY <1>1, Zenon DEF Within
<1>5. x + a <= x + b /\ x + b <= l /\ z + e <= z + f /\ z + f <= Len(r)
  BY <1>2, <1>3
<1>6. IsSlice(t)
  BY <1>2, <1>4, <1>5, Zenon DEF IsSlice
<1>7. u = SubSeq(d, x + 1, y) /\ c = SubSeq(r, z + 1, w)
  BY <1>1, Zenon DEF Shows, Unread, references
<1>8. b <= y - x /\ f <= w - z /\ y <= Len(d)
  BY <1>2, <1>3
<1>9. SubSeq(u, a + 1, b) = SubSeq(d, (x + a) + 1, x + b)
  BY <1>2, <1>7, <1>8, PartOfPart
<1>10. SubSeq(c, e + 1, f) = SubSeq(r, (z + e) + 1, z + f)
  BY <1>2, <1>7, <1>8, PartOfPart
<1>11. Unread(t) = SubSeq(d, (x + a) + 1, x + b) /\ references(t) = SubSeq(r, (z + e) + 1, z + f)
  BY <1>4 DEF Unread, references
<1> QED BY <1>6, <1>9, <1>10, <1>11

\* Enough is left.
LEMMA RemainingFacts ==
  ASSUME NEW s, NEW u, NEW c, NEW nb, NEW nr, Shows(s, u, c, nb, nr), NEW n \in Nat, NEW m \in Nat
  PROVE  /\ has_remaining(s, n, m) <=> n <= nb /\ m <= nr
         /\ size_bits(s) = nb /\ size_refs(s) = nr
<1>1. PICK x \in Nat, z \in Nat : x = s.range.bits_start /\ z = s.range.refs_start
  BY DEF Shows
<1>2. s.range.bits_end = x + nb /\ s.range.refs_end = z + nr /\ nb \in Nat /\ nr \in Nat
  BY <1>1 DEF Shows
<1>3. x + n <= x + nb <=> n <= nb
  BY <1>2
<1>4. z + m <= z + nr <=> m <= nr
  BY <1>2
<1>5. size_bits(s) = nb
  BY <1>1, <1>2 DEF size_bits
<1>6. size_refs(s) = nr
  BY <1>1, <1>2 DEF size_refs
<1> QED BY <1>1, <1>2, <1>3, <1>4, <1>5, <1>6 DEF has_remaining

\* Each update of a range of n bits and m references that are there.
LEMMA RangeMoved ==
  ASSUME NEW s, IsSlice(s), NEW u, NEW c, NEW nb, NEW nr, Shows(s, u, c, nb, nr),
         NEW n \in Nat, NEW m \in Nat, n <= nb, m <= nr
  PROVE  /\ Within(s, [s EXCEPT !.range.bits_start = @ + n, !.range.refs_start = @ + m], n, nb, m, nr)
         /\ Within(s, [s EXCEPT !.range.bits_end = s.range.bits_start + n,
                                !.range.refs_end = s.range.refs_start + m], 0, n, 0, m)
         /\ Within(s, [s EXCEPT !.range.bits_end = @ - n, !.range.refs_end = @ - m], 0, nb - n, 0, nr - m)
         /\ Within(s, [s EXCEPT !.range.bits_start = s.range.bits_end - n,
                                !.range.refs_start = s.range.refs_end - m], nb - n, nb, nr - m, nr)
<1>1. s \in Slices
  BY DEF IsSlice
<1>2. PICK x \in Nat, z \in Nat, y \in Nat, w \in Nat :
        /\ x = s.range.bits_start /\ z = s.range.refs_start
        /\ y = s.range.bits_end /\ w = s.range.refs_end
        /\ y = x + nb /\ w = z + nr
  BY DEF Shows
<1>3. nb \in Nat /\ nr \in Nat
  BY DEF Shows
<1>4. ASSUME NEW t, t = [s EXCEPT !.range.bits_start = @ + n, !.range.refs_start = @ + m]
      PROVE  Within(s, t, n, nb, m, nr)
  <2>1. x + n \in Nat /\ z + m \in Nat
    OBVIOUS
  <2>2. /\ t.cell = s.cell /\ t.range.bits_start = x + n /\ t.range.refs_start = z + m
        /\ t.range.bits_end = y /\ t.range.refs_end = w
    BY <1>1, <1>2, <1>4 DEF Slices
  <2>3. t \in Slices
    BY <1>1, <1>2, <1>4, <2>1 DEF Slices
  <2> QED BY <1>2, <2>2, <2>3, Zenon DEF Within
<1>5. ASSUME NEW t, t = [s EXCEPT !.range.bits_end = s.range.bits_start + n,
                                  !.range.refs_end = s.range.refs_start + m]
      PROVE  Within(s, t, 0, n, 0, m)
  <2>1. x + n \in Nat /\ z + m \in Nat /\ x = x + 0 /\ z = z + 0
    OBVIOUS
  <2>2. /\ t.cell = s.cell /\ t.range.bits_start = x /\ t.range.refs_start = z
        /\ t.range.bits_end = x + n /\ t.range.refs_end = z + m
    BY <1>1, <1>2, <1>5 DEF Slices
  <2>3. t \in Slices
    BY <1>1, <1>2, <1>5, <2>1 DEF Slices
  <2> QED BY <1>2, <2>1, <2>2, <2>3, Zenon DEF Within
<1>6. ASSUME NEW t, t = [s EXCEPT !.range.bits_end = @ - n, !.range.refs_end = @ - m]
      PROVE  Within(s, t, 0, nb - n, 0, nr - m)
  <2>1. /\ y - n \in Nat /\ w - m \in Nat /\ y - n = x + (nb - n) /\ w - m = z + (nr - m)
        /\ x = x + 0 /\ z = z + 0
    BY <1>2, <1>3
  <2>2. /\ t.cell = s.cell /\ t.range.bits_start = x /\ t.range.refs_start = z
        /\ t.range.bits_end = y - n /\ t.range.refs_end = w - m
    BY <1>1, <1>2, <1>6 DEF Slices
  <2>3. t \in Slices
    BY <1>1, <1>2, <1>6, <2>1 DEF Slices
  <2> QED BY <1>2, <2>1, <2>2, <2>3, Zenon DEF Within
<1>7. ASSUME NEW t, t = [s EXCEPT !.range.bits_start = s.range.bits_end - n,
                                  !.range.refs_start = s.range.refs_end - m]
      PROVE  Within(s, t, nb - n, nb, nr - m, nr)
  <2>1. y - n \in Nat /\ w - m \in Nat /\ y - n = x + (nb - n) /\ w - m = z + (nr - m)
    BY <1>2, <1>3
  <2>2. /\ t.cell = s.cell /\ t.range.bits_start = y - n /\ t.range.refs_start = w - m
        /\ t.range.bits_end = y /\ t.range.refs_end = w
    BY <1>1, <1>2, <1>7 DEF Slices
  <2>3. t \in Slices
    BY <1>1, <1>2, <1>7, <2>1 DEF Slices
  <2> QED BY <1>2, <2>1, <2>2, <2>3, Zenon DEF Within
<1> QED BY <1>4, <1>5, <1>6, <1>7, Zenon

-----------------------------------------------------------------------------
(* Loads *)

\* A load that took n bits, and its result.
Took(s, m, v, n, nb, nr) == m.got = v /\ v # Underflow /\ v # None /\ Within(s, m.s, n, nb, 0, nr)

LEMMA LoadTakes ==
  ASSUME NEW s, IsSlice(s), NEW u, NEW c, NEW nb, NEW nr, Shows(s, u, c, nb, nr),
         NEW n \in Nat, n <= nb, NEW v, v # Underflow, v # None
  PROVE  Took(s, Load(s, v, n), v, n, nb, nr)
<1>1. PICK t : t = [s EXCEPT !.range.bits_start = @ + n]
  OBVIOUS
<1>2. PICK x \in Nat, z \in Nat, y \in Nat, w \in Nat :
        /\ x = s.range.bits_start /\ z = s.range.refs_start
        /\ y = s.range.bits_end /\ w = s.range.refs_end
        /\ y = x + nb /\ w = z + nr
  BY DEF Shows
<1>3. s \in Slices
  BY DEF IsSlice
<1>4. x + n \in Nat /\ z = z + 0
  OBVIOUS
<1>5. /\ t.cell = s.cell /\ t.range.bits_start = x + n /\ t.range.refs_start = z
      /\ t.range.bits_end = y /\ t.range.refs_end = w
  BY <1>1, <1>2, <1>3 DEF Slices
<1>6. t \in Slices
  BY <1>1, <1>2, <1>3, <1>4 DEF Slices
<1>7. Within(s, t, n, nb, 0, nr)
  BY <1>2, <1>4, <1>5, <1>6, Zenon DEF Within
<1>8. Load(s, v, n) = [s |-> t, got |-> v]
  BY <1>1 DEF Load, Moved
<1>9. Load(s, v, n).s = t /\ Load(s, v, n).got = v
  BY <1>8
<1> QED BY <1>7, <1>9, Zenon DEF Took

\* What is left when n bits were taken.
LEMMA TookShows ==
  ASSUME NEW s, IsSlice(s), NEW u, NEW c, NEW nb, NEW nr, Shows(s, u, c, nb, nr),
         NEW n \in Nat, n <= nb, NEW m, NEW v, Took(s, m, v, n, nb, nr)
  PROVE  IsSlice(m.s) /\ Unread(m.s) = SubSeq(u, n + 1, nb) /\ references(m.s) = c
<1>1. nb \in Nat /\ nr \in Nat /\ 0 \in Nat /\ nb <= nb /\ nr <= nr /\ 0 <= nr
      /\ c \in Seq(RefCells) /\ Len(c) = nr
  BY DEF Shows
<1>2. Within(s, m.s, n, nb, 0, nr)
  BY DEF Took
<1>3. /\ IsSlice(m.s) /\ Unread(m.s) = SubSeq(u, n + 1, nb) /\ references(m.s) = SubSeq(c, 0 + 1, nr)
  BY <1>1, <1>2, WithinShows
<1>4. SubSeq(c, 0 + 1, nr) = c
  <2>1. IsSub(RefCells, SubSeq(c, 0 + 1, nr), c, 0, nr)
    BY <1>1, SubIs, Zenon
  <2>2. PICK y : y = SubSeq(c, 0 + 1, nr) /\ y \in Seq(RefCells) /\ Len(y) = nr - 0
              /\ \A i \in 1..(nr - 0) : y[i] = c[0 + i]
    BY <2>1, Zenon DEF IsSub
  <2>3. Len(y) = Len(c) /\ \A i \in 1..Len(y) : y[i] = c[i]
    BY <1>1, <2>2
  <2> QED BY <1>1, <2>2, <2>3, SeqSame
<1> QED BY <1>3, <1>4, Zenon

\* A call of the slice that ended with m, and gave back z if it gave back anything.
ReadTo(m, c, z) ==
  /\ slice' = m.s /\ call' = c /\ builder' = builder
  /\ got' = IF m.got = Underflow THEN FALSE ELSE IF m.got = None THEN TRUE ELSE z

\* A load of the model is a load of BitCell: the next n bits, or an error and nothing is taken.
LEMMA LoadStep ==
  ASSUME IsSlice(slice), slice # NoSlice,
         NEW u, NEW c, NEW nb, NEW nr, Shows(slice, u, c, nb, nr),
         NEW n \in Nat, NEW max \in Nat, NEW m, NEW v, NEW z,
         ReadTo(m, Loads(n, max), z),
         IF n <= nb /\ n <= max THEN Took(slice, m, v, n, nb, nr) /\ z = SubSeq(u, 1, n) ELSE m = Failed(slice)
  PROVE  Abstract!Load(n, max) /\ IsSlice(slice')
<1>a. /\ slice' = m.s /\ call' = Loads(n, max) /\ builder' = builder
      /\ got' = IF m.got = Underflow THEN FALSE ELSE IF m.got = None THEN TRUE ELSE z
  BY DEF ReadTo
<1>1. u = Unread(slice) /\ c = references(slice) /\ Len(u) = nb
  BY DEF Shows
<1>2. CASE n <= nb /\ n <= max
  <2>1. Took(slice, m, v, n, nb, nr) /\ z = SubSeq(u, 1, n)
    BY <1>2
  <2>2. IsSlice(slice') /\ Unread(slice') = SubSeq(u, n + 1, nb) /\ references(slice') = c
    <3>1. IsSlice(m.s) /\ Unread(m.s) = SubSeq(u, n + 1, nb) /\ references(m.s) = c
      BY <1>2, <2>1, TookShows
    <3> QED BY <1>a, <3>1
  <2>3. slice' # NoSlice
    BY <2>2, NoUnderflow DEF IsSlice
  <2>4. got' = SubSeq(u, 1, n)
    BY <1>a, <2>1, Zenon DEF Took
  <2> QED BY <1>a, <1>1, <1>2, <2>2, <2>3, <2>4 DEF Abstract!Load, Abstract!First, Abstract!Without, Loads
<1>3. CASE ~(n <= nb /\ n <= max)
  <2>1. m.got = Underflow /\ m.s = slice
    BY <1>3 DEF Failed, Moved
  <2>2. slice' = slice /\ got' = FALSE
    BY <1>a, <2>1
  <2> QED BY <1>a, <1>1, <1>3, <2>2 DEF Abstract!Load, Abstract!First, Abstract!Without, Loads
<1> QED BY <1>2, <1>3

\* The bits u of d from a place on.
Copies(u, d, from, nb) == u \in Seq(Bit) /\ nb \in Nat /\ Len(u) = nb /\ \A i \in 1..nb : u[i] = d[from + i]

LEMMA WindowCopies ==
  ASSUME NEW s, IsSlice(s), NEW u, NEW c, NEW nb, NEW nr, Shows(s, u, c, nb, nr)
  PROVE  \E d, from, end : /\ Covers(s, d, from, end) /\ from \in Nat /\ end = from + nb
                           /\ \A k \in Nat : from + k <= end <=> k <= nb
                           /\ Copies(u, d, from, nb)
<1>1. PICK d, from, end : /\ Covers(s, d, from, end) /\ end = from + nb
                          /\ \A i \in 1..nb : u[i] = d[from + i]
  BY ShownBits
<1>2. nb \in Nat /\ u \in Seq(Bit) /\ Len(u) = nb
  BY DEF Shows
<1>3. from \in Nat
  BY <1>1, Zenon DEF Covers
<1>4. \A k \in Nat : from + k <= end <=> k <= nb
  BY <1>1, <1>2, <1>3
<1>5. Copies(u, d, from, nb)
  BY <1>1, <1>2, Zenon DEF Copies
<1> QED BY <1>1, <1>3, <1>4, <1>5

LEMMA FirstShown ==
  ASSUME NEW u, NEW d, NEW from, NEW nb, Copies(u, d, from, nb), NEW n \in Nat, n <= nb,
         NEW x, IsPart(x, d, from, n)
  PROVE  x = SubSeq(u, 1, n)
<1>1. u \in Seq(Bit) /\ nb \in Nat /\ Len(u) = nb /\ \A i \in 1..nb : u[i] = d[from + i]
  BY Zenon DEF Copies
<1>2. x \in Seq(Bit) /\ Len(x) = n /\ \A i \in 1..n : x[i] = d[from + i]
  BY Zenon DEF IsPart
<1>3. PICK y : y = SubSeq(u, 0 + 1, n)
  OBVIOUS
<1>4. 0 \in Nat /\ 0 <= n /\ n <= Len(u) /\ 0 + 1 = 1 /\ n - 0 = n /\ \A i \in 1..n : 0 + i = i
  BY <1>1
<1>5. IsSub(Bit, y, u, 0, n)
  BY <1>1, <1>3, <1>4, SubIs, Zenon
<1>6. y \in Seq(Bit) /\ Len(y) = n /\ \A i \in 1..n : y[i] = u[i]
  BY <1>4, <1>5 DEF IsSub
<1>7. ASSUME NEW i \in 1..n PROVE x[i] = y[i]
  <2>1. i \in 1..nb
    BY <1>1
  <2> QED BY <1>1, <1>2, <1>6, <2>1, Zenon
<1>8. x = y
  BY <1>2, <1>6, <1>7, SeqSame
<1> QED BY <1>3, <1>4, <1>8

\* The low bits of a word, and the first bits of whole bytes, that hold what was read.
LEMMA LowShown ==
  ASSUME NEW u, NEW d, NEW from, NEW nb, Copies(u, d, from, nb), NEW n \in Nat, n <= nb,
         NEW w \in Nat, NEW v, IsLow(v, d, from, n, w)
  PROVE  Low(v, n) = SubSeq(u, 1, n)
<1>1. v \in Seq(Bit) /\ Len(v) = w /\ n <= w /\ \A i \in 1..n : v[w - n + i] = d[from + i]
  BY Zenon DEF IsLow
<1>2. Low(v, n) \in Seq(Bit) /\ Len(Low(v, n)) = n /\ \A i \in 1..n : Low(v, n)[i] = v[w - n + i]
  BY <1>1, LowFacts
<1>3. IsPart(Low(v, n), d, from, n)
  BY <1>1, <1>2, Zenon DEF IsPart
<1> QED BY <1>3, FirstShown, Zenon

LEMMA WordIsLow ==
  ASSUME NEW d, NEW from \in Nat, NEW n \in Nat, NEW w \in Nat, NEW v, IsWord(v, d, from, n, w)
  PROVE  IsLow(v, d, from, n, w)
<1>1. /\ v \in Seq(Bit) /\ Len(v) = w /\ n <= w
      /\ \A i \in 1..w : v[i] = IF i <= w - n THEN 0 ELSE d[from + (i - (w - n))]
  BY Zenon DEF IsWord
<1>2. ASSUME NEW i \in 1..n PROVE v[w - n + i] = d[from + i]
  <2>1. PICK j : j = w - n + i
    OBVIOUS
  <2>2. j \in 1..w /\ ~(j <= w - n) /\ j - (w - n) = i
    BY <1>1, <2>1
  <2>3. v[j] = d[from + (j - (w - n))]
    BY <1>1, <2>2, Zenon
  <2> QED BY <2>1, <2>2, <2>3
<1> QED BY <1>1, <1>2, Zenon DEF IsLow

LEMMA RawShown ==
  ASSUME NEW u, NEW d, NEW from, NEW nb, Copies(u, d, from, nb), NEW n \in Nat, n <= nb,
         NEW v, IsRaw(v, d, from, n)
  PROVE  SubSeq(v, 1, n) = SubSeq(u, 1, n)
<1>1. v \in Seq(Bit) /\ n <= Len(v) /\ \A i \in 1..n : v[i] = d[from + i]
  BY Zenon DEF IsRaw
<1>2. 0 \in Nat /\ 0 <= n /\ 0 + 1 = 1 /\ n - 0 = n /\ \A i \in 1..n : 0 + i = i
  OBVIOUS
<1>3. PICK y : y = SubSeq(v, 0 + 1, n)
  OBVIOUS
<1>4. IsSub(Bit, y, v, 0, n)
  BY <1>1, <1>2, <1>3, SubIs, Zenon
<1>5. y \in Seq(Bit) /\ Len(y) = n /\ \A i \in 1..n : y[i] = v[i]
  BY <1>2, <1>4 DEF IsSub
<1>6. IsPart(y, d, from, n)
  BY <1>1, <1>5, Zenon DEF IsPart
<1>7. y = SubSeq(u, 1, n)
  BY <1>6, FirstShown, Zenon
<1> QED BY <1>2, <1>3, <1>7

\* A reader's value v, its bits z, and the step over it.
Gives(v, m, z, u, n, max, nb) ==
  IF n <= nb /\ n <= max THEN v # Underflow /\ v # None /\ (m.got = v => z = SubSeq(u, 1, n))
  ELSE v = Underflow

LEMMA LoadSimulated ==
  ASSUME IsSlice(slice), slice # NoSlice,
         NEW u, NEW c, NEW nb, NEW nr, Shows(slice, u, c, nb, nr),
         NEW n \in Nat, NEW max \in Nat, NEW v, NEW m, m = Load(slice, v, n), NEW z,
         ReadTo(m, Loads(n, max), z),
         Gives(v, m, z, u, n, max, nb)
  PROVE  Abstract!Load(n, max) /\ IsSlice(slice')
<1>1. CASE n <= nb /\ n <= max
  <2>1. v # Underflow /\ v # None /\ (m.got = v => z = SubSeq(u, 1, n))
    BY <1>1 DEF Gives
  <2>2. Took(slice, m, v, n, nb, nr)
    BY <1>1, <2>1, LoadTakes
  <2>3. z = SubSeq(u, 1, n)
    BY <2>1, <2>2, Zenon DEF Took
  <2> QED BY <1>1, <2>2, <2>3, LoadStep
<1>2. CASE ~(n <= nb /\ n <= max)
  <2>1. m = Failed(slice)
    BY <1>2 DEF Load, Gives
  <2> QED BY <1>2, <2>1, LoadStep
<1> QED BY <1>1, <1>2

LEMMA BitLoaded ==
  ASSUME IsSlice(slice), slice # NoSlice, LoadBit
  PROVE  Abstract!Load(1, 1) /\ IsSlice(slice')
<1>1. PICK u, c, nb, nr : Shows(slice, u, c, nb, nr)
  BY SliceShows
<1>2. PICK d, from, end : /\ Covers(slice, d, from, end) /\ from \in Nat /\ end = from + nb
                          /\ \A k \in Nat : from + k <= end <=> k <= nb
                          /\ Copies(u, d, from, nb)
  BY <1>1, WindowCopies
<1>3. PICK v, m, z : v = get_bit(slice, 0) /\ m = Load(slice, v, 1) /\ z = <<m.got>>
  OBVIOUS
<1>4. ReadTo(m, Loads(1, 1), z)
  BY <1>3 DEF LoadBit, Read, load_bit, ReadTo
<1>5. nb \in Nat /\ u \in Seq(Bit) /\ Len(u) = nb /\ \A i \in 1..nb : u[i] = d[from + i]
  BY <1>2, Zenon DEF Copies
<1>6. 1 <= nb <=> from < end
  BY <1>2, <1>5
<1>7. v = IF from < end THEN d[from + 1] ELSE Underflow
  BY <1>2, <1>3, BitRead
<1>8. ASSUME 1 <= nb PROVE Gives(v, m, z, u, 1, 1, nb)
  <2>1. 1 \in 1..nb
    BY <1>5, <1>8
  <2>2. v = u[1] /\ u[1] \in Bit
    BY <1>5, <1>6, <1>7, <1>8, <2>1, ElementIsBit
  <2>3. v # Underflow /\ v # None
    <3>1. v \in Int
      <4>1. v = 0 \/ v = 1
        BY <1>5, <2>1, <2>2, ElementIsBit, Zenon
      <4> QED BY <4>1
    <3> QED BY <3>1, NoUnderflow, Zenon
  <2>4. <<v>> = SubSeq(u, 1, 1)
    <3>1. PICK x : x = <<v>>
      OBVIOUS
    <3>2. x \in Seq(Bit) /\ Len(x) = 1 /\ \A i \in 1..1 : x[i] = d[from + i]
      BY <1>5, <2>1, <2>2, <3>1
    <3>3. IsPart(x, d, from, 1)
      BY <3>2, Zenon DEF IsPart
    <3> QED BY <1>2, <1>8, <3>1, <3>3, FirstShown
  <2>5. m.got = v => z = SubSeq(u, 1, 1)
    BY <1>3, <2>4
  <2> QED BY <1>8, <2>3, <2>5 DEF Gives
<1>9. ASSUME ~(1 <= nb) PROVE Gives(v, m, z, u, 1, 1, nb)
  <2>1. v = Underflow
    BY <1>6, <1>7, <1>9
  <2> QED BY <1>9, <2>1 DEF Gives
<1>10. Gives(v, m, z, u, 1, 1, nb)
  BY <1>8, <1>9
<1> QED BY <1>1, <1>3, <1>4, <1>10, LoadSimulated

\* Whole bytes.
LEMMA PartLoaded ==
  ASSUME IsSlice(slice), slice # NoSlice,
         NEW u, NEW c, NEW nb, NEW nr, Shows(slice, u, c, nb, nr),
         NEW d, NEW from \in Nat, NEW end, \A k \in Nat : from + k <= end <=> k <= nb,
         Copies(u, d, from, nb), NEW n \in Nat, NEW v,
         IF from + n <= end THEN IsPart(v, d, from, n) ELSE v = Underflow,
         NEW m, m = Load(slice, v, n),
         ReadTo(m, Loads(n, n), m.got)
  PROVE  Abstract!Load(n, n) /\ IsSlice(slice')
<1>3. (n <= nb /\ n <= n) <=> n <= nb
  OBVIOUS
<1>1. ASSUME n <= nb
      PROVE  Gives(v, m, m.got, u, n, n, nb)
  <2>1. IsPart(v, d, from, n)
    BY <1>1
  <2>2. v = SubSeq(u, 1, n)
    BY <1>1, <2>1, FirstShown, Zenon
  <2>3. v # Underflow /\ v # None
    BY <2>1, NoUnderflow, Zenon DEF IsPart
  <2>4. m.got = v => m.got = SubSeq(u, 1, n)
    BY <2>2
  <2> QED BY <1>1, <1>3, <2>3, <2>4, Zenon DEF Gives
<1>2. ASSUME ~(n <= nb)
      PROVE  Gives(v, m, m.got, u, n, n, nb)
  <2>1. v = Underflow
    BY <1>2
  <2> QED BY <1>2, <1>3, <2>1, Zenon DEF Gives
<1>4. Gives(v, m, m.got, u, n, n, nb)
  BY <1>1, <1>2
<1>5. PICK z : z = m.got
  OBVIOUS
<1> QED BY <1>4, <1>5, LoadSimulated

LEMMA BytesLoaded ==
  ASSUME IsSlice(slice), slice # NoSlice, NEW n \in Nat, n > 0
  PROVE  /\ LoadFixed(n) => Abstract!Load(n * BYTE, n * BYTE) /\ IsSlice(slice')
         /\ LoadU128(n) => Abstract!Load(n * BYTE, n * BYTE) /\ IsSlice(slice')
         /\ LoadU256(n) => Abstract!Load(2 * n * BYTE, 2 * n * BYTE) /\ IsSlice(slice')
<1>1. PICK u, c, nb, nr : Shows(slice, u, c, nb, nr)
  BY SliceShows
<1>2. PICK d, from, end : /\ Covers(slice, d, from, end) /\ from \in Nat /\ end = from + nb
                          /\ \A k \in Nat : from + k <= end <=> k <= nb
                          /\ Copies(u, d, from, nb)
  BY <1>1, WindowCopies
<1>3. PICK k \in Nat : k = n * BYTE
  BY Product
<1>4. ASSUME LoadFixed(n) PROVE Abstract!Load(n * BYTE, n * BYTE) /\ IsSlice(slice')
  <2>1. PICK v, m : v = get_fixed(slice, 0, n) /\ m = Load(slice, v, k)
    OBVIOUS
  <2>2. ReadTo(m, Loads(k, k), m.got)
    BY <1>3, <1>4, <2>1, Zenon DEF LoadFixed, Read, load_fixed, Same, ReadTo
  <2>3. IF from + k <= end THEN IsPart(v, d, from, k) ELSE v = Underflow
    BY <1>2, <1>3, <2>1, FixedRead
  <2> QED BY <1>1, <1>2, <1>3, <2>1, <2>2, <2>3, PartLoaded
<1>5. ASSUME LoadU128(n) PROVE Abstract!Load(n * BYTE, n * BYTE) /\ IsSlice(slice')
  <2>1. PICK v, m : v = get_u128(slice, 0, n) /\ m = Load(slice, v, k)
    OBVIOUS
  <2>2. ReadTo(m, Loads(k, k), m.got)
    BY <1>3, <1>5, <2>1, Zenon DEF LoadU128, Read, load_u128, Same, ReadTo
  <2>3. IF from + k <= end THEN IsPart(v, d, from, k) ELSE v = Underflow
    BY <1>2, <1>3, <2>1, WideRead
  <2> QED BY <1>1, <1>2, <1>3, <2>1, <2>2, <2>3, PartLoaded
<1>6. ASSUME LoadU256(n) PROVE Abstract!Load(2 * n * BYTE, 2 * n * BYTE) /\ IsSlice(slice')
  <2>0. PICK kk \in Nat : kk = k + k
    OBVIOUS
  <2>a. 2 * n * BYTE = kk
    <3>1. BYTE \in Nat
      BY SizeFacts
    <3>2. 2 * n * BYTE = n * BYTE + n * BYTE
      BY <3>1
    <3> QED BY <1>3, <2>0, <3>2
  <2>1. PICK v, m : v = get_u256(slice, 0, n) /\ m = Load(slice, v, kk)
    OBVIOUS
  <2>2. ReadTo(m, Loads(kk, kk), m.got)
    BY <1>6, <2>a, <2>1, Zenon DEF LoadU256, Read, load_u256, Same, ReadTo
  <2>3. IF from + kk <= end THEN IsPart(v, d, from, kk) ELSE v = Underflow
    BY <1>2, <1>3, <2>0, <2>1, HalvesRead
  <2>4. Abstract!Load(kk, kk) /\ IsSlice(slice')
    BY <1>1, <1>2, <2>1, <2>2, <2>3, PartLoaded
  <2> QED BY <2>a, <2>4, Zenon
<1> QED BY <1>4, <1>5, <1>6

LEMMA LowLoaded ==
  ASSUME IsSlice(slice), slice # NoSlice, NEW n \in Nat
  PROVE  /\ LoadSmallUint(n) => Abstract!Load(n, BYTE) /\ IsSlice(slice')
         /\ LoadUint(n) => Abstract!Load(n, WORD_BITS) /\ IsSlice(slice')
<1>1. PICK u, c, nb, nr : Shows(slice, u, c, nb, nr)
  BY SliceShows
<1>2. PICK d, from, end : /\ Covers(slice, d, from, end) /\ from \in Nat /\ end = from + nb
                          /\ \A k \in Nat : from + k <= end <=> k <= nb
                          /\ Copies(u, d, from, nb)
  BY <1>1, WindowCopies
<1>3. BYTE \in Nat /\ WORD_BITS \in Nat /\ nb \in Nat
  BY <1>1, SizeFacts DEF Shows
<1>4. from + n <= end <=> n <= nb
  BY <1>2
<1>5. n = 0 => n <= nb /\ n <= BYTE /\ n <= WORD_BITS
  BY <1>3
<1>6. ASSUME NEW w \in Nat, NEW v, NEW m, m = Load(slice, v, n), NEW z, z = Low(m.got, n),
             ReadTo(m, Loads(n, w), z),
             IF n <= nb /\ n <= w THEN IsLow(v, d, from, n, w) ELSE v = Underflow
      PROVE  Abstract!Load(n, w) /\ IsSlice(slice')
  <2>1. ASSUME n <= nb /\ n <= w PROVE Gives(v, m, z, u, n, w, nb)
    <3>1. IsLow(v, d, from, n, w)
      BY <1>6, <2>1
    <3>2. Low(v, n) = SubSeq(u, 1, n)
      BY <1>2, <2>1, <3>1, LowShown, SMTT(30)
    <3>3. v # Underflow /\ v # None
      BY <3>1, NoUnderflow, Zenon DEF IsLow
    <3>4. m.got = v => z = SubSeq(u, 1, n)
      BY <1>6, <3>2, Zenon
    <3> QED BY <2>1, <3>3, <3>4, Zenon DEF Gives
  <2>2. ASSUME ~(n <= nb /\ n <= w) PROVE Gives(v, m, z, u, n, w, nb)
    <3>1. v = Underflow
      BY <1>6, <2>2
    <3> QED BY <2>2, <3>1, Zenon DEF Gives
  <2>3. Gives(v, m, z, u, n, w, nb)
    BY <2>1, <2>2
  <2> QED BY <1>1, <1>6, <2>3, LoadSimulated
<1>7. ASSUME LoadSmallUint(n) PROVE Abstract!Load(n, BYTE) /\ IsSlice(slice')
  <2>1. PICK v, m, z : v = get_small_uint(slice, 0, n) /\ m = Load(slice, v, n) /\ z = Low(m.got, n)
    OBVIOUS
  <2>2. ReadTo(m, Loads(n, BYTE), z)
    BY <1>7, <2>1, Zenon DEF LoadSmallUint, Read, load_small_uint, ReadTo
  <2>3. IF n = 0 \/ (n <= BYTE /\ from + n <= end) THEN IsLow(v, d, from, n, BYTE) ELSE v = Underflow
    BY <1>2, <2>1, SmallRead
  <2>4. IF n <= nb /\ n <= BYTE THEN IsLow(v, d, from, n, BYTE) ELSE v = Underflow
    BY <1>4, <1>5, <2>3, Zenon
  <2> QED BY <1>3, <1>6, <2>1, <2>2, <2>4, Zenon
<1>8. ASSUME LoadUint(n) PROVE Abstract!Load(n, WORD_BITS) /\ IsSlice(slice')
  <2>1. PICK v, m, z : v = get_uint(slice, 0, n) /\ m = Load(slice, v, n) /\ z = Low(m.got, n)
    OBVIOUS
  <2>2. ReadTo(m, Loads(n, WORD_BITS), z)
    BY <1>8, <2>1, Zenon DEF LoadUint, Read, load_uint, ReadTo
  <2>3. IF n = 0 \/ (n <= WORD_BITS /\ from + n <= end) THEN IsWord(v, d, from, n, WORD_BITS) ELSE v = Underflow
    BY <1>2, <2>1, WordRead
  <2>4. IF n <= nb /\ n <= WORD_BITS THEN IsLow(v, d, from, n, WORD_BITS) ELSE v = Underflow
    BY <1>2, <1>3, <1>4, <1>5, <2>3, WordIsLow, Zenon
  <2> QED BY <1>3, <1>6, <2>1, <2>2, <2>4, Zenon
<1> QED BY <1>7, <1>8

LEMMA RawBitsLoaded ==
  ASSUME IsSlice(slice), slice # NoSlice, NEW n \in Nat, LoadRaw(n)
  PROVE  Abstract!Load(n, MAX_BIT_LEN) /\ IsSlice(slice')
<1>1. PICK u, c, nb, nr : Shows(slice, u, c, nb, nr)
  BY SliceShows
<1>2. PICK d, from, end : /\ Covers(slice, d, from, end) /\ from \in Nat /\ end = from + nb
                          /\ \A k \in Nat : from + k <= end <=> k <= nb
                          /\ Copies(u, d, from, nb)
  BY <1>1, WindowCopies
<1>3. nb \in Nat /\ nb < Full /\ Full \in Nat /\ MAX_BIT_LEN = Full - 1
  BY <1>1, SizeFacts DEF Shows
<1>4. MAX_BIT_LEN \in Nat /\ (n <= nb /\ n <= MAX_BIT_LEN <=> n <= nb) /\ (n = 0 => n <= nb)
  BY <1>3
<1>5. from + n <= end <=> n <= nb
  BY <1>2
<1>6. PICK v, m, z : v = get_raw(slice, 0, n) /\ m = Load(slice, v, n) /\ z = SubSeq(m.got, 1, n)
  OBVIOUS
<1>7. ReadTo(m, Loads(n, MAX_BIT_LEN), z)
  BY <1>6, Zenon DEF LoadRaw, Read, load_raw, ReadTo
<1>8. IF n = 0 \/ from + n <= end THEN IsRaw(v, d, from, n) ELSE v = Underflow
  BY <1>2, <1>6, RawLoaded
<1>9. ASSUME n <= nb PROVE Gives(v, m, z, u, n, MAX_BIT_LEN, nb)
  <2>1. IsRaw(v, d, from, n)
    BY <1>5, <1>8, <1>9
  <2>2. SubSeq(v, 1, n) = SubSeq(u, 1, n)
    BY <1>2, <1>9, <2>1, RawShown
  <2>3. v # Underflow /\ v # None
    BY <2>1, NoUnderflow, Zenon DEF IsRaw
  <2>4. m.got = v => z = SubSeq(u, 1, n)
    BY <1>6, <2>2, Zenon
  <2> QED BY <1>4, <1>9, <2>3, <2>4, Zenon DEF Gives
<1>10. ASSUME ~(n <= nb) PROVE Gives(v, m, z, u, n, MAX_BIT_LEN, nb)
  <2>1. v = Underflow
    BY <1>4, <1>5, <1>8, <1>10, Zenon
  <2> QED BY <1>4, <1>10, <2>1, Zenon DEF Gives
<1>11. Gives(v, m, z, u, n, MAX_BIT_LEN, nb)
  BY <1>9, <1>10
<1> QED BY <1>1, <1>4, <1>6, <1>7, <1>11, LoadSimulated

\* What load_bigint does: a number with the next n bits, or an error.
NumberTook(s, m, u, n, nb, nr) ==
  IF n <= nb THEN \E x \in Int : Took(s, m, x, n, nb, nr) /\ ToBits(x, n) = SubSeq(u, 1, n)
  ELSE m.got = Underflow /\ m.s = s

\* No bits.
LEMMA NothingTaken ==
  ASSUME NEW s, IsSlice(s), NEW u, NEW c, NEW nb, NEW nr, Shows(s, u, c, nb, nr), NEW signed
  PROVE  NumberTook(s, load_bigint(s, 0, signed), u, 0, nb, nr)
<1>1. PICK m : m = load_bigint(s, 0, signed)
  OBVIOUS
<1>2. m = [s |-> s, got |-> 0]
  BY <1>1 DEF load_bigint, Moved
<1>3. m.s = s /\ m.got = 0
  BY <1>2
<1>4. /\ s.range.bits_start \in Nat /\ s.range.bits_end = s.range.bits_start + nb
      /\ s.range.refs_start \in Nat /\ s.range.refs_end = s.range.refs_start + nr
      /\ nb \in Nat /\ u \in Seq(Bit) /\ Len(u) = nb
  BY DEF Shows
<1>5. s.range.bits_start = s.range.bits_start + 0 /\ s.range.refs_start = s.range.refs_start + 0
  BY <1>4
<1>6. Within(s, s, 0, nb, 0, nr)
  BY <1>4, <1>5, Zenon DEF Within, IsSlice
<1>7. 0 \in Int /\ 0 \in Nat /\ 0 <= nb /\ 0 <= 0 /\ 0 - 0 = 0 /\ 0 + 1 = 1
  BY <1>4
<1>8. Took(s, m, 0, 0, nb, nr)
  BY <1>3, <1>6, <1>7, NoUnderflow, Zenon DEF Took
<1>9. ToBits(0, 0) = SubSeq(u, 1, 0)
  <2>1. PICK x, y : x = ToBits(0, 0) /\ y = SubSeq(u, 0 + 1, 0)
    OBVIOUS
  <2>2. x \in Seq(Bit) /\ Len(x) = 0
    BY <1>7, <2>1, ToBitsFacts
  <2>3. IsSub(Bit, y, u, 0, 0)
    BY <1>4, <1>7, <2>1, SubIs
  <2>4. y \in Seq(Bit) /\ Len(y) = 0
    BY <1>7, <2>3 DEF IsSub
  <2>5. \A i \in 1..0 : x[i] = y[i]
    OBVIOUS
  <2>6. x = y
    BY <2>2, <2>4, <2>5, SeqSame
  <2> QED BY <1>7, <2>1, <2>6
<1> QED BY <1>1, <1>7, <1>8, <1>9, Zenon DEF NumberTook

\* A load of a word and the number of it.
LEMMA WordTaken ==
  ASSUME NEW s, IsSlice(s), NEW u, NEW c, NEW nb, NEW nr, Shows(s, u, c, nb, nr),
         NEW n \in Nat, n <= WORD_BITS, NEW l, l = load_uint(s, n)
  PROVE  \/ /\ n <= nb /\ Took(s, l, get_uint(s, 0, n), n, nb, nr)
            /\ \E d, from : /\ from \in Nat /\ Copies(u, d, from, nb)
                            /\ IsWord(get_uint(s, 0, n), d, from, n, WORD_BITS)
         \/ ~(n <= nb) /\ l = Failed(s)
<1>1. PICK d, from, end : /\ Covers(s, d, from, end) /\ from \in Nat /\ end = from + nb
                          /\ \A k \in Nat : from + k <= end <=> k <= nb
                          /\ Copies(u, d, from, nb)
  BY WindowCopies
<1>2. PICK v : v = get_uint(s, 0, n) /\ l = Load(s, v, n)
  BY DEF load_uint
<1>3. from + n <= end <=> n <= nb
  BY <1>1
<1>4. nb \in Nat /\ (n = 0 => n <= nb)
  BY <1>1 DEF Copies
<1>5. IF n = 0 \/ (n <= WORD_BITS /\ from + n <= end) THEN IsWord(v, d, from, n, WORD_BITS) ELSE v = Underflow
  BY <1>1, <1>2, WordRead
<1>6. CASE n <= nb
  <2>1. IsWord(v, d, from, n, WORD_BITS)
    BY <1>3, <1>5, <1>6, Zenon
  <2>2. v # Underflow /\ v # None
    BY <2>1, NoUnderflow, Zenon DEF IsWord
  <2>3. Took(s, l, v, n, nb, nr)
    BY <1>2, <1>6, <2>2, LoadTakes
  <2> QED BY <1>1, <1>2, <1>6, <2>1, <2>3, Zenon
<1>7. CASE ~(n <= nb)
  <2>1. v = Underflow
    BY <1>3, <1>4, <1>5, <1>7, Zenon
  <2>2. l = Failed(s)
    BY <1>2, <2>1 DEF Load
  <2> QED BY <1>7, <2>2
<1> QED BY <1>6, <1>7

LEMMA SmallNumberTaken ==
  ASSUME NEW s, IsSlice(s), NEW u, NEW c, NEW nb, NEW nr, Shows(s, u, c, nb, nr),
         NEW n \in Nat, n > 0, n <= WORD_BITS, NEW signed \in BOOLEAN
  PROVE  NumberTook(s, load_bigint(s, n, signed), u, n, nb, nr)
<1>1. PICK m, l : m = load_bigint(s, n, signed) /\ l = load_uint(s, n)
  OBVIOUS
<1>2. PICK W \in Nat : W = WORD_BITS /\ n <= W /\ W > 0
  BY SizeFacts
<1>3. n # 0
  OBVIOUS
<1>4. PICK x : x = Cloned(l.got, n, W)
  OBVIOUS
<1>5. m = IF l.got = Underflow THEN l ELSE Moved(l.s, IF signed THEN ToInt(x) ELSE ToNat(l.got))
  BY <1>1, <1>2, <1>3, <1>4 DEF load_bigint, Cloned
<1>6. PICK g : g = get_uint(s, 0, n)
  OBVIOUS
<1>7. \/ /\ n <= nb /\ Took(s, l, g, n, nb, nr)
         /\ \E d, from : from \in Nat /\ Copies(u, d, from, nb) /\ IsWord(g, d, from, n, W)
      \/ ~(n <= nb) /\ l = Failed(s)
  BY <1>1, <1>2, <1>6, WordTaken
<1>8. CASE n <= nb
  <2>1. PICK d, from : from \in Nat /\ Copies(u, d, from, nb) /\ IsWord(g, d, from, n, W)
    BY <1>7, <1>8
  <2>2. l.got = g /\ g # Underflow /\ Within(s, l.s, n, nb, 0, nr)
    BY <1>7, <1>8, Zenon DEF Took
  <2>3. g \in Seq(Bit) /\ Len(g) = W
    BY <2>1, Zenon DEF IsWord
  <2>4. x = Cloned(g, n, W)
    BY <1>4, <2>2, Zenon
  <2>5. x \in Seq(Bit) /\ Len(x) = W /\ Low(x, n) = Low(g, n)
    BY <1>2, <2>1, <2>4, ClonedBits
  <2>6. PICK y : y = IF signed THEN ToInt(x) ELSE ToNat(g)
    OBVIOUS
  <2>7. HasBits(ToInt(x), x, W) /\ HasBits(ToNat(g), g, W)
    BY <1>2, <2>3, <2>5, IntBits, NatBits
  <2>8. ToBits(ToInt(x), n) = Low(g, n) /\ ToBits(ToNat(g), n) = Low(g, n)
    <3>1. ToBits(ToInt(x), n) = Low(x, n)
      BY <1>2, <2>5, <2>7, LowOfNumber
    <3>2. ToBits(ToNat(g), n) = Low(g, n)
      BY <1>2, <2>3, <2>7, LowOfNumber
    <3> QED BY <2>5, <3>1, <3>2
  <2>9. y \in Int /\ ToBits(y, n) = Low(g, n)
    BY <2>6, <2>7, <2>8, Zenon DEF HasBits
  <2>10. Low(g, n) = SubSeq(u, 1, n)
    BY <1>2, <1>8, <2>1, WordIsLow, LowShown
  <2>11. m = [s |-> l.s, got |-> y]
    BY <1>5, <2>2, <2>6, Zenon DEF Moved
  <2>12. m.s = l.s /\ m.got = y
    BY <2>11
  <2>13. Took(s, m, y, n, nb, nr)
    BY <2>2, <2>9, <2>12, NoUnderflow, Zenon DEF Took
  <2> QED BY <1>1, <1>8, <2>9, <2>10, <2>13, Zenon DEF NumberTook
<1>9. CASE ~(n <= nb)
  <2>1. l.got = Underflow /\ l.s = s
    BY <1>7, <1>9 DEF Failed, Moved
  <2>2. m = l
    BY <1>5, <2>1
  <2> QED BY <1>1, <1>9, <2>1, <2>2, Zenon DEF NumberTook
<1> QED BY <1>8, <1>9

\* More than a word: the number of whole bytes, shifted back.
LEMMA LargeNumberTaken ==
  ASSUME NEW s, IsSlice(s), NEW u, NEW c, NEW nb, NEW nr, Shows(s, u, c, nb, nr),
         NEW n \in Nat, n > WORD_BITS, NEW signed \in BOOLEAN
  PROVE  NumberTook(s, load_bigint(s, n, signed), u, n, nb, nr)
<1>1. PICK d, from, end : /\ Covers(s, d, from, end) /\ from \in Nat /\ end = from + nb
                          /\ \A k \in Nat : from + k <= end <=> k <= nb
                          /\ Copies(u, d, from, nb)
  BY WindowCopies
<1>2. PICK m, v, raw : m = load_bigint(s, n, signed) /\ v = get_raw(s, 0, n) /\ raw = Load(s, v, n)
  OBVIOUS
<1>3. n # 0 /\ ~(n <= WORD_BITS) /\ n > 0
  BY SizeFacts
<1>4. PICK a \in Nat, e \in Nat : /\ a = (BYTE - (n % BYTE)) % BYTE /\ e = DivCeil(n, BYTE) /\ e * BYTE = n + a
  BY FillFacts
<1>5. PICK w \in Nat : w = n + a /\ w > 0
  BY <1>3
<1>6. m = IF raw.got = Underflow THEN raw
          ELSE Moved(raw.s, (IF signed THEN ToInt(raw.got) ELSE ToNat(raw.got)) \div 2^a)
  BY <1>2, <1>3, <1>4, Zenon DEF load_bigint, load_raw
<1>7. from + n <= end <=> n <= nb
  BY <1>1
<1>8. IF n = 0 \/ from + n <= end
      THEN IsRaw(v, d, from, n) /\ (n > 0 => Len(v) = DivCeil(n, BYTE) * BYTE)
      ELSE v = Underflow
  BY <1>1, <1>2, RawLoaded, Zenon
<1>9. CASE n <= nb
  <2>1. IsRaw(v, d, from, n) /\ Len(v) = w
    BY <1>3, <1>4, <1>5, <1>7, <1>8, <1>9, Zenon
  <2>2. v \in Seq(Bit)
    BY <2>1, Zenon DEF IsRaw
  <2>3. v # Underflow /\ v # None
    BY <2>2, NoUnderflow, Zenon
  <2>4. Took(s, raw, v, n, nb, nr)
    BY <1>2, <1>9, <2>3, LoadTakes
  <2>5. raw.got = v /\ Within(s, raw.s, n, nb, 0, nr)
    BY <2>4, Zenon DEF Took
  <2>6. HasBits(ToInt(v), v, w) /\ HasBits(ToNat(v), v, w)
    BY <1>5, <2>1, <2>2, IntBits, NatBits
  <2>7. PICK y : y = IF signed THEN ToInt(v) ELSE ToNat(v)
    OBVIOUS
  <2>8. HasBits(y, v, w)
    BY <2>6, <2>7, Zenon
  <2>9. PICK x : x = y \div 2^a
    OBVIOUS
  <2>10. ToBits(x, n) = SubSeq(v, 1, n)
    BY <1>5, <2>1, <2>2, <2>8, <2>9, FirstOfNumber
  <2>11. SubSeq(v, 1, n) = SubSeq(u, 1, n)
    <3>1. IsRaw(v, d, from, n)
      BY <2>1
    <3>2. Copies(u, d, from, nb)
      BY <1>1
    <3> QED BY <1>9, <3>1, <3>2, RawShown
  <2>12. x \in Int
    <3>1. PICK p \in Nat : p = 2^a /\ p > 0
      BY PowerFacts, PowerOrder
    <3>2. y \in Int
      BY <2>8, Zenon DEF HasBits
    <3> QED BY <2>9, <3>1, <3>2, DivParts
  <2>13. m = [s |-> raw.s, got |-> x]
    BY <1>6, <2>3, <2>5, <2>7, <2>9, Zenon DEF Moved
  <2>14. m.s = raw.s /\ m.got = x
    BY <2>13
  <2>15. Took(s, m, x, n, nb, nr)
    BY <2>5, <2>12, <2>14, NoUnderflow, Zenon DEF Took
  <2>16. ToBits(x, n) = SubSeq(u, 1, n)
    BY <2>10, <2>11, Zenon
  <2> QED BY <1>2, <1>9, <2>12, <2>15, <2>16, Zenon DEF NumberTook
<1>10. CASE ~(n <= nb)
  <2>1. v = Underflow
    BY <1>3, <1>7, <1>8, <1>10, Zenon
  <2>2. raw = Failed(s)
    BY <1>2, <2>1 DEF Load
  <2>3. raw.got = Underflow /\ raw.s = s
    BY <2>2 DEF Failed, Moved
  <2>4. m = raw
    BY <1>6, <2>3, Zenon
  <2> QED BY <1>2, <1>10, <2>3, <2>4, Zenon DEF NumberTook
<1> QED BY <1>9, <1>10

LEMMA NumberTaken ==
  ASSUME NEW s, IsSlice(s), NEW u, NEW c, NEW nb, NEW nr, Shows(s, u, c, nb, nr),
         NEW n \in Nat, NEW signed \in BOOLEAN
  PROVE  NumberTook(s, load_bigint(s, n, signed), u, n, nb, nr)
<1>1. n = 0 \/ (n > 0 /\ n <= WORD_BITS) \/ n > WORD_BITS
  BY SizeFacts
<1>2. CASE n = 0
  BY <1>2, NothingTaken
<1> QED BY <1>1, <1>2, SmallNumberTaken, LargeNumberTaken

LEMMA NumberLoaded ==
  ASSUME IsSlice(slice), slice # NoSlice, NEW n \in Nat, NEW signed \in BOOLEAN, LoadBigint(n, signed)
  PROVE  Abstract!Load(n, MAX_BIT_LEN) /\ IsSlice(slice')
<1>1. PICK u, c, nb, nr : Shows(slice, u, c, nb, nr)
  BY SliceShows
<1>2. nb \in Nat /\ nb < Full /\ Full \in Nat /\ MAX_BIT_LEN = Full - 1
  BY <1>1, SizeFacts DEF Shows
<1>3. MAX_BIT_LEN \in Nat /\ (n <= nb /\ n <= MAX_BIT_LEN <=> n <= nb)
  BY <1>2
<1>4. PICK m, z : m = load_bigint(slice, n, signed) /\ z = ToBits(m.got, n)
  OBVIOUS
<1>5. ReadTo(m, Loads(n, MAX_BIT_LEN), z)
  BY <1>4, Zenon DEF LoadBigint, Read, ReadTo
<1>6. NumberTook(slice, m, u, n, nb, nr)
  BY <1>1, <1>4, NumberTaken
<1>7. CASE n <= nb
  <2>1. PICK x \in Int : Took(slice, m, x, n, nb, nr) /\ ToBits(x, n) = SubSeq(u, 1, n)
    BY <1>6, <1>7, Zenon DEF NumberTook
  <2>2. z = SubSeq(u, 1, n)
    BY <1>4, <2>1, Zenon DEF Took
  <2> QED BY <1>1, <1>3, <1>5, <1>7, <2>1, <2>2, LoadStep
<1>8. CASE ~(n <= nb)
  <2>1. m.got = Underflow /\ m.s = slice
    BY <1>6, <1>8, Zenon DEF NumberTook
  <2>a. PICK f : f = Failed(slice)
    OBVIOUS
  <2>2. f = Failed(slice) /\ f.got = Underflow /\ f.s = slice
    BY <2>a DEF Failed, Moved
  <2>3. ReadTo(f, Loads(n, MAX_BIT_LEN), z)
    BY <1>5, <2>1, <2>2, Zenon DEF ReadTo
  <2> QED BY <1>1, <1>3, <1>8, <2>2, <2>3, LoadStep
<1> QED BY <1>7, <1>8

\* A word of n bits is the number of those bits.
LEMMA WordNumber ==
  ASSUME NEW u, NEW d, NEW from \in Nat, NEW nb, Copies(u, d, from, nb), NEW n \in Nat, n <= nb,
         NEW g, NEW W \in Nat, IsWord(g, d, from, n, W)
  PROVE  ToNat(g) = ToNat(SubSeq(u, 1, n)) /\ ToNat(g) \in Nat
<1>1. /\ g \in Seq(Bit) /\ Len(g) = W /\ n <= W
      /\ \A i \in 1..W : g[i] = IF i <= W - n THEN 0 ELSE d[from + (i - (W - n))]
  BY Zenon DEF IsWord
<1>2. PICK x : x = SubSeq(u, 1, n)
  OBVIOUS
<1>3. u \in Seq(Bit) /\ nb \in Nat /\ Len(u) = nb /\ \A i \in 1..nb : u[i] = d[from + i]
  BY Zenon DEF Copies
<1>4. x \in Seq(Bit) /\ Len(x) = n /\ \A i \in 1..n : x[i] = u[i]
  <2>1. 0 \in Nat /\ 0 <= n /\ n <= Len(u) /\ 0 + 1 = 1 /\ n - 0 = n /\ \A i \in 1..n : 0 + i = i
    BY <1>3
  <2>2. IsSub(Bit, x, u, 0, n)
    BY <1>2, <1>3, <2>1, SubIs
  <2> QED BY <2>1, <2>2 DEF IsSub
<1>5. PICK k \in Nat : k = W - n /\ W = k + n
  <2>1. W - n \in Nat /\ W = (W - n) + n
    BY <1>1
  <2> QED BY <2>1
<1>6. \A i \in 1..k : g[i] = 0
  BY <1>1, <1>5
<1>7. ASSUME NEW i \in 1..n PROVE g[k + i] = x[i]
  <2>1. PICK j : j = k + i
    OBVIOUS
  <2>2. j \in 1..W /\ ~(j <= W - n) /\ j - (W - n) = i /\ i \in 1..nb
    BY <1>3, <1>5, <2>1
  <2>3. g[j] = d[from + (j - (W - n))]
    BY <1>1, <2>2, Zenon
  <2> QED BY <1>3, <1>4, <2>1, <2>2, <2>3, Zenon
<1>8. Len(g) = k + n
  BY <1>1, <1>5
<1>9. IsWide(g, x, k, n)
  BY <1>1, <1>6, <1>7, <1>8, Zenon DEF IsWide
<1>10. ToNat(g) = ToNat(x)
  BY <1>4, <1>9, WideNumber
<1>11. ToNat(g) \in Nat
  BY <1>1, NatBits
<1> QED BY <1>2, <1>10, <1>11

\* The length and then the number; the length stays read when the rest is missing.
LEMMA VarNumberLoaded ==
  ASSUME IsSlice(slice), slice # NoSlice, NEW n \in 1..2, LoadVarBigint(n)
  PROVE  Abstract!LoadVar(n) /\ IsSlice(slice')
<1>1. PICK u, c, nb, nr : Shows(slice, u, c, nb, nr)
  BY SliceShows
<1>2. /\ nb \in Nat /\ u = Unread(slice) /\ u \in Seq(Bit) /\ Len(u) = nb
      /\ c = references(slice)
  BY <1>1, Zenon DEF Shows
<1>3. n \in Nat /\ n <= WORD_BITS
  BY SizeFacts, InputAssumption
<1>4. PICK g, l, m, t : /\ g = get_uint(slice, 0, n) /\ l = load_uint(slice, n)
                        /\ m = load_var_bigint(slice, n, FALSE) /\ t = l.s
  OBVIOUS
<1>5. PICK k : k = ToNat(g) * BYTE
  OBVIOUS
<1>6. PICK z : z = ToBits(m.got, k)
  OBVIOUS
<1>7. ReadTo(m, [op |-> "load_var", bits |-> n], z)
  BY <1>4, <1>5, <1>6, Zenon DEF LoadVarBigint, Read, ReadTo
<1>8. /\ slice' = m.s /\ call' = [op |-> "load_var", bits |-> n] /\ builder' = builder
      /\ got' = IF m.got = Underflow THEN FALSE ELSE IF m.got = None THEN TRUE ELSE z
  BY <1>7 DEF ReadTo
<1>9. m = IF l.got = Underflow THEN l ELSE load_bigint(t, ToNat(l.got) * BYTE, FALSE)
  BY <1>4, Zenon DEF load_var_bigint
<1>10. \/ /\ n <= nb /\ Took(slice, l, g, n, nb, nr)
          /\ \E d, from : from \in Nat /\ Copies(u, d, from, nb) /\ IsWord(g, d, from, n, WORD_BITS)
       \/ ~(n <= nb) /\ l = Failed(slice)
  BY <1>1, <1>3, <1>4, WordTaken
<1>11. CASE n <= nb
  <2>1. PICK d, from : from \in Nat /\ Copies(u, d, from, nb) /\ IsWord(g, d, from, n, WORD_BITS)
    BY <1>10, <1>11
  <2>2. Took(slice, l, g, n, nb, nr)
    BY <1>10, <1>11
  <2>3. ToNat(g) = ToNat(SubSeq(u, 1, n)) /\ ToNat(g) \in Nat
    BY <1>3, <1>11, <2>1, SizeFacts, WordNumber
  <2>4. k \in Nat /\ k = ToNat(SubSeq(u, 1, n)) * BYTE
    BY <1>5, <2>3, Product
  <2>5. PICK v : v = SubSeq(u, n + 1, nb)
    OBVIOUS
  <2>6. IsSlice(t) /\ Unread(t) = v /\ references(t) = c
    BY <1>1, <1>3, <1>4, <1>11, <2>2, <2>5, TookShows
  <2>7. PICK tu, tc, tb, tr : Shows(t, tu, tc, tb, tr)
    BY <2>6, SliceShows
  <2>8. tu = v /\ tc = c /\ tb \in Nat /\ Len(v) = tb
    BY <2>6, <2>7, Zenon DEF Shows
  <2>9. m = load_bigint(t, k, FALSE)
    BY <1>5, <1>9, <2>2, Zenon DEF Took
  <2>10. NumberTook(t, m, v, k, tb, tr)
    BY <2>4, <2>6, <2>7, <2>8, <2>9, NumberTaken
  <2>11. ~(n > nb) /\ n <= nb
    BY <1>2, <1>3, <1>11
  <2>12. CASE k <= tb
    <3>1. PICK x \in Int : Took(t, m, x, k, tb, tr) /\ ToBits(x, k) = SubSeq(v, 1, k)
      BY <2>10, <2>12, Zenon DEF NumberTook
    <3>2. IsSlice(m.s) /\ Unread(m.s) = SubSeq(v, k + 1, tb) /\ references(m.s) = c
      <4>1. Shows(t, v, c, tb, tr)
        BY <2>7, <2>8
      <4> QED BY <2>4, <2>6, <2>12, <3>1, <4>1, TookShows
    <3>3. IsSlice(slice') /\ Unread(slice') = SubSeq(v, k + 1, tb) /\ references(slice') = c
      BY <1>8, <3>2
    <3>4. slice' # NoSlice
      BY <3>3, NoUnderflow DEF IsSlice
    <3>5. got' = SubSeq(v, 1, k)
      BY <1>6, <1>8, <3>1, Zenon DEF Took
    <3>6. ~(k > tb)
      BY <2>4, <2>8, <2>12
    <3> QED BY <1>2, <1>8, <2>4, <2>5, <2>8, <2>11, <3>3, <3>4, <3>5, <3>6, Zenon
            DEF Abstract!LoadVar, Abstract!First, Abstract!Without
  <2>13. CASE ~(k <= tb)
    <3>1. m.got = Underflow /\ m.s = t
      BY <2>10, <2>13, Zenon DEF NumberTook
    <3>2. got' = FALSE /\ slice' = t
      BY <1>8, <3>1
    <3>3. IsSlice(slice') /\ Unread(slice') = v /\ references(slice') = c
      BY <2>6, <3>2
    <3>4. slice' # NoSlice
      BY <3>3, NoUnderflow DEF IsSlice
    <3>5. k > tb
      BY <2>4, <2>8, <2>13
    <3> QED BY <1>2, <1>8, <2>4, <2>5, <2>8, <2>11, <3>2, <3>3, <3>4, <3>5, Zenon
            DEF Abstract!LoadVar, Abstract!First, Abstract!Without
  <2> QED BY <2>12, <2>13
<1>12. CASE ~(n <= nb)
  <2>1. l.got = Underflow /\ l.s = slice
    BY <1>10, <1>12 DEF Failed, Moved
  <2>2. m = l
    BY <1>9, <2>1, Zenon
  <2>3. got' = FALSE /\ slice' = slice
    BY <1>8, <2>1, <2>2
  <2>4. n > nb
    BY <1>2, <1>3, <1>12
  <2> QED BY <1>2, <1>8, <2>3, <2>4 DEF Abstract!LoadVar
<1> QED BY <1>11, <1>12

LEMMA ReferenceLoaded ==
  ASSUME IsSlice(slice), slice # NoSlice, LoadReference
  PROVE  Abstract!LoadReference /\ IsSlice(slice')
<1>1. PICK u, c, nb, nr : Shows(slice, u, c, nb, nr)
  BY SliceShows
<1>2. /\ nb \in Nat /\ u = Unread(slice) /\ u \in Seq(Bit) /\ Len(u) = nb
      /\ c = references(slice) /\ nr \in Nat /\ c \in Seq(RefCells) /\ Len(c) = nr
  BY <1>1, Zenon DEF Shows
<1>3. PICK m, z : m = load_reference(slice) /\ z = m.got
  OBVIOUS
<1>4. /\ slice' = m.s /\ call' = [op |-> "load_reference"] /\ builder' = builder
      /\ got' = IF m.got = Underflow THEN FALSE ELSE IF m.got = None THEN TRUE ELSE z
  BY <1>3 DEF LoadReference, Read, Same
<1>5. PICK r \in Seq(RefCells), a \in Nat, b \in Nat :
         /\ r = slice.cell.refs /\ a = slice.range.refs_start /\ b = slice.range.refs_end
         /\ b = a + nr /\ b <= Len(r)
  BY <1>1 DEF Shows, IsSlice, Slices
<1>6. IsSub(RefCells, c, r, a, b)
  <2>1. c = SubSeq(r, a + 1, b)
    BY <1>2, <1>5 DEF references
  <2>2. a <= b
    BY <1>2, <1>5
  <2> QED BY <1>5, <2>1, <2>2, SubIs
<1>7. PICK v : v = get_reference(slice, 0)
  OBVIOUS
<1>8. v = IF nr > 0 THEN r[a + 1] ELSE Underflow
  <2>1. a + 0 = a /\ (a < b /\ a < Len(r) <=> nr > 0)
    BY <1>2, <1>5
  <2> QED BY <1>5, <1>7, <2>1 DEF get_reference
<1>9. m = IF v = Underflow THEN Failed(slice) ELSE Moved([slice EXCEPT !.range.refs_start = @ + 1], v)
  BY <1>3, <1>7 DEF load_reference
<1>10. CASE nr > 0
  <2>1. 1 \in 1..nr /\ 1 \in 1..(b - a)
    BY <1>2, <1>5, <1>10
  <2>2. v = c[1]
    BY <1>6, <1>8, <1>10, <2>1 DEF IsSub
  <2>3. c[1] \in RefCells
    BY <1>2, <2>1, ElementOfSeq
  <2>4. v # Underflow /\ v # None
    BY <2>2, <2>3, NoUnderflow, Zenon
  <2>5. PICK t : t = [slice EXCEPT !.range.refs_start = @ + 1]
    OBVIOUS
  <2>6. m.s = t /\ m.got = v
    BY <1>9, <2>4, <2>5 DEF Moved
  <2>7. Within(slice, t, 0, nb, 1, nr)
    <3>1. slice \in Slices
      BY DEF IsSlice
    <3>2. PICK x \in Nat, y \in Nat : x = slice.range.bits_start /\ y = slice.range.bits_end /\ y = x + nb /\ x = x + 0
      BY <1>1 DEF Shows
    <3>3. /\ t.cell = slice.cell /\ t.range.bits_start = x /\ t.range.refs_start = a + 1
          /\ t.range.bits_end = y /\ t.range.refs_end = b
      BY <1>5, <2>5, <3>1, <3>2 DEF Slices
    <3>4. t \in Slices
      BY <1>5, <2>5, <3>1, <3>2 DEF Slices
    <3> QED BY <1>5, <3>2, <3>3, <3>4, Zenon DEF Within
  <2>8. IsSlice(t) /\ Unread(t) = SubSeq(u, 0 + 1, nb) /\ references(t) = SubSeq(c, 1 + 1, nr)
    <3>1. 0 \in Nat /\ 1 \in Nat /\ 0 <= nb /\ nb <= nb /\ 1 <= nr /\ nr <= nr
      BY <1>2, <1>10
    <3> QED BY <1>1, <1>2, <2>7, <3>1, WithinShows
  <2>9. SubSeq(u, 0 + 1, nb) = u /\ SubSeq(c, 1 + 1, nr) = Tail(c)
    BY <1>2
  <2>10. c # <<>> /\ Head(c) = c[1]
    BY <1>2, <1>10
  <2>11. slice' = t /\ got' = Head(c)
    BY <1>3, <1>4, <2>2, <2>4, <2>6, <2>10, Zenon
  <2>12. slice' # NoSlice
    BY <2>8, <2>11, NoUnderflow DEF IsSlice
  <2>13. IsSlice(slice') /\ Unread(slice') = u /\ references(slice') = Tail(c)
    BY <2>8, <2>9, <2>11
  <2> QED BY <1>2, <1>4, <2>10, <2>11, <2>12, <2>13, Zenon DEF Abstract!LoadReference
<1>11. CASE ~(nr > 0)
  <2>1. c = <<>>
    BY <1>2, <1>11
  <2>2. m.s = slice /\ m.got = Underflow
    BY <1>8, <1>9, <1>11 DEF Failed, Moved
  <2>3. slice' = slice /\ got' = FALSE
    BY <1>4, <2>2
  <2> QED BY <1>2, <1>4, <2>1, <2>3, Zenon DEF Abstract!LoadReference
<1> QED BY <1>10, <1>11

-----------------------------------------------------------------------------
(* Window calls *)

WindowAsked(op, n, m) == [op |-> op, bits |-> n, refs |-> m]

\* What the slice shows after a call that left it with a part of its window.
LEMMA WindowLeft ==
  ASSUME IsSlice(slice), slice # NoSlice,
         NEW u, NEW c, NEW nb, NEW nr, Shows(slice, u, c, nb, nr),
         NEW a \in Nat, NEW b \in Nat, a <= b, b <= nb, NEW e \in Nat, NEW f \in Nat, e <= f, f <= nr,
         NEW t, Within(slice, t, a, b, e, f), slice' = t
  PROVE  /\ slice' # NoSlice /\ IsSlice(slice')
         /\ Unread(slice') = SubSeq(u, a + 1, b) /\ references(slice') = SubSeq(c, e + 1, f)
<1>1. IsSlice(t) /\ Unread(t) = SubSeq(u, a + 1, b) /\ references(t) = SubSeq(c, e + 1, f)
  BY WithinShows
<1>2. t # NoSlice
  BY <1>1, NoUnderflow DEF IsSlice
<1> QED BY <1>1, <1>2

\* A call that asks for more than is left.
LEMMA WindowRefused ==
  ASSUME IsSlice(slice), slice # NoSlice,
         NEW u, NEW c, NEW nb, NEW nr, Shows(slice, u, c, nb, nr),
         NEW op, NEW n, NEW m, ~(n <= nb /\ m <= nr), NEW z, ReadTo(Failed(slice), WindowAsked(op, n, m), z)
  PROVE  Abstract!Window(op, n, m) /\ IsSlice(slice')
<1>1. u = Unread(slice) /\ c = references(slice) /\ Len(u) = nb /\ Len(c) = nr
  BY DEF Shows
<1>2. slice' = slice /\ got' = FALSE /\ builder' = builder /\ call' = [op |-> op, bits |-> n, refs |-> m]
  BY DEF ReadTo, Failed, Moved, WindowAsked
<1> QED BY <1>1, <1>2, Zenon DEF Abstract!Window

\* The calls that drop bits and references at the start.
LEMMA FirstSkipped ==
  ASSUME IsSlice(slice), slice # NoSlice,
         NEW u, NEW c, NEW nb, NEW nr, Shows(slice, u, c, nb, nr),
         NEW op \in {"skip_first", "split_prefix"}, NEW n \in Nat, NEW m \in Nat, n <= nb, m <= nr,
         NEW t, Within(slice, t, n, nb, m, nr), slice' = t, builder' = builder,
         call' = WindowAsked(op, n, m),
         got' = IF op = "skip_first" THEN TRUE ELSE <<SubSeq(u, 1, n), SubSeq(c, 1, m)>>
  PROVE  Abstract!Window(op, n, m) /\ IsSlice(slice')
<1>1. /\ u = Unread(slice) /\ c = references(slice) /\ Len(u) = nb /\ Len(c) = nr
      /\ nb \in Nat /\ nr \in Nat /\ nb <= nb /\ nr <= nr
  BY DEF Shows
<1>2. /\ slice' # NoSlice /\ IsSlice(slice')
      /\ Unread(slice') = SubSeq(u, n + 1, nb) /\ references(slice') = SubSeq(c, m + 1, nr)
  <2>1. PICK a \in Nat, e \in Nat, b \in Nat, f \in Nat :
           a = n /\ e = m /\ b = nb /\ f = nr /\ a <= b /\ b <= nb /\ e <= f /\ f <= nr
    BY <1>1
  <2>2. Within(slice, t, a, b, e, f)
    BY <2>1
  <2>3. /\ slice' # NoSlice /\ IsSlice(slice')
        /\ Unread(slice') = SubSeq(u, a + 1, b) /\ references(slice') = SubSeq(c, e + 1, f)
    BY <2>1, <2>2, WindowLeft
  <2> QED BY <2>1, <2>3
<1>3. n <= Len(u) /\ m <= Len(c)
  BY <1>1
<1>4. CASE op = "skip_first"
  BY <1>1, <1>2, <1>3, <1>4 DEF Abstract!Window, Abstract!Without, Abstract!First, WindowAsked
<1>5. CASE op = "split_prefix"
  BY <1>1, <1>2, <1>3, <1>5 DEF Abstract!Window, Abstract!Without, Abstract!First, WindowAsked
<1> QED BY <1>4, <1>5

\* The calls that drop bits and references at the end.
LEMMA LastSkipped ==
  ASSUME IsSlice(slice), slice # NoSlice,
         NEW u, NEW c, NEW nb, NEW nr, Shows(slice, u, c, nb, nr),
         NEW op \in {"skip_last", "split_suffix"}, NEW n \in Nat, NEW m \in Nat, n <= nb, m <= nr,
         NEW t, Within(slice, t, 0, nb - n, 0, nr - m), slice' = t, builder' = builder,
         call' = WindowAsked(op, n, m),
         got' = IF op = "skip_last" THEN TRUE
                ELSE <<SubSeq(u, nb - n + 1, nb), SubSeq(c, nr - m + 1, nr)>>
  PROVE  Abstract!Window(op, n, m) /\ IsSlice(slice')
<1>1. /\ u = Unread(slice) /\ c = references(slice) /\ Len(u) = nb /\ Len(c) = nr
      /\ nb \in Nat /\ nr \in Nat
  BY DEF Shows
<1>a. PICK x \in Nat, y \in Nat : x = nb - n /\ y = nr - m /\ x <= nb /\ y <= nr /\ 0 <= x /\ 0 <= y
  BY <1>1, SMTT(30)
<1>b. Within(slice, t, 0, x, 0, y)
  BY <1>a
<1>2. /\ slice' # NoSlice /\ IsSlice(slice')
      /\ Unread(slice') = SubSeq(u, 0 + 1, x) /\ references(slice') = SubSeq(c, 0 + 1, y)
  BY <1>1, <1>a, <1>b, WindowLeft
<1>3. n <= Len(u) /\ m <= Len(c) /\ 0 + 1 = 1
  BY <1>1
<1>4. CASE op = "skip_last"
  BY <1>1, <1>a, <1>2, <1>3, <1>4 DEF Abstract!Window, Abstract!Last, Abstract!First, WindowAsked
<1>5. CASE op = "split_suffix"
  BY <1>1, <1>a, <1>2, <1>3, <1>5 DEF Abstract!Window, Abstract!Last, Abstract!First, WindowAsked
<1> QED BY <1>4, <1>5

\* The calls that keep bits and references at one end.
LEMMA EndKept ==
  ASSUME IsSlice(slice), slice # NoSlice,
         NEW u, NEW c, NEW nb, NEW nr, Shows(slice, u, c, nb, nr),
         NEW op, NEW n \in Nat, NEW m \in Nat, n <= nb, m <= nr, NEW t,
         \/ op = "only_first" /\ Within(slice, t, 0, n, 0, m)
         \/ op = "only_last" /\ Within(slice, t, nb - n, nb, nr - m, nr),
         slice' = t, builder' = builder, call' = WindowAsked(op, n, m), got' = TRUE
  PROVE  Abstract!Window(op, n, m) /\ IsSlice(slice')
<1>1. /\ u = Unread(slice) /\ c = references(slice) /\ Len(u) = nb /\ Len(c) = nr
      /\ nb \in Nat /\ nr \in Nat
  BY DEF Shows
<1>a. PICK x \in Nat, y \in Nat : x = nb - n /\ y = nr - m /\ x <= nb /\ y <= nr
  BY <1>1
<1>3. n <= Len(u) /\ m <= Len(c) /\ 0 + 1 = 1 /\ 0 <= n /\ 0 <= m /\ nb <= nb /\ nr <= nr
  BY <1>1
<1>4. CASE op = "only_first"
  <2>1. Within(slice, t, 0, n, 0, m)
    BY <1>4
  <2>2. /\ slice' # NoSlice /\ IsSlice(slice')
        /\ Unread(slice') = SubSeq(u, 0 + 1, n) /\ references(slice') = SubSeq(c, 0 + 1, m)
    BY <1>1, <1>3, <2>1, WindowLeft
  <2> QED BY <1>1, <1>3, <1>4, <2>2 DEF Abstract!Window, Abstract!First, WindowAsked
<1>5. CASE op = "only_last"
  <2>1. Within(slice, t, x, nb, y, nr)
    BY <1>5, <1>a
  <2>2. /\ slice' # NoSlice /\ IsSlice(slice')
        /\ Unread(slice') = SubSeq(u, x + 1, nb) /\ references(slice') = SubSeq(c, y + 1, nr)
    BY <1>1, <1>a, <1>3, <2>1, WindowLeft
  <2> QED BY <1>1, <1>a, <1>3, <1>5, <2>2 DEF Abstract!Window, Abstract!Last, WindowAsked
<1> QED BY <1>4, <1>5

\* The parts that are given back.
LEMMA PartShows ==
  ASSUME NEW s, IsSlice(s), NEW u, NEW c, NEW nb, NEW nr, Shows(s, u, c, nb, nr),
         NEW a \in Nat, NEW b \in Nat, a <= b, b <= nb, NEW e \in Nat, NEW f \in Nat, e <= f, f <= nr,
         NEW t, Within(s, t, a, b, e, f)
  PROVE  Part(t) = <<SubSeq(u, a + 1, b), SubSeq(c, e + 1, f)>> /\ t # Underflow /\ t # None
<1>1. IsSlice(t) /\ Unread(t) = SubSeq(u, a + 1, b) /\ references(t) = SubSeq(c, e + 1, f)
  BY WithinShows
<1>2. t # Underflow /\ t # None
  BY <1>1, NoUnderflow, Zenon DEF IsSlice
<1> QED BY <1>1, <1>2, Zenon DEF Part

\* What the code of each window call does when enough is left.
LEMMA WindowCalls ==
  ASSUME NEW s, IsSlice(s), NEW u, NEW c, NEW nb, NEW nr, Shows(s, u, c, nb, nr),
         NEW n \in Nat, NEW m \in Nat
  PROVE  IF n <= nb /\ m <= nr
         THEN /\ skip_first(s, n, m).got = None /\ Within(s, skip_first(s, n, m).s, n, nb, m, nr)
              /\ only_first(s, n, m).got = None /\ Within(s, only_first(s, n, m).s, 0, n, 0, m)
              /\ skip_last(s, n, m).got = None /\ Within(s, skip_last(s, n, m).s, 0, nb - n, 0, nr - m)
              /\ only_last(s, n, m).got = None /\ Within(s, only_last(s, n, m).s, nb - n, nb, nr - m, nr)
              /\ Within(s, split_prefix(s, n, m).s, n, nb, m, nr)
              /\ Within(s, split_prefix(s, n, m).got, 0, n, 0, m)
              /\ Within(s, split_suffix(s, n, m).s, 0, nb - n, 0, nr - m)
              /\ Within(s, split_suffix(s, n, m).got, nb - n, nb, nr - m, nr)
         ELSE /\ skip_first(s, n, m) = Failed(s) /\ only_first(s, n, m) = Failed(s)
              /\ skip_last(s, n, m) = Failed(s) /\ only_last(s, n, m) = Failed(s)
              /\ split_prefix(s, n, m) = Failed(s) /\ split_suffix(s, n, m) = Failed(s)
<1>1. has_remaining(s, n, m) <=> n <= nb /\ m <= nr
  BY RemainingFacts
<1>2. CASE ~(n <= nb /\ m <= nr)
  BY <1>1, <1>2, Zenon
     DEF skip_first, only_first, skip_last, only_last, split_prefix, split_suffix, Move
<1>3. CASE n <= nb /\ m <= nr
  <2>1. PICK A, B, C, D :
          /\ A = [s EXCEPT !.range.bits_start = @ + n, !.range.refs_start = @ + m]
          /\ B = [s EXCEPT !.range.bits_end = s.range.bits_start + n,
                           !.range.refs_end = s.range.refs_start + m]
          /\ C = [s EXCEPT !.range.bits_end = @ - n, !.range.refs_end = @ - m]
          /\ D = [s EXCEPT !.range.bits_start = s.range.bits_end - n,
                           !.range.refs_start = s.range.refs_end - m]
    OBVIOUS
  <2>2. /\ Within(s, A, n, nb, m, nr) /\ Within(s, B, 0, n, 0, m)
        /\ Within(s, C, 0, nb - n, 0, nr - m) /\ Within(s, D, nb - n, nb, nr - m, nr)
    BY <1>3, <2>1, RangeMoved
  <2>3. skip_first(s, n, m) = [s |-> A, got |-> None]
    BY <1>1, <1>3, <2>1 DEF skip_first, Move, Moved
  <2>4. only_first(s, n, m) = [s |-> B, got |-> None]
    BY <1>1, <1>3, <2>1 DEF only_first, Move, Moved
  <2>5. skip_last(s, n, m) = [s |-> C, got |-> None]
    BY <1>1, <1>3, <2>1 DEF skip_last, Move, Moved
  <2>6. only_last(s, n, m) = [s |-> D, got |-> None]
    BY <1>1, <1>3, <2>1 DEF only_last, Move, Moved
  <2>7. split_prefix(s, n, m) = [s |-> A, got |-> B]
    <3>1. skip_first(s, n, m).s = A
      BY <2>3
    <3>2. A.range.bits_start = s.range.bits_start + n /\ A.range.refs_start = s.range.refs_start + m
      BY <2>2 DEF Within
    <3>3. B = [s EXCEPT !.range.bits_end = A.range.bits_start, !.range.refs_end = A.range.refs_start]
      BY <2>1, <3>2
    <3> QED BY <1>1, <1>3, <3>1, <3>3, Zenon DEF split_prefix, Moved
  <2>8. split_suffix(s, n, m) = [s |-> C, got |-> D]
    <3>1. skip_last(s, n, m).s = C
      BY <2>5
    <3>2. C.range.bits_end = s.range.bits_end - n /\ C.range.refs_end = s.range.refs_end - m
      <4>1. s \in Slices
        BY DEF IsSlice
      <4> QED BY <2>1, <4>1 DEF Slices
    <3>3. D = [s EXCEPT !.range.bits_start = C.range.bits_end, !.range.refs_start = C.range.refs_end]
      BY <2>1, <3>2
    <3> QED BY <1>1, <1>3, <3>1, <3>3, Zenon DEF split_suffix, Moved
  <2>9. /\ skip_first(s, n, m).got = None /\ skip_first(s, n, m).s = A
        /\ only_first(s, n, m).got = None /\ only_first(s, n, m).s = B
        /\ skip_last(s, n, m).got = None /\ skip_last(s, n, m).s = C
        /\ only_last(s, n, m).got = None /\ only_last(s, n, m).s = D
    BY <2>3, <2>4, <2>5, <2>6
  <2>10. /\ split_prefix(s, n, m).s = A /\ split_prefix(s, n, m).got = B
         /\ split_suffix(s, n, m).s = C /\ split_suffix(s, n, m).got = D
    BY <2>7, <2>8
  <2> QED BY <1>3, <2>2, <2>9, <2>10, Zenon
<1> QED BY <1>2, <1>3

LEMMA WindowSimulated ==
  ASSUME IsSlice(slice), slice # NoSlice, NEW n \in Nat, NEW m \in Nat,
         NEW op \in {"skip_first", "only_first", "skip_last", "only_last", "split_prefix", "split_suffix"},
         Window(op, n, m)
  PROVE  Abstract!Window(op, n, m) /\ IsSlice(slice')
<1>1. PICK u, c, nb, nr : Shows(slice, u, c, nb, nr)
  BY SliceShows
<1>2. /\ nb \in Nat /\ nr \in Nat
  BY <1>1, Zenon DEF Shows
<1>3. PICK w : w = CASE op = "skip_first" -> skip_first(slice, n, m)
                     [] op = "only_first" -> only_first(slice, n, m)
                     [] op = "skip_last" -> skip_last(slice, n, m)
                     [] op = "only_last" -> only_last(slice, n, m)
                     [] op = "split_prefix" -> split_prefix(slice, n, m)
                     [] op = "split_suffix" -> split_suffix(slice, n, m)
  OBVIOUS
<1>4. /\ op = "skip_first" => w = skip_first(slice, n, m)
      /\ op = "only_first" => w = only_first(slice, n, m)
      /\ op = "skip_last" => w = skip_last(slice, n, m)
      /\ op = "only_last" => w = only_last(slice, n, m)
      /\ op = "split_prefix" => w = split_prefix(slice, n, m)
      /\ op = "split_suffix" => w = split_suffix(slice, n, m)
  BY <1>3
<1>5. PICK z : z = Part(w.got)
  OBVIOUS
<1>6. ReadTo(w, WindowAsked(op, n, m), z)
  BY <1>3, <1>5 DEF Window, Read, ReadTo, WindowAsked
<1>7. CASE ~(n <= nb /\ m <= nr)
  <2>1. /\ skip_first(slice, n, m) = Failed(slice) /\ only_first(slice, n, m) = Failed(slice)
        /\ skip_last(slice, n, m) = Failed(slice) /\ only_last(slice, n, m) = Failed(slice)
        /\ split_prefix(slice, n, m) = Failed(slice) /\ split_suffix(slice, n, m) = Failed(slice)
    BY <1>1, <1>7, WindowCalls
  <2>2. w = Failed(slice)
    BY <1>4, <2>1
  <2>3. ReadTo(Failed(slice), WindowAsked(op, n, m), z)
    BY <1>6, <2>2
  <2> QED BY <1>1, <1>7, <2>3, WindowRefused
<1>8. CASE n <= nb /\ m <= nr
  <2> DEFINE s == slice
  <2>1. /\ skip_first(s, n, m).got = None /\ Within(s, skip_first(s, n, m).s, n, nb, m, nr)
        /\ only_first(s, n, m).got = None /\ Within(s, only_first(s, n, m).s, 0, n, 0, m)
        /\ skip_last(s, n, m).got = None /\ Within(s, skip_last(s, n, m).s, 0, nb - n, 0, nr - m)
        /\ only_last(s, n, m).got = None /\ Within(s, only_last(s, n, m).s, nb - n, nb, nr - m, nr)
        /\ Within(s, split_prefix(s, n, m).s, n, nb, m, nr)
        /\ Within(s, split_prefix(s, n, m).got, 0, n, 0, m)
        /\ Within(s, split_suffix(s, n, m).s, 0, nb - n, 0, nr - m)
        /\ Within(s, split_suffix(s, n, m).got, nb - n, nb, nr - m, nr)
    BY <1>1, <1>8, WindowCalls
  <2>2. PICK t, g : t = w.s /\ g = w.got
    OBVIOUS
  <2>3. /\ slice' = t /\ call' = WindowAsked(op, n, m) /\ builder' = builder
        /\ got' = IF g = Underflow THEN FALSE ELSE IF g = None THEN TRUE ELSE z
    BY <1>6, <2>2, Zenon DEF ReadTo
  <2>4. None # Underflow
    BY NoUnderflow
  <2>5. CASE op = "skip_first"
    <3>1. Within(slice, t, n, nb, m, nr) /\ g = None
      BY <1>4, <2>1, <2>2, <2>5, Zenon
    <3>2. got' = IF op = "skip_first" THEN TRUE ELSE <<SubSeq(u, 1, n), SubSeq(c, 1, m)>>
      BY <2>3, <2>4, <2>5, <3>1, Zenon
    <3> QED BY <1>1, <1>8, <2>3, <2>5, <3>1, <3>2, FirstSkipped
  <2>6. CASE op = "only_first"
    <3>1. Within(slice, t, 0, n, 0, m) /\ g = None
      BY <1>4, <2>1, <2>2, <2>6, Zenon
    <3>2. got' = TRUE
      BY <2>3, <2>4, <3>1, Zenon
    <3> QED BY <1>1, <1>8, <2>3, <2>6, <3>1, <3>2, EndKept
  <2>7. CASE op = "skip_last"
    <3>1. Within(slice, t, 0, nb - n, 0, nr - m) /\ g = None
      BY <1>4, <2>1, <2>2, <2>7, Zenon
    <3>2. got' = IF op = "skip_last" THEN TRUE
                 ELSE <<SubSeq(u, nb - n + 1, nb), SubSeq(c, nr - m + 1, nr)>>
      BY <2>3, <2>4, <2>7, <3>1, Zenon
    <3> QED BY <1>1, <1>8, <2>3, <2>7, <3>1, <3>2, LastSkipped
  <2>8. CASE op = "only_last"
    <3>1. Within(slice, t, nb - n, nb, nr - m, nr) /\ g = None
      BY <1>4, <2>1, <2>2, <2>8, Zenon
    <3>2. got' = TRUE
      BY <2>3, <2>4, <3>1, Zenon
    <3> QED BY <1>1, <1>8, <2>3, <2>8, <3>1, <3>2, EndKept
  <2>9. CASE op = "split_prefix"
    <3>1. Within(slice, t, n, nb, m, nr) /\ Within(slice, g, 0, n, 0, m)
      BY <1>4, <2>1, <2>2, <2>9, Zenon
    <3>2. 0 \in Nat /\ 0 <= n /\ 0 <= m /\ 0 + 1 = 1
      OBVIOUS
    <3>3. Part(g) = <<SubSeq(u, 0 + 1, n), SubSeq(c, 0 + 1, m)>> /\ g # Underflow /\ g # None
      BY <1>1, <1>8, <3>1, <3>2, PartShows
    <3>4. op # "skip_first"
      BY <2>9
    <3>5. got' = <<SubSeq(u, 1, n), SubSeq(c, 1, m)>>
      BY <1>5, <2>2, <2>3, <3>2, <3>3, Zenon
    <3>6. got' = IF op = "skip_first" THEN TRUE ELSE <<SubSeq(u, 1, n), SubSeq(c, 1, m)>>
      BY <3>4, <3>5, Zenon
    <3> QED BY <1>1, <1>8, <2>3, <2>9, <3>1, <3>6, FirstSkipped
  <2>10. CASE op = "split_suffix"
    <3>1. Within(slice, t, 0, nb - n, 0, nr - m) /\ Within(slice, g, nb - n, nb, nr - m, nr)
      BY <1>4, <2>1, <2>2, <2>10, Zenon
    <3>2. PICK x \in Nat, y \in Nat : x = nb - n /\ y = nr - m /\ x <= nb /\ y <= nr /\ nb <= nb /\ nr <= nr
      BY <1>2, <1>8
    <3>a. Within(slice, g, x, nb, y, nr)
      BY <3>1, <3>2, Zenon
    <3>3. Part(g) = <<SubSeq(u, x + 1, nb), SubSeq(c, y + 1, nr)>> /\ g # Underflow /\ g # None
      BY <1>1, <1>2, <3>a, <3>2, PartShows
    <3>4. op # "skip_last"
      BY <2>10
    <3>5. got' = <<SubSeq(u, nb - n + 1, nb), SubSeq(c, nr - m + 1, nr)>>
      BY <1>5, <2>2, <2>3, <3>2, <3>3, Zenon
    <3>6. got' = IF op = "skip_last" THEN TRUE
                 ELSE <<SubSeq(u, nb - n + 1, nb), SubSeq(c, nr - m + 1, nr)>>
      BY <3>4, <3>5, Zenon
    <3> QED BY <1>1, <1>8, <2>3, <2>10, <3>1, <3>6, LastSkipped
  <2> QED BY <2>5, <2>6, <2>7, <2>8, <2>9, <2>10
<1> QED BY <1>7, <1>8

LEMMA RemainingLoaded ==
  ASSUME IsSlice(slice), slice # NoSlice, LoadRemaining
  PROVE  Abstract!Window("split_prefix", size_bits(slice), size_refs(slice)) /\ IsSlice(slice')
<1>1. PICK u, c, nb, nr : Shows(slice, u, c, nb, nr)
  BY SliceShows
<1>2. /\ nb \in Nat /\ nr \in Nat /\ u = Unread(slice) /\ c = references(slice) /\ nb <= nb /\ nr <= nr
      /\ u \in Seq(Bit) /\ c \in Seq(RefCells) /\ Len(u) = nb /\ Len(c) = nr
  BY <1>1 DEF Shows
<1>3. size_bits(slice) = nb /\ size_refs(slice) = nr
  BY <1>1, <1>2, RemainingFacts
<1>4. PICK t : t = [slice EXCEPT !.range.bits_start = slice.range.bits_end,
                                 !.range.refs_start = slice.range.refs_end]
  OBVIOUS
<1>5. load_remaining(slice) = [s |-> t, got |-> slice]
  BY <1>4 DEF load_remaining, Moved
<1>6. PICK w : w = load_remaining(slice) /\ w.s = t /\ w.got = slice
  BY <1>5
<1>7. /\ slice' = w.s /\ call' = WindowAsked("split_prefix", nb, nr) /\ builder' = builder
      /\ got' = IF w.got = Underflow THEN FALSE ELSE IF w.got = None THEN TRUE ELSE Part(w.got)
  BY <1>3, <1>6 DEF LoadRemaining, Read, WindowAsked
<1>8. slice # Underflow /\ slice # None
  BY NoUnderflow DEF IsSlice
<1>9. SubSeq(u, 1, nb) = u /\ SubSeq(c, 1, nr) = c
  BY <1>2
<1>10. slice' = t /\ got' = <<SubSeq(u, 1, nb), SubSeq(c, 1, nr)>>
  BY <1>2, <1>6, <1>7, <1>8, <1>9, Zenon DEF Part
<1>11. Within(slice, t, nb, nb, nr, nr)
  <2>1. slice \in Slices
    BY DEF IsSlice
  <2>a. PICK x, y, a, b : /\ x = slice.range.bits_start /\ y = slice.range.bits_end
                          /\ a = slice.range.refs_start /\ b = slice.range.refs_end
    OBVIOUS
  <2>b. x \in Nat /\ y = x + nb /\ a \in Nat /\ b = a + nr
    BY <1>1, <2>a, Zenon DEF Shows
  <2>2. /\ x = slice.range.bits_start /\ y = slice.range.bits_end /\ y = x + nb /\ x = x + 0
        /\ a = slice.range.refs_start /\ b = slice.range.refs_end /\ b = a + nr
        /\ x \in Nat /\ y \in Nat /\ a \in Nat /\ b \in Nat
    BY <1>2, <2>a, <2>b
  <2>3. /\ t.cell = slice.cell /\ t.range.bits_start = y /\ t.range.refs_start = b
        /\ t.range.bits_end = y /\ t.range.refs_end = b
    BY <1>4, <2>1, <2>2 DEF Slices
  <2>4. t \in Slices
    BY <1>4, <2>1, <2>2 DEF Slices
  <2> QED BY <2>2, <2>3, <2>4, Zenon DEF Within
<1>12. PICK op \in {"skip_first", "split_prefix"} : op = "split_prefix" /\ op # "skip_first"
  OBVIOUS
<1>13. got' = IF op = "skip_first" THEN TRUE ELSE <<SubSeq(u, 1, nb), SubSeq(c, 1, nr)>>
  BY <1>10, <1>12, Zenon
<1>14. call' = WindowAsked(op, nb, nr) /\ builder' = builder /\ slice' = t
  BY <1>7, <1>10, <1>12, Zenon
<1>15. Abstract!Window(op, nb, nr) /\ IsSlice(slice')
  BY <1>1, <1>2, <1>11, <1>13, <1>14, FirstSkipped, ZenonT(30)
<1> QED BY <1>3, <1>12, <1>15, Zenon

LEMMA ReferencesSkipped ==
  ASSUME IsSlice(slice), slice # NoSlice, WithoutReferences
  PROVE  Abstract!Window("skip_first", 0, size_refs(slice)) /\ IsSlice(slice')
<1>1. PICK u, c, nb, nr : Shows(slice, u, c, nb, nr)
  BY SliceShows
<1>2. /\ nb \in Nat /\ nr \in Nat /\ 0 \in Nat /\ 0 <= nb /\ nr <= nr
  BY <1>1 DEF Shows
<1>3. size_refs(slice) = nr
  BY <1>1, <1>2, RemainingFacts
<1>4. PICK t : t = [slice EXCEPT !.range.refs_start = slice.range.refs_end]
  OBVIOUS
<1>a. PICK w : w = [s |-> t, got |-> None]
  OBVIOUS
<1>5. w = [s |-> t, got |-> None] /\ w.s = t /\ w.got = None
  BY <1>a
<1>6. w = Moved(without_references(slice), None)
  BY <1>4, <1>5, Zenon DEF without_references, Moved
<1>7. /\ slice' = w.s /\ call' = WindowAsked("skip_first", 0, nr) /\ builder' = builder
      /\ got' = IF w.got = Underflow THEN FALSE ELSE IF w.got = None THEN TRUE ELSE w.got
  BY <1>3, <1>6 DEF WithoutReferences, Read, Same, WindowAsked
<1>8. None # Underflow
  BY NoUnderflow
<1>9. slice' = t /\ got' = TRUE
  BY <1>5, <1>7, <1>8, Zenon
<1>11. Within(slice, t, 0, nb, nr, nr)
  <2>1. slice \in Slices
    BY DEF IsSlice
  <2>a. PICK x, y, a, b : /\ x = slice.range.bits_start /\ y = slice.range.bits_end
                          /\ a = slice.range.refs_start /\ b = slice.range.refs_end
    OBVIOUS
  <2>b. x \in Nat /\ y = x + nb /\ a \in Nat /\ b = a + nr
    BY <1>1, <2>a, Zenon DEF Shows
  <2>2. /\ x = slice.range.bits_start /\ y = slice.range.bits_end /\ y = x + nb /\ x = x + 0
        /\ a = slice.range.refs_start /\ b = slice.range.refs_end /\ b = a + nr
        /\ x \in Nat /\ y \in Nat /\ a \in Nat /\ b \in Nat
    BY <1>2, <2>a, <2>b
  <2>3. /\ t.cell = slice.cell /\ t.range.bits_start = x /\ t.range.refs_start = b
        /\ t.range.bits_end = y /\ t.range.refs_end = b
    BY <1>4, <2>1, <2>2 DEF Slices
  <2>4. t \in Slices
    BY <1>4, <2>1, <2>2 DEF Slices
  <2> QED BY <2>2, <2>3, <2>4, Zenon DEF Within
<1>12. PICK op \in {"skip_first", "split_prefix"} : op = "skip_first"
  OBVIOUS
<1>13. got' = IF op = "skip_first" THEN TRUE ELSE <<SubSeq(u, 1, 0), SubSeq(c, 1, nr)>>
  BY <1>9, <1>12, Zenon
<1>14. call' = WindowAsked(op, 0, nr) /\ builder' = builder /\ slice' = t
  BY <1>7, <1>9, <1>12, Zenon
<1>15. PICK z \in Nat : z = 0
  OBVIOUS
<1>16. Abstract!Window(op, z, nr) /\ IsSlice(slice')
  BY <1>1, <1>2, <1>11, <1>13, <1>14, <1>15, FirstSkipped
<1> QED BY <1>3, <1>12, <1>15, <1>16, Zenon

-----------------------------------------------------------------------------
(* Stores *)

\* The bits of a builder that was appended to.
LEMMA AppendedText ==
  ASSUME NEW b, WellFormed(b), NEW c, NEW x \in Seq(Bit), Appended(b, c, x)
  PROVE  Text(c) = Text(b) \o x /\ c.refs = b.refs
<1>1. WellFormed(c)
  BY AppendedIsFormed
<1>2. PICK l, k, n : l = b.bit_len /\ k = c.bit_len /\ n = Len(x)
  OBVIOUS
<1>3. l \in Nat /\ k \in Nat /\ n \in Nat /\ k < Full /\ k = l + n /\ Full \in Nat
  BY <1>2, LenProperties, SizeFacts DEF Appended, WellFormed, Builder
<1>4. \A i \in 1..Full : c.data[i] = IF i <= l THEN b.data[i] ELSE IF i <= k THEN x[i - l] ELSE 0
  BY <1>2, Zenon DEF Appended
<1>5. PICK s, t : s = Text(b) /\ t = Text(c)
  OBVIOUS
<1>6. /\ s \in Seq(Bit) /\ Len(s) = l /\ \A i \in 1..l : s[i] = b.data[i]
      /\ t \in Seq(Bit) /\ Len(t) = k /\ \A i \in 1..k : t[i] = c.data[i]
  BY <1>1, <1>2, <1>5, TextFacts
<1>7. PICK y : y = s \o x
  OBVIOUS
<1>8. /\ y \in Seq(Bit) /\ Len(y) = l + n
      /\ \A i \in 1..l : y[i] = s[i]
      /\ \A i \in 1..n : y[l + i] = x[i]
  <2>1. /\ s \o x \in Seq(Bit) /\ Len(s \o x) = Len(s) + Len(x)
        /\ \A i \in 1..Len(s) : (s \o x)[i] = s[i]
        /\ \A i \in 1..Len(x) : (s \o x)[Len(s) + i] = x[i]
    BY <1>6, BitJoin, Zenon
  <2> QED BY <1>2, <1>6, <1>7, <2>1, Zenon
<1>9. ASSUME NEW i \in 1..k PROVE t[i] = y[i]
  <2>1. i \in 1..Full
    BY <1>3
  <2>2. t[i] = c.data[i]
    BY <1>6
  <2>3. CASE i <= l
    <3>1. i \in 1..l
      BY <1>3, <2>3
    <3> QED BY <1>4, <1>6, <1>8, <2>1, <2>2, <2>3, <3>1, Zenon
  <2>4. CASE ~(i <= l)
    <3>1. PICK j : j = i - l
      OBVIOUS
    <3>2. j \in 1..n /\ l + j = i /\ i <= k
      BY <1>3, <2>4, <3>1
    <3>3. y[i] = x[j]
      BY <1>8, <3>2
    <3>4. c.data[i] = x[i - l]
      BY <1>4, <2>1, <2>4, <3>2, Zenon
    <3> QED BY <2>2, <3>1, <3>3, <3>4
  <2> QED BY <2>3, <2>4
<1>10. t = y
  BY <1>3, <1>6, <1>8, <1>9, SeqSame
<1> QED BY <1>5, <1>7, <1>10 DEF Appended

\* The capacities, in bits and references of BitCell.
LEMMA RoomFacts ==
  ASSUME NEW b, WellFormed(b), NEW n \in Nat
  PROVE  b.bit_len + n < Full <=> Len(Text(b)) + n <= MAX_BIT_LEN
<1>1. Len(Text(b)) = b.bit_len /\ b.bit_len \in Nat
  BY TextFacts
<1> QED BY <1>1, SizeFacts

LEMMA StoreWithStep ==
  ASSUME WellFormed(builder), NEW x \in Seq(Bit), NEW cells \in Seq(RefCells), NEW r,
         Write(r, Asked(x, cells)), StoredWith(builder, r, x, cells), Len(builder.refs) <= MAX_REF_COUNT
  PROVE  Abstract!Store(x, cells) /\ Len(builder'.refs) <= MAX_REF_COUNT
<1>1. /\ builder' = r.b /\ got' = r.ok /\ call' = Asked(x, cells) /\ slice' = slice
  BY DEF Write
<1>2. PICK b : b = builder
  OBVIOUS
<1>3. Len(x) \in Nat /\ Len(cells) \in Nat /\ b.refs \in Seq(RefCells) /\ Len(b.refs) \in Nat
  BY <1>2, LenProperties DEF WellFormed, Builder
<1>4. b.bit_len + Len(x) < Full <=> Len(Text(b)) + Len(x) <= MAX_BIT_LEN
  BY <1>2, <1>3, RoomFacts
<1>5. CASE b.bit_len + Len(x) < Full /\ Len(b.refs) + Len(cells) <= MAX_REF_COUNT
  <2>1. r.ok = TRUE /\ \E c : Appended(b, c, x) /\ r.b = [c EXCEPT !.refs = b.refs \o cells]
    BY <1>2, <1>5 DEF StoredWith
  <2>2. PICK c : Appended(b, c, x) /\ r.b = [c EXCEPT !.refs = b.refs \o cells]
    BY <2>1
  <2>3. Text(c) = Text(b) \o x
    BY <1>2, <2>2, AppendedText
  <2>4. c \in Builder
    BY <2>2, Zenon DEF Appended
  <2>5. r.b.data = c.data /\ r.b.bit_len = c.bit_len /\ r.b.refs = b.refs \o cells
    BY <2>2, <2>4 DEF Builder
  <2>6. Text(r.b) = Text(b) \o x
    BY <2>3, <2>5 DEF Text
  <2>7. Len(b.refs \o cells) = Len(b.refs) + Len(cells)
    BY <1>3
  <2> QED BY <1>1, <1>2, <1>4, <1>5, <2>1, <2>5, <2>6, <2>7 DEF Abstract!Store, Asked
<1>6. CASE ~(b.bit_len + Len(x) < Full /\ Len(b.refs) + Len(cells) <= MAX_REF_COUNT)
  <2>1. r.ok = FALSE /\ r.b = b
    BY <1>2, <1>6 DEF StoredWith
  <2> QED BY <1>1, <1>2, <1>4, <1>6, <2>1 DEF Abstract!Store, Asked
<1> QED BY <1>5, <1>6

LEMMA StoreStep ==
  ASSUME WellFormed(builder), NEW x \in Seq(Bit), NEW r,
         Write(r, Asked(x, <<>>)), Stored(builder, r, x), Len(builder.refs) <= MAX_REF_COUNT
  PROVE  Abstract!Store(x, <<>>) /\ Len(builder'.refs) <= MAX_REF_COUNT
<1>1. PICK b : b = builder
  OBVIOUS
<1>2. /\ builder' = r.b /\ got' = r.ok /\ call' = Asked(x, <<>>) /\ slice' = slice
  BY DEF Write
<1>3. Len(x) \in Nat /\ Len(<<>>) = 0 /\ b.refs \in Seq(RefCells) /\ Len(b.refs) \in Nat
  BY <1>1, LenProperties DEF WellFormed, Builder
<1>4. b.bit_len + Len(x) < Full <=> Len(Text(b)) + Len(x) <= MAX_BIT_LEN
  BY <1>1, <1>3, RoomFacts
<1>5. Len(b.refs) + Len(<<>>) <= MAX_REF_COUNT /\ b.refs \o <<>> = b.refs
  BY <1>1, <1>3
<1>6. CASE b.bit_len + Len(x) < Full
  <2>1. r.ok = TRUE /\ Appended(b, r.b, x)
    BY <1>1, <1>6 DEF Stored
  <2>2. Text(r.b) = Text(b) \o x /\ r.b.refs = b.refs
    BY <1>1, <2>1, AppendedText
  <2> QED BY <1>1, <1>2, <1>4, <1>5, <1>6, <2>1, <2>2 DEF Abstract!Store, Asked
<1>7. CASE ~(b.bit_len + Len(x) < Full)
  <2>1. r.ok = FALSE /\ r.b = b
    BY <1>1, <1>7 DEF Stored
  <2> QED BY <1>1, <1>2, <1>4, <1>7, <2>1 DEF Abstract!Store, Asked
<1> QED BY <1>6, <1>7

LEMMA RefuseStep ==
  ASSUME NEW r, Write(r, [op |-> "refuse"]), r = Refused(builder)
  PROVE  Abstract!Refuse /\ builder' = builder
<1>1. builder' = builder /\ got' = FALSE /\ call' = [op |-> "refuse"] /\ slice' = slice
  BY DEF Write, Refused
<1> QED BY <1>1 DEF Abstract!Refuse

LEMMA StoreVarStep ==
  ASSUME WellFormed(builder), NEW len \in Seq(Bit), NEW x \in Seq(Bit), NEW fits_len \in BOOLEAN, NEW r,
         Write(r, [op |-> "store_var", len |-> len, bits |-> x, fits_len |-> fits_len]),
         StoredVar(builder, r, len, x, fits_len)
  PROVE  Abstract!StoreVar(len, x, fits_len) /\ builder'.refs = builder.refs
<1>1. PICK b : b = builder
  OBVIOUS
<1>2. /\ builder' = r.b /\ got' = r.ok /\ slice' = slice
      /\ call' = [op |-> "store_var", len |-> len, bits |-> x, fits_len |-> fits_len]
  BY DEF Write
<1>3. PICK l \in Nat, n \in Nat, m \in Nat : l = Len(Text(b)) /\ n = Len(len) /\ m = Len(x) /\ b.bit_len = l
  BY <1>1, TextFacts, LenProperties
<1>4. /\ l + n < Full <=> l + n <= MAX_BIT_LEN
      /\ l + n + m < Full <=> l + n + m <= MAX_BIT_LEN
  BY <1>3, SizeFacts
<1>5. CASE fits_len /\ l + n < Full /\ l + n + m < Full
  <2>1. r.ok = TRUE /\ Appended(b, r.b, len \o x)
    BY <1>1, <1>3, <1>5, Zenon DEF StoredVar
  <2>2. len \o x \in Seq(Bit)
    BY BitJoin
  <2>3. Text(r.b) = Text(b) \o (len \o x) /\ r.b.refs = b.refs
    BY <1>1, <2>1, <2>2, AppendedText
  <2>4. Text(b) \o (len \o x) = Text(b) \o len \o x
    <3>1. Text(b) \in Seq(Bit)
      BY <1>1, TextFacts
    <3> QED BY <3>1
  <2> QED BY <1>1, <1>2, <1>3, <1>4, <1>5, <2>1, <2>3, <2>4, Zenon DEF Abstract!StoreVar
<1>6. CASE fits_len /\ l + n < Full /\ ~(l + n + m < Full)
  <2>1. r.ok = FALSE /\ Appended(b, r.b, len)
    BY <1>1, <1>3, <1>6, Zenon DEF StoredVar
  <2>2. Text(r.b) = Text(b) \o len /\ r.b.refs = b.refs
    BY <1>1, <2>1, AppendedText
  <2> QED BY <1>1, <1>2, <1>3, <1>4, <1>6, <2>1, <2>2, Zenon DEF Abstract!StoreVar
<1>7. CASE ~(fits_len /\ l + n < Full)
  <2>1. r.ok = FALSE /\ r.b = b
    BY <1>1, <1>3, <1>7, Zenon DEF StoredVar
  <2> QED BY <1>1, <1>2, <1>3, <1>4, <1>7, <2>1, Zenon DEF Abstract!StoreVar
<1> QED BY <1>5, <1>6, <1>7

\* The bits that are left of a builder.
LEMMA RewoundText ==
  ASSUME NEW b, WellFormed(b), NEW n \in Nat, n <= b.bit_len, NEW c, Rewound(b, c, n)
  PROVE  Text(c) = SubSeq(Text(b), 1, n) /\ c.refs = b.refs
<1>1. WellFormed(c)
  BY RewoundIsFormed
<1>2. PICK s, t, l : s = Text(b) /\ t = Text(c) /\ l = b.bit_len
  OBVIOUS
<1>3. /\ l \in Nat /\ s \in Seq(Bit) /\ Len(s) = l /\ \A i \in 1..l : s[i] = b.data[i]
  BY <1>2, TextFacts
<1>4. c.bit_len = n /\ c.refs = b.refs /\ \A i \in 1..Full : c.data[i] = IF i <= n THEN b.data[i] ELSE 0
  BY Zenon DEF Rewound
<1>5. t \in Seq(Bit) /\ Len(t) = n /\ \A i \in 1..n : t[i] = c.data[i]
  BY <1>1, <1>2, <1>4, TextFacts
<1>6. PICK y : y = SubSeq(s, 1, n)
  OBVIOUS
<1>7. y \in Seq(Bit) /\ Len(y) = n /\ \A i \in 1..n : y[i] = s[i]
  <2>1. 0 \in Nat /\ 0 <= n /\ n <= Len(s) /\ 0 + 1 = 1 /\ n - 0 = n /\ \A i \in 1..n : 0 + i = i
    BY <1>2, <1>3
  <2>2. IsSub(Bit, y, s, 0, n)
    BY <1>3, <1>6, <2>1, SubIs
  <2> QED BY <2>1, <2>2 DEF IsSub
<1>8. l < Full /\ Full \in Nat /\ n <= l
  BY <1>2, SizeFacts DEF WellFormed
<1>9. ASSUME NEW i \in 1..n PROVE t[i] = y[i]
  <2>1. i \in 1..l /\ i \in 1..Full /\ i <= n
    BY <1>3, <1>8
  <2> QED BY <1>3, <1>4, <1>5, <1>7, <2>1, Zenon
<1>10. t = y
  BY <1>5, <1>7, <1>9, SeqSame
<1> QED BY <1>2, <1>4, <1>6, <1>10

LEMMA RewindStep ==
  ASSUME WellFormed(builder), NEW n \in Nat, RewindBits(n)
  PROVE  Abstract!Rewind(n) /\ builder'.refs = builder.refs
<1>1. PICK b, r, l : b = builder /\ r = rewind_bits(builder, n) /\ l = b.bit_len
  OBVIOUS
<1>2. /\ builder' = r.b /\ got' = r.ok /\ slice' = slice /\ call' = [op |-> "rewind", bits |-> n]
  BY <1>1 DEF Write, RewindBits
<1>3. l \in Nat /\ Len(Text(b)) = l
  BY <1>1, TextFacts
<1>4. \/ n > l /\ r = Refused(b)
      \/ n <= l /\ r.ok = TRUE /\ Rewound(b, r.b, l - n)
  BY <1>1, BitsRewound
<1>5. CASE n > l /\ r = Refused(b)
  <2>1. r.ok = FALSE /\ r.b = b /\ ~(n <= l)
    BY <1>3, <1>5 DEF Refused
  <2>2. got' = FALSE /\ ~(n <= Len(Text(b))) /\ builder' = b
    BY <1>2, <1>3, <2>1
  <2>3. Abstract!Rewind(n)
    <3>1. (n <= l) = FALSE
      BY <1>3, <2>1
    <3>a. got' = (n <= Len(Text(builder)))
      BY <1>1, <1>3, <2>2, <3>1
    <3>2. ~got' /\ builder' = builder
      BY <1>1, <2>2
    <3>3. Text(builder)' = IF got' THEN Abstract!First(Text(builder), Len(Text(builder)) - n) ELSE Text(builder)
      BY <3>2
    <3>4. UNCHANGED <<builder.refs, IF slice = NoSlice THEN <<>> ELSE Unread(slice),
                      IF slice = NoSlice THEN <<>> ELSE references(slice)>>
      BY <1>2, <3>2
    <3> QED BY <1>2, <3>a, <3>3, <3>4, Zenon DEF Abstract!Rewind
  <2> QED BY <1>1, <2>2, <2>3
<1>6. CASE n <= l /\ r.ok = TRUE /\ Rewound(b, r.b, l - n)
  <2>1. PICK k \in Nat : k = l - n /\ k <= l
    BY <1>3, <1>6
  <2>2. Text(r.b) = SubSeq(Text(b), 1, k) /\ r.b.refs = b.refs
    BY <1>1, <1>6, <2>1, RewoundText
  <2>3. got' = TRUE /\ n <= Len(Text(b)) /\ Len(Text(b)) - n = k
    BY <1>2, <1>3, <1>6, <2>1
  <2>4. Text(builder') = SubSeq(Text(b), 1, Len(Text(b)) - n) /\ builder'.refs = b.refs
    BY <1>2, <2>2, <2>3
  <2>5. Abstract!Rewind(n)
    BY <1>1, <1>2, <2>3, <2>4 DEF Abstract!Rewind, Abstract!First
  <2> QED BY <1>1, <2>4, <2>5
<1> QED BY <1>4, <1>5, <1>6

LEMMA ClearStep ==
  ASSUME WellFormed(builder), ClearBits
  PROVE  Abstract!Rewind(builder.bit_len) /\ builder'.refs = builder.refs
<1>1. PICK b, c, l : b = builder /\ c = clear_bits(builder) /\ l = b.bit_len
  OBVIOUS
<1>2. /\ builder' = c /\ got' = TRUE /\ slice' = slice /\ call' = [op |-> "rewind", bits |-> l]
  BY <1>1 DEF Write, ClearBits, Done
<1>3. l \in Nat /\ Len(Text(b)) = l /\ 0 \in Nat /\ 0 <= l /\ l <= l /\ l - l = 0
  BY <1>1, TextFacts
<1>4. Rewound(b, c, 0)
  BY <1>1, BitsCleared
<1>5. Text(c) = SubSeq(Text(b), 1, 0) /\ c.refs = b.refs
  BY <1>1, <1>3, <1>4, RewoundText
<1>6. Abstract!Rewind(l)
  BY <1>1, <1>2, <1>3, <1>5 DEF Abstract!Rewind, Abstract!First
<1> QED BY <1>1, <1>2, <1>5, <1>6

LEMMA PrependStep ==
  ASSUME WellFormed(builder), NEW v \in Seq(Bit), Aligned(v), NEW n \in Nat, PrependRaw(v, n)
  PROVE  Abstract!Prepend(RawBits(v, n)) /\ builder'.refs = builder.refs
<1>1. PICK b, r, x, e : /\ b = builder /\ r = prepend_raw(builder, v, n) /\ x = RawBits(v, n)
                        /\ e = [new EXCEPT !.refs = b.refs]
  OBVIOUS
<1>2. /\ builder' = r.b /\ got' = r.ok /\ slice' = slice /\ call' = [op |-> "prepend", bits |-> x]
  BY <1>1 DEF Write, PrependRaw
<1>3. x \in Seq(Bit) /\ Len(x) = n
  <2>1. PICK k \in Nat : k = n - Least(n, Len(v))
    BY LenProperties, SMTT(30) DEF Least
  <2> QED BY <1>1, <2>1, RawBitsFacts
<1>4. b.bit_len + n < Full <=> Len(Text(b)) + n <= MAX_BIT_LEN
  BY <1>1, RoomFacts
<1>5. Text(b) \in Seq(Bit) /\ b.refs \in Seq(RefCells) /\ Len(Text(b)) = b.bit_len /\ b.bit_len \in Nat
  BY <1>1, TextFacts DEF WellFormed, Builder
<1>6. WellFormed(e) /\ e.refs = b.refs /\ e.bit_len = 0
  BY <1>1, <1>5, NewIsFormed DEF new
<1>7. \/ n = 0 /\ r = Done(b)
      \/ n # 0 /\ b.bit_len + n < Full /\ r.ok = TRUE /\ Appended(e, r.b, x \o Text(b))
      \/ n # 0 /\ ~(b.bit_len + n < Full) /\ r = Refused(b)
  BY <1>1, RawPrepended
<1>8. CASE n = 0 /\ r = Done(b)
  <2>1. r.ok = TRUE /\ r.b = b
    BY <1>8 DEF Done
  <2>2. x \o Text(b) = Text(b)
    BY <1>3, <1>5, <1>8
  <2>3. b.bit_len + n < Full
    BY <1>1, <1>5, <1>8 DEF WellFormed
  <2> QED BY <1>1, <1>2, <1>3, <1>4, <2>1, <2>2, <2>3 DEF Abstract!Prepend
<1>9. CASE n # 0 /\ b.bit_len + n < Full /\ r.ok = TRUE /\ Appended(e, r.b, x \o Text(b))
  <2>1. x \o Text(b) \in Seq(Bit)
    BY <1>3, <1>5, BitJoin
  <2>2. Text(r.b) = Text(e) \o (x \o Text(b)) /\ r.b.refs = b.refs
    BY <1>6, <1>9, <2>1, AppendedText
  <2>3. Text(e) \in Seq(Bit) /\ Len(Text(e)) = 0
    BY <1>6, TextFacts
  <2>4. Text(e) \o (x \o Text(b)) = x \o Text(b)
    BY <2>1, <2>3
  <2>5. got' = TRUE /\ Len(Text(b)) + Len(x) <= MAX_BIT_LEN
    BY <1>2, <1>3, <1>4, <1>9
  <2>6. Text(builder') = x \o Text(b) /\ builder'.refs = b.refs
    BY <1>2, <2>2, <2>4
  <2>7. Abstract!Prepend(x)
    BY <1>1, <1>2, <2>5, <2>6 DEF Abstract!Prepend
  <2> QED BY <1>1, <2>6, <2>7
<1>10. CASE n # 0 /\ ~(b.bit_len + n < Full) /\ r = Refused(b)
  <2>1. r.ok = FALSE /\ r.b = b
    BY <1>10 DEF Refused
  <2>2. got' = FALSE /\ ~(Len(Text(b)) + Len(x) <= MAX_BIT_LEN) /\ builder' = b
    BY <1>2, <1>3, <1>4, <1>10, <2>1
  <2>3. Abstract!Prepend(x)
    <3>1. (Len(Text(b)) + Len(x) <= MAX_BIT_LEN) = FALSE
      BY <1>3, <1>5, <2>2, SizeFacts
    <3>a. got' = (Len(Text(builder)) + Len(x) <= MAX_BIT_LEN)
      BY <1>1, <2>2, <3>1, Zenon
    <3>2. ~got' /\ builder' = builder
      BY <1>1, <2>2
    <3>3. Text(builder)' = IF got' THEN x \o Text(builder) ELSE Text(builder)
      BY <3>2
    <3>4. UNCHANGED <<builder.refs, IF slice = NoSlice THEN <<>> ELSE Unread(slice),
                      IF slice = NoSlice THEN <<>> ELSE references(slice)>>
      BY <1>2, <3>2
    <3> QED BY <1>2, <3>a, <3>3, <3>4, Zenon DEF Abstract!Prepend
  <2> QED BY <1>1, <2>2, <2>3
<1> QED BY <1>7, <1>8, <1>9, <1>10

LEMMA ReferenceStep ==
  ASSUME WellFormed(builder), NEW c \in RefCells, StoreReference(c), Len(builder.refs) <= MAX_REF_COUNT
  PROVE  Abstract!Store(<<>>, <<c>>) /\ Len(builder'.refs) <= MAX_REF_COUNT
<1>1. PICK b, r, k : b = builder /\ r = store_reference(builder, c) /\ k = Len(b.refs)
  OBVIOUS
<1>2. /\ builder' = r.b /\ got' = r.ok /\ slice' = slice /\ call' = Asked(<<>>, <<c>>)
  BY <1>1 DEF Write, StoreReference
<1>3. /\ b.refs \in Seq(RefCells) /\ k \in Nat /\ Text(b) \in Seq(Bit) /\ Len(Text(b)) = b.bit_len
      /\ b.bit_len \in Nat /\ b.bit_len < Full /\ b \in Builder
  BY <1>1, TextFacts, LenProperties DEF WellFormed, Builder
<1>4. Len(Text(b)) + Len(<<>>) <= MAX_BIT_LEN /\ Text(b) \o <<>> = Text(b)
  BY <1>3, SizeFacts
<1>5. Len(b.refs) + Len(<<c>>) <= MAX_REF_COUNT <=> k < MAX_REF_COUNT
  BY <1>1, <1>3, SizeFacts
<1>6. CASE k < MAX_REF_COUNT
  <2>1. r = Done([b EXCEPT !.refs = Append(b.refs, c)])
    BY <1>1, <1>6 DEF store_reference
  <2>2. r.ok = TRUE /\ r.b = [b EXCEPT !.refs = Append(b.refs, c)]
    BY <2>1 DEF Done
  <2>3. r.b.refs = Append(b.refs, c) /\ r.b.data = b.data /\ r.b.bit_len = b.bit_len
    BY <1>3, <2>2 DEF Builder
  <2>4. Append(b.refs, c) = b.refs \o <<c>> /\ Len(Append(b.refs, c)) = k + 1
    BY <1>1, <1>3
  <2>5. Text(r.b) = Text(b) \o <<>>
    BY <1>4, <2>3 DEF Text
  <2>6. r.b.refs = b.refs \o <<c>> /\ Len(r.b.refs) <= MAX_REF_COUNT
    BY <1>3, <1>6, <2>3, <2>4, SizeFacts
  <2> QED BY <1>1, <1>2, <1>4, <1>5, <1>6, <2>2, <2>5, <2>6, Zenon DEF Abstract!Store, Asked
<1>7. CASE ~(k < MAX_REF_COUNT)
  <2>1. r = Refused(b)
    BY <1>1, <1>7 DEF store_reference
  <2>2. r.ok = FALSE /\ r.b = b
    BY <2>1 DEF Refused
  <2> QED BY <1>1, <1>2, <1>4, <1>5, <1>7, <2>2, Zenon DEF Abstract!Store, Asked
<1> QED BY <1>6, <1>7

LEMMA ReplaceStep ==
  ASSUME WellFormed(builder), NEW c \in RefCells, SetReferences(<<c>>)
  PROVE  Abstract!Replace(<<c>>) /\ Len(builder'.refs) <= MAX_REF_COUNT
<1>1. PICK b : b = builder /\ b \in Builder
  BY DEF WellFormed
<1>2. /\ builder' = [b EXCEPT !.refs = <<c>>] /\ got' = TRUE /\ slice' = slice
      /\ call' = [op |-> "set_references", refs |-> <<c>>]
  BY <1>1 DEF Write, SetReferences, Done, set_references
<1>3. builder'.refs = <<c>> /\ builder'.data = b.data /\ builder'.bit_len = b.bit_len
  BY <1>1, <1>2 DEF Builder
<1>4. Text(builder') = Text(b)
  BY <1>3 DEF Text
<1>5. Len(<<c>>) <= MAX_REF_COUNT
  BY BuilderAssumption
<1> QED BY <1>1, <1>2, <1>3, <1>4, <1>5 DEF Abstract!Replace

\* A window of the builder's own cell can always be read.
LEMMA WindowIsRead ==
  ASSUME NEW cell, NEW d, NEW n \in Nat, Holds(cell, d, n), cell.refs \in Seq(RefCells), NEW s \in SlicesOf(cell)
  PROVE  get_raw(s, 0, size_bits(s)) # Underflow
<1>1. /\ s.cell = cell /\ size_bits(s) \in Nat
      /\ \E from \in Nat, end \in Nat : IsWindow(s, cell, n, from, end)
  BY WindowFacts
<1>2. PICK from \in Nat, end \in Nat : IsWindow(s, cell, n, from, end)
  BY <1>1
<1>3. PICK v, bits : v = cell.data /\ bits = size_bits(s)
  OBVIOUS
<1>4. v \in Seq(Bit) /\ Aligned(v) /\ v = s.cell.data
  BY <1>1, <1>3 DEF Holds
<1>5. from = s.range.bits_start /\ end = s.range.bits_end /\ from <= end /\ end <= Len(v) /\ bits = end - from
  BY <1>2, <1>3 DEF IsWindow
<1>6. bits \in Nat /\ from + bits <= end
  BY <1>5, SMTT(30)
<1>7. IsRaw(get_raw(s, 0, bits), v, from, bits)
  BY <1>4, <1>5, <1>6, RawRead
<1> QED BY <1>3, <1>7, NoUnderflow DEF IsRaw

LEMMA SliceStep ==
  ASSUME WellFormed(builder), StoreSliceData \/ StoreSlice, Len(builder.refs) <= MAX_REF_COUNT
  PROVE  \E x, cells : Abstract!Store(x, cells) /\ Len(builder'.refs) <= MAX_REF_COUNT
<1>1. PICK b, n : b = builder /\ n = b.bit_len
  OBVIOUS
<1>2. WellFormed(b) /\ n \in Nat /\ b.refs \in Seq(RefCells)
  BY <1>1 DEF WellFormed, Builder
<1>3. /\ Holds(build(b), b.data, n) /\ build(b).refs \in Seq(RefCells)
      /\ Holds(as_full_cell(b), b.data, n) /\ as_full_cell(b).refs \in Seq(RefCells)
      /\ Holds(as_data_cell(b), b.data, n) /\ as_data_cell(b).refs \in Seq(RefCells)
  BY <1>1, <1>2, BuiltHolds, SeenAsCell
<1>4. CASE StoreSliceData
  <2>1. PICK s \in SlicesOf(build(b)) : Write(store_slice_data(b, s), Asked(Unread(s), <<>>))
    BY <1>1, <1>4 DEF StoreSliceData
  <2>2. Stored(b, store_slice_data(b, s), Unread(s))
    BY <1>2, <1>3, SliceDataStored, WindowIsRead
  <2>3. Unread(s) \in Seq(Bit)
    BY <1>2, <1>3, WindowFacts
  <2>4. Abstract!Store(Unread(s), <<>>) /\ Len(builder'.refs) <= MAX_REF_COUNT
    BY <1>1, <2>1, <2>2, <2>3, StoreStep
  <2> QED BY <2>4
<1>5. CASE StoreSlice
  <2>1. PICK c \in {build(b), as_full_cell(b), as_data_cell(b)} :
          \E s \in SlicesOf(c) : Write(store_slice(b, s), Asked(Unread(s), references(s)))
    BY <1>1, <1>5 DEF StoreSlice
  <2>2. PICK s \in SlicesOf(c) : Write(store_slice(b, s), Asked(Unread(s), references(s)))
    BY <2>1
  <2>3. Holds(c, b.data, n) /\ c.refs \in Seq(RefCells)
    BY <1>3, <2>1
  <2>4. StoredWith(b, store_slice(b, s), Unread(s), references(s))
    BY <1>2, <2>2, <2>3, SliceStored, WindowIsRead
  <2>5. Unread(s) \in Seq(Bit) /\ references(s) \in Seq(RefCells)
    BY <1>2, <2>2, <2>3, WindowFacts
  <2>6. Abstract!Store(Unread(s), references(s)) /\ Len(builder'.refs) <= MAX_REF_COUNT
    BY <1>1, <2>2, <2>4, <2>5, StoreWithStep
  <2> QED BY <2>6
<1> QED BY <1>4, <1>5

\* A new builder holds nothing.
LEMMA NewText == Text(new) = <<>> /\ new.refs = <<>> /\ WellFormed(new)
<1>1. WellFormed(new)
  BY EmptySeq, NewIsFormed
<1>2. Text(new) \in Seq(Bit) /\ Len(Text(new)) = new.bit_len
  BY <1>1, TextFacts
<1>3. new.bit_len = 0 /\ new.refs = <<>>
  BY DEF new
<1> QED BY <1>1, <1>2, <1>3

\* All of a cell can be read, and it is what was stored.
LEMMA BuildStep ==
  ASSUME WellFormed(builder), Build
  PROVE  Abstract!Build /\ IsSlice(slice') /\ slice' # NoSlice /\ builder' = new
<1>1. PICK b, cell, s : b = builder /\ cell = build(b) /\ s = new_slice(cell)
  OBVIOUS
<1>2. builder' = new /\ slice' = s /\ slice = NoSlice /\ call' = [op |-> "build"] /\ got' = TRUE
  BY <1>1 DEF Build
<1>3. PICK n, d, t : n = b.bit_len /\ d = cell.data /\ t = cell.refs
  OBVIOUS
<1>4. Holds(cell, b.data, n) /\ t = b.refs
  BY <1>1, <1>3, BuiltHolds
<1>5. n \in Nat /\ n < Full /\ t \in Seq(RefCells) /\ cell = [data |-> d, bit_len |-> n, refs |-> t]
  <2>1. n \in Nat /\ n < Full /\ t \in Seq(RefCells)
    BY <1>1, <1>3, <1>4 DEF WellFormed, Builder
  <2>2. cell.bit_len = n
    BY <1>4 DEF Holds
  <2>3. cell = [data |-> cell.data, bit_len |-> cell.bit_len, refs |-> cell.refs]
    BY <1>1 DEF build
  <2> QED BY <1>3, <2>1, <2>2, <2>3
<1>6. d \in Seq(Bit) /\ Aligned(d) /\ n <= Len(d) /\ \A i \in 1..n : d[i] = b.data[i]
  BY <1>3, <1>4, Zenon DEF Holds
<1>7. PICK k \in Nat : k = Len(t)
  BY <1>5, LenProperties
<1>8. s = [cell |-> [data |-> d, bit_len |-> n, refs |-> t],
           range |-> [bits_start |-> 0, bits_end |-> n, refs_start |-> 0, refs_end |-> k]]
  BY <1>1, <1>5, <1>7 DEF new_slice, FullRange, SliceRange
<1>9. s \in Slices
  BY <1>5, <1>6, <1>7, <1>8 DEF Slices
<1>10. IsSlice(s)
  <2>1. /\ s.cell.data = d /\ s.cell.bit_len = n /\ s.cell.refs = t
        /\ s.range.bits_start = 0 /\ s.range.bits_end = n /\ s.range.refs_start = 0 /\ s.range.refs_end = k
    BY <1>8
  <2>2. 0 <= n /\ n <= n /\ 0 <= k /\ k <= Len(t)
    BY <1>5, <1>7
  <2> QED BY <1>5, <1>6, <1>9, <2>1, <2>2 DEF IsSlice
<1>11. Unread(s) = Text(b)
  <2>1. Unread(s) = SubSeq(d, 1, n)
    <3>1. s.cell.data = d /\ s.range.bits_start = 0 /\ s.range.bits_end = n /\ 0 + 1 = 1
      BY <1>8
    <3>2. Unread(s) = SubSeq(d, 0 + 1, n)
      BY <3>1, Zenon DEF Unread
    <3> QED BY <3>1, <3>2, Zenon
  <2>2. PICK x, y : x = SubSeq(d, 1, n) /\ y = Text(b)
    OBVIOUS
  <2>3. 0 \in Nat /\ 0 <= n /\ 0 + 1 = 1 /\ n - 0 = n /\ \A i \in 1..n : 0 + i = i
    BY <1>5
  <2>4. IsSub(Bit, x, d, 0, n)
    BY <1>5, <1>6, <2>2, <2>3, SubIs
  <2>5. x \in Seq(Bit) /\ Len(x) = n /\ \A i \in 1..n : x[i] = d[i]
    BY <2>3, <2>4 DEF IsSub
  <2>6. y \in Seq(Bit) /\ Len(y) = n /\ \A i \in 1..n : y[i] = b.data[i]
    BY <1>1, <1>3, <2>2, TextFacts
  <2>7. x = y
    BY <1>6, <2>5, <2>6, SeqSame
  <2> QED BY <2>1, <2>2, <2>7
<1>12. references(s) = b.refs
  <2>1. references(s) = SubSeq(t, 1, k)
    BY <1>8 DEF references
  <2>2. SubSeq(t, 1, k) = t
    BY <1>5, <1>7
  <2> QED BY <1>4, <2>1, <2>2
<1>13. s # NoSlice
  BY <1>9, NoUnderflow
<1>14. Abstract!Build
  BY <1>1, <1>2, <1>11, <1>12, <1>13, NewText DEF Abstract!Build
<1> QED BY <1>2, <1>10, <1>13, <1>14

-----------------------------------------------------------------------------
(* Every step *)

\* What a call asks for decides which abstract operation it is.
LEMMA StoreIsNext ==
  ASSUME NEW x, NEW cells, Abstract!Store(x, cells)
  PROVE  Abstract!Next
<1>1. call'.op = "store" /\ call'.bits = x /\ call'.refs = cells
  BY DEF Abstract!Store
<1> QED BY <1>1 DEF Abstract!Next, Abstract!WindowOps

LEMMA StoreVarIsNext ==
  ASSUME NEW len, NEW x, NEW fits_len, Abstract!StoreVar(len, x, fits_len)
  PROVE  Abstract!Next
<1>1. call'.op = "store_var" /\ call'.len = len /\ call'.bits = x /\ call'.fits_len = fits_len
  BY DEF Abstract!StoreVar
<1> QED BY <1>1 DEF Abstract!Next, Abstract!WindowOps

LEMMA OthersAreNext ==
  ASSUME NEW x,
         \/ Abstract!Refuse \/ Abstract!Prepend(x) \/ Abstract!Rewind(x) \/ Abstract!Replace(x) \/ Abstract!Build
         \/ Abstract!LoadVar(x) \/ Abstract!LoadReference
  PROVE  Abstract!Next
<1>1. CASE Abstract!Refuse
  <2>1. call'.op = "refuse"
    BY <1>1 DEF Abstract!Refuse
  <2> QED BY <1>1, <2>1 DEF Abstract!Next, Abstract!WindowOps
<1>2. CASE Abstract!Prepend(x)
  <2>1. call'.op = "prepend" /\ call'.bits = x
    BY <1>2 DEF Abstract!Prepend
  <2> QED BY <1>2, <2>1 DEF Abstract!Next, Abstract!WindowOps
<1>3. CASE Abstract!Rewind(x)
  <2>1. call'.op = "rewind" /\ call'.bits = x
    BY <1>3 DEF Abstract!Rewind
  <2> QED BY <1>3, <2>1 DEF Abstract!Next, Abstract!WindowOps
<1>4. CASE Abstract!Replace(x)
  <2>1. call'.op = "set_references" /\ call'.refs = x
    BY <1>4 DEF Abstract!Replace
  <2> QED BY <1>4, <2>1 DEF Abstract!Next, Abstract!WindowOps
<1>5. CASE Abstract!Build
  <2>1. call'.op = "build"
    BY <1>5 DEF Abstract!Build
  <2> QED BY <1>5, <2>1 DEF Abstract!Next, Abstract!WindowOps
<1>6. CASE Abstract!LoadVar(x)
  <2>1. call'.op = "load_var" /\ call'.bits = x
    BY <1>6 DEF Abstract!LoadVar
  <2> QED BY <1>6, <2>1 DEF Abstract!Next, Abstract!WindowOps
<1>7. CASE Abstract!LoadReference
  <2>1. call'.op = "load_reference"
    BY <1>7 DEF Abstract!LoadReference
  <2> QED BY <1>7, <2>1 DEF Abstract!Next, Abstract!WindowOps
<1> QED BY <1>1, <1>2, <1>3, <1>4, <1>5, <1>6, <1>7

LEMMA LoadIsNext ==
  ASSUME NEW n, NEW max, Abstract!Load(n, max)
  PROVE  Abstract!Next
<1>1. call'.op = "load" /\ call'.bits = n /\ call'.max = max
  BY DEF Abstract!Load
<1> QED BY <1>1 DEF Abstract!Next, Abstract!WindowOps

LEMMA WindowIsNext ==
  ASSUME NEW op \in {"skip_first", "only_first", "skip_last", "only_last", "split_prefix", "split_suffix"},
         NEW n, NEW m, Abstract!Window(op, n, m)
  PROVE  Abstract!Next
<1>1. call'.op = op /\ call'.bits = n /\ call'.refs = m
  BY DEF Abstract!Window
<1>2. op \in Abstract!WindowOps
  BY DEF Abstract!WindowOps
<1>3. op \notin {"store", "store_var", "refuse", "prepend", "rewind", "set_references", "build"}
  OBVIOUS
<1> QED BY <1>1, <1>2, <1>3 DEF Abstract!Next, Abstract!WindowOps

\* A call of the builder is an abstract step, and it keeps the room of the
\* references.
Simulated == Abstract!Next /\ Len(builder'.refs) <= MAX_REF_COUNT

LEMMA BitsSimulated ==
  ASSUME WellFormed(builder), Len(builder.refs) <= MAX_REF_COUNT, NEW x \in Seq(Bit), NEW r,
         Write(r, Asked(x, <<>>)), Stored(builder, r, x)
  PROVE  Simulated
<1>1. Abstract!Store(x, <<>>) /\ Len(builder'.refs) <= MAX_REF_COUNT
  BY StoreStep
<1> QED BY <1>1, StoreIsNext DEF Simulated

\* Numbers of any length.
LEMMA NumbersSimulated ==
  ASSUME WellFormed(builder), Len(builder.refs) <= MAX_REF_COUNT,
         NEW x \in Numbers, NEW n \in Lens, NEW signed \in BOOLEAN, signed \/ x >= 0,
         StoreBigint(x, n, signed) \/ (n \in 1..2 /\ StoreVarBigint(x, n, signed))
  PROVE  Simulated
<1>1. x \in Int /\ n \in Nat
  BY AskedFacts
<1>2. PICK b : b = builder
  OBVIOUS
<1>3. CASE StoreBigint(x, n, signed)
  <2>1. PICK r : r = store_bigint(b, x, n, signed)
    OBVIOUS
  <2>2. Write(r, IF Representable(x, n, signed) THEN Asked(ToBits(x, n), <<>>) ELSE [op |-> "refuse"])
    BY <1>2, <1>3, <2>1 DEF StoreBigint
  <2>3. IF Representable(x, n, signed) THEN Stored(b, r, ToBits(x, n)) ELSE r = Refused(b)
    BY <1>1, <1>2, <2>1, NumberStored
  <2>4. CASE Representable(x, n, signed)
    <3>1. Write(r, Asked(ToBits(x, n), <<>>)) /\ Stored(b, r, ToBits(x, n))
      BY <2>2, <2>3, <2>4, Zenon
    <3>2. ToBits(x, n) \in Seq(Bit)
      BY <1>1, ToBitsFacts
    <3> QED BY <1>2, <3>1, <3>2, BitsSimulated
  <2>5. CASE ~Representable(x, n, signed)
    <3>1. Write(r, [op |-> "refuse"]) /\ r = Refused(b)
      BY <2>2, <2>3, <2>5, Zenon
    <3>2. Abstract!Refuse /\ builder' = builder
      BY <1>2, <3>1, RefuseStep
    <3> QED BY <3>2, OthersAreNext DEF Simulated
  <2> QED BY <2>4, <2>5
<1>4. CASE n \in 1..2 /\ StoreVarBigint(x, n, signed)
  <2>1. PICK r, m : r = store_var_bigint(b, x, n, signed) /\ m = DivCeil(bitsize(x, signed), BYTE)
    OBVIOUS
  <2>2. m = CHOOSE k \in 0..Magnitude(x) + 1 :
              /\ Representable(x, k * BYTE, signed)
              /\ \A j \in 0..k - 1 : ~Representable(x, j * BYTE, signed)
    BY <1>1, <2>1, FewestBytes
  <2>3. PICK len, y, fits_len : len = ToBits(m, n) /\ y = ToBits(x, m * BYTE) /\ fits_len = (m < 2^n)
    OBVIOUS
  <2>4. Write(r, [op |-> "store_var", len |-> len, bits |-> y, fits_len |-> fits_len])
    BY <1>2, <1>4, <2>1, <2>2, <2>3, Zenon DEF StoreVarBigint
  <2>5. n <= BYTE
    BY <1>4, SizeFacts, InputAssumption
  <2>6. m \in Nat /\ StoredVar(b, r, len, y, fits_len)
    BY <1>1, <1>2, <2>1, <2>3, <2>5, VarNumberStored
  <2>7. len \in Seq(Bit) /\ y \in Seq(Bit) /\ fits_len \in BOOLEAN
    <3>1. m \in Int /\ m * BYTE \in Nat
      BY <2>6, SizeFacts
    <3>2. ToBits(m, n) \in Seq(Bit) /\ ToBits(x, m * BYTE) \in Seq(Bit)
      BY <1>1, <3>1, ToBitsFacts
    <3>3. PICK p \in Nat : p = 2^n
      BY <1>1, PowerFacts
    <3> QED BY <2>3, <2>6, <3>2, <3>3
  <2>8. Abstract!StoreVar(len, y, fits_len) /\ builder'.refs = builder.refs
    BY <1>2, <2>4, <2>6, <2>7, StoreVarStep
  <2> QED BY <2>8, StoreVarIsNext DEF Simulated
<1> QED BY <1>3, <1>4

\* Words and bytes.
LEMMA WordsSimulated ==
  ASSUME WellFormed(builder), Len(builder.refs) <= MAX_REF_COUNT,
         \/ \E v \in Values : StoreFixed(v) \/ StoreU256(v)
         \/ \E v \in Values, n \in Lens : StoreUint(v, n) \/ StoreSmallUint(v, n)
         \/ \E v \in Raw, n \in Lens : StoreRaw(v, n) \/ PrependRaw(v, n)
  PROVE  Simulated
<1>1. PICK b : b = builder
  OBVIOUS
<1>2. WellFormed(b)
  BY <1>1
<1>3. ASSUME NEW v \in Values, StoreFixed(v) \/ StoreU256(v) PROVE Simulated
  <2>1. PICK h \in Nat : v \in Seq(Bit) /\ Aligned(v) /\ Len(v) > 0 /\ Len(v) = h + h /\ h >= BYTE
    BY AskedFacts
  <2>2. store_u256(b, v) = store_fixed(b, v)
    BY <1>2, <2>1, U256IsFixed
  <2>3. Write(store_fixed(b, v), Asked(v, <<>>))
    BY <1>1, <1>3, <2>2 DEF StoreFixed, StoreU256
  <2>4. Stored(b, store_fixed(b, v), v)
    BY <1>2, <2>1, FixedStored
  <2> QED BY <1>1, <2>1, <2>3, <2>4, BitsSimulated
<1>4. ASSUME NEW v \in Seq(Bit), Aligned(v), Len(v) > 0, NEW n \in Nat, StoreUint(v, n) PROVE Simulated
  <2>1. Stored(b, store_word(b, v, n), NumberBits(v, n)) /\ NumberBits(v, n) \in Seq(Bit)
    BY <1>2, <1>4, WordStored
  <2>2. Write(store_word(b, v, n), Asked(NumberBits(v, n), <<>>))
    BY <1>1, <1>4 DEF StoreUint
  <2> QED BY <1>1, <2>1, <2>2, BitsSimulated
<1>5. ASSUME NEW v \in Values, NEW n \in Lens, StoreUint(v, n) \/ StoreSmallUint(v, n) PROVE Simulated
  <2>1. v \in Seq(Bit) /\ Aligned(v) /\ Len(v) = WORD_BITS /\ Len(v) > 0 /\ n \in Nat
    BY AskedFacts
  <2>2. PICK u : u = Low(v, BYTE) /\ u \in Seq(Bit) /\ Aligned(u) /\ Len(u) > 0
    <3>1. BYTE \in Nat /\ BYTE > 0 /\ BYTE <= Len(v) /\ BYTE = 1 * BYTE
      BY <2>1, SizeFacts
    <3>2. Low(v, BYTE) \in Seq(Bit) /\ Len(Low(v, BYTE)) = BYTE
      BY <2>1, <3>1, LowFacts
    <3>3. Aligned(Low(v, BYTE))
      BY <3>1, <3>2 DEF Aligned
    <3> QED BY <3>1, <3>2, <3>3
  <2>3. CASE StoreUint(v, n)
    BY <1>4, <2>1, <2>3
  <2>4. CASE StoreSmallUint(v, n)
    <3>1. StoreUint(u, n)
      BY <2>2, <2>4 DEF StoreSmallUint
    <3> QED BY <1>4, <2>1, <2>2, <3>1
  <2> QED BY <1>5, <2>3, <2>4
<1>6. ASSUME NEW v \in Raw, NEW n \in Lens, StoreRaw(v, n) \/ PrependRaw(v, n) PROVE Simulated
  <2>1. v \in Seq(Bit) /\ Aligned(v) /\ n \in Nat
    BY AskedFacts
  <2>2. CASE StoreRaw(v, n)
    <3>1. Stored(b, store_raw(b, v, n), RawBits(v, n)) /\ RawBits(v, n) \in Seq(Bit)
      BY <1>2, <2>1, RawStored
    <3>2. Write(store_raw(b, v, n), Asked(RawBits(v, n), <<>>))
      BY <1>1, <2>2 DEF StoreRaw
    <3> QED BY <1>1, <3>1, <3>2, BitsSimulated
  <2>3. CASE PrependRaw(v, n)
    <3>1. Abstract!Prepend(RawBits(v, n)) /\ builder'.refs = builder.refs
      BY <2>1, <2>3, PrependStep
    <3> QED BY <3>1, OthersAreNext DEF Simulated
  <2> QED BY <1>6, <2>2, <2>3
<1> QED BY <1>3, <1>5, <1>6

\* Bits, references and copies of the builder.
LEMMA WritesSimulated ==
  ASSUME WellFormed(builder), Len(builder.refs) <= MAX_REF_COUNT, Writes
  PROVE  Simulated
<1>1. PICK b : b = builder
  OBVIOUS
<1>2. WellFormed(b)
  BY <1>1
<1>3. ASSUME NEW bit \in Bit, StoreBit(bit) PROVE Simulated
  <2>1. <<0>> \in Seq(Bit) /\ <<1>> \in Seq(Bit) /\ (bit = 0 \/ bit = 1)
    BY BitFacts DEF Bit
  <2>2. PICK r : r = IF bit = 1 THEN store_bit_one(b) ELSE store_bit_zero(b)
    OBVIOUS
  <2>3. Write(r, Asked(<<bit>>, <<>>))
    BY <1>1, <1>3, <2>2 DEF StoreBit
  <2>4. Stored(b, r, <<bit>>) /\ <<bit>> \in Seq(Bit)
    BY <1>2, <2>1, <2>2, BitZeroStored, BitOneStored
  <2> QED BY <1>1, <2>3, <2>4, BitsSimulated
<1>4. ASSUME NEW n \in Lens, StoreZeros(n) \/ StoreOnes(n) \/ RewindBits(n) PROVE Simulated
  <2>1. n \in Nat
    BY AskedFacts
  <2>2. CASE StoreZeros(n)
    <3>1. Stored(b, store_zeros(b, n), Zeros(n)) /\ Zeros(n) \in Seq(Bit)
      BY <1>2, <2>1, ZerosStored, ZerosFacts
    <3>2. Write(store_zeros(b, n), Asked(Zeros(n), <<>>))
      BY <1>1, <2>2 DEF StoreZeros
    <3> QED BY <1>1, <3>1, <3>2, BitsSimulated
  <2>3. CASE StoreOnes(n)
    <3>1. Stored(b, store_ones(b, n), Ones(n)) /\ Ones(n) \in Seq(Bit)
      BY <1>2, <2>1, OnesStored, ZerosFacts
    <3>2. Write(store_ones(b, n), Asked(Ones(n), <<>>))
      BY <1>1, <2>3 DEF StoreOnes
    <3> QED BY <1>1, <3>1, <3>2, BitsSimulated
  <2>4. CASE RewindBits(n)
    <3>1. Abstract!Rewind(n) /\ builder'.refs = builder.refs
      BY <2>1, <2>4, RewindStep
    <3> QED BY <3>1, OthersAreNext DEF Simulated
  <2> QED BY <1>4, <2>2, <2>3, <2>4
<1>5. ASSUME NEW c \in RefCells, StoreReference(c) \/ SetReferences(<<c>>) PROVE Simulated
  <2>1. CASE StoreReference(c)
    <3>1. Abstract!Store(<<>>, <<c>>) /\ Len(builder'.refs) <= MAX_REF_COUNT
      BY <2>1, ReferenceStep
    <3> QED BY <3>1, StoreIsNext DEF Simulated
  <2>2. CASE SetReferences(<<c>>)
    <3>1. Abstract!Replace(<<c>>) /\ Len(builder'.refs) <= MAX_REF_COUNT
      BY <2>2, ReplaceStep
    <3> QED BY <3>1, OthersAreNext DEF Simulated
  <2> QED BY <1>5, <2>1, <2>2
<1>6. ASSUME StoreBuilder PROVE Simulated
  <2>1. StoredWith(b, store_builder(b, b), Text(b), b.refs) /\ Text(b) \in Seq(Bit) /\ b.refs \in Seq(RefCells)
    BY <1>2, BuilderStored, TextFacts DEF WellFormed, Builder
  <2>2. Write(store_builder(b, b), Asked(Text(b), b.refs))
    BY <1>1, <1>6 DEF StoreBuilder
  <2>3. Abstract!Store(Text(b), b.refs) /\ Len(builder'.refs) <= MAX_REF_COUNT
    BY <1>1, <2>1, <2>2, StoreWithStep
  <2> QED BY <2>3, StoreIsNext DEF Simulated
<1>7. ASSUME StoreCellData PROVE Simulated
  <2>1. PICK cell, n : cell = build(b) /\ n = b.bit_len
    OBVIOUS
  <2>2. Holds(cell, b.data, n) /\ n \in Nat
    BY <1>2, <2>1, BuiltHolds DEF WellFormed, Builder
  <2>3. /\ cell.data \in Seq(Bit) /\ Aligned(cell.data) /\ cell.bit_len = n /\ n <= Len(cell.data)
        /\ \A i \in 1..n : cell.data[i] = b.data[i]
    BY <2>2, Zenon DEF Holds
  <2>4. PICK x, y, d : x = RawBits(d, n) /\ y = Text(b) /\ d = cell.data
    OBVIOUS
  <2>5. x = SubSeq(d, 1, n)
    BY <2>3, <2>4 DEF RawBits
  <2>6. x \in Seq(Bit) /\ Len(x) = n /\ \A i \in 1..n : x[i] = d[i]
    <3>1. 0 \in Nat /\ 0 <= n /\ 0 + 1 = 1 /\ n - 0 = n /\ \A i \in 1..n : 0 + i = i
      BY <2>2
    <3>2. IsSub(Bit, x, d, 0, n)
      BY <2>2, <2>3, <2>4, <2>5, <3>1, SubIs
    <3> QED BY <3>1, <3>2 DEF IsSub
  <2>7. y \in Seq(Bit) /\ Len(y) = n /\ \A i \in 1..n : y[i] = b.data[i]
    BY <1>2, <2>1, <2>4, TextFacts
  <2>8. x = y
    BY <2>2, <2>3, <2>4, <2>6, <2>7, SeqSame
  <2>9. Stored(b, store_raw(b, d, n), x)
    BY <1>2, <2>2, <2>3, <2>4, RawStored
  <2>10. Write(store_raw(b, d, n), Asked(x, <<>>))
    BY <1>1, <1>7, <2>1, <2>3, <2>4, <2>8 DEF StoreCellData
  <2> QED BY <1>1, <2>6, <2>9, <2>10, BitsSimulated
<1>8. ASSUME StoreSlice \/ StoreSliceData PROVE Simulated
  <2>1. PICK x, cells : Abstract!Store(x, cells) /\ Len(builder'.refs) <= MAX_REF_COUNT
    BY <1>8, SliceStep
  <2> QED BY <2>1, StoreIsNext DEF Simulated
<1>9. ASSUME ClearBits PROVE Simulated
  <2>1. Abstract!Rewind(builder.bit_len) /\ builder'.refs = builder.refs
    BY <1>9, ClearStep
  <2> QED BY <2>1, OthersAreNext DEF Simulated
<1> QED BY <1>3, <1>4, <1>5, <1>6, <1>7, <1>8, <1>9, WordsSimulated, NumbersSimulated DEF Writes

\* The slice stays away until the cell is built.
LEMMA WritesKeepSlice ==
  ASSUME Writes
  PROVE  slice' = slice
<1>1. ASSUME NEW r, NEW c, Write(r, c) PROVE slice' = slice
  BY <1>1 DEF Write
<1>2. \A bit \in Bit : StoreBit(bit) => slice' = slice
  BY <1>1 DEF StoreBit
<1>3. \A n \in Lens : StoreZeros(n) \/ StoreOnes(n) \/ RewindBits(n) => slice' = slice
  BY <1>1 DEF StoreZeros, StoreOnes, RewindBits
<1>4. \A v \in Values : StoreFixed(v) \/ StoreU256(v) => slice' = slice
  BY <1>1 DEF StoreFixed, StoreU256
<1>5. \A v \in Values, n \in Lens : StoreUint(v, n) \/ StoreSmallUint(v, n) => slice' = slice
  BY <1>1 DEF StoreUint, StoreSmallUint
<1>6. \A v \in Raw, n \in Lens : StoreRaw(v, n) \/ PrependRaw(v, n) => slice' = slice
  BY <1>1 DEF StoreRaw, PrependRaw
<1>7. \A x \in Numbers, n \in Lens, signed \in BOOLEAN :
        StoreBigint(x, n, signed) \/ StoreVarBigint(x, n, signed) => slice' = slice
  BY <1>1 DEF StoreBigint, StoreVarBigint
<1>8. \A c \in RefCells : StoreReference(c) \/ SetReferences(<<c>>) => slice' = slice
  BY <1>1 DEF StoreReference, SetReferences
<1>9. StoreBuilder \/ StoreCellData \/ StoreSlice \/ StoreSliceData \/ ClearBits => slice' = slice
  BY <1>1 DEF StoreBuilder, StoreCellData, StoreSlice, StoreSliceData, ClearBits
<1> QED BY <1>2, <1>3, <1>4, <1>5, <1>6, <1>7, <1>8, <1>9 DEF Writes

LEMMA ReadsSimulated ==
  ASSUME IsSlice(slice), slice # NoSlice, Reads
  PROVE  Abstract!Next /\ IsSlice(slice')
<1>1. ASSUME NEW n, NEW max, Abstract!Load(n, max) PROVE Abstract!Next
  BY <1>1, LoadIsNext
<1>2. ASSUME NEW op \in {"skip_first", "only_first", "skip_last", "only_last", "split_prefix", "split_suffix"},
             NEW n \in Lens, NEW m \in 0..MAX_REF_COUNT + 1, Window(op, n, m)
      PROVE  Abstract!Next /\ IsSlice(slice')
  <2>1. n \in Nat /\ m \in Nat
    BY AskedFacts, BuilderAssumption
  <2>2. Abstract!Window(op, n, m) /\ IsSlice(slice')
    BY <1>2, <2>1, WindowSimulated
  <2> QED BY <2>2, WindowIsNext
<1>3. ASSUME LoadRemaining \/ WithoutReferences PROVE Abstract!Next /\ IsSlice(slice')
  <2>1. CASE LoadRemaining
    <3>1. Abstract!Window("split_prefix", size_bits(slice), size_refs(slice)) /\ IsSlice(slice')
      BY <2>1, RemainingLoaded
    <3> QED BY <3>1, WindowIsNext
  <2>2. CASE WithoutReferences
    <3>1. Abstract!Window("skip_first", 0, size_refs(slice)) /\ IsSlice(slice')
      BY <2>2, ReferencesSkipped
    <3> QED BY <3>1, WindowIsNext
  <2> QED BY <1>3, <2>1, <2>2
<1>4. ASSUME LoadBit PROVE Abstract!Next /\ IsSlice(slice')
  BY <1>1, <1>4, BitLoaded
<1>5. ASSUME LoadReference PROVE Abstract!Next /\ IsSlice(slice')
  BY <1>5, ReferenceLoaded, OthersAreNext
<1>6. ASSUME LoadU256(1) PROVE Abstract!Next /\ IsSlice(slice')
  <2>1. 1 \in Nat /\ 1 > 0
    OBVIOUS
  <2>2. Abstract!Load(2 * 1 * BYTE, 2 * 1 * BYTE) /\ IsSlice(slice')
    BY <1>6, <2>1, BytesLoaded
  <2> QED BY <1>1, <2>2
<1>7. ASSUME NEW n \in 1..WORD, LoadFixed(n) \/ LoadU128(n) PROVE Abstract!Next /\ IsSlice(slice')
  <2>1. n \in Nat /\ n > 0
    BY BuilderAssumption
  <2>2. Abstract!Load(n * BYTE, n * BYTE) /\ IsSlice(slice')
    BY <1>7, <2>1, BytesLoaded
  <2> QED BY <1>1, <2>2
<1>8. ASSUME NEW n \in Lens, LoadSmallUint(n) \/ LoadUint(n) \/ LoadRaw(n) PROVE Abstract!Next /\ IsSlice(slice')
  <2>1. n \in Nat
    BY AskedFacts
  <2>2. CASE LoadSmallUint(n)
    <3>1. Abstract!Load(n, BYTE) /\ IsSlice(slice')
      BY <2>1, <2>2, LowLoaded
    <3> QED BY <1>1, <3>1
  <2>3. CASE LoadUint(n)
    <3>1. Abstract!Load(n, WORD_BITS) /\ IsSlice(slice')
      BY <2>1, <2>3, LowLoaded
    <3> QED BY <1>1, <3>1
  <2>4. CASE LoadRaw(n)
    <3>1. Abstract!Load(n, MAX_BIT_LEN) /\ IsSlice(slice')
      BY <2>1, <2>4, RawBitsLoaded
    <3> QED BY <1>1, <3>1
  <2> QED BY <1>8, <2>2, <2>3, <2>4
<1>9. ASSUME NEW n \in Lens, NEW signed \in BOOLEAN, LoadBigint(n, signed) PROVE Abstract!Next /\ IsSlice(slice')
  <2>1. n \in Nat
    BY AskedFacts
  <2>2. Abstract!Load(n, MAX_BIT_LEN) /\ IsSlice(slice')
    BY <1>9, <2>1, NumberLoaded
  <2> QED BY <1>1, <2>2
<1>10. ASSUME NEW n \in 1..2, LoadVarBigint(n) PROVE Abstract!Next /\ IsSlice(slice')
  <2>1. Abstract!LoadVar(n) /\ IsSlice(slice')
    BY <1>10, VarNumberLoaded
  <2> QED BY <2>1, OthersAreNext
<1> QED BY <1>2, <1>3, <1>4, <1>5, <1>6, <1>7, <1>8, <1>9, <1>10 DEF Reads

-----------------------------------------------------------------------------
(* The invariant and the refinement *)

\* What every state keeps: the slice lies within its cell, and the builder has no
\* more references than a cell.
SliceInv == slice # NoSlice => IsSlice(slice)
RefsInv == Len(builder.refs) <= MAX_REF_COUNT
CellsInv == BuilderInv /\ SliceInv /\ RefsInv

LEMMA NextSimulated ==
  ASSUME CellsInv, Next
  PROVE  Abstract!Next /\ CellsInv'
<1>1. WellFormed(builder) /\ Len(builder.refs) <= MAX_REF_COUNT /\ (slice # NoSlice => IsSlice(slice))
  BY DEF CellsInv, BuilderInv, SliceInv, RefsInv
<1>2. ASSUME WellFormed(builder'), Len(builder'.refs) <= MAX_REF_COUNT, slice' # NoSlice => IsSlice(slice')
      PROVE  CellsInv'
  BY <1>2 DEF CellsInv, BuilderInv, SliceInv, RefsInv
<1>3. CASE Writes
  <2>1. WellFormed(builder')
    BY <1>1, <1>3, WritesKeepForm
  <2>2. Abstract!Next /\ Len(builder'.refs) <= MAX_REF_COUNT
    BY <1>1, <1>3, WritesSimulated DEF Simulated
  <2>3. slice' = slice
    BY <1>3, WritesKeepSlice
  <2>4. slice' # NoSlice => IsSlice(slice')
    BY <1>1, <2>3
  <2> QED BY <1>2, <2>1, <2>2, <2>4
<1>4. CASE Build
  <2>1. Abstract!Build /\ IsSlice(slice') /\ builder' = new
    BY <1>1, <1>4, BuildStep
  <2>2. WellFormed(builder') /\ Len(builder'.refs) <= MAX_REF_COUNT
    <3>1. builder'.refs = <<>> /\ Len(<<>>) = 0 /\ 0 <= MAX_REF_COUNT
      BY <2>1, NewText, BuilderAssumption
    <3> QED BY <2>1, <3>1, NewText
  <2> QED BY <1>2, <2>1, <2>2, OthersAreNext
<1>5. CASE slice # NoSlice /\ Reads
  <2>1. Abstract!Next /\ IsSlice(slice')
    BY <1>1, <1>5, ReadsSimulated
  <2>2. builder' = builder
    BY <1>5, ReadsKeepBuilder
  <2>3. WellFormed(builder') /\ Len(builder'.refs) <= MAX_REF_COUNT
    BY <1>1, <2>2
  <2> QED BY <1>2, <2>1, <2>3
<1> QED BY <1>3, <1>4, <1>5 DEF Next

LEMMA InitSimulated ==
  ASSUME Init
  PROVE  Abstract!Init /\ CellsInv
<1>1. builder = new /\ slice = NoSlice /\ call = [op |-> "new"] /\ got = TRUE
  BY DEF Init
<1>2. Abstract!Init
  BY <1>1, NewText DEF Abstract!Init
<1>3. Len(builder.refs) <= MAX_REF_COUNT
  <2>1. builder.refs = <<>> /\ Len(<<>>) = 0 /\ 0 <= MAX_REF_COUNT
    BY <1>1, NewText, BuilderAssumption
  <2> QED BY <2>1
<1> QED BY <1>1, <1>2, <1>3, NewText DEF CellsInv, BuilderInv, SliceInv, RefsInv

\* The window of a slice never leaves the cell it was made of, whatever was
\* loaded, skipped, split off or refused, and no cell has more references than
\* it may (slice.rs: every move of the range is tested against the rest;
\* builder.rs: store_reference and store_slice test the count).
THEOREM CellsInvariance == Spec => []CellsInv
<1>1. Init => CellsInv
  BY InitSimulated
<1>2. CellsInv /\ [Next]_vars => CellsInv'
  <2>1. CASE UNCHANGED vars
    BY <2>1 DEF vars, CellsInv, BuilderInv, SliceInv, RefsInv
  <2>2. ASSUME CellsInv, Next PROVE CellsInv'
    BY <2>2, NextSimulated
  <2> QED BY <2>1, <2>2
<1> QED BY <1>1, <1>2, PTL DEF Spec

\* For every width of a byte and a word and every size of a cell: each store
\* appends exactly the bits and references it was asked to or leaves the builder
\* as it was, build gives a slice of exactly what was stored, and each load and
\* each window call returns and drops exactly the bits and references it names
\* (builder.rs and slice.rs, all of the calls of Next).
THEOREM ImplementsBitsCorrect == Spec => ImplementsBits
<1>1. Init => Abstract!Init
  BY InitSimulated
<1>2. CellsInv /\ [Next]_vars => [Abstract!Next]_(Abstract!vars)
  <2>1. ASSUME UNCHANGED vars PROVE UNCHANGED Abstract!vars
    BY <2>1 DEF vars, Abstract!vars
  <2>2. ASSUME CellsInv, Next PROVE Abstract!Next
    BY <2>2, NextSimulated
  <2> QED BY <2>1, <2>2
<1>3. Spec => []CellsInv
  BY CellsInvariance
<1> QED BY <1>1, <1>2, <1>3, PTL DEF Spec, ImplementsBits, Abstract!Spec

=============================================================================
