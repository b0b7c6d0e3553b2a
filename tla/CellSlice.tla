----------------------------- MODULE CellSlice -----------------------------
(***************************************************************************)
(* CellSlice: a finished cell (or a builder seen as one) and a window of   *)
(* its bits and references.  Readers return Underflow or a value; a load   *)
(* returns the moved window too.                                           *)
(***************************************************************************)
EXTENDS CellBuilder

CONSTANTS Underflow,  \* Error::CellUnderflow
          None

SliceRange(bs, be, rs, re) == [bits_start |-> bs, bits_end |-> be, refs_start |-> rs, refs_end |-> re]
FullRange(cell) == SliceRange(0, cell.bit_len, 0, Len(cell.refs))

\* CellSlice::new, and CellSliceRange::apply for a range of another cell.
new_slice(cell) == [cell |-> cell, range |-> FullRange(cell)]
apply(range, cell) ==
    LET be == Least(range.bits_end, cell.bit_len)
        re == Least(range.refs_end, Len(cell.refs))
    IN [cell |-> cell, range |-> SliceRange(Least(range.bits_start, be), be, Least(range.refs_start, re), re)]

size_bits(s) == LET n == s.range.bits_end - s.range.bits_start IN IF n < 0 THEN 0 ELSE n
size_refs(s) == LET n == s.range.refs_end - s.range.refs_start IN IF n < 0 THEN 0 ELSE n
is_data_empty(s) == s.range.bits_start >= s.range.bits_end
has_remaining(s, bits, refs) ==
    s.range.bits_start + bits <= s.range.bits_end /\ s.range.refs_start + refs <= s.range.refs_end
is_full(s) == s.range = FullRange(s.cell)

\* A window that moved, and what was taken from it.
Moved(s, got) == [s |-> s, got |-> got]
Failed(s) == Moved(s, Underflow)
Move(s, bits, refs, moved) == IF has_remaining(s, bits, refs) THEN Moved(moved, None) ELSE Failed(s)

skip_first(s, bits, refs) ==
    Move(s, bits, refs, [s EXCEPT !.range.bits_start = @ + bits, !.range.refs_start = @ + refs])
only_first(s, bits, refs) ==
    Move(s, bits, refs, [s EXCEPT !.range.bits_end = s.range.bits_start + bits,
                                  !.range.refs_end = s.range.refs_start + refs])
skip_last(s, bits, refs) ==
    Move(s, bits, refs, [s EXCEPT !.range.bits_end = @ - bits, !.range.refs_end = @ - refs])
only_last(s, bits, refs) ==
    Move(s, bits, refs, [s EXCEPT !.range.bits_start = s.range.bits_end - bits,
                                  !.range.refs_start = s.range.refs_end - refs])
\* load_prefix, load_suffix: the window and the part split from it.
split_prefix(s, bits, refs) ==
    LET m == skip_first(s, bits, refs).s IN
    IF ~has_remaining(s, bits, refs) THEN Failed(s)
    ELSE Moved(m, [s EXCEPT !.range.bits_end = m.range.bits_start, !.range.refs_end = m.range.refs_start])
split_suffix(s, bits, refs) ==
    LET m == skip_last(s, bits, refs).s IN
    IF ~has_remaining(s, bits, refs) THEN Failed(s)
    ELSE Moved(m, [s EXCEPT !.range.bits_start = m.range.bits_end, !.range.refs_start = m.range.refs_end])
get_prefix(s, bits, refs) ==
    [s EXCEPT !.range.bits_end = Least(s.range.bits_start + bits, @),
              !.range.refs_end = Least(s.range.refs_start + refs, @)]
load_remaining(s) ==
    Moved([s EXCEPT !.range.bits_start = s.range.bits_end, !.range.refs_start = s.range.refs_end], s)
without_references(s) == [s EXCEPT !.range.refs_start = s.range.refs_end]

DataLen(s) == BytesLen(s.cell.data)
\* The window reaches past the bytes of the cell.
DataMissing(s) == DivCeil(s.range.bits_end, BYTE) > DataLen(s)

get_bit(s, offset) ==
    LET index == s.range.bits_start + offset
    IN IF index < s.range.bits_end /\ index \div BYTE < DataLen(s)
       THEN And(Shr(Byte(s.cell.data, index \div BYTE), BYTE - 1 - (index % BYTE)), Wide(<<1>>, BYTE))[BYTE]
       ELSE Underflow

\* get_u16, get_u32, get_u64: n bytes, read with one more and shifted.
get_fixed(s, offset, n) ==
    LET index == s.range.bits_start + offset
        r == index % BYTE
        q == index \div BYTE
    IN IF index + n * BYTE > s.range.bits_end THEN Underflow
       ELSE IF r = 0 /\ q + n <= DataLen(s) THEN Bytes(s.cell.data, q, n)
       ELSE IF r # 0 /\ q + n + 1 <= DataLen(s)
            THEN Low(Shr(Wide(Bytes(s.cell.data, q, n + 1), 2 * n * BYTE), BYTE - r), n * BYTE)
       ELSE Underflow

\* get_u128: the first byte is put over the others.
get_u128(s, offset, n) ==
    LET index == s.range.bits_start + offset
        r == index % BYTE
        q == index \div BYTE
        rest == Bytes(s.cell.data, q + 1, n)
    IN IF index + n * BYTE > s.range.bits_end THEN Underflow
       ELSE IF r = 0 /\ q + n <= DataLen(s) THEN Bytes(s.cell.data, q, n)
       ELSE IF r # 0 /\ q + n + 1 <= DataLen(s)
            THEN Or(Shl(Wide(Byte(s.cell.data, q), n * BYTE), (n - 1) * BYTE + r), Shr(rest, BYTE - r))
       ELSE Underflow

\* get_u256: two halves of n bytes, shifted one into the other.
get_u256(s, offset, n) ==
    LET index == s.range.bits_start + offset
        r == index % BYTE
        q == index \div BYTE
        ovf == Wide(Byte(s.cell.data, q), n * BYTE)
        hi == Bytes(s.cell.data, q + 1, n)
        lo == Bytes(s.cell.data, q + 1 + n, n)
        shift == BYTE - r
        rev_shift == (n - 1) * BYTE + r
    IN IF index + 2 * n * BYTE > s.range.bits_end THEN Underflow
       ELSE IF r = 0 /\ q + 2 * n <= DataLen(s) THEN Bytes(s.cell.data, q, 2 * n)
       ELSE IF r # 0 /\ q + 2 * n + 1 <= DataLen(s)
            THEN Or(Shr(hi, shift), Shl(ovf, rev_shift)) \o Or(Shr(lo, shift), Shl(hi, rev_shift))
       ELSE Underflow

\* At most one byte: in one byte of the cell, or over two.
get_small_uint(s, offset, bits) ==
    LET index == s.range.bits_start + offset
        r == index % BYTE
        q == index \div BYTE
        byte == Byte(s.cell.data, q)
        two == Bytes(s.cell.data, q, 2)
    IN IF bits = 0 THEN Zeros(BYTE)
       ELSE IF bits > BYTE \/ index + bits > s.range.bits_end \/ q >= DataLen(s) THEN Underflow
       ELSE IF r = 0 THEN Shr(byte, BYTE - bits)
       ELSE IF bits <= BYTE - r THEN And(Shr(byte, BYTE - r - bits), LowMask(BYTE - bits))
       ELSE IF q + 1 >= DataLen(s) THEN Underflow
       ELSE Shr(Low(Shr(two, BYTE - r), BYTE), BYTE - bits)

\* At most a word: the first byte masked, the others copied and shifted.
get_uint(s, offset, bits) ==
    LET index == s.range.bits_start + offset
        r == index % BYTE
        q == index \div BYTE
        first_byte == And(Byte(s.cell.data, q), LowMask(r))
        right_shift == (BYTE - ((bits + r) % BYTE)) % BYTE
        left == bits - (BYTE - r)
        more == Bytes(s.cell.data, q + 1, DivCeil(left, BYTE))
    IN IF bits = 0 THEN Zeros(WORD_BITS)
       ELSE IF bits > WORD_BITS \/ index + bits > s.range.bits_end \/ DataMissing(s) THEN Underflow
       ELSE IF r + bits <= BYTE THEN Wide(Shr(first_byte, right_shift), WORD_BITS)
       ELSE Or(Shr(more \o Zeros(WORD_BITS - Len(more)), WORD_BITS - left),
               Shl(Wide(first_byte, WORD_BITS), left))

\* Byte j of n + 1 that start r bits into byte q, and the bits of n bytes f[0], f[1], ...
ReadByte(d, q, r, n, j) ==
    IF r = 0 THEN Byte(d, q + j)
    ELSE IF j < n THEN Or(Shl(Byte(d, q + j), r), Shr(Byte(d, q + (j + 1)), BYTE - r))
    ELSE Shl(Byte(d, q + j), r)
JoinBytes(f, n) == [i \in 1..n * BYTE |-> f[(i - 1) \div BYTE][((i - 1) % BYTE) + 1]]

\* The bits from the offset on at the start of whole bytes; the guard does not
\* count the offset.
get_raw(s, offset, bits) ==
    LET index == s.range.bits_start + offset
        r == index % BYTE
        q == index \div BYTE
        target_len == DivCeil(bits, BYTE)
        byte_len == DivCeil(bits + r, BYTE) - 1
        copied == [j \in 0..target_len - 1 |-> ReadByte(s.cell.data, q, r, byte_len, j)]
        masked == [copied EXCEPT ![target_len - 1] = And(@, HighMask(bits % BYTE))]
    IN IF bits = 0 THEN <<>>
       ELSE IF s.range.bits_start + bits > s.range.bits_end
               \/ (IF r = 0 THEN q + target_len > DataLen(s) ELSE q + byte_len > DataLen(s)) THEN Underflow
       ELSE JoinBytes(masked, target_len)

\* A load is the read at offset 0 and, when it succeeds, the step over it.
Load(s, v, bits) == IF v = Underflow THEN Failed(s)
                    ELSE Moved([s EXCEPT !.range.bits_start = @ + bits], v)
load_bit(s) == Load(s, get_bit(s, 0), 1)
load_fixed(s, n) == Load(s, get_fixed(s, 0, n), n * BYTE)
load_u128(s, n) == Load(s, get_u128(s, 0, n), n * BYTE)
load_u256(s, n) == Load(s, get_u256(s, 0, n), 2 * n * BYTE)
load_small_uint(s, bits) == Load(s, get_small_uint(s, 0, bits), bits)
load_uint(s, bits) == Load(s, get_uint(s, 0, bits), bits)
load_raw(s, bits) == Load(s, get_raw(s, 0, bits), bits)

\* The number of a word, its sign bit cloned into the bits above, or the number
\* of the raw bytes shifted back.
load_bigint(s, bits, signed) ==
    LET l == load_uint(s, bits)
        sign == l.got[WORD_BITS - bits + 1]
        cloned == [i \in 1..WORD_BITS |-> IF i <= WORD_BITS - bits + 1 /\ sign = 1 THEN 1 ELSE l.got[i]]
        raw == load_raw(s, bits)
        whole == IF signed THEN ToInt(raw.got) ELSE ToNat(raw.got)
        unaligned == (BYTE - (bits % BYTE)) % BYTE
    IN IF bits = 0 THEN Moved(s, 0)
       ELSE IF bits <= WORD_BITS
            THEN IF l.got = Underflow THEN l
                 ELSE Moved(l.s, IF signed THEN ToInt(cloned) ELSE ToNat(l.got))
       ELSE IF raw.got = Underflow THEN raw ELSE Moved(raw.s, whole \div 2^unaligned)
\* The window stays behind the length when the number is missing.
load_var_bigint(s, len_bits, signed) ==
    LET l == load_uint(s, len_bits)
    IN IF l.got = Underflow THEN l ELSE load_bigint(l.s, ToNat(l.got) * BYTE, signed)

get_reference(s, i) ==
    LET at == s.range.refs_start + i
    IN IF at < s.range.refs_end /\ at < Len(s.cell.refs) THEN s.cell.refs[at + 1] ELSE Underflow
load_reference(s) ==
    LET c == get_reference(s, 0)
    IN IF c = Underflow THEN Failed(s) ELSE Moved([s EXCEPT !.range.refs_start = @ + 1], c)
references(s) == SubSeq(s.cell.refs, s.range.refs_start + 1, s.range.refs_end)

\* CellBuilder::store_slice_data and store_slice: both capacities are tested
\* before anything is stored.
store_slice_data(b, s) ==
    LET raw == get_raw(s, 0, size_bits(s))
    IN IF ~has_capacity_bits(b, size_bits(s)) \/ raw = Underflow THEN Refused(b)
       ELSE store_raw(b, raw, size_bits(s))
\* Mutant: the references are counted only when they are stored.
MutStoreSlice(b, s) ==
    LET with_refs(x) == store_references(x, references(s))
    IN Chain(store_slice_data(b, s), with_refs)
store_slice(b, s) ==
    LET with_refs(x) == store_references(x, references(s))
    IN IF has_capacity_bits(b, size_bits(s)) /\ Len(b.refs) + size_refs(s) <= MAX_REF_COUNT
       THEN Chain(store_slice_data(b, s), with_refs)
       ELSE Refused(b)
=============================================================================
