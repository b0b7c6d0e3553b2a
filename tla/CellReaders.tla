---------------------------- MODULE CellReaders ----------------------------
(***************************************************************************)
(* The readers of a slice against strings of bits.                         *)
(***************************************************************************)
EXTENDS Cells, CellCompare

CONSTANT PairBits  \* the most bits of a cell whose windows are compared in pairs

\* Reference definitions on strings of bits.
CommonPrefix(x, y) == CHOOSE n \in 0..Least(Len(x), Len(y)) :
    /\ SubSeq(x, 1, n) = SubSeq(y, 1, n)
    /\ n < Len(x) /\ n < Len(y) => x[n + 1] # y[n + 1]
LexOrder(x, y) == LET n == CommonPrefix(x, y)
                  IN IF n < Len(x) /\ n < Len(y) THEN Cmp(x[n + 1], y[n + 1]) ELSE Cmp(Len(x), Len(y))
RunLength(x, bit) == CHOOSE n \in 0..Len(x) : /\ \A i \in 1..n : x[i] = bit
                                              /\ n < Len(x) => x[n + 1] # bit
Reversed(x) == [i \in 1..Len(x) |-> x[Len(x) + 1 - i]]

\* The part of length n from the offset on, if the window has it.
Slot(s, offset, n) ==
    IF offset + n > size_bits(s) THEN Underflow ELSE SubSeq(Unread(s), offset + 1, offset + n)
Agrees(v, slot, w) == IF slot = Underflow THEN v = Underflow ELSE v = Wide(slot, w)
OffsetReadersAgree(s) ==
    \A offset \in Lens, n \in Lens :
        LET slot == Slot(s, offset, n) IN
        /\ n = 1 => get_bit(s, offset) = IF slot = Underflow THEN Underflow ELSE slot[1]
        /\ n > 0 => Agrees(get_small_uint(s, offset, n), IF n > BYTE THEN Underflow ELSE slot, BYTE)
        /\ n > 0 => Agrees(get_uint(s, offset, n), IF n > WORD_BITS THEN Underflow ELSE slot, WORD_BITS)
        /\ \A k \in 1..WORD : n = k * BYTE => get_fixed(s, offset, k) = slot /\ get_u128(s, offset, k) = slot
        /\ n = 2 * BYTE => get_u256(s, offset, 1) = slot
        \* Only what is in the window is asked of get_raw, as all its callers do.
        /\ slot # Underflow => SubSeq(get_raw(s, offset, n), 1, n) = slot
        /\ offset = 0 /\ slot # Underflow =>
               /\ load_bigint(s, n, TRUE).got = ToInt(slot)
               /\ load_bigint(s, n, FALSE).got = ToNat(slot)
RunsAgree(s) ==
    \A bit \in Bit, base \in 0..WORD - 1 :
        /\ count_leading(s, bit, base) = RunLength(Unread(s), bit)
        /\ count_trailing(s, bit) = RunLength(Reversed(Unread(s)), bit)
        /\ test_uniform(s, base) = IF Unread(s) # <<>> /\ RunLength(Unread(s), Unread(s)[1]) = size_bits(s)
                                   THEN Unread(s)[1] ELSE None
PairsAgree(s, o) ==
    LET x == Unread(s)
        y == Unread(o)
        n == CommonPrefix(x, y)
    IN /\ lex_cmp(s, o) = LexOrder(x, y)
       /\ Unread(longest_common_data_prefix(s, o)) = SubSeq(x, 1, n)
       /\ is_data_prefix_of(s, o) = (n = Len(x))
       /\ is_data_suffix_of(s, o) = (CommonPrefix(Reversed(x), Reversed(y)) = Len(x))
       /\ contents_eq(s, o) = (x = y /\ references(s) = references(o))
       /\ strip_data_prefix(s, o) = IF n = Len(y) THEN [s EXCEPT !.range.bits_start = @ + n] ELSE None

\* The same bits in a builder's array, without the completion tag.
Unpacked(cell) == Whole(cell) \o Zeros(CAPACITY * BYTE - cell.bit_len)

\* Every reader of a window gives what the same part of the string is: numbers
\* at any offset and width, runs of equal bits whatever the alignment of the
\* data in memory, comparisons and common prefixes of two windows of one cell
\* or of a cell and a builder (slice.rs: get_* , bits_memscan, bits_memscan_rev,
\* test_uniform, longest_common_data_prefix_impl, lex_cmp).
ReadersAgree ==
    /\ slice # NoSlice => OffsetReadersAgree(slice) /\ RunsAgree(slice)
    /\ slice # NoSlice /\ slice.cell.bit_len <= PairBits /\ slice.cell.refs = <<>> =>
           \A o \in SlicesOf(slice.cell) \cup SlicesOf([slice.cell EXCEPT !.data = Unpacked(slice.cell)]) :
               PairsAgree(slice, o)
    \* A range kept from another cell still gives a window of this one.
    /\ slice # NoSlice /\ is_full(slice) =>
           \A be \in Lens, re \in 0..MAX_REF_COUNT : \A bs \in 0..be, rs \in 0..re :
               apply(SliceRange(bs, be, rs, re), slice.cell) \in SlicesOf(slice.cell)
=============================================================================
