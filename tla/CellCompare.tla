---------------------------- MODULE CellCompare ----------------------------
(***************************************************************************)
(* The readers of CellSlice that go over bytes and words of their data:    *)
(* comparisons and common prefixes of two windows, runs of equal bits.     *)
(***************************************************************************)
EXTENDS CellSlice

\* An ordering of numbers of one width: -1, 0, 1.
Cmp(x, y) == IF x < y THEN -1 ELSE IF x > y THEN 1 ELSE 0

RECURSIVE cmp_words(_, _, _, _)
cmp_words(s, o, offset, bits) ==
    LET half == WORD_BITS \div 2
        n == IF bits - offset >= half THEN half ELSE bits - offset
        x == IF n = half THEN get_fixed(s, offset, WORD \div 2) ELSE get_uint(s, offset, n)
        y == IF n = half THEN get_fixed(o, offset, WORD \div 2) ELSE get_uint(o, offset, n)
        c == Cmp(ToNat(x), ToNat(y))
    IN IF n = 0 \/ c # 0 THEN (IF n = 0 THEN 0 ELSE c) ELSE cmp_words(s, o, offset + n, bits)

\* Two windows of one cell that start together differ in length only.
lex_cmp(s, o) ==
    LET c == cmp_words(s, o, 0, Least(size_bits(s), size_bits(o)))
        same == s.cell = o.cell /\ s.range.bits_start = o.range.bits_start
    IN IF same \/ c = 0 THEN Cmp(size_bits(s), size_bits(o)) ELSE c

contents_eq(s, o) ==
    size_bits(s) = size_bits(o) /\ size_refs(s) = size_refs(o)
    /\ lex_cmp(s, o) = 0 /\ references(s) = references(o)
is_data_prefix_of(s, o) ==
    size_bits(s) <= size_bits(o) /\ lex_cmp(s, only_first(o, size_bits(s), 0).s) = 0
is_data_suffix_of(s, o) ==
    size_bits(s) <= size_bits(o) /\ lex_cmp(s, only_last(o, size_bits(s), 0).s) = 0

\* The loop of longest_common_data_prefix over the bytes both windows have.
RECURSIVE lcp_bytes(_, _, _, _, _)
lcp_bytes(s, o, i, aligned, max) ==
    LET sr == s.range.bits_start % BYTE
        sq == s.range.bits_start \div BYTE
        or == o.range.bits_start % BYTE
        oq == o.range.bits_start \div BYTE
        here(d, q, r) == Shl(Byte(d, q + i), r)
        joined(d, q, r) == Or(here(d, q, r), Low(Shr(Wide(Byte(d, q + i + 1), 2 * BYTE), BYTE - r), BYTE))
        rest(d, q, r) == IF r > 0 /\ i + 1 < DivCeil(r + max, BYTE) THEN joined(d, q, r) ELSE here(d, q, r)
        x == Xor(joined(s.cell.data, sq, sr), joined(o.cell.data, oq, or))
        last == And(Xor(rest(s.cell.data, sq, sr), rest(o.cell.data, oq, or)), HighMask(max % BYTE))
    IN IF i + 1 < aligned
       THEN IF IsZero(x) THEN lcp_bytes(s, o, i + 1, aligned, max)
            ELSE Least(i * BYTE + leading_zeros(x), max)
       ELSE Least(i * BYTE + leading_zeros(last), max)

longest_common_data_prefix_impl(s, o, hint) ==
    LET max == Least(Least(size_bits(s), size_bits(o)), hint)
        bytes(w) == DivCeil((w.range.bits_start % BYTE) + max, BYTE)
    IN IF is_data_empty(s) \/ is_data_empty(o) THEN 0
       ELSE lcp_bytes(s, o, 0, Least(bytes(s), bytes(o)), max)
longest_common_data_prefix(s, o) ==
    get_prefix(s, longest_common_data_prefix_impl(s, o, MAX_BIT_LEN + 1), 0)
strip_data_prefix(s, o) ==
    LET n == size_bits(o)
        m == skip_first(s, n, 0)
    IN IF n = 0 THEN s
       ELSE IF size_bits(s) >= n /\ n <= longest_common_data_prefix_impl(s, o, n) /\ m.got # Underflow THEN m.s
       ELSE None

\* bits_memscan from byte p on: single bytes until the address is that of a
\* word, then words, then bytes, then what is left; `base` is the address of
\* the data modulo a word.
RECURSIVE scan(_, _, _, _, _, _)
scan(d, p, rem, count, bit, base) ==
    LET n == IF rem >= WORD_BITS /\ (base + p) % WORD = 0 THEN WORD ELSE 1
        v == Xor(Bytes(d, p, n), [i \in 1..n * BYTE |-> bit])
        c == leading_zeros(v)
    IN IF rem = 0 THEN count
       ELSE IF rem < BYTE THEN (IF c < rem THEN count - rem + c ELSE count)
       ELSE IF ~IsZero(v) THEN count - rem + c
       ELSE scan(d, p + n, rem - n * BYTE, count, bit, base)

\* Mutant: a window that ends in its first byte is not cut there.
MutBitsMemscan(d, start, count, bit, base) ==
    LET offset == start % BYTE
        q == start \div BYTE
        l == BYTE - offset
        c == leading_zeros(Shl(Xor(Byte(d, q), [i \in 1..BYTE |-> bit]), offset))
    IN IF count = 0 THEN 0
       ELSE IF offset = 0 THEN scan(d, q, count, count, bit, base)
       ELSE IF c < l \/ count <= l THEN c
       ELSE scan(d, q + 1, count - l, count, bit, base)

bits_memscan(d, start, count, bit, base) ==
    LET offset == start % BYTE
        q == start \div BYTE
        l == BYTE - offset
        c == leading_zeros(Shl(Xor(Byte(d, q), [i \in 1..BYTE |-> bit]), offset))
    IN IF count = 0 THEN 0
       ELSE IF offset = 0 THEN scan(d, q, count, count, bit, base)
       ELSE IF c < l \/ count <= l THEN Least(c, count)
       ELSE scan(d, q + 1, count - l, count, bit, base)

\* bits_memscan_rev down from byte p: half words, bytes, and what is left.
RECURSIVE scan_rev(_, _, _, _, _)
scan_rev(d, p, rem, res, bit) ==
    LET n == IF rem >= WORD_BITS \div 2 THEN WORD \div 2 ELSE 1
        v == Xor(Bytes(d, p - n, n), [i \in 1..n * BYTE |-> bit])
    IN IF rem = 0 THEN res
       ELSE IF rem < BYTE THEN res + Least(trailing_zeros(v), rem)
       ELSE IF ~IsZero(v) THEN res + trailing_zeros(v)
       ELSE scan_rev(d, p - n, rem - n * BYTE, res + n * BYTE, bit)

bits_memscan_rev(d, start, count, bit) ==
    LET q == (start + count) \div BYTE
        offset == (start + count) % BYTE
        c == trailing_zeros(Xor(Shr(Byte(d, q), BYTE - offset), [i \in 1..BYTE |-> bit]))
    IN IF count = 0 THEN 0
       ELSE IF offset = 0 THEN scan_rev(d, q, count, 0, bit)
       ELSE IF c < offset \/ offset >= count THEN Least(c, count)
       ELSE scan_rev(d, q, count - offset, offset, bit)

count_leading(s, bit, base) ==
    IF is_data_empty(s) THEN 0
    ELSE IF DataMissing(s) THEN Underflow
    ELSE bits_memscan(s.cell.data, s.range.bits_start, size_bits(s), bit, base)
count_trailing(s, bit) ==
    IF is_data_empty(s) THEN 0
    ELSE IF DataMissing(s) THEN Underflow
    ELSE bits_memscan_rev(s.cell.data, s.range.bits_start, size_bits(s), bit)

\* The bit that all bits of the window are.  Less than a word is compared byte
\* by byte, the first and the last under their masks.
test_uniform(s, base) ==
    LET d == s.cell.data
        n == size_bits(s)
        r == s.range.bits_start % BYTE
        q == s.range.bits_start \div BYTE
        bit == Byte(d, q)[r + 1]
        target == [i \in 1..BYTE |-> bit]
        differs(p, mask) == ~IsZero(And(Xor(Byte(d, p), target), mask))
        last_mask == HighMask((n + r) % BYTE)
        left == n - (BYTE - r)
        uniform ==
            IF n >= WORD_BITS THEN bits_memscan(d, s.range.bits_start, n, bit, base) = n
            ELSE IF r + n <= BYTE THEN ~differs(q, And(LowMask(r), last_mask))
            ELSE /\ ~differs(q, LowMask(r))
                 /\ \A i \in 1..left \div BYTE : Byte(d, q + i) = target
                 /\ left % BYTE # 0 => ~differs(q + 1 + left \div BYTE, last_mask)
    IN IF is_data_empty(s) \/ DataMissing(s) \/ ~uniform THEN None ELSE bit
=============================================================================
