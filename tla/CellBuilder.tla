---------------------------- MODULE CellBuilder ----------------------------
(***************************************************************************)
(* CellDataBuilder and CellBuilder: the array of bytes, the number of bits *)
(* in use and the references.  Every store is a function from a builder to *)
(* a builder and a Boolean, FALSE for an error.                            *)
(***************************************************************************)
EXTENDS Bits

CONSTANTS CAPACITY,       \* bytes of the array, 128
          WORD,           \* bytes of a u64, 8
          MAX_REF_COUNT   \* 4

\* A word has two halves of whole bytes.
ASSUME BuilderAssumption ==
    /\ CAPACITY \in Nat \ {0} /\ MAX_REF_COUNT \in Nat \ {0}
    /\ WORD \in Nat \ {0} /\ WORD % 2 = 0

MAX_BIT_LEN == CAPACITY * BYTE - 1
WORD_BITS == WORD * BYTE

new == [data |-> Zeros(CAPACITY * BYTE), bit_len |-> 0, refs |-> <<>>]

Done(b) == [b |-> b, ok |-> TRUE]
Refused(b) == [b |-> b, ok |-> FALSE]
Chain(r, F(_)) == IF r.ok THEN F(r.b) ELSE r

has_capacity_bits(b, bits) == b.bit_len + bits <= MAX_BIT_LEN
spare_capacity(b) == <<MAX_BIT_LEN - b.bit_len, MAX_REF_COUNT - Len(b.refs)>>

\* Appends a value whose significant bits come first: the bits of the byte in
\* use, then the bytes after it.  n is the number of significant bits.
Splice(b, v, n) ==
    LET q == b.bit_len \div BYTE
        r == b.bit_len % BYTE
        shift == BYTE - r
        left == n - shift
        full == Put(b.data, q, Bytes(v, 0, DivCeil(n, BYTE)))
        head == Put(b.data, q, Or(Byte(b.data, q), Shr(Byte(v, 0), r)))
        tail == Put(head, q + 1, Bytes(Shl(v, shift), 0, DivCeil(left, BYTE)))
    IN [b EXCEPT !.bit_len = @ + n,
                 !.data = IF r = 0 THEN full ELSE IF left > 0 THEN tail ELSE head]

\* store_u16 .. store_u128: a whole number of bytes.
store_fixed(b, v) ==
    IF has_capacity_bits(b, Len(v)) THEN Done(Splice(b, v, Len(v))) ELSE Refused(b)

\* Two halves, shifted one into the other.
store_u256(b, v) ==
    LET half == Len(v) \div 2
        hi == SubSeq(v, 1, half)
        lo == Low(v, half)
        q == b.bit_len \div BYTE
        r == b.bit_len % BYTE
        shift == BYTE - r
        shifted == Or(Shl(hi, shift), Shr(lo, half - shift)) \o Shl(lo, shift)
        head == Put(b.data, q, Or(Byte(b.data, q), Low(Shr(hi, half - shift), BYTE)))
    IN IF ~has_capacity_bits(b, Len(v)) THEN Refused(b)
       ELSE Done([b EXCEPT !.bit_len = @ + Len(v),
                           !.data = IF r = 0 THEN Put(b.data, q, v) ELSE Put(head, q + 1, shifted)])

\* store_small_uint (w bytes: 1) and store_uint (w bytes: 8): what exceeds the
\* width of the value is skipped, and is zero because the array is.
store_word(b, v, bits) ==
    LET w == Len(v)
        n == Least(bits, w)
        at == [b EXCEPT !.bit_len = @ + (bits - n)]
    IN IF bits = 0 THEN Done(b)
       ELSE IF ~has_capacity_bits(b, bits) THEN Refused(b)
       ELSE Done(Splice(at, Shl(v, w - n), n))

\* A byte of the n first bits of v, and byte q + j of d after the loop over them.
ValueByte(v, n, j) == IF j < DivCeil(n, BYTE) THEN Byte(v, j) ELSE Zeros(BYTE)
LoopedByte(d, v, n, q, r, j) ==
    IF r = 0 THEN Byte(v, j)
    ELSE IF j = 0 THEN Or(Byte(d, q), Shr(ValueByte(v, n, 0), r))
    ELSE Or(Shl(ValueByte(v, n, j - 1), BYTE - r), Shr(ValueByte(v, n, j), r))

\* The array d with the n first bits of v from bit at on, the last byte masked.
Spread(d, v, at, n) ==
    LET q == at \div BYTE
        r == at % BYTE
        last == DivCeil(n + r, BYTE) - 1
        looped == [j \in 0..last |-> LoopedByte(d, v, n, q, r, j)]
        masked == [looped EXCEPT ![last] = And(@, HighMask((r + n) % BYTE))]
    IN [i \in 1..Len(d) |->
           LET j == (i - 1) \div BYTE - q
           IN IF j \in 0..last THEN masked[j][((i - 1) % BYTE) + 1] ELSE d[i]]

store_raw(b, v, bits) ==
    LET n == Least(bits, Len(v))
        at == b.bit_len + (bits - n)
    IN IF ~has_capacity_bits(b, bits) THEN Refused(b)
       ELSE IF n = 0 THEN Done([b EXCEPT !.bit_len = at])
       ELSE Done([b EXCEPT !.bit_len = at + n, !.data = Spread(@, v, at, n)])

store_zeros(b, bits) ==
    IF has_capacity_bits(b, bits) THEN Done([b EXCEPT !.bit_len = @ + bits]) ELSE Refused(b)
\* From the data of the cell of ones, with its completion tag.
store_ones(b, bits) == store_raw(b, Ones(CAPACITY * BYTE), bits)
store_bit_zero(b) == IF b.bit_len < MAX_BIT_LEN THEN Done([b EXCEPT !.bit_len = @ + 1]) ELSE Refused(b)
store_bit_one(b) ==
    LET q == b.bit_len \div BYTE
        mask == Shl(Wide(<<1>>, BYTE), BYTE - 1 - (b.bit_len % BYTE))
    IN IF b.bit_len < MAX_BIT_LEN
       THEN Done([b EXCEPT !.bit_len = @ + 1, !.data = Put(@, q, Or(Byte(@, q), mask))])
       ELSE Refused(b)

\* CellBuilder::clear_bits leaves the references.
clear_bits(b) == [b EXCEPT !.data = Zeros(CAPACITY * BYTE), !.bit_len = 0]

\* Mutant: a partly used last byte is not masked.
MutRewindBits(b, bits) ==
    LET len == b.bit_len - bits
        q == DivCeil(len, BYTE)
    IN IF len < 0 THEN Refused(b)
       ELSE Done([b EXCEPT !.bit_len = len, !.data = Put(@, q, Zeros(Len(@) - q * BYTE))])

rewind_bits(b, bits) ==
    LET len == b.bit_len - bits
        q == len \div BYTE
        r == len % BYTE
        shift == BYTE - r
        first == IF r = 0 THEN b.data ELSE Put(b.data, q, And(Byte(b.data, q), HighMask(r)))
        from == IF r = 0 THEN q ELSE q + 1
        left == IF r = 0 THEN bits ELSE IF bits > shift THEN bits - shift ELSE 0
    IN IF bits = 0 THEN Done(b)
       ELSE IF len < 0 THEN Refused(b)
       ELSE Done([b EXCEPT !.bit_len = len, !.data = Put(first, from, Zeros(DivCeil(left, BYTE) * BYTE))])

\* The value and then the builder's own data in a new array.
prepend_raw(b, v, bits) ==
    LET own(x) == store_raw(x, b.data, b.bit_len)
        r == Chain(store_raw([new EXCEPT !.refs = b.refs], v, bits), own)
    IN IF bits = 0 THEN Done(b)
       ELSE IF ~has_capacity_bits(b, bits) \/ ~r.ok THEN Refused(b)
       ELSE r

\* The fewest bits of an integer, and BigIntExt::bitsize.
NumBits(x) == CHOOSE n \in 0..x : x < 2^n /\ (n = 0 \/ x >= 2^(n - 1))
bitsize(x, signed) ==
    LET m == IF x < 0 THEN -x ELSE x
        bits == NumBits(m)
    IN IF ~signed \/ x = 0 THEN bits
       ELSE IF x > 0 THEN bits + 1
       ELSE IF m = 2^(bits - 1) THEN bits ELSE bits + 1

\* A number of a u64 is stored as one; the bytes of another are those of the
\* number moved to the start of its first byte, cut or extended by its sign.
store_bigint_truncate(b, x, bits) ==
    LET align == (BYTE - (bits % BYTE)) % BYTE
    IN IF 0 <= x /\ x < 2^WORD_BITS THEN store_word(b, ToBits(x, WORD_BITS), bits)
       ELSE store_raw(b, ToBits(x * 2^align, DivCeil(bits, BYTE) * BYTE), bits)
store_bigint(b, x, bits, signed) ==
    IF bitsize(x, signed) > bits THEN Refused(b) ELSE store_bigint_truncate(b, x, bits)
\* The length stays in the builder when the number itself does not fit.
store_var_bigint(b, x, len_bits, signed) ==
    LET bytes == DivCeil(bitsize(x, signed), BYTE)
        number(y) == store_bigint_truncate(y, x, bytes * BYTE)
    IN IF bytes >= 2^len_bits THEN Refused(b)
       ELSE Chain(store_word(b, ToBits(bytes, BYTE), len_bits), number)

store_reference(b, cell) ==
    IF Len(b.refs) < MAX_REF_COUNT THEN Done([b EXCEPT !.refs = Append(@, cell)]) ELSE Refused(b)
\* One reference after the other, up to the first that has no room.
store_references(b, cells) ==
    LET room == MAX_REF_COUNT - Len(b.refs)
    IN IF Len(cells) <= room THEN Done([b EXCEPT !.refs = @ \o cells])
       ELSE Refused([b EXCEPT !.refs = @ \o SubSeq(cells, 1, room)])
set_references(b, cells) == [b EXCEPT !.refs = cells]

\* Both capacities are tested before anything is stored.
store_builder(b, other) ==
    LET with_refs(x) == store_references(x, other.refs)
    IN IF has_capacity_bits(b, other.bit_len) /\ Len(b.refs) + Len(other.refs) <= MAX_REF_COUNT
       THEN Chain(store_raw(b, other.data, other.bit_len), with_refs)
       ELSE Refused(b)

\* What a finished cell keeps: whole bytes with the completion tag.
build(b) ==
    LET r == b.bit_len % BYTE
        q == b.bit_len \div BYTE
        tag == Shl(Wide(<<1>>, BYTE), BYTE - 1 - r)
        tagged == IF r = 0 THEN b.data
                  ELSE Put(b.data, q, Or(And(Byte(b.data, q), HighMask(r + 1)), tag))
    IN [data |-> Bytes(tagged, 0, DivCeil(b.bit_len, BYTE)), bit_len |-> b.bit_len, refs |-> b.refs]

\* as_full_slice and as_data_slice: the array as it is, without a tag.
as_full_cell(b) == b
as_data_cell(b) == [b EXCEPT !.refs = <<>>]

\* Eq for CellDataBuilder compares the whole arrays.
data_eq(b, other) == b.bit_len = other.bit_len /\ b.data = other.data
=============================================================================
