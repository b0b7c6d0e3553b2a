------------------------------- MODULE Cells -------------------------------
(***************************************************************************)
(* A builder in use, and a slice of the cell it becomes.  The bytes and    *)
(* windows implement the strings of BitCell.                               *)
(***************************************************************************)
EXTENDS CellSlice

CONSTANTS RefCells,     \* cells to refer to
          Values,       \* words (WORD bytes) to store
          Raw,          \* byte strings to store
          Numbers,      \* integers to store
          MaxAsked,     \* the longest length that is asked for
          RefsWithBits, \* the most bits of a finished cell that has references
          NoSlice

\* Values are words, byte strings have whole bytes, and the lengths of numbers
\* that are stored (two bits of them) fit a byte.
ASSUME InputAssumption ==
    /\ Values \subseteq Words(WORD_BITS) /\ Numbers \subseteq Int /\ MaxAsked \in Nat
    /\ \A v \in Raw : v \in Seq(Bit) /\ Len(v) % BYTE = 0
    /\ BYTE > 1

\* A window of a cell.
Slices == [cell : [data : Seq(Bit), bit_len : Nat, refs : Seq(RefCells)],
           range : [bits_start : Nat, bits_end : Nat, refs_start : Nat, refs_end : Nat]]

\* An error and the lack of a result or of a slice are told from what is returned.
ASSUME ResultAssumption ==
    /\ Underflow # None
    /\ \A e \in {Underflow, None, NoSlice} : e \notin Seq(Bit) \union Int \union RefCells \union Slices

VARIABLES builder, slice, call, got

vars == <<builder, slice, call, got>>

\* The bits in use.
Text(b) == SubSeq(b.data, 1, b.bit_len)
Whole(cell) == SubSeq(cell.data, 1, cell.bit_len)
Unread(s) == SubSeq(s.cell.data, s.range.bits_start + 1, s.range.bits_end)

\* What a store of a number, and of bytes, means.
NumberBits(v, n) == IF n <= Len(v) THEN Low(v, n) ELSE Wide(v, n)
RawBits(v, n) == IF n <= Len(v) THEN SubSeq(v, 1, n) ELSE Wide(v, n)
Representable(x, n, signed) ==
    IF n = 0 THEN x = 0
    ELSE IF signed THEN -(2^(n - 1)) <= x /\ x < 2^(n - 1) ELSE 0 <= x /\ x < 2^n

Magnitude(x) == IF x < 0 THEN -x ELSE x

Lens == 0..MaxAsked
Windows(cell) == {w \in [bits_start : 0..cell.bit_len, bits_end : 0..cell.bit_len,
                         refs_start : 0..Len(cell.refs), refs_end : 0..Len(cell.refs)] :
                    w.bits_start <= w.bits_end /\ w.refs_start <= w.refs_end}
SlicesOf(cell) == {[cell |-> cell, range |-> w] : w \in Windows(cell)}

Init == builder = new /\ slice = NoSlice /\ call = [op |-> "new"] /\ got = TRUE

Asked(bits, refs) == [op |-> "store", bits |-> bits, refs |-> refs]
\* A call of the builder, before the cell is built.
Write(r, c) == /\ slice = NoSlice
               /\ builder' = r.b /\ got' = r.ok /\ call' = c
               /\ UNCHANGED slice

StoreBit(bit) == Write(IF bit = 1 THEN store_bit_one(builder) ELSE store_bit_zero(builder), Asked(<<bit>>, <<>>))
StoreZeros(n) == Write(store_zeros(builder, n), Asked(Zeros(n), <<>>))
StoreOnes(n) == Write(store_ones(builder, n), Asked(Ones(n), <<>>))
StoreFixed(v) == Write(store_fixed(builder, v), Asked(v, <<>>))
StoreU256(v) == Write(store_u256(builder, v), Asked(v, <<>>))
StoreUint(v, n) == Write(store_word(builder, v, n), Asked(NumberBits(v, n), <<>>))
StoreSmallUint(v, n) == StoreUint(Low(v, BYTE), n)
StoreRaw(v, n) == Write(store_raw(builder, v, n), Asked(RawBits(v, n), <<>>))
StoreBigint(x, n, signed) ==
    Write(store_bigint(builder, x, n, signed),
          IF Representable(x, n, signed) THEN Asked(ToBits(x, n), <<>>) ELSE [op |-> "refuse"])
StoreVarBigint(x, n, signed) ==
    LET m == CHOOSE k \in 0..Magnitude(x) + 1 :
                 /\ Representable(x, k * BYTE, signed)
                 /\ \A j \in 0..k - 1 : ~Representable(x, j * BYTE, signed)
    IN Write(store_var_bigint(builder, x, n, signed),
             [op |-> "store_var", len |-> ToBits(m, n), bits |-> ToBits(x, m * BYTE), fits_len |-> m < 2^n])
StoreReference(c) == Write(store_reference(builder, c), Asked(<<>>, <<c>>))
SetReferences(cs) == Write(Done(set_references(builder, cs)), [op |-> "set_references", refs |-> cs])
\* Of a copy of the builder: the whole, its built data, or a part of it.
StoreBuilder == Write(store_builder(builder, builder), Asked(Text(builder), builder.refs))
StoreCellData ==
    LET cell == build(builder)
    IN Write(store_raw(builder, cell.data, cell.bit_len), Asked(Text(builder), <<>>))
StoreSlice ==
    \E cell \in {build(builder), as_full_cell(builder), as_data_cell(builder)} : \E s \in SlicesOf(cell) :
        Write(store_slice(builder, s), Asked(Unread(s), references(s)))
StoreSliceData ==
    \E s \in SlicesOf(build(builder)) : Write(store_slice_data(builder, s), Asked(Unread(s), <<>>))
PrependRaw(v, n) == Write(prepend_raw(builder, v, n), [op |-> "prepend", bits |-> RawBits(v, n)])
RewindBits(n) == Write(rewind_bits(builder, n), [op |-> "rewind", bits |-> n])
ClearBits == Write(Done(clear_bits(builder)), [op |-> "rewind", bits |-> builder.bit_len])

\* The builder is used up.
Build == /\ slice = NoSlice
         /\ builder.refs # <<>> => builder.bit_len <= RefsWithBits
         /\ slice' = new_slice(build(builder)) /\ builder' = new
         /\ call' = [op |-> "build"] /\ got' = TRUE

\* A call of the slice.  An error is FALSE, no result is TRUE.
Read(m, c, Result(_)) ==
    /\ slice # NoSlice
    /\ slice' = m.s /\ call' = c
    /\ got' = IF m.got = Underflow THEN FALSE ELSE IF m.got = None THEN TRUE ELSE Result(m.got)
    /\ UNCHANGED builder
Same(x) == x
Part(s) == <<Unread(s), references(s)>>
Loads(n, max) == [op |-> "load", bits |-> n, max |-> max]

Window(op, n, m) ==
    LET moved == CASE op = "skip_first" -> skip_first(slice, n, m)
                   [] op = "only_first" -> only_first(slice, n, m)
                   [] op = "skip_last" -> skip_last(slice, n, m)
                   [] op = "only_last" -> only_last(slice, n, m)
                   [] op = "split_prefix" -> split_prefix(slice, n, m)
                   [] op = "split_suffix" -> split_suffix(slice, n, m)
    IN Read(moved, [op |-> op, bits |-> n, refs |-> m], Part)
LoadRemaining ==
    Read(load_remaining(slice), [op |-> "split_prefix", bits |-> size_bits(slice), refs |-> size_refs(slice)], Part)
WithoutReferences ==
    Read(Moved(without_references(slice), None), [op |-> "skip_first", bits |-> 0, refs |-> size_refs(slice)], Same)
LoadBit == LET one(x) == <<x>> IN Read(load_bit(slice), Loads(1, 1), one)
LoadFixed(n) == Read(load_fixed(slice, n), Loads(n * BYTE, n * BYTE), Same)
LoadU128(n) == Read(load_u128(slice, n), Loads(n * BYTE, n * BYTE), Same)
LoadU256(n) == Read(load_u256(slice, n), Loads(2 * n * BYTE, 2 * n * BYTE), Same)
LoadSmallUint(n) == LET low(v) == Low(v, n) IN Read(load_small_uint(slice, n), Loads(n, BYTE), low)
LoadUint(n) == LET low(v) == Low(v, n) IN Read(load_uint(slice, n), Loads(n, WORD_BITS), low)
LoadRaw(n) == LET first(v) == SubSeq(v, 1, n) IN Read(load_raw(slice, n), Loads(n, MAX_BIT_LEN), first)
LoadBigint(n, signed) ==
    LET low(x) == ToBits(x, n) IN Read(load_bigint(slice, n, signed), Loads(n, MAX_BIT_LEN), low)
LoadVarBigint(n) ==
    LET len == ToNat(get_uint(slice, 0, n)) * BYTE
        low(x) == ToBits(x, len)
    IN Read(load_var_bigint(slice, n, FALSE), [op |-> "load_var", bits |-> n], low)
LoadReference == Read(load_reference(slice), [op |-> "load_reference"], Same)

Writes == \/ \E bit \in Bit : StoreBit(bit)
          \/ \E n \in Lens : StoreZeros(n) \/ StoreOnes(n) \/ RewindBits(n)
          \/ \E v \in Values : StoreFixed(v) \/ StoreU256(v)
          \/ \E v \in Values, n \in Lens : StoreUint(v, n) \/ StoreSmallUint(v, n)
          \/ \E v \in Raw, n \in Lens : StoreRaw(v, n) \/ PrependRaw(v, n)
          \/ \E x \in Numbers, n \in Lens, signed \in BOOLEAN :
                 /\ signed \/ x >= 0
                 /\ StoreBigint(x, n, signed) \/ (n \in 1..2 /\ StoreVarBigint(x, n, signed))
          \/ \E c \in RefCells : StoreReference(c) \/ SetReferences(<<c>>)
          \/ StoreBuilder \/ StoreCellData \/ StoreSlice \/ StoreSliceData \/ ClearBits

Reads == \/ \E op \in {"skip_first", "only_first", "skip_last", "only_last", "split_prefix", "split_suffix"},
               n \in Lens, m \in 0..MAX_REF_COUNT + 1 : Window(op, n, m)
         \/ LoadRemaining \/ WithoutReferences \/ LoadBit \/ LoadReference \/ LoadU256(1)
         \/ \E n \in 1..WORD : LoadFixed(n) \/ LoadU128(n)
         \/ \E n \in Lens : LoadSmallUint(n) \/ LoadUint(n) \/ LoadRaw(n)
         \/ \E n \in Lens, signed \in BOOLEAN : LoadBigint(n, signed)
         \/ \E n \in 1..2 : LoadVarBigint(n)

Next == Writes \/ Build \/ (slice # NoSlice /\ Reads)

Spec == Init /\ [][Next]_vars

-----------------------------------------------------------------------------
\* What was asked and what came back do not tell states apart.
StateView == <<builder, slice>>

\* Nothing is left in the array behind the bits in use: padded stores skip over
\* it, and equality of builders compares it (builder.rs: store_zeros, store_uint,
\* PartialEq for CellDataBuilder).
TailIsZero == IsZero(SubSeq(builder.data, builder.bit_len + 1, Len(builder.data)))

Abstract == INSTANCE BitCell WITH
    MaxBits <- MAX_BIT_LEN, MaxRefs <- MAX_REF_COUNT, ByteBits <- BYTE, Num <- ToNat,
    written <- Text(builder), children <- builder.refs,
    unread <- IF slice = NoSlice THEN <<>> ELSE Unread(slice),
    unread_refs <- IF slice = NoSlice THEN <<>> ELSE references(slice)

\* Every store appends exactly the bits and references it was asked to, or
\* leaves the builder as it was, and every load returns the next bits: the
\* byte-wise code of builder.rs and slice.rs implements strings of bits.
ImplementsBits == Abstract!Spec
=============================================================================
