-------------------------------- MODULE Abi --------------------------------
(***************************************************************************)
(* How the ABI lays out values in a chain of cells, and finds them again.  *)
(*                                                                         *)
(* `AbiSerializer` fills one builder after another: a value that does not  *)
(* fit goes to a new cell, which becomes the last reference of the one     *)
(* before.  Nothing in the cells says where this happened: `load_ext`      *)
(* decides from what is left of the slice.                                 *)
(*                                                                         *)
(* A type is a record with its kind `k`; a value is its type `t` and its   *)
(* contents `x`.  What the layout does not look into (integers, addresses, *)
(* tokens) is an "item": `pre`, the bits `preload_bits` asks for; `max`, the*)
(* most it can take; and its `forms`, each with the bits that are reserved *)
(* for it, that are required of the builder and that are stored.  A value  *)
(* of an item has its form and an `id`, to tell it from others.  A cell is a sequence of pieces of data and its*)
(* references; the root of a dictionary has its entries instead.  A version*)
(* is ten times its major part and the minor part.  Sizes are in bits.      *)
(***************************************************************************)
EXTENDS Integers, Sequences, SequencesExt

CONSTANT NoValue

MAX_BITS == 1023
MAX_REFS == 4
V2_2 == 22
V2_3 == 23
V2_4 == 24
Major(ver) == ver \div 10
use_max_size(ver) == ver >= V2_2

----------------------------------------------------------------------------
(* Types.                                                                  *)

Size(b, r) == [bits |-> b, refs |-> r]
Plus(s, t) == Size(s.bits + t.bits, s.refs + t.refs)
Left(n, m) == IF n > m THEN n - m ELSE 0
\* Subtraction saturates, a total that is too small stays unnoticed.
Minus(s, t) == Size(Left(s.bits, t.bits), Left(s.refs, t.refs))
SumOf(sizes) == FoldLeft(Plus, Size(0, 0), sizes)

Form(reserved, required, stored) == [reserved |-> reserved, required |-> required, stored |-> stored]
Exactly(n) == Form(n, n, n)
Item(pre, max, forms) == [k |-> "item", pre |-> pre, max |-> max, forms |-> forms]
Uint(n) == Item(n, n, [some |-> Exactly(n)])
Token == Item(1, 124, [zero |-> Exactly(4), some |-> Exactly(12)])
\* bit_len of an external address of n bits leaves out the two bits of its tag.
ExtForm(n) == Form(9 + n, 9 + n, 11 + n)
ADDRESS_MAX == 591
Address(n) == Item(1, ADDRESS_MAX, [none |-> Exactly(2), std |-> Exactly(267), ext |-> ExtForm(n)])
\* VarUint(16): the number of bytes in 4 bits, then the bytes.
VarUint16 == Item(4, 124, [byte |-> Exactly(12), bytes2 |-> Exactly(20)])
BoolType == Item(1, 1, [zero |-> Exactly(1), one |-> Exactly(1)])
CellType == [k |-> "cell"]
BytesType == [k |-> "bytes"]
FixedBytes(n) == [k |-> "fixedbytes", len |-> n]
TupleType(ts) == [k |-> "tuple", ts |-> ts]
ArrayOf(t) == [k |-> "array", t |-> t]
FixedArrayOf(t, n) == [k |-> "fixedarray", t |-> t, len |-> n]
MapOf(key_bits, t) == [k |-> "map", key_bits |-> key_bits, t |-> t]
OptionalOf(t) == [k |-> "optional", t |-> t]
RefTo(t) == [k |-> "ref", t |-> t]
Value(t, x) == [t |-> t, x |-> x]

RECURSIVE max_size(_, _)
max_size(t, ver) ==
  CASE t.k = "item" -> Size(t.max, 0)
    [] t.k = "fixedbytes" /\ ver >= V2_4 -> Size(8 * t.len, 0)
    [] t.k \in {"cell", "bytes", "fixedbytes", "ref"} -> Size(0, 1)
    [] t.k = "array" -> Size(33, 1)
    [] t.k \in {"fixedarray", "map"} -> Size(1, 1)
    [] t.k = "optional" ->
         LET size == max_size(t.t, ver) IN
         IF size.bits < MAX_BITS /\ size.refs < MAX_REFS THEN Plus(Size(1, 0), size) ELSE Size(1, 1)
    [] t.k = "tuple" -> SumOf([i \in DOMAIN t.ts |-> max_size(t.ts[i], ver)])

fits_inline(t, ver) == max_size(t, ver).bits < MAX_BITS /\ max_size(t, ver).refs < MAX_REFS
LABEL_OFFSET == 12
fits_into_dict_leaf(key_bits, t, ver) == LABEL_OFFSET + key_bits + max_size(t, ver).bits <= MAX_BITS

RECURSIVE exact_size(_, _)
exact_size(v, ver) ==
  CASE v.t.k = "item" -> Size(v.t.forms[v.x.form].reserved, 0)
    [] v.t.k \in {"cell", "bytes", "fixedbytes", "ref"} -> Size(0, 1)
    [] v.t.k = "array" -> Size(33, IF v.x = <<>> THEN 0 ELSE 1)
    [] v.t.k \in {"fixedarray", "map"} -> Size(1, IF v.x = <<>> THEN 0 ELSE 1)
    [] v.t.k = "optional" ->
         CASE v.x = <<>> -> Size(1, 0)
           [] fits_inline(v.t.t, ver) -> Plus(Size(1, 0), exact_size(v.x[1], ver))
           [] OTHER -> Size(1, 1)
    [] v.t.k = "tuple" -> SumOf([i \in DOMAIN v.x |-> exact_size(v.x[i], ver)])

compute_size(v, ver) == IF use_max_size(ver) THEN max_size(v.t, ver) ELSE exact_size(v, ver)

----------------------------------------------------------------------------
(* AbiSerializer.                                                          *)

Piece(bits, form, id) == [bits |-> bits, form |-> form, id |-> id]
Flag(x) == Piece(1, IF x THEN "one" ELSE "zero", 0)
DataCell(data, refs) == [data |-> data, refs |-> refs, dict |-> <<>>, key_bits |-> 0]
DictCell(entries, key_bits) == [data |-> <<>>, refs |-> <<>>, dict |-> entries, key_bits |-> key_bits]
EmptyCell == DataCell(<<>>, <<>>)

DataBits(data) == FoldLeft(LAMBDA sum, p : sum + p.bits, 0, data)
FitsCell(c) == DataBits(c.data) <= MAX_BITS /\ Len(c.refs) <= MAX_REFS
Stored(c, data, refs) == [c EXCEPT !.data = @ \o data, !.refs = @ \o refs]

\* A serializer with `total` reserved; `ok` is FALSE once a builder was too full.
Serializer(ver, offset, total) ==
  [ver |-> ver, current |-> offset, remaining |-> total, stack |-> <<>>, ok |-> TRUE]

\* A bug: the last reference is taken whatever remains.
MutStoreInline(s, size, remaining_total) ==
  /\ size.bits <= MAX_BITS - s.current.bits
  /\ size.refs <= MAX_REFS - s.current.refs

\* Whether the value goes into the builder that is being filled.  The last
\* reference is taken only when everything that remains fits as well.
store_inline(s, size, remaining_total) ==
  LET left == Size(MAX_BITS - s.current.bits, MAX_REFS - s.current.refs) IN
  /\ size.bits <= left.bits
  /\ size.refs <= left.refs
  /\ size.refs > 0 /\ size.refs = left.refs =>
       /\ Major(s.ver) # 1
       /\ remaining_total.refs = 0
       /\ remaining_total.bits + size.bits <= left.bits

\* require_builder, and the stores into the builder it returns.
Filled(s, stack, size, target) ==
  [s EXCEPT !.remaining = Minus(@, size), !.current = Plus(@, size),
            !.stack = Append(stack, target), !.ok = @ /\ FitsCell(target)]
Put(s, size, data, refs) ==
  IF store_inline(s, size, Minus(s.remaining, size))
  THEN Filled(s, SubSeq(s.stack, 1, Len(s.stack) - 1), size,
              Stored(IF s.stack = <<>> THEN EmptyCell ELSE Last(s.stack), data, refs))
  ELSE Filled([s EXCEPT !.current = Size(0, 0)], IF s.stack = <<>> THEN <<EmptyCell>> ELSE s.stack, size,
              Stored(EmptyCell, data, refs))

\* finalize: each builder is the last reference of the one before.
RECURSIVE chain(_)
chain(stack) ==
  CASE stack = <<>> -> EmptyCell
    [] Len(stack) = 1 -> stack[1]
    [] OTHER -> Stored(Head(stack), <<>>, <<chain(Tail(stack))>>)

\* The longest label of a leaf: its form, the length of the key and the key.
LabelBits(key_bits) == 2 + (CHOOSE n \in 0..10 : key_bits < 2^n /\ (n = 0 \/ key_bits >= 2^(n - 1))) + key_bits
\* No cell takes more than it can, a leaf of a dictionary with its label included.
RECURSIVE ChainFits(_)
ChainFits(c) ==
  /\ FitsCell(c)
  /\ \A i \in DOMAIN c.refs : ChainFits(c.refs[i])
  /\ \A i \in DOMAIN c.dict :
       LabelBits(c.key_bits) + DataBits(c.dict[i].data) <= MAX_BITS /\ ChainFits(c.dict[i])

\* Bytes: a list of cells, the first one shorter (from version 2) or the last.
MAX_BYTES_PER_BUILDER == MAX_BITS \div 8
AtMostOf(n, m) == IF n < m THEN n ELSE m
AtMostBytes(n) == AtMostOf(n, MAX_BYTES_PER_BUILDER)
Wrapped(c) == IF c.data = <<>> THEN c ELSE DataCell(<<>>, <<c>>)
RECURSIVE bytes_cell(_, _, _)
bytes_cell(len, take, result) ==
  IF len = 0 THEN result
  ELSE bytes_cell(len - take, AtMostBytes(len - take),
                  Stored(Wrapped(result), <<Piece(8 * take, "bytes", len - take)>>, <<>>))
first_take(len, ver) ==
  IF Major(ver) = 1 THEN AtMostBytes(len)
  ELSE IF len % MAX_BYTES_PER_BUILDER = 0 THEN MAX_BYTES_PER_BUILDER ELSE len % MAX_BYTES_PER_BUILDER
BytesCell(len, ver) == bytes_cell(len, first_take(len, ver), EmptyCell)

RECURSIVE write_value(_, _)
\* A value on its own: begin_child, reserve_value, write_value, finalize.
InCells(v, ver) == write_value(Serializer(ver, Size(0, 0), compute_size(v, ver)), v)

\* The leaves of an array or a map, in place or in a cell of their own.
DictLeaf(v, key_bits, t, ver) ==
  IF fits_into_dict_leaf(key_bits, t, ver) THEN chain(InCells(v, ver).stack)
  ELSE DataCell(<<>>, <<chain(InCells(v, ver).stack)>>)
DictOf(v, key_bits, ver) ==
  IF v.x = <<>> THEN <<>>
  ELSE <<DictCell([i \in DOMAIN v.x |-> DictLeaf(v.x[i], key_bits, v.t.t, ver)], key_bits)>>
DictFlag(v) == Flag(v.x # <<>>)
UsedRefs(v, ver) == IF use_max_size(ver) \/ v.x # <<>> THEN 1 ELSE 0

OptionalSize(v, c, ver) ==
  CASE use_max_size(ver) -> max_size(v.t, ver)
    [] v.x = <<>> -> Size(1, 0)
    [] fits_inline(v.t.t, ver) -> Size(1 + DataBits(c.data), Len(c.refs))
    [] OTHER -> Size(1, 1)
put_optional(s, v, c) ==
  Put(s, OptionalSize(v, c, s.ver), <<Flag(v.x # <<>>)>> \o IF fits_inline(v.t.t, s.ver) THEN c.data ELSE <<>>,
      CASE v.x = <<>> -> <<>>
        [] fits_inline(v.t.t, s.ver) -> c.refs
        [] OTHER -> <<c>>)
write_optional(s, v) == put_optional(s, v, IF v.x = <<>> THEN EmptyCell ELSE chain(InCells(v.x[1], s.ver).stack))

write_array(s, v) ==
  Put(s, Size(33, UsedRefs(v, s.ver)), <<Piece(32, "len", Len(v.x)), DictFlag(v)>>, DictOf(v, 32, s.ver))
write_fixed_array(s, v) == Put(s, Size(2, UsedRefs(v, s.ver)), <<DictFlag(v)>>, DictOf(v, 32, s.ver))
\* The reference is required even if there is none.
write_map(s, v) == Put(s, Size(1, 1), <<DictFlag(v)>>, DictOf(v, v.t.key_bits, s.ver))
write_fixed_bytes(s, v) ==
  IF s.ver >= V2_4 THEN Put(s, Size(8 * v.t.len, 0), <<Piece(8 * v.t.len, "bytes", 0)>>, <<>>)
  ELSE Put(s, Size(0, 1), <<>>, <<BytesCell(v.x, s.ver)>>)
write_ref(s, v) == Put(s, Size(0, 1), <<>>, <<chain(InCells(v.x, s.ver).stack)>>)

write_value(s, v) ==
  CASE v.t.k = "item" ->
         Put(s, Size(IF use_max_size(s.ver) THEN v.t.max ELSE v.t.forms[v.x.form].required, 0),
             <<Piece(v.t.forms[v.x.form].stored, v.x.form, v.x.id)>>, <<>>)
    [] v.t.k = "cell" -> Put(s, Size(0, 1), <<>>, <<v.x>>)
    [] v.t.k = "bytes" -> Put(s, Size(0, 1), <<>>, <<BytesCell(v.x, s.ver)>>)
    [] v.t.k = "fixedbytes" -> write_fixed_bytes(s, v)
    [] v.t.k = "ref" -> write_ref(s, v)
    [] v.t.k = "array" -> write_array(s, v)
    [] v.t.k = "fixedarray" -> write_fixed_array(s, v)
    [] v.t.k = "map" -> write_map(s, v)
    [] v.t.k = "optional" -> write_optional(s, v)
    [] v.t.k = "tuple" -> FoldLeft(write_value, s, v.x)

----------------------------------------------------------------------------
(* AbiValue::load_ext.  A slice is what is left of a cell, and the number  *)
(* of references of that cell.  Reading at a place where no value of the   *)
(* type begins fails, whatever the bits there would stand for.             *)

AsSlice(c) == [data |-> c.data, refs |-> c.refs, reference_count |-> Len(c.refs)]
Got(x, s) == [x |-> x, s |-> s]
Failed == Got(NoValue, NoValue)
\* Goes on with what was loaded, if anything was.
Bind(got, F(_)) == IF got.x = NoValue THEN Failed ELSE F(got)
NothingLeft(s) == s.data = <<>> /\ s.refs = <<>>

\* With no bits left, the only reference is the continuation.
preload_bits(bits, s) ==
  CASE bits = 0 -> s
    [] s.data = <<>> -> IF Len(s.refs) = 1 THEN AsSlice(s.refs[1]) ELSE NoValue
    [] OTHER -> IF DataBits(s.data) < bits THEN NoValue ELSE s

IsOf(piece, t) == piece.form \in DOMAIN t.forms /\ t.forms[piece.form].stored = piece.bits
ItemAt(s, t) ==
  IF s = NoValue \/ s.data = <<>> \/ ~IsOf(Head(s.data), t) THEN Failed
  ELSE Got([form |-> Head(s.data).form, id |-> Head(s.data).id], [s EXCEPT !.data = Tail(@)])
load_item(t, s) == ItemAt(preload_bits(t.pre, s), t)

RefAt(s) == IF s.refs = <<>> THEN Failed ELSE Got(Head(s.refs), [s EXCEPT !.refs = Tail(@)])
IsContinued(ver, last, s) ==
  /\ Len(s.refs) = 1
  /\ IF Major(ver) = 1 THEN s.reference_count = MAX_REFS ELSE ~last /\ s.data = <<>>
load_cell(ver, last, s) == RefAt(IF IsContinued(ver, last, s) THEN AsSlice(s.refs[1]) ELSE s)

\* The number of bytes in a list of cells, if they come in the order they were in.
RECURSIVE bytes_in(_, _)
bytes_in(c, at) ==
  CASE \E i \in DOMAIN c.data : c.data[i].form # "bytes" \/ c.data[i].id # at -> NoValue
    [] c.refs = <<>> -> at + (DataBits(c.data) \div 8)
    [] OTHER -> bytes_in(c.refs[1], at + (DataBits(c.data) \div 8))
load_bytes(ver, last, s) ==
  Bind(load_cell(ver, last, s), LAMBDA got : Got(bytes_in(got.x, 0), got.s))
load_fixed_bytes(len, ver, last, s) ==
  IF ver >= V2_4
  THEN Bind(load_item(Item(8 * len, 8 * len, [bytes |-> Exactly(8 * len)]), s), LAMBDA got : Got(len, got.s))
  ELSE Bind(load_bytes(ver, last, s), LAMBDA got : IF got.x = len THEN got ELSE Failed)

IsSet(flag) == flag.x.form = "one"
load_dict(s) ==
  Bind(load_item(BoolType, s), LAMBDA flag :
    IF IsSet(flag) THEN Bind(RefAt(flag.s), LAMBDA root : Got(root.x.dict, root.s)) ELSE Got(<<>>, flag.s))

RECURSIVE load_ext(_, _, _, _)
\* All of a cell is one value.
load_whole(t, ver, c) ==
  Bind(load_ext(t, ver, TRUE, AsSlice(c)), LAMBDA got : IF NothingLeft(got.s) THEN got ELSE Failed)
load_ref(t, ver, last, s) ==
  Bind(load_cell(ver, last, s), LAMBDA c : Bind(load_whole(t, ver, c.x), LAMBDA got : Got(got.x, c.s)))

\* Something may be left in an entry of a map, in one of an array not.
Entries(got, values) ==
  IF \E i \in DOMAIN values : values[i] = Failed THEN Failed ELSE Got([i \in DOMAIN values |-> values[i].x], got.s)
load_map(t, ver, s) ==
  Bind(load_dict(s), LAMBDA got :
    Entries(got, [i \in DOMAIN got.x |-> load_ext(t, ver, TRUE, AsSlice(got.x[i]))]))
load_array_raw(t, len, ver, s) ==
  Bind(load_dict(s), LAMBDA got :
    Entries(got, [i \in 1..AtMostOf(len, Len(got.x)) |-> load_whole(t, ver, got.x[i])]))
LenType == Item(32, 32, [len |-> Exactly(32)])
load_array(t, ver, s) == Bind(load_item(LenType, s), LAMBDA len : load_array_raw(t, len.x.id, ver, len.s))
load_fixed_array(t, n, ver, s) ==
  Bind(load_array_raw(t, n, ver, s), LAMBDA got : IF Len(got.x) = n THEN got ELSE Failed)

load_optional(t, ver, last, s) ==
  Bind(load_item(BoolType, s), LAMBDA flag :
    IF ~IsSet(flag) THEN Got(<<>>, flag.s)
    ELSE Bind(IF fits_inline(t, ver) THEN load_ext(t, ver, last, flag.s) ELSE load_ref(t, ver, last, flag.s),
              LAMBDA got : Got(<<got.x>>, got.s)))

\* load_tuple_ext: only the last component of what comes last is the last.
load_tuple_ext(ts, ver, last, s) ==
  FoldLeft(LAMBDA done, i :
             Bind(done, LAMBDA before :
               Bind(load_ext(ts[i], ver, last /\ i = Len(ts), before.s),
                    LAMBDA got : Got(Append(before.x, got.x), got.s))),
           Got(<<>>, s), [i \in DOMAIN ts |-> i])

load_ext(t, ver, last, s) ==
  Bind(CASE t.k = "item" -> load_item(t, s)
         [] t.k = "cell" -> load_cell(ver, last, s)
         [] t.k = "bytes" -> load_bytes(ver, last, s)
         [] t.k = "fixedbytes" -> load_fixed_bytes(t.len, ver, last, s)
         [] t.k = "tuple" -> load_tuple_ext(t.ts, ver, last, s)
         [] t.k = "array" -> load_array(t.t, ver, s)
         [] t.k = "fixedarray" -> load_fixed_array(t.t, t.len, ver, s)
         [] t.k = "map" -> load_map(t.t, ver, s)
         [] t.k = "optional" -> load_optional(t.t, ver, last, s)
         [] t.k = "ref" -> load_ref(t.t, ver, last, s),
       LAMBDA got : Got(Value(t, got.x), got.s))

----------------------------------------------------------------------------
(* Functions and events: what comes before the values in a message.  The   *)
(* signature of an external message is put in front of the payload, or the *)
(* payload says itself that there is none ("inside").                      *)

\* The id is read without preload_bits.
IdType == Item(0, 32, [id |-> Exactly(32)])
InputId == Value(IdType, [form |-> "id", id |-> 0])
TimeHeader == Value(Uint(64), [form |-> "some", id |-> 1])
ExpireHeader == Value(Uint(32), [form |-> "some", id |-> 2])
PublicKeyType == Item(1, 257, [none |-> Exactly(1), some |-> Exactly(257)])
PublicKey(x) == Value(PublicKeyType, [form |-> x, id |-> 3])

Message(ver, body, signature, headers, values) ==
  [ver |-> ver, body |-> body, signature |-> signature, headers |-> headers, values |-> values]

\* Room for the signature.
SignatureOffset(m) ==
  CASE m.body # "external" -> Size(0, 0)
    [] Major(m.ver) = 1 -> Size(0, 1)
    [] OTHER -> Size(IF m.ver >= V2_3 THEN ADDRESS_MAX ELSE 1 + 512, 0)
NoSignature(m) ==
  CASE m.signature # "inside" -> <<>>
    [] Major(m.ver) = 1 -> <<Value(CellType, EmptyCell)>>
    [] OTHER -> <<Value(BoolType, [form |-> "zero", id |-> 0])>>
Written(m) ==
  CASE m.body = "tuple" -> m.values
    [] m.body = "internal" -> <<InputId>> \o m.values
    [] OTHER -> NoSignature(m) \o m.headers \o <<InputId>> \o m.values

\* reserve_headers and reserve_value.
start_message(m) ==
  LET values == Written(m) IN
  Serializer(m.ver, SignatureOffset(m), SumOf([i \in DOMAIN values |-> compute_size(values[i], m.ver)]))

\* From version 2 the payload follows the signature; version 1 leaves it out.
fill_signature(m, payload) ==
  LET signed == m.signature = "given" IN
  IF Major(m.ver) = 1
  THEN DataCell(<<>>, <<IF signed THEN DataCell(<<Piece(512, "signature", 0)>>, <<>>) ELSE EmptyCell>>)
  ELSE DataCell((IF signed THEN <<Flag(TRUE), Piece(512, "signature", 0)>> ELSE <<Flag(FALSE)>>)
                  \o payload.data, payload.refs)
\* What is signed: from version 2.3 the address comes before the payload.
STD_ADDRESS_MAX == 302
to_sign(m, payload) ==
  IF m.ver >= V2_3 THEN DataCell(<<Piece(STD_ADDRESS_MAX, "address", 0)>> \o payload.data, payload.refs) ELSE payload
IsSignable(m, payload) == m.body = "external" /\ m.signature # "inside" => FitsCell(to_sign(m, payload))
finish_message(m, s) ==
  IF m.body = "external" /\ m.signature # "inside" THEN fill_signature(m, chain(s.stack)) ELSE chain(s.stack)

skip_item(s, t) == IF s = NoValue THEN NoValue ELSE load_item(t, s).s
skip_all(headers, s) == FoldLeft(LAMBDA rest, h : skip_item(rest, h.t), s, headers)
skip_reference(s) == IF s = NoValue \/ s.refs = <<>> THEN NoValue ELSE [s EXCEPT !.refs = Tail(@)]
SignatureType == Item(0, 512, [signature |-> Exactly(512)])
skip_signature(s) ==
  Bind(load_item(BoolType, s), LAMBDA flag :
    IF IsSet(flag) THEN Got(flag.x, skip_item(flag.s, SignatureType)) ELSE flag).s

\* decode_*_input_ext, decode_output_ext up to the values.
skip_prefix(m, s) ==
  CASE m.body = "tuple" -> s
    [] m.body = "internal" -> skip_item(s, IdType)
    [] Major(m.ver) = 1 -> skip_all(m.headers, skip_reference(skip_item(s, IdType)))
    [] OTHER -> skip_item(skip_all(m.headers, skip_signature(s)), IdType)
=============================================================================
