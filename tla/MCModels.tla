------------------------------ MODULE MCModels ------------------------------
(***************************************************************************)
(* One workchain that splits three times, and the masterchain.  Validators *)
(* of equal and of different weights, one of no weight, and no more of them*)
(* than the masterchain takes.  Messages of up to four values, of kinds    *)
(* that fill the bits or the references of a cell, and of every version    *)
(* that lays them out differently.                                         *)
(***************************************************************************)
EXTENDS Models

MCBasechains == {0}
MCValidatorSets == {ValidatorSet(<<2, 1, 2>>, 2), ValidatorSet(<<1, 3, 1, 2>>, 1),
                    ValidatorSet(<<2, 0, 1, 1>>, 1), ValidatorSet(<<1, 2, 1>>, 3)}
MCSubsetSizes == {2, 4}

\* Values of the kinds that differ in how they are laid out.
Some(t, id) == Value(t, [form |-> "some", id |-> id])
ACell(id) == Value(CellType, DataCell(<<Piece(8, "content", id)>>, <<>>))
ThreeCells == Value(TupleType(<<CellType, CellType, CellType>>), <<ACell(11), ACell(12), ACell(13)>>)
Small == {Some(Uint(8), 4), ACell(5), ThreeCells, Some(Uint(1000), 6)}
Mixed == {Value(Address(20), [form |-> f, id |-> 7]) : f \in {"none", "std", "ext"}} \cup
         {Value(Token, [form |-> "zero", id |-> 8]), Value(VarUint16, [form |-> "bytes2", id |-> 8])} \cup
         {Value(BytesType, n) : n \in {0, 127, 130, 260}} \cup
         {Value(FixedBytes(32), 32)} \cup
         {Value(OptionalOf(CellType), x) : x \in {<<>>, <<ACell(9)>>}} \cup
         {Value(OptionalOf(ThreeCells.t), x) : x \in {<<>>, <<ThreeCells>>}} \cup
         {Value(OptionalOf(Uint(1023)), <<Some(Uint(1023), 10)>>)} \cup
         {Value(MapOf(256, Uint(1000)), x) : x \in {<<>>, <<Some(Uint(1000), 14)>>}} \cup
         {Value(MapOf(256, Uint(755)), <<Some(Uint(755), 20)>>)} \cup
         {Value(ArrayOf(Uint(8)), x) : x \in {<<>>, <<Some(Uint(8), 15), Some(Uint(8), 16)>>}} \cup
         {Value(FixedArrayOf(CellType, 2), <<ACell(17), ACell(18)>>)} \cup
         {Value(RefTo(TupleType(<<BoolType, ThreeCells.t, CellType>>)),
                Value(TupleType(<<BoolType, ThreeCells.t, CellType>>),
                      <<Value(BoolType, [form |-> "one", id |-> 0]), ThreeCells, ACell(19)>>))}
\* Versions 2.2 and 2.3 differ in the room for a signature only.
Versions == {10, 20, 22, 24}
Tuples == UNION {[1..n -> Small] : n \in 1..4} \cup {<<a, v, b>> : a \in Small, v \in Mixed, b \in Small}
          \cup {<<v, w>> : v \in Mixed, w \in {x \in Mixed : x.t.k \in {"ref", "optional"}}}
Bodies == {<<v>> : v \in Small \cup Mixed} \cup [1..2 -> Small]
Headers == {<<>>, <<TimeHeader, ExpireHeader, PublicKey("none")>>, <<PublicKey("some"), TimeHeader, ExpireHeader>>}

MCMessages ==
  {Message(ver, "tuple", "inside", <<>>, vs) : ver \in Versions, vs \in Tuples} \cup
  {Message(ver, "internal", "inside", <<>>, vs) : ver \in Versions, vs \in Bodies} \cup
  {Message(ver, "external", signature, headers, vs) :
     ver \in {10, 20, 22, 23, 24}, signature \in {"given", "absent", "inside"}, headers \in Headers, vs \in Bodies}
=============================================================================
