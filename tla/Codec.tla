------------------------------- MODULE Codec -------------------------------
(***************************************************************************)
(* A value's way to a cell and back: `Store::store_into` of the value,     *)
(* `Load::load_from` of the cell, of a cell that was cut short, of one with*)
(* more behind the value, or of one in which a bit was changed, and        *)
(* `store_into` again of whatever was read.                                *)
(*                                                                         *)
(* Catalogue gives the types: a record with the formats (see Tlb), the     *)
(* depth of its samples, and whether every value is meant to fit in a cell.*)
(***************************************************************************)
EXTENDS Tlb

CONSTANT Catalogue

VARIABLES ty,     \* the name of the type
          val,    \* the value that is stored
          bld,    \* the builder after `store_into`
          cell,   \* the cell that is read
          how,    \* what happened to it before that
          got,    \* the slice after `load_from`
          again   \* the builder after `store_into` of what was read

vars == <<ty, val, bld, cell, how, got, again>>

Type == Catalogue[ty].t

\* An entry of the catalogue: a type, with samples to depth d. A type that may
\* overflow, one that has several forms of a value, one that takes all that is
\* left of a cell, and one that checks less when it is read than when stored.
Entry(t, d) == [t |-> t, d |-> d, fits |-> TRUE, lax |-> FALSE, open |-> FALSE,
                loose |-> FALSE]
MayOverflow(e) == [e EXCEPT !.fits = FALSE]
Lax(e) == [e EXCEPT !.lax = TRUE]
Open(e) == [e EXCEPT !.open = TRUE]
Loose(e) == [e EXCEPT !.loose = TRUE]
NoCell == [b |-> <<>>, r |-> <<>>]
Trailer == << <<64, <<"trailer">> >> >>
TrailerCell == [b |-> Trailer, r |-> <<>>]

\* Every type of the catalogue with every sample value, nothing stored yet.
Init == /\ ty \in DOMAIN Catalogue
        /\ val \in Samples(Type.st, <<>>, Catalogue[ty].d)
        /\ bld = NewBuilder
        /\ cell = NoCell
        /\ how = "new"
        /\ got = SliceOf(NoCell)
        /\ again = NewBuilder

\* `CellBuilder::build_from(value)`: an error leaves no cell.
StoreInto == /\ how = "new"
             /\ bld' = Store(Type, val)
             /\ cell' = IF bld'.err = "none" THEN [b |-> bld'.b, r |-> bld'.r] ELSE NoCell
             /\ how' = IF bld'.err = "none" THEN "stored" ELSE "refused"
             /\ UNCHANGED <<ty, val, got, again>>

\* Another cell, of which the value is only a part, or of which a part is lost.
Extend == /\ how = "stored"
          /\ cell' = [b |-> cell.b \o Trailer, r |-> Append(cell.r, TrailerCell)]
          /\ how' = "extended"
          /\ UNCHANGED <<ty, val, bld, got, again>>

Truncate == /\ how = "stored"
            /\ \/ cell.b # <<>> /\ cell' = [cell EXCEPT !.b = Front(@)]
               \/ cell.r # <<>> /\ cell' = [cell EXCEPT !.r = Front(@)]
            /\ how' = "truncated"
            /\ UNCHANGED <<ty, val, bld, got, again>>

\* Another value of one of the items: a bit of a tag, a flag or a length is
\* changed, or a field that nothing looks into is zero.
Flip == /\ how = "stored"
        /\ \E k \in DOMAIN cell.b :
              cell' = [cell EXCEPT !.b[k] = IF @[1] = 1 THEN <<1, 1 - @[2]>> ELSE <<@[1], Zero>>]
        /\ how' = "flipped"
        /\ UNCHANGED <<ty, val, bld, got, again>>

\* `slice.load::<T>()`, then `build_from` of the value if there is one.
LoadFrom == /\ how \in {"stored", "extended", "truncated", "flipped"}
            /\ got' = Load(Type, cell)
            /\ again' = IF got'.err = "none" THEN Store(Type, got'.v) ELSE NewBuilder
            /\ how' = [stored |-> "loaded", extended |-> "loaded extended",
                       truncated |-> "loaded truncated", flipped |-> "loaded flipped"][how]
            /\ UNCHANGED <<ty, val, bld, cell>>

Done == /\ how \notin {"new", "stored", "extended", "truncated", "flipped"}
        /\ UNCHANGED vars

Next == StoreInto \/ Extend \/ Truncate \/ Flip \/ LoadFrom \/ Done

Spec == Init /\ [][Next]_vars

----------------------------------------------------------------------------
(* What is checked of every type of the catalogue.                         *)

\* Reading the cell a value was stored to gives the value back, field by
\* field, and leaves nothing of the cell unread.
RoundTrip ==
    how = "loaded" => /\ got.err = "none"
                      /\ got.v = val
                      /\ got.b = <<>> /\ got.r = <<>>

\* `load_from` takes exactly what `store_into` wrote: a value may be followed
\* by others, which stay in the slice, bits and references alike.
SelfDelimiting ==
    how = "loaded extended" /\ ~Catalogue[ty].open => /\ got.err = "none"
                               /\ got.v = val
                               /\ got.b = Trailer /\ got.r = <<TrailerCell>>

\* Part of a value is never taken for a value: with its last field or its last
\* reference gone, `load_from` is an error.
TruncationIsNoticed == how = "loaded truncated" => got.err # "none"

\* A type meant for one cell fits in it whatever is present and however long:
\* the limits of 1023 bits and 4 references are never reached.
FitsInCell == how = "refused" /\ bld.err = "overflow" => ~Catalogue[ty].fits

\* What `load_from` accepts is what `store_into` would have written for it, so
\* that reading a cell and storing the value gives the same hash: no tag is
\* ignored, no reserved pattern is taken for another. A type that is lax (it has
\* several tags, or a number with leading zeroes) is at least brought to a form
\* that reads as the same value.
LoadedIsCanonical ==
    how = "loaded flipped" /\ got.err = "none" /\ got.b = <<>> /\ got.r = <<>>
        => \/ again.err = "invalid" /\ Catalogue[ty].loose
           \/ again.err = "none" /\ IF Catalogue[ty].lax THEN Load(Type, again).v = got.v
                                     ELSE again.b = cell.b /\ again.r = cell.r
=============================================================================
