------------------------------- MODULE MCDict -------------------------------
EXTENDS Dict

\* The size of a batch of changes.
CONSTANT MaxBatch

\* Extras that tell left from right and the shape of the trie.
MCComparator(l, r) == (2 * l + 3 * r + 1) % 11
MCExtraOf(v) == IF Aug THEN v ELSE 0

AllKeys3 == [1..3 -> Bit]
AllKeys2 == [1..2 -> Bit]
\* Four-bit keys with long shared prefixes: labels of every form.
SomeKeys4 == {<<0,0,0,0>>, <<0,0,0,1>>, <<0,1,1,0>>, <<1,0,1,1>>, <<1,1,1,1>>}
One == {1}
Two == {1, 2}
\* No operation depends on `last`: states are told apart by the
\* dictionary alone.
RootView == <<root, extra>>
MCBatches == UNION {[ks -> Vals \union {NoVal}] : ks \in {ks \in SUBSET Keys : Cardinality(ks) <= MaxBatch}}
=============================================================================
