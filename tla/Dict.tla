-------------------------------- MODULE Dict --------------------------------
(***************************************************************************)
(* A dictionary in use: a root cell and a sequence of operations on it.    *)
(* The trie operations implement the map of DictMap, and the root depends  *)
(* only on the contents, not on the operations that led to it.             *)
(***************************************************************************)
EXTENDS DictBulk

CONSTANTS Keys, Vals, KeyLen,
          ExtraOf(_),  \* the extra stored with a value
          Batches      \* functions from some keys to Vals or NoVal (remove)

VARIABLES root,   \* Dict::root, NoCell when the dictionary is empty
          extra,  \* AugDict::extra, the copy of the extra of the root
          last    \* outcome of the last operation

vars == <<root, extra, last>>

Map == INSTANCE DictMap WITH m <- [en \in {} |-> NoVal]

\* A batch as the sorted list of entries the caller passes.
Entries(batch, signed) ==
  LET ks == DOMAIN batch
      rank(k) == Cardinality({j \in ks : KeyLess(j, k, signed)})
      nth(i) == CHOOSE k \in ks : rank(k) = i - 1
      entry(k) == <<k, batch[k], IF batch[k] = NoVal THEN 0 ELSE ExtraOf(batch[k])>>
  IN [i \in 1..Cardinality(ks) |-> entry(nth(i))]

Init == root = NoCell /\ extra = 0 /\ last = [op |-> "new"]

\* AugDict::update_root_extra; 0 is A::default() and the extra of a plain one.
root_extra(c) == IF c = NoCell THEN 0 ELSE c.ext

\* The new root, with the extra read again when the operation reports a change.
SetRoot(c, changed) ==
  /\ root' = c
  /\ extra' = IF changed THEN root_extra(c) ELSE extra

\* Mutant: the extra is read again only for a key that was present.
MutInsert(k, v, mode) ==
  LET r == dict_insert(root, k, v, ExtraOf(v), mode) IN
  /\ SetRoot(r.cell, r.prev # NoVal)
  /\ last' = [op |-> "insert", key |-> k, mode |-> mode, changed |-> r.changed, prev |-> r.prev]

\* Dict::{set, replace, add} and their owned and augmented variants.
Insert(k, v, mode) ==
  LET r == dict_insert(root, k, v, ExtraOf(v), mode) IN
  /\ SetRoot(r.cell, r.changed)
  /\ last' = [op |-> "insert", key |-> k, mode |-> mode, changed |-> r.changed, prev |-> r.prev]

\* Dict::remove and AugDict::remove.
RemoveKey(k) ==
  LET r == dict_remove(root, k) IN
  /\ SetRoot(r.cell, r.prev # NoVal)
  /\ last' = [op |-> "remove", key |-> k, prev |-> r.prev]

\* Dict::remove_bound, for plain dictionaries only.
RemoveBound(bound, signed) ==
  LET e == dict_find_bound(root, KeyLen, bound, signed) IN
  /\ ~Aug
  /\ SetRoot(dict_remove_bound(root, KeyLen, bound, signed), FALSE)
  /\ last' = [op |-> "remove_bound", key |-> e.key, prev |-> e.val]

\* Dict::modify_with_sorted_iter and AugDict::modify_with_sorted_iter.  The
\* operation reports a change for every batch that is not empty, and from the
\* empty dictionary only when it leaves something.
Modified(batch, c) == IF root = NoCell THEN c # NoCell ELSE batch # <<>>
ModifyTo(batch, c) ==
  /\ SetRoot(c, Modified(batch, c))
  /\ last' = [op |-> "modify", batch |-> batch, modified |-> Modified(batch, c)]
Modify(batch) == ModifyTo(batch, modify_from_sorted(root, Entries(batch, FALSE), KeyLen, FALSE))

Next ==
  \/ \E k \in Keys, v \in Vals, mode \in {"Set", "Replace", "Add"} : Insert(k, v, mode)
  \/ \E k \in Keys : RemoveKey(k)
  \/ \E bound \in {"Min", "Max"}, signed \in BOOLEAN : RemoveBound(bound, signed)
  \/ \E batch \in Batches : Modify(batch)

Spec == Init /\ [][Next]_vars

-----------------------------------------------------------------------------
(* Properties                                                               *)

\* The map a trie stands for.
Content(c) ==
  LET es == raw_iter(c, KeyLen)
      at(k) == CHOOSE i \in DOMAIN es : es[i][1] = k
  IN [k \in {es[i][1] : i \in DOMAIN es} |-> es[at(k)][2]]

\* Reference construction of the trie of a non-empty map whose keys share the
\* bits before position i.
RECURSIVE Trie(_, _)
Trie(map, i) ==
  LET ks == DOMAIN map
      common == LongestCommonPrefix(ks)
      n == KeyLen - i
      half(bit) == {k \in ks : k[Len(common) + 1] = bit}
      sub(bit) == Trie([k \in half(bit) |-> map[k]], Len(common) + 1)
  IN IF Cardinality(ks) = 1
       THEN LET k == CHOOSE k \in ks : TRUE
            IN make_leaf(Drop(k, i), n, map[k], ExtraOf(map[k]))
       ELSE make_fork(write_label(Drop(common, i), n), sub(0), sub(1))

Canonical(map) == IF DOMAIN map = {} THEN NoCell ELSE Trie(map, 0)

\* The operations on tries do to the contents, and report, what the operations
\* on maps do: an insertion in the wrong mode changes nothing, a removal takes
\* exactly its key, a bound is the least or greatest key in the right order and
\* a batch is its entries one by one.
Abstract == INSTANCE DictMap WITH m <- Content(root)
RefinesMap == Abstract!Spec

\* The root is a function of the contents: however they were reached, every edge
\* is fully compressed, every label has the one encoding its place calls for and
\* every extra is that of its children.  Dictionaries are compared by hash, and
\* validators that reach the same contents by other operations must agree.
HistoryIndependent ==
  /\ root # Err
  /\ DOMAIN Content(root) \subseteq Keys
  /\ root = Canonical(Content(root))

\* The extras of an augmented dictionary are what everyone reads who does not walk
\* the trie.  The one kept beside the root is stored with the dictionary
\* (`store_into`) and no operation may leave it stale; a search that follows the
\* extras ends at an entry of the dictionary with the extra it was shown, and one
\* that keeps to a side at the first or last key (aug_dict_find_by_extra).
RootExtraIsFresh ==
  /\ extra = root_extra(root)
  /\ root # NoCell =>
       \A flow \in {"Left", "Right", "Less", "Equal", "Greater"} :
         LET e == find_by_extra(root, KeyLen, flow) IN
         /\ e.val = dict_get(root, e.key) /\ e.val # NoVal /\ e.ext = ExtraOf(e.val)
         /\ flow = "Left" => e.key = dict_find_bound(root, KeyLen, "Min", FALSE).key
         /\ flow = "Right" => e.key = dict_find_bound(root, KeyLen, "Max", FALSE).key

NearestIsFound ==
  LET map == Content(root) IN
  \A k \in Keys, signed \in BOOLEAN, incl \in BOOLEAN, towards \in {"Min", "Max"} :
    LET after(j) == IF towards = "Max" THEN Map!Less(k, j, signed) ELSE Map!Less(j, k, signed)
        cand == {j \in DOMAIN map : after(j) \/ (incl /\ j = k)}
        e == dict_find(root, k, towards, incl, signed)
        want == Map!BoundOf(cand, IF towards = "Max" THEN "Min" ELSE "Max", signed)
    IN /\ dict_get(root, k) = IF k \in DOMAIN map THEN map[k] ELSE NoVal
       /\ IF cand = {} THEN e = NoEntry ELSE e = Entry(want, map[want])
\* The batch stands for the other dictionary.
UnionIsOrdered(batch, reversed, signed) ==
  LET other == [k \in {k \in DOMAIN batch : batch[k] # NoVal} |-> batch[k]]
      map == Content(root)
      at(f, k) == IF k \in DOMAIN f THEN f[k] ELSE NoVal
      es == iter_union(root, Canonical(other), KeyLen, reversed, signed)
  IN /\ {es[i] : i \in DOMAIN es} = {<<k, at(map, k), at(other, k)>> : k \in DOMAIN map \union DOMAIN other}
     /\ \A i \in 1..(Len(es) - 1) :
          IF reversed THEN Map!Less(es[i + 1][1], es[i][1], signed) ELSE Map!Less(es[i][1], es[i + 1][1], signed)

\* dict_find_owned returns the nearest key in the order asked for, whether or not
\* the key itself is present; get agrees with the contents; and the union of two
\* dictionaries is walked in that order, with every key once and both its values
\* (RawIter, UnionRawIter).
FindIsNearest ==
  /\ NearestIsFound
  /\ \A batch \in Batches, reversed \in BOOLEAN, signed \in BOOLEAN : UnionIsOrdered(batch, reversed, signed)

\* Building from sorted entries gives the same root as inserting them one by one.
BuildAgrees ==
  build_from_sorted(Entries(Content(root), FALSE), KeyLen, FALSE) = root

\* The branches of dict_split_raw hold the entries of the halves, with the bits of
\* the key that are still to come.
RawHalvesAgree(h) ==
  LET raw == dict_split_raw(root, KeyLen)
      entries(c) == [i \in DOMAIN raw_iter(c, raw.remaining_bit_len) |->
                       LET e == raw_iter(c, raw.remaining_bit_len)[i] IN <<e[1], e[2]>>]
      whole(c) == [i \in DOMAIN raw_iter(c, KeyLen) |->
                     LET e == raw_iter(c, KeyLen)[i] IN <<Drop(e[1], KeyLen - raw.remaining_bit_len), e[2]>>]
  IN entries(raw.left_branch) = whole(h.left) /\ entries(raw.right_branch) = whole(h.right)

\* A dictionary split at its first bit, or at the end of its root label, is given
\* back by merging the halves, and each half is canonical.
SplitMergeAgree ==
  \A pfx \in {<<>>} \union (IF root = NoCell THEN {} ELSE {root.lab.bits}) :
    LET h == dict_split_by_prefix(root, KeyLen, pfx) IN
    h # ErrHalves =>
      /\ dict_merge_siblings(h.left, h.right, KeyLen) = root
      /\ h.left = Canonical(Content(h.left)) /\ h.right = Canonical(Content(h.right))
      /\ pfx = <<>> => RawHalvesAgree(h)

\* "sorted unique entries" of a signed key type: sorted in the order of the type,
\* they build the dictionary with these entries.  It does not hold (README, known
\* divergences): the merge goes by the bits.
SignedBuildAgrees ==
  build_from_sorted(Entries(Content(root), TRUE), KeyLen, TRUE) = root

\* "Merges two dictionaries into one": merging a dictionary with one that has a
\* single other entry adds that entry.
MergeAgrees ==
  \A k \in Keys, v \in Vals :
    LET other == Canonical([x \in {k} |-> v])
        map == Content(root)
    IN dict_merge(root, other, KeyLen)
         = Canonical([x \in DOMAIN map \union {k} |-> IF x = k THEN v ELSE map[x]])

\* "Returns optional dictionary ... if specified prefix is present": a
\* subdictionary is returned only for a prefix that some key has.  It does not
\* hold (README, known divergences) for a prefix that leaves an edge.
SubdictIsPresent ==
  \A bit \in Bit :
    dict_get_subdict(root, KeyLen, <<bit>>) \notin {NoCell, Err}
      => \E k \in DOMAIN Content(root) : IsPrefix(<<bit>>, k)
=============================================================================
