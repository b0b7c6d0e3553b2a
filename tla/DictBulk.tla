------------------------------ MODULE DictBulk ------------------------------
(***************************************************************************)
(* Operations on whole dictionaries: building from sorted entries,         *)
(* modification by a sorted batch, splitting and merging (src/dict/ops).   *)
(***************************************************************************)
EXTENDS DictTrie

-----------------------------------------------------------------------------
(* MergeStackItem: the builder shared by build_dict_from_sorted_iter and    *)
(* dict_modify_from_sorted_iter.                                            *)
(*   kind   "leaf": a full key and its value; "node": a finished cell used  *)
(*          as is; "denorm": a cell whose label is to be written anew       *)
(*   prefix the full key of a leaf; for a denorm node the key bits up to    *)
(*          and including its label; for a node at least the bits before it *)
(*   lcp    prev_lcp_len: bits shared with the item below on the stack      *)

LeafItem(key, v, e, lcp) ==
  [kind |-> "leaf", prefix |-> key, cell |-> make_leaf(<<>>, 0, v, e), lcp |-> lcp]
NodeItem(prefix, cell, lcp) == [kind |-> "node", prefix |-> prefix, cell |-> cell, lcp |-> lcp]
DenormItem(prefix, cell, lcp) == [kind |-> "denorm", prefix |-> prefix, cell |-> cell, lcp |-> lcp]

\* The child cell an item becomes below a fork at bit split_at.
item_child(item, split_at, n) ==
  IF item.kind = "node" THEN item.cell
  ELSE relabel(item.cell, write_label(Drop(item.prefix, split_at + 1), n - split_at - 1))

\* MergeStackItem::merge.  The u16 subtraction `split_at - key_offset` must not
\* underflow and a label to be rewritten must reach past the fork.
item_merge(left, right, key_offset, n) ==
  LET split_at == right.lcp
      label == SubSeq(right.prefix, key_offset + 1, split_at)
      short(item) == item.kind # "node" /\ Len(item.prefix) <= split_at
      bad == \/ left.cell = Err \/ right.cell = Err
             \/ split_at < key_offset \/ short(left) \/ short(right)
  IN NodeItem(right.prefix,
              IF bad THEN Err
              ELSE make_fork(write_label(label, n - key_offset),
                             item_child(left, split_at, n), item_child(right, split_at, n)),
              left.lcp)

\* The inner loop of MergeStackItem::reduce.
RECURSIVE reduce_loop(_, _, _, _)
reduce_loop(stack, right, lcp_len, n) ==
  IF stack = <<>> \/ right.lcp <= lcp_len THEN Append(stack, right)
  ELSE LET left == Last(stack)
           below == Front(stack)
           off == IF below = <<>> THEN 1 ELSE left.lcp + 1
           key_offset == IF off > lcp_len + 1 THEN off ELSE lcp_len + 1
       IN reduce_loop(below, item_merge(left, right, key_offset, n), lcp_len, n)

\* MergeStackItem::reduce: the bits shared with the top of the stack, and the
\* stack after merging what the new key can no longer be grouped with.
reduce(stack, key, n) ==
  IF stack = <<>> THEN [lcp |-> 0, stack |-> stack]
  ELSE LET top == Last(stack)
           lcp_len == Len(Lcp(top.prefix, key))
       IN [lcp |-> lcp_len,
           stack |-> IF lcp_len <= top.lcp THEN reduce_loop(Front(stack), top, lcp_len, n)
                     ELSE stack]

RECURSIVE finalize_loop(_, _, _)
finalize_loop(stack, result, n) ==
  IF stack = <<>> THEN result
  ELSE LET left == Last(stack)
           key_offset == IF Len(stack) = 1 THEN 0 ELSE left.lcp + 1
       IN finalize_loop(Front(stack), item_merge(left, result, key_offset, n), n)

\* Mutant: the root label of a dictionary with one entry is not written.
MutFinalizeNoLabel(stack, n) ==
  IF stack = <<>> THEN NoCell ELSE finalize_loop(Front(stack), Last(stack), n).cell

\* MergeStackItem::finalize with MergeStackItem::build.
finalize(stack, n) ==
  IF stack = <<>> THEN NoCell
  ELSE LET item == finalize_loop(Front(stack), Last(stack), n)
       IN IF item.kind = "node" THEN item.cell
          ELSE relabel(item.cell, write_label(item.prefix, n))

\* MergeStackItem::{add_value, add_raw_leaf, add_flattened_subtree, add_subtree}.
add_value(stack, key, v, e) ==
  LET r == reduce(stack, key, Len(key)) IN Append(r.stack, LeafItem(key, v, e, r.lcp))
add_raw_leaf(stack, prefix, cell) ==
  LET r == reduce(stack, prefix, Len(prefix)) IN Append(r.stack, DenormItem(prefix, cell, r.lcp))
add_flattened_subtree(stack, prefix, n, cell) ==
  LET full == prefix \o read_label(cell.lab, n)
      r == reduce(stack, full, Len(prefix) + n)
  IN Append(r.stack, DenormItem(full, cell, r.lcp))
add_subtree(stack, prefix, n, cell) ==
  LET r == reduce(stack, prefix, Len(prefix) + n)
  IN Append(r.stack, NodeItem(prefix, cell, r.lcp))

-----------------------------------------------------------------------------
(* build_dict_from_sorted_iter and build_aug_dict_from_sorted_iter          *)

\* The `Ord` of the key type K: numbers, in two's complement when signed.
KeyLess(j, k, signed) ==
  LET i == Len(Lcp(j, k)) + 1
  IN j # k /\ (IF signed /\ i = 1 THEN j[i] > k[i] ELSE j[i] < k[i])

\* The checks on the entries <<key, value, extra>>: a repeated key is skipped, a
\* descending one is an error.
sorted_unique(entries, signed) ==
  LET step(acc, en) ==
        IF acc = Err THEN Err
        ELSE IF acc = <<>> THEN <<en>>
        ELSE IF en[1] = Last(acc)[1] THEN acc
        ELSE IF KeyLess(en[1], Last(acc)[1], signed) THEN Err
        ELSE Append(acc, en)
  IN FoldLeft(step, <<>>, entries)

build_from_sorted(entries, n, signed) ==
  LET es == sorted_unique(entries, signed)
      step(stack, en) == add_value(stack, en[1], en[2], en[3])
  IN IF es = Err THEN Err ELSE finalize(FoldLeft(step, <<>>, es), n)

-----------------------------------------------------------------------------
(* dict_modify_from_sorted_iter.  An item of the iterator stack is a node   *)
(* of the old trie on the path to the current key.                          *)
(*   state    -1 unused, 0 left child used, 1 right child used, 2 all used  *)
(*   flatten  its children are to be merged with it                         *)
(*   bits     key bits after its label, the fork bit included               *)

iter_load(prefix, n, cell) ==
  LET label == read_label(cell.lab, n)
  IN [prefix |-> prefix, cell |-> cell, label |-> label, state |-> -1,
      flatten |-> FALSE, bits |-> n - Len(label)]

\* IterStackItem::add_subtrees: the children after the last used one, up to `until`.
add_subtrees(item, until, flatten, res) ==
  LET prefix(i) == item.prefix \o item.label \o <<i>>
      add(i, r) ==
        IF i > until \/ i <= item.state THEN r
        ELSE IF flatten \/ item.flatten
          THEN add_flattened_subtree(r, prefix(i), item.bits - 1, item.cell.kids[i + 1])
        ELSE add_subtree(r, prefix(i), item.bits - 1, item.cell.kids[i + 1])
  IN IF item.bits = 0 THEN add_raw_leaf(res, item.prefix \o item.label, item.cell)
     ELSE add(1, add(0, res))

\* IterStackItem::do_seek: extend the path towards the rest of the key.
RECURSIVE do_seek(_, _, _, _)
do_seek(iter, key, before_remove, res) ==
  LET item == Last(iter)
      rest == Drop(key, Len(item.label))
      i == rest[1]
      child == iter_load(item.prefix \o item.label \o <<i>>, Len(rest) - 1, item.cell.kids[i + 1])
  IN IF ~IsPrefix(item.label, key)
       THEN [iter |-> iter, res |-> res, found |-> FALSE, rest |-> key]
     ELSE IF rest = <<>> THEN [iter |-> iter, res |-> res, found |-> TRUE, rest |-> key]
     ELSE do_seek(Front(iter) \o <<[item EXCEPT !.state = i], child>>, Tail(rest),
                  before_remove, add_subtrees(item, i - 1, before_remove, res))

\* IterStackItem::seek_next: pop what the new key does not share with the old.
RECURSIVE seek_unwind(_, _, _, _)
seek_unwind(iter, common_bits, flatten, res) ==
  LET item == Last(iter)
      f == flatten \/ item.flatten
  IN IF iter = <<>> THEN [iter |-> iter, res |-> res]
     ELSE IF Len(item.prefix) > common_bits
       THEN seek_unwind(Front(iter), common_bits, f,
                        IF item.state = 2 THEN res ELSE add_subtrees(item, 1, f, res))
     ELSE [iter |-> Front(iter) \o <<[item EXCEPT !.flatten = f]>>, res |-> res]

seek_next(iter, prev_key, key, before_remove, res) ==
  IF Len(iter) = 1 /\ Last(iter).state = 2
    THEN [iter |-> iter, res |-> res, found |-> FALSE, rest |-> key]
  ELSE LET u == seek_unwind(iter, Len(Lcp(prev_key, key)), before_remove, res)
       IN do_seek(u.iter, Drop(key, Len(Last(u.iter).prefix)), before_remove, u.res)

\* IterStackItem::seek_end: whatever is left of the old trie goes to the result.
RECURSIVE seek_end(_, _, _)
seek_end(iter, flatten, res) ==
  LET item == Last(iter)
      f == flatten \/ item.flatten
  IN IF iter = <<>> THEN res
     ELSE seek_end(Front(iter), f, IF item.state = 2 THEN res ELSE add_subtrees(item, 1, f, res))

\* lex_cmp of two bit strings: is s greater than t?
LexGreater(s, t) ==
  LET k == Len(Lcp(s, t)) IN
  IF k = Len(s) THEN FALSE ELSE IF k = Len(t) THEN TRUE ELSE s[k + 1] > t[k + 1]

\* seek_first or seek_next: the path to the key of an entry.
seek(root, st, key, before_remove) ==
  IF st.first THEN do_seek(<<iter_load(<<>>, Len(key), root)>>, key, before_remove, st.res)
  ELSE seek_next(st.iter, st.prev, key, before_remove, st.res)

\* The key is past the label of the edge it leaves: what is below the edge goes first.
past_edge(s) ==
  /\ ~s.found /\ Last(s.iter).state # 2
  /\ LexGreater(s.rest, Last(s.iter).label)
pass_edge(s) == IF past_edge(s) THEN add_subtrees(Last(s.iter), 1, FALSE, s.res) ELSE s.res
put_value(res, en) == IF en[2] = NoVal THEN res ELSE add_value(res, en[1], en[2], en[3])

\* The node of the path where the key was found or passed is used up.
use_node(s, item) ==
  IF s.found \/ past_edge(s) THEN [item EXCEPT !.state = 2] ELSE item

\* Mutant: a removed leaf does not make its fork merge with the sibling.
MutModifyNoFlatten(s, en) ==
  [first |-> FALSE, prev |-> en[1], res |-> put_value(pass_edge(s), en),
   iter |-> Front(s.iter) \o <<use_node(s, Last(s.iter))>>]

\* Mutant: a batch key past the label of an edge drops what is below the edge.
MutModifyDropsEdge(s, en) ==
  LET flatten == s.found /\ en[2] = NoVal
  IN [first |-> FALSE, prev |-> en[1], res |-> put_value(s.res, en),
      iter |-> Front(s.iter) \o <<use_node(s, [Last(s.iter) EXCEPT !.flatten = @ \/ flatten])>>]

\* The body of the loop for an entry <<key, value or NoVal, extra>> after the seek.
modify_entry(s, en) ==
  LET flatten == s.found /\ en[2] = NoVal
  IN [first |-> FALSE, prev |-> en[1], res |-> put_value(pass_edge(s), en),
      iter |-> Front(s.iter) \o <<use_node(s, [Last(s.iter) EXCEPT !.flatten = @ \/ flatten])>>]

finish_modify(st, n) == finalize(seek_end(st.iter, FALSE, st.res), n)

\* An empty dictionary is built anew from the entries that carry a value.
modify_from_sorted(dict, entries, n, signed) ==
  IF dict = NoCell
    THEN build_from_sorted(SelectSeq(entries, LAMBDA en : en[2] # NoVal), n, signed)
  ELSE LET es == sorted_unique(entries, signed)
           step(st, en) == modify_entry(seek(dict, st, en[1], en[2] = NoVal), en)
           st0 == [first |-> TRUE, prev |-> <<>>, iter |-> <<>>, res |-> <<>>]
       IN IF es = Err THEN Err
          ELSE IF es = <<>> THEN dict
          ELSE finish_modify(FoldLeft(step, st0, es), n)

-----------------------------------------------------------------------------
(* Splitting and merging                                                    *)

Halves(l, r) == [left |-> l, right |-> r]
ErrHalves == Halves(Err, Err)

\* Mutant: the labels of the halves do not start with the prefix.
MutSplitNoPrefix(dict, n, key_prefix) ==
  LET label == read_label(dict.lab, n)
      sub == n - Len(label) - 1
      branch(bit) ==
        LET c == dict.kids[bit + 1]
        IN relabel(c, write_label(<<bit>> \o read_label(c.lab, sub), n))
  IN IF n = 0 \/ dict = NoCell THEN Halves(NoCell, NoCell)
     ELSE IF ~IsPrefix(key_prefix, label) THEN ErrHalves
     ELSE IF label # key_prefix
       THEN IF label[Len(key_prefix) + 1] = 1 THEN Halves(NoCell, dict) ELSE Halves(dict, NoCell)
     ELSE IF sub < 0 THEN ErrHalves
     ELSE Halves(branch(0), branch(1))

\* dict_split_by_prefix: both halves keep full keys.
dict_split_by_prefix(dict, n, key_prefix) ==
  LET label == read_label(dict.lab, n)
      sub == n - Len(label) - 1
      branch(bit) ==
        LET c == dict.kids[bit + 1]
        IN relabel(c, write_label(key_prefix \o <<bit>> \o read_label(c.lab, sub), n))
  IN IF n = 0 \/ dict = NoCell THEN Halves(NoCell, NoCell)
     ELSE IF ~IsPrefix(key_prefix, label) THEN ErrHalves
     ELSE IF label # key_prefix
       THEN IF label[Len(key_prefix) + 1] = 1 THEN Halves(NoCell, dict) ELSE Halves(dict, NoCell)
     ELSE IF sub < 0 THEN ErrHalves
     ELSE Halves(branch(0), branch(1))

\* dict_split_raw: the branches as they are, with the bits that remain of the key.
dict_split_raw(dict, n) ==
  LET label == read_label(dict.lab, n)
      parts(rest, l, r) == [remaining_bit_len |-> rest, left_branch |-> l, right_branch |-> r]
  IN IF n = 0 \/ dict = NoCell THEN parts(n, NoCell, NoCell)
     ELSE IF label = Err THEN parts(n, Err, Err)
     ELSE IF label = <<>> THEN parts(n - 1, dict.kids[1], dict.kids[2])
     ELSE IF label[1] = 1 THEN parts(n, NoCell, dict)
     ELSE parts(n, dict, NoCell)

\* Mutant: the extra of the new root is that of the left half.
MutMergeLeftExtra(left, right, n) ==
  LET ll == read_label(left.lab, n)
      rl == read_label(right.lab, n)
      lcp == Lcp(ll, rl)
      child(c, l) == relabel(c, write_label(Drop(l, Len(lcp) + 1), n - 1 - Len(lcp)))
  IN IF left = NoCell THEN right
     ELSE IF right = NoCell THEN left
     ELSE [make_fork(write_label(lcp, n), child(left, ll), child(right, rl))
             EXCEPT !.ext = left.ext]

\* dict_merge_sibling_roots behind dict_merge_siblings and aug_dict_merge_siblings.
dict_merge_siblings(left, right, n) ==
  LET ll == read_label(left.lab, n)
      rl == read_label(right.lab, n)
      lcp == Lcp(ll, rl)
      min_len == IF Len(ll) < Len(rl) THEN Len(ll) ELSE Len(rl)
      rest == n - 1 - Len(lcp)
      child(c, l) == relabel(c, write_label(Drop(l, Len(lcp) + 1), rest))
  IN IF left = NoCell THEN right
     ELSE IF right = NoCell THEN left
     ELSE IF min_len = 0 \/ Len(lcp) >= min_len \/ n < Len(lcp) + 1 THEN Err
     ELSE IF ll[Len(lcp) + 1] = 1 \/ rl[Len(lcp) + 1] = 0 THEN Err
     ELSE make_fork(write_label(lcp, n), child(left, ll), child(right, rl))

\* RawIter over the entries of a trie: forwards or in reverse, and with the
\* fork at the first bit of a signed key the other way round.
RECURSIVE iter_from(_, _, _, _, _)
iter_from(c, n, prefix, reversed, signed) ==
  LET p == read_label(c.lab, n)
      key == prefix \o p
      first == IF reversed # (signed /\ key = <<>>) THEN 1 ELSE 0
      branch(bit) == iter_from(c.kids[bit + 1], n - Len(p) - 1, key \o <<bit>>, reversed, signed)
  IN IF c.kids = <<>> THEN <<<<key, c.val, c.ext>>>> ELSE branch(first) \o branch(1 - first)

raw_iter_ext(dict, n, reversed, signed) ==
  IF dict = NoCell THEN <<>> ELSE iter_from(dict, n, <<>>, reversed, signed)
raw_iter(dict, n) == raw_iter_ext(dict, n, FALSE, FALSE)

\* The comparison of UnionRawIter::next; l and r differ.
left_is_next(l, r, reversed, signed) ==
  LET i == Len(Lcp(l, r)) + 1
  IN (l[i] = 0) # (reversed # (signed /\ l[1] # r[1]))

\* UnionRawIter: what either iterator would give next (left_peeked, right_peeked)
\* is the head of its sequence.
RECURSIVE union_from(_, _, _, _)
union_from(left, right, reversed, signed) ==
  LET l == Head(left)
      r == Head(right)
  IN IF left = <<>> /\ right = <<>> THEN <<>>
     ELSE IF right = <<>> \/ (left # <<>> /\ l[1] # r[1] /\ left_is_next(l[1], r[1], reversed, signed))
       THEN <<<<l[1], l[2], NoVal>>>> \o union_from(Tail(left), right, reversed, signed)
     ELSE IF left # <<>> /\ l[1] = r[1]
       THEN <<<<l[1], l[2], r[2]>>>> \o union_from(Tail(left), Tail(right), reversed, signed)
     ELSE <<<<r[1], NoVal, r[2]>>>> \o union_from(left, Tail(right), reversed, signed)

iter_union(left, right, n, reversed, signed) ==
  union_from(raw_iter_ext(left, n, reversed, signed), raw_iter_ext(right, n, reversed, signed),
             reversed, signed)

\* dict_merge: the guard compares the sizes of the root cells with each other and
\* with the key length.
dict_merge(left, right, n) ==
  IF right = NoCell THEN left
  ELSE IF left = NoCell THEN right
  ELSE IF cell_bit_len(left) # cell_bit_len(right) /\ cell_bit_len(left) # n THEN Err
  ELSE FoldLeft(LAMBDA d, en : dict_insert(d, en[1], en[2], en[3], "Set").cell,
                left, raw_iter(right, n))
=============================================================================
