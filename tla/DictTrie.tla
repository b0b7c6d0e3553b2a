------------------------------ MODULE DictTrie ------------------------------
(***************************************************************************)
(* The binary Patricia trie behind Dict, RawDict and AugDict (src/dict).   *)
(*                                                                         *)
(* A key is a sequence of bits.  A cell of the trie is a record:           *)
(*   lab   the label as it is written (see write_label),                   *)
(*   kids  <<>> for a leaf, <<left, right>> for a fork,                    *)
(*   val   the value of a leaf, NoVal for a fork,                          *)
(*   ext   the extra of an augmented dictionary, 0 in a plain one.         *)
(* Two dictionaries have the same root hash iff their records are equal.   *)
(* NoCell is the empty dictionary.  Err is any `Err(..)` the code returns. *)
(*                                                                         *)
(* Loops that descend into the trie with a stack and rebuild the stack     *)
(* afterwards are recursive operators that descend and rebuild on return.  *)
(***************************************************************************)
EXTENDS Integers, Sequences, FiniteSets, SequencesExt

CONSTANTS NoCell, NoVal, Err,
          ValBits,          \* size in bits of a stored value
          Aug,              \* TRUE: augmented dictionary
          Comparator(_, _)  \* the extra of a fork from those of its children

Bit == {0, 1}
Drop(s, k) == SubSeq(s, k + 1, Len(s))
\* The longest common prefix (longest_common_data_prefix of CellSlice).
Lcp(s, t) ==
  LET n == IF Len(s) < Len(t) THEN Len(s) ELSE Len(t)
      k == CHOOSE k \in 0..n : /\ \A i \in 1..k : s[i] = t[i]
                              /\ k < n => s[k + 1] # t[k + 1]
  IN SubSeq(s, 1, k)
Uniform(s) == s # <<>> /\ \A i \in 1..Len(s) : s[i] = s[1]

-----------------------------------------------------------------------------
(* Labels                                                                   *)

\* 16 - key_bit_len.leading_zeros()
bits_for_len(n) == CHOOSE w \in 0..16 : 2^w > n /\ (w > 0 => 2^(w - 1) <= n)

hml_short(s) == [form |-> "short", w |-> 0, bits |-> s]
hml_long(s, w) == [form |-> "long", w |-> w, bits |-> s]
hml_same(s, w) == [form |-> "same", w |-> w, bits |-> s]

label_bit_len(lab) ==
  LET len == Len(lab.bits) IN
  CASE lab.form = "short" -> 2 + 2 * len
    [] lab.form = "long" -> 2 + lab.w + len
    [] OTHER -> 3 + lab.w

write_label(s, n) ==
  LET w == bits_for_len(n)
      short_len == 2 + 2 * Len(s)
      long_len == 2 + w + Len(s)
      same_len == 3 + w
  IN IF n = 0 \/ s = <<>> THEN hml_short(<<>>)
     ELSE IF same_len < long_len /\ same_len < short_len /\ Uniform(s) THEN hml_same(s, w)
     ELSE IF short_len <= long_len THEN hml_short(s) ELSE hml_long(s, w)

\* The label of an edge that absorbs its parent's label and the fork bit.
write_label_parts(pfx, bit, rem, n) ==
  LET w == bits_for_len(n)
      len == Len(pfx) + 1 + Len(rem)
      short_len == 2 + 2 * len
      long_len == 2 + w + len
      same_len == 3 + w
      all(s) == s = <<>> \/ (Uniform(s) /\ s[1] = bit)
      s == pfx \o <<bit>> \o rem
  IN IF n = 0 THEN hml_short(<<>>)
     ELSE IF same_len < long_len /\ same_len < short_len /\ all(pfx) /\ all(rem)
       THEN hml_same(s, w)
     ELSE IF short_len <= long_len THEN hml_short(s) ELSE hml_long(s, w)

\* A label whose length field has another width than the reader assumes cannot
\* be decoded: what the code reads then is unrelated bits.
read_label(lab, n) ==
  IF lab.form = "short" \/ lab.w = bits_for_len(n) THEN lab.bits ELSE Err

-----------------------------------------------------------------------------
(* Cells                                                                    *)

\* A leaf with its value, or with the remaining data (children, value and
\* extra) of an existing cell under a new label.
make_leaf(s, n, v, e) == [lab |-> write_label(s, n), kids |-> <<>>, val |-> v, ext |-> e]
relabel(c, lab) == [c EXCEPT !.lab = lab]
make_fork(lab, l, r) ==
  [lab |-> lab, kids |-> <<l, r>>, val |-> NoVal,
   ext |-> IF Aug THEN Comparator(l.ext, r.ext) ELSE 0]

\* Size of the data of a cell: label, value and nothing for a plain fork.
cell_bit_len(c) == label_bit_len(c.lab) + (IF c.kids = <<>> THEN ValBits ELSE 0)

\* split_edge and split_aug_edge: lcp is shorter than both the label and the key.
split_edge(c, prefix, lcp, key, v, e) ==
  LET rest == Drop(key, Len(lcp) + 1)
      old == relabel(c, write_label(Drop(prefix, Len(lcp) + 1), Len(rest)))
      new == make_leaf(rest, Len(rest), v, e)
  IN IF prefix[Len(lcp) + 1] = 1
       THEN make_fork(write_label(lcp, Len(key)), new, old)
       ELSE make_fork(write_label(lcp, Len(key)), old, new)

\* Mutant: an augmented fork keeps the extra it had.
MutRebuildKeepsExtra(c, n, bit, child) ==
  [c EXCEPT !.kids = IF bit = 0 THEN <<child, c.kids[2]>> ELSE <<c.kids[1], child>>]

\* One step of rebuild_dict_from_stack (the data of the fork is copied) and of
\* rebuild_aug_dict_from_stack (the fork is written anew with its extra).
rebuild(c, n, bit, child) ==
  LET l == IF bit = 0 THEN child ELSE c.kids[1]
      r == IF bit = 0 THEN c.kids[2] ELSE child
  IN IF Aug THEN make_fork(write_label(read_label(c.lab, n), n), l, r)
     ELSE [c EXCEPT !.kids = <<l, r>>]

\* Segment::rebuild_as_removed, also inlined in dict_remove_bound_owned: the
\* sibling takes the place of its parent.
rebuild_as_removed(c, bit, n) ==
  LET pfx == read_label(c.lab, n)
      opposite == c.kids[2 - bit]
      rem == read_label(opposite.lab, n - Len(pfx) - 1)
  IN relabel(opposite, write_label_parts(pfx, 1 - bit, rem, n))

-----------------------------------------------------------------------------
(* dict_get, dict_insert, dict_remove                                       *)

can_replace(mode) == mode \in {"Set", "Replace"}
can_add(mode) == mode \in {"Set", "Add"}

RECURSIVE get_from(_, _)
get_from(c, key) ==
  LET p == read_label(c.lab, Len(key))
      rest == Drop(key, Len(p))
  IN IF p = Err THEN Err
     ELSE IF ~IsPrefix(p, key) THEN NoVal
     ELSE IF rest = <<>> THEN c.val
     ELSE IF c.kids = <<>> THEN Err
     ELSE get_from(c.kids[rest[1] + 1], Tail(rest))

dict_get(dict, key) == IF dict = NoCell THEN NoVal ELSE get_from(dict, key)

\* dict_get_subdict: the labels are read and written for the length of the prefix,
\* not for that of the remaining key, and a prefix that leaves the trie in the
\* middle of an edge splits that edge with an empty value.
RECURSIVE subdict_from(_, _)
subdict_from(c, prefix) ==
  LET label == read_label(c.lab, Len(prefix))
      lcp == Lcp(prefix, label)
      rest == Drop(prefix, Len(lcp))
  IN IF label = Err THEN Err
     ELSE IF rest = <<>> THEN relabel(c, write_label(label, Len(lcp)))
     ELSE IF Len(lcp) < Len(label) THEN split_edge(c, label, lcp, prefix, NoVal, 0)
     ELSE IF c.kids = <<>> THEN Err
     ELSE subdict_from(c.kids[rest[1] + 1], Tail(rest))

dict_get_subdict(dict, n, prefix) ==
  IF dict = NoCell THEN NoCell
  ELSE IF prefix = <<>> \/ n < Len(prefix) THEN dict
  ELSE subdict_from(dict, prefix)

\* Outcome of an insertion: the cell in place of c, whether it changed and the
\* value that was found under the key.
InsertResult(cell, changed, prev) == [cell |-> cell, changed |-> changed, prev |-> prev]

RECURSIVE insert_into(_, _, _, _, _)
insert_into(c, key, v, e, mode) ==
  LET p == read_label(c.lab, Len(key))
      lcp == Lcp(key, p)
      bit == key[Len(lcp) + 1]
      sub == insert_into(c.kids[bit + 1], Drop(key, Len(lcp) + 1), v, e, mode)
  IN IF p = Err THEN InsertResult(Err, FALSE, NoVal)
     ELSE IF Len(lcp) = Len(key) THEN
       IF can_replace(mode) THEN InsertResult(make_leaf(p, Len(key), v, e), TRUE, c.val)
       ELSE InsertResult(c, FALSE, c.val)
     ELSE IF Len(lcp) < Len(p) THEN
       IF can_add(mode) THEN InsertResult(split_edge(c, p, lcp, key, v, e), TRUE, NoVal)
       ELSE InsertResult(c, FALSE, NoVal)
     ELSE IF c.kids = <<>> THEN InsertResult(Err, FALSE, NoVal)
     ELSE IF sub.changed THEN InsertResult(rebuild(c, Len(key), bit, sub.cell), TRUE, sub.prev)
     ELSE InsertResult(IF sub.cell = Err THEN Err ELSE c, FALSE, sub.prev)

\* dict_insert, dict_insert_owned and aug_dict_insert.
dict_insert(dict, key, v, e, mode) ==
  IF dict # NoCell THEN insert_into(dict, key, v, e, mode)
  ELSE IF can_add(mode) THEN InsertResult(make_leaf(key, Len(key), v, e), TRUE, NoVal)
  ELSE InsertResult(NoCell, FALSE, NoVal)

\* dict_find_value_to_remove and the rebuilding of the stack; NoVal: not found.
RECURSIVE remove_from(_, _)
remove_from(c, key) ==
  LET p == read_label(c.lab, Len(key))
      lcp == Lcp(key, p)
      bit == key[Len(lcp) + 1]
      sub == remove_from(c.kids[bit + 1], Drop(key, Len(lcp) + 1))
  IN IF p = Err THEN [cell |-> Err, prev |-> NoVal]
     ELSE IF Len(lcp) = Len(key) THEN [cell |-> NoCell, prev |-> c.val]
     ELSE IF Len(lcp) < Len(p) THEN [cell |-> c, prev |-> NoVal]
     ELSE IF c.kids = <<>> THEN [cell |-> Err, prev |-> NoVal]
     ELSE IF sub.cell = NoCell
       THEN [cell |-> rebuild_as_removed(c, bit, Len(key)), prev |-> sub.prev]
     ELSE IF sub.prev = NoVal THEN [cell |-> IF sub.cell = Err THEN Err ELSE c, prev |-> NoVal]
     ELSE [cell |-> rebuild(c, Len(key), bit, sub.cell), prev |-> sub.prev]

\* dict_remove_owned and aug_dict_remove_owned with a full key.
dict_remove(dict, key) ==
  IF dict = NoCell THEN [cell |-> NoCell, prev |-> NoVal] ELSE remove_from(dict, key)

-----------------------------------------------------------------------------
(* Bounds and neighbours                                                    *)

into_branch(bound) == IF bound = "Min" THEN 0 ELSE 1

\* DictBound::update_direction: only the fork at the very first bit of a signed
\* key is inverted; `first` tells that no direction was computed yet.
update_direction(bound, prefix, signed, first) ==
  IF first /\ signed /\ prefix = <<>> THEN 1 - into_branch(bound) ELSE into_branch(bound)

Entry(key, val) == [key |-> key, val |-> val]
NoEntry == Entry(<<>>, NoVal)
ErrEntry == Entry(<<>>, Err)

\* The descent of dict_find_bound and dict_find_bound_owned; n bits remain.
RECURSIVE bound_from(_, _, _, _, _, _)
bound_from(c, n, bound, signed, first, key) ==
  LET p == read_label(c.lab, n)
      bit == update_direction(bound, p, signed, first)
  IN IF p = Err \/ Len(p) > n THEN ErrEntry
     ELSE IF Len(p) = n THEN Entry(key \o p, c.val)
     ELSE IF c.kids = <<>> THEN ErrEntry
     ELSE bound_from(c.kids[bit + 1], n - Len(p) - 1, bound, signed, FALSE, key \o p \o <<bit>>)

dict_find_bound(dict, n, bound, signed) ==
  IF dict = NoCell THEN NoEntry ELSE bound_from(dict, n, bound, signed, TRUE, <<>>)

\* dict_remove_bound_owned: the same descent, then the rebuilding of the stack.
RECURSIVE remove_bound_from(_, _, _, _, _)
remove_bound_from(c, n, bound, signed, first) ==
  LET p == read_label(c.lab, n)
      bit == update_direction(bound, p, signed, first)
      sub == remove_bound_from(c.kids[bit + 1], n - Len(p) - 1, bound, signed, FALSE)
  IN IF p = Err \/ Len(p) > n THEN Err
     ELSE IF Len(p) = n THEN NoCell
     ELSE IF c.kids = <<>> \/ sub = Err THEN Err
     ELSE IF sub = NoCell THEN rebuild_as_removed(c, bit, n)
     ELSE [c EXCEPT !.kids[bit + 1] = sub]

dict_remove_bound(dict, n, bound, signed) ==
  IF dict = NoCell THEN NoCell ELSE remove_bound_from(dict, n, bound, signed, TRUE)

\* First loop of dict_find_owned: the path to the leaf or to the divergence.
\* A segment keeps the fork, the branch taken and the key bits after it.
RECURSIVE find_path(_, _, _, _)
find_path(c, key, stack, signed) ==
  LET p == read_label(c.lab, Len(key))
      lcp == Lcp(key, p)
      bit == key[Len(lcp) + 1]
      out(kind, branch) == [kind |-> kind, branch |-> branch, data |-> c,
                            bits |-> Len(key), stack |-> stack]
  IN IF p = Err THEN out("err", 0)
     ELSE IF Len(lcp) = Len(key) THEN out("value", 0)
     ELSE IF Len(lcp) < Len(p)
       THEN out("divergence", IF signed /\ stack = <<>> /\ lcp = <<>> THEN 1 - bit ELSE bit)
     ELSE IF c.kids = <<>> THEN out("err", 0)
     ELSE LET rest == Drop(key, Len(lcp) + 1)
          IN find_path(c.kids[bit + 1], rest,
                       Append(stack, [data |-> c, branch |-> bit, bits |-> Len(rest)]), signed)

\* Last loop: down from data with n key bits left, always in direction dir.
RECURSIVE find_edge(_, _, _, _)
find_edge(c, n, dir, key) ==
  LET p == read_label(c.lab, n)
  IN IF p = Err \/ Len(p) > n THEN ErrEntry
     ELSE IF Len(p) = n THEN Entry(key \o p, c.val)
     ELSE IF c.kids = <<>> THEN ErrEntry
     ELSE find_edge(c.kids[dir + 1], n - Len(p) - 1, dir, key \o p \o <<dir>>)

\* Middle loop: pop until a fork that was left in the direction opposite to the
\* search; the fork at the first bit of a signed key counts the other way round.
RECURSIVE find_rewind(_, _, _, _)
find_rewind(stack, key, rev, signed) ==
  LET top == Last(stack)
      prefix_len == Len(key) - top.bits
      signed_root == signed /\ prefix_len = 1
      branch == IF signed_root THEN rev ELSE 1 - rev
      turn == IF signed_root THEN top.branch # rev ELSE top.branch = rev
  IN IF stack = <<>> THEN NoEntry
     ELSE IF turn THEN find_edge(top.data.kids[branch + 1], top.bits, rev,
                                 SubSeq(key, 1, prefix_len - 1) \o <<branch>>)
     ELSE find_rewind(Front(stack), key, rev, signed)

\* Mutant: a key that leaves the trie inside an edge is not told apart.
MutFindNoDivergence(dict, key, towards, inclusive, signed) ==
  LET path == find_path(dict, key, <<>>, signed)
      rev == 1 - into_branch(towards)
  IN IF dict = NoCell THEN NoEntry
     ELSE IF inclusive /\ path.kind = "value" THEN Entry(key, path.data.val)
     ELSE find_rewind(path.stack, key, rev, signed)

\* The entry next to key in the given direction.
dict_find(dict, key, towards, inclusive, signed) ==
  LET path == find_path(dict, key, <<>>, signed)
      rev == 1 - into_branch(towards)
  IN IF dict = NoCell THEN NoEntry
     ELSE IF path.kind = "err" THEN ErrEntry
     ELSE IF inclusive /\ path.kind = "value" THEN Entry(key, path.data.val)
     ELSE IF path.kind = "divergence" /\ path.branch = rev
       THEN find_edge(path.data, path.bits, rev, SubSeq(key, 1, Len(key) - path.bits))
     ELSE find_rewind(path.stack, key, rev, signed)

-----------------------------------------------------------------------------
(* Search by extras                                                         *)

\* SearchByExtra::on_edge of the two flows of the crate: a Branch is taken
\* everywhere, an Ordering leads to the left where the left extra compares so.
on_edge(flow, left, right) ==
  CASE flow = "Left" -> 0
    [] flow = "Right" -> 1
    [] flow = "Less" -> IF left < right THEN 0 ELSE 1
    [] flow = "Equal" -> IF left = right THEN 0 ELSE 1
    [] flow = "Greater" -> IF left > right THEN 0 ELSE 1

\* preload_branch: the parts of a cell with n bits of the key to come.
is_leaf(c, n) == Len(read_label(c.lab, n)) = n
preload_branch(c, n) ==
  LET p == read_label(c.lab, n) IN
  p # Err /\ Len(p) <= n /\ (Len(p) = n \/ Len(c.kids) = 2)

\* aug_dict_find_by_extra: both children are read before one of them is entered.
RECURSIVE find_by_extra_from(_, _, _, _)
find_by_extra_from(c, n, flow, key) ==
  LET p == read_label(c.lab, n)
      rest == n - Len(p) - 1
      bit == on_edge(flow, c.kids[1].ext, c.kids[2].ext)
  IN IF ~preload_branch(c, n) THEN ErrEntry
     ELSE IF is_leaf(c, n) THEN [key |-> key \o p, val |-> c.val, ext |-> c.ext]
     ELSE IF \E i \in 1..2 : ~preload_branch(c.kids[i], rest) THEN ErrEntry
     ELSE find_by_extra_from(c.kids[bit + 1], rest, flow, key \o p \o <<bit>>)

find_by_extra(dict, n, flow) ==
  IF dict = NoCell THEN NoEntry ELSE find_by_extra_from(dict, n, flow, <<>>)
=============================================================================
