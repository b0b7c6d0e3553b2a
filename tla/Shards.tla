------------------------------- MODULE Shards -------------------------------
(***************************************************************************)
(* Shards of a workchain and the tree of their descriptions.               *)
(*                                                                         *)
(* A `ShardIdent` is a workchain and a prefix: a word of WIDTH bits (64 in *)
(* the code) whose lowest set bit, the tag, ends the bits that the         *)
(* accounts of the shard have in common.  `ShardHashes` keeps, for each    *)
(* workchain, a binary tree of cells with a leaf per shard.                *)
(***************************************************************************)
EXTENDS Integers, Sequences, FiniteSets, SequencesExt, Bitwise

CONSTANTS
  WIDTH,            \* bits of a prefix
  BYTE,             \* bits of a byte; a divisor of WIDTH
  MAX_SPLIT_DEPTH,  \* 60 in the code
  None, Unbalanced, Broken

MASTERCHAIN == -1
Words == 0..(2^WIDTH - 1)

----------------------------------------------------------------------------
(* ShardIdent.                                                             *)

Shl(x) == (2 * x) % 2^WIDTH
Neg(x) == (2^WIDTH - x) % 2^WIDTH

PREFIX_FULL == 2^(WIDTH - 1)
UNUSED_BITS_MASK == 2^(WIDTH - MAX_SPLIT_DEPTH - 1) - 1
Ident(wc, prefix) == [workchain |-> wc, prefix |-> prefix]

new(wc, prefix) ==
  IF \/ prefix = 0
     \/ (prefix & UNUSED_BITS_MASK) # 0
     \/ wc = MASTERCHAIN /\ prefix # PREFIX_FULL
  THEN None ELSE Ident(wc, prefix)

new_full(wc) == Ident(wc, PREFIX_FULL)
is_full(s) == s.prefix = PREFIX_FULL

prefix_tag_mask(s) == Neg(s.prefix)
prefix_tag(s) == s.prefix & prefix_tag_mask(s)
prefix_len(s) == CHOOSE n \in 0..(WIDTH - 1) : prefix_tag(s) = 2^(WIDTH - 1 - n)

\* The whole workchain has no parent and counts as a left child.
is_right_child(s) == (s.prefix & Shl(prefix_tag(s))) # 0
is_left_child(s) == ~is_right_child(s)

ParentPrefix(s) == (s.prefix - prefix_tag(s)) | Shl(prefix_tag(s))
is_parent_of(s, child) ==
  /\ s.workchain = child.workchain
  /\ ~is_full(child)
  /\ ParentPrefix(child) = s.prefix

\* The mask is made of the prefix, not of its tag: see AncestorIsPrefix.
is_ancestor_of(s, t) ==
  /\ s.workchain = t.workchain
  /\ prefix_tag(s) >= prefix_tag(t)
  /\ ((s.prefix ^^ t.prefix) & Shl(prefix_tag_mask(s))) = 0

intersects(s, t) ==
  LET tag == IF prefix_tag(t) > prefix_tag(s) THEN prefix_tag(t) ELSE prefix_tag(s) IN
  s.workchain = t.workchain /\ ((s.prefix ^^ t.prefix) & Shl(Neg(tag))) = 0

merge(s) == IF is_full(s) THEN None ELSE Ident(s.workchain, ParentPrefix(s))

split(s) ==
  LET tag == prefix_tag(s) \div 2 IN
  IF (s.prefix & (Shl(UNUSED_BITS_MASK) + 1)) # 0 THEN None
  ELSE <<Ident(s.workchain, s.prefix - tag), Ident(s.workchain, s.prefix + tag)>>

can_split(s) == prefix_len(s) < MAX_SPLIT_DEPTH

opposite(s) ==
  IF is_full(s) THEN None ELSE Ident(s.workchain, s.prefix ^^ Shl(prefix_tag(s)))

\* Whole bytes first, then the bits of the last one.
Byte(x, i) == (x \div 2^(WIDTH - (BYTE * (i + 1)))) % 2^BYTE
\* A bug: the bits behind the last whole byte are not compared.
MutContains(s, account) ==
  \A i \in 0..((prefix_len(s) \div BYTE) - 1) : Byte(s.prefix, i) = Byte(account, i)

contains_account_prefix(s, account) ==
  LET len == prefix_len(s)
      whole == len \div BYTE
      bits == len % BYTE
      mask == 2^BYTE - 2^(BYTE - bits)
  IN  /\ \A i \in 0..(whole - 1) : Byte(s.prefix, i) = Byte(account, i)
      /\ bits > 0 => ((Byte(s.prefix, whole) ^^ Byte(account, whole)) & mask) = 0

\* The prefix is stored without its tag, the length says where it was.
store_ident(s) == <<prefix_len(s), s.workchain, s.prefix - prefix_tag(s)>>
load_ident(x) ==
  LET tag == 2^(WIDTH - 1 - x[1]) IN
  IF x[1] > MAX_SPLIT_DEPTH THEN None ELSE Ident(x[2], (x[3] & Neg(tag)) | tag)

----------------------------------------------------------------------------
(* ShardHashes::from_shards.                                               *)

\* The cells of a tree.  A pruned cell is what a proof leaves of a subtree; a
\* leaf whose description is None holds one that `load_from` refuses.
make_leaf(descr) == [kind |-> "leaf", descr |-> descr, refs |-> <<>>]
make_edge(left, right) == [kind |-> "edge", descr |-> None, refs |-> <<left, right>>]
PrunedCell == [kind |-> "pruned", descr |-> None, refs |-> <<>>]

Before(s, t) ==
  \/ s.workchain < t.workchain
  \/ s.workchain = t.workchain /\ s.prefix < t.prefix
SortedBy(S, lt(_, _)) ==
  LET before == [s \in S |-> Cardinality({t \in S : lt(t, s)})] IN
  [i \in 1..Cardinality(S) |-> CHOOSE s \in S : before[s] = i - 1]
ShardsOf(given, wc) == SortedBy({s \in given : s.workchain = wc}, Before)
Frame(s, cell) == [shard |-> s, cell |-> cell]

\* A bug: two neighbours are joined without a look at their parents.
RECURSIVE MutClimb(_, _, _)
MutClimb(stack, next, rest) ==
  CASE is_left_child(next.shard) ->
         IF rest = <<>> THEN Unbalanced
         ELSE MutClimb(Append(stack, next), Frame(Head(rest), make_leaf(Head(rest))), Tail(rest))
    [] stack = <<>> -> Unbalanced
    [] OTHER ->
         LET parent == Frame(merge(next.shard), make_edge(Last(stack).cell, next.cell)) IN
         IF is_full(parent.shard) THEN parent.cell ELSE MutClimb(Front(stack), parent, rest)

\* The loops of try_build_raw: a left child waits on the stack for its sibling,
\* a right child is joined with the one on top into their parent.
RECURSIVE climb(_, _, _)
climb(stack, next, rest) ==
  CASE is_left_child(next.shard) ->
         IF rest = <<>> THEN Unbalanced
         ELSE climb(Append(stack, next), Frame(Head(rest), make_leaf(Head(rest))), Tail(rest))
    [] stack = <<>> -> Unbalanced
    [] merge(Last(stack).shard) = None \/ merge(Last(stack).shard) # merge(next.shard) -> Unbalanced
    [] OTHER ->
         LET parent == Frame(merge(next.shard), make_edge(Last(stack).cell, next.cell)) IN
         IF is_full(parent.shard) THEN parent.cell ELSE climb(Front(stack), parent, rest)

\* The shards that are left when the root is made are not looked at.
try_build_raw(shards) ==
  LET first == Head(shards) IN
  CASE is_full(first) -> make_leaf(first)
    [] is_right_child(first) -> Unbalanced
    [] OTHER -> climb(<<>>, Frame(first, make_leaf(first)), Tail(shards))

from_shards(given) ==
  LET dict == [wc \in {s.workchain : s \in given} |-> try_build_raw(ShardsOf(given, wc))] IN
  IF \E wc \in DOMAIN dict : dict[wc] = Unbalanced THEN Unbalanced ELSE dict

----------------------------------------------------------------------------
(* Iterators.                                                              *)

IsExotic(cell) == cell.kind = "pruned"

\* WorkchainShardsTreeRawIter.
tree_iter(wc, root) ==
  [workchain |-> wc,
   leaf |-> IF root.kind = "leaf" THEN root ELSE None,
   segments |-> IF root.kind = "edge" THEN <<[data |-> root, is_right |-> FALSE]>> ELSE <<>>,
   status |-> IF IsExotic(root) THEN "unexpected" ELSE "valid"]

\* The first leaf below the last segment, with the segments that lead to it.
RECURSIVE leftmost(_)
leftmost(segments) ==
  LET last == Last(segments)
      child == last.data.refs[IF last.is_right THEN 2 ELSE 1]
  IN  CASE IsExotic(child) -> [leaf |-> None, segments |-> segments]
        [] child.kind = "leaf" -> [leaf |-> child, segments |-> segments]
        [] Len(segments) < MAX_SPLIT_DEPTH ->
             leftmost(Append(segments, [data |-> child, is_right |-> FALSE]))
        [] OTHER -> [leaf |-> None, segments |-> segments]

build_shard_prefix(segments) ==
  FoldRight(LAMBDA seg, prefix : (IF seg.is_right THEN PREFIX_FULL ELSE 0) | (prefix \div 2),
            segments, PREFIX_FULL)

\* Finished segments are dropped, the last one that is left turns right.
advance(segments) ==
  LET open == {i \in DOMAIN segments : ~segments[i].is_right}
      n == CHOOSE i \in open : \A j \in open : j <= i
  IN  IF open = {} THEN <<>>
      ELSE Append(SubSeq(segments, 1, n - 1), [segments[n] EXCEPT !.is_right = TRUE])

\* A call of next: the item, None at the end, and the iterator after the call.
tree_next(it) ==
  LET found == IF it.leaf # None THEN [leaf |-> it.leaf, segments |-> it.segments]
               ELSE leftmost(it.segments)
  IN  CASE it.status = "unexpected" -> [item |-> Broken, it |-> [it EXCEPT !.status = "broken"]]
        [] it.status = "broken" -> [item |-> None, it |-> it]
        [] it.leaf = None /\ it.segments = <<>> -> [item |-> None, it |-> it]
        [] found.leaf = None -> [item |-> Broken, it |-> [it EXCEPT !.status = "broken"]]
        [] OTHER -> [item |-> Frame(Ident(it.workchain, build_shard_prefix(found.segments)), found.leaf),
                     it |-> [it EXCEPT !.leaf = None, !.segments = advance(found.segments)]]

\* The order of the dictionary's iterator: keys as unsigned numbers.
Unsigned(wc1, wc2) == IF wc1 >= 0 /\ wc2 < 0 THEN TRUE ELSE (wc1 >= 0 <=> wc2 >= 0) /\ wc1 < wc2
Workchains(dict) == SortedBy(DOMAIN dict, Unsigned)

\* ShardsTreeRawIter: the trees still to open, the one that is open.
shards_iter(dict) ==
  [todo |-> [i \in 1..Cardinality(DOMAIN dict) |-> <<Workchains(dict)[i], dict[Workchains(dict)[i]]>>],
   inner |-> None, status |-> "valid"]

\* An error of a tree ends that tree; the iterator goes on with the next one.
RECURSIVE shards_next(_)
shards_next(it) ==
  LET got == tree_next(it.inner) IN
  CASE it.status # "valid" -> [item |-> None, it |-> it]
    [] it.inner # None /\ got.item # None -> [item |-> got.item, it |-> [it EXCEPT !.inner = got.it]]
    [] it.todo = <<>> -> [item |-> None, it |-> [it EXCEPT !.inner = None]]
    [] OTHER -> shards_next([it EXCEPT !.todo = Tail(@),
                                       !.inner = tree_iter(Head(it.todo)[1], Head(it.todo)[2])])

\* ShardHashesIter and LatestBlocksIter read the description: one that cannot
\* be read breaks the iterator.
read_next(it) ==
  LET got == shards_next(it) IN
  IF got.item \notin {None, Broken} /\ got.item.cell.descr = None
  THEN [item |-> Broken, it |-> [got.it EXCEPT !.status = "broken"]]
  ELSE got
=============================================================================
