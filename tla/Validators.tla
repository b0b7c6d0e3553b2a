----------------------------- MODULE Validators -----------------------------
(***************************************************************************)
(* The validators of a shard: `ValidatorSet::compute_subset` and           *)
(* `compute_mc_subset`.                                                    *)
(*                                                                         *)
(* The numbers come from a generator seeded with the shard and the catchain*)
(* seqno; each is modelled as any number of its range.  A computation is a *)
(* record that the loops of the two functions change one draw at a time;   *)
(* `draws` remembers the numbers drawn.  Overflow of the u64 sums is       *)
(* excluded by the check of `load_from`; `debug_assert`s are not compiled  *)
(* into a release build and have no effect.                                *)
(***************************************************************************)
EXTENDS Integers, Sequences, FiniteSets, SequencesExt

CONSTANT NoSubset  \* compute_subset returned None

\* `prev_total_weight` and `total_weight` as load_from computes them.
WeightBefore(weights, n) == FoldLeft(+, 0, SubSeq(weights, 1, n - 1))
ValidatorSet(weights, main) ==
  [main |-> main,
   total_weight |-> FoldLeft(+, 0, weights),
   list |-> [i \in DOMAIN weights |->
              [key |-> i, weight |-> weights[i], prev |-> WeightBefore(weights, i)]]]

\* Without the validators of the masterchain, weights counted anew.
isolated(vset) ==
  LET list == SubSeq(vset.list, vset.main + 1, Len(vset.list))
      weights == [i \in DOMAIN list |-> list[i].weight]
  IN  [vset EXCEPT !.total_weight = FoldLeft(+, 0, weights),
                   !.list = [i \in DOMAIN list |-> [list[i] EXCEPT !.prev = WeightBefore(weights, i)]]]

AtMost(n, m) == IF n < m THEN n ELSE m

\* The last validator that begins at or before the position.
at_weight(vset, pos) ==
  vset.list[Cardinality({i \in DOMAIN vset.list : vset.list[i].prev <= pos})]

----------------------------------------------------------------------------
(* A shard: count draws without replacement, by weight.                    *)

subset_start(vset, isolate, shard_validators_num) ==
  IF isolate /\ Len(vset.list) <= vset.main THEN NoSubset
  ELSE LET from == IF isolate THEN isolated(vset) ELSE vset IN
       [vset |-> from, count |-> AtMost(Len(from.list), shard_validators_num),
        nodes |-> <<>>, holes |-> <<>>, total_wt |-> from.total_weight, draws |-> <<>>]

next_ranged(range) == IF range = 0 THEN {0} ELSE 0..(range - 1)

\* The position p among the weights that are left, moved over the holes.
RECURSIVE over_holes(_, _)
over_holes(p, holes) ==
  IF holes = <<>> \/ p < Head(holes)[1] THEN p
  ELSE over_holes(p + Head(holes)[2], Tail(holes))

\* A bug: the new hole goes to the end.
MutInsertHole(holes, hole) == Append(holes, hole)

\* Holes stay sorted by (prev_total_weight, weight).
insert_hole(holes, hole) ==
  LET n == Cardinality({i \in DOMAIN holes :
                          \/ holes[i][1] < hole[1]
                          \/ holes[i][1] = hole[1] /\ holes[i][2] <= hole[2]})
  IN  InsertAt(holes, n + 1, hole)

subset_draw(c, p) ==
  LET entry == at_weight(c.vset, over_holes(p, c.holes)) IN
  [c EXCEPT !.nodes = Append(@, [key |-> entry.key, weight |-> 1]),
            !.total_wt = @ - entry.weight,
            !.holes = insert_hole(@, <<entry.prev, entry.weight>>),
            !.draws = Append(@, p)]

----------------------------------------------------------------------------
(* The masterchain: its first validators, shuffled.                        *)

mc_start(vset) ==
  [vset |-> vset, count |-> AtMost(Len(vset.list), vset.main), indices |-> <<>>, draws |-> <<>>]

\* indices[i] = indices[j], then indices[j] = i (counted from 1 here).
mc_draw(c, j) ==
  LET i == Len(c.draws) + 1
      grown == Append(c.indices, IF j < i THEN c.indices[j] ELSE 0)
  IN  [c EXCEPT !.indices = [grown EXCEPT ![j] = i], !.draws = Append(@, j)]

mc_subset(c, shuffle) ==
  [i \in 1..c.count |->
     LET v == c.vset.list[IF shuffle THEN c.indices[i] ELSE i] IN
     [key |-> v.key, weight |-> v.weight]]

\* The checksum is of the catchain seqno, the number and the validators in order.
compute_subset_hash_short(nodes, cc_seqno) == <<cc_seqno, Len(nodes), nodes>>
=============================================================================
