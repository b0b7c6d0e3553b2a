------------------------------- MODULE Models -------------------------------
(***************************************************************************)
(* Shards that split and merge, what `ShardHashes` keeps of them, the      *)
(* validators chosen for them, and the messages of their contracts.        *)
(*                                                                         *)
(* The library has the operations; the node that uses it (not part of this *)
(* repository) decides when shards split and merge.  `shards` is that      *)
(* node's list of shards, changed with `ShardIdent::split` and `merge`.    *)
(* `job` is the call under way: building a `ShardHashes` from a list that  *)
(* may miss a shard or have one too many, walking a `ShardHashes` part of  *)
(* which a proof has pruned or which cannot be read, choosing validators,  *)
(* laying out the values of a message in cells and reading them back.      *)
(***************************************************************************)
EXTENDS Shards, Validators, Abi

CONSTANTS
  Basechains,       \* workchains that split
  ValidatorSets,    \* the validator sets, as built by ValidatorSet
  SubsetSizes,      \* values of shard_validators_num
  Messages          \* what is written and read back with the ABI

VARIABLES shards, job
vars == <<shards, job>>

Idle == [kind |-> "idle"]
Chains == Basechains \cup {MASTERCHAIN}
AllShards == {new(wc, p) : wc \in Chains, p \in Words} \ {None}

Init == shards = {new_full(wc) : wc \in Chains} /\ job = Idle

----------------------------------------------------------------------------
(* Shards.                                                                 *)

Split(s) ==
  /\ job = Idle
  /\ s.workchain # MASTERCHAIN
  /\ split(s) # None
  /\ shards' = (shards \ {s}) \cup ToSet(split(s))
  /\ UNCHANGED job

Merge(s) ==
  /\ job = Idle
  /\ opposite(s) \in shards
  /\ shards' = (shards \ {s, opposite(s)}) \cup {merge(s)}
  /\ UNCHANGED job

----------------------------------------------------------------------------
(* ShardHashes.                                                            *)

\* The shards whose descriptions a tree holds.
RECURSIVE Described(_)
Described(cell) ==
  IF cell.kind = "edge" THEN Described(cell.refs[1]) \cup Described(cell.refs[2]) ELSE {cell.descr}
DescribedIn(dict) ==
  IF dict = Unbalanced THEN {} ELSE UNION {Described(dict[wc]) : wc \in DOMAIN dict}

\* `held` remembers what was built, before anything of it is lost.
HashesOf(given, dict) ==
  [kind |-> "hashes", given |-> given, dict |-> dict, held |-> DescribedIn(dict), damage |-> None]
FromShards(given) ==
  /\ job = Idle
  /\ job' = HashesOf(given, from_shards(given))
  /\ UNCHANGED shards

\* A description of which nothing can be read, and a subtree that a proof pruned.
RECURSIVE damaged(_, _, _)
damaged(cell, path, with) ==
  IF path = <<>> THEN with
  ELSE [cell EXCEPT !.refs[Head(path)] = damaged(@, Tail(path), with)]

RECURSIVE CellAt(_, _)
CellAt(cell, path) == IF path = <<>> THEN cell ELSE CellAt(cell.refs[Head(path)], Tail(path))

\* The way from the root to the cell of a shard.
Path(s) == [i \in 1..prefix_len(s) |-> IF (s.prefix & 2^(WIDTH - i)) # 0 THEN 2 ELSE 1]

RECURSIVE HasPath(_, _)
HasPath(cell, path) ==
  IF path = <<>> THEN TRUE ELSE cell.kind = "edge" /\ HasPath(cell.refs[Head(path)], Tail(path))

Damage(s, how) ==
  /\ job.kind = "hashes"
  /\ job.given = shards
  /\ job.damage = None
  /\ HasPath(job.dict[s.workchain], Path(s))
  /\ how = "unreadable" => CellAt(job.dict[s.workchain], Path(s)).kind = "leaf"
  /\ job' = [job EXCEPT !.damage = [shard |-> s, how |-> how],
                        !.dict[s.workchain] =
                           damaged(@, Path(s), IF how = "pruned" THEN PrunedCell ELSE make_leaf(None))]
  /\ UNCHANGED shards

\* raw_iter hands out the leaves, iter and latest_blocks read them.
OpenIter(read) ==
  /\ job.kind = "hashes"
  /\ job.dict # Unbalanced
  /\ job' = [kind |-> "iter", held |-> job.held, damage |-> job.damage, read |-> read,
             it |-> shards_iter(job.dict), out |-> <<>>, ended |-> FALSE]
  /\ UNCHANGED shards

ItemOut(item) == IF item = Broken THEN Broken ELSE item.shard
Yielded(got) ==
  IF got.item = None THEN [job EXCEPT !.it = got.it, !.ended = TRUE]
  ELSE [job EXCEPT !.it = got.it, !.out = Append(@, ItemOut(got.item))]
IterNext ==
  /\ job.kind = "iter"
  /\ ~job.ended
  /\ job' = Yielded(IF job.read THEN read_next(job.it) ELSE shards_next(job.it))
  /\ UNCHANGED shards

----------------------------------------------------------------------------
(* Validators.                                                             *)

StartSubset(s, vset, isolate, n) ==
  /\ job = Idle
  /\ job' = IF s.workchain = MASTERCHAIN
            THEN [kind |-> "mc", c |-> mc_start(vset)]
            ELSE [kind |-> "subset", c |-> subset_start(vset, isolate, n)]
  /\ UNCHANGED shards

Draw ==
  /\ job.kind = "subset"
  /\ job.c # NoSubset
  /\ Len(job.c.draws) < job.c.count
  /\ \E p \in next_ranged(job.c.total_wt) : job' = [job EXCEPT !.c = subset_draw(@, p)]
  /\ UNCHANGED shards

Shuffle ==
  /\ job.kind = "mc"
  /\ Len(job.c.draws) < job.c.count
  /\ \E j \in 1..(Len(job.c.draws) + 1) : job' = [job EXCEPT !.c = mc_draw(@, j)]
  /\ UNCHANGED shards

----------------------------------------------------------------------------
(* Messages.  No part of them depends on the shards: one topology will do. *)

StartMessage(m) ==
  /\ job = Idle
  /\ shards = {new_full(wc) : wc \in Chains}
  /\ job' = [kind |-> "write", m |-> m, s |-> start_message(m), left |-> Written(m)]
  /\ UNCHANGED shards

WriteValue ==
  /\ job.kind = "write"
  /\ job.s.ok
  /\ job.left # <<>>
  /\ job' = [job EXCEPT !.s = write_value(@, Head(job.left)), !.left = Tail(@)]
  /\ UNCHANGED shards

\* The message is finished and arrives, its prefix is read.
OpenMessage ==
  /\ job.kind = "write"
  /\ job.s.ok
  /\ job.left = <<>>
  /\ LET c == finish_message(job.m, job.s) IN
     job' = [kind |-> "read", m |-> job.m, out |-> <<>>,
             fits |-> ChainFits(c) /\ IsSignable(job.m, chain(job.s.stack)), s |-> skip_prefix(job.m, AsSlice(c))]
  /\ UNCHANGED shards

ReadValue ==
  /\ job.kind = "read"
  /\ job.s # NoValue
  /\ Len(job.out) < Len(job.m.values)
  /\ LET i == Len(job.out) + 1
         got == load_ext(job.m.values[i].t, job.m.ver, i = Len(job.m.values), job.s)
     IN  job' = [job EXCEPT !.s = got.s, !.out = Append(@, got.x)]
  /\ UNCHANGED shards

\* The caller is done with the result, or drops the iterator.
Finish ==
  /\ job # Idle
  /\ job' = Idle
  /\ UNCHANGED shards

Next ==
  \/ \E s \in shards : Split(s) \/ Merge(s)
  \/ FromShards(shards)
  \/ \E s \in shards : FromShards(shards \ {s})
  \/ \E s \in AllShards \ shards : FromShards(shards \cup {s})
  \/ \E s \in AllShards, how \in {"pruned", "unreadable"} : Damage(s, how)
  \/ \E read \in BOOLEAN : OpenIter(read)
  \/ IterNext
  \/ \E s \in shards, vset \in ValidatorSets, isolate \in BOOLEAN, n \in SubsetSizes :
       StartSubset(s, vset, isolate, n)
  \/ Draw
  \/ Shuffle
  \/ \E m \in Messages : StartMessage(m)
  \/ WriteValue
  \/ OpenMessage
  \/ ReadValue
  \/ Finish

Spec == Init /\ [][Next]_vars

----------------------------------------------------------------------------
(* Properties.                                                             *)

\* The accounts whose first bits are those of the shard, without the tag.
PrefixLen(s) == CHOOSE n \in 0..(WIDTH - 1) : s.prefix % 2^(WIDTH - n) = 2^(WIDTH - 1 - n)
SameBits(x, y, n) == x \div 2^(WIDTH - n) = y \div 2^(WIDTH - n)
Covers(s) == {a \in Words : SameBits(a, s.prefix, PrefixLen(s))}
SameAccounts(s, t) == s.workchain = t.workchain /\ Covers(s) \cap Covers(t) # {}
Above(s, t) ==
  /\ s.workchain = t.workchain
  /\ PrefixLen(s) <= PrefixLen(t)
  /\ SameBits(s.prefix, t.prefix, PrefixLen(s))
IsPartition(S) == \A a \in Words : Cardinality({s \in S : SameBits(a, s.prefix, PrefixLen(s))}) = 1

\* No bit of the prefix but the first is one: is_ancestor_of compares all bits of the
\* prefix of such an ident, of another only those in front of a zero and the last.
OneAtMostFirst(s) == s.prefix - prefix_tag(s) \in {0, PREFIX_FULL}

\* However shards have split and merged, every account is in exactly one of
\* them; two idents intersect when some account is in both, the parent of an
\* ident is the one that splits into it, no ancestor is denied, none is taken
\* for one by an ident without ones behind its first bit (AncestorIsPrefix says
\* it of all), and an ident that is stored is the one that is loaded
\* (block_id.rs, ShardIdent).
ShardsCoverAccounts ==
  job = Idle =>
    /\ \A wc \in Chains, a \in Words :
         Cardinality({s \in shards : s.workchain = wc /\ contains_account_prefix(s, a)}) = 1
    /\ \A s \in shards, t \in AllShards :
         /\ intersects(s, t) <=> SameAccounts(s, t)
         /\ is_parent_of(s, t) <=> split(s) # None /\ t \in ToSet(split(s))
         /\ Above(s, t) => is_ancestor_of(s, t)
         /\ is_ancestor_of(s, t) /\ OneAtMostFirst(s) => Above(s, t)
    /\ \A s \in shards :
         /\ can_split(s) <=> split(s) # None
         /\ split(s) # None => \A t \in ToSet(split(s)) : merge(t) = s /\ opposite(t) \in ToSet(split(s))
         /\ load_ident(store_ident(s)) = s

\* What the doc of is_ancestor_of says: only an ancestor is one.  It does not hold: the
\* shard 01 is called an ancestor of 11 (a finding; README, known divergences).
AncestorIsPrefix ==
  \A s \in shards, t \in AllShards : is_ancestor_of(s, t) => Above(s, t)

\* What an iterator gives for one workchain: an error in place of the shards that
\* cannot be had, and none of the shards after them.
Hidden(s) == /\ job.damage # None
             /\ job.damage.how = "pruned" \/ job.read
             /\ Above(job.damage.shard, s)
Visible(wc) ==
  LET leaves == {s \in job.held : s.workchain = wc}
      lost == {s \in leaves : Hidden(s)}
      seen == {s \in leaves : \A t \in lost : Before(s, t)}
  IN  SortedBy(seen, Before) \o IF lost = {} THEN <<>> ELSE <<Broken>>

\* A pruned subtree ends its workchain only, an unreadable leaf the iteration.
Stops(wc) == /\ job.damage # None
             /\ job.damage.how = "unreadable" /\ job.read
             /\ job.damage.shard.workchain = wc
ChainsOf(S) == {s.workchain : s \in S}
Expected ==
  FoldLeft(LAMBDA out, wc : IF \E w \in ChainsOf(job.held) : Unsigned(w, wc) /\ Stops(w)
                            THEN out ELSE out \o Visible(wc),
           <<>>, SortedBy(ChainsOf(job.held), Unsigned))

\* Every account of each of the workchains is in exactly one of the shards.
IsComplete(S) == \A wc \in ChainsOf(S) : IsPartition({s \in S : s.workchain = wc})

\* A shard of the list that is sorted between two of those that are kept.
IsAmid(s, kept) ==
  \E t, u \in kept : t.workchain = s.workchain /\ u.workchain = s.workchain /\ Before(t, s) /\ Before(s, u)

\* from_shards keeps the whole of a complete list.  What it keeps of any other list it accepts is
\* complete for every workchain of the list, and no shard amid it is left out: extra shards are
\* dropped without an error only when they are sorted before or behind all that is kept.  The
\* iterators give the shards that are kept, each once and in order, and none from behind a cell
\* that cannot be read; after a pruned subtree they go on with the next workchain (shard_hashes.rs:
\* try_build_raw, WorkchainShardsTreeRawIter, ShardsTreeRawIter).  A test and the docs disagree
\* about the shards that are dropped and about going on: see ExtraIsRefused and EndsAtError.
ShardTreeIsExact ==
  /\ job.kind = "hashes" /\ job.damage = None =>
       /\ IsComplete(job.given) => job.held = job.given
       /\ job.dict # Unbalanced =>
            /\ IsComplete(job.held)
            /\ job.held \subseteq job.given
            /\ ChainsOf(job.held) = ChainsOf(job.given)
            /\ \A s \in job.given \ job.held : ~IsAmid(s, job.held)
  /\ job.kind = "iter" => IF job.ended THEN job.out = Expected ELSE IsPrefix(job.out, Expected)

\* What the test of from_shards says of an extra shard: it is an error.  It does not hold for one
\* that is sorted before or behind the others (a finding; README, known divergences).
ExtraIsRefused ==
  job.kind = "hashes" /\ job.dict # Unbalanced => IsComplete(job.given)
\* What the docs of iter, raw_iter and latest_blocks say of an error: it is the last item.  It does
\* not hold for a pruned tree that is not the last one (a finding; README, known divergences).
EndsAtError ==
  job.kind = "iter" => \A i \in DOMAIN job.out : job.out[i] = Broken => i = Len(job.out)

\* Units of weight, in list order, of the validators that are not chosen yet.
Chosen(c, n) == {c.nodes[m].key : m \in 1..(n - 1)}
UnitsBefore(c, n, i) ==
  FoldLeft(LAMBDA sum, v : IF v.key \in Chosen(c, n) THEN sum ELSE sum + v.weight, 0, SubSeq(c.vset.list, 1, i - 1))
Weighted(c) == Cardinality({i \in DOMAIN c.vset.list : c.vset.list[i].weight > 0})

\* The n-th validator of a shard is the owner of the unit of weight that was drawn,
\* among those left, so none is chosen twice (as long as there are enough of
\* positive weight); the masterchain's are a permutation of its first ones
\* from which every number drawn can be told (compute_subset, compute_mc_subset).
SubsetIsWeighted ==
  /\ job.kind = "subset" /\ job.c # NoSubset =>
       \A n \in DOMAIN job.c.nodes : n <= Weighted(job.c) =>
         \E i \in DOMAIN job.c.vset.list :
           /\ job.c.vset.list[i].key = job.c.nodes[n].key
           /\ job.c.nodes[n].key \notin Chosen(job.c, n)
           /\ UnitsBefore(job.c, n, i) <= job.c.draws[n]
           /\ job.c.draws[n] < UnitsBefore(job.c, n, i) + job.c.vset.list[i].weight
  /\ job.kind = "mc" =>
       /\ ToSet(job.c.indices) = 1..Len(job.c.draws)
       /\ job.c.draws # <<>> => job.c.indices[Last(job.c.draws)] = Len(job.c.draws)
       /\ Len(job.c.draws) = job.c.count =>
            ToSet(mc_subset(job.c, TRUE)) = ToSet(mc_subset(job.c, FALSE))

\* The reader is at the values that come next, and at the end of the cells behind the last one.
IsReadBack ==
  /\ job.s # NoValue
  /\ IsPrefix(job.out, job.m.values)
  /\ Len(job.out) = Len(job.m.values) => NothingLeft(job.s)

\* An external message of version 1: fill_signature leaves its payload out, and the reader looks
\* for the function id in front of the signature.
IsFirstExternal(m) == m.body = "external" /\ Major(m.ver) = 1
\* An empty map for which no reference is reserved (below 2.2) although write_map requires one.
HasUnreservedMap(m) ==
  ~use_max_size(m.ver) /\ \E i \in DOMAIN m.values : m.values[i].t.k = "map" /\ m.values[i].x = <<>>

\* Every message is written in cells of which none, leaves of dictionaries included, takes more
\* than a cell can.  Except for external messages of version 1 and for empty maps below version
\* 2.2, it is read back value by value and nothing else is left: the reader finds every place
\* where the serializer has moved on to another cell (AbiSerializer::require_builder against
\* preload_bits and load_cell; Function::encode_*, decode_*).
MessageIsReadBack ==
  /\ job.kind = "write" => job.s.ok
  /\ job.kind = "read" => job.fits
  /\ job.kind = "read" /\ ~IsFirstExternal(job.m) /\ ~HasUnreservedMap(job.m) => IsReadBack

\* The same without exceptions.  It does not hold (findings; README, known divergences).
EveryMessageIsReadBack == job.kind = "read" => IsReadBack
=============================================================================
