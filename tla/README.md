# Verification of tycho-types

TLA+ models of `tycho-types`, TLC configurations that check them on small
instances and TLAPS proofs of their central properties. Paths below are
relative to the crate (`src/cell/usage_tree.rs` and so on).

## The system

`tycho-types` is the library of data structures of the Tycho node. Everything is
made of *cells*: immutable nodes of up to 1023 bits and four references, named by
their hash. On top of the cells there are

| part | state | operations | who uses it |
|---|---|---|---|
| cells, builders, slices (`src/cell`) | bits and references, level mask, hashes; a window into a cell | store, load, build, virtualize | everything |
| usage tree (`src/cell/usage_tree.rs`) | set of visited hashes, shared by wrapped cells through weak references; per wrapped cell a `Once` for each reference and two flags | `track`, `data`, `reference`, `with_subtrees`, `add_subtree`, drop | whoever executes on cells that will be proved |
| Merkle proofs and updates (`src/merkle`) | builders with maps from hashes to cells; the parallel variants share them between rayon tasks | build, apply, compute removed cells | take the usage tree as filter |
| dictionaries (`src/dict`) | a binary Patricia trie of cells; `AugDict` keeps an aggregated extra in every fork and a copy of that of the root | get, set/replace/add, remove, bounds and neighbours, build and modify from sorted entries, split, merge | the models |
| bags of cells (`src/boc`) | numbering of a DAG while it is written, table of cells while it is read | encode, decode | storage, network |
| numbers (`src/num`) | variable-length integers | arithmetic, store, load | the models |
| models (`src/models`) | records of the block format | store, load, and some logic: shards, shard hashes, messages, out actions, currencies, validator sets | the node |
| ABI (`src/abi`) | types, values, functions of contracts | encode and decode over chains of cells, parse | tools |

Most of the crate is sequential. Two parts are not: the usage tree in the `sync`
build, and the parallel Merkle algorithms of the `rayon` feature. There an
ordinary test sees one schedule of many. In the sequential parts the difficulty
is in long sequences of legal operations (a dictionary root must depend on the
contents alone, since it is compared by hash) and in boundary cases of lengths
and encodings.

What makes the parts correct, and what could go wrong:

* **usage tree**: what was used is recorded while the tree lives, nothing else
  is, no access escapes a live tree, and the calls return. Hazards: the flag that
  says "recorded" seen before the record is made; the window between publishing a
  child and recording it; the tree dropped in the middle of a call; threads
  waiting at a `Once`.
* **dictionaries**: they are finite maps; the root is a function of the contents;
  bulk operations agree with single ones; extras are never stale. Hazards:
  uncompressed edges after removals, three label encodings with ties, signed
  orders, the merge stack's length arithmetic.
* **parallel apply**: same result and same count as the sequential one; every
  promise is fulfilled; the apply ends. Hazards: two tasks rebuilding one cell, a
  promise overwritten by an inline rebuild, a task that fails after others took
  its promise.
* **proofs and updates**: applying an update built from old and new gives new;
  a proof has the hash of the original, shows every cell that its filter includes
  and is connected to the root, and hides the others; the parallel builders give
  what the sequential ones give. Hazards: two tasks that
  build one cell, a cell marked as visited by the path that came first, cells of an
  inner proof one Merkle level deeper, an update applied to another tree.
* **bag of cells**: decoding what was encoded gives the same roots in the same
  order, or refuses the whole; the announced size is the written one when no option
  that changes sizes was set after the roots. Hazards: sizes accumulated
  while options change, shared cells of several roots, hashes stored with a cell,
  bytes that end anywhere.
* **builders and slices**: they are strings of bits and lists of references. A
  store that fails changes nothing, but for `store_var_bigint` and its relatives,
  which leave the length when the number does not fit. Hazards: data that starts in the middle of a
  byte, the last partial byte, memory behind the last bit, widths of zero.
* **record formats**: what is stored is read back whole, alone and in the same
  form. Hazards: two functions written by hand that must agree on an order, fields
  that are there only in some versions, cells that overflow with everything
  present.
* **shards and validators**: every account is in one shard however they split and
  merge; the tree of shards is the list it was built from, when the list is complete,
  and a complete part of it otherwise; a validator is chosen once and by its weight.
  Hazards: arithmetic on prefixes with a tag bit, lists that
  are incomplete, trees parts of which cannot be read.
* **ABI**: the reader finds every value where the writer put it, with two exceptions
  (known divergences). Hazards: nothing in
  the cells marks a continuation, and writer and reader decide from different data.

The list `hazards` of `PROJECT.json` has the main ones at their lines.

## Modules

| module | models | role |
|---|---|---|
| `UsageTree` | `src/cell/usage_tree.rs`, the filter in `src/merkle/mod.rs` | specification |
| `UsageTreeProofs` | | proofs |
| `MCUsageTree` | | instance |
| `DictTrie` | `src/dict/mod.rs`, `ops/{get,insert,remove,find}.rs` | operators |
| `DictBulk` | `src/dict/ops/{build,modify,split_merge}.rs`, `RawIter`, `UnionRawIter` | operators |
| `Dict` | the wrappers in `typed.rs`, `raw.rs`, `aug.rs` | specification |
| `DictMap` | what a dictionary promises: a map | abstract specification |
| `MCDict` | | instances |
| `ParApply` | `ParMerkleUpdateApplier` in `src/merkle/update.rs`, `src/merkle/sync_util.rs` | specification |
| `ParApplyProofs`, `ParApplyOutcomeProofs` | | proofs |
| `MCParApply` | | instance |
| `CellTree` | level masks, descriptors, hashes, virtualization, pruned branches: `src/cell/mod.rs`, `cell_context.rs`, `cell_impl`, `src/merkle/pruned_branch.rs` | operators |
| `Merkle` | `src/merkle/{mod,proof,update}.rs` as one thread computes it | operators |
| `Boc` | `src/boc/{ser,de,mod}.rs` | operators |
| `Transfer` | the parallel builders and walks, with a bag of cells between them | specification that composes `Merkle` and `Boc` |
| `MCTransfer` | | instances |
| `Bits`, `CellBuilder`, `CellSlice` | `src/cell/builder.rs`, `src/cell/slice.rs`, byte by byte | operators |
| `CellCompare` | comparisons, common prefixes and runs of bits in `src/cell/slice.rs` | operators |
| `Cells` | a builder and a slice in use | specification |
| `CellReaders` | what the comparisons and runs mean on strings | reference definitions |
| `BitsProofs`, `CellBuilderProofs`, `CellsProofs`, `CellReadsProofs`, `CellsRefinement` | | proofs |
| `BitCell` | what they promise: strings of bits | abstract specification |
| `MCCells` | | instance |
| `Tlb` | what `#[derive(Store, Load)]` generates and the primitives below it (`proc/src`, `src/cell`) | operators |
| `TlbMessage`, `TlbTransaction`, `TlbBlock`, `TlbConfig` | formats in `src/models`, `src/num` | operators |
| `Codec` | a value on its way to a cell and back | specification |
| `MCTlb` | the catalogue of types | instances |
| `Shards` | `ShardIdent`, `ShardHashes`: `src/models/block/{block_id,shard_hashes}.rs` | operators |
| `Validators` | `ValidatorSet` in `src/models/config/params.rs` | operators |
| `Abi` | `src/abi/value/{ser,de}.rs`, bodies of messages in `src/abi/contract.rs` | operators |
| `Models` | these three in use | specification |
| `MCModels` | | instance |

### Usage tree

A usage cell is created once per position of the unfolded DAG, so it is named by
that position (a `Node`); several nodes may wrap one cell (`CellOf`). The
variables are the fields of `UsageTreeState` and `UsageCell`: `visited`, `once`
(`reference_states` with the data they guard), `inserted`, `orphaned`, and
`owner`, the strong reference that the `UsageTree` holds. One action is one access
to shared memory: `data` is `DataCall`, `DataUpgrade`, `DataInsert` or
`DataOrphan`, `DataMark`; `reference` is `RefCall`, `RefOnce`, `RefInit`,
`RefUpgrade`, `RefInsert` or `RefOrphan`, `RefReturn`. `CanUpgrade` is the
semantics of `Weak::upgrade`: a thread between upgrade and insertion keeps the
state alive after the owner dropped it. `read`, `returned` and `escaped` are
histories of what the callers got.

The `rc` build has one thread and inserts inside the initialisation of the slot;
it has none of the interleavings and is not modelled apart.

Fairness (`FairSpec`): a thread that is inside a call keeps being scheduled.
Nothing makes anybody call, track or drop. A thread that waits at a `Once` is
disabled there, so progress has to come from the thread in the closure.

### Dictionaries

A cell of the trie is a record with its label *as encoded* (form, width of the
length field, bits), its children, value and extra; equality of records stands
for equality of hashes. Loops that push a stack and rebuild it are recursive
operators. `MAX_BIT_LEN` in the choice of a label is left out: no label of the
instances reaches 1023 bits. `Err` stands for every error. A label read with
another length than it was written for is `Err`: the code would read unrelated
bits.

`Dict` is the sequence of operations: `Insert` in its three modes, `RemoveKey`,
`RemoveBound`, `Modify`. `last` is what the operation returned, `extra` the
copy of the root's extra in `AugDict`. `DictMap` is the same interface on a
function, and `RefinesMap` says that the trie implements it, with `Content`, the
map that the iterator yields, as refinement mapping. The operators that do not
change the dictionary (`find`, the search by extras, the iterators and their
union, `build`, split and merge) are checked in every reachable state against
definitions on maps.

### Parallel application of an update

A node is a cell of the `new` tree under its hash at its Merkle depth, the key of
`new_cells`. A task is named by the node it rebuilds; its frames of `run_inner`
are a stack. An `ExtCell` is the cell it will be and the set of promises inside
it. A cell rebuilt from wrong references is `Garbage`, so the final comparison of
hashes is visible. Actions: `ResolvePruned`; `LookupHit` and `LookupMiss` for the
first look into the map; `Entry` under the lock of the entry, where a task may be
spawned; `Insert` for the return of a nested call; `Finish`, `AddTotal` and
`SetPromise` for the end of a task; `Resolve` for the end of the apply.
`find_in_new_cells` is false in every apply and the model keeps it so. The set of
pruned branches that `find_cell` knows is chosen at the start.

Fairness: rayon runs every spawned task, tasks do not wait for each other, and the
caller goes on when the scope has ended.

### Cells, proofs and updates

A cell of `CellTree` is a record of its type, a name for its data, the number of
bits, its references, its level mask and what an exotic cell has stored; hashes are
the records under a level (`hash`, `virtual_hash`), so equal hashes are equal
contents. `Merkle` has what one thread computes, loop by loop: the builder of
proofs with its filter, `prune_big_cells` and subtrees, the two passes of the
builder of updates, `apply`, `find_old_cells`, `compute_removed_cells`.

`Transfer` is a proof or an update from its builder to its use. `job` says what is
built and for whom, `phase` which call is running, `made` what it has given so far.
Every rayon scope is a sequence of tasks with stacks of frames; `BuildBegin`,
`BuildChild` and `BuildPop` are `ParBuilderImpl::build_impl`, `WalkBegin`,
`WalkChild` and `WalkPop` the walks before the parallel application, and each
action reads or writes the shared maps once. `Join...` is the end of a scope.

Between the two is the bag of cells. `Configure`, `AddRoot` and `Clear` are the
calls of a `BocHeader`, in any order: options may be set before, between and after
the roots, and a root may be added again. `Encode` is one of the three encoders, as
a release build has them; `encode` also keeps what the encoder counted, for the
assertion a debug build makes. `Receive` decodes the bag, or ends the transfer in the
phase `refused`.

### Builders and slices

`CellBuilder` and `CellSlice` are the code on arrays of bytes, as strings of bits of
`BYTE` bits each: which byte a store begins in, how it shifts, what it masks. `Cells`
has one action per call of a builder and of a slice. `BitCell` is what they promise.
`ImplementsBits` is the refinement, with the bits in use (`Text`, `Unread`) as
mapping; `CellReaders` has the reference definitions of the readers that change
nothing.

### Formats of records

A type is a pair of formats, what `store_into` writes and what `load_from` reads, as
sequences of instructions in the order of the calls (`Tlb`). The bits of tags, flags
and lengths are items of their own; a field that nothing looks into is one item with
its width and its name, so that a field read in the place of another is noticed.
`Codec` stores a value (`StoreInto`), may put something behind it (`Extend`), cut it
(`Truncate`) or change an item (`Flip`), and reads it (`LoadFrom`). `MCTlb` is the
catalogue. An entry of it may be marked, and is then excused from one property each:
`MayOverflow` (two addresses of variable length: the store may fail, from
`FitsInCell`), `Lax` (several forms of one value, such as older tags or lengths with
leading zeroes, are accepted: `LoadedIsCanonical` asks only that what was read of a
changed cell is stored in a form that reads as the same value), `Open` (takes all that is left of a cell: from
`SelfDelimiting`), `Loose` (checks less when it is read than when it is stored: what
was read from a changed cell may be refused by the store).

### Shards, validators, ABI

`Shards` has `ShardIdent` on words of `WIDTH` bits with the arithmetic of the code,
and the tree of `ShardHashes`. In `Models` the list of shards splits and merges; a
`ShardHashes` is built from the list, from one with a shard missing and from one with
another shard in it (`FromShards`), a subtree may be pruned or a leaf unreadable
(`OpenIter`), and an iterator takes one step at a time (`IterNext`). Validators are
chosen one draw at a time, the random numbers being free (`StartSubset`, `Draw`,
`Shuffle`). A message is written and read value by value (`StartMessage`,
`WriteValue`, `OpenMessage`, `ReadValue`); `Abi` has the layout over a chain of cells
and the reader's rules for it. A value is a form and an identifier: what counts is
how many bits and references it takes, is expected to take and is reserved for.

## Runs

| run | module | checks | instance |
|---|---|---|---|
| `usage_tree_on_load` | `UsageTree` | records, escapes, paths; calls return, loads are recorded | 2 threads, 5 nodes over 3 cells |
| `usage_tree_on_data` | `UsageTree` | the same in the other mode | the same, with subtrees and an index past 3 |
| `dict_all3` | `Dict` | canonical roots, searches, bulk operations, refinement of `DictMap` | all 8 keys of 3 bits, batches of 2 |
| `dict_aug4` | `Dict` | extras, root extra, split and merge | 5 keys of 4 bits, 2 values, batches of 3 |
| `dict_merge` | `Dict` | finding | all keys of 2 bits |
| `par_apply` | `ParApply` | count, keys, promises, outcome, termination | 8 cells, 2 pruned, split depths 0 and 1 |
| `transfer` | `Transfer` | builders, delivery, bag of cells | trees of up to 10 cells, bags of up to 3 roots |
| `removed_cells` | `Transfer` | finding | one pair of trees |
| `cells` | `Cells` | refinement of `BitCell`, zero tail, readers | 3 bytes of 3 bits, words of 2 bytes, 2 references |
| `tlb` | `Codec` | round trip, delimiting, truncation, capacity, canonical form | the catalogue `AllTypes` |
| `value_flow_fees` | `Codec` | finding | one type |
| `models` | `Models` | shards, shard tree, validators, messages | words of 6 bits, 3 splits; lists of 3 and 4 validators; messages of up to 4 values |

Why the bounds are enough.

*Usage tree*: two nodes wrap the same cell and have children that wrap the same
cell; two threads may be in one slot, in different slots and at the same cell by
different nodes. A third thread only adds waiters. *Dictionaries*: with all subsets of
three-bit keys every shape of a trie of depth three occurs, each reached by every
operation; the four-bit keys have labels in all three encodings. States are told apart
by root and extra (`VIEW`): no operation reads `last`, and every transition is compared
with `DictMap`. *Parallel apply*: the first task spawns two tasks and rebuilds a cell
itself; one spawned cell is below the other, so that it is found as a promise, found
rebuilt or rebuilt inline; two cells are shared by all; one pruned branch is of this
depth, one of another.

*Transfer*: cells shared by three parents, a big leaf, a tree that contains a proof;
filters from the root alone to everything, subtrees, a filter that skips the root;
splits at no cell, one cell and three. `MaxSent` is the number of roots in one bag:
three, so that a bag of the two cells that an almost empty proof has gets more roots
than cells, and options are set before, between and after roots. `Clear` is taken at
`MaxSent`, so that a cleared header is used again and the run stays finite. Chunks of
the encoders are 3 and 2 cells instead of 1000 and 5000: every bag of more than a few
cells has several. The split depths are 1 and 0 instead of 3 and 5.

*Cells*: a byte of three bits has a first, an inner and a last bit, three bytes have a
first, a whole inner and a last one, and a word of two bytes makes the loops over words
run; every content of the builder is reached bit by bit. `MaxAsked` is longer than a
cell. `RefsWithBits` limits finished cells that have references to three bits: bits and
references are counted and windowed apart. *Formats*: a sample has every variant of every field,
to the depth given with the type; numbers are zero, one and the largest. *Models*: three
splits give prefixes with a bit in front of, at and behind each other; two workchains
give an iterator something to go on with; messages fill bits and references of a cell
exactly, by one too many, and with a map whose leaf is full to the last bit.

Fairness is used in two runs only, as described with the modules: a thread inside a
call, a spawned task and the caller after a scope keep being scheduled. Deadlock is not
checked where the system may stop: nobody is obliged to use the tree, and an apply or a
transfer ends.

### Findings

Three runs expect a violation, of something the repository itself says:

* `dict_merge`, `MergeAgrees`: dictionaries whose root cells differ in size are
  refused (`src/dict/ops/split_merge.rs:156`), though `dict_merge` "Merges two
  dictionaries into one".
* `removed_cells`, `RemovedAreExact`: `compute_removed_cells` drops a cell that an
  unchanged subtree still needs (`src/merkle/update.rs:630`); a test takes the result
  for exact (`src/merkle/update.rs:1920`).
* `value_flow_fees`, `RoundTrip`: a value flow whose fees have extra currencies is not
  read back (`src/models/block/mod.rs:682`).

The other disagreements follow. They are in the list `findings` of `PROJECT.json`
too, each with the line it quotes.

## Known divergences

The passing runs say what the code does; where that is less than a doc, a test or an
assertion of the repository says, it is listed here. Statements in `code` that have no
run of their own are definitions of the modules; each of them fails when it is added to
the configuration named with it.

Pinned in a passing property: the run shows what happens, the exception is written out.

* **Bags with stale sizes** (`BocKeepsRoots`, `src/boc/ser.rs:191`). The sizes in a
  `BocHeader` are summed up while roots are added. `without_hashes` after a root with
  stored hashes, as in `with_root(cell).without_hashes(true)`, leaves them as they were:
  the encoders' assertion fails in a debug build, and what a release build writes is
  refused by the reader, as a whole. `SizesAreFresh` tells these bags.
* **The counter of `encode_to_writer`** (`BocKeepsRoots`, `src/boc/ser.rs:248`). It does
  not count the checksum, so the assertion at its end fails whenever there is one: a debug
  build panics. The bytes are right. `EncoderAssertion`, as an invariant of the phase
  `receive`, fails in `Transfer.cfg`.
* **More roots than cells** (`BocKeepsRoots`, `src/boc/de.rs:127`). A root may be added
  several times; a bag with more roots than cells is written and refused by the reader.
* **Pruned branches of an inner proof are counted** (`TransferDelivers`). The builder of an
  update counts them as new cells, `apply` does not; `InnerPruned` is the difference.
* **Extra shards** (`ShardTreeIsExact`, `src/models/block/shard_hashes.rs:242`).
  `try_build_raw` returns as soon as it has a root. Extra shards that are sorted before or
  behind a complete cover are dropped without an error; amid it they are refused, which is
  what the test `// left is extra` has. `ExtraIsRefused` fails in `Models.cfg`.
* **Iteration after an error** (`ShardTreeIsExact`, `src/models/block/shard_hashes.rs:714`).
  `iter`, `raw_iter` and `latest_blocks` are to finish "after the first invalid element".
  After a tree that was pruned they go on with the next workchain; after a leaf that cannot
  be parsed they do finish. `EndsAtError` fails in `Models.cfg`.
* **Ancestors** (`ShardsCoverAccounts`, `src/models/block/block_id.rs:318`). `is_ancestor_of`
  makes its mask of the whole prefix and not of its tag, so that of the bits of the prefix
  only the last and those in front of a zero are compared: 01 is called an ancestor of 11.
  No ancestor is denied, and idents without a one behind their first bit are right.
  `AncestorIsPrefix` fails in `Models.cfg`. `intersects`, which makes its mask of the tag,
  is right for all.
* **External messages of ABI version 1** (`MessageIsReadBack`, `src/abi/contract.rs:1506`).
  `fill_signature` leaves the payload out, and the reader looks for the function id in
  front of the signature. Of the 369 in the instance 336 are not read back.
  `EveryMessageIsReadBack` fails in `Models.cfg`.
* **Empty maps below ABI version 2.2** (`MessageIsReadBack`, `src/abi/value/ser.rs:168` and
  `647`). No reference is reserved for an empty map, but one is required when it is written,
  so the writer may move on to another cell where the reader does not. Of the 55 messages
  of the instance that have one in these versions, 6, with cells after the map, are not read
  back. `EveryMessageIsReadBack` fails in `Models.cfg`.
* **Validators of no weight** (`SubsetIsWeighted`, `src/models/config/params.rs:1268`). When
  fewer validators of positive weight are there than are to be chosen, the total reaches zero
  while the loop goes on: an assertion of debug builds fails. The property is about the
  choices before that.
* **Failed stores of numbers with a length** (`ImplementsBits`, `src/cell/builder.rs:1264`).
  The length is stored first and stays when the number does not fit. `BitCell` says so.

Not pinned: the statement is there and fails.

* **Subtrees that were also visited** (`SubtreeIncluded`, `UsageTreeOnData.cfg`;
  `src/merkle/mod.rs:72-82`). The filter looks at the visited cells first and includes
  such a cell without its subtree, although `add_subtree` "Adds a subtree to the usage
  tree" (`src/cell/usage_tree.rs:96`).
* **The window after the `Once`** (`ReturnedIsRecorded`, `UsageTreeOnLoad.cfg`;
  `src/cell/usage_tree.rs:445`). "Include cell on load" does not hold at the moment when
  a second thread gets the child of the `sync` build. The record follows
  (`LoadsGetRecorded`) unless the tree is dropped first.
* **Signed keys** (`SignedBuildAgrees`, `DictAll3.cfg`; `src/dict/ops/build.rs:27`).
  "Sorted unique entries" of a signed key type are sorted by the type and merged by their
  bits, and build another dictionary. A TODO in the code is about it.
* **Subdictionaries of absent prefixes** (`SubdictIsPresent`, `DictAll3.cfg`;
  `src/dict/ops/get.rs:163`). A dictionary is to be returned "if specified prefix is present
  in dictionary"; for a prefix that leaves an edge, one with an empty value is made up.
* **Round candidates** (`RoundTrip`, `ValueFlowFees.cfg` with `Catalogue <- ManyCandidates`;
  `src/models/config/params.rs:1159`). The count is stored in 8 bits: 257 comes back as 1,
  and a cell with 256 cannot be read. The catalogue of `tlb` has counts that fit.
* **ADNL address of a validator with `mc_seqno_since`** (`RoundTrip`, `ValueFlowFees.cfg`
  with `Catalogue <- ValidatorsWithAdnl`; `src/models/config/params.rs:1625`). A zero address
  is stored in its place. The catalogue of `tlb` has such a validator with the address that
  is stored.

Outside the instances:

* **A cell outside and inside an inner Merkle cell** (`src/merkle/proof.rs:493`). The
  builder's map of built cells has no Merkle depth in its key, so such a cell takes the
  pruned branches of the level where it was met first, and the proof that is built does not
  load. No tree of `MCTransfer` has one.
* **A dictionary with a pruned branch** (`src/dict/ops/split_merge.rs:160`). `dict_merge`
  stops at the first entry it cannot read and reports success. The roots of `Dict` have no
  pruned branches.

The comment at `src/abi/value/ser.rs:766` doubts that 12 bits are enough for the label of a
dictionary leaf. They are: a label takes 2 bits, the bits of its length (at most 10) and its
own, and `MessageIsReadBack` looks into the leaves with labels of that size, one of them
full to the last bit.

## Proofs

Everything below is proved for all values of the constants that satisfy the named
assumptions of the modules, and TLC evaluates those assumptions on every run.

### Usage tree

`UsageTreeProofs`, for any set of threads, any forest of cells and both modes.

* `TypeCorrect`, `UsedIsRecordedCorrect` and `NoEscapeCorrect` rest on `Invariance`.
  `UsedIsRecorded` is not inductive: one has to know that a thread past the `Once`
  works on a finished slot (`ThreadInv`), that two threads are never in one closure
  (`MutexInv`), that the record of every finished slot is made or in the hands of a
  thread (`LoadInv`), that `inserted` comes after the record (`DataInv`), and that a
  thread gives up only when the owner is gone (`OrphanInv`). `ForestAssumption` is
  what makes a pending record belong to one slot.
* `NothingSpuriousCorrect`, `QuiescentPathsCorrect` and `OnceHasOneRunnerCorrect` rest
  on a second invariant, `PathInv`: whatever was returned or is being worked on hangs
  under a published cell (`PublishedInv`), a running `Once` has a thread in its
  closure (`RunnerInv`), and the record is part of what was touched. The paths follow
  from it together with `Invariance`: when nobody is in a call, no record is pending.
* `FrozenAfterDropCorrect` is an action property. A thread holds an upgraded reference
  only between its upgrade and its insertion, and no step but the upgrade, which
  `CanUpgrade` guards, creates one.

### Parallel application

`ParApplyProofs`, for any finite DAG, any split depths and any interleaving:
`TypeCorrect`, `EntriesMatchKeysCorrect`, `CountIsKeysCorrect` and
`NothingForgottenCorrect`. The invariant has two halves. `ShapeInv`: the
references stored in a frame are the first references of its node (`GoodFrame`),
every frame was entered for the next reference of the one below (`StackInv`), a
task other than the first was started together with its entry in the map
(`TaskInv`); hence a finished frame is the rebuild of its node. `CountInv`: the
history `by` says which task put a cell into the map first; the shares of the
tasks partition the map, `scope_total` is the size of the own share, and the
counter is the size of the shares already added.

`ParApplyOutcomeProofs` adds `PromisesAreKeptCorrect` and
`OutcomeIsSequentialCorrect`, the correctness of the parallel algorithm. `OutInv`
says of every cell on a stack, in the map and in a promise that the references
before the one being worked on are dealt with (`FramesInv`, `MapInv`): each is found,
is in the map, or is promised by a task that was spawned; and that an error is there
only for a reason, a needed pruned branch that is not found (`ValueInv`). At the end
all tasks are done, so nothing is promised that is not set. That the map then holds
exactly the reached cells is an induction over the DAG, done with a least
counterexample in `Depth` (a well-founded minimum, a theorem without an operator
parameter). `LeafAssumption`, a pruned branch has no references, is needed for the
final count; a cell with references is no pruned branch to
`CellParts::compute_hashes` and `CellDescriptor::is_pruned_branch`.

### Builders and slices

For any width of a byte (two bits or more) and a word, any size of the array, any
number of references (one or more), and any values that are stored
(`ByteAssumption`, `BuilderAssumption`, `InputAssumption`). The two bounds are what
the model's own calls need: it stores lengths of up to two bits, which go through a
byte, and replaces all references by one. `ResultAssumption` says that the error,
the missing result and the missing slice are no values; in Rust they are other
variants of the `Result` or `Option`.

* `BitsProofs` has the facts on strings of bits that the byte-wise code is made of:
  parts, shifts, masks, bytes, quotients and remainders.
* `CellBuilderProofs` proves of each store what it does, on the level of the single
  bit. `Appended(b, c, x)`: builder `c` has the bits of `b`, then those of `x`, then
  zeroes. `Stored(b, r, x)`: the result `r` is that, or, exactly when there is no
  room, a refusal with the builder as it was. It is shown for fixed numbers, 256-bit
  numbers, words of any width, zeroes, single bits and byte strings (`store_raw`
  with its shift over partial bytes, the hard case).
* `CellsProofs` goes on with ones, references, builders, slices and big integers,
  with rewinding, prepending, clearing and building, and with `get_raw`. It ends in
  `BuilderInvariance` and `TailIsZeroCorrect`. `TailIsZero` alone is not inductive: a
  padded store skips over zeroes it did not write, and `prepend_raw` copies the whole
  array, so the invariant `BuilderInv` also has the length of the array and the
  bit that is kept for the completion tag.
* `CellReadsProofs` proves what is read: `get_bit`, `get_u16` and its siblings,
  `get_u128`, `get_u256`, `get_small_uint`, `get_uint` at any alignment of the window,
  each of them the bits of the string at that place, or the error exactly when they
  are not all there. It also relates numbers and their bits: `bitsize` is the least
  width that holds the number (`SizeIsRange`), a big integer is stored as its bits
  (`NumberStored`), with its length in the fewest bytes (`FewestBytes`,
  `VarNumberStored`), and `ToNat` and `ToInt` of the first bits of a window give
  these bits back (`NatBits`, `IntBits`). Powers of two and `ToNat` are recursive;
  what is needed of them is shown with a least counterexample, as the depth of a DAG
  above.
* `CellsRefinement` puts it together. `CellsInvariance`: with `BuilderInv`, the window
  of the slice lies within its cell (`SliceInv`) and the builder has no more
  references than a cell may have (`RefsInv`); without `SliceInv` a load could be
  refused though the string has the bits, without `RefsInv` the capacity test of a
  store of bits alone would not be the one of `BitCell`. TLC has checked both as
  invariants of the instance too. `ImplementsBitsCorrect`: `Init` maps to
  `Abstract!Init`, and under the invariant every action is the step of `BitCell` that
  `call` names (`WritesSimulated`, `BuildStep`, `ReadsSimulated`, together
  `NextSimulated`) or leaves the abstract variables as they are. The refinement that
  TLC checks for bytes of three bits thus holds for the code's bytes of 8 bits, cells
  of 1023 bits and 4 references as well.

### Only model-checked

* The liveness properties (`CallsReturn`, `LoadsGetRecorded`, `Terminates`): fairness
  is outside what the provers handle.
* `ReadersAgree`, dictionaries with their refinement of `DictMap`, proofs and updates,
  bags, formats, shards and ABI: their operators are recursive, as the code is, and
  what a recursive operator computes for every input needs induction over data. Of
  `ReadersAgree`, the readers of numbers at the start of a window are covered by the
  lemmas of `CellReadsProofs`; scans and comparisons go over bytes recursively.

## Plan

Modelled: everything in the table of modules. What is left, in this order:

1. Message layout: the choice between inline and referenced parts of a message, and
   the reversed list of output actions.
2. Arithmetic on currencies and on the variable-length integers.

## Not modelled

* Derive macros of the ABI, serde adapters, base64, checksums, error types, fuzz
  targets, benchmarks: code generation, text, or harnesses without a protocol of
  their own. Parsing of addresses, of ABI type names and of JSON is text processing.
* Allocation and reference counting of cells is the standard library's.
* The `rc` build of the usage tree is the case of one thread.
* The gas accounting of load modes is done by the caller's context.
* Statistics of trees of cells, formatting and iteration helpers of cells.
* Arithmetic, as in the plan; the hash that names a function of the ABI; the
  conversion traits between Rust and ABI values.
