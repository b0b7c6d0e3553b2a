------------------------------ MODULE TlbBlock ------------------------------
(***************************************************************************)
(* The formats of blocks, shard descriptions and shard states (models/     *)
(* block, models/shard), of the software version and of output actions.    *)
(*                                                                         *)
(* Several of them depend on how the crate is built: with the feature      *)
(* `tycho` a block carries milliseconds and the position in the external   *)
(* queue instead of an outgoing queue.  Such a type takes the build as its *)
(* parameter.                                                              *)
(***************************************************************************)
EXTENDS TlbMessage

GlobalVersion == Derived(<<Tag(8, 196), U("version", 32), U("capabilities", 64)>>)

\* The prefix is stored without its tag; the length tells where the tag goes.
ShardIdentStore == <<B("prefix_len", 8, {0, 60}), U("workchain", 32), U("prefix", 64)>>
ShardIdentLoad == <<B("prefix_len", 8, {}), Check("atmost", "prefix_len", 60),
                    U("workchain", 32), U("prefix", 64)>>
ShardIdent == Written(ShardIdentStore, ShardIdentLoad)
BlockId == Derived(<<Sub("shard", ShardIdent), U("seqno", 32), U("root_hash", 256), U("file_hash", 256)>>)
BlockRef == Derived(<<U("end_lt", 64), U("seqno", 32), U("root_hash", 256), U("file_hash", 256)>>)

\* The root of a dictionary that is never empty, put in place. It is a leaf or a
\* fork, which only the label tells; the leaf of a plain dictionary is all that is
\* left of the cell, that of an augmented one ends where its value does.
InlineAugDict(n, extra) ==
    LET leaf == extra \o <<Lazy("value")>>
        fork == <<Tree("left"), Tree("right")>> \o extra
    IN Sub(n, OneOf(<<"Leaf", "Fork">>, [Leaf |-> <<Tag(2, 2)>> \o leaf, Fork |-> <<Tag(2, 0)>> \o fork],
                    Node(2, (2 :> Leaf("Leaf", leaf)) @@ (0 :> Leaf("Fork", fork)))))
InlineDict(n) ==
    LET leaf == <<U("key", 256), Rest("value", {<< <<>>, <<>> >>})>>
        fork == <<Tree("left"), Tree("right")>>
    IN Sub(n, OneOf(<<"Leaf", "Fork">>, [Leaf |-> <<Tag(2, 2)>> \o leaf, Fork |-> <<Tag(2, 0)>> \o fork],
                    Node(2, (2 :> Leaf("Leaf", leaf)) @@ (0 :> Leaf("Fork", fork)))))
AugDict(n, extra) == Sub(n, Derived(<<Dict("dict"), Sub("extra", extra)>>))

----------------------------------------------------------------------------
(* Blocks.                                                                 *)

OutMsgQueueUpdates == Derived(<<Tag(4, 1), U("diff_hash", 256), U("tail_len", 32)>>)

BlockHead == <<U("global_id", 32), Lazy("info"), Lazy("value_flow")>>
\* Without `tycho` the queue updates are optional, and the tag says which.
BlockStore(tycho) ==
    LET inCell(updates) == Child(Written(<<Lazy("state_update")>> \o updates, <<>>))
    IN IF tycho THEN [V2 |-> <<Mark(32, <<"11ef55bb">>)>> \o BlockHead
                                \o <<inCell(<<Sub("updates", OutMsgQueueUpdates)>>), Lazy("extra")>>]
       ELSE [V1 |-> <<Mark(32, <<"11ef55aa">>)>> \o BlockHead \o <<Lazy("state_update"), Lazy("extra")>>,
             V2 |-> <<Mark(32, <<"11ef55bb">>)>> \o BlockHead \o <<inCell(<<Dict("updates")>>), Lazy("extra")>>]
BlockLoad(tycho) ==
    LET inCell(updates) == Child(Written(<<>>, <<Lazy("state_update")>> \o updates))
    IN IF tycho THEN Which(32, <<"11ef55bb">> :> Leaf("V2",
                        BlockHead \o <<inCell(<<Sub("updates", OutMsgQueueUpdates)>>), Lazy("extra")>>))
       ELSE Which(32, (<<"11ef55aa">> :> Leaf("V1", BlockHead \o <<Lazy("state_update"), Lazy("extra")>>))
                      @@ (<<"11ef55bb">> :> Leaf("V2", BlockHead \o <<inCell(<<Dict("updates")>>), Lazy("extra")>>)))
Block(tycho) == OneOf(IF tycho THEN <<"V2">> ELSE <<"V1", "V2">>, BlockStore(tycho), BlockLoad(tycho))

PackedFlags == <<Flag("has_master_ref"), Flag("after_merge"), B("before_after_want", 4, {0, 5, 10, 15}),
                 Flag("key_block"), Flag("has_prev_vert_ref"), B("flags", 8, {0, 1})>>
BlockInfoTail == <<U("start_lt", 64), U("end_lt", 64), U("gen_validator_list_hash_short", 32),
                   U("gen_catchain_seqno", 32), U("min_ref_mc_seqno", 32), U("prev_key_block_seqno", 32)>>
GenSoftware == {x \in 0..255 : x % 2 = 1}
BlockInfoRefs == <<When("gen_software", "flags", GenSoftware, GlobalVersion),
                   When("master_ref", "has_master_ref", {1}, Derived(<<Lazy("cell")>>)),
                   Tree("prev_ref"),
                   When("prev_vert_ref", "has_prev_vert_ref", {1}, Derived(<<Lazy("cell")>>))>>
BlockInfoStore(tycho) ==
    <<Mark(32, IF tycho THEN <<"9bc7a988">> ELSE <<"9bc7a987">>), U("version", 32)>> \o PackedFlags
        \o <<U("seqno", 32), U("vert_seqno", 32), Sub("shard", ShardIdent), U("gen_utime", 32)>>
        \o (IF tycho THEN <<U("gen_utime_ms", 16)>> ELSE <<>>) \o BlockInfoTail \o BlockInfoRefs
\* A build with `tycho` reads the older tag too, without the milliseconds.
BlockInfoLoad(tycho) ==
    LET head == <<U("version", 32)>> \o PackedFlags
                \o <<U("seqno", 32), Check("nonzero", "seqno", ""), U("vert_seqno", 32),
                     Sub("shard", ShardIdent), U("gen_utime", 32)>>
        tail == BlockInfoTail \o BlockInfoRefs \o <<Check("needs", "prev_vert_ref", "vert_seqno")>>
    IN IF tycho THEN <<Marks(32, <<<<"9bc7a987">>, <<"9bc7a988">>>>,
                             All(head) \o <<Since(U("gen_utime_ms", 16), 1, Zero)>> \o All(tail))>>
       ELSE <<Mark(32, <<"9bc7a987">>)>> \o head \o tail
BlockInfo(tycho) == Written(BlockInfoStore(tycho), BlockInfoLoad(tycho))

PrevBlockRefStore == [Single |-> BlockRef.st, AfterMerge |-> <<Ref("left", BlockRef), Ref("right", BlockRef)>>]
\* `after_merge` of the block decides.
PrevBlockRefLoad(after_merge) ==
    IF after_merge THEN <<Ref("left", BlockRef), Ref("right", BlockRef)>> ELSE BlockRef.ld
PrevBlockRef(after_merge) ==
    Written(PrevBlockRefStore[IF after_merge THEN "AfterMerge" ELSE "Single"], PrevBlockRefLoad(after_merge))

ZeroCurrency == ("tokens" :> Bytes(0, <<>>)) @@ ("other" :> <<>>)
ValueFlow1 == Derived(<<Sub("from_prev_block", CurrencyCollection), Sub("to_next_block", CurrencyCollection),
                        Sub("imported", CurrencyCollection), Sub("exported", CurrencyCollection)>>)
ValueFlow2 == Derived(<<Sub("fees_imported", CurrencyCollection), Sub("recovered", CurrencyCollection),
                        Sub("created", CurrencyCollection), Sub("minted", CurrencyCollection)>>)
ValueFlowTags == <<<<"b8e48dfb">>, <<"3ebf98b7">>>>
\* Mutant: the first four sums are put in place.
MutValueFlowStore(fees) ==
    <<Marks(32, ValueFlowTags, All(ValueFlow1.st) \o <<Always(Sub("fees_collected", fees)),
                                 Since(Sub("burned", fees), 1, ZeroCurrency), Always(Child(ValueFlow2))>>)>>
ValueFlowStore(fees) ==
    <<Marks(32, ValueFlowTags, <<Always(Child(ValueFlow1)), Always(Sub("fees_collected", fees)),
                                 Since(Sub("burned", fees), 1, ZeroCurrency), Always(Child(ValueFlow2))>>)>>
\* The fees are read before the two cells.
ValueFlowLoad(fees) ==
    <<Marks(32, ValueFlowTags, <<Always(Sub("fees_collected", fees)), Since(Sub("burned", fees), 1, ZeroCurrency),
                                 Always(Child(ValueFlow1)), Always(Child(ValueFlow2))>>)>>
ValueFlow(fees) == Written(ValueFlowStore(fees), ValueFlowLoad(fees))
\* A currency collection that has no extra currencies.
NativeOnly == Written(<<Tokens("tokens"), Tag(1, 0), Put("other", <<>>)>>, CurrencyCollection.ld)

BlockExtraFields == <<Lazy("in_msg_description"), Lazy("out_msg_description"), Lazy("account_blocks"),
                      U("rand_seed", 256), U("created_by", 256), OptTree("custom")>>
BlockExtraStore(tycho) == <<Mark(32, IF tycho THEN <<"4a33f6fc">> ELSE <<"4a33f6fd">>)>> \o BlockExtraFields
BlockExtraLoad(tycho) ==
    IF tycho THEN <<Marks(32, <<<<"4a33f6fd">>, <<"4a33f6fc">>>>, All(BlockExtraFields))>>
    ELSE <<Mark(32, <<"4a33f6fd">>)>> \o BlockExtraFields
BlockExtra(tycho) == Written(BlockExtraStore(tycho), BlockExtraLoad(tycho))

AccountBlockStore == <<Tag(4, 5), U("account", 256), InlineAugDict("transactions", CurrencyCollection.st),
                       Lazy("state_update")>>
AccountBlockLoad == <<Tag(4, 5), U("account", 256), InlineAugDict("transactions", CurrencyCollection.ld),
                      Lazy("state_update")>>
AccountBlock == Written(AccountBlockStore, AccountBlockLoad)

ShardIdentFull == Derived(<<U("workchain", 32), U("prefix", 64)>>)
ShardFeeCreated == Derived(<<Sub("fees", CurrencyCollection), Sub("create", CurrencyCollection)>>)
Signature == Written(<<Tag(4, 5), U("signature", 512)>>, <<Tag(4, 5), U("signature", 512)>>)
BlockSignature == Derived(<<U("node_id_short", 256), Sub("signature", Signature)>>)
BlockchainConfig == Derived(<<U("address", 256), Tree("params")>>)

McBlockCont == Derived(<<Dict("prev_block_signatures"), OptTree("recover_create_msg"), OptTree("mint_msg")>>)
McBlockExtraStore ==
    <<Tag(16, 52389), Flag("with_config"), Dict("shards"), AugDict("fees", ShardFeeCreated), Child(McBlockCont),
      When("config", "with_config", {1}, BlockchainConfig)>>
McBlockExtraLoad ==
    <<Tag(16, 52389), Flag("with_config"), Dict("shards"), AugDict("fees", ShardFeeCreated), Child(McBlockCont),
      When("config", "with_config", {1}, BlockchainConfig)>>
McBlockExtra == Written(McBlockExtraStore, McBlockExtraLoad)

ValidatorBaseInfo == Derived(<<U("validator_list_hash_short", 32), U("catchain_seqno", 32)>>)
GenesisInfo == Derived(<<U("start_round", 32), U("genesis_millis", 64)>>)
ConsensusInfo == Derived(<<U("vset_switch_round", 32), U("prev_vset_switch_round", 32),
                           Sub("genesis_info", GenesisInfo), Flag("prev_shuffle_mc_validators")>>)
BlockSignatures(tycho) ==
    Derived(<<Tag(8, IF tycho THEN 18 ELSE 17), Sub("validator_info", ValidatorBaseInfo)>>
            \o (IF tycho THEN <<Sub("consensus_info", ConsensusInfo)>> ELSE <<>>)
            \o <<U("signature_count", 32), U("total_weight", 64), Dict("signatures")>>)
BlockProofStore(tycho) ==
    <<Tag(8, 195), Sub("proof_for", BlockId), Tree("root"),
      Opt("signatures", Derived(<<Ref("cell", BlockSignatures(tycho))>>))>>
BlockProofLoad(tycho) ==
    <<Tag(8, 195), Sub("proof_for", BlockId), Tree("root"),
      Opt("signatures", Derived(<<Ref("cell", BlockSignatures(tycho))>>))>>
BlockProof(tycho) == Written(BlockProofStore(tycho), BlockProofLoad(tycho))

----------------------------------------------------------------------------
(* Shard descriptions.                                                     *)

FutureSplitMergeStore == [Split |-> <<Tag(1, 0), U("utime", 32), U("interval", 32)>>,
                          Merge |-> <<Tag(1, 1), U("utime", 32), U("interval", 32)>>]
FutureSplitMergeLoad == If(Leaf("Split", <<U("utime", 32), U("interval", 32)>>),
                           Leaf("Merge", <<U("utime", 32), U("interval", 32)>>))
FutureSplitMerge == OneOf(<<"Split", "Merge">>, FutureSplitMergeStore, FutureSplitMergeLoad)

\* Five flags, and a sixth one with `tycho`; the last two bits are reserved.
ShardDescriptionBody(tycho, flags) ==
    <<U("seqno", 32), U("reg_mc_seqno", 32), U("start_lt", 64), U("end_lt", 64), U("root_hash", 256),
      U("file_hash", 256)>> \o flags \o <<U("next_catchain_seqno", 32),
      IF tycho THEN U("ext_processed_to_anchor_id", 32) ELSE U("next_validator_shard", 64),
      U("min_ref_mc_seqno", 32), U("gen_utime", 32), Opt("split_merge_at", FutureSplitMerge)>>
ShardDescriptionFunds == <<Sub("fees_collected", CurrencyCollection), Sub("funds_created", CurrencyCollection)>>
ShardDescriptionStore(tycho) ==
    LET flags == IF tycho THEN <<B("flags", 6, {0, 21, 63}), Tag(2, 0)>>
                 ELSE <<B("flags", 5, {0, 10, 31}), Tag(3, 0)>>
    IN <<Tag(4, 10)>> \o ShardDescriptionBody(tycho, flags) \o <<Child(Derived(ShardDescriptionFunds))>>
\* The funds are in a cell of their own (V1) or in place (V2). Without `tycho`
\* the bit of the sixth flag is neither read nor refused.
ShardDescriptionLoad(tycho) ==
    LET reserved == <<B("reserved", 2, {}), Check("atmost", "reserved", 0), Drop("reserved")>>
        flags == IF tycho THEN <<B("flags", 6, {})>> \o reserved
                 ELSE <<B("flags", 5, {}), B("ignored", 1, {}), Drop("ignored")>> \o reserved
        body == ShardDescriptionBody(tycho, flags)
    IN <<Switch(Node(4, (10 :> Leaf("V1", body \o <<Child(Derived(ShardDescriptionFunds))>>))
                        @@ (11 :> Leaf("V2", body \o ShardDescriptionFunds))))>>
ShardDescription(tycho) == Written(ShardDescriptionStore(tycho), ShardDescriptionLoad(tycho))

----------------------------------------------------------------------------
(* Shard states.                                                           *)

LibDescrStore == <<Tag(2, 0), Tree("lib"), InlineDict("publishers")>>
LibDescrLoad == <<Tag(2, 0), Tree("lib"), InlineDict("publishers")>>
LibDescr == Written(LibDescrStore, LibDescrLoad)

ShardStateChild == Derived(<<U("overload_history", 64), U("underload_history", 64),
                             Sub("total_balance", CurrencyCollection),
                             Sub("total_validator_fees", CurrencyCollection), Dict("libraries"),
                             Opt("master_ref", BlockRef)>>)
\* The queue info without `tycho`, the processed positions with it.
QueueCell(tycho) == IF tycho THEN Lazy("processed_upto") ELSE Tree("out_msg_queue_info")
ShardStateHead == <<U("global_id", 32), Sub("shard_ident", ShardIdent), U("seqno", 32), U("vert_seqno", 32),
                    U("gen_utime", 32)>>
ShardStateUnsplitStore(tycho) ==
    <<Tag(1, 1), Mark(31, IF tycho THEN <<"9023aeee">> ELSE <<"9023afe2">>)>> \o ShardStateHead
        \o (IF tycho THEN <<U("gen_utime_ms", 16)>> ELSE <<>>)
        \o <<U("gen_lt", 64), U("min_ref_mc_seqno", 32), QueueCell(tycho), Flag("before_split"),
             Lazy("accounts"), Child(ShardStateChild), OptTree("custom")>>
\* All references but the last are read first.
ShardStateUnsplitLoad(tycho) ==
    LET head == <<QueueCell(tycho), Lazy("accounts"), Child(ShardStateChild)>> \o ShardStateHead
        tail == <<U("gen_lt", 64), U("min_ref_mc_seqno", 32), Flag("before_split"), OptTree("custom")>>
    IN <<Tag(1, 1)>> \o
       IF tycho THEN <<Marks(31, <<<<"9023afe2">>, <<"9023aeee">>>>,
                             All(head) \o <<Since(U("gen_utime_ms", 16), 1, Zero)>> \o All(tail))>>
       ELSE <<Mark(31, <<"9023afe2">>)>> \o head \o tail
ShardStateUnsplit(tycho) == Written(ShardStateUnsplitStore(tycho), ShardStateUnsplitLoad(tycho))

\* The first bit of the tags (9.. and 5..) tells the two kinds apart.
ShardStateSplit == Derived(<<Tag(1, 0), Mark(31, <<"5f327da5">>), Lazy("left"), Lazy("right")>>)
ShardStateStore(tycho) == [Unsplit |-> ShardStateUnsplitStore(tycho), Split |-> ShardStateSplit.st]
ShardStateLoad(tycho) == Peek(1, (1 :> Leaf("Unsplit", ShardStateUnsplitLoad(tycho)))
                                 @@ (0 :> Leaf("Split", ShardStateSplit.ld)))
ShardState(tycho) == OneOf(<<"Split", "Unsplit">>, ShardStateStore(tycho), ShardStateLoad(tycho))

ProcessedUptoInfo == Derived(<<Tag(8, 0), Dict("partitions"), OptTree("msgs_exec_params")>>)
ExternalsProcessedUpto == Derived(<<Tag(8, 0), U("anchor", 32), U("offset", 64), Dict("ranges")>>)
ExternalsRange == Derived(<<Tag(8, 0), U("from_anchor", 32), U("from_offset", 64), U("to_anchor", 32),
                            U("to_offset", 64), U("chain_time", 64), U("skip_offset", 32),
                            U("processed_offset", 32)>>)
InternalsProcessedUpto == Derived(<<Tag(8, 0), Dict("processed_to"), Dict("ranges")>>)
ProcessedUptoPartition == Derived(<<Tag(8, 0), Sub("externals", ExternalsProcessedUpto),
                                    Sub("internals", InternalsProcessedUpto)>>)
InternalsRange == Derived(<<Tag(8, 0), U("skip_offset", 32), U("processed_offset", 32), Dict("shards")>>)
ShardRange == Derived(<<Tag(8, 0), U("from", 64), U("to", 64)>>)

ValidatorInfo == Derived(<<U("validator_list_hash_short", 32), U("catchain_seqno", 32), Flag("nx_cc_updated")>>)
KeyMaxLt == Derived(<<Flag("has_key_block"), U("max_end_lt", 64)>>)
KeyBlockRef == Derived(<<Flag("is_key_block"), Sub("block_ref", BlockRef)>>)
BlockCounters == Derived(<<U("updated_at", 32), U("total", 64), U("cnt2048", 64), U("cnt65536", 64)>>)
CreatorStats == Derived(<<Tag(4, 4), Sub("mc_blocks", BlockCounters), Sub("shard_blocks", BlockCounters)>>)

\* The flags of the cell of an extra: consensus info (with `tycho`, when it is not
\* that of a zerostate), a bit that is never written, and the statistics.
McStateExtraBody(tycho) ==
    <<Sub("validator_info", ValidatorInfo), AugDict("prev_blocks", KeyMaxLt), Flag("after_key_block"),
      Opt("last_key_block", BlockRef),
      When("block_create_stats", "with_stats", {1}, Derived(<<Tag(8, 23), Dict("stats")>>))>>
    \o (IF tycho THEN <<When("consensus_info", "with_consensus", {1}, ConsensusInfo)>> ELSE <<>>)
McStateExtraStore(tycho) ==
    LET flags == (IF tycho THEN <<Tag(13, 0), Flag("with_consensus")>> ELSE <<Tag(14, 0)>>)
                 \o <<Tag(1, 0), Flag("with_stats")>>
    IN <<Tag(16, 52262), Dict("shards"), Sub("config", BlockchainConfig),
         Child(Written(flags \o McStateExtraBody(tycho), <<>>)), Sub("global_balance", CurrencyCollection)>>
\* The second bit is accepted and forgotten.
McStateExtraLoad(tycho) ==
    LET high == <<B("high", IF tycho THEN 13 ELSE 14, {}), Check("atmost", "high", 0), Drop("high")>>
        flags == high \o (IF tycho THEN <<Flag("with_consensus")>> ELSE <<>>)
                 \o <<B("second", 1, {}), Drop("second"), Flag("with_stats")>>
    IN <<Tag(16, 52262), Dict("shards"), Sub("config", BlockchainConfig),
         Child(Written(<<>>, flags \o McStateExtraBody(tycho))), Sub("global_balance", CurrencyCollection)>>
McStateExtra(tycho) == Written(McStateExtraStore(tycho), McStateExtraLoad(tycho))

MAX_DEPTH == 30
DepthBalanceInfoStore == <<Check("atmost", "split_depth", MAX_DEPTH), B("split_depth", 5, {0, MAX_DEPTH, 31}),
                           Sub("balance", CurrencyCollection)>>
DepthBalanceInfoLoad == <<B("split_depth", 5, {}), Sub("balance", CurrencyCollection),
                          Check("atmost", "split_depth", MAX_DEPTH)>>
\* Mutant: what follows the balance is taken with it.
MutDepthBalanceInfo == Written(DepthBalanceInfoStore, DepthBalanceInfoLoad \o <<Rest("left", {}), Drop("left")>>)
DepthBalanceInfo == Written(DepthBalanceInfoStore, DepthBalanceInfoLoad)

----------------------------------------------------------------------------
(* Output actions of the VM.                                               *)

\* `mode << 1`, with the lowest bit for the kind of reference.
LibRefStore == [Hash |-> <<Tag(1, 0), U("hash", 256)>>, Cell |-> <<Tag(1, 1), Tree("cell")>>]
LibRefLoad == If(Leaf("Hash", <<U("hash", 256)>>), Leaf("Cell", <<Tree("cell")>>))
LibRef == OneOf(<<"Hash", "Cell">>, LibRefStore, LibRefLoad)
OutActionStore ==
    [SendMsg |-> <<Mark(32, <<"0ec3c86d">>), U("mode", 8), Lazy("out_msg")>>,
     SetCode |-> <<Mark(32, <<"ad4de08e">>), Tree("new_code")>>,
     ReserveCurrency |-> <<Mark(32, <<"36e6b809">>), U("mode", 8)>> \o CurrencyCollection.st,
     ChangeLibrary |-> <<Mark(32, <<"26fa1dd4">>), B("mode", 7, {0, 2, 17}), Sub("lib", LibRef)>>]
OutActionLoad ==
    Which(32, (<<"0ec3c86d">> :> Leaf("SendMsg", <<U("mode", 8), Lazy("out_msg")>>))
              @@ (<<"ad4de08e">> :> Leaf("SetCode", <<Tree("new_code")>>))
              @@ (<<"36e6b809">> :> Leaf("ReserveCurrency", <<U("mode", 8)>> \o CurrencyCollection.ld))
              @@ (<<"26fa1dd4">> :> Leaf("ChangeLibrary", <<B("mode", 7, {}), Sub("lib", LibRef)>>)))
OutAction == OneOf(<<"SetCode", "SendMsg", "ReserveCurrency", "ChangeLibrary">>, OutActionStore, OutActionLoad)

\* A link of the list of actions: the previous ones, then the action itself.
OutListLink == Derived(<<Tree("prev"), Sub("action", OutAction)>>)
=============================================================================
