----------------------------- MODULE TlbConfig -----------------------------
(***************************************************************************)
(* The formats of the configuration parameters (models/config/params.rs).  *)
(***************************************************************************)
EXTENDS TlbBlock

BurningConfig ==
    Validated(<<Tag(8, 1), Opt("blackhole_addr", Derived(<<U("hash", 256)>>))>>
              \o Small("fee_burn_num", 32, {0, 3, 4}) \o Small("fee_burn_denom", 32, {1, 3}),
              Check("le", "fee_burn_num", "fee_burn_denom"))
MintOnceConfig == Derived(<<Tag(8, 1), U("mint_at", 32), Sub("delta", CurrencyCollection)>>)
ConfigVotingSetup == Derived(<<Tag(8, 145), Lazy("normal_params"), Lazy("critical_params")>>)
ConfigProposalSetup ==
    Derived(<<Tag(8, 54), U("min_total_rounds", 8), U("max_total_rounds", 8), U("min_wins", 8), U("max_losses", 8),
              U("min_store_sec", 32), U("max_store_sec", 32), U("bit_price", 32), U("cell_price", 32)>>)

WorkchainFormatBasic == Derived(<<U("vm_version", 32), U("vm_mode", 64)>>)
AddrLens == <<B("min_addr_len", 12, {63, 64, 1023}), B("max_addr_len", 12, {64, 1023, 1024}),
              B("addr_len_step", 12, {0, 1023, 1024}), U("workchain_type_id", 32)>>
AddrLensValid == <<Check("atleast", "min_addr_len", 64), Check("le", "min_addr_len", "max_addr_len"),
                   Check("atmost", "max_addr_len", 1023), Check("atmost", "addr_len_step", 1023)>>
WorkchainFormatExtended ==
    Written(AddrLensValid \o AddrLens, AddrLens \o <<Check("nonzero", "workchain_type_id", "")>> \o AddrLensValid)
WorkchainFormatStore == [Basic |-> <<Tag(4, 1)>> \o WorkchainFormatBasic.st,
                         Extended |-> <<Tag(4, 0)>> \o WorkchainFormatExtended.st]
WorkchainFormatLoad == Node(4, (1 :> Leaf("Basic", WorkchainFormatBasic.ld))
                               @@ (0 :> Leaf("Extended", WorkchainFormatExtended.ld)))

\* `is_valid` is asked before anything is stored, but not after a load.
MAX_SPLIT_DEPTH == 60
Splits == <<U("enabled_since", 32), U("actual_min_split", 8), B("min_split", 8, {0, 60}), B("max_split", 8, {0, 60, 61})>>
WorkchainDescriptionStore(format) ==
    <<Tag(8, 166)>> \o Splits
        \o <<Check("le", "min_split", "max_split"), Check("atmost", "max_split", MAX_SPLIT_DEPTH),
             Tag(1, IF format = "Basic" THEN 1 ELSE 0), Flag("active"), Flag("accept_msgs"), Tag(13, 0),
             U("zerostate_root_hash", 256), U("zerostate_file_hash", 256), U("version", 32)>>
        \o WorkchainFormatStore[format]
\* The flag `basic` must agree with the format's own tag.
WorkchainDescriptionLoad ==
    LET rest(f) == <<Flag("active"), Flag("accept_msgs"), B("reserved", 13, {}), Check("atmost", "reserved", 0),
                     Drop("reserved"), U("zerostate_root_hash", 256), U("zerostate_file_hash", 256),
                     U("version", 32), Switch(Node(4, (IF f = "Basic" THEN 1 ELSE 0) :> WorkchainFormatLoad.arms[
                                                          IF f = "Basic" THEN 1 ELSE 0]))>>
    IN <<Tag(8, 166)>> \o Splits \o <<Switch(If(Leaf("Extended", rest("Extended")), Leaf("Basic", rest("Basic"))))>>
WorkchainDescription(format) == Written(WorkchainDescriptionStore(format), WorkchainDescriptionLoad)

BlockCreationRewards == Derived(<<Tag(8, 107), Tokens("masterchain_block_fee"), Tokens("basechain_block_fee")>>)
ElectionTimings == Derived(<<U("validators_elected_for", 32), U("elections_start_before", 32),
                             U("elections_end_before", 32), U("stake_held_for", 32)>>)
ValidatorCountParams == Derived(<<U("max_validators", 16), U("max_main_validators", 16), U("min_validators", 16)>>)
ValidatorStakeParams == Derived(<<Tokens("min_stake"), Tokens("max_stake"), Tokens("min_total_stake"),
                                  U("max_stake_factor", 32)>>)
StoragePrices == Derived(<<Tag(8, 204), U("utime_since", 32), U("bit_price_ps", 64), U("cell_price_ps", 64),
                           U("mc_bit_price_ps", 64), U("mc_cell_price_ps", 64)>>)

\* Always written with the flat prefix and the special limit; read with or without.
GasLimitsPricesStore ==
    <<Tag(8, 209), U("flat_gas_limit", 64), U("flat_gas_price", 64), Tag(8, 222), U("gas_price", 64),
      U("gas_limit", 64), U("special_gas_limit", 64), U("gas_credit", 64), U("block_gas_limit", 64),
      U("freeze_due_limit", 64), U("delete_due_limit", 64)>>
GasLimitsPricesLoad ==
    LET ext == Leaf("Ext", <<U("gas_price", 64), U("gas_limit", 64), U("special_gas_limit", 64), U("gas_credit", 64),
                             U("block_gas_limit", 64), U("freeze_due_limit", 64), U("delete_due_limit", 64)>>)
        base == Leaf("Base", <<U("gas_price", 64), U("gas_limit", 64), U("gas_credit", 64), U("block_gas_limit", 64),
                               U("freeze_due_limit", 64), U("delete_due_limit", 64)>>)
        plain == (222 :> ext) @@ (221 :> base)
        flat == Leaf("Flat", <<U("flat_gas_limit", 64), U("flat_gas_price", 64), Switch(Node(8, plain))>>)
    IN <<Put("flat_gas_limit", Zero), Put("flat_gas_price", Zero), Put("special_gas_limit", Zero),
         Switch(Node(8, plain @@ (209 :> flat)))>>
GasLimitsPrices == Written(GasLimitsPricesStore, GasLimitsPricesLoad)
\* What other software writes: no flat prefix, or no special limit.
GasLimitsPricesBase ==
    <<Put("flat_gas_limit", Zero), Put("flat_gas_price", Zero), Put("special_gas_limit", Zero), Tag(8, 221),
      U("gas_price", 64), U("gas_limit", 64), U("gas_credit", 64), U("block_gas_limit", 64),
      U("freeze_due_limit", 64), U("delete_due_limit", 64)>>

BlockParamLimitsFields == <<Tag(8, 195)>> \o Small("underload", 32, {0, 2}) \o Small("soft_limit", 32, {1, 2})
                          \o Small("hard_limit", 32, {1, 3})
BlockParamLimitsValid == <<Check("le", "underload", "soft_limit"), Check("le", "soft_limit", "hard_limit")>>
BlockParamLimits == Written(BlockParamLimitsValid \o BlockParamLimitsFields,
                            BlockParamLimitsFields \o BlockParamLimitsValid)
BlockLimits == Derived(<<Tag(8, 93), Sub("bytes", BlockParamLimits), Sub("gas", BlockParamLimits),
                         Sub("lt_delta", BlockParamLimits)>>)
MsgForwardPrices == Derived(<<Tag(8, 234), U("lump_price", 64), U("bit_price", 64), U("cell_price", 64),
                              U("ihr_price_factor", 32), U("first_frac", 16), U("next_frac", 16)>>)

CatchainLifetimes == <<U("mc_catchain_lifetime", 32), U("shard_catchain_lifetime", 32),
                       U("shard_validators_lifetime", 32), U("shard_validators_num", 32)>>
CatchainConfigStore == <<Tag(8, 194), Tag(6, 0), Flag("isolate_mc_validators"), Flag("shuffle_mc_validators")>>
                       \o CatchainLifetimes
CatchainConfigLoad ==
    <<Switch(Node(8, (193 :> Leaf("V1", <<Put("isolate_mc_validators", 0), Put("shuffle_mc_validators", 0)>>))
                     @@ (194 :> Leaf("V2", <<B("reserved", 6, {}), Check("atmost", "reserved", 0), Drop("reserved"),
                                             Flag("isolate_mc_validators"), Flag("shuffle_mc_validators")>>))))>>
    \o CatchainLifetimes
CatchainConfig == Written(CatchainConfigStore, CatchainConfigLoad)

\* `round_candidates` is a 32-bit number of which V2 keeps 8 bits.
ConsensusRest == <<U("next_candidate_delay_ms", 32), U("consensus_timeout_ms", 32), U("fast_attempts", 32),
                   U("attempt_duration", 32), U("catchain_max_deps", 32), U("max_block_bytes", 32),
                   U("max_collated_bytes", 32)>>
ConsensusConfigStore(candidates) ==
    <<Tag(8, 215), Tag(7, 0), Flag("new_catchain_ids"), B("round_candidates", 8, candidates)>> \o ConsensusRest
ConsensusConfigLoad ==
    <<Switch(Node(8, (214 :> Leaf("V1", <<Put("new_catchain_ids", 0), Mark(16, Zero), B("round_candidates", 16, {})>>))
                     @@ (215 :> Leaf("V2", <<B("reserved", 7, {}), Check("atmost", "reserved", 0), Drop("reserved"),
                                             Flag("new_catchain_ids"), B("round_candidates", 8, {})>>)))),
      Check("atleast", "round_candidates", 1)>> \o ConsensusRest
ConsensusConfig(candidates) == Written(ConsensusConfigStore(candidates), ConsensusConfigLoad)

----------------------------------------------------------------------------
(* The parameters of a build with `tycho`.                                 *)

WorkUnitsParamsPrepare ==
    Derived(<<Tag(8, 0), U("fixed_part", 32), U("msgs_stats", 16), U("remaning_msgs_stats", 16),
              U("read_ext_msgs", 16), U("read_int_msgs", 16), U("read_new_msgs", 16), U("add_to_msg_groups", 16)>>)
WorkUnitsParamsExecute ==
    Derived(<<Tag(8, 0), U("prepare", 32), U("execute", 16), U("execute_err", 16), U("execute_delimiter", 32),
              U("serialize_enqueue", 16), U("serialize_dequeue", 16), U("insert_new_msgs", 16),
              U("subgroup_size", 16)>>)
WorkUnitsParamsFinalize ==
    Derived(<<Tag(8, 0), U("build_transactions", 16), U("build_accounts", 16), U("build_in_msg", 16),
              U("build_out_msg", 16), U("serialize_min", 32), U("serialize_accounts", 16), U("serialize_msg", 16),
              U("state_update_min", 32), U("state_update_accounts", 16), U("state_update_msg", 16),
              U("create_diff", 16), U("serialize_diff", 16), U("apply_diff", 16), U("diff_tail_len", 16)>>)
WorkUnitsParams == Derived(<<Tag(8, 0), Sub("prepare", WorkUnitsParamsPrepare), Sub("execute", WorkUnitsParamsExecute),
                             Sub("finalize", WorkUnitsParamsFinalize)>>)
MsgsExecutionParams ==
    Derived(<<Versions(8, <<0, 1>>,
                All(<<U("buffer_limit", 32), U("group_limit", 16), U("group_vert_size", 16),
                      U("externals_expire_timeout", 16), U("open_ranges_limit", 16),
                      U("par_0_int_msgs_count_limit", 32), U("par_0_ext_msgs_count_limit", 32),
                      Dict("group_slots_fractions")>>) \o <<Since(U("range_messages_limit", 32), 1, Zero)>>)>>)
CollationConfig ==
    Derived(<<Versions(8, <<166, 167>>,
                All(<<Flag("shuffle_mc_validators"), U("mc_block_min_interval_ms", 32)>>)
                \o <<Since(U("mc_block_max_interval_ms", 32), 1, Zero)>>
                \o All(<<U("empty_sc_block_interval_ms", 32), U("max_uncommitted_chain_length", 8),
                         U("wu_used_to_import_next_anchor", 64), Sub("msgs_exec_params", MsgsExecutionParams),
                         Sub("work_units_params", WorkUnitsParams)>>))>>)
TychoConsensusConfig ==
    LET NonZero(n, w) == <<U(n, w), Check("nonzero", n, "")>>
    IN Derived(<<Tag(8, 216)>> \o NonZero("clock_skew_millis", 16) \o NonZero("payload_batch_bytes", 32)
               \o <<U("sticky_anchors", 8)>> \o NonZero("commit_history_rounds", 8) \o <<U("deduplicate_rounds", 16)>>
               \o NonZero("max_consensus_lag_rounds", 16) \o NonZero("payload_buffer_bytes", 32)
               \o NonZero("broadcast_retry_millis", 16) \o NonZero("download_retry_millis", 16)
               \o NonZero("download_peers", 8) \o NonZero("min_sign_attempts", 8)
               \o NonZero("download_peer_queries", 8) \o NonZero("sync_support_rounds", 16))

----------------------------------------------------------------------------
(* Validators, limits and lists.                                           *)

\* With a sequence number the address is written as zeroes; adnl is the field as
\* the value has it in that case.
PubKey == <<Mark(32, <<"8e81278a">>), U("public_key", 256), U("weight", 64)>>
ValidatorDescriptionStore(adnl) ==
    [Basic |-> <<Tag(8, 83)>> \o PubKey, WithAdnl |-> <<Tag(8, 115)>> \o PubKey \o <<U("adnl_addr", 256)>>,
     WithSeqno |-> <<Tag(8, 147)>> \o PubKey \o <<adnl, Mark(256, Zero), U("mc_seqno_since", 32)>>]
ValidatorDescriptionLoad ==
    Node(8, (83 :> Leaf("Basic", PubKey)) @@ (115 :> Leaf("WithAdnl", PubKey \o <<U("adnl_addr", 256)>>))
            @@ (147 :> Leaf("WithSeqno", PubKey \o <<U("adnl_addr", 256), U("mc_seqno_since", 32)>>)))
ValidatorDescription(adnl) ==
    OneOf(<<"Basic", "WithAdnl", "WithSeqno">>, ValidatorDescriptionStore(adnl), ValidatorDescriptionLoad)

\* The header of a validator set; the list behind it is in module ValidatorSet.
ValidatorSetHead == <<U("utime_since", 32), U("utime_until", 32), B("total", 16, {1, 3}), B("main", 16, {1})>>
ValidatorSetStore == <<Tag(8, 18)>> \o ValidatorSetHead \o <<U("total_weight", 64), OptTree("list")>>
ValidatorSetLoad ==
    LET head == ValidatorSetHead \o <<Check("atleast", "main", 1), Check("le", "main", "total")>>
    IN <<Switch(Node(8, (17 :> Leaf("V1", head \o <<Put("total_weight", Zero), InlineDict("root")>>))
                        @@ (18 :> Leaf("V2", head \o <<U("total_weight", 64), OptTree("list")>>))))>>
ValidatorSetCell == Written(ValidatorSetStore, ValidatorSetLoad)

SizeLimitsConfig ==
    Derived(<<Tag(8, 2), U("max_msg_bits", 32), U("max_msg_cells", 32), U("max_library_cells", 32),
              U("max_vm_data_depth", 16), U("max_ext_msg_size", 32), U("max_ext_msg_depth", 16),
              U("max_acc_state_cells", 32), U("max_acc_state_bits", 32), U("max_acc_public_libraries", 32),
              U("defer_out_queue_size_limit", 32)>>)
AuthorityMarksConfig == Derived(<<Tag(8, 1), Dict("authority_addresses"), U("black_mark_id", 32),
                                  U("white_mark_id", 32)>>)
NonEmptyDict == Derived(<<InlineDict("dict")>>)
=============================================================================
