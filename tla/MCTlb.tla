------------------------------- MODULE MCTlb -------------------------------
(***************************************************************************)
(* The formats of all models under Codec.                                  *)
(*                                                                         *)
(* Whole message headers with two addresses of variable length may exceed  *)
(* a cell, and say so with an error; a message's flags are a number with a *)
(* length, which may have zeroes.  Blocks are written and read as both     *)
(* builds of the crate do, and those of an older network are read by a     *)
(* newer build.                                                            *)
(*                                                                         *)
(* Three values that the code does not read back are catalogues of their   *)
(* own: FeesInExtraCurrencies (ValueFlowFees.cfg), ValidatorsWithAdnl and  *)
(* ManyCandidates (README, known divergences).                             *)
(***************************************************************************)
EXTENDS Codec, TlbTransaction, TlbConfig

MessageTypes ==
    [CurrencyCollection |-> Entry(CurrencyCollection, 1),
     Anycast |-> Entry(Anycast, 1), StdAddr |-> Entry(StdAddr, 2), StdAddrKey |-> Entry(StdAddrKey, 1),
     IntAddr |-> Entry(IntAddr, 2), OptExtAddr |-> Entry(OptExtAddr, 1), AnyAddr |-> Entry(AnyAddr, 2),
     OptIntAddr |-> Entry(OptIntAddr, 2),
     MsgInfo |-> Lax(MayOverflow(Entry(MsgInfo, 1))),
     RelaxedMsgInfo |-> Lax(MayOverflow(Entry(RelaxedMsgInfo, 1))),
     MsgType |-> Entry(MsgType, 1), NewBounceBody |-> Entry(NewBounceBody, 2),
     NewBounceOriginalInfo |-> Entry(NewBounceOriginalInfo, 2),
     IntermediateAddr |-> Entry(IntermediateAddr, 1), MsgEnvelope |-> Entry(MsgEnvelope, 2),
     ImportFees |-> Entry(ImportFees, 2), InMsg |-> Entry(InMsg, 1),
     EnqueuedMsg |-> Entry(EnqueuedMsg, 1), OutMsg |-> Entry(OutMsg, 1),
     StorageUsedShort |-> Entry(StorageUsedShort, 1), StorageInfo |-> Entry(StorageInfo, 2),
     StateInit |-> Entry(StateInit, 2), AccountState |-> Entry(AccountState, 1),
     OptionalAccount |-> MayOverflow(Entry(OptionalAccount, 2)), ShardAccount |-> Entry(ShardAccount, 1),
     SimpleLib |-> Entry(SimpleLib, 1)]

TransactionTypes ==
    [StoragePhase |-> Entry(StoragePhase, 1), CreditPhase |-> Entry(CreditPhase, 2),
     ComputePhase |-> Entry(ComputePhase, 1), ActionPhase |-> Entry(ActionPhase, 1),
     BouncePhase |-> Entry(BouncePhase, 2), TxInfo |-> Entry(TxInfo, 1),
     HashUpdate |-> Entry(HashUpdate, 1), Transaction |-> Entry(Transaction, 1)]

BlockTypes(tycho) ==
    [Block |-> Entry(Block(tycho), 1), BlockInfo |-> Lax(Entry(BlockInfo(tycho), 1)),
     BlockExtra |-> Lax(Entry(BlockExtra(tycho), 1)), BlockProof |-> Entry(BlockProof(tycho), 1),
     ShardDescription |-> Lax(Entry(ShardDescription(tycho), 1)),
     ShardState |-> Lax(Entry(ShardState(tycho), 1)), McStateExtra |-> Lax(Entry(McStateExtra(tycho), 1))]

\* The same without `tycho`, under names of their own.
PlainTypes ==
    LET b == BlockTypes(FALSE)
    IN [PlainBlock |-> b.Block, PlainBlockInfo |-> b.BlockInfo, PlainBlockExtra |-> b.BlockExtra,
        PlainBlockProof |-> b.BlockProof, PlainShardDescription |-> b.ShardDescription,
        PlainShardState |-> b.ShardState, PlainMcStateExtra |-> b.McStateExtra]

CommonTypes ==
    [BlockId |-> Entry(BlockId, 1), PrevSingle |-> Entry(PrevBlockRef(FALSE), 1),
     PrevAfterMerge |-> Entry(PrevBlockRef(TRUE), 1), ValueFlow |-> Lax(Entry(ValueFlow(NativeOnly), 1)),
     AccountBlock |-> Entry(AccountBlock, 2), BlockSignature |-> Entry(BlockSignature, 1),
     McBlockExtra |-> MayOverflow(Entry(McBlockExtra, 1)), LibDescr |-> Open(Entry(LibDescr, 1)),
     ProcessedUptoInfo |-> Entry(ProcessedUptoInfo, 1), ProcessedUptoPartition |-> Entry(ProcessedUptoPartition, 2),
     ExternalsRange |-> Entry(ExternalsRange, 1), InternalsRange |-> Entry(InternalsRange, 1),
     ShardRange |-> Entry(ShardRange, 1), KeyBlockRef |-> Entry(KeyBlockRef, 1), KeyMaxLt |-> Entry(KeyMaxLt, 1),
     CreatorStats |-> Entry(CreatorStats, 1), DepthBalanceInfo |-> Entry(DepthBalanceInfo, 2),
     ShardIdentFull |-> Entry(ShardIdentFull, 1), OutListLink |-> Entry(OutListLink, 2)]

\* Blocks of an older network read by a build with `tycho`: the milliseconds,
\* which were not written, are zero.
OlderTypes ==
    LET older(s, ld) == Lax(Entry(Written(s \o <<Put("gen_utime_ms", Zero)>>, ld), 1))
    IN [OldBlockInfo |-> older(BlockInfoStore(FALSE), BlockInfoLoad(TRUE)),
        OldBlockExtra |-> Lax(Entry(Written(BlockExtraStore(FALSE), BlockExtraLoad(TRUE)), 1))]

FeesInExtraCurrencies == [ValueFlow |-> Entry(ValueFlow(CurrencyCollection), 1)]

ConfigTypes ==
    [BurningConfig |-> Entry(BurningConfig, 2), MintOnceConfig |-> Entry(MintOnceConfig, 2),
     ConfigVotingSetup |-> Entry(ConfigVotingSetup, 1), ConfigProposalSetup |-> Entry(ConfigProposalSetup, 1),
     WorkchainBasic |-> Loose(Entry(WorkchainDescription("Basic"), 1)),
     WorkchainExtended |-> Loose(Entry(WorkchainDescription("Extended"), 1)),
     BlockCreationRewards |-> Entry(BlockCreationRewards, 1), ElectionTimings |-> Entry(ElectionTimings, 1),
     ValidatorCountParams |-> Entry(ValidatorCountParams, 1), ValidatorStakeParams |-> Entry(ValidatorStakeParams, 1),
     StoragePrices |-> Entry(StoragePrices, 1), GasLimitsPrices |-> Lax(Entry(GasLimitsPrices, 1)),
     GasLimitsBase |-> Lax(Entry(Written(GasLimitsPricesBase, GasLimitsPricesLoad), 1)),
     BlockLimits |-> Entry(BlockLimits, 2), MsgForwardPrices |-> Entry(MsgForwardPrices, 1),
     CatchainConfig |-> Lax(Entry(CatchainConfig, 1)), ConsensusConfig |-> Lax(Entry(ConsensusConfig({1, 255}), 1)),
     MsgsExecutionParams |-> Lax(Entry(MsgsExecutionParams, 2)), CollationConfig |-> Lax(Entry(CollationConfig, 2)),
     TychoConsensusConfig |-> Entry(TychoConsensusConfig, 1), WorkUnitsParams |-> Entry(WorkUnitsParams, 2),
     ValidatorDescription |-> Entry(ValidatorDescription(Put("adnl_addr", Zero)), 1),
     ValidatorSet |-> Lax(Entry(ValidatorSetCell, 1)), SizeLimitsConfig |-> Entry(SizeLimitsConfig, 1),
     AuthorityMarksConfig |-> Entry(AuthorityMarksConfig, 1), NonEmptyDict |-> Open(Entry(NonEmptyDict, 1))]

AllTypes == PlainTypes @@ BlockTypes(TRUE) @@ CommonTypes @@ OlderTypes @@ MessageTypes
            @@ TransactionTypes @@ ConfigTypes

ValidatorsWithAdnl == [ValidatorDescription |-> Entry(ValidatorDescription(Lost("adnl_addr")), 1)]
ManyCandidates == [ConsensusConfig |-> Entry(ConsensusConfig({1, 255, 256, 257}), 1)]
=============================================================================
