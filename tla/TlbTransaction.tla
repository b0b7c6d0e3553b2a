--------------------------- MODULE TlbTransaction ---------------------------
(***************************************************************************)
(* The formats of transactions and their phases (models/transaction).      *)
(***************************************************************************)
EXTENDS TlbMessage

AccountStatusChangeStore == [Unchanged |-> <<Tag(1, 0)>>, Frozen |-> <<Tag(2, 2)>>, Deleted |-> <<Tag(2, 3)>>]
AccountStatusChangeLoad == If(Leaf("Unchanged", <<>>), If(Leaf("Frozen", <<>>), Leaf("Deleted", <<>>)))
AccountStatusChange ==
    OneOf(<<"Unchanged", "Frozen", "Deleted">>, AccountStatusChangeStore, AccountStatusChangeLoad)

StoragePhase == Derived(<<Tokens("storage_fees_collected"), OptTokens("storage_fees_due"),
                          Sub("status_change", AccountStatusChange)>>)
CreditPhase == Derived(<<OptTokens("due_fees_collected"), Sub("credit", CurrencyCollection)>>)

ComputePhaseSkipReasonStore == [NoState |-> <<Tag(2, 0)>>, BadState |-> <<Tag(2, 1)>>,
                                NoGas |-> <<Tag(2, 2)>>, Suspended |-> <<Tag(3, 6)>>]
ComputePhaseSkipReasonLoad ==
    Node(2, (0 :> Leaf("NoState", <<>>)) @@ (1 :> Leaf("BadState", <<>>)) @@ (2 :> Leaf("NoGas", <<>>))
            @@ (3 :> Node(1, 0 :> Leaf("Suspended", <<>>))))
ComputePhaseSkipReason == OneOf(<<"NoState", "BadState", "NoGas", "Suspended">>,
                                ComputePhaseSkipReasonStore, ComputePhaseSkipReasonLoad)
SkippedComputePhase == Derived(<<Sub("reason", ComputePhaseSkipReason)>>)

\* The part of an executed phase that is kept in a cell of its own.
ExecutedComputePhase ==
    Derived(<<VarUint56("gas_used"), VarUint56("gas_limit"), Opt("gas_credit", Derived(<<VarUint24("gas")>>)),
              U("mode", 8), U("exit_code", 32), OptU32("exit_arg"), U("vm_steps", 32),
              U("vm_init_state_hash", 256), U("vm_final_state_hash", 256)>>)
ComputePhaseStore ==
    [Skipped |-> <<Tag(1, 0)>> \o SkippedComputePhase.st,
     Executed |-> <<Tag(1, 1), B("flags", 3, {0, 5, 7}), Tokens("gas_fees"), Child(ExecutedComputePhase)>>]
ComputePhaseLoad ==
    If(Leaf("Skipped", SkippedComputePhase.ld),
       Leaf("Executed", <<B("flags", 3, {}), Tokens("gas_fees"), Child(ExecutedComputePhase)>>))
ComputePhase == OneOf(<<"Skipped", "Executed">>, ComputePhaseStore, ComputePhaseLoad)

\* The four counters share one 64-bit word, the first in the highest bits.
ActionPhaseStore ==
    <<B("flags", 3, {0, 5, 7}), Sub("status_change", AccountStatusChange), OptTokens("total_fwd_fees"),
      OptTokens("total_action_fees"), U("result_code", 32), OptU32("result_arg"),
      U("total_actions", 16), U("special_actions", 16), U("skipped_actions", 16), U("messages_created", 16),
      U("action_list_hash", 256), Sub("total_message_size", StorageUsedShort)>>
\* Mutant: the 64-bit word is taken apart from the lowest counter.
MutActionPhaseLoad ==
    <<B("flags", 3, {}), Sub("status_change", AccountStatusChange), OptTokens("total_fwd_fees"),
      OptTokens("total_action_fees"), U("result_code", 32), OptU32("result_arg"),
      U("messages_created", 16), U("skipped_actions", 16), U("special_actions", 16), U("total_actions", 16),
      U("action_list_hash", 256), Sub("total_message_size", StorageUsedShort)>>
ActionPhaseLoad ==
    <<B("flags", 3, {}), Sub("status_change", AccountStatusChange), OptTokens("total_fwd_fees"),
      OptTokens("total_action_fees"), U("result_code", 32), OptU32("result_arg"),
      U("total_actions", 16), U("special_actions", 16), U("skipped_actions", 16), U("messages_created", 16),
      U("action_list_hash", 256), Sub("total_message_size", StorageUsedShort)>>
ActionPhase == Written(ActionPhaseStore, ActionPhaseLoad)

NoFundsBouncePhase == Derived(<<Sub("msg_size", StorageUsedShort), Tokens("req_fwd_fees")>>)
ExecutedBouncePhase == Derived(<<Sub("msg_size", StorageUsedShort), Tokens("msg_fees"), Tokens("fwd_fees")>>)
BouncePhaseStore == [NegativeFunds |-> <<Tag(2, 0)>>,
                     NoFunds |-> <<Tag(2, 1)>> \o NoFundsBouncePhase.st,
                     Executed |-> <<Tag(1, 1)>> \o ExecutedBouncePhase.st]
BouncePhaseLoad == If(If(Leaf("NegativeFunds", <<>>), Leaf("NoFunds", NoFundsBouncePhase.ld)),
                      Leaf("Executed", ExecutedBouncePhase.ld))
BouncePhase == OneOf(<<"NegativeFunds", "NoFunds", "Executed">>, BouncePhaseStore, BouncePhaseLoad)

----------------------------------------------------------------------------

InCell(t) == Derived(<<Ref("cell", t)>>)

OrdinaryTxInfoStore ==
    <<Flag("credit_first"), Opt("storage_phase", StoragePhase), Opt("credit_phase", CreditPhase),
      Sub("compute_phase", ComputePhase), Opt("action_phase", InCell(ActionPhase)), Flag("aborted"),
      Opt("bounce_phase", BouncePhase), Flag("destroyed")>>
OrdinaryTxInfoLoad ==
    <<Flag("credit_first"), Opt("storage_phase", StoragePhase), Opt("credit_phase", CreditPhase),
      Sub("compute_phase", ComputePhase), Opt("action_phase", InCell(ActionPhase)), Flag("aborted"),
      Opt("bounce_phase", BouncePhase), Flag("destroyed")>>

TickTock(n) == Flag(n)
\* `aborted` and `destroyed` are stored as one two-bit number.
TickTockTxInfoStore ==
    <<TickTock("kind"), Sub("storage_phase", StoragePhase), Sub("compute_phase", ComputePhase),
      Opt("action_phase", InCell(ActionPhase)), Flag("aborted"), Flag("destroyed")>>
TickTockTxInfoLoad ==
    <<TickTock("kind"), Sub("storage_phase", StoragePhase), Sub("compute_phase", ComputePhase),
      Opt("action_phase", InCell(ActionPhase)), Flag("aborted"), Flag("destroyed")>>

TxInfoStore == [Ordinary |-> <<Tag(4, 0)>> \o OrdinaryTxInfoStore,
                TickTock |-> <<Tag(3, 1)>> \o TickTockTxInfoStore]
TxInfoLoad == Node(3, (1 :> Leaf("TickTock", TickTockTxInfoLoad))
                      @@ (0 :> Node(1, 0 :> Leaf("Ordinary", OrdinaryTxInfoLoad))))
TxInfo == OneOf(<<"Ordinary", "TickTock">>, TxInfoStore, TxInfoLoad)

HashUpdate == Derived(<<Tag(8, 114), U("old", 256), U("new", 256)>>)

TxMessages == Derived(<<OptTree("in_msg"), Dict("out_msgs")>>)
TransactionStore ==
    <<Tag(4, 7), U("account", 256), U("lt", 64), U("prev_trans_hash", 256), U("prev_trans_lt", 64),
      U("now", 32), U("out_msg_count", 15), AccountStatus("orig_status"), AccountStatus("end_status"),
      Child(TxMessages), Sub("total_fees", CurrencyCollection), Lazy("state_update"), Lazy("info")>>
\* The cell with the messages is the first reference, and is read first.
TransactionLoad ==
    <<Tag(4, 7), Child(TxMessages), U("account", 256), U("lt", 64), U("prev_trans_hash", 256),
      U("prev_trans_lt", 64), U("now", 32), U("out_msg_count", 15), AccountStatus("orig_status"),
      AccountStatus("end_status"), Sub("total_fees", CurrencyCollection), Lazy("state_update"), Lazy("info")>>
Transaction == Written(TransactionStore, TransactionLoad)
=============================================================================
