----------------------------- MODULE TlbMessage -----------------------------
(***************************************************************************)
(* The formats of messages, addresses, message descriptors and accounts    *)
(* (models/message, models/account, models/currency.rs), instruction by    *)
(* instruction as their `store_into` and `load_from` go.                   *)
(***************************************************************************)
EXTENDS Tlb

Tokens(n) == Var(n, 4, 15)
VarUint56(n) == Var(n, 3, 7)
VarUint24(n) == Var(n, 2, 3)
OptTokens(n) == Opt(n, Derived(<<Tokens("tokens")>>))
OptU32(n) == Opt(n, Derived(<<U("int", 32)>>))
Lazy(n) == Tree(n)

CurrencyCollection == Derived(<<Tokens("tokens"), Dict("other")>>)

----------------------------------------------------------------------------
(* Addresses.                                                              *)

SplitDepth(n) == <<B(n, 5, {2, 30})>>
SplitDepthLoad(n) == <<B(n, 5, {}), Check("atleast", n, 1)>>

Anycast == Written(SplitDepth("depth") \o <<Span("rewrite_prefix", "depth")>>,
                   SplitDepthLoad("depth") \o <<Span("rewrite_prefix", "depth")>>)

StdAddrFields == <<Opt("anycast", Anycast), U("workchain", 8), U("address", 256)>>
StdAddrStore == <<Tag(2, 2)>> \o StdAddrFields
\* `load_bit` must be 1, then 0.
StdAddrLoad == <<Tag(1, 1), Tag(1, 0)>> \o StdAddrFields
StdAddr == Written(StdAddrStore, StdAddrLoad)

\* As the key of a dictionary: without anycast, read from a shifted byte array.
StdAddrKeyStore == <<Tag(3, 4), U("workchain", 8), U("address", 256)>>
StdAddrKeyLoad == <<Tag(3, 4), U("workchain", 8), U("address", 256)>>
StdAddrKey == Written(StdAddrKeyStore, StdAddrKeyLoad)

VarAddrFields == <<Opt("anycast", Anycast), B("address_len", 9, {0, 256}), U("workchain", 32),
                   Span("address", "address_len")>>
VarAddrStore == <<Tag(2, 3)>> \o VarAddrFields

IntAddrStore == [Std |-> StdAddrStore, Var |-> VarAddrStore]
IntAddrLoad == Node(1, 1 :> If(Leaf("Std", StdAddrFields), Leaf("Var", VarAddrFields)))
IntAddr == OneOf(<<"Std", "Var">>, IntAddrStore, IntAddrLoad)

ExtAddrFields == <<Raw("data", 9, {0, 511})>>
store_ext_addr == [None |-> <<Tag(2, 0)>>, Ext |-> <<Tag(1, 0), Tag(1, 1)>> \o ExtAddrFields]
load_ext_addr == Node(1, 0 :> If(Leaf("None", <<>>), Leaf("Ext", ExtAddrFields)))
OptExtAddr == OneOf(<<"None", "Ext">>, store_ext_addr, load_ext_addr)

AnyAddrStore == store_ext_addr @@ IntAddrStore
AnyAddrLoad == Peek(1, (1 :> IntAddrLoad) @@ (0 :> load_ext_addr))
AnyAddr == OneOf(<<"None", "Std", "Var", "Ext">>, AnyAddrStore, AnyAddrLoad)

store_opt_int_addr == [None |-> <<Tag(2, 0)>>] @@ IntAddrStore
load_opt_int_addr == Peek(1, (1 :> IntAddrLoad) @@ (0 :> Node(2, 0 :> Leaf("None", <<>>))))
OptIntAddr == OneOf(<<"None", "Std", "Var">>, store_opt_int_addr, load_opt_int_addr)

----------------------------------------------------------------------------
(* Message headers.                                                        *)

\* Stored as tokens; only the two known bits are accepted.
MessageExtraFlagsStore == <<VarNum("extra_flags", 4, 0..3)>>
MessageExtraFlagsLoad == <<VarNum("extra_flags", 4, {}), Check("atmost", "extra_flags", 3)>>

MsgFlags == B("flags", 3, {0, 5, 7})
MsgTimes == <<U("created_lt", 64), U("created_at", 32)>>

IntMsgInfoStore ==
    <<MsgFlags, Sub("src", IntAddr), Sub("dst", IntAddr), Sub("value", CurrencyCollection)>>
        \o MessageExtraFlagsStore \o <<Tokens("fwd_fee")>> \o MsgTimes
IntMsgInfoLoad ==
    <<MsgFlags, Sub("src", IntAddr), Sub("dst", IntAddr), Sub("value", CurrencyCollection)>>
        \o MessageExtraFlagsLoad \o <<Tokens("fwd_fee")>> \o MsgTimes

RelaxedIntMsgInfoStore ==
    <<MsgFlags, Sub("src", OptIntAddr), Sub("dst", IntAddr), Sub("value", CurrencyCollection)>>
        \o MessageExtraFlagsStore \o <<Tokens("fwd_fee")>> \o MsgTimes
RelaxedIntMsgInfoLoad ==
    <<MsgFlags, Sub("src", OptIntAddr), Sub("dst", IntAddr), Sub("value", CurrencyCollection)>>
        \o MessageExtraFlagsLoad \o <<Tokens("fwd_fee")>> \o MsgTimes

ExtInMsgInfoStore == <<Sub("src", OptExtAddr), Sub("dst", IntAddr), Tokens("import_fee")>>
ExtInMsgInfoLoad == <<Sub("src", OptExtAddr), Sub("dst", IntAddr), Tokens("import_fee")>>

ExtOutMsgInfoStore == <<Sub("src", IntAddr), Sub("dst", OptExtAddr)>> \o MsgTimes
ExtOutMsgInfoLoad == <<Sub("src", IntAddr), Sub("dst", OptExtAddr)>> \o MsgTimes

RelaxedExtOutMsgInfoStore == <<Sub("src", OptIntAddr), Sub("dst", OptExtAddr)>> \o MsgTimes
RelaxedExtOutMsgInfoLoad == <<Sub("src", OptIntAddr), Sub("dst", OptExtAddr)>> \o MsgTimes

MsgInfoStore == [Int |-> <<Tag(1, 0)>> \o IntMsgInfoStore,
                 ExtIn |-> <<Tag(2, 2)>> \o ExtInMsgInfoStore,
                 ExtOut |-> <<Tag(2, 3)>> \o ExtOutMsgInfoStore]
MsgInfoLoad == If(Leaf("Int", IntMsgInfoLoad),
                  If(Leaf("ExtIn", ExtInMsgInfoLoad), Leaf("ExtOut", ExtOutMsgInfoLoad)))
MsgInfo == OneOf(<<"Int", "ExtIn", "ExtOut">>, MsgInfoStore, MsgInfoLoad)

RelaxedMsgInfoStore == [Int |-> <<Tag(1, 0)>> \o RelaxedIntMsgInfoStore,
                        ExtOut |-> <<Tag(2, 3)>> \o RelaxedExtOutMsgInfoStore]
RelaxedMsgInfoLoad == If(Leaf("Int", RelaxedIntMsgInfoLoad),
                         Node(1, 1 :> Leaf("ExtOut", RelaxedExtOutMsgInfoLoad)))
RelaxedMsgInfo == OneOf(<<"Int", "ExtOut">>, RelaxedMsgInfoStore, RelaxedMsgInfoLoad)

MsgTypeStore == [Int |-> <<Tag(1, 0)>>, ExtIn |-> <<Tag(2, 2)>>, ExtOut |-> <<Tag(2, 3)>>]
MsgTypeLoad == If(Leaf("Int", <<>>), If(Leaf("ExtIn", <<>>), Leaf("ExtOut", <<>>)))
MsgType == OneOf(<<"Int", "ExtIn", "ExtOut">>, MsgTypeStore, MsgTypeLoad)

NewBounceOriginalInfo == Derived(<<Sub("value", CurrencyCollection)>> \o MsgTimes)
NewBounceComputePhaseInfo == Derived(<<U("gas_used", 32), U("vm_steps", 32)>>)
NewBounceBody ==
    Derived(<<Mark(32, <<"fffffffe">>), Tree("original_body"), Lazy("original_info"),
              U("bounced_by_phase", 8), U("exit_code", 32),
              Opt("compute_phase", NewBounceComputePhaseInfo)>>)

----------------------------------------------------------------------------
(* Envelopes and the descriptors of a block's messages.                    *)

FULL_BITS == 96
IntermediateAddrRegular == Validated(<<B("use_dest_bits", 8, {0, FULL_BITS, FULL_BITS + 1})>>,
                                     Check("atmost", "use_dest_bits", FULL_BITS))
IntermediateAddrSimple == Derived(<<U("workchain", 8), U("address_prefix", 64)>>)
IntermediateAddrExt == Derived(<<U("workchain", 32), U("address_prefix", 64)>>)

IntermediateAddrStore == [Regular |-> <<Tag(1, 0)>> \o IntermediateAddrRegular.st,
                          Simple |-> <<Tag(2, 2)>> \o IntermediateAddrSimple.st,
                          Ext |-> <<Tag(2, 3)>> \o IntermediateAddrExt.st]
IntermediateAddrLoad == If(Leaf("Regular", IntermediateAddrRegular.ld),
                           If(Leaf("Simple", IntermediateAddrSimple.ld),
                              Leaf("Ext", IntermediateAddrExt.ld)))
IntermediateAddr == OneOf(<<"Simple", "Regular", "Ext">>, IntermediateAddrStore, IntermediateAddrLoad)

MsgEnvelope == Derived(<<Tag(4, 4), Sub("cur_addr", IntermediateAddr), Sub("next_addr", IntermediateAddr),
                         Tokens("fwd_fee_remaining"), Lazy("message")>>)

ImportFees == Derived(<<Tokens("fees_collected"), Sub("value_imported", CurrencyCollection)>>)
InMsgExternal == Derived(<<Lazy("in_msg"), Lazy("transaction")>>)
InMsgFinal == Derived(<<Lazy("in_msg_envelope"), Lazy("transaction"), Tokens("fwd_fee")>>)
InMsgTransit == Derived(<<Lazy("in_msg_envelope"), Lazy("out_msg_envelope"), Tokens("transit_fee")>>)

InMsgStore == [External |-> <<Tag(3, 0)>> \o InMsgExternal.st,
               Immediate |-> <<Tag(3, 3)>> \o InMsgFinal.st,
               Final |-> <<Tag(3, 4)>> \o InMsgFinal.st,
               Transit |-> <<Tag(3, 5)>> \o InMsgTransit.st]
InMsgLoad == Node(3, (0 :> Leaf("External", InMsgExternal.ld)) @@ (3 :> Leaf("Immediate", InMsgFinal.ld))
                     @@ (4 :> Leaf("Final", InMsgFinal.ld)) @@ (5 :> Leaf("Transit", InMsgTransit.ld)))
InMsg == OneOf(<<"External", "Immediate", "Final", "Transit">>, InMsgStore, InMsgLoad)

EnqueuedMsg == Derived(<<U("enqueued_lt", 64), Lazy("out_msg_envelope")>>)
OutMsgExternal == Derived(<<Lazy("out_msg"), Lazy("transaction")>>)
OutMsgImmediate == Derived(<<Lazy("out_msg_envelope"), Lazy("transaction"), Lazy("reimport")>>)
OutMsgNew == Derived(<<Lazy("out_msg_envelope"), Lazy("transaction")>>)
OutMsgDequeueImmediate == Derived(<<Lazy("out_msg_envelope"), Lazy("reimport")>>)
OutMsgDequeueShort == Derived(<<U("msg_env_hash", 256), U("next_workchain", 32),
                                U("next_addr_pfx", 64), U("import_block_lt", 64)>>)

OutMsgStore == [External |-> <<Tag(3, 0)>> \o OutMsgExternal.st,
                New |-> <<Tag(3, 1)>> \o OutMsgNew.st,
                Immediate |-> <<Tag(3, 2)>> \o OutMsgImmediate.st,
                DequeueImmediate |-> <<Tag(3, 4)>> \o OutMsgDequeueImmediate.st,
                DequeueShort |-> <<Tag(4, 13)>> \o OutMsgDequeueShort.st]
\* Mutant: the fourth bit of the longest tag is not looked at.
MutOutMsgLoad == Node(3, (0 :> Leaf("External", OutMsgExternal.ld)) @@ (1 :> Leaf("New", OutMsgNew.ld))
                         @@ (2 :> Leaf("Immediate", OutMsgImmediate.ld))
                         @@ (4 :> Leaf("DequeueImmediate", OutMsgDequeueImmediate.ld))
                         @@ (6 :> Node(1, [b \in 0..1 |-> Leaf("DequeueShort", OutMsgDequeueShort.ld)])))
OutMsgLoad == Node(3, (0 :> Leaf("External", OutMsgExternal.ld)) @@ (1 :> Leaf("New", OutMsgNew.ld))
                      @@ (2 :> Leaf("Immediate", OutMsgImmediate.ld))
                      @@ (4 :> Leaf("DequeueImmediate", OutMsgDequeueImmediate.ld))
                      @@ (6 :> Node(1, 1 :> Leaf("DequeueShort", OutMsgDequeueShort.ld))))
OutMsg == OneOf(<<"External", "New", "Immediate", "DequeueImmediate", "DequeueShort">>,
                OutMsgStore, OutMsgLoad)

----------------------------------------------------------------------------
(* Accounts.                                                               *)

StorageUsed == Derived(<<VarUint56("cells"), VarUint56("bits")>>)
StorageUsedShort == Derived(<<VarUint56("cells"), VarUint56("bits")>>)

StorageExtraStore == [None |-> <<Tag(3, 0)>>, DictHash |-> <<Tag(3, 1), U("dict_hash", 256)>>]
StorageExtraLoad == Node(3, (0 :> Leaf("None", <<>>)) @@ (1 :> Leaf("DictHash", <<U("dict_hash", 256)>>)))
StorageExtra == OneOf(<<"None", "DictHash">>, StorageExtraStore, StorageExtraLoad)

StorageInfo == Derived(<<Sub("used", StorageUsed), Sub("storage_extra", StorageExtra),
                         U("last_paid", 32), OptTokens("due_payment")>>)

AccountStatus(n) == B(n, 2, 0..3)

SpecialFlagsStore == <<B("tick_tock", 2, 0..3)>>
SpecialFlagsLoad == <<B("tick_tock", 2, {})>>
SpecialFlags == Written(SpecialFlagsStore, SpecialFlagsLoad)

StateInit == Derived(<<Opt("split_depth", Written(SplitDepth("depth"), SplitDepthLoad("depth"))),
                       Opt("special", SpecialFlags), OptTree("code"), OptTree("data"),
                       Dict("libraries")>>)

AccountStateStore == [Uninit |-> <<Tag(2, 0)>>, Frozen |-> <<Tag(2, 1), U("hash", 256)>>,
                      Active |-> <<Tag(1, 1)>> \o StateInit.st]
AccountStateLoad == If(If(Leaf("Uninit", <<>>), Leaf("Frozen", <<U("hash", 256)>>)),
                       Leaf("Active", StateInit.ld))
AccountState == OneOf(<<"Uninit", "Frozen", "Active">>, AccountStateStore, AccountStateLoad)

Account == Derived(<<Sub("address", IntAddr), Sub("storage_stat", StorageInfo), U("last_trans_lt", 64),
                     Sub("balance", CurrencyCollection), Sub("state", AccountState)>>)
OptionalAccount == Derived(<<Opt("account", Account)>>)
ShardAccount == Derived(<<Lazy("account"), U("last_trans_hash", 256), U("last_trans_lt", 64)>>)
SimpleLib == Derived(<<Flag("public"), Tree("root")>>)
=============================================================================
