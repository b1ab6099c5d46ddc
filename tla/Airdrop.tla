------------------------------- MODULE Airdrop -------------------------------
(***************************************************************************)
(* The airdrop of x/claim: claim records of Arkeo and Ethereum addresses,  *)
(* each with an amount for claiming, voting and delegating; the messages   *)
(* and hooks that pay or move them; the decay of the amounts over time;    *)
(* the sweep of the rest to the reserve at the end, and the upgrade that   *)
(* reopened the airdrop.  A message that fails is rolled back, and a hook  *)
(* that fails only logs: both are steps that are not enabled.  AddClaim    *)
(* always fails and has no action.                                         *)
(***************************************************************************)
EXTENDS Decimals, FiniteSets, Functions

CONSTANTS
    Addresses,          \* Arkeo addresses
    EthAddresses,       \* Ethereum addresses
    Genesis,            \* the claim records of the genesis file
    EthGenesis,
    AirdropStartTime,
    Durations,          \* the durations of the genesis file
    FixedDurations,     \* the durations RunUpgradeClaimFix sets
    MovedBack,          \* the coins RunUpgradeClaimFix moves back
    InitialReserve,
    MaxTime             \* bound on the time of a block

VARIABLES
    records,        \* claim records of Arkeo addresses
    ethRecords,     \* claim records of Ethereum addresses
    claimModule,    \* balance of the claim module
    reserve,        \* balance of the reserve module
    durations,      \* parameters untilDecay and ofDecay
    keys,           \* one-time keys present in the store
    time,           \* time of the block
    paid,           \* history: coins paid, by action
    swept           \* history: coins the first sweep took

vars == <<records, ethRecords, claimModule, reserve, durations, keys, time,
          paid, swept>>

Actions == {"claim", "vote", "delegate"}

\* A claim record.  A coin that was set to the zero Coin has no denomination:
\* it counts as zero, and as invalid where records are merged.
ClaimRecords ==
    [amount : [Actions -> Nat], denom : SUBSET Actions, transferable : BOOLEAN]

ParamValues == [untilDecay : Nat, ofDecay : Nat \ {0}]

ASSUME AirdropAssumptions ==
    /\ IsFiniteSet(Addresses) /\ IsFiniteSet(EthAddresses)
    /\ Genesis \in [Addresses -> ClaimRecords]
    /\ EthGenesis \in [EthAddresses -> ClaimRecords]
    /\ {Durations, FixedDurations} \subseteq ParamValues
    /\ {AirdropStartTime, MovedBack, InitialReserve, MaxTime} \subseteq Nat

IsEmpty(record) == \A action \in Actions : record.amount[action] = 0

\* setClaimableAmountForAction with the zero Coin.
SetCompleted(record, actions) ==
    [record EXCEPT !.amount = [action \in Actions |->
                         IF action \in actions THEN 0 ELSE @[action]],
                   !.denom = @ \ actions]

\* What the records of a set of addresses promise for an action.
Promised(given, S, action) ==
    SumFunctionOnSet([s \in S |-> given[s].amount[action]], S)

\* What the records still promise for an action.
Outstanding(action) ==
    Promised(records, Addresses, action) + Promised(ethRecords, EthAddresses, action)

Granted(action) ==
    Promised(Genesis, Addresses, action) + Promised(EthGenesis, EthAddresses, action)

\* Mutant: the decay is left out.
EndTime_BeforeDecay(params) == AirdropStartTime + params.untilDecay

\* The end of the airdrop for the sweep and for the upgrade.
EndTime(params) == AirdropStartTime + params.untilDecay + params.ofDecay

AfterEnd == time > EndTime(durations)

\* Mutant: the part that has decayed, instead of the part that is left.
DecayedAmount_Inverted(amount, elapsed) ==
    (amount * RoundInt(10000 * (elapsed - durations.untilDecay),
                       durations.ofDecay)) \div 10000

\* The amount left after a decay of whole basis points, truncated.
DecayedAmount(amount, elapsed) ==
    (amount * RoundInt(10000 * (durations.ofDecay
                                 - (elapsed - durations.untilDecay)),
                       durations.ofDecay)) \div 10000

ErrAirdropEnded == -1

\* GetClaimableAmountForAction: an amount, or the error that the airdrop ended.
GetClaimableAmountForAction(record, action) ==
    LET elapsed == time - AirdropStartTime
        amount  == record.amount[action]
    IN  IF elapsed < 0 \/ amount = 0 THEN 0
        ELSE CASE elapsed <= durations.untilDecay -> amount
               [] elapsed > durations.untilDecay + durations.ofDecay ->
                     ErrAirdropEnded
               [] OTHER -> DecayedAmount(amount, elapsed)

\* Mutant: the action is not marked as completed.
Completed_Not(record, action, amount) == record

\* The record after a payment: a payment of nothing leaves it alone.
Completed(record, action, amount) ==
    IF amount = 0 THEN record ELSE SetCompleted(record, {action})

\* ClaimCoinsForAction on the records of Arkeo addresses given.
ClaimCoinsForAction(given, address, action) ==
    LET amount == GetClaimableAmountForAction(given[address], action)
    IN  /\ amount # ErrAirdropEnded
        /\ amount <= claimModule
        /\ claimModule' = claimModule - amount
        /\ paid' = [paid EXCEPT ![action] = @ + amount]
        /\ records' = [given EXCEPT ![address] = Completed(@, action, amount)]
        /\ UNCHANGED <<reserve, durations, keys, time, swept>>

\* mergeClaimRecords panics where it adds a coin without a denomination to one
\* that has it.
CanMerge(a, b) == IsEmpty(a) \/ IsEmpty(b) \/ a.denom \subseteq b.denom

\* Mutant: the amounts of the second record replace those of the first.
MergeClaimRecords_Replaces(a, b) ==
    [b EXCEPT !.transferable = a.transferable]

\* mergeClaimRecords.
MergeClaimRecords(a, b) ==
    CASE IsEmpty(a) -> b
      [] ~IsEmpty(a) /\ IsEmpty(b) -> a
      [] OTHER ->
            [a EXCEPT
               !.amount = [action \in Actions |-> @[action] + b.amount[action]],
               !.denom  = @ \cup b.denom]

\* A record moved to an address: it can not be transferred any further.
Moved(record) == [record EXCEPT !.transferable = FALSE]

-----------------------------------------------------------------------------
\* MsgClaimArkeo.
ClaimArkeo(address) ==
    /\ records[address].amount["claim"] # 0
    /\ ClaimCoinsForAction(records, address, "claim")
    /\ UNCHANGED ethRecords

\* MsgClaimEth, signed by the owner of ethAddress for address.
ClaimEth(ethAddress, address) ==
    LET eth == ethRecords[ethAddress]
    IN  /\ ~IsEmpty(eth)
        /\ CanMerge(records[address], Moved(eth))
        /\ ethRecords' =
             [ethRecords EXCEPT ![ethAddress] = SetCompleted(@, Actions)]
        /\ ClaimCoinsForAction(
             [records EXCEPT ![address] = MergeClaimRecords(@, Moved(eth))],
             address, "claim")

\* MsgTransferClaim.
TransferClaim(creator, toAddress) ==
    LET original  == records[creator]
        completed == [records EXCEPT ![creator] = SetCompleted(@, Actions)]
    IN  /\ ~IsEmpty(original)
        /\ original.transferable
        /\ CanMerge(completed[toAddress], Moved(original))
        /\ ClaimCoinsForAction(
             [completed EXCEPT ![toAddress] =
                                  MergeClaimRecords(@, Moved(original))],
             toAddress, "claim")
        /\ UNCHANGED ethRecords

\* MsgClaimThorchain, sent by the claim server: the records are combined and
\* nothing is paid.  Every coin gets the denomination.
ClaimThorchain(fromAddress, toAddress) ==
    LET from == records[fromAddress]
        to   == records[toAddress]
    IN  /\ fromAddress # toAddress
        /\ ~IsEmpty(from)
        /\ records' =
             [records EXCEPT
                ![toAddress] = [to EXCEPT
                    !.amount = [action \in Actions |->
                                    @[action] + from.amount[action]],
                    !.denom = Actions],
                ![fromAddress] = [amount |-> [action \in Actions |-> 0],
                                  denom |-> Actions, transferable |-> FALSE]]
        /\ UNCHANGED <<ethRecords, claimModule, reserve, durations, keys,
                       time, paid, swept>>

\* The hooks on a vote and on a change of a delegation.
AfterProposalVote(voter) ==
    ClaimCoinsForAction(records, voter, "vote") /\ UNCHANGED ethRecords

AfterDelegationModified(delegator) ==
    ClaimCoinsForAction(records, delegator, "delegate") /\ UNCHANGED ethRecords

\* Blocks have increasing times; at the bound the time stands still.
NextTimes == IF time = MaxTime THEN {MaxTime} ELSE (time + 1)..MaxTime

\* EndBlocker, and the time of the next block.
EndBlocker ==
    /\ IF "MoveClaimTokens" \notin keys /\ AfterEnd
       THEN /\ claimModule' = 0
            /\ reserve' = reserve + claimModule
            /\ keys' = keys \cup {"MoveClaimTokens"}
            /\ swept' = IF "TransferTokens" \in keys THEN swept
                        ELSE claimModule
       ELSE UNCHANGED <<claimModule, reserve, keys, swept>>
    /\ time' \in NextTimes
    /\ UNCHANGED <<records, ethRecords, durations, paid>>

\* Mutant: the key of the sweep is not deleted.
KeysMovedBack_Kept == keys \cup {"UpdateParams", "TransferTokens"}

\* The one-time keys once the coins are moved back.
KeysMovedBack ==
    (keys \ {"MoveClaimTokens"}) \cup {"UpdateParams", "TransferTokens"}

\* Mutant: any reserve that is not empty will do.
CanMoveBack_NotEmpty == time <= EndTime(FixedDurations) /\ reserve > 0

\* The airdrop is open under the new parameters and the reserve can pay.
CanMoveBack == time <= EndTime(FixedDurations) /\ reserve >= MovedBack

\* RunUpgradeClaimFix, once: UpdateParams, then
\* MoveTokensFromReserveToClaimModule, which reads the new parameters.
RunUpgradeClaimFix ==
    /\ "UpdateParams" \notin keys
    /\ durations' = FixedDurations
    /\ IF CanMoveBack
       THEN /\ reserve' = reserve - MovedBack
            /\ claimModule' = claimModule + MovedBack
            /\ keys' = KeysMovedBack
       ELSE /\ keys' = keys \cup {"UpdateParams"}
            /\ UNCHANGED <<reserve, claimModule>>
    /\ UNCHANGED <<records, ethRecords, time, paid, swept>>

\* The genesis file gives the claim module what the records promise.
Init ==
    /\ records = Genesis
    /\ ethRecords = EthGenesis
    /\ claimModule = SumFunctionOnSet([action \in Actions |-> Granted(action)], Actions)
    /\ reserve = InitialReserve
    /\ durations = Durations
    /\ keys = {}
    /\ time = 0
    /\ paid = [action \in Actions |-> 0]
    /\ swept = 0

Next ==
    \/ \E a \in Addresses : ClaimArkeo(a)
    \/ \E e \in EthAddresses, a \in Addresses : ClaimEth(e, a)
    \/ \E a, b \in Addresses : TransferClaim(a, b)
    \/ \E a, b \in Addresses : ClaimThorchain(a, b)
    \/ \E a \in Addresses : AfterProposalVote(a)
    \/ \E a \in Addresses : AfterDelegationModified(a)
    \/ EndBlocker
    \/ RunUpgradeClaimFix

\* Blocks keep coming.  Nobody has to claim.
Spec == Init /\ [][Next]_vars /\ WF_vars(EndBlocker)

-----------------------------------------------------------------------------
\* The types of the store, and balances that never go negative.
AirdropTypeOK ==
    /\ records \in [Addresses -> ClaimRecords]
    /\ ethRecords \in [EthAddresses -> ClaimRecords]
    /\ {claimModule, reserve, swept} \subseteq Nat
    /\ durations \in {Durations, FixedDurations}
    /\ keys \subseteq {"MoveClaimTokens", "UpdateParams", "TransferTokens"}
    /\ time \in 0..MaxTime
    /\ paid \in [Actions -> Nat]

\* However records are claimed, merged, transferred and combined, over both
\* chains and in any order, what was paid for an action and what the records
\* still promise for it never exceed what the genesis file granted for it: no
\* grant is paid twice.  Until the decay begins, with the parameters of the
\* genesis file and with those of the upgrade, nothing is lost either.
GrantsPaidOnce ==
    \A action \in Actions :
        LET accounted == paid[action] + Outstanding(action)
        IN  /\ accounted <= Granted(action)
            /\ (\A params \in {Durations, FixedDurations} :
                   time <= AirdropStartTime + params.untilDecay)
                 => accounted = Granted(action)

\* Until the module is swept it can pay every record in full, so no claim and
\* no hook fails for want of coins.  After the upgrade that holds as long as
\* the amount moved back covers what the sweep had taken.
RecordsFunded ==
    "MoveClaimTokens" \notin keys /\ swept <= MovedBack
        => claimModule >= SumFunctionOnSet([action \in Actions |-> Outstanding(action)],
                                           Actions)

\* While nobody touches a record and the parameters stay, what it can be
\* claimed for never grows from the start of the airdrop on, across both
\* boundaries of the decay: waiting is never worth more.
ClaimableNeverGrows ==
    [][ AirdropStartTime <= time /\ durations' = durations =>
        \A a \in Addresses, action \in Actions :
            records'[a] = records[a] =>
                GetClaimableAmountForAction(records[a], action)'
                    <= GetClaimableAmountForAction(records[a], action)
      ]_vars

\* Once the airdrop has ended no message and no hook pays anybody, and the
\* records keep what they show, moved between addresses at most: whatever is
\* left in the module is there for the sweep.
EndedPaysNobody ==
    [][ AfterEnd => /\ paid' = paid
                    /\ \A action \in Actions :
                          Outstanding(action)' = Outstanding(action) ]_vars

\* Whether or not the upgrade reopens the airdrop, and whenever it does, in
\* the end the module is empty: what was not claimed is in the reserve.
EventuallySwept == <>[](AfterEnd /\ claimModule = 0)
=============================================================================
