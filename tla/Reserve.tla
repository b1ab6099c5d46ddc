------------------------------- MODULE Reserve -------------------------------
(***************************************************************************)
(* The block rewards of x/arkeo: Manager.BeginBlock updates the stored     *)
(* version from what the validators announced and pays a part of the       *)
(* reserve to the validators that signed the last block.  An error on the  *)
(* way is logged and nothing is rolled back.  Staking, votes and the       *)
(* distribution module are external: validators come and go as they like.  *)
(* Decimals have Precision digits after the point where the code has 18.   *)
(***************************************************************************)
EXTENDS Decimals, Sequences, FiniteSets, Functions

CONSTANTS
    Validators,         \* a sequence, in the order of the votes
    Shares,             \* delegator shares of a validator
    SWVersion,          \* the version of the running binary
    Versions,           \* versions a MsgSetVersion may carry
    VersionConsensus,   \* percentage of validators
    EmissionCurve,
    BlocksPerYear,
    ValidatorPayoutCycle,
    Precision,          \* ten to the number of digits
    InitialReserves,    \* opening balances of the reserve
    MaxBlocks,          \* bound: the last block; nothing is followed after it
    MaxFaults           \* bound: failures to allocate a reward

VARIABLES
    block,          \* the last block that began
    reserveCoins,   \* balance of the reserve module
    distribution,   \* balance of the distribution module
    allocated,      \* rewards allocated to validators
    pool,           \* the community pool
    status,         \* of a validator: bonded, jailed or unbonded, removed
    versions,       \* versions by address, in either of two encodings
    version,        \* the stored version
    uncounted,      \* history: signers of the last block not in the total
    faults

rewardsVars == <<block, reserveCoins, distribution, allocated, pool, status,
                 versions, version, uncounted, faults>>

ValidatorSet == {Validators[i] : i \in DOMAIN Validators}

\* MsgSetVersion turns the characters of the creator's address into a
\* validator address; BeginBlock decodes the operator's address.
Encodings == {"characters", "decoded"}

Statuses == {"bonded", "jailed", "removed"}

ASSUME ReserveAssumptions ==
    /\ Validators \in Seq(ValidatorSet)
    /\ Shares \in [ValidatorSet -> Nat]
    /\ {SWVersion, Precision} \subseteq Nat \ {0}
    /\ Versions \subseteq Nat
    /\ InitialReserves \subseteq Nat
    /\ VersionConsensus \in 0 .. 100
    /\ {EmissionCurve, BlocksPerYear, ValidatorPayoutCycle, MaxBlocks, MaxFaults}
         \subseteq Nat

\* The quotient of two decimals.
Quo(a, b) == RoundInt(a * Precision, b)

\* calcBlockReward; the intermediate quotients are exact here.
CalcBlockReward(totalReserve, h) ==
    IF 0 \in {EmissionCurve, BlocksPerYear, ValidatorPayoutCycle} THEN 0
    ELSE IF h % ValidatorPayoutCycle # 0 THEN 0
    ELSE RoundInt(totalReserve * ValidatorPayoutCycle,
                  EmissionCurve * BlocksPerYear)

\* A decimal.  A quotient of zero can not divide: the share is then zero.
GetUncappedShare(part, total, allocation) ==
    IF part = 0 \/ total = 0 \/ Quo(total, part) = 0 THEN 0
    ELSE Quo(allocation * Precision, Quo(total, part))

\* Mutant: the part is not capped by the total.
GetSafeShare_Uncapped(part, total, allocation) ==
    GetUncappedShare(part, total, allocation)

GetSafeShare(part, total, allocation) ==
    GetUncappedShare(IF part >= total THEN total ELSE part, total, allocation)

Bonded == {v \in ValidatorSet : status[v] = "bonded"}

\* GetVersionForAddress in BeginBlock.
VersionOf(v) == versions[v]["decoded"]

\* GetComputedVersion: the versions it may return.  The validators are visited
\* by power, which is external, and the first version enough of them have wins.
GetComputedVersion ==
    LET count(w) == Cardinality({v \in Bonded : VersionOf(v) = w})
        min      == (Cardinality(Bonded) * VersionConsensus) \div 100
        accepted == {w \in {VersionOf(v) : v \in Bonded} : count(w) >= min}
    IN  CASE Cardinality(Bonded) = 1 -> {SWVersion}
          [] Cardinality(Bonded) # 1 /\ accepted = {} -> {version}
          [] OTHER -> accepted

-----------------------------------------------------------------------------
(* Block rewards *)

\* Mutant: what is allocated is rounded up.
Allocated_Up(reward) == (reward + Precision - 1) \div Precision

\* TruncateInt of a reward.
Allocated(reward) == reward \div Precision

\* One turn of the loop of ValidatorPayout, for a validator that signed; fails
\* are the validators whose allocation fails after the coins were sent.
PayValidator(acc, v, total, blockReward, current, fails) ==
    LET reward == GetSafeShare(Shares[v], total, blockReward)
        amount == reward \div Precision
        rest   == [acc EXCEPT !.remainder = @ + (reward % Precision)]
    IN  CASE status[v] = "removed" \/ VersionOf(v) < current \/ reward = 0 -> acc
          [] OTHER ->
               IF amount > acc.reserve THEN rest
               ELSE [rest EXCEPT
                       !.reserve      = @ - amount,
                       !.distribution = @ + amount,
                       !.allocated    = IF v \in fails THEN @
                                        ELSE @ + Allocated(reward)]

\* The remainders, rounded to coins.
PoolShare(remainder) == RoundInt(remainder, Precision)

\* The remainders go from the reserve to the community pool.
FundPool(acc) ==
    LET amount == PoolShare(acc.remainder)
    IN  IF amount > acc.reserve THEN acc
        ELSE [acc EXCEPT !.reserve = @ - amount, !.distribution = @ + amount,
                         !.pool = @ + amount]

\* The validators the votes count: the shares of those that are bonded and not
\* jailed, whether they signed or not.
TotalShares(voters) ==
    SumFunction([v \in voters |-> IF status[v] = "bonded" THEN Shares[v] ELSE 0])

\* ValidatorPayout for the validators that signed, among those that could: acc[i]
\* is what the loop has after the first i votes.
ValidatorPayout(voters, signers, current, fails) ==
    LET start == [reserve |-> reserveCoins, distribution |-> distribution,
                  allocated |-> allocated, pool |-> pool, remainder |-> 0]
        blockReward == CalcBlockReward(reserveCoins, block + 1)
        total == TotalShares(voters)
        acc[i \in 0 .. Len(Validators)] ==
            IF i = 0 THEN start
            ELSE IF Validators[i] \notin signers THEN acc[i - 1]
            ELSE PayValidator(acc[i - 1], Validators[i], total, blockReward,
                              current, fails)
    IN  IF blockReward = 0 \/ total = 0 THEN start
        ELSE FundPool(acc[Len(Validators)])

\* BeginBlock of the next block.  It panics when the consensus is ahead of the
\* binary.  The service registry it seeds is modelled elsewhere.
BeginBlock(voters, signers, fails) ==
    \E ver \in GetComputedVersion :
        LET paid == ValidatorPayout(voters, signers, ver, fails)
        IN  /\ block < MaxBlocks
            /\ ver <= SWVersion
            /\ faults + Cardinality(fails) <= MaxFaults
            /\ block' = block + 1
            /\ version' = ver
            /\ reserveCoins' = paid.reserve
            /\ distribution' = paid.distribution
            /\ allocated' = paid.allocated
            /\ pool' = paid.pool
            /\ uncounted' = {v \in signers : status[v] = "jailed"}
            /\ faults' = faults + Cardinality(fails)
            /\ UNCHANGED <<status, versions>>

-----------------------------------------------------------------------------
(* Versions and validators *)

\* Mutant: the address is decoded.
StoredUnder_Decoded == "decoded"

\* cosmos.ValAddress(msg.Creator).
StoredUnder == "characters"

\* MsgSetVersion of the account that operates v.
SetVersion(v, ver) ==
    /\ block < MaxBlocks
    /\ ver > versions[v][StoredUnder]
    /\ versions' = [versions EXCEPT ![v][StoredUnder] = ver]
    /\ UNCHANGED <<block, reserveCoins, distribution, allocated, pool, status,
                   version, uncounted, faults>>

\* The staking module bonds, jails, unbonds or removes a validator.
StakingChanges(v, s) ==
    /\ block < MaxBlocks
    /\ s # status[v]
    /\ status' = [status EXCEPT ![v] = s]
    /\ UNCHANGED <<block, reserveCoins, distribution, allocated, pool, versions,
                   version, uncounted, faults>>

RewardsInit ==
    /\ block = 0
    /\ reserveCoins \in InitialReserves
    /\ distribution = 0
    /\ allocated = 0
    /\ pool = 0
    /\ status = [v \in ValidatorSet |-> "bonded"]
    /\ versions = [v \in ValidatorSet |-> [e \in Encodings |-> 1]]
    /\ version = 1
    /\ uncounted = {}
    /\ faults = 0

RewardsNext ==
    \/ \E voters \in SUBSET ValidatorSet : \E signers \in SUBSET voters :
       \E fails \in SUBSET signers : BeginBlock(voters, signers, fails)
    \/ \E v \in ValidatorSet, ver \in Versions : SetVersion(v, ver)
    \/ \E v \in ValidatorSet, s \in Statuses : StakingChanges(v, s)

RewardsSpec == RewardsInit /\ [][RewardsNext]_rewardsVars

-----------------------------------------------------------------------------
\* A block takes no more out of the reserve than its reward when every signer
\* is among those whose shares were added up, remainders and rounding
\* included.  The loop that pays does not test that again: each signer that
\* was jailed or unbonded since it signed can draw one reward more, and no more
\* than one.
RewardBounded ==
    [][ reserveCoins - reserveCoins'
          <= CalcBlockReward(reserveCoins, block') * (1 + Cardinality(uncounted'))
      ]_rewardsVars

\* The distribution module holds at least the rewards allocated and the
\* community pool, and exactly those unless an allocation failed after the
\* coins had been sent: the coins of the failed one stay there unallocated.
RewardsBacked ==
    /\ distribution >= allocated + pool
    /\ faults = 0 => distribution = allocated + pool

\* SetVersion and BeginBlock encode the validator's address in different ways:
\* whatever the validators announce, with several of them bonded the stored
\* version is 1 after every block, and with one it is that of the binary.
AnnouncementsUnread ==
    [][ block' # block /\ Bonded # {} =>
        version' = IF Cardinality(Bonded) = 1 THEN SWVersion ELSE 1 ]_rewardsVars
=============================================================================
