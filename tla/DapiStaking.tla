---------------------------- MODULE DapiStaking -----------------------------
(***************************************************************************)
(* The dAPI staking pallet (pallets/dapi-staking): providers bond tokens,  *)
(* delegators stake on providers, rewards are collected during an era and  *)
(* claimed for finished eras, and what is unstaked is released after an    *)
(* unbonding period.                                                       *)
(*                                                                         *)
(* A storage map that may have no entry for a key holds None there; a map  *)
(* read with a default (ValueQuery) holds the default.  A dispatchable     *)
(* checks everything before its first write, so a failing call changes     *)
(* nothing and each action is a successful call.  Calls run inside a       *)
(* block, after the on_initialize hooks of the block.                      *)
(***************************************************************************)
EXTENDS Integers, Sequences, FiniteSets, Functions,
        Perbill, Currency, Delegation, Unbonding

CONSTANTS
  Accounts,                   \* account ids that sign calls
  Pot,                        \* the pallet's own account, account_id()
  Providers,                  \* provider ids
  None,                       \* a storage map has no such entry
  Active                      \* ProviderStatus::Active

CONSTANTS                     \* the pallet's Config
  DefaultBlocksPerEra,
  ProviderRewardsPercentage,  \* a Perbill
  MinProviderStake,
  MaxDelegatorsPerProvider,
  MinDelegatorStake,
  MaxEraStakeValues,
  UnbondingPeriod,
  MaxUnlockingChunks

CONSTANTS                     \* inputs and bounds of an instance
  InitialBalance,             \* free balance of every account at genesis
  Amounts,                    \* amounts of a call
  Rewards,                    \* amounts the pallet receives
  EraLengths,                 \* arguments of set_blocks_per_era
  MaxEraRewards,              \* bound on the rewards of one era
  MaxEra,                     \* last era
  MaxBlock                    \* last block

ASSUME StakingAssumption ==
  /\ Pot \notin Accounts
  /\ DefaultBlocksPerEra \in Nat
  /\ ProviderRewardsPercentage \in Parts
  /\ MinProviderStake \in Nat
  /\ MaxDelegatorsPerProvider \in Nat
  /\ MinDelegatorStake \in Nat \ {0}
  /\ MaxEraStakeValues \in Nat
  /\ UnbondingPeriod \in Nat
  /\ MaxUnlockingChunks \in Nat
  /\ InitialBalance \in Nat
  /\ Amounts \subseteq Nat
  /\ Rewards \subseteq Nat
  /\ EraLengths \subseteq Nat
  /\ MaxEraRewards \in Nat
  /\ MaxEra \in Nat
  /\ MaxBlock \in Nat
  /\ Active \notin Nat

(* The storage maps of a chain hold finitely many keys.                    *)
ASSUME FiniteAssumption == IsFiniteSet(Accounts) /\ IsFiniteSet(Providers)

Holders == Accounts \cup {Pot}

Eras == 0..MaxEra

VARIABLES
  block,              \* number of the block being executed
  era,                \* Era: the current era, its first block and length
  eraState,           \* EraState: rewards and total stake of an era
  rewardAccumulator,  \* RewardAccumulator: rewards of the current era
  providerInfo,       \* ProviderInfo: owner, status, bond withdrawn
  providerEraInfo,    \* ProviderEraInfo: bond, total stake, ... in an era
  delegationInfo,     \* DelegationInfo: stakes of the unclaimed eras
  unbondingInfo,      \* UnbondingInfo: unlocking chunks of an account
  balances            \* the accounts of pallet_balances

stakingVars == <<era, eraState, rewardAccumulator, providerInfo,
                 providerEraInfo, delegationInfo, unbondingInfo>>

vars == <<block, stakingVars, balances>>

----------------------------------------------------------------------------
(* Storage types and their defaults                                        *)

EraInfo == [current : Eras, first_block : Nat, length : Nat]

EraMetadata == [rewards : Nat, staked : Nat]

DefaultEraMetadata == [rewards |-> 0, staked |-> 0]

ProviderMetadata ==
  [owner : Accounts, status : {Active} \cup Eras, bond_withdrawn : BOOLEAN]

ProviderEraMetadata ==
  [bond : Nat, total : Nat, delegator_count : Nat,
   provider_reward_claimed : BOOLEAN]

DefaultProviderEraMetadata ==
  [bond |-> 0, total |-> 0, delegator_count |-> 0,
   provider_reward_claimed |-> FALSE]

(* The absence of an entry is no entry.                                    *)
ASSUME NoneAssumption ==
  /\ None \notin EraMetadata
  /\ None \notin ProviderMetadata
  /\ None \notin ProviderEraMetadata

EraStateOrDefault(e) ==
  IF eraState[e] = None THEN DefaultEraMetadata ELSE eraState[e]

(* Faulty: the entry of the running era for whatever era is asked.         *)
ProviderEraInfoNow(p, e) ==
  IF providerEraInfo[p][era.current] = None THEN DefaultProviderEraMetadata
                                            ELSE providerEraInfo[p][era.current]

ProviderEraInfoOrDefault(p, e) ==
  IF providerEraInfo[p][e] = None THEN DefaultProviderEraMetadata
                                  ELSE providerEraInfo[p][e]

----------------------------------------------------------------------------
(* Helpers of the pallet                                                   *)

IsRegistered(p) == providerInfo[p] # None

IsActiveProvider(p) == IsRegistered(p) /\ providerInfo[p].status = Active

IsUnregistered(p) == IsRegistered(p) /\ providerInfo[p].status # Active

(* The rewards of an era can be claimed once the era is over and only for  *)
(* eras before the one in which the provider was unregistered.             *)
EraClaimable(p, e) ==
  /\ IsRegistered(p)
  /\ providerInfo[p].status # Active => e < providerInfo[p].status
  /\ e < era.current

(* EraState::mutate(era, ..) when an entry exists.                         *)
UpdateStaked(e, staked) ==
  IF eraState[e] = None THEN eraState
                        ELSE [eraState EXCEPT ![e].staked = staked]

(* split_provider_delegators_rewards                                       *)
ProviderRewards(info, state) ==
  PerbillMul(FromRational(info.total, state.staked), state.rewards)

ProviderPart(info, state) ==
  PerbillMul(ProviderRewardsPercentage, ProviderRewards(info, state))

(* Faulty: the provider's part is not taken off.                           *)
AllToDelegators(info, state) == ProviderRewards(info, state)

DelegatorsPart(info, state) ==
  SatSub(ProviderRewards(info, state), ProviderPart(info, state))

(* A delegator's share of the delegators' part.                            *)
DelegatorReward(staked, info, state) ==
  PerbillMul(FromRational(staked, SatSub(info.total, info.bond)),
             DelegatorsPart(info, state))

(* Faulty: the result of reserve is ignored.                               *)
ReserveUnchecked(who, amount) == balances' = Reserve(balances, who, amount)

(* T::Currency::reserve(&who, amount)?, before the first write of a call.  *)
ReserveFunds(who, amount) ==
  /\ CanReserve(balances, who, amount)
  /\ balances' = Reserve(balances, who, amount)

(* Faulty: the minimum stake is not looked at.                             *)
UnstakesNothingLeft(staked, amount) == amount >= staked

(* An unstake that would leave less than the minimum takes everything.     *)
UnstakesAll(staked, amount) == SatSub(staked, amount) < MinDelegatorStake

(* Faulty: the amount asked for, even if more than is staked.              *)
UnstakeAsAsked(staked, amount) == amount

UnstakeAmount(staked, amount) ==
  IF UnstakesAll(staked, amount) THEN staked ELSE amount

(* A payout leaves the pallet's account and creates the receiver's.        *)
Payout(who, amount) ==
  DepositCreating(WithdrawAllowDeath(balances, Pot, amount), who, amount)

----------------------------------------------------------------------------
Init ==
  /\ block = 0
  /\ era = [current |-> 0, first_block |-> 0, length |-> 0]
  /\ eraState = [e \in Eras |-> None]
  /\ rewardAccumulator = 0
  /\ providerInfo = [p \in Providers |-> None]
  /\ providerEraInfo = [p \in Providers |-> [e \in Eras |-> None]]
  /\ delegationInfo = [a \in Accounts |-> [p \in Providers |-> <<>>]]
  /\ unbondingInfo = [a \in Accounts |-> <<>>]
  /\ balances = [h \in Holders |->
                   IF h = Pot THEN EmptyAccount
                   ELSE [free |-> InitialBalance, reserved |-> 0]]

----------------------------------------------------------------------------
(* on_initialize: the era ends with the first block that is `length`       *)
(* blocks after its first one.                                             *)

ShouldUpdate(n) == n - era.first_block >= era.length \/ era.current = 0

(* Faulty: the accumulator is not emptied.                                 *)
SnapshotKeepsAccumulator(previous) ==
  /\ eraState' =
       [eraState EXCEPT
          ![previous + 1] = [rewards |-> 0,
                             staked  |-> EraStateOrDefault(previous).staked],
          ![previous] = [rewards |-> rewardAccumulator,
                         staked  |-> EraStateOrDefault(previous).staked]]
  /\ UNCHANGED rewardAccumulator

(* snapshot_era_rewards: the finished era keeps its rewards, the next one  *)
(* starts with its total stake.                                            *)
SnapshotEraRewards(previous) ==
  /\ eraState' =
       [eraState EXCEPT
          ![previous + 1] = [rewards |-> 0,
                             staked  |-> EraStateOrDefault(previous).staked],
          ![previous] = [rewards |-> rewardAccumulator,
                         staked  |-> EraStateOrDefault(previous).staked]]
  /\ rewardAccumulator' = 0

(* Faulty: the new era starts without delegators.                          *)
RotateBondOnly(previous) ==
  providerEraInfo' =
    [p \in Providers |->
       IF IsActiveProvider(p) /\ providerEraInfo[p][previous] # None
       THEN [providerEraInfo[p] EXCEPT ![previous + 1] =
               [providerEraInfo[p][previous] EXCEPT
                  !.total = providerEraInfo[p][previous].bond,
                  !.delegator_count = 0]]
       ELSE providerEraInfo[p]]

(* rotate_provider_era_info: active providers are carried over.            *)
RotateProviderEraInfo(previous) ==
  providerEraInfo' =
    [p \in Providers |->
       IF IsActiveProvider(p) /\ providerEraInfo[p][previous] # None
       THEN [providerEraInfo[p] EXCEPT ![previous + 1] =
               [providerEraInfo[p][previous] EXCEPT
                  !.provider_reward_claimed = FALSE]]
       ELSE providerEraInfo[p]]

StartEra ==
  /\ block < MaxBlock
  /\ ShouldUpdate(block + 1)
  /\ era.current < MaxEra
  /\ block' = block + 1
  /\ era' = [current     |-> era.current + 1,
             first_block |-> block + 1,
             length      |-> IF era.current = 0 THEN DefaultBlocksPerEra
                                                ELSE era.length]
  /\ SnapshotEraRewards(era.current)
  /\ RotateProviderEraInfo(era.current)
  /\ UNCHANGED <<providerInfo, delegationInfo, unbondingInfo, balances>>

ContinueEra ==
  /\ block < MaxBlock
  /\ ~ShouldUpdate(block + 1)
  /\ block' = block + 1
  /\ UNCHANGED <<stakingVars, balances>>

(* Calls run in a block, and on_initialize of block 1 has started era 1.   *)
InBlock == block > 0

----------------------------------------------------------------------------
(* The dispatchables                                                       *)

SetBlocksPerEra(new) ==
  /\ InBlock
  /\ era.length # new
  /\ era' = [era EXCEPT !.length = new]
  /\ UNCHANGED <<block, eraState, rewardAccumulator, providerInfo,
                 providerEraInfo, delegationInfo, unbondingInfo, balances>>

ProviderBondMore(who, p, amount) ==
  LET e    == era.current
      info == ProviderEraInfoOrDefault(p, e)
  IN  /\ InBlock
      /\ amount > 0
      /\ IsActiveProvider(p)
      /\ providerInfo[p].owner = who
      /\ info.bond + amount <= MaxBalance
      /\ info.total + amount <= MaxBalance
      /\ ReserveFunds(who, amount)
      /\ eraState' = UpdateStaked(e, SatAdd(eraState[e].staked, amount))
      /\ providerEraInfo' =
           [providerEraInfo EXCEPT ![p][e] =
              [info EXCEPT !.bond  = @ + amount,
                           !.total = @ + amount]]
      /\ UNCHANGED <<block, era, rewardAccumulator, providerInfo,
                     delegationInfo, unbondingInfo>>

(* The chunk an unstaked amount becomes, and the bound on their number.    *)
StartUnbonding(who, amount) ==
  LET chunks == AddChunk(unbondingInfo[who],
                         NewChunk(amount, era.current + UnbondingPeriod))
  IN  /\ Len(chunks) <= MaxUnlockingChunks
      /\ unbondingInfo' = [unbondingInfo EXCEPT ![who] = chunks]

ProviderBondLess(who, p, amount) ==
  LET e    == era.current
      info == ProviderEraInfoOrDefault(p, e)
  IN  /\ InBlock
      /\ amount > 0
      /\ IsActiveProvider(p)
      /\ providerInfo[p].owner = who
      /\ info.bond >= WrapAdd(amount, MinProviderStake)
      /\ StartUnbonding(who, amount)
      /\ eraState' = UpdateStaked(e, SatSub(eraState[e].staked, amount))
      /\ providerEraInfo' =
           [providerEraInfo EXCEPT ![p][e] =
              [info EXCEPT !.bond  = SatSub(@, amount),
                           !.total = SatSub(@, amount)]]
      /\ UNCHANGED <<block, era, rewardAccumulator, providerInfo,
                     delegationInfo, balances>>

Delegate(who, p, amount) ==
  LET e      == era.current
      info   == ProviderEraInfoOrDefault(p, e)
      latest == LatestStakedValue(delegationInfo[who][p])
      stakes == Stake(delegationInfo[who][p], e, amount)
  IN  /\ InBlock
      /\ amount > 0
      /\ IsActiveProvider(p)
      /\ latest = 0 => info.delegator_count <= MaxDelegatorsPerProvider
      /\ EraAccepted(delegationInfo[who][p], e)
      /\ Len(stakes) < MaxEraStakeValues
      /\ LatestStakedValue(stakes) >= MinDelegatorStake
      /\ info.total + amount <= MaxBalance
      /\ ReserveFunds(who, amount)
      /\ eraState' = UpdateStaked(e, SatAdd(eraState[e].staked, amount))
      /\ delegationInfo' = [delegationInfo EXCEPT ![who][p] = stakes]
      /\ providerEraInfo' =
           [providerEraInfo EXCEPT ![p][e] =
              [info EXCEPT !.total = @ + amount,
                           !.delegator_count =
                              IF latest = 0 THEN @ + 1 ELSE @]]
      /\ UNCHANGED <<block, era, rewardAccumulator, providerInfo,
                     unbondingInfo>>

DelegatorUnstake(who, p, amount) ==
  LET e       == era.current
      info    == ProviderEraInfoOrDefault(p, e)
      staked  == LatestStakedValue(delegationInfo[who][p])
      unstake == UnstakeAmount(staked, amount)
      stakes  == Unstake(delegationInfo[who][p], e, unstake)
  IN  /\ InBlock
      /\ amount > 0
      /\ IsActiveProvider(p)
      /\ staked > 0
      /\ EraAccepted(delegationInfo[who][p], e)
      /\ Len(stakes) < MaxEraStakeValues
      /\ StartUnbonding(who, unstake)
      /\ eraState' = UpdateStaked(e, SatSub(eraState[e].staked, unstake))
      /\ delegationInfo' = [delegationInfo EXCEPT ![who][p] = stakes]
      /\ providerEraInfo' =
           [providerEraInfo EXCEPT ![p][e] =
              [info EXCEPT !.total = SatSub(@, unstake),
                           !.delegator_count =
                              IF UnstakesAll(staked, amount)
                              THEN SatSub(@, 1) ELSE @]]
      /\ UNCHANGED <<block, era, rewardAccumulator, providerInfo, balances>>

WithdrawUnbonded(who) ==
  LET amount == ChunkSum(ValidChunks(unbondingInfo[who], era.current))
  IN  /\ InBlock
      /\ amount # 0
      /\ balances' = Unreserve(balances, who, amount)
      /\ unbondingInfo' =
           [unbondingInfo EXCEPT ![who] = FutureChunks(@, era.current)]
      /\ UNCHANGED <<block, era, eraState, rewardAccumulator, providerInfo,
                     providerEraInfo, delegationInfo>>

(* Anybody may call claim_provider; the reward goes to the owner.          *)
ClaimProvider(p, e) ==
  LET info   == ProviderEraInfoOrDefault(p, e)
      reward == ProviderPart(info, eraState[e])
  IN  /\ InBlock
      /\ EraClaimable(p, e)
      /\ ~info.provider_reward_claimed
      /\ info.total > 0
      /\ eraState[e] # None
      /\ CanWithdraw(balances, Pot, reward)
      /\ balances' = Payout(providerInfo[p].owner, reward)
      /\ providerEraInfo' =
           [providerEraInfo EXCEPT ![p][e] =
              [info EXCEPT !.provider_reward_claimed = TRUE]]
      /\ UNCHANGED <<block, era, eraState, rewardAccumulator, providerInfo,
                     delegationInfo, unbondingInfo>>

ClaimDelegator(who, p) ==
  LET claimed == ClaimedStake(delegationInfo[who][p])
      e       == claimed.era
      reward  == DelegatorReward(claimed.amount,
                                 ProviderEraInfoOrDefault(p, e), eraState[e])
  IN  /\ InBlock
      /\ claimed.amount > 0
      /\ EraClaimable(p, e)
      /\ eraState[e] # None
      /\ CanWithdraw(balances, Pot, reward)
      /\ balances' = Payout(who, reward)
      /\ delegationInfo' = [delegationInfo EXCEPT ![who][p] = Claim(@)]
      /\ UNCHANGED <<block, era, eraState, rewardAccumulator, providerInfo,
                     providerEraInfo, unbondingInfo>>

(* The unbonding period of an unregistered provider is over.               *)
UnregisteredUnbonded(p) ==
  /\ IsUnregistered(p)
  /\ era.current >= providerInfo[p].status + UnbondingPeriod

ProviderWithdrawUnregistered(p) ==
  LET owner == providerInfo[p].owner
      bond  == ProviderEraInfoOrDefault(p, providerInfo[p].status).bond
  IN  /\ InBlock
      /\ UnregisteredUnbonded(p)
      /\ ~providerInfo[p].bond_withdrawn
      /\ balances' = Unreserve(balances, owner, bond)
      /\ providerInfo' = [providerInfo EXCEPT ![p].bond_withdrawn = TRUE]
      /\ UNCHANGED <<block, era, eraState, rewardAccumulator,
                     providerEraInfo, delegationInfo, unbondingInfo>>

(* No era is left that the delegator could still claim.                    *)
RewardsClaimed(who, p) ==
  LET claimable == ClaimedStake(delegationInfo[who][p]).era
  IN  claimable # 0 => claimable >= providerInfo[p].status

DelegatorWithdrawUnregistered(who, p) ==
  LET staked == LatestStakedValue(delegationInfo[who][p])
  IN  /\ InBlock
      /\ UnregisteredUnbonded(p)
      /\ staked > 0
      /\ RewardsClaimed(who, p)
      /\ balances' = Unreserve(balances, who, staked)
      /\ delegationInfo' = [delegationInfo EXCEPT ![who][p] = <<>>]
      /\ UNCHANGED <<block, era, eraState, rewardAccumulator, providerInfo,
                     providerEraInfo, unbondingInfo>>

----------------------------------------------------------------------------
(* What other pallets call: the dAPI pallet registers and unregisters      *)
(* providers, block rewards and project payments arrive as imbalances.     *)

RegisterProvider(account, p, bond) ==
  LET e == era.current
  IN  /\ InBlock
      /\ ~IsRegistered(p)
      /\ bond >= MinProviderStake
      /\ ReserveFunds(account, bond)
      /\ providerInfo' =
           [providerInfo EXCEPT ![p] =
              [owner |-> account, status |-> Active, bond_withdrawn |-> FALSE]]
      /\ providerEraInfo' =
           [providerEraInfo EXCEPT ![p][e] =
              [bond |-> bond, total |-> bond, delegator_count |-> 0,
               provider_reward_claimed |-> FALSE]]
      /\ eraState' =
           [eraState EXCEPT ![e] =
              [rewards |-> EraStateOrDefault(e).rewards,
               staked  |-> SatAdd(EraStateOrDefault(e).staked, bond)]]
      /\ UNCHANGED <<block, era, rewardAccumulator, delegationInfo,
                     unbondingInfo>>

UnregisterProvider(p) ==
  LET e == era.current
  IN  /\ InBlock
      /\ IsActiveProvider(p)
      /\ providerInfo' = [providerInfo EXCEPT ![p].status = e]
      /\ eraState' =
           UpdateStaked(e, SatSub(eraState[e].staked,
                                  ProviderEraInfoOrDefault(p, e).total))
      /\ UNCHANGED <<block, era, rewardAccumulator, providerEraInfo,
                     delegationInfo, unbondingInfo, balances>>

HandleImbalance(amount) ==
  /\ InBlock
  /\ rewardAccumulator + amount <= MaxEraRewards
  /\ rewardAccumulator' = SatAdd(rewardAccumulator, amount)
  /\ balances' = DepositCreating(balances, Pot, amount)
  /\ UNCHANGED <<block, era, eraState, providerInfo, providerEraInfo,
                 delegationInfo, unbondingInfo>>

----------------------------------------------------------------------------
Next ==
  \/ StartEra
  \/ ContinueEra
  \/ \E new \in EraLengths : SetBlocksPerEra(new)
  \/ \E a \in Accounts, p \in Providers, v \in Amounts :
       \/ RegisterProvider(a, p, v)
       \/ ProviderBondMore(a, p, v)
       \/ ProviderBondLess(a, p, v)
       \/ Delegate(a, p, v)
       \/ DelegatorUnstake(a, p, v)
  \/ \E a \in Accounts : WithdrawUnbonded(a)
  \/ \E p \in Providers, e \in Eras : ClaimProvider(p, e)
  \/ \E a \in Accounts, p \in Providers :
       \/ ClaimDelegator(a, p)
       \/ DelegatorWithdrawUnregistered(a, p)
  \/ \E p \in Providers :
       \/ ProviderWithdrawUnregistered(p)
       \/ UnregisterProvider(p)
  \/ \E v \in Rewards : HandleImbalance(v)

Spec == Init /\ [][Next]_vars

----------------------------------------------------------------------------
(* Properties                                                              *)

(* Every storage item has the type the pallet declares for it, and no       *)
(* amount ever becomes negative.                                           *)
TypeOK ==
  /\ block \in Nat
  /\ era \in EraInfo
  /\ eraState \in [Eras -> EraMetadata \cup {None}]
  /\ rewardAccumulator \in Nat
  /\ providerInfo \in [Providers -> ProviderMetadata \cup {None}]
  /\ providerEraInfo \in
       [Providers -> [Eras -> ProviderEraMetadata \cup {None}]]
  /\ delegationInfo \in [Accounts -> [Providers -> Seq(EraStake)]]
  /\ unbondingInfo \in [Accounts -> Seq(UnlockingChunk)]
  /\ balances \in [Holders -> Account]

SumOver(S, f(_)) == SumFunctionOnSet([x \in S |-> f(x)], S)

(* The provider is in the era's total stake: it was registered by then and *)
(* not unregistered in that era or before.                                 *)
CountedIn(p, e) ==
  /\ IsRegistered(p)
  /\ providerEraInfo[p][e] # None
  /\ providerInfo[p].status # Active => e < providerInfo[p].status

(* The last era for which the provider's stake is recorded.                *)
LatestEra(p) ==
  IF providerInfo[p].status = Active THEN era.current
                                     ELSE providerInfo[p].status

(* The bond of a provider that its owner has not got back.                 *)
BondHeld(p) ==
  IF IsRegistered(p) /\ ~providerInfo[p].bond_withdrawn
  THEN ProviderEraInfoOrDefault(p, LatestEra(p)).bond
  ELSE 0

(* What the pallet holds of an account: bonds, stakes, unlocking chunks.   *)
HeldBond(a) ==
  SumOver({p \in Providers : IsRegistered(p) /\ providerInfo[p].owner = a},
          BondHeld)

HeldStake(a) ==
  SumOver(Providers, LAMBDA p : LatestStakedValue(delegationInfo[a][p]))

(* The reserved balance of an account is exactly the bonds of its          *)
(* providers, its stakes and its unlocking chunks: no call leaves tokens   *)
(* reserved that nothing accounts for, or releases tokens twice.           *)
ReservedLedger ==
  \A a \in Accounts :
    balances[a].reserved =
      HeldBond(a) + HeldStake(a) + ChunkSum(unbondingInfo[a])

(* The total stake that divides an era's rewards is the sum of the stakes  *)
(* of the providers that share in them, in the current era and in all the  *)
(* finished ones.                                                          *)
EraStakeTotals ==
  \A e \in Eras :
    eraState[e] # None =>
      eraState[e].staked =
        SumOver({p \in Providers : CountedIn(p, e)},
                LAMBDA p : providerEraInfo[p][e].total)

(* A provider's total in an era covers its bond and the stakes its         *)
(* delegators have not claimed yet for that era; in the current era it is  *)
(* exactly their sum, and the delegators are counted right.                *)
ProviderTotals ==
  \A p \in Providers : IsRegistered(p) =>
    \A e \in 0..LatestEra(p) : providerEraInfo[p][e] # None =>
      LET info   == providerEraInfo[p][e]
          staked == SumOver(Accounts,
                            LAMBDA a : StakedAt(delegationInfo[a][p], e))
      IN  /\ info.total >= info.bond + staked
          /\ e = era.current /\ IsActiveProvider(p) =>
               /\ info.total = info.bond + staked
               /\ info.delegator_count =
                    Cardinality({a \in Accounts :
                      LatestStakedValue(delegationInfo[a][p]) > 0})

(* Delegation vectors stay in the order of their eras, end in the current  *)
(* era at the latest and leave the free place that delegate and            *)
(* delegator_unstake promise to keep.                                      *)
DelegationsWellFormed ==
  \A a \in Accounts, p \in Providers :
    LET stakes == delegationInfo[a][p]
    IN  /\ EntriesOrdered(stakes, era.current)
        /\ stakes # <<>> => Len(stakes) < MaxEraStakeValues

(* Unlocking chunks stay sorted with at most one per era, which the binary *)
(* search of add relies on, and none is further away than the unbonding    *)
(* period.                                                                 *)
UnbondingWellFormed ==
  \A a \in Accounts :
    LET chunks == unbondingInfo[a]
    IN  /\ ChunksOrdered(chunks)
        /\ Len(chunks) <= MaxUnlockingChunks
        /\ \A i \in DOMAIN chunks :
             chunks[i].unlock_era <= era.current + UnbondingPeriod

(* An active provider keeps the minimum bond and a delegator either has no *)
(* stake or the minimum one.                                               *)
MinimumStakes ==
  /\ \A p \in Providers : IsActiveProvider(p) =>
       ProviderEraInfoOrDefault(p, era.current).bond >= MinProviderStake
  /\ \A a \in Accounts, p \in Providers :
       LatestStakedValue(delegationInfo[a][p]) > 0 =>
         LatestStakedValue(delegationInfo[a][p]) >= MinDelegatorStake

(* Claims that a finished era still has to pay.                            *)
UnclaimedByProvider(p, e) ==
  IF CountedIn(p, e) /\ ~providerEraInfo[p][e].provider_reward_claimed
  THEN ProviderPart(providerEraInfo[p][e], eraState[e])
  ELSE 0

UnclaimedByDelegators(p, e) ==
  IF CountedIn(p, e)
  THEN SumOver(Accounts,
               LAMBDA a : DelegatorReward(StakedAt(delegationInfo[a][p], e),
                                          providerEraInfo[p][e], eraState[e]))
  ELSE 0

UnclaimedRewards ==
  SumOver(0..(era.current - 1),
          LAMBDA e : SumOver(Providers,
            LAMBDA p : UnclaimedByProvider(p, e) + UnclaimedByDelegators(p, e)))

(* Each share is rounded to the nearest integer, so n shares of an amount  *)
(* can exceed it by (n - 1) div 2.                                         *)
RoundingSlack ==
  (Cardinality(Providers) - 1) \div 2
    + Cardinality(Providers) * ((Cardinality(Accounts) - 1) \div 2)

(* What the pallet's account lacks to pay every open claim and the rewards *)
(* of the running era, beyond what the rounding of the shares can add per  *)
(* era.                                                                    *)
PotShortfall ==
  UnclaimedRewards + rewardAccumulator
    - (balances[Pot].free + era.current * RoundingSlack)

(* The pallet's account, which starts with nothing to pay, runs short of   *)
(* its claims by dust alone: no step makes it lack more, but one that      *)
(* leaves the account empty, by a payment that removes it or a deposit too *)
(* small to create it, and then by less than the existential deposit.      *)
PotShortByDust ==
  [][\/ PotShortfall' <= PotShortfall
     \/ /\ balances'[Pot].free = 0
        /\ PotShortfall' - PotShortfall < ExistentialDeposit]_vars

(* Tokens that were there at genesis or were booked as a reward to an era, *)
(* finished or running, and that no account holds.                         *)
LostTokens ==
  InitialBalance * Cardinality(Accounts) + rewardAccumulator
    + SumOver({e \in Eras : eraState[e] # None}, LAMBDA e : eraState[e].rewards)
    - SumOver(Holders, LAMBDA h : balances[h].free + balances[h].reserved)

(* A claim creates no tokens, and no reward is booked twice or forgotten   *)
(* when an era ends: what is booked stays in the accounts up to the dust   *)
(* of the pallet's account, when it is removed or not created, and to      *)
(* rewards too small for an account that is gone.                          *)
RewardsBooked ==
  [][\E dust, dropped \in 0..SatSub(ExistentialDeposit, 1) :
       /\ LostTokens' = LostTokens + dust + dropped
       /\ dust > 0 => balances'[Pot] = EmptyAccount
       /\ dropped > 0 => \E a \in Accounts :
                           EmptyAccount = balances[a] /\ EmptyAccount = balances'[a]]_vars

(* Nothing that decides the rewards of a finished era changes after its    *)
(* end, but that its provider's reward becomes claimed, once.              *)
FinishedEraKept(e) ==
  /\ eraState'[e] = eraState[e]
  /\ \A p \in Providers :
       \/ providerEraInfo'[p][e] = providerEraInfo[p][e]
       \/ /\ providerEraInfo[p][e] # None
          /\ ~providerEraInfo[p][e].provider_reward_claimed
          /\ providerEraInfo'[p][e] =
               [providerEraInfo[p][e] EXCEPT !.provider_reward_claimed = TRUE]

FinishedErasImmutable ==
  [][\A e \in Eras : e < era.current => FinishedEraKept(e)]_vars

(* What a delegator had staked in a finished era stays recorded until it   *)
(* is paid for: it disappears only in a step that pays that delegator its  *)
(* reward for that era, and no step records a different stake for it.      *)
EntitlementKept(a, p, e) ==
  LET before == StakedAt(delegationInfo[a][p], e)
  IN  \/ StakedAt(delegationInfo'[a][p], e) = before
      \/ /\ StakedAt(delegationInfo'[a][p], e) = 0
         /\ balances'[a].free = balances[a].free
              + DelegatorReward(before, providerEraInfo[p][e], eraState[e])

EntitlementsPaidOnce ==
  [][\A a \in Accounts, p \in Providers, e \in Eras :
       EraClaimable(p, e) => EntitlementKept(a, p, e)]_vars

----------------------------------------------------------------------------
(* Statements of the pallet's documentation                                *)

(* "Maximum number of unique delegators per provider" (lib.rs:113): no      *)
(* provider ever has more delegators than MaxDelegatorsPerProvider.        *)
DelegatorLimit ==
  \A p \in Providers, e \in Eras : providerEraInfo[p][e] # None =>
    providerEraInfo[p][e].delegator_count <= MaxDelegatorsPerProvider

(* "`0` bonded period is discarded since nothing can be claimed there"      *)
(* (types.rs:206): while a stake of a finished era is recorded, claim      *)
(* returns an era with a stake, so that claim_delegator can go on.         *)
EarnedErasReachable ==
  \A a \in Accounts, p \in Providers :
    (\E e \in Eras : EraClaimable(p, e) /\ StakedAt(delegationInfo[a][p], e) > 0)
      => ClaimedStake(delegationInfo[a][p]).amount > 0

(* "when **era** finished, both operators and delegators can claim their    *)
(* rewards for that era" (lib.rs:13-14): the pallet's account can pay each *)
(* reward of a finished era that has not been claimed.                     *)
FinishedErasPayable ==
  \A p \in Providers, e \in 0..(era.current - 1) :
    /\ CanWithdraw(balances, Pot, UnclaimedByProvider(p, e))
    /\ CountedIn(p, e) => \A a \in Accounts :
         CanWithdraw(balances, Pot,
                     DelegatorReward(StakedAt(delegationInfo[a][p], e),
                                     providerEraInfo[p][e], eraState[e]))
=============================================================================
