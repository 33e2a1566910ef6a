------------------------ MODULE StakingTotalProofs --------------------------
(***************************************************************************)
(* The totals of the dAPI staking pallet: what it books as rewards, what   *)
(* an era holds as staked, the minimum stakes, the issuance, what a        *)
(* delegator is entitled to; the proof that the pallet implements          *)
(* StakeLedger, call by call; and the solvency of the pot that pays the    *)
(* rewards.                                                                *)
(***************************************************************************)
EXTENDS StakingLedgerProofs, StakingRefinement

----------------------------------------------------------------------------
(* Rewards                                                                 *)

(* The rewards booked to an era.                                           *)
RewardsOf(e) == IF eraState[e] = None THEN 0 ELSE eraState[e].rewards

EraRewards == [e \in Eras |-> RewardsOf(e)]

(* The rewards booked to the running and to the finished eras.             *)
Booked == rewardAccumulator + SumFunctionOnSet(EraRewards, Eras)

(* LostTokens.                                                             *)
Unheld == InitialBalance * Cardinality(Accounts) + Booked - Supply(balances)

LEMMA ErasFinite == IsFiniteSet(Eras)
BY StakingAssumption, FS_Interval DEF Eras

LEMMA EraRewardsType ==
  ASSUME TypeOK
  PROVE  /\ \A e \in Eras : EraRewards[e] = RewardsOf(e) /\ EraRewards[e] \in Nat
         /\ SumFunctionOnSet(EraRewards, Eras) \in Nat
<1>1. \A e \in Eras : EraRewards[e] = RewardsOf(e) /\ EraRewards[e] \in Nat
  BY StakedType DEF EraRewards, RewardsOf
<1> QED
  BY <1>1, ErasFinite, SumNat

BookedTyped == Booked \in Nat /\ LostTokens = Unheld

LEMMA BookedType == TypeOK => BookedTyped
<1> SUFFICES ASSUME TypeOK PROVE BookedTyped
  OBVIOUS
<1> DEFINE known == {e \in Eras : eraState[e] # None}
           some == [e \in known |-> eraState[e].rewards]
<1>1. SumOver(known, LAMBDA e : eraState[e].rewards) = SumFunctionOnSet(some, known)
  BY DEF SumOver
<1>2. SumOver(Holders, LAMBDA h : balances[h].free + balances[h].reserved) = Supply(balances)
  BY DEF SumOver, Supply, Worth
<1>3. /\ known \in SUBSET Eras /\ IsFiniteSet(known)
      /\ \A e \in known : EraRewards[e] = some[e]
      /\ \A e \in Eras : e \notin known => EraRewards[e] = 0
      /\ \A e \in Eras : EraRewards[e] \in Int
  BY ErasFinite, FS_Subset, EraRewardsType DEF EraRewards, RewardsOf
<1> HIDE DEF known, some
<1>4. SumFunctionOnSet(EraRewards, Eras) = SumFunctionOnSet(EraRewards, known)
  BY <1>3, ErasFinite, SumFilter
<1>5. SumFunctionOnSet(EraRewards, known) = SumFunctionOnSet(some, known)
  BY <1>3, SumEqual
<1>6. SumFunctionOnSet(EraRewards, Eras) \in Nat /\ rewardAccumulator \in Nat
  BY EraRewardsType DEF TypeOK
<1>7. Supply(balances) \in Nat /\ InitialBalance * Cardinality(Accounts) \in Nat
  BY StateTypes, SupplyType, GenesisType
<1>8. LostTokens = InitialBalance * Cardinality(Accounts) + rewardAccumulator
                     + SumFunctionOnSet(some, known) - Supply(balances)
  BY <1>1, <1>2 DEF LostTokens, known
<1>9. LostTokens = Unheld
  BY <1>4, <1>5, <1>6, <1>7, <1>8 DEF Unheld, Booked
<1> QED
  BY <1>6, <1>9 DEF BookedTyped, Booked

LEMMA BookedTypeNext == TypeOK' => BookedTyped'
BY BookedType, PTL

(* No reward changes its era.                                              *)
LEMMA SameBooked ==
  ASSUME rewardAccumulator' = rewardAccumulator,
         \A e \in Eras : RewardsOf(e)' = RewardsOf(e)
  PROVE  Booked' = Booked
<1>1. EraRewards' = EraRewards
  BY DEF EraRewards
<1> QED
  BY <1>1 DEF Booked

LEMMA UpdateStakedRewards ==
  ASSUME TypeOK, NEW c \in Eras, NEW staked \in Nat, eraState' = UpdateStaked(c, staked)
  PROVE  \A e \in Eras : RewardsOf(e)' = RewardsOf(e)
<1> SUFFICES ASSUME NEW e \in Eras PROVE RewardsOf(e)' = RewardsOf(e)
  OBVIOUS
<1>1. CASE eraState[c] = None \/ e # c
  BY <1>1 DEF UpdateStaked, TypeOK, RewardsOf
<1>2. CASE eraState[c] # None /\ e = c
  <2>1. eraState[c] \in EraMetadata
    BY <1>2 DEF TypeOK
  <2>2. eraState'[c] = [eraState[c] EXCEPT !.staked = staked]
    BY <1>2 DEF UpdateStaked, TypeOK
  <2>3. eraState'[c] \in EraMetadata /\ eraState'[c].rewards = eraState[c].rewards
    BY <2>1, <2>2 DEF EraMetadata
  <2> QED
    BY <2>3, <1>2, NoneAssumption DEF RewardsOf
<1> QED
  BY <1>1, <1>2

LEMMA StartEraBooked ==
  ASSUME LedgerInv, TypeOK', StartEra
  PROVE  Booked' = Booked /\ balances' = balances
<1> DEFINE c == era.current
           next == [rewards |-> 0, staked |-> EraStateOrDefault(c).staked]
           done == [rewards |-> rewardAccumulator, staked |-> EraStateOrDefault(c).staked]
<1>1. /\ TypeOK /\ ErasBegun /\ rewardAccumulator \in Nat
      /\ c \in Eras /\ c \in Nat /\ c + 1 \in Eras /\ c + 1 # c /\ c + 1 > 0 /\ ~(c + 1 <= c)
  BY StateTypes, StakingAssumption DEF LedgerInv, IndInv, StartEra, Eras, TypeOK
<1>2. next \in EraMetadata /\ done \in EraMetadata
  BY <1>1, StorageDefaultType DEF EraMetadata
<1>3. /\ next # None /\ done # None /\ next.rewards = 0 /\ done.rewards = rewardAccumulator
  BY <1>2, NoneAssumption
<1>4. /\ eraState' = [eraState EXCEPT ![c + 1] = next, ![c] = done]
      /\ rewardAccumulator' = 0 /\ balances' = balances
  BY DEF StartEra, SnapshotEraRewards
<1> HIDE DEF next, done
<1>5. \A e \in Eras : eraState'[e] = IF e = c THEN done
                                     ELSE IF e = c + 1 THEN next ELSE eraState[e]
  BY <1>1, <1>4 DEF TypeOK
<1>6. RewardsOf(c) = 0 /\ RewardsOf(c + 1) = 0
  <2>1. eraState[c + 1] = None
    BY <1>1 DEF ErasBegun
  <2>2. eraState[c] # None => eraState[c].rewards = 0
    BY <1>1 DEF ErasBegun
  <2> QED
    BY <2>1, <2>2 DEF RewardsOf
<1> DEFINE R == EraRewards
           R2 == EraRewards'
<1>7. /\ \A e \in Eras : R[e] \in Int
      /\ R[c] = 0 /\ R2[c] = rewardAccumulator
      /\ \A e \in Eras : e # c => R2[e] = R[e]
  <2>1. \A e \in Eras : R[e] = RewardsOf(e) /\ R[e] \in Int
    BY <1>1, EraRewardsType
  <2>2. \A e \in Eras : R2[e] = IF eraState'[e] = None THEN 0 ELSE eraState'[e].rewards
    BY DEF EraRewards, RewardsOf
  <2>3. \A e \in Eras : e # c /\ e # c + 1 => R2[e] = R[e]
    BY <2>1, <2>2, <1>5 DEF RewardsOf
  <2>4. R2[c + 1] = 0 /\ R2[c] = rewardAccumulator
    BY <2>2, <1>1, <1>3, <1>5
  <2> HIDE DEF R, R2
  <2> QED
    BY <2>1, <2>3, <2>4, <1>1, <1>6
<1> HIDE DEF R, R2
<1>8. SumFunctionOnSet(R2, Eras) = SumFunctionOnSet(R, Eras) - R[c] + R2[c]
  BY <1>1, <1>7, ErasFinite, SumChange
<1>9. SumFunctionOnSet(EraRewards, Eras)' = SumFunctionOnSet(R, Eras) + rewardAccumulator
  <2>1. SumFunctionOnSet(R, Eras) \in Nat
    BY <1>1, EraRewardsType DEF R
  <2> QED
    BY <2>1, <1>1, <1>7, <1>8 DEF R2
<1>10. SumFunctionOnSet(R, Eras) \in Nat
  BY <1>1, EraRewardsType DEF R
<1> QED
  BY <1>1, <1>4, <1>9, <1>10 DEF Booked, R

(* The five calls that change the stake of an era leave its rewards.       *)
LEMMA StakeCallRewards ==
  ASSUME LedgerInv, AmountsFit,
         NEW who \in Accounts, NEW p \in Providers, NEW v \in Amounts,
         \/ RegisterProvider(who, p, v)
         \/ ProviderBondMore(who, p, v)
         \/ ProviderBondLess(who, p, v)
         \/ Delegate(who, p, v)
         \/ DelegatorUnstake(who, p, v)
  PROVE  \A e \in Eras : RewardsOf(e)' = RewardsOf(e)
<1> DEFINE c == era.current
<1>1. /\ TypeOK /\ balances \in Ledgers /\ who \in Holders /\ v \in Nat
      /\ c \in Eras /\ eraState[c] # None /\ eraState[c] \in EraMetadata
      /\ eraState[c].staked \in Nat
  BY InCall, StateTypes, StakingAssumption
     DEF Holders, RegisterProvider, ProviderBondMore, ProviderBondLess, Delegate,
         DelegatorUnstake
<1>2. CASE RegisterProvider(who, p, v)
  <2> DEFINE new == [rewards |-> EraStateOrDefault(c).rewards,
                     staked  |-> SatAdd(EraStateOrDefault(c).staked, v)]
  <2>1. EraStateOrDefault(c) = eraState[c]
    BY <1>1 DEF EraStateOrDefault
  <2>2. new.rewards = eraState[c].rewards /\ new \in EraMetadata
    BY <2>1, <1>1, ArithmeticType DEF EraMetadata
  <2>3. eraState' = [eraState EXCEPT ![c] = new] /\ new # None
    BY <1>2, <2>2, NoneAssumption DEF RegisterProvider
  <2> HIDE DEF new
  <2>4. \A e \in Eras : eraState'[e] = IF e = c THEN new ELSE eraState[e]
    BY <2>3, <1>1 DEF TypeOK
  <2> QED
    BY <2>2, <2>3, <2>4, <1>1 DEF RewardsOf
<1>3. CASE ProviderBondMore(who, p, v) \/ Delegate(who, p, v)
  <2>1. eraState' = UpdateStaked(c, SatAdd(eraState[c].staked, v))
    BY <1>3 DEF ProviderBondMore, Delegate
  <2>2. SatAdd(eraState[c].staked, v) \in Nat
    BY <1>1, ArithmeticType
  <2> QED
    BY <2>1, <2>2, <1>1, UpdateStakedRewards
<1>4. CASE ProviderBondLess(who, p, v)
  <2>1. eraState' = UpdateStaked(c, SatSub(eraState[c].staked, v))
    BY <1>4 DEF ProviderBondLess
  <2>2. SatSub(eraState[c].staked, v) \in Nat
    BY <1>1, ArithmeticType
  <2> QED
    BY <2>1, <2>2, <1>1, UpdateStakedRewards
<1>5. CASE DelegatorUnstake(who, p, v)
  <2> DEFINE amount == UnstakeAmount(StakeOf(who, p), v)
             staked == SatSub(eraState[c].staked, amount)
  <2>1. eraState' = UpdateStaked(c, staked)
    BY <1>5 DEF DelegatorUnstake, StakeOf
  <2>2. staked \in Nat
    BY <1>5, DelegatorUnstakeCall
  <2> HIDE DEF staked
  <2> QED
    BY <2>1, <2>2, <1>1, UpdateStakedRewards
<1> QED
  BY <1>2, <1>3, <1>4, <1>5

LEMMA CallBooked ==
  ASSUME LedgerInv, AmountsFit, PalletCall
  PROVE  Booked' = Booked
<1>1. TypeOK /\ rewardAccumulator' = rewardAccumulator
  BY PalletCallTimes DEF LedgerInv, IndInv
<1>2. ASSUME eraState' = eraState
      PROVE  \A e \in Eras : RewardsOf(e)' = RewardsOf(e)
  BY <1>2 DEF RewardsOf
<1>3. ASSUME \/ \E new \in EraLengths : SetBlocksPerEra(new)
             \/ \E a \in Accounts : WithdrawUnbonded(a)
             \/ \E p \in Providers, e \in Eras : ClaimProvider(p, e)
             \/ \E p \in Providers : ProviderWithdrawUnregistered(p)
      PROVE  eraState' = eraState
  BY <1>3 DEF SetBlocksPerEra, WithdrawUnbonded, ClaimProvider, ProviderWithdrawUnregistered
<1>4. ASSUME NEW a \in Accounts, NEW p \in Providers,
             ClaimDelegator(a, p) \/ DelegatorWithdrawUnregistered(a, p)
      PROVE  eraState' = eraState
  BY <1>4 DEF ClaimDelegator, DelegatorWithdrawUnregistered
<1>5. ASSUME NEW p \in Providers, UnregisterProvider(p)
      PROVE  \A e \in Eras : RewardsOf(e)' = RewardsOf(e)
  <2> DEFINE c == era.current
             staked == SatSub(eraState[c].staked, ProviderEraInfoOrDefault(p, c).total)
  <2>1. /\ c \in Eras /\ eraState[c].staked \in Nat
    BY <1>5, InCall DEF UnregisterProvider
  <2>2. staked \in Nat
    BY <2>1, <1>1, StorageDefaultType, ArithmeticType DEF ProviderEraMetadata
  <2>3. eraState' = UpdateStaked(c, staked)
    BY <1>5 DEF UnregisterProvider
  <2> HIDE DEF staked, c
  <2> QED
    BY <2>1, <2>2, <2>3, <1>1, UpdateStakedRewards
<1>6. \A e \in Eras : RewardsOf(e)' = RewardsOf(e)
  <2>1. CASE eraState' = eraState
    BY <1>2, <2>1
  <2>2. CASE \E a \in Accounts, p \in Providers, v \in Amounts :
               \/ RegisterProvider(a, p, v)
               \/ ProviderBondMore(a, p, v)
               \/ ProviderBondLess(a, p, v)
               \/ Delegate(a, p, v)
               \/ DelegatorUnstake(a, p, v)
    BY <2>2, StakeCallRewards
  <2> QED
    BY <1>3, <1>4, <1>5, <2>1, <2>2 DEF PalletCall
<1> QED
  BY <1>1, <1>6, SameBooked

(* The step of RewardsBooked.                                              *)
DustLost ==
  \E dust, dropped \in 0..SatSub(ExistentialDeposit, 1) :
    /\ LostTokens' = LostTokens + dust + dropped
    /\ dust > 0 => balances'[Pot] = EmptyAccount
    /\ dropped > 0 => \E a \in Accounts :
                        EmptyAccount = balances[a] /\ EmptyAccount = balances'[a]

LEMMA NextBooked ==
  ASSUME PalletInv, PalletInv', [Next]_vars, IssuanceFits, AmountsFit
  PROVE  DustLost
<1>1. /\ LedgerInv /\ SupplyBounded /\ IndInv /\ TypeOK /\ TypeOK'
      /\ balances \in Ledgers /\ Pot \in Holders
  BY StateTypes DEF PalletInv, LedgerInv, IndInv, Holders
<1> DEFINE G == InitialBalance * Cardinality(Accounts)
           S == Supply(balances)
           S2 == Supply(balances')
<1>2. /\ Booked \in Nat /\ Booked' \in Nat /\ G \in Nat /\ S \in Nat
      /\ LostTokens = G + Booked - S /\ LostTokens' = G + Booked' - S2
  <2>1. BookedTyped /\ BookedTyped'
    BY <1>1, BookedType, BookedTypeNext
  <2>2. G \in Nat /\ S \in Nat
    BY <1>1, SupplyType, GenesisType
  <2>3. Supply(balances)' = S2
    BY DEF Supply, Worth
  <2>4. LostTokens' = G + Booked' - Supply(balances)'
    BY <2>1 DEF BookedTyped, Unheld
  <2> QED
    BY <2>1, <2>2, <2>3, <2>4 DEF BookedTyped, Unheld
<1> HIDE DEF G, S, S2
<1>3. ASSUME NEW dust \in Dust, NEW dropped \in Dust,
             Booked' - Booked - (S2 - S) = dust + dropped, S2 \in Int,
             dust > 0 => balances'[Pot] = EmptyAccount,
             dropped > 0 => \E a \in Accounts :
                              EmptyAccount = balances[a] /\ EmptyAccount = balances'[a]
      PROVE  DustLost
  <2>1. dust \in Nat /\ dropped \in Nat
    BY DustType
  <2>2. LostTokens' = LostTokens + dust + dropped
    <3>1. PICK b, b2, l, l2 : b = Booked /\ b2 = Booked' /\ l = LostTokens /\ l2 = LostTokens'
      OBVIOUS
    <3>2. /\ b \in Nat /\ b2 \in Nat /\ l = G + b - S /\ l2 = G + b2 - S2
          /\ b2 - b - (S2 - S) = dust + dropped
      BY <1>2, <1>3, <3>1
    <3>3. l2 = l + dust + dropped
      BY <1>2, <1>3, <2>1, <3>2
    <3> QED
      BY <3>1, <3>3
  <2> QED
    BY <1>3, <2>2 DEF DustLost, Dust
<1>4. 0 \in Dust /\ ~(0 > 0)
  BY DustType
<1>5. ASSUME Booked' = Booked, balances' = balances
      PROVE  DustLost
  <2>1. S2 = S
    BY <1>5 DEF S, S2
  <2>2. Booked' - Booked - (S2 - S) = 0 + 0 /\ S2 \in Int
    BY <1>2, <1>5, <2>1
  <2> QED
    BY <1>3, <1>4, <2>2
<1>6. CASE StartEra
  BY <1>1, <1>5, <1>6, StartEraBooked
<1>7. CASE ContinueEra \/ UNCHANGED vars
  <2>1. UNCHANGED <<eraState, rewardAccumulator, balances>>
    BY <1>7 DEF ContinueEra, stakingVars, vars
  <2> QED
    BY <1>5, <2>1, SameBooked DEF RewardsOf
<1>8. CASE PalletCall
  <2>1. PICK dust, dropped \in Dust :
          /\ Supply(balances') = Supply(balances) - (dust + dropped)
          /\ dust > 0 => balances'[Pot] = EmptyAccount
          /\ dropped > 0 => \E a \in Accounts :
                              EmptyAccount = balances[a] /\ EmptyAccount = balances'[a]
    BY <1>1, <1>8, PalletCallMoves, MovedParts
  <2>2. Booked' = Booked
    BY <1>1, <1>8, CallBooked
  <2>3. Booked' - Booked - (S2 - S) = dust + dropped /\ S2 \in Int
    <3>1. S2 = S - (dust + dropped) /\ dust \in Nat /\ dropped \in Nat
      BY <2>1, DustType DEF S, S2
    <3> QED
      BY <1>2, <2>2, <3>1
  <2> QED
    BY <1>3, <2>1, <2>3
<1>9. ASSUME NEW v \in Rewards, HandleImbalance(v)
      PROVE  DustLost
  <2>1. /\ rewardAccumulator' = rewardAccumulator + v /\ v \in Nat
        /\ rewardAccumulator \in Nat
    BY <1>1, <1>9, BoundedFits, StakingAssumption DEF TypeOK
  <2>2. balances' = DepositCreating(balances, Pot, v) /\ eraState' = eraState
    BY <1>9 DEF HandleImbalance
  <2>3. PICK after : after = balances'
    OBVIOUS
  <2>4. PICK dust \in Dust : /\ Supply(after) = Supply(balances) + v - dust
                             /\ dust > 0 => after[Pot] = EmptyAccount
    BY <1>1, <2>1, <2>2, <2>3, SupplyDust
  <2>5. Booked' = Booked + v
    <3>1. EraRewards' = EraRewards
      BY <2>2 DEF EraRewards, RewardsOf
    <3>2. SumFunctionOnSet(EraRewards, Eras) \in Nat
      BY <1>1, EraRewardsType
    <3> QED
      BY <2>1, <3>1, <3>2 DEF Booked
  <2>6. Booked' - Booked - (S2 - S) = dust + 0 /\ S2 \in Int
    <3>1. S2 = S + v - dust /\ dust \in Nat
      BY <2>3, <2>4, DustType DEF S, S2
    <3> QED
      BY <1>2, <2>1, <2>5, <3>1
  <2> QED
    BY <1>3, <1>4, <2>3, <2>4, <2>6
<1> QED
  BY <1>6, <1>7, <1>8, <1>9 DEF Next, PalletCall

(* Whatever the existential deposit: claims create no tokens, every reward *)
(* is booked to exactly one era, and only dust of the pallet's account and *)
(* rewards too small for an account that is gone are lost.                 *)
THEOREM RewardsStayBooked ==
  ASSUME IssuanceFits, AmountsFit
  PROVE  Spec => RewardsBooked
<1>1. Init => PalletInv
  BY InitPalletInv
<1>2. PalletInv /\ [Next]_vars => PalletInv'
  BY NextPalletInv
<1>3. PalletInv /\ PalletInv' /\ [Next]_vars => [DustLost]_vars
  BY NextBooked
<1> QED
  BY <1>1, <1>2, <1>3, PTL DEF Spec, RewardsBooked, DustLost

----------------------------------------------------------------------------
(* The stakes on a provider                                                *)

(* Stakes recorded for an era, and the latest ones.                        *)
StakesAt(p, e) == [a \in Accounts |-> StakedAt(delegationInfo[a][p], e)]

StakedOn(p, e) == SumFunctionOnSet(StakesAt(p, e), Accounts)

LatestStakes(p) == [a \in Accounts |-> StakeOf(a, p)]

LatestOn(p) == SumFunctionOnSet(LatestStakes(p), Accounts)

Delegators(p) == {a \in Accounts : StakeOf(a, p) > 0}

StakesTyped ==
  /\ \A p \in Providers, e \in Eras :
       /\ \A a \in Accounts : /\ StakesAt(p, e)[a] = StakedAt(delegationInfo[a][p], e)
                              /\ StakedAt(delegationInfo[a][p], e) \in Nat
       /\ StakedOn(p, e) \in Nat
  /\ \A p \in Providers :
       /\ \A a \in Accounts : /\ LatestStakes(p)[a] = StakeOf(a, p)
                              /\ StakeOf(a, p) \in Nat
       /\ LatestOn(p) \in Nat
       /\ \A a \in Accounts : StakeOf(a, p) <= LatestOn(p)
       /\ IsFiniteSet(Delegators(p)) /\ Cardinality(Delegators(p)) \in Nat
  /\ \A p \in Providers, e \in Eras : e >= era.current =>
       /\ \A a \in Accounts : StakedAt(delegationInfo[a][p], e) = StakeOf(a, p)
       /\ StakedOn(p, e) = LatestOn(p)

LEMMA StakesType == IndInv => StakesTyped
<1> SUFFICES ASSUME IndInv PROVE StakesTyped
  OBVIOUS
<1>1. TypeOK /\ era.current \in Nat
  BY StateTypes DEF IndInv
<1>2. \A a \in Accounts, p \in Providers :
        /\ delegationInfo[a][p] \in Seq(EraStake)
        /\ EntriesOrdered(delegationInfo[a][p], era.current)
  BY DEF IndInv, TypeOK, DelegationsWellFormed
<1>3. \A a \in Accounts, p \in Providers, e \in Eras : StakedAt(delegationInfo[a][p], e) \in Nat
  <2> SUFFICES ASSUME NEW a \in Accounts, NEW p \in Providers, NEW e \in Eras
               PROVE  StakedAt(delegationInfo[a][p], e) \in Nat
    OBVIOUS
  <2> DEFINE vector == delegationInfo[a][p]
  <2>1. /\ vector \in Seq(EraStake) /\ EntriesOrdered(vector, era.current) /\ e \in Nat
    BY <1>2 DEF Eras
  <2> HIDE DEF vector
  <2>2. CASE \A i \in DOMAIN vector : vector[i].era > e
    BY <2>1, <2>2, StakedAtNone DEF vector
  <2>3. ASSUME NEW i \in DOMAIN vector, Covers(vector, i, e)
        PROVE  StakedAt(vector, e) \in Nat
    BY <2>1, <2>3, StakedAtEntry, StakeFields
  <2> QED
    BY <2>1, <2>2, <2>3, <1>1, CoveringEntry DEF vector
<1>4. \A p \in Providers, e \in Eras :
        /\ \A a \in Accounts : /\ StakesAt(p, e)[a] = StakedAt(delegationInfo[a][p], e)
                               /\ StakedAt(delegationInfo[a][p], e) \in Nat
        /\ StakedOn(p, e) \in Nat
  <2> SUFFICES ASSUME NEW p \in Providers, NEW e \in Eras
               PROVE  /\ \A a \in Accounts :
                           /\ StakesAt(p, e)[a] = StakedAt(delegationInfo[a][p], e)
                           /\ StakedAt(delegationInfo[a][p], e) \in Nat
                      /\ StakedOn(p, e) \in Nat
    OBVIOUS
  <2>1. \A a \in Accounts : /\ StakesAt(p, e)[a] = StakedAt(delegationInfo[a][p], e)
                            /\ StakesAt(p, e)[a] \in Nat
    BY <1>3 DEF StakesAt
  <2>2. StakedOn(p, e) \in Nat
    BY <2>1, FiniteAssumption, SumNat DEF StakedOn
  <2> QED
    BY <2>1, <2>2
<1>5. \A p \in Providers :
       /\ \A a \in Accounts : /\ LatestStakes(p)[a] = StakeOf(a, p)
                              /\ StakeOf(a, p) \in Nat
       /\ LatestOn(p) \in Nat
       /\ \A a \in Accounts : StakeOf(a, p) <= LatestOn(p)
  <2> SUFFICES ASSUME NEW p \in Providers
               PROVE  /\ \A a \in Accounts : /\ LatestStakes(p)[a] = StakeOf(a, p)
                                             /\ StakeOf(a, p) \in Nat
                      /\ LatestOn(p) \in Nat
                      /\ \A a \in Accounts : StakeOf(a, p) <= LatestOn(p)
    OBVIOUS
  <2>1. \A a \in Accounts : LatestStakes(p)[a] = StakeOf(a, p) /\ LatestStakes(p)[a] \in Nat
    BY <1>1, HeldType DEF LatestStakes, HeldTyped
  <2>2. /\ LatestOn(p) \in Nat
        /\ \A a \in Accounts : LatestStakes(p)[a] <= LatestOn(p)
    BY <2>1, FiniteAssumption, SumNat DEF LatestOn
  <2> QED
    BY <2>1, <2>2
<1>6. \A p \in Providers : IsFiniteSet(Delegators(p)) /\ Cardinality(Delegators(p)) \in Nat
  BY FiniteAssumption, FS_Subset, FS_CardinalityType DEF Delegators
<1>7. ASSUME NEW p \in Providers, NEW e \in Eras, e >= era.current
      PROVE  /\ \A a \in Accounts : StakedAt(delegationInfo[a][p], e) = StakeOf(a, p)
             /\ StakedOn(p, e) = LatestOn(p)
  <2>1. \A a \in Accounts : StakedAt(delegationInfo[a][p], e) = StakeOf(a, p)
    BY <1>1, <1>2, <1>7, StakedAtLatest DEF StakeOf, Eras
  <2>2. \A a \in Accounts : StakesAt(p, e)[a] = LatestStakes(p)[a]
    BY <2>1, <1>4, <1>5
  <2>3. StakedOn(p, e) = LatestOn(p)
    BY <2>2, FiniteAssumption, SumEqual DEF StakedOn, LatestOn
  <2> QED
    BY <2>1, <2>3
<1> QED
  BY <1>4, <1>5, <1>6, <1>7 DEF StakesTyped

LEMMA StakesTypeNext == IndInv' => StakesTyped'
BY StakesType, PTL

(* Which stake a step changes, and stakes that only shrink.                *)
LEMMA StakedStep ==
  ASSUME IndInv, IndInv', NEW p \in Providers
  PROVE  /\ \A e \in Eras :
              (\A a \in Accounts : StakedAt(delegationInfo'[a][p], e)
                                     <= StakedAt(delegationInfo[a][p], e)) =>
                StakedOn(p, e)' <= StakedOn(p, e)
         /\ (\A a \in Accounts : StakeOf(a, p)' = StakeOf(a, p)) =>
              LatestOn(p)' = LatestOn(p) /\ Delegators(p)' = Delegators(p)
         /\ \A who \in Accounts :
              (\A a \in Accounts : a # who => StakeOf(a, p)' = StakeOf(a, p)) =>
                LatestOn(p)' = LatestOn(p) - StakeOf(who, p) + StakeOf(who, p)'
<1>1. ASSUME NEW e \in Eras,
             \A a \in Accounts : StakedAt(delegationInfo'[a][p], e)
                                   <= StakedAt(delegationInfo[a][p], e)
      PROVE  StakedOn(p, e)' <= StakedOn(p, e)
  <2> DEFINE S == StakesAt(p, e)
             S2 == StakesAt(p, e)'
  <2>1. \A a \in Accounts : /\ S[a] = StakedAt(delegationInfo[a][p], e) /\ S[a] \in Int
    BY StakesType DEF StakesTyped
  <2>2. \A a \in Accounts : S2[a] = StakedAt(delegationInfo'[a][p], e) /\ S2[a] \in Int
    <3>1. \A a \in Accounts : StakedAt(delegationInfo'[a][p], e) \in Nat
      BY StakesTypeNext DEF StakesTyped
    <3> QED
      BY <3>1 DEF StakesAt
  <2> HIDE DEF S, S2
  <2>3. SumFunctionOnSet(S2, Accounts) <= SumFunctionOnSet(S, Accounts)
    BY <2>1, <2>2, <1>1, FiniteAssumption, SumMonotone
  <2> QED
    BY <2>3 DEF S, S2, StakedOn
<1> DEFINE L == LatestStakes(p)
           L2 == LatestStakes(p)'
<1>2. \A a \in Accounts : L[a] = StakeOf(a, p) /\ L[a] \in Int
  BY StakesType DEF StakesTyped
<1>3. \A a \in Accounts : L2[a] = StakeOf(a, p)' /\ L2[a] \in Int
  BY StakesTypeNext DEF StakesTyped
<1>4. LatestOn(p) = SumFunctionOnSet(L, Accounts) /\ LatestOn(p)' = SumFunctionOnSet(L2, Accounts)
  BY DEF LatestOn
<1> HIDE DEF L, L2
<1>5. ASSUME \A a \in Accounts : StakeOf(a, p)' = StakeOf(a, p)
      PROVE  LatestOn(p)' = LatestOn(p) /\ Delegators(p)' = Delegators(p)
  <2>1. \A a \in Accounts : L2[a] = L[a]
    BY <1>2, <1>3, <1>5
  <2>2. SumFunctionOnSet(L2, Accounts) = SumFunctionOnSet(L, Accounts)
    BY <2>1, FiniteAssumption, SumEqual
  <2>3. Delegators(p)' = Delegators(p)
    BY <1>5 DEF Delegators
  <2> QED
    BY <2>2, <2>3, <1>4
<1>6. ASSUME NEW who \in Accounts,
             \A a \in Accounts : a # who => StakeOf(a, p)' = StakeOf(a, p)
      PROVE  LatestOn(p)' = LatestOn(p) - StakeOf(who, p) + StakeOf(who, p)'
  <2>1. \A a \in Accounts : a # who => L2[a] = L[a]
    BY <1>2, <1>3, <1>6
  <2>2. SumFunctionOnSet(L2, Accounts) = SumFunctionOnSet(L, Accounts) - L[who] + L2[who]
    BY <2>1, <1>2, <1>3, FiniteAssumption, SumChange
  <2> QED
    BY <2>2, <1>2, <1>3, <1>4
<1> QED
  BY <1>1, <1>5, <1>6

(* The number of delegators when one of them starts or stops.              *)
LEMMA DelegatorsStep ==
  ASSUME IndInv, IndInv', NEW p \in Providers, NEW who \in Accounts,
         \A a \in Accounts : a # who => StakeOf(a, p)' = StakeOf(a, p)
  PROVE  LET n  == Cardinality(Delegators(p))
             n2 == Cardinality(Delegators(p)')
         IN  /\ StakeOf(who, p) = 0 /\ StakeOf(who, p)' > 0 => n2 = n + 1
             /\ StakeOf(who, p) > 0 /\ StakeOf(who, p)' = 0 => n2 = n - 1 /\ n >= 1
             /\ (StakeOf(who, p) > 0 <=> StakeOf(who, p)' > 0) => n2 = n
<1>1. /\ \A a \in Accounts : StakeOf(a, p) \in Nat
      /\ IsFiniteSet(Delegators(p)) /\ Cardinality(Delegators(p)) \in Nat
  BY StakesType DEF StakesTyped
<1>2. /\ \A a \in Accounts : StakeOf(a, p)' \in Nat
      /\ IsFiniteSet(Delegators(p)') /\ Cardinality(Delegators(p)') \in Nat
  BY StakesTypeNext DEF StakesTyped
<1>3. ASSUME StakeOf(who, p) = 0, StakeOf(who, p)' > 0
      PROVE  Cardinality(Delegators(p)') = Cardinality(Delegators(p)) + 1
  <2>1. Delegators(p)' = Delegators(p) \cup {who} /\ who \notin Delegators(p)
    BY <1>1, <1>2, <1>3 DEF Delegators
  <2> QED
    BY <2>1, <1>1, FS_AddElement
<1>4. ASSUME StakeOf(who, p) > 0, StakeOf(who, p)' = 0
      PROVE  /\ Cardinality(Delegators(p)') = Cardinality(Delegators(p)) - 1
             /\ Cardinality(Delegators(p)) >= 1
  <2>1. Delegators(p)' = Delegators(p) \ {who} /\ who \in Delegators(p)
    BY <1>1, <1>2, <1>4 DEF Delegators
  <2>2. Cardinality(Delegators(p)') = Cardinality(Delegators(p)) - 1
    BY <2>1, <1>1, FS_RemoveElement
  <2> QED
    BY <2>2, <1>1, <1>2
<1>5. ASSUME StakeOf(who, p) > 0 <=> StakeOf(who, p)' > 0
      PROVE  Cardinality(Delegators(p)') = Cardinality(Delegators(p))
  <2>1. Delegators(p)' = Delegators(p)
    BY <1>5 DEF Delegators
  <2> QED
    BY <2>1
<1> QED
  BY <1>3, <1>4, <1>5

----------------------------------------------------------------------------
(* The totals of a provider                                                *)

(* A record covers the bond and the stakes that are not claimed yet.       *)
CoveredAt(p, e) ==
  LET info == providerEraInfo[p][e]
  IN  IsRegistered(p) /\ e <= LatestEra(p) /\ info # None =>
        info.total >= info.bond + StakedOn(p, e)

(* The record of the current era is exact.                                 *)
ExactFor(p) ==
  LET info == providerEraInfo[p][era.current]
  IN  IsActiveProvider(p) =>
        /\ info.total = info.bond + LatestOn(p)
        /\ info.delegator_count = Cardinality(Delegators(p))

Totals ==
  \A p \in Providers : ExactFor(p) /\ \A e \in Eras : CoveredAt(p, e)

LEMMA CoveredKept ==
  ASSUME IndInv, IndInv', NEW p \in Providers, NEW e \in Eras, CoveredAt(p, e),
         IsRegistered(p)' /\ e <= LatestEra(p)' /\ providerEraInfo'[p][e] # None =>
           /\ IsRegistered(p) /\ e <= LatestEra(p) /\ providerEraInfo[p][e] # None
           /\ providerEraInfo'[p][e].total = providerEraInfo[p][e].total
           /\ providerEraInfo'[p][e].bond = providerEraInfo[p][e].bond,
         \A a \in Accounts : StakedAt(delegationInfo'[a][p], e)
                               <= StakedAt(delegationInfo[a][p], e)
  PROVE  CoveredAt(p, e)'
<1> SUFFICES ASSUME IsRegistered(p)', e <= LatestEra(p)', providerEraInfo'[p][e] # None
             PROVE  providerEraInfo'[p][e].total >=
                      providerEraInfo'[p][e].bond + StakedOn(p, e)'
  BY DEF CoveredAt
<1>1. StakedOn(p, e)' <= StakedOn(p, e)
  BY StakedStep
<1>2. StakedOn(p, e) \in Nat
  BY StakesType DEF StakesTyped
<1>3. StakedOn(p, e)' \in Nat
  BY StakesTypeNext DEF StakesTyped
<1>4. providerEraInfo[p][e].total \in Nat /\ providerEraInfo[p][e].bond \in Nat
  <2>1. providerEraInfo[p][e] \in ProviderEraMetadata
    BY DEF IndInv, TypeOK
  <2> QED
    BY <2>1 DEF ProviderEraMetadata
<1>5. providerEraInfo[p][e].total >= providerEraInfo[p][e].bond + StakedOn(p, e)
  BY DEF CoveredAt
<1> QED
  BY <1>1, <1>2, <1>3, <1>4, <1>5

LEMMA ExactKept ==
  ASSUME IndInv, IndInv', NEW p \in Providers, ExactFor(p),
         IsActiveProvider(p)' =>
           LET old == providerEraInfo[p][era.current]
               new == providerEraInfo'[p][era'.current]
           IN  /\ IsActiveProvider(p)
               /\ new.total = old.total /\ new.bond = old.bond
               /\ new.delegator_count = old.delegator_count
               /\ \A a \in Accounts : StakeOf(a, p)' = StakeOf(a, p)
  PROVE  ExactFor(p)'
<1> SUFFICES ASSUME IsActiveProvider(p)'
             PROVE  /\ providerEraInfo'[p][era'.current].total =
                         providerEraInfo'[p][era'.current].bond + LatestOn(p)'
                    /\ providerEraInfo'[p][era'.current].delegator_count =
                         Cardinality(Delegators(p)')
  BY DEF ExactFor
<1>1. LatestOn(p)' = LatestOn(p) /\ Delegators(p)' = Delegators(p)
  BY StakedStep
<1> QED
  BY <1>1 DEF ExactFor

(* Steps that leave the records and the stakes alone.                      *)
LEMMA TotalsFrame ==
  ASSUME IndInv, IndInv', Totals,
         era'.current = era.current, UNCHANGED <<providerInfo, providerEraInfo, delegationInfo>>
  PROVE  Totals'
<1> SUFFICES ASSUME NEW p \in Providers
             PROVE  ExactFor(p)' /\ \A e \in Eras : CoveredAt(p, e)'
  BY DEF Totals
<1>1. /\ IsRegistered(p)' <=> IsRegistered(p)
      /\ IsActiveProvider(p)' <=> IsActiveProvider(p)
      /\ LatestEra(p)' = LatestEra(p)
      /\ \A a \in Accounts : StakeOf(a, p)' = StakeOf(a, p)
  BY DEF IsRegistered, IsActiveProvider, LatestEra, StakeOf
<1>2. ExactFor(p)'
  BY <1>1, ExactKept DEF Totals
<1>3. ASSUME NEW e \in Eras PROVE CoveredAt(p, e)'
  <2>1. \A a \in Accounts : StakedAt(delegationInfo'[a][p], e)
                              <= StakedAt(delegationInfo[a][p], e)
    BY StakesType DEF StakesTyped
  <2> QED
    BY <2>1, <1>1, CoveredKept DEF Totals
<1> QED
  BY <1>2, <1>3

LEMMA InitTotals == Init => Totals
<1> SUFFICES ASSUME Init PROVE Totals
  OBVIOUS
<1>1. \A p \in Providers : ~IsRegistered(p) /\ ~IsActiveProvider(p)
  BY DEF Init, IsRegistered, IsActiveProvider
<1> QED
  BY <1>1 DEF Totals, ExactFor, CoveredAt

(* A call moves the total by as much as the bond and the stake, leaves the *)
(* stakes of earlier eras alone, and counts the delegator.                 *)
TotalsMoved(who, p, info, stakes) ==
  LET old    == providerEraInfo[p][era.current]
      before == StakeOf(who, p)
      after  == LatestStakedValue(stakes)
  IN  /\ info.total - info.bond = old.total - old.bond + after - before
      /\ \A e \in Nat : e < era.current =>
           StakedAt(stakes, e) = StakedAt(delegationInfo[who][p], e)
      /\ before = 0 /\ after > 0 => info.delegator_count = old.delegator_count + 1
      /\ before > 0 /\ after = 0 => info.delegator_count = SatSub(old.delegator_count, 1)
      /\ (before > 0 <=> after > 0) => info.delegator_count = old.delegator_count

LEMMA StakeCallTotals ==
  ASSUME LedgerInv, Totals, IndInv', NEW who \in Accounts, NEW p \in Providers,
         NEW info \in ProviderEraMetadata, NEW staked \in Nat,
         NEW stakes \in Seq(EraStake),
         StakeCall(who, p, info, staked, stakes), TotalsMoved(who, p, info, stakes)
  PROVE  Totals'
<1> DEFINE old == providerEraInfo[p][era.current]
<1>0. PICK c : c = era.current
  OBVIOUS
<1>1. /\ TypeOK /\ IndInv /\ c \in Eras /\ c \in Nat /\ old \in ProviderEraMetadata
      /\ LatestEra(p) = c /\ IsActiveProvider(p)
  BY <1>0, InCall DEF StakeCall, LedgerInv
<1>2. /\ providerEraInfo' = [providerEraInfo EXCEPT ![p][c] = info]
      /\ delegationInfo' = [delegationInfo EXCEPT ![who][p] = stakes]
      /\ UNCHANGED <<era, providerInfo>>
  BY <1>0 DEF StakeCall
<1>3. /\ \A q \in Providers, a \in Accounts :
           delegationInfo'[a][q] = IF a = who /\ q = p THEN stakes ELSE delegationInfo[a][q]
      /\ \A q \in Providers, a \in Accounts :
           StakeOf(a, q)' = IF a = who /\ q = p THEN LatestStakedValue(stakes)
                                                ELSE StakeOf(a, q)
  BY <1>1, <1>2 DEF TypeOK, StakeOf
<1>4. \A q \in Providers, e \in Eras :
        providerEraInfo'[q][e] = IF q = p /\ e = c THEN info ELSE providerEraInfo[q][e]
  BY <1>1, <1>2 DEF TypeOK
<1>5. \A q \in Providers : /\ IsRegistered(q)' <=> IsRegistered(q)
                           /\ IsActiveProvider(q)' <=> IsActiveProvider(q)
                           /\ LatestEra(q)' = LatestEra(q)
  BY <1>2 DEF IsRegistered, IsActiveProvider, LatestEra
<1>6. /\ StakeOf(who, p) \in Nat /\ LatestOn(p) \in Nat
      /\ Cardinality(Delegators(p)) \in Nat
      /\ \A e \in Eras, q \in Providers, a \in Accounts :
           StakedAt(delegationInfo[a][q], e) \in Nat
  BY <1>1, StakesType DEF StakesTyped
<1>7. /\ StakeOf(who, p)' = LatestStakedValue(stakes) /\ StakeOf(who, p)' \in Nat
      /\ LatestOn(p)' \in Nat /\ Cardinality(Delegators(p)') \in Nat
      /\ StakedOn(p, c)' = LatestOn(p)'
  BY <1>0, <1>1, <1>2, <1>3, StakesTypeNext DEF StakesTyped
<1>8. /\ info.total \in Nat /\ info.bond \in Nat /\ info.delegator_count \in Nat
      /\ old.total \in Nat /\ old.bond \in Nat /\ old.delegator_count \in Nat
  BY <1>1 DEF ProviderEraMetadata
<1>9. old.total = old.bond + LatestOn(p) /\ old.delegator_count = Cardinality(Delegators(p))
  BY <1>1 DEF Totals, ExactFor
<1>10. /\ info.total = info.bond + LatestOn(p)'
       /\ info.delegator_count = Cardinality(Delegators(p)')
  <2>1. LatestOn(p)' = LatestOn(p) - StakeOf(who, p) + StakeOf(who, p)'
    BY <1>1, <1>3, StakedStep
  <2>2. info.total - info.bond = old.total - old.bond + StakeOf(who, p)' - StakeOf(who, p)
    BY <1>7 DEF TotalsMoved
  <2>3. info.total = info.bond + LatestOn(p)'
    <3> DEFINE t == info.total
               b == info.bond
               ot == old.total
               ob == old.bond
               l == LatestOn(p)
               l2 == LatestOn(p)'
               s == StakeOf(who, p)
               s2 == StakeOf(who, p)'
    <3>1. /\ t \in Nat /\ b \in Nat /\ ot \in Nat /\ ob \in Nat
          /\ l \in Nat /\ l2 \in Nat /\ s \in Nat /\ s2 \in Nat
      BY <1>6, <1>7, <1>8
    <3>2. l2 = l - s + s2 /\ t - b = ot - ob + s2 - s /\ ot = ob + l
      BY <2>1, <2>2, <1>9
    <3> HIDE DEF t, b, ot, ob, l, l2, s, s2
    <3>3. t = b + l2
      BY <3>1, <3>2
    <3> QED
      BY <3>3 DEF t, b, l2
  <2> DEFINE n == Cardinality(Delegators(p))
             n2 == Cardinality(Delegators(p)')
  <2>4. /\ StakeOf(who, p) = 0 /\ StakeOf(who, p)' > 0 => n2 = n + 1
        /\ StakeOf(who, p) > 0 /\ StakeOf(who, p)' = 0 => n2 = n - 1 /\ n >= 1
        /\ (StakeOf(who, p) > 0 <=> StakeOf(who, p)' > 0) => n2 = n
    BY <1>1, <1>3, DelegatorsStep
  <2>5. /\ StakeOf(who, p) = 0 /\ StakeOf(who, p)' > 0 => info.delegator_count = n + 1
        /\ StakeOf(who, p) > 0 /\ StakeOf(who, p)' = 0 => info.delegator_count = SatSub(n, 1)
        /\ (StakeOf(who, p) > 0 <=> StakeOf(who, p)' > 0) => info.delegator_count = n
    BY <1>7, <1>9 DEF TotalsMoved
  <2>6. n \in Nat /\ n2 \in Nat
    BY <1>6, <1>7
  <2>7. n >= 1 => SatSub(n, 1) = n - 1
    <3> HIDE DEF n
    <3> QED BY <2>6 DEF SatSub
  <2> HIDE DEF n, n2
  <2>8. info.delegator_count = n2
    BY <2>4, <2>5, <2>6, <2>7, <1>6, <1>7
  <2> QED
    BY <2>3, <2>8 DEF n2
<1> SUFFICES ASSUME NEW q \in Providers
             PROVE  ExactFor(q)' /\ \A e \in Eras : CoveredAt(q, e)'
  BY DEF Totals
<1>11. CASE q # p
  <2>1. /\ \A a \in Accounts : StakeOf(a, q)' = StakeOf(a, q)
        /\ \A a \in Accounts : delegationInfo'[a][q] = delegationInfo[a][q]
        /\ \A e \in Eras : providerEraInfo'[q][e] = providerEraInfo[q][e]
    BY <1>3, <1>4, <1>11
  <2>2. ExactFor(q)'
    BY <2>1, <1>0, <1>1, <1>2, <1>5, ExactKept DEF Totals
  <2>3. ASSUME NEW e \in Eras PROVE CoveredAt(q, e)'
    <3>1. \A a \in Accounts : StakedAt(delegationInfo'[a][q], e)
                                <= StakedAt(delegationInfo[a][q], e)
      BY <2>1, <1>6
    <3> QED
      BY <3>1, <2>1, <1>1, <1>5, CoveredKept DEF Totals
  <2> QED
    BY <2>2, <2>3
<1>12. CASE q = p
  <2>1. ExactFor(p)'
    BY <1>0, <1>1, <1>2, <1>4, <1>10 DEF ExactFor
  <2>2. ASSUME NEW e \in Eras, e < c PROVE CoveredAt(p, e)'
    <3>1. providerEraInfo'[p][e] = providerEraInfo[p][e]
      BY <1>1, <1>4, <2>2 DEF Eras
    <3>2. \A a \in Accounts : StakedAt(delegationInfo'[a][p], e)
                                = StakedAt(delegationInfo[a][p], e)
      BY <1>0, <1>3, <2>2 DEF TotalsMoved, Eras
    <3>3. \A a \in Accounts : StakedAt(delegationInfo'[a][p], e)
                                <= StakedAt(delegationInfo[a][p], e)
      BY <3>2, <1>6
    <3> QED
      BY <3>1, <3>3, <1>1, <1>5, CoveredKept DEF Totals
  <2>3. CoveredAt(p, c)'
    <3>1. providerEraInfo'[p][c] = info
      BY <1>1, <1>4
    <3>2. info.total >= info.bond + StakedOn(p, c)'
      BY <1>7, <1>8, <1>10
    <3> QED
      BY <3>1, <3>2 DEF CoveredAt
  <2>4. ASSUME NEW e \in Eras, e > c PROVE CoveredAt(p, e)'
    BY <2>4, <1>1, <1>5 DEF CoveredAt, Eras
  <2>5. \A e \in Eras : e < c \/ e = c \/ e > c
    BY <1>1 DEF Eras
  <2> QED
    BY <2>1, <2>2, <2>3, <2>4, <2>5, <1>12
<1> QED
  BY <1>11, <1>12

LEMMA BondCallTotals ==
  ASSUME LedgerInv, Totals, IndInv', AmountsFit,
         NEW who \in Accounts, NEW p \in Providers, NEW v \in Amounts,
         ProviderBondMore(who, p, v) \/ ProviderBondLess(who, p, v)
  PROVE  Totals'
<1> DEFINE old == providerEraInfo[p][era.current]
           stakes == delegationInfo[who][p]
<1>1. /\ stakes \in Seq(EraStake) /\ LatestStakedValue(stakes) = StakeOf(who, p)
      /\ StakeOf(who, p) \in Nat /\ LatestOn(p) \in Nat
  BY StakesType DEF LedgerInv, IndInv, TypeOK, StakeOf, StakesTyped
<1>2. CASE ProviderBondMore(who, p, v)
  <2> DEFINE info == BondedMore(old, v)
             staked == SatAdd(eraState[era.current].staked, v)
  <2>1. /\ v \in Nat /\ old \in ProviderEraMetadata /\ info \in ProviderEraMetadata
        /\ info.bond = old.bond + v /\ info.total = old.total + v
        /\ info.delegator_count = old.delegator_count
        /\ staked \in Nat /\ StakeCall(who, p, info, staked, stakes)
    BY <1>2, ProviderBondMoreCall
  <2>2. old.bond \in Nat /\ old.total \in Nat /\ old.delegator_count \in Nat
    BY <2>1 DEF ProviderEraMetadata
  <2> HIDE DEF info, staked
  <2>3. info.total - info.bond = old.total - old.bond + LatestStakedValue(stakes) - StakeOf(who, p)
    <3> HIDE DEF old, stakes
    <3> QED
      BY <2>1, <2>2, <1>1
  <2>4. TotalsMoved(who, p, info, stakes)
    BY <2>1, <2>3, <1>1 DEF TotalsMoved
  <2> QED
    BY <2>1, <2>4, <1>1, StakeCallTotals
<1>3. CASE ProviderBondLess(who, p, v)
  <2> DEFINE info == BondedLess(old, v)
             staked == SatSub(eraState[era.current].staked, v)
  <2>1. /\ v \in Nat /\ old \in ProviderEraMetadata /\ info \in ProviderEraMetadata
        /\ v + MinProviderStake <= old.bond
        /\ info.bond = old.bond - v /\ info.total = SatSub(old.total, v)
        /\ info.delegator_count = old.delegator_count
        /\ staked \in Nat /\ StakeCall(who, p, info, staked, stakes)
    BY <1>3, ProviderBondLessCall
  <2>2. old.bond \in Nat /\ old.total \in Nat /\ old.delegator_count \in Nat
    BY <2>1 DEF ProviderEraMetadata
  <2>3. old.total = old.bond + LatestOn(p)
    BY <2>1 DEF Totals, ExactFor, StakeCall
  <2> HIDE DEF info, staked
  <2>4. info.total = old.total - v
    <3> HIDE DEF old
    <3>1. v <= old.total
      BY <2>1, <2>2, <2>3, <1>1, StakingAssumption
    <3> QED
      BY <2>1, <2>2, <3>1 DEF SatSub
  <2>5. info.total - info.bond = old.total - old.bond + LatestStakedValue(stakes) - StakeOf(who, p)
    <3> HIDE DEF old, stakes
    <3> QED
      BY <2>1, <2>2, <2>4, <1>1
  <2>6. TotalsMoved(who, p, info, stakes)
    BY <2>1, <2>5, <1>1 DEF TotalsMoved
  <2> QED
    BY <2>1, <2>6, <1>1, StakeCallTotals
<1> QED
  BY <1>2, <1>3

LEMMA DelegateTotals ==
  ASSUME LedgerInv, Totals, IndInv',
         NEW who \in Accounts, NEW p \in Providers, NEW v \in Amounts,
         Delegate(who, p, v)
  PROVE  Totals'
<1> DEFINE old == providerEraInfo[p][era.current]
           info == Delegated(old, StakeOf(who, p), v)
           staked == SatAdd(eraState[era.current].staked, v)
           stakes == Stake(delegationInfo[who][p], era.current, v)
<1>1. /\ v \in Nat /\ v > 0 /\ StakeOf(who, p) \in Nat
      /\ old \in ProviderEraMetadata /\ info \in ProviderEraMetadata
      /\ info.bond = old.bond /\ info.total = old.total + v
      /\ info.delegator_count = IF StakeOf(who, p) = 0 THEN old.delegator_count + 1
                                                       ELSE old.delegator_count
      /\ staked \in Nat /\ stakes \in Seq(EraStake)
      /\ LatestStakedValue(stakes) = StakeOf(who, p) + v
      /\ \A e \in Nat : StakedAt(stakes, e) =
           IF e >= era.current THEN StakeOf(who, p) + v
                               ELSE StakedAt(delegationInfo[who][p], e)
      /\ StakeCall(who, p, info, staked, stakes)
  BY DelegateCall
<1>2. old.bond \in Nat /\ old.total \in Nat /\ old.delegator_count \in Nat
  BY <1>1 DEF ProviderEraMetadata
<1> HIDE DEF info, staked, stakes
<1>3. info.total - info.bond = old.total - old.bond + LatestStakedValue(stakes) - StakeOf(who, p)
  <2> HIDE DEF old
  <2> QED
    BY <1>1, <1>2
<1>4. \A e \in Nat : e < era.current =>
        StakedAt(stakes, e) = StakedAt(delegationInfo[who][p], e)
  BY <1>1, StateTypes DEF LedgerInv, IndInv
<1>5. LatestStakedValue(stakes) > 0 /\ (StakeOf(who, p) > 0 <=> StakeOf(who, p) # 0)
  BY <1>1
<1>6. TotalsMoved(who, p, info, stakes)
  BY <1>1, <1>3, <1>4, <1>5 DEF TotalsMoved
<1> QED
  BY <1>1, <1>6, StakeCallTotals

LEMMA DelegatorUnstakeTotals ==
  ASSUME LedgerInv, Totals, IndInv',
         NEW who \in Accounts, NEW p \in Providers, NEW v \in Amounts,
         DelegatorUnstake(who, p, v)
  PROVE  Totals'
<1> DEFINE old == providerEraInfo[p][era.current]
           latest == StakeOf(who, p)
           amount == UnstakeAmount(latest, v)
           info == Unstaked(old, latest, v)
           staked == SatSub(eraState[era.current].staked, amount)
           stakes == Unstake(delegationInfo[who][p], era.current, amount)
<1>1. /\ latest \in Nat /\ latest > 0 /\ amount \in Nat /\ amount <= latest
      /\ UnstakesAll(latest, v) => amount = latest
      /\ ~UnstakesAll(latest, v) => latest - amount >= MinDelegatorStake
      /\ old \in ProviderEraMetadata /\ info \in ProviderEraMetadata
      /\ info.bond = old.bond /\ info.total = SatSub(old.total, amount)
      /\ info.delegator_count = IF UnstakesAll(latest, v)
                                THEN SatSub(old.delegator_count, 1)
                                ELSE old.delegator_count
      /\ staked \in Nat /\ stakes \in Seq(EraStake)
      /\ LatestStakedValue(stakes) = latest - amount
      /\ \A e \in Nat : StakedAt(stakes, e) =
           IF e >= era.current THEN latest - amount
                               ELSE StakedAt(delegationInfo[who][p], e)
      /\ StakeCall(who, p, info, staked, stakes)
  BY DelegatorUnstakeCall
<1>2. old.bond \in Nat /\ old.total \in Nat /\ old.delegator_count \in Nat
  BY <1>1 DEF ProviderEraMetadata
<1>3. old.total = old.bond + LatestOn(p)
  BY <1>1 DEF Totals, ExactFor, StakeCall
<1>4. LatestOn(p) \in Nat /\ latest <= LatestOn(p)
  BY StakesType DEF LedgerInv, StakesTyped
<1> HIDE DEF info, staked, stakes, amount
<1>5. info.total = old.total - amount
  <2> HIDE DEF old, latest
  <2>1. amount <= old.total
    BY <1>1, <1>2, <1>3, <1>4
  <2> QED
    BY <1>1, <1>2, <2>1 DEF SatSub
<1>6. info.total - info.bond = old.total - old.bond + LatestStakedValue(stakes) - latest
  <2> HIDE DEF old, latest
  <2> QED
    BY <1>1, <1>2, <1>5
<1>7. \A e \in Nat : e < era.current =>
        StakedAt(stakes, e) = StakedAt(delegationInfo[who][p], e)
  BY <1>1, StateTypes DEF LedgerInv, IndInv
<1>8. /\ UnstakesAll(latest, v) => LatestStakedValue(stakes) = 0
      /\ ~UnstakesAll(latest, v) => LatestStakedValue(stakes) > 0
  <2> HIDE DEF latest
  <2> QED
    BY <1>1, StakingAssumption, SMTT(30)
<1>9. TotalsMoved(who, p, info, stakes)
  BY <1>1, <1>6, <1>7, <1>8 DEF TotalsMoved
<1> QED
  BY <1>1, <1>9, StakeCallTotals

LEMMA StartEraTotals ==
  ASSUME LedgerInv, Totals, IndInv', StartEra
  PROVE  Totals'
<1>0. PICK c : c = era.current
  OBVIOUS
<1>1. /\ IndInv /\ c \in Nat /\ c + 1 \in Eras /\ era'.current = c + 1
      /\ delegationInfo' = delegationInfo
      /\ \A q \in Providers : IsRegistered(q)' <=> IsRegistered(q)
      /\ \A q \in Providers : IsActiveProvider(q)' <=> IsActiveProvider(q)
      /\ \A q \in Providers : IsRegistered(q) <=> IsActiveProvider(q) \/ IsUnregistered(q)
      /\ \A q \in Providers : IsActiveProvider(q) => LatestEra(q)' = c + 1 /\ LatestEra(q) = c
      /\ \A q \in Providers : IsUnregistered(q) =>
           LatestEra(q)' = LatestEra(q) /\ LatestEra(q) \in Eras /\ LatestEra(q) <= c
  BY <1>0, StartEraCall DEF LedgerInv
<1>2. /\ \A q \in Providers, e \in Eras : e # c + 1 =>
           providerEraInfo'[q][e] = providerEraInfo[q][e]
      /\ \A q \in Providers : IsActiveProvider(q) =>
           /\ providerEraInfo[q][c] # None
           /\ providerEraInfo[q][c] \in ProviderEraMetadata
           /\ providerEraInfo'[q][c + 1] # None
           /\ providerEraInfo'[q][c + 1].bond = providerEraInfo[q][c].bond
           /\ providerEraInfo'[q][c + 1].total = providerEraInfo[q][c].total
           /\ providerEraInfo'[q][c + 1].delegator_count = providerEraInfo[q][c].delegator_count
  BY <1>0, StartEraCall
<1> SUFFICES ASSUME NEW q \in Providers
             PROVE  ExactFor(q)' /\ \A e \in Eras : CoveredAt(q, e)'
  BY DEF Totals
<1>3. \A a \in Accounts : StakeOf(a, q)' = StakeOf(a, q)
  BY <1>1 DEF StakeOf
<1>4. ExactFor(q)'
  BY <1>0, <1>1, <1>2, <1>3, ExactKept DEF Totals
<1>5. ASSUME NEW e \in Eras, e # c + 1 PROVE CoveredAt(q, e)'
  <2>1. \A a \in Accounts : StakedAt(delegationInfo'[a][q], e)
                              <= StakedAt(delegationInfo[a][q], e)
    BY <1>1, StakesType DEF StakesTyped
  <2>2. IsRegistered(q) /\ e <= LatestEra(q)' => e <= LatestEra(q)
    BY <1>1, <1>5 DEF Eras
  <2> QED
    BY <2>1, <2>2, <1>1, <1>2, <1>5, CoveredKept DEF Totals
<1>6. CoveredAt(q, c + 1)'
  <2>1. CASE IsActiveProvider(q)
    <3>1. StakedOn(q, c + 1)' = LatestOn(q)' /\ LatestOn(q)' \in Nat
      BY <1>1, StakesTypeNext DEF StakesTyped
    <3>2. providerEraInfo'[q][c + 1].total = providerEraInfo'[q][c + 1].bond + LatestOn(q)'
      BY <2>1, <1>1, <1>4 DEF ExactFor
    <3>3. providerEraInfo'[q][c + 1].bond \in Nat
      BY <2>1, <1>2 DEF ProviderEraMetadata
    <3> QED
      BY <3>1, <3>2, <3>3 DEF CoveredAt
  <2>2. CASE ~IsActiveProvider(q)
    BY <2>2, <1>1 DEF CoveredAt, Eras
  <2> QED
    BY <2>1, <2>2
<1> QED
  BY <1>4, <1>5, <1>6

(* What registering changes.                                               *)
FirstRecord(bond) ==
  [bond |-> bond, total |-> bond, delegator_count |-> 0, provider_reward_claimed |-> FALSE]

LEMMA FirstRecordWritten ==
  ASSUME TypeOK, NEW who \in Accounts, NEW p \in Providers, NEW v \in Amounts,
         RegisterProvider(who, p, v)
  PROVE  providerEraInfo'[p][era.current] = FirstRecord(v)
<1>1. era.current \in Eras
  BY StateTypes
<1> QED
  BY <1>1 DEF RegisterProvider, FirstRecord, TypeOK

LEMMA RegisterProviderCall ==
  ASSUME LedgerInv, NEW who \in Accounts, NEW p \in Providers, NEW v \in Amounts,
         RegisterProvider(who, p, v)
  PROVE  LET c == era.current
         IN  /\ InBlock /\ ~IsRegistered(p) /\ v \in Nat /\ v >= MinProviderStake
             /\ CanReserve(balances, who, v)
             /\ UNCHANGED <<era, delegationInfo>>
             /\ IsRegistered(p)' /\ IsActiveProvider(p)' /\ LatestEra(p)' = c
             /\ \A q \in Providers : q # p =>
                  /\ providerInfo'[q] = providerInfo[q]
                  /\ IsRegistered(q)' <=> IsRegistered(q)
                  /\ IsActiveProvider(q)' <=> IsActiveProvider(q)
                  /\ LatestEra(q)' = LatestEra(q)
             /\ \A q \in Providers, e \in Eras : q # p \/ e # c =>
                  providerEraInfo'[q][e] = providerEraInfo[q][e]
             /\ providerEraInfo'[p][c] = FirstRecord(v) /\ FirstRecord(v) # None
             /\ \A e \in Eras : eraState'[e] =
                  IF e = c THEN [rewards |-> 0, staked |-> SatAdd(eraState[c].staked, v)]
                           ELSE eraState[e]
<1> DEFINE c == era.current
           info == FirstRecord(v)
           meta == [owner |-> who, status |-> Active, bond_withdrawn |-> FALSE]
<1>1. /\ InBlock /\ ~IsRegistered(p) /\ v \in Nat /\ v >= MinProviderStake
      /\ CanReserve(balances, who, v)
      /\ TypeOK /\ c \in Eras /\ eraState[c] # None /\ eraState[c].rewards = 0
  BY InCall, StakingAssumption DEF RegisterProvider, ReserveFunds
<1>2. info \in ProviderEraMetadata /\ meta \in ProviderMetadata
  BY <1>1 DEF ProviderEraMetadata, ProviderMetadata, FirstRecord
<1>3. info # None /\ meta # None
  BY <1>2, NoneAssumption
<1>4. /\ providerInfo' = [providerInfo EXCEPT ![p] = meta]
      /\ providerEraInfo' = [providerEraInfo EXCEPT ![p][c] = info]
      /\ UNCHANGED <<era, delegationInfo>>
  BY DEF RegisterProvider, FirstRecord
<1>5. meta.status = Active
  OBVIOUS
<1> HIDE DEF info, meta
<1>6. /\ \A q \in Providers, e \in Eras :
           providerEraInfo'[q][e] = IF q = p /\ e = c THEN info ELSE providerEraInfo[q][e]
      /\ \A q \in Providers : providerInfo'[q] = IF q = p THEN meta ELSE providerInfo[q]
  BY <1>1, <1>4 DEF TypeOK
<1>7. /\ IsRegistered(p)' /\ IsActiveProvider(p)' /\ LatestEra(p)' = c
      /\ \A q \in Providers : q # p =>
           /\ providerInfo'[q] = providerInfo[q]
           /\ IsRegistered(q)' <=> IsRegistered(q)
           /\ IsActiveProvider(q)' <=> IsActiveProvider(q)
           /\ LatestEra(q)' = LatestEra(q)
  BY <1>3, <1>4, <1>5, <1>6 DEF IsRegistered, IsActiveProvider, LatestEra
<1>8. \A e \in Eras : eraState'[e] =
        IF e = c THEN [rewards |-> 0, staked |-> SatAdd(eraState[c].staked, v)]
                 ELSE eraState[e]
  <2> DEFINE new == [rewards |-> 0, staked |-> SatAdd(eraState[c].staked, v)]
  <2>1. EraStateOrDefault(c) = eraState[c]
    BY <1>1 DEF EraStateOrDefault
  <2>2. eraState' = [eraState EXCEPT ![c] = new]
    BY <2>1, <1>1 DEF RegisterProvider
  <2> HIDE DEF new
  <2>3. \A e \in Eras : eraState'[e] = IF e = c THEN new ELSE eraState[e]
    BY <2>2, <1>1 DEF TypeOK
  <2> QED
    BY <2>3 DEF new
<1> QED
  BY <1>1, <1>3, <1>4, <1>6, <1>7, <1>8 DEF info

LEMMA RegisterProviderTotals ==
  ASSUME LedgerInv, Totals, IndInv',
         NEW who \in Accounts, NEW p \in Providers, NEW v \in Amounts,
         RegisterProvider(who, p, v)
  PROVE  Totals'
<1>0. PICK c : c = era.current
  OBVIOUS
<1>1. /\ v \in Nat /\ ~IsRegistered(p) /\ UNCHANGED <<era, delegationInfo>>
      /\ IsRegistered(p)' /\ IsActiveProvider(p)' /\ LatestEra(p)' = c
      /\ \A q \in Providers : q # p =>
           /\ IsRegistered(q)' <=> IsRegistered(q)
           /\ IsActiveProvider(q)' <=> IsActiveProvider(q)
           /\ LatestEra(q)' = LatestEra(q)
      /\ \A q \in Providers, e \in Eras : q # p \/ e # c =>
           providerEraInfo'[q][e] = providerEraInfo[q][e]
      /\ providerEraInfo'[p][c].bond = v /\ providerEraInfo'[p][c].total = v
      /\ providerEraInfo'[p][c].delegator_count = 0
  <2>1. /\ v \in Nat /\ ~IsRegistered(p) /\ UNCHANGED <<era, delegationInfo>>
        /\ IsRegistered(p)' /\ IsActiveProvider(p)' /\ LatestEra(p)' = era.current
    BY RegisterProviderCall
  <2>2. \A q \in Providers : q # p =>
           /\ IsRegistered(q)' <=> IsRegistered(q)
           /\ IsActiveProvider(q)' <=> IsActiveProvider(q)
           /\ LatestEra(q)' = LatestEra(q)
    BY RegisterProviderCall
  <2>3. \A q \in Providers, e \in Eras : q # p \/ e # era.current =>
          providerEraInfo'[q][e] = providerEraInfo[q][e]
    BY RegisterProviderCall
  <2>4. providerEraInfo'[p][era.current] = FirstRecord(v)
    BY FirstRecordWritten DEF LedgerInv, IndInv
  <2>5. FirstRecord(v).bond = v /\ FirstRecord(v).total = v /\ FirstRecord(v).delegator_count = 0
    BY DEF FirstRecord
  <2> QED
    BY <2>1, <2>2, <2>3, <2>4, <2>5, <1>0
<1>2. IndInv /\ Recorded /\ c \in Eras
  BY <1>0, StateTypes DEF LedgerInv, IndInv
<1> SUFFICES ASSUME NEW q \in Providers
             PROVE  ExactFor(q)' /\ \A e \in Eras : CoveredAt(q, e)'
  BY DEF Totals
<1>3. CASE q # p
  <2>1. \A a \in Accounts : StakeOf(a, q)' = StakeOf(a, q)
    BY <1>1 DEF StakeOf
  <2>2. ExactFor(q)'
    BY <2>1, <1>0, <1>1, <1>2, <1>3, ExactKept DEF Totals
  <2>3. ASSUME NEW e \in Eras PROVE CoveredAt(q, e)'
    <3>1. \A a \in Accounts : StakedAt(delegationInfo'[a][q], e)
                                <= StakedAt(delegationInfo[a][q], e)
      BY <1>1, <1>2, StakesType DEF StakesTyped
    <3> QED
      BY <3>1, <1>1, <1>2, <1>3, CoveredKept DEF Totals
  <2> QED
    BY <2>2, <2>3
<1>4. CASE q = p
  <2>1. \A a \in Accounts : StakeOf(a, p)' = 0
    BY <1>1, <1>2 DEF Recorded, StakeOf, LatestStakedValue
  <2>2. \A a \in Accounts : LatestStakes(p)'[a] = 0
    BY <2>1 DEF LatestStakes
  <2>3. LatestOn(p)' = 0
    BY <2>2, FiniteAssumption, SumZero DEF LatestOn
  <2>4. Delegators(p)' = {}
    BY <2>1 DEF Delegators
  <2>5. Cardinality(Delegators(p)') = 0
    BY <2>4, FS_EmptySet
  <2>6. ExactFor(p)'
    BY <2>3, <2>5, <1>0, <1>1 DEF ExactFor
  <2>7. StakedOn(p, c)' = 0
    BY <2>3, <1>0, <1>1, <1>2, StakesTypeNext DEF StakesTyped, Eras
  <2>8. CoveredAt(p, c)'
    BY <2>7, <1>1 DEF CoveredAt
  <2>9. ASSUME NEW e \in Eras, e # c PROVE CoveredAt(p, e)'
    <3>1. providerEraInfo'[p][e] = None
      BY <2>9, <1>1, <1>2 DEF Recorded
    <3> QED
      BY <3>1 DEF CoveredAt
  <2> QED
    BY <2>6, <2>8, <2>9, <1>4
<1> QED
  BY <1>3, <1>4

(* What unregistering changes.                                             *)
LEMMA UnregisterProviderCall ==
  ASSUME LedgerInv, NEW p \in Providers, UnregisterProvider(p)
  PROVE  LET c == era.current
             staked == SatSub(eraState[c].staked, providerEraInfo[p][c].total)
         IN  /\ InBlock /\ IsActiveProvider(p) /\ staked \in Nat
             /\ UNCHANGED <<era, providerEraInfo, delegationInfo, balances>>
             /\ eraState' = UpdateStaked(c, staked)
             /\ IsUnregistered(p)' /\ ~IsActiveProvider(p)' /\ providerInfo'[p].status = c
             /\ \A q \in Providers : /\ IsRegistered(q)' <=> IsRegistered(q)
                                     /\ LatestEra(q)' = LatestEra(q)
             /\ \A q \in Providers : q # p =>
                  /\ providerInfo'[q] = providerInfo[q]
                  /\ IsActiveProvider(q)' <=> IsActiveProvider(q)
<1> DEFINE c == era.current
           staked == SatSub(eraState[c].staked, providerEraInfo[p][c].total)
<1>1. /\ InBlock /\ TypeOK /\ c \in Eras /\ c \in Nat /\ eraState[c].staked \in Nat
      /\ IsActiveProvider(p) /\ providerEraInfo[p][c] \in ProviderEraMetadata
      /\ ProviderEraInfoOrDefault(p, c) = providerEraInfo[p][c]
      /\ LatestEra(p) = c
  BY InCall DEF UnregisterProvider
<1>2. staked \in Nat
  BY <1>1, ArithmeticType DEF ProviderEraMetadata
<1>3. /\ providerInfo' = [providerInfo EXCEPT ![p].status = c]
      /\ eraState' = UpdateStaked(c, staked)
      /\ UNCHANGED <<era, providerEraInfo, delegationInfo, balances>>
  BY <1>1 DEF UnregisterProvider
<1> HIDE DEF staked
<1>4. /\ providerInfo'[p] = [providerInfo[p] EXCEPT !.status = c]
      /\ \A q \in Providers : q # p => providerInfo'[q] = providerInfo[q]
      /\ providerInfo[p] \in ProviderMetadata /\ c # Active
  BY <1>1, <1>3, StateTypes, StakingAssumption DEF TypeOK, IsActiveProvider
<1>5. providerInfo'[p] # None /\ providerInfo'[p].status = c
  <2>1. providerInfo'[p] \in ProviderMetadata
    BY <1>1, <1>4 DEF ProviderMetadata
  <2> QED
    BY <2>1, <1>4, NoneAssumption DEF ProviderMetadata
<1> HIDE DEF c
<1>6. IsUnregistered(p)' /\ ~IsActiveProvider(p)' /\ LatestEra(p)' = c /\ IsRegistered(p)'
  BY <1>4, <1>5 DEF IsActiveProvider, IsUnregistered, IsRegistered, LatestEra
<1>7. \A q \in Providers : q # p => /\ IsActiveProvider(q)' <=> IsActiveProvider(q)
                                    /\ IsRegistered(q)' <=> IsRegistered(q)
                                    /\ LatestEra(q)' = LatestEra(q)
  BY <1>3, <1>4 DEF IsActiveProvider, IsRegistered, LatestEra
<1>8. \A q \in Providers : /\ IsRegistered(q)' <=> IsRegistered(q)
                           /\ LatestEra(q)' = LatestEra(q)
  BY <1>1, <1>6, <1>7 DEF IsActiveProvider
<1> QED
  BY <1>1, <1>2, <1>3, <1>4, <1>5, <1>6, <1>7, <1>8 DEF staked, c

(* What withdrawing a bond changes.                                        *)
LEMMA ProviderWithdrawCall ==
  ASSUME LedgerInv, NEW p \in Providers, ProviderWithdrawUnregistered(p)
  PROVE  /\ UNCHANGED <<era, eraState, providerEraInfo, delegationInfo>>
         /\ \A q \in Providers :
              /\ IsRegistered(q)' <=> IsRegistered(q)
              /\ IsActiveProvider(q)' <=> IsActiveProvider(q)
              /\ LatestEra(q)' = LatestEra(q)
              /\ IsRegistered(q) => providerInfo'[q].status = providerInfo[q].status
<1>1. TypeOK /\ IsUnregistered(p)
  BY DEF LedgerInv, IndInv, ProviderWithdrawUnregistered, UnregisteredUnbonded
<1>2. providerInfo[p] \in ProviderMetadata /\ IsRegistered(p) /\ providerInfo[p].status # Active
  BY <1>1, StateTypes DEF IsUnregistered
<1>3. /\ providerInfo' = [providerInfo EXCEPT ![p].bond_withdrawn = TRUE]
      /\ UNCHANGED <<era, eraState, providerEraInfo, delegationInfo>>
  BY DEF ProviderWithdrawUnregistered
<1>4. /\ providerInfo'[p] = [providerInfo[p] EXCEPT !.bond_withdrawn = TRUE]
      /\ \A q \in Providers : q # p => providerInfo'[q] = providerInfo[q]
  BY <1>1, <1>3 DEF TypeOK
<1>5. providerInfo'[p] # None /\ providerInfo'[p].status = providerInfo[p].status
  <2>1. providerInfo'[p] \in ProviderMetadata
    BY <1>2, <1>4 DEF ProviderMetadata
  <2> QED
    BY <2>1, <1>2, <1>4, NoneAssumption DEF ProviderMetadata
<1>6. \A q \in Providers :
        /\ IsRegistered(q)' <=> IsRegistered(q)
        /\ IsActiveProvider(q)' <=> IsActiveProvider(q)
        /\ LatestEra(q)' = LatestEra(q)
        /\ IsRegistered(q) => providerInfo'[q].status = providerInfo[q].status
  BY <1>2, <1>3, <1>4, <1>5 DEF IsRegistered, IsActiveProvider, LatestEra
<1> QED
  BY <1>3, <1>6

(* Steps on one provider that only make stakes smaller, and not those on   *)
(* active providers.                                                       *)
LEMMA StakesShrinkTotals ==
  ASSUME IndInv, IndInv', Totals, era'.current = era.current,
         UNCHANGED providerEraInfo,
         \A q \in Providers : /\ IsRegistered(q)' <=> IsRegistered(q)
                              /\ IsActiveProvider(q)' => IsActiveProvider(q)
                              /\ LatestEra(q)' = LatestEra(q),
         \A q \in Providers, a \in Accounts, e \in Eras :
           StakedAt(delegationInfo'[a][q], e) <= StakedAt(delegationInfo[a][q], e),
         \A q \in Providers, a \in Accounts :
           IsActiveProvider(q)' => StakeOf(a, q)' = StakeOf(a, q)
  PROVE  Totals'
<1> SUFFICES ASSUME NEW q \in Providers
             PROVE  ExactFor(q)' /\ \A e \in Eras : CoveredAt(q, e)'
  BY DEF Totals
<1>1. ExactFor(q)'
  BY ExactKept DEF Totals
<1>2. ASSUME NEW e \in Eras PROVE CoveredAt(q, e)'
  BY CoveredKept DEF Totals
<1> QED
  BY <1>1, <1>2

LEMMA OtherTotals ==
  ASSUME LedgerInv, Totals, IndInv', NEW p \in Providers,
         \/ \E e \in Eras : ClaimProvider(p, e)
         \/ \E a \in Accounts : ClaimDelegator(a, p) \/ DelegatorWithdrawUnregistered(a, p)
         \/ ProviderWithdrawUnregistered(p)
         \/ UnregisterProvider(p)
  PROVE  Totals'
<1>1. /\ TypeOK /\ IndInv
      /\ \A q \in Providers, a \in Accounts, e \in Eras :
           StakedAt(delegationInfo[a][q], e) \in Nat
      /\ \A a \in Accounts, q \in Providers : delegationInfo[a][q] \in Seq(EraStake)
  BY StakesType DEF LedgerInv, IndInv, StakesTyped, TypeOK
<1>2. ASSUME NEW f \in Eras, ClaimProvider(p, f)
      PROVE  Totals'
  <2> DEFINE old == providerEraInfo[p][f]
             info == [old EXCEPT !.provider_reward_claimed = TRUE]
  <2>1. /\ old # None /\ info # None
        /\ info.bond = old.bond /\ info.total = old.total
        /\ info.delegator_count = old.delegator_count
        /\ providerEraInfo' = [providerEraInfo EXCEPT ![p][f] = info]
        /\ UNCHANGED <<era, providerInfo, delegationInfo>>
    BY <1>2, ClaimProviderCall
  <2> HIDE DEF info
  <2>2. \A q \in Providers, e \in Eras :
          providerEraInfo'[q][e] = IF q = p /\ e = f THEN info ELSE providerEraInfo[q][e]
    BY <2>1, <1>1 DEF TypeOK
  <2>3. \A q \in Providers, e \in Eras :
          /\ providerEraInfo'[q][e] # None => providerEraInfo[q][e] # None
          /\ providerEraInfo'[q][e].total = providerEraInfo[q][e].total
          /\ providerEraInfo'[q][e].bond = providerEraInfo[q][e].bond
          /\ providerEraInfo'[q][e].delegator_count = providerEraInfo[q][e].delegator_count
    BY <2>1, <2>2
  <2>4. \A q \in Providers : /\ IsRegistered(q)' <=> IsRegistered(q)
                             /\ IsActiveProvider(q)' <=> IsActiveProvider(q)
                             /\ LatestEra(q)' = LatestEra(q)
                             /\ \A a \in Accounts : StakeOf(a, q)' = StakeOf(a, q)
    BY <2>1 DEF IsRegistered, IsActiveProvider, LatestEra, StakeOf
  <2> SUFFICES ASSUME NEW q \in Providers
               PROVE  ExactFor(q)' /\ \A e \in Eras : CoveredAt(q, e)'
    BY DEF Totals
  <2>5. ExactFor(q)'
    BY <2>1, <2>3, <2>4, <1>1, StateTypes, ExactKept DEF Totals
  <2>6. ASSUME NEW e \in Eras PROVE CoveredAt(q, e)'
    <3>1. \A a \in Accounts : StakedAt(delegationInfo'[a][q], e)
                                <= StakedAt(delegationInfo[a][q], e)
      BY <2>1, <1>1
    <3> QED
      BY <3>1, <2>3, <2>4, <1>1, CoveredKept DEF Totals
  <2> QED
    BY <2>5, <2>6
<1>3. ASSUME NEW who \in Accounts, ClaimDelegator(who, p)
      PROVE  Totals'
  <2> DEFINE vector == delegationInfo[who][p]
             stakes == Claim(vector)
  <2>1. /\ LatestStakedValue(stakes) = StakeOf(who, p)
        /\ \A f \in Nat : StakedAt(stakes, f) =
             IF f = vector[1].era THEN 0 ELSE StakedAt(vector, f)
        /\ delegationInfo' = [delegationInfo EXCEPT ![who][p] = stakes]
        /\ UNCHANGED <<era, providerInfo, providerEraInfo>>
    BY <1>3, ClaimDelegatorCall
  <2> HIDE DEF stakes
  <2>2. \A q \in Providers, a \in Accounts :
          delegationInfo'[a][q] = IF a = who /\ q = p THEN stakes ELSE delegationInfo[a][q]
    BY <2>1, <1>1 DEF TypeOK
  <2>3. \A q \in Providers, a \in Accounts : StakeOf(a, q)' = StakeOf(a, q)
    BY <2>1, <2>2 DEF StakeOf
  <2>4. \A q \in Providers, a \in Accounts, e \in Eras :
          StakedAt(delegationInfo'[a][q], e) <= StakedAt(delegationInfo[a][q], e)
    BY <2>1, <2>2, <1>1 DEF Eras
  <2>5. \A q \in Providers : /\ IsRegistered(q)' <=> IsRegistered(q)
                             /\ IsActiveProvider(q)' => IsActiveProvider(q)
                             /\ LatestEra(q)' = LatestEra(q)
    BY <2>1 DEF IsRegistered, IsActiveProvider, LatestEra
  <2> QED
    BY <2>1, <2>3, <2>4, <2>5, <1>1, StakesShrinkTotals
<1>4. ASSUME NEW who \in Accounts, DelegatorWithdrawUnregistered(who, p)
      PROVE  Totals'
  <2>1. /\ delegationInfo' = [delegationInfo EXCEPT ![who][p] = <<>>]
        /\ UNCHANGED <<era, providerInfo, providerEraInfo>>
        /\ ~IsActiveProvider(p)
    BY <1>4 DEF DelegatorWithdrawUnregistered, UnregisteredUnbonded, IsUnregistered,
                IsActiveProvider
  <2>2. \A q \in Providers, a \in Accounts :
          delegationInfo'[a][q] = IF a = who /\ q = p THEN <<>> ELSE delegationInfo[a][q]
    BY <2>1, <1>1 DEF TypeOK
  <2>3. \A e \in Eras : StakedAt(<<>>, e) = 0
    BY DEF StakedAt
  <2>4. \A q \in Providers, a \in Accounts, e \in Eras :
          StakedAt(delegationInfo'[a][q], e) <= StakedAt(delegationInfo[a][q], e)
    BY <2>2, <2>3, <1>1
  <2>5. \A q \in Providers : /\ IsRegistered(q)' <=> IsRegistered(q)
                             /\ IsActiveProvider(q)' <=> IsActiveProvider(q)
                             /\ LatestEra(q)' = LatestEra(q)
    BY <2>1 DEF IsRegistered, IsActiveProvider, LatestEra
  <2>6. \A q \in Providers, a \in Accounts :
          IsActiveProvider(q)' => StakeOf(a, q)' = StakeOf(a, q)
    BY <2>1, <2>2, <2>5 DEF StakeOf
  <2> QED
    BY <2>1, <2>4, <2>5, <2>6, <1>1, StakesShrinkTotals
<1>5. CASE ProviderWithdrawUnregistered(p) \/ UnregisterProvider(p)
  <2>1. /\ UNCHANGED <<era, providerEraInfo, delegationInfo>>
        /\ \A q \in Providers : /\ IsRegistered(q)' <=> IsRegistered(q)
                                /\ IsActiveProvider(q)' => IsActiveProvider(q)
                                /\ LatestEra(q)' = LatestEra(q)
    BY <1>5, ProviderWithdrawCall, UnregisterProviderCall
  <2>2. \A q \in Providers, a \in Accounts, e \in Eras :
          StakedAt(delegationInfo'[a][q], e) <= StakedAt(delegationInfo[a][q], e)
    BY <2>1, <1>1
  <2>3. \A q \in Providers, a \in Accounts : StakeOf(a, q)' = StakeOf(a, q)
    BY <2>1 DEF StakeOf
  <2> QED
    BY <2>1, <2>2, <2>3, <1>1, StakesShrinkTotals
<1> QED
  BY <1>2, <1>3, <1>4, <1>5

LEMMA NextTotals ==
  ASSUME LedgerInv, Totals, [Next]_vars, AmountsFit
  PROVE  Totals'
<1>1. IndInv /\ IndInv'
  BY NextIndInv DEF LedgerInv
<1>2. CASE StartEra
  BY <1>1, <1>2, StartEraTotals
<1>3. CASE \/ ContinueEra
           \/ \E new \in EraLengths : SetBlocksPerEra(new)
           \/ \E a \in Accounts : WithdrawUnbonded(a)
           \/ \E v \in Rewards : HandleImbalance(v)
           \/ UNCHANGED vars
  <2>1. /\ UNCHANGED <<providerInfo, providerEraInfo, delegationInfo>>
        /\ era' = era \/ \E new \in EraLengths : era' = [era EXCEPT !.length = new]
    BY <1>3 DEF ContinueEra, SetBlocksPerEra, WithdrawUnbonded, HandleImbalance,
                stakingVars, vars
  <2>2. era'.current = era.current
    BY <2>1, <1>1 DEF IndInv, TypeOK, EraInfo
  <2> QED
    BY <2>1, <2>2, <1>1, TotalsFrame
<1>4. ASSUME NEW a \in Accounts, NEW p \in Providers, NEW v \in Amounts,
             \/ RegisterProvider(a, p, v)
             \/ ProviderBondMore(a, p, v)
             \/ ProviderBondLess(a, p, v)
             \/ Delegate(a, p, v)
             \/ DelegatorUnstake(a, p, v)
      PROVE  Totals'
  BY <1>1, <1>4, RegisterProviderTotals, BondCallTotals, DelegateTotals, DelegatorUnstakeTotals
<1>5. ASSUME NEW p \in Providers,
             \/ \E e \in Eras : ClaimProvider(p, e)
             \/ \E a \in Accounts : ClaimDelegator(a, p) \/ DelegatorWithdrawUnregistered(a, p)
             \/ ProviderWithdrawUnregistered(p)
             \/ UnregisterProvider(p)
      PROVE  Totals'
  BY <1>1, <1>5, OtherTotals
<1> QED
  BY <1>2, <1>3, <1>4, <1>5 DEF Next

LEMMA TotalsAreProviderTotals ==
  ASSUME LedgerInv, Totals
  PROVE  ProviderTotals
<1> SUFFICES ASSUME NEW p \in Providers, IsRegistered(p),
                    NEW e \in 0..LatestEra(p), providerEraInfo[p][e] # None
             PROVE  LET info   == providerEraInfo[p][e]
                        staked == SumOver(Accounts,
                                          LAMBDA a : StakedAt(delegationInfo[a][p], e))
                    IN  /\ info.total >= info.bond + staked
                        /\ e = era.current /\ IsActiveProvider(p) =>
                             /\ info.total = info.bond + staked
                             /\ info.delegator_count =
                                  Cardinality({a \in Accounts :
                                    LatestStakedValue(delegationInfo[a][p]) > 0})
  BY DEF ProviderTotals
<1>1. SumOver(Accounts, LAMBDA a : StakedAt(delegationInfo[a][p], e)) = StakedOn(p, e)
  BY DEF SumOver, StakedOn, StakesAt
<1>2. {a \in Accounts : LatestStakedValue(delegationInfo[a][p]) > 0} = Delegators(p)
  BY DEF Delegators, StakeOf
<1>3. e \in Eras /\ e <= LatestEra(p)
  BY HeldType, StakingAssumption DEF LedgerInv, IndInv, HeldTyped, Eras
<1>4. providerEraInfo[p][e].total >= providerEraInfo[p][e].bond + StakedOn(p, e)
  BY <1>3 DEF Totals, CoveredAt
<1>5. ASSUME e = era.current, IsActiveProvider(p)
      PROVE  /\ providerEraInfo[p][e].total = providerEraInfo[p][e].bond + StakedOn(p, e)
             /\ providerEraInfo[p][e].delegator_count = Cardinality(Delegators(p))
  <2>1. StakedOn(p, e) = LatestOn(p)
    <3>1. StakesTyped /\ e \in Nat
      BY <1>3, StakesType DEF LedgerInv, Eras
    <3> QED
      BY <3>1, <1>3, <1>5 DEF StakesTyped
  <2> QED
    BY <2>1, <1>5 DEF Totals, ExactFor
<1> QED
  BY <1>1, <1>2, <1>4, <1>5

(* A provider's total in an era covers its bond and the stakes that are    *)
(* not claimed yet, and in the current era it is their sum.                *)
THEOREM ProviderTotalsKept ==
  ASSUME IssuanceFits, AmountsFit
  PROVE  Spec => []ProviderTotals
<1>1. PalletInv /\ Totals /\ [Next]_vars => (PalletInv /\ Totals)'
  BY NextPalletInv, NextTotals DEF PalletInv
<1>2. PalletInv /\ Totals => ProviderTotals
  BY TotalsAreProviderTotals DEF PalletInv
<1>3. Init => PalletInv /\ Totals
  BY InitPalletInv, InitTotals
<1> QED
  BY <1>1, <1>2, <1>3, PTL DEF Spec

----------------------------------------------------------------------------
(* The minimum stakes                                                      *)

(* A step that leaves the bonds and the stakes as they were or makes them  *)
(* none.                                                                   *)
LEMMA MinimumFrame ==
  ASSUME MinimumStakes,
         \A q \in Providers : IsActiveProvider(q)' =>
           /\ IsActiveProvider(q)
           /\ ProviderEraInfoOrDefault(q, era.current)'.bond =
                ProviderEraInfoOrDefault(q, era.current).bond,
         \A q \in Providers, a \in Accounts :
           StakeOf(a, q)' = StakeOf(a, q) \/ StakeOf(a, q)' = 0
  PROVE  MinimumStakes'
<1>1. ASSUME NEW q \in Providers, IsActiveProvider(q)'
      PROVE  ProviderEraInfoOrDefault(q, era.current)'.bond >= MinProviderStake
  BY <1>1 DEF MinimumStakes
<1>2. ASSUME NEW q \in Providers, NEW a \in Accounts, StakeOf(a, q)' > 0
      PROVE  StakeOf(a, q)' >= MinDelegatorStake
  BY <1>2 DEF MinimumStakes, StakeOf
<1> QED
  BY <1>1, <1>2 DEF MinimumStakes, StakeOf

LEMMA StakeCallMinimum ==
  ASSUME LedgerInv, MinimumStakes, NEW who \in Accounts, NEW p \in Providers,
         NEW info \in ProviderEraMetadata, NEW staked \in Nat,
         NEW stakes \in Seq(EraStake),
         StakeCall(who, p, info, staked, stakes),
         info.bond >= MinProviderStake,
         LatestStakedValue(stakes) > 0 => LatestStakedValue(stakes) >= MinDelegatorStake
  PROVE  MinimumStakes'
<1>1. TypeOK /\ era.current \in Eras /\ info # None
  BY InCall, NoneAssumption DEF StakeCall
<1>2. /\ providerEraInfo' = [providerEraInfo EXCEPT ![p][era.current] = info]
      /\ delegationInfo' = [delegationInfo EXCEPT ![who][p] = stakes]
      /\ UNCHANGED <<era, providerInfo>>
  BY DEF StakeCall
<1>3. \A q \in Providers : IsActiveProvider(q)' <=> IsActiveProvider(q)
  BY <1>2 DEF IsActiveProvider, IsRegistered
<1>4. ASSUME NEW q \in Providers, IsActiveProvider(q)'
      PROVE  ProviderEraInfoOrDefault(q, era.current)'.bond >= MinProviderStake
  <2>1. CASE q = p
    <3>1. providerEraInfo'[p][era.current] = info
      BY <1>1, <1>2 DEF TypeOK
    <3> QED
      BY <2>1, <3>1, <1>1, <1>2 DEF ProviderEraInfoOrDefault
  <2>2. CASE q # p
    <3>1. providerEraInfo'[q] = providerEraInfo[q]
      BY <1>1, <1>2, <2>2 DEF TypeOK
    <3> QED
      BY <3>1, <1>2, <1>3, <1>4 DEF ProviderEraInfoOrDefault, MinimumStakes
  <2> QED
    BY <2>1, <2>2
<1>5. ASSUME NEW q \in Providers, NEW a \in Accounts,
             LatestStakedValue(delegationInfo'[a][q]) > 0
      PROVE  LatestStakedValue(delegationInfo'[a][q]) >= MinDelegatorStake
  <2>1. delegationInfo'[a][q] = IF a = who /\ q = p THEN stakes ELSE delegationInfo[a][q]
    BY <1>1, <1>2 DEF TypeOK
  <2> QED
    BY <2>1, <1>5 DEF MinimumStakes
<1> QED
  BY <1>4, <1>5 DEF MinimumStakes

LEMMA CallMinimum ==
  ASSUME LedgerInv, MinimumStakes, AmountsFit,
         NEW who \in Accounts, NEW p \in Providers, NEW v \in Amounts,
         \/ ProviderBondMore(who, p, v)
         \/ ProviderBondLess(who, p, v)
         \/ Delegate(who, p, v)
         \/ DelegatorUnstake(who, p, v)
  PROVE  MinimumStakes'
<1> DEFINE old == providerEraInfo[p][era.current]
           vector == delegationInfo[who][p]
<1>1. /\ vector \in Seq(EraStake) /\ LatestStakedValue(vector) = StakeOf(who, p)
      /\ LatestStakedValue(vector) > 0 => LatestStakedValue(vector) >= MinDelegatorStake
      /\ MinProviderStake \in Nat
  BY StakingAssumption DEF LedgerInv, IndInv, TypeOK, StakeOf, MinimumStakes
<1>2. ASSUME InBlock, IsActiveProvider(p)
      PROVE  old.bond >= MinProviderStake /\ old.bond \in Nat
  <2>1. /\ ProviderEraInfoOrDefault(p, era.current) = old /\ old \in ProviderEraMetadata
    BY <1>2, InCall
  <2> QED
    BY <2>1, <1>2 DEF MinimumStakes, ProviderEraMetadata
<1>3. CASE ProviderBondMore(who, p, v)
  <2> DEFINE info == BondedMore(old, v)
             staked == SatAdd(eraState[era.current].staked, v)
  <2>1. /\ v \in Nat /\ info \in ProviderEraMetadata /\ info.bond = old.bond + v
        /\ staked \in Nat /\ StakeCall(who, p, info, staked, vector)
    BY <1>3, ProviderBondMoreCall
  <2>2. info.bond >= MinProviderStake
    <3>1. old.bond >= MinProviderStake /\ old.bond \in Nat
      BY <2>1, <1>2 DEF StakeCall
    <3> HIDE DEF info, old
    <3> QED
      BY <3>1, <2>1, <1>1
  <2> HIDE DEF info, staked
  <2> QED
    BY <2>1, <2>2, <1>1, StakeCallMinimum
<1>4. CASE ProviderBondLess(who, p, v)
  <2> DEFINE info == BondedLess(old, v)
             staked == SatSub(eraState[era.current].staked, v)
  <2>1. /\ v \in Nat /\ info \in ProviderEraMetadata
        /\ v + MinProviderStake <= old.bond /\ info.bond = old.bond - v
        /\ staked \in Nat /\ StakeCall(who, p, info, staked, vector)
    BY <1>4, ProviderBondLessCall
  <2>2. info.bond >= MinProviderStake
    <3>1. old.bond \in Nat
      BY <2>1, <1>2 DEF StakeCall
    <3> HIDE DEF info, old
    <3> QED
      BY <3>1, <2>1, <1>1
  <2> HIDE DEF info, staked
  <2> QED
    BY <2>1, <2>2, <1>1, StakeCallMinimum
<1>5. CASE Delegate(who, p, v)
  <2> DEFINE info == Delegated(old, StakeOf(who, p), v)
             staked == SatAdd(eraState[era.current].staked, v)
             stakes == Stake(vector, era.current, v)
  <2>1. /\ info \in ProviderEraMetadata /\ info.bond = old.bond
        /\ staked \in Nat /\ stakes \in Seq(EraStake)
        /\ LatestStakedValue(stakes) >= MinDelegatorStake
        /\ StakeCall(who, p, info, staked, stakes)
    BY <1>5, DelegateCall
  <2> HIDE DEF info, staked, stakes
  <2>2. info.bond >= MinProviderStake
    BY <2>1, <1>2 DEF StakeCall
  <2> QED
    BY <2>1, <2>2, StakeCallMinimum
<1>6. CASE DelegatorUnstake(who, p, v)
  <2> DEFINE latest == StakeOf(who, p)
             amount == UnstakeAmount(latest, v)
             info == Unstaked(old, latest, v)
             staked == SatSub(eraState[era.current].staked, amount)
             stakes == Unstake(vector, era.current, amount)
  <2>1. /\ latest \in Nat /\ amount \in Nat
        /\ UnstakesAll(latest, v) => amount = latest
        /\ ~UnstakesAll(latest, v) => latest - amount >= MinDelegatorStake
        /\ info \in ProviderEraMetadata /\ info.bond = old.bond
        /\ staked \in Nat /\ stakes \in Seq(EraStake)
        /\ LatestStakedValue(stakes) = latest - amount
        /\ StakeCall(who, p, info, staked, stakes)
    BY <1>6, DelegatorUnstakeCall
  <2> HIDE DEF info, staked, stakes, amount
  <2>2. info.bond >= MinProviderStake
    BY <2>1, <1>2 DEF StakeCall
  <2>3. LatestStakedValue(stakes) > 0 => LatestStakedValue(stakes) >= MinDelegatorStake
    <3> HIDE DEF latest
    <3> QED
      BY <2>1
  <2> QED
    BY <2>1, <2>2, <2>3, StakeCallMinimum
<1> QED
  BY <1>3, <1>4, <1>5, <1>6

LEMMA NextMinimum ==
  ASSUME LedgerInv, MinimumStakes, [Next]_vars, AmountsFit
  PROVE  MinimumStakes'
<1>1. TypeOK /\ era.current \in Eras
  BY StateTypes DEF LedgerInv, IndInv
<1>2. CASE StartEra
  <2>1. /\ era.current + 1 \in Eras /\ era'.current = era.current + 1
        /\ delegationInfo' = delegationInfo
        /\ \A q \in Providers : IsActiveProvider(q)' <=> IsActiveProvider(q)
        /\ \A q \in Providers : IsActiveProvider(q) =>
             /\ providerEraInfo[q][era.current] # None
             /\ providerEraInfo'[q][era.current + 1] # None
             /\ providerEraInfo'[q][era.current + 1].bond = providerEraInfo[q][era.current].bond
    BY <1>2, StartEraCall
  <2>2. \A q \in Providers : IsActiveProvider(q)' =>
          /\ IsActiveProvider(q)
          /\ ProviderEraInfoOrDefault(q, era.current)'.bond =
               ProviderEraInfoOrDefault(q, era.current).bond
    BY <2>1 DEF ProviderEraInfoOrDefault
  <2>3. \A q \in Providers, a \in Accounts : StakeOf(a, q)' = StakeOf(a, q)
    BY <2>1, StakeFrame
  <2> QED
    BY <2>2, <2>3, MinimumFrame
<1>3. CASE \/ ContinueEra
           \/ \E new \in EraLengths : SetBlocksPerEra(new)
           \/ \E a \in Accounts : WithdrawUnbonded(a)
           \/ \E v \in Rewards : HandleImbalance(v)
           \/ UNCHANGED vars
  <2>1. /\ UNCHANGED <<providerInfo, providerEraInfo, delegationInfo>>
        /\ era' = era \/ \E new \in EraLengths : era' = [era EXCEPT !.length = new]
    BY <1>3 DEF ContinueEra, SetBlocksPerEra, WithdrawUnbonded, HandleImbalance,
                stakingVars, vars
  <2>2. era'.current = era.current
    BY <2>1, <1>1 DEF TypeOK, EraInfo
  <2> QED
    BY <2>1, <2>2 DEF MinimumStakes, ProviderEraInfoOrDefault, IsActiveProvider, IsRegistered
<1>4. ASSUME NEW who \in Accounts, NEW p \in Providers, NEW v \in Amounts,
             RegisterProvider(who, p, v)
      PROVE  MinimumStakes'
  <2>1. /\ v \in Nat /\ v >= MinProviderStake /\ UNCHANGED <<era, delegationInfo>>
        /\ \A q \in Providers : q # p =>
             /\ IsActiveProvider(q)' <=> IsActiveProvider(q)
             /\ providerEraInfo'[q][era.current] = providerEraInfo[q][era.current]
        /\ FirstRecord(v) # None
    BY <1>1, <1>4, RegisterProviderCall, ZenonT(60)
  <2>2. providerEraInfo'[p][era.current] = FirstRecord(v) /\ FirstRecord(v).bond = v
    BY <1>1, <1>4, FirstRecordWritten DEF FirstRecord
  <2>3. ASSUME NEW q \in Providers, IsActiveProvider(q)'
        PROVE  ProviderEraInfoOrDefault(q, era.current)'.bond >= MinProviderStake
    BY <2>1, <2>2, <2>3 DEF ProviderEraInfoOrDefault, MinimumStakes
  <2>4. \A a \in Accounts, q \in Providers :
          LatestStakedValue(delegationInfo'[a][q]) > 0 =>
            LatestStakedValue(delegationInfo'[a][q]) >= MinDelegatorStake
    BY <2>1 DEF MinimumStakes
  <2> QED
    BY <2>3, <2>4 DEF MinimumStakes
<1>5. ASSUME NEW a \in Accounts, NEW p \in Providers, NEW v \in Amounts,
             \/ ProviderBondMore(a, p, v)
             \/ ProviderBondLess(a, p, v)
             \/ Delegate(a, p, v)
             \/ DelegatorUnstake(a, p, v)
      PROVE  MinimumStakes'
  BY <1>5, CallMinimum
<1>6. ASSUME NEW p \in Providers, NEW f \in Eras, ClaimProvider(p, f)
      PROVE  MinimumStakes'
  <2> DEFINE info == [providerEraInfo[p][f] EXCEPT !.provider_reward_claimed = TRUE]
  <2>1. /\ f < era.current
        /\ providerEraInfo' = [providerEraInfo EXCEPT ![p][f] = info]
        /\ UNCHANGED <<era, providerInfo, delegationInfo>>
    BY <1>6, ClaimProviderCall
  <2> HIDE DEF info
  <2>2. \A q \in Providers : providerEraInfo'[q][era.current] = providerEraInfo[q][era.current]
    <3>1. f # era.current
      BY <1>1, <2>1 DEF Eras
    <3> QED
      BY <3>1, <1>1, <2>1 DEF TypeOK
  <2> QED
    BY <2>1, <2>2 DEF MinimumStakes, ProviderEraInfoOrDefault, IsActiveProvider, IsRegistered
<1>7. ASSUME NEW who \in Accounts, NEW p \in Providers,
             ClaimDelegator(who, p) \/ DelegatorWithdrawUnregistered(who, p)
      PROVE  MinimumStakes'
  <2>1. PICK stakes : /\ delegationInfo' = [delegationInfo EXCEPT ![who][p] = stakes]
                      /\ \/ LatestStakedValue(stakes) = StakeOf(who, p)
                         \/ LatestStakedValue(stakes) = 0
                      /\ UNCHANGED <<era, providerInfo, providerEraInfo>>
    <3>1. CASE ClaimDelegator(who, p)
      BY <3>1, ClaimDelegatorCall
    <3>2. CASE DelegatorWithdrawUnregistered(who, p)
      <4>1. LatestStakedValue(<<>>) = 0
        BY DEF LatestStakedValue
      <4> QED
        BY <3>2, <4>1 DEF DelegatorWithdrawUnregistered
    <3> QED
      BY <1>7, <3>1, <3>2
  <2>2. \A q \in Providers, a \in Accounts :
          StakeOf(a, q)' = StakeOf(a, q) \/ StakeOf(a, q)' = 0
    BY <2>1, <1>1 DEF TypeOK, StakeOf
  <2>3. \A q \in Providers : IsActiveProvider(q)' =>
          /\ IsActiveProvider(q)
          /\ ProviderEraInfoOrDefault(q, era.current)'.bond =
               ProviderEraInfoOrDefault(q, era.current).bond
    BY <2>1 DEF ProviderEraInfoOrDefault, IsActiveProvider, IsRegistered
  <2> QED
    BY <2>2, <2>3, MinimumFrame
<1>8. ASSUME NEW p \in Providers, ProviderWithdrawUnregistered(p) \/ UnregisterProvider(p)
      PROVE  MinimumStakes'
  <2>1. /\ UNCHANGED <<era, providerEraInfo, delegationInfo>>
        /\ \A q \in Providers : IsActiveProvider(q)' => IsActiveProvider(q)
    BY <1>8, ProviderWithdrawCall, UnregisterProviderCall
  <2> QED
    BY <2>1 DEF MinimumStakes, ProviderEraInfoOrDefault
<1> QED
  BY <1>2, <1>3, <1>4, <1>5, <1>6, <1>7, <1>8 DEF Next

(* No sequence of calls leaves an active provider or a delegator with      *)
(* less than the minimum.                                                  *)
THEOREM MinimumStakesKept ==
  ASSUME IssuanceFits, AmountsFit
  PROVE  Spec => []MinimumStakes
<1>1. PalletInv /\ MinimumStakes /\ [Next]_vars => (PalletInv /\ MinimumStakes)'
  BY NextPalletInv, NextMinimum DEF PalletInv
<1>2. Init => MinimumStakes
  BY DEF Init, MinimumStakes, IsActiveProvider, IsRegistered, LatestStakedValue
<1>3. Init => PalletInv
  BY InitPalletInv
<1> QED
  BY <1>1, <1>2, <1>3, PTL DEF Spec

----------------------------------------------------------------------------
(* The total stake of an era                                               *)

(* What a provider adds to the total stake of an era.                      *)
CountedOf(p, e) == IF CountedIn(p, e) THEN providerEraInfo[p][e].total ELSE 0

CountedTotals(e) == [p \in Providers |-> CountedOf(p, e)]

CountedSum(e) == SumFunctionOnSet(CountedTotals(e), Providers)

EraSums == \A e \in Eras : eraState[e] # None => eraState[e].staked = CountedSum(e)

CountedTyped ==
  \A e \in Eras : /\ \A p \in Providers : /\ CountedTotals(e)[p] = CountedOf(p, e)
                                          /\ CountedOf(p, e) \in Nat
                                          /\ CountedOf(p, e) <= CountedSum(e)
                  /\ CountedSum(e) \in Nat

LEMMA CountedType == TypeOK => CountedTyped
<1> SUFFICES ASSUME TypeOK, NEW e \in Eras
             PROVE  /\ \A p \in Providers : /\ CountedTotals(e)[p] = CountedOf(p, e)
                                            /\ CountedOf(p, e) \in Nat
                                            /\ CountedOf(p, e) <= CountedSum(e)
                    /\ CountedSum(e) \in Nat
  BY DEF CountedTyped
<1>1. ASSUME NEW p \in Providers PROVE CountedOf(p, e) \in Nat
  <2>1. CASE CountedIn(p, e)
    <3>1. providerEraInfo[p][e] \in ProviderEraMetadata
      BY <2>1 DEF CountedIn, TypeOK
    <3> QED
      BY <3>1, <2>1 DEF CountedOf, ProviderEraMetadata
  <2>2. CASE ~CountedIn(p, e)
    BY <2>2 DEF CountedOf
  <2> QED
    BY <2>1, <2>2
<1>2. \A p \in Providers : CountedTotals(e)[p] = CountedOf(p, e) /\ CountedTotals(e)[p] \in Nat
  BY <1>1 DEF CountedTotals
<1>3. /\ CountedSum(e) \in Nat
      /\ \A p \in Providers : CountedTotals(e)[p] <= CountedSum(e)
  BY <1>2, FiniteAssumption, SumNat DEF CountedSum
<1> QED
  BY <1>2, <1>3

LEMMA CountedTypeNext == TypeOK' => CountedTyped'
BY CountedType, PTL

LEMMA CountedStep ==
  ASSUME TypeOK, TypeOK', NEW e \in Eras
  PROVE  /\ (\A q \in Providers : CountedOf(q, e)' = CountedOf(q, e)) =>
              CountedSum(e)' = CountedSum(e)
         /\ \A p \in Providers :
              (\A q \in Providers : q # p => CountedOf(q, e)' = CountedOf(q, e)) =>
                CountedSum(e)' = CountedSum(e) - CountedOf(p, e) + CountedOf(p, e)'
<1> DEFINE C == CountedTotals(e)
           C2 == CountedTotals(e)'
<1>1. \A q \in Providers : C[q] = CountedOf(q, e) /\ C[q] \in Int
  BY CountedType DEF CountedTyped
<1>2. \A q \in Providers : C2[q] = CountedOf(q, e)' /\ C2[q] \in Int
  BY CountedTypeNext DEF CountedTyped
<1>3. CountedSum(e) = SumFunctionOnSet(C, Providers) /\ CountedSum(e)' = SumFunctionOnSet(C2, Providers)
  BY DEF CountedSum
<1> HIDE DEF C, C2
<1>4. ASSUME \A q \in Providers : CountedOf(q, e)' = CountedOf(q, e)
      PROVE  CountedSum(e)' = CountedSum(e)
  <2>1. \A q \in Providers : C2[q] = C[q]
    BY <1>1, <1>2, <1>4
  <2> QED
    BY <2>1, <1>3, FiniteAssumption, SumEqual
<1>5. ASSUME NEW p \in Providers,
             \A q \in Providers : q # p => CountedOf(q, e)' = CountedOf(q, e)
      PROVE  CountedSum(e)' = CountedSum(e) - CountedOf(p, e) + CountedOf(p, e)'
  <2>1. \A q \in Providers : q # p => C2[q] = C[q]
    BY <1>1, <1>2, <1>5
  <2>2. SumFunctionOnSet(C2, Providers) = SumFunctionOnSet(C, Providers) - C[p] + C2[p]
    BY <2>1, <1>1, <1>2, FiniteAssumption, SumChange
  <2> QED
    BY <2>2, <1>1, <1>2, <1>3
<1> QED
  BY <1>4, <1>5

(* Which providers take part in an era is left alone.                      *)
LEMMA EraSumsFrame ==
  ASSUME TypeOK, TypeOK', EraSums,
         \A e \in Eras : eraState'[e] # None =>
           /\ eraState[e] # None /\ eraState'[e].staked = eraState[e].staked
           /\ \A q \in Providers : CountedOf(q, e)' = CountedOf(q, e)
  PROVE  EraSums'
<1> SUFFICES ASSUME NEW e \in Eras, eraState'[e] # None
             PROVE  eraState'[e].staked = CountedSum(e)'
  BY DEF EraSums
<1>1. CountedSum(e)' = CountedSum(e)
  BY CountedStep
<1> QED
  BY <1>1 DEF EraSums

(* One provider changes in one era, and the era's total stake with it.     *)
LEMMA EraSumsStep ==
  ASSUME TypeOK, TypeOK', EraSums, NEW c \in Eras, NEW p \in Providers,
         eraState[c] # None,
         eraState'[c].staked = eraState[c].staked - CountedOf(p, c) + CountedOf(p, c)',
         \A q \in Providers : q # p => CountedOf(q, c)' = CountedOf(q, c),
         \A e \in Eras : e # c /\ eraState'[e] # None =>
           /\ eraState'[e] = eraState[e]
           /\ \A q \in Providers : CountedOf(q, e)' = CountedOf(q, e)
  PROVE  EraSums'
<1> SUFFICES ASSUME NEW e \in Eras, eraState'[e] # None
             PROVE  eraState'[e].staked = CountedSum(e)'
  BY DEF EraSums
<1>1. CASE e = c
  <2>1. CountedSum(c)' = CountedSum(c) - CountedOf(p, c) + CountedOf(p, c)'
    BY CountedStep
  <2> QED
    BY <2>1, <1>1 DEF EraSums
<1>2. CASE e # c
  <2>1. CountedSum(e)' = CountedSum(e)
    BY <1>2, CountedStep
  <2> QED
    BY <2>1, <1>2 DEF EraSums
<1> QED
  BY <1>1, <1>2

LEMMA UpdateStakedEffect ==
  ASSUME TypeOK, NEW c \in Eras, eraState[c] # None, NEW staked \in Nat,
         eraState' = UpdateStaked(c, staked)
  PROVE  /\ \A e \in Eras : e # c => eraState'[e] = eraState[e]
         /\ eraState'[c].staked = staked
<1>1. eraState[c] \in EraMetadata
  BY DEF TypeOK
<1>2. eraState' = [eraState EXCEPT ![c] = [eraState[c] EXCEPT !.staked = staked]]
  BY DEF UpdateStaked
<1>3. [eraState[c] EXCEPT !.staked = staked].staked = staked
  BY <1>1 DEF EraMetadata
<1> QED
  BY <1>2, <1>3 DEF TypeOK

(* All that active providers have in their totals is reserved somewhere,   *)
(* so adding what an account still has free to it cannot overflow.         *)
BondsOn(p) == [a \in Accounts |-> BondOf(p, a)]

HeldOn(p) == [a \in Accounts |-> BondOf(p, a) + StakeOf(a, p)]

Reserves(who, v) ==
  [a \in Accounts |-> IF a = who THEN balances[a].reserved + v ELSE balances[a].reserved]

LEMMA CountedHeld ==
  ASSUME LedgerInv, Totals, InBlock, NEW p \in Providers
  PROVE  CountedOf(p, era.current) <= SumFunctionOnSet(HeldOn(p), Accounts)
<1> DEFINE c == era.current
<1>1. /\ TypeOK /\ c \in Eras /\ c \in Nat
      /\ \A a \in Accounts : BondOf(p, a) \in Nat /\ StakeOf(a, p) \in Nat
  BY InCall, HeldType DEF HeldTyped
<1>2. \A a \in Accounts : /\ HeldOn(p)[a] = BondOf(p, a) + StakeOf(a, p)
                          /\ BondsOn(p)[a] = BondOf(p, a) /\ LatestStakes(p)[a] = StakeOf(a, p)
  BY DEF HeldOn, BondsOn, LatestStakes
<1>3. SumFunctionOnSet(HeldOn(p), Accounts) \in Nat
  <2>1. \A a \in Accounts : HeldOn(p)[a] \in Nat
    BY <1>1, <1>2
  <2> QED
    BY <2>1, FiniteAssumption, SumNat
<1>4. CASE IsActiveProvider(p)
  <2> DEFINE owner == providerInfo[p].owner
             info == providerEraInfo[p][c]
  <2>1. /\ owner \in Accounts /\ BondOf(p, owner) = info.bond /\ info # None
        /\ info \in ProviderEraMetadata
    BY <1>4, InCall
  <2>2. info.total = info.bond + LatestOn(p)
    BY <1>4 DEF Totals, ExactFor
  <2>3. CountedOf(p, c) = info.total
    BY <1>4, <2>1 DEF CountedOf, CountedIn, IsActiveProvider
  <2>4. info.bond <= SumFunctionOnSet(BondsOn(p), Accounts)
        /\ SumFunctionOnSet(BondsOn(p), Accounts) \in Nat
    <3>1. \A a \in Accounts : BondsOn(p)[a] \in Nat
      BY <1>1, <1>2
    <3>2. /\ SumFunctionOnSet(BondsOn(p), Accounts) \in Nat
          /\ \A a \in Accounts : BondsOn(p)[a] <= SumFunctionOnSet(BondsOn(p), Accounts)
      BY <3>1, FiniteAssumption, SumNat
    <3>3. BondsOn(p)[owner] = info.bond
      BY <1>2, <2>1
    <3> HIDE DEF owner, info
    <3> QED
      BY <3>2, <3>3, <2>1
  <2>5. SumFunctionOnSet(HeldOn(p), Accounts) =
          SumFunctionOnSet(BondsOn(p), Accounts) + LatestOn(p)
    BY <1>1, <1>2, FiniteAssumption, SumPlus DEF LatestOn
  <2>6. LatestOn(p) \in Nat /\ info.bond \in Nat
    BY <2>1, StakesType DEF StakesTyped, LedgerInv, ProviderEraMetadata
  <2> DEFINE h == SumFunctionOnSet(HeldOn(p), Accounts)
             b == SumFunctionOnSet(BondsOn(p), Accounts)
             l == LatestOn(p)
             ib == info.bond
             counted == CountedOf(p, c)
  <2>7. /\ counted = ib + l /\ h = b + l /\ ib <= b
        /\ ib \in Nat /\ l \in Nat /\ b \in Nat
    BY <2>2, <2>3, <2>4, <2>5, <2>6
  <2> HIDE DEF h, b, l, ib, counted
  <2>8. counted <= h
    BY <2>7
  <2> QED
    BY <2>8 DEF counted, h
<1>5. CASE ~IsActiveProvider(p)
  <2>1. ~CountedIn(p, c)
    <3> SUFFICES ASSUME IsRegistered(p) PROVE ~(c < providerInfo[p].status)
      BY <1>5 DEF CountedIn, IsActiveProvider
    <3>1. providerInfo[p].status \in Eras /\ providerInfo[p].status <= c
      BY <1>1, <1>5, StateTypes DEF LedgerInv, Recorded, IsUnregistered, IsActiveProvider
    <3> QED
      BY <3>1, <1>1 DEF Eras
  <2> QED
    BY <2>1, <1>3 DEF CountedOf
<1> QED
  BY <1>4, <1>5

LEMMA StakedFits ==
  ASSUME LedgerInv, Totals, InBlock,
         NEW who \in Accounts, NEW v \in Nat, CanReserve(balances, who, v)
  PROVE  CountedSum(era.current) + v <= MaxBalance
<1> DEFINE c == era.current
<1>1. /\ TypeOK /\ SupplyFits /\ ReservedHeld /\ c \in Eras /\ balances \in Ledgers
      /\ \A a \in Accounts, p \in Providers : BondOf(p, a) \in Nat /\ StakeOf(a, p) \in Nat
      /\ \A a \in Accounts : ChunkTotal(unbondingInfo[a]) \in Nat
  BY InCall, HeldType, StateTypes DEF HeldTyped
<1> DEFINE m == [p \in Providers |-> HeldOn(p)]
           n == [a \in Accounts |-> [p \in Providers |-> BondOf(p, a) + StakeOf(a, p)]]
           row == [p \in Providers |-> SumFunctionOnSet(HeldOn(p), Accounts)]
           col == [a \in Accounts |-> HeldBond(a) + HeldStake(a)]
<1>2. \A p \in Providers, a \in Accounts : /\ m[p][a] = BondOf(p, a) + StakeOf(a, p)
                                              /\ n[a][p] = m[p][a]
  BY DEF HeldOn
<1>3. \A p \in Providers, a \in Accounts : m[p][a] \in Int
  BY <1>1, <1>2
<1>4. \A p \in Providers : row[p] = SumFunctionOnSet(m[p], Accounts)
  OBVIOUS
<1>5. \A a \in Accounts : col[a] = SumFunctionOnSet(n[a], Providers)
  <2> SUFFICES ASSUME NEW a \in Accounts
               PROVE  col[a] = SumFunctionOnSet(n[a], Providers)
    OBVIOUS
  <2> DEFINE h == n[a]
  <2>1. \A p \in Providers : h[p] = BondOf(p, a) + StakeOf(a, p)
    BY <1>2
  <2>2. \A p \in Providers : BondsOf(a)[p] = BondOf(p, a) /\ StakesOf(a)[p] = StakeOf(a, p)
    BY DEF BondsOf, StakesOf
  <2>3. col[a] = SumFunctionOnSet(BondsOf(a), Providers) + SumFunctionOnSet(StakesOf(a), Providers)
    BY <1>1, HeldSums DEF HeldSummed
  <2> HIDE DEF h, m, n, col
  <2>4. SumFunctionOnSet(h, Providers) =
          SumFunctionOnSet(BondsOf(a), Providers) + SumFunctionOnSet(StakesOf(a), Providers)
    BY <2>1, <2>2, <1>1, FiniteAssumption, SumPlus
  <2> QED
    BY <2>3, <2>4 DEF h
<1>6. \A p \in Providers : row[p] \in Int /\ CountedTotals(c)[p] \in Int /\ CountedTotals(c)[p] <= row[p]
  <2> SUFFICES ASSUME NEW p \in Providers
               PROVE  row[p] \in Int /\ CountedTotals(c)[p] \in Int /\ CountedTotals(c)[p] <= row[p]
    OBVIOUS
  <2>1. SumFunctionOnSet(HeldOn(p), Accounts) \in Int
    <3>1. \A a \in Accounts : HeldOn(p)[a] \in Int
      BY <1>3
    <3> QED
      BY <3>1, FiniteAssumption, SumType
  <2>2. CountedTotals(c)[p] = CountedOf(p, c) /\ CountedOf(p, c) \in Nat
    BY <1>1, CountedType DEF CountedTyped
  <2>3. CountedOf(p, c) <= SumFunctionOnSet(HeldOn(p), Accounts)
    BY CountedHeld
  <2> QED
    BY <2>1, <2>2, <2>3
<1> HIDE DEF m, n, row
<1>7. SumFunctionOnSet(row, Providers) = SumFunctionOnSet(col, Accounts)
  <2> HIDE DEF col
  <2> QED
    BY <1>2, <1>3, <1>4, <1>5, FiniteAssumption, SumSwap, SMTT(30)
<1>8. CountedSum(c) <= SumFunctionOnSet(row, Providers)
  BY <1>6, FiniteAssumption, SumMonotone DEF CountedSum
<1> DEFINE R == Reserves(who, 0)
           R2 == Reserves(who, v)
           W == Worth(balances)
<1>9. /\ \A a \in Accounts : /\ R[a] = balances[a].reserved
                             /\ R2[a] = IF a = who THEN balances[a].reserved + v
                                                   ELSE balances[a].reserved
                             /\ W[a] = balances[a].free + balances[a].reserved
      /\ \A a \in Accounts : balances[a].reserved \in Nat /\ balances[a].free \in Nat
      /\ \A h \in Holders : W[h] \in Nat
  <2>1. /\ \A h \in Holders : /\ W[h] \in Nat
                              /\ balances[h].free \in Nat /\ balances[h].reserved \in Nat
                              /\ W[h] = balances[h].free + balances[h].reserved
    BY <1>1, SupplyType
  <2>2. \A a \in Accounts : a \in Holders
    BY DEF Holders
  <2> HIDE DEF W
  <2> QED
    BY <2>1, <2>2 DEF Reserves
<1>10. \A a \in Accounts : col[a] \in Int /\ R[a] \in Int /\ col[a] <= R[a]
  <2>1. \A a \in Accounts : HeldBond(a) \in Nat /\ HeldStake(a) \in Nat
    BY <1>1, HeldSums DEF HeldSummed
  <2>2. \A a \in Accounts : R[a] = HeldBond(a) + HeldStake(a) + ChunkTotal(unbondingInfo[a])
    BY <1>1, <1>9 DEF ReservedHeld
  <2> HIDE DEF R
  <2> QED
    BY <2>1, <2>2, <1>1
<1> HIDE DEF col, R, R2, W
<1>11. SumFunctionOnSet(col, Accounts) <= SumFunctionOnSet(R, Accounts)
  BY <1>10, FiniteAssumption, SumMonotone
<1>12. SumFunctionOnSet(R2, Accounts) = SumFunctionOnSet(R, Accounts) - R[who] + R2[who]
  BY <1>9, <1>10, FiniteAssumption, SumChange
<1>13. SumFunctionOnSet(R2, Accounts) <= SumFunctionOnSet(W, Accounts)
  <2>1. \A a \in Accounts : R2[a] \in Int /\ W[a] \in Int /\ R2[a] <= W[a]
    BY <1>9 DEF CanReserve
  <2> QED
    BY <2>1, FiniteAssumption, SumMonotone
<1>14. SumFunctionOnSet(W, Accounts) <= SumFunctionOnSet(W, Holders)
  BY <1>9, HoldersFinite, SumSubset DEF Holders
<1>15. SumFunctionOnSet(W, Holders) <= MaxBalance /\ MaxBalance \in Nat
  BY <1>1, BalancesFit, CurrencyAssumption DEF Supply, W
<1>16. /\ CountedSum(c) \in Int /\ SumFunctionOnSet(row, Providers) \in Int
       /\ SumFunctionOnSet(R, Accounts) \in Int /\ SumFunctionOnSet(R2, Accounts) \in Int
       /\ SumFunctionOnSet(W, Accounts) \in Int /\ SumFunctionOnSet(W, Holders) \in Int
  <2>1. \A a \in Accounts : R[a] \in Int /\ R2[a] \in Int /\ W[a] \in Int
    BY <1>9
  <2>2. \A h \in Holders : W[h] \in Int
    BY <1>9
  <2>3. CountedSum(c) \in Int
    BY <1>1, CountedType DEF CountedTyped
  <2> QED
    BY <2>1, <2>2, <2>3, <1>6, FiniteAssumption, HoldersFinite, SumType
<1>17. R[who] \in Int /\ R2[who] = R[who] + v
  BY <1>9
<1> DEFINE x1 == CountedSum(c)
           x2 == SumFunctionOnSet(row, Providers)
           x3 == SumFunctionOnSet(R, Accounts)
           x4 == SumFunctionOnSet(R2, Accounts)
           x5 == SumFunctionOnSet(W, Accounts)
           x6 == SumFunctionOnSet(W, Holders)
<1>18. /\ x1 \in Int /\ x2 \in Int /\ x3 \in Int /\ x4 \in Int /\ x5 \in Int /\ x6 \in Int
       /\ x1 <= x2 /\ x2 <= x3 /\ x4 = x3 - R[who] + R2[who] /\ x4 <= x5 /\ x5 <= x6
       /\ x6 <= MaxBalance
  BY <1>7, <1>8, <1>11, <1>12, <1>13, <1>14, <1>15, <1>16
<1> HIDE DEF x1, x2, x3, x4, x5, x6
<1>19. x1 + v <= MaxBalance
  BY <1>15, <1>17, <1>18
<1> QED
  BY <1>19 DEF x1

(* A call that changes a provider's record and the era's total alike.      *)
LEMMA StakeCallEraSums ==
  ASSUME LedgerInv, TypeOK', EraSums, NEW who \in Accounts, NEW p \in Providers,
         NEW info \in ProviderEraMetadata, NEW staked \in Nat,
         NEW stakes \in Seq(EraStake),
         StakeCall(who, p, info, staked, stakes),
         staked = eraState[era.current].staked
                    - providerEraInfo[p][era.current].total + info.total
  PROVE  EraSums'
<1>0. PICK c : c = era.current
  OBVIOUS
<1>1. /\ TypeOK /\ c \in Eras /\ eraState[c] # None /\ info # None
      /\ IsActiveProvider(p) /\ providerEraInfo[p][c] # None
  BY <1>0, InCall, NoneAssumption DEF StakeCall
<1>2. /\ providerEraInfo' = [providerEraInfo EXCEPT ![p][c] = info]
      /\ eraState' = UpdateStaked(c, staked) /\ providerInfo' = providerInfo
  BY <1>0 DEF StakeCall
<1>3. \A q \in Providers, e \in Eras :
        providerEraInfo'[q][e] = IF q = p /\ e = c THEN info ELSE providerEraInfo[q][e]
  BY <1>1, <1>2 DEF TypeOK
<1>4. /\ \A e \in Eras : e # c => eraState'[e] = eraState[e]
      /\ eraState'[c].staked = staked
  BY <1>1, <1>2, UpdateStakedEffect
<1>5. \A q \in Providers, e \in Eras :
        q # p \/ e # c => CountedOf(q, e)' = CountedOf(q, e)
  BY <1>2, <1>3 DEF CountedOf, CountedIn, IsRegistered
<1>6. CountedOf(p, c) = providerEraInfo[p][c].total /\ CountedOf(p, c)' = info.total
  BY <1>1, <1>2, <1>3 DEF CountedOf, CountedIn, IsRegistered, IsActiveProvider
<1>7. eraState'[c].staked = eraState[c].staked - CountedOf(p, c) + CountedOf(p, c)'
  BY <1>0, <1>4, <1>6
<1> QED
  BY <1>1, <1>4, <1>5, <1>7, EraSumsStep

LEMMA CallEraSums ==
  ASSUME LedgerInv, Totals, TypeOK', EraSums, AmountsFit,
         NEW who \in Accounts, NEW p \in Providers, NEW v \in Amounts,
         \/ ProviderBondMore(who, p, v)
         \/ ProviderBondLess(who, p, v)
         \/ Delegate(who, p, v)
         \/ DelegatorUnstake(who, p, v)
  PROVE  EraSums'
<1> DEFINE c == era.current
           old == providerEraInfo[p][c]
           vector == delegationInfo[who][p]
           total == eraState[c].staked
<1>1. /\ InBlock /\ IsActiveProvider(p)
  BY DEF ProviderBondMore, ProviderBondLess, Delegate, DelegatorUnstake
<1>2. /\ TypeOK /\ c \in Eras /\ total \in Nat /\ eraState[c] # None
      /\ old # None /\ old \in ProviderEraMetadata
      /\ vector \in Seq(EraStake)
  BY <1>1, InCall DEF TypeOK
<1>3. /\ total = CountedSum(c) /\ CountedOf(p, c) = old.total
      /\ old.total \in Nat /\ old.bond \in Nat /\ old.total <= total
  <2>1. total = CountedSum(c)
    BY <1>2 DEF EraSums
  <2>2. CountedOf(p, c) = old.total
    BY <1>1, <1>2 DEF CountedOf, CountedIn, IsActiveProvider
  <2>3. CountedOf(p, c) <= CountedSum(c)
    BY <1>2, CountedType DEF CountedTyped
  <2> QED
    BY <2>1, <2>2, <2>3, <1>2 DEF ProviderEraMetadata
<1>4. old.total = old.bond + LatestOn(p) /\ LatestOn(p) \in Nat /\ StakeOf(who, p) <= LatestOn(p)
  BY <1>1, StakesType DEF Totals, ExactFor, StakesTyped, LedgerInv
<1>5. ASSUME NEW w \in Nat, CanReserve(balances, who, w)
      PROVE  SatAdd(total, w) = total + w
  <2>1. total + w <= MaxBalance
    BY <1>1, <1>3, <1>5, StakedFits
  <2> HIDE DEF total
  <2> QED
    BY <2>1, <1>2, CurrencyAssumption DEF SatAdd
<1>6. ASSUME NEW w \in Nat, w <= old.total
      PROVE  SatSub(total, w) = total - w /\ SatSub(old.total, w) = old.total - w
  <2> HIDE DEF total, old
  <2> QED
    BY <1>2, <1>3, <1>6 DEF SatSub
<1>7. CASE ProviderBondMore(who, p, v)
  <2> DEFINE info == BondedMore(old, v)
             staked == SatAdd(total, v)
  <2>1. /\ v \in Nat /\ info \in ProviderEraMetadata /\ info.total = old.total + v
        /\ staked \in Nat /\ StakeCall(who, p, info, staked, vector)
        /\ CanReserve(balances, who, v)
    BY <1>7, ProviderBondMoreCall
  <2>2. staked = total + v
    BY <2>1, <1>5
  <2> HIDE DEF info, staked
  <2>3. staked = total - old.total + info.total
    <3> HIDE DEF total, old
    <3> QED
      BY <2>1, <2>2, <1>2, <1>3
  <2> QED
    BY <2>1, <2>3, <1>2, StakeCallEraSums
<1>8. CASE ProviderBondLess(who, p, v)
  <2> DEFINE info == BondedLess(old, v)
             staked == SatSub(total, v)
  <2>1. /\ v \in Nat /\ info \in ProviderEraMetadata /\ info.total = SatSub(old.total, v)
        /\ v + MinProviderStake <= old.bond
        /\ staked \in Nat /\ StakeCall(who, p, info, staked, vector)
    BY <1>8, ProviderBondLessCall
  <2>2. v <= old.total
    <3> HIDE DEF old
    <3> QED
      BY <2>1, <1>3, <1>4, StakingAssumption
  <2>3. staked = total - v /\ info.total = old.total - v
    BY <2>1, <2>2, <1>6
  <2> HIDE DEF info, staked
  <2>4. staked = total - old.total + info.total
    <3> HIDE DEF total, old
    <3> QED
      BY <2>1, <2>3, <1>2, <1>3
  <2> QED
    BY <2>1, <2>4, <1>2, StakeCallEraSums
<1>9. CASE Delegate(who, p, v)
  <2> DEFINE info == Delegated(old, StakeOf(who, p), v)
             staked == SatAdd(total, v)
             stakes == Stake(vector, c, v)
  <2>1. /\ v \in Nat /\ info \in ProviderEraMetadata /\ info.total = old.total + v
        /\ staked \in Nat /\ stakes \in Seq(EraStake)
        /\ StakeCall(who, p, info, staked, stakes)
        /\ CanReserve(balances, who, v)
    BY <1>9, DelegateCall
  <2>2. staked = total + v
    BY <2>1, <1>5
  <2> HIDE DEF info, staked, stakes
  <2>3. staked = total - old.total + info.total
    <3> HIDE DEF total, old
    <3> QED
      BY <2>1, <2>2, <1>2, <1>3
  <2> QED
    BY <2>1, <2>3, StakeCallEraSums
<1>10. CASE DelegatorUnstake(who, p, v)
  <2> DEFINE latest == StakeOf(who, p)
             amount == UnstakeAmount(latest, v)
             info == Unstaked(old, latest, v)
             staked == SatSub(total, amount)
             stakes == Unstake(vector, c, amount)
  <2>1. /\ latest \in Nat /\ amount \in Nat /\ amount <= latest
        /\ info \in ProviderEraMetadata /\ info.total = SatSub(old.total, amount)
        /\ staked \in Nat /\ stakes \in Seq(EraStake)
        /\ StakeCall(who, p, info, staked, stakes)
    BY <1>10, DelegatorUnstakeCall
  <2> HIDE DEF amount
  <2>2. amount <= old.total
    <3> HIDE DEF old
    <3> QED
      BY <2>1, <1>3, <1>4
  <2>3. staked = total - amount /\ info.total = old.total - amount
    BY <2>1, <2>2, <1>6
  <2> HIDE DEF info, staked, stakes
  <2>4. staked = total - old.total + info.total
    <3> HIDE DEF total, old
    <3> QED
      BY <2>1, <2>3, <1>2, <1>3
  <2> QED
    BY <2>1, <2>4, StakeCallEraSums
<1> QED
  BY <1>7, <1>8, <1>9, <1>10

LEMMA RegisterProviderEraSums ==
  ASSUME LedgerInv, Totals, TypeOK', EraSums,
         NEW who \in Accounts, NEW p \in Providers, NEW v \in Amounts,
         RegisterProvider(who, p, v)
  PROVE  EraSums'
<1>0. PICK c : c = era.current
  OBVIOUS
<1>1. /\ InBlock /\ ~IsRegistered(p) /\ v \in Nat /\ CanReserve(balances, who, v)
      /\ IsRegistered(p)' /\ IsActiveProvider(p)'
      /\ \A q \in Providers : q # p => providerInfo'[q] = providerInfo[q]
  BY RegisterProviderCall
<1>2. \A q \in Providers, e \in Eras : q # p \/ e # c =>
        providerEraInfo'[q][e] = providerEraInfo[q][e]
  BY <1>0, RegisterProviderCall, ZenonT(60)
<1>3. providerEraInfo'[p][c] = FirstRecord(v) /\ FirstRecord(v) # None
  BY <1>0, RegisterProviderCall, ZenonT(60)
<1>4. \A e \in Eras : eraState'[e] =
        IF e = c THEN [rewards |-> 0, staked |-> SatAdd(eraState[c].staked, v)]
                 ELSE eraState[e]
  BY <1>0, RegisterProviderCall
<1>5. /\ TypeOK /\ Recorded /\ c \in Eras /\ eraState[c] # None /\ eraState[c].staked \in Nat
  BY <1>0, <1>1, InCall
<1>6. SatAdd(eraState[c].staked, v) = eraState[c].staked + v
  <2>1. eraState[c].staked = CountedSum(c)
    BY <1>5 DEF EraSums
  <2>2. eraState[c].staked + v <= MaxBalance
    BY <2>1, <1>0, <1>1, StakedFits
  <2> QED
    BY <2>2, <1>1, <1>5, CurrencyAssumption DEF SatAdd
<1>7. CountedOf(p, c) = 0 /\ CountedOf(p, c)' = v
  <2>1. CountedOf(p, c) = 0
    BY <1>1 DEF CountedOf, CountedIn
  <2>2. FirstRecord(v).total = v
    BY DEF FirstRecord
  <2>3. CountedOf(p, c)' = v
    BY <2>2, <1>1, <1>3 DEF CountedOf, CountedIn, IsActiveProvider
  <2> QED
    BY <2>1, <2>3
<1>8. \A q \in Providers, e \in Eras : q # p \/ e # c => CountedOf(q, e)' = CountedOf(q, e)
  <2> SUFFICES ASSUME NEW q \in Providers, NEW e \in Eras, q # p \/ e # c
               PROVE  CountedOf(q, e)' = CountedOf(q, e)
    OBVIOUS
  <2>1. CASE q # p
    BY <2>1, <1>1, <1>2 DEF CountedOf, CountedIn, IsRegistered
  <2>2. CASE q = p
    <3>1. providerEraInfo'[p][e] = None
      BY <2>2, <1>1, <1>2, <1>5 DEF Recorded
    <3> QED
      BY <2>2, <3>1, <1>1 DEF CountedOf, CountedIn
  <2> QED
    BY <2>1, <2>2
<1>9. eraState'[c].staked = eraState[c].staked - CountedOf(p, c) + CountedOf(p, c)'
  BY <1>1, <1>4, <1>5, <1>6, <1>7
<1> QED
  BY <1>4, <1>5, <1>8, <1>9, EraSumsStep

LEMMA UnregisterProviderEraSums ==
  ASSUME LedgerInv, TypeOK', EraSums, NEW p \in Providers, UnregisterProvider(p)
  PROVE  EraSums'
<1>0. PICK c : c = era.current
  OBVIOUS
<1> DEFINE total == providerEraInfo[p][c].total
           staked == SatSub(eraState[c].staked, total)
<1>1. /\ InBlock /\ IsActiveProvider(p) /\ staked \in Nat
      /\ providerEraInfo' = providerEraInfo
      /\ eraState' = UpdateStaked(c, staked)
      /\ IsUnregistered(p)' /\ providerInfo'[p].status = c
      /\ \A q \in Providers : q # p => providerInfo'[q] = providerInfo[q]
  BY <1>0, UnregisterProviderCall
<1>2. /\ TypeOK /\ ErasBegun /\ c \in Eras /\ c \in Nat
      /\ eraState[c] # None /\ eraState[c].staked \in Nat
      /\ providerEraInfo[p][c] # None
  BY <1>0, <1>1, InCall
<1>3. /\ \A e \in Eras : e # c => eraState'[e] = eraState[e]
      /\ eraState'[c].staked = staked
  BY <1>1, <1>2, UpdateStakedEffect
<1>4. CountedOf(p, c) = total /\ CountedOf(p, c)' = 0
  <2>1. CountedOf(p, c) = total
    BY <1>1, <1>2 DEF CountedOf, CountedIn, IsActiveProvider
  <2>2. ~CountedIn(p, c)'
    BY <1>1, <1>2 DEF CountedIn, IsUnregistered
  <2> QED
    BY <2>1, <2>2 DEF CountedOf
<1>5. total \in Nat /\ total <= eraState[c].staked
  <2>1. eraState[c].staked = CountedSum(c)
    BY <1>2 DEF EraSums
  <2>2. CountedOf(p, c) <= CountedSum(c) /\ CountedOf(p, c) \in Nat
    BY <1>2, CountedType DEF CountedTyped
  <2> QED
    BY <2>1, <2>2, <1>4
<1>6. staked = eraState[c].staked - CountedOf(p, c) + CountedOf(p, c)'
  <2>1. staked = eraState[c].staked - total
    BY <1>2, <1>5 DEF SatSub
  <2> HIDE DEF staked, total
  <2> QED
    BY <2>1, <1>2, <1>4, <1>5
<1>7. \A q \in Providers, e \in Eras : q # p => CountedOf(q, e)' = CountedOf(q, e)
  BY <1>1 DEF CountedOf, CountedIn, IsRegistered
<1>8. \A e \in Eras : e # c /\ eraState'[e] # None => CountedOf(p, e)' = CountedOf(p, e)
  <2> SUFFICES ASSUME NEW e \in Eras, e # c, eraState'[e] # None
               PROVE  CountedIn(p, e)' <=> CountedIn(p, e)
    BY <1>1 DEF CountedOf
  <2>1. e < c
    BY <1>0, <1>2, <1>3 DEF ErasBegun, Eras
  <2> QED
    BY <2>1, <1>1 DEF CountedIn, IsUnregistered, IsActiveProvider
<1> HIDE DEF staked, total
<1>9. \A e \in Eras : e # c /\ eraState'[e] # None =>
        /\ eraState'[e] = eraState[e]
        /\ \A q \in Providers : CountedOf(q, e)' = CountedOf(q, e)
  BY <1>3, <1>7, <1>8
<1>10. eraState'[c].staked = eraState[c].staked - CountedOf(p, c) + CountedOf(p, c)'
  BY <1>3, <1>6
<1> QED
  BY <1>2, <1>7, <1>9, <1>10, EraSumsStep

LEMMA StartEraEraSums ==
  ASSUME LedgerInv, TypeOK', EraSums, StartEra
  PROVE  EraSums'
<1>0. PICK c : c = era.current
  OBVIOUS
<1>1. /\ TypeOK /\ Recorded /\ ErasBegun /\ c \in Eras /\ c \in Nat /\ c + 1 \in Eras
      /\ c + 1 # c /\ providerInfo' = providerInfo
  BY <1>0, StartEraCall DEF LedgerInv
<1>2. \A q \in Providers : IsRegistered(q) => \/ IsActiveProvider(q)
                                              \/ /\ IsUnregistered(q)
                                                 /\ providerInfo[q].status \in Eras
                                                 /\ providerInfo[q].status <= c
  BY <1>0, <1>1, StateTypes DEF Recorded, IsActiveProvider, IsUnregistered
<1>3. /\ \A q \in Providers, e \in Eras : e # c + 1 =>
           providerEraInfo'[q][e] = providerEraInfo[q][e]
      /\ \A q \in Providers : IsActiveProvider(q) =>
           /\ providerEraInfo[q][c] # None
           /\ providerEraInfo'[q][c + 1] # None
           /\ providerEraInfo'[q][c + 1].total = providerEraInfo[q][c].total
  BY <1>0, StartEraCall
<1>4. \A q \in Providers, e \in Eras : e # c + 1 => CountedOf(q, e)' = CountedOf(q, e)
  BY <1>1, <1>3 DEF CountedOf, CountedIn, IsRegistered
<1>5. ASSUME NEW q \in Providers PROVE CountedOf(q, c + 1)' = CountedOf(q, c)
  <2>1. CASE IsActiveProvider(q)
    <3>1. CountedIn(q, c + 1)' /\ CountedIn(q, c)
      BY <2>1, <1>1, <1>3 DEF CountedIn, IsActiveProvider, IsRegistered
    <3> QED
      BY <2>1, <3>1, <1>3 DEF CountedOf
  <2>2. CASE ~IsActiveProvider(q)
    <3>1. ~CountedIn(q, c + 1)' /\ ~CountedIn(q, c)
      <4>1. CASE ~IsRegistered(q)
        BY <4>1, <1>1 DEF CountedIn, IsRegistered
      <4>2. CASE IsRegistered(q)
        <5>1. /\ providerInfo[q].status # Active
              /\ ~(c < providerInfo[q].status) /\ ~(c + 1 < providerInfo[q].status)
          BY <4>2, <2>2, <1>1, <1>2 DEF IsActiveProvider, Eras
        <5> QED
          BY <5>1, <1>1 DEF CountedIn
      <4> QED
        BY <4>1, <4>2
    <3> QED
      BY <3>1 DEF CountedOf
  <2> QED
    BY <2>1, <2>2
<1>6. CountedSum(c + 1)' = CountedSum(c)
  <2> DEFINE C == CountedTotals(c)
             C2 == CountedTotals(c + 1)'
  <2>1. \A q \in Providers : C2[q] = C[q]
    BY <1>1, <1>5 DEF CountedTotals
  <2> HIDE DEF C, C2
  <2>2. SumFunctionOnSet(C2, Providers) = SumFunctionOnSet(C, Providers)
    BY <2>1, FiniteAssumption, SumEqual
  <2> QED
    BY <2>2 DEF C, C2, CountedSum
<1>7. EraStateOrDefault(c).staked = CountedSum(c)
  <2>1. CASE eraState[c] # None
    BY <2>1, <1>1 DEF EraStateOrDefault, EraSums
  <2>2. CASE eraState[c] = None
    <3>1. \A q \in Providers : ~IsRegistered(q)
      BY <2>2, <1>0, <1>1 DEF ErasBegun
    <3>2. \A q \in Providers : CountedTotals(c)[q] = 0
      BY <3>1 DEF CountedTotals, CountedOf, CountedIn
    <3>3. CountedSum(c) = 0
      BY <3>2, FiniteAssumption, SumZero DEF CountedSum
    <3> QED
      BY <2>2, <3>3 DEF EraStateOrDefault, DefaultEraMetadata
  <2> QED
    BY <2>1, <2>2
<1> DEFINE next == [rewards |-> 0, staked |-> EraStateOrDefault(c).staked]
           done == [rewards |-> rewardAccumulator, staked |-> EraStateOrDefault(c).staked]
<1>8. eraState' = [eraState EXCEPT ![c + 1] = next, ![c] = done]
  BY <1>0 DEF StartEra, SnapshotEraRewards
<1>9. next.staked = CountedSum(c) /\ done.staked = CountedSum(c)
  BY <1>7
<1> HIDE DEF next, done
<1>10. \A e \in Eras : eraState'[e] = IF e = c THEN done
                                      ELSE IF e = c + 1 THEN next ELSE eraState[e]
  BY <1>1, <1>8 DEF TypeOK
<1> SUFFICES ASSUME NEW e \in Eras, eraState'[e] # None
             PROVE  eraState'[e].staked = CountedSum(e)'
  BY DEF EraSums
<1>11. e # c + 1 => CountedSum(e)' = CountedSum(e)
  BY <1>1, <1>4, CountedStep
<1>12. CASE e = c
  BY <1>12, <1>1, <1>9, <1>10, <1>11
<1>13. CASE e = c + 1
  BY <1>13, <1>1, <1>6, <1>9, <1>10
<1>14. CASE e # c /\ e # c + 1
  BY <1>14, <1>10, <1>11 DEF EraSums
<1> QED
  BY <1>12, <1>13, <1>14

LEMMA NextEraSums ==
  ASSUME LedgerInv, Totals, EraSums, [Next]_vars, AmountsFit
  PROVE  EraSums'
<1>1. TypeOK /\ TypeOK'
  BY NextIndInv DEF LedgerInv, IndInv
<1>2. CASE StartEra
  BY <1>1, <1>2, StartEraEraSums
<1>3. CASE \/ ContinueEra
           \/ \E new \in EraLengths : SetBlocksPerEra(new)
           \/ \E a \in Accounts : WithdrawUnbonded(a)
           \/ \E v \in Rewards : HandleImbalance(v)
           \/ \E a \in Accounts, p \in Providers :
                ClaimDelegator(a, p) \/ DelegatorWithdrawUnregistered(a, p)
           \/ UNCHANGED vars
  <2>1. UNCHANGED <<eraState, providerInfo, providerEraInfo>>
    BY <1>3 DEF ContinueEra, SetBlocksPerEra, WithdrawUnbonded, HandleImbalance,
                ClaimDelegator, DelegatorWithdrawUnregistered, stakingVars, vars
  <2>2. \A q \in Providers, e \in Eras : CountedOf(q, e)' = CountedOf(q, e)
    BY <2>1 DEF CountedOf, CountedIn, IsRegistered
  <2> QED
    BY <2>1, <2>2, <1>1, EraSumsFrame
<1>4. ASSUME NEW a \in Accounts, NEW p \in Providers, NEW v \in Amounts,
             \/ RegisterProvider(a, p, v)
             \/ ProviderBondMore(a, p, v)
             \/ ProviderBondLess(a, p, v)
             \/ Delegate(a, p, v)
             \/ DelegatorUnstake(a, p, v)
      PROVE  EraSums'
  BY <1>1, <1>4, RegisterProviderEraSums, CallEraSums
<1>5. ASSUME NEW p \in Providers, NEW f \in Eras, ClaimProvider(p, f)
      PROVE  EraSums'
  <2> DEFINE old == providerEraInfo[p][f]
             info == [old EXCEPT !.provider_reward_claimed = TRUE]
  <2>1. /\ old # None /\ info # None /\ info.total = old.total
        /\ providerEraInfo' = [providerEraInfo EXCEPT ![p][f] = info]
        /\ UNCHANGED <<eraState, providerInfo>>
    BY <1>5, ClaimProviderCall
  <2> HIDE DEF info
  <2>2. \A q \in Providers, e \in Eras :
          providerEraInfo'[q][e] = IF q = p /\ e = f THEN info ELSE providerEraInfo[q][e]
    BY <2>1, <1>1 DEF TypeOK
  <2>3. \A q \in Providers, e \in Eras : CountedOf(q, e)' = CountedOf(q, e)
    BY <2>1, <2>2 DEF CountedOf, CountedIn, IsRegistered
  <2> QED
    BY <2>1, <2>3, <1>1, EraSumsFrame
<1>6. ASSUME NEW p \in Providers, ProviderWithdrawUnregistered(p)
      PROVE  EraSums'
  <2>1. /\ UNCHANGED <<eraState, providerEraInfo>>
        /\ \A q \in Providers :
             /\ IsRegistered(q)' <=> IsRegistered(q)
             /\ IsRegistered(q) => providerInfo'[q].status = providerInfo[q].status
    BY <1>6, ProviderWithdrawCall
  <2>2. \A q \in Providers, e \in Eras : CountedOf(q, e)' = CountedOf(q, e)
    BY <2>1 DEF CountedOf, CountedIn
  <2> QED
    BY <2>1, <2>2, <1>1, EraSumsFrame
<1>7. ASSUME NEW p \in Providers, UnregisterProvider(p)
      PROVE  EraSums'
  BY <1>1, <1>7, UnregisterProviderEraSums
<1> QED
  BY <1>2, <1>3, <1>4, <1>5, <1>6, <1>7 DEF Next

LEMMA EraSumsAreTotals ==
  ASSUME TypeOK, EraSums
  PROVE  EraStakeTotals
<1> SUFFICES ASSUME NEW e \in Eras, eraState[e] # None
             PROVE  eraState[e].staked =
                      SumOver({p \in Providers : CountedIn(p, e)},
                              LAMBDA p : providerEraInfo[p][e].total)
  BY DEF EraStakeTotals
<1> DEFINE known == {p \in Providers : CountedIn(p, e)}
           some == [p \in known |-> providerEraInfo[p][e].total]
<1>1. SumOver(known, LAMBDA p : providerEraInfo[p][e].total) = SumFunctionOnSet(some, known)
  BY DEF SumOver
<1>2. /\ known \in SUBSET Providers /\ IsFiniteSet(known)
      /\ \A p \in known : CountedTotals(e)[p] = some[p]
      /\ \A p \in Providers : p \notin known => CountedTotals(e)[p] = 0
      /\ \A p \in Providers : CountedTotals(e)[p] \in Int
  <2>1. \A p \in Providers : CountedTotals(e)[p] = CountedOf(p, e) /\ CountedOf(p, e) \in Nat
    BY CountedType DEF CountedTyped
  <2>2. known \in SUBSET Providers /\ IsFiniteSet(known)
    BY FiniteAssumption, FS_Subset
  <2> QED
    BY <2>1, <2>2 DEF CountedOf
<1> HIDE DEF known, some
<1>3. CountedSum(e) = SumFunctionOnSet(CountedTotals(e), known)
  BY <1>2, FiniteAssumption, SumFilter DEF CountedSum
<1>4. SumFunctionOnSet(CountedTotals(e), known) = SumFunctionOnSet(some, known)
  BY <1>2, SumEqual
<1> QED
  BY <1>1, <1>3, <1>4 DEF EraSums, known

(* The total stake that divides an era's rewards is the sum of the stakes  *)
(* of the providers that share in them, for every era and after every      *)
(* call; no saturating addition of the pallet ever saturates.              *)
THEOREM EraStakeTotalsKept ==
  ASSUME IssuanceFits, AmountsFit
  PROVE  Spec => []EraStakeTotals
<1> DEFINE Inv == PalletInv /\ Totals /\ EraSums
<1>1. Inv /\ [Next]_vars => Inv'
  BY NextPalletInv, NextTotals, NextEraSums DEF PalletInv
<1>2. Inv => EraStakeTotals
  BY EraSumsAreTotals DEF PalletInv, LedgerInv, IndInv
<1>3. Init => Inv
  BY InitPalletInv, InitTotals DEF Init, EraSums
<1> QED
  BY <1>1, <1>2, <1>3, PTL DEF Spec

----------------------------------------------------------------------------
(* What a delegator is entitled to                                         *)

(* Every entry of the vector is of an era that has begun in a block: era 0 *)
(* is none, which RewardsClaimed relies on.                                *)
NoEraZero(stakes) == \A i \in DOMAIN stakes : stakes[i].era > 0

LEMMA SetLatestNoEraZero ==
  ASSUME NEW stakes \in Seq(EraStake), stakes # <<>>, NoEraZero(stakes),
         NEW e \in Nat, e > 0, NEW amount \in Nat
  PROVE  NoEraZero(SetLatest(stakes, e, amount))
<1> DEFINE n == Len(stakes)
           new == NewEraStake(amount, e)
<1>1. n \in Nat /\ n >= 1 /\ n \in 1..n /\ DOMAIN stakes = 1..n
  BY StakeFields
<1>2. new \in EraStake /\ new.era = e
  BY DEF NewEraStake, EraStake
<1> HIDE DEF new
<1>3. CASE stakes[n].era = e
  <2> DEFINE replaced == [stakes EXCEPT ![n] = new]
  <2>1. DOMAIN replaced = 1..n /\ \A j \in 1..n : replaced[j] = IF j = n THEN new ELSE stakes[j]
    BY <1>1
  <2>2. SetLatest(stakes, e, amount) = replaced
    BY <1>3 DEF SetLatest, new
  <2> HIDE DEF replaced
  <2> QED
    BY <1>1, <1>2, <2>1, <2>2 DEF NoEraZero
<1>4. CASE stakes[n].era # e
  <2> DEFINE appended == Append(stakes, new)
  <2>1. /\ appended \in Seq(EraStake) /\ Len(appended) = n + 1
        /\ \A j \in 1..n : appended[j] = stakes[j]
        /\ appended[n + 1] = new
    BY <1>2, AppendProperties
  <2>2. SetLatest(stakes, e, amount) = appended
    BY <1>4 DEF SetLatest, new
  <2> HIDE DEF appended
  <2>3. DOMAIN appended = 1..(n + 1)
    BY <2>1, LenProperties
  <2>4. ASSUME NEW i \in 1..(n + 1) PROVE appended[i].era > 0
    <3>1. i \in 1..n \/ i = n + 1
      BY <1>1
    <3> QED
      BY <1>1, <1>2, <2>1, <3>1 DEF NoEraZero
  <2> QED
    BY <2>2, <2>3, <2>4 DEF NoEraZero
<1> QED
  BY <1>3, <1>4

LEMMA TailNoEraZero ==
  ASSUME NEW stakes \in Seq(EraStake), stakes # <<>>, NoEraZero(stakes)
  PROVE  NoEraZero(Tail(stakes))
<1> DEFINE tail == Tail(stakes)
<1>1. Len(stakes) \in Nat /\ DOMAIN stakes = 1..Len(stakes)
  BY StakeFields
<1>2. /\ tail \in Seq(EraStake)
      /\ Len(tail) = Len(stakes) - 1
      /\ \A i \in 1..Len(tail) : tail[i] = stakes[i + 1]
  BY HeadTailProperties
<1> HIDE DEF tail
<1>3. DOMAIN tail = 1..Len(tail)
  BY <1>2, LenProperties
<1>4. \A i \in DOMAIN tail : i + 1 \in DOMAIN stakes /\ tail[i] = stakes[i + 1]
  BY <1>1, <1>2, <1>3
<1> QED
  BY <1>4 DEF NoEraZero, tail

(* stake, unstake and claim record nothing for era 0.                      *)
LEMMA VectorsNoEraZero ==
  ASSUME NEW stakes \in Seq(EraStake), NoEraZero(stakes), NEW c \in Nat, c > 0,
         EntriesOrdered(stakes, c), NEW amount \in Nat
  PROVE  /\ NoEraZero(Stake(stakes, c, amount))
         /\ NoEraZero(Unstake(stakes, c, amount))
         /\ stakes # <<>> => NoEraZero(Claim(stakes))
<1>1. ASSUME NEW v \in Seq(EraStake), NoEraZero(v) PROVE NoEraZero(DropUnstakedHead(v))
  BY <1>1, TailNoEraZero DEF DropUnstakedHead
<1>2. CASE stakes = <<>>
  <2> DEFINE new == NewEraStake(amount, c)
  <2>1. new.era = c
    BY DEF NewEraStake
  <2> HIDE DEF new
  <2>2. DOMAIN <<new>> = {1} /\ <<new>>[1] = new
    OBVIOUS
  <2>3. NoEraZero(<<new>>)
    BY <2>1, <2>2 DEF NoEraZero
  <2> QED
    BY <1>2, <2>3 DEF Stake, Unstake, new
<1>3. CASE stakes # <<>>
  <2>1. /\ SatAdd(LatestStakedValue(stakes), amount) \in Nat
        /\ SatSub(LatestStakedValue(stakes), amount) \in Nat
    BY StakeFields, ArithmeticType
  <2>2. NoEraZero(Stake(stakes, c, amount))
    BY <1>3, <2>1, SetLatestNoEraZero DEF Stake
  <2>3. NoEraZero(Unstake(stakes, c, amount))
    <3>1. PICK left \in Nat : left = SatSub(LatestStakedValue(stakes), amount)
      BY <2>1
    <3>2. PICK set \in Seq(EraStake) : set = SetLatest(stakes, c, left) /\ NoEraZero(set)
      BY <1>3, <3>1, SetLatestProperties, SetLatestNoEraZero
    <3> QED
      BY <1>1, <1>3, <3>1, <3>2 DEF Unstake
  <2>4. NoEraZero(Claim(stakes))
    <3> DEFINE n == Len(stakes)
               new == NewEraStake(stakes[1].amount, stakes[1].era + 1)
               moved == [stakes EXCEPT ![1] = new]
    <3>1. /\ n \in Nat /\ n >= 1 /\ 1 \in 1..n /\ DOMAIN stakes = 1..n
          /\ stakes[1].era \in Nat /\ stakes[1].amount \in Nat
      BY <1>3, StakeFields
    <3>2. new \in EraStake /\ new.era > 0
      BY <3>1 DEF NewEraStake, EraStake
    <3>3. Claim(stakes) = IF n = 1 \/ stakes[2].era > stakes[1].era + 1
                          THEN DropUnstakedHead(moved) ELSE DropUnstakedHead(Tail(stakes))
      BY <1>3 DEF Claim
    <3> HIDE DEF new
    <3>4. /\ moved \in Seq(EraStake) /\ Len(moved) = n
          /\ \A j \in 1..n : moved[j] = IF j = 1 THEN new ELSE stakes[j]
      BY <3>1, <3>2, ExceptSeq
    <3> HIDE DEF moved
    <3>5. DOMAIN moved = 1..n
      BY <3>4, LenProperties
    <3>6. NoEraZero(moved)
      BY <3>1, <3>2, <3>4, <3>5 DEF NoEraZero
    <3>7. Tail(stakes) \in Seq(EraStake) /\ NoEraZero(Tail(stakes))
      BY <1>3, TailProperties, TailNoEraZero
    <3> QED
      BY <1>1, <3>3, <3>4, <3>6, <3>7
  <2> QED
    BY <2>2, <2>3, <2>4
<1> QED
  BY <1>2, <1>3

(* The tokens of an account, which only the pallet's own account pays out. *)
Own(a) == TokensOf(balances[a])

LEMMA OwnTokens ==
  ASSUME TypeOK, NEW who \in Accounts, NEW amount \in Nat
  PROVE  /\ \A a \in Accounts : Own(a) \in Nat
         /\ CanReserve(balances, who, amount) =>
              \A a \in Accounts : TokensOf(Reserve(balances, who, amount)[a]) = Own(a)
         /\ \A a \in Accounts : TokensOf(Unreserve(balances, who, amount)[a]) = Own(a)
         /\ CanWithdraw(balances, Pot, amount) =>
              /\ \A a \in Accounts : TokensOf(Payout(who, amount)[a]) >= Own(a)
              /\ Own(who) > 0 => Payout(who, amount)[who].free = balances[who].free + amount
         /\ \A a \in Accounts : DepositCreating(balances, Pot, amount)[a] = balances[a]
<1>1. /\ balances \in LedgerOver(Holders) /\ who \in Holders /\ Pot \in Holders
      /\ \A a \in Accounts : a \in Holders /\ a # Pot
  BY StakingAssumption DEF TypeOK, LedgerOver, Holders
<1>2. \A a \in Accounts : /\ Own(a) \in Nat /\ Own(a) = balances[a].free + balances[a].reserved
                          /\ balances[a].free \in Nat /\ balances[a].reserved \in Nat
  BY <1>1, AccountTokens DEF Own
<1>3. ASSUME CanReserve(balances, who, amount), NEW a \in Accounts
      PROVE  TokensOf(Reserve(balances, who, amount)[a]) = Own(a)
  <2>1. PICK after : after = Reserve(balances, who, amount)
    OBVIOUS
  <2>2. /\ \A h \in Holders : h # who => after[h] = balances[h]
        /\ after[who].free = balances[who].free - amount
        /\ after[who].reserved = balances[who].reserved + amount
    BY <1>1, <1>3, <2>1, ReserveEffect
  <2> QED
    BY <1>1, <1>2, <2>1, <2>2 DEF TokensOf, Own
<1>4. ASSUME NEW a \in Accounts
      PROVE  TokensOf(Unreserve(balances, who, amount)[a]) = Own(a)
  <2>1. PICK actual \in Nat :
          /\ actual = IF amount > balances[who].reserved THEN balances[who].reserved ELSE amount
          /\ actual <= balances[who].reserved
    BY <1>2
  <2>2. PICK account : account = [free     |-> balances[who].free + actual,
                                  reserved |-> balances[who].reserved - actual]
    OBVIOUS
  <2>3. Unreserve(balances, who, amount) = [balances EXCEPT ![who] = account]
    BY <2>1, <2>2 DEF Unreserve
  <2>4. TokensOf(account) = Own(who)
    BY <1>2, <2>1, <2>2 DEF TokensOf
  <2> QED
    BY <1>1, <2>3, <2>4 DEF LedgerOver, Own
<1>5. ASSUME CanWithdraw(balances, Pot, amount)
      PROVE  /\ \A a \in Accounts : TokensOf(Payout(who, amount)[a]) >= Own(a)
             /\ Own(who) > 0 => Payout(who, amount)[who].free = balances[who].free + amount
  <2>1. PICK mid : mid = WithdrawAllowDeath(balances, Pot, amount)
    OBVIOUS
  <2>2. mid \in LedgerOver(Holders) /\ \A h \in Holders : h # Pot => mid[h] = balances[h]
    BY <1>1, <1>5, <2>1, WithdrawAllowDeathEffect
  <2>3. PICK after : after = DepositCreating(mid, who, amount)
    OBVIOUS
  <2>4. /\ after \in LedgerOver(Holders)
        /\ \A h \in Holders : h # who => after[h] = mid[h]
        /\ \/ after[who].free = mid[who].free + amount
           \/ /\ after = mid
              /\ mid[who].free = 0 /\ mid[who].reserved = 0
              /\ amount < ExistentialDeposit
        /\ after[who].reserved = mid[who].reserved
    <3>1. mid \in LedgerOver(Holders) /\ who \in Holders
      BY <1>1, <2>2
    <3> QED
      BY <2>3, <3>1, DepositEffect
  <2>5. Payout(who, amount) = after
    BY <2>1, <2>3 DEF Payout
  <2>6. \A a \in Accounts : mid[a] = balances[a]
    BY <1>1, <2>2
  <2>7. ASSUME NEW a \in Accounts PROVE TokensOf(after[a]) >= Own(a)
    <3>1. CASE a # who
      BY <1>1, <1>2, <2>4, <2>6, <3>1 DEF Own
    <3>2. CASE a = who
      BY <1>2, <2>4, <2>6, <3>2 DEF TokensOf
    <3> QED
      BY <3>1, <3>2
  <2>8. Own(who) > 0 => after[who].free = balances[who].free + amount
    BY <1>2, <2>4, <2>6
  <2> QED
    BY <2>5, <2>7, <2>8
<1>6. \A a \in Accounts : DepositCreating(balances, Pot, amount)[a] = balances[a]
  BY ReservedBalances
<1> QED
  BY <1>2, <1>3, <1>4, <1>5, <1>6

(* A stake in an era that counts belongs to an account that exists, and    *)
(* the provider has a record of that era, which the reward is worked out   *)
(* from.                                                                   *)
Entitled ==
  \A a \in Accounts, p \in Providers :
    /\ NoEraZero(delegationInfo[a][p])
    /\ delegationInfo[a][p] # <<>> => Own(a) > 0
    /\ \A e \in Eras :
         IsRegistered(p) /\ e <= LatestEra(p) /\ providerEraInfo[p][e] = None
           => StakedAt(delegationInfo[a][p], e) = 0

LEMMA InitEntitled == Init => Entitled
<1> SUFFICES ASSUME Init PROVE Entitled
  OBVIOUS
<1>1. \A a \in Accounts, p \in Providers : delegationInfo[a][p] = <<>> /\ ~IsRegistered(p)
  BY DEF Init, IsRegistered
<1> QED
  BY <1>1 DEF Entitled, NoEraZero

(* A step that changes no vector and makes no account poorer.              *)
LEMMA EntitledQuiet ==
  ASSUME Entitled, delegationInfo' = delegationInfo,
         \A a \in Accounts : Own(a) \in Nat /\ Own(a)' \in Nat /\ Own(a)' >= Own(a),
         \A p \in Providers, e \in Eras :
           IsRegistered(p)' /\ e <= LatestEra(p)' /\ providerEraInfo'[p][e] = None =>
             \/ IsRegistered(p) /\ e <= LatestEra(p) /\ providerEraInfo[p][e] = None
             \/ \A a \in Accounts : delegationInfo[a][p] = <<>>
  PROVE  Entitled'
<1>1. \A e \in Eras : StakedAt(<<>>, e) = 0
  BY DEF StakedAt
<1> SUFFICES ASSUME NEW a \in Accounts, NEW p \in Providers
             PROVE  /\ NoEraZero(delegationInfo[a][p])
                    /\ delegationInfo[a][p] # <<>> => Own(a)' > 0
                    /\ \A e \in Eras :
                         IsRegistered(p)' /\ e <= LatestEra(p)' /\ providerEraInfo'[p][e] = None
                           => StakedAt(delegationInfo[a][p], e) = 0
  BY DEF Entitled
<1>2. NoEraZero(delegationInfo[a][p])
  BY DEF Entitled
<1>3. delegationInfo[a][p] # <<>> => Own(a)' > 0
  BY DEF Entitled
<1>4. ASSUME NEW e \in Eras, IsRegistered(p)' /\ e <= LatestEra(p)',
             providerEraInfo'[p][e] = None
      PROVE  StakedAt(delegationInfo[a][p], e) = 0
  BY <1>1, <1>4 DEF Entitled
<1> QED
  BY <1>2, <1>3, <1>4

(* A step that writes one vector.                                          *)
LEMMA EntitledWritten ==
  ASSUME Entitled, TypeOK, NEW who \in Accounts, NEW p \in Providers, NEW stakes,
         delegationInfo' = [delegationInfo EXCEPT ![who][p] = stakes],
         NoEraZero(stakes), stakes # <<>> => Own(who) > 0,
         \A a \in Accounts : Own(a) \in Nat /\ Own(a)' \in Nat /\ Own(a)' >= Own(a),
         UNCHANGED <<era, providerInfo>>,
         \A q \in Providers, e \in Eras :
           providerEraInfo'[q][e] = None => providerEraInfo[q][e] = None,
         \A e \in Eras : IsRegistered(p) /\ e <= LatestEra(p) /\ providerEraInfo'[p][e] = None =>
           StakedAt(stakes, e) \in {0, StakedAt(delegationInfo[who][p], e)}
  PROVE  Entitled'
<1>1. \A a \in Accounts, q \in Providers :
        delegationInfo'[a][q] = IF a = who /\ q = p THEN stakes ELSE delegationInfo[a][q]
  BY DEF TypeOK
<1>2. \A q \in Providers : /\ IsRegistered(q)' <=> IsRegistered(q)
                           /\ LatestEra(q)' = LatestEra(q)
  BY DEF IsRegistered, LatestEra
<1> SUFFICES ASSUME NEW a \in Accounts, NEW q \in Providers
             PROVE  /\ NoEraZero(delegationInfo'[a][q])
                    /\ delegationInfo'[a][q] # <<>> => Own(a)' > 0
                    /\ \A e \in Eras :
                         IsRegistered(q) /\ e <= LatestEra(q) /\ providerEraInfo'[q][e] = None
                           => StakedAt(delegationInfo'[a][q], e) = 0
  BY <1>2 DEF Entitled
<1>3. CASE a = who /\ q = p
  <2>1. delegationInfo'[a][q] = stakes
    BY <1>1, <1>3
  <2>2. \A e \in Eras :
          IsRegistered(q) /\ e <= LatestEra(q) /\ providerEraInfo'[q][e] = None
            => StakedAt(delegationInfo[a][q], e) = 0
    BY DEF Entitled
  <2>3. \A e \in Eras :
          IsRegistered(q) /\ e <= LatestEra(q) /\ providerEraInfo'[q][e] = None
            => StakedAt(stakes, e) = 0
    BY <1>3, <2>2
  <2>4. stakes # <<>> => Own(a)' > 0
    BY <1>3
  <2> QED
    BY <2>1, <2>3, <2>4
<1>4. CASE ~(a = who /\ q = p)
  <2>1. delegationInfo'[a][q] = delegationInfo[a][q]
    BY <1>1, <1>4
  <2>2. NoEraZero(delegationInfo[a][q])
    BY DEF Entitled
  <2>3. delegationInfo[a][q] # <<>> => Own(a)' > 0
    BY DEF Entitled
  <2>4. \A e \in Eras :
          IsRegistered(q) /\ e <= LatestEra(q) /\ providerEraInfo'[q][e] = None
            => StakedAt(delegationInfo[a][q], e) = 0
    BY DEF Entitled
  <2> QED
    BY <2>1, <2>2, <2>3, <2>4
<1> QED
  BY <1>3, <1>4

(* No step takes tokens from an account.                                   *)
LEMMA OwnGrows ==
  ASSUME LedgerInv, AmountsFit, [Next]_vars
  PROVE  \A a \in Accounts : Own(a) \in Nat /\ Own(a)' \in Nat /\ Own(a)' >= Own(a)
<1>1. TypeOK /\ TypeOK'
  BY NextIndInv DEF LedgerInv, IndInv
<1>2. \A a \in Accounts : Own(a) \in Nat
  <2>1. balances \in LedgerOver(Holders) /\ \A a \in Accounts : a \in Holders
    BY <1>1 DEF TypeOK, LedgerOver, Holders
  <2> QED
    BY <2>1, AccountTokens DEF Own
<1>3. \A a \in Accounts : Own(a)' \in Nat
  <2>1. balances' \in LedgerOver(Holders) /\ \A a \in Accounts : a \in Holders
    BY <1>1 DEF TypeOK, LedgerOver, Holders
  <2> QED
    BY <2>1, AccountTokens DEF Own
<1> SUFFICES \A a \in Accounts : TokensOf(balances'[a]) >= Own(a)
  BY <1>2, <1>3 DEF Own
<1>4. ASSUME balances' = balances PROVE \A a \in Accounts : TokensOf(balances'[a]) >= Own(a)
  BY <1>2, <1>4 DEF Own
<1>5. CASE StartEra \/ ContinueEra \/ UNCHANGED vars \/ \E new \in EraLengths : SetBlocksPerEra(new)
  <2>1. balances' = balances
    BY <1>5 DEF StartEra, ContinueEra, SetBlocksPerEra, vars
  <2> QED
    BY <1>4, <2>1
<1>6. ASSUME NEW who \in Accounts, NEW p \in Providers, NEW v \in Amounts,
             \/ RegisterProvider(who, p, v)
             \/ ProviderBondMore(who, p, v)
             \/ Delegate(who, p, v)
      PROVE  \A a \in Accounts : TokensOf(balances'[a]) >= Own(a)
  <2>1. v \in Nat /\ CanReserve(balances, who, v) /\ balances' = Reserve(balances, who, v)
    BY <1>6, StakingAssumption
       DEF RegisterProvider, ProviderBondMore, Delegate, ReserveFunds
  <2>2. \A a \in Accounts : TokensOf(balances'[a]) = Own(a)
    BY <1>1, <2>1, OwnTokens
  <2> QED
    BY <1>2, <2>2
<1>7. ASSUME NEW who \in Accounts, NEW p \in Providers, NEW v \in Amounts,
             ProviderBondLess(who, p, v) \/ DelegatorUnstake(who, p, v)
      PROVE  \A a \in Accounts : TokensOf(balances'[a]) >= Own(a)
  <2>1. balances' = balances
    BY <1>7 DEF ProviderBondLess, DelegatorUnstake
  <2> QED
    BY <1>4, <2>1
<1>8. ASSUME NEW who \in Accounts, NEW amount \in Nat, balances' = Unreserve(balances, who, amount)
      PROVE  \A a \in Accounts : TokensOf(balances'[a]) >= Own(a)
  <2>1. \A a \in Accounts : TokensOf(balances'[a]) = Own(a)
    BY <1>1, <1>8, OwnTokens
  <2> QED
    BY <1>2, <2>1
<1>9. ASSUME NEW who \in Accounts, WithdrawUnbonded(who)
      PROVE  \A a \in Accounts : TokensOf(balances'[a]) >= Own(a)
  <2>1. PICK chunks \in Seq(UnlockingChunk) : chunks = unbondingInfo[who]
    BY <1>1 DEF TypeOK
  <2>2. era.current \in Nat /\ era.current + UnbondingPeriod \in Nat
    BY <1>1, StateTypes, StakingAssumption, SMTT(30)
  <2>3. /\ ChunksOrdered(chunks)
        /\ \A i \in DOMAIN chunks : chunks[i].unlock_era <= era.current + UnbondingPeriod
    BY <2>1 DEF LedgerInv, IndInv, UnbondingWellFormed
  <2>4. ValidChunks(chunks, era.current) \in Seq(UnlockingChunk)
    BY <2>2, <2>3, PartitionProperties
  <2>5. ChunkSum(ValidChunks(unbondingInfo[who], era.current)) \in Nat
    BY <2>1, <2>4, ChunkSumType
  <2> QED
    BY <1>8, <1>9, <2>5 DEF WithdrawUnbonded
<1>10. ASSUME NEW p \in Providers, NEW e \in Eras, ClaimProvider(p, e)
       PROVE  \A a \in Accounts : TokensOf(balances'[a]) >= Own(a)
  <2>1. PICK reward \in Nat : /\ providerInfo[p].owner \in Accounts
                              /\ CanWithdraw(balances, Pot, reward)
                              /\ balances' = Payout(providerInfo[p].owner, reward)
    BY <1>10, ClaimProviderCall
  <2> QED
    BY <1>1, <2>1, OwnTokens
<1>11. ASSUME NEW who \in Accounts, NEW p \in Providers, ClaimDelegator(who, p)
       PROVE  \A a \in Accounts : TokensOf(balances'[a]) >= Own(a)
  <2>1. PICK reward \in Nat : CanWithdraw(balances, Pot, reward) /\ balances' = Payout(who, reward)
    BY <1>11, ClaimDelegatorCall
  <2> QED
    BY <1>1, <2>1, OwnTokens
<1>12. ASSUME NEW who \in Accounts, NEW p \in Providers, DelegatorWithdrawUnregistered(who, p)
       PROVE  \A a \in Accounts : TokensOf(balances'[a]) >= Own(a)
  <2>1. LatestStakedValue(delegationInfo[who][p]) \in Nat
    BY <1>1, StakeFields DEF TypeOK
  <2> QED
    BY <1>8, <1>12, <2>1 DEF DelegatorWithdrawUnregistered
<1>13. ASSUME NEW p \in Providers, ProviderWithdrawUnregistered(p) \/ UnregisterProvider(p)
       PROVE  \A a \in Accounts : TokensOf(balances'[a]) >= Own(a)
  <2>1. CASE UnregisterProvider(p)
    BY <1>4, <2>1 DEF UnregisterProvider
  <2>2. CASE ProviderWithdrawUnregistered(p)
    <3>1. /\ IsUnregistered(p)
          /\ balances' = Unreserve(balances, providerInfo[p].owner,
                           ProviderEraInfoOrDefault(p, providerInfo[p].status).bond)
      BY <2>2 DEF ProviderWithdrawUnregistered, UnregisteredUnbonded
    <3>2. providerInfo[p].owner \in Accounts /\ providerInfo[p].status \in Eras
      BY <1>1, <3>1, StateTypes DEF IsUnregistered
    <3>3. ProviderEraInfoOrDefault(p, providerInfo[p].status).bond \in Nat
      BY <1>1, <3>2, StorageDefaultType DEF ProviderEraMetadata
    <3> QED
      BY <1>8, <3>1, <3>2, <3>3
  <2> QED
    BY <1>13, <2>1, <2>2
<1>14. ASSUME NEW v \in Rewards, HandleImbalance(v)
       PROVE  \A a \in Accounts : TokensOf(balances'[a]) >= Own(a)
  <2>1. v \in Nat /\ balances' = DepositCreating(balances, Pot, v)
    BY <1>14, StakingAssumption DEF HandleImbalance
  <2>2. \A a \in Accounts : balances'[a] = balances[a]
    BY <1>1, <2>1, OwnTokens
  <2> QED
    BY <1>2, <2>2 DEF Own
<1> QED
  BY <1>5, <1>6, <1>7, <1>9, <1>10, <1>11, <1>12, <1>13, <1>14 DEF Next

(* A step that leaves what is registered, and since when, and writes       *)
(* records but removes none.                                               *)
LEMMA EntitledSame ==
  ASSUME Entitled, delegationInfo' = delegationInfo,
         \A a \in Accounts : Own(a) \in Nat /\ Own(a)' \in Nat /\ Own(a)' >= Own(a),
         \A q \in Providers : /\ IsRegistered(q)' <=> IsRegistered(q)
                              /\ LatestEra(q)' = LatestEra(q),
         \A q \in Providers, e \in Eras :
           providerEraInfo'[q][e] = None => providerEraInfo[q][e] = None
  PROVE  Entitled'
BY EntitledQuiet

LEMMA StakeCallEntitled ==
  ASSUME LedgerInv, Entitled, AmountsFit, Next,
         NEW who \in Accounts, NEW p \in Providers, NEW v \in Amounts,
         \/ ProviderBondMore(who, p, v)
         \/ ProviderBondLess(who, p, v)
         \/ Delegate(who, p, v)
         \/ DelegatorUnstake(who, p, v)
  PROVE  Entitled'
<1> DEFINE c == era.current
           vector == delegationInfo[who][p]
<1>1. /\ TypeOK /\ vector \in Seq(EraStake) /\ EntriesOrdered(vector, c)
      /\ c \in Eras /\ c \in Nat /\ NoEraZero(vector)
  BY StateTypes DEF LedgerInv, IndInv, TypeOK, DelegationsWellFormed, Entitled
<1>2. \A a \in Accounts : Own(a) \in Nat /\ Own(a)' \in Nat /\ Own(a)' >= Own(a)
  BY OwnGrows
<1>3. PICK info, staked, stakes :
        /\ info \in ProviderEraMetadata
        /\ StakeCall(who, p, info, staked, stakes)
        /\ NoEraZero(stakes)
        /\ stakes # <<>> => Own(who) > 0
        /\ \A e \in Eras : e < c => StakedAt(stakes, e) = StakedAt(vector, e)
  <2>1. CASE ProviderBondMore(who, p, v)
    <3>1. PICK info, staked :
            info \in ProviderEraMetadata /\ StakeCall(who, p, info, staked, vector)
      BY <2>1, ProviderBondMoreCall
    <3> QED
      BY <1>1, <3>1 DEF Entitled
  <2>2. CASE ProviderBondLess(who, p, v)
    <3>1. PICK info, staked :
            info \in ProviderEraMetadata /\ StakeCall(who, p, info, staked, vector)
      BY <2>2, ProviderBondLessCall
    <3> QED
      BY <1>1, <3>1 DEF Entitled
  <2>3. CASE Delegate(who, p, v)
    <3> DEFINE stakes == Stake(vector, c, v)
    <3>1. /\ InBlock /\ v \in Nat /\ v > 0 /\ CanReserve(balances, who, v)
          /\ StakeOf(who, p) \in Nat
          /\ \A e \in Nat : StakedAt(stakes, e) =
               IF e >= c THEN StakeOf(who, p) + v ELSE StakedAt(vector, e)
      BY <2>3, DelegateCall
    <3>2. PICK info, staked :
            info \in ProviderEraMetadata /\ StakeCall(who, p, info, staked, stakes)
      BY <2>3, DelegateCall
    <3>3. c > 0
      BY <3>1, InCall
    <3>4. NoEraZero(stakes)
      BY <1>1, <3>1, <3>3, VectorsNoEraZero
    <3>5. Own(who) > 0
      <4>1. /\ balances[who].free \in Nat /\ balances[who].reserved \in Nat
            /\ Own(who) = balances[who].free + balances[who].reserved
        BY <1>1 DEF TypeOK, Account, Own, TokensOf, Holders
      <4> QED
        BY <3>1, <4>1 DEF CanReserve
    <3> HIDE DEF stakes
    <3>6. \A e \in Eras : e < c => StakedAt(stakes, e) = StakedAt(vector, e)
      BY <1>1, <3>1 DEF Eras
    <3> QED
      BY <3>2, <3>4, <3>5, <3>6
  <2>4. CASE DelegatorUnstake(who, p, v)
    <3> DEFINE amount == UnstakeAmount(StakeOf(who, p), v)
               stakes == Unstake(vector, c, amount)
    <3>1. /\ InBlock /\ amount \in Nat /\ StakeOf(who, p) > 0
          /\ \A e \in Nat : StakedAt(stakes, e) =
               IF e >= c THEN StakeOf(who, p) - amount ELSE StakedAt(vector, e)
      BY <2>4, DelegatorUnstakeCall
    <3>2. PICK info, staked :
            info \in ProviderEraMetadata /\ StakeCall(who, p, info, staked, stakes)
      BY <2>4, DelegatorUnstakeCall
    <3>3. c > 0
      BY <3>1, InCall
    <3>4. NoEraZero(stakes)
      BY <1>1, <3>1, <3>3, VectorsNoEraZero
    <3>5. vector # <<>>
      BY <3>1 DEF StakeOf, LatestStakedValue
    <3> HIDE DEF stakes, amount
    <3>6. \A e \in Eras : e < c => StakedAt(stakes, e) = StakedAt(vector, e)
      BY <1>1, <3>1 DEF Eras
    <3> QED
      BY <3>2, <3>4, <3>5, <3>6 DEF Entitled
  <2> QED
    BY <2>1, <2>2, <2>3, <2>4
<1>4. /\ delegationInfo' = [delegationInfo EXCEPT ![who][p] = stakes]
      /\ providerEraInfo' = [providerEraInfo EXCEPT ![p][c] = info]
      /\ UNCHANGED <<era, providerInfo>>
      /\ IsActiveProvider(p)
  BY <1>3 DEF StakeCall
<1>5. \A q \in Providers, e \in Eras :
        providerEraInfo'[q][e] = IF q = p /\ e = c THEN info ELSE providerEraInfo[q][e]
  BY <1>1, <1>4 DEF TypeOK
<1>6. info # None
  BY <1>3, NoneAssumption
<1>7. \A q \in Providers, e \in Eras :
        providerEraInfo'[q][e] = None => providerEraInfo[q][e] = None
  BY <1>5, <1>6
<1>8. ASSUME NEW e \in Eras, e <= LatestEra(p), providerEraInfo'[p][e] = None
      PROVE  StakedAt(stakes, e) \in {0, StakedAt(vector, e)}
  <2>1. LatestEra(p) = c /\ e # c
    BY <1>4, <1>5, <1>6, <1>8 DEF LatestEra, IsActiveProvider
  <2>2. e < c
    BY <1>1, <1>8, <2>1 DEF Eras
  <2> QED
    BY <1>3, <2>2
<1> QED
  BY <1>1, <1>2, <1>3, <1>4, <1>7, <1>8, EntitledWritten

(* What a claim is for: the oldest entry's stake, on a provider with a     *)
(* record of that era.                                                     *)
LEMMA ClaimEntitled ==
  ASSUME LedgerInv, Entitled, NEW who \in Accounts, NEW p \in Providers,
         ClaimDelegator(who, p)
  PROVE  LET vector == delegationInfo[who][p]
             e      == vector[1].era
         IN  /\ StakedAt(vector, e) = vector[1].amount
             /\ providerEraInfo[p][e] # None
             /\ Own(who) > 0
             /\ balances'[who].free = balances[who].free
                  + DelegatorReward(vector[1].amount, providerEraInfo[p][e], eraState[e])
<1> DEFINE vector == delegationInfo[who][p]
           e == vector[1].era
           reward == DelegatorReward(vector[1].amount,
                                     ProviderEraInfoOrDefault(p, e), eraState[e])
<1>1. /\ EraClaimable(p, e) /\ IsRegistered(p)
      /\ vector # <<>> /\ vector \in Seq(EraStake) /\ EntriesOrdered(vector, era.current)
      /\ e \in Eras /\ e < era.current
      /\ vector[1].amount \in Nat /\ vector[1].amount > 0
      /\ reward \in Nat
      /\ CanWithdraw(balances, Pot, reward)
      /\ balances' = Payout(who, reward)
  BY ClaimDelegatorCall
<1>0. e = vector[1].era
  OBVIOUS
<1> HIDE DEF vector, e, reward
<1>2. TypeOK
  BY DEF LedgerInv, IndInv
<1>3. StakedAt(vector, e) = vector[1].amount
  <2>1. /\ DOMAIN vector = 1..Len(vector) /\ Len(vector) \in Nat /\ Len(vector) >= 1
        /\ e \in Nat
    BY <1>1, StakeFields DEF Eras
  <2>2. 1 \in DOMAIN vector
    BY <2>1
  <2>3. Covers(vector, 1, e)
    BY <1>0, <1>1, <2>1, <2>2 DEF Covers, EntriesOrdered
  <2> QED
    BY <1>1, <2>1, <2>2, <2>3, StakedAtEntry
<1>4. e <= LatestEra(p)
  <2>1. LatestEra(p) \in Nat /\ e \in Nat /\ e < LatestEra(p)
    BY <1>1, <1>2, StateTypes DEF LatestEra, EraClaimable, Eras
  <2> QED
    BY <2>1
<1>5. providerEraInfo[p][e] # None
  BY <1>1, <1>3, <1>4 DEF Entitled, vector
<1>6. Own(who) > 0
  BY <1>1 DEF Entitled, vector
<1>7. reward = DelegatorReward(vector[1].amount, providerEraInfo[p][e], eraState[e])
  BY <1>5 DEF ProviderEraInfoOrDefault, reward
<1>8. balances'[who].free = balances[who].free + reward
  BY <1>1, <1>2, <1>6, OwnTokens
<1> QED
  BY <1>3, <1>5, <1>6, <1>7, <1>8 DEF e, vector

LEMMA NextEntitled ==
  ASSUME LedgerInv, Entitled, AmountsFit, [Next]_vars
  PROVE  Entitled'
<1>1. \A a \in Accounts : Own(a) \in Nat /\ Own(a)' \in Nat /\ Own(a)' >= Own(a)
  BY OwnGrows
<1>2. TypeOK /\ Recorded /\ era.current \in Eras /\ era.current \in Nat
  BY StateTypes DEF LedgerInv, IndInv
<1>3. CASE StartEra
  <2> DEFINE c == era.current
  <2>1. /\ c + 1 \in Eras /\ delegationInfo' = delegationInfo
        /\ \A q \in Providers : IsRegistered(q)' <=> IsRegistered(q)
        /\ \A q \in Providers : IsRegistered(q) <=> IsActiveProvider(q) \/ IsUnregistered(q)
        /\ \A q \in Providers : IsActiveProvider(q) => LatestEra(q)' = c + 1 /\ LatestEra(q) = c
        /\ \A q \in Providers : IsUnregistered(q) => LatestEra(q)' = LatestEra(q)
        /\ \A q \in Providers : IsUnregistered(q) =>
             LatestEra(q) \in Eras /\ LatestEra(q) <= c /\ LatestEra(q) # c + 1
        /\ \A q \in Providers, e \in Eras : e # c + 1 =>
             providerEraInfo'[q][e] = providerEraInfo[q][e]
        /\ \A q \in Providers : IsActiveProvider(q) => providerEraInfo'[q][c + 1] # None
    BY <1>3, StartEraCall
  <2>2. ASSUME NEW q \in Providers, NEW e \in Eras, IsRegistered(q)', e <= LatestEra(q)',
               providerEraInfo'[q][e] = None
        PROVE  IsRegistered(q) /\ e <= LatestEra(q) /\ providerEraInfo[q][e] = None
    <3>1. CASE IsActiveProvider(q)
      <4>1. e # c + 1 /\ e <= c + 1 /\ e \in Nat
        BY <2>1, <2>2, <3>1 DEF Eras
      <4> QED
        BY <1>2, <2>1, <2>2, <3>1, <4>1
    <3>2. CASE IsUnregistered(q)
      <4>1. e <= LatestEra(q)
        BY <2>1, <2>2, <3>2
      <4>2. e # c + 1
        <5>1. e \in Nat /\ LatestEra(q) \in Nat /\ LatestEra(q) <= c
          BY <2>1, <3>2 DEF Eras
        <5> QED
          BY <1>2, <4>1, <5>1
      <4> QED
        BY <2>1, <2>2, <4>1, <4>2
    <3> QED
      BY <2>1, <2>2, <3>1, <3>2
  <2> QED
    BY <1>1, <2>1, <2>2, EntitledQuiet
<1>4. CASE \/ ContinueEra
           \/ \E new \in EraLengths : SetBlocksPerEra(new)
           \/ \E a \in Accounts : WithdrawUnbonded(a)
           \/ \E v \in Rewards : HandleImbalance(v)
           \/ UNCHANGED vars
  <2>1. /\ UNCHANGED <<providerInfo, providerEraInfo, delegationInfo>>
        /\ era' = era \/ \E new \in EraLengths : era' = [era EXCEPT !.length = new]
    BY <1>4 DEF ContinueEra, SetBlocksPerEra, WithdrawUnbonded, HandleImbalance,
                stakingVars, vars
  <2>2. era'.current = era.current
    BY <2>1, <1>2 DEF TypeOK, EraInfo
  <2>3. \A q \in Providers : /\ IsRegistered(q)' <=> IsRegistered(q)
                             /\ LatestEra(q)' = LatestEra(q)
    BY <2>1, <2>2 DEF IsRegistered, LatestEra
  <2> QED
    BY <1>1, <2>1, <2>3, EntitledSame
<1>5. ASSUME NEW who \in Accounts, NEW p \in Providers, NEW v \in Amounts,
             RegisterProvider(who, p, v)
      PROVE  Entitled'
  <2>1. /\ ~IsRegistered(p) /\ delegationInfo' = delegationInfo
        /\ \A q \in Providers : q # p =>
             /\ IsRegistered(q)' <=> IsRegistered(q)
             /\ LatestEra(q)' = LatestEra(q)
        /\ \A q \in Providers, e \in Eras : q # p \/ e # era.current =>
             providerEraInfo'[q][e] = providerEraInfo[q][e]
    BY <1>5, RegisterProviderCall
  <2>2. \A a \in Accounts : delegationInfo[a][p] = <<>>
    BY <1>2, <2>1 DEF Recorded
  <2> QED
    BY <1>1, <2>1, <2>2, EntitledQuiet
<1>6. ASSUME NEW who \in Accounts, NEW p \in Providers, NEW v \in Amounts,
             \/ ProviderBondMore(who, p, v)
             \/ ProviderBondLess(who, p, v)
             \/ Delegate(who, p, v)
             \/ DelegatorUnstake(who, p, v)
      PROVE  Entitled'
  BY <1>6, StakeCallEntitled DEF Next
<1>7. ASSUME NEW p \in Providers, NEW f \in Eras, ClaimProvider(p, f)
      PROVE  Entitled'
  <2> DEFINE info == [providerEraInfo[p][f] EXCEPT !.provider_reward_claimed = TRUE]
  <2>1. /\ info # None /\ providerEraInfo' = [providerEraInfo EXCEPT ![p][f] = info]
        /\ UNCHANGED <<era, providerInfo, delegationInfo>>
    BY <1>7, ClaimProviderCall
  <2> HIDE DEF info
  <2>2. \A q \in Providers, e \in Eras :
          providerEraInfo'[q][e] = None => providerEraInfo[q][e] = None
    BY <1>2, <2>1 DEF TypeOK
  <2>3. \A q \in Providers : /\ IsRegistered(q)' <=> IsRegistered(q)
                             /\ LatestEra(q)' = LatestEra(q)
    BY <2>1 DEF IsRegistered, LatestEra
  <2> QED
    BY <1>1, <2>1, <2>2, <2>3, EntitledSame
<1>8. ASSUME NEW who \in Accounts, NEW p \in Providers, ClaimDelegator(who, p)
      PROVE  Entitled'
  <2> DEFINE vector == delegationInfo[who][p]
             stakes == Claim(vector)
  <2>1. /\ InBlock /\ vector # <<>> /\ vector \in Seq(EraStake)
        /\ EntriesOrdered(vector, era.current)
        /\ \A f \in Nat : StakedAt(stakes, f) =
             IF f = vector[1].era THEN 0 ELSE StakedAt(vector, f)
        /\ delegationInfo' = [delegationInfo EXCEPT ![who][p] = stakes]
        /\ UNCHANGED <<era, providerInfo, providerEraInfo>>
    BY <1>8, ClaimDelegatorCall
  <2>2. era.current > 0 /\ NoEraZero(vector) /\ Own(who) > 0
    BY <2>1, InCall DEF Entitled
  <2>3. NoEraZero(stakes)
    BY <1>2, <2>1, <2>2, VectorsNoEraZero
  <2> HIDE DEF stakes
  <2>4. \A e \in Eras : StakedAt(stakes, e) \in {0, StakedAt(vector, e)}
    BY <2>1 DEF Eras
  <2> QED
    BY <1>1, <1>2, <2>1, <2>2, <2>3, <2>4, EntitledWritten
<1>9. ASSUME NEW who \in Accounts, NEW p \in Providers, DelegatorWithdrawUnregistered(who, p)
      PROVE  Entitled'
  <2>1. /\ delegationInfo' = [delegationInfo EXCEPT ![who][p] = <<>>]
        /\ UNCHANGED <<era, providerInfo, providerEraInfo>>
    BY <1>9 DEF DelegatorWithdrawUnregistered
  <2>2. NoEraZero(<<>>) /\ \A e \in Eras : StakedAt(<<>>, e) = 0
    BY DEF NoEraZero, StakedAt
  <2>3. PICK stakes : stakes = <<>>
    OBVIOUS
  <2> QED
    BY <1>1, <1>2, <2>1, <2>2, <2>3, EntitledWritten
<1>10. ASSUME NEW p \in Providers, ProviderWithdrawUnregistered(p) \/ UnregisterProvider(p)
       PROVE  Entitled'
  <2>1. /\ UNCHANGED <<providerEraInfo, delegationInfo>>
        /\ \A q \in Providers : /\ IsRegistered(q)' <=> IsRegistered(q)
                                /\ LatestEra(q)' = LatestEra(q)
    BY <1>10, ProviderWithdrawCall, UnregisterProviderCall
  <2> QED
    BY <1>1, <2>1, EntitledSame
<1> QED
  BY <1>3, <1>4, <1>5, <1>6, <1>7, <1>8, <1>9, <1>10 DEF Next

PaidOnce ==
  \A a \in Accounts, p \in Providers, e \in Eras :
    EraClaimable(p, e) => EntitlementKept(a, p, e)

(* The stakes of the eras that can be claimed stay recorded.               *)
StakesKept ==
  \A a \in Accounts, p \in Providers, e \in Eras :
    EraClaimable(p, e) =>
      StakedAt(delegationInfo'[a][p], e) = StakedAt(delegationInfo[a][p], e)

(* The stakes of the eras before the current one stay.                     *)
LEMMA FinishedStakesKept ==
  ASSUME TypeOK, NEW who \in Accounts, NEW q \in Providers, NEW stakes,
         delegationInfo' = [delegationInfo EXCEPT ![who][q] = stakes],
         \A e \in Eras : e < era.current =>
           StakedAt(stakes, e) = StakedAt(delegationInfo[who][q], e)
  PROVE  StakesKept
<1> SUFFICES ASSUME NEW a \in Accounts, NEW p \in Providers, NEW e \in Eras, EraClaimable(p, e)
             PROVE  StakedAt(delegationInfo'[a][p], e) = StakedAt(delegationInfo[a][p], e)
  BY DEF StakesKept
<1>1. delegationInfo'[a][p] = IF a = who /\ p = q THEN stakes ELSE delegationInfo[a][p]
  BY DEF TypeOK
<1> QED
  BY <1>1 DEF EraClaimable

(* Only a claim takes a stake off the record.                              *)
LEMMA NextKeepsStakes ==
  ASSUME LedgerInv, Entitled, AmountsFit, Next,
         ~\E who \in Accounts, q \in Providers : ClaimDelegator(who, q)
  PROVE  StakesKept
<1>1. TypeOK /\ era.current \in Eras /\ era.current \in Nat
  BY StateTypes DEF LedgerInv, IndInv
<1>2. ASSUME delegationInfo' = delegationInfo PROVE StakesKept
  BY <1>2 DEF StakesKept
<1>3. CASE \/ StartEra
           \/ ContinueEra
           \/ \E new \in EraLengths : SetBlocksPerEra(new)
           \/ \E a \in Accounts : WithdrawUnbonded(a)
           \/ \E v \in Rewards : HandleImbalance(v)
           \/ \E p \in Providers, e \in Eras : ClaimProvider(p, e)
           \/ \E p \in Providers : ProviderWithdrawUnregistered(p) \/ UnregisterProvider(p)
  <2>1. delegationInfo' = delegationInfo
    BY <1>3 DEF StartEra, ContinueEra, SetBlocksPerEra, WithdrawUnbonded, HandleImbalance,
                ClaimProvider, ProviderWithdrawUnregistered, UnregisterProvider, stakingVars
  <2> QED
    BY <1>2, <2>1
<1>4. ASSUME NEW who \in Accounts, NEW q \in Providers, NEW v \in Amounts,
             \/ RegisterProvider(who, q, v)
             \/ ProviderBondMore(who, q, v)
             \/ ProviderBondLess(who, q, v)
      PROVE  StakesKept
  <2>1. delegationInfo' = delegationInfo
    BY <1>4 DEF RegisterProvider, ProviderBondMore, ProviderBondLess
  <2> QED
    BY <1>2, <2>1
<1>5. ASSUME NEW who \in Accounts, NEW q \in Providers, NEW v \in Amounts, Delegate(who, q, v)
      PROVE  StakesKept
  <2> DEFINE stakes == Stake(delegationInfo[who][q], era.current, v)
  <2>1. \A e \in Nat : StakedAt(stakes, e) =
          IF e >= era.current THEN StakeOf(who, q) + v
                              ELSE StakedAt(delegationInfo[who][q], e)
    BY <1>5, DelegateCall
  <2>3. PICK info, staked : StakeCall(who, q, info, staked, stakes)
    BY <1>5, DelegateCall
  <2> HIDE DEF stakes
  <2>4. delegationInfo' = [delegationInfo EXCEPT ![who][q] = stakes]
    BY <2>3 DEF StakeCall
  <2>2. \A e \in Eras : e < era.current =>
          StakedAt(stakes, e) = StakedAt(delegationInfo[who][q], e)
    BY <1>1, <2>1 DEF Eras
  <2> QED
    BY <1>1, <2>2, <2>4, FinishedStakesKept
<1>6. ASSUME NEW who \in Accounts, NEW q \in Providers, NEW v \in Amounts,
             DelegatorUnstake(who, q, v)
      PROVE  StakesKept
  <2> DEFINE amount == UnstakeAmount(StakeOf(who, q), v)
             stakes == Unstake(delegationInfo[who][q], era.current, amount)
  <2>1. \A e \in Nat : StakedAt(stakes, e) =
          IF e >= era.current THEN StakeOf(who, q) - amount
                              ELSE StakedAt(delegationInfo[who][q], e)
    BY <1>6, DelegatorUnstakeCall
  <2>3. PICK info, staked : StakeCall(who, q, info, staked, stakes)
    BY <1>6, DelegatorUnstakeCall
  <2> HIDE DEF stakes
  <2>4. delegationInfo' = [delegationInfo EXCEPT ![who][q] = stakes]
    BY <2>3 DEF StakeCall
  <2>2. \A e \in Eras : e < era.current =>
          StakedAt(stakes, e) = StakedAt(delegationInfo[who][q], e)
    BY <1>1, <2>1 DEF Eras
  <2> QED
    BY <1>1, <2>2, <2>4, FinishedStakesKept
<1>7. ASSUME NEW who \in Accounts, NEW q \in Providers, DelegatorWithdrawUnregistered(who, q)
      PROVE  StakesKept
  <2> DEFINE vector == delegationInfo[who][q]
  <2>1. /\ delegationInfo' = [delegationInfo EXCEPT ![who][q] = <<>>]
        /\ IsUnregistered(q) /\ LatestStakedValue(vector) > 0 /\ RewardsClaimed(who, q)
    BY <1>7 DEF DelegatorWithdrawUnregistered, UnregisteredUnbonded
  <2>2. /\ vector # <<>> /\ vector \in Seq(EraStake) /\ EntriesOrdered(vector, era.current)
        /\ NoEraZero(vector)
    BY <1>1, <2>1
       DEF LatestStakedValue, TypeOK, LedgerInv, IndInv, DelegationsWellFormed, Entitled
  <2>3. /\ DOMAIN vector = 1..Len(vector) /\ Len(vector) \in Nat /\ Len(vector) >= 1
        /\ \A i \in 1..Len(vector) : vector[i].era \in Nat
        /\ 1 \in DOMAIN vector
    <3>1. /\ DOMAIN vector = 1..Len(vector) /\ Len(vector) \in Nat /\ Len(vector) >= 1
          /\ \A i \in 1..Len(vector) : vector[i].era \in Nat
      BY <2>2, StakeFields
    <3> QED
      BY <3>1
  <2>4. vector[1].era >= providerInfo[q].status
    <3>1. ClaimedStake(vector) = vector[1] /\ vector[1].era # 0
      BY <2>2, <2>3 DEF ClaimedStake, NoEraZero
    <3> QED
      BY <2>1, <3>1 DEF RewardsClaimed
  <2>5. providerInfo[q].status \in Eras /\ providerInfo[q].status # Active
    BY <1>1, <2>1, StateTypes DEF IsUnregistered
  <2> SUFFICES ASSUME NEW a \in Accounts, NEW p \in Providers, NEW e \in Eras,
                      EraClaimable(p, e)
               PROVE  StakedAt(delegationInfo'[a][p], e) = StakedAt(delegationInfo[a][p], e)
    BY DEF StakesKept
  <2>6. delegationInfo'[a][p] = IF a = who /\ p = q THEN <<>> ELSE delegationInfo[a][p]
    BY <1>1, <2>1 DEF TypeOK
  <2>7. CASE a = who /\ p = q
    <3>1. e < providerInfo[q].status /\ e \in Nat /\ providerInfo[q].status \in Nat
      BY <2>5, <2>7 DEF EraClaimable, Eras
    <3>2. ASSUME NEW i \in DOMAIN vector PROVE vector[i].era > e
      <4>1. i = 1 \/ i > 1
        BY <2>3
      <4>2. vector[i].era >= vector[1].era /\ vector[i].era \in Nat /\ vector[1].era \in Nat
        BY <2>2, <2>3, <4>1 DEF EntriesOrdered
      <4> QED
        BY <2>4, <3>1, <4>2
    <3>3. StakedAt(vector, e) = 0
      BY <2>2, <3>1, <3>2, StakedAtNone
    <3>4. StakedAt(<<>>, e) = 0
      BY DEF StakedAt
    <3> QED
      BY <2>6, <2>7, <3>3, <3>4
  <2>8. CASE ~(a = who /\ p = q)
    BY <2>6, <2>8
  <2> QED
    BY <2>7, <2>8
<1> QED
  BY <1>3, <1>4, <1>5, <1>6, <1>7 DEF Next

LEMMA NextPaysOnce ==
  ASSUME LedgerInv, Entitled, AmountsFit, Next
  PROVE  PaidOnce
<1>1. TypeOK
  BY DEF LedgerInv, IndInv
<1>2. CASE StakesKept
  BY <1>2 DEF StakesKept, PaidOnce, EntitlementKept
<1>3. ASSUME NEW who \in Accounts, NEW q \in Providers, ClaimDelegator(who, q)
      PROVE  PaidOnce
  <2> DEFINE vector == delegationInfo[who][q]
             f == vector[1].era
             stakes == Claim(vector)
  <2>1. /\ \A e \in Nat : StakedAt(stakes, e) = IF e = f THEN 0 ELSE StakedAt(vector, e)
        /\ delegationInfo' = [delegationInfo EXCEPT ![who][q] = stakes]
        /\ f \in Eras
    BY <1>3, ClaimDelegatorCall
  <2>2. /\ StakedAt(vector, f) = vector[1].amount
        /\ balances'[who].free = balances[who].free
             + DelegatorReward(vector[1].amount, providerEraInfo[q][f], eraState[f])
    BY <1>3, ClaimEntitled
  <2> HIDE DEF stakes, f
  <2> SUFFICES ASSUME NEW a \in Accounts, NEW p \in Providers, NEW e \in Eras
               PROVE  EntitlementKept(a, p, e)
    BY DEF PaidOnce
  <2>3. delegationInfo'[a][p] = IF a = who /\ p = q THEN stakes ELSE delegationInfo[a][p]
    BY <1>1, <2>1 DEF TypeOK
  <2>4. CASE ~(a = who /\ p = q)
    BY <2>3, <2>4 DEF EntitlementKept
  <2>5. CASE a = who /\ p = q
    <3>1. e \in Nat /\ delegationInfo'[a][p] = stakes
      BY <2>3, <2>5 DEF Eras
    <3>2. CASE e # f
      BY <2>1, <2>5, <3>1, <3>2 DEF EntitlementKept
    <3>3. CASE e = f
      <4>1. StakedAt(delegationInfo'[a][p], e) = 0
        BY <2>1, <3>1, <3>3
      <4>2. balances'[a].free = balances[a].free
              + DelegatorReward(StakedAt(delegationInfo[a][p], e), providerEraInfo[p][e],
                                eraState[e])
        BY <2>2, <2>5, <3>3
      <4> QED
        BY <4>1, <4>2 DEF EntitlementKept
    <3> QED
      BY <3>2, <3>3
  <2> QED
    BY <2>4, <2>5
<1> QED
  BY <1>2, <1>3, NextKeepsStakes

(* Whatever calls come, in whatever order: the stake a delegator had in a  *)
(* finished era is forgotten only by the claim_delegator that pays the     *)
(* full reward for it, and once the provider has left, the delegator can   *)
(* leave only when nothing is left to claim.                               *)
THEOREM EntitlementsArePaidOnce ==
  ASSUME IssuanceFits, AmountsFit
  PROVE  Spec => EntitlementsPaidOnce
<1>1. PalletInv /\ Entitled /\ [Next]_vars => (PalletInv /\ Entitled)'
  BY NextPalletInv, NextEntitled DEF PalletInv
<1>2. PalletInv /\ Entitled /\ [Next]_vars => [PaidOnce]_vars
  BY NextPaysOnce DEF PalletInv
<1>3. Init => PalletInv /\ Entitled
  BY InitPalletInv, InitEntitled DEF PalletInv
<1> QED
  BY <1>1, <1>2, <1>3, PTL DEF Spec, EntitlementsPaidOnce, PaidOnce

----------------------------------------------------------------------------
(* The refinement of StakeLedger                                           *)

(* The sum of the ledger's module is the sum of this one.                  *)
LEMMA LedgerSum ==
  ASSUME NEW fun, NEW S
  PROVE  Ledger!SumFunctionOnSet(fun, S) = SumFunctionOnSet(fun, S)
BY SumDef
   DEF Ledger!SumFunctionOnSet, Ledger!FoldFunctionOnSet, Ledger!MapThenFoldSet,
       PartialSums, First

(* What a list of chunks unlocks in an era.                                *)
UnlockAmounts(chunks, e) ==
  [i \in 1..Len(chunks) |-> IF chunks[i].unlock_era = e THEN chunks[i].amount ELSE 0]

UnlockAt(chunks, e) == SumFunctionOnSet(UnlockAmounts(chunks, e), 1..Len(chunks))

LEMMA UnlockAmountsType ==
  ASSUME NEW chunks \in Seq(UnlockingChunk), NEW e
  PROVE  /\ IsFiniteSet(1..Len(chunks))
         /\ \A i \in 1..Len(chunks) :
              /\ UnlockAmounts(chunks, e)[i] =
                   IF chunks[i].unlock_era = e THEN chunks[i].amount ELSE 0
              /\ UnlockAmounts(chunks, e)[i] \in Nat
         /\ UnlockAt(chunks, e) \in Nat
<1>1. IsFiniteSet(1..Len(chunks))
  BY ChunkFields, FS_Interval
<1>2. \A i \in 1..Len(chunks) :
        /\ UnlockAmounts(chunks, e)[i] =
             IF chunks[i].unlock_era = e THEN chunks[i].amount ELSE 0
        /\ UnlockAmounts(chunks, e)[i] \in Nat
  BY ChunkFields DEF UnlockAmounts
<1>3. UnlockAt(chunks, e) \in Nat
  BY <1>1, <1>2, SumNat DEF UnlockAt
<1> QED
  BY <1>1, <1>2, <1>3

LEMMA UnlockAtNone ==
  ASSUME NEW chunks \in Seq(UnlockingChunk), NEW e,
         \A i \in 1..Len(chunks) : chunks[i].unlock_era # e
  PROVE  UnlockAt(chunks, e) = 0
<1>1. /\ IsFiniteSet(1..Len(chunks))
      /\ \A i \in 1..Len(chunks) : UnlockAmounts(chunks, e)[i] = 0
  BY UnlockAmountsType
<1> QED
  BY <1>1, SumZero DEF UnlockAt

(* A sorted list has one chunk for an era at most.                         *)
LEMMA UnlockAtOne ==
  ASSUME NEW chunks \in Seq(UnlockingChunk), ChunksOrdered(chunks),
         NEW k \in 1..Len(chunks)
  PROVE  UnlockAt(chunks, chunks[k].unlock_era) = chunks[k].amount
<1> DEFINE e == chunks[k].unlock_era
           amounts == UnlockAmounts(chunks, e)
           S == 1..Len(chunks)
<1>1. /\ Len(chunks) \in Nat /\ DOMAIN chunks = S
      /\ \A i \in S : chunks[i].unlock_era \in Nat /\ chunks[i].amount \in Nat
  BY ChunkFields
<1>2. \A i \in S : i # k => chunks[i].unlock_era # e
  <2> SUFFICES ASSUME NEW i \in S, i # k PROVE chunks[i].unlock_era # e
    OBVIOUS
  <2>1. i < k \/ k < i
    BY <1>1
  <2>2. chunks[i].unlock_era < e \/ e < chunks[i].unlock_era
    BY <1>1, <2>1 DEF ChunksOrdered
  <2> QED
    BY <1>1, <2>2
<1>3. /\ IsFiniteSet(S)
      /\ \A i \in S : amounts[i] = (IF chunks[i].unlock_era = e THEN chunks[i].amount ELSE 0)
      /\ \A i \in S : amounts[i] \in Int
  <2>1. \A i \in S : amounts[i] \in Nat
    BY UnlockAmountsType
  <2> QED
    BY <2>1, UnlockAmountsType
<1>4. amounts[k] = chunks[k].amount /\ \A i \in S \ {k} : amounts[i] = 0
  BY <1>2, <1>3
<1> HIDE DEF amounts
<1>5. SumFunctionOnSet(amounts, S) = amounts[k] + SumFunctionOnSet(amounts, S \ {k})
  BY <1>3, SumRemove
<1>6. SumFunctionOnSet(amounts, S \ {k}) = 0
  <2>1. IsFiniteSet(S \ {k})
    BY <1>3, FS_RemoveElement
  <2> QED
    BY <1>4, <2>1, SumZero
<1> QED
  BY <1>1, <1>4, <1>5, <1>6 DEF UnlockAt, amounts

(* A new chunk adds its amount to its era and leaves all others.           *)
LEMMA UnlockAdded ==
  ASSUME NEW chunks \in Seq(UnlockingChunk), ChunksOrdered(chunks),
         NEW amount \in Nat, NEW u \in Nat,
         \A i \in DOMAIN chunks : chunks[i].unlock_era <= u,
         ChunkTotal(chunks) + amount <= MaxBalance,
         NEW e
  PROVE  UnlockAt(AddChunk(chunks, NewChunk(amount, u)), e) =
           UnlockAt(chunks, e) + (IF e = u THEN amount ELSE 0)
<1>1. PICK result : result = AddChunk(chunks, NewChunk(amount, u))
  OBVIOUS
<1>2. result \in Seq(UnlockingChunk) /\ ChunksOrdered(result)
  BY <1>1, AddChunkProperties
<1>3. ChunkAdded(chunks, result, amount, u)
  BY <1>1, AddChunkProperties
<1>4. /\ Len(chunks) \in Nat /\ DOMAIN chunks = 1..Len(chunks)
      /\ \A i \in 1..Len(chunks) : chunks[i].unlock_era \in Nat /\ chunks[i].amount \in Nat
  BY ChunkFields
<1>5. UnlockAt(chunks, e) \in Nat
  BY UnlockAmountsType
<1>6. \A n \in Nat, f \in Nat : NewChunk(n, f).unlock_era = f /\ NewChunk(n, f).amount = n
  BY DEF NewChunk
<1>7. CASE /\ Len(result) = Len(chunks)
           /\ \E k \in 1..Len(chunks) :
                /\ chunks[k].unlock_era = u
                /\ result[k] = NewChunk(WrapAdd(chunks[k].amount, amount), u)
                /\ \A i \in 1..Len(chunks) : i # k => result[i] = chunks[i]
  <2>1. PICK k \in 1..Len(chunks) :
          /\ chunks[k].unlock_era = u
          /\ result[k] = NewChunk(WrapAdd(chunks[k].amount, amount), u)
          /\ \A i \in 1..Len(chunks) : i # k => result[i] = chunks[i]
    BY <1>7
  <2>2. /\ chunks[k].amount \in Nat /\ ChunkTotal(chunks) \in Nat
        /\ chunks[k].amount <= ChunkTotal(chunks)
    BY <1>4, ChunkTotalType
  <2>3. WrapAdd(chunks[k].amount, amount) = chunks[k].amount + amount
    <3> DEFINE t == chunks[k].amount + amount
    <3>1. t \in Nat /\ t <= MaxBalance
      BY <2>2, CurrencyAssumption
    <3>2. t % (MaxBalance + 1) = t
      <4> HIDE DEF t
      <4> QED
        BY <3>1, CurrencyAssumption
    <3> QED
      BY <3>2 DEF WrapAdd
  <2>4. result[k].unlock_era = u /\ result[k].amount = chunks[k].amount + amount
    BY <1>6, <2>1, <2>2, <2>3
  <2>5. \A i \in 1..Len(chunks) : result[i].unlock_era = chunks[i].unlock_era
    BY <2>1, <2>4
  <2>6. CASE e = u
    <3>1. UnlockAt(chunks, e) = chunks[k].amount
      BY <2>1, <2>6, UnlockAtOne
    <3>2. UnlockAt(result, e) = result[k].amount
      BY <1>2, <1>7, <2>4, <2>6, UnlockAtOne
    <3> QED
      BY <1>1, <2>4, <2>6, <3>1, <3>2
  <2>7. CASE e # u /\ \E i \in 1..Len(chunks) : chunks[i].unlock_era = e
    <3>1. PICK i \in 1..Len(chunks) : chunks[i].unlock_era = e
      BY <2>7
    <3>2. i # k
      BY <2>1, <2>7, <3>1
    <3>3. UnlockAt(chunks, e) = chunks[i].amount
      BY <3>1, UnlockAtOne
    <3>4. result[i] = chunks[i] /\ i \in 1..Len(result)
      BY <1>7, <2>1, <3>1, <3>2
    <3>5. UnlockAt(result, e) = result[i].amount
      BY <1>2, <3>1, <3>4, UnlockAtOne
    <3> QED
      BY <1>1, <1>5, <2>7, <3>3, <3>4, <3>5
  <2>8. CASE e # u /\ \A i \in 1..Len(chunks) : chunks[i].unlock_era # e
    <3>1. UnlockAt(chunks, e) = 0
      BY <2>8, UnlockAtNone
    <3>2. UnlockAt(result, e) = 0
      BY <1>2, <1>7, <2>5, <2>8, UnlockAtNone
    <3> QED
      BY <1>1, <2>8, <3>1, <3>2
  <2> QED
    BY <2>6, <2>7, <2>8
<1>8. CASE /\ Len(result) = Len(chunks) + 1
           /\ \A i \in 1..Len(chunks) : chunks[i].unlock_era < u /\ result[i] = chunks[i]
           /\ result[Len(chunks) + 1] = NewChunk(amount, u)
  <2>1. \A i \in 1..Len(chunks) : chunks[i].unlock_era # u /\ i \in 1..Len(result)
    BY <1>4, <1>8
  <2>2. /\ Len(chunks) + 1 \in 1..Len(result)
        /\ result[Len(chunks) + 1].unlock_era = u /\ result[Len(chunks) + 1].amount = amount
    BY <1>4, <1>6, <1>8
  <2>3. CASE e = u
    <3>1. UnlockAt(chunks, e) = 0
      BY <2>1, <2>3, UnlockAtNone
    <3>2. UnlockAt(result, e) = amount
      BY <1>2, <2>2, <2>3, UnlockAtOne
    <3> QED
      BY <1>1, <2>3, <3>1, <3>2
  <2>4. CASE e # u /\ \E i \in 1..Len(chunks) : chunks[i].unlock_era = e
    <3>1. PICK i \in 1..Len(chunks) : chunks[i].unlock_era = e
      BY <2>4
    <3>2. UnlockAt(chunks, e) = chunks[i].amount
      BY <3>1, UnlockAtOne
    <3>3. UnlockAt(result, e) = result[i].amount /\ result[i] = chunks[i]
      BY <1>2, <1>8, <2>1, <3>1, UnlockAtOne
    <3> QED
      BY <1>1, <1>5, <2>4, <3>2, <3>3
  <2>5. CASE e # u /\ \A i \in 1..Len(chunks) : chunks[i].unlock_era # e
    <3>1. UnlockAt(chunks, e) = 0
      BY <2>5, UnlockAtNone
    <3>2. \A i \in 1..Len(result) : result[i].unlock_era # e
      <4> TAKE i \in 1..Len(result)
      <4>1. i = Len(chunks) + 1 \/ i \in 1..Len(chunks)
        BY <1>4, <1>8
      <4> QED
        BY <1>8, <2>2, <2>5, <4>1
    <3>3. UnlockAt(result, e) = 0
      BY <1>2, <3>2, UnlockAtNone
    <3> QED
      BY <1>1, <2>5, <3>1, <3>3
  <2> QED
    BY <2>3, <2>4, <2>5
<1> QED
  BY <1>3, <1>7, <1>8 DEF ChunkAdded

(* What is left after a withdrawal unlocks later than now.                 *)
LEMMA UnlockFuture ==
  ASSUME NEW chunks \in Seq(UnlockingChunk), ChunksOrdered(chunks), NEW now \in Nat, NEW e \in Nat
  PROVE  UnlockAt(FutureChunks(chunks, now), e) = IF e <= now THEN 0 ELSE UnlockAt(chunks, e)
<1>1. /\ Len(chunks) \in Nat /\ DOMAIN chunks = 1..Len(chunks)
      /\ \A i \in 1..Len(chunks) : chunks[i] \in UnlockingChunk /\ chunks[i].unlock_era \in Nat
  BY ChunkFields
<1>2. PICK k : k = SearchEra(chunks, now + 1)
  OBVIOUS
<1>3. /\ k \in 1..(Len(chunks) + 1)
      /\ \A i \in 1..(k - 1) : chunks[i].unlock_era < now + 1
      /\ \A i \in k..Len(chunks) : chunks[i].unlock_era >= now + 1
  <2>1. now + 1 \in Nat
    OBVIOUS
  <2> QED
    BY <1>2, <2>1, SearchEraProperties
<1>4. PICK future : future = FutureChunks(chunks, now)
  OBVIOUS
<1>5. /\ future \in Seq(UnlockingChunk)
      /\ Len(future) = Len(chunks) - k + 1
      /\ \A i \in 1..(Len(chunks) - k + 1) : future[i] = chunks[k + i - 1]
  <2>1. \A i \in k..Len(chunks) : chunks[i] \in UnlockingChunk
    BY <1>1, <1>3
  <2>2. k \in Int /\ Len(chunks) \in Int
    BY <1>1, <1>3
  <2>3. future = SubSeq(chunks, k, Len(chunks))
    BY <1>2, <1>4 DEF FutureChunks
  <2>4. /\ future \in Seq(UnlockingChunk)
        /\ Len(future) = IF k <= Len(chunks) THEN Len(chunks) - k + 1 ELSE 0
        /\ \A i \in 1..(Len(chunks) - k + 1) : future[i] = chunks[k + i - 1]
    BY <2>1, <2>2, <2>3, SubSeqProperties
  <2>5. k \in Nat /\ (k <= Len(chunks) \/ k = Len(chunks) + 1)
    BY <1>1, <1>3
  <2>6. Len(future) = Len(chunks) - k + 1
    BY <1>1, <2>4, <2>5
  <2> QED
    BY <2>4, <2>6
<1>6. \A i \in 1..Len(future) : /\ k + i - 1 \in k..Len(chunks)
                                /\ k + i - 1 \in 1..Len(chunks)
                                /\ future[i] = chunks[k + i - 1]
  BY <1>1, <1>3, <1>5
<1>7. ChunksOrdered(future)
  <2>1. \A i \in DOMAIN chunks : chunks[i].unlock_era <= chunks[Len(chunks)].unlock_era
    <3> SUFFICES ASSUME NEW i \in DOMAIN chunks
                 PROVE  chunks[i].unlock_era <= chunks[Len(chunks)].unlock_era
      OBVIOUS
    <3>1. i = Len(chunks) \/ i < Len(chunks)
      BY <1>1
    <3>2. Len(chunks) \in DOMAIN chunks
      BY <1>1
    <3> QED
      BY <1>1, <3>1, <3>2 DEF ChunksOrdered
  <2>2. CASE Len(chunks) >= 1
    <3>1. chunks[Len(chunks)].unlock_era \in Nat
      BY <1>1, <2>2
    <3> QED
      BY <1>4, <2>1, <3>1, PartitionProperties
  <2>3. CASE Len(chunks) = 0
    <3>1. \A i \in DOMAIN chunks : chunks[i].unlock_era <= 0
      BY <1>1, <2>3
    <3> QED
      BY <1>4, <3>1, PartitionProperties
  <2> QED
    BY <1>1, <2>2, <2>3
<1>8. CASE e <= now
  <2>1. ASSUME NEW i \in 1..Len(future) PROVE future[i].unlock_era # e
    <3>1. PICK j : j = k + i - 1
      OBVIOUS
    <3>2. j \in k..Len(chunks) /\ j \in 1..Len(chunks) /\ future[i] = chunks[j]
      BY <1>6, <3>1
    <3>3. future[i].unlock_era >= now + 1 /\ future[i].unlock_era \in Nat
      BY <1>1, <1>3, <3>2
    <3> QED
      BY <1>8, <3>3
  <2> QED
    BY <1>4, <1>5, <1>8, <2>1, UnlockAtNone
<1>9. CASE e > now /\ \E i \in 1..Len(chunks) : chunks[i].unlock_era = e
  <2>1. PICK i \in 1..Len(chunks) : chunks[i].unlock_era = e
    BY <1>9
  <2>2. ~(i \in 1..(k - 1))
    BY <1>3, <1>9, <2>1
  <2>3. i - k + 1 \in 1..Len(future) /\ k + (i - k + 1) - 1 = i
    BY <1>1, <1>3, <1>5, <2>1, <2>2
  <2>4. future[i - k + 1] = chunks[i]
    BY <1>6, <2>3
  <2>5. UnlockAt(chunks, e) = chunks[i].amount
    BY <2>1, UnlockAtOne
  <2>6. UnlockAt(future, e) = future[i - k + 1].amount
    BY <1>5, <1>7, <2>1, <2>3, <2>4, UnlockAtOne
  <2> QED
    BY <1>4, <1>9, <2>4, <2>5, <2>6
<1>10. CASE e > now /\ \A i \in 1..Len(chunks) : chunks[i].unlock_era # e
  <2>1. UnlockAt(chunks, e) = 0
    BY <1>10, UnlockAtNone
  <2>2. \A i \in 1..Len(future) : future[i].unlock_era # e
    BY <1>6, <1>10
  <2>3. UnlockAt(future, e) = 0
    BY <1>5, <2>2, UnlockAtNone
  <2> QED
    BY <1>4, <1>10, <2>1, <2>3
<1> QED
  BY <1>8, <1>9, <1>10

(* What is withdrawn is what unlocks in the eras up to now.                *)
LEMMA UnlockDue ==
  ASSUME NEW chunks \in Seq(UnlockingChunk), ChunksOrdered(chunks), NEW now \in Nat,
         NEW unlocks, \A e \in 0..now : unlocks[e] = UnlockAt(chunks, e)
  PROVE  SumFunctionOnSet(unlocks, 0..now) = ChunkTotal(ValidChunks(chunks, now))
<1> DEFINE S == 1..Len(chunks)
           due == 0..now
           Part(e, i) == IF chunks[i].unlock_era = e THEN chunks[i].amount ELSE 0
           m == [e \in due |-> UnlockAmounts(chunks, e)]
           n == [i \in S |-> [e \in due |-> Part(e, i)]]
           col == [i \in S |-> IF chunks[i].unlock_era <= now THEN chunks[i].amount ELSE 0]
<1>1. /\ Len(chunks) \in Nat /\ DOMAIN chunks = S
      /\ \A i \in S : /\ chunks[i] \in UnlockingChunk /\ chunks[i].unlock_era \in Nat
                      /\ chunks[i].amount \in Nat
  BY ChunkFields
<1>2. IsFiniteSet(S) /\ IsFiniteSet(due)
  BY <1>1, FS_Interval
<1>3. \A e \in due, i \in S : /\ m[e][i] = Part(e, i) /\ n[i][e] = Part(e, i)
                              /\ Part(e, i) \in Int
  BY <1>1 DEF UnlockAmounts
<1>4. \A e \in due : unlocks[e] = SumFunctionOnSet(m[e], S)
  BY DEF UnlockAt
<1>5. ASSUME NEW i \in S PROVE col[i] = SumFunctionOnSet(n[i], due)
  <2>1. PICK parts : parts = n[i]
    OBVIOUS
  <2>2. \A e \in due : parts[e] = Part(e, i) /\ parts[e] \in Int
    BY <1>3, <2>1
  <2>3. CASE chunks[i].unlock_era <= now
    <3>1. PICK u : u = chunks[i].unlock_era
      OBVIOUS
    <3>2. u \in due /\ parts[u] = chunks[i].amount /\ \A e \in due \ {u} : parts[e] = 0
      BY <1>1, <2>2, <2>3, <3>1
    <3>3. SumFunctionOnSet(parts, due) = parts[u] + SumFunctionOnSet(parts, due \ {u})
      BY <1>2, <2>2, <3>2, SumRemove
    <3>4. IsFiniteSet(due \ {u})
      BY <1>2, FS_RemoveElement
    <3>5. SumFunctionOnSet(parts, due \ {u}) = 0
      BY <3>2, <3>4, SumZero
    <3> QED
      BY <1>1, <2>1, <2>3, <3>2, <3>3, <3>5
  <2>4. CASE ~(chunks[i].unlock_era <= now)
    <3>1. \A e \in due : parts[e] = 0
      BY <1>1, <2>2, <2>4
    <3>2. SumFunctionOnSet(parts, due) = 0
      BY <1>2, <3>1, SumZero
    <3> QED
      BY <2>1, <2>4, <3>2
  <2> QED
    BY <2>3, <2>4
<1>6. \A i \in S : col[i] = (IF chunks[i].unlock_era <= now THEN chunks[i].amount ELSE 0)
  OBVIOUS
<1> HIDE DEF m, n, col, S, due
<1>7. /\ \A e \in due, i \in S : m[e][i] \in Int
      /\ \A e \in due, i \in S : n[i][e] = m[e][i]
      /\ \A i \in S : col[i] = SumFunctionOnSet(n[i], due)
  BY <1>3, <1>5
<1>8. SumFunctionOnSet(unlocks, due) = SumFunctionOnSet(col, S)
  BY ONLY <1>2, <1>4, <1>7, SumSwap
<1>9. PICK k : k = SearchEra(chunks, now + 1)
  OBVIOUS
<1>10. /\ k \in 1..(Len(chunks) + 1)
       /\ \A i \in 1..(k - 1) : chunks[i].unlock_era < now + 1
       /\ \A i \in k..Len(chunks) : chunks[i].unlock_era >= now + 1
  <2>1. now + 1 \in Nat
    OBVIOUS
  <2> QED
    BY <1>9, <2>1, SearchEraProperties
<1>11. PICK valid : valid = ValidChunks(chunks, now)
  OBVIOUS
<1>12. /\ valid \in Seq(UnlockingChunk) /\ Len(valid) = k - 1
       /\ \A i \in 1..(k - 1) : valid[i] = chunks[i]
  <2>1. \A i \in 1..(k - 1) : chunks[i] \in UnlockingChunk
    BY <1>1, <1>10 DEF S
  <2>2. k - 1 \in Int /\ 1 \in Int
    BY <1>1, <1>10
  <2>3. valid = SubSeq(chunks, 1, k - 1)
    BY <1>9, <1>11 DEF ValidChunks
  <2>4. /\ valid \in Seq(UnlockingChunk)
        /\ Len(valid) = IF 1 <= k - 1 THEN k - 1 - 1 + 1 ELSE 0
        /\ \A i \in 1..(k - 1 - 1 + 1) : valid[i] = chunks[1 + i - 1]
    BY <2>1, <2>2, <2>3, SubSeqProperties
  <2> QED
    BY <1>1, <1>10, <2>4
<1>13. /\ 1..(k - 1) \in SUBSET S
       /\ \A i \in S : col[i] \in Int
       /\ \A i \in S : i \notin 1..(k - 1) => col[i] = 0
       /\ \A i \in 1..(k - 1) : col[i] = chunks[i].amount
  <2>1. 1..(k - 1) \in SUBSET S
    BY <1>1, <1>10 DEF S
  <2>2. \A i \in S : col[i] \in Int
    BY <1>1, <1>6
  <2>3. ASSUME NEW i \in S, i \notin 1..(k - 1) PROVE col[i] = 0
    <3>1. i \in k..Len(chunks)
      BY <1>1, <1>10, <2>3 DEF S
    <3> QED
      BY <1>1, <1>6, <1>10, <3>1
  <2>4. ASSUME NEW i \in 1..(k - 1) PROVE col[i] = chunks[i].amount
    <3>1. i \in S
      BY <2>1
    <3> QED
      BY <1>1, <1>6, <1>10, <3>1
  <2> QED
    BY <2>1, <2>2, <2>3, <2>4
<1>14. SumFunctionOnSet(col, S) = SumFunctionOnSet(col, 1..(k - 1))
  BY <1>2, <1>13, SumFilter
<1>15. ChunkTotal(valid) = SumFunctionOnSet(ChunkAmounts(valid), 1..(k - 1))
  BY <1>12 DEF ChunkTotal
<1>16. \A i \in 1..(k - 1) : ChunkAmounts(valid)[i] = col[i]
  BY <1>12, <1>13, ChunkTotalType
<1>17. IsFiniteSet(1..(k - 1))
  BY <1>2, <1>13, FS_Subset
<1>18. SumFunctionOnSet(ChunkAmounts(valid), 1..(k - 1)) = SumFunctionOnSet(col, 1..(k - 1))
  BY <1>16, <1>17, SumEqual
<1> QED
  BY <1>8, <1>11, <1>14, <1>15, <1>18 DEF due

(* The mapping reads the chunk lists.                                      *)
UnlocksRead ==
  \A a \in Accounts : \A e \in Nat : UnlocksIn(a, e) = UnlockAt(unbondingInfo[a], e)

LEMMA UnlocksMapped == TypeOK => UnlocksRead
<1> SUFFICES ASSUME TypeOK, NEW a \in Accounts, NEW e \in Nat
             PROVE  UnlocksIn(a, e) = UnlockAt(unbondingInfo[a], e)
  BY DEF UnlocksRead
<1> DEFINE chunks == unbondingInfo[a]
           S == 1..Len(chunks)
           T == ChunksAt(a, e)
           fun == UnlockAmounts(chunks, e)
           gun == [i \in T |-> unbondingInfo[a][i].amount]
<1>1. chunks \in Seq(UnlockingChunk) /\ DOMAIN chunks = S
  <2>1. chunks \in Seq(UnlockingChunk)
    BY DEF TypeOK
  <2> QED
    BY <2>1, ChunkFields
<1>2. /\ IsFiniteSet(S)
      /\ \A i \in S : fun[i] = IF chunks[i].unlock_era = e THEN chunks[i].amount ELSE 0
      /\ \A i \in S : fun[i] \in Nat
  BY <1>1, UnlockAmountsType
<1>3. T \in SUBSET S /\ \A i \in S : i \notin T => chunks[i].unlock_era # e
  BY <1>1 DEF ChunksAt
<1>4. \A i \in T : chunks[i].unlock_era = e
  BY DEF ChunksAt
<1>5. \A i \in T : gun[i] = chunks[i].amount
  OBVIOUS
<1> HIDE DEF fun, gun, T, S, chunks
<1>6. SumFunctionOnSet(fun, S) = SumFunctionOnSet(fun, T)
  <2>1. \A i \in S : fun[i] \in Int
    BY <1>2
  <2>2. \A i \in S : i \notin T => fun[i] = 0
    BY <1>2, <1>3
  <2> QED
    BY <1>2, <1>3, <2>1, <2>2, SumFilter
<1>7. IsFiniteSet(T)
  BY <1>2, <1>3, FS_Subset
<1>8. SumFunctionOnSet(fun, T) = SumFunctionOnSet(gun, T)
  <2>1. \A i \in T : fun[i] = gun[i]
    BY <1>2, <1>3, <1>4, <1>5
  <2> QED
    BY <1>7, <2>1, SumEqual
<1>9. UnlocksIn(a, e) = SumFunctionOnSet(gun, T)
  BY DEF UnlocksIn, SumOver, gun, T
<1>10. UnlockAt(chunks, e) = SumFunctionOnSet(fun, S)
  BY DEF UnlockAt, fun, S
<1> QED
  BY <1>6, <1>8, <1>9, <1>10 DEF chunks

LEMMA UnlocksMappedNext == TypeOK' => UnlocksRead'
BY UnlocksMapped, PTL

(* Functions that differ in one place.                                     *)
LEMMA ExceptTwo ==
  ASSUME NEW A, NEW B, NEW f, NEW g, NEW x \in A, NEW y \in B, NEW value,
         f = [a \in A |-> f[a]], g = [a \in A |-> g[a]],
         \A a \in A : f[a] = [b \in B |-> f[a][b]] /\ g[a] = [b \in B |-> g[a][b]],
         \A a \in A, b \in B : g[a][b] = IF a = x /\ b = y THEN value ELSE f[a][b]
  PROVE  g = [f EXCEPT ![x][y] = value]
<1>1. \A a \in A : a # x => g[a] = f[a]
  <2> SUFFICES ASSUME NEW a \in A, a # x PROVE g[a] = f[a]
    OBVIOUS
  <2>1. [b \in B |-> g[a][b]] = [b \in B |-> f[a][b]]
    OBVIOUS
  <2> QED
    BY <2>1
<1>2. g[x] = [f[x] EXCEPT ![y] = value]
  <2>1. g[x] = [b \in B |-> g[x][b]] /\ f[x] = [b \in B |-> f[x][b]]
    OBVIOUS
  <2>2. DOMAIN f[x] = B
    BY <2>1
  <2>3. [f[x] EXCEPT ![y] = value] = [b \in B |-> IF b = y THEN value ELSE f[x][b]]
    BY <2>1, <2>2
  <2>4. [b \in B |-> g[x][b]] = [b \in B |-> IF b = y THEN value ELSE f[x][b]]
    OBVIOUS
  <2> QED
    BY <2>1, <2>3, <2>4
<1>3. DOMAIN f = A
  OBVIOUS
<1>4. [f EXCEPT ![x] = g[x]] = [a \in A |-> IF a = x THEN g[x] ELSE f[a]]
  BY <1>3
<1>5. [a \in A |-> g[a]] = [a \in A |-> IF a = x THEN g[x] ELSE f[a]]
  BY <1>1
<1> QED
  BY <1>2, <1>4, <1>5

(* What the mapped variables do not depend on.                             *)
LEMMA ProvidersFrame ==
  ASSUME providerInfo' = providerInfo
  PROVE  Phases' = Phases /\ ClosingEras' = ClosingEras /\ Owners' = Owners
BY DEF Phases, PhaseOf, ClosingEras, Owners, IsRegistered, IsActiveProvider, IsUnregistered

LEMMA StakesFrame == ASSUME delegationInfo' = delegationInfo PROVE Stakes' = Stakes
BY DEF Stakes

LEMMA EarnedFrame ==
  ASSUME UNCHANGED <<delegationInfo, providerInfo>>, era'.current = era.current
  PROVE  EarnedStakes' = EarnedStakes
BY DEF EarnedStakes, EraEarned, IsRegistered

LEMMA UnlockingFrame == ASSUME unbondingInfo' = unbondingInfo PROVE Unlocking' = Unlocking
BY DEF Unlocking, UnlocksIn, ChunksAt, SumOver

LEMMA LockedFrame ==
  ASSUME \A a \in Accounts : balances'[a].reserved = balances[a].reserved
  PROVE  LockedFunds' = LockedFunds
BY DEF LockedFunds

LEMMA BondsFrame ==
  ASSUME \A q \in Providers : BondHeld(q)' = BondHeld(q)
  PROVE  Bonds' = Bonds
BY DEF Bonds

(* The reserved balance of one account changes.                            *)
LEMMA LockedStep ==
  ASSUME NEW who \in Accounts, NEW value, balances'[who].reserved = value,
         \A a \in Accounts : a # who => balances'[a].reserved = balances[a].reserved
  PROVE  LockedFunds' = [LockedFunds EXCEPT ![who] = value]
BY DEF LockedFunds

(* An amount begins to unlock.                                             *)
LEMMA UnbondingMapped ==
  ASSUME LedgerInv, TypeOK', NEW who \in Accounts, NEW amount \in Nat,
         StartUnbonding(who, amount),
         ChunkTotal(unbondingInfo[who]) + amount <= MaxBalance
  PROVE  Unlocking' = [Unlocking EXCEPT ![who][era.current + UnbondingPeriod] = @ + amount]
<1> DEFINE U == 0..(MaxEra + UnbondingPeriod)
           u == era.current + UnbondingPeriod
           chunks == unbondingInfo[who]
<1>1. TypeOK /\ era.current \in Eras /\ u \in U /\ u \in Nat /\ U \subseteq Nat
  <2>1. TypeOK
    BY DEF LedgerInv, IndInv
  <2>2. era.current \in Nat /\ era.current <= MaxEra /\ era.current \in Eras
    BY <2>1, StateTypes DEF Eras
  <2> QED
    BY <2>1, <2>2, StakingAssumption
<1>2. /\ chunks \in Seq(UnlockingChunk) /\ ChunksOrdered(chunks)
      /\ \A i \in DOMAIN chunks : chunks[i].unlock_era <= u
  BY <1>1 DEF LedgerInv, IndInv, UnbondingWellFormed, TypeOK
<1>3. /\ \A a \in Accounts : a # who => unbondingInfo'[a] = unbondingInfo[a]
      /\ unbondingInfo'[who] = AddChunk(chunks, NewChunk(amount, u))
  BY <1>1 DEF StartUnbonding, TypeOK
<1>4. UnlocksRead /\ UnlocksRead'
  BY <1>1, UnlocksMapped, UnlocksMappedNext
<1> HIDE DEF u, U, chunks
<1>5. \A a \in Accounts, e \in U : /\ Unlocking[a][e] = UnlocksIn(a, e)
                                   /\ Unlocking'[a][e] = UnlocksIn(a, e)'
  BY DEF Unlocking, U
<1>6. /\ Unlocking = [a \in Accounts |-> Unlocking[a]]
      /\ Unlocking' = [a \in Accounts |-> Unlocking'[a]]
      /\ \A a \in Accounts : /\ Unlocking[a] = [e \in U |-> Unlocking[a][e]]
                             /\ Unlocking'[a] = [e \in U |-> Unlocking'[a][e]]
  BY DEF Unlocking, U
<1>7. ASSUME NEW a \in Accounts, NEW e \in U
      PROVE  Unlocking'[a][e] = IF a = who /\ e = u THEN Unlocking[who][u] + amount
                                                    ELSE Unlocking[a][e]
  <2>1. e \in Nat
    BY <1>1
  <2>2. /\ Unlocking[a][e] = UnlockAt(unbondingInfo[a], e)
        /\ Unlocking'[a][e] = UnlockAt(unbondingInfo'[a], e)
    BY <1>4, <1>5, <2>1 DEF UnlocksRead
  <2>3. CASE a # who
    BY <1>3, <2>2, <2>3
  <2>4. CASE a = who
    <3>1. UnlockAt(AddChunk(chunks, NewChunk(amount, u)), e) =
            UnlockAt(chunks, e) + (IF e = u THEN amount ELSE 0)
      BY <1>1, <1>2, UnlockAdded DEF chunks
    <3>2. UnlockAt(chunks, e) \in Nat
      BY <1>2, UnlockAmountsType
    <3> QED
      BY <1>3, <2>2, <2>4, <3>1, <3>2 DEF chunks
  <2> QED
    BY <2>3, <2>4
<1> HIDE DEF Unlocking
<1>8. PICK f, g : f = Unlocking /\ g = Unlocking'
  OBVIOUS
<1>9. g = [f EXCEPT ![who][u] = f[who][u] + amount]
  BY <1>1, <1>6, <1>7, <1>8, ExceptTwo
<1> QED
  BY <1>8, <1>9 DEF u

(* All tokens are in the range of StakeLedger's amounts.                   *)
WithinIssuance == Supply(balances) <= Issuance

LEMMA BoundedWithinIssuance ==
  ASSUME TypeOK, SupplyBounded
  PROVE  WithinIssuance
<1> DEFINE S == Supply(balances)
           G == InitialBalance * Cardinality(Accounts)
           M == MaxEraRewards
           P == MaxEraRewards * era.current
           acc == rewardAccumulator
<1>1. S \in Nat /\ G \in Nat /\ M \in Nat /\ P \in Nat /\ acc \in Nat
  BY SupplyBoundedType
<1>2. acc <= M /\ S <= G + P + acc
  BY DEF SupplyBounded, RewardsBound
<1>3. P + M <= M * (MaxEra + 1) /\ M * (MaxEra + 1) \in Nat
  <2>1. \A m, x, y \in Nat : x <= y => m * x + m <= m * (y + 1) /\ m * (y + 1) \in Nat
    OBVIOUS
  <2> QED
    BY <2>1, SupplyBoundedType, StakingAssumption
<1>4. Issuance = G + M * (MaxEra + 1)
  BY DEF Issuance
<1>5. S <= Issuance
  <2>1. PICK T \in Nat : T = M * (MaxEra + 1)
    BY <1>3
  <2> HIDE DEF S, G, P, M, acc
  <2> QED
    BY <2>1, <1>1, <1>2, <1>3, <1>4
<1> QED
  BY <1>5 DEF WithinIssuance

(* No stake is larger than all tokens.                                     *)
LEMMA StakesBelowIssuance ==
  ASSUME LedgerInv, WithinIssuance, NEW a \in Accounts, NEW p \in Providers,
         NEW v \in Nat, v <= StakeOf(a, p)
  PROVE  v \in 0..Issuance
<1>1. balances \in Ledgers /\ a \in Holders
  BY DEF LedgerInv, IndInv, TypeOK, Ledgers, Holders
<1>2. /\ Supply(balances) \in Nat
      /\ \A h \in Holders : /\ Worth(balances)[h] \in Nat
                            /\ balances[h].free \in Nat /\ balances[h].reserved \in Nat
                            /\ Worth(balances)[h] = balances[h].free + balances[h].reserved
  BY <1>1, SupplyType
<1>3. Worth(balances)[a] <= Supply(balances)
  BY <1>1, <1>2, HoldersFinite, SumNat DEF Supply
<1>4. StakeOf(a, p) \in Nat /\ StakeOf(a, p) <= balances[a].reserved
  BY HeldFits
<1>5. Issuance \in Nat
  <2>1. MaxEraRewards * (MaxEra + 1) \in Nat
    BY StakingAssumption
  <2> QED
    BY <2>1, GenesisType DEF Issuance
<1>6. PICK w : w = Worth(balances)[a]
  OBVIOUS
<1>7. w \in Nat /\ v <= w
  BY <1>1, <1>2, <1>4, <1>6
<1> QED
  BY <1>2, <1>3, <1>5, <1>6, <1>7 DEF WithinIssuance

(* The mapped functions, place by place.                                   *)
LEMMA MappedFunctions ==
  /\ EarnedStakes = [a \in Accounts |-> EarnedStakes[a]]
  /\ \A a \in Accounts : EarnedStakes[a] = [p \in Providers |-> EarnedStakes[a][p]]
  /\ \A a \in Accounts, p \in Providers :
       EarnedStakes[a][p] = [e \in Eras |-> EarnedStakes[a][p][e]]
  /\ \A a \in Accounts, p \in Providers, e \in Eras :
       EarnedStakes[a][p][e] = IF EraEarned(p, e) THEN StakedAt(delegationInfo[a][p], e) ELSE 0
  /\ Stakes = [a \in Accounts |-> Stakes[a]]
  /\ \A a \in Accounts : Stakes[a] = [p \in Providers |-> Stakes[a][p]]
  /\ \A a \in Accounts, p \in Providers : Stakes[a][p] = StakeOf(a, p)
  /\ \A p \in Providers : Bonds[p] = BondHeld(p) /\ Phases[p] = PhaseOf(p)
BY DEF EarnedStakes, Stakes, StakeOf, Bonds, Phases

LEMMA MappedFunctionsNext ==
  /\ EarnedStakes' = [a \in Accounts |-> EarnedStakes'[a]]
  /\ \A a \in Accounts : EarnedStakes'[a] = [p \in Providers |-> EarnedStakes'[a][p]]
  /\ \A a \in Accounts, p \in Providers :
       EarnedStakes'[a][p] = [e \in Eras |-> EarnedStakes'[a][p][e]]
  /\ \A a \in Accounts, p \in Providers, e \in Eras :
       EarnedStakes'[a][p][e] =
         IF EraEarned(p, e)' THEN StakedAt(delegationInfo'[a][p], e) ELSE 0
  /\ Stakes' = [a \in Accounts |-> Stakes'[a]]
  /\ \A a \in Accounts : Stakes'[a] = [p \in Providers |-> Stakes'[a][p]]
  /\ \A a \in Accounts, p \in Providers : Stakes'[a][p] = StakeOf(a, p)'
BY DEF EarnedStakes, Stakes, StakeOf

(* An update of one stake, and of what it has earned in one era.           *)
LEMMA StakesStep ==
  ASSUME NEW who \in Accounts, NEW p \in Providers, NEW value,
         \A a \in Accounts, q \in Providers :
           StakeOf(a, q)' = IF a = who /\ q = p THEN value ELSE StakeOf(a, q)
  PROVE  Stakes' = [Stakes EXCEPT ![who][p] = value]
<1>1. PICK f, g : f = Stakes /\ g = Stakes'
  OBVIOUS
<1>2. /\ f = [a \in Accounts |-> f[a]] /\ g = [a \in Accounts |-> g[a]]
      /\ \A a \in Accounts : /\ f[a] = [q \in Providers |-> f[a][q]]
                             /\ g[a] = [q \in Providers |-> g[a][q]]
      /\ \A a \in Accounts, q \in Providers :
           g[a][q] = IF a = who /\ q = p THEN value ELSE f[a][q]
  BY <1>1, MappedFunctions, MappedFunctionsNext
<1>3. g = [f EXCEPT ![who][p] = value]
  BY <1>2, ExceptTwo
<1> QED
  BY <1>1, <1>3

LEMMA EarnedStep ==
  ASSUME NEW who \in Accounts, NEW p \in Providers, NEW n \in Eras, NEW value,
         \A a \in Accounts, q \in Providers, e \in Eras :
           EarnedStakes'[a][q][e] = IF a = who /\ q = p /\ e = n THEN value
                                                                 ELSE EarnedStakes[a][q][e]
  PROVE  EarnedStakes' = [EarnedStakes EXCEPT ![who][p][n] = value]
<1>1. PICK f, g : f = EarnedStakes /\ g = EarnedStakes'
  OBVIOUS
<1>2. /\ f = [a \in Accounts |-> f[a]] /\ g = [a \in Accounts |-> g[a]]
      /\ \A a \in Accounts : /\ f[a] = [q \in Providers |-> f[a][q]]
                             /\ g[a] = [q \in Providers |-> g[a][q]]
      /\ \A a \in Accounts, q \in Providers : /\ f[a][q] = [e \in Eras |-> f[a][q][e]]
                                              /\ g[a][q] = [e \in Eras |-> g[a][q][e]]
      /\ \A a \in Accounts, q \in Providers, e \in Eras :
           g[a][q][e] = IF a = who /\ q = p /\ e = n THEN value ELSE f[a][q][e]
  BY <1>1, MappedFunctions, MappedFunctionsNext
<1>3. PICK new : new = [f[who][p] EXCEPT ![n] = value]
  OBVIOUS
<1>4. g[who][p] = new
  <2>1. f[who][p] = [e \in Eras |-> f[who][p][e]] /\ g[who][p] = [e \in Eras |-> g[who][p][e]]
    BY <1>2
  <2>2. new = [e \in Eras |-> IF e = n THEN value ELSE f[who][p][e]]
    BY <1>3, <2>1
  <2>3. [e \in Eras |-> g[who][p][e]] = [e \in Eras |-> IF e = n THEN value ELSE f[who][p][e]]
    BY <1>2
  <2> QED
    BY <2>1, <2>2, <2>3
<1>5. ASSUME NEW a \in Accounts, NEW q \in Providers, ~(a = who /\ q = p)
      PROVE  g[a][q] = f[a][q]
  <2>1. f[a][q] = [e \in Eras |-> f[a][q][e]] /\ g[a][q] = [e \in Eras |-> g[a][q][e]]
    BY <1>2
  <2>2. [e \in Eras |-> g[a][q][e]] = [e \in Eras |-> f[a][q][e]]
    BY <1>2, <1>5
  <2> QED
    BY <2>1, <2>2
<1>6. \A a \in Accounts, q \in Providers :
        g[a][q] = IF a = who /\ q = p THEN new ELSE f[a][q]
  BY <1>4, <1>5
<1>7. /\ f = [a \in Accounts |-> f[a]] /\ g = [a \in Accounts |-> g[a]]
      /\ \A a \in Accounts : /\ f[a] = [q \in Providers |-> f[a][q]]
                             /\ g[a] = [q \in Providers |-> g[a][q]]
      /\ who \in Accounts /\ p \in Providers
  BY <1>2
<1>8. g = [f EXCEPT ![who][p] = new]
  BY ONLY <1>6, <1>7, ExceptTwo
<1> QED
  BY <1>1, <1>3, <1>8

LEMMA BondHeldWritten ==
  ASSUME LedgerInv, InBlock, NEW p \in Providers, IsActiveProvider(p),
         UNCHANGED <<era, providerInfo>>, NEW info \in ProviderEraMetadata,
         providerEraInfo' = [providerEraInfo EXCEPT ![p][era.current] = info]
  PROVE  /\ \A q \in Providers : BondHeld(q)' = IF q = p THEN info.bond ELSE BondHeld(q)
         /\ Bonds' = [Bonds EXCEPT ![p] = info.bond]
<1>1. ASSUME NEW q \in Providers PROVE BondHeld(q)' = IF q = p THEN info.bond ELSE BondHeld(q)
  <2>1. CASE ~IsRegistered(q)
    <3>1. ~IsRegistered(q)' /\ q # p
      BY <2>1 DEF IsRegistered, IsActiveProvider
    <3> QED
      BY <2>1, <3>1 DEF BondHeld
  <2>2. CASE IsRegistered(q)
    <3>1. PICK a : a = providerInfo[q].owner
      OBVIOUS
    <3>2. a \in Accounts /\ IsRegistered(q)' /\ providerInfo'[q].owner = a
      BY <2>2, <3>1, StateTypes DEF IsRegistered, LedgerInv, IndInv
    <3>3. BondOf(q, a) = BondHeld(q) /\ BondOf(q, a)' = BondHeld(q)'
      BY <2>2, <3>1, <3>2 DEF BondOf
    <3>4. BondOf(q, a)' = IF q = p /\ a = providerInfo[p].owner THEN info.bond
                                                                ELSE BondOf(q, a)
      BY <3>2, BondWritten
    <3> QED
      BY <3>1, <3>3, <3>4
  <2> QED
    BY <2>1, <2>2
<1>2. Bonds' = [Bonds EXCEPT ![p] = info.bond]
  BY <1>1 DEF Bonds
<1> QED
  BY <1>1, <1>2

(* What a call on an active provider does to the amounts of the ledger.    *)
LEMMA StakeCallMapped ==
  ASSUME LedgerInv, NEW who \in Accounts, NEW p \in Providers,
         NEW info \in ProviderEraMetadata, NEW staked, NEW stakes,
         StakeCall(who, p, info, staked, stakes)
  PROVE  /\ era.current \in Eras /\ era'.current = era.current
         /\ Phases' = Phases /\ ClosingEras' = ClosingEras /\ Owners' = Owners
         /\ Phases[p] = "active" /\ Owners[p] = providerInfo[p].owner
         /\ Bonds[p] = providerEraInfo[p][era.current].bond
         /\ Bonds' = [Bonds EXCEPT ![p] = info.bond]
         /\ Stakes' = [Stakes EXCEPT ![who][p] = LatestStakedValue(stakes)]
         /\ Stakes[who][p] = StakeOf(who, p)
         /\ EarnedStakes[who][p][era.current] = StakeOf(who, p)
         /\ \A a \in Accounts, q \in Providers, e \in Eras :
              EarnedStakes'[a][q][e] =
                IF a = who /\ q = p /\ e <= era.current THEN StakedAt(stakes, e)
                                                        ELSE EarnedStakes[a][q][e]
<1>1. /\ InBlock /\ IsActiveProvider(p) /\ UNCHANGED <<era, providerInfo>>
      /\ providerEraInfo' = [providerEraInfo EXCEPT ![p][era.current] = info]
      /\ delegationInfo' = [delegationInfo EXCEPT ![who][p] = stakes]
  BY DEF StakeCall
<1>2. /\ TypeOK /\ era.current \in Eras /\ era.current \in Nat
      /\ BondHeld(p) = providerEraInfo[p][era.current].bond
  BY <1>1, InCall
<1>3. IsRegistered(p) /\ providerInfo[p].status = Active
  BY <1>1 DEF IsActiveProvider
<1>4. Phases' = Phases /\ ClosingEras' = ClosingEras /\ Owners' = Owners
  BY <1>1, ProvidersFrame
<1>5. Phases[p] = "active" /\ Owners[p] = providerInfo[p].owner
  BY <1>1, <1>3 DEF Phases, PhaseOf, Owners, IsUnregistered
<1>6. Bonds[p] = BondHeld(p) /\ Bonds' = [Bonds EXCEPT ![p] = info.bond]
  BY <1>1, BondHeldWritten DEF Bonds
<1>7. /\ \A q \in Providers, a \in Accounts :
           delegationInfo'[a][q] = IF a = who /\ q = p THEN stakes ELSE delegationInfo[a][q]
      /\ \A q \in Providers, a \in Accounts :
           StakeOf(a, q)' = IF a = who /\ q = p THEN LatestStakedValue(stakes)
                                                ELSE StakeOf(a, q)
  <2>1. \A q \in Providers, a \in Accounts :
          delegationInfo'[a][q] = IF a = who /\ q = p THEN stakes ELSE delegationInfo[a][q]
    BY <1>1, <1>2 DEF TypeOK
  <2> QED
    BY <2>1 DEF StakeOf
<1>8. Stakes' = [Stakes EXCEPT ![who][p] = LatestStakedValue(stakes)]
  BY <1>7, StakesStep
<1>9. \A e \in Eras : EraEarned(p, e) <=> e <= era.current
  BY <1>3 DEF EraEarned
<1>10. \A q \in Providers, e \in Eras : EraEarned(q, e)' <=> EraEarned(q, e)
  BY <1>1 DEF EraEarned, IsRegistered
<1>11. ASSUME NEW a \in Accounts, NEW q \in Providers, NEW e \in Eras
       PROVE  EarnedStakes'[a][q][e] =
                IF a = who /\ q = p /\ e <= era.current THEN StakedAt(stakes, e)
                                                        ELSE EarnedStakes[a][q][e]
  <2>1. /\ EarnedStakes[a][q][e] =
             (IF EraEarned(q, e) THEN StakedAt(delegationInfo[a][q], e) ELSE 0)
        /\ EarnedStakes'[a][q][e] =
             (IF EraEarned(q, e) THEN StakedAt(delegationInfo'[a][q], e) ELSE 0)
    BY <1>10, MappedFunctions, MappedFunctionsNext
  <2>2. CASE a = who /\ q = p
    <3>1. delegationInfo'[a][q] = stakes
      BY <1>7, <2>2
    <3> QED
      BY <1>9, <2>1, <2>2, <3>1
  <2>3. CASE ~(a = who /\ q = p)
    <3>1. delegationInfo'[a][q] = delegationInfo[a][q]
      BY <1>7, <2>3
    <3> QED
      BY <2>1, <2>3, <3>1
  <2> QED
    BY <2>2, <2>3
<1>12. EarnedStakes[who][p][era.current] = StakeOf(who, p)
  <2>1. StakedAt(delegationInfo[who][p], era.current) = StakeOf(who, p)
    BY <1>2, StakesType DEF StakesTyped, LedgerInv
  <2> QED
    BY <1>2, <1>9, <2>1, MappedFunctions
<1>13. Stakes[who][p] = StakeOf(who, p)
  BY MappedFunctions
<1>14. era'.current = era.current
  BY <1>1
<1> QED
  BY <1>2, <1>4, <1>5, <1>6, <1>8, <1>11, <1>12, <1>13, <1>14

(* The calls on an active provider are the ledger's steps on its bond and  *)
(* on the stakes on it.                                                    *)
LEMMA ProviderBondMoreMapped ==
  ASSUME LedgerInv, NEW who \in Accounts, NEW p \in Providers, NEW v \in Amounts,
         ProviderBondMore(who, p, v)
  PROVE  Ledger!AddBond(who, p, v)
<1>1. PICK info, staked, stakes :
        /\ info \in ProviderEraMetadata /\ v \in Nat
        /\ providerInfo[p].owner = who
        /\ info.bond = providerEraInfo[p][era.current].bond + v
        /\ stakes = delegationInfo[who][p]
        /\ StakeCall(who, p, info, staked, stakes)
        /\ balances' = Reserve(balances, who, v)
  BY ProviderBondMoreCall
<1>2. TypeOK
  BY DEF LedgerInv, IndInv
<1>3. delegationInfo' = delegationInfo /\ unbondingInfo' = unbondingInfo
      /\ UNCHANGED <<era, providerInfo>>
  BY DEF ProviderBondMore
<1>4. /\ Phases' = Phases /\ ClosingEras' = ClosingEras /\ Owners' = Owners
      /\ Phases[p] = "active" /\ Owners[p] = who
      /\ Bonds' = [Bonds EXCEPT ![p] = Bonds[p] + v]
      /\ era'.current = era.current
  BY <1>1, StakeCallMapped
<1>5. Stakes' = Stakes /\ EarnedStakes' = EarnedStakes /\ Unlocking' = Unlocking
  BY <1>3, StakesFrame, EarnedFrame, UnlockingFrame
<1>6. LockedFunds' = [LockedFunds EXCEPT ![who] = LockedFunds[who] + v]
  <2>1. \A a \in Accounts : balances'[a].reserved =
          IF a = who THEN balances[who].reserved + v ELSE balances[a].reserved
    BY <1>1, <1>2, ReservedBalances
  <2>2. LockedFunds[who] = balances[who].reserved
    BY DEF LockedFunds
  <2> QED
    BY <2>1, <2>2, LockedStep
<1> QED
  BY <1>4, <1>5, <1>6 DEF Ledger!AddBond

LEMMA ProviderBondLessMapped ==
  ASSUME LedgerInv, TypeOK', AmountsFit,
         NEW who \in Accounts, NEW p \in Providers, NEW v \in Amounts,
         ProviderBondLess(who, p, v)
  PROVE  Ledger!RemoveBond(who, p, v)
<1>1. PICK info, staked, stakes :
        /\ info \in ProviderEraMetadata /\ v \in Nat
        /\ providerInfo[p].owner = who
        /\ v + MinProviderStake <= providerEraInfo[p][era.current].bond
        /\ info.bond = providerEraInfo[p][era.current].bond - v
        /\ stakes = delegationInfo[who][p]
        /\ StakeCall(who, p, info, staked, stakes)
        /\ StartUnbonding(who, v) /\ balances' = balances
  BY ProviderBondLessCall
<1>2. TypeOK /\ SupplyFits /\ InBlock /\ IsActiveProvider(p)
  BY <1>1 DEF LedgerInv, IndInv, StakeCall
<1>3. delegationInfo' = delegationInfo /\ UNCHANGED <<era, providerInfo>>
  BY DEF ProviderBondLess
<1>4. /\ Phases' = Phases /\ ClosingEras' = ClosingEras /\ Owners' = Owners
      /\ Phases[p] = "active" /\ Owners[p] = who
      /\ Bonds[p] = providerEraInfo[p][era.current].bond
      /\ Bonds' = [Bonds EXCEPT ![p] = Bonds[p] - v]
      /\ era'.current = era.current
  BY <1>1, StakeCallMapped
<1>5. Stakes' = Stakes /\ EarnedStakes' = EarnedStakes /\ LockedFunds' = LockedFunds
  BY <1>1, <1>3, StakesFrame, EarnedFrame, LockedFrame
<1>6. BondOf(p, who) = Bonds[p] /\ Bonds[p] \in Nat /\ v <= Bonds[p]
  <2>1. BondOf(p, who) = providerEraInfo[p][era.current].bond
    BY <1>1, <1>2, InCall
  <2>2. BondOf(p, who) \in Nat
    BY HeldFits
  <2> QED
    BY <1>1, <1>4, <2>1, <2>2, StakingAssumption
<1>7. ChunkTotal(unbondingInfo[who]) + v <= MaxBalance
  <2>1. /\ StakeOf(who, p) \in Nat
        /\ ChunkTotal(unbondingInfo[who]) \in Nat /\ balances[who].reserved \in Nat
        /\ BondOf(p, who) + StakeOf(who, p) + ChunkTotal(unbondingInfo[who])
             <= balances[who].reserved
    BY HeldFits
  <2>2. /\ balances[who].free \in Nat /\ MaxBalance \in Nat
        /\ balances[who].free + balances[who].reserved <= MaxBalance
    BY <1>2, BalancesFit, CurrencyAssumption
  <2> QED
    BY <1>1, <1>6, <2>1, <2>2
<1>8. Unlocking' = [Unlocking EXCEPT ![who][era.current + UnbondingPeriod] = @ + v]
  BY <1>1, <1>7, UnbondingMapped
<1> QED
  BY <1>4, <1>5, <1>6, <1>8 DEF Ledger!RemoveBond

LEMMA DelegateMapped ==
  ASSUME LedgerInv, NEW who \in Accounts, NEW p \in Providers, NEW v \in Amounts,
         Delegate(who, p, v)
  PROVE  Ledger!AddStake(who, p, v)
<1>1. PICK info, staked, stakes :
        /\ info \in ProviderEraMetadata /\ v \in Nat
        /\ info.bond = providerEraInfo[p][era.current].bond
        /\ LatestStakedValue(stakes) = StakeOf(who, p) + v
        /\ \A e \in Nat : StakedAt(stakes, e) =
             IF e >= era.current THEN StakeOf(who, p) + v
                                 ELSE StakedAt(delegationInfo[who][p], e)
        /\ StakeCall(who, p, info, staked, stakes)
        /\ balances' = Reserve(balances, who, v)
        /\ unbondingInfo' = unbondingInfo
  BY DelegateCall
<1>2. TypeOK /\ era.current \in Eras /\ era.current \in Nat /\ IsActiveProvider(p)
  BY <1>1, StateTypes DEF LedgerInv, IndInv, StakeCall
<1>3. /\ Phases' = Phases /\ ClosingEras' = ClosingEras /\ Owners' = Owners
      /\ Phases[p] = "active"
      /\ Bonds[p] = providerEraInfo[p][era.current].bond
      /\ Bonds' = [Bonds EXCEPT ![p] = info.bond]
      /\ Stakes' = [Stakes EXCEPT ![who][p] = Stakes[who][p] + v]
      /\ EarnedStakes[who][p][era.current] = StakeOf(who, p)
      /\ era'.current = era.current
      /\ \A a \in Accounts, q \in Providers, e \in Eras :
           EarnedStakes'[a][q][e] =
             IF a = who /\ q = p /\ e <= era.current THEN StakedAt(stakes, e)
                                                     ELSE EarnedStakes[a][q][e]
  BY <1>1, StakeCallMapped
<1>4. Bonds' = Bonds /\ Unlocking' = Unlocking
  <2>1. Unlocking' = Unlocking
    BY <1>1, UnlockingFrame
  <2> QED
    BY <1>1, <1>3, <2>1 DEF Bonds
<1>5. EarnedStakes' = [EarnedStakes EXCEPT ![who][p][era.current] =
                         EarnedStakes[who][p][era.current] + v]
  <2>1. ASSUME NEW a \in Accounts, NEW q \in Providers, NEW e \in Eras
        PROVE  EarnedStakes'[a][q][e] =
                 IF a = who /\ q = p /\ e = era.current
                 THEN EarnedStakes[who][p][era.current] + v
                 ELSE EarnedStakes[a][q][e]
    <3>1. e \in Nat
      BY DEF Eras
    <3>2. CASE a = who /\ q = p /\ e < era.current
      <4>1. EarnedStakes[a][q][e] = StakedAt(delegationInfo[who][p], e)
        BY <1>2, <3>1, <3>2, MappedFunctions DEF EraEarned, IsActiveProvider
      <4>2. StakedAt(stakes, e) = StakedAt(delegationInfo[who][p], e)
        BY <1>1, <1>2, <3>1, <3>2
      <4> QED
        BY <1>2, <1>3, <3>1, <3>2, <4>1, <4>2
    <3>3. CASE a = who /\ q = p /\ e = era.current
      <4>1. StakedAt(stakes, e) = StakeOf(who, p) + v
        BY <1>1, <1>2, <3>1, <3>3
      <4> QED
        BY <1>2, <1>3, <3>1, <3>3, <4>1
    <3>4. CASE ~(a = who /\ q = p /\ e <= era.current)
      BY <1>2, <1>3, <3>1, <3>4
    <3> QED
      BY <1>2, <3>1, <3>2, <3>3, <3>4
  <2>2. era.current \in Eras
    BY <1>2
  <2> QED
    BY <2>1, <2>2, EarnedStep
<1>6. LockedFunds' = [LockedFunds EXCEPT ![who] = LockedFunds[who] + v]
  <2>1. \A a \in Accounts : balances'[a].reserved =
          IF a = who THEN balances[who].reserved + v ELSE balances[a].reserved
    BY <1>1, <1>2, ReservedBalances
  <2>2. LockedFunds[who] = balances[who].reserved
    BY DEF LockedFunds
  <2> QED
    BY <2>1, <2>2, LockedStep
<1> QED
  BY <1>3, <1>4, <1>5, <1>6 DEF Ledger!AddStake

LEMMA DelegatorUnstakeMapped ==
  ASSUME LedgerInv, TypeOK', WithinIssuance,
         NEW who \in Accounts, NEW p \in Providers, NEW v \in Amounts,
         DelegatorUnstake(who, p, v)
  PROVE  \E amount \in 0..Issuance : Ledger!RemoveStake(who, p, amount)
<1>1. PICK amount, info, staked, stakes :
        /\ amount \in Nat /\ amount <= StakeOf(who, p)
        /\ info \in ProviderEraMetadata
        /\ info.bond = providerEraInfo[p][era.current].bond
        /\ LatestStakedValue(stakes) = StakeOf(who, p) - amount
        /\ \A e \in Nat : StakedAt(stakes, e) =
             IF e >= era.current THEN StakeOf(who, p) - amount
                                 ELSE StakedAt(delegationInfo[who][p], e)
        /\ StakeCall(who, p, info, staked, stakes)
        /\ StartUnbonding(who, amount) /\ balances' = balances
  BY DelegatorUnstakeCall
<1>2. /\ TypeOK /\ SupplyFits
      /\ era.current \in Eras /\ era.current \in Nat /\ IsActiveProvider(p)
  BY <1>1, StateTypes DEF LedgerInv, IndInv, StakeCall
<1>3. /\ Phases' = Phases /\ ClosingEras' = ClosingEras /\ Owners' = Owners
      /\ Phases[p] = "active"
      /\ Bonds[p] = providerEraInfo[p][era.current].bond
      /\ Bonds' = [Bonds EXCEPT ![p] = info.bond]
      /\ Stakes[who][p] = StakeOf(who, p)
      /\ Stakes' = [Stakes EXCEPT ![who][p] = Stakes[who][p] - amount]
      /\ EarnedStakes[who][p][era.current] = StakeOf(who, p)
      /\ era'.current = era.current
      /\ \A a \in Accounts, q \in Providers, e \in Eras :
           EarnedStakes'[a][q][e] =
             IF a = who /\ q = p /\ e <= era.current THEN StakedAt(stakes, e)
                                                     ELSE EarnedStakes[a][q][e]
  BY <1>1, StakeCallMapped
<1>4. Bonds' = Bonds /\ LockedFunds' = LockedFunds
  <2>1. LockedFunds' = LockedFunds
    BY <1>1, LockedFrame
  <2> QED
    BY <1>1, <1>3, <2>1 DEF Bonds
<1>5. EarnedStakes' = [EarnedStakes EXCEPT ![who][p][era.current] =
                         EarnedStakes[who][p][era.current] - amount]
  <2>1. PICK c, value : /\ c = era.current
                        /\ value = EarnedStakes[who][p][era.current] - amount
    OBVIOUS
  <2>2. who \in Accounts /\ p \in Providers /\ c \in Eras
    BY <1>2, <2>1
  <2>3. ASSUME NEW a \in Accounts, NEW q \in Providers, NEW e \in Eras
        PROVE  EarnedStakes'[a][q][e] =
                 IF a = who /\ q = p /\ e = c THEN value ELSE EarnedStakes[a][q][e]
    <3>1. e \in Nat
      BY DEF Eras
    <3>2. CASE a = who /\ q = p /\ e < era.current
      <4>1. EarnedStakes[a][q][e] = StakedAt(delegationInfo[who][p], e)
        BY <1>2, <3>1, <3>2, MappedFunctions DEF EraEarned, IsActiveProvider
      <4>2. StakedAt(stakes, e) = StakedAt(delegationInfo[who][p], e)
        BY <1>1, <1>2, <3>1, <3>2
      <4> QED
        BY <1>2, <1>3, <2>1, <3>1, <3>2, <4>1, <4>2
    <3>3. CASE a = who /\ q = p /\ e = era.current
      <4>1. StakedAt(stakes, e) = StakeOf(who, p) - amount
        BY <1>1, <1>2, <3>1, <3>3
      <4> QED
        BY <1>2, <1>3, <2>1, <3>1, <3>3, <4>1
    <3>4. CASE ~(a = who /\ q = p /\ e <= era.current)
      BY <1>2, <1>3, <2>1, <3>1, <3>4
    <3> QED
      BY <1>2, <2>1, <3>1, <3>2, <3>3, <3>4
  <2>4. EarnedStakes' = [EarnedStakes EXCEPT ![who][p][c] = value]
    BY ONLY <2>3, <2>2, EarnedStep
  <2> QED
    BY <2>1, <2>4
<1>6. ChunkTotal(unbondingInfo[who]) + amount <= MaxBalance
  <2>1. /\ BondOf(p, who) \in Nat /\ StakeOf(who, p) \in Nat
        /\ ChunkTotal(unbondingInfo[who]) \in Nat /\ balances[who].reserved \in Nat
        /\ BondOf(p, who) + StakeOf(who, p) + ChunkTotal(unbondingInfo[who])
             <= balances[who].reserved
    BY HeldFits
  <2>2. /\ balances[who].free \in Nat /\ MaxBalance \in Nat
        /\ balances[who].free + balances[who].reserved <= MaxBalance
    BY <1>2, BalancesFit, CurrencyAssumption
  <2> QED
    BY <1>1, <2>1, <2>2
<1>7. Unlocking' = [Unlocking EXCEPT ![who][era.current + UnbondingPeriod] = @ + amount]
  BY <1>1, <1>6, UnbondingMapped
<1>8. Ledger!RemoveStake(who, p, amount)
  BY <1>1, <1>3, <1>4, <1>5, <1>7 DEF Ledger!RemoveStake
<1>9. amount \in 0..Issuance
  BY <1>1, StakesBelowIssuance
<1> QED
  BY <1>8, <1>9

(* What is due is paid back.                                               *)
LEMMA WithdrawUnbondedMapped ==
  ASSUME LedgerInv, TypeOK', NEW who \in Accounts, WithdrawUnbonded(who)
  PROVE  Ledger!Unlock(who)
<1> DEFINE c == era.current
           chunks == unbondingInfo[who]
           future == FutureChunks(chunks, c)
           valid == ValidChunks(chunks, c)
           amount == ChunkSum(valid)
           U == 0..(MaxEra + UnbondingPeriod)
           due == {e \in U : e <= c}
<1>1. /\ TypeOK /\ SupplyFits
      /\ c \in Nat /\ c + 1 \in Nat /\ c <= MaxEra /\ c + UnbondingPeriod \in Nat
      /\ chunks \in Seq(UnlockingChunk) /\ MaxBalance \in Nat
      /\ MaxEra \in Nat /\ UnbondingPeriod \in Nat
  <2>1. TypeOK /\ SupplyFits /\ c \in Eras
    BY InCall DEF WithdrawUnbonded
  <2> QED
    BY <2>1, StakingAssumption, CurrencyAssumption DEF TypeOK, Eras
<1>2. /\ ChunksOrdered(chunks)
      /\ \A i \in DOMAIN chunks : chunks[i].unlock_era <= c + UnbondingPeriod
  BY DEF LedgerInv, IndInv, UnbondingWellFormed
<1>3. /\ balances' = Unreserve(balances, who, amount)
      /\ unbondingInfo' = [unbondingInfo EXCEPT ![who] = future]
      /\ UNCHANGED <<era, providerInfo, providerEraInfo, delegationInfo>>
  BY DEF WithdrawUnbonded
<1>4. UnlocksRead /\ UnlocksRead'
  BY <1>1, UnlocksMapped, UnlocksMappedNext
<1>5. due = 0..c /\ U \subseteq Nat
  BY <1>1
<1> HIDE DEF c, chunks, due, U
<1>6. valid \in Seq(UnlockingChunk) /\ future \in Seq(UnlockingChunk)
  BY <1>1, <1>2, PartitionProperties
<1>7. ChunkTotal(chunks) = ChunkTotal(valid) + ChunkTotal(future)
  <2>1. SearchEra(chunks, c + 1) \in 1..(Len(chunks) + 1)
    BY <1>1, <1>2, SearchEraProperties
  <2> QED
    BY <2>1, <1>1, ChunkTotalSplit DEF ValidChunks, FutureChunks
<1>8. /\ ChunkTotal(valid) \in Nat /\ ChunkTotal(future) \in Nat /\ ChunkTotal(chunks) \in Nat
  BY <1>1, <1>6, ChunkTotalType
<1>9. /\ \A e \in Nat : UnlockAt(future, e) = IF e <= c THEN 0 ELSE UnlockAt(chunks, e)
  BY <1>1, <1>2, UnlockFuture
<1> HIDE DEF valid, future
<1>10. /\ balances[who].reserved \in Nat /\ ChunkTotal(chunks) <= balances[who].reserved
       /\ balances[who].free \in Nat /\ balances[who].free + balances[who].reserved <= MaxBalance
  <2>1. /\ HeldBond(who) \in Nat /\ HeldStake(who) \in Nat
    BY <1>1, HeldSums DEF HeldSummed
  <2>2. balances[who].reserved = HeldBond(who) + HeldStake(who) + ChunkTotal(chunks)
    BY DEF ReservedHeld, LedgerInv, chunks
  <2>3. /\ balances[who].free \in Nat /\ balances[who].reserved \in Nat
        /\ balances[who].free + balances[who].reserved <= MaxBalance
    BY <1>1, BalancesFit
  <2> QED
    BY <1>8, <2>1, <2>2, <2>3
<1>11. amount = ChunkTotal(valid)
  <2>1. ChunkTotal(valid) <= MaxBalance
    BY <1>1, <1>7, <1>8, <1>10
  <2> QED
    BY <2>1, <1>6, ChunkSumTotal
<1> HIDE DEF amount
<1>12. /\ \A a \in Accounts, e \in U : Unlocking[a][e] = UnlockAt(unbondingInfo[a], e)
       /\ \A a \in Accounts, e \in U : Unlocking'[a][e] = UnlockAt(unbondingInfo'[a], e)
  <2>1. \A a \in Accounts, e \in U : /\ Unlocking[a][e] = UnlocksIn(a, e)
                                     /\ Unlocking'[a][e] = UnlocksIn(a, e)'
    BY DEF Unlocking, U
  <2> QED
    BY <1>4, <1>5, <2>1 DEF UnlocksRead
<1>13. SumFunctionOnSet(Unlocking[who], due) = amount
  <2>1. PICK unlocks : unlocks = Unlocking[who]
    OBVIOUS
  <2>2. \A e \in 0..c : e \in U
    BY <1>5 DEF due
  <2>3. \A e \in 0..c : unlocks[e] = UnlockAt(chunks, e)
    BY <1>12, <2>1, <2>2 DEF chunks
  <2>4. SumFunctionOnSet(unlocks, 0..c) = ChunkTotal(valid)
    BY <1>1, <1>2, <2>3, UnlockDue DEF valid
  <2> QED
    BY <1>5, <1>11, <2>1, <2>4
<1>14. LockedFunds' = [LockedFunds EXCEPT ![who] =
                         LockedFunds[who] - SumFunctionOnSet(Unlocking[who], due)]
  <2>1. amount <= balances[who].reserved /\ amount \in Nat
    BY <1>7, <1>8, <1>10, <1>11
  <2>2. \A a \in Accounts : balances'[a].reserved =
          IF a = who THEN balances[who].reserved - amount ELSE balances[a].reserved
    BY <1>1, <1>3, <2>1, ReservedBalances
  <2>3. LockedFunds[who] = balances[who].reserved
    BY DEF LockedFunds
  <2> QED
    BY <1>13, <2>2, <2>3, LockedStep
<1>15. \A a \in Accounts : unbondingInfo'[a] = IF a = who THEN future ELSE unbondingInfo[a]
  BY <1>1, <1>3 DEF TypeOK
<1>16. Unlocking' = [Unlocking EXCEPT ![who] =
                       [e \in U |-> IF e \in due THEN 0 ELSE Unlocking[who][e]]]
  <2>1. /\ Unlocking = [a \in Accounts |-> Unlocking[a]]
        /\ Unlocking' = [a \in Accounts |-> Unlocking'[a]]
        /\ \A a \in Accounts : /\ Unlocking[a] = [e \in U |-> Unlocking[a][e]]
                               /\ Unlocking'[a] = [e \in U |-> Unlocking'[a][e]]
    BY DEF Unlocking, U
  <2>2. ASSUME NEW a \in Accounts, a # who PROVE Unlocking'[a] = Unlocking[a]
    <3>1. \A e \in U : Unlocking'[a][e] = Unlocking[a][e]
      BY <1>12, <1>15, <2>2
    <3>2. [e \in U |-> Unlocking'[a][e]] = [e \in U |-> Unlocking[a][e]]
      BY <3>1
    <3> QED
      BY <2>1, <3>2
  <2>3. Unlocking'[who] = [e \in U |-> IF e \in due THEN 0 ELSE Unlocking[who][e]]
    <3>1. ASSUME NEW e \in U
          PROVE  Unlocking'[who][e] = IF e \in due THEN 0 ELSE Unlocking[who][e]
      <4>1. e \in Nat /\ (e \in due <=> e <= c)
        BY <1>5 DEF due
      <4> QED
        BY <1>9, <1>12, <1>15, <4>1 DEF chunks
    <3>2. [e \in U |-> Unlocking'[who][e]] =
            [e \in U |-> IF e \in due THEN 0 ELSE Unlocking[who][e]]
      BY <3>1
    <3> QED
      BY <2>1, <3>2
  <2>4. PICK new : new = [e \in U |-> IF e \in due THEN 0 ELSE Unlocking[who][e]]
    OBVIOUS
  <2>5. PICK f, g : f = Unlocking /\ g = Unlocking'
    OBVIOUS
  <2>6. /\ f = [a \in Accounts |-> f[a]] /\ g = [a \in Accounts |-> g[a]]
        /\ \A a \in Accounts : g[a] = IF a = who THEN new ELSE f[a]
    BY <2>1, <2>2, <2>3, <2>4, <2>5
  <2>7. g = [f EXCEPT ![who] = new]
    BY ONLY <2>6, who \in Accounts
  <2> QED
    BY <2>4, <2>5, <2>7
<1>17. /\ Phases' = Phases /\ ClosingEras' = ClosingEras /\ Owners' = Owners
       /\ Stakes' = Stakes /\ EarnedStakes' = EarnedStakes /\ Bonds' = Bonds
       /\ era'.current = era.current
  <2>1. \A q \in Providers : BondHeld(q)' = BondHeld(q)
    BY <1>3 DEF BondHeld, IsRegistered, LatestEra, ProviderEraInfoOrDefault
  <2> QED
    BY <1>3, <2>1, ProvidersFrame, StakesFrame, EarnedFrame, BondsFrame
<1>18. due = {e \in Ledger!UnlockEras : e <= era.current} /\ U = Ledger!UnlockEras
  BY DEF due, U, Ledger!UnlockEras, c
<1>19. Ledger!SumFunctionOnSet(Unlocking[who], due) = SumFunctionOnSet(Unlocking[who], due)
  BY LedgerSum
<1>20. PICK d : d = due
  OBVIOUS
<1> QED
  BY <1>14, <1>16, <1>17, <1>18, <1>19, <1>20 DEF Ledger!Unlock

(* Claiming takes the oldest era that was earned.                          *)
LEMMA ClaimDelegatorMapped ==
  ASSUME LedgerInv, Entitled, NEW who \in Accounts, NEW p \in Providers, ClaimDelegator(who, p)
  PROVE  Ledger!ClaimOldest(who, p)
<1>1. PICK vector, f, stakes, reward :
        /\ vector = delegationInfo[who][p] /\ f = vector[1].era
        /\ EraClaimable(p, f) /\ IsRegistered(p)
        /\ vector # <<>> /\ vector \in Seq(EraStake) /\ EntriesOrdered(vector, era.current)
        /\ f \in Eras /\ f < era.current
        /\ vector[1].amount \in Nat /\ vector[1].amount > 0
        /\ reward \in Nat
        /\ LatestStakedValue(stakes) = StakeOf(who, p)
        /\ \A e \in Nat : StakedAt(stakes, e) = IF e = f THEN 0 ELSE StakedAt(vector, e)
        /\ delegationInfo' = [delegationInfo EXCEPT ![who][p] = stakes]
        /\ CanWithdraw(balances, Pot, reward)
        /\ balances' = Payout(who, reward)
        /\ UNCHANGED <<era, providerInfo, providerEraInfo, unbondingInfo>>
  BY ClaimDelegatorCall
<1>2. TypeOK /\ era.current \in Nat
  BY StateTypes DEF LedgerInv, IndInv
<1>3. StakedAt(vector, f) = vector[1].amount
  BY <1>1, ClaimEntitled
<1>4. /\ \A q \in Providers, a \in Accounts :
           delegationInfo'[a][q] = IF a = who /\ q = p THEN stakes ELSE delegationInfo[a][q]
      /\ \A q \in Providers, a \in Accounts : StakeOf(a, q)' = StakeOf(a, q)
  <2>1. \A q \in Providers, a \in Accounts :
          delegationInfo'[a][q] = IF a = who /\ q = p THEN stakes ELSE delegationInfo[a][q]
    BY <1>1, <1>2 DEF TypeOK
  <2> QED
    BY <1>1, <2>1 DEF StakeOf
<1>5. Stakes' = Stakes
  BY <1>4 DEF Stakes, StakeOf
<1>6. /\ Phases' = Phases /\ ClosingEras' = ClosingEras /\ Owners' = Owners
      /\ Unlocking' = Unlocking /\ Bonds' = Bonds /\ LockedFunds' = LockedFunds
      /\ era'.current = era.current
  <2>1. \A q \in Providers : BondHeld(q)' = BondHeld(q)
    BY <1>1 DEF BondHeld, IsRegistered, LatestEra, ProviderEraInfoOrDefault
  <2>2. \A a \in Accounts : balances'[a].reserved = balances[a].reserved
    BY <1>1, <1>2, ReservedBalances
  <2> QED
    BY <1>1, <2>1, <2>2, ProvidersFrame, UnlockingFrame, BondsFrame, LockedFrame
<1>7. \A q \in Providers, e \in Eras : EraEarned(q, e)' <=> EraEarned(q, e)
  BY <1>1 DEF EraEarned, IsRegistered
<1>8. EraEarned(p, f)
  BY <1>1, <1>2 DEF EraEarned, EraClaimable, Eras
<1>9. EarnedStakes[who][p][f] > 0
  BY <1>1, <1>3, <1>8, MappedFunctions
<1>10. ASSUME NEW e \in 0..(f - 1) PROVE EarnedStakes[who][p][e] = 0
  <2>1. e \in Eras /\ e \in Nat /\ e < f /\ f \in Nat
    <3>1. f \in Nat /\ f <= MaxEra /\ MaxEra \in Nat
      BY <1>1, StakingAssumption DEF Eras
    <3>2. e \in Nat /\ e <= f - 1
      BY <3>1
    <3>3. e < f /\ e <= MaxEra
      BY <3>1, <3>2
    <3> QED
      BY <3>1, <3>2, <3>3 DEF Eras
  <2>2. /\ DOMAIN vector = 1..Len(vector) /\ Len(vector) \in Nat /\ Len(vector) >= 1
        /\ \A i \in 1..Len(vector) : vector[i].era \in Nat
    BY <1>1, StakeFields
  <2>3. ASSUME NEW i \in DOMAIN vector PROVE vector[i].era > e
    <3>1. i = 1 \/ i > 1
      BY <2>2
    <3>2. 1 \in DOMAIN vector
      BY <2>2
    <3>3. vector[i].era >= vector[1].era /\ vector[i].era \in Nat
      BY <1>1, <2>2, <3>1, <3>2 DEF EntriesOrdered
    <3> QED
      BY <1>1, <2>1, <3>3
  <2>4. StakedAt(vector, e) = 0
    BY <1>1, <2>1, <2>3, StakedAtNone
  <2> QED
    BY <1>1, <2>1, <2>4, MappedFunctions
<1>11. EarnedStakes' = [EarnedStakes EXCEPT ![who][p][f] = 0]
  <2>1. who \in Accounts /\ p \in Providers /\ f \in Eras
    BY <1>1
  <2>2. ASSUME NEW a \in Accounts, NEW q \in Providers, NEW e \in Eras
        PROVE  EarnedStakes'[a][q][e] =
                 IF a = who /\ q = p /\ e = f THEN 0 ELSE EarnedStakes[a][q][e]
    <3>1. /\ EarnedStakes[a][q][e] =
               (IF EraEarned(q, e) THEN StakedAt(delegationInfo[a][q], e) ELSE 0)
          /\ EarnedStakes'[a][q][e] =
               (IF EraEarned(q, e) THEN StakedAt(delegationInfo'[a][q], e) ELSE 0)
      BY <1>7, MappedFunctions, MappedFunctionsNext
    <3>2. e \in Nat
      BY DEF Eras
    <3>3. CASE a = who /\ q = p
      <4>1. delegationInfo'[a][q] = stakes /\ delegationInfo[a][q] = vector
        BY <1>1, <1>4, <3>3
      <4>2. StakedAt(stakes, e) = IF e = f THEN 0 ELSE StakedAt(vector, e)
        BY <1>1, <3>2
      <4> QED
        BY <3>1, <3>3, <4>1, <4>2
    <3>4. CASE ~(a = who /\ q = p)
      BY <1>4, <3>1, <3>4
    <3> QED
      BY <3>3, <3>4
  <2> QED
    BY <2>1, <2>2, EarnedStep
<1> QED
  BY <1>1, <1>5, <1>6, <1>9, <1>10, <1>11 DEF Ledger!ClaimOldest, Ledger!Eras, Eras

(* A new era: the stakes on active providers go on earning.                *)
LEMMA StartEraMapped ==
  ASSUME LedgerInv, StartEra
  PROVE  Ledger!NextEra
<1>1. PICK c :
        /\ c = era.current
        /\ TypeOK /\ c \in Eras /\ c \in Nat /\ c + 1 \in Eras /\ c + 1 # c
        /\ era'.current = c + 1
        /\ UNCHANGED <<providerInfo, delegationInfo, unbondingInfo, balances>>
        /\ \A q \in Providers : IsRegistered(q)' <=> IsRegistered(q)
        /\ \A q \in Providers : IsRegistered(q) <=> IsActiveProvider(q) \/ IsUnregistered(q)
        /\ \A q \in Providers : IsActiveProvider(q) => LatestEra(q)' = c + 1 /\ LatestEra(q) = c
        /\ \A q \in Providers : IsUnregistered(q) => LatestEra(q)' = LatestEra(q)
        /\ \A q \in Providers : ~IsActiveProvider(q) => providerEraInfo'[q] = providerEraInfo[q]
        /\ \A q \in Providers : IsActiveProvider(q) =>
             /\ providerEraInfo[q][c] # None
             /\ providerEraInfo'[q][c + 1] # None
             /\ providerEraInfo'[q][c + 1].bond = providerEraInfo[q][c].bond
  BY StartEraCall
<1>2. ASSUME NEW q \in Providers PROVE BondHeld(q)' = BondHeld(q)
  <2>1. CASE IsActiveProvider(q)
    BY <1>1, <2>1 DEF BondHeld, ProviderEraInfoOrDefault
  <2>2. CASE ~IsActiveProvider(q)
    <3>1. IsRegistered(q) => LatestEra(q)' = LatestEra(q)
      BY <1>1, <2>2
    <3> QED
      BY <1>1, <2>2, <3>1 DEF BondHeld, ProviderEraInfoOrDefault
  <2> QED
    BY <2>1, <2>2
<1>3. /\ Phases' = Phases /\ ClosingEras' = ClosingEras /\ Owners' = Owners
      /\ Bonds' = Bonds /\ Stakes' = Stakes /\ Unlocking' = Unlocking
      /\ LockedFunds' = LockedFunds
  BY <1>1, <1>2, ProvidersFrame, BondsFrame, StakesFrame, UnlockingFrame, LockedFrame
<1>4. \A q \in Providers : Phases[q] = "active" <=> IsActiveProvider(q)
  BY DEF Phases, PhaseOf, IsActiveProvider, IsUnregistered
<1>5. c < MaxEra
  BY <1>1, StakingAssumption DEF Eras
<1>6. ASSUME NEW a \in Accounts, NEW q \in Providers
      PROVE  EarnedStakes'[a][q] = IF IsActiveProvider(q)
                                   THEN [EarnedStakes[a][q] EXCEPT ![c + 1] = Stakes[a][q]]
                                   ELSE EarnedStakes[a][q]
  <2>1. /\ EarnedStakes[a][q] = [e \in Eras |-> EarnedStakes[a][q][e]]
        /\ EarnedStakes'[a][q] = [e \in Eras |-> EarnedStakes'[a][q][e]]
    BY MappedFunctions, MappedFunctionsNext
  <2>2. \A e \in Eras :
          /\ EarnedStakes[a][q][e] =
               (IF EraEarned(q, e) THEN StakedAt(delegationInfo[a][q], e) ELSE 0)
          /\ EarnedStakes'[a][q][e] =
               (IF EraEarned(q, e)' THEN StakedAt(delegationInfo[a][q], e) ELSE 0)
    BY <1>1, MappedFunctions, MappedFunctionsNext
  <2>3. CASE IsActiveProvider(q)
    <3>1. \A e \in Eras : /\ EraEarned(q, e) <=> e <= c
                          /\ EraEarned(q, e)' <=> e <= c + 1
      BY <1>1, <2>3 DEF EraEarned, IsActiveProvider, IsRegistered
    <3>2. StakedAt(delegationInfo[a][q], c + 1) = Stakes[a][q]
      <4>1. c + 1 >= era.current
        BY <1>1
      <4>2. StakedAt(delegationInfo[a][q], c + 1) = StakeOf(a, q)
        BY <1>1, <4>1, StakesType DEF StakesTyped, LedgerInv
      <4> QED
        BY <4>2, MappedFunctions
    <3>3. ASSUME NEW e \in Eras
          PROVE  EarnedStakes'[a][q][e] = IF e = c + 1 THEN Stakes[a][q]
                                                       ELSE EarnedStakes[a][q][e]
      <4>1. e \in Nat
        BY DEF Eras
      <4>2. CASE e = c + 1
        BY <1>1, <2>2, <3>1, <3>2, <4>2
      <4>3. CASE e # c + 1
        <5>1. e <= c <=> e <= c + 1
          BY <1>1, <4>1, <4>3
        <5> QED
          BY <2>2, <3>1, <4>3, <5>1
      <4> QED
        BY <4>2, <4>3
    <3>4. [e \in Eras |-> EarnedStakes'[a][q][e]] =
            [e \in Eras |-> IF e = c + 1 THEN Stakes[a][q] ELSE EarnedStakes[a][q][e]]
      BY <3>3
    <3>5. PICK f, s : f = EarnedStakes[a][q] /\ s = Stakes[a][q]
      OBVIOUS
    <3>6. [f EXCEPT ![c + 1] = s] = [e \in Eras |-> IF e = c + 1 THEN s ELSE f[e]]
      <4>1. f = [e \in Eras |-> f[e]]
        BY <2>1, <3>5
      <4> QED
        BY <1>1, <4>1
    <3> QED
      BY <2>1, <2>3, <3>4, <3>5, <3>6
  <2>4. CASE ~IsActiveProvider(q)
    <3>1. ASSUME NEW e \in Eras PROVE EraEarned(q, e)' <=> EraEarned(q, e)
      <4>1. CASE ~IsRegistered(q)
        BY <1>1, <4>1 DEF EraEarned
      <4>2. CASE IsUnregistered(q)
        <5>1. /\ providerInfo[q].status \in Nat /\ providerInfo[q].status <= c
              /\ providerInfo[q].status # Active /\ e \in Nat
          BY <1>1, <4>2, StateTypes DEF IsUnregistered, Recorded, LedgerInv, Eras
        <5>2. e < providerInfo[q].status => e <= c /\ e <= c + 1
          BY <1>1, <5>1
        <5> QED
          BY <1>1, <4>2, <5>1, <5>2 DEF EraEarned, IsUnregistered, IsRegistered
      <4> QED
        BY <1>1, <2>4, <4>1, <4>2
    <3>2. \A e \in Eras : EarnedStakes'[a][q][e] = EarnedStakes[a][q][e]
      BY <2>2, <3>1
    <3>3. [e \in Eras |-> EarnedStakes'[a][q][e]] = [e \in Eras |-> EarnedStakes[a][q][e]]
      BY <3>2
    <3> QED
      BY <2>1, <2>4, <3>3
  <2> QED
    BY <2>3, <2>4
<1>7. EarnedStakes' =
        [a \in Accounts |-> [q \in Providers |->
           IF Phases[q] = "active"
           THEN [EarnedStakes[a][q] EXCEPT ![c + 1] = Stakes[a][q]]
           ELSE EarnedStakes[a][q]]]
  <2>1. PICK f, g, s, act :
          /\ f = EarnedStakes /\ g = EarnedStakes' /\ s = Stakes /\ act = Phases
    OBVIOUS
  <2>2. /\ g = [a \in Accounts |-> g[a]]
        /\ \A a \in Accounts : g[a] = [q \in Providers |-> g[a][q]]
    BY <2>1, MappedFunctionsNext
  <2>3. \A a \in Accounts, q \in Providers :
          g[a][q] = IF act[q] = "active" THEN [f[a][q] EXCEPT ![c + 1] = s[a][q]] ELSE f[a][q]
    BY <1>4, <1>6, <2>1
  <2>4. ASSUME NEW a \in Accounts
        PROVE  g[a] = [q \in Providers |-> IF act[q] = "active"
                                           THEN [f[a][q] EXCEPT ![c + 1] = s[a][q]]
                                           ELSE f[a][q]]
    BY ONLY <2>2, <2>3, a \in Accounts
  <2>5. g = [a \in Accounts |-> [q \in Providers |->
               IF act[q] = "active" THEN [f[a][q] EXCEPT ![c + 1] = s[a][q]] ELSE f[a][q]]]
    BY ONLY <2>2, <2>4
  <2> QED
    BY <2>1, <2>5
<1> QED
  BY <1>1, <1>3, <1>5, <1>7 DEF Ledger!NextEra

(* A provider is opened with its bond; nobody has staked on it before.     *)
LEMMA RegisterProviderMapped ==
  ASSUME LedgerInv, NEW who \in Accounts, NEW p \in Providers, NEW v \in Amounts,
         RegisterProvider(who, p, v)
  PROVE  Ledger!Open(who, p, v)
<1>1. /\ InBlock /\ ~IsRegistered(p) /\ v \in Nat
      /\ UNCHANGED <<era, delegationInfo>>
      /\ IsRegistered(p)' /\ IsActiveProvider(p)' /\ LatestEra(p)' = era.current
      /\ \A q \in Providers : q # p =>
           /\ providerInfo'[q] = providerInfo[q]
           /\ IsRegistered(q)' <=> IsRegistered(q)
           /\ IsActiveProvider(q)' <=> IsActiveProvider(q)
           /\ LatestEra(q)' = LatestEra(q)
      /\ \A q \in Providers, e \in Eras : q # p \/ e # era.current =>
           providerEraInfo'[q][e] = providerEraInfo[q][e]
      /\ providerEraInfo'[p][era.current] = FirstRecord(v) /\ FirstRecord(v) # None
  <2>1. /\ InBlock /\ ~IsRegistered(p) /\ v \in Nat
        /\ UNCHANGED <<era, delegationInfo>>
        /\ IsRegistered(p)' /\ IsActiveProvider(p)' /\ LatestEra(p)' = era.current
    BY RegisterProviderCall
  <2>2. ASSUME NEW q \in Providers, q # p
        PROVE  /\ providerInfo'[q] = providerInfo[q]
               /\ IsRegistered(q)' <=> IsRegistered(q)
               /\ IsActiveProvider(q)' <=> IsActiveProvider(q)
               /\ LatestEra(q)' = LatestEra(q)
    BY <2>2, RegisterProviderCall
  <2>3. \A q \in Providers, e \in Eras : q # p \/ e # era.current =>
          providerEraInfo'[q][e] = providerEraInfo[q][e]
    BY RegisterProviderCall
  <2>4. providerEraInfo'[p][era.current] = FirstRecord(v) /\ FirstRecord(v) # None
    BY RegisterProviderCall, ZenonT(60)
  <2> QED
    BY <2>1, <2>2, <2>3, <2>4
<1>2. TypeOK /\ Recorded /\ era.current \in Eras
  BY <1>1, StateTypes DEF LedgerInv, IndInv
<1>3. /\ providerInfo'[p] = [owner |-> who, status |-> Active, bond_withdrawn |-> FALSE]
      /\ balances' = Reserve(balances, who, v) /\ unbondingInfo' = unbondingInfo
  BY <1>2 DEF RegisterProvider, ReserveFunds, TypeOK
<1>4. /\ PhaseOf(p) = "new" /\ PhaseOf(p)' = "active"
      /\ \A q \in Providers : q # p => PhaseOf(q)' = PhaseOf(q)
  BY <1>1 DEF PhaseOf, IsUnregistered, IsActiveProvider, IsRegistered
<1>5. Phases[p] = "new" /\ Phases' = [Phases EXCEPT ![p] = "active"]
  BY <1>4 DEF Phases
<1>6. ClosingEras' = ClosingEras
  <2>1. ~IsUnregistered(p) /\ ~IsUnregistered(p)'
    BY <1>1, <1>3 DEF IsUnregistered
  <2>2. \A q \in Providers : q # p => (IsUnregistered(q)' <=> IsUnregistered(q))
    BY <1>1 DEF IsUnregistered
  <2> QED
    BY <1>1, <2>1, <2>2 DEF ClosingEras
<1>7. Owners' = [Owners EXCEPT ![p] = who]
  <2>1. providerInfo'[p].owner = who
    BY <1>3
  <2>2. ASSUME NEW q \in Providers
        PROVE  (IF IsRegistered(q)' THEN providerInfo'[q].owner ELSE None) =
               IF q = p THEN who
               ELSE IF IsRegistered(q) THEN providerInfo[q].owner ELSE None
    <3>1. CASE q = p
      BY <1>1, <2>1, <3>1
    <3>2. CASE q # p
      BY <1>1, <3>2
    <3> QED
      BY <3>1, <3>2
  <2>3. PICK f, g : f = Owners /\ g = Owners'
    OBVIOUS
  <2>4. /\ DOMAIN f = Providers /\ g = [q \in Providers |-> g[q]]
        /\ f = [q \in Providers |-> f[q]]
        /\ \A q \in Providers : g[q] = IF q = p THEN who ELSE f[q]
    BY <2>2, <2>3 DEF Owners
  <2>5. g = [f EXCEPT ![p] = who]
    BY ONLY <2>4, p \in Providers
  <2> QED
    BY <2>3, <2>5
<1>8. Bonds' = [Bonds EXCEPT ![p] = v]
  <2>1. BondHeld(p)' = v
    BY <1>1, <1>3 DEF BondHeld, ProviderEraInfoOrDefault, FirstRecord
  <2>2. ASSUME NEW q \in Providers, q # p PROVE BondHeld(q)' = BondHeld(q)
    <3>1. IsRegistered(q) => LatestEra(q) \in Eras
      BY <1>2, HeldType DEF HeldTyped
    <3> QED
      BY <1>1, <2>2, <3>1 DEF BondHeld, ProviderEraInfoOrDefault
  <2> QED
    BY <2>1, <2>2 DEF Bonds
<1>9. EarnedStakes' = EarnedStakes
  <2>1. ASSUME NEW a \in Accounts, NEW q \in Providers, NEW e \in Eras
        PROVE  (IF EraEarned(q, e)' THEN StakedAt(delegationInfo'[a][q], e) ELSE 0) =
               (IF EraEarned(q, e) THEN StakedAt(delegationInfo[a][q], e) ELSE 0)
    <3>1. CASE q = p
      <4>1. delegationInfo[a][p] = <<>>
        BY <1>1, <1>2 DEF Recorded
      <4>2. StakedAt(<<>>, e) = 0
        BY DEF StakedAt
      <4> QED
        BY <1>1, <3>1, <4>1, <4>2
    <3>2. CASE q # p
      <4>1. EraEarned(q, e)' <=> EraEarned(q, e)
        BY <1>1, <3>2 DEF EraEarned
      <4> QED
        BY <1>1, <4>1
    <3> QED
      BY <3>1, <3>2
  <2> QED
    BY <2>1 DEF EarnedStakes
<1>10. Stakes' = Stakes /\ Unlocking' = Unlocking /\ era'.current = era.current
  BY <1>1, <1>3, StakesFrame, UnlockingFrame
<1>11. LockedFunds' = [LockedFunds EXCEPT ![who] = LockedFunds[who] + v]
  <2>1. \A a \in Accounts : balances'[a].reserved =
          IF a = who THEN balances[who].reserved + v ELSE balances[a].reserved
    BY <1>1, <1>2, <1>3, ReservedBalances
  <2>2. LockedFunds[who] = balances[who].reserved
    BY DEF LockedFunds
  <2> QED
    BY <2>1, <2>2, LockedStep
<1> QED
  BY <1>5, <1>6, <1>7, <1>8, <1>9, <1>10, <1>11 DEF Ledger!Open

(* The phase of a provider and the era in which it closed.                 *)
LEMMA PhaseRead ==
  ASSUME NEW p \in Providers
  PROVE  /\ IsActiveProvider(p) => Phases[p] = "active"
         /\ IsUnregistered(p) => Phases[p] = "closed" /\ ClosingEras[p] = providerInfo[p].status
         /\ IsRegistered(p) => Owners[p] = providerInfo[p].owner
BY DEF Phases, PhaseOf, ClosingEras, Owners, IsRegistered, IsActiveProvider, IsUnregistered

(* A provider closes: its current era is lost to its delegators.           *)
LEMMA UnregisterProviderMapped ==
  ASSUME LedgerInv, NEW p \in Providers, UnregisterProvider(p)
  PROVE  Ledger!Close(p)
<1>1. /\ InBlock /\ IsActiveProvider(p)
      /\ UNCHANGED <<era, providerEraInfo, delegationInfo, balances>>
      /\ IsUnregistered(p)' /\ ~IsActiveProvider(p)' /\ providerInfo'[p].status = era.current
      /\ \A q \in Providers : /\ IsRegistered(q)' <=> IsRegistered(q)
                              /\ LatestEra(q)' = LatestEra(q)
      /\ \A q \in Providers : q # p =>
           /\ providerInfo'[q] = providerInfo[q]
           /\ IsActiveProvider(q)' <=> IsActiveProvider(q)
  BY UnregisterProviderCall
<1>2. /\ TypeOK /\ Recorded /\ era.current \in Eras /\ era.current \in Nat
      /\ era.current # Active /\ unbondingInfo' = unbondingInfo
      /\ providerInfo' = [providerInfo EXCEPT ![p].status = era.current]
  <2>1. TypeOK /\ Recorded /\ era.current \in Eras /\ era.current \in Nat
    BY StateTypes DEF LedgerInv, IndInv
  <2> QED
    BY <2>1, StakingAssumption DEF UnregisterProvider
<1>3. /\ IsRegistered(p) /\ providerInfo[p] \in ProviderMetadata
      /\ providerInfo[p].status = Active
  BY <1>1, <1>2, StateTypes DEF IsActiveProvider, IsRegistered
<1>4. /\ providerInfo'[p].owner = providerInfo[p].owner
      /\ providerInfo'[p].bond_withdrawn = providerInfo[p].bond_withdrawn
  <2>1. providerInfo'[p] = [providerInfo[p] EXCEPT !.status = era.current]
    BY <1>2 DEF TypeOK
  <2> QED
    BY <1>3, <2>1 DEF ProviderMetadata
<1>5. Phases[p] = "active" /\ Phases' = [Phases EXCEPT ![p] = "closed"]
  <2>1. PhaseOf(p)' = "closed" /\ PhaseOf(p) = "active"
    BY <1>1, <1>3 DEF PhaseOf, IsUnregistered, IsActiveProvider, IsRegistered
  <2>2. \A q \in Providers : q # p => PhaseOf(q)' = PhaseOf(q)
    BY <1>1 DEF PhaseOf, IsUnregistered, IsActiveProvider, IsRegistered
  <2> QED
    BY <2>1, <2>2 DEF Phases
<1>6. ClosingEras' = [ClosingEras EXCEPT ![p] = era.current]
  <2>1. \A q \in Providers : q # p => (IsUnregistered(q)' <=> IsUnregistered(q))
    BY <1>1 DEF IsUnregistered
  <2>2. ASSUME NEW q \in Providers
        PROVE  (IF IsUnregistered(q)' THEN providerInfo'[q].status ELSE 0) =
               IF q = p THEN era.current
               ELSE IF IsUnregistered(q) THEN providerInfo[q].status ELSE 0
    <3>1. CASE q = p
      BY <1>1, <3>1
    <3>2. CASE q # p
      BY <1>1, <2>1, <3>2
    <3> QED
      BY <3>1, <3>2
  <2>3. PICK f, g, n : f = ClosingEras /\ g = ClosingEras' /\ n = era.current
    OBVIOUS
  <2>4. /\ g = [q \in Providers |-> g[q]] /\ f = [q \in Providers |-> f[q]]
        /\ \A q \in Providers : g[q] = IF q = p THEN n ELSE f[q]
    BY <2>2, <2>3 DEF ClosingEras
  <2>5. g = [f EXCEPT ![p] = n]
    BY ONLY <2>4, p \in Providers
  <2> QED
    BY <2>3, <2>5
<1>7. Owners' = Owners
  <2>1. \A q \in Providers : providerInfo'[q].owner = providerInfo[q].owner
    BY <1>1, <1>4
  <2> QED
    BY <1>1, <2>1 DEF Owners
<1>8. Bonds' = Bonds
  <2>1. \A q \in Providers : providerInfo'[q].bond_withdrawn = providerInfo[q].bond_withdrawn
    BY <1>1, <1>4
  <2>2. \A q \in Providers : BondHeld(q)' = BondHeld(q)
    BY <1>1, <2>1 DEF BondHeld, ProviderEraInfoOrDefault
  <2> QED
    BY <2>2, BondsFrame
<1>9. ASSUME NEW a \in Accounts, NEW q \in Providers, NEW e \in Eras
      PROVE  EarnedStakes'[a][q][e] = IF q = p /\ e = era.current THEN 0
                                                                  ELSE EarnedStakes[a][q][e]
  <2>1. /\ EarnedStakes[a][q][e] =
             (IF EraEarned(q, e) THEN StakedAt(delegationInfo[a][q], e) ELSE 0)
        /\ EarnedStakes'[a][q][e] =
             (IF EraEarned(q, e)' THEN StakedAt(delegationInfo[a][q], e) ELSE 0)
    BY <1>1, MappedFunctions, MappedFunctionsNext
  <2>2. e \in Nat
    BY DEF Eras
  <2>3. CASE q = p
    <3>1. /\ EraEarned(p, e) <=> e <= era.current
          /\ EraEarned(p, e)' <=> e <= era.current /\ e < era.current
      BY <1>1, <1>2, <1>3 DEF EraEarned
    <3>2. CASE e = era.current
      <4>1. ~EraEarned(p, e)'
        BY <1>2, <3>1, <3>2
      <4> QED
        BY <2>1, <2>3, <3>2, <4>1
    <3>3. CASE e # era.current
      <4>1. e <= era.current <=> e < era.current
        BY <1>2, <2>2, <3>3
      <4>2. EraEarned(p, e)' <=> EraEarned(p, e)
        BY <3>1, <4>1
      <4> QED
        BY <2>1, <2>3, <3>3, <4>2
    <3> QED
      BY <3>2, <3>3
  <2>4. CASE q # p
    <3>1. EraEarned(q, e)' <=> EraEarned(q, e)
      BY <1>1, <2>4 DEF EraEarned
    <3> QED
      BY <2>1, <2>4, <3>1
  <2> QED
    BY <2>3, <2>4
<1>10. EarnedStakes' = [a \in Accounts |-> [EarnedStakes[a] EXCEPT ![p][era.current] = 0]]
  <2>1. PICK f, g, n : f = EarnedStakes /\ g = EarnedStakes' /\ n = era.current
    OBVIOUS
  <2>2. /\ g = [a \in Accounts |-> g[a]]
        /\ \A a \in Accounts : /\ g[a] = [q \in Providers |-> g[a][q]]
                               /\ f[a] = [q \in Providers |-> f[a][q]]
        /\ \A a \in Accounts, q \in Providers : /\ g[a][q] = [e \in Eras |-> g[a][q][e]]
                                                /\ f[a][q] = [e \in Eras |-> f[a][q][e]]
    BY <2>1, MappedFunctions, MappedFunctionsNext
  <2>3. \A a \in Accounts, q \in Providers, e \in Eras :
          g[a][q][e] = IF q = p /\ e = n THEN 0 ELSE f[a][q][e]
    BY <1>9, <2>1
  <2>4. n \in Eras /\ p \in Providers
    BY <1>2, <2>1
  <2>5. ASSUME NEW a \in Accounts PROVE g[a] = [f[a] EXCEPT ![p][n] = 0]
    <3>1. PICK ga, fa : ga = g[a] /\ fa = f[a]
      OBVIOUS
    <3>2. /\ ga = [q \in Providers |-> ga[q]] /\ fa = [q \in Providers |-> fa[q]]
          /\ \A q \in Providers : /\ fa[q] = [e \in Eras |-> fa[q][e]]
                                  /\ ga[q] = [e \in Eras |-> ga[q][e]]
          /\ \A q \in Providers, e \in Eras : ga[q][e] = IF q = p /\ e = n THEN 0 ELSE fa[q][e]
      BY ONLY <2>2, <2>3, <3>1, a \in Accounts
    <3>3. ga = [fa EXCEPT ![p][n] = 0]
      BY ONLY <2>4, <3>2, ExceptTwo
    <3> QED
      BY <3>1, <3>3
  <2>6. g = [a \in Accounts |-> [f[a] EXCEPT ![p][n] = 0]]
    BY ONLY <2>2, <2>5
  <2> QED
    BY <2>1, <2>6
<1>11. /\ Stakes' = Stakes /\ Unlocking' = Unlocking /\ LockedFunds' = LockedFunds
       /\ era'.current = era.current
  BY <1>1, <1>2, StakesFrame, UnlockingFrame, LockedFrame
<1> QED
  BY <1>5, <1>6, <1>7, <1>8, <1>10, <1>11 DEF Ledger!Close

(* The owner of a provider that closed gets the bond back.                 *)
LEMMA ProviderWithdrawUnregisteredMapped ==
  ASSUME LedgerInv, NEW p \in Providers, ProviderWithdrawUnregistered(p)
  PROVE  Ledger!ReleaseBond(p)
<1>1. TypeOK /\ Recorded
  BY StateTypes DEF LedgerInv, IndInv
<1>2. /\ IsUnregistered(p) /\ IsRegistered(p) /\ ~providerInfo[p].bond_withdrawn
      /\ providerInfo[p] \in ProviderMetadata /\ providerInfo[p].owner \in Accounts
      /\ LatestEra(p) = providerInfo[p].status
      /\ era.current >= providerInfo[p].status + UnbondingPeriod
  BY <1>1, StateTypes
     DEF ProviderWithdrawUnregistered, UnregisteredUnbonded, IsUnregistered, LatestEra
<1>3. PICK who \in Accounts : who = providerInfo[p].owner
  BY <1>2
<1>4. PICK held : held = BondHeld(p)
  OBVIOUS
<1>5. /\ balances' = Unreserve(balances, who, held)
      /\ providerInfo' = [providerInfo EXCEPT ![p].bond_withdrawn = TRUE]
      /\ unbondingInfo' = unbondingInfo
  BY <1>2, <1>3, <1>4 DEF ProviderWithdrawUnregistered, BondHeld
<1>6. /\ UNCHANGED <<era, eraState, providerEraInfo, delegationInfo>>
      /\ \A q \in Providers :
           /\ IsRegistered(q)' <=> IsRegistered(q)
           /\ IsActiveProvider(q)' <=> IsActiveProvider(q)
           /\ LatestEra(q)' = LatestEra(q)
           /\ IsRegistered(q) => providerInfo'[q].status = providerInfo[q].status
  BY ProviderWithdrawCall
<1>7. /\ providerInfo'[p].owner = who /\ providerInfo'[p].bond_withdrawn
      /\ \A q \in Providers : q # p => providerInfo'[q] = providerInfo[q]
  <2>1. /\ providerInfo'[p] = [providerInfo[p] EXCEPT !.bond_withdrawn = TRUE]
        /\ \A q \in Providers : q # p => providerInfo'[q] = providerInfo[q]
    BY <1>1, <1>5 DEF TypeOK
  <2> QED
    BY <1>2, <1>3, <2>1 DEF ProviderMetadata
<1>8. \A q \in Providers : IsUnregistered(q)' <=> IsUnregistered(q)
  BY <1>6 DEF IsUnregistered, IsRegistered
<1>9. Phases' = Phases
  <2>1. ASSUME NEW q \in Providers PROVE PhaseOf(q)' = PhaseOf(q)
    <3>1. CASE ~IsRegistered(q)
      BY <1>6, <3>1 DEF PhaseOf, IsUnregistered, IsActiveProvider, IsRegistered
    <3>2. CASE IsRegistered(q)
      BY <1>6, <3>2 DEF PhaseOf, IsUnregistered, IsActiveProvider, IsRegistered
    <3> QED
      BY <3>1, <3>2
  <2> QED
    BY <2>1 DEF Phases
<1>10. ClosingEras' = ClosingEras
  <2>1. \A q \in Providers : IsUnregistered(q) => providerInfo'[q].status = providerInfo[q].status
    BY <1>6 DEF IsUnregistered, IsRegistered
  <2> QED
    BY <1>8, <2>1 DEF ClosingEras
<1>11. Owners' = Owners
  <2>1. \A q \in Providers : providerInfo'[q].owner = providerInfo[q].owner
    BY <1>3, <1>7
  <2> QED
    BY <1>6, <2>1 DEF Owners
<1>12. EarnedStakes' = EarnedStakes
  <2>1. \A q \in Providers, e \in Eras : EraEarned(q, e)' <=> EraEarned(q, e)
    BY <1>6 DEF EraEarned
  <2> QED
    BY <1>6, <2>1 DEF EarnedStakes
<1>13. Bonds' = [Bonds EXCEPT ![p] = 0]
  <2>1. BondHeld(p)' = 0
    BY <1>7 DEF BondHeld
  <2>2. \A q \in Providers : q # p => BondHeld(q)' = BondHeld(q)
    BY <1>6, <1>7 DEF BondHeld, ProviderEraInfoOrDefault
  <2> QED
    BY <2>1, <2>2 DEF Bonds
<1>14. LockedFunds' = [LockedFunds EXCEPT ![who] = LockedFunds[who] - held]
  <2>1. held \in Nat /\ balances[who].reserved \in Nat /\ held <= balances[who].reserved
    <3>1. BondOf(p, who) = held
      BY <1>2, <1>3, <1>4 DEF BondOf
    <3> QED
      BY <3>1, HeldFits
  <2>2. \A a \in Accounts : balances'[a].reserved =
          IF a = who THEN balances[who].reserved - held ELSE balances[a].reserved
    BY <1>1, <1>5, <2>1, ReservedBalances
  <2>3. LockedFunds[who] = balances[who].reserved
    BY DEF LockedFunds
  <2> QED
    BY <2>2, <2>3, LockedStep
<1>15. Stakes' = Stakes /\ Unlocking' = Unlocking /\ era'.current = era.current
  BY <1>5, <1>6, StakesFrame, UnlockingFrame
<1>16. Owners[p] = who /\ Bonds[p] = held
  BY <1>2, <1>3, <1>4, PhaseRead, MappedFunctions
<1>17. Phases[p] = "closed" /\ era.current >= ClosingEras[p] + UnbondingPeriod
  BY <1>2, PhaseRead
<1> QED
  BY <1>9, <1>10, <1>11, <1>12, <1>13, <1>14, <1>15, <1>16, <1>17
     DEF Ledger!ReleaseBond, Ledger!Released

(* A delegator leaves a provider that closed: nothing is left to claim.    *)
LEMMA DelegatorWithdrawUnregisteredMapped ==
  ASSUME LedgerInv, Entitled, NEW who \in Accounts, NEW p \in Providers,
         DelegatorWithdrawUnregistered(who, p)
  PROVE  Ledger!ReleaseStake(who, p)
<1>1. TypeOK
  BY StateTypes DEF LedgerInv, IndInv
<1>2. PICK vector, staked : vector = delegationInfo[who][p] /\ staked = StakeOf(who, p)
  OBVIOUS
<1>3. /\ delegationInfo' = [delegationInfo EXCEPT ![who][p] = <<>>]
      /\ balances' = Unreserve(balances, who, staked)
      /\ UNCHANGED <<era, providerInfo, providerEraInfo, unbondingInfo>>
      /\ IsUnregistered(p) /\ LatestStakedValue(vector) > 0 /\ RewardsClaimed(who, p)
      /\ era.current >= providerInfo[p].status + UnbondingPeriod
  BY <1>2 DEF DelegatorWithdrawUnregistered, UnregisteredUnbonded, StakeOf
<1>4. /\ vector # <<>> /\ vector \in Seq(EraStake) /\ EntriesOrdered(vector, era.current)
      /\ NoEraZero(vector)
  BY <1>1, <1>2, <1>3
     DEF LatestStakedValue, TypeOK, LedgerInv, IndInv, DelegationsWellFormed, Entitled
<1>5. /\ DOMAIN vector = 1..Len(vector) /\ Len(vector) \in Nat /\ Len(vector) >= 1
      /\ \A i \in 1..Len(vector) : vector[i].era \in Nat
      /\ 1 \in DOMAIN vector
  <2>1. /\ DOMAIN vector = 1..Len(vector) /\ Len(vector) \in Nat /\ Len(vector) >= 1
        /\ \A i \in 1..Len(vector) : vector[i].era \in Nat
    BY <1>4, StakeFields
  <2> QED
    BY <2>1
<1>6. vector[1].era >= providerInfo[p].status
  <2>1. ClaimedStake(vector) = vector[1] /\ vector[1].era # 0
    BY <1>4, <1>5 DEF ClaimedStake, NoEraZero
  <2> QED
    BY <1>2, <1>3, <2>1 DEF RewardsClaimed
<1>7. providerInfo[p].status \in Eras /\ providerInfo[p].status # Active
  BY <1>1, <1>3, StateTypes DEF IsUnregistered
<1>8. ASSUME NEW e \in Eras, EraEarned(p, e) PROVE StakedAt(vector, e) = 0
  <2>1. e < providerInfo[p].status /\ e \in Nat /\ providerInfo[p].status \in Nat
    BY <1>7, <1>8 DEF EraEarned, Eras
  <2>2. ASSUME NEW i \in DOMAIN vector PROVE vector[i].era > e
    <3>1. i = 1 \/ i > 1
      BY <1>5
    <3>2. vector[i].era >= vector[1].era /\ vector[i].era \in Nat /\ vector[1].era \in Nat
      BY <1>4, <1>5, <3>1 DEF EntriesOrdered
    <3> QED
      BY <1>6, <2>1, <3>2
  <2> QED
    BY <1>4, <2>1, <2>2, StakedAtNone
<1>9. \A e \in Eras : EarnedStakes[who][p][e] = 0
  BY <1>2, <1>8, MappedFunctions
<1>10. \A a \in Accounts, q \in Providers :
         delegationInfo'[a][q] = IF a = who /\ q = p THEN <<>> ELSE delegationInfo[a][q]
  BY <1>1, <1>3 DEF TypeOK
<1>11. EarnedStakes' = EarnedStakes
  <2>1. ASSUME NEW a \in Accounts, NEW q \in Providers, NEW e \in Eras
        PROVE  (IF EraEarned(q, e)' THEN StakedAt(delegationInfo'[a][q], e) ELSE 0) =
               (IF EraEarned(q, e) THEN StakedAt(delegationInfo[a][q], e) ELSE 0)
    <3>1. EraEarned(q, e)' <=> EraEarned(q, e)
      BY <1>3 DEF EraEarned, IsRegistered
    <3>2. CASE a = who /\ q = p
      <4>1. StakedAt(<<>>, e) = 0
        BY DEF StakedAt
      <4> QED
        BY <1>2, <1>8, <1>10, <3>1, <3>2, <4>1
    <3>3. CASE ~(a = who /\ q = p)
      BY <1>10, <3>1, <3>3
    <3> QED
      BY <3>2, <3>3
  <2> QED
    BY <2>1 DEF EarnedStakes
<1>12. Stakes' = [Stakes EXCEPT ![who][p] = 0]
  <2>1. \A a \in Accounts, q \in Providers :
          StakeOf(a, q)' = IF a = who /\ q = p THEN 0 ELSE StakeOf(a, q)
    BY <1>10 DEF StakeOf, LatestStakedValue
  <2> QED
    BY <2>1, StakesStep
<1>13. LockedFunds' = [LockedFunds EXCEPT ![who] = LockedFunds[who] - staked]
  <2>1. staked \in Nat /\ balances[who].reserved \in Nat /\ staked <= balances[who].reserved
    BY <1>2, HeldFits
  <2>2. \A a \in Accounts : balances'[a].reserved =
          IF a = who THEN balances[who].reserved - staked ELSE balances[a].reserved
    BY <1>1, <1>3, <2>1, ReservedBalances
  <2>3. LockedFunds[who] = balances[who].reserved
    BY DEF LockedFunds
  <2> QED
    BY <2>2, <2>3, LockedStep
<1>14. /\ Phases' = Phases /\ ClosingEras' = ClosingEras /\ Owners' = Owners
       /\ Unlocking' = Unlocking /\ era'.current = era.current
  BY <1>3, ProvidersFrame, UnlockingFrame
<1>15. Bonds' = Bonds
  <2>1. \A q \in Providers : BondHeld(q)' = BondHeld(q)
    BY <1>3 DEF BondHeld, ProviderEraInfoOrDefault, IsRegistered, LatestEra
  <2> QED
    BY <2>1, BondsFrame
<1>16. Stakes[who][p] = staked
  BY <1>2, MappedFunctions
<1>17. Phases[p] = "closed" /\ era.current >= ClosingEras[p] + UnbondingPeriod
  BY <1>3, PhaseRead
<1> QED
  BY <1>9, <1>11, <1>12, <1>13, <1>14, <1>15, <1>16, <1>17
     DEF Ledger!ReleaseStake, Ledger!Released, Ledger!Eras, Eras

(* The calls that the ledger does not see.                                 *)
LEMMA QuietMapped ==
  ASSUME LedgerInv,
         \/ ContinueEra
         \/ \E new \in EraLengths : SetBlocksPerEra(new)
         \/ \E v \in Rewards : HandleImbalance(v)
         \/ UNCHANGED vars
  PROVE  UNCHANGED Ledger!ledgerVars
<1>1. TypeOK /\ era.current \in Eras /\ Rewards \subseteq Nat
  BY StateTypes, StakingAssumption DEF LedgerInv, IndInv
<1>2. /\ UNCHANGED <<providerInfo, providerEraInfo, delegationInfo, unbondingInfo>>
      /\ era'.current = era.current
  <2>1. CASE ContinueEra
    BY <2>1 DEF ContinueEra, stakingVars
  <2>2. ASSUME NEW new \in EraLengths, SetBlocksPerEra(new)
        PROVE  /\ UNCHANGED <<providerInfo, providerEraInfo, delegationInfo, unbondingInfo>>
               /\ era'.current = era.current
    <3>1. era' = [era EXCEPT !.length = new]
      BY <2>2 DEF SetBlocksPerEra
    <3>2. era'.current = era.current
      BY <1>1, <3>1 DEF TypeOK
    <3> QED
      BY <2>2, <3>2 DEF SetBlocksPerEra
  <2>3. CASE \E v \in Rewards : HandleImbalance(v)
    BY <2>3 DEF HandleImbalance
  <2>4. CASE UNCHANGED vars
    BY <2>4 DEF vars, stakingVars
  <2> QED
    BY <2>1, <2>2, <2>3, <2>4
<1>3. \A a \in Accounts : balances'[a] = balances[a]
  <2>1. CASE \E v \in Rewards : HandleImbalance(v)
    <3>1. PICK v \in Rewards : balances' = DepositCreating(balances, Pot, v)
      BY <2>1 DEF HandleImbalance
    <3>2. v \in Nat
      BY <1>1
    <3>3. ASSUME NEW a \in Accounts PROVE balances'[a] = balances[a]
      BY <1>1, <3>1, <3>2, ReservedBalances
    <3> QED
      BY <3>3
  <2>2. CASE ~(\E v \in Rewards : HandleImbalance(v))
    BY <2>2 DEF ContinueEra, SetBlocksPerEra, vars
  <2> QED
    BY <2>1, <2>2
<1>4. \A q \in Providers : BondHeld(q)' = BondHeld(q)
  BY <1>2 DEF BondHeld, ProviderEraInfoOrDefault, IsRegistered, LatestEra
<1>5. /\ Phases' = Phases /\ ClosingEras' = ClosingEras /\ Owners' = Owners
      /\ Bonds' = Bonds /\ Stakes' = Stakes /\ EarnedStakes' = EarnedStakes
      /\ Unlocking' = Unlocking /\ LockedFunds' = LockedFunds
  BY <1>2, <1>3, <1>4, ProvidersFrame, BondsFrame, StakesFrame, EarnedFrame, UnlockingFrame,
     LockedFrame
<1> QED
  BY <1>2, <1>5 DEF Ledger!ledgerVars

(* A provider's reward comes from the pot and leaves its bond reserved.    *)
LEMMA ClaimProviderMapped ==
  ASSUME LedgerInv, NEW p \in Providers, NEW e \in Eras, ClaimProvider(p, e)
  PROVE  UNCHANGED Ledger!ledgerVars
<1>1. PICK who, reward :
        /\ who = providerInfo[p].owner
        /\ reward = ProviderPart(providerEraInfo[p][e], eraState[e])
  OBVIOUS
<1>2. /\ who \in Accounts /\ reward \in Nat /\ e < LatestEra(p)
      /\ CanWithdraw(balances, Pot, reward) /\ balances' = Payout(who, reward)
      /\ UNCHANGED <<era, providerInfo, delegationInfo, unbondingInfo>>
  BY <1>1, ClaimProviderCall
<1>3. PICK info : providerEraInfo' = [providerEraInfo EXCEPT ![p][e] = info]
  BY DEF ClaimProvider
<1>4. TypeOK
  BY DEF LedgerInv, IndInv
<1>5. \A q \in Providers : /\ IsRegistered(q)' <=> IsRegistered(q)
                           /\ LatestEra(q)' = LatestEra(q)
                           /\ IsRegistered(q) => LatestEra(q) \in Eras
  <2>1. \A q \in Providers : IsRegistered(q) => LatestEra(q) \in Eras
    BY <1>4, HeldType DEF HeldTyped
  <2> QED
    BY <1>2, <2>1 DEF IsRegistered, LatestEra
<1>6. ASSUME NEW q \in Providers, IsRegistered(q)
      PROVE  providerEraInfo'[q][LatestEra(q)] = providerEraInfo[q][LatestEra(q)]
  <2>1. e \in Nat /\ LatestEra(q) \in Nat /\ LatestEra(q) \in Eras
    BY <1>5, <1>6 DEF Eras
  <2>2. q # p \/ LatestEra(q) # e
    BY <1>2, <2>1
  <2> QED
    BY <1>3, <1>4, <2>1, <2>2 DEF TypeOK
<1>7. \A q \in Providers : BondHeld(q)' = BondHeld(q)
  BY <1>2, <1>5, <1>6 DEF BondHeld, ProviderEraInfoOrDefault
<1>8. \A a \in Accounts : balances'[a].reserved = balances[a].reserved
  BY <1>2, <1>4, ReservedBalances
<1>9. /\ Phases' = Phases /\ ClosingEras' = ClosingEras /\ Owners' = Owners
      /\ Bonds' = Bonds /\ Stakes' = Stakes /\ EarnedStakes' = EarnedStakes
      /\ Unlocking' = Unlocking /\ LockedFunds' = LockedFunds
  BY <1>2, <1>7, <1>8, ProvidersFrame, BondsFrame, StakesFrame, EarnedFrame, UnlockingFrame,
     LockedFrame
<1> QED
  BY <1>2, <1>9 DEF Ledger!ledgerVars

(* At genesis there are no providers, no stakes and nothing unlocks.       *)
LEMMA StakeLedgerInit == Init => Ledger!Init
<1> SUFFICES ASSUME Init PROVE Ledger!Init
  OBVIOUS
<1>1. /\ era.current = 0
      /\ \A p \in Providers : ~IsRegistered(p) /\ ~IsUnregistered(p)
      /\ \A a \in Accounts : unbondingInfo[a] = <<>>
      /\ \A a \in Accounts, p \in Providers : delegationInfo[a][p] = <<>>
  BY DEF Init, IsRegistered, IsUnregistered
<1>2. TypeOK
  BY InitIndInv DEF IndInv
<1>3. /\ Phases = [p \in Providers |-> "new"] /\ ClosingEras = [p \in Providers |-> 0]
      /\ Owners = [p \in Providers |-> None] /\ Bonds = [p \in Providers |-> 0]
  <2>1. \A p \in Providers : PhaseOf(p) = "new" /\ BondHeld(p) = 0
    BY <1>1 DEF PhaseOf, BondHeld, IsActiveProvider, IsRegistered, IsUnregistered
  <2> QED
    BY <1>1, <2>1 DEF Phases, ClosingEras, Owners, Bonds
<1>4. Stakes = [a \in Accounts |-> [p \in Providers |-> 0]]
  BY <1>1 DEF Stakes, LatestStakedValue
<1>5. EarnedStakes = [a \in Accounts |-> [p \in Providers |-> [e \in Eras |-> 0]]]
  BY <1>1 DEF EarnedStakes, EraEarned
<1>6. Unlocking = [a \in Accounts |-> [e \in 0..(MaxEra + UnbondingPeriod) |-> 0]]
  <2>1. ASSUME NEW a \in Accounts, NEW e \in 0..(MaxEra + UnbondingPeriod)
        PROVE  UnlocksIn(a, e) = 0
    <3>1. e \in Nat /\ UnlocksIn(a, e) = UnlockAt(unbondingInfo[a], e)
      BY <1>2, UnlocksMapped DEF UnlocksRead
    <3>2. unbondingInfo[a] \in Seq(UnlockingChunk) /\ Len(unbondingInfo[a]) = 0
      BY <1>1, <1>2 DEF TypeOK
    <3>3. \A i \in 1..Len(unbondingInfo[a]) : unbondingInfo[a][i].unlock_era # e
      BY <3>2
    <3> QED
      BY <3>1, <3>2, <3>3, UnlockAtNone
  <2> QED
    BY <2>1 DEF Unlocking
<1>7. LockedFunds = [a \in Accounts |-> 0]
  <2>1. \A a \in Accounts : balances[a].reserved = 0
    BY StakingAssumption DEF Init, Holders, EmptyAccount
  <2> QED
    BY <2>1 DEF LockedFunds
<1> QED
  BY <1>1, <1>3, <1>4, <1>5, <1>6, <1>7 DEF Ledger!Init, Ledger!Eras, Eras, Ledger!UnlockEras

(* Every step of the pallet is a step of the ledger, or is invisible.      *)
LEMMA StakeLedgerNext ==
  ASSUME LedgerInv, Entitled, AmountsFit, WithinIssuance, [Next]_vars
  PROVE  [Ledger!Next]_(Ledger!ledgerVars)
<1>1. TypeOK'
  BY NextIndInv DEF LedgerInv, IndInv
<1>2. CASE StartEra
  BY <1>2, StartEraMapped DEF Ledger!Next
<1>3. CASE \/ ContinueEra
           \/ \E new \in EraLengths : SetBlocksPerEra(new)
           \/ \E v \in Rewards : HandleImbalance(v)
           \/ UNCHANGED vars
  BY <1>3, QuietMapped
<1>4. ASSUME NEW a \in Accounts, NEW p \in Providers, NEW v \in Amounts,
             \/ RegisterProvider(a, p, v)
             \/ ProviderBondMore(a, p, v)
             \/ ProviderBondLess(a, p, v)
             \/ Delegate(a, p, v)
             \/ DelegatorUnstake(a, p, v)
      PROVE  Ledger!Next
  <2>1. CASE RegisterProvider(a, p, v)
    BY <2>1, RegisterProviderMapped DEF Ledger!Next
  <2>2. CASE ProviderBondMore(a, p, v)
    BY <1>1, <2>2, ProviderBondMoreMapped DEF Ledger!Next
  <2>3. CASE ProviderBondLess(a, p, v)
    BY <1>1, <2>3, ProviderBondLessMapped DEF Ledger!Next
  <2>4. CASE Delegate(a, p, v)
    BY <1>1, <2>4, DelegateMapped DEF Ledger!Next
  <2>5. CASE DelegatorUnstake(a, p, v)
    BY <1>1, <2>5, DelegatorUnstakeMapped DEF Ledger!Next
  <2> QED
    BY <1>4, <2>1, <2>2, <2>3, <2>4, <2>5
<1>5. ASSUME NEW a \in Accounts, WithdrawUnbonded(a) PROVE Ledger!Next
  BY <1>1, <1>5, WithdrawUnbondedMapped DEF Ledger!Next
<1>6. ASSUME NEW p \in Providers, NEW e \in Eras, ClaimProvider(p, e)
      PROVE  UNCHANGED Ledger!ledgerVars
  BY <1>6, ClaimProviderMapped
<1>7. ASSUME NEW a \in Accounts, NEW p \in Providers,
             ClaimDelegator(a, p) \/ DelegatorWithdrawUnregistered(a, p)
      PROVE  Ledger!Next
  BY <1>1, <1>7, ClaimDelegatorMapped, DelegatorWithdrawUnregisteredMapped DEF Ledger!Next
<1>8. ASSUME NEW p \in Providers, ProviderWithdrawUnregistered(p) \/ UnregisterProvider(p)
      PROVE  Ledger!Next
  BY <1>8, ProviderWithdrawUnregisteredMapped, UnregisterProviderMapped DEF Ledger!Next
<1> QED
  BY <1>2, <1>3, <1>4, <1>5, <1>6, <1>7, <1>8 DEF Next

(* The pallet implements the ledger: for every set of accounts and         *)
(* providers and every history of calls, the stake vectors, the chunk      *)
(* lists and the per-era snapshots represent the plain amounts that        *)
(* StakeLedger moves.                                                      *)
THEOREM PalletImplementsStakeLedger ==
  ASSUME IssuanceFits, AmountsFit
  PROVE  Spec => ImplementsStakeLedger
<1>1. PalletInv /\ Entitled /\ [Next]_vars => (PalletInv /\ Entitled)'
  BY NextPalletInv, NextEntitled DEF PalletInv
<1>2. PalletInv /\ Entitled /\ [Next]_vars => [Ledger!Next]_(Ledger!ledgerVars)
  BY BoundedWithinIssuance, StakeLedgerNext DEF PalletInv, LedgerInv, IndInv
<1>3. Init => PalletInv /\ Entitled /\ Ledger!Init
  BY InitPalletInv, InitEntitled, StakeLedgerInit
<1> QED
  BY <1>1, <1>2, <1>3, PTL DEF Spec, ImplementsStakeLedger, Ledger!Spec

----------------------------------------------------------------------------
(* Solvency                                                                *)

(* What a provider and its delegators can still claim of an era.           *)
Claims(p, e) == UnclaimedByProvider(p, e) + UnclaimedByDelegators(p, e)

ClaimsIn(e) == [p \in Providers |-> Claims(p, e)]

ClaimsOf(e) == SumFunctionOnSet(ClaimsIn(e), Providers)

OpenClaims(n) == [e \in 0..(n - 1) |-> ClaimsOf(e)]

DelegatorClaims(p, e) ==
  [a \in Accounts |-> DelegatorReward(StakedAt(delegationInfo[a][p], e),
                                      providerEraInfo[p][e], eraState[e])]

LEMMA UnclaimedIsSum ==
  /\ UnclaimedRewards = SumFunctionOnSet(OpenClaims(era.current), 0..(era.current - 1))
  /\ \A p, e : UnclaimedByDelegators(p, e) =
       IF CountedIn(p, e) THEN SumFunctionOnSet(DelegatorClaims(p, e), Accounts) ELSE 0
<1>1. UnclaimedRewards = SumFunctionOnSet(OpenClaims(era.current), 0..(era.current - 1))
  BY DEF UnclaimedRewards, SumOver, OpenClaims, ClaimsOf, ClaimsIn, Claims
<1>2. \A p, e : UnclaimedByDelegators(p, e) =
        IF CountedIn(p, e) THEN SumFunctionOnSet(DelegatorClaims(p, e), Accounts) ELSE 0
  BY DEF UnclaimedByDelegators, SumOver, DelegatorClaims
<1> QED
  BY <1>1, <1>2

ClaimsTyped ==
  /\ \A e \in 0..(era.current - 1) :
       /\ e \in Eras /\ e < era.current
       /\ eraState[e] \in EraMetadata
       /\ \A p \in Providers :
            /\ CountedIn(p, e) =>
                 /\ providerEraInfo[p][e] \in ProviderEraMetadata
                 /\ \A a \in Accounts : DelegatorClaims(p, e)[a] \in Nat
            /\ UnclaimedByProvider(p, e) \in Nat /\ UnclaimedByDelegators(p, e) \in Nat
            /\ Claims(p, e) \in Nat /\ ClaimsIn(e)[p] = Claims(p, e)
       /\ ClaimsOf(e) \in Nat
       /\ OpenClaims(era.current)[e] = ClaimsOf(e)
  /\ UnclaimedRewards \in Nat

LEMMA ClaimsType == LedgerInv => ClaimsTyped
<1> SUFFICES ASSUME LedgerInv PROVE ClaimsTyped
  OBVIOUS
<1>1. TypeOK /\ ErasBegun /\ IndInv /\ era.current \in Eras /\ era.current \in Nat
  BY StateTypes DEF LedgerInv, IndInv
<1>2. ASSUME NEW e \in 0..(era.current - 1)
      PROVE  /\ e \in Eras /\ e < era.current /\ eraState[e] \in EraMetadata
             /\ \A p \in Providers :
                  /\ CountedIn(p, e) =>
                       /\ providerEraInfo[p][e] \in ProviderEraMetadata
                       /\ \A a \in Accounts : DelegatorClaims(p, e)[a] \in Nat
                  /\ UnclaimedByProvider(p, e) \in Nat /\ UnclaimedByDelegators(p, e) \in Nat
                  /\ Claims(p, e) \in Nat /\ ClaimsIn(e)[p] = Claims(p, e)
             /\ ClaimsOf(e) \in Nat
             /\ OpenClaims(era.current)[e] = ClaimsOf(e)
  <2>1. e \in Eras /\ e \in Nat /\ e < era.current /\ era.current > 0
    BY <1>1, StakingAssumption DEF Eras
  <2>2. eraState[e] \in EraMetadata
    <3>1. eraState[e] # None
      BY <1>1, <2>1 DEF ErasBegun
    <3> QED
      BY <1>1, <2>1, <3>1, StakedType
  <2>3. ASSUME NEW p \in Providers, CountedIn(p, e)
        PROVE  /\ providerEraInfo[p][e] \in ProviderEraMetadata
               /\ \A a \in Accounts : DelegatorClaims(p, e)[a] \in Nat
               /\ UnclaimedByProvider(p, e) \in Nat /\ UnclaimedByDelegators(p, e) \in Nat
    <3>1. providerEraInfo[p][e] \in ProviderEraMetadata
      BY <1>1, <2>1, <2>3 DEF CountedIn, TypeOK
    <3>2. \A a \in Accounts : StakedAt(delegationInfo[a][p], e) \in Nat
      BY <1>1, <2>1, StakesType DEF StakesTyped
    <3>3. \A a \in Accounts : DelegatorClaims(p, e)[a] \in Nat
      BY <2>2, <3>1, <3>2, RewardType DEF DelegatorClaims
    <3>4. SumFunctionOnSet(DelegatorClaims(p, e), Accounts) \in Nat
      BY <3>3, FiniteAssumption, SumNat
    <3>5. UnclaimedByProvider(p, e) \in Nat
      <4>1. ProviderPart(providerEraInfo[p][e], eraState[e]) \in Nat
        BY <2>2, <3>1, RewardType, 0 \in Nat
      <4> QED
        BY <4>1 DEF UnclaimedByProvider
    <3> QED
      BY <2>3, <3>1, <3>3, <3>4, <3>5, UnclaimedIsSum
  <2>4. \A p \in Providers : ~CountedIn(p, e) =>
          UnclaimedByProvider(p, e) \in Nat /\ UnclaimedByDelegators(p, e) \in Nat
    BY DEF UnclaimedByProvider, UnclaimedByDelegators
  <2>5. \A p \in Providers :
          /\ UnclaimedByProvider(p, e) \in Nat /\ UnclaimedByDelegators(p, e) \in Nat
          /\ Claims(p, e) \in Nat /\ ClaimsIn(e)[p] = Claims(p, e)
    BY <2>3, <2>4 DEF Claims, ClaimsIn
  <2>6. ClaimsOf(e) \in Nat
    BY <2>5, FiniteAssumption, SumNat DEF ClaimsOf
  <2> QED
    BY <2>1, <2>2, <2>3, <2>5, <2>6 DEF OpenClaims
<1>3. UnclaimedRewards \in Nat
  <2>1. \A e \in 0..(era.current - 1) : OpenClaims(era.current)[e] \in Nat
    BY <1>2
  <2>2. IsFiniteSet(0..(era.current - 1))
    BY <1>1, FS_Interval
  <2>3. SumFunctionOnSet(OpenClaims(era.current), 0..(era.current - 1)) \in Nat
    BY <2>1, <2>2, SumNat
  <2> QED
    BY <2>3, UnclaimedIsSum
<1> QED
  BY <1>2, <1>3 DEF ClaimsTyped

LEMMA ClaimsTypeNext == LedgerInv' => ClaimsTyped'
BY ClaimsType, PTL

(* How the open claims change when no era ends.                            *)
LEMMA ClaimsStep ==
  ASSUME LedgerInv, LedgerInv', era'.current = era.current
  PROVE  /\ (\A p \in Providers, e \in 0..(era.current - 1) : Claims(p, e)' = Claims(p, e))
              => UnclaimedRewards' = UnclaimedRewards
         /\ \A p \in Providers, f \in 0..(era.current - 1) :
              (\A q \in Providers, e \in 0..(era.current - 1) :
                 ~(q = p /\ e = f) => Claims(q, e)' = Claims(q, e))
              => UnclaimedRewards' = UnclaimedRewards - Claims(p, f) + Claims(p, f)'
<1>0. PICK D : D = 0..(era.current - 1)
  OBVIOUS
<1>1. IsFiniteSet(D) /\ IsFiniteSet(Providers)
  BY <1>0, StateTypes, FS_Interval, FiniteAssumption DEF LedgerInv, IndInv
<1>2. PICK m : m = [e \in D |-> ClaimsIn(e)]
  OBVIOUS
<1>3. PICK m2 : m2 = [e \in D |-> ClaimsIn(e)']
  OBVIOUS
<1>4. \A e \in D : /\ m[e] = ClaimsIn(e) /\ m2[e] = ClaimsIn(e)'
                   /\ \A p \in Providers : /\ m[e][p] = Claims(p, e) /\ m[e][p] \in Int
                                           /\ m2[e][p] = Claims(p, e)' /\ m2[e][p] \in Int
  BY <1>0, <1>2, <1>3, ClaimsType, ClaimsTypeNext DEF ClaimsTyped
<1>5. PICK r, r2 : r = OpenClaims(era.current) /\ r2 = OpenClaims(era.current)'
  OBVIOUS
<1>6. UnclaimedRewards = SumFunctionOnSet(r, D) /\ UnclaimedRewards' = SumFunctionOnSet(r2, D)
  BY <1>0, <1>5 DEF UnclaimedRewards, SumOver, OpenClaims, ClaimsOf, ClaimsIn, Claims
<1>7. \A e \in D : /\ r[e] = SumFunctionOnSet(m[e], Providers) /\ r[e] \in Int
                   /\ r2[e] = SumFunctionOnSet(m2[e], Providers) /\ r2[e] \in Int
  BY <1>0, <1>4, <1>5, ClaimsType, ClaimsTypeNext DEF ClaimsTyped, ClaimsOf
<1>8. ASSUME \A p \in Providers, e \in 0..(era.current - 1) : Claims(p, e)' = Claims(p, e)
      PROVE  UnclaimedRewards' = UnclaimedRewards
  <2>1. \A e \in D, p \in Providers : m2[e][p] = m[e][p]
    BY <1>0, <1>4, <1>8
  <2>2. \A e \in D : r2[e] = r[e]
    <3> TAKE e \in D
    <3>1. \A p \in Providers : m2[e][p] = m[e][p]
      BY <2>1
    <3>2. SumFunctionOnSet(m2[e], Providers) = SumFunctionOnSet(m[e], Providers)
      BY <1>1, <3>1, SumEqual
    <3> QED
      BY <1>7, <3>2
  <2> QED
    BY <1>1, <1>6, <2>2, SumEqual
<1>9. ASSUME NEW p \in Providers, NEW f \in 0..(era.current - 1),
             \A q \in Providers, e \in 0..(era.current - 1) :
               ~(q = p /\ e = f) => Claims(q, e)' = Claims(q, e)
      PROVE  UnclaimedRewards' = UnclaimedRewards - Claims(p, f) + Claims(p, f)'
  <2>1. \A e \in D, q \in Providers : ~(q = p /\ e = f) => m2[e][q] = m[e][q]
    BY <1>0, <1>4, <1>9
  <2>2. \A e \in D : e # f => r2[e] = r[e]
    <3> SUFFICES ASSUME NEW e \in D, e # f PROVE r2[e] = r[e]
      OBVIOUS
    <3>1. \A q \in Providers : m2[e][q] = m[e][q]
      BY <2>1
    <3>2. SumFunctionOnSet(m2[e], Providers) = SumFunctionOnSet(m[e], Providers)
      BY <1>1, <3>1, SumEqual
    <3> QED
      BY <1>7, <3>2
  <2>3. f \in D
    BY <1>0
  <2>4. r2[f] = r[f] - m[f][p] + m2[f][p]
    <3>1. \A q \in Providers : q # p => m2[f][q] = m[f][q]
      BY <2>1, <2>3
    <3>2. (\A q \in Providers : m[f][q] \in Int) /\ m2[f][p] \in Int
      BY <1>4, <2>3
    <3>3. SumFunctionOnSet(m2[f], Providers) =
            SumFunctionOnSet(m[f], Providers) - m[f][p] + m2[f][p]
      BY <1>1, <3>1, <3>2, SumChange
    <3> QED
      BY <1>7, <2>3, <3>3
  <2>5. SumFunctionOnSet(r2, D) = SumFunctionOnSet(r, D) - r[f] + r2[f]
    <3>1. (\A e \in D : r[e] \in Int) /\ r2[f] \in Int
      BY <1>7, <2>3
    <3>2. \A x \in D : /\ \A e \in D : r[e] \in Int
                       /\ r2[x] \in Int
                       /\ \A e \in D : e # x => r2[e] = r[e]
                       => SumFunctionOnSet(r2, D) = SumFunctionOnSet(r, D) - r[x] + r2[x]
      BY ONLY <1>1, SumChange
    <3> QED
      BY ONLY <2>2, <2>3, <3>1, <3>2
  <2>6. /\ m[f][p] = Claims(p, f) /\ m2[f][p] = Claims(p, f)'
        /\ m[f][p] \in Int /\ m2[f][p] \in Int /\ r[f] \in Int
        /\ SumFunctionOnSet(r, D) \in Int
    BY <1>1, <1>4, <1>7, <2>3, SumType
  <2> QED
    BY <1>6, <2>4, <2>5, <2>6
<1> QED
  BY <1>8, <1>9

(* What can be claimed of a finished era is no more than its rewards and   *)
(* what rounding the shares adds: the providers share the rewards in       *)
(* proportion to their totals, whose sum is the era's total stake, and a   *)
(* provider's delegators share their part in proportion to their stakes,   *)
(* whose sum the provider's record covers.                                 *)
LEMMA ProviderClaims ==
  ASSUME LedgerInv, Totals, Accounts # {},
         NEW e \in 0..(era.current - 1), NEW p \in Providers, CountedIn(p, e)
  PROVE  /\ ProviderRewards(providerEraInfo[p][e], eraState[e]) \in Nat
         /\ Claims(p, e) <= ProviderRewards(providerEraInfo[p][e], eraState[e])
                              + (Cardinality(Accounts) - 1) \div 2
<1>1. PICK info, state : info = providerEraInfo[p][e] /\ state = eraState[e]
  OBVIOUS
<1>2. PICK all, own, rest : /\ all = ProviderRewards(info, state)
                            /\ own = ProviderPart(info, state)
                            /\ rest = DelegatorsPart(info, state)
  OBVIOUS
<1>3. /\ IndInv /\ TypeOK /\ e \in Eras /\ e < era.current
      /\ info \in ProviderEraMetadata /\ state \in EraMetadata
  BY <1>1, ClaimsType DEF ClaimsTyped, LedgerInv, IndInv
<1>4. /\ info.total \in Nat /\ info.bond \in Nat /\ state.staked \in Nat /\ state.rewards \in Nat
  BY <1>3 DEF ProviderEraMetadata, EraMetadata
<1>5. all \in Nat
  BY <1>2, <1>4, FromRationalType, PerbillMulType DEF ProviderRewards
<1>6. own \in Nat /\ own <= all
  <2>1. own \in 0..all
    BY <1>2, <1>5, StakingAssumption, PerbillMulBound DEF ProviderPart
  <2> QED
    BY <1>5, <2>1
<1>7. rest \in Nat /\ rest = all - own
  BY <1>2, <1>5, <1>6 DEF DelegatorsPart, SatSub
<1>8. PICK W : W = SatSub(info.total, info.bond)
  OBVIOUS
<1>9. W \in Nat /\ W >= StakedOn(p, e) /\ StakedOn(p, e) \in Nat
  <2>1. IsRegistered(p) /\ e <= LatestEra(p) /\ info # None
    <3>1. IsRegistered(p) /\ info # None
      BY <1>1 DEF CountedIn
    <3>2. e \in Nat /\ era.current \in Nat
      BY <1>3, StateTypes DEF Eras
    <3>3. CASE providerInfo[p].status = Active
      BY <1>3, <3>1, <3>2, <3>3 DEF LatestEra
    <3>4. CASE providerInfo[p].status # Active
      <4>1. providerInfo[p].status \in Nat /\ e < providerInfo[p].status
        BY <1>3, <3>1, <3>4, StateTypes DEF CountedIn, Eras
      <4> QED
        BY <3>1, <3>2, <3>4, <4>1 DEF LatestEra
    <3> QED
      BY <3>3, <3>4
  <2>2. StakedOn(p, e) \in Nat
    BY <1>3, StakesType DEF StakesTyped
  <2>3. info.total >= info.bond + StakedOn(p, e)
    BY <1>1, <1>3, <2>1 DEF Totals, CoveredAt
  <2> QED
    BY <1>4, <1>8, <2>2, <2>3 DEF SatSub
<1>10. PICK w, shares : w = StakesAt(p, e) /\ shares = DelegatorClaims(p, e)
  OBVIOUS
<1>11. /\ \A a \in Accounts : w[a] \in Nat
       /\ \A a \in Accounts : shares[a] = PerbillMul(FromRational(w[a], W), rest)
       /\ StakedOn(p, e) = SumFunctionOnSet(w, Accounts)
  <2>1. \A a \in Accounts : w[a] = StakedAt(delegationInfo[a][p], e) /\ w[a] \in Nat
    BY <1>3, <1>10, StakesType DEF StakesTyped
  <2>2. \A a \in Accounts : shares[a] = PerbillMul(FromRational(w[a], W), rest)
    BY <1>1, <1>2, <1>8, <1>10, <2>1 DEF DelegatorClaims, DelegatorReward
  <2>3. StakedOn(p, e) = SumFunctionOnSet(w, Accounts)
    BY <1>10 DEF StakedOn
  <2> QED
    BY <2>1, <2>2, <2>3
<1>12. PICK h : h = (Cardinality(Accounts) - 1) \div 2
  OBVIOUS
<1>13. /\ SumFunctionOnSet(shares, Accounts) \in Nat
       /\ SumFunctionOnSet(shares, Accounts) <= rest + h
  <2>1. W >= SumFunctionOnSet(w, Accounts)
    BY <1>9, <1>11
  <2> QED
    BY <1>7, <1>9, <1>11, <1>12, <2>1, FiniteAssumption, SharesTogether
<1>14. UnclaimedByDelegators(p, e) = SumFunctionOnSet(shares, Accounts)
  BY <1>10, UnclaimedIsSum
<1>15. UnclaimedByProvider(p, e) \in {0, own}
  BY <1>1, <1>2 DEF UnclaimedByProvider
<1>16. h \in Int
  BY <1>12, FS_CardinalityType, FiniteAssumption
<1>17. Claims(p, e) <= all + h
  BY <1>5, <1>6, <1>7, <1>13, <1>14, <1>15, <1>16 DEF Claims
<1> QED
  BY <1>1, <1>2, <1>5, <1>12, <1>17

LEMMA SlackType ==
  ASSUME Accounts # {}, Providers # {}
  PROVE  /\ (Cardinality(Accounts) - 1) \div 2 \in Nat
         /\ (Cardinality(Providers) - 1) \div 2 \in Nat
         /\ Cardinality(Providers) \in Nat
         /\ Cardinality(Providers) * ((Cardinality(Accounts) - 1) \div 2) \in Nat
         /\ RoundingSlack = (Cardinality(Providers) - 1) \div 2
              + ((Cardinality(Accounts) - 1) \div 2) * Cardinality(Providers)
         /\ RoundingSlack \in Nat
<1>1. PICK m, n : m = Cardinality(Accounts) /\ n = Cardinality(Providers)
  OBVIOUS
<1>2. m \in Nat \ {0} /\ n \in Nat \ {0}
  BY <1>1, FiniteAssumption, FS_CardinalityType, FS_EmptySet
<1>3. \A k \in Nat \ {0} : (k - 1) \div 2 \in Nat
  OBVIOUS
<1>4. PICK x, y : x = (m - 1) \div 2 /\ y = (n - 1) \div 2
  OBVIOUS
<1>5. x \in Nat /\ y \in Nat
  BY <1>2, <1>3, <1>4
<1>6. n * x \in Nat /\ n * x = x * n
  BY <1>2, <1>5
<1>7. RoundingSlack = y + n * x
  BY <1>1, <1>4 DEF RoundingSlack
<1> QED
  BY <1>1, <1>2, <1>4, <1>5, <1>6, <1>7

LEMMA EraClaims ==
  ASSUME LedgerInv, Totals, EraSums, Accounts # {}, Providers # {},
         NEW e \in 0..(era.current - 1)
  PROVE  ClaimsOf(e) <= eraState[e].rewards + RoundingSlack
<1>1. PICK W, R, h, n : /\ W = eraState[e].staked /\ R = eraState[e].rewards
                        /\ h = (Cardinality(Accounts) - 1) \div 2
                        /\ n = Cardinality(Providers)
  OBVIOUS
<1>2. /\ TypeOK /\ e \in Eras /\ eraState[e] \in EraMetadata /\ eraState[e] # None
      /\ W \in Nat /\ R \in Nat
      /\ \A p \in Providers : /\ Claims(p, e) \in Nat /\ ClaimsIn(e)[p] = Claims(p, e)
  BY <1>1, ClaimsType, NoneAssumption DEF ClaimsTyped, LedgerInv, IndInv, EraMetadata
<1>3. h \in Nat /\ n \in Nat /\ (n - 1) \div 2 \in Nat
      /\ RoundingSlack = (n - 1) \div 2 + h * n
  BY <1>1, SlackType
<1>4. PICK w, shares, room, bound, claims :
        /\ w = CountedTotals(e)
        /\ shares = [p \in Providers |-> PerbillMul(FromRational(w[p], W), R)]
        /\ room = [p \in Providers |-> h]
        /\ bound = [p \in Providers |-> shares[p] + room[p]]
        /\ claims = ClaimsIn(e)
  OBVIOUS
<1>5. /\ \A p \in Providers : w[p] = CountedOf(p, e) /\ w[p] \in Nat
      /\ SumFunctionOnSet(w, Providers) = W
  <2>1. \A p \in Providers : w[p] = CountedOf(p, e) /\ w[p] \in Nat
    BY <1>2, <1>4, CountedType DEF CountedTyped
  <2>2. SumFunctionOnSet(w, Providers) = W
    BY <1>1, <1>2, <1>4 DEF EraSums, CountedSum
  <2> QED
    BY <2>1, <2>2
<1>6. \A p \in Providers : shares[p] = PerbillMul(FromRational(w[p], W), R) /\ room[p] = h
  BY <1>4
<1>7. /\ \A p \in Providers : shares[p] \in Nat
      /\ SumFunctionOnSet(shares, Providers) \in Nat
      /\ SumFunctionOnSet(shares, Providers) <= R + (n - 1) \div 2
  <2>1. W >= SumFunctionOnSet(w, Providers)
    BY <1>2, <1>5
  <2> QED
    BY <1>1, <1>2, <1>5, <1>6, <2>1, FiniteAssumption, SharesTogether
<1>8. SumFunctionOnSet(room, Providers) = h * n
  BY <1>1, <1>3, <1>6, FiniteAssumption, SumConstant
<1>9. \A p \in Providers : /\ shares[p] \in Int /\ room[p] \in Int
                           /\ bound[p] = shares[p] + room[p] /\ bound[p] \in Int
  BY <1>3, <1>4, <1>6, <1>7
<1>10. SumFunctionOnSet(bound, Providers) =
         SumFunctionOnSet(shares, Providers) + SumFunctionOnSet(room, Providers)
  BY <1>9, FiniteAssumption, SumPlus
<1>11. ASSUME NEW p \in Providers PROVE claims[p] <= bound[p] /\ claims[p] \in Int
  <2>1. claims[p] = Claims(p, e) /\ claims[p] \in Nat
    BY <1>2, <1>4
  <2>2. bound[p] = shares[p] + h
    BY <1>6, <1>9
  <2>3. CASE CountedIn(p, e)
    <3>1. w[p] = providerEraInfo[p][e].total
      BY <1>5, <2>3 DEF CountedOf
    <3>2. ProviderRewards(providerEraInfo[p][e], eraState[e]) = shares[p]
      BY <1>1, <1>6, <3>1 DEF ProviderRewards
    <3>3. Claims(p, e) <= shares[p] + h
      BY <1>1, <2>3, <3>2, ProviderClaims
    <3> QED
      BY <2>1, <2>2, <3>3
  <2>4. CASE ~CountedIn(p, e)
    <3>1. Claims(p, e) = 0
      BY <2>4 DEF Claims, UnclaimedByProvider, UnclaimedByDelegators
    <3> QED
      BY <1>3, <1>7, <2>1, <2>2, <3>1
  <2> QED
    BY <2>3, <2>4
<1>12. SumFunctionOnSet(claims, Providers) <= SumFunctionOnSet(bound, Providers)
  BY <1>9, <1>11, FiniteAssumption, SumMonotone
<1>13. ClaimsOf(e) = SumFunctionOnSet(claims, Providers) /\ ClaimsOf(e) \in Nat
  BY <1>4, ClaimsType DEF ClaimsOf, ClaimsTyped
<1>14. h * n \in Nat
  BY <1>3
<1> QED
  BY <1>1, <1>2, <1>3, <1>7, <1>8, <1>10, <1>12, <1>13, <1>14

LEMMA CountedClaimable ==
  ASSUME LedgerInv, NEW p \in Providers, NEW e \in 0..(era.current - 1), CountedIn(p, e)
  PROVE  EraClaimable(p, e)
<1>1. e < era.current
  BY ClaimsType DEF ClaimsTyped
<1> QED
  BY <1>1 DEF CountedIn, EraClaimable

(* The claims of a provider's era depend on nothing else.                  *)
LEMMA ClaimsKept ==
  ASSUME NEW p \in Providers, NEW e,
         CountedIn(p, e)' <=> CountedIn(p, e),
         CountedIn(p, e) =>
           /\ providerEraInfo'[p][e] = providerEraInfo[p][e]
           /\ eraState'[e] = eraState[e]
           /\ \A a \in Accounts :
                StakedAt(delegationInfo'[a][p], e) = StakedAt(delegationInfo[a][p], e)
  PROVE  Claims(p, e)' = Claims(p, e)
<1>1. CASE ~CountedIn(p, e)
  BY <1>1 DEF Claims, UnclaimedByProvider, UnclaimedByDelegators
<1>2. CASE CountedIn(p, e)
  <2>1. UnclaimedByProvider(p, e)' = UnclaimedByProvider(p, e)
    BY <1>2 DEF UnclaimedByProvider
  <2>2. DelegatorClaims(p, e)' = DelegatorClaims(p, e)
    BY <1>2 DEF DelegatorClaims
  <2>3. /\ UnclaimedByDelegators(p, e) = SumFunctionOnSet(DelegatorClaims(p, e), Accounts)
        /\ UnclaimedByDelegators(p, e)' = SumFunctionOnSet(DelegatorClaims(p, e)', Accounts)
    BY <1>2 DEF UnclaimedByDelegators, SumOver, DelegatorClaims
  <2> QED
    BY <2>1, <2>2, <2>3 DEF Claims
<1> QED
  BY <1>1, <1>2

(* A step that neither ends an era nor pays a claim.                       *)
QuietStep ==
  /\ [Next]_vars
  /\ ~StartEra
  /\ ~\E p \in Providers, e \in Eras : ClaimProvider(p, e)
  /\ ~\E a \in Accounts, p \in Providers : ClaimDelegator(a, p)

(* The records of the finished eras stay, and who is counted in them.      *)
LEMMA FinishedRecordsKept ==
  ASSUME LedgerInv, AmountsFit, QuietStep
  PROVE  /\ era'.current = era.current
         /\ \A p \in Providers, e \in 0..(era.current - 1) :
              /\ CountedIn(p, e)' <=> CountedIn(p, e)
              /\ providerEraInfo'[p][e] = providerEraInfo[p][e]
              /\ eraState'[e] = eraState[e]
<1>0. PICK c : c = era.current
  OBVIOUS
<1>1. TypeOK /\ Recorded /\ c \in Eras /\ c \in Nat
  BY <1>0, StateTypes DEF LedgerInv, IndInv
<1>2. \A e \in 0..(c - 1) : e \in Eras /\ e # c /\ e < c
  BY <1>1, StakingAssumption DEF Eras
<1> DEFINE Goal == /\ era'.current = c
                   /\ \A p \in Providers, e \in 0..(c - 1) :
                        /\ CountedIn(p, e)' <=> CountedIn(p, e)
                        /\ providerEraInfo'[p][e] = providerEraInfo[p][e]
                        /\ eraState'[e] = eraState[e]
<1>3. ASSUME \/ ContinueEra
             \/ \E new \in EraLengths : SetBlocksPerEra(new)
             \/ \E a \in Accounts : WithdrawUnbonded(a)
             \/ \E v \in Rewards : HandleImbalance(v)
             \/ \E a \in Accounts, p \in Providers : DelegatorWithdrawUnregistered(a, p)
             \/ UNCHANGED vars
      PROVE  Goal
  <2>1. /\ UNCHANGED <<eraState, providerInfo, providerEraInfo>>
        /\ era' = era \/ \E new \in EraLengths : era' = [era EXCEPT !.length = new]
    BY <1>3 DEF ContinueEra, SetBlocksPerEra, WithdrawUnbonded, HandleImbalance,
                DelegatorWithdrawUnregistered, stakingVars, vars
  <2>2. era'.current = era.current
    BY <2>1, <1>1 DEF TypeOK, EraInfo
  <2> QED
    BY <1>0, <2>1, <2>2 DEF CountedIn, IsRegistered
<1>4. ASSUME NEW who \in Accounts, NEW p \in Providers, NEW v \in Amounts,
             \/ ProviderBondMore(who, p, v)
             \/ ProviderBondLess(who, p, v)
             \/ Delegate(who, p, v)
             \/ DelegatorUnstake(who, p, v)
      PROVE  Goal
  <2>1. PICK info, staked, stakes :
          info \in ProviderEraMetadata /\ staked \in Nat /\ StakeCall(who, p, info, staked, stakes)
    <3>1. CASE ProviderBondMore(who, p, v)
      BY <3>1, ProviderBondMoreCall
    <3>2. CASE ProviderBondLess(who, p, v)
      BY <3>2, ProviderBondLessCall
    <3>3. CASE Delegate(who, p, v)
      BY <3>3, DelegateCall
    <3>4. CASE DelegatorUnstake(who, p, v)
      BY <3>4, DelegatorUnstakeCall
    <3> QED
      BY <1>4, <3>1, <3>2, <3>3, <3>4
  <2>2. /\ providerEraInfo' = [providerEraInfo EXCEPT ![p][c] = info]
        /\ eraState' = UpdateStaked(c, staked)
        /\ UNCHANGED <<era, providerInfo>>
    BY <1>0, <2>1 DEF StakeCall
  <2>3. \A q \in Providers, e \in Eras : e # c => providerEraInfo'[q][e] = providerEraInfo[q][e]
    BY <1>1, <2>2 DEF TypeOK
  <2>4. \A e \in Eras : e # c => eraState'[e] = eraState[e]
    BY <1>1, <2>2 DEF TypeOK, UpdateStaked
  <2> QED
    BY <1>0, <1>2, <2>2, <2>3, <2>4 DEF CountedIn, IsRegistered
<1>5. ASSUME NEW who \in Accounts, NEW p \in Providers, NEW v \in Amounts,
             RegisterProvider(who, p, v)
      PROVE  Goal
  <2>1. /\ ~IsRegistered(p) /\ era' = era
        /\ \A q \in Providers : q # p => providerInfo'[q] = providerInfo[q]
        /\ \A q \in Providers, e \in Eras : e # c =>
             providerEraInfo'[q][e] = providerEraInfo[q][e]
        /\ \A e \in Eras : e # c => eraState'[e] = eraState[e]
    BY <1>0, <1>5, RegisterProviderCall, ZenonT(60)
  <2>2. \A e \in 0..(c - 1) : ~CountedIn(p, e) /\ ~CountedIn(p, e)'
    <3>1. \A e \in Eras : providerEraInfo[p][e] = None
      BY <1>1, <2>1 DEF Recorded
    <3> QED
      BY <1>2, <2>1, <3>1 DEF CountedIn
  <2>3. \A q \in Providers, e \in 0..(c - 1) : q # p => (CountedIn(q, e)' <=> CountedIn(q, e))
    BY <1>2, <2>1 DEF CountedIn, IsRegistered
  <2> QED
    BY <1>0, <1>2, <2>1, <2>2, <2>3
<1>6. ASSUME NEW p \in Providers, UnregisterProvider(p)
      PROVE  Goal
  <2>1. PICK staked : staked \in Nat /\ eraState' = UpdateStaked(c, staked)
    BY <1>0, <1>6, UnregisterProviderCall
  <2>2. /\ UNCHANGED <<era, providerEraInfo>>
        /\ IsActiveProvider(p)
        /\ IsRegistered(p)' /\ IsRegistered(p)
        /\ providerInfo'[p].status = c
        /\ \A q \in Providers : q # p => providerInfo'[q] = providerInfo[q]
    BY <1>0, <1>6, UnregisterProviderCall DEF IsActiveProvider
  <2>3. \A e \in Eras : e # c => eraState'[e] = eraState[e]
    BY <1>1, <2>1 DEF TypeOK, UpdateStaked
  <2>4. \A e \in 0..(c - 1) : CountedIn(p, e)' <=> CountedIn(p, e)
    BY <1>2, <2>2 DEF CountedIn, IsActiveProvider
  <2>5. \A q \in Providers, e \in 0..(c - 1) : q # p => (CountedIn(q, e)' <=> CountedIn(q, e))
    BY <2>2 DEF CountedIn, IsRegistered
  <2> QED
    BY <1>0, <1>2, <2>2, <2>3, <2>4, <2>5
<1>7. ASSUME NEW p \in Providers, ProviderWithdrawUnregistered(p)
      PROVE  Goal
  <2>1. /\ UNCHANGED <<era, eraState, providerEraInfo>>
        /\ \A q \in Providers :
             /\ IsRegistered(q)' <=> IsRegistered(q)
             /\ IsRegistered(q) => providerInfo'[q].status = providerInfo[q].status
    BY <1>7, ProviderWithdrawCall
  <2> QED
    BY <1>0, <2>1 DEF CountedIn
<1>8. Goal
  <2> HIDE DEF Goal
  <2> QED
    BY <1>3, <1>4, <1>5, <1>6, <1>7 DEF QuietStep, Next
<1> QED
  BY <1>0, <1>8

LEMMA QuietClaims ==
  ASSUME LedgerInv, LedgerInv', Entitled, AmountsFit, QuietStep
  PROVE  UnclaimedRewards' = UnclaimedRewards
<1>1. /\ era'.current = era.current
      /\ \A p \in Providers, e \in 0..(era.current - 1) :
           /\ CountedIn(p, e)' <=> CountedIn(p, e)
           /\ providerEraInfo'[p][e] = providerEraInfo[p][e]
           /\ eraState'[e] = eraState[e]
  BY FinishedRecordsKept
<1>2. StakesKept
  <2>1. CASE Next
    BY <2>1, NextKeepsStakes DEF QuietStep
  <2>2. CASE UNCHANGED vars
    BY <2>2 DEF vars, stakingVars, StakesKept
  <2> QED
    BY <2>1, <2>2 DEF QuietStep
<1>3. ASSUME NEW p \in Providers, NEW e \in 0..(era.current - 1)
      PROVE  Claims(p, e)' = Claims(p, e)
  <2>1. e \in Eras
    BY ClaimsType DEF ClaimsTyped
  <2>2. CountedIn(p, e) => \A a \in Accounts :
          StakedAt(delegationInfo'[a][p], e) = StakedAt(delegationInfo[a][p], e)
    BY <1>2, <2>1, CountedClaimable DEF StakesKept
  <2> QED
    BY <1>1, <2>2, ClaimsKept
<1> QED
  BY <1>1, <1>3, ClaimsStep

(* Without a stake there is no reward.                                     *)
LEMMA NoStakeNoReward ==
  ASSUME NEW info \in ProviderEraMetadata, NEW state \in EraMetadata
  PROVE  DelegatorReward(0, info, state) = 0
<1>1. PICK W, rest : W = SatSub(info.total, info.bond) /\ rest = DelegatorsPart(info, state)
  OBVIOUS
<1>2. /\ info.total \in Nat /\ info.bond \in Nat /\ state.staked \in Nat /\ state.rewards \in Nat
  BY DEF ProviderEraMetadata, EraMetadata
<1>3. W \in Nat
  BY <1>1, <1>2 DEF SatSub
<1>4. rest \in Nat
  <2>1. ProviderRewards(info, state) \in Nat
    BY <1>2, FromRationalType, PerbillMulType DEF ProviderRewards
  <2>2. ProviderPart(info, state) \in Nat
    BY RewardType, 0 \in Nat
  <2> QED
    BY <1>1, <2>1, <2>2 DEF DelegatorsPart, SatSub
<1>5. FromRational(0, W) = 0
  <2>1. \A d \in Nat \ {0} : 0 \div d = 0
    OBVIOUS
  <2>2. 0 * Accuracy = 0
    BY AccuracyAssumption
  <2>3. CASE W = 0
    BY <2>1, <2>2, <2>3 DEF FromRational
  <2>4. CASE W # 0
    BY <1>3, <2>1, <2>2, <2>4 DEF FromRational
  <2> QED
    BY <2>3, <2>4
<1> QED
  BY <1>1, <1>4, <1>5, PerbillMulNothing DEF DelegatorReward

(* What the calls do to the pallet's account.  A payout takes the amount   *)
(* off it, unless it leaves less than the existential deposit.             *)
LEMMA PotPays ==
  ASSUME TypeOK, NEW who \in Accounts, NEW amount \in Nat,
         CanWithdraw(balances, Pot, amount), balances' = Payout(who, amount)
  PROVE  \/ balances'[Pot].free = balances[Pot].free - amount
         \/ balances'[Pot].free = 0 /\ balances[Pot].free - amount < ExistentialDeposit
<1>1. PICK mid : mid = WithdrawAllowDeath(balances, Pot, amount)
  OBVIOUS
<1>2. /\ balances \in LedgerOver(Holders) /\ Pot \in Holders /\ who \in Holders /\ who # Pot
  BY StakingAssumption DEF TypeOK, LedgerOver, Holders
<1>3. /\ mid \in LedgerOver(Holders)
      /\ \/ mid[Pot].free = balances[Pot].free - amount
         \/ mid[Pot] = EmptyAccount /\ TokensOf(balances[Pot]) - amount < ExistentialDeposit
  BY <1>1, <1>2, WithdrawAllowDeathEffect
<1>4. balances' = DepositCreating(mid, who, amount)
  BY <1>1 DEF Payout
<1>5. balances'[Pot] = mid[Pot]
  BY <1>2, <1>3, <1>4, DepositEffect
<1>6. CASE mid[Pot].free = balances[Pot].free - amount
  BY <1>5, <1>6
<1>7. CASE mid[Pot] = EmptyAccount /\ TokensOf(balances[Pot]) - amount < ExistentialDeposit
  <2>1. balances'[Pot].free = 0
    BY <1>5, <1>7 DEF EmptyAccount
  <2>2. /\ balances[Pot].free \in Nat /\ balances[Pot].reserved \in Nat
        /\ TokensOf(balances[Pot]) = balances[Pot].free + balances[Pot].reserved
    BY <1>2, AccountTokens
  <2>3. ExistentialDeposit \in Nat /\ balances[Pot].free >= amount
    BY CurrencyAssumption DEF CanWithdraw
  <2> QED
    BY <1>7, <2>1, <2>2, <2>3
<1> QED
  BY <1>3, <1>6, <1>7

(* What arrives at the pallet is in its account, unless it cannot create   *)
(* the account.                                                            *)
LEMMA PotReceives ==
  ASSUME TypeOK, NEW v \in Nat, HandleImbalance(v)
  PROVE  /\ rewardAccumulator' <= rewardAccumulator + v
         /\ \/ balances'[Pot].free = balances[Pot].free + v
            \/ /\ balances'[Pot].free = 0 /\ balances[Pot].free = 0
               /\ v < ExistentialDeposit
<1>1. rewardAccumulator \in Nat /\ MaxBalance \in Nat /\ ExistentialDeposit \in Nat
  BY CurrencyAssumption DEF TypeOK
<1>2. rewardAccumulator' <= rewardAccumulator + v
  BY <1>1 DEF HandleImbalance, SatAdd
<1>3. balances \in LedgerOver(Holders) /\ Pot \in Holders
  BY DEF TypeOK, LedgerOver, Holders
<1>4. balances' = DepositCreating(balances, Pot, v)
  BY DEF HandleImbalance
<1>5. \/ balances'[Pot].free = balances[Pot].free + v
      \/ balances' = balances /\ balances[Pot].free = 0 /\ v < ExistentialDeposit
  BY <1>1, <1>3, <1>4, DepositEffect
<1> QED
  BY <1>1, <1>2, <1>5

LEMMA PotKept ==
  ASSUME LedgerInv, QuietStep, ~\E v \in Rewards : HandleImbalance(v)
  PROVE  balances'[Pot] = balances[Pot] /\ rewardAccumulator' = rewardAccumulator
<1>1. TypeOK
  BY DEF LedgerInv, IndInv
<1>2. \A v : \A a \in Accounts : /\ Reserve(balances, a, v)[Pot] = balances[Pot]
                                  /\ Unreserve(balances, a, v)[Pot] = balances[Pot]
  BY <1>1, StakingAssumption DEF TypeOK, Holders, Reserve, Unreserve
<1>3. CASE ContinueEra \/ (\E new \in EraLengths : SetBlocksPerEra(new)) \/ UNCHANGED vars
  BY <1>3 DEF ContinueEra, SetBlocksPerEra, stakingVars, vars
<1>4. ASSUME NEW a \in Accounts, NEW p \in Providers, NEW v \in Amounts,
             \/ RegisterProvider(a, p, v)
             \/ ProviderBondMore(a, p, v)
             \/ ProviderBondLess(a, p, v)
             \/ Delegate(a, p, v)
             \/ DelegatorUnstake(a, p, v)
      PROVE  balances'[Pot] = balances[Pot] /\ rewardAccumulator' = rewardAccumulator
  <2>1. /\ rewardAccumulator' = rewardAccumulator
        /\ balances' = balances \/ balances' = Reserve(balances, a, v)
    BY <1>4 DEF RegisterProvider, ProviderBondMore, ProviderBondLess, Delegate,
                DelegatorUnstake, ReserveFunds
  <2> QED
    BY <1>2, <2>1
<1>5. CASE \E a \in Accounts : WithdrawUnbonded(a)
  BY <1>2, <1>5 DEF WithdrawUnbonded
<1>6. CASE \E a \in Accounts, p \in Providers : DelegatorWithdrawUnregistered(a, p)
  BY <1>2, <1>6 DEF DelegatorWithdrawUnregistered
<1>7. CASE \E p \in Providers : ProviderWithdrawUnregistered(p)
  <2>1. PICK p \in Providers : ProviderWithdrawUnregistered(p)
    BY <1>7
  <2>2. providerInfo[p].owner \in Accounts
    BY <1>1, <2>1, StateTypes
       DEF ProviderWithdrawUnregistered, UnregisteredUnbonded, IsUnregistered
  <2> QED
    BY <1>2, <2>1, <2>2 DEF ProviderWithdrawUnregistered
<1>8. CASE \E p \in Providers : UnregisterProvider(p)
  BY <1>8 DEF UnregisterProvider
<1> QED
  BY <1>3, <1>4, <1>5, <1>6, <1>7, <1>8 DEF QuietStep, Next

(* A claim of the provider takes its part off the open claims.             *)
LEMMA ProviderClaimed ==
  ASSUME LedgerInv, LedgerInv', NEW p \in Providers, NEW f \in Eras, ClaimProvider(p, f)
  PROVE  LET reward == ProviderPart(providerEraInfo[p][f], eraState[f])
         IN  /\ reward \in Nat /\ era' = era /\ rewardAccumulator' = rewardAccumulator
             /\ UnclaimedRewards' = UnclaimedRewards - reward
             /\ \/ balances'[Pot].free = balances[Pot].free - reward
                \/ balances'[Pot].free = 0 /\ balances[Pot].free - reward < ExistentialDeposit
<1>1. PICK old, info, reward : /\ old = providerEraInfo[p][f]
                               /\ info = [old EXCEPT !.provider_reward_claimed = TRUE]
                               /\ reward = ProviderPart(old, eraState[f])
  OBVIOUS
<1>2. /\ IsRegistered(p) /\ f < era.current
      /\ old # None /\ old \in ProviderEraMetadata /\ info \in ProviderEraMetadata /\ info # None
      /\ info.bond = old.bond /\ info.total = old.total
      /\ reward \in Nat
      /\ providerEraInfo' = [providerEraInfo EXCEPT ![p][f] = info]
      /\ providerInfo[p].owner \in Accounts
      /\ CanWithdraw(balances, Pot, reward)
      /\ balances' = Payout(providerInfo[p].owner, reward)
      /\ UNCHANGED <<era, eraState, rewardAccumulator, providerInfo, delegationInfo>>
  BY <1>1, ClaimProviderCall
<1>3. ~old.provider_reward_claimed /\ EraClaimable(p, f)
  BY <1>1, <1>2 DEF ClaimProvider, ProviderEraInfoOrDefault
<1>4. TypeOK /\ era.current \in Nat
  BY StateTypes DEF LedgerInv, IndInv
<1>5. \A q \in Providers, e \in Eras :
        providerEraInfo'[q][e] = IF q = p /\ e = f THEN info ELSE providerEraInfo[q][e]
  BY <1>2, <1>4 DEF TypeOK
<1>6. f \in 0..(era.current - 1)
  BY <1>2, <1>4 DEF Eras
<1>7. \A e \in 0..(era.current - 1) : e \in Eras
  BY ClaimsType DEF ClaimsTyped
<1>8. ASSUME NEW q \in Providers, NEW e \in 0..(era.current - 1), ~(q = p /\ e = f)
      PROVE  Claims(q, e)' = Claims(q, e)
  <2>1. providerEraInfo'[q][e] = providerEraInfo[q][e]
    BY <1>5, <1>7, <1>8
  <2>2. CountedIn(q, e)' <=> CountedIn(q, e)
    BY <1>2, <2>1 DEF CountedIn, IsRegistered
  <2> QED
    BY <1>2, <2>1, <2>2, ClaimsKept
<1>9. Claims(p, f)' = Claims(p, f) - reward
  <2>1. providerEraInfo'[p][f] = info /\ info.provider_reward_claimed
    <3>1. info.provider_reward_claimed
      BY <1>1, <1>2 DEF ProviderEraMetadata
    <3> QED
      BY <1>5, <3>1
  <2>2. CountedIn(p, f) /\ CountedIn(p, f)'
    BY <1>1, <1>2, <1>3, <2>1 DEF CountedIn, EraClaimable, IsRegistered
  <2>3. UnclaimedByProvider(p, f) = reward /\ UnclaimedByProvider(p, f)' = 0
    BY <1>1, <1>2, <1>3, <2>1, <2>2 DEF UnclaimedByProvider
  <2>4. DelegatorClaims(p, f)' = DelegatorClaims(p, f)
    <3>1. \A staked : DelegatorReward(staked, info, eraState[f]) =
                        DelegatorReward(staked, old, eraState[f])
      BY <1>2 DEF DelegatorReward, DelegatorsPart, ProviderPart, ProviderRewards
    <3> QED
      BY <1>1, <1>2, <2>1, <3>1 DEF DelegatorClaims
  <2>5. /\ UnclaimedByDelegators(p, f) = SumFunctionOnSet(DelegatorClaims(p, f), Accounts)
        /\ UnclaimedByDelegators(p, f)' = SumFunctionOnSet(DelegatorClaims(p, f)', Accounts)
    BY <2>2 DEF UnclaimedByDelegators, SumOver, DelegatorClaims
  <2>6. UnclaimedByDelegators(p, f) \in Nat
    BY <1>6, ClaimsType DEF ClaimsTyped
  <2> QED
    BY <1>2, <2>3, <2>4, <2>5, <2>6 DEF Claims
<1>10. UnclaimedRewards' = UnclaimedRewards - Claims(p, f) + Claims(p, f)'
  BY <1>2, <1>6, <1>8, ClaimsStep
<1>11. UnclaimedRewards \in Nat /\ Claims(p, f) \in Nat
  BY <1>6, ClaimsType DEF ClaimsTyped
<1>12. UnclaimedRewards' = UnclaimedRewards - reward
  BY <1>2, <1>9, <1>10, <1>11
<1>13. \/ balances'[Pot].free = balances[Pot].free - reward
       \/ balances'[Pot].free = 0 /\ balances[Pot].free - reward < ExistentialDeposit
  BY <1>2, <1>4, PotPays
<1> QED
  BY <1>1, <1>2, <1>12, <1>13

(* A claim of a delegator takes its reward for the era off them.           *)
LEMMA DelegatorClaimed ==
  ASSUME LedgerInv, LedgerInv', Entitled,
         NEW who \in Accounts, NEW p \in Providers, ClaimDelegator(who, p)
  PROVE  \E reward \in Nat :
           /\ era' = era /\ rewardAccumulator' = rewardAccumulator
           /\ UnclaimedRewards' = UnclaimedRewards - reward
           /\ \/ balances'[Pot].free = balances[Pot].free - reward
              \/ balances'[Pot].free = 0 /\ balances[Pot].free - reward < ExistentialDeposit
<1>1. PICK vector, f, stakes, reward :
        /\ vector = delegationInfo[who][p] /\ f = vector[1].era /\ stakes = Claim(vector)
        /\ reward = DelegatorReward(vector[1].amount, ProviderEraInfoOrDefault(p, f), eraState[f])
  OBVIOUS
<1>2. /\ IsRegistered(p) /\ EraClaimable(p, f) /\ f \in Eras /\ f < era.current
      /\ reward \in Nat
      /\ \A e \in Nat : StakedAt(stakes, e) = IF e = f THEN 0 ELSE StakedAt(vector, e)
      /\ delegationInfo' = [delegationInfo EXCEPT ![who][p] = stakes]
      /\ CanWithdraw(balances, Pot, reward)
      /\ balances' = Payout(who, reward)
      /\ UNCHANGED <<era, eraState, rewardAccumulator, providerInfo, providerEraInfo>>
  BY <1>1, ClaimDelegatorCall
<1>3. StakedAt(vector, f) = vector[1].amount /\ providerEraInfo[p][f] # None
  BY <1>1, ClaimEntitled
<1>4. TypeOK /\ era.current \in Nat /\ f \in 0..(era.current - 1)
  BY <1>2, StateTypes DEF LedgerInv, IndInv, Eras
<1>5. reward = DelegatorReward(StakedAt(vector, f), providerEraInfo[p][f], eraState[f])
  BY <1>1, <1>3 DEF ProviderEraInfoOrDefault
<1>6. \A a \in Accounts, q \in Providers :
        delegationInfo'[a][q] = IF a = who /\ q = p THEN stakes ELSE delegationInfo[a][q]
  BY <1>2, <1>4 DEF TypeOK
<1>7. \A e : \A q \in Providers : CountedIn(q, e)' <=> CountedIn(q, e)
  BY <1>2 DEF CountedIn, IsRegistered
<1>8. CountedIn(p, f)
  BY <1>2, <1>3 DEF CountedIn, EraClaimable
<1>9. ASSUME NEW q \in Providers, NEW e \in 0..(era.current - 1), ~(q = p /\ e = f)
      PROVE  Claims(q, e)' = Claims(q, e)
  <2>1. e \in Nat
    OBVIOUS
  <2>2. \A a \in Accounts :
          StakedAt(delegationInfo'[a][q], e) = StakedAt(delegationInfo[a][q], e)
    <3>1. CASE q = p /\ e # f
      <4>1. StakedAt(stakes, e) = StakedAt(vector, e)
        BY <1>2, <2>1, <3>1
      <4> QED
        BY <1>1, <1>6, <3>1, <4>1
    <3>2. CASE q # p
      BY <1>6, <3>2
    <3> QED
      BY <1>9, <3>1, <3>2
  <2> QED
    BY <1>2, <1>7, <2>2, ClaimsKept
<1>10. Claims(p, f)' = Claims(p, f) - reward
  <2>1. PICK m, m2 : m = DelegatorClaims(p, f) /\ m2 = DelegatorClaims(p, f)'
    OBVIOUS
  <2>2. /\ UnclaimedByDelegators(p, f) = SumFunctionOnSet(m, Accounts)
        /\ UnclaimedByDelegators(p, f)' = SumFunctionOnSet(m2, Accounts)
    BY <1>7, <1>8, <2>1 DEF UnclaimedByDelegators, SumOver, DelegatorClaims
  <2>3. (\A a \in Accounts : m[a] \in Int) /\ UnclaimedByProvider(p, f) \in Nat
    BY <1>4, <1>8, <2>1, ClaimsType DEF ClaimsTyped
  <2>4. \A a \in Accounts : a # who => m2[a] = m[a]
    BY <1>2, <1>6, <2>1 DEF DelegatorClaims
  <2>5. m[who] = reward
    BY <1>1, <1>5, <2>1 DEF DelegatorClaims
  <2>6. m2[who] = 0
    <3>1. f \in Nat /\ StakedAt(delegationInfo'[who][p], f) = 0
      BY <1>2, <1>4, <1>6
    <3>2. m2[who] = DelegatorReward(0, providerEraInfo[p][f], eraState[f])
      BY <1>2, <2>1, <3>1 DEF DelegatorClaims
    <3>3. PICK info, state : info = providerEraInfo[p][f] /\ state = eraState[f]
      OBVIOUS
    <3>4. info \in ProviderEraMetadata /\ state \in EraMetadata
      BY <1>4, <1>8, <3>3, ClaimsType DEF ClaimsTyped
    <3>5. DelegatorReward(0, info, state) = 0
      BY <3>4, NoStakeNoReward
    <3> QED
      BY <3>2, <3>3, <3>5
  <2>7. SumFunctionOnSet(m2, Accounts) = SumFunctionOnSet(m, Accounts) - m[who] + m2[who]
    <3>1. m2[who] \in Int /\ IsFiniteSet(Accounts)
      BY <2>6, FiniteAssumption
    <3> QED
      BY ONLY <2>3, <2>4, <3>1, SumChange, who \in Accounts
  <2>8. UnclaimedByProvider(p, f)' = UnclaimedByProvider(p, f)
    BY <1>2, <1>7 DEF UnclaimedByProvider
  <2>9. SumFunctionOnSet(m, Accounts) \in Int
    BY <2>3, FiniteAssumption, SumType
  <2> QED
    BY <1>2, <2>2, <2>3, <2>5, <2>6, <2>7, <2>8, <2>9 DEF Claims
<1>11. UnclaimedRewards' = UnclaimedRewards - Claims(p, f) + Claims(p, f)'
  BY <1>2, <1>4, <1>9, ClaimsStep
<1>12. UnclaimedRewards \in Nat /\ Claims(p, f) \in Nat
  BY <1>4, ClaimsType DEF ClaimsTyped
<1>13. UnclaimedRewards' = UnclaimedRewards - reward
  BY <1>2, <1>10, <1>11, <1>12
<1>14. \/ balances'[Pot].free = balances[Pot].free - reward
       \/ balances'[Pot].free = 0 /\ balances[Pot].free - reward < ExistentialDeposit
  BY <1>2, <1>4, PotPays
<1> QED
  BY <1>2, <1>13, <1>14

(* No finished era has more to pay than its rewards and the rounding.      *)
ClaimsBacked ==
  \A e \in 0..(era.current - 1) : ClaimsOf(e) <= eraState[e].rewards + RoundingSlack

LEMMA ErasBacked ==
  ASSUME Accounts # {}, Providers # {}
  PROVE  LedgerInv /\ Totals /\ EraSums => ClaimsBacked
BY EraClaims DEF ClaimsBacked

LEMMA ErasBackedNext ==
  ASSUME Accounts # {}, Providers # {}
  PROVE  LedgerInv' /\ Totals' /\ EraSums' => ClaimsBacked'
BY ErasBacked, PTL

(* The end of an era turns what the pallet collected into claims.          *)
LEMMA StartEraClaims ==
  ASSUME LedgerInv, LedgerInv', Totals', EraSums', Accounts # {}, Providers # {}, StartEra
  PROVE  /\ era'.current = era.current + 1
         /\ balances' = balances /\ rewardAccumulator' = 0
         /\ UnclaimedRewards' <= UnclaimedRewards + rewardAccumulator + RoundingSlack
<1>0. PICK c : c = era.current
  OBVIOUS
<1>1. /\ TypeOK /\ c \in Eras /\ c \in Nat /\ c + 1 \in Eras /\ era'.current = c + 1
      /\ UNCHANGED <<providerInfo, delegationInfo, balances>>
      /\ \A q \in Providers, e \in Eras : e # c + 1 =>
           providerEraInfo'[q][e] = providerEraInfo[q][e]
  BY <1>0, StartEraCall
<1>2. rewardAccumulator' = 0 /\ rewardAccumulator \in Nat
  BY <1>1 DEF StartEra, SnapshotEraRewards, TypeOK
<1> DEFINE next == [rewards |-> 0, staked |-> EraStateOrDefault(c).staked]
           done == [rewards |-> rewardAccumulator, staked |-> EraStateOrDefault(c).staked]
<1>3. eraState' = [eraState EXCEPT ![c + 1] = next, ![c] = done] /\ done.rewards = rewardAccumulator
  BY <1>0 DEF StartEra, SnapshotEraRewards
<1> HIDE DEF next, done
<1>4. /\ \A e \in Eras : e # c /\ e # c + 1 => eraState'[e] = eraState[e]
      /\ eraState'[c].rewards = rewardAccumulator
  BY <1>1, <1>3 DEF TypeOK
<1>5. \A e \in 0..(c - 1) : e \in Eras /\ e # c /\ e # c + 1 /\ e \in 0..c
  BY <1>1, StakingAssumption DEF Eras
<1>6. PICK r, r2, D : /\ r = OpenClaims(era.current) /\ r2 = OpenClaims(era.current)'
                      /\ D = 0..(c - 1)
  OBVIOUS
<1>7. /\ UnclaimedRewards = SumFunctionOnSet(r, D)
      /\ UnclaimedRewards' = SumFunctionOnSet(r2, D \cup {c})
  <2>1. UnclaimedRewards = SumFunctionOnSet(r, D)
    BY <1>0, <1>6, UnclaimedIsSum
  <2>2. c + 1 - 1 = c /\ 0..c = D \cup {c}
    BY <1>1, <1>6
  <2>3. UnclaimedRewards' = SumFunctionOnSet(r2, 0..(era'.current - 1))
    BY <1>6 DEF UnclaimedRewards, SumOver, OpenClaims, ClaimsOf, ClaimsIn, Claims
  <2>4. 0..(era'.current - 1) = D \cup {c}
    <3>1. era'.current - 1 = c
      BY <1>1
    <3> QED
      BY <2>2, <3>1
  <2> QED
    BY <2>1, <2>3, <2>4
<1>8. /\ \A e \in D : r[e] = ClaimsOf(e) /\ r[e] \in Int
      /\ \A e \in D \cup {c} : r2[e] = ClaimsOf(e)' /\ r2[e] \in Int
  <2>1. \A e \in D : r[e] = ClaimsOf(e) /\ r[e] \in Int
    BY <1>0, <1>6, ClaimsType DEF ClaimsTyped
  <2>2. \A e \in 0..(era'.current - 1) : r2[e] = ClaimsOf(e)' /\ r2[e] \in Int
    BY <1>6, ClaimsTypeNext DEF ClaimsTyped
  <2>3. \A e \in D \cup {c} : e \in 0..(era'.current - 1)
    BY <1>1, <1>6
  <2> QED
    BY <2>1, <2>2, <2>3
<1>9. \A e \in D : r2[e] = r[e]
  <2> SUFFICES ASSUME NEW e \in D PROVE ClaimsOf(e)' = ClaimsOf(e)
    BY <1>8
  <2>1. e \in Eras /\ e # c /\ e # c + 1
    BY <1>5, <1>6
  <2>2. ASSUME NEW p \in Providers PROVE Claims(p, e)' = Claims(p, e)
    <3>1. providerEraInfo'[p][e] = providerEraInfo[p][e] /\ eraState'[e] = eraState[e]
      BY <1>1, <1>4, <2>1
    <3>2. CountedIn(p, e)' <=> CountedIn(p, e)
      BY <1>1, <3>1 DEF CountedIn, IsRegistered
    <3> QED
      BY <1>1, <3>1, <3>2, ClaimsKept
  <2>3. ClaimsIn(e)' = ClaimsIn(e)
    BY <2>2 DEF ClaimsIn
  <2> QED
    BY <2>3 DEF ClaimsOf
<1>10. SumFunctionOnSet(r2, D \cup {c}) = r2[c] + SumFunctionOnSet(r, D)
  <2>1. IsFiniteSet(D) /\ c \notin D
    BY <1>1, <1>6, FS_Interval
  <2>2. SumFunctionOnSet(r2, D \cup {c}) = r2[c] + SumFunctionOnSet(r2, D)
    BY <1>8, <2>1, SumAdd
  <2>3. SumFunctionOnSet(r2, D) = SumFunctionOnSet(r, D)
    BY <1>9, <2>1, SumEqual
  <2> QED
    BY <2>2, <2>3
<1>11. r2[c] <= rewardAccumulator + RoundingSlack
  <2>1. c \in 0..(era'.current - 1)
    BY <1>1
  <2>2. ClaimsOf(c)' <= eraState'[c].rewards + RoundingSlack
    <3>1. ClaimsBacked'
      BY ErasBackedNext
    <3>2. RoundingSlack' = RoundingSlack
      BY DEF RoundingSlack
    <3> QED
      BY <2>1, <3>1, <3>2 DEF ClaimsBacked
  <2> QED
    BY <1>4, <1>8, <2>2
<1>12. UnclaimedRewards \in Nat /\ RoundingSlack \in Nat /\ r2[c] \in Int
  BY <1>8, ClaimsType, SlackType DEF ClaimsTyped
<1> QED
  BY <1>0, <1>1, <1>2, <1>7, <1>10, <1>11, <1>12

(* The step of PotShortByDust.                                             *)
ShortByDust ==
  \/ PotShortfall' <= PotShortfall
  \/ /\ balances'[Pot].free = 0
     /\ PotShortfall' - PotShortfall < ExistentialDeposit

LEMMA NextSolvent ==
  ASSUME LedgerInv, LedgerInv', Totals, EraSums, Entitled, [Next]_vars,
         AmountsFit, Accounts # {}, Providers # {}
  PROVE  ShortByDust
<1>1. LedgerInv' /\ Totals' /\ EraSums'
  BY NextTotals, NextEraSums
<1>2. PICK c, slack, pot, open, acc :
        /\ c = era.current /\ slack = RoundingSlack /\ pot = balances[Pot].free
        /\ open = UnclaimedRewards /\ acc = rewardAccumulator
  OBVIOUS
<1>3. /\ c \in Nat /\ slack \in Nat /\ pot \in Nat /\ open \in Nat /\ acc \in Nat
      /\ TypeOK
  BY <1>2, StateTypes, SlackType, ClaimsType
     DEF LedgerInv, IndInv, TypeOK, ClaimsTyped, Holders, Account
<1>4. PICK pot2, open2, acc2 : /\ pot2 = balances'[Pot].free
                               /\ open2 = UnclaimedRewards' /\ acc2 = rewardAccumulator'
  OBVIOUS
<1>5. pot2 \in Nat /\ open2 \in Nat /\ acc2 \in Nat /\ RoundingSlack' = slack
  <2>1. TypeOK' /\ UnclaimedRewards' \in Nat
    BY <1>1, ClaimsTypeNext DEF LedgerInv, IndInv, ClaimsTyped
  <2>2. balances'[Pot].free \in Nat /\ rewardAccumulator' \in Nat
    BY <2>1 DEF TypeOK, Holders, Account
  <2>3. RoundingSlack' = slack
    BY <1>2 DEF RoundingSlack
  <2> QED
    BY <1>4, <2>1, <2>2, <2>3
<1>6. /\ PotShortfall = open + acc - (pot + c * slack) /\ c * slack \in Nat
      /\ PotShortfall' = open2 + acc2 - (pot2 + era'.current * slack)
  BY <1>2, <1>3, <1>4, <1>5 DEF PotShortfall
<1>7. ASSUME era'.current = c,
             \/ (open2 - open) + (acc2 - acc) <= pot2 - pot
             \/ pot2 = 0 /\ ((open2 - open) + (acc2 - acc)) + pot < ExistentialDeposit
      PROVE  ShortByDust
  <2>1. PotShortfall' = open2 + acc2 - (pot2 + c * slack)
    BY <1>6, <1>7
  <2>2. PICK k, s, s2 : k = c * slack /\ s = PotShortfall /\ s2 = PotShortfall'
    OBVIOUS
  <2>3. k \in Nat /\ s = open + acc - (pot + k) /\ s2 = open2 + acc2 - (pot2 + k)
    BY <1>6, <2>1, <2>2
  <2>4. s2 <= s \/ (pot2 = 0 /\ s2 - s < ExistentialDeposit)
    BY <1>3, <1>5, <1>7, <2>3, CurrencyAssumption
  <2> QED
    BY <1>4, <2>2, <2>4 DEF ShortByDust
<1>8. CASE StartEra
  <2>1. /\ era'.current = c + 1 /\ pot2 = pot /\ acc2 = 0
        /\ open2 <= open + acc + slack
    BY <1>1, <1>2, <1>4, <1>8, StartEraClaims
  <2>2. (c + 1) * slack = c * slack + slack
    BY <1>3
  <2>3. PICK k \in Nat : k = c * slack
    BY <1>6
  <2>4. PotShortfall = open + acc - (pot + k) /\ PotShortfall' = open2 + 0 - (pot + (k + slack))
    BY <1>6, <2>1, <2>2, <2>3
  <2>5. PotShortfall' <= PotShortfall
    BY <1>3, <1>5, <2>1, <2>4
  <2> QED
    BY <2>5 DEF ShortByDust
<1>9. ASSUME NEW reward \in Nat,
             /\ era' = era /\ rewardAccumulator' = rewardAccumulator
             /\ UnclaimedRewards' = UnclaimedRewards - reward
             /\ \/ balances'[Pot].free = balances[Pot].free - reward
                \/ balances'[Pot].free = 0 /\ balances[Pot].free - reward < ExistentialDeposit
      PROVE  ShortByDust
  <2>1. /\ era'.current = c /\ acc2 = acc /\ open2 = open - reward
        /\ pot2 = pot - reward \/ (pot2 = 0 /\ pot - reward < ExistentialDeposit)
    BY <1>2, <1>4, <1>9
  <2>2. \/ (open2 - open) + (acc2 - acc) <= pot2 - pot
        \/ pot2 = 0 /\ ((open2 - open) + (acc2 - acc)) + pot < ExistentialDeposit
    BY <1>3, <1>5, <2>1, CurrencyAssumption
  <2> QED
    BY <1>7, <2>1, <2>2
<1>10. CASE \E p \in Providers, e \in Eras : ClaimProvider(p, e)
  BY <1>1, <1>9, <1>10, ProviderClaimed
<1>11. CASE \E a \in Accounts, p \in Providers : ClaimDelegator(a, p)
  <2>1. PICK a \in Accounts, p \in Providers : ClaimDelegator(a, p)
    BY <1>11
  <2>2. PICK reward \in Nat :
          /\ era' = era /\ rewardAccumulator' = rewardAccumulator
          /\ UnclaimedRewards' = UnclaimedRewards - reward
          /\ \/ balances'[Pot].free = balances[Pot].free - reward
             \/ balances'[Pot].free = 0 /\ balances[Pot].free - reward < ExistentialDeposit
    BY <1>1, <2>1, DelegatorClaimed
  <2> QED
    BY <1>9, <2>2
<1>12. CASE QuietStep
  <2>1. era'.current = c /\ open2 = open
    BY <1>1, <1>2, <1>4, <1>12, FinishedRecordsKept, QuietClaims
  <2>2. ASSUME NEW v \in Rewards, HandleImbalance(v)
        PROVE  ShortByDust
    <3>1. v \in Nat
      BY StakingAssumption
    <3>2. /\ acc2 <= acc + v
          /\ pot2 = pot + v \/ (pot2 = 0 /\ pot = 0 /\ v < ExistentialDeposit)
      BY <1>2, <1>3, <1>4, <2>2, <3>1, PotReceives
    <3>3. \/ (open2 - open) + (acc2 - acc) <= pot2 - pot
          \/ pot2 = 0 /\ ((open2 - open) + (acc2 - acc)) + pot < ExistentialDeposit
      BY <1>3, <1>5, <2>1, <3>1, <3>2, CurrencyAssumption
    <3> QED
      BY <1>7, <2>1, <3>3
  <2>3. CASE ~\E v \in Rewards : HandleImbalance(v)
    <3>1. pot2 = pot /\ acc2 = acc
      BY <1>2, <1>4, <1>12, <2>3, PotKept
    <3>2. (open2 - open) + (acc2 - acc) <= pot2 - pot
      BY <1>3, <2>1, <3>1
    <3> QED
      BY <1>7, <2>1, <3>2
  <2> QED
    BY <2>2, <2>3
<1> QED
  BY <1>8, <1>10, <1>11, <1>12 DEF QuietStep

LEMMA InitEraSums == Init => EraSums
BY DEF Init, EraSums

(* What is left to claim of a finished era never exceeds the rewards the   *)
(* pallet collected in it by more than the rounding of the shares adds,    *)
(* whatever the existential deposit: total stake, totals and stakes, which *)
(* split_provider_delegators_rewards divides by, always fit together.      *)
THEOREM ErasPayWhatTheyCollected ==
  ASSUME IssuanceFits, AmountsFit, Accounts # {}, Providers # {}
  PROVE  Spec => []ClaimsBacked
<1> DEFINE Inv == PalletInv /\ Totals /\ EraSums
<1>1. Init => Inv
  BY InitPalletInv, InitTotals, InitEraSums
<1>2. Inv /\ [Next]_vars => Inv'
  BY NextPalletInv, NextTotals, NextEraSums DEF PalletInv
<1>3. Inv => ClaimsBacked
  BY ErasBacked DEF PalletInv
<1> QED
  BY <1>1, <1>2, <1>3, PTL DEF Spec

(* Whatever the existential deposit: the pallet's account lacks more for   *)
(* its claims only after a step that leaves it empty, by less than the     *)
(* existential deposit.                                                    *)
THEOREM PotStaysShortByDust ==
  ASSUME IssuanceFits, AmountsFit, Accounts # {}, Providers # {}
  PROVE  Spec => PotShortByDust
<1> DEFINE Inv == PalletInv /\ Totals /\ EraSums /\ Entitled
<1>1. Init => Inv
  BY InitPalletInv, InitTotals, InitEraSums, InitEntitled DEF PalletInv
<1>2. Inv /\ [Next]_vars => Inv'
  BY NextPalletInv, NextTotals, NextEraSums, NextEntitled DEF PalletInv
<1>3. Inv /\ [Next]_vars => [ShortByDust]_vars
  BY NextPalletInv, NextSolvent DEF PalletInv
<1> QED
  BY <1>1, <1>2, <1>3, PTL DEF Spec, PotShortByDust, ShortByDust
=============================================================================
