------------------------ MODULE StakingLedgerProofs -------------------------
(***************************************************************************)
(* The ledgers of the dAPI staking pallet: what it holds of an account is  *)
(* what it has reserved there, and a provider's totals are the sums of     *)
(* what is staked on it.                                                   *)
(***************************************************************************)
EXTENDS DapiStakingProofs

----------------------------------------------------------------------------
(* Tokens in the accounts                                                  *)

Worth(ledger) == [h \in Holders |-> ledger[h].free + ledger[h].reserved]

Supply(ledger) == SumFunctionOnSet(Worth(ledger), Holders)

LEMMA HoldersFinite == IsFiniteSet(Holders)
BY FiniteAssumption, FS_AddElement DEF Holders

LEMMA SupplyType ==
  ASSUME NEW ledger \in Ledgers
  PROVE  /\ \A h \in Holders : /\ Worth(ledger)[h] \in Nat
                               /\ ledger[h].free \in Nat /\ ledger[h].reserved \in Nat
                               /\ Worth(ledger)[h] = ledger[h].free + ledger[h].reserved
         /\ Supply(ledger) \in Nat
         /\ \A h \in Holders : /\ ledger[h].free <= Supply(ledger)
                               /\ ledger[h].reserved <= Supply(ledger)
<1>1. \A h \in Holders : /\ ledger[h].free \in Nat /\ ledger[h].reserved \in Nat
                         /\ Worth(ledger)[h] = ledger[h].free + ledger[h].reserved
                         /\ Worth(ledger)[h] \in Nat
  BY DEF Ledgers, Account, Worth
<1>2. /\ Supply(ledger) \in Nat
      /\ \A h \in Holders : Worth(ledger)[h] <= Supply(ledger)
  BY <1>1, HoldersFinite, SumNat DEF Supply
<1> QED
  BY <1>1, <1>2

(* One account changes.                                                    *)
LEMMA SupplyChange ==
  ASSUME NEW ledger \in Ledgers, NEW who \in Holders, NEW f \in Nat, NEW r \in Nat
  PROVE  Supply([ledger EXCEPT ![who] = [free |-> f, reserved |-> r]]) =
           Supply(ledger) - (ledger[who].free + ledger[who].reserved) + (f + r)
<1> DEFINE new == [ledger EXCEPT ![who] = [free |-> f, reserved |-> r]]
<1>1. /\ \A h \in Holders : Worth(ledger)[h] \in Int
      /\ Worth(ledger)[who] = ledger[who].free + ledger[who].reserved
  BY SupplyType
<1>2. /\ Worth(new)[who] = f + r
      /\ \A h \in Holders : h # who => Worth(new)[h] = Worth(ledger)[h]
  BY DEF Worth, Ledgers
<1> HIDE DEF new
<1>3. SumFunctionOnSet(Worth(new), Holders) =
        SumFunctionOnSet(Worth(ledger), Holders) - Worth(ledger)[who] + Worth(new)[who]
  BY <1>1, <1>2, HoldersFinite, SumChange
<1> QED
  BY <1>1, <1>2, <1>3 DEF Supply, new

(* Reserving and unreserving moves tokens within an account; a withdrawal  *)
(* takes them out and a deposit puts them in, or fewer.                    *)
LEMMA SupplySteps ==
  ASSUME NEW ledger \in Ledgers, NEW who \in Holders, NEW amount \in Nat
  PROVE  /\ CanReserve(ledger, who, amount) =>
              Supply(Reserve(ledger, who, amount)) = Supply(ledger)
         /\ Supply(Unreserve(ledger, who, amount)) = Supply(ledger)
         /\ CanWithdraw(ledger, who, amount) =>
              Supply(WithdrawAllowDeath(ledger, who, amount)) <= Supply(ledger) - amount
         /\ Supply(DepositCreating(ledger, who, amount)) <= Supply(ledger) + amount
<1> DEFINE free == ledger[who].free
           res == ledger[who].reserved
           S == Supply(ledger)
<1>1. free \in Nat /\ res \in Nat /\ S \in Nat /\ ExistentialDeposit \in Nat
  BY SupplyType, CurrencyAssumption
<1>2. ledger[who] = [free |-> free, reserved |-> res]
  BY DEF Ledgers, Account
<1>3. \A f, r \in Nat : Supply([ledger EXCEPT ![who] = [free |-> f, reserved |-> r]]) =
                          S - (free + res) + (f + r)
  BY SupplyChange
<1> HIDE DEF S
<1>4. ASSUME CanReserve(ledger, who, amount)
      PROVE  Supply(Reserve(ledger, who, amount)) = S
  <2>1. free - amount \in Nat /\ res + amount \in Nat
    BY <1>1, <1>4 DEF CanReserve
  <2>2. Supply(Reserve(ledger, who, amount)) = S - (free + res) + ((free - amount) + (res + amount))
    BY <2>1, <1>3 DEF Reserve
  <2> HIDE DEF free, res
  <2> QED
    BY <2>2, <1>1
<1>5. Supply(Unreserve(ledger, who, amount)) = S
  <2> DEFINE actual == IF amount > res THEN res ELSE amount
  <2>1. actual \in Nat /\ free + actual \in Nat /\ res - actual \in Nat
    BY <1>1
  <2>2. Supply(Unreserve(ledger, who, amount)) = S - (free + res) + ((free + actual) + (res - actual))
    BY <2>1, <1>3 DEF Unreserve
  <2> HIDE DEF free, res, actual
  <2> QED
    BY <2>1, <2>2, <1>1
<1>6. ASSUME CanWithdraw(ledger, who, amount)
      PROVE  Supply(WithdrawAllowDeath(ledger, who, amount)) <= S - amount
  <2> DEFINE left == free - amount + res
             new == WithdrawAllowDeath(ledger, who, amount)
  <2>1. left \in Nat /\ free - amount \in Nat
    BY <1>1, <1>6 DEF CanWithdraw
  <2>2. CASE amount = 0
    <3>1. new = ledger
      BY <2>2 DEF WithdrawAllowDeath
    <3> HIDE DEF new
    <3> QED
      BY <3>1, <2>2, <1>1 DEF S, new
  <2>3. CASE amount > 0 /\ left < ExistentialDeposit
    <3>1. new = [ledger EXCEPT ![who] = EmptyAccount]
      <4>1. amount # 0 /\ ~(left >= ExistentialDeposit)
        <5> HIDE DEF left
        <5> QED
          BY <2>1, <2>3, <1>1
      <4> QED
        BY <2>3, <4>1 DEF WithdrawAllowDeath
    <3>2. Supply(new) = S - (free + res) + (0 + 0)
      BY <3>1, <1>3 DEF EmptyAccount
    <3> HIDE DEF new, free, res
    <3> QED
      BY <3>2, <2>1, <2>3, <1>1 DEF new
  <2>4. CASE amount > 0 /\ left >= ExistentialDeposit
    <3>1. new = [ledger EXCEPT ![who] = [free |-> free - amount, reserved |-> res]]
      BY <2>4 DEF WithdrawAllowDeath
    <3>2. Supply(new) = S - (free + res) + ((free - amount) + res)
      BY <3>1, <2>1, <1>1, <1>3
    <3> HIDE DEF new, free, res
    <3> QED
      BY <3>2, <2>1, <2>4, <1>1 DEF new
  <2>5. amount = 0 \/ (amount > 0 /\ left < ExistentialDeposit)
                   \/ (amount > 0 /\ left >= ExistentialDeposit)
    <3> HIDE DEF left
    <3> QED
      BY <2>1, <1>1
  <2> QED
    BY <2>2, <2>3, <2>4, <2>5
<1>7. Supply(DepositCreating(ledger, who, amount)) <= S + amount
  <2> DEFINE new == DepositCreating(ledger, who, amount)
             dropped == ledger[who] = EmptyAccount /\ amount < ExistentialDeposit
  <2>1. CASE dropped
    <3>1. new = ledger /\ amount < ExistentialDeposit
      BY <2>1 DEF DepositCreating
    <3> HIDE DEF new
    <3> QED
      BY <3>1, <1>1 DEF S, new
  <2>2. CASE ~dropped
    <3>1. new = [ledger EXCEPT ![who] = [free |-> free + amount, reserved |-> res]]
      BY <2>2 DEF DepositCreating
    <3>2. free + amount \in Nat
      BY <1>1
    <3>3. Supply(new) = S - (free + res) + ((free + amount) + res)
      BY <3>1, <3>2, <1>1, <1>3
    <3> HIDE DEF new, free, res
    <3> QED
      BY <3>3, <1>1 DEF new
  <2> QED
    BY <2>1, <2>2
<1> QED
  BY <1>4, <1>5, <1>6, <1>7 DEF S

(* A payout takes no more out of the pallet's account than it pays.        *)
LEMMA SupplyPayout ==
  ASSUME TypeOK, NEW who \in Accounts, NEW amount \in Nat,
         CanWithdraw(balances, Pot, amount)
  PROVE  Supply(Payout(who, amount)) <= Supply(balances)
<1> DEFINE mid == WithdrawAllowDeath(balances, Pot, amount)
<1>1. balances \in Ledgers /\ Pot \in Holders /\ who \in Holders
  BY DEF TypeOK, Ledgers, Holders
<1>2. mid \in Ledgers
  BY <1>1, LedgerType
<1>3. Supply(mid) <= Supply(balances) - amount
  BY <1>1, SupplySteps
<1>4. Payout(who, amount) = DepositCreating(mid, who, amount)
  BY DEF Payout
<1> HIDE DEF mid
<1>5. Supply(DepositCreating(mid, who, amount)) <= Supply(mid) + amount
  BY <1>1, <1>2, SupplySteps
<1>6. DepositCreating(mid, who, amount) \in Ledgers
  BY <1>1, <1>2, LedgerType
<1>7. /\ Supply(mid) \in Nat /\ Supply(balances) \in Nat
      /\ Supply(DepositCreating(mid, who, amount)) \in Nat
  BY <1>1, <1>2, <1>6, SupplyType
<1> QED
  BY <1>3, <1>4, <1>5, <1>7

----------------------------------------------------------------------------
(* The invariant                                                           *)

(* No amount of tokens that can be issued overflows a balance.             *)
IssuanceFits ==
  InitialBalance * Cardinality(Accounts) + MaxEraRewards * (MaxEra + 1) <= MaxBalance

(* The sum in provider_bond_less does not wrap around.                     *)
AmountsFit == \A v \in Amounts : v + MinProviderStake <= MaxBalance

(* A registered provider has a record in the last era in which it took     *)
(* part; an active one keeps its bond; one that was never registered has   *)
(* left no traces.                                                         *)
Recorded ==
  \A p \in Providers :
    /\ IsRegistered(p) => providerEraInfo[p][LatestEra(p)] # None
    /\ IsActiveProvider(p) => ~providerInfo[p].bond_withdrawn
    /\ IsUnregistered(p) => providerInfo[p].status <= era.current
    /\ ~IsRegistered(p) => /\ \A e \in Eras : providerEraInfo[p][e] = None
                           /\ \A a \in Accounts : delegationInfo[a][p] = <<>>

(* Calls run in an era of their own, and the eras up to the current one    *)
(* have a state.                                                           *)
ErasBegun ==
  /\ InBlock => era.current > 0
  /\ era.current = 0 => \A p \in Providers : ~IsRegistered(p)
  /\ \A e \in Eras : eraState[e] # None <=> era.current > 0 /\ e <= era.current
  /\ era.current > 0 => eraState[era.current].rewards = 0

RewardsBound ==
  InitialBalance * Cardinality(Accounts) + MaxEraRewards * era.current
    + rewardAccumulator

(* Tokens come only from genesis and from rewards.                         *)
SupplyBounded ==
  /\ rewardAccumulator <= MaxEraRewards
  /\ Supply(balances) <= RewardsBound

(* All tokens together fit into one balance, so no account overflows.      *)
SupplyFits == Supply(balances) <= MaxBalance

(* What is reserved of an account is what the pallet holds of it.          *)
ReservedHeld ==
  \A a \in Accounts :
    balances[a].reserved = HeldBond(a) + HeldStake(a) + ChunkTotal(unbondingInfo[a])

LedgerInv ==
  /\ IndInv
  /\ Recorded
  /\ ErasBegun
  /\ SupplyFits
  /\ ReservedHeld

----------------------------------------------------------------------------
(* Records and eras                                                        *)

LEMMA InitRecorded == Init => Recorded /\ ErasBegun
<1> SUFFICES ASSUME Init PROVE Recorded /\ ErasBegun
  OBVIOUS
<1>1. \A p \in Providers : ~IsRegistered(p)
  BY DEF Init, IsRegistered
<1>2. Recorded
  BY <1>1 DEF Init, Recorded, IsActiveProvider, IsUnregistered
<1>3. ErasBegun
  BY <1>1 DEF Init, ErasBegun, InBlock
<1> QED
  BY <1>2, <1>3

(* Nothing that the records and the eras are about changes.                *)
LEMMA FrameRecorded ==
  ASSUME Recorded, ErasBegun, block' > 0 => InBlock, era'.current = era.current,
         UNCHANGED <<eraState, providerInfo, providerEraInfo>>,
         \A p \in Providers : ~IsRegistered(p) =>
           \A a \in Accounts : delegationInfo'[a][p] = delegationInfo[a][p]
  PROVE  Recorded' /\ ErasBegun'
<1>1. Recorded'
  BY DEF Recorded, IsRegistered, IsActiveProvider, IsUnregistered, LatestEra
<1>2. ErasBegun'
  BY DEF ErasBegun, IsRegistered, InBlock
<1> QED
  BY <1>1, <1>2

(* A call writes the current era's record of an active provider.           *)
LEMMA CallRecorded ==
  ASSUME TypeOK, Recorded, ErasBegun,
         NEW p \in Providers, IsActiveProvider(p),
         UNCHANGED <<block, era, providerInfo>>,
         NEW info \in ProviderEraMetadata,
         providerEraInfo' = [providerEraInfo EXCEPT ![p][era.current] = info],
         NEW staked, eraState[era.current] # None => staked \in Nat,
         eraState' = UpdateStaked(era.current, staked),
         \A q \in Providers : q # p =>
           \A a \in Accounts : delegationInfo'[a][q] = delegationInfo[a][q]
  PROVE  Recorded' /\ ErasBegun'
<1> DEFINE c == era.current
<1>1. c \in Eras /\ IsRegistered(p)
  BY StateTypes DEF IsActiveProvider
<1>2. /\ \A q \in Providers, e \in Eras :
           providerEraInfo'[q][e] = IF q = p /\ e = c THEN info ELSE providerEraInfo[q][e]
      /\ info # None
  BY <1>1, NoneAssumption DEF TypeOK
<1>3. \A q \in Providers : /\ IsRegistered(q)' <=> IsRegistered(q)
                           /\ IsActiveProvider(q)' <=> IsActiveProvider(q)
                           /\ IsUnregistered(q)' <=> IsUnregistered(q)
                           /\ LatestEra(q)' = LatestEra(q)
                           /\ IsRegistered(q) => LatestEra(q) \in Eras
  BY <1>1, StateTypes DEF IsRegistered, IsActiveProvider, IsUnregistered, LatestEra
<1>4. Recorded'
  BY <1>1, <1>2, <1>3 DEF Recorded
<1>5. \A e \in Eras : /\ eraState'[e] # None <=> eraState[e] # None
                      /\ eraState[e] # None => eraState'[e].rewards = eraState[e].rewards
  <2> SUFFICES ASSUME NEW e \in Eras
               PROVE  /\ eraState'[e] # None <=> eraState[e] # None
                      /\ eraState[e] # None => eraState'[e].rewards = eraState[e].rewards
    OBVIOUS
  <2>1. CASE eraState[c] = None \/ e # c
    BY <2>1, <1>1 DEF UpdateStaked, TypeOK
  <2>2. CASE eraState[c] # None /\ e = c
    <3>1. eraState[c] \in EraMetadata
      BY <2>2, <1>1 DEF TypeOK
    <3>2. eraState'[c] = [eraState[c] EXCEPT !.staked = staked]
      BY <2>2, <1>1 DEF UpdateStaked, TypeOK
    <3>3. eraState'[c] \in EraMetadata
      BY <3>1, <3>2, <2>2 DEF EraMetadata
    <3> QED
      BY <3>1, <3>2, <3>3, <2>2, NoneAssumption DEF EraMetadata
  <2> QED
    BY <2>1, <2>2
<1>6. ErasBegun'
  BY <1>1, <1>3, <1>5 DEF ErasBegun, InBlock
<1> QED
  BY <1>4, <1>6

----------------------------------------------------------------------------
(* What the pallet holds of an account                                     *)

BondOf(p, a) ==
  IF IsRegistered(p) /\ providerInfo[p].owner = a THEN BondHeld(p) ELSE 0

StakeOf(a, p) == LatestStakedValue(delegationInfo[a][p])

BondsOf(a) == [p \in Providers |-> BondOf(p, a)]

StakesOf(a) == [p \in Providers |-> StakeOf(a, p)]

HeldTyped ==
  /\ \A p \in Providers : IsRegistered(p) => LatestEra(p) \in Eras
  /\ \A p \in Providers : BondHeld(p) \in Nat
  /\ \A a \in Accounts, p \in Providers : BondOf(p, a) \in Nat /\ StakeOf(a, p) \in Nat
  /\ \A a \in Accounts : ChunkTotal(unbondingInfo[a]) \in Nat

LEMMA HeldType == TypeOK => HeldTyped
<1> SUFFICES ASSUME TypeOK PROVE HeldTyped
  OBVIOUS
<1>1. \A p \in Providers : IsRegistered(p) => LatestEra(p) \in Eras
  BY StateTypes DEF LatestEra
<1>2. \A p \in Providers : BondHeld(p) \in Nat
  BY <1>1, StorageDefaultType DEF BondHeld, ProviderEraMetadata
<1>3. \A a \in Accounts, p \in Providers : StakeOf(a, p) \in Nat
  BY StakeFields DEF StakeOf, TypeOK
<1>4. \A a \in Accounts : ChunkTotal(unbondingInfo[a]) \in Nat
  BY ChunkTotalType DEF TypeOK
<1>5. \A a \in Accounts, p \in Providers : BondOf(p, a) \in Nat
  BY <1>2 DEF BondOf
<1> QED
  BY <1>1, <1>2, <1>3, <1>4, <1>5 DEF HeldTyped

LEMMA HeldTypeNext == TypeOK' => HeldTyped'
BY HeldType, PTL

HeldSummed ==
  \A a \in Accounts :
    /\ HeldBond(a) = SumFunctionOnSet(BondsOf(a), Providers)
    /\ HeldStake(a) = SumFunctionOnSet(StakesOf(a), Providers)
    /\ HeldBond(a) \in Nat /\ HeldStake(a) \in Nat
    /\ \A p \in Providers : BondOf(p, a) <= HeldBond(a) /\ StakeOf(a, p) <= HeldStake(a)

LEMMA HeldSums == TypeOK => HeldSummed
<1> SUFFICES ASSUME TypeOK, NEW a \in Accounts
             PROVE  /\ HeldBond(a) = SumFunctionOnSet(BondsOf(a), Providers)
                    /\ HeldStake(a) = SumFunctionOnSet(StakesOf(a), Providers)
                    /\ HeldBond(a) \in Nat /\ HeldStake(a) \in Nat
                    /\ \A p \in Providers : /\ BondOf(p, a) <= HeldBond(a)
                                            /\ StakeOf(a, p) <= HeldStake(a)
  BY DEF HeldSummed
<1>1. \A p \in Providers : /\ BondsOf(a)[p] = BondOf(p, a) /\ BondsOf(a)[p] \in Nat
                           /\ StakesOf(a)[p] = StakeOf(a, p) /\ StakesOf(a)[p] \in Nat
  BY HeldType DEF BondsOf, StakesOf, HeldTyped
<1>2. HeldStake(a) = SumFunctionOnSet(StakesOf(a), Providers)
  BY DEF HeldStake, SumOver, StakesOf, StakeOf
<1>3. HeldBond(a) = SumFunctionOnSet(BondsOf(a), Providers)
  <2> DEFINE own == {p \in Providers : IsRegistered(p) /\ providerInfo[p].owner = a}
             held == [p \in own |-> BondHeld(p)]
  <2>1. HeldBond(a) = SumFunctionOnSet(held, own)
    BY DEF HeldBond, SumOver
  <2>2. \A p \in own : BondsOf(a)[p] = held[p]
    BY DEF BondsOf, BondOf
  <2>3. \A p \in Providers : p \notin own => BondsOf(a)[p] = 0
    BY DEF BondsOf, BondOf
  <2>4. own \in SUBSET Providers /\ IsFiniteSet(own)
    BY FiniteAssumption, FS_Subset
  <2> HIDE DEF own, held
  <2>5. SumFunctionOnSet(BondsOf(a), Providers) = SumFunctionOnSet(BondsOf(a), own)
    BY <2>3, <2>4, <1>1, FiniteAssumption, SumFilter
  <2>6. SumFunctionOnSet(BondsOf(a), own) = SumFunctionOnSet(held, own)
    BY <2>2, <2>4, SumEqual
  <2> QED
    BY <2>1, <2>5, <2>6
<1>4. /\ SumFunctionOnSet(BondsOf(a), Providers) \in Nat
      /\ \A p \in Providers : BondsOf(a)[p] <= SumFunctionOnSet(BondsOf(a), Providers)
  BY <1>1, FiniteAssumption, SumNat
<1>5. /\ SumFunctionOnSet(StakesOf(a), Providers) \in Nat
      /\ \A p \in Providers : StakesOf(a)[p] <= SumFunctionOnSet(StakesOf(a), Providers)
  BY <1>1, FiniteAssumption, SumNat
<1> QED
  BY <1>1, <1>2, <1>3, <1>4, <1>5

LEMMA HeldSumsNext == TypeOK' => HeldSummed'
BY HeldSums, PTL

(* Which bond and which stake a step changes.                              *)
LEMMA HeldStep ==
  ASSUME TypeOK, TypeOK', NEW a \in Accounts
  PROVE  /\ (\A q \in Providers : BondOf(q, a)' = BondOf(q, a)) => HeldBond(a)' = HeldBond(a)
         /\ (\A q \in Providers : StakeOf(a, q)' = StakeOf(a, q)) => HeldStake(a)' = HeldStake(a)
         /\ \A p \in Providers :
              (\A q \in Providers : q # p => BondOf(q, a)' = BondOf(q, a)) =>
                HeldBond(a)' = HeldBond(a) - BondOf(p, a) + BondOf(p, a)'
         /\ \A p \in Providers :
              (\A q \in Providers : q # p => StakeOf(a, q)' = StakeOf(a, q)) =>
                HeldStake(a)' = HeldStake(a) - StakeOf(a, p) + StakeOf(a, p)'
<1>1. /\ HeldBond(a) = SumFunctionOnSet(BondsOf(a), Providers)
      /\ HeldStake(a) = SumFunctionOnSet(StakesOf(a), Providers)
      /\ HeldBond(a)' = SumFunctionOnSet(BondsOf(a)', Providers)
      /\ HeldStake(a)' = SumFunctionOnSet(StakesOf(a)', Providers)
  BY HeldSums, HeldSumsNext DEF HeldSummed
<1>2. \A q \in Providers :
        /\ BondsOf(a)[q] = BondOf(q, a) /\ (BondsOf(a)')[q] = BondOf(q, a)'
        /\ StakesOf(a)[q] = StakeOf(a, q) /\ (StakesOf(a)')[q] = StakeOf(a, q)'
  BY DEF BondsOf, StakesOf
<1>3. \A q \in Providers : BondOf(q, a) \in Int /\ StakeOf(a, q) \in Int
  BY HeldType DEF HeldTyped
<1>4. \A q \in Providers : BondOf(q, a)' \in Int /\ StakeOf(a, q)' \in Int
  BY HeldTypeNext DEF HeldTyped
<1> DEFINE B == BondsOf(a)
           B2 == BondsOf(a)'
           S == StakesOf(a)
           S2 == StakesOf(a)'
<1> HIDE DEF B, B2, S, S2
<1>5. ASSUME \A q \in Providers : BondOf(q, a)' = BondOf(q, a)
      PROVE  HeldBond(a)' = HeldBond(a)
  <2>1. \A q \in Providers : B[q] = B2[q]
    BY <1>2, <1>5 DEF B, B2
  <2>2. SumFunctionOnSet(B, Providers) = SumFunctionOnSet(B2, Providers)
    BY <2>1, FiniteAssumption, SumEqual
  <2> QED
    BY <2>2, <1>1 DEF B, B2
<1>6. ASSUME \A q \in Providers : StakeOf(a, q)' = StakeOf(a, q)
      PROVE  HeldStake(a)' = HeldStake(a)
  <2>1. \A q \in Providers : S[q] = S2[q]
    BY <1>2, <1>6 DEF S, S2
  <2>2. SumFunctionOnSet(S, Providers) = SumFunctionOnSet(S2, Providers)
    BY <2>1, FiniteAssumption, SumEqual
  <2> QED
    BY <2>2, <1>1 DEF S, S2
<1>7. ASSUME NEW p \in Providers,
             \A q \in Providers : q # p => BondOf(q, a)' = BondOf(q, a)
      PROVE  HeldBond(a)' = HeldBond(a) - BondOf(p, a) + BondOf(p, a)'
  <2>1. /\ \A q \in Providers : B[q] \in Int
        /\ B2[p] \in Int
        /\ \A q \in Providers : q # p => B2[q] = B[q]
    BY <1>2, <1>3, <1>4, <1>7 DEF B, B2
  <2>2. SumFunctionOnSet(B2, Providers) = SumFunctionOnSet(B, Providers) - B[p] + B2[p]
    BY <2>1, FiniteAssumption, SumChange
  <2> QED
    BY <2>2, <1>1, <1>2 DEF B, B2
<1>8. ASSUME NEW p \in Providers,
             \A q \in Providers : q # p => StakeOf(a, q)' = StakeOf(a, q)
      PROVE  HeldStake(a)' = HeldStake(a) - StakeOf(a, p) + StakeOf(a, p)'
  <2>1. /\ \A q \in Providers : S[q] \in Int
        /\ S2[p] \in Int
        /\ \A q \in Providers : q # p => S2[q] = S[q]
    BY <1>2, <1>3, <1>4, <1>8 DEF S, S2
  <2>2. SumFunctionOnSet(S2, Providers) = SumFunctionOnSet(S, Providers) - S[p] + S2[p]
    BY <2>1, FiniteAssumption, SumChange
  <2> QED
    BY <2>2, <1>1, <1>2 DEF S, S2
<1> QED
  BY <1>5, <1>6, <1>7, <1>8

(* Every account's books move by as much as its reserved balance.          *)
LEMMA ReservedStep ==
  ASSUME TypeOK, TypeOK', ReservedHeld,
         NEW who \in Accounts, NEW p \in Providers,
         \A a \in Accounts, q \in Providers :
           a # who \/ q # p => BondOf(q, a)' = BondOf(q, a) /\ StakeOf(a, q)' = StakeOf(a, q),
         \A a \in Accounts : a # who =>
           /\ unbondingInfo'[a] = unbondingInfo[a]
           /\ balances'[a].reserved = balances[a].reserved,
         balances'[who].reserved = balances[who].reserved
           - BondOf(p, who) + BondOf(p, who)'
           - StakeOf(who, p) + StakeOf(who, p)'
           - ChunkTotal(unbondingInfo[who]) + ChunkTotal(unbondingInfo'[who])
  PROVE  ReservedHeld'
<1> SUFFICES ASSUME NEW a \in Accounts
             PROVE  balances'[a].reserved =
                      HeldBond(a)' + HeldStake(a)' + ChunkTotal(unbondingInfo'[a])
  BY DEF ReservedHeld
<1>1. balances[a].reserved = HeldBond(a) + HeldStake(a) + ChunkTotal(unbondingInfo[a])
  BY DEF ReservedHeld
<1>2. CASE a # who
  <2>1. HeldBond(a)' = HeldBond(a) /\ HeldStake(a)' = HeldStake(a)
    BY <1>2, HeldStep
  <2> QED
    BY <2>1, <1>1, <1>2
<1>3. CASE a = who
  <2>1. /\ HeldBond(who)' = HeldBond(who) - BondOf(p, who) + BondOf(p, who)'
        /\ HeldStake(who)' = HeldStake(who) - StakeOf(who, p) + StakeOf(who, p)'
    BY HeldStep
  <2>2. /\ HeldBond(who) \in Int /\ HeldStake(who) \in Int
        /\ BondOf(p, who) \in Int /\ StakeOf(who, p) \in Int
        /\ ChunkTotal(unbondingInfo[who]) \in Int
    BY HeldSums, HeldType DEF HeldSummed, HeldTyped
  <2>3. /\ BondOf(p, who)' \in Int /\ StakeOf(who, p)' \in Int
        /\ ChunkTotal(unbondingInfo'[who]) \in Int
    BY HeldTypeNext DEF HeldTyped
  <2> QED
    BY <2>1, <2>2, <2>3, <1>1, <1>3
<1> QED
  BY <1>2, <1>3

(* Nothing that is held changes.                                           *)
LEMMA ReservedFrame ==
  ASSUME TypeOK, TypeOK', ReservedHeld,
         \A a \in Accounts, q \in Providers :
           BondOf(q, a)' = BondOf(q, a) /\ StakeOf(a, q)' = StakeOf(a, q),
         unbondingInfo' = unbondingInfo,
         \A a \in Accounts : balances'[a].reserved = balances[a].reserved
  PROVE  ReservedHeld'
<1> SUFFICES ASSUME NEW a \in Accounts
             PROVE  balances'[a].reserved =
                      HeldBond(a)' + HeldStake(a)' + ChunkTotal(unbondingInfo'[a])
  BY DEF ReservedHeld
<1>1. HeldBond(a)' = HeldBond(a) /\ HeldStake(a)' = HeldStake(a)
  BY HeldStep
<1> QED
  BY <1>1 DEF ReservedHeld

----------------------------------------------------------------------------
(* The supply                                                              *)

LEMMA GenesisType == InitialBalance * Cardinality(Accounts) \in Nat
BY StakingAssumption, FiniteAssumption, FS_CardinalityType

LEMMA SupplyFrame ==
  ASSUME SupplyFits, Supply(balances)' = Supply(balances)
  PROVE  SupplyFits'
BY DEF SupplyFits

LEMMA SupplyNoMore ==
  ASSUME TypeOK, TypeOK', SupplyFits, Supply(balances)' <= Supply(balances)
  PROVE  SupplyFits'
<1>1. Supply(balances) \in Nat
  BY SupplyType DEF TypeOK, Ledgers
<1>2. Supply(balances)' \in Nat
  <2>1. balances' \in Ledgers
    BY DEF TypeOK, Ledgers
  <2> QED
    BY <2>1, SupplyType
<1> QED
  BY <1>1, <1>2, CurrencyAssumption DEF SupplyFits

(* No account holds more than a balance can count.                         *)
LEMMA BalancesFit ==
  ASSUME TypeOK, SupplyFits
  PROVE  /\ Supply(balances) \in Nat /\ Supply(balances) <= MaxBalance
         /\ \A a \in Accounts : /\ balances[a].free \in Nat /\ balances[a].reserved \in Nat
                                /\ balances[a].free + balances[a].reserved <= MaxBalance
<1>1. balances \in Ledgers
  BY DEF TypeOK, Ledgers
<1>2. /\ Supply(balances) \in Nat
      /\ \A h \in Holders : /\ Worth(balances)[h] \in Nat
                            /\ balances[h].free \in Nat /\ balances[h].reserved \in Nat
                            /\ Worth(balances)[h] = balances[h].free + balances[h].reserved
  BY <1>1, SupplyType
<1>3. \A h \in Holders : Worth(balances)[h] <= Supply(balances)
  BY <1>2, HoldersFinite, SumNat DEF Supply
<1>4. Supply(balances) <= MaxBalance
  BY DEF SupplyFits
<1> QED
  BY <1>2, <1>3, <1>4, CurrencyAssumption DEF Holders

LEMMA GenesisSupply == Init => Supply(balances) = InitialBalance * Cardinality(Accounts)
<1> SUFFICES ASSUME Init
             PROVE  Supply(balances) = InitialBalance * Cardinality(Accounts)
  OBVIOUS
<1>1. Pot \notin Accounts /\ InitialBalance \in Nat
  BY StakingAssumption
<1>2. /\ Worth(balances)[Pot] = 0
      /\ \A a \in Accounts : Worth(balances)[a] = InitialBalance
  BY <1>1 DEF Init, Worth, Holders, EmptyAccount
<1>3. SumFunctionOnSet(Worth(balances), Holders) =
        Worth(balances)[Pot] + SumFunctionOnSet(Worth(balances), Accounts)
  <2>1. \A h \in Accounts \cup {Pot} : Worth(balances)[h] \in Int
    BY <1>1, <1>2
  <2> QED
    BY <2>1, <1>1, FiniteAssumption, SumAdd DEF Holders
<1>4. SumFunctionOnSet(Worth(balances), Accounts) = InitialBalance * Cardinality(Accounts)
  BY <1>1, <1>2, FiniteAssumption, SumConstant
<1> QED
  BY <1>2, <1>3, <1>4, GenesisType DEF Supply

LEMMA InitSupply == Init => SupplyBounded
<1> SUFFICES ASSUME Init PROVE SupplyBounded
  OBVIOUS
<1>1. /\ MaxEraRewards * era.current = 0 /\ rewardAccumulator = 0
      /\ MaxEraRewards \in Nat
  BY StakingAssumption DEF Init
<1> QED
  BY <1>1, GenesisSupply, GenesisType DEF SupplyBounded, RewardsBound

LEMMA InitReserved == Init => ReservedHeld
<1> SUFFICES ASSUME Init, NEW a \in Accounts
             PROVE  balances[a].reserved =
                      HeldBond(a) + HeldStake(a) + ChunkTotal(unbondingInfo[a])
  BY DEF ReservedHeld
<1>1. TypeOK
  BY InitIndInv DEF IndInv
<1>2. \A p \in Providers : BondsOf(a)[p] = 0 /\ StakesOf(a)[p] = 0
  BY DEF Init, BondsOf, StakesOf, BondOf, StakeOf, IsRegistered, LatestStakedValue
<1>3. HeldBond(a) = 0 /\ HeldStake(a) = 0
  BY <1>1, <1>2, HeldSums, SumZero, FiniteAssumption DEF HeldSummed
<1>4. ChunkTotal(unbondingInfo[a]) = 0
  <2>1. unbondingInfo[a] = <<>>
    BY DEF Init
  <2>2. 1..Len(<<>>) = {}
    OBVIOUS
  <2> QED
    BY <2>1, <2>2, SumEmpty DEF ChunkTotal
<1>5. balances[a].reserved = 0
  BY StakingAssumption DEF Init, Holders
<1> QED
  BY <1>3, <1>4, <1>5

----------------------------------------------------------------------------
(* Every step keeps the invariant                                          *)

(* What a call finds.                                                      *)
LEMMA InCall ==
  ASSUME LedgerInv, InBlock
  PROVE  /\ TypeOK /\ Recorded /\ ErasBegun /\ SupplyFits /\ ReservedHeld
         /\ era.current \in Eras /\ era.current \in Nat /\ era.current > 0
         /\ eraState[era.current] # None /\ eraState[era.current] \in EraMetadata
         /\ eraState[era.current].staked \in Nat /\ eraState[era.current].rewards = 0
         /\ \A p \in Providers : IsActiveProvider(p) =>
              /\ providerEraInfo[p][era.current] # None
              /\ providerEraInfo[p][era.current] \in ProviderEraMetadata
              /\ ProviderEraInfoOrDefault(p, era.current) = providerEraInfo[p][era.current]
              /\ LatestEra(p) = era.current
              /\ providerInfo[p].owner \in Accounts
              /\ BondHeld(p) = providerEraInfo[p][era.current].bond
              /\ BondOf(p, providerInfo[p].owner) = providerEraInfo[p][era.current].bond
<1>1. TypeOK /\ Recorded /\ ErasBegun /\ SupplyFits /\ ReservedHeld
  BY DEF LedgerInv, IndInv
<1>2. era.current \in Eras /\ era.current \in Nat /\ era.current > 0
  BY <1>1, StateTypes DEF ErasBegun
<1>3. eraState[era.current] # None /\ eraState[era.current].rewards = 0
  BY <1>1, <1>2 DEF ErasBegun
<1>4. eraState[era.current] \in EraMetadata /\ eraState[era.current].staked \in Nat
  BY <1>1, <1>2, <1>3, StakedType
<1>5. ASSUME NEW p \in Providers, IsActiveProvider(p)
      PROVE  /\ providerEraInfo[p][era.current] # None
             /\ providerEraInfo[p][era.current] \in ProviderEraMetadata
             /\ ProviderEraInfoOrDefault(p, era.current) = providerEraInfo[p][era.current]
             /\ LatestEra(p) = era.current
             /\ providerInfo[p].owner \in Accounts
             /\ BondHeld(p) = providerEraInfo[p][era.current].bond
             /\ BondOf(p, providerInfo[p].owner) = providerEraInfo[p][era.current].bond
  <2>1. /\ LatestEra(p) = era.current /\ IsRegistered(p) /\ ~providerInfo[p].bond_withdrawn
        /\ providerInfo[p].owner \in Accounts
    BY <1>1, <1>5, StateTypes DEF IsActiveProvider, LatestEra, Recorded
  <2>2. /\ providerEraInfo[p][era.current] # None
        /\ providerEraInfo[p][era.current] \in ProviderEraMetadata
    BY <2>1, <1>1, <1>2 DEF Recorded, TypeOK
  <2> QED
    BY <2>1, <2>2 DEF ProviderEraInfoOrDefault, BondHeld, BondOf
<1> QED
  BY <1>1, <1>2, <1>3, <1>4, <1>5

(* A call writes the current era's record of an active provider.           *)
LEMMA BondWritten ==
  ASSUME LedgerInv, InBlock, NEW p \in Providers, IsActiveProvider(p),
         UNCHANGED <<era, providerInfo>>, NEW info \in ProviderEraMetadata,
         providerEraInfo' = [providerEraInfo EXCEPT ![p][era.current] = info]
  PROVE  \A q \in Providers, a \in Accounts :
           BondOf(q, a)' = IF q = p /\ a = providerInfo[p].owner THEN info.bond
                                                                 ELSE BondOf(q, a)
<1> SUFFICES ASSUME NEW q \in Providers, NEW a \in Accounts
             PROVE  BondOf(q, a)' = IF q = p /\ a = providerInfo[p].owner
                                    THEN info.bond ELSE BondOf(q, a)
  OBVIOUS
<1>1. TypeOK /\ era.current \in Eras /\ info # None
  BY InCall, NoneAssumption
<1>2. CASE q # p
  <2>1. providerEraInfo'[q] = providerEraInfo[q]
    BY <1>1, <1>2 DEF TypeOK
  <2> QED
    BY <2>1, <1>2 DEF BondOf, BondHeld, IsRegistered, LatestEra, ProviderEraInfoOrDefault
<1>3. CASE q = p
  <2>1. /\ IsRegistered(p)' /\ LatestEra(p)' = era.current
        /\ ~providerInfo'[p].bond_withdrawn
    BY <1>1, InCall DEF Recorded, IsActiveProvider, IsRegistered, LatestEra
  <2>2. providerEraInfo'[p][era.current] = info
    BY <1>1 DEF TypeOK
  <2>3. BondHeld(p)' = info.bond
    BY <2>1, <2>2, <1>1 DEF BondHeld, ProviderEraInfoOrDefault
  <2>4. BondOf(p, a)' = IF a = providerInfo[p].owner THEN BondHeld(p)' ELSE 0
    BY <2>1 DEF BondOf
  <2>5. a # providerInfo[p].owner => BondOf(p, a) = 0
    BY DEF BondOf
  <2> QED
    BY <2>3, <2>4, <2>5, <1>3
<1> QED
  BY <1>2, <1>3

LEMMA BondFrame ==
  ASSUME era'.current = era.current, UNCHANGED <<providerInfo, providerEraInfo>>
  PROVE  \A q \in Providers, a \in Accounts : BondOf(q, a)' = BondOf(q, a)
BY DEF BondOf, BondHeld, IsRegistered, LatestEra, ProviderEraInfoOrDefault

LEMMA StakeFrame ==
  ASSUME delegationInfo' = delegationInfo
  PROVE  \A q \in Providers, a \in Accounts : StakeOf(a, q)' = StakeOf(a, q)
BY DEF StakeOf

(* One vector is written.                                                  *)
LEMMA StakeWritten ==
  ASSUME TypeOK, NEW who \in Accounts, NEW p \in Providers, NEW stakes,
         delegationInfo' = [delegationInfo EXCEPT ![who][p] = stakes]
  PROVE  /\ \A q \in Providers, a \in Accounts :
              delegationInfo'[a][q] = IF a = who /\ q = p THEN stakes
                                                          ELSE delegationInfo[a][q]
         /\ \A q \in Providers, a \in Accounts :
              StakeOf(a, q)' = IF a = who /\ q = p THEN LatestStakedValue(stakes)
                                                   ELSE StakeOf(a, q)
<1>1. \A q \in Providers, a \in Accounts :
        delegationInfo'[a][q] = IF a = who /\ q = p THEN stakes ELSE delegationInfo[a][q]
  BY DEF TypeOK
<1> QED
  BY <1>1 DEF StakeOf

(* What the currency does to the reserved balances.                        *)
LEMMA ReservedBalances ==
  ASSUME TypeOK, NEW who \in Accounts, NEW amount \in Nat
  PROVE  /\ \A a \in Accounts : Reserve(balances, who, amount)[a].reserved =
              IF a = who THEN balances[who].reserved + amount ELSE balances[a].reserved
         /\ amount <= balances[who].reserved =>
              \A a \in Accounts : Unreserve(balances, who, amount)[a].reserved =
                IF a = who THEN balances[who].reserved - amount ELSE balances[a].reserved
         /\ CanWithdraw(balances, Pot, amount) =>
              \A a \in Accounts : Payout(who, amount)[a].reserved = balances[a].reserved
         /\ \A a \in Accounts :
              DepositCreating(balances, Pot, amount)[a] = balances[a]
<1>1. /\ balances \in Ledgers /\ who \in Holders /\ Pot \in Holders
      /\ \A a \in Accounts : a \in Holders /\ a # Pot
  BY StakingAssumption DEF TypeOK, Ledgers, Holders
<1>2. /\ balances[who].reserved \in Nat /\ balances[Pot].reserved \in Nat
      /\ balances[Pot].free \in Nat
  BY <1>1 DEF Ledgers, Account
<1>3. \A a \in Accounts : Reserve(balances, who, amount)[a].reserved =
        IF a = who THEN balances[who].reserved + amount ELSE balances[a].reserved
  BY <1>1 DEF Reserve, Ledgers
<1>4. ASSUME amount <= balances[who].reserved
      PROVE  \A a \in Accounts : Unreserve(balances, who, amount)[a].reserved =
               IF a = who THEN balances[who].reserved - amount ELSE balances[a].reserved
  <2>1. ~(amount > balances[who].reserved)
    BY <1>2, <1>4
  <2> QED
    BY <2>1, <1>1 DEF Unreserve, Ledgers
<1>5. \A a \in Accounts : DepositCreating(balances, Pot, amount)[a] = balances[a]
  BY <1>1 DEF DepositCreating, Ledgers
<1>6. ASSUME CanWithdraw(balances, Pot, amount)
      PROVE  \A a \in Accounts : Payout(who, amount)[a].reserved = balances[a].reserved
  <2> DEFINE mid == WithdrawAllowDeath(balances, Pot, amount)
             left == balances[Pot].free - amount + balances[Pot].reserved
  <2>1. mid \in Ledgers
    BY <1>1, <1>6, LedgerType
  <2>2. \A a \in Accounts : mid[a] = balances[a]
    <3>1. left \in Nat /\ ExistentialDeposit \in Nat
      BY <1>2, <1>6, CurrencyAssumption DEF CanWithdraw
    <3>2. \/ amount = 0
          \/ amount > 0 /\ left < ExistentialDeposit /\ ~(left >= ExistentialDeposit)
          \/ amount > 0 /\ left >= ExistentialDeposit /\ ~(left < ExistentialDeposit)
      <4> HIDE DEF left
      <4> QED
        BY <3>1
    <3>3. CASE amount = 0
      BY <3>3 DEF WithdrawAllowDeath
    <3>4. CASE amount > 0 /\ left < ExistentialDeposit /\ ~(left >= ExistentialDeposit)
      <4>1. mid = [balances EXCEPT ![Pot] = EmptyAccount]
        BY <3>4 DEF WithdrawAllowDeath
      <4> HIDE DEF mid
      <4> QED
        BY <4>1, <1>1 DEF Ledgers
    <3>5. CASE amount > 0 /\ left >= ExistentialDeposit /\ ~(left < ExistentialDeposit)
      <4>1. mid = [balances EXCEPT ![Pot] = [free     |-> balances[Pot].free - amount,
                                             reserved |-> balances[Pot].reserved]]
        BY <3>5 DEF WithdrawAllowDeath
      <4> HIDE DEF mid
      <4> QED
        BY <4>1, <1>1 DEF Ledgers
    <3> QED
      BY <3>2, <3>3, <3>4, <3>5
  <2> HIDE DEF mid
  <2>3. Payout(who, amount) = DepositCreating(mid, who, amount)
    BY DEF Payout, mid
  <2>4. \A a \in Accounts : DepositCreating(mid, who, amount)[a].reserved = mid[a].reserved
    BY <2>1, <1>1 DEF DepositCreating, Ledgers
  <2> QED
    BY <2>2, <2>3, <2>4
<1> QED
  BY <1>3, <1>4, <1>5, <1>6

(* Active providers enter the new era with the record of the old one.      *)
LEMMA StartEraCall ==
  ASSUME LedgerInv, StartEra
  PROVE  LET c == era.current
         IN  /\ TypeOK /\ c \in Eras /\ c \in Nat /\ c + 1 \in Eras /\ c + 1 # c
             /\ era'.current = c + 1 /\ block' = block + 1
             /\ UNCHANGED <<providerInfo, delegationInfo, unbondingInfo, balances>>
             /\ \A q \in Providers : IsRegistered(q)' <=> IsRegistered(q)
             /\ \A q \in Providers : IsActiveProvider(q)' <=> IsActiveProvider(q)
             /\ \A q \in Providers : IsUnregistered(q)' <=> IsUnregistered(q)
             /\ \A q \in Providers : IsRegistered(q) <=> IsActiveProvider(q) \/ IsUnregistered(q)
             /\ \A q \in Providers : IsActiveProvider(q) => LatestEra(q)' = c + 1 /\ LatestEra(q) = c
             /\ \A q \in Providers : IsUnregistered(q) => LatestEra(q)' = LatestEra(q)
             /\ \A q \in Providers : IsUnregistered(q) =>
                  LatestEra(q) \in Eras /\ LatestEra(q) <= c /\ LatestEra(q) # c + 1
             /\ \A q \in Providers : ~IsActiveProvider(q) => providerEraInfo'[q] = providerEraInfo[q]
             /\ \A q \in Providers, e \in Eras : e # c + 1 =>
                  providerEraInfo'[q][e] = providerEraInfo[q][e]
             /\ \A q \in Providers : IsActiveProvider(q) =>
                  /\ providerEraInfo[q][c] # None
                  /\ providerEraInfo[q][c] \in ProviderEraMetadata
                  /\ providerEraInfo'[q][c + 1] # None
                  /\ providerEraInfo'[q][c + 1].bond = providerEraInfo[q][c].bond
                  /\ providerEraInfo'[q][c + 1].total = providerEraInfo[q][c].total
                  /\ providerEraInfo'[q][c + 1].delegator_count = providerEraInfo[q][c].delegator_count
<1> DEFINE c == era.current
<1>1. /\ TypeOK /\ Recorded /\ c \in Eras /\ c \in Nat /\ c + 1 \in Eras /\ c + 1 # c
  BY StateTypes, StakingAssumption DEF LedgerInv, IndInv, StartEra, Eras
<1>2. /\ era'.current = c + 1 /\ block' = block + 1
      /\ UNCHANGED <<providerInfo, delegationInfo, unbondingInfo, balances>>
  BY DEF StartEra
<1>3. /\ \A q \in Providers : IsRegistered(q)' <=> IsRegistered(q)
      /\ \A q \in Providers : IsActiveProvider(q)' <=> IsActiveProvider(q)
      /\ \A q \in Providers : IsUnregistered(q)' <=> IsUnregistered(q)
      /\ \A q \in Providers : IsRegistered(q) <=> IsActiveProvider(q) \/ IsUnregistered(q)
      /\ \A q \in Providers : IsActiveProvider(q) => LatestEra(q)' = c + 1 /\ LatestEra(q) = c
      /\ \A q \in Providers : IsUnregistered(q) => LatestEra(q)' = LatestEra(q)
      /\ \A q \in Providers : IsUnregistered(q) =>
           LatestEra(q) \in Eras /\ LatestEra(q) <= c /\ LatestEra(q) # c + 1
  <2>1. \A q \in Providers : IsUnregistered(q) =>
          providerInfo[q].status \in Eras /\ providerInfo[q].status <= c
    BY <1>1, StateTypes DEF Recorded, IsUnregistered
  <2> QED
    BY <2>1, <1>1, <1>2
       DEF IsRegistered, IsActiveProvider, IsUnregistered, LatestEra, Eras
<1>4. /\ \A q \in Providers : ~IsActiveProvider(q) => providerEraInfo'[q] = providerEraInfo[q]
      /\ \A q \in Providers, e \in Eras : e # c + 1 =>
           providerEraInfo'[q][e] = providerEraInfo[q][e]
      /\ \A q \in Providers : IsActiveProvider(q) =>
           /\ providerEraInfo[q][c] # None
           /\ providerEraInfo[q][c] \in ProviderEraMetadata
           /\ providerEraInfo'[q][c + 1] =
                [providerEraInfo[q][c] EXCEPT !.provider_reward_claimed = FALSE]
  <2>1. \A q \in Providers : IsActiveProvider(q) =>
          providerEraInfo[q][c] # None /\ providerEraInfo[q][c] \in ProviderEraMetadata
    BY <1>1, <1>3 DEF Recorded, TypeOK
  <2> HIDE DEF c
  <2> QED
    BY <2>1, <1>1 DEF StartEra, RotateProviderEraInfo, TypeOK, c
<1>5. \A q \in Providers : IsActiveProvider(q) =>
        /\ providerEraInfo'[q][c + 1] # None
        /\ providerEraInfo'[q][c + 1].bond = providerEraInfo[q][c].bond
        /\ providerEraInfo'[q][c + 1].total = providerEraInfo[q][c].total
        /\ providerEraInfo'[q][c + 1].delegator_count = providerEraInfo[q][c].delegator_count
  <2>1. \A q \in Providers : IsActiveProvider(q) =>
          providerEraInfo'[q][c + 1] \in ProviderEraMetadata
    BY <1>4 DEF ProviderEraMetadata
  <2> QED
    BY <2>1, <1>4, NoneAssumption DEF ProviderEraMetadata
<1> QED
  BY <1>1, <1>2, <1>3, <1>4, <1>5

LEMMA StartEraLedger ==
  ASSUME LedgerInv, TypeOK', StartEra
  PROVE  Recorded' /\ ErasBegun' /\ SupplyFits' /\ ReservedHeld'
<1> DEFINE c == era.current
<1>1. /\ TypeOK /\ Recorded /\ ErasBegun /\ SupplyFits /\ ReservedHeld
      /\ c \in Eras /\ c \in Nat /\ c + 1 \in Eras /\ c + 1 # c
  BY StartEraCall DEF LedgerInv
<1>2. /\ era'.current = c + 1 /\ block' = block + 1
      /\ UNCHANGED <<providerInfo, delegationInfo, unbondingInfo, balances>>
  BY StartEraCall
<1>3. /\ \A q \in Providers : IsRegistered(q)' <=> IsRegistered(q)
      /\ \A q \in Providers : IsActiveProvider(q)' <=> IsActiveProvider(q)
      /\ \A q \in Providers : IsUnregistered(q)' <=> IsUnregistered(q)
      /\ \A q \in Providers : IsRegistered(q) <=> IsActiveProvider(q) \/ IsUnregistered(q)
      /\ \A q \in Providers : IsActiveProvider(q) => LatestEra(q)' = c + 1 /\ LatestEra(q) = c
      /\ \A q \in Providers : IsUnregistered(q) => LatestEra(q)' = LatestEra(q)
      /\ \A q \in Providers : IsUnregistered(q) =>
           LatestEra(q) \in Eras /\ LatestEra(q) <= c /\ LatestEra(q) # c + 1
  BY StartEraCall
<1>4. /\ \A q \in Providers : ~IsActiveProvider(q) => providerEraInfo'[q] = providerEraInfo[q]
      /\ \A q \in Providers : IsActiveProvider(q) =>
           providerEraInfo[q][c] # None /\ providerEraInfo[q][c] \in ProviderEraMetadata
  BY StartEraCall
<1>5. \A q \in Providers : IsActiveProvider(q) =>
        /\ providerEraInfo'[q][c + 1] # None
        /\ providerEraInfo'[q][c + 1].bond = providerEraInfo[q][c].bond
  BY StartEraCall
<1>6. Recorded'
  <2> SUFFICES ASSUME NEW p \in Providers
               PROVE  /\ IsRegistered(p)' => providerEraInfo'[p][LatestEra(p)'] # None
                      /\ IsActiveProvider(p)' => ~providerInfo'[p].bond_withdrawn
                      /\ IsUnregistered(p)' => providerInfo'[p].status <= era'.current
                      /\ ~IsRegistered(p)' =>
                           /\ \A e \in Eras : providerEraInfo'[p][e] = None
                           /\ \A a \in Accounts : delegationInfo'[a][p] = <<>>
    BY DEF Recorded
  <2>1. CASE IsActiveProvider(p)
    BY <2>1, <1>1, <1>2, <1>3, <1>5 DEF Recorded, IsActiveProvider, IsUnregistered
  <2>2. CASE IsUnregistered(p)
    <3>1. providerInfo[p].status \in Eras /\ providerInfo[p].status <= c
      BY <2>2, <1>1, StateTypes DEF Recorded, IsUnregistered
    <3>2. providerInfo'[p].status <= era'.current
      BY <3>1, <1>1, <1>2 DEF Eras
    <3> QED
      BY <2>2, <3>2, <1>1, <1>3, <1>4 DEF Recorded, IsActiveProvider, IsUnregistered
  <2>3. CASE ~IsRegistered(p)
    BY <2>3, <1>1, <1>2, <1>3, <1>4 DEF Recorded
  <2> QED
    BY <2>1, <2>2, <2>3, <1>3
<1>7. ErasBegun'
  <2> DEFINE next == [rewards |-> 0, staked |-> EraStateOrDefault(c).staked]
             done == [rewards |-> rewardAccumulator, staked |-> EraStateOrDefault(c).staked]
  <2>1. next \in EraMetadata /\ done \in EraMetadata
    BY <1>1, StorageDefaultType DEF EraMetadata, TypeOK
  <2>2. eraState' = [eraState EXCEPT ![c + 1] = next, ![c] = done]
    BY DEF StartEra, SnapshotEraRewards
  <2>3. next # None /\ done # None /\ next.rewards = 0
    BY <2>1, NoneAssumption
  <2> HIDE DEF next, done
  <2>4. \A e \in Eras : eraState'[e] = IF e = c THEN done
                                       ELSE IF e = c + 1 THEN next ELSE eraState[e]
    BY <2>2, <1>1 DEF TypeOK
  <2>5. \A e \in Eras : eraState'[e] # None <=> era'.current > 0 /\ e <= era'.current
    <3> SUFFICES ASSUME NEW e \in Eras
                 PROVE  eraState'[e] # None <=> c + 1 > 0 /\ e <= c + 1
      BY <1>2
    <3>1. e \in Nat /\ (eraState[e] # None <=> c > 0 /\ e <= c)
      BY <1>1 DEF ErasBegun, Eras
    <3> HIDE DEF c
    <3> QED
      BY <3>1, <2>3, <2>4, <1>1
  <2>6. eraState'[era'.current].rewards = 0
    BY <2>3, <2>4, <1>1, <1>2
  <2>7. era'.current > 0
    BY <1>1, <1>2
  <2> QED
    BY <2>5, <2>6, <2>7 DEF ErasBegun
<1>8. SupplyFits'
  <2>1. Supply(balances)' = Supply(balances)
    BY <1>2
  <2> QED
    BY <2>1, <1>1, SupplyFrame
<1>9. ReservedHeld'
  <2>1. \A q \in Providers : BondHeld(q)' = BondHeld(q)
    <3> SUFFICES ASSUME NEW q \in Providers PROVE BondHeld(q)' = BondHeld(q)
      OBVIOUS
    <3>1. CASE IsActiveProvider(q)
      BY <3>1, <1>2, <1>3, <1>4, <1>5 DEF BondHeld, ProviderEraInfoOrDefault
    <3>2. CASE IsUnregistered(q)
      BY <3>2, <1>2, <1>3, <1>4
         DEF BondHeld, ProviderEraInfoOrDefault, IsActiveProvider, IsUnregistered
    <3>3. CASE ~IsRegistered(q)
      BY <3>3, <1>3 DEF BondHeld
    <3> QED
      BY <3>1, <3>2, <3>3, <1>3
  <2>2. \A a \in Accounts, q \in Providers :
          BondOf(q, a)' = BondOf(q, a) /\ StakeOf(a, q)' = StakeOf(a, q)
    BY <2>1, <1>2, <1>3 DEF BondOf, StakeOf
  <2> QED
    BY <2>2, <1>1, <1>2, ReservedFrame
<1> QED
  BY <1>6, <1>7, <1>8, <1>9

LEMMA BlockAndLengthLedger ==
  ASSUME LedgerInv, TypeOK',
         ContinueEra \/ \E new \in EraLengths : SetBlocksPerEra(new)
  PROVE  Recorded' /\ ErasBegun' /\ SupplyFits' /\ ReservedHeld'
<1>1. TypeOK /\ Recorded /\ ErasBegun /\ SupplyFits /\ ReservedHeld
  BY DEF LedgerInv, IndInv
<1>2. /\ era'.current = era.current
      /\ UNCHANGED <<eraState, rewardAccumulator, providerInfo, providerEraInfo,
                     delegationInfo, unbondingInfo, balances>>
  BY <1>1 DEF ContinueEra, SetBlocksPerEra, stakingVars, TypeOK, EraInfo
<1>3. ContinueEra => era.current > 0
  <2>1. era.current # 0 /\ era.current \in Nat => era.current > 0
    OBVIOUS
  <2> QED
    BY <2>1, <1>1, StateTypes DEF ContinueEra, ShouldUpdate
<1>4. Recorded'
  BY <1>1, <1>2 DEF Recorded, IsRegistered, IsActiveProvider, IsUnregistered, LatestEra
<1>5. ErasBegun'
  BY <1>1, <1>2, <1>3 DEF ErasBegun, IsRegistered, InBlock, SetBlocksPerEra
<1>6. SupplyFits'
  BY <1>1, <1>2, SupplyFrame
<1>7. ReservedHeld'
  BY <1>1, <1>2, BondFrame, StakeFrame, ReservedFrame
<1> QED
  BY <1>4, <1>5, <1>6, <1>7

LEMMA RegisterProviderLedger ==
  ASSUME LedgerInv, TypeOK',
         NEW who \in Accounts, NEW p \in Providers, NEW v \in Amounts,
         RegisterProvider(who, p, v)
  PROVE  Recorded' /\ ErasBegun' /\ SupplyFits' /\ ReservedHeld'
<1> DEFINE c == era.current
           info == [bond |-> v, total |-> v, delegator_count |-> 0,
                    provider_reward_claimed |-> FALSE]
           meta == [owner |-> who, status |-> Active, bond_withdrawn |-> FALSE]
<1>1. /\ TypeOK /\ Recorded /\ ErasBegun /\ SupplyFits /\ ReservedHeld
      /\ c \in Eras /\ c > 0 /\ eraState[c] # None /\ eraState[c].rewards = 0
      /\ v \in Nat /\ eraState[c] \in EraMetadata /\ eraState[c].staked \in Nat
      /\ who \in Holders /\ balances \in Ledgers
  BY InCall, StateTypes, StakingAssumption DEF RegisterProvider, Holders
<1>2. info \in ProviderEraMetadata /\ meta \in ProviderMetadata
  BY <1>1 DEF ProviderEraMetadata, ProviderMetadata
<1>3. info # None /\ meta # None
  BY <1>2, NoneAssumption
<1>4. /\ providerInfo' = [providerInfo EXCEPT ![p] = meta]
      /\ providerEraInfo' = [providerEraInfo EXCEPT ![p][c] = info]
      /\ UNCHANGED <<block, era, rewardAccumulator, delegationInfo, unbondingInfo>>
      /\ CanReserve(balances, who, v) /\ balances' = Reserve(balances, who, v)
      /\ ~IsRegistered(p)
  BY DEF RegisterProvider, ReserveFunds
<1>5. meta.owner = who /\ meta.status = Active /\ meta.bond_withdrawn = FALSE /\ info.bond = v
  OBVIOUS
<1> HIDE DEF info, meta
<1>6. /\ \A q \in Providers, e \in Eras :
           providerEraInfo'[q][e] = IF q = p /\ e = c THEN info ELSE providerEraInfo[q][e]
      /\ \A q \in Providers : providerInfo'[q] = IF q = p THEN meta ELSE providerInfo[q]
  BY <1>1, <1>4 DEF TypeOK
<1>7. /\ IsRegistered(p)' /\ LatestEra(p)' = c /\ IsActiveProvider(p)' /\ ~IsUnregistered(p)'
      /\ \A q \in Providers : q # p =>
           /\ IsRegistered(q)' <=> IsRegistered(q)
           /\ IsActiveProvider(q)' <=> IsActiveProvider(q)
           /\ IsUnregistered(q)' <=> IsUnregistered(q)
           /\ LatestEra(q)' = LatestEra(q)
           /\ IsRegistered(q) => LatestEra(q) \in Eras
  BY <1>1, <1>3, <1>4, <1>5, <1>6, StateTypes
     DEF IsRegistered, IsActiveProvider, IsUnregistered, LatestEra
<1>8. Recorded'
  <2> SUFFICES ASSUME NEW q \in Providers
               PROVE  /\ IsRegistered(q)' => providerEraInfo'[q][LatestEra(q)'] # None
                      /\ IsActiveProvider(q)' => ~providerInfo'[q].bond_withdrawn
                      /\ IsUnregistered(q)' => providerInfo'[q].status <= era'.current
                      /\ ~IsRegistered(q)' =>
                           /\ \A e \in Eras : providerEraInfo'[q][e] = None
                           /\ \A a \in Accounts : delegationInfo'[a][q] = <<>>
    BY DEF Recorded
  <2>1. CASE q = p
    BY <2>1, <1>1, <1>3, <1>5, <1>6, <1>7
  <2>2. CASE q # p
    BY <2>2, <1>1, <1>4, <1>6, <1>7 DEF Recorded
  <2> QED
    BY <2>1, <2>2
<1>9. ErasBegun'
  <2> DEFINE new == [rewards |-> EraStateOrDefault(c).rewards,
                     staked  |-> SatAdd(EraStateOrDefault(c).staked, v)]
  <2>1. EraStateOrDefault(c) = eraState[c]
    BY <1>1 DEF EraStateOrDefault
  <2>2. new.rewards = 0 /\ new \in EraMetadata
    BY <2>1, <1>1, ArithmeticType DEF EraMetadata
  <2>3. eraState' = [eraState EXCEPT ![c] = new] /\ new # None
    BY <2>2, NoneAssumption DEF RegisterProvider
  <2> HIDE DEF new
  <2>4. \A e \in Eras : eraState'[e] = IF e = c THEN new ELSE eraState[e]
    BY <2>3, <1>1 DEF TypeOK
  <2> QED
    BY <2>2, <2>3, <2>4, <1>1, <1>4 DEF ErasBegun, InBlock
<1>10. SupplyFits'
  <2>1. Supply(balances)' = Supply(balances)
    BY <1>1, <1>4, SupplySteps
  <2> QED
    BY <2>1, <1>1, <1>4, SupplyFrame
<1>11. ReservedHeld'
  <2>1. \A q \in Providers, a \in Accounts :
          BondOf(q, a)' = IF q = p /\ a = who THEN v ELSE BondOf(q, a)
    <3> SUFFICES ASSUME NEW q \in Providers, NEW a \in Accounts
                 PROVE  BondOf(q, a)' = IF q = p /\ a = who THEN v ELSE BondOf(q, a)
      OBVIOUS
    <3>1. CASE q # p
      BY <3>1, <1>6, <1>7 DEF BondOf, BondHeld, ProviderEraInfoOrDefault
    <3>2. CASE q = p
      <4>1. BondHeld(p)' = v
        BY <1>1, <1>3, <1>5, <1>6, <1>7 DEF BondHeld, ProviderEraInfoOrDefault
      <4>2. BondOf(p, a) = 0
        BY <1>4 DEF BondOf
      <4>3. BondOf(p, a)' = IF a = who THEN v ELSE 0
        BY <4>1, <1>5, <1>6, <1>7 DEF BondOf
      <4> QED
        BY <3>2, <4>2, <4>3
    <3> QED
      BY <3>1, <3>2
  <2>2. BondOf(p, who) = 0 /\ BondOf(p, who)' = v
    BY <2>1, <1>4 DEF BondOf
  <2>3. \A q \in Providers, a \in Accounts : StakeOf(a, q)' = StakeOf(a, q)
    BY <1>4, StakeFrame
  <2>4. \A a \in Accounts : balances'[a].reserved =
          IF a = who THEN balances[who].reserved + v ELSE balances[a].reserved
    BY <1>1, <1>4, ReservedBalances
  <2>5. /\ balances[who].reserved \in Nat /\ StakeOf(who, p) \in Nat
        /\ ChunkTotal(unbondingInfo[who]) \in Nat
    BY <1>1, HeldType DEF HeldTyped, Ledgers, Account
  <2>6. balances'[who].reserved = balances[who].reserved
           - BondOf(p, who) + BondOf(p, who)'
           - StakeOf(who, p) + StakeOf(who, p)'
           - ChunkTotal(unbondingInfo[who]) + ChunkTotal(unbondingInfo'[who])
    BY <2>2, <2>3, <2>4, <2>5, <1>1, <1>4
  <2> QED
    BY <2>1, <2>3, <2>4, <2>6, <1>1, <1>4, ReservedStep
<1> QED
  BY <1>8, <1>9, <1>10, <1>11

(* A call writes the record of an active provider in the current era and   *)
(* the stakes of one delegator on it ...                                   *)
StakeCall(who, p, info, staked, stakes) ==
  /\ InBlock
  /\ IsActiveProvider(p)
  /\ providerEraInfo' = [providerEraInfo EXCEPT ![p][era.current] = info]
  /\ eraState' = UpdateStaked(era.current, staked)
  /\ delegationInfo' = [delegationInfo EXCEPT ![who][p] = stakes]
  /\ UNCHANGED <<block, era, rewardAccumulator, providerInfo>>

(* ... and moves tokens between the caller's books and what is reserved.   *)
BooksMoved(who, p, info, stakes) ==
  LET old == providerEraInfo[p][era.current]
  IN  /\ who = providerInfo[p].owner \/ info.bond = old.bond
      /\ Supply(balances)' = Supply(balances)
      /\ \A a \in Accounts : a # who =>
           /\ unbondingInfo'[a] = unbondingInfo[a]
           /\ balances'[a].reserved = balances[a].reserved
      /\ balances'[who].reserved = balances[who].reserved
           + (info.bond - old.bond)
           + (LatestStakedValue(stakes) - StakeOf(who, p))
           + (ChunkTotal(unbondingInfo'[who]) - ChunkTotal(unbondingInfo[who]))

LEMMA StakeCallLedger ==
  ASSUME LedgerInv, TypeOK', NEW who \in Accounts, NEW p \in Providers,
         NEW info \in ProviderEraMetadata, NEW staked \in Nat,
         NEW stakes \in Seq(EraStake),
         StakeCall(who, p, info, staked, stakes), BooksMoved(who, p, info, stakes)
  PROVE  Recorded' /\ ErasBegun' /\ SupplyFits' /\ ReservedHeld'
<1> DEFINE c == era.current
           old == providerEraInfo[p][era.current]
           owner == providerInfo[p].owner
<1>1. /\ TypeOK /\ Recorded /\ ErasBegun /\ SupplyFits /\ ReservedHeld
      /\ c \in Eras /\ old \in ProviderEraMetadata
      /\ owner \in Accounts /\ BondOf(p, owner) = old.bond
  BY InCall DEF StakeCall
<1>2. /\ \A q \in Providers, a \in Accounts :
           delegationInfo'[a][q] = IF a = who /\ q = p THEN stakes ELSE delegationInfo[a][q]
      /\ \A q \in Providers, a \in Accounts :
           StakeOf(a, q)' = IF a = who /\ q = p THEN LatestStakedValue(stakes)
                                                ELSE StakeOf(a, q)
  <2>1. delegationInfo' = [delegationInfo EXCEPT ![who][p] = stakes]
    BY DEF StakeCall
  <2> QED
    BY <2>1, <1>1 DEF TypeOK, StakeOf
<1>3. Recorded' /\ ErasBegun'
  <2>1. \A q \in Providers : q # p =>
          \A a \in Accounts : delegationInfo'[a][q] = delegationInfo[a][q]
    BY <1>2
  <2> QED
    BY <2>1, <1>1, CallRecorded DEF StakeCall
<1>4. SupplyFits'
  BY <1>1, SupplyFrame DEF StakeCall, BooksMoved
<1>5. \A q \in Providers, a \in Accounts :
        BondOf(q, a)' = IF q = p /\ a = owner THEN info.bond ELSE BondOf(q, a)
  BY BondWritten DEF StakeCall
<1>6. \A q \in Providers, a \in Accounts :
        a # who \/ q # p => BondOf(q, a)' = BondOf(q, a) /\ StakeOf(a, q)' = StakeOf(a, q)
  <2> SUFFICES ASSUME NEW q \in Providers, NEW a \in Accounts, a # who \/ q # p
               PROVE  BondOf(q, a)' = BondOf(q, a) /\ StakeOf(a, q)' = StakeOf(a, q)
    OBVIOUS
  <2>1. CASE q = p /\ a = owner
    <3>1. info.bond = old.bond
      BY <2>1 DEF BooksMoved
    <3> QED
      BY <2>1, <3>1, <1>1, <1>2, <1>5
  <2>2. CASE ~(q = p /\ a = owner)
    BY <2>2, <1>2, <1>5
  <2> QED
    BY <2>1, <2>2
<1>7. /\ BondOf(p, who) + (info.bond - old.bond) = BondOf(p, who)'
      /\ BondOf(p, who) \in Nat /\ info.bond - old.bond \in Int
  <2>1. old.bond \in Nat /\ info.bond \in Nat
    BY <1>1 DEF ProviderEraMetadata
  <2>2. BondOf(p, who) \in Nat
    BY <1>1, HeldType DEF HeldTyped
  <2>3. CASE who = owner
    <3>1. BondOf(p, who) = old.bond /\ BondOf(p, who)' = info.bond
      BY <2>3, <1>1, <1>5
    <3> HIDE DEF old
    <3> QED
      BY <3>1, <2>1, <2>2 DEF old
  <2>4. CASE who # owner
    <3>1. BondOf(p, who)' = BondOf(p, who) /\ info.bond = old.bond
      BY <2>4, <1>5 DEF BooksMoved
    <3> HIDE DEF old
    <3> QED
      BY <3>1, <2>1, <2>2
  <2> QED
    BY <2>3, <2>4
<1>8. balances'[who].reserved = balances[who].reserved
           - BondOf(p, who) + BondOf(p, who)'
           - StakeOf(who, p) + StakeOf(who, p)'
           - ChunkTotal(unbondingInfo[who]) + ChunkTotal(unbondingInfo'[who])
  <2>1. StakeOf(who, p)' = LatestStakedValue(stakes)
    BY <1>2
  <2>2. /\ balances[who].reserved \in Int /\ StakeOf(who, p) \in Int
        /\ LatestStakedValue(stakes) \in Int
        /\ ChunkTotal(unbondingInfo[who]) \in Int
    BY <1>1, HeldType, StateTypes, StakeFields DEF HeldTyped, Ledgers, Account, Holders
  <2>3. ChunkTotal(unbondingInfo'[who]) \in Int
    BY HeldTypeNext DEF HeldTyped
  <2>4. balances'[who].reserved = balances[who].reserved
           + (info.bond - old.bond)
           + (LatestStakedValue(stakes) - StakeOf(who, p))
           + (ChunkTotal(unbondingInfo'[who]) - ChunkTotal(unbondingInfo[who]))
    BY DEF BooksMoved
  <2>5. balances'[who].reserved \in Int /\ BondOf(p, who)' \in Int
    BY HeldTypeNext DEF HeldTyped, TypeOK, Account, Holders
  <2> DEFINE r == balances[who].reserved
             r2 == balances'[who].reserved
             b == BondOf(p, who)
             b2 == BondOf(p, who)'
             d == info.bond - old.bond
             s == StakeOf(who, p)
             s2 == LatestStakedValue(stakes)
             u == ChunkTotal(unbondingInfo[who])
             u2 == ChunkTotal(unbondingInfo'[who])
  <2>6. /\ b + d = b2 /\ r2 = r + d + (s2 - s) + (u2 - u)
        /\ r \in Int /\ r2 \in Int /\ b \in Int /\ b2 \in Int /\ d \in Int
        /\ s \in Int /\ s2 \in Int /\ u \in Int /\ u2 \in Int
    BY <2>2, <2>3, <2>4, <2>5, <1>7
  <2>7. r2 = r - b + b2 - s + s2 - u + u2
    <3> HIDE DEF r, r2, b, b2, d, s, s2, u, u2
    <3> QED
      BY <2>6
  <2> QED
    BY <2>1, <2>7
<1>9. ReservedHeld'
  BY <1>1, <1>6, <1>8, ReservedStep DEF BooksMoved
<1> QED
  BY <1>3, <1>4, <1>9

(* The chunk of an unstaked amount.                                        *)
LEMMA UnbondingBooks ==
  ASSUME LedgerInv, NEW who \in Accounts, NEW amount \in Nat,
         StartUnbonding(who, amount),
         ChunkTotal(unbondingInfo[who]) + amount <= MaxBalance
  PROVE  /\ \A a \in Accounts : a # who => unbondingInfo'[a] = unbondingInfo[a]
         /\ ChunkTotal(unbondingInfo'[who]) = ChunkTotal(unbondingInfo[who]) + amount
<1> DEFINE chunks == unbondingInfo[who]
           e == era.current + UnbondingPeriod
           result == AddChunk(chunks, NewChunk(amount, e))
<1>1. /\ TypeOK /\ chunks \in Seq(UnlockingChunk) /\ ChunksOrdered(chunks) /\ e \in Nat
      /\ \A i \in DOMAIN chunks : chunks[i].unlock_era <= e
  BY StateTypes, StakingAssumption DEF LedgerInv, IndInv, UnbondingWellFormed, TypeOK
<1>2. unbondingInfo' = [unbondingInfo EXCEPT ![who] = result]
  BY DEF StartUnbonding
<1> HIDE DEF e
<1>3. result \in Seq(UnlockingChunk) /\ AmountAdded(chunks, result, amount)
  BY <1>1, AddChunkProperties
<1> HIDE DEF result
<1>4. ChunkTotal(result) = ChunkTotal(chunks) + amount
  BY <1>1, <1>3, ChunkTotalAdded
<1> QED
  BY <1>1, <1>2, <1>4 DEF TypeOK

(* A vector that is written back as it was.                                *)
LEMMA SameStakes ==
  ASSUME TypeOK, NEW who \in Accounts, NEW p \in Providers, delegationInfo' = delegationInfo
  PROVE  /\ delegationInfo[who][p] \in Seq(EraStake)
         /\ delegationInfo' = [delegationInfo EXCEPT ![who][p] = delegationInfo[who][p]]
BY DEF TypeOK

(* What the pallet holds of an account fits in its reserved balance.       *)
LEMMA HeldFits ==
  ASSUME LedgerInv, NEW a \in Accounts, NEW p \in Providers
  PROVE  /\ BondOf(p, a) \in Nat /\ StakeOf(a, p) \in Nat
         /\ ChunkTotal(unbondingInfo[a]) \in Nat
         /\ balances[a].reserved \in Nat
         /\ BondOf(p, a) + StakeOf(a, p) + ChunkTotal(unbondingInfo[a]) <= balances[a].reserved
<1>1. TypeOK /\ ReservedHeld
  BY DEF LedgerInv, IndInv
<1>2. /\ BondOf(p, a) \in Nat /\ StakeOf(a, p) \in Nat
      /\ ChunkTotal(unbondingInfo[a]) \in Nat
      /\ HeldBond(a) \in Nat /\ HeldStake(a) \in Nat
      /\ BondOf(p, a) <= HeldBond(a) /\ StakeOf(a, p) <= HeldStake(a)
  BY <1>1, HeldType, HeldSums DEF HeldTyped, HeldSummed
<1>3. balances[a].reserved = HeldBond(a) + HeldStake(a) + ChunkTotal(unbondingInfo[a])
  BY <1>1 DEF ReservedHeld
<1> QED
  BY <1>2, <1>3

(* What each of the four calls writes.                                     *)
BondedMore(old, v) == [old EXCEPT !.bond = @ + v, !.total = @ + v]

BondedLess(old, v) == [old EXCEPT !.bond = SatSub(@, v), !.total = SatSub(@, v)]

Delegated(old, latest, v) ==
  [old EXCEPT !.total = @ + v,
              !.delegator_count = IF latest = 0 THEN @ + 1 ELSE @]

Unstaked(old, latest, v) ==
  [old EXCEPT !.total = SatSub(@, UnstakeAmount(latest, v)),
              !.delegator_count = IF UnstakesAll(latest, v) THEN SatSub(@, 1) ELSE @]

LEMMA ProviderBondMoreCall ==
  ASSUME LedgerInv, NEW who \in Accounts, NEW p \in Providers, NEW v \in Amounts,
         ProviderBondMore(who, p, v)
  PROVE  LET old    == providerEraInfo[p][era.current]
             info   == BondedMore(old, v)
             staked == SatAdd(eraState[era.current].staked, v)
         IN  /\ InBlock /\ v \in Nat /\ v > 0 /\ providerInfo[p].owner = who
             /\ old \in ProviderEraMetadata /\ info \in ProviderEraMetadata
             /\ info.bond = old.bond + v /\ info.total = old.total + v
             /\ info.delegator_count = old.delegator_count
             /\ staked \in Nat
             /\ StakeCall(who, p, info, staked, delegationInfo[who][p])
             /\ CanReserve(balances, who, v) /\ balances' = Reserve(balances, who, v)
<1> DEFINE old == providerEraInfo[p][era.current]
           info == BondedMore(old, v)
           staked == SatAdd(eraState[era.current].staked, v)
<1>1. /\ TypeOK /\ old \in ProviderEraMetadata /\ v \in Nat
      /\ ProviderEraInfoOrDefault(p, era.current) = old
      /\ eraState[era.current].staked \in Nat
  BY InCall, StakingAssumption DEF ProviderBondMore
<1>2. /\ info \in ProviderEraMetadata
      /\ info.bond = old.bond + v /\ info.total = old.total + v
      /\ info.delegator_count = old.delegator_count
  <2>1. old.bond + v \in Nat /\ old.total + v \in Nat
    BY <1>1 DEF ProviderEraMetadata
  <2> HIDE DEF old
  <2> QED
    BY <2>1, <1>1 DEF ProviderEraMetadata, BondedMore
<1>3. staked \in Nat
  BY <1>1, ArithmeticType
<1>4. delegationInfo' = [delegationInfo EXCEPT ![who][p] = delegationInfo[who][p]]
  BY <1>1, SameStakes DEF ProviderBondMore
<1>5. StakeCall(who, p, info, staked, delegationInfo[who][p])
  BY <1>1, <1>4 DEF ProviderBondMore, StakeCall, BondedMore
<1> QED
  BY <1>1, <1>2, <1>3, <1>5 DEF ProviderBondMore, ReserveFunds

LEMMA ProviderBondMoreLedger ==
  ASSUME LedgerInv, TypeOK',
         NEW who \in Accounts, NEW p \in Providers, NEW v \in Amounts,
         ProviderBondMore(who, p, v)
  PROVE  Recorded' /\ ErasBegun' /\ SupplyFits' /\ ReservedHeld'
<1> DEFINE old == providerEraInfo[p][era.current]
           info == BondedMore(old, v)
           staked == SatAdd(eraState[era.current].staked, v)
           stakes == delegationInfo[who][p]
<1>1. /\ InBlock /\ v \in Nat /\ providerInfo[p].owner = who
      /\ old \in ProviderEraMetadata /\ info \in ProviderEraMetadata
      /\ info.bond = old.bond + v
      /\ staked \in Nat
      /\ StakeCall(who, p, info, staked, stakes)
      /\ CanReserve(balances, who, v) /\ balances' = Reserve(balances, who, v)
  BY ProviderBondMoreCall
<1>2. /\ TypeOK /\ balances \in Ledgers /\ who \in Holders
      /\ stakes \in Seq(EraStake) /\ unbondingInfo' = unbondingInfo
  BY StateTypes DEF LedgerInv, IndInv, Holders, TypeOK, ProviderBondMore
<1> HIDE DEF info, staked, stakes, old
<1>3. /\ \A a \in Accounts : balances'[a].reserved =
           IF a = who THEN balances[who].reserved + v ELSE balances[a].reserved
      /\ Supply(balances)' = Supply(balances)
  BY <1>1, <1>2, ReservedBalances, SupplySteps
<1>4. info.bond - old.bond = v
  BY <1>1 DEF ProviderEraMetadata
<1>5. LatestStakedValue(stakes) = StakeOf(who, p)
  BY DEF StakeOf, stakes
<1>6. /\ balances[who].reserved \in Nat /\ StakeOf(who, p) \in Nat
      /\ ChunkTotal(unbondingInfo[who]) \in Nat
  BY HeldFits
<1>7. BooksMoved(who, p, info, stakes)
  BY <1>1, <1>2, <1>3, <1>4, <1>5, <1>6 DEF BooksMoved, old
<1> QED
  BY <1>1, <1>2, <1>7, StakeCallLedger

LEMMA ProviderBondLessCall ==
  ASSUME LedgerInv, AmountsFit,
         NEW who \in Accounts, NEW p \in Providers, NEW v \in Amounts,
         ProviderBondLess(who, p, v)
  PROVE  LET old    == providerEraInfo[p][era.current]
             info   == BondedLess(old, v)
             staked == SatSub(eraState[era.current].staked, v)
         IN  /\ InBlock /\ v \in Nat /\ v > 0 /\ providerInfo[p].owner = who
             /\ old \in ProviderEraMetadata /\ info \in ProviderEraMetadata
             /\ v + MinProviderStake <= old.bond
             /\ info.bond = old.bond - v /\ info.total = SatSub(old.total, v)
             /\ info.delegator_count = old.delegator_count
             /\ staked \in Nat
             /\ StakeCall(who, p, info, staked, delegationInfo[who][p])
             /\ StartUnbonding(who, v) /\ balances' = balances
<1> DEFINE old == providerEraInfo[p][era.current]
           info == BondedLess(old, v)
           staked == SatSub(eraState[era.current].staked, v)
<1>1. /\ TypeOK /\ old \in ProviderEraMetadata /\ v \in Nat
      /\ ProviderEraInfoOrDefault(p, era.current) = old
      /\ eraState[era.current].staked \in Nat /\ MinProviderStake \in Nat
  BY InCall, StakingAssumption DEF ProviderBondLess
<1>2. v + MinProviderStake <= old.bond
  <2>1. WrapAdd(v, MinProviderStake) = v + MinProviderStake
    <3>1. /\ v + MinProviderStake \in Nat /\ MaxBalance \in Nat
          /\ v + MinProviderStake <= MaxBalance
      BY <1>1, CurrencyAssumption DEF AmountsFit
    <3>2. \A x, m \in Nat : x <= m => x % (m + 1) = x
      OBVIOUS
    <3> QED
      BY <3>1, <3>2 DEF WrapAdd
  <2>2. old.bond >= WrapAdd(v, MinProviderStake) /\ old.bond \in Nat
    BY <1>1 DEF ProviderBondLess, ProviderEraMetadata
  <2> HIDE DEF old
  <2> QED
    BY <2>1, <2>2, <1>1
<1>3. /\ info \in ProviderEraMetadata
      /\ info.bond = old.bond - v /\ info.total = SatSub(old.total, v)
      /\ info.delegator_count = old.delegator_count
  <2>1. SatSub(old.bond, v) \in Nat /\ SatSub(old.total, v) \in Nat /\ old.bond \in Nat
    BY <1>1, ArithmeticType DEF ProviderEraMetadata
  <2> HIDE DEF old
  <2>2. SatSub(old.bond, v) = old.bond - v
    BY <2>1, <1>1, <1>2 DEF SatSub
  <2> QED
    BY <2>1, <2>2, <1>1 DEF ProviderEraMetadata, BondedLess
<1>4. staked \in Nat
  BY <1>1, ArithmeticType
<1>5. delegationInfo' = [delegationInfo EXCEPT ![who][p] = delegationInfo[who][p]]
  BY <1>1, SameStakes DEF ProviderBondLess
<1>6. StakeCall(who, p, info, staked, delegationInfo[who][p])
  BY <1>1, <1>5 DEF ProviderBondLess, StakeCall, BondedLess
<1> QED
  BY <1>1, <1>2, <1>3, <1>4, <1>6 DEF ProviderBondLess

LEMMA ProviderBondLessLedger ==
  ASSUME LedgerInv, TypeOK', AmountsFit,
         NEW who \in Accounts, NEW p \in Providers, NEW v \in Amounts,
         ProviderBondLess(who, p, v)
  PROVE  Recorded' /\ ErasBegun' /\ SupplyFits' /\ ReservedHeld'
<1> DEFINE old == providerEraInfo[p][era.current]
           info == BondedLess(old, v)
           staked == SatSub(eraState[era.current].staked, v)
           stakes == delegationInfo[who][p]
<1>1. /\ InBlock /\ v \in Nat /\ providerInfo[p].owner = who
      /\ old \in ProviderEraMetadata /\ info \in ProviderEraMetadata
      /\ v + MinProviderStake <= old.bond /\ info.bond = old.bond - v
      /\ staked \in Nat
      /\ StakeCall(who, p, info, staked, stakes)
      /\ StartUnbonding(who, v) /\ balances' = balances
  BY ProviderBondLessCall
<1>2. /\ TypeOK /\ stakes \in Seq(EraStake) /\ SupplyFits
      /\ BondOf(p, who) = old.bond
  BY <1>1, InCall DEF TypeOK, StakeCall
<1> HIDE DEF info, staked, stakes, old
<1>3. /\ balances[who].reserved \in Nat /\ StakeOf(who, p) \in Nat
      /\ ChunkTotal(unbondingInfo[who]) \in Nat
      /\ BondOf(p, who) + StakeOf(who, p) + ChunkTotal(unbondingInfo[who])
           <= balances[who].reserved
  BY HeldFits
<1>4. balances[who].free \in Nat /\ balances[who].free + balances[who].reserved <= MaxBalance
  BY <1>2, BalancesFit
<1>5. old.bond \in Nat /\ info.bond - old.bond = 0 - v
  BY <1>1 DEF ProviderEraMetadata
<1>6. ChunkTotal(unbondingInfo[who]) + v <= MaxBalance
  <2>1. MaxBalance \in Nat /\ MinProviderStake \in Nat
    BY CurrencyAssumption, StakingAssumption
  <2>2. v <= BondOf(p, who) /\ BondOf(p, who) \in Nat
    BY <2>1, <1>1, <1>2, <1>5
  <2> DEFINE B == BondOf(p, who)
             T == StakeOf(who, p)
             C == ChunkTotal(unbondingInfo[who])
             F == balances[who].free
             R == balances[who].reserved
  <2>3. /\ v <= B /\ B + T + C <= R /\ F + R <= MaxBalance
        /\ v \in Nat /\ B \in Nat /\ T \in Nat /\ C \in Nat /\ F \in Nat /\ R \in Nat
    BY <2>2, <1>1, <1>3, <1>4
  <2> HIDE DEF B, T, C, F, R
  <2>4. C + v <= MaxBalance
    BY <2>1, <2>3
  <2> QED
    BY <2>4 DEF C
<1>7. /\ \A a \in Accounts : a # who => unbondingInfo'[a] = unbondingInfo[a]
      /\ ChunkTotal(unbondingInfo'[who]) = ChunkTotal(unbondingInfo[who]) + v
  BY <1>1, <1>6, UnbondingBooks
<1>8. LatestStakedValue(stakes) = StakeOf(who, p)
  BY DEF StakeOf, stakes
<1>9. BooksMoved(who, p, info, stakes)
  BY <1>1, <1>3, <1>5, <1>7, <1>8 DEF BooksMoved, old
<1> QED
  BY <1>1, <1>2, <1>9, StakeCallLedger

LEMMA DelegateCall ==
  ASSUME LedgerInv,
         NEW who \in Accounts, NEW p \in Providers, NEW v \in Amounts,
         Delegate(who, p, v)
  PROVE  LET old    == providerEraInfo[p][era.current]
             info   == Delegated(old, StakeOf(who, p), v)
             staked == SatAdd(eraState[era.current].staked, v)
             stakes == Stake(delegationInfo[who][p], era.current, v)
         IN  /\ InBlock /\ v \in Nat /\ v > 0
             /\ StakeOf(who, p) \in Nat
             /\ old \in ProviderEraMetadata /\ info \in ProviderEraMetadata
             /\ info.bond = old.bond /\ info.total = old.total + v
             /\ info.delegator_count = IF StakeOf(who, p) = 0 THEN old.delegator_count + 1
                                                              ELSE old.delegator_count
             /\ staked \in Nat
             /\ stakes \in Seq(EraStake)
             /\ LatestStakedValue(stakes) = StakeOf(who, p) + v
             /\ LatestStakedValue(stakes) >= MinDelegatorStake
             /\ \A e \in Nat : StakedAt(stakes, e) =
                  IF e >= era.current THEN StakeOf(who, p) + v
                                      ELSE StakedAt(delegationInfo[who][p], e)
             /\ StakeCall(who, p, info, staked, stakes)
             /\ CanReserve(balances, who, v) /\ balances' = Reserve(balances, who, v)
             /\ unbondingInfo' = unbondingInfo
<1> DEFINE c == era.current
           old == providerEraInfo[p][era.current]
           latest == StakeOf(who, p)
           info == Delegated(old, latest, v)
           staked == SatAdd(eraState[era.current].staked, v)
           vector == delegationInfo[who][p]
           stakes == Stake(vector, era.current, v)
<1>1. /\ TypeOK /\ old \in ProviderEraMetadata /\ v \in Nat /\ SupplyFits
      /\ ProviderEraInfoOrDefault(p, era.current) = old
      /\ eraState[era.current].staked \in Nat /\ c \in Nat
  BY InCall, StakingAssumption DEF Delegate
<1>2. latest \in Nat /\ latest + v <= MaxBalance
  <2>1. /\ latest \in Nat /\ BondOf(p, who) \in Nat
        /\ ChunkTotal(unbondingInfo[who]) \in Nat /\ balances[who].reserved \in Nat
        /\ BondOf(p, who) + latest + ChunkTotal(unbondingInfo[who]) <= balances[who].reserved
    BY HeldFits
  <2>2. /\ balances[who].free \in Nat
        /\ balances[who].free + balances[who].reserved <= MaxBalance
    BY <1>1, BalancesFit
  <2>3. v <= balances[who].free
    BY <2>2, <1>1 DEF Delegate, ReserveFunds, CanReserve
  <2> HIDE DEF latest
  <2> QED
    BY <2>1, <2>2, <2>3, <1>1, CurrencyAssumption
<1>3. /\ info \in ProviderEraMetadata
      /\ info.bond = old.bond /\ info.total = old.total + v
      /\ info.delegator_count = IF latest = 0 THEN old.delegator_count + 1
                                              ELSE old.delegator_count
  <2>1. old.total + v \in Nat /\ old.delegator_count + 1 \in Nat
    BY <1>1 DEF ProviderEraMetadata
  <2> HIDE DEF old, latest
  <2> QED
    BY <2>1, <1>1 DEF ProviderEraMetadata, Delegated
<1>4. staked \in Nat
  BY <1>1, ArithmeticType
<1>5. vector \in Seq(EraStake) /\ EntriesOrdered(vector, c) /\ latest = LatestStakedValue(vector)
  BY <1>1 DEF TypeOK, LedgerInv, IndInv, DelegationsWellFormed, StakeOf
<1>6. StakeCall(who, p, info, staked, stakes)
  BY <1>1 DEF Delegate, StakeCall, Delegated, StakeOf
<1>7. LatestStakedValue(stakes) >= MinDelegatorStake
  BY DEF Delegate
<1> HIDE DEF vector, c, latest, info, staked, old
<1>8. stakes \in Seq(EraStake) /\ EntriesOrdered(stakes, c)
  BY <1>1, <1>5, StakeProperties DEF c
<1>9. \A e \in Nat : StakedAt(stakes, e) = IF e >= c THEN latest + v ELSE StakedAt(vector, e)
  BY <1>1, <1>2, <1>5, StakedAtStake DEF c
<1>10. LatestStakedValue(stakes) = latest + v
  <2>1. StakedAt(stakes, c) = LatestStakedValue(stakes)
    BY <1>1, <1>8, StakedAtLatest
  <2>2. StakedAt(stakes, c) = latest + v
    BY <1>1, <1>9
  <2> QED
    BY <2>1, <2>2
<1>11. /\ InBlock /\ v > 0 /\ unbondingInfo' = unbondingInfo
       /\ CanReserve(balances, who, v) /\ balances' = Reserve(balances, who, v)
  BY DEF Delegate, ReserveFunds
<1> QED
  BY <1>1, <1>2, <1>3, <1>4, <1>6, <1>7, <1>8, <1>9, <1>10, <1>11
     DEF old, vector, c, latest, info, staked

LEMMA DelegateLedger ==
  ASSUME LedgerInv, TypeOK',
         NEW who \in Accounts, NEW p \in Providers, NEW v \in Amounts,
         Delegate(who, p, v)
  PROVE  Recorded' /\ ErasBegun' /\ SupplyFits' /\ ReservedHeld'
<1> DEFINE old == providerEraInfo[p][era.current]
           info == Delegated(old, StakeOf(who, p), v)
           staked == SatAdd(eraState[era.current].staked, v)
           stakes == Stake(delegationInfo[who][p], era.current, v)
<1>1. /\ InBlock /\ v \in Nat
      /\ old \in ProviderEraMetadata /\ info \in ProviderEraMetadata
      /\ info.bond = old.bond /\ staked \in Nat
      /\ stakes \in Seq(EraStake) /\ LatestStakedValue(stakes) = StakeOf(who, p) + v
      /\ StakeCall(who, p, info, staked, stakes)
      /\ CanReserve(balances, who, v) /\ balances' = Reserve(balances, who, v)
      /\ unbondingInfo' = unbondingInfo
  BY DelegateCall
<1>2. TypeOK /\ balances \in Ledgers /\ who \in Holders
  BY StateTypes DEF LedgerInv, IndInv, Holders
<1> HIDE DEF info, staked, stakes, old
<1>3. /\ \A a \in Accounts : balances'[a].reserved =
           IF a = who THEN balances[who].reserved + v ELSE balances[a].reserved
      /\ Supply(balances)' = Supply(balances)
  BY <1>1, <1>2, ReservedBalances, SupplySteps
<1>4. info.bond - old.bond = 0
  BY <1>1 DEF ProviderEraMetadata
<1>5. /\ balances[who].reserved \in Nat /\ StakeOf(who, p) \in Nat
      /\ ChunkTotal(unbondingInfo[who]) \in Nat
  BY HeldFits
<1>6. BooksMoved(who, p, info, stakes)
  BY <1>1, <1>3, <1>4, <1>5 DEF BooksMoved, old
<1> QED
  BY <1>1, <1>6, StakeCallLedger

LEMMA DelegatorUnstakeCall ==
  ASSUME LedgerInv, NEW who \in Accounts, NEW p \in Providers, NEW v \in Amounts,
         DelegatorUnstake(who, p, v)
  PROVE  LET old    == providerEraInfo[p][era.current]
             latest == StakeOf(who, p)
             amount == UnstakeAmount(latest, v)
             info   == Unstaked(old, latest, v)
             staked == SatSub(eraState[era.current].staked, amount)
             stakes == Unstake(delegationInfo[who][p], era.current, amount)
         IN  /\ InBlock /\ latest \in Nat /\ latest > 0
             /\ amount \in Nat /\ amount <= latest
             /\ UnstakesAll(latest, v) => amount = latest
             /\ ~UnstakesAll(latest, v) => latest - amount >= MinDelegatorStake
             /\ old \in ProviderEraMetadata /\ info \in ProviderEraMetadata
             /\ info.bond = old.bond /\ info.total = SatSub(old.total, amount)
             /\ info.delegator_count = IF UnstakesAll(latest, v)
                                       THEN SatSub(old.delegator_count, 1)
                                       ELSE old.delegator_count
             /\ staked \in Nat
             /\ stakes \in Seq(EraStake)
             /\ LatestStakedValue(stakes) = latest - amount
             /\ \A e \in Nat : StakedAt(stakes, e) =
                  IF e >= era.current THEN latest - amount
                                      ELSE StakedAt(delegationInfo[who][p], e)
             /\ StakeCall(who, p, info, staked, stakes)
             /\ StartUnbonding(who, amount) /\ balances' = balances
<1> DEFINE c == era.current
           old == providerEraInfo[p][era.current]
           latest == StakeOf(who, p)
           amount == UnstakeAmount(latest, v)
           all == UnstakesAll(latest, v)
           info == Unstaked(old, latest, v)
           staked == SatSub(eraState[era.current].staked, amount)
           vector == delegationInfo[who][p]
           stakes == Unstake(vector, era.current, amount)
<1>1. /\ TypeOK /\ old \in ProviderEraMetadata /\ v \in Nat
      /\ ProviderEraInfoOrDefault(p, era.current) = old
      /\ eraState[era.current].staked \in Nat /\ c \in Nat
      /\ MinDelegatorStake \in Nat /\ MinDelegatorStake > 0
  BY InCall, StakingAssumption, SMTT(30) DEF DelegatorUnstake
<1>2. latest \in Nat
  BY HeldFits
<1>3. InBlock /\ latest > 0 /\ StartUnbonding(who, amount) /\ balances' = balances
  BY DEF DelegatorUnstake, StakeOf
<1>4. /\ amount \in Nat /\ amount <= latest
      /\ all => amount = latest
      /\ ~all => latest - amount >= MinDelegatorStake
  <2> HIDE DEF latest
  <2> QED
    BY <1>1, <1>2 DEF UnstakeAmount, UnstakesAll, SatSub
<1>5. StakeCall(who, p, info, staked, stakes)
  BY <1>1 DEF DelegatorUnstake, StakeCall, Unstaked, StakeOf
<1>6. vector \in Seq(EraStake) /\ EntriesOrdered(vector, c) /\ latest = LatestStakedValue(vector)
  BY <1>1 DEF TypeOK, LedgerInv, IndInv, DelegationsWellFormed, StakeOf
<1>7. info = [old EXCEPT !.total = SatSub(@, amount),
                         !.delegator_count = IF all THEN SatSub(@, 1) ELSE @]
  BY DEF Unstaked
<1> HIDE DEF amount, all, info, latest
<1>8. /\ info \in ProviderEraMetadata
      /\ info.bond = old.bond /\ info.total = SatSub(old.total, amount)
      /\ info.delegator_count = IF all THEN SatSub(old.delegator_count, 1)
                                       ELSE old.delegator_count
  <2>1. SatSub(old.total, amount) \in Nat /\ SatSub(old.delegator_count, 1) \in Nat
    BY <1>1, <1>4, ArithmeticType DEF ProviderEraMetadata
  <2> HIDE DEF old
  <2> QED
    BY <2>1, <1>1, <1>7 DEF ProviderEraMetadata
<1>9. staked \in Nat
  BY <1>1, <1>4, ArithmeticType
<1> HIDE DEF vector, c, staked, old
<1>10. stakes \in Seq(EraStake) /\ EntriesOrdered(stakes, c)
  BY <1>1, <1>4, <1>6, UnstakeProperties DEF c
<1>11. \A e \in Nat : StakedAt(stakes, e) =
         IF e >= c THEN latest - amount ELSE StakedAt(vector, e)
  BY <1>1, <1>2, <1>4, <1>6, StakedAtUnstake DEF c
<1>12. LatestStakedValue(stakes) = latest - amount
  <2>1. StakedAt(stakes, c) = LatestStakedValue(stakes)
    BY <1>1, <1>10, StakedAtLatest
  <2>2. StakedAt(stakes, c) = latest - amount
    BY <1>1, <1>11
  <2> QED
    BY <2>1, <2>2
<1> QED
  BY <1>1, <1>2, <1>3, <1>4, <1>5, <1>8, <1>9, <1>10, <1>11, <1>12
     DEF old, vector, c, latest, info, staked, amount, all

LEMMA DelegatorUnstakeLedger ==
  ASSUME LedgerInv, TypeOK',
         NEW who \in Accounts, NEW p \in Providers, NEW v \in Amounts,
         DelegatorUnstake(who, p, v)
  PROVE  Recorded' /\ ErasBegun' /\ SupplyFits' /\ ReservedHeld'
<1> DEFINE old == providerEraInfo[p][era.current]
           latest == StakeOf(who, p)
           amount == UnstakeAmount(latest, v)
           info == Unstaked(old, latest, v)
           staked == SatSub(eraState[era.current].staked, amount)
           stakes == Unstake(delegationInfo[who][p], era.current, amount)
<1>1. /\ InBlock /\ amount \in Nat /\ amount <= latest
      /\ old \in ProviderEraMetadata /\ info \in ProviderEraMetadata
      /\ info.bond = old.bond /\ staked \in Nat
      /\ stakes \in Seq(EraStake) /\ LatestStakedValue(stakes) = latest - amount
      /\ StakeCall(who, p, info, staked, stakes)
      /\ StartUnbonding(who, amount) /\ balances' = balances
  BY DelegatorUnstakeCall
<1>2. TypeOK /\ SupplyFits /\ MaxBalance \in Nat
  BY CurrencyAssumption DEF LedgerInv, IndInv
<1> HIDE DEF info, staked, stakes, old, amount
<1>3. /\ balances[who].reserved \in Nat /\ latest \in Nat
      /\ BondOf(p, who) \in Nat
      /\ ChunkTotal(unbondingInfo[who]) \in Nat
      /\ BondOf(p, who) + latest + ChunkTotal(unbondingInfo[who]) <= balances[who].reserved
  BY HeldFits
<1>4. balances[who].free \in Nat /\ balances[who].free + balances[who].reserved <= MaxBalance
  BY <1>2, BalancesFit
<1>5. ChunkTotal(unbondingInfo[who]) + amount <= MaxBalance
  <2> HIDE DEF latest
  <2> QED
    BY <1>1, <1>2, <1>3, <1>4, SMTT(30)
<1>6. /\ \A a \in Accounts : a # who => unbondingInfo'[a] = unbondingInfo[a]
      /\ ChunkTotal(unbondingInfo'[who]) = ChunkTotal(unbondingInfo[who]) + amount
  BY <1>1, <1>5, UnbondingBooks
<1>7. info.bond - old.bond = 0
  BY <1>1 DEF ProviderEraMetadata
<1>8. BooksMoved(who, p, info, stakes)
  BY <1>1, <1>3, <1>6, <1>7 DEF BooksMoved, old
<1> QED
  BY <1>1, <1>8, StakeCallLedger

LEMMA WithdrawUnbondedLedger ==
  ASSUME LedgerInv, TypeOK', NEW who \in Accounts, WithdrawUnbonded(who)
  PROVE  Recorded' /\ ErasBegun' /\ SupplyFits' /\ ReservedHeld'
<1> DEFINE c == era.current
           chunks == unbondingInfo[who]
           future == FutureChunks(chunks, c)
           valid == ValidChunks(chunks, c)
           amount == ChunkSum(valid)
<1>1. /\ TypeOK /\ Recorded /\ ErasBegun /\ SupplyFits /\ ReservedHeld
      /\ c \in Nat /\ c + 1 \in Nat /\ c + UnbondingPeriod \in Nat
      /\ chunks \in Seq(UnlockingChunk) /\ balances \in Ledgers /\ who \in Holders
      /\ MaxBalance \in Nat
  BY InCall, StateTypes, StakingAssumption, CurrencyAssumption
     DEF WithdrawUnbonded, TypeOK, Holders
<1>2. /\ ChunksOrdered(chunks)
      /\ \A i \in DOMAIN chunks : chunks[i].unlock_era <= c + UnbondingPeriod
  BY DEF LedgerInv, IndInv, UnbondingWellFormed
<1> HIDE DEF c, chunks
<1>3. valid \in Seq(UnlockingChunk) /\ future \in Seq(UnlockingChunk)
  BY <1>1, <1>2, PartitionProperties
<1>4. ChunkTotal(chunks) = ChunkTotal(valid) + ChunkTotal(future)
  <2>1. SearchEra(chunks, c + 1) \in 1..(Len(chunks) + 1)
    BY <1>1, <1>2, SearchEraProperties
  <2> QED
    BY <2>1, <1>1, ChunkTotalSplit DEF ValidChunks, FutureChunks
<1>5. /\ balances' = Unreserve(balances, who, amount)
      /\ unbondingInfo' = [unbondingInfo EXCEPT ![who] = future]
      /\ UNCHANGED <<block, era, eraState, rewardAccumulator, providerInfo,
                     providerEraInfo, delegationInfo>>
  BY DEF WithdrawUnbonded, c, chunks
<1> HIDE DEF valid, future
<1>6. /\ ChunkTotal(chunks) \in Nat /\ balances[who].reserved \in Nat
      /\ ChunkTotal(chunks) <= balances[who].reserved
  <2>1. /\ HeldBond(who) \in Nat /\ HeldStake(who) \in Nat
        /\ ChunkTotal(unbondingInfo[who]) \in Nat
    BY <1>1, HeldSums, HeldType DEF HeldSummed, HeldTyped
  <2>2. balances[who].reserved = HeldBond(who) + HeldStake(who) + ChunkTotal(chunks)
    BY <1>1 DEF ReservedHeld, chunks
  <2> QED
    BY <2>1, <2>2 DEF chunks
<1>7. ChunkTotal(valid) \in Nat /\ ChunkTotal(future) \in Nat
  BY <1>3, ChunkTotalType
<1>8. balances[who].free \in Nat /\ balances[who].free + balances[who].reserved <= MaxBalance
  BY <1>1, BalancesFit
<1>9. amount = ChunkTotal(valid)
  <2>1. ChunkTotal(valid) <= MaxBalance
    BY <1>1, <1>4, <1>6, <1>7, <1>8
  <2> QED
    BY <2>1, <1>3, ChunkSumTotal
<1> HIDE DEF amount
<1>10. Recorded' /\ ErasBegun'
  BY <1>1, <1>5, FrameRecorded DEF InBlock
<1>11. SupplyFits'
  <2>1. Supply(balances)' = Supply(balances)
    BY <1>1, <1>5, <1>7, <1>9, SupplySteps
  <2> QED
    BY <2>1, <1>1, <1>5, SupplyFrame
<1>12. ReservedHeld'
  <2> SUFFICES ASSUME NEW a \in Accounts
               PROVE  balances'[a].reserved =
                        HeldBond(a)' + HeldStake(a)' + ChunkTotal(unbondingInfo'[a])
    BY DEF ReservedHeld
  <2>1. HeldBond(a)' = HeldBond(a) /\ HeldStake(a)' = HeldStake(a)
    BY <1>1, <1>5, BondFrame, StakeFrame, HeldStep
  <2>2. amount <= balances[who].reserved
    BY <1>4, <1>6, <1>7, <1>9
  <2>3. balances'[a].reserved =
          IF a = who THEN balances[who].reserved - amount ELSE balances[a].reserved
    BY <2>2, <1>1, <1>5, <1>7, <1>9, ReservedBalances
  <2>4. unbondingInfo'[a] = IF a = who THEN future ELSE unbondingInfo[a]
    BY <1>1, <1>5 DEF TypeOK
  <2>5. balances[a].reserved = HeldBond(a) + HeldStake(a) + ChunkTotal(unbondingInfo[a])
    BY <1>1 DEF ReservedHeld
  <2>6. HeldBond(a) \in Nat /\ HeldStake(a) \in Nat
    BY <1>1, HeldSums DEF HeldSummed
  <2>7. CASE a = who
    BY <2>1, <2>3, <2>4, <2>5, <2>6, <2>7, <1>4, <1>6, <1>7, <1>9 DEF chunks
  <2>8. CASE a # who
    BY <2>1, <2>3, <2>4, <2>5, <2>8
  <2> QED
    BY <2>7, <2>8
<1> QED
  BY <1>10, <1>11, <1>12

(* Paying the provider's part marks the record of a finished era.          *)
LEMMA ClaimProviderCall ==
  ASSUME LedgerInv, NEW p \in Providers, NEW e \in Eras, ClaimProvider(p, e)
  PROVE  LET old    == providerEraInfo[p][e]
             info   == [old EXCEPT !.provider_reward_claimed = TRUE]
             reward == ProviderPart(old, eraState[e])
         IN  /\ InBlock /\ IsRegistered(p) /\ providerInfo[p].owner \in Accounts
             /\ e < LatestEra(p) /\ e < era.current
             /\ old # None /\ old \in ProviderEraMetadata
             /\ info # None /\ info \in ProviderEraMetadata
             /\ info.bond = old.bond /\ info.total = old.total
             /\ info.delegator_count = old.delegator_count
             /\ reward \in Nat
             /\ providerEraInfo' = [providerEraInfo EXCEPT ![p][e] = info]
             /\ CanWithdraw(balances, Pot, reward)
             /\ balances' = Payout(providerInfo[p].owner, reward)
             /\ UNCHANGED <<block, era, eraState, rewardAccumulator, providerInfo,
                            delegationInfo, unbondingInfo>>
<1> DEFINE old == providerEraInfo[p][e]
           info == [old EXCEPT !.provider_reward_claimed = TRUE]
           reward == ProviderPart(old, eraState[e])
<1>1. /\ TypeOK /\ InBlock /\ IsRegistered(p) /\ providerInfo[p].owner \in Accounts
      /\ eraState[e] \in EraMetadata
  BY StateTypes, StakedType DEF LedgerInv, IndInv, ClaimProvider, EraClaimable
<1>2. e < LatestEra(p) /\ e < era.current
  BY DEF ClaimProvider, EraClaimable, LatestEra
<1>3. old # None
  <2>1. ProviderEraInfoOrDefault(p, e).total > 0
    BY DEF ClaimProvider
  <2>2. DefaultProviderEraMetadata.total = 0
    BY DEF DefaultProviderEraMetadata
  <2> QED
    BY <2>1, <2>2 DEF ProviderEraInfoOrDefault
<1>4. old \in ProviderEraMetadata /\ ProviderEraInfoOrDefault(p, e) = old
  BY <1>1, <1>3 DEF TypeOK, ProviderEraInfoOrDefault
<1>5. /\ info \in ProviderEraMetadata
      /\ info.bond = old.bond /\ info.total = old.total
      /\ info.delegator_count = old.delegator_count
  <2> HIDE DEF old
  <2> QED
    BY <1>4 DEF ProviderEraMetadata
<1>6. info # None
  BY <1>5, NoneAssumption
<1>7. reward \in Nat
  BY <1>1, <1>4, RewardType
<1>8. /\ providerEraInfo' = [providerEraInfo EXCEPT ![p][e] = info]
      /\ CanWithdraw(balances, Pot, reward)
      /\ balances' = Payout(providerInfo[p].owner, reward)
      /\ UNCHANGED <<block, era, eraState, rewardAccumulator, providerInfo,
                     delegationInfo, unbondingInfo>>
  BY <1>4 DEF ClaimProvider
<1> HIDE DEF info, reward, old
<1> QED
  BY <1>1, <1>2, <1>3, <1>4, <1>5, <1>6, <1>7, <1>8 DEF info, reward, old

LEMMA ClaimProviderLedger ==
  ASSUME LedgerInv, TypeOK', NEW p \in Providers, NEW e \in Eras, ClaimProvider(p, e)
  PROVE  Recorded' /\ ErasBegun' /\ SupplyFits' /\ ReservedHeld'
<1> DEFINE old == providerEraInfo[p][e]
           info == [old EXCEPT !.provider_reward_claimed = TRUE]
           reward == ProviderPart(old, eraState[e])
           owner == providerInfo[p].owner
<1>1. /\ IsRegistered(p) /\ owner \in Accounts /\ e < LatestEra(p)
      /\ info # None /\ reward \in Nat
      /\ providerEraInfo' = [providerEraInfo EXCEPT ![p][e] = info]
      /\ CanWithdraw(balances, Pot, reward) /\ balances' = Payout(owner, reward)
      /\ UNCHANGED <<block, era, eraState, rewardAccumulator, providerInfo,
                     delegationInfo, unbondingInfo>>
  BY ClaimProviderCall
<1>2. TypeOK /\ Recorded /\ ErasBegun /\ SupplyFits /\ ReservedHeld
  BY DEF LedgerInv, IndInv
<1> HIDE DEF info, reward, owner
<1>3. \A q \in Providers, f \in Eras :
        providerEraInfo'[q][f] = IF q = p /\ f = e THEN info ELSE providerEraInfo[q][f]
  BY <1>1, <1>2 DEF TypeOK
<1>4. /\ \A q \in Providers : IsRegistered(q)' <=> IsRegistered(q)
      /\ \A q \in Providers : IsActiveProvider(q)' <=> IsActiveProvider(q)
      /\ \A q \in Providers : IsUnregistered(q)' <=> IsUnregistered(q)
      /\ \A q \in Providers : LatestEra(q)' = LatestEra(q)
      /\ \A q \in Providers : IsRegistered(q) => LatestEra(q) \in Eras
      /\ LatestEra(p) # e
  <2>1. LatestEra(p) \in Eras /\ e \in Nat
    BY <1>1, <1>2, HeldType DEF HeldTyped, Eras
  <2>2. LatestEra(p) # e
    BY <2>1, <1>1 DEF Eras
  <2> QED
    BY <2>2, <1>1, <1>2, HeldType
       DEF IsRegistered, IsActiveProvider, IsUnregistered, LatestEra, HeldTyped
<1>5. Recorded'
  BY <1>1, <1>2, <1>3, <1>4 DEF Recorded
<1>6. ErasBegun'
  BY <1>1, <1>2, <1>4 DEF ErasBegun, InBlock
<1>7. SupplyFits'
  <2>1. Supply(balances)' <= Supply(balances)
    BY <1>1, <1>2, SupplyPayout
  <2> QED
    BY <2>1, <1>1, <1>2, SupplyNoMore
<1>8. ReservedHeld'
  <2>1. \A q \in Providers, a \in Accounts : BondOf(q, a)' = BondOf(q, a)
    <3>1. \A q \in Providers : IsRegistered(q) =>
            providerEraInfo'[q][LatestEra(q)] = providerEraInfo[q][LatestEra(q)]
      BY <1>3, <1>4
    <3>2. \A q \in Providers : BondHeld(q)' = BondHeld(q)
      BY <3>1, <1>1, <1>4 DEF BondHeld, ProviderEraInfoOrDefault
    <3> QED
      BY <3>2, <1>1, <1>4 DEF BondOf
  <2>2. \A q \in Providers, a \in Accounts : StakeOf(a, q)' = StakeOf(a, q)
    BY <1>1, StakeFrame
  <2>3. \A a \in Accounts : balances'[a].reserved = balances[a].reserved
    BY <1>1, <1>2, ReservedBalances
  <2> QED
    BY <2>1, <2>2, <2>3, <1>1, <1>2, ReservedFrame
<1> QED
  BY <1>5, <1>6, <1>7, <1>8

LEMMA ClaimDelegatorCall ==
  ASSUME LedgerInv, NEW who \in Accounts, NEW p \in Providers, ClaimDelegator(who, p)
  PROVE  LET vector == delegationInfo[who][p]
             e      == vector[1].era
             stakes == Claim(vector)
             reward == DelegatorReward(vector[1].amount,
                                       ProviderEraInfoOrDefault(p, e), eraState[e])
         IN  /\ InBlock /\ IsRegistered(p) /\ EraClaimable(p, e)
             /\ vector # <<>> /\ vector \in Seq(EraStake) /\ EntriesOrdered(vector, era.current)
             /\ e \in Eras /\ e < era.current
             /\ vector[1].amount \in Nat /\ vector[1].amount > 0
             /\ reward \in Nat
             /\ stakes \in Seq(EraStake)
             /\ LatestStakedValue(stakes) = StakeOf(who, p)
             /\ \A f \in Nat : StakedAt(stakes, f) =
                  IF f = e THEN 0 ELSE StakedAt(vector, f)
             /\ delegationInfo' = [delegationInfo EXCEPT ![who][p] = stakes]
             /\ CanWithdraw(balances, Pot, reward)
             /\ balances' = Payout(who, reward)
             /\ UNCHANGED <<block, era, eraState, rewardAccumulator, providerInfo,
                            providerEraInfo, unbondingInfo>>
<1> DEFINE c == era.current
           vector == delegationInfo[who][p]
           e == vector[1].era
           stakes == Claim(vector)
           reward == DelegatorReward(vector[1].amount,
                                     ProviderEraInfoOrDefault(p, e), eraState[e])
<1>1. /\ TypeOK /\ vector \in Seq(EraStake) /\ EntriesOrdered(vector, c)
      /\ c \in Eras /\ c \in Nat
  BY StateTypes DEF LedgerInv, IndInv, TypeOK, DelegationsWellFormed
<1>2. vector # <<>> /\ ClaimedStake(vector) = vector[1]
  <2>1. ClaimedStake(vector).amount > 0
    BY DEF ClaimDelegator
  <2> QED
    BY <2>1 DEF ClaimedStake, NewEraStake
<1>3. /\ InBlock /\ IsRegistered(p) /\ EraClaimable(p, e) /\ e < c /\ eraState[e] # None
      /\ vector[1].amount > 0
      /\ delegationInfo' = [delegationInfo EXCEPT ![who][p] = stakes]
      /\ CanWithdraw(balances, Pot, reward) /\ balances' = Payout(who, reward)
      /\ UNCHANGED <<block, era, eraState, rewardAccumulator, providerInfo,
                     providerEraInfo, unbondingInfo>>
  BY <1>1, <1>2 DEF ClaimDelegator, EraClaimable, TypeOK
<1>4. vector[1].amount \in Nat /\ e \in Nat /\ e \in Eras
  <2>1. vector[1].amount \in Nat /\ e \in Nat
    BY <1>1, <1>2, StakeFields
  <2>2. MaxEra \in Nat /\ c <= MaxEra
    BY <1>1, StakingAssumption DEF Eras
  <2> HIDE DEF c, e
  <2> QED
    BY <2>1, <2>2, <1>1, <1>3 DEF Eras
<1>5. reward \in Nat
  <2>1. ProviderEraInfoOrDefault(p, e) \in ProviderEraMetadata /\ eraState[e] \in EraMetadata
    BY <1>1, <1>3, <1>4, StorageDefaultType, StakedType
  <2> QED
    BY <2>1, <1>4, RewardType
<1> HIDE DEF c, vector, reward
<1>6. stakes \in Seq(EraStake) /\ EntriesOrdered(stakes, c)
  BY <1>1, <1>2, <1>3, ClaimProperties
<1>7. \A f \in Nat : StakedAt(stakes, f) = IF f = e THEN 0 ELSE StakedAt(vector, f)
  BY <1>1, <1>2, <1>3, StakedAtClaim
<1>8. LatestStakedValue(stakes) = LatestStakedValue(vector)
  <2>1. /\ StakedAt(stakes, c) = LatestStakedValue(stakes)
        /\ StakedAt(vector, c) = LatestStakedValue(vector)
    BY <1>1, <1>6, StakedAtLatest
  <2>2. c # e
    BY <1>1, <1>3, <1>4
  <2> QED
    BY <2>1, <2>2, <1>1, <1>7
<1> QED
  BY <1>1, <1>2, <1>3, <1>4, <1>5, <1>6, <1>7, <1>8 DEF c, vector, reward, StakeOf

LEMMA ClaimDelegatorLedger ==
  ASSUME LedgerInv, TypeOK', NEW who \in Accounts, NEW p \in Providers,
         ClaimDelegator(who, p)
  PROVE  Recorded' /\ ErasBegun' /\ SupplyFits' /\ ReservedHeld'
<1> DEFINE vector == delegationInfo[who][p]
           e == vector[1].era
           stakes == Claim(vector)
           reward == DelegatorReward(vector[1].amount,
                                     ProviderEraInfoOrDefault(p, e), eraState[e])
<1>1. /\ InBlock /\ IsRegistered(p) /\ reward \in Nat
      /\ LatestStakedValue(stakes) = StakeOf(who, p)
      /\ delegationInfo' = [delegationInfo EXCEPT ![who][p] = stakes]
      /\ CanWithdraw(balances, Pot, reward) /\ balances' = Payout(who, reward)
      /\ UNCHANGED <<block, era, eraState, rewardAccumulator, providerInfo,
                     providerEraInfo, unbondingInfo>>
  BY ClaimDelegatorCall
<1>2. TypeOK /\ Recorded /\ ErasBegun /\ SupplyFits /\ ReservedHeld
  BY DEF LedgerInv, IndInv
<1> HIDE DEF stakes, reward
<1>3. /\ \A q \in Providers, a \in Accounts :
           delegationInfo'[a][q] = IF a = who /\ q = p THEN stakes ELSE delegationInfo[a][q]
      /\ \A q \in Providers, a \in Accounts : StakeOf(a, q)' = StakeOf(a, q)
  BY <1>1, <1>2 DEF TypeOK, StakeOf
<1>4. Recorded' /\ ErasBegun'
  <2>1. \A q \in Providers : ~IsRegistered(q) =>
          \A a \in Accounts : delegationInfo'[a][q] = delegationInfo[a][q]
    BY <1>1, <1>3
  <2> QED
    BY <2>1, <1>1, <1>2, FrameRecorded DEF InBlock
<1>5. SupplyFits'
  <2>1. Supply(balances)' <= Supply(balances)
    BY <1>1, <1>2, SupplyPayout
  <2> QED
    BY <2>1, <1>1, <1>2, SupplyNoMore
<1>6. ReservedHeld'
  <2>1. \A a \in Accounts : balances'[a].reserved = balances[a].reserved
    BY <1>1, <1>2, ReservedBalances
  <2> QED
    BY <2>1, <1>1, <1>2, <1>3, BondFrame, ReservedFrame
<1> QED
  BY <1>4, <1>5, <1>6

LEMMA ProviderWithdrawUnregisteredLedger ==
  ASSUME LedgerInv, TypeOK', NEW p \in Providers, ProviderWithdrawUnregistered(p)
  PROVE  Recorded' /\ ErasBegun' /\ SupplyFits' /\ ReservedHeld'
<1> DEFINE bond == ProviderEraInfoOrDefault(p, providerInfo[p].status).bond
<1>1. /\ TypeOK /\ Recorded /\ ErasBegun /\ SupplyFits /\ ReservedHeld
      /\ balances \in Ledgers
  BY StateTypes DEF LedgerInv, IndInv
<1>2. PICK owner \in Accounts : owner = providerInfo[p].owner
  BY <1>1, StateTypes DEF ProviderWithdrawUnregistered, UnregisteredUnbonded, IsUnregistered
<1>3. /\ IsUnregistered(p) /\ IsRegistered(p) /\ providerInfo[p].status # Active
      /\ providerInfo[p] \in ProviderMetadata
      /\ owner \in Accounts /\ owner \in Holders /\ LatestEra(p) = providerInfo[p].status
      /\ ~providerInfo[p].bond_withdrawn
  BY <1>1, <1>2, StateTypes
     DEF ProviderWithdrawUnregistered, UnregisteredUnbonded, IsUnregistered, LatestEra, Holders
<1>4. /\ balances' = Unreserve(balances, owner, bond)
      /\ providerInfo' = [providerInfo EXCEPT ![p].bond_withdrawn = TRUE]
      /\ UNCHANGED <<block, era, eraState, rewardAccumulator,
                     providerEraInfo, delegationInfo, unbondingInfo>>
  BY <1>2 DEF ProviderWithdrawUnregistered
<1>5. BondOf(p, owner) = bond /\ bond \in Nat
  <2>1. BondOf(p, owner) = bond
    BY <1>3, <1>2 DEF BondOf, BondHeld
  <2>2. BondOf(p, owner) \in Nat
    BY <1>1, <1>3, HeldType DEF HeldTyped
  <2> QED
    BY <2>1, <2>2
<1> HIDE DEF bond
<1>6. /\ providerInfo'[p] = [providerInfo[p] EXCEPT !.bond_withdrawn = TRUE]
      /\ \A q \in Providers : q # p => providerInfo'[q] = providerInfo[q]
  BY <1>1, <1>4 DEF TypeOK
<1>7. /\ providerInfo'[p] # None /\ providerInfo'[p].status = providerInfo[p].status
      /\ providerInfo'[p].owner = owner /\ providerInfo'[p].bond_withdrawn
  <2>1. providerInfo'[p] \in ProviderMetadata
    BY <1>3, <1>6 DEF ProviderMetadata
  <2> QED
    BY <2>1, <1>3, <1>6, <1>2, NoneAssumption DEF ProviderMetadata
<1>8. /\ \A q \in Providers : IsRegistered(q)' <=> IsRegistered(q)
      /\ \A q \in Providers : IsActiveProvider(q)' <=> IsActiveProvider(q)
      /\ \A q \in Providers : IsUnregistered(q)' <=> IsUnregistered(q)
      /\ \A q \in Providers : LatestEra(q)' = LatestEra(q)
      /\ \A q \in Providers : providerInfo'[q].status = providerInfo[q].status
      /\ ~IsActiveProvider(p)
  BY <1>3, <1>4, <1>6, <1>7
     DEF IsRegistered, IsActiveProvider, IsUnregistered, LatestEra
<1>9. Recorded'
  BY <1>1, <1>4, <1>6, <1>8 DEF Recorded
<1>10. ErasBegun'
  BY <1>1, <1>4, <1>8 DEF ErasBegun, InBlock
<1>11. SupplyFits'
  <2>1. Supply(balances)' = Supply(balances)
    BY <1>1, <1>3, <1>4, <1>5, SupplySteps
  <2> QED
    BY <2>1, <1>1, <1>4, SupplyFrame
<1>12. ReservedHeld'
  <2>1. /\ balances[owner].reserved \in Nat /\ bond <= balances[owner].reserved
        /\ StakeOf(owner, p) \in Nat /\ ChunkTotal(unbondingInfo[owner]) \in Nat
    <3>1. /\ BondOf(p, owner) \in Nat /\ StakeOf(owner, p) \in Nat
          /\ ChunkTotal(unbondingInfo[owner]) \in Nat
          /\ balances[owner].reserved \in Nat
          /\ BondOf(p, owner) + StakeOf(owner, p) + ChunkTotal(unbondingInfo[owner])
               <= balances[owner].reserved
      BY <1>3, HeldFits
    <3> QED
      BY <3>1, <1>5
  <2>2. \A a \in Accounts : balances'[a].reserved =
          IF a = owner THEN balances[owner].reserved - bond ELSE balances[a].reserved
    BY <2>1, <1>1, <1>3, <1>4, <1>5, ReservedBalances
  <2>3. \A q \in Providers : BondHeld(q)' = IF q = p THEN 0 ELSE BondHeld(q)
    BY <1>4, <1>6, <1>7, <1>8 DEF BondHeld, ProviderEraInfoOrDefault
  <2>4. \A q \in Providers, a \in Accounts :
          BondOf(q, a)' = IF q = p /\ a = owner THEN 0 ELSE BondOf(q, a)
    <3> SUFFICES ASSUME NEW q \in Providers, NEW a \in Accounts
                 PROVE  BondOf(q, a)' = IF q = p /\ a = owner THEN 0 ELSE BondOf(q, a)
      OBVIOUS
    <3>1. CASE q = p
      BY <3>1, <2>3, <1>3, <1>7, <1>8, <1>2 DEF BondOf
    <3>2. CASE q # p
      BY <3>2, <2>3, <1>6, <1>8 DEF BondOf
    <3> QED
      BY <3>1, <3>2
  <2>5. \A q \in Providers, a \in Accounts : StakeOf(a, q)' = StakeOf(a, q)
    BY <1>4, StakeFrame
  <2>6. balances'[owner].reserved = balances[owner].reserved
           - BondOf(p, owner) + BondOf(p, owner)'
           - StakeOf(owner, p) + StakeOf(owner, p)'
           - ChunkTotal(unbondingInfo[owner]) + ChunkTotal(unbondingInfo'[owner])
    <3>1. BondOf(p, owner)' = 0 /\ StakeOf(owner, p)' = StakeOf(owner, p)
      BY <2>4, <2>5, <1>3
    <3>2. balances'[owner].reserved = balances[owner].reserved - bond
      BY <2>2, <1>3
    <3> QED
      BY <2>1, <3>1, <3>2, <1>4, <1>5
  <2> QED
    BY <2>2, <2>4, <2>5, <2>6, <1>1, <1>3, <1>4, ReservedStep
<1> QED
  BY <1>9, <1>10, <1>11, <1>12

LEMMA DelegatorWithdrawUnregisteredLedger ==
  ASSUME LedgerInv, TypeOK', NEW who \in Accounts, NEW p \in Providers,
         DelegatorWithdrawUnregistered(who, p)
  PROVE  Recorded' /\ ErasBegun' /\ SupplyFits' /\ ReservedHeld'
<1> DEFINE staked == StakeOf(who, p)
<1>1. /\ TypeOK /\ Recorded /\ ErasBegun /\ SupplyFits /\ ReservedHeld
      /\ balances \in Ledgers /\ who \in Holders
  BY StateTypes DEF LedgerInv, IndInv, Holders
<1>2. /\ IsRegistered(p)
      /\ balances' = Unreserve(balances, who, staked)
      /\ delegationInfo' = [delegationInfo EXCEPT ![who][p] = <<>>]
      /\ UNCHANGED <<block, era, eraState, rewardAccumulator, providerInfo,
                     providerEraInfo, unbondingInfo>>
  BY DEF DelegatorWithdrawUnregistered, UnregisteredUnbonded, IsUnregistered, StakeOf
<1>3. /\ BondOf(p, who) \in Nat /\ staked \in Nat
      /\ ChunkTotal(unbondingInfo[who]) \in Nat /\ balances[who].reserved \in Nat
      /\ BondOf(p, who) + staked + ChunkTotal(unbondingInfo[who]) <= balances[who].reserved
  BY HeldFits
<1>4. /\ \A q \in Providers, a \in Accounts :
           delegationInfo'[a][q] = IF a = who /\ q = p THEN <<>> ELSE delegationInfo[a][q]
      /\ \A q \in Providers, a \in Accounts :
           StakeOf(a, q)' = IF a = who /\ q = p THEN 0 ELSE StakeOf(a, q)
  <2>1. \A q \in Providers, a \in Accounts :
           delegationInfo'[a][q] = IF a = who /\ q = p THEN <<>> ELSE delegationInfo[a][q]
    BY <1>1, <1>2 DEF TypeOK
  <2>2. LatestStakedValue(<<>>) = 0
    BY DEF LatestStakedValue
  <2> QED
    BY <2>1, <2>2 DEF StakeOf
<1> HIDE DEF staked
<1>5. Recorded' /\ ErasBegun'
  <2>1. \A q \in Providers : ~IsRegistered(q) =>
          \A a \in Accounts : delegationInfo'[a][q] = delegationInfo[a][q]
    BY <1>2, <1>4
  <2> QED
    BY <2>1, <1>1, <1>2, FrameRecorded DEF InBlock
<1>6. SupplyFits'
  <2>1. Supply(balances)' = Supply(balances)
    BY <1>1, <1>2, <1>3, SupplySteps
  <2> QED
    BY <2>1, <1>1, <1>2, SupplyFrame
<1>7. ReservedHeld'
  <2>1. staked <= balances[who].reserved
    BY <1>3
  <2>2. \A a \in Accounts : balances'[a].reserved =
          IF a = who THEN balances[who].reserved - staked ELSE balances[a].reserved
    BY <2>1, <1>1, <1>2, <1>3, ReservedBalances
  <2>3. \A q \in Providers, a \in Accounts : BondOf(q, a)' = BondOf(q, a)
    BY <1>2, BondFrame
  <2>4. balances'[who].reserved = balances[who].reserved
           - BondOf(p, who) + BondOf(p, who)'
           - StakeOf(who, p) + StakeOf(who, p)'
           - ChunkTotal(unbondingInfo[who]) + ChunkTotal(unbondingInfo'[who])
    <3>1. BondOf(p, who)' = BondOf(p, who) /\ StakeOf(who, p)' = 0 /\ StakeOf(who, p) = staked
      BY <2>3, <1>4 DEF staked
    <3>2. balances'[who].reserved = balances[who].reserved - staked
      BY <2>2
    <3> QED
      BY <3>1, <3>2, <1>2, <1>3
  <2> QED
    BY <2>2, <2>3, <2>4, <1>1, <1>2, <1>4, ReservedStep
<1> QED
  BY <1>5, <1>6, <1>7

LEMMA UnregisterProviderLedger ==
  ASSUME LedgerInv, TypeOK', NEW p \in Providers, UnregisterProvider(p)
  PROVE  Recorded' /\ ErasBegun' /\ SupplyFits' /\ ReservedHeld'
<1> DEFINE c == era.current
           info == providerEraInfo[p][c]
           staked == SatSub(eraState[c].staked, info.total)
<1>1. /\ TypeOK /\ Recorded /\ ErasBegun /\ SupplyFits /\ ReservedHeld
      /\ c \in Eras /\ c \in Nat /\ c > 0 /\ eraState[c] # None
      /\ eraState[c] \in EraMetadata /\ eraState[c].staked \in Nat /\ eraState[c].rewards = 0
      /\ IsActiveProvider(p) /\ info \in ProviderEraMetadata
      /\ ProviderEraInfoOrDefault(p, c) = info
  BY InCall DEF UnregisterProvider
<1>2. /\ providerInfo' = [providerInfo EXCEPT ![p].status = c]
      /\ eraState' = UpdateStaked(c, staked)
      /\ UNCHANGED <<block, era, rewardAccumulator, providerEraInfo,
                     delegationInfo, unbondingInfo, balances>>
  BY <1>1 DEF UnregisterProvider
<1>3. staked \in Nat
  BY <1>1, ArithmeticType DEF ProviderEraMetadata
<1> HIDE DEF staked, info
<1>4. /\ IsRegistered(p) /\ providerInfo[p] \in ProviderMetadata /\ LatestEra(p) = c
      /\ c # Active /\ providerInfo[p].status = Active
  BY <1>1, StateTypes, StakingAssumption DEF IsActiveProvider, LatestEra
<1>5. /\ providerInfo'[p] = [providerInfo[p] EXCEPT !.status = c]
      /\ \A q \in Providers : q # p => providerInfo'[q] = providerInfo[q]
  BY <1>1, <1>2 DEF TypeOK
<1>6. /\ providerInfo'[p] # None /\ providerInfo'[p].status = c
      /\ providerInfo'[p].owner = providerInfo[p].owner
      /\ providerInfo'[p].bond_withdrawn = providerInfo[p].bond_withdrawn
  <2>1. providerInfo'[p] \in ProviderMetadata
    BY <1>1, <1>4, <1>5 DEF ProviderMetadata
  <2> QED
    BY <2>1, <1>4, <1>5, NoneAssumption DEF ProviderMetadata
<1>7. /\ \A q \in Providers : IsRegistered(q)' <=> IsRegistered(q)
      /\ \A q \in Providers : q # p => (IsActiveProvider(q)' <=> IsActiveProvider(q))
      /\ \A q \in Providers : q # p => (IsUnregistered(q)' <=> IsUnregistered(q))
      /\ \A q \in Providers : LatestEra(q)' = LatestEra(q)
      /\ ~IsActiveProvider(p)'
  <2> HIDE DEF c
  <2>1. ~IsActiveProvider(p)' /\ LatestEra(p)' = c
    BY <1>4, <1>6 DEF IsActiveProvider, LatestEra
  <2> QED
    BY <2>1, <1>2, <1>4, <1>5, <1>6 DEF IsRegistered, IsActiveProvider, IsUnregistered, LatestEra
<1>8. Recorded'
  <2> SUFFICES ASSUME NEW q \in Providers
               PROVE  /\ IsRegistered(q)' => providerEraInfo'[q][LatestEra(q)'] # None
                      /\ IsActiveProvider(q)' => ~providerInfo'[q].bond_withdrawn
                      /\ IsUnregistered(q)' => providerInfo'[q].status <= era'.current
                      /\ ~IsRegistered(q)' =>
                           /\ \A e \in Eras : providerEraInfo'[q][e] = None
                           /\ \A a \in Accounts : delegationInfo'[a][q] = <<>>
    BY DEF Recorded
  <2>1. CASE q = p
    BY <2>1, <1>1, <1>2, <1>4, <1>6, <1>7 DEF Recorded
  <2>2. CASE q # p
    BY <2>2, <1>1, <1>2, <1>5, <1>7 DEF Recorded
  <2> QED
    BY <2>1, <2>2
<1>9. ErasBegun'
  <2> DEFINE new == [eraState[c] EXCEPT !.staked = staked]
  <2>1. new \in EraMetadata /\ new.rewards = 0
    BY <1>1, <1>3 DEF EraMetadata
  <2>2. eraState' = [eraState EXCEPT ![c] = new] /\ new # None
    BY <2>1, <1>1, <1>2, NoneAssumption DEF UpdateStaked
  <2> HIDE DEF new
  <2>3. \A e \in Eras : eraState'[e] = IF e = c THEN new ELSE eraState[e]
    BY <2>2, <1>1 DEF TypeOK
  <2> QED
    BY <2>1, <2>2, <2>3, <1>1, <1>2, <1>7 DEF ErasBegun, InBlock
<1>10. SupplyFits'
  BY <1>1, <1>2, SupplyFrame
<1>11. ReservedHeld'
  <2>1. \A q \in Providers : BondHeld(q)' = BondHeld(q)
    BY <1>2, <1>5, <1>6, <1>7 DEF BondHeld, ProviderEraInfoOrDefault
  <2>2. \A q \in Providers, a \in Accounts : BondOf(q, a)' = BondOf(q, a)
    BY <2>1, <1>5, <1>6, <1>7 DEF BondOf
  <2> QED
    BY <2>2, <1>1, <1>2, StakeFrame, ReservedFrame
<1> QED
  BY <1>8, <1>9, <1>10, <1>11

LEMMA HandleImbalanceLedger ==
  ASSUME LedgerInv, TypeOK', NEW v \in Nat, HandleImbalance(v),
         Supply(balances) + v <= MaxBalance
  PROVE  Recorded' /\ ErasBegun' /\ SupplyFits' /\ ReservedHeld'
<1>1. /\ TypeOK /\ Recorded /\ ErasBegun /\ SupplyFits /\ ReservedHeld
      /\ balances \in Ledgers /\ Pot \in Holders /\ MaxBalance \in Nat
  BY StateTypes, CurrencyAssumption DEF LedgerInv, IndInv, Holders
<1>2. /\ balances' = DepositCreating(balances, Pot, v)
      /\ UNCHANGED <<block, era, eraState, providerInfo, providerEraInfo,
                     delegationInfo, unbondingInfo>>
  BY DEF HandleImbalance
<1>3. Recorded' /\ ErasBegun'
  BY <1>1, <1>2, FrameRecorded DEF InBlock
<1>4. SupplyFits'
  <2>1. Supply(balances)' <= Supply(balances) + v
    BY <1>1, <1>2, SupplySteps
  <2>2. Supply(balances) \in Nat
    BY <1>1, SupplyType
  <2>3. Supply(balances)' \in Nat
    <3>1. balances' \in Ledgers
      BY DEF TypeOK, Ledgers
    <3> QED
      BY <3>1, SupplyType
  <2> QED
    BY <2>1, <2>2, <2>3, <1>1 DEF SupplyFits
<1>5. ReservedHeld'
  <2>1. \A a \in Accounts : balances'[a] = balances[a]
    <3>1. \A a \in Accounts : a \in Holders /\ a # Pot
      BY StakingAssumption DEF Holders
    <3> QED
      BY <3>1, <1>1, <1>2 DEF DepositCreating, Ledgers
  <2> QED
    BY <2>1, <1>1, <1>2, BondFrame, StakeFrame, ReservedFrame
<1> QED
  BY <1>3, <1>4, <1>5

----------------------------------------------------------------------------
(* Tokens                                                                  *)

(* What one withdrawal or one deposit can lose.                            *)
Dust == 0..SatSub(ExistentialDeposit, 1)

LEMMA DustType ==
  /\ SatSub(ExistentialDeposit, 1) \in Nat
  /\ 0 \in Dust
  /\ \A d \in Nat : d < ExistentialDeposit => d \in Dust
  /\ \A d \in Dust : d \in Nat
BY CurrencyAssumption DEF Dust, SatSub

(* An account is removed with less than an existential deposit, and only   *)
(* less than that cannot create one.                                       *)
LEMMA SupplyDust ==
  ASSUME NEW ledger \in Ledgers, NEW who \in Holders, NEW amount \in Nat
  PROVE  /\ CanWithdraw(ledger, who, amount) =>
              LET new == WithdrawAllowDeath(ledger, who, amount)
              IN  \E d \in Dust : /\ Supply(new) = Supply(ledger) - amount - d
                                  /\ d > 0 => new[who] = EmptyAccount
         /\ LET new == DepositCreating(ledger, who, amount)
            IN  \E d \in Dust : /\ Supply(new) = Supply(ledger) + amount - d
                                /\ d > 0 => new[who] = EmptyAccount /\ new = ledger
<1> DEFINE free == ledger[who].free
           res == ledger[who].reserved
           S == Supply(ledger)
<1>1. /\ free \in Nat /\ res \in Nat /\ S \in Nat /\ ExistentialDeposit \in Nat
      /\ ledger[who] = [free |-> free, reserved |-> res]
  BY SupplyType, CurrencyAssumption DEF Ledgers, Account
<1>2. \A f, r \in Nat : Supply([ledger EXCEPT ![who] = [free |-> f, reserved |-> r]]) =
                          S - (free + res) + (f + r)
  BY SupplyChange
<1>3. \A x : [ledger EXCEPT ![who] = x][who] = x
  BY DEF Ledgers
<1> HIDE DEF S
<1>4. ASSUME CanWithdraw(ledger, who, amount)
      PROVE  \E d \in Dust :
               /\ Supply(WithdrawAllowDeath(ledger, who, amount)) = S - amount - d
               /\ d > 0 => WithdrawAllowDeath(ledger, who, amount)[who] = EmptyAccount
  <2> DEFINE left == free - amount + res
             new == WithdrawAllowDeath(ledger, who, amount)
  <2>1. left \in Nat /\ free - amount \in Nat
    BY <1>1, <1>4 DEF CanWithdraw
  <2>2. CASE amount = 0
    <3>1. new = ledger
      BY <2>2 DEF WithdrawAllowDeath
    <3>2. Supply(new) = S - amount - 0
      BY <3>1, <2>2, <1>1 DEF S
    <3> QED
      BY <3>2, DustType
  <2>3. CASE amount > 0 /\ left < ExistentialDeposit
    <3>1. new = [ledger EXCEPT ![who] = EmptyAccount]
      <4>1. amount # 0 /\ ~(left >= ExistentialDeposit)
        <5> HIDE DEF left
        <5> QED
          BY <2>1, <2>3, <1>1
      <4> QED
        BY <2>3, <4>1 DEF WithdrawAllowDeath
    <3>2. Supply(new) = S - (free + res) + (0 + 0) /\ new[who] = EmptyAccount
      BY <3>1, <1>2, <1>3 DEF EmptyAccount
    <3>3. left \in Dust
      <4> HIDE DEF left
      <4> QED
        BY <2>1, <2>3, DustType
    <3>4. Supply(new) = S - amount - left
      <4> HIDE DEF new, free, res
      <4> QED
        BY <3>2, <2>1, <1>1 DEF left
    <3> HIDE DEF new, left
    <3> QED
      BY <3>2, <3>3, <3>4 DEF new
  <2>4. CASE amount > 0 /\ left >= ExistentialDeposit
    <3>1. new = [ledger EXCEPT ![who] = [free |-> free - amount, reserved |-> res]]
      BY <2>4 DEF WithdrawAllowDeath
    <3>2. Supply(new) = S - (free + res) + ((free - amount) + res)
      BY <3>1, <2>1, <1>1, <1>2
    <3>3. Supply(new) = S - amount - 0
      <4> HIDE DEF new, free, res
      <4> QED
        BY <3>2, <2>1, <1>1
    <3> HIDE DEF new
    <3> QED
      BY <3>3, DustType DEF new
  <2>5. amount = 0 \/ (amount > 0 /\ left < ExistentialDeposit)
                   \/ (amount > 0 /\ left >= ExistentialDeposit)
    <3> HIDE DEF left
    <3> QED
      BY <2>1, <1>1
  <2> QED
    BY <2>2, <2>3, <2>4, <2>5
<1>5. \E d \in Dust :
        /\ Supply(DepositCreating(ledger, who, amount)) = S + amount - d
        /\ d > 0 => /\ DepositCreating(ledger, who, amount)[who] = EmptyAccount
                    /\ DepositCreating(ledger, who, amount) = ledger
  <2> DEFINE new == DepositCreating(ledger, who, amount)
             dropped == ledger[who] = EmptyAccount /\ amount < ExistentialDeposit
  <2>1. CASE dropped
    <3>1. new = ledger /\ amount < ExistentialDeposit /\ ledger[who] = EmptyAccount
      BY <2>1 DEF DepositCreating
    <3>2. Supply(new) = S + amount - amount
      BY <3>1, <1>1 DEF S
    <3> HIDE DEF new
    <3> QED
      BY <3>1, <3>2, DustType DEF new
  <2>2. CASE ~dropped
    <3>1. new = [ledger EXCEPT ![who] = [free |-> free + amount, reserved |-> res]]
      BY <2>2 DEF DepositCreating
    <3>2. free + amount \in Nat
      BY <1>1
    <3>3. Supply(new) = S - (free + res) + ((free + amount) + res)
      BY <3>1, <3>2, <1>1, <1>2
    <3>4. Supply(new) = S + amount - 0
      <4> HIDE DEF new, free, res
      <4> QED
        BY <3>3, <1>1
    <3> HIDE DEF new
    <3> QED
      BY <3>4, DustType DEF new
  <2> QED
    BY <2>1, <2>2
<1> QED
  BY <1>4, <1>5 DEF S

(* What a step of the staking pallet can do with tokens.                   *)
Moved(ledger) ==
  \/ ledger = balances
  \/ \E who \in Accounts, v \in Nat :
       \/ CanReserve(balances, who, v) /\ ledger = Reserve(balances, who, v)
       \/ ledger = Unreserve(balances, who, v)
       \/ CanWithdraw(balances, Pot, v) /\ ledger = Payout(who, v)

(* A payment can lose what is left in the pallet's account and, if the     *)
(* receiver does not exist, the payment.                                   *)
LEMMA MovedParts ==
  ASSUME TypeOK, NEW ledger, Moved(ledger)
  PROVE  \E dust, dropped \in Dust :
           /\ Supply(ledger) = Supply(balances) - (dust + dropped)
           /\ dust > 0 => ledger[Pot] = EmptyAccount
           /\ dropped > 0 => \E a \in Accounts :
                               EmptyAccount = balances[a] /\ EmptyAccount = ledger[a]
<1>1. balances \in Ledgers /\ Supply(balances) \in Nat
  BY StateTypes, SupplyType
<1>2. 0 \in Dust /\ ~(0 > 0) /\ Supply(balances) = Supply(balances) - (0 + 0)
  BY <1>1, DustType
<1>3. ASSUME Supply(ledger) = Supply(balances)
      PROVE  \E dust, dropped \in Dust :
               /\ Supply(ledger) = Supply(balances) - (dust + dropped)
               /\ dust > 0 => ledger[Pot] = EmptyAccount
               /\ dropped > 0 => \E a \in Accounts :
                                   EmptyAccount = balances[a] /\ EmptyAccount = ledger[a]
  BY <1>2, <1>3
<1>4. ASSUME NEW who \in Accounts, NEW v \in Nat,
             \/ CanReserve(balances, who, v) /\ ledger = Reserve(balances, who, v)
             \/ ledger = Unreserve(balances, who, v)
      PROVE  Supply(ledger) = Supply(balances)
  <2>1. who \in Holders
    BY DEF Holders
  <2> QED
    BY <1>1, <1>4, <2>1, SupplySteps
<1>5. ASSUME NEW who \in Accounts, NEW v \in Nat, CanWithdraw(balances, Pot, v),
             ledger = Payout(who, v)
      PROVE  \E dust, dropped \in Dust :
               /\ Supply(ledger) = Supply(balances) - (dust + dropped)
               /\ dust > 0 => ledger[Pot] = EmptyAccount
               /\ dropped > 0 => \E a \in Accounts :
                                   EmptyAccount = balances[a] /\ EmptyAccount = ledger[a]
  <2>1. Pot \in Holders /\ who \in Holders /\ who # Pot
    BY StakingAssumption DEF Holders
  <2>2. PICK mid : mid = WithdrawAllowDeath(balances, Pot, v)
    OBVIOUS
  <2>3. mid \in Ledgers
    BY <1>1, <1>5, <2>1, <2>2, LedgerType
  <2>4. PICK dust \in Dust : /\ Supply(mid) = Supply(balances) - v - dust
                             /\ dust > 0 => mid[Pot] = EmptyAccount
    BY <1>1, <1>5, <2>1, <2>2, SupplyDust
  <2>5. ledger = DepositCreating(mid, who, v)
    BY <1>5, <2>2 DEF Payout
  <2>6. PICK dropped \in Dust :
          /\ Supply(ledger) = Supply(mid) + v - dropped
          /\ dropped > 0 => ledger[who] = EmptyAccount /\ ledger = mid
    BY <2>1, <2>3, <2>5, SupplyDust
  <2>7. ledger[Pot] = mid[Pot]
    BY <2>1, <2>3, <2>5 DEF DepositCreating, Ledgers
  <2>8. mid[who] = balances[who]
    <3>1. \A x : [balances EXCEPT ![Pot] = x][who] = balances[who]
      BY <1>1, <2>1 DEF Ledgers
    <3>2. \/ mid = balances
          \/ \E x : mid = [balances EXCEPT ![Pot] = x]
      <4> DEFINE left == balances[Pot].free - v + balances[Pot].reserved
      <4>1. left \in Int /\ ExistentialDeposit \in Nat
        BY <1>1, <2>1, CurrencyAssumption DEF Ledgers, Account
      <4>2. CASE v = 0
        BY <2>2, <4>2 DEF WithdrawAllowDeath
      <4>3. CASE v > 0 /\ left < ExistentialDeposit
        <5>1. v # 0 /\ ~(left >= ExistentialDeposit)
          <6> HIDE DEF left
          <6> QED
            BY <4>1, <4>3
        <5>2. mid = [balances EXCEPT ![Pot] = EmptyAccount]
          BY <2>2, <4>3, <5>1 DEF WithdrawAllowDeath
        <5> QED
          BY <5>2
      <4>4. CASE v > 0 /\ left >= ExistentialDeposit
        <5>1. mid = [balances EXCEPT ![Pot] = [free     |-> balances[Pot].free - v,
                                               reserved |-> balances[Pot].reserved]]
          BY <2>2, <4>4 DEF WithdrawAllowDeath
        <5> QED
          BY <5>1
      <4>5. v = 0 \/ (v > 0 /\ left < ExistentialDeposit) \/ (v > 0 /\ left >= ExistentialDeposit)
        <5> HIDE DEF left
        <5> QED
          BY <4>1
      <4> QED
        BY <4>2, <4>3, <4>4, <4>5
    <3> QED
      BY <3>1, <3>2
  <2>9. dust \in Nat /\ dropped \in Nat /\ Supply(mid) \in Nat
    BY <2>3, DustType, SupplyType
  <2>10. Supply(ledger) = Supply(balances) - (dust + dropped)
    BY <1>1, <2>4, <2>6, <2>9
  <2> QED
    BY <2>4, <2>6, <2>7, <2>8, <2>10
<1> QED
  BY <1>3, <1>4, <1>5 DEF Moved

LEMMA MovedDust ==
  ASSUME TypeOK, NEW ledger, Moved(ledger)
  PROVE  \E d \in 0..(2 * SatSub(ExistentialDeposit, 1)) :
           /\ Supply(ledger) = Supply(balances) - d
           /\ d > 0 => EmptyAccount \in {ledger[h] : h \in Holders}
<1>1. PICK dust, dropped \in Dust :
        /\ Supply(ledger) = Supply(balances) - (dust + dropped)
        /\ dust > 0 => ledger[Pot] = EmptyAccount
        /\ dropped > 0 => \E a \in Accounts :
                            EmptyAccount = balances[a] /\ EmptyAccount = ledger[a]
  BY MovedParts
<1>2. dust + dropped \in 0..(2 * SatSub(ExistentialDeposit, 1)) /\ dust \in Nat /\ dropped \in Nat
  BY DustType DEF Dust
<1>3. dust + dropped > 0 => dust > 0 \/ dropped > 0
  BY <1>2
<1>4. Pot \in Holders /\ \A a \in Accounts : a \in Holders
  BY DEF Holders
<1> QED
  BY <1>1, <1>2, <1>3, <1>4

(* A call of an account, of root or of another pallet.                     *)
PalletCall ==
  \/ \E new \in EraLengths : SetBlocksPerEra(new)
  \/ \E a \in Accounts, p \in Providers, v \in Amounts :
       \/ RegisterProvider(a, p, v)
       \/ ProviderBondMore(a, p, v)
       \/ ProviderBondLess(a, p, v)
       \/ Delegate(a, p, v)
       \/ DelegatorUnstake(a, p, v)
  \/ \E a \in Accounts : WithdrawUnbonded(a)
  \/ \E p \in Providers, e \in Eras : ClaimProvider(p, e)
  \/ \E a \in Accounts, p \in Providers :
       ClaimDelegator(a, p) \/ DelegatorWithdrawUnregistered(a, p)
  \/ \E p \in Providers : ProviderWithdrawUnregistered(p) \/ UnregisterProvider(p)

LEMMA PalletCallMoves ==
  ASSUME IndInv, PalletCall
  PROVE  Moved(balances') /\ UNCHANGED block
<1>1. TypeOK
  BY DEF IndInv
<1>2. ASSUME NEW new \in EraLengths, SetBlocksPerEra(new)
      PROVE  UNCHANGED <<balances, block>>
  BY <1>2 DEF SetBlocksPerEra
<1>3. ASSUME NEW a \in Accounts, NEW p \in Providers, NEW v \in Amounts,
             \/ RegisterProvider(a, p, v)
             \/ ProviderBondMore(a, p, v)
             \/ ProviderBondLess(a, p, v)
             \/ Delegate(a, p, v)
             \/ DelegatorUnstake(a, p, v)
      PROVE  Moved(balances') /\ UNCHANGED block
  <2>1. v \in Nat
    BY StakingAssumption
  <2> QED
    BY <1>3, <2>1
       DEF RegisterProvider, ProviderBondMore, ProviderBondLess, Delegate,
           DelegatorUnstake, ReserveFunds, Moved
<1>4. ASSUME NEW a \in Accounts, WithdrawUnbonded(a)
      PROVE  Moved(balances') /\ UNCHANGED block
  <2>1. PICK v : v = ChunkSum(ValidChunks(unbondingInfo[a], era.current))
    OBVIOUS
  <2>2. v \in Nat
    <3>1. /\ unbondingInfo[a] \in Seq(UnlockingChunk) /\ era.current \in Nat
          /\ ChunksOrdered(unbondingInfo[a]) /\ era.current + UnbondingPeriod \in Nat
          /\ \A i \in DOMAIN unbondingInfo[a] :
               unbondingInfo[a][i].unlock_era <= era.current + UnbondingPeriod
      BY <1>1, StateTypes, StakingAssumption DEF IndInv, TypeOK, UnbondingWellFormed
    <3>2. ValidChunks(unbondingInfo[a], era.current) \in Seq(UnlockingChunk)
      BY <3>1, PartitionProperties
    <3> QED
      BY <3>2, <2>1, ChunkSumType
  <2>3. balances' = Unreserve(balances, a, v) /\ UNCHANGED block
    BY <1>4, <2>1 DEF WithdrawUnbonded
  <2> QED
    BY <2>2, <2>3 DEF Moved
<1>5. ASSUME NEW p \in Providers, NEW e \in Eras, ClaimProvider(p, e)
      PROVE  Moved(balances') /\ UNCHANGED block
  <2>1. PICK v : v = ProviderPart(ProviderEraInfoOrDefault(p, e), eraState[e])
    OBVIOUS
  <2>2. /\ eraState[e] \in EraMetadata /\ providerInfo[p].owner \in Accounts
        /\ ProviderEraInfoOrDefault(p, e) \in ProviderEraMetadata
    BY <1>1, <1>5, StateTypes, StakedType, StorageDefaultType DEF ClaimProvider, EraClaimable
  <2>3. v \in Nat
    BY <2>1, <2>2, RewardType
  <2>4. /\ CanWithdraw(balances, Pot, v) /\ balances' = Payout(providerInfo[p].owner, v)
        /\ UNCHANGED block
    BY <1>5, <2>1 DEF ClaimProvider
  <2> QED
    BY <2>2, <2>3, <2>4 DEF Moved
<1>6. ASSUME NEW a \in Accounts, NEW p \in Providers, ClaimDelegator(a, p)
      PROVE  Moved(balances') /\ UNCHANGED block
  <2> DEFINE claimed == ClaimedStake(delegationInfo[a][p])
             e == claimed.era
             info == ProviderEraInfoOrDefault(p, e)
  <2>1. PICK v : v = DelegatorReward(claimed.amount, info, eraState[e])
    OBVIOUS
  <2>2. /\ claimed.amount > 0 /\ e < era.current /\ eraState[e] # None
        /\ CanWithdraw(balances, Pot, v) /\ balances' = Payout(a, v) /\ UNCHANGED block
    BY <1>6, <2>1 DEF ClaimDelegator, EraClaimable
  <2>3. /\ delegationInfo[a][p] \in Seq(EraStake) /\ era.current \in Nat
        /\ era.current \in Eras
    BY <1>1, StateTypes DEF TypeOK
  <2>4. delegationInfo[a][p] # <<>> /\ claimed = delegationInfo[a][p][1]
    BY <2>2 DEF ClaimedStake, NewEraStake
  <2>5. claimed.amount \in Nat /\ e \in Nat
    BY <2>3, <2>4, StakeFields
  <2>6. e \in Eras
    BY <2>2, <2>3, <2>5, StakingAssumption DEF Eras
  <2>7. info \in ProviderEraMetadata /\ eraState[e] \in EraMetadata
    BY <1>1, <2>2, <2>6, StorageDefaultType, StakedType
  <2> HIDE DEF info
  <2>8. v \in Nat
    BY <2>1, <2>5, <2>7, RewardType
  <2> QED
    BY <2>2, <2>8 DEF Moved
<1>7. ASSUME NEW a \in Accounts, NEW p \in Providers, DelegatorWithdrawUnregistered(a, p)
      PROVE  Moved(balances') /\ UNCHANGED block
  <2>1. PICK v : v = LatestStakedValue(delegationInfo[a][p])
    OBVIOUS
  <2>2. v \in Nat
    BY <1>1, <2>1, StakeFields DEF TypeOK
  <2>3. balances' = Unreserve(balances, a, v) /\ UNCHANGED block
    BY <1>7, <2>1 DEF DelegatorWithdrawUnregistered
  <2> QED
    BY <2>2, <2>3 DEF Moved
<1>8. ASSUME NEW p \in Providers, ProviderWithdrawUnregistered(p)
      PROVE  Moved(balances') /\ UNCHANGED block
  <2>1. PICK v : v = ProviderEraInfoOrDefault(p, providerInfo[p].status).bond
    OBVIOUS
  <2>2. providerInfo[p].status \in Eras /\ providerInfo[p].owner \in Accounts
    BY <1>1, <1>8, StateTypes
       DEF ProviderWithdrawUnregistered, UnregisteredUnbonded, IsUnregistered
  <2>3. v \in Nat
    BY <1>1, <2>1, <2>2, StorageDefaultType DEF ProviderEraMetadata
  <2>4. balances' = Unreserve(balances, providerInfo[p].owner, v) /\ UNCHANGED block
    BY <1>8, <2>1 DEF ProviderWithdrawUnregistered
  <2> QED
    BY <2>2, <2>3, <2>4 DEF Moved
<1>9. ASSUME NEW p \in Providers, UnregisterProvider(p)
      PROVE  UNCHANGED <<balances, block>>
  BY <1>9 DEF UnregisterProvider
<1> QED
  BY <1>2, <1>3, <1>4, <1>5, <1>6, <1>7, <1>8, <1>9 DEF PalletCall, Moved

(* Calls collect no rewards and end no era.                                *)
LEMMA PalletCallTimes ==
  ASSUME TypeOK, PalletCall
  PROVE  rewardAccumulator' = rewardAccumulator /\ era'.current = era.current
<1>1. ASSUME NEW new \in EraLengths, SetBlocksPerEra(new)
      PROVE  rewardAccumulator' = rewardAccumulator /\ era'.current = era.current
  BY <1>1 DEF SetBlocksPerEra, TypeOK, EraInfo
<1>2. ASSUME NEW a \in Accounts, NEW p \in Providers, NEW v \in Amounts,
             \/ RegisterProvider(a, p, v)
             \/ ProviderBondMore(a, p, v)
             \/ ProviderBondLess(a, p, v)
             \/ Delegate(a, p, v)
             \/ DelegatorUnstake(a, p, v)
      PROVE  UNCHANGED <<rewardAccumulator, era>>
  BY <1>2 DEF RegisterProvider, ProviderBondMore, ProviderBondLess, Delegate,
              DelegatorUnstake
<1>3. ASSUME NEW a \in Accounts, WithdrawUnbonded(a)
      PROVE  UNCHANGED <<rewardAccumulator, era>>
  BY <1>3 DEF WithdrawUnbonded
<1>4. ASSUME NEW p \in Providers, NEW e \in Eras, ClaimProvider(p, e)
      PROVE  UNCHANGED <<rewardAccumulator, era>>
  BY <1>4 DEF ClaimProvider
<1>5. ASSUME NEW a \in Accounts, NEW p \in Providers,
             ClaimDelegator(a, p) \/ DelegatorWithdrawUnregistered(a, p)
      PROVE  UNCHANGED <<rewardAccumulator, era>>
  BY <1>5 DEF ClaimDelegator, DelegatorWithdrawUnregistered
<1>6. ASSUME NEW p \in Providers,
             ProviderWithdrawUnregistered(p) \/ UnregisterProvider(p)
      PROVE  UNCHANGED <<rewardAccumulator, era>>
  BY <1>6 DEF ProviderWithdrawUnregistered, UnregisterProvider
<1> QED
  BY <1>1, <1>2, <1>3, <1>4, <1>5, <1>6 DEF PalletCall

LEMMA SupplyBoundedType ==
  ASSUME TypeOK
  PROVE  /\ Supply(balances) \in Nat /\ rewardAccumulator \in Nat
         /\ era.current \in Nat /\ era.current <= MaxEra
         /\ InitialBalance * Cardinality(Accounts) \in Nat
         /\ MaxEraRewards \in Nat /\ MaxEraRewards * era.current \in Nat
         /\ MaxBalance \in Nat
<1>1. Supply(balances) \in Nat /\ rewardAccumulator \in Nat
  BY SupplyType DEF TypeOK, Ledgers
<1>2. era.current \in Nat /\ era.current <= MaxEra
  BY StateTypes DEF Eras
<1>3. MaxEraRewards \in Nat /\ MaxBalance \in Nat
  BY StakingAssumption, CurrencyAssumption
<1>4. \A m, x \in Nat : m * x \in Nat
  OBVIOUS
<1> QED
  BY <1>1, <1>2, <1>3, <1>4, GenesisType

(* The rewards a step collects fit.                                        *)
RewardFits ==
  \A v \in Rewards : HandleImbalance(v) => Supply(balances) + v <= MaxBalance

(* With an issuance that fits, all tokens and one more reward do.          *)
LEMMA BoundedFits ==
  ASSUME TypeOK, SupplyBounded, IssuanceFits
  PROVE  /\ SupplyFits /\ RewardFits
         /\ \A v \in Nat : HandleImbalance(v) => rewardAccumulator' = rewardAccumulator + v
<1> DEFINE S == Supply(balances)
           G == InitialBalance * Cardinality(Accounts)
           M == MaxEraRewards
           P == MaxEraRewards * era.current
           acc == rewardAccumulator
<1>1. S \in Nat /\ G \in Nat /\ M \in Nat /\ P \in Nat /\ acc \in Nat /\ MaxBalance \in Nat
  BY SupplyBoundedType
<1>2. acc <= M /\ S <= G + P + acc
  BY DEF SupplyBounded, RewardsBound
<1>3. G + P + M <= MaxBalance
  <2>1. \A m, x, y \in Nat : x <= y => m * x + m <= m * (y + 1)
    OBVIOUS
  <2>2. P + M <= M * (MaxEra + 1)
    BY <2>1, SupplyBoundedType, StakingAssumption
  <2>3. G + M * (MaxEra + 1) <= MaxBalance /\ M * (MaxEra + 1) \in Nat
    BY StakingAssumption DEF IssuanceFits
  <2> HIDE DEF G, P, M
  <2> QED
    BY <2>2, <2>3, <1>1
<1>4. ASSUME NEW v \in Nat, HandleImbalance(v)
      PROVE  S + v <= MaxBalance /\ rewardAccumulator' = rewardAccumulator + v
  <2>1. acc + v <= M /\ rewardAccumulator' = SatAdd(acc, v)
    BY <1>4 DEF HandleImbalance
  <2> HIDE DEF S, G, P, M, acc
  <2>2. S + v <= MaxBalance /\ acc + v <= MaxBalance
    BY <2>1, <1>1, <1>2, <1>3
  <2>3. SatAdd(acc, v) = acc + v
    BY <2>2, <1>1 DEF SatAdd
  <2> QED
    BY <2>1, <2>2, <2>3 DEF acc
<1>5. S <= MaxBalance
  <2> HIDE DEF S, G, P, M, acc
  <2> QED
    BY <1>1, <1>2, <1>3
<1>6. RewardFits
  BY <1>4, StakingAssumption DEF RewardFits
<1> QED
  BY <1>4, <1>5, <1>6 DEF SupplyFits

----------------------------------------------------------------------------
(* The invariant is kept                                                   *)

(* The step of a block or a call: all but the collection of rewards.       *)
PalletStep == StartEra \/ ContinueEra \/ PalletCall

LEMMA StepIsNext ==
  /\ PalletStep => Next
  /\ Next => PalletStep \/ \E v \in Rewards : HandleImbalance(v)
BY DEF PalletStep, PalletCall, Next

LEMMA StepLedgerInv ==
  ASSUME AmountsFit, LedgerInv, PalletStep \/ UNCHANGED vars
  PROVE  LedgerInv'
<1>1. IndInv'
  BY StepIsNext, NextIndInv DEF LedgerInv
<1>2. TypeOK'
  BY <1>1 DEF IndInv
<1> SUFFICES Recorded' /\ ErasBegun' /\ SupplyFits' /\ ReservedHeld'
  BY <1>1 DEF LedgerInv
<1>3. CASE StartEra
  BY <1>2, <1>3, StartEraLedger
<1>4. CASE ContinueEra \/ \E new \in EraLengths : SetBlocksPerEra(new)
  BY <1>2, <1>4, BlockAndLengthLedger
<1>5. ASSUME NEW a \in Accounts, NEW p \in Providers, NEW v \in Amounts,
             \/ RegisterProvider(a, p, v)
             \/ ProviderBondMore(a, p, v)
             \/ ProviderBondLess(a, p, v)
             \/ Delegate(a, p, v)
             \/ DelegatorUnstake(a, p, v)
      PROVE  Recorded' /\ ErasBegun' /\ SupplyFits' /\ ReservedHeld'
  BY <1>2, <1>5, RegisterProviderLedger, ProviderBondMoreLedger, ProviderBondLessLedger,
     DelegateLedger, DelegatorUnstakeLedger
<1>6. ASSUME NEW a \in Accounts, WithdrawUnbonded(a)
      PROVE  Recorded' /\ ErasBegun' /\ SupplyFits' /\ ReservedHeld'
  BY <1>2, <1>6, WithdrawUnbondedLedger
<1>7. ASSUME NEW p \in Providers, NEW e \in Eras, ClaimProvider(p, e)
      PROVE  Recorded' /\ ErasBegun' /\ SupplyFits' /\ ReservedHeld'
  BY <1>2, <1>7, ClaimProviderLedger
<1>8. ASSUME NEW a \in Accounts, NEW p \in Providers,
             ClaimDelegator(a, p) \/ DelegatorWithdrawUnregistered(a, p)
      PROVE  Recorded' /\ ErasBegun' /\ SupplyFits' /\ ReservedHeld'
  BY <1>2, <1>8, ClaimDelegatorLedger, DelegatorWithdrawUnregisteredLedger
<1>9. ASSUME NEW p \in Providers,
             ProviderWithdrawUnregistered(p) \/ UnregisterProvider(p)
      PROVE  Recorded' /\ ErasBegun' /\ SupplyFits' /\ ReservedHeld'
  BY <1>2, <1>9, ProviderWithdrawUnregisteredLedger, UnregisterProviderLedger
<1>10. CASE UNCHANGED vars
  <2>1. UNCHANGED <<block, era, eraState, rewardAccumulator, providerInfo,
                    providerEraInfo, delegationInfo, unbondingInfo, balances>>
    BY <1>10 DEF vars, stakingVars
  <2>2. TypeOK /\ Recorded /\ ErasBegun /\ SupplyFits /\ ReservedHeld
    BY DEF LedgerInv, IndInv
  <2>3. Recorded' /\ ErasBegun'
    BY <2>1, <2>2, FrameRecorded DEF InBlock
  <2>4. SupplyFits'
    BY <2>1, <2>2, SupplyFrame
  <2>5. ReservedHeld'
    BY <2>1, <2>2, <1>2, BondFrame, StakeFrame, ReservedFrame
  <2> QED
    BY <2>3, <2>4, <2>5
<1> QED
  BY <1>3, <1>4, <1>5, <1>6, <1>7, <1>8, <1>9, <1>10 DEF PalletStep, PalletCall

LEMMA NextLedgerInv ==
  ASSUME AmountsFit, LedgerInv, RewardFits, [Next]_vars
  PROVE  LedgerInv'
<1>1. ASSUME NEW v \in Rewards, HandleImbalance(v)
      PROVE  LedgerInv'
  <2>1. v \in Nat /\ Supply(balances) + v <= MaxBalance
    BY <1>1, StakingAssumption DEF RewardFits
  <2>2. IndInv' /\ TypeOK'
    BY NextIndInv DEF LedgerInv, IndInv
  <2>3. Recorded' /\ ErasBegun' /\ SupplyFits' /\ ReservedHeld'
    BY <1>1, <2>1, <2>2, HandleImbalanceLedger
  <2> QED
    BY <2>2, <2>3 DEF LedgerInv
<1> QED
  BY <1>1, StepIsNext, StepLedgerInv

LEMMA NextSupplyBounded ==
  ASSUME IndInv, IndInv', SupplyBounded, IssuanceFits, [Next]_vars
  PROVE  SupplyBounded'
<1> DEFINE S == Supply(balances)
           G == InitialBalance * Cardinality(Accounts)
           M == MaxEraRewards
           P == MaxEraRewards * era.current
           acc == rewardAccumulator
<1>1. /\ TypeOK /\ TypeOK' /\ balances \in Ledgers /\ Pot \in Holders
      /\ S \in Nat /\ G \in Nat /\ M \in Nat /\ P \in Nat /\ acc \in Nat
  BY SupplyBoundedType, StateTypes DEF IndInv, Holders
<1>2. S' \in Nat
  <2>1. balances' \in Ledgers
    BY <1>1 DEF TypeOK, Ledgers
  <2> QED
    BY <2>1, SupplyType
<1>3. acc <= M /\ S <= G + P + acc
  BY DEF SupplyBounded, RewardsBound
<1>4. ASSUME S' <= S, rewardAccumulator' = rewardAccumulator, era'.current = era.current
      PROVE  SupplyBounded'
  <2>1. acc' = acc /\ P' = P
    BY <1>4
  <2>2. S' <= S
    BY <1>4
  <2>3. acc' <= M /\ S' <= G + P' + acc'
    <3> HIDE DEF S, G, P, M, acc
    <3> QED
      BY <2>1, <2>2, <1>1, <1>2, <1>3
  <2> QED
    BY <2>3 DEF SupplyBounded, RewardsBound
<1>5. CASE StartEra
  <2>1. era'.current = era.current + 1 /\ balances' = balances /\ rewardAccumulator' = 0
    BY <1>5 DEF StartEra, SnapshotEraRewards
  <2>2. S' = S /\ acc' = 0
    BY <2>1
  <2>3. P' = P + M
    <3>1. \A m, x \in Nat : m * (x + 1) = m * x + m
      OBVIOUS
    <3> QED
      BY <3>1, <2>1, <1>1, SupplyBoundedType
  <2>4. acc' <= M /\ S' <= G + P' + acc'
    <3> HIDE DEF S, G, P, M, acc
    <3> QED
      BY <2>2, <2>3, <1>1, <1>3
  <2> QED
    BY <2>4 DEF SupplyBounded, RewardsBound
<1>6. ASSUME NEW v \in Rewards, HandleImbalance(v)
      PROVE  SupplyBounded'
  <2>1. /\ v \in Nat /\ acc + v <= M /\ balances' = DepositCreating(balances, Pot, v)
        /\ era' = era
    BY <1>6, StakingAssumption DEF HandleImbalance
  <2>2. acc' = acc + v
    BY <1>1, <1>6, <2>1, BoundedFits
  <2>3. S' <= S + v /\ P' = P
    BY <1>1, <2>1, SupplySteps
  <2>4. acc' <= M /\ S' <= G + P' + acc'
    <3> HIDE DEF S, G, P, M, acc
    <3> QED
      BY <2>1, <2>2, <2>3, <1>1, <1>2, <1>3
  <2> QED
    BY <2>4 DEF SupplyBounded, RewardsBound
<1>7. CASE ContinueEra \/ UNCHANGED vars
  <2>1. UNCHANGED <<balances, rewardAccumulator>> /\ era'.current = era.current
    BY <1>1, <1>7 DEF ContinueEra, vars, stakingVars, TypeOK, EraInfo
  <2>2. S' <= S
    BY <2>1, <1>1
  <2> QED
    BY <2>1, <2>2, <1>4
<1>8. CASE PalletCall
  <2>1. PICK d \in 0..(2 * SatSub(ExistentialDeposit, 1)) :
          Supply(balances') = Supply(balances) - d
    BY <1>1, <1>8, PalletCallMoves, MovedDust
  <2>2. d \in Nat
    BY DustType
  <2>3. S' = S - d
    BY <2>1 DEF Supply, Worth
  <2>4. S' <= S
    <3> HIDE DEF S
    <3> QED
      BY <2>2, <2>3, <1>1
  <2> QED
    BY <2>4, <1>1, <1>4, <1>8, PalletCallTimes
<1> QED
  BY <1>5, <1>6, <1>7, <1>8 DEF Next, PalletCall

(* What holds of the pallet on its own.                                    *)
PalletInv == LedgerInv /\ SupplyBounded

LEMMA InitPalletInv ==
  ASSUME IssuanceFits
  PROVE  Init => PalletInv
BY InitIndInv, InitRecorded, InitSupply, InitReserved, BoundedFits
   DEF PalletInv, LedgerInv, IndInv

LEMMA NextPalletInv ==
  ASSUME IssuanceFits, AmountsFit, PalletInv, [Next]_vars
  PROVE  PalletInv'
<1>1. LedgerInv /\ SupplyBounded /\ IndInv /\ TypeOK
  BY DEF PalletInv, LedgerInv, IndInv
<1>2. LedgerInv'
  BY <1>1, BoundedFits, NextLedgerInv
<1>3. IndInv'
  BY <1>2 DEF LedgerInv
<1> QED
  BY <1>1, <1>2, <1>3, NextSupplyBounded DEF PalletInv

(* Every token was there at genesis or is a reward: no call creates any,   *)
(* whatever the existential deposit.                                       *)
THEOREM SupplyStaysBounded ==
  ASSUME IssuanceFits, AmountsFit
  PROVE  Spec => []SupplyBounded
<1>1. Init => PalletInv
  BY InitPalletInv
<1>2. PalletInv /\ [Next]_vars => PalletInv'
  BY NextPalletInv
<1>3. PalletInv => SupplyBounded
  BY DEF PalletInv
<1> QED
  BY <1>1, <1>2, <1>3, PTL DEF Spec

(* What the chunks of an account add up to, ReservedLedger's sum, does not *)
(* wrap around.                                                            *)
LEMMA ReservedLedgerHolds ==
  ASSUME LedgerInv
  PROVE  ReservedLedger
<1> SUFFICES ASSUME NEW a \in Accounts
             PROVE  balances[a].reserved =
                      HeldBond(a) + HeldStake(a) + ChunkSum(unbondingInfo[a])
  BY DEF ReservedLedger
<1>1. TypeOK /\ SupplyFits /\ ReservedHeld
  BY DEF LedgerInv, IndInv
<1>2. balances[a].reserved = HeldBond(a) + HeldStake(a) + ChunkTotal(unbondingInfo[a])
  BY <1>1 DEF ReservedHeld
<1>3. /\ HeldBond(a) \in Nat /\ HeldStake(a) \in Nat
      /\ ChunkTotal(unbondingInfo[a]) \in Nat /\ unbondingInfo[a] \in Seq(UnlockingChunk)
  BY <1>1, HeldSums, HeldType DEF HeldSummed, HeldTyped, TypeOK
<1>4. /\ balances[a].free \in Nat /\ balances[a].reserved \in Nat
      /\ balances[a].free + balances[a].reserved <= MaxBalance /\ MaxBalance \in Nat
  BY <1>1, BalancesFit, CurrencyAssumption
<1>5. ChunkTotal(unbondingInfo[a]) <= MaxBalance
  BY <1>2, <1>3, <1>4
<1> QED
  BY <1>2, <1>3, <1>5, ChunkSumTotal

(* The reserved balance of every account is the bonds, stakes and          *)
(* unlocking chunks that the pallet holds of it.                           *)
THEOREM ReservedLedgerKept ==
  ASSUME IssuanceFits, AmountsFit
  PROVE  Spec => []ReservedLedger
<1>1. Init => PalletInv
  BY InitPalletInv
<1>2. PalletInv /\ [Next]_vars => PalletInv'
  BY NextPalletInv
<1>3. PalletInv => ReservedLedger
  BY ReservedLedgerHolds DEF PalletInv
<1> QED
  BY <1>1, <1>2, <1>3, PTL DEF Spec
=============================================================================
