--------------------------- MODULE RuntimeProofs ----------------------------
(***************************************************************************)
(* The runtime: the pallets together keep their types, agree on every      *)
(* provider and give it one life, lose no tokens but dust and grant no     *)
(* quota that was not paid for; and what is proved of the staking pallet   *)
(* alone holds of it there, where other pallets write its accounts too.    *)
(***************************************************************************)
EXTENDS Runtime, StakingTotalProofs

----------------------------------------------------------------------------
(* Parts of the block reward                                               *)

LEMMA RewardParts ==
  ASSUME RuntimeTypeOK
  PROVE  /\ ProvidersBalance \in Nat /\ ValidatorsBalance \in Nat
         /\ ProvidersBalance + ValidatorsBalance = RewardAmount
<1>1. rewardConfig.providers_percent \in Parts /\ RewardAmount \in Nat
  BY BlockRewardAssumption DEF RuntimeTypeOK, DistributionConfig
<1>2. ProvidersBalance \in 0..RewardAmount
  BY <1>1, PerbillMulBound DEF ProvidersBalance
<1> QED
  BY <1>1, <1>2 DEF ValidatorsBalance


----------------------------------------------------------------------------
(* The staking pallet within the runtime                                   *)

(* A step that only moves tokens and counts rewards.                       *)
LEMMA TokensMovedIndInv ==
  ASSUME IndInv, balances' \in Ledgers, rewardAccumulator' \in Nat,
         UNCHANGED <<block, era, eraState, providerInfo, providerEraInfo,
                     delegationInfo, unbondingInfo>>
  PROVE  IndInv'
<1>1. TypeOK'
  BY DEF IndInv, TypeOK, Ledgers
<1> QED
  BY <1>1, UnchangedWellFormed DEF IndInv

LEMMA PayBlockAuthorType ==
  ASSUME IndInv, RuntimeTypeOK, NEW author \in Accounts, PayBlockAuthor(author)
  PROVE  /\ balances' \in Ledgers /\ validatorPot' \in Account
         /\ \E reward \in Nat :
              /\ reward <= validatorPot.free
              /\ reward = 0 \/ balances[author].free + balances[author].reserved + reward
                                >= ExistentialDeposit
              /\ validatorPot' = [free     |-> validatorPot.free - reward,
                                  reserved |-> validatorPot.reserved]
              /\ balances' = [balances EXCEPT ![author] =
                                [free     |-> balances[author].free + reward,
                                 reserved |-> balances[author].reserved]]
<1> DEFINE due    == SatSub(validatorPot.free, ExistentialDeposit)
           reward == IF balances[author].free + balances[author].reserved + due
                          >= ExistentialDeposit
                     THEN due ELSE 0
<1>1. /\ validatorPot \in Account /\ validatorPot.free \in Nat /\ validatorPot.reserved \in Nat
      /\ balances \in Ledgers /\ author \in Holders /\ balances[author] \in Account
      /\ balances[author].free \in Nat /\ balances[author].reserved \in Nat
  BY StateTypes DEF IndInv, RuntimeTypeOK, Account, Holders, Ledgers
<1>2. due \in Nat /\ due <= validatorPot.free
  BY <1>1, CurrencyAssumption DEF SatSub
<1>3. /\ reward \in Nat /\ reward <= validatorPot.free
      /\ reward = 0 \/ balances[author].free + balances[author].reserved + reward
                        >= ExistentialDeposit
  BY <1>1, <1>2
<1>4. /\ validatorPot' = [validatorPot EXCEPT !.free = @ - reward]
      /\ balances' = [balances EXCEPT ![author].free = @ + reward]
  BY DEF PayBlockAuthor
<1> HIDE DEF reward, due
<1>5. /\ validatorPot' = [free     |-> validatorPot.free - reward,
                          reserved |-> validatorPot.reserved]
      /\ balances' = [balances EXCEPT ![author] =
                        [free     |-> balances[author].free + reward,
                         reserved |-> balances[author].reserved]]
  <2>1. validatorPot' = [free     |-> validatorPot.free - reward,
                         reserved |-> validatorPot.reserved]
    BY <1>1, <1>4 DEF Account
  <2>2. PICK f \in Int : f = balances[author].free + reward
    BY <1>1, <1>3
  <2>3. balances' = [balances EXCEPT ![author].free = f]
    BY <1>4, <2>2
  <2>4. balances' = [balances EXCEPT ![author] =
                       [free |-> f, reserved |-> balances[author].reserved]]
    <3>1. [balances[author] EXCEPT !.free = f] =
            [free |-> f, reserved |-> balances[author].reserved]
      BY <1>1 DEF Account
    <3> QED
      BY <2>3, <3>1
  <2> QED
    BY <2>1, <2>2, <2>4
<1>6. validatorPot' \in Account /\ balances' \in Ledgers
  BY <1>1, <1>3, <1>5 DEF Account, Ledgers
<1> QED
  BY <1>3, <1>5, <1>6

LEMMA PayForProjectType ==
  ASSUME IndInv, NEW consumer \in Accounts, NEW v \in Nat, PayForProject(consumer, v)
  PROVE  /\ WithdrawKeepAlive(balances, consumer, v) =
              [balances EXCEPT ![consumer] =
                 [free     |-> balances[consumer].free - v,
                  reserved |-> balances[consumer].reserved]]
         /\ balances[consumer].free - v \in Nat
         /\ WithdrawKeepAlive(balances, consumer, v) \in Ledgers
         /\ IndInv'
<1>1. /\ balances \in Ledgers /\ consumer \in Holders /\ balances[consumer] \in Account
      /\ balances[consumer].free \in Nat /\ balances[consumer].reserved \in Nat
      /\ Pot \in Holders /\ rewardAccumulator \in Nat
  BY StateTypes DEF IndInv, TypeOK, Account, Holders, Ledgers
<1>2. balances[consumer].free - v \in Nat
  BY <1>1 DEF PayForProject, CanWithdrawKeepAlive
<1>3. WithdrawKeepAlive(balances, consumer, v) =
        [balances EXCEPT ![consumer] = [free     |-> balances[consumer].free - v,
                                        reserved |-> balances[consumer].reserved]]
  <2>1. PICK f \in Int : f = balances[consumer].free - v
    BY <1>2
  <2>2. WithdrawKeepAlive(balances, consumer, v) = [balances EXCEPT ![consumer].free = f]
    BY <2>1 DEF WithdrawKeepAlive
  <2>3. WithdrawKeepAlive(balances, consumer, v) =
          [balances EXCEPT ![consumer] =
             [free |-> f, reserved |-> balances[consumer].reserved]]
    <3>1. [balances[consumer] EXCEPT !.free = f] =
            [free |-> f, reserved |-> balances[consumer].reserved]
      BY <1>1 DEF Account
    <3> QED
      BY <2>2, <3>1
  <2> QED
    BY <2>1, <2>3
<1>4. WithdrawKeepAlive(balances, consumer, v) \in Ledgers
  BY <1>1, <1>2, <1>3 DEF Account, Ledgers
<1>5. balances' \in Ledgers
  BY <1>1, <1>4, LedgerType DEF PayForProject
<1>6. rewardAccumulator' \in Nat
  BY <1>1, ArithmeticType DEF PayForProject
<1>7. UNCHANGED <<block, era, eraState, providerInfo, providerEraInfo,
                  delegationInfo, unbondingInfo>>
  BY DEF PayForProject
<1> QED
  BY <1>2, <1>3, <1>4, <1>5, <1>6, <1>7, TokensMovedIndInv

(* What a call of the dAPI pallet does in the staking pallet.              *)
LEMMA DapiCallIndInv ==
  ASSUME IndInv, DapiCall
  PROVE  IndInv'
<1>1. ASSUME NEW a \in Accounts, NEW v \in Deposits, PayForProject(a, v)
      PROVE  IndInv'
  BY <1>1, PayForProjectType, DapiAssumption
<1>2. ASSUME NEW a \in Accounts, NEW p \in Providers, NEW v \in Amounts,
             DepositProvider(a, p, v)
      PROVE  IndInv'
  BY <1>2, RegisterProviderIndInv DEF DepositProvider
<1>3. ASSUME NEW p \in Providers, NEW r \in Reasons, Deactivate(p, r)
      PROVE  IndInv'
  BY <1>3, UnregisterProviderIndInv DEF Deactivate
<1>4. ASSUME UNCHANGED <<block, stakingVars, balances>>
      PROVE  IndInv'
  BY <1>4, NextIndInv DEF vars
<1>5. ASSUME NEW a \in Accounts, NEW j \in ProjectIds, NEW v \in Deposits,
             \/ \E c \in ChainNames : RegisterProject(a, j, c, v)
             \/ DepositProject(a, j, v)
      PROVE  IndInv'
  BY <1>5, <1>1 DEF RegisterProject, DepositProject
<1>6. ASSUME NEW a \in Accounts, NEW j \in ProjectIds, NEW u \in Usages,
             SubmitProjectUsage(a, j, u)
      PROVE  IndInv'
  BY <1>6, <1>4 DEF SubmitProjectUsage
<1>7. ASSUME NEW a \in Accounts, NEW b \in Accounts, NEW p \in Providers,
             NEW c \in ChainNames, AdmitProvider(a, p, b, c)
      PROVE  IndInv'
  BY <1>7, <1>4 DEF AdmitProvider
<1>8. ASSUME NEW a \in Accounts, NEW p \in Providers,
             \/ UnregisterOwnProvider(a, p)
             \/ \E r \in Reasons : ReportProviderOffence(a, p, r)
      PROVE  IndInv'
  BY <1>8, <1>3, DapiAssumption DEF UnregisterOwnProvider, ReportProviderOffence
<1>9. ASSUME NEW a \in Accounts, AddRegulator(a) \/ RemoveRegulator(a)
      PROVE  IndInv'
  BY <1>9, <1>4 DEF AddRegulator, RemoveRegulator
<1>10. ASSUME NEW c \in ChainNames, AddChainId(c) \/ RemoveChainId(c)
       PROVE  IndInv'
  BY <1>10, <1>4 DEF AddChainId, RemoveChainId
<1> QED
  BY <1>2, <1>5, <1>6, <1>7, <1>8, <1>9, <1>10 DEF DapiCall

LEMMA StakingCallIsNext == StakingCall => Next
BY DEF StakingCall, Next

LEMMA RuntimeIndInv ==
  ASSUME IndInv, RuntimeTypeOK, [RuntimeNext]_runtimeVars
  PROVE  IndInv'
<1>1. ASSUME NEW author \in Accounts, PayBlockAuthor(author)
      PROVE  IndInv'
  <2>1. balances' \in Ledgers
    BY <1>1, PayBlockAuthorType
  <2>2. /\ rewardAccumulator' \in Nat
        /\ UNCHANGED <<block, era, eraState, providerInfo, providerEraInfo,
                       delegationInfo, unbondingInfo>>
    BY <1>1 DEF PayBlockAuthor, stakingVars, IndInv, TypeOK
  <2> QED
    BY <2>1, <2>2, TokensMovedIndInv
<1>2. CASE OnInitialize
  BY <1>2, NextIndInv DEF OnInitialize, Next
<1>3. CASE OnTimestampSet
  BY <1>3, RewardParts, HandleImbalanceIndInv DEF OnTimestampSet
<1>4. CASE Call
  <2>1. CASE StakingCall
    BY <2>1, StakingCallIsNext, NextIndInv
  <2>2. CASE DapiCall
    BY <2>2, DapiCallIndInv
  <2>3. CASE UNCHANGED vars
    BY <2>3, NextIndInv
  <2> QED
    BY <1>4, <2>1, <2>2, <2>3 DEF Call
<1>5. CASE UNCHANGED runtimeVars
  BY <1>5, NextIndInv DEF runtimeVars
<1> QED
  BY <1>1, <1>2, <1>3, <1>4, <1>5 DEF RuntimeNext

----------------------------------------------------------------------------
(* Types                                                                   *)

(* A quota is a Balance; were it larger, a further payment could reduce it *)
(* below the usage.                                                        *)
QuotasFit ==
  \A j \in ProjectIds : projects[j] # None => projects[j].quota <= MaxBalance

TypesFit == RuntimeTypeOK /\ QuotasFit

LEMMA ProjectWritten ==
  ASSUME TypesFit, NEW j \in ProjectIds, NEW project \in Project,
         project.usage <= project.quota, project.quota <= MaxBalance,
         projects' = [projects EXCEPT ![j] = project],
         UNCHANGED <<dapiProviders, regulators, chainIds, rewardConfig, stage, validatorPot>>
  PROVE  TypesFit'
BY DEF TypesFit, RuntimeTypeOK, QuotasFit

LEMMA ProviderWritten ==
  ASSUME TypesFit, NEW p \in Providers, NEW provider \in Provider,
         dapiProviders' = [dapiProviders EXCEPT ![p] = provider],
         UNCHANGED <<projects, regulators, chainIds, rewardConfig, stage, validatorPot>>
  PROVE  TypesFit'
BY DEF TypesFit, RuntimeTypeOK, QuotasFit

LEMMA QuotaType ==
  ASSUME NEW v \in Deposits
  PROVE  /\ v \in Nat /\ CalculateQuota(v) \in Nat /\ CalculateQuota(v) * QuotaUnit <= v
         /\ CalculateQuota(v) <= v /\ v <= MaxBalance
<1>1. v \in Nat /\ v <= MaxBalance /\ QuotaUnit \in Nat \ {0} /\ MaxBalance \in Nat
  BY DapiAssumption, CurrencyAssumption
<1>2. \A n \in Nat, d \in Nat \ {0} :
        n = d * (n \div d) + (n % d) /\ n % d \in 0..(d - 1) /\ n \div d \in Nat
  OBVIOUS
<1>3. \A q \in Nat, d \in Nat \ {0} : q <= q * d
  <2> SUFFICES ASSUME NEW q \in Nat, NEW d \in Nat \ {0} PROVE q <= q * d
    OBVIOUS
  <2>1. PICK k \in Nat : d = k + 1
    <3>1. d - 1 \in Nat /\ d = d - 1 + 1
      OBVIOUS
    <3> QED
      BY <3>1
  <2>2. q * d = q * k + q /\ q * k \in Nat
    BY <2>1
  <2> QED
    BY <2>2
<1>4. PICK q \in Nat : q = v \div QuotaUnit
  BY <1>1, <1>2
<1>5. QuotaUnit * q <= v /\ QuotaUnit * q = q * QuotaUnit
  BY <1>1, <1>2, <1>4
<1>6. q <= q * QuotaUnit /\ q * QuotaUnit \in Nat
  BY <1>1, <1>3
<1> QED
  BY <1>1, <1>4, <1>5, <1>6 DEF CalculateQuota

LEMMA ProjectCallType ==
  ASSUME TypesFit, NEW a \in Accounts, NEW j \in ProjectIds,
         UNCHANGED <<rewardConfig, stage, validatorPot>>,
         \/ \E v \in Deposits : \/ \E c \in ChainNames : RegisterProject(a, j, c, v)
                                \/ DepositProject(a, j, v)
         \/ \E u \in Usages : SubmitProjectUsage(a, j, u)
  PROVE  TypesFit'
<1>1. ASSUME NEW v \in Deposits, NEW c \in ChainNames, RegisterProject(a, j, c, v)
      PROVE  TypesFit'
  <2>1. CalculateQuota(v) \in Nat /\ CalculateQuota(v) <= MaxBalance
    BY QuotaType, CurrencyAssumption
  <2>2. PICK project : project = [consumer |-> a, chain_id |-> c,
                                  quota |-> CalculateQuota(v), usage |-> 0]
    OBVIOUS
  <2>3. project \in Project /\ project.usage <= project.quota /\ project.quota <= MaxBalance
    BY <2>1, <2>2 DEF Project
  <2> QED
    BY <1>1, <2>2, <2>3, ProjectWritten DEF RegisterProject
<1>2. ASSUME NEW v \in Deposits, DepositProject(a, j, v)
      PROVE  TypesFit'
  <2>1. CalculateQuota(v) \in Nat
    BY QuotaType
  <2>2. /\ projects[j] \in Project /\ projects[j].usage <= projects[j].quota
        /\ projects[j].quota <= MaxBalance
        /\ projects[j].quota \in Nat /\ projects[j].usage \in Nat
    BY <1>2 DEF DepositProject, TypesFit, RuntimeTypeOK, QuotasFit, Project
  <2>3. PICK q : q = SatAdd(projects[j].quota, CalculateQuota(v))
    OBVIOUS
  <2>4. q \in Nat /\ projects[j].quota <= q /\ q <= MaxBalance /\ projects[j].usage <= q
    BY <2>1, <2>2, <2>3, CurrencyAssumption DEF SatAdd
  <2>5. PICK project : project = [projects[j] EXCEPT !.quota = q]
    OBVIOUS
  <2>6. projects' = [projects EXCEPT ![j] = project]
    BY <1>2, <2>3, <2>5 DEF DepositProject
  <2>7. project \in Project /\ project.usage <= project.quota /\ project.quota <= MaxBalance
    BY <2>2, <2>4, <2>5 DEF Project
  <2> QED
    BY <1>2, <2>6, <2>7, ProjectWritten DEF DepositProject
<1>3. ASSUME NEW u \in Usages, SubmitProjectUsage(a, j, u)
      PROVE  TypesFit'
  <2>1. u \in Nat
    BY DapiAssumption
  <2>2. /\ projects[j] \in Project /\ projects[j].quota <= MaxBalance
        /\ projects[j].quota \in Nat /\ projects[j].usage \in Nat
    BY <1>3 DEF SubmitProjectUsage, TypesFit, RuntimeTypeOK, QuotasFit, Project
  <2>3. PICK n : n = NewUsage(projects[j], u)
    OBVIOUS
  <2>4. n \in Nat /\ n <= projects[j].quota
    BY <2>1, <2>2, <2>3, CurrencyAssumption DEF NewUsage, SatAdd
  <2>5. PICK project : project = [projects[j] EXCEPT !.usage = n]
    OBVIOUS
  <2>6. projects' = [projects EXCEPT ![j] = project]
    BY <1>3, <2>3, <2>5 DEF SubmitProjectUsage
  <2>7. project \in Project /\ project.usage <= project.quota /\ project.quota <= MaxBalance
    BY <2>2, <2>4, <2>5 DEF Project
  <2> QED
    BY <1>3, <2>6, <2>7, ProjectWritten DEF SubmitProjectUsage
<1> QED
  BY <1>1, <1>2, <1>3

LEMMA ProviderCallType ==
  ASSUME TypesFit, NEW p \in Providers, UNCHANGED <<rewardConfig, stage, validatorPot>>,
         \/ \E a, b \in Accounts, c \in ChainNames : AdmitProvider(a, p, b, c)
         \/ \E a \in Accounts, v \in Amounts : DepositProvider(a, p, v)
         \/ \E r \in Reasons : Deactivate(p, r)
  PROVE  TypesFit'
<1>1. ASSUME NEW a \in Accounts, NEW b \in Accounts, NEW c \in ChainNames,
             AdmitProvider(a, p, b, c)
      PROVE  TypesFit'
  <2>1. PICK provider : provider = [owner |-> b, chain_id |-> c, status |-> "Registered"]
    OBVIOUS
  <2>2. provider \in Provider
    BY <2>1 DEF Provider, ProviderStatus
  <2> QED
    BY <1>1, <2>1, <2>2, ProviderWritten DEF AdmitProvider
<1>2. ASSUME NEW s \in ProviderStatus, dapiProviders[p] # None,
             dapiProviders' = [dapiProviders EXCEPT ![p].status = s],
             UNCHANGED <<projects, regulators, chainIds>>
      PROVE  TypesFit'
  <2>1. PICK provider : provider = [dapiProviders[p] EXCEPT !.status = s]
    OBVIOUS
  <2>2. dapiProviders[p] \in Provider
    BY <1>2 DEF TypesFit, RuntimeTypeOK
  <2>3. provider \in Provider
    BY <2>1, <2>2 DEF Provider
  <2>4. dapiProviders' = [dapiProviders EXCEPT ![p] = provider]
    BY <1>2, <2>1
  <2> QED
    BY <1>2, <2>3, <2>4, ProviderWritten
<1>3. ASSUME NEW a \in Accounts, NEW v \in Amounts, DepositProvider(a, p, v)
      PROVE  TypesFit'
  BY <1>3, <1>2 DEF DepositProvider, ProviderStatus
<1>4. ASSUME NEW r \in Reasons, Deactivate(p, r)
      PROVE  TypesFit'
  BY <1>4, <1>2 DEF Deactivate, ProviderStatus
<1> QED
  BY <1>1, <1>3, <1>4

LEMMA DapiCallType ==
  ASSUME TypesFit, DapiCall, UNCHANGED <<rewardConfig, stage, validatorPot>>
  PROVE  TypesFit'
<1>1. ASSUME NEW a \in Accounts, NEW j \in ProjectIds, NEW v \in Deposits,
             \/ \E c \in ChainNames : RegisterProject(a, j, c, v)
             \/ DepositProject(a, j, v)
      PROVE  TypesFit'
  BY <1>1, ProjectCallType
<1>2. ASSUME NEW a \in Accounts, NEW j \in ProjectIds, NEW u \in Usages,
             SubmitProjectUsage(a, j, u)
      PROVE  TypesFit'
  BY <1>2, ProjectCallType
<1>3. ASSUME NEW a \in Accounts, NEW b \in Accounts, NEW p \in Providers,
             NEW c \in ChainNames, AdmitProvider(a, p, b, c)
      PROVE  TypesFit'
  BY <1>3, ProviderCallType
<1>4. ASSUME NEW a \in Accounts, NEW p \in Providers,
             \/ \E v \in Amounts : DepositProvider(a, p, v)
             \/ UnregisterOwnProvider(a, p)
             \/ \E r \in Reasons : ReportProviderOffence(a, p, r)
      PROVE  TypesFit'
  <2>1. \/ \E v \in Amounts : DepositProvider(a, p, v)
        \/ \E r \in Reasons : Deactivate(p, r)
    BY <1>4, DapiAssumption DEF UnregisterOwnProvider, ReportProviderOffence
  <2> QED
    BY <2>1, ProviderCallType
<1>5. ASSUME NEW a \in Accounts, AddRegulator(a) \/ RemoveRegulator(a)
      PROVE  TypesFit'
  BY <1>5 DEF AddRegulator, RemoveRegulator, TypesFit, RuntimeTypeOK, QuotasFit
<1>6. ASSUME NEW c \in ChainNames, AddChainId(c) \/ RemoveChainId(c)
      PROVE  TypesFit'
  BY <1>6 DEF AddChainId, RemoveChainId, TypesFit, RuntimeTypeOK, QuotasFit
<1> QED
  BY <1>1, <1>2, <1>3, <1>4, <1>5, <1>6 DEF DapiCall

LEMMA RuntimeTypes ==
  ASSUME IndInv, TypesFit, [RuntimeNext]_runtimeVars
  PROVE  TypesFit'
<1>1. ASSUME NEW author \in Accounts, PayBlockAuthor(author)
      PROVE  TypesFit'
  <2>1. validatorPot' \in Account
    BY <1>1, PayBlockAuthorType DEF TypesFit
  <2> QED
    BY <1>1, <2>1 DEF PayBlockAuthor, TypesFit, RuntimeTypeOK, QuotasFit, dapiVars
<1>2. CASE OnInitialize
  BY <1>2 DEF OnInitialize, TypesFit, RuntimeTypeOK, QuotasFit, dapiVars
<1>3. CASE OnTimestampSet
  <2>1. ValidatorsBalance \in Nat
    BY RewardParts DEF TypesFit
  <2>2. ToValidatorPot(ValidatorsBalance) \in Account
    <3> DEFINE v == ValidatorsBalance
    <3> HIDE DEF v
    <3>1. validatorPot \in Account /\ validatorPot.free \in Nat
      BY DEF TypesFit, RuntimeTypeOK, Account
    <3>2. validatorPot.free + v \in Nat
      BY <3>1, <2>1 DEF v
    <3>3. [validatorPot EXCEPT !.free = @ + v] \in Account
      BY <3>1, <3>2 DEF Account
    <3> QED
      BY <3>1, <3>3 DEF ToValidatorPot, v
  <2> QED
    BY <1>3, <2>2 DEF OnTimestampSet, TypesFit, RuntimeTypeOK, QuotasFit, dapiVars
<1>4. CASE Call
  <2>1. UNCHANGED <<stage, validatorPot>>
    BY <1>4 DEF Call
  <2>2. CASE UNCHANGED <<dapiVars, rewardConfig>>
    BY <2>1, <2>2 DEF TypesFit, RuntimeTypeOK, QuotasFit, dapiVars
  <2>3. CASE DapiCall /\ UNCHANGED rewardConfig
    BY <2>1, <2>3, DapiCallType
  <2>4. ASSUME NEW config \in RewardConfigs, SetConfig(config), UNCHANGED dapiVars
        PROVE  TypesFit'
    BY <2>1, <2>4, BlockRewardAssumption
       DEF SetConfig, TypesFit, RuntimeTypeOK, QuotasFit, dapiVars
  <2> QED
    BY <1>4, <2>2, <2>3, <2>4 DEF Call
<1>5. CASE UNCHANGED runtimeVars
  BY <1>5 DEF runtimeVars, TypesFit, RuntimeTypeOK, QuotasFit, dapiVars
<1> QED
  BY <1>1, <1>2, <1>3, <1>4, <1>5 DEF RuntimeNext

----------------------------------------------------------------------------
(* Providers                                                               *)

(* What the two pallets say of one provider.                               *)
Agree(here, info) ==
  /\ info # None => here # None /\ here.owner = info.owner
  /\ here # None =>
       /\ here.status = "Registered" <=> info = None
       /\ here.status = "Active" <=> (info # None /\ info.status = Active)
       /\ here.status \in Reasons <=> (info # None /\ info.status # Active)

LEMMA StatusesAgreeEach ==
  StatusesAgree <=> \A p \in Providers : Agree(dapiProviders[p], providerInfo[p])
BY DEF StatusesAgree, Agree, IsRegistered, IsActiveProvider, IsUnregistered

LEMMA StatusesAgreeEachNext ==
  StatusesAgree' <=> \A p \in Providers : Agree(dapiProviders'[p], providerInfo'[p])
BY DEF StatusesAgree, Agree, IsRegistered, IsActiveProvider, IsUnregistered

(* A bond that was given back is the bond of a provider that has left.     *)
WithdrawnHasLeft ==
  \A p \in Providers : IsActiveProvider(p) => ~providerInfo[p].bond_withdrawn

RuntimeInv == IndInv /\ TypesFit /\ StatusesAgree /\ WithdrawnHasLeft

(* The four ways in which a step can change what is known of a provider.   *)
Admitted(p) ==
  /\ dapiProviders[p] = None
  /\ \E owner \in Accounts, c \in ChainNames :
       dapiProviders' = [dapiProviders EXCEPT ![p] =
                           [owner |-> owner, chain_id |-> c, status |-> "Registered"]]
  /\ UNCHANGED providerInfo

Activated(p) ==
  /\ dapiProviders[p] # None
  /\ dapiProviders[p].status = "Registered"
  /\ dapiProviders' = [dapiProviders EXCEPT ![p].status = "Active"]
  /\ providerInfo' = [providerInfo EXCEPT ![p] =
                        [owner |-> dapiProviders[p].owner, status |-> Active,
                         bond_withdrawn |-> FALSE]]

Deactivated(p) ==
  /\ dapiProviders[p] # None
  /\ dapiProviders[p].status = "Active"
  /\ IsActiveProvider(p)
  /\ \E r \in Reasons : dapiProviders' = [dapiProviders EXCEPT ![p].status = r]
  /\ providerInfo' = [providerInfo EXCEPT ![p].status = era.current]

BondReturned(p) ==
  /\ UnregisteredUnbonded(p)
  /\ ~providerInfo[p].bond_withdrawn
  /\ providerInfo' = [providerInfo EXCEPT ![p].bond_withdrawn = TRUE]
  /\ UNCHANGED dapiProviders

ProviderStep ==
  \/ /\ UNCHANGED <<dapiProviders, providerInfo>>
     /\ era'.current \in {era.current, era.current + 1}
  \/ /\ era'.current = era.current
     /\ \E p \in Providers :
          Admitted(p) \/ Activated(p) \/ Deactivated(p) \/ BondReturned(p)

LEMMA StakingCallSteps ==
  ASSUME TypeOK, StakingCall, UNCHANGED dapiProviders
  PROVE  ProviderStep
<1>1. ASSUME NEW new \in EraLengths, SetBlocksPerEra(new)
      PROVE  UNCHANGED providerInfo /\ era'.current = era.current
  BY <1>1 DEF SetBlocksPerEra, TypeOK, EraInfo
<1>2. ASSUME NEW a \in Accounts, NEW p \in Providers, NEW v \in Amounts,
             \/ ProviderBondMore(a, p, v)
             \/ ProviderBondLess(a, p, v)
             \/ Delegate(a, p, v)
             \/ DelegatorUnstake(a, p, v)
      PROVE  UNCHANGED <<providerInfo, era>>
  BY <1>2 DEF ProviderBondMore, ProviderBondLess, Delegate, DelegatorUnstake
<1>3. ASSUME NEW a \in Accounts, WithdrawUnbonded(a)
      PROVE  UNCHANGED <<providerInfo, era>>
  BY <1>3 DEF WithdrawUnbonded
<1>4. ASSUME NEW p \in Providers, NEW e \in Eras, ClaimProvider(p, e)
      PROVE  UNCHANGED <<providerInfo, era>>
  BY <1>4 DEF ClaimProvider
<1>5. ASSUME NEW a \in Accounts, NEW p \in Providers,
             ClaimDelegator(a, p) \/ DelegatorWithdrawUnregistered(a, p)
      PROVE  UNCHANGED <<providerInfo, era>>
  BY <1>5 DEF ClaimDelegator, DelegatorWithdrawUnregistered
<1>6. ASSUME NEW p \in Providers, ProviderWithdrawUnregistered(p)
      PROVE  BondReturned(p) /\ UNCHANGED era
  BY <1>6 DEF ProviderWithdrawUnregistered, BondReturned
<1> QED
  BY <1>1, <1>2, <1>3, <1>4, <1>5, <1>6 DEF StakingCall, ProviderStep

LEMMA DapiCallSteps ==
  ASSUME DapiCall
  PROVE  ProviderStep
<1>1. ASSUME NEW a \in Accounts, NEW j \in ProjectIds, NEW v \in Deposits,
             \/ \E c \in ChainNames : RegisterProject(a, j, c, v)
             \/ DepositProject(a, j, v)
      PROVE  UNCHANGED <<dapiProviders, providerInfo, era>>
  BY <1>1 DEF RegisterProject, DepositProject, PayForProject
<1>2. ASSUME NEW a \in Accounts, NEW j \in ProjectIds, NEW u \in Usages,
             SubmitProjectUsage(a, j, u)
      PROVE  UNCHANGED <<dapiProviders, providerInfo, era>>
  BY <1>2 DEF SubmitProjectUsage, stakingVars
<1>3. ASSUME NEW a \in Accounts, NEW b \in Accounts, NEW p \in Providers,
             NEW c \in ChainNames, AdmitProvider(a, p, b, c)
      PROVE  Admitted(p) /\ UNCHANGED era
  BY <1>3 DEF AdmitProvider, Admitted, stakingVars
<1>4. ASSUME NEW a \in Accounts, NEW p \in Providers, NEW v \in Amounts,
             DepositProvider(a, p, v)
      PROVE  Activated(p) /\ UNCHANGED era
  BY <1>4 DEF DepositProvider, RegisterProvider, Activated
<1>5. ASSUME NEW p \in Providers, NEW r \in Reasons, Deactivate(p, r)
      PROVE  Deactivated(p) /\ UNCHANGED era
  BY <1>5 DEF Deactivate, UnregisterProvider, Deactivated
<1>6. ASSUME NEW a \in Accounts, NEW p \in Providers,
             \/ UnregisterOwnProvider(a, p)
             \/ \E r \in Reasons : ReportProviderOffence(a, p, r)
      PROVE  Deactivated(p) /\ UNCHANGED era
  BY <1>6, <1>5, DapiAssumption DEF UnregisterOwnProvider, ReportProviderOffence
<1>7. ASSUME NEW a \in Accounts, AddRegulator(a) \/ RemoveRegulator(a)
      PROVE  UNCHANGED <<dapiProviders, providerInfo, era>>
  BY <1>7 DEF AddRegulator, RemoveRegulator, stakingVars
<1>8. ASSUME NEW c \in ChainNames, AddChainId(c) \/ RemoveChainId(c)
      PROVE  UNCHANGED <<dapiProviders, providerInfo, era>>
  BY <1>8 DEF AddChainId, RemoveChainId, stakingVars
<1> QED
  BY <1>1, <1>2, <1>3, <1>4, <1>6, <1>7, <1>8 DEF DapiCall, ProviderStep

LEMMA RuntimeSteps ==
  ASSUME TypeOK, [RuntimeNext]_runtimeVars
  PROVE  ProviderStep
<1>1. ASSUME NEW author \in Accounts, PayBlockAuthor(author)
      PROVE  UNCHANGED <<dapiProviders, providerInfo, era>>
  BY <1>1 DEF PayBlockAuthor, stakingVars, dapiVars
<1>2. CASE OnInitialize
  BY <1>2 DEF OnInitialize, StartEra, ContinueEra, stakingVars, dapiVars, ProviderStep
<1>3. CASE OnTimestampSet
  BY <1>3 DEF OnTimestampSet, HandleImbalance, dapiVars, ProviderStep
<1>4. CASE Call
  <2>1. CASE StakingCall /\ UNCHANGED dapiVars
    BY <2>1, StakingCallSteps DEF dapiVars
  <2>2. CASE DapiCall
    BY <2>2, DapiCallSteps
  <2>3. CASE UNCHANGED <<vars, dapiVars>>
    BY <2>3 DEF vars, stakingVars, dapiVars, ProviderStep
  <2> QED
    BY <1>4, <2>1, <2>2, <2>3 DEF Call
<1>5. CASE UNCHANGED runtimeVars
  BY <1>5 DEF runtimeVars, vars, stakingVars, dapiVars, ProviderStep
<1> QED
  BY <1>1, <1>2, <1>3, <1>4, <1>5 DEF RuntimeNext, ProviderStep

(* What is known of the provider of a step afterwards, and that nothing    *)
(* else is touched.                                                        *)
LEMMA ProviderRecords ==
  ASSUME TypeOK, RuntimeTypeOK, NEW p \in Providers
  PROVE  /\ dapiProviders[p] # None => dapiProviders[p] \in Provider
         /\ providerInfo[p] # None => providerInfo[p] \in ProviderMetadata
         /\ era.current # Active /\ era.current \in Eras
         /\ "Registered" \notin Reasons /\ "Active" \notin Reasons
         /\ None \notin Provider /\ None \notin ProviderMetadata
<1>1. era.current \in Nat /\ era.current \in Eras
  BY StateTypes
<1> QED
  BY <1>1, StakingAssumption, DapiAssumption, DapiNoneAssumption, NoneAssumption
     DEF TypeOK, RuntimeTypeOK

LEMMA ProviderStepAgrees ==
  ASSUME RuntimeInv, ProviderStep
  PROVE  StatusesAgree' /\ WithdrawnHasLeft'
<1> DEFINE Sound(q) == /\ Agree(dapiProviders'[q], providerInfo'[q])
                       /\ providerInfo'[q] # None /\ providerInfo'[q].status = Active
                            => ~providerInfo'[q].bond_withdrawn
<1>1. TypeOK /\ RuntimeTypeOK
  BY DEF RuntimeInv, IndInv, TypesFit
<1>2. /\ dapiProviders \in [Providers -> Provider \cup {None}]
      /\ providerInfo \in [Providers -> ProviderMetadata \cup {None}]
  BY <1>1 DEF TypeOK, RuntimeTypeOK
<1>3. \A q \in Providers : /\ Agree(dapiProviders[q], providerInfo[q])
                           /\ providerInfo[q] # None /\ providerInfo[q].status = Active
                                => ~providerInfo[q].bond_withdrawn
  BY StatusesAgreeEach DEF RuntimeInv, WithdrawnHasLeft, IsActiveProvider, IsRegistered
<1>4. \A q \in Providers : Sound(q)
  <2>1. CASE UNCHANGED <<dapiProviders, providerInfo>>
    BY <2>1, <1>3
  <2>2. ASSUME NEW p \in Providers,
               Admitted(p) \/ Activated(p) \/ Deactivated(p) \/ BondReturned(p)
        PROVE  \A q \in Providers : Sound(q)
    <3>1. \A q \in Providers : q # p => /\ dapiProviders'[q] = dapiProviders[q]
                                        /\ providerInfo'[q] = providerInfo[q]
      BY <2>2, <1>2 DEF Admitted, Activated, Deactivated, BondReturned
    <3>2. CASE Admitted(p)
      <4>1. PICK owner \in Accounts, c \in ChainNames :
              dapiProviders'[p] = [owner |-> owner, chain_id |-> c, status |-> "Registered"]
        BY <3>2, <1>2 DEF Admitted
      <4>2. providerInfo'[p] = None
        BY <3>2, <1>3 DEF Admitted, Agree
      <4>3. dapiProviders'[p].status = "Registered"
        BY <4>1
      <4>4. Sound(p)
        BY <4>2, <4>3, <1>1, ProviderRecords DEF Agree
      <4> QED
        BY <4>4, <3>1, <1>3
    <3>3. CASE Activated(p)
      <4>1. /\ dapiProviders'[p] = [dapiProviders[p] EXCEPT !.status = "Active"]
            /\ dapiProviders[p] \in Provider
            /\ providerInfo'[p] = [owner |-> dapiProviders[p].owner, status |-> Active,
                                   bond_withdrawn |-> FALSE]
        BY <3>3, <1>2 DEF Activated
      <4>2. /\ dapiProviders'[p] \in Provider
            /\ dapiProviders'[p].status = "Active"
            /\ dapiProviders'[p].owner = dapiProviders[p].owner
        BY <4>1 DEF Provider, ProviderStatus
      <4>3. /\ providerInfo'[p] \in ProviderMetadata
            /\ providerInfo'[p].status = Active
            /\ providerInfo'[p].owner = dapiProviders[p].owner
            /\ ~providerInfo'[p].bond_withdrawn
        BY <4>1 DEF Provider, ProviderMetadata
      <4>4. Sound(p)
        BY <4>2, <4>3, <1>1, ProviderRecords DEF Agree
      <4> QED
        BY <4>4, <3>1, <1>3
    <3>4. CASE Deactivated(p)
      <4>1. PICK r \in Reasons : dapiProviders'[p] = [dapiProviders[p] EXCEPT !.status = r]
        BY <3>4, <1>2 DEF Deactivated
      <4>2. /\ dapiProviders[p] \in Provider /\ providerInfo[p] \in ProviderMetadata
            /\ providerInfo'[p] = [providerInfo[p] EXCEPT !.status = era.current]
            /\ dapiProviders[p].owner = providerInfo[p].owner
        BY <3>4, <1>2, <1>3 DEF Deactivated, Agree, IsActiveProvider, IsRegistered
      <4>3. /\ dapiProviders'[p] \in Provider
            /\ dapiProviders'[p].status = r
            /\ dapiProviders'[p].owner = dapiProviders[p].owner
        BY <4>1, <4>2 DEF Provider, ProviderStatus
      <4>4. /\ providerInfo'[p] \in ProviderMetadata
            /\ providerInfo'[p].status = era.current
            /\ providerInfo'[p].owner = providerInfo[p].owner
        BY <4>2, <1>1, ProviderRecords DEF ProviderMetadata
      <4>5. Sound(p)
        BY <4>2, <4>3, <4>4, <1>1, ProviderRecords DEF Agree
      <4> QED
        BY <4>5, <3>1, <1>3
    <3>5. CASE BondReturned(p)
      <4>1. /\ providerInfo[p] \in ProviderMetadata /\ providerInfo[p].status # Active
            /\ providerInfo'[p] = [providerInfo[p] EXCEPT !.bond_withdrawn = TRUE]
            /\ dapiProviders'[p] = dapiProviders[p]
        BY <3>5, <1>2 DEF BondReturned, UnregisteredUnbonded, IsUnregistered, IsRegistered
      <4>2. /\ providerInfo'[p] \in ProviderMetadata
            /\ providerInfo'[p].status = providerInfo[p].status
            /\ providerInfo'[p].owner = providerInfo[p].owner
        BY <4>1 DEF ProviderMetadata
      <4>3. Sound(p)
        BY <4>1, <4>2, <1>1, <1>3, ProviderRecords DEF Agree
      <4> QED
        BY <4>3, <3>1, <1>3
    <3> QED
      BY <2>2, <3>2, <3>3, <3>4, <3>5
  <2> QED
    BY <2>1, <2>2 DEF ProviderStep
<1> QED
  BY <1>4, StatusesAgreeEachNext DEF WithdrawnHasLeft, IsActiveProvider, IsRegistered

LEMMA RuntimeInitInv == RuntimeInit => RuntimeInv
<1> SUFFICES ASSUME RuntimeInit PROVE RuntimeInv
  OBVIOUS
<1>1. IndInv
  BY InitIndInv DEF RuntimeInit
<1>2. TypesFit
  BY DapiAssumption, BlockRewardAssumption
     DEF RuntimeInit, DapiInit, BlockRewardInit, TypesFit, RuntimeTypeOK, QuotasFit,
         EmptyAccount, Account
<1>3. StatusesAgree /\ WithdrawnHasLeft
  BY DEF RuntimeInit, Init, DapiInit, StatusesAgree, WithdrawnHasLeft, IsActiveProvider,
         IsRegistered
<1> QED
  BY <1>1, <1>2, <1>3 DEF RuntimeInv

LEMMA RuntimeNextInv == RuntimeInv /\ [RuntimeNext]_runtimeVars => RuntimeInv'
<1> SUFFICES ASSUME RuntimeInv, [RuntimeNext]_runtimeVars PROVE RuntimeInv'
  OBVIOUS
<1>1. IndInv' /\ TypesFit'
  BY RuntimeIndInv, RuntimeTypes DEF RuntimeInv, TypesFit
<1>2. ProviderStep
  BY RuntimeSteps DEF RuntimeInv, IndInv
<1> QED
  BY <1>1, <1>2, ProviderStepAgrees DEF RuntimeInv

(* The storage of the dAPI and the block reward pallet, the stages of a    *)
(* block and the validators' pot keep their types, and no sequence of      *)
(* payments and reports lets a project use more than its quota.            *)
THEOREM RuntimeTypeCorrect == RuntimeSpec => []RuntimeTypeOK
<1>1. RuntimeInv => RuntimeTypeOK
  BY DEF RuntimeInv, TypesFit
<1> QED
  BY <1>1, RuntimeInitInv, RuntimeNextInv, PTL DEF RuntimeSpec

(* Whatever order owners, regulators and delegators call the two pallets   *)
(* in, what dapiProviders and providerInfo say of a provider agrees.       *)
THEOREM StatusesStayAgreed == RuntimeSpec => []StatusesAgree
<1>1. RuntimeInv => StatusesAgree
  BY DEF RuntimeInv
<1> QED
  BY <1>1, RuntimeInitInv, RuntimeNextInv, PTL DEF RuntimeSpec

----------------------------------------------------------------------------
(* The refinement of ProviderLife                                          *)

OwnerOf(p) == IF dapiProviders[p] = None THEN None ELSE dapiProviders[p].owner

LeftIn(p) == IF IsUnregistered(p) THEN providerInfo[p].status ELSE 0

(* A provider whose two records stay the same keeps its place in life.     *)
LEMMA LifeKept ==
  ASSUME NEW p \in Providers, dapiProviders'[p] = dapiProviders[p],
         providerInfo'[p] = providerInfo[p]
  PROVE  /\ LifeOf(p)' = LifeOf(p) /\ OwnerOf(p)' = OwnerOf(p)
         /\ ReasonOf(p)' = ReasonOf(p) /\ LeftIn(p)' = LeftIn(p)
BY DEF LifeOf, OwnerOf, ReasonOf, LeftIn, IsRegistered, IsUnregistered

LEMMA LifeInit == RuntimeInit => Life!Init
<1> SUFFICES ASSUME RuntimeInit PROVE Life!Init
  OBVIOUS
<1>1. era.current = 0
  BY DEF RuntimeInit, Init
<1>2. \A p \in Providers : /\ LifeOf(p) = "absent" /\ OwnerOf(p) = None
                           /\ ReasonOf(p) = None /\ LeftIn(p) = 0
  BY DEF RuntimeInit, Init, DapiInit, LifeOf, OwnerOf, ReasonOf, LeftIn, IsRegistered,
         IsUnregistered
<1> QED
  BY <1>1, <1>2 DEF Life!Init, OwnerOf, LeftIn

(* What a step makes of the life of its provider.                          *)
LifeMoves(p, from, to) ==
  /\ LifeOf(p) = from /\ LifeOf(p)' = to
  /\ from = "absent" => /\ OwnerOf(p)' \in Accounts
                        /\ ReasonOf(p)' = ReasonOf(p) /\ LeftIn(p)' = LeftIn(p)
  /\ from = "admitted" => /\ OwnerOf(p)' = OwnerOf(p)
                          /\ ReasonOf(p)' = ReasonOf(p) /\ LeftIn(p)' = LeftIn(p)
  /\ from = "serving" => /\ OwnerOf(p)' = OwnerOf(p)
                         /\ ReasonOf(p)' \in Reasons /\ LeftIn(p)' = era.current
  /\ from = "leaving" => /\ OwnerOf(p)' = OwnerOf(p)
                         /\ era.current >= LeftIn(p) + UnbondingPeriod
                         /\ ReasonOf(p)' = ReasonOf(p) /\ LeftIn(p)' = LeftIn(p)

LEMMA LifeMovesSimulated ==
  ASSUME NEW p \in Providers, era'.current = era.current,
         \A q \in Providers : q # p => /\ LifeOf(q)' = LifeOf(q) /\ OwnerOf(q)' = OwnerOf(q)
                                       /\ ReasonOf(q)' = ReasonOf(q) /\ LeftIn(q)' = LeftIn(q)
  PROVE  /\ LifeMoves(p, "absent", "admitted") => Life!Admit(p)
         /\ LifeMoves(p, "admitted", "serving") => Life!Serve(p)
         /\ LifeMoves(p, "serving", "leaving") => Life!Leave(p)
         /\ LifeMoves(p, "leaving", "redeemed") => Life!Redeem(p)
<1> DEFINE life == [q \in Providers |-> LifeOf(q)]
           owner == [q \in Providers |-> OwnerOf(q)]
           reason == [q \in Providers |-> ReasonOf(q)]
           leftIn == [q \in Providers |-> LeftIn(q)]
<1>1. /\ life' = [life EXCEPT ![p] = LifeOf(p)']
      /\ owner' = [owner EXCEPT ![p] = OwnerOf(p)']
      /\ reason' = [reason EXCEPT ![p] = ReasonOf(p)']
      /\ leftIn' = [leftIn EXCEPT ![p] = LeftIn(p)']
  OBVIOUS
<1>2. /\ OwnerOf(p)' = OwnerOf(p) => owner' = owner
      /\ ReasonOf(p)' = ReasonOf(p) => reason' = reason
      /\ LeftIn(p)' = LeftIn(p) => leftIn' = leftIn
  OBVIOUS
<1>3. life[p] = LifeOf(p) /\ leftIn[p] = LeftIn(p)
  OBVIOUS
<1>4. LifeMoves(p, "absent", "admitted") => Life!Admit(p)
  BY <1>1, <1>2, <1>3 DEF LifeMoves, Life!Admit, OwnerOf, LeftIn
<1>5. LifeMoves(p, "admitted", "serving") => Life!Serve(p)
  BY <1>1, <1>2, <1>3 DEF LifeMoves, Life!Serve, OwnerOf, LeftIn
<1>6. LifeMoves(p, "serving", "leaving") => Life!Leave(p)
  BY <1>1, <1>2, <1>3 DEF LifeMoves, Life!Leave, OwnerOf, LeftIn
<1>7. LifeMoves(p, "leaving", "redeemed") => Life!Redeem(p)
  BY <1>1, <1>2, <1>3 DEF LifeMoves, Life!Redeem, OwnerOf, LeftIn
<1> QED
  BY <1>4, <1>5, <1>6, <1>7

LEMMA ProviderMoves ==
  ASSUME RuntimeInv, NEW p \in Providers
  PROVE  /\ Admitted(p) => LifeMoves(p, "absent", "admitted")
         /\ Activated(p) => LifeMoves(p, "admitted", "serving")
         /\ Deactivated(p) => LifeMoves(p, "serving", "leaving")
         /\ BondReturned(p) => LifeMoves(p, "leaving", "redeemed")
<1> USE DEF LifeMoves, LifeOf, OwnerOf, ReasonOf, LeftIn, IsRegistered, IsUnregistered,
            IsActiveProvider
<1>1. TypeOK /\ RuntimeTypeOK
  BY DEF RuntimeInv, IndInv, TypesFit
<1>2. /\ dapiProviders \in [Providers -> Provider \cup {None}]
      /\ providerInfo \in [Providers -> ProviderMetadata \cup {None}]
  BY <1>1 DEF TypeOK, RuntimeTypeOK
<1>3. /\ Agree(dapiProviders[p], providerInfo[p])
      /\ IsActiveProvider(p) => ~providerInfo[p].bond_withdrawn
  BY StatusesAgreeEach DEF RuntimeInv, WithdrawnHasLeft
<1>4. /\ "Registered" \notin Reasons /\ "Active" \notin Reasons
      /\ era.current # Active /\ era.current \in Eras
      /\ None \notin Provider /\ None \notin ProviderMetadata
  BY <1>1, ProviderRecords
<1>5. ASSUME Admitted(p) PROVE LifeMoves(p, "absent", "admitted")
  <2>1. PICK owner \in Accounts, c \in ChainNames :
          dapiProviders'[p] = [owner |-> owner, chain_id |-> c, status |-> "Registered"]
    BY <1>5, <1>2 DEF Admitted
  <2>2. /\ dapiProviders'[p] \in Provider /\ dapiProviders'[p].status = "Registered"
        /\ dapiProviders'[p].owner \in Accounts
    BY <2>1 DEF Provider, ProviderStatus
  <2>3. providerInfo'[p] = None /\ providerInfo[p] = None /\ dapiProviders[p] = None
    BY <1>5, <1>3 DEF Admitted, Agree
  <2> QED
    BY <2>2, <2>3, <1>4
<1>6. ASSUME Activated(p) PROVE LifeMoves(p, "admitted", "serving")
  <2>1. /\ dapiProviders[p] \in Provider /\ dapiProviders[p].status = "Registered"
        /\ dapiProviders'[p] = [dapiProviders[p] EXCEPT !.status = "Active"]
        /\ providerInfo'[p] = [owner |-> dapiProviders[p].owner, status |-> Active,
                               bond_withdrawn |-> FALSE]
    BY <1>6, <1>2 DEF Activated
  <2>2. /\ dapiProviders'[p] \in Provider /\ dapiProviders'[p].status = "Active"
        /\ dapiProviders'[p].owner = dapiProviders[p].owner
    BY <2>1 DEF Provider, ProviderStatus
  <2>3. ~providerInfo'[p].bond_withdrawn /\ providerInfo'[p].status = Active
    BY <2>1
  <2>4. providerInfo[p] = None
    BY <2>1, <1>3, <1>4 DEF Agree
  <2> QED
    BY <2>1, <2>2, <2>3, <2>4, <1>4
<1>7. ASSUME Deactivated(p) PROVE LifeMoves(p, "serving", "leaving")
  <2>1. PICK r \in Reasons : dapiProviders'[p] = [dapiProviders[p] EXCEPT !.status = r]
    BY <1>7, <1>2 DEF Deactivated
  <2>2. /\ dapiProviders[p] \in Provider /\ dapiProviders[p].status = "Active"
        /\ providerInfo[p] \in ProviderMetadata /\ providerInfo[p].status = Active
        /\ providerInfo'[p] = [providerInfo[p] EXCEPT !.status = era.current]
        /\ ~providerInfo[p].bond_withdrawn
    BY <1>7, <1>2, <1>3 DEF Deactivated
  <2>3. /\ dapiProviders'[p] \in Provider /\ dapiProviders'[p].status = r
        /\ dapiProviders'[p].owner = dapiProviders[p].owner
    BY <2>1, <2>2 DEF Provider, ProviderStatus
  <2>4. /\ providerInfo'[p] \in ProviderMetadata /\ providerInfo'[p].status = era.current
        /\ ~providerInfo'[p].bond_withdrawn
    BY <2>2, <1>4 DEF ProviderMetadata
  <2> QED
    BY <2>2, <2>3, <2>4, <1>4
<1>8. ASSUME BondReturned(p) PROVE LifeMoves(p, "leaving", "redeemed")
  <2>1. /\ providerInfo[p] \in ProviderMetadata /\ providerInfo[p].status # Active
        /\ ~providerInfo[p].bond_withdrawn
        /\ era.current >= providerInfo[p].status + UnbondingPeriod
        /\ providerInfo'[p] = [providerInfo[p] EXCEPT !.bond_withdrawn = TRUE]
        /\ dapiProviders'[p] = dapiProviders[p]
    BY <1>8, <1>2 DEF BondReturned, UnregisteredUnbonded
  <2>2. /\ providerInfo'[p] \in ProviderMetadata
        /\ providerInfo'[p].status = providerInfo[p].status
        /\ providerInfo'[p].bond_withdrawn
    BY <2>1 DEF ProviderMetadata
  <2>3. dapiProviders[p] # None /\ dapiProviders[p].status \in Reasons
    BY <2>1, <1>3, <1>4 DEF Agree
  <2> QED
    BY <2>1, <2>2, <2>3, <1>4
<1> QED
  BY <1>5, <1>6, <1>7, <1>8

LEMMA LifeNext == RuntimeInv /\ [RuntimeNext]_runtimeVars => [Life!Next]_(Life!lifeVars)
<1> SUFFICES ASSUME RuntimeInv, [RuntimeNext]_runtimeVars
             PROVE  [Life!Next]_(Life!lifeVars)
  OBVIOUS
<1>1. ProviderStep
  BY RuntimeSteps DEF RuntimeInv, IndInv
<1>2. CASE UNCHANGED <<dapiProviders, providerInfo>>
           /\ era'.current \in {era.current, era.current + 1}
  <2>1. \A q \in Providers : /\ LifeOf(q)' = LifeOf(q) /\ OwnerOf(q)' = OwnerOf(q)
                             /\ ReasonOf(q)' = ReasonOf(q) /\ LeftIn(q)' = LeftIn(q)
    BY <1>2, LifeKept
  <2>2. /\ [q \in Providers |-> LifeOf(q)]' = [q \in Providers |-> LifeOf(q)]
        /\ [q \in Providers |-> OwnerOf(q)]' = [q \in Providers |-> OwnerOf(q)]
        /\ [q \in Providers |-> ReasonOf(q)]' = [q \in Providers |-> ReasonOf(q)]
        /\ [q \in Providers |-> LeftIn(q)]' = [q \in Providers |-> LeftIn(q)]
    BY <2>1
  <2>3. CASE era'.current = era.current
    BY <2>2, <2>3 DEF Life!lifeVars, OwnerOf, LeftIn
  <2>4. CASE era'.current = era.current + 1
    BY <2>2, <2>4 DEF Life!Next, Life!NextEra, OwnerOf, LeftIn
  <2> QED
    BY <1>2, <2>3, <2>4
<1>3. ASSUME NEW p \in Providers, era'.current = era.current,
             Admitted(p) \/ Activated(p) \/ Deactivated(p) \/ BondReturned(p)
      PROVE  Life!Next
  <2>1. /\ dapiProviders \in [Providers -> Provider \cup {None}]
        /\ providerInfo \in [Providers -> ProviderMetadata \cup {None}]
    BY DEF RuntimeInv, IndInv, TypesFit, TypeOK, RuntimeTypeOK
  <2>2. \A q \in Providers : q # p => /\ dapiProviders'[q] = dapiProviders[q]
                                      /\ providerInfo'[q] = providerInfo[q]
    BY <1>3, <2>1 DEF Admitted, Activated, Deactivated, BondReturned
  <2>3. \A q \in Providers : q # p =>
          /\ LifeOf(q)' = LifeOf(q) /\ OwnerOf(q)' = OwnerOf(q)
          /\ ReasonOf(q)' = ReasonOf(q) /\ LeftIn(q)' = LeftIn(q)
    BY <2>2, LifeKept
  <2>4. Life!Admit(p) \/ Life!Serve(p) \/ Life!Leave(p) \/ Life!Redeem(p)
    BY <1>3, <2>3, ProviderMoves, LifeMovesSimulated
  <2> QED
    BY <2>4 DEF Life!Next
<1> QED
  BY <1>1, <1>2, <1>3 DEF ProviderStep

(* The two pallets implement one life per provider: every step of the      *)
(* runtime is a step of ProviderLife or changes nothing in it.             *)
THEOREM RuntimeImplementsProviderLife == RuntimeSpec => ImplementsProviderLife
<1> QED
  BY LifeInit, LifeNext, RuntimeInitInv, RuntimeNextInv, PTL
     DEF RuntimeSpec, ImplementsProviderLife, Life!Spec

----------------------------------------------------------------------------
(* Tokens                                                                  *)

LEMMA StakingCallIsCall == StakingCall => PalletCall
BY DEF StakingCall, PalletCall

(* The tokens of genesis, of the blocks, in the accounts and in the pot.   *)
LEMMA MissingIs ==
  Missing = InitialBalance * Cardinality(Accounts) + BlockRewardsIssued
              - Supply(balances) - validatorPot.free
<1>1. SumOver(Holders, LAMBDA h : balances[h].free + balances[h].reserved) = Supply(balances)
  BY DEF SumOver, Supply, Worth
<1> QED
  BY <1>1 DEF Missing

LEMMA MissingIsNext ==
  Missing' = InitialBalance * Cardinality(Accounts) + BlockRewardsIssued'
               - Supply(balances)' - validatorPot'.free
<1>1. SumOver(Holders, LAMBDA h : balances[h].free + balances[h].reserved)' = Supply(balances)'
  BY DEF SumOver, Supply, Worth
<1> QED
  BY <1>1 DEF Missing

(* The step of TokensKept.                                                 *)
LosesDust ==
  /\ Missing' - Missing \in 0..(2 * SatSub(ExistentialDeposit, 1))
  /\ Missing' > Missing =>
       EmptyAccount \in {validatorPot'} \cup {balances'[h] : h \in Holders}

IssuedTyped ==
  /\ BlockRewardsIssued \in Int
  /\ Supply(balances) \in Nat
  /\ validatorPot.free \in Nat /\ validatorPot.reserved \in Nat

LEMMA IssuedType == RuntimeInv => IssuedTyped
<1> SUFFICES ASSUME RuntimeInv PROVE IssuedTyped
  OBVIOUS
<1>1. block \in Nat /\ RewardAmount \in Nat /\ balances \in Ledgers
  BY BlockRewardAssumption DEF RuntimeInv, IndInv, TypeOK, Ledgers
<1>2. (block - 1) * RewardAmount \in Int /\ block * RewardAmount \in Int
  BY <1>1
<1> QED
  BY <1>1, <1>2, SupplyType
     DEF IssuedTyped, BlockRewardsIssued, RuntimeInv, TypesFit, RuntimeTypeOK, Account

LEMMA IssuedTypeNext == RuntimeInv' => IssuedTyped'
BY IssuedType, PTL

(* A step that issues `new`, of which d is lost.                           *)
LEMMA LosesDustWhen ==
  ASSUME RuntimeInv, RuntimeInv', NEW new \in Nat,
         NEW d \in 0..(2 * SatSub(ExistentialDeposit, 1)),
         BlockRewardsIssued' = BlockRewardsIssued + new,
         Supply(balances)' + validatorPot'.free =
           Supply(balances) + validatorPot.free + new - d,
         d > 0 => EmptyAccount \in {validatorPot'} \cup {balances'[h] : h \in Holders}
  PROVE  LosesDust
<1> DEFINE G == InitialBalance * Cardinality(Accounts)
           I == BlockRewardsIssued
           S == Supply(balances)
           V == validatorPot.free
<1>1. G \in Nat /\ d \in Nat
  BY GenesisType, DustType
<1>2. I \in Int /\ S \in Nat /\ V \in Nat
  BY IssuedType DEF IssuedTyped
<1>3. I' \in Int /\ S' \in Nat /\ V' \in Nat
  BY IssuedTypeNext DEF IssuedTyped
<1>4. Missing = G + I - S - V /\ Missing' = G + I' - S' - V'
  BY MissingIs, MissingIsNext
<1>5. I' = I + new /\ S' + V' = S + V + new - d
  OBVIOUS
<1> HIDE DEF G, I, S, V
<1>6. Missing' - Missing = d /\ Missing \in Int /\ Missing' \in Int
  BY <1>1, <1>2, <1>3, <1>4, <1>5
<1>7. Missing' > Missing => d > 0
  <2> DEFINE m == Missing
             n == Missing'
  <2>1. n - m = d /\ m \in Int /\ n \in Int
    BY <1>6
  <2> HIDE DEF m, n
  <2>2. n > m => d > 0
    BY <2>1, <1>1
  <2> QED
    BY <2>2 DEF m, n
<1> QED
  BY <1>6, <1>7 DEF LosesDust

LEMMA PayBlockAuthorTokens ==
  ASSUME RuntimeInv, RuntimeInv', NEW author \in Accounts, PayBlockAuthor(author)
  PROVE  LosesDust
<1>1. /\ IndInv /\ RuntimeTypeOK /\ balances \in Ledgers /\ author \in Holders
      /\ balances[author].free \in Nat /\ balances[author].reserved \in Nat
  BY StateTypes DEF RuntimeInv, IndInv, TypesFit, Holders, Ledgers, Account
<1>2. PICK reward \in Nat :
        /\ reward <= validatorPot.free
        /\ validatorPot' = [free     |-> validatorPot.free - reward,
                            reserved |-> validatorPot.reserved]
        /\ balances' = [balances EXCEPT ![author] =
                          [free     |-> balances[author].free + reward,
                           reserved |-> balances[author].reserved]]
  BY <1>1, PayBlockAuthorType
<1> DEFINE f == balances[author].free
           r == balances[author].reserved
           S == Supply(balances)
           V == validatorPot.free
<1>3. f + reward \in Nat
  BY <1>1
<1>4. S' = S - (f + r) + ((f + reward) + r)
  BY <1>1, <1>2, <1>3, SupplyChange
<1>5. V' = V - reward /\ f \in Nat /\ r \in Nat /\ S \in Nat /\ V \in Nat
  BY <1>1, <1>2, IssuedType DEF IssuedTyped
<1> HIDE DEF f, r, S, V
<1>6. S' + V' = S + V + 0 - 0
  BY <1>4, <1>5
<1>7. BlockRewardsIssued' = BlockRewardsIssued + 0
  <2>1. stage = "calls" /\ stage' = "hooks" /\ block' = block
    BY DEF PayBlockAuthor
  <2>2. BlockRewardsIssued' = BlockRewardsIssued /\ BlockRewardsIssued \in Int
    BY <2>1, IssuedType DEF BlockRewardsIssued, IssuedTyped
  <2> QED
    BY <2>2
<1>8. 0 \in 0..(2 * SatSub(ExistentialDeposit, 1)) /\ ~(0 > 0)
  BY DustType
<1> QED
  BY <1>6, <1>7, <1>8, LosesDustWhen DEF S, V

LEMMA OnInitializeTokens ==
  ASSUME RuntimeInv, RuntimeInv', OnInitialize
  PROVE  LosesDust
<1>1. /\ stage = "hooks" /\ stage' = "inherent" /\ block' = block + 1
      /\ UNCHANGED <<balances, validatorPot>>
  BY DEF OnInitialize, StartEra, ContinueEra
<1>2. block \in Nat /\ RewardAmount \in Nat
  BY BlockRewardAssumption DEF RuntimeInv, IndInv, TypeOK
<1>3. BlockRewardsIssued' = BlockRewardsIssued + 0
  <2>1. (block + 1) - 1 = block
    BY <1>2
  <2>2. BlockRewardsIssued' = BlockRewardsIssued /\ BlockRewardsIssued \in Int
    BY <2>1, <1>1, IssuedType DEF BlockRewardsIssued, IssuedTyped
  <2> QED
    BY <2>2
<1>4. Supply(balances)' + validatorPot'.free = Supply(balances) + validatorPot.free + 0 - 0
  BY <1>1, IssuedType DEF IssuedTyped
<1>5. 0 \in 0..(2 * SatSub(ExistentialDeposit, 1)) /\ ~(0 > 0)
  BY DustType
<1> QED
  BY <1>3, <1>4, <1>5, LosesDustWhen

LEMMA OnTimestampSetTokens ==
  ASSUME RuntimeInv, RuntimeInv', OnTimestampSet
  PROVE  LosesDust
<1> DEFINE toVal == ValidatorsBalance
           toPro == ProvidersBalance
           S == Supply(balances)
           V == validatorPot.free
<1>1. /\ TypeOK /\ RuntimeTypeOK /\ balances \in Ledgers /\ Pot \in Holders
      /\ block \in Nat /\ RewardAmount \in Nat
  BY StateTypes, BlockRewardAssumption DEF RuntimeInv, IndInv, TypesFit, TypeOK, Holders
<1>2. toVal \in Nat /\ toPro \in Nat /\ toPro + toVal = RewardAmount
  BY <1>1, RewardParts
<1>3. /\ stage = "inherent" /\ stage' = "calls" /\ block' = block
      /\ validatorPot' = ToValidatorPot(toVal)
      /\ balances' = DepositCreating(balances, Pot, toPro)
  BY DEF OnTimestampSet, HandleImbalance
<1> HIDE DEF toVal, toPro
<1>4. PICK d \in Dust : /\ S' = S + toPro - d
                        /\ d > 0 => balances'[Pot] = EmptyAccount
  BY <1>1, <1>2, <1>3, SupplyDust
<1>5. PICK c \in Dust : /\ V' = V + toVal - c
                        /\ c > 0 => validatorPot' = EmptyAccount
  <2>1. validatorPot \in Account /\ V \in Nat /\ ExistentialDeposit \in Nat
    BY <1>1, CurrencyAssumption DEF RuntimeTypeOK, Account
  <2>2. CASE validatorPot = EmptyAccount /\ toVal < ExistentialDeposit
    <3>1. validatorPot' = EmptyAccount /\ V' = V + toVal - toVal
      BY <2>1, <2>2, <1>2, <1>3 DEF ToValidatorPot
    <3> QED
      BY <3>1, <2>2, <1>2, DustType
  <2>3. CASE ~(validatorPot = EmptyAccount /\ toVal < ExistentialDeposit)
    <3>1. validatorPot' = [validatorPot EXCEPT !.free = V + toVal]
      BY <2>3, <1>3 DEF ToValidatorPot
    <3>2. V' = V + toVal
      BY <3>1, <2>1 DEF Account
    <3>3. V' = V + toVal - 0
      BY <3>2, <2>1, <1>2
    <3> QED
      BY <3>3, DustType
  <2> QED
    BY <2>2, <2>3
<1>6. c + d \in 0..(2 * SatSub(ExistentialDeposit, 1)) /\ c \in Nat /\ d \in Nat
  BY DustType DEF Dust
<1>7. S \in Nat /\ V \in Nat
  BY IssuedType DEF IssuedTyped
<1> HIDE DEF S, V
<1>8. S' + V' = S + V + RewardAmount - (c + d)
  BY <1>2, <1>4, <1>5, <1>6, <1>7
<1>9. c + d > 0 => EmptyAccount \in {validatorPot'} \cup {balances'[h] : h \in Holders}
  <2>1. c + d > 0 => c > 0 \/ d > 0
    BY <1>6
  <2> QED
    BY <2>1, <1>1, <1>4, <1>5
<1>10. BlockRewardsIssued' = BlockRewardsIssued + RewardAmount
  <2>1. BlockRewardsIssued' = block * RewardAmount
        /\ BlockRewardsIssued = (block - 1) * RewardAmount
    BY <1>3 DEF BlockRewardsIssued
  <2>2. block * RewardAmount = (block - 1) * RewardAmount + RewardAmount
    BY <1>1
  <2> QED
    BY <2>1, <2>2
<1> QED
  BY <1>1, <1>6, <1>8, <1>9, <1>10, LosesDustWhen DEF S, V

(* A call: the block and its stage stay, only the accounts change.         *)
LEMMA CallLosesDust ==
  ASSUME RuntimeInv, RuntimeInv', UNCHANGED <<block, stage, validatorPot>>,
         NEW d \in 0..(2 * SatSub(ExistentialDeposit, 1)),
         Supply(balances)' = Supply(balances) - d,
         d > 0 => EmptyAccount \in {balances'[h] : h \in Holders}
  PROVE  LosesDust
<1> DEFINE S == Supply(balances)
           V == validatorPot.free
<1>1. S \in Nat /\ V \in Nat /\ BlockRewardsIssued \in Int /\ d \in Nat
  BY IssuedType, DustType DEF IssuedTyped
<1>2. BlockRewardsIssued' = BlockRewardsIssued
  BY DEF BlockRewardsIssued
<1>3. S' = S - d /\ V' = V
  OBVIOUS
<1> HIDE DEF S, V
<1>4. S' + V' = S + V + 0 - d
  BY <1>1, <1>3
<1>5. BlockRewardsIssued' = BlockRewardsIssued + 0
  BY <1>1, <1>2
<1> QED
  BY <1>4, <1>5, LosesDustWhen DEF S, V

LEMMA PayForProjectTokens ==
  ASSUME RuntimeInv, RuntimeInv', UNCHANGED <<stage, validatorPot>>,
         NEW consumer \in Accounts, NEW v \in Nat, PayForProject(consumer, v)
  PROVE  LosesDust
<1> DEFINE f == balances[consumer].free
           r == balances[consumer].reserved
           S == Supply(balances)
<1>1. /\ IndInv /\ balances \in Ledgers /\ consumer \in Holders /\ Pot \in Holders
      /\ f \in Nat /\ r \in Nat
  BY StateTypes DEF RuntimeInv, IndInv, Holders, Ledgers, Account
<1>2. PICK mid : mid = WithdrawKeepAlive(balances, consumer, v)
  OBVIOUS
<1>3. /\ mid = [balances EXCEPT ![consumer] = [free |-> f - v, reserved |-> r]]
      /\ f - v \in Nat /\ mid \in Ledgers
  BY <1>1, <1>2, PayForProjectType
<1>4. Supply(mid) = S - (f + r) + ((f - v) + r)
  BY <1>1, <1>3, SupplyChange, ZenonT(60)
<1>5. balances' = DepositCreating(mid, Pot, v) /\ UNCHANGED block
  BY <1>2 DEF PayForProject
<1>6. PICK d \in Dust : /\ S' = Supply(mid) + v - d
                        /\ d > 0 => balances'[Pot] = EmptyAccount
  BY <1>1, <1>3, <1>5, SupplyDust
<1>7. S \in Nat
  BY IssuedType DEF IssuedTyped
<1> HIDE DEF f, r, S
<1>8. d \in Nat /\ d \in 0..(2 * SatSub(ExistentialDeposit, 1))
  BY DustType DEF Dust
<1>9. S' = S - d
  BY <1>1, <1>3, <1>4, <1>6, <1>7, <1>8
<1>10. d > 0 => EmptyAccount \in {balances'[h] : h \in Holders}
  BY <1>1, <1>6
<1> QED
  BY <1>5, <1>8, <1>9, <1>10, CallLosesDust DEF S

LEMMA MovedTokens ==
  ASSUME RuntimeInv, RuntimeInv', UNCHANGED <<block, stage, validatorPot>>, Moved(balances')
  PROVE  LosesDust
<1>1. TypeOK
  BY DEF RuntimeInv, IndInv
<1>2. PICK d \in 0..(2 * SatSub(ExistentialDeposit, 1)) :
        /\ Supply(balances') = Supply(balances) - d
        /\ d > 0 => EmptyAccount \in {balances'[h] : h \in Holders}
  BY <1>1, MovedDust
<1>3. Supply(balances)' = Supply(balances')
  BY DEF Supply, Worth
<1> QED
  BY <1>2, <1>3, CallLosesDust

LEMMA DapiCallTokens ==
  ASSUME RuntimeInv, RuntimeInv', DapiCall, UNCHANGED <<stage, validatorPot>>
  PROVE  LosesDust
<1>1. ASSUME NEW a \in Accounts, NEW j \in ProjectIds, NEW v \in Deposits,
             \/ \E c \in ChainNames : RegisterProject(a, j, c, v)
             \/ DepositProject(a, j, v)
      PROVE  LosesDust
  BY <1>1, QuotaType, PayForProjectTokens DEF RegisterProject, DepositProject
<1>2. ASSUME NEW a \in Accounts, NEW p \in Providers, NEW v \in Amounts,
             DepositProvider(a, p, v)
      PROVE  LosesDust
  <2>1. v \in Nat
    BY StakingAssumption
  <2>2. Moved(balances') /\ UNCHANGED block
    BY <1>2, <2>1 DEF DepositProvider, RegisterProvider, ReserveFunds, Moved
  <2> QED
    BY <2>2, MovedTokens
<1>3. ASSUME UNCHANGED <<block, balances>> PROVE LosesDust
  BY <1>3, MovedTokens DEF Moved
<1>4. ASSUME NEW a \in Accounts, NEW j \in ProjectIds, NEW u \in Usages,
             SubmitProjectUsage(a, j, u)
      PROVE  UNCHANGED <<block, balances>>
  BY <1>4 DEF SubmitProjectUsage
<1>5. ASSUME NEW a \in Accounts, NEW b \in Accounts, NEW p \in Providers,
             NEW c \in ChainNames, AdmitProvider(a, p, b, c)
      PROVE  UNCHANGED <<block, balances>>
  BY <1>5 DEF AdmitProvider
<1>6. ASSUME NEW a \in Accounts, NEW p \in Providers,
             \/ UnregisterOwnProvider(a, p)
             \/ \E q \in Reasons : ReportProviderOffence(a, p, q)
      PROVE  UNCHANGED <<block, balances>>
  BY <1>6 DEF UnregisterOwnProvider, ReportProviderOffence, Deactivate, UnregisterProvider
<1>7. ASSUME NEW a \in Accounts, AddRegulator(a) \/ RemoveRegulator(a)
      PROVE  UNCHANGED <<block, balances>>
  BY <1>7 DEF AddRegulator, RemoveRegulator
<1>8. ASSUME NEW c \in ChainNames, AddChainId(c) \/ RemoveChainId(c)
      PROVE  UNCHANGED <<block, balances>>
  BY <1>8 DEF AddChainId, RemoveChainId
<1> QED
  BY <1>1, <1>2, <1>3, <1>4, <1>5, <1>6, <1>7, <1>8 DEF DapiCall

LEMMA RuntimeTokens ==
  ASSUME RuntimeInv, RuntimeInv', RuntimeNext
  PROVE  LosesDust
<1>1. CASE Call
  <2>1. UNCHANGED <<stage, validatorPot>>
    BY <1>1 DEF Call
  <2>2. CASE StakingCall
    BY <2>1, <2>2, StakingCallIsCall, PalletCallMoves, MovedTokens DEF RuntimeInv
  <2>3. CASE DapiCall
    BY <2>1, <2>3, DapiCallTokens
  <2>4. CASE UNCHANGED vars
    BY <2>1, <2>4, MovedTokens DEF vars, Moved
  <2> QED
    BY <1>1, <2>2, <2>3, <2>4 DEF Call
<1> QED
  BY <1>1, PayBlockAuthorTokens, OnInitializeTokens, OnTimestampSetTokens DEF RuntimeNext

(* No step creates tokens, and what a step loses is at most one existential *)
(* deposit short of one for the account it withdraws from and the same for *)
(* the one it deposits to, when that account does not exist afterwards.    *)
THEOREM TokensAreKept == RuntimeSpec => TokensKept
<1>1. RuntimeInv /\ RuntimeInv' /\ [RuntimeNext]_runtimeVars => [LosesDust]_runtimeVars
  BY RuntimeTokens
<1> QED
  BY <1>1, RuntimeInitInv, RuntimeNextInv, PTL DEF RuntimeSpec, TokensKept, LosesDust

----------------------------------------------------------------------------
(* Quotas                                                                  *)

(* The rewards of an era are less than the largest balance.                *)
RewardsFit == MaxEraRewards <= MaxBalance

QuotaOf(project) == IF project = None THEN 0 ELSE project.quota * QuotaUnit

Quotas == [j \in ProjectIds |-> QuotaOf(projects[j])]

QuotasSummed ==
  /\ \A j \in ProjectIds : Quotas[j] \in Int
  /\ QuotaValue = SumFunctionOnSet(Quotas, ProjectIds)
  /\ QuotaValue \in Int

LEMMA QuotaSum == RuntimeTypeOK => QuotasSummed
<1> SUFFICES ASSUME RuntimeTypeOK PROVE QuotasSummed
  OBVIOUS
<1> DEFINE known == {j \in ProjectIds : projects[j] # None}
           some == [j \in known |-> projects[j].quota * QuotaUnit]
<1>1. \A j \in ProjectIds : Quotas[j] \in Int
  <2>1. QuotaUnit \in Nat
    BY DapiAssumption
  <2>2. ASSUME NEW j \in ProjectIds, projects[j] # None PROVE projects[j].quota \in Nat
    BY <2>2 DEF RuntimeTypeOK, Project
  <2>3. \A q \in Nat : q * QuotaUnit \in Int
    BY <2>1
  <2> QED
    BY <2>2, <2>3 DEF Quotas, QuotaOf
<1>2. QuotaValue = SumFunctionOnSet(some, known)
  BY DEF QuotaValue, SumOver
<1>3. /\ known \in SUBSET ProjectIds /\ IsFiniteSet(known) /\ IsFiniteSet(ProjectIds)
      /\ \A j \in known : Quotas[j] = some[j]
      /\ \A j \in ProjectIds : j \notin known => Quotas[j] = 0
  BY DapiAssumption, FS_Subset DEF Quotas, QuotaOf
<1> HIDE DEF known, some
<1>4. SumFunctionOnSet(Quotas, ProjectIds) = SumFunctionOnSet(Quotas, known)
  BY <1>1, <1>3, SumFilter
<1>5. SumFunctionOnSet(Quotas, known) = SumFunctionOnSet(some, known)
  BY <1>3, SumEqual
<1>6. SumFunctionOnSet(Quotas, ProjectIds) \in Int
  BY <1>1, <1>3, SumType
<1> QED
  BY <1>1, <1>2, <1>4, <1>5, <1>6 DEF QuotasSummed

LEMMA QuotaSumNext == RuntimeTypeOK' => QuotasSummed'
BY QuotaSum, PTL

(* The record of one project is written.                                   *)
LEMMA QuotaChange ==
  ASSUME RuntimeTypeOK, RuntimeTypeOK', NEW j \in ProjectIds,
         \A k \in ProjectIds : k # j => projects'[k] = projects[k],
         NEW x \in Int, NEW y \in Int,
         QuotaOf(projects[j]) = x, QuotaOf(projects'[j]) = y
  PROVE  QuotaValue' - QuotaValue = y - x
<1>1. /\ \A k \in ProjectIds : Quotas[k] \in Int /\ Quotas'[k] \in Int
      /\ QuotaValue = SumFunctionOnSet(Quotas, ProjectIds) /\ QuotaValue \in Int
      /\ QuotaValue' = SumFunctionOnSet(Quotas', ProjectIds)
  BY QuotaSum, QuotaSumNext DEF QuotasSummed
<1>2. \A k \in ProjectIds : k # j => Quotas'[k] = Quotas[k]
  BY DEF Quotas, RuntimeTypeOK
<1>3. Quotas'[j] = y /\ Quotas[j] = x
  BY DEF Quotas, RuntimeTypeOK
<1>4. SumFunctionOnSet(Quotas', ProjectIds) =
        SumFunctionOnSet(Quotas, ProjectIds) - Quotas[j] + Quotas'[j]
  BY <1>1, <1>2, DapiAssumption, SumChange
<1> DEFINE n == QuotaValue'
           m == QuotaValue
<1>5. n = m - x + y /\ m \in Int
  BY <1>1, <1>3, <1>4
<1> HIDE DEF n, m
<1>6. n - m = y - x
  BY <1>5
<1> QED
  BY <1>6 DEF n, m

LEMMA SameQuotas ==
  ASSUME projects' = projects
  PROVE  QuotaValue' = QuotaValue
BY DEF QuotaValue, SumOver

(* The step of QuotaPaidFor.                                               *)
QuotaPaid ==
  QuotaValue' > QuotaValue =>
    QuotaValue' - QuotaValue <= rewardAccumulator' - rewardAccumulator

LEMMA AccumulatorGrows ==
  ASSUME RewardsFit, IndInv, NEW a \in Accounts, NEW v \in Nat, PayForProject(a, v)
  PROVE  rewardAccumulator' - rewardAccumulator = v
<1>1. rewardAccumulator \in Nat /\ MaxEraRewards \in Nat /\ MaxBalance \in Nat
  BY StakingAssumption, CurrencyAssumption DEF IndInv, TypeOK
<1>2. rewardAccumulator + v <= MaxBalance
  BY <1>1 DEF PayForProject, RewardsFit
<1>3. rewardAccumulator' = rewardAccumulator + v
  BY <1>1, <1>2 DEF PayForProject, SatAdd
<1> QED
  BY <1>1, <1>3

LEMMA ProjectCallQuota ==
  ASSUME RewardsFit, RuntimeInv, RuntimeInv', NEW a \in Accounts, NEW j \in ProjectIds,
         \/ \E v \in Deposits : \/ \E c \in ChainNames : RegisterProject(a, j, c, v)
                                \/ DepositProject(a, j, v)
         \/ \E u \in Usages : SubmitProjectUsage(a, j, u)
  PROVE  QuotaPaid
<1>1. IndInv /\ RuntimeTypeOK /\ RuntimeTypeOK'
  BY DEF RuntimeInv, TypesFit
<1>2. QuotaUnit \in Nat \ {0}
  BY DapiAssumption
<1>3. QuotaValue \in Int /\ QuotaValue' \in Int
  BY <1>1, QuotaSum, QuotaSumNext DEF QuotasSummed
<1>4. ASSUME NEW v \in Nat, NEW q \in Int, q <= v, QuotaValue' - QuotaValue = q,
             rewardAccumulator' - rewardAccumulator = v
      PROVE  QuotaPaid
  BY <1>4 DEF QuotaPaid
<1>5. ASSUME NEW v \in Deposits, NEW c \in ChainNames, RegisterProject(a, j, c, v)
      PROVE  QuotaPaid
  <2>1. v \in Nat /\ CalculateQuota(v) \in Nat /\ CalculateQuota(v) * QuotaUnit <= v
    BY QuotaType
  <2>2. PICK project : project = [consumer |-> a, chain_id |-> c,
                                  quota |-> CalculateQuota(v), usage |-> 0]
    OBVIOUS
  <2>3. /\ projects' = [projects EXCEPT ![j] = project] /\ projects[j] = None
        /\ PayForProject(a, v)
    BY <1>5, <2>2 DEF RegisterProject
  <2>4. project # None /\ project.quota = CalculateQuota(v)
    <3>1. project \in Project
      BY <2>1, <2>2 DEF Project
    <3> QED
      BY <3>1, <2>2, DapiNoneAssumption
  <2>5. QuotaOf(project) = CalculateQuota(v) * QuotaUnit /\ QuotaOf(projects[j]) = 0
    BY <2>3, <2>4 DEF QuotaOf
  <2>6. CalculateQuota(v) * QuotaUnit \in Int
    BY <2>1, <1>2
  <2>7. QuotaValue' - QuotaValue = CalculateQuota(v) * QuotaUnit
    <3>1. PICK g \in Int : g = CalculateQuota(v) * QuotaUnit
      BY <2>6
    <3>2. /\ projects'[j] = project
          /\ \A k \in ProjectIds : k # j => projects'[k] = projects[k]
      BY <1>1, <2>3 DEF RuntimeTypeOK
    <3>3. QuotaOf(projects'[j]) = g
      BY <2>5, <3>1, <3>2
    <3>4. QuotaValue' - QuotaValue = g - 0
      BY <1>1, <2>5, <3>2, <3>3, QuotaChange
    <3> QED
      BY <3>1, <3>4
  <2> QED
    BY <1>1, <1>4, <2>1, <2>3, <2>6, <2>7, AccumulatorGrows
<1>6. ASSUME NEW v \in Deposits, DepositProject(a, j, v)
      PROVE  QuotaPaid
  <2>1. v \in Nat /\ CalculateQuota(v) \in Nat /\ CalculateQuota(v) * QuotaUnit <= v
    BY QuotaType
  <2>2. projects[j] \in Project /\ projects[j] # None /\ projects[j].quota \in Nat
    BY <1>1, <1>6 DEF DepositProject, RuntimeTypeOK, Project
  <2>3. PICK q : q = SatAdd(projects[j].quota, CalculateQuota(v))
    OBVIOUS
  <2>4. q \in Nat /\ q <= projects[j].quota + CalculateQuota(v)
    BY <2>1, <2>2, <2>3, CurrencyAssumption DEF SatAdd
  <2>5. PICK project : project = [projects[j] EXCEPT !.quota = q]
    OBVIOUS
  <2>6. projects' = [projects EXCEPT ![j] = project] /\ PayForProject(a, v)
    BY <1>6, <2>3, <2>5 DEF DepositProject
  <2>7. project # None /\ project.quota = q
    <3>1. project \in Project /\ project.quota = q
      BY <2>2, <2>4, <2>5 DEF Project
    <3> QED
      BY <3>1, DapiNoneAssumption
  <2>8. QuotaOf(project) = q * QuotaUnit
        /\ QuotaOf(projects[j]) = projects[j].quota * QuotaUnit
    BY <2>2, <2>7 DEF QuotaOf
  <2>9. QuotaValue' - QuotaValue = q * QuotaUnit - projects[j].quota * QuotaUnit
    <3>1. q * QuotaUnit \in Int /\ projects[j].quota * QuotaUnit \in Int
      BY <1>2, <2>2, <2>4
    <3>2. PICK g \in Int, h \in Int :
            g = q * QuotaUnit /\ h = projects[j].quota * QuotaUnit
      BY <3>1
    <3>3. /\ projects'[j] = project
          /\ \A k \in ProjectIds : k # j => projects'[k] = projects[k]
      BY <1>1, <2>6 DEF RuntimeTypeOK
    <3>4. QuotaOf(projects'[j]) = g /\ QuotaOf(projects[j]) = h
      BY <2>8, <3>2, <3>3
    <3>5. QuotaValue' - QuotaValue = g - h
      BY <1>1, <3>3, <3>4, QuotaChange
    <3> QED
      BY <3>2, <3>5
  <2>10. \A x, y, z \in Nat : x <= y + z =>
           /\ x * QuotaUnit - y * QuotaUnit \in Int
           /\ x * QuotaUnit - y * QuotaUnit <= z * QuotaUnit
    <3> SUFFICES ASSUME NEW x \in Nat, NEW y \in Nat, NEW z \in Nat, x <= y + z
                 PROVE  /\ x * QuotaUnit - y * QuotaUnit \in Int
                        /\ x * QuotaUnit - y * QuotaUnit <= z * QuotaUnit
      OBVIOUS
    <3>1. PICK k \in Nat : x + k = y + z
      <4>1. y + z - x \in Nat /\ x + (y + z - x) = y + z
        OBVIOUS
      <4> QED
        BY <4>1
    <3>2. x * QuotaUnit + k * QuotaUnit = y * QuotaUnit + z * QuotaUnit
      <4>1. (x + k) * QuotaUnit = (y + z) * QuotaUnit
        BY <3>1
      <4> QED
        BY <4>1, <1>2
    <3>3. /\ x * QuotaUnit \in Nat /\ k * QuotaUnit \in Nat
          /\ y * QuotaUnit \in Nat /\ z * QuotaUnit \in Nat
      BY <1>2
    <3> QED
      BY <3>2, <3>3
  <2>11. PICK g \in Int : g = q * QuotaUnit - projects[j].quota * QuotaUnit
    BY <2>1, <2>2, <2>4, <2>10
  <2>12. g <= CalculateQuota(v) * QuotaUnit /\ CalculateQuota(v) * QuotaUnit \in Int
    BY <2>1, <2>2, <2>4, <2>10, <2>11, <1>2
  <2>13. g <= v
    BY <2>1, <2>12
  <2> QED
    BY <1>1, <1>4, <2>1, <2>6, <2>9, <2>11, <2>13, AccumulatorGrows
<1>7. ASSUME NEW u \in Usages, SubmitProjectUsage(a, j, u)
      PROVE  QuotaPaid
  <2>1. projects[j] \in Project /\ projects[j] # None
    BY <1>1, <1>7 DEF SubmitProjectUsage, RuntimeTypeOK
  <2>2. PICK project : project = [projects[j] EXCEPT !.usage = NewUsage(projects[j], u)]
    OBVIOUS
  <2>3. projects' = [projects EXCEPT ![j] = project]
    BY <1>7, <2>2 DEF SubmitProjectUsage
  <2>4. project.quota = projects[j].quota
    BY <2>1, <2>2 DEF Project
  <2>5. project # None
    <3>1. projects'[j] = project /\ projects'[j] \in Project \cup {None}
      BY <1>1, <2>3 DEF RuntimeTypeOK
    <3>2. projects[j] \in [consumer : Accounts, chain_id : ChainNames, quota : Nat, usage : Nat]
      BY <2>1 DEF Project
    <3>3. NewUsage(projects[j], u) \in Nat
      BY <3>2, DapiAssumption, CurrencyAssumption DEF NewUsage, SatAdd
    <3>4. project \in Project
      BY <3>2, <3>3, <2>2 DEF Project
    <3> QED
      BY <3>4, DapiNoneAssumption
  <2>6. PICK g \in Int : g = QuotaOf(projects[j])
    BY <1>1, QuotaSum DEF QuotasSummed, Quotas
  <2>7. /\ projects'[j] = project
        /\ \A k \in ProjectIds : k # j => projects'[k] = projects[k]
    BY <1>1, <2>3 DEF RuntimeTypeOK
  <2>8. QuotaOf(projects'[j]) = g
    BY <2>1, <2>4, <2>5, <2>6, <2>7 DEF QuotaOf
  <2>9. QuotaValue' - QuotaValue = g - g
    BY <1>1, <2>6, <2>7, <2>8, QuotaChange
  <2> QED
    BY <2>6, <2>9, <1>3 DEF QuotaPaid
<1> QED
  BY <1>5, <1>6, <1>7

LEMMA RuntimeQuota ==
  ASSUME RewardsFit, RuntimeInv, RuntimeInv', RuntimeNext
  PROVE  QuotaPaid
<1>1. QuotaValue \in Int
  BY QuotaSum DEF RuntimeInv, TypesFit, QuotasSummed
<1>2. ASSUME projects' = projects PROVE QuotaPaid
  <2>1. QuotaValue' = QuotaValue
    BY <1>2, SameQuotas
  <2> QED
    BY <2>1, <1>1 DEF QuotaPaid
<1>3. CASE Call
  <2>1. CASE UNCHANGED dapiVars
    BY <2>1, <1>2 DEF dapiVars
  <2>2. CASE DapiCall
    <3>1. ASSUME NEW a \in Accounts, NEW j \in ProjectIds, NEW v \in Deposits,
                 \/ \E c \in ChainNames : RegisterProject(a, j, c, v)
                 \/ DepositProject(a, j, v)
          PROVE  QuotaPaid
      BY <3>1, ProjectCallQuota
    <3>2. ASSUME NEW a \in Accounts, NEW j \in ProjectIds, NEW u \in Usages,
                 SubmitProjectUsage(a, j, u)
          PROVE  QuotaPaid
      BY <3>2, ProjectCallQuota
    <3>3. ASSUME NEW a \in Accounts, NEW b \in Accounts, NEW p \in Providers,
                 NEW c \in ChainNames, AdmitProvider(a, p, b, c)
          PROVE  QuotaPaid
      BY <3>3, <1>2 DEF AdmitProvider
    <3>4. ASSUME NEW a \in Accounts, NEW p \in Providers,
                 \/ \E v \in Amounts : DepositProvider(a, p, v)
                 \/ UnregisterOwnProvider(a, p)
                 \/ \E r \in Reasons : ReportProviderOffence(a, p, r)
          PROVE  QuotaPaid
      BY <3>4, <1>2
         DEF DepositProvider, UnregisterOwnProvider, ReportProviderOffence, Deactivate
    <3>5. ASSUME NEW a \in Accounts, AddRegulator(a) \/ RemoveRegulator(a)
          PROVE  QuotaPaid
      BY <3>5, <1>2 DEF AddRegulator, RemoveRegulator
    <3>6. ASSUME NEW c \in ChainNames, AddChainId(c) \/ RemoveChainId(c)
          PROVE  QuotaPaid
      BY <3>6, <1>2 DEF AddChainId, RemoveChainId
    <3> QED
      BY <2>2, <3>1, <3>2, <3>3, <3>4, <3>5, <3>6 DEF DapiCall
  <2> QED
    BY <1>3, <2>1, <2>2 DEF Call
<1>4. CASE (\E author \in Accounts : PayBlockAuthor(author)) \/ OnInitialize \/ OnTimestampSet
  BY <1>4, <1>2 DEF PayBlockAuthor, OnInitialize, OnTimestampSet, dapiVars
<1> QED
  BY <1>3, <1>4 DEF RuntimeNext

(* Every step that grants quota puts at least its price into the rewards   *)
(* of the running era, as long as these are less than the largest balance. *)
THEOREM QuotaIsPaidFor == ASSUME RewardsFit PROVE RuntimeSpec => QuotaPaidFor
<1>1. RuntimeInv /\ RuntimeInv' /\ [RuntimeNext]_runtimeVars => [QuotaPaid]_runtimeVars
  BY RuntimeQuota
<1> QED
  BY <1>1, RuntimeInitInv, RuntimeNextInv, PTL DEF RuntimeSpec, QuotaPaidFor, QuotaPaid

----------------------------------------------------------------------------
(* The staking pallet's promises within the runtime                        *)

(* All tokens there can be.                                                *)
BlockIssuance == InitialBalance * Cardinality(Accounts) + RewardAmount * MaxBlock

BlockIssuanceFits == BlockIssuance <= MaxBalance

(* Genesis endows no account with less than it needs to exist.             *)
GenesisAlive == ExistentialDeposit > 0 /\ ExistentialDeposit <= InitialBalance

(* An account exists with at least the existential deposit.                *)
Alive(a) == Own(a) = 0 \/ Own(a) >= ExistentialDeposit

(* What the pallets around it do to the staking pallet: tokens come or go, *)
(* but no reserved ones; nobody's account disappears; the pallet's account *)
(* gets what is counted as rewards, if it is enough for it to exist.       *)
TokensMoved ==
  /\ UNCHANGED <<block, era, eraState, providerInfo, providerEraInfo,
                 delegationInfo, unbondingInfo>>
  /\ \A a \in Accounts :
       /\ balances'[a].reserved = balances[a].reserved
       /\ Own(a) = 0 => Alive(a)'
       /\ Own(a) >= ExistentialDeposit => Own(a)' >= ExistentialDeposit
  /\ \/ balances'[Pot].free - balances[Pot].free >= rewardAccumulator' - rewardAccumulator
     \/ /\ balances'[Pot].free = 0 /\ balances[Pot].free = 0
        /\ rewardAccumulator' - rewardAccumulator < ExistentialDeposit

LEMMA PayBlockAuthorMoves ==
  ASSUME IndInv, RuntimeTypeOK, NEW author \in Accounts, PayBlockAuthor(author)
  PROVE  TokensMoved
<1>1. /\ balances \in Ledgers /\ author \in Holders /\ author # Pot /\ Pot \in Holders
      /\ ExistentialDeposit \in Nat /\ rewardAccumulator \in Nat
      /\ \A h \in Holders : balances[h].free \in Nat /\ balances[h].reserved \in Nat
      /\ \A a \in Accounts : a \in Holders
  BY StateTypes, StakingAssumption, CurrencyAssumption
     DEF IndInv, TypeOK, Holders, Ledgers, Account
<1>2. PICK reward \in Nat :
        /\ reward = 0 \/ balances[author].free + balances[author].reserved + reward
                           >= ExistentialDeposit
        /\ balances' = [balances EXCEPT ![author] =
                          [free     |-> balances[author].free + reward,
                           reserved |-> balances[author].reserved]]
  BY PayBlockAuthorType
<1>3. /\ \A h \in Holders : h # author => balances'[h] = balances[h]
      /\ balances'[author].free = balances[author].free + reward
      /\ balances'[author].reserved = balances[author].reserved
  BY <1>1, <1>2 DEF Ledgers
<1>4. /\ UNCHANGED <<block, era, eraState, providerInfo, providerEraInfo,
                     delegationInfo, unbondingInfo>>
      /\ rewardAccumulator' = rewardAccumulator
  BY DEF PayBlockAuthor, stakingVars
<1>5. ASSUME NEW a \in Accounts
      PROVE  /\ balances'[a].reserved = balances[a].reserved
             /\ Own(a) = 0 => Alive(a)'
             /\ Own(a) >= ExistentialDeposit => Own(a)' >= ExistentialDeposit
  <2>1. CASE a = author
    <3>1. /\ Own(a) = balances[author].free + balances[author].reserved
          /\ Own(a)' = (balances[author].free + reward) + balances[author].reserved
      BY <2>1, <1>3 DEF Own, TokensOf
    <3>2. Own(a)' = Own(a) + reward /\ Own(a) \in Nat /\ Own(a)' \in Nat
      BY <3>1, <1>1
    <3>3. Own(a)' = Own(a) \/ Own(a)' >= ExistentialDeposit
      BY <3>1, <3>2, <1>1, <1>2
    <3>4. Own(a) >= ExistentialDeposit => Own(a)' >= ExistentialDeposit
      BY <3>2, <1>1
    <3> QED
      BY <3>3, <3>4, <2>1, <1>3 DEF Alive
  <2>2. CASE a # author
    BY <2>2, <1>1, <1>3 DEF Alive, Own, TokensOf
  <2> QED
    BY <2>1, <2>2
<1>6. balances'[Pot].free - balances[Pot].free >= rewardAccumulator' - rewardAccumulator
  BY <1>1, <1>3, <1>4
<1> QED
  BY <1>4, <1>5, <1>6 DEF TokensMoved

(* The pallet's account receives a payment.                                *)
LEMMA DepositMoves ==
  ASSUME IndInv, NEW ledger \in Ledgers, NEW v \in Nat,
         ledger[Pot] = balances[Pot],
         \A a \in Accounts :
           /\ ledger[a].reserved = balances[a].reserved
           /\ \/ TokensOf(ledger[a]) = Own(a)
              \/ /\ Own(a) > 0
                 /\ Own(a) >= ExistentialDeposit => TokensOf(ledger[a]) >= ExistentialDeposit,
         balances' = DepositCreating(ledger, Pot, v),
         rewardAccumulator' = SatAdd(rewardAccumulator, v),
         UNCHANGED <<block, era, eraState, providerInfo, providerEraInfo,
                     delegationInfo, unbondingInfo>>
  PROVE  TokensMoved
<1>1. /\ Pot \in Holders /\ ledger \in LedgerOver(Holders) /\ balances \in Ledgers
      /\ ExistentialDeposit \in Nat /\ MaxBalance \in Nat
      /\ rewardAccumulator \in Nat /\ balances[Pot].free \in Nat
      /\ \A a \in Accounts : a \in Holders /\ a # Pot
  BY StateTypes, StakingAssumption, CurrencyAssumption
     DEF IndInv, TypeOK, Holders, Ledgers, LedgerOver, Account
<1>2. /\ \A h \in Holders : h # Pot => balances'[h] = ledger[h]
      /\ \/ balances'[Pot].free = ledger[Pot].free + v
         \/ balances' = ledger /\ ledger[Pot].free = 0 /\ v < ExistentialDeposit
  <2>1. PICK after : after = DepositCreating(ledger, Pot, v)
    OBVIOUS
  <2>2. Pot \in Holders /\ ledger \in LedgerOver(Holders)
    BY <1>1
  <2>3. /\ \A h \in Holders : h # Pot => after[h] = ledger[h]
        /\ \/ after[Pot].free = ledger[Pot].free + v
           \/ after = ledger /\ ledger[Pot].free = 0 /\ v < ExistentialDeposit
    BY <2>1, <2>2, DepositEffect
  <2>4. balances' = after
    BY <2>1
  <2> QED
    BY <2>3, <2>4
<1>3. \A a \in Accounts : balances'[a] = ledger[a]
  BY <1>1, <1>2
<1>4. ASSUME NEW a \in Accounts
      PROVE  /\ balances'[a].reserved = balances[a].reserved
             /\ Own(a) = 0 => Alive(a)'
             /\ Own(a) >= ExistentialDeposit => Own(a)' >= ExistentialDeposit
  <2>1. Own(a)' = TokensOf(ledger[a])
    BY <1>3 DEF Own
  <2>2. ~(0 > 0)
    OBVIOUS
  <2> QED
    BY <2>1, <2>2, <1>3 DEF Alive
<1>5. rewardAccumulator' <= rewardAccumulator + v /\ rewardAccumulator' \in Nat
  BY <1>1 DEF SatAdd
<1>6. \/ balances'[Pot].free - balances[Pot].free >= rewardAccumulator' - rewardAccumulator
      \/ /\ balances'[Pot].free = 0 /\ balances[Pot].free = 0
         /\ rewardAccumulator' - rewardAccumulator < ExistentialDeposit
  <2>1. CASE balances'[Pot].free = ledger[Pot].free + v
    <3>1. balances'[Pot].free - balances[Pot].free = v
      BY <2>1, <1>1
    <3>2. v >= rewardAccumulator' - rewardAccumulator
      BY <1>1, <1>5
    <3> QED
      BY <3>1, <3>2
  <2>2. CASE balances' = ledger /\ ledger[Pot].free = 0 /\ v < ExistentialDeposit
    <3>1. balances'[Pot].free = 0 /\ balances[Pot].free = 0
      BY <2>2
    <3>2. rewardAccumulator' - rewardAccumulator < ExistentialDeposit
      BY <2>2, <1>1, <1>5
    <3> QED
      BY <3>1, <3>2
  <2> QED
    BY <2>1, <2>2, <1>2
<1> QED
  BY <1>4, <1>6 DEF TokensMoved

LEMMA HandleImbalanceMoves ==
  ASSUME IndInv, NEW v \in Nat, HandleImbalance(v)
  PROVE  TokensMoved
<1>1. balances \in Ledgers
  BY StateTypes DEF IndInv
<1>2. \A a \in Accounts : TokensOf(balances[a]) = Own(a)
  BY DEF Own
<1> QED
  BY <1>1, <1>2, DepositMoves DEF HandleImbalance

LEMMA PayForProjectMoves ==
  ASSUME IndInv, NEW consumer \in Accounts, NEW v \in Nat, PayForProject(consumer, v)
  PROVE  TokensMoved
<1>1. /\ balances \in Ledgers /\ consumer \in Holders /\ Pot \in Holders /\ consumer # Pot
      /\ ExistentialDeposit \in Nat
      /\ \A h \in Holders : balances[h].free \in Nat /\ balances[h].reserved \in Nat
      /\ \A a \in Accounts : a \in Holders
  BY StateTypes, StakingAssumption, CurrencyAssumption
     DEF IndInv, Holders, Ledgers, Account
<1>2. PICK ledger : ledger = WithdrawKeepAlive(balances, consumer, v)
  OBVIOUS
<1>3. /\ ledger = [balances EXCEPT ![consumer] =
                     [free     |-> balances[consumer].free - v,
                      reserved |-> balances[consumer].reserved]]
      /\ balances[consumer].free - v \in Nat /\ ledger \in Ledgers
  BY <1>2, PayForProjectType
<1>4. /\ \A h \in Holders : h # consumer => ledger[h] = balances[h]
      /\ ledger[consumer].free = balances[consumer].free - v
      /\ ledger[consumer].reserved = balances[consumer].reserved
  BY <1>1, <1>3 DEF Ledgers
<1>5. CanWithdrawKeepAlive(balances, consumer, v)
  BY DEF PayForProject
<1>6. ASSUME NEW a \in Accounts
      PROVE  /\ ledger[a].reserved = balances[a].reserved
             /\ \/ TokensOf(ledger[a]) = Own(a)
                \/ /\ Own(a) > 0
                   /\ Own(a) >= ExistentialDeposit => TokensOf(ledger[a]) >= ExistentialDeposit
  <2>1. CASE a # consumer
    BY <2>1, <1>1, <1>4 DEF Own
  <2>2. CASE a = consumer
    <3>1. PICK f, r : f = balances[consumer].free /\ r = balances[consumer].reserved
      OBVIOUS
    <3>2. f \in Nat /\ r \in Nat /\ f - v \in Nat
      BY <3>1, <1>1, <1>3
    <3>3. Own(a) = f + r /\ TokensOf(ledger[a]) = (f - v) + r
      BY <2>2, <3>1, <1>4 DEF Own, TokensOf
    <3>4. v = 0 \/ (f + r >= ExistentialDeposit => f + r - v >= ExistentialDeposit)
      BY <3>1, <3>2, <1>1, <1>5 DEF CanWithdrawKeepAlive
    <3>5. CASE v = 0
      BY <3>2, <3>3, <3>5, <2>2, <1>4
    <3>6. CASE v # 0
      <4>1. f + r > 0 /\ f + r - v = (f - v) + r
        BY <3>2, <3>6
      <4> QED
        BY <4>1, <3>3, <3>4, <3>6, <2>2, <1>4
    <3> QED
      BY <3>5, <3>6
  <2> QED
    BY <2>1, <2>2
<1>7. ledger[Pot] = balances[Pot]
  BY <1>1, <1>4
<1>8. /\ balances' = DepositCreating(ledger, Pot, v)
      /\ rewardAccumulator' = SatAdd(rewardAccumulator, v)
      /\ UNCHANGED <<block, era, eraState, providerInfo, providerEraInfo,
                     delegationInfo, unbondingInfo>>
  BY <1>2 DEF PayForProject
<1> QED
  BY <1>3, <1>6, <1>7, <1>8, DepositMoves

(* A step of the runtime is one of the staking pallet, moves tokens, or    *)
(* does not concern it.                                                    *)
StakingSees == PalletStep \/ TokensMoved \/ UNCHANGED vars

LEMMA DapiCallSeen ==
  ASSUME IndInv, DapiCall
  PROVE  StakingSees
<1>1. ASSUME NEW a \in Accounts, NEW v \in Deposits, PayForProject(a, v)
      PROVE  StakingSees
  BY <1>1, PayForProjectMoves, DapiAssumption DEF StakingSees
<1>2. ASSUME NEW a \in Accounts, NEW p \in Providers, NEW v \in Amounts,
             DepositProvider(a, p, v)
      PROVE  StakingSees
  BY <1>2 DEF DepositProvider, StakingSees, PalletStep, PalletCall
<1>3. ASSUME NEW p \in Providers, NEW r \in Reasons, Deactivate(p, r)
      PROVE  StakingSees
  BY <1>3 DEF Deactivate, StakingSees, PalletStep, PalletCall
<1>4. ASSUME UNCHANGED <<block, stakingVars, balances>>
      PROVE  StakingSees
  BY <1>4 DEF vars, StakingSees
<1>5. ASSUME NEW a \in Accounts, NEW j \in ProjectIds, NEW v \in Deposits,
             \/ \E c \in ChainNames : RegisterProject(a, j, c, v)
             \/ DepositProject(a, j, v)
      PROVE  StakingSees
  BY <1>5, <1>1 DEF RegisterProject, DepositProject
<1>6. ASSUME NEW a \in Accounts, NEW j \in ProjectIds, NEW u \in Usages,
             SubmitProjectUsage(a, j, u)
      PROVE  StakingSees
  BY <1>6, <1>4 DEF SubmitProjectUsage
<1>7. ASSUME NEW a \in Accounts, NEW b \in Accounts, NEW p \in Providers,
             NEW c \in ChainNames, AdmitProvider(a, p, b, c)
      PROVE  StakingSees
  BY <1>7, <1>4 DEF AdmitProvider
<1>8. ASSUME NEW a \in Accounts, NEW p \in Providers,
             \/ UnregisterOwnProvider(a, p)
             \/ \E r \in Reasons : ReportProviderOffence(a, p, r)
      PROVE  StakingSees
  BY <1>8, <1>3, DapiAssumption DEF UnregisterOwnProvider, ReportProviderOffence
<1>9. ASSUME NEW a \in Accounts, AddRegulator(a) \/ RemoveRegulator(a)
      PROVE  StakingSees
  BY <1>9, <1>4 DEF AddRegulator, RemoveRegulator
<1>10. ASSUME NEW c \in ChainNames, AddChainId(c) \/ RemoveChainId(c)
       PROVE  StakingSees
  BY <1>10, <1>4 DEF AddChainId, RemoveChainId
<1> QED
  BY <1>2, <1>5, <1>6, <1>7, <1>8, <1>9, <1>10 DEF DapiCall

LEMMA RuntimeSeen ==
  ASSUME RuntimeInv, [RuntimeNext]_runtimeVars
  PROVE  StakingSees
<1>1. IndInv /\ RuntimeTypeOK
  BY DEF RuntimeInv, TypesFit
<1>2. ASSUME NEW author \in Accounts, PayBlockAuthor(author)
      PROVE  StakingSees
  BY <1>1, <1>2, PayBlockAuthorMoves DEF StakingSees
<1>3. CASE OnInitialize
  BY <1>3 DEF OnInitialize, StakingSees, PalletStep
<1>4. CASE OnTimestampSet
  BY <1>1, <1>4, RewardParts, HandleImbalanceMoves DEF OnTimestampSet, StakingSees
<1>5. CASE Call
  <2>1. CASE StakingCall
    BY <2>1, StakingCallIsCall DEF StakingSees, PalletStep
  <2>2. CASE DapiCall
    BY <1>1, <2>2, DapiCallSeen
  <2>3. CASE UNCHANGED vars
    BY <2>3 DEF StakingSees
  <2> QED
    BY <1>5, <2>1, <2>2, <2>3 DEF Call
<1>6. CASE UNCHANGED runtimeVars
  BY <1>6 DEF runtimeVars, StakingSees
<1> QED
  BY <1>2, <1>3, <1>4, <1>5, <1>6 DEF RuntimeNext

(* Vectors and chunks stay in order, and what a finished era holds is      *)
(* final: no payment that is counted late changes what it pays.            *)
THEOREM RuntimeKeepsFinishedEras ==
  RuntimeSpec => [](DelegationsWellFormed /\ UnbondingWellFormed) /\ FinishedErasImmutable
<1>1. RuntimeInit => RuntimeInv
  BY RuntimeInitInv
<1>2. RuntimeInv /\ [RuntimeNext]_runtimeVars => RuntimeInv'
  BY RuntimeNextInv
<1>3. RuntimeInv => DelegationsWellFormed /\ UnbondingWellFormed
  BY DEF RuntimeInv, IndInv
<1>4. RuntimeInv /\ [RuntimeNext]_runtimeVars =>
        [\A e \in Eras : e < era.current => FinishedEraKept(e)]_vars
  <2> SUFFICES ASSUME RuntimeInv, [RuntimeNext]_runtimeVars,
                      NEW e \in Eras, e < era.current
               PROVE  FinishedEraKept(e)
    OBVIOUS
  <2>1. StakingSees /\ TypeOK
    BY RuntimeSeen DEF RuntimeInv, IndInv
  <2>2. CASE TokensMoved
    BY <2>2 DEF TokensMoved, FinishedEraKept
  <2>3. CASE PalletStep \/ UNCHANGED vars
    BY <2>1, <2>3, StepIsNext, NextKeepsFinishedEras
  <2> QED
    BY <2>1, <2>2, <2>3 DEF StakingSees
<1> QED
  BY <1>1, <1>2, <1>3, <1>4, PTL DEF RuntimeSpec, FinishedErasImmutable

(* No tokens but those of genesis and one reward a block.                  *)
Backed == RuntimeInv /\ Missing >= 0 /\ block <= MaxBlock

LEMMA BackedInit == RuntimeInit => Backed
<1> SUFFICES ASSUME RuntimeInit PROVE Backed
  OBVIOUS
<1>1. RuntimeInv
  BY RuntimeInitInv
<1>2. Supply(balances) = InitialBalance * Cardinality(Accounts)
  BY GenesisSupply DEF RuntimeInit
<1>3. block = 0 /\ stage = "calls" /\ validatorPot.free = 0
  BY DEF RuntimeInit, Init, EmptyAccount
<1>4. BlockRewardsIssued = 0
  BY <1>3, BlockRewardAssumption DEF BlockRewardsIssued
<1>5. Missing = 0
  BY <1>2, <1>3, <1>4, MissingIs, GenesisType
<1> QED
  BY <1>1, <1>3, <1>5, StakingAssumption DEF Backed

LEMMA BackedNext ==
  ASSUME Backed, [RuntimeNext]_runtimeVars
  PROVE  Backed'
<1>1. RuntimeInv /\ RuntimeInv' /\ Missing >= 0 /\ block <= MaxBlock
  BY RuntimeNextInv DEF Backed
<1>2. Missing' >= 0
  <2>1. CASE RuntimeNext
    <3>1. Missing' - Missing \in 0..(2 * SatSub(ExistentialDeposit, 1))
      BY <1>1, <2>1, RuntimeTokens DEF LosesDust
    <3>2. Missing \in Int /\ Missing' \in Int
      <4>1. BlockRewardsIssued \in Int /\ Supply(balances) \in Nat /\ validatorPot.free \in Nat
        BY <1>1, IssuedType DEF IssuedTyped
      <4>2. BlockRewardsIssued' \in Int /\ Supply(balances)' \in Nat /\ validatorPot'.free \in Nat
        BY <1>1, IssuedTypeNext DEF IssuedTyped
      <4> QED
        BY <4>1, <4>2, MissingIs, MissingIsNext, GenesisType
    <3>3. PICK k : k = 2 * SatSub(ExistentialDeposit, 1)
      OBVIOUS
    <3>4. Missing' - Missing \in 0..k
      BY <3>1, <3>3
    <3>5. Missing' - Missing >= 0
      BY ONLY <3>4
    <3>6. \A m, n \in Int : n - m >= 0 /\ m >= 0 => n >= 0
      OBVIOUS
    <3>7. Missing >= 0
      BY <1>1
    <3> QED
      BY ONLY <3>2, <3>5, <3>6, <3>7
  <2>2. CASE UNCHANGED runtimeVars
    <3>1. UNCHANGED <<balances, block, stage, validatorPot>>
      BY <2>2 DEF runtimeVars, vars
    <3>2. Missing' = Missing
      BY <3>1, MissingIs, MissingIsNext DEF BlockRewardsIssued
    <3> QED
      BY <3>2, <1>1
  <2> QED
    BY <2>1, <2>2
<1>3. block' <= MaxBlock
  <2>1. block \in Nat /\ MaxBlock \in Nat
    BY <1>1, StakingAssumption DEF RuntimeInv, IndInv, TypeOK
  <2>2. CASE StartEra \/ ContinueEra
    BY <2>1, <2>2 DEF StartEra, ContinueEra
  <2>3. CASE PalletCall
    BY <2>3, <1>1, PalletCallMoves DEF RuntimeInv
  <2>4. CASE TokensMoved \/ UNCHANGED vars
    BY <2>4, <1>1 DEF TokensMoved, vars
  <2> QED
    BY <2>2, <2>3, <2>4, <1>1, RuntimeSeen DEF StakingSees, PalletStep
<1> QED
  BY <1>1, <1>2, <1>3 DEF Backed

Issued == Supply(balances) <= BlockIssuance

LEMMA BackedIssued == Backed => Issued
<1> SUFFICES ASSUME Backed PROVE Issued
  OBVIOUS
<1>1. /\ BlockRewardsIssued \in Int /\ Supply(balances) \in Nat /\ validatorPot.free \in Nat
      /\ Missing >= 0 /\ block <= MaxBlock
  BY IssuedType DEF Backed, IssuedTyped
<1>2. block \in Nat /\ MaxBlock \in Nat /\ RewardAmount \in Nat
  BY StakingAssumption, BlockRewardAssumption DEF Backed, RuntimeInv, IndInv, TypeOK
<1>3. BlockRewardsIssued <= RewardAmount * MaxBlock /\ RewardAmount * MaxBlock \in Nat
  <2>1. \A m, x, y \in Nat : x <= y =>
          x * m <= m * y /\ (x - 1) * m <= m * y /\ m * y \in Nat
    <3> SUFFICES ASSUME NEW m \in Nat, NEW x \in Nat, NEW y \in Nat, x <= y
                 PROVE  x * m <= m * y /\ (x - 1) * m <= m * y /\ m * y \in Nat
      OBVIOUS
    <3>1. x * m <= m * y /\ m * y \in Nat /\ x * m \in Nat
      OBVIOUS
    <3>2. (x - 1) * m = x * m - m
      OBVIOUS
    <3> QED
      BY <3>1, <3>2
  <2> QED
    BY <2>1, <1>1, <1>2 DEF BlockRewardsIssued
<1>4. InitialBalance * Cardinality(Accounts) + BlockRewardsIssued - Supply(balances)
        - validatorPot.free >= 0
  BY <1>1, MissingIs
<1>5. \A g, s, w, t \in Nat, i \in Int : i <= t /\ g + i - s - w >= 0 => s <= g + t
  OBVIOUS
<1> QED
  BY <1>1, <1>3, <1>4, <1>5, GenesisType DEF Issued, BlockIssuance

(* What holds of the staking pallet within the runtime.                    *)
StakingInv == Backed /\ LedgerInv /\ Totals /\ EraSums /\ MinimumStakes

LEMMA SupplyFitsHere ==
  ASSUME BlockIssuanceFits
  PROVE  Backed => SupplyFits
<1> SUFFICES ASSUME Backed PROVE SupplyFits
  OBVIOUS
<1>1. Supply(balances) \in Nat /\ Supply(balances) <= BlockIssuance
  BY BackedIssued, IssuedType DEF Backed, Issued, IssuedTyped
<1>2. BlockIssuance \in Nat /\ MaxBalance \in Nat
  BY StakingAssumption, BlockRewardAssumption, CurrencyAssumption, GenesisType
     DEF BlockIssuance
<1> QED
  BY <1>1, <1>2 DEF BlockIssuanceFits, SupplyFits

LEMMA SupplyFitsThere ==
  ASSUME BlockIssuanceFits
  PROVE  Backed' => SupplyFits'
BY SupplyFitsHere, PTL

LEMMA TokensMovedLedger ==
  ASSUME LedgerInv, IndInv', SupplyFits', TokensMoved
  PROVE  LedgerInv'
<1>1. TypeOK /\ TypeOK' /\ Recorded /\ ErasBegun /\ ReservedHeld
  BY DEF LedgerInv, IndInv
<1>2. /\ UNCHANGED <<block, era, eraState, providerInfo, providerEraInfo,
                     delegationInfo, unbondingInfo>>
      /\ \A a \in Accounts : balances'[a].reserved = balances[a].reserved
  BY DEF TokensMoved
<1>3. Recorded' /\ ErasBegun'
  BY <1>1, <1>2, FrameRecorded DEF InBlock
<1>4. ReservedHeld'
  BY <1>1, <1>2, BondFrame, StakeFrame, ReservedFrame
<1> QED
  BY <1>3, <1>4 DEF LedgerInv

LEMMA TokensMovedTotals ==
  ASSUME IndInv, IndInv', Totals, EraSums, MinimumStakes, TokensMoved
  PROVE  Totals' /\ EraSums' /\ MinimumStakes'
<1>1. UNCHANGED <<era, eraState, providerInfo, providerEraInfo, delegationInfo>>
  BY DEF TokensMoved
<1>2. Totals'
  BY <1>1, TotalsFrame
<1>3. EraSums'
  BY <1>1 DEF EraSums, CountedSum, CountedTotals, CountedOf, CountedIn, IsRegistered,
              IsActiveProvider, IsUnregistered, LatestEra
<1>4. MinimumStakes'
  BY <1>1 DEF MinimumStakes, IsActiveProvider, IsRegistered, ProviderEraInfoOrDefault
<1> QED
  BY <1>2, <1>3, <1>4

LEMMA StakingInvInit ==
  ASSUME BlockIssuanceFits
  PROVE  RuntimeInit => StakingInv
<1> SUFFICES ASSUME RuntimeInit PROVE StakingInv
  OBVIOUS
<1>1. Init /\ Backed
  BY BackedInit DEF RuntimeInit
<1>2. LedgerInv
  BY <1>1, InitIndInv, InitRecorded, InitReserved, SupplyFitsHere DEF LedgerInv
<1>3. MinimumStakes
  BY <1>1 DEF Init, MinimumStakes, IsActiveProvider, IsRegistered, LatestStakedValue
<1> QED
  BY <1>1, <1>2, <1>3, InitTotals, InitEraSums DEF StakingInv

LEMMA StakingInvNext ==
  ASSUME BlockIssuanceFits, AmountsFit, StakingInv, [RuntimeNext]_runtimeVars
  PROVE  StakingInv'
<1>1. Backed /\ LedgerInv /\ Totals /\ EraSums /\ MinimumStakes /\ RuntimeInv
  BY DEF StakingInv, Backed
<1>2. Backed' /\ SupplyFits' /\ IndInv'
  BY <1>1, BackedNext, SupplyFitsThere DEF Backed, RuntimeInv
<1>3. CASE TokensMoved
  BY <1>1, <1>2, <1>3, TokensMovedLedger, TokensMovedTotals DEF StakingInv, LedgerInv
<1>4. CASE PalletStep \/ UNCHANGED vars
  <2>1. [Next]_vars
    BY <1>4, StepIsNext
  <2>2. LedgerInv'
    BY <1>1, <1>4, StepLedgerInv
  <2> QED
    BY <1>1, <1>2, <2>1, <2>2, NextTotals, NextEraSums, NextMinimum DEF StakingInv
<1> QED
  BY <1>1, <1>3, <1>4, RuntimeSeen DEF StakingSees

(* Payments for projects, payouts to block authors and the block reward    *)
(* leave the books of the staking pallet right: reserved balances, totals  *)
(* of the providers and of the eras, and minimum stakes.                   *)
THEOREM RuntimeKeepsStakingBooks ==
  ASSUME BlockIssuanceFits, AmountsFit
  PROVE  RuntimeSpec => [](ReservedLedger /\ ProviderTotals /\ EraStakeTotals /\ MinimumStakes)
<1> DEFINE Books == ReservedLedger /\ ProviderTotals /\ EraStakeTotals /\ MinimumStakes
<1>1. RuntimeInit => StakingInv
  BY StakingInvInit
<1>2. StakingInv /\ [RuntimeNext]_runtimeVars => StakingInv'
  BY StakingInvNext
<1>3. StakingInv => Books
  BY ReservedLedgerHolds, TotalsAreProviderTotals, EraSumsAreTotals
     DEF StakingInv, LedgerInv, IndInv
<1> QED
  BY <1>1, <1>2, <1>3, PTL DEF RuntimeSpec

----------------------------------------------------------------------------
(* The staking pallet's payments within the runtime                        *)

AccountsAlive == \A a \in Accounts : Alive(a)

(* A call creates an account with an existential deposit or not at all.    *)
LEMMA MovedAlive ==
  ASSUME TypeOK, AccountsAlive, NEW ledger, Moved(ledger),
         NEW a \in Accounts
  PROVE  TokensOf(ledger[a]) = 0 \/ TokensOf(ledger[a]) >= ExistentialDeposit
<1>1. /\ balances \in LedgerOver(Holders) /\ a \in Holders /\ Pot \in Holders /\ a # Pot
      /\ ExistentialDeposit \in Nat
  BY StakingAssumption, CurrencyAssumption DEF TypeOK, LedgerOver, Holders
<1>2. Own(a) \in Nat /\ (Own(a) = 0 \/ Own(a) >= ExistentialDeposit)
  BY <1>1 DEF AccountsAlive, Alive, Own, TokensOf, LedgerOver, Account
<1>3. CASE ledger = balances
  BY <1>2, <1>3 DEF Own
<1>4. ASSUME NEW who \in Accounts, NEW v \in Nat,
             \/ CanReserve(balances, who, v) /\ ledger = Reserve(balances, who, v)
             \/ ledger = Unreserve(balances, who, v)
      PROVE  TokensOf(ledger[a]) = Own(a)
  BY <1>1, <1>4, OwnTokens
<1>5. ASSUME NEW who \in Accounts, NEW v \in Nat, CanWithdraw(balances, Pot, v),
             ledger = Payout(who, v)
      PROVE  TokensOf(ledger[a]) = 0 \/ TokensOf(ledger[a]) >= ExistentialDeposit
  <2>1. PICK mid : mid = WithdrawAllowDeath(balances, Pot, v)
    OBVIOUS
  <2>2. mid \in LedgerOver(Holders) /\ mid[a] = balances[a] /\ who \in Holders
    <3>1. mid \in LedgerOver(Holders) /\ \A h \in Holders : h # Pot => mid[h] = balances[h]
      BY <1>1, <1>5, <2>1, WithdrawAllowDeathEffect
    <3> QED
      BY <3>1, <1>1 DEF Holders
  <2>3. ledger = DepositCreating(mid, who, v)
    BY <1>5, <2>1 DEF Payout
  <2>4. CASE who # a
    <3>1. mid \in LedgerOver(Holders) /\ who \in Holders
      BY <2>2
    <3>2. \A h \in Holders : h # who => ledger[h] = mid[h]
      BY <2>3, <3>1, DepositEffect
    <3>3. ledger[a] = balances[a]
      BY <2>2, <2>4, <3>2, <1>1
    <3> QED
      BY <3>3, <1>2 DEF Own
  <2>5. CASE who = a
    <3>1. PICK f, r : f = balances[a].free /\ r = balances[a].reserved
      OBVIOUS
    <3>2. f \in Nat /\ r \in Nat /\ f + r = Own(a)
      BY <3>1, <1>1 DEF LedgerOver, Account, Own, TokensOf
    <3>3. CASE ledger[a].free = mid[a].free + v
      <4>1. TokensOf(ledger[a]) = (f + v) + r
        <5>1. mid \in LedgerOver(Holders) /\ a \in Holders /\ ledger = DepositCreating(mid, a, v)
          BY <2>2, <2>3, <2>5
        <5>2. ledger[a].reserved = mid[a].reserved
          BY <5>1, DepositEffect
        <5> QED
          BY <5>2, <2>2, <3>1, <3>3 DEF TokensOf
      <4>2. CASE mid[a] = EmptyAccount /\ v < ExistentialDeposit
        BY <2>2, <2>3, <2>5, <4>2 DEF DepositCreating, EmptyAccount, TokensOf
      <4>3. CASE mid[a] = EmptyAccount /\ ~(v < ExistentialDeposit)
        <5>1. f = 0 /\ r = 0
          BY <2>2, <3>1, <4>3 DEF EmptyAccount
        <5> QED
          BY <4>1, <4>3, <5>1, <1>1
      <4>4. CASE mid[a] # EmptyAccount
        <5>1. balances[a] = [free |-> f, reserved |-> r]
          BY <3>1, <1>1 DEF LedgerOver, Account
        <5>2. f # 0 \/ r # 0
          BY <5>1, <2>2, <4>4 DEF EmptyAccount
        <5>3. f + r >= ExistentialDeposit
          BY <5>2, <3>2, <1>2
        <5> QED
          BY <4>1, <5>3, <3>2, <1>1
      <4> QED
        BY <4>2, <4>3, <4>4
    <3>4. CASE ledger = mid
      BY <2>2, <3>4, <1>2 DEF Own
    <3>5. mid \in LedgerOver(Holders) /\ a \in Holders /\ ledger = DepositCreating(mid, a, v)
      BY <2>2, <2>3, <2>5
    <3>6. ledger[a].free = mid[a].free + v \/ ledger = mid
      BY <3>5, DepositEffect
    <3> QED
      BY <3>3, <3>4, <3>6
  <2> QED
    BY <2>4, <2>5
<1> QED
  BY <1>2, <1>3, <1>4, <1>5 DEF Moved

LEMMA AliveNext ==
  ASSUME IndInv, AccountsAlive, StakingSees
  PROVE  AccountsAlive'
<1>1. TypeOK
  BY DEF IndInv
<1>2. CASE TokensMoved
  BY <1>2 DEF TokensMoved, AccountsAlive, Alive
<1>3. CASE Moved(balances')
  <2>1. \A a \in Accounts : TokensOf(balances'[a]) = 0
                              \/ TokensOf(balances'[a]) >= ExistentialDeposit
    BY <1>1, <1>3, MovedAlive
  <2> QED
    BY <2>1 DEF AccountsAlive, Alive, Own
<1>4. StartEra \/ ContinueEra \/ UNCHANGED vars => balances' = balances
  BY DEF StartEra, ContinueEra, vars
<1> QED
  BY <1>2, <1>3, <1>4, PalletCallMoves DEF StakingSees, PalletStep, Moved

LEMMA TokensMovedEntitled ==
  ASSUME Entitled, AccountsAlive, TokensMoved, GenesisAlive, IndInv'
  PROVE  Entitled'
<1>1. UNCHANGED <<era, providerInfo, providerEraInfo, delegationInfo>>
  BY DEF TokensMoved
<1>2. ASSUME NEW a \in Accounts, Own(a) > 0
      PROVE  Own(a)' > 0
  <2>1. Own(a) # 0
    BY <1>2
  <2>2. Own(a)' >= ExistentialDeposit
    BY <2>1 DEF AccountsAlive, Alive, TokensMoved
  <2>3. Own(a)' \in Int
    BY DEF Own, TokensOf, IndInv, TypeOK, Holders, Account
  <2> QED
    BY <2>2, <2>3, CurrencyAssumption DEF GenesisAlive
<1> QED
  BY <1>1, <1>2 DEF Entitled, IsRegistered, LatestEra

(* What holds of the staking pallet within the runtime where no account    *)
(* holds less than the existential deposit.                                *)
PayInv == StakingInv /\ Entitled /\ AccountsAlive

LEMMA PayInvInit ==
  ASSUME BlockIssuanceFits, GenesisAlive
  PROVE  RuntimeInit => PayInv
<1> SUFFICES ASSUME RuntimeInit PROVE PayInv
  OBVIOUS
<1>1. Init /\ StakingInv
  BY StakingInvInit DEF RuntimeInit
<1>2. ASSUME NEW a \in Accounts PROVE Alive(a)
  <2>1. balances[a] = [free |-> InitialBalance, reserved |-> 0]
    BY <1>1, StakingAssumption DEF Init, Holders
  <2>2. Own(a) = InitialBalance
    BY <2>1, StakingAssumption DEF Own, TokensOf
  <2> QED
    BY <2>2 DEF Alive, GenesisAlive
<1> QED
  BY <1>1, <1>2, InitEntitled DEF PayInv, AccountsAlive

LEMMA PayInvNext ==
  ASSUME BlockIssuanceFits, AmountsFit, GenesisAlive, PayInv, [RuntimeNext]_runtimeVars
  PROVE  PayInv'
<1>1. StakingInv /\ Entitled /\ AccountsAlive /\ LedgerInv /\ IndInv /\ RuntimeInv
  BY DEF PayInv, StakingInv, Backed, RuntimeInv
<1>2. StakingInv' /\ StakingSees
  BY <1>1, StakingInvNext, RuntimeSeen
<1>3. AccountsAlive'
  BY <1>1, <1>2, AliveNext
<1>4. Entitled'
  <2>1. CASE TokensMoved
    BY <1>1, <1>2, <2>1, TokensMovedEntitled DEF StakingInv, LedgerInv
  <2>2. CASE PalletStep \/ UNCHANGED vars
    BY <1>1, <2>2, StepIsNext, NextEntitled
  <2> QED
    BY <1>2, <2>1, <2>2 DEF StakingSees
<1> QED
  BY <1>2, <1>3, <1>4 DEF PayInv

(* Within the runtime too a delegator's stake of a finished era is paid out *)
(* exactly once, at its share, whatever else happens to its account.       *)
THEOREM RuntimePaysEntitlementsOnce ==
  ASSUME BlockIssuanceFits, AmountsFit, GenesisAlive
  PROVE  RuntimeSpec => EntitlementsPaidOnce
<1>1. RuntimeInit => PayInv
  BY PayInvInit
<1>2. PayInv /\ [RuntimeNext]_runtimeVars => PayInv'
  BY PayInvNext
<1>3. PayInv /\ [RuntimeNext]_runtimeVars => [PaidOnce]_vars
  <2> SUFFICES ASSUME PayInv, [RuntimeNext]_runtimeVars PROVE [PaidOnce]_vars
    OBVIOUS
  <2>1. StakingSees /\ LedgerInv /\ Entitled
    BY RuntimeSeen DEF PayInv, StakingInv, Backed
  <2>2. CASE TokensMoved
    BY <2>2 DEF TokensMoved, PaidOnce, EntitlementKept
  <2>3. CASE PalletStep \/ UNCHANGED vars
    BY <2>1, <2>3, StepIsNext, NextPaysOnce
  <2> QED
    BY <2>1, <2>2, <2>3 DEF StakingSees
<1> QED
  BY <1>1, <1>2, <1>3, PTL DEF RuntimeSpec, EntitlementsPaidOnce, PaidOnce

LEMMA TokensMovedMapped ==
  ASSUME TokensMoved
  PROVE  UNCHANGED Ledger!ledgerVars
<1>1. /\ UNCHANGED <<era, providerInfo, providerEraInfo, delegationInfo, unbondingInfo>>
      /\ \A a \in Accounts : balances'[a].reserved = balances[a].reserved
  BY DEF TokensMoved
<1>2. \A q \in Providers : BondHeld(q)' = BondHeld(q)
  BY <1>1 DEF BondHeld, ProviderEraInfoOrDefault, IsRegistered, LatestEra
<1>3. LockedFunds' = LockedFunds
  BY <1>1 DEF LockedFunds
<1>4. /\ Phases' = Phases /\ ClosingEras' = ClosingEras /\ Owners' = Owners
      /\ Bonds' = Bonds /\ Stakes' = Stakes /\ EarnedStakes' = EarnedStakes
      /\ Unlocking' = Unlocking
  BY <1>1, <1>2, ProvidersFrame, BondsFrame, StakesFrame, EarnedFrame, UnlockingFrame
<1> QED
  BY <1>1, <1>3, <1>4 DEF Ledger!ledgerVars

(* The runtime implements the ledger of stakes: what the other pallets do  *)
(* to the accounts is invisible in it.                                     *)
THEOREM RuntimeImplementsStakeLedger ==
  ASSUME BlockIssuanceFits, AmountsFit, GenesisAlive, BlockIssuance <= Issuance
  PROVE  RuntimeSpec => ImplementsStakeLedger
<1>1. RuntimeInit => PayInv /\ Ledger!Init
  BY PayInvInit, StakeLedgerInit DEF RuntimeInit
<1>2. PayInv /\ [RuntimeNext]_runtimeVars => PayInv'
  BY PayInvNext
<1>3. PayInv /\ [RuntimeNext]_runtimeVars => [Ledger!Next]_(Ledger!ledgerVars)
  <2> SUFFICES ASSUME PayInv, [RuntimeNext]_runtimeVars
               PROVE  [Ledger!Next]_(Ledger!ledgerVars)
    OBVIOUS
  <2>1. StakingSees /\ LedgerInv /\ Entitled /\ Backed
    BY RuntimeSeen DEF PayInv, StakingInv, Backed
  <2>2. WithinIssuance
    <3>1. Supply(balances) <= BlockIssuance /\ Supply(balances) \in Nat
      BY <2>1, BackedIssued, IssuedType DEF Issued, Backed, IssuedTyped
    <3>2. BlockIssuance \in Nat /\ Issuance \in Nat
      BY StakingAssumption, BlockRewardAssumption, CurrencyAssumption, GenesisType
         DEF BlockIssuance, Issuance
    <3> QED
      BY <3>1, <3>2 DEF WithinIssuance
  <2>3. CASE TokensMoved
    BY <2>3, TokensMovedMapped
  <2>4. CASE PalletStep \/ UNCHANGED vars
    BY <2>1, <2>2, <2>4, StepIsNext, StakeLedgerNext
  <2> QED
    BY <2>1, <2>3, <2>4 DEF StakingSees
<1> QED
  BY <1>1, <1>2, <1>3, PTL DEF RuntimeSpec, ImplementsStakeLedger, Ledger!Spec

(* Within the runtime too no finished era owes more than it collected.     *)
THEOREM RuntimeErasPayWhatTheyCollected ==
  ASSUME BlockIssuanceFits, AmountsFit, Accounts # {}, Providers # {}
  PROVE  RuntimeSpec => []ClaimsBacked
<1>1. RuntimeInit => StakingInv
  BY StakingInvInit
<1>2. StakingInv /\ [RuntimeNext]_runtimeVars => StakingInv'
  BY StakingInvNext
<1>3. StakingInv => ClaimsBacked
  BY ErasBacked DEF StakingInv
<1> QED
  BY <1>1, <1>2, <1>3, PTL DEF RuntimeSpec

LEMMA TokensMovedSolvent ==
  ASSUME LedgerInv, LedgerInv', TokensMoved, Accounts # {}, Providers # {}
  PROVE  ShortByDust
<1>1. UNCHANGED <<era, eraState, providerInfo, providerEraInfo, delegationInfo>>
  BY DEF TokensMoved
<1>2. UnclaimedRewards' = UnclaimedRewards
  <2>1. ASSUME NEW p \in Providers, NEW e \in 0..(era.current - 1)
        PROVE  Claims(p, e)' = Claims(p, e)
    <3>1. CountedIn(p, e)' <=> CountedIn(p, e)
      BY <1>1 DEF CountedIn, IsRegistered, IsActiveProvider, IsUnregistered, LatestEra
    <3> QED
      BY <1>1, <3>1, ClaimsKept
  <2> QED
    BY <1>1, <2>1, ClaimsStep
<1>3. /\ era.current * RoundingSlack \in Nat /\ UnclaimedRewards \in Nat
      /\ balances[Pot].free \in Nat /\ rewardAccumulator \in Nat
      /\ balances'[Pot].free \in Nat /\ rewardAccumulator' \in Nat
  <2>1. TypeOK /\ TypeOK' /\ RoundingSlack \in Nat /\ UnclaimedRewards \in Nat
    BY SlackType, ClaimsType DEF LedgerInv, IndInv, ClaimsTyped
  <2>2. era.current \in Nat
    BY StateTypes DEF LedgerInv, IndInv
  <2>3. era.current * RoundingSlack \in Nat
    <3>1. \A c, slack \in Nat : c * slack \in Nat
      OBVIOUS
    <3> QED
      BY ONLY <2>1, <2>2, <3>1
  <2>4. /\ balances[Pot].free \in Nat /\ rewardAccumulator \in Nat
        /\ balances'[Pot].free \in Nat /\ rewardAccumulator' \in Nat
    BY <2>1 DEF TypeOK, Holders, Account
  <2> QED
    BY ONLY <2>1, <2>3, <2>4
<1>4. RoundingSlack' = RoundingSlack /\ era'.current = era.current
  BY <1>1 DEF RoundingSlack
<1>5. PICK k, open, pot, pot2, acc, acc2, s, s2 :
        /\ k = era.current * RoundingSlack /\ open = UnclaimedRewards
        /\ pot = balances[Pot].free /\ pot2 = balances'[Pot].free
        /\ acc = rewardAccumulator /\ acc2 = rewardAccumulator'
        /\ s = PotShortfall /\ s2 = PotShortfall'
  OBVIOUS
<1>6. /\ k \in Nat /\ open \in Nat /\ pot \in Nat /\ pot2 \in Nat /\ acc \in Nat /\ acc2 \in Nat
      /\ s = open + acc - (pot + k)
  BY <1>3, <1>5 DEF PotShortfall
<1>7. s2 = open + acc2 - (pot2 + k)
  BY <1>2, <1>4, <1>5 DEF PotShortfall
<1>8. pot2 - pot >= acc2 - acc \/ (pot2 = 0 /\ pot = 0 /\ acc2 - acc < ExistentialDeposit)
  BY <1>5 DEF TokensMoved
<1>9. s2 <= s \/ (pot2 = 0 /\ s2 - s < ExistentialDeposit)
  BY <1>6, <1>7, <1>8, CurrencyAssumption
<1> QED
  BY <1>5, <1>9 DEF ShortByDust

(* Within the runtime too the pallet's account runs short of its claims by *)
(* dust alone: each payment for a project or share of the block reward     *)
(* that is counted as reward arrives in it.                                *)
THEOREM RuntimePotShortByDust ==
  ASSUME BlockIssuanceFits, AmountsFit, GenesisAlive, Accounts # {}, Providers # {}
  PROVE  RuntimeSpec => PotShortByDust
<1>1. RuntimeInit => PayInv
  BY PayInvInit
<1>2. PayInv /\ [RuntimeNext]_runtimeVars => PayInv'
  BY PayInvNext
<1>3. PayInv /\ PayInv' /\ [RuntimeNext]_runtimeVars => [ShortByDust]_vars
  <2> SUFFICES ASSUME PayInv, PayInv', [RuntimeNext]_runtimeVars
               PROVE  [ShortByDust]_vars
    OBVIOUS
  <2>1. StakingSees /\ LedgerInv /\ Totals /\ EraSums /\ Entitled /\ LedgerInv'
    BY RuntimeSeen DEF PayInv, StakingInv, Backed
  <2>2. CASE TokensMoved
    BY <2>1, <2>2, TokensMovedSolvent
  <2>3. CASE PalletStep \/ UNCHANGED vars
    BY <2>1, <2>3, StepIsNext, NextSolvent
  <2> QED
    BY <2>1, <2>2, <2>3 DEF StakingSees
<1> QED
  BY <1>1, <1>2, <1>3, PTL DEF RuntimeSpec, PotShortByDust, ShortByDust
=============================================================================
