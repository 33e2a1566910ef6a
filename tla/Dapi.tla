-------------------------------- MODULE Dapi --------------------------------
(***************************************************************************)
(* The dAPI pallet (pallets/dapi) on top of the staking pallet: consumers  *)
(* pay for a quota of requests, regulators admit providers and report      *)
(* them, and a provider's owner activates it with a bond that the staking  *)
(* pallet holds.                                                           *)
(*                                                                         *)
(* The two pallets keep records of their own about a provider.  A call of  *)
(* this pallet into the other one either succeeds or ends the call before  *)
(* anything is written.                                                    *)
(***************************************************************************)
EXTENDS DapiStaking

CONSTANTS
  ProjectIds,
  ChainNames,           \* chain ids, `chainName.networkName`
  Reasons,              \* ProviderDeactivateReason
  UnRegistered,         \* the reason when the owner unregisters
  QuotaUnit,            \* tokens for one request, 10^15
  GenesisRegulators,
  GenesisChainIds,
  Deposits,             \* payments of consumers
  Usages                \* requests reported by regulators

ASSUME DapiAssumption ==
  /\ IsFiniteSet(ProjectIds)
  /\ UnRegistered \in Reasons
  /\ {"Registered", "Active"} \cap Reasons = {}
  /\ QuotaUnit \in Nat \ {0}
  /\ GenesisRegulators \subseteq Accounts
  /\ GenesisChainIds \subseteq ChainNames
  /\ Deposits \subseteq 0..MaxBalance   \* of type Balance
  /\ Usages \subseteq Nat

VARIABLES
  projects,        \* Projects
  dapiProviders,   \* Providers
  regulators,      \* Regulators
  chainIds         \* ChainIds

dapiVars == <<projects, dapiProviders, regulators, chainIds>>

Project == [consumer : Accounts, chain_id : ChainNames, quota : Nat, usage : Nat]

ProviderStatus == {"Registered", "Active"} \cup Reasons

Provider == [owner : Accounts, chain_id : ChainNames, status : ProviderStatus]

(* The absence of an entry is no entry.                                    *)
ASSUME DapiNoneAssumption ==
  /\ None \notin Project
  /\ None \notin Provider

DapiInit ==
  /\ projects = [j \in ProjectIds |-> None]
  /\ dapiProviders = [p \in Providers |-> None]
  /\ regulators = GenesisRegulators
  /\ chainIds = GenesisChainIds

----------------------------------------------------------------------------
(* Projects                                                                *)

(* Faulty: a started unit counts in full.                                  *)
QuotaRoundedUp(amount) == (amount + QuotaUnit - 1) \div QuotaUnit

CalculateQuota(amount) == amount \div QuotaUnit

(* Faulty: what is not free is taken from the reserved balance.            *)
PayFromReserve(consumer, deposit) ==
  LET payer == balances[consumer]
      short == SatSub(deposit, payer.free)
  IN  /\ rewardAccumulator + deposit <= MaxEraRewards
      /\ short <= payer.reserved
      /\ rewardAccumulator' = SatAdd(rewardAccumulator, deposit)
      /\ balances' = DepositCreating(
           [balances EXCEPT ![consumer] = [free     |-> SatSub(payer.free, deposit),
                                           reserved |-> payer.reserved - short]],
           Pot, deposit)
      /\ UNCHANGED <<block, era, eraState, providerInfo, providerEraInfo,
                     delegationInfo, unbondingInfo>>

(* The payment is withdrawn and becomes rewards of the running era         *)
(* (OnProjectPayment).                                                     *)
PayForProject(consumer, deposit) ==
  /\ CanWithdrawKeepAlive(balances, consumer, deposit)
  /\ rewardAccumulator + deposit <= MaxEraRewards
  /\ rewardAccumulator' = SatAdd(rewardAccumulator, deposit)
  /\ balances' = DepositCreating(WithdrawKeepAlive(balances, consumer, deposit),
                                 Pot, deposit)
  /\ UNCHANGED <<block, era, eraState, providerInfo, providerEraInfo,
                 delegationInfo, unbondingInfo>>

RegisterProject(consumer, j, chain, deposit) ==
  /\ projects[j] = None
  /\ chain \in chainIds
  /\ PayForProject(consumer, deposit)
  /\ projects' = [projects EXCEPT ![j] =
                    [consumer |-> consumer, chain_id |-> chain,
                     quota |-> CalculateQuota(deposit), usage |-> 0]]
  /\ UNCHANGED <<dapiProviders, regulators, chainIds>>

(* Anybody may pay for a project.                                          *)
DepositProject(consumer, j, deposit) ==
  /\ projects[j] # None
  /\ PayForProject(consumer, deposit)
  /\ projects' = [projects EXCEPT ![j].quota =
                    SatAdd(@, CalculateQuota(deposit))]
  /\ UNCHANGED <<dapiProviders, regulators, chainIds>>

(* Checked when the transaction is admitted (PreValidateRegulatorCalls)    *)
(* and again by the call itself.                                           *)
IsRegulator(who) == who \in regulators

(* Faulty: the quota is not looked at.                                     *)
AddUsage(project, usage) == SatAdd(project.usage, usage)

NewUsage(project, usage) ==
  LET sum == SatAdd(project.usage, usage)
  IN  IF sum > project.quota THEN project.quota ELSE sum

SubmitProjectUsage(regulator, j, usage) ==
  /\ IsRegulator(regulator)
  /\ projects[j] # None
  /\ projects' = [projects EXCEPT ![j].usage = NewUsage(projects[j], usage)]
  /\ UNCHANGED <<block, stakingVars, balances, dapiProviders, regulators,
                 chainIds>>

----------------------------------------------------------------------------
(* Providers                                                               *)

AdmitProvider(regulator, p, owner, chain) ==
  /\ IsRegulator(regulator)
  /\ dapiProviders[p] = None
  /\ chain \in chainIds
  /\ dapiProviders' = [dapiProviders EXCEPT ![p] =
                         [owner |-> owner, chain_id |-> chain,
                          status |-> "Registered"]]
  /\ UNCHANGED <<block, stakingVars, balances, projects, regulators, chainIds>>

DepositProvider(owner, p, deposit) ==
  /\ dapiProviders[p] # None
  /\ dapiProviders[p].owner = owner
  /\ dapiProviders[p].status = "Registered"
  /\ RegisterProvider(owner, p, deposit)
  /\ dapiProviders' = [dapiProviders EXCEPT ![p].status = "Active"]
  /\ UNCHANGED <<projects, regulators, chainIds>>

(* Faulty: the staking pallet is not told.                                 *)
DeactivateHere(p, reason) ==
  /\ dapiProviders[p] # None
  /\ dapiProviders[p].status = "Active"
  /\ dapiProviders' = [dapiProviders EXCEPT ![p].status = reason]
  /\ UNCHANGED <<block, stakingVars, balances, projects, regulators, chainIds>>

(* Faulty: the status is not looked at before.                             *)
DeactivateAgain(p, reason) ==
  /\ dapiProviders[p] # None
  /\ IF IsActiveProvider(p) THEN UnregisterProvider(p)
                            ELSE UNCHANGED <<block, stakingVars, balances>>
  /\ dapiProviders' = [dapiProviders EXCEPT ![p].status = reason]
  /\ UNCHANGED <<projects, regulators, chainIds>>

Deactivate(p, reason) ==
  /\ dapiProviders[p] # None
  /\ dapiProviders[p].status = "Active"
  /\ UnregisterProvider(p)
  /\ dapiProviders' = [dapiProviders EXCEPT ![p].status = reason]
  /\ UNCHANGED <<projects, regulators, chainIds>>

UnregisterOwnProvider(owner, p) ==
  /\ dapiProviders[p] # None
  /\ dapiProviders[p].owner = owner
  /\ Deactivate(p, UnRegistered)

ReportProviderOffence(regulator, p, reason) ==
  /\ IsRegulator(regulator)
  /\ Deactivate(p, reason)

----------------------------------------------------------------------------
(* Calls of root                                                           *)

AddRegulator(a) ==
  /\ ~IsRegulator(a)
  /\ regulators' = regulators \cup {a}
  /\ UNCHANGED <<block, stakingVars, balances, projects, dapiProviders, chainIds>>

RemoveRegulator(a) ==
  /\ IsRegulator(a)
  /\ regulators' = regulators \ {a}
  /\ UNCHANGED <<block, stakingVars, balances, projects, dapiProviders, chainIds>>

AddChainId(c) ==
  /\ c \notin chainIds
  /\ chainIds' = chainIds \cup {c}
  /\ UNCHANGED <<block, stakingVars, balances, projects, dapiProviders, regulators>>

RemoveChainId(c) ==
  /\ c \in chainIds
  /\ chainIds' = chainIds \ {c}
  /\ UNCHANGED <<block, stakingVars, balances, projects, dapiProviders, regulators>>

DapiCall ==
  \/ \E a \in Accounts, j \in ProjectIds, v \in Deposits :
       \/ \E c \in ChainNames : RegisterProject(a, j, c, v)
       \/ DepositProject(a, j, v)
  \/ \E a \in Accounts, j \in ProjectIds, u \in Usages : SubmitProjectUsage(a, j, u)
  \/ \E a, b \in Accounts, p \in Providers, c \in ChainNames : AdmitProvider(a, p, b, c)
  \/ \E a \in Accounts, p \in Providers :
       \/ \E v \in Amounts : DepositProvider(a, p, v)
       \/ UnregisterOwnProvider(a, p)
       \/ \E r \in Reasons : ReportProviderOffence(a, p, r)
  \/ \E a \in Accounts : AddRegulator(a) \/ RemoveRegulator(a)
  \/ \E c \in ChainNames : AddChainId(c) \/ RemoveChainId(c)
=============================================================================
