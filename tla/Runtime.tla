------------------------------ MODULE Runtime -------------------------------
(***************************************************************************)
(* The runtime (runtime/keiko, runtime/local): a block goes through its    *)
(* stages in order, and the pallets call each other.                       *)
(*                                                                         *)
(*   "hooks"     note_author of the validator set has paid the            *)
(*               validators' pot to the block's author; on_initialize of   *)
(*               the staking pallet follows, which may end an era          *)
(*   "inherent"  the timestamp is set: the block reward is issued and      *)
(*               split between the validators' pot and the staking pallet  *)
(*   "calls"     the calls of accounts and of root, in any order           *)
(***************************************************************************)
EXTENDS Dapi, BlockReward

VARIABLES
  stage,          \* of the block being executed
  validatorPot    \* the account of the validator set pallet

runtimeVars == <<vars, dapiVars, rewardConfig, stage, validatorPot>>

RuntimeInit ==
  /\ Init
  /\ DapiInit
  /\ BlockRewardInit
  /\ stage = "calls"
  /\ validatorPot = EmptyAccount

----------------------------------------------------------------------------
(* A new block begins when the calls of the last one are done; the pot but *)
(* for the existential deposit goes to its author, if the transfer leaves  *)
(* the author with an existential deposit.                                 *)
PayBlockAuthor(author) ==
  LET due    == SatSub(validatorPot.free, ExistentialDeposit)
      reward == IF balances[author].free + balances[author].reserved + due
                     >= ExistentialDeposit
                THEN due ELSE 0
  IN  /\ stage = "calls"
      /\ block < MaxBlock
      /\ stage' = "hooks"
      /\ validatorPot' = [validatorPot EXCEPT !.free = @ - reward]
      /\ balances' = [balances EXCEPT ![author].free = @ + reward]
      /\ UNCHANGED <<block, stakingVars, dapiVars, rewardConfig>>

OnInitialize ==
  /\ stage = "hooks"
  /\ StartEra \/ ContinueEra
  /\ stage' = "inherent"
  /\ UNCHANGED <<dapiVars, rewardConfig, validatorPot>>

ToValidatorPot(amount) ==
  IF validatorPot = EmptyAccount /\ amount < ExistentialDeposit
  THEN validatorPot
  ELSE [validatorPot EXCEPT !.free = @ + amount]

(* BeneficiaryPayout of the two parts.                                     *)
OnTimestampSet ==
  /\ stage = "inherent"
  /\ validatorPot' = ToValidatorPot(ValidatorsBalance)
  /\ HandleImbalance(ProvidersBalance)
  /\ stage' = "calls"
  /\ UNCHANGED <<dapiVars, rewardConfig>>

----------------------------------------------------------------------------
(* The calls of the staking pallet; its registration is called by the dAPI *)
(* pallet only.                                                            *)
StakingCall ==
  \/ \E new \in EraLengths : SetBlocksPerEra(new)
  \/ \E a \in Accounts, p \in Providers, v \in Amounts :
       \/ ProviderBondMore(a, p, v)
       \/ ProviderBondLess(a, p, v)
       \/ Delegate(a, p, v)
       \/ DelegatorUnstake(a, p, v)
  \/ \E a \in Accounts : WithdrawUnbonded(a)
  \/ \E p \in Providers, e \in Eras : ClaimProvider(p, e)
  \/ \E a \in Accounts, p \in Providers :
       ClaimDelegator(a, p) \/ DelegatorWithdrawUnregistered(a, p)
  \/ \E p \in Providers : ProviderWithdrawUnregistered(p)

Call ==
  /\ stage = "calls"
  /\ InBlock
  /\ \/ StakingCall /\ UNCHANGED <<dapiVars, rewardConfig>>
     \/ DapiCall /\ UNCHANGED rewardConfig
     \/ /\ \E config \in RewardConfigs : SetConfig(config)
        /\ UNCHANGED <<vars, dapiVars>>
  /\ UNCHANGED <<stage, validatorPot>>

RuntimeNext ==
  \/ \E author \in Accounts : PayBlockAuthor(author)
  \/ OnInitialize
  \/ OnTimestampSet
  \/ Call

RuntimeSpec == RuntimeInit /\ [][RuntimeNext]_runtimeVars

----------------------------------------------------------------------------
(* Properties                                                              *)

(* Every storage item of the dAPI and the block reward pallet has its      *)
(* type, and a project never has used more than its quota.                 *)
RuntimeTypeOK ==
  /\ projects \in [ProjectIds -> Project \cup {None}]
  /\ dapiProviders \in [Providers -> Provider \cup {None}]
  /\ regulators \subseteq Accounts
  /\ chainIds \subseteq ChainNames
  /\ rewardConfig \in DistributionConfig
  /\ stage \in {"calls", "hooks", "inherent"}
  /\ validatorPot \in Account
  /\ \A j \in ProjectIds :
       projects[j] # None => projects[j].usage <= projects[j].quota

(* The two pallets agree on every provider: it is bonded exactly when the  *)
(* dAPI pallet has it as active, with the same owner, and it is leaving    *)
(* the staking pallet exactly when it was deactivated.                     *)
StatusesAgree ==
  \A p \in Providers :
    LET here == dapiProviders[p]
    IN  /\ IsRegistered(p) => here # None /\ here.owner = providerInfo[p].owner
        /\ here # None =>
             /\ here.status = "Registered" <=> ~IsRegistered(p)
             /\ here.status = "Active" <=> IsActiveProvider(p)
             /\ here.status \in Reasons <=> IsUnregistered(p)

(* The life of a provider, read from the records of both pallets.          *)
LifeOf(p) ==
  IF dapiProviders[p] = None THEN "absent"
  ELSE IF IsRegistered(p) /\ providerInfo[p].bond_withdrawn THEN "redeemed"
  ELSE IF dapiProviders[p].status = "Registered" THEN "admitted"
  ELSE IF dapiProviders[p].status = "Active" THEN "serving"
  ELSE "leaving"

ReasonOf(p) ==
  IF dapiProviders[p] # None /\ dapiProviders[p].status \in Reasons
  THEN dapiProviders[p].status ELSE None

Life ==
  INSTANCE ProviderLife WITH
    Nobody <- None,
    now <- era.current,
    life <- [p \in Providers |-> LifeOf(p)],
    owner <- [p \in Providers |-> IF dapiProviders[p] = None THEN None
                                  ELSE dapiProviders[p].owner],
    reason <- [p \in Providers |-> ReasonOf(p)],
    leftIn <- [p \in Providers |->
                 IF IsUnregistered(p) THEN providerInfo[p].status ELSE 0]

(* The dAPI and the staking pallet together give every provider one life:  *)
(* of an owner that unregisters and a regulator that reports only one gets *)
(* through, its reason and its era are final, a provider that has left     *)
(* never serves again, and its bond comes back once and not too early.     *)
ImplementsProviderLife == Life!Spec

QuotaValue ==
  SumOver({j \in ProjectIds : projects[j] # None},
          LAMBDA j : projects[j].quota * QuotaUnit)

BlockRewardsIssued ==
  (IF stage = "inherent" THEN block - 1 ELSE block) * RewardAmount

(* What is missing of the tokens of genesis and one reward for every block. *)
Missing ==
  InitialBalance * Cardinality(Accounts) + BlockRewardsIssued
    - SumOver(Holders, LAMBDA h : balances[h].free + balances[h].reserved)
    - validatorPot.free

(* Payments, payouts to authors, claims and the split of a reward create   *)
(* no tokens and lose none but dust: a deposit below the existential       *)
(* deposit that finds no account (lib.rs:834 of the staking pallet, whose  *)
(* accumulator counts it all the same), or the rest of an account that a   *)
(* claim removed.  Either is less than an existential deposit, and the     *)
(* account does not exist afterwards.                                      *)
TokensKept ==
  [][/\ Missing' - Missing \in 0..(2 * SatSub(ExistentialDeposit, 1))
     /\ Missing' > Missing =>
          EmptyAccount \in {validatorPot'} \cup {balances'[h] : h \in Holders}]_runtimeVars

(* Quota is only granted for rewards the staking pallet gets in the same   *)
(* step: no rounding gives a project more requests than were paid for.     *)
QuotaPaidFor ==
  [][QuotaValue' > QuotaValue =>
       QuotaValue' - QuotaValue <= rewardAccumulator' - rewardAccumulator]_runtimeVars
=============================================================================
