-------------------------- MODULE StakingRefinement -------------------------
(* DapiStaking implements StakeLedger: how the pallet's storage represents *)
(* the amounts of the ledger.                                              *)
EXTENDS DapiStaking

(* The era still counts for the provider's delegators.                     *)
EraEarned(p, e) ==
  /\ IsRegistered(p)
  /\ e <= era.current
  /\ providerInfo[p].status # Active => e < providerInfo[p].status

PhaseOf(p) ==
  CASE ~IsRegistered(p) -> "new"
    [] IsActiveProvider(p) -> "active"
    [] IsUnregistered(p) -> "closed"

ChunksAt(a, e) ==
  {i \in DOMAIN unbondingInfo[a] : unbondingInfo[a][i].unlock_era = e}

(* What an account gets back in an era.                                    *)
UnlocksIn(a, e) == SumOver(ChunksAt(a, e), LAMBDA i : unbondingInfo[a][i].amount)

Phases == [p \in Providers |-> PhaseOf(p)]

ClosingEras ==
  [p \in Providers |-> IF IsUnregistered(p) THEN providerInfo[p].status ELSE 0]

Owners ==
  [p \in Providers |-> IF IsRegistered(p) THEN providerInfo[p].owner ELSE None]

Bonds == [p \in Providers |-> BondHeld(p)]

Stakes ==
  [a \in Accounts |-> [p \in Providers |-> LatestStakedValue(delegationInfo[a][p])]]

EarnedStakes ==
  [a \in Accounts |-> [p \in Providers |-> [e \in Eras |->
     IF EraEarned(p, e) THEN StakedAt(delegationInfo[a][p], e) ELSE 0]]]

Unlocking ==
  [a \in Accounts |-> [e \in 0..(MaxEra + UnbondingPeriod) |-> UnlocksIn(a, e)]]

LockedFunds == [a \in Accounts |-> balances[a].reserved]

(* All tokens there can be: no stake is larger.                            *)
Issuance == InitialBalance * Cardinality(Accounts) + MaxEraRewards * (MaxEra + 1)

Ledger ==
  INSTANCE StakeLedger WITH
    Values <- Amounts \cup 0..Issuance,
    Nobody <- None,
    now <- era.current,
    phase <- Phases,
    closedIn <- ClosingEras,
    owner <- Owners,
    bond <- Bonds,
    stake <- Stakes,
    earned <- EarnedStakes,
    unlocking <- Unlocking,
    locked <- LockedFunds

(* Every step of the pallet is a step of the ledger or changes nothing in  *)
(* it: the stake vectors, the chunk lists and the per-era snapshots keep   *)
(* the promises of StakeLedger.                                            *)
ImplementsStakeLedger == Ledger!Spec
=============================================================================
