---------------------------- MODULE StakeLedger -----------------------------
(***************************************************************************)
(* What the staking pallet promises its users, without the pallet's data   *)
(* structures: there are no vectors of stakes, no lists of chunks and no   *)
(* snapshots per era, only amounts.                                        *)
(*                                                                         *)
(*   - Tokens are locked for exactly three reasons: the bond of a provider *)
(*     one owns, a stake on a provider, and an amount that is unlocking.   *)
(*   - What is taken out of a bond or a stake unlocks UnbondingPeriod eras *)
(*     later and not before.                                               *)
(*   - A stake on an active provider earns a share in every era, with the  *)
(*     amount it has at the end of the era.  A share that was earned stays *)
(*     until it is claimed, oldest first, and can be claimed once.         *)
(*   - A provider that closes earns nothing in the era in which it closes. *)
(*     Its bond and the stakes on it are released after the unbonding      *)
(*     period, a stake only when everything it earned was claimed.         *)
(***************************************************************************)
EXTENDS Integers, Functions

CONSTANTS Accounts, Providers, MaxEra, UnbondingPeriod,
          Values,      \* amounts that can be moved at once
          Nobody       \* the owner of a provider that was never opened

Eras == 0..MaxEra

UnlockEras == 0..(MaxEra + UnbondingPeriod)

VARIABLES
  now,         \* the current era
  phase,       \* of a provider: "new", "active" or "closed"
  closedIn,    \* the era in which a provider closed, 0 before
  owner,       \* of a provider
  bond,        \* of a provider
  stake,       \* of an account on a provider
  earned,      \* the stake that has a claim on an era's rewards
  unlocking,   \* what an account gets back in an era
  locked       \* the locked tokens of an account

ledgerVars == <<now, phase, closedIn, owner, bond, stake, earned, unlocking,
                locked>>

Init ==
  /\ now = 0
  /\ phase = [p \in Providers |-> "new"]
  /\ closedIn = [p \in Providers |-> 0]
  /\ owner = [p \in Providers |-> Nobody]
  /\ bond = [p \in Providers |-> 0]
  /\ stake = [a \in Accounts |-> [p \in Providers |-> 0]]
  /\ earned = [a \in Accounts |-> [p \in Providers |-> [e \in Eras |-> 0]]]
  /\ unlocking = [a \in Accounts |-> [e \in UnlockEras |-> 0]]
  /\ locked = [a \in Accounts |-> 0]

(* A new era begins: every stake on an active provider goes on earning.    *)
NextEra ==
  /\ now < MaxEra
  /\ now' = now + 1
  /\ earned' = [a \in Accounts |-> [p \in Providers |->
                  IF phase[p] = "active"
                  THEN [earned[a][p] EXCEPT ![now + 1] = stake[a][p]]
                  ELSE earned[a][p]]]
  /\ UNCHANGED <<phase, closedIn, owner, bond, stake, unlocking, locked>>

Open(a, p, v) ==
  /\ phase[p] = "new"
  /\ phase' = [phase EXCEPT ![p] = "active"]
  /\ owner' = [owner EXCEPT ![p] = a]
  /\ bond' = [bond EXCEPT ![p] = v]
  /\ locked' = [locked EXCEPT ![a] = @ + v]
  /\ UNCHANGED <<now, closedIn, stake, earned, unlocking>>

AddBond(a, p, v) ==
  /\ phase[p] = "active" /\ owner[p] = a
  /\ bond' = [bond EXCEPT ![p] = @ + v]
  /\ locked' = [locked EXCEPT ![a] = @ + v]
  /\ UNCHANGED <<now, phase, closedIn, owner, stake, earned, unlocking>>

RemoveBond(a, p, v) ==
  /\ phase[p] = "active" /\ owner[p] = a
  /\ v <= bond[p]
  /\ bond' = [bond EXCEPT ![p] = @ - v]
  /\ unlocking' = [unlocking EXCEPT ![a][now + UnbondingPeriod] = @ + v]
  /\ UNCHANGED <<now, phase, closedIn, owner, stake, earned, locked>>

AddStake(a, p, v) ==
  /\ phase[p] = "active"
  /\ stake' = [stake EXCEPT ![a][p] = @ + v]
  /\ earned' = [earned EXCEPT ![a][p][now] = @ + v]
  /\ locked' = [locked EXCEPT ![a] = @ + v]
  /\ UNCHANGED <<now, phase, closedIn, owner, bond, unlocking>>

RemoveStake(a, p, v) ==
  /\ phase[p] = "active"
  /\ v <= stake[a][p]
  /\ stake' = [stake EXCEPT ![a][p] = @ - v]
  /\ earned' = [earned EXCEPT ![a][p][now] = @ - v]
  /\ unlocking' = [unlocking EXCEPT ![a][now + UnbondingPeriod] = @ + v]
  /\ UNCHANGED <<now, phase, closedIn, owner, bond, locked>>

(* The oldest era that was earned is claimed, once it is over.             *)
ClaimOldest(a, p) ==
  \E e \in Eras :
    /\ e < now
    /\ earned[a][p][e] > 0
    /\ \A f \in 0..(e - 1) : earned[a][p][f] = 0
    /\ earned' = [earned EXCEPT ![a][p][e] = 0]
    /\ UNCHANGED <<now, phase, closedIn, owner, bond, stake, unlocking, locked>>

(* An account gets back everything that is unlocked by now.                *)
Unlock(a) ==
  LET due == {e \in UnlockEras : e <= now}
  IN  /\ locked' = [locked EXCEPT ![a] = @ - SumFunctionOnSet(unlocking[a], due)]
      /\ unlocking' = [unlocking EXCEPT ![a] =
                         [e \in UnlockEras |-> IF e \in due THEN 0 ELSE @[e]]]
      /\ UNCHANGED <<now, phase, closedIn, owner, bond, stake, earned>>

Close(p) ==
  /\ phase[p] = "active"
  /\ phase' = [phase EXCEPT ![p] = "closed"]
  /\ closedIn' = [closedIn EXCEPT ![p] = now]
  /\ earned' = [a \in Accounts |-> [earned[a] EXCEPT ![p][now] = 0]]
  /\ UNCHANGED <<now, owner, bond, stake, unlocking, locked>>

Released(p) == phase[p] = "closed" /\ now >= closedIn[p] + UnbondingPeriod

ReleaseBond(p) ==
  /\ Released(p)
  /\ bond' = [bond EXCEPT ![p] = 0]
  /\ locked' = [locked EXCEPT ![owner[p]] = @ - bond[p]]
  /\ UNCHANGED <<now, phase, closedIn, owner, stake, earned, unlocking>>

ReleaseStake(a, p) ==
  /\ Released(p)
  /\ \A e \in Eras : earned[a][p][e] = 0
  /\ stake' = [stake EXCEPT ![a][p] = 0]
  /\ locked' = [locked EXCEPT ![a] = @ - stake[a][p]]
  /\ UNCHANGED <<now, phase, closedIn, owner, bond, earned, unlocking>>

Next ==
  \/ NextEra
  \/ \E a \in Accounts, p \in Providers, v \in Values :
       \/ Open(a, p, v)
       \/ AddBond(a, p, v)
       \/ RemoveBond(a, p, v)
       \/ AddStake(a, p, v)
       \/ RemoveStake(a, p, v)
  \/ \E a \in Accounts, p \in Providers : ClaimOldest(a, p) \/ ReleaseStake(a, p)
  \/ \E a \in Accounts : Unlock(a)
  \/ \E p \in Providers : Close(p) \/ ReleaseBond(p)

Spec == Init /\ [][Next]_ledgerVars
=============================================================================
