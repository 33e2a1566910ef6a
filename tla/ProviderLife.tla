---------------------------- MODULE ProviderLife ----------------------------
(***************************************************************************)
(* What the runtime promises of a provider's life, whichever pallet keeps  *)
(* which part of it: a regulator admits it, its owner's deposit puts it    *)
(* into service, one deactivation with one reason ends that, and the bond  *)
(* is given back once, after the unbonding period.                         *)
(***************************************************************************)
EXTENDS Naturals

CONSTANTS Providers, Accounts, Reasons, Nobody, UnbondingPeriod

VARIABLES
  now,      \* the current era
  life,     \* how far each provider has come
  owner,    \* whose it is
  reason,   \* why it was deactivated
  leftIn    \* the era in which it was

lifeVars == <<now, life, owner, reason, leftIn>>

Init ==
  /\ now = 0
  /\ life = [p \in Providers |-> "absent"]
  /\ owner = [p \in Providers |-> Nobody]
  /\ reason = [p \in Providers |-> Nobody]
  /\ leftIn = [p \in Providers |-> 0]

Admit(p) ==
  /\ life[p] = "absent"
  /\ life' = [life EXCEPT ![p] = "admitted"]
  /\ \E a \in Accounts : owner' = [owner EXCEPT ![p] = a]
  /\ UNCHANGED <<now, reason, leftIn>>

Serve(p) ==
  /\ life[p] = "admitted"
  /\ life' = [life EXCEPT ![p] = "serving"]
  /\ UNCHANGED <<now, owner, reason, leftIn>>

Leave(p) ==
  /\ life[p] = "serving"
  /\ life' = [life EXCEPT ![p] = "leaving"]
  /\ \E r \in Reasons : reason' = [reason EXCEPT ![p] = r]
  /\ leftIn' = [leftIn EXCEPT ![p] = now]
  /\ UNCHANGED <<now, owner>>

Redeem(p) ==
  /\ life[p] = "leaving"
  /\ now >= leftIn[p] + UnbondingPeriod
  /\ life' = [life EXCEPT ![p] = "redeemed"]
  /\ UNCHANGED <<now, owner, reason, leftIn>>

NextEra ==
  /\ now' = now + 1
  /\ UNCHANGED <<life, owner, reason, leftIn>>

Next ==
  \/ \E p \in Providers : Admit(p) \/ Serve(p) \/ Leave(p) \/ Redeem(p)
  \/ NextEra

Spec == Init /\ [][Next]_lifeVars
=============================================================================
