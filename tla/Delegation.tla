----------------------------- MODULE Delegation -----------------------------
(***************************************************************************)
(* The Delegation vector of one (delegator, provider) pair: the stakes of  *)
(* the eras not claimed yet, compressed.  An entry says how much was       *)
(* staked from its era on, until the era of the next entry.                *)
(***************************************************************************)
EXTENDS Integers, Sequences, Currency

EraStake == [amount : Nat, era : Nat]

NewEraStake(amount, era) == [amount |-> amount, era |-> era]

LatestStakedValue(stakes) ==
  IF stakes = <<>> THEN 0 ELSE stakes[Len(stakes)].amount

(* Both stake and unstake refuse an era older than the last entry.         *)
EraAccepted(stakes, era) ==
  stakes # <<>> => stakes[Len(stakes)].era <= era

(* Faulty: a second entry for an era that has one.                         *)
AlwaysAppend(stakes, era, amount) == Append(stakes, NewEraStake(amount, era))

(* Record `amount` as the stake from `era` on: in the last entry when it   *)
(* is of this era, in a new one otherwise.                                 *)
SetLatest(stakes, era, amount) ==
  IF stakes[Len(stakes)].era = era
  THEN [stakes EXCEPT ![Len(stakes)] = NewEraStake(amount, era)]
  ELSE Append(stakes, NewEraStake(amount, era))

Stake(stakes, era, amount) ==
  IF stakes = <<>>
  THEN <<NewEraStake(amount, era)>>
  ELSE SetLatest(stakes, era, SatAdd(LatestStakedValue(stakes), amount))

(* One leading entry without stake carries no information and is removed.  *)
DropUnstakedHead(stakes) ==
  IF stakes # <<>> /\ stakes[1].amount = 0 THEN Tail(stakes) ELSE stakes

Unstake(stakes, era, amount) ==
  IF stakes = <<>>
  THEN stakes
  ELSE DropUnstakedHead(
         SetLatest(stakes, era, SatSub(LatestStakedValue(stakes), amount)))

(* Faulty: the oldest entry goes even when it stands for later eras too.   *)
ClaimWholeEntry(stakes) ==
  IF Len(stakes) = 1
  THEN <<NewEraStake(stakes[1].amount, stakes[1].era + 1)>>
  ELSE Tail(stakes)

(* claim returns the oldest entry and moves it one era on, or removes it   *)
(* when the next entry starts there.                                       *)
ClaimedStake(stakes) == IF stakes = <<>> THEN NewEraStake(0, 0) ELSE stakes[1]

Claim(stakes) ==
  IF stakes = <<>>
  THEN stakes
  ELSE DropUnstakedHead(
         IF Len(stakes) = 1 \/ stakes[2].era > stakes[1].era + 1
         THEN [stakes EXCEPT ![1] = NewEraStake(@.amount, @.era + 1)]
         ELSE Tail(stakes))

----------------------------------------------------------------------------
(* What the vector means (types.rs, the comment on Delegation): the stake  *)
(* of an unclaimed era is that of the last entry that is not younger.      *)
StakedAt(stakes, e) ==
  LET covering == {i \in DOMAIN stakes : stakes[i].era <= e}
  IN  IF covering = {} THEN 0
      ELSE stakes[CHOOSE i \in covering : \A j \in covering : j <= i].amount

(* Entries in the order of their eras, none younger than the current era.  *)
EntriesOrdered(stakes, current) ==
  /\ \A i, j \in DOMAIN stakes : i < j => stakes[i].era < stakes[j].era
  /\ \A i \in DOMAIN stakes : stakes[i].era <= current
=============================================================================
