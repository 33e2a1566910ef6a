------------------------------ MODULE Currency ------------------------------
(***************************************************************************)
(* The fixed-width arithmetic on balances and the part of pallet_balances  *)
(* (external) that the pallets call.  A ledger maps every holder to its    *)
(* free and its reserved balance; a holder with neither does not exist.    *)
(***************************************************************************)
EXTENDS Integers

CONSTANTS
  MaxBalance,           \* the largest Balance (u128::MAX in the runtime)
  ExistentialDeposit    \* an account with less than this is removed

ASSUME CurrencyAssumption ==
  /\ MaxBalance \in Nat
  /\ ExistentialDeposit \in Nat

Account == [free : Nat, reserved : Nat]

EmptyAccount == [free |-> 0, reserved |-> 0]

----------------------------------------------------------------------------
(* Rust's arithmetic on an unsigned Balance: saturating_add,               *)
(* saturating_sub, and the plain + of a release build, which wraps.        *)

SatAdd(x, y) == IF x + y > MaxBalance THEN MaxBalance ELSE x + y

SatSub(x, y) == IF y > x THEN 0 ELSE x - y

WrapAdd(x, y) == (x + y) % (MaxBalance + 1)

----------------------------------------------------------------------------
(* Currency::reserve succeeds when the free balance covers the amount.     *)
CanReserve(ledger, who, amount) == ledger[who].free >= amount

Reserve(ledger, who, amount) ==
  [ledger EXCEPT ![who] = [free     |-> @.free - amount,
                           reserved |-> @.reserved + amount]]

(* Currency::unreserve gives back what is there, at most the amount asked. *)
Unreserve(ledger, who, amount) ==
  LET actual == IF amount > ledger[who].reserved THEN ledger[who].reserved
                                                 ELSE amount
  IN  [ledger EXCEPT ![who] = [free     |-> @.free + actual,
                               reserved |-> @.reserved - actual]]

(* Currency::withdraw with ExistenceRequirement::AllowDeath: an account    *)
(* left below the existential deposit is removed with what it still holds. *)
CanWithdraw(ledger, who, amount) == ledger[who].free >= amount

WithdrawAllowDeath(ledger, who, amount) ==
  LET left == ledger[who].free - amount + ledger[who].reserved
  IN  CASE amount = 0 -> ledger
        [] amount > 0 /\ left < ExistentialDeposit ->
             [ledger EXCEPT ![who] = EmptyAccount]
        [] amount > 0 /\ left >= ExistentialDeposit ->
             [ledger EXCEPT ![who] = [free     |-> @.free - amount,
                                      reserved |-> @.reserved]]

(* Currency::withdraw with ExistenceRequirement::KeepAlive: refused when   *)
(* it would take an existing account below the existential deposit.        *)
CanWithdrawKeepAlive(ledger, who, amount) ==
  LET before == ledger[who].free + ledger[who].reserved
  IN  \/ amount = 0
      \/ /\ ledger[who].free >= amount
         /\ before >= ExistentialDeposit => before - amount >= ExistentialDeposit

WithdrawKeepAlive(ledger, who, amount) ==
  [ledger EXCEPT ![who].free = @ - amount]

(* Currency::resolve_creating: a deposit below the existential deposit     *)
(* cannot create an account and is dropped.                                *)
DepositCreating(ledger, who, amount) ==
  IF ledger[who] = EmptyAccount /\ amount < ExistentialDeposit
  THEN ledger
  ELSE [ledger EXCEPT ![who] = [free     |-> @.free + amount,
                                reserved |-> @.reserved]]

(* ReservableCurrency::slash_reserved takes what is there, at most the     *)
(* amount asked; the imbalance it returns is the difference.  That it      *)
(* removes an account left below the existential deposit, or takes less if *)
(* the account may not go, is left out: the runtimes slash 1% of a bond.   *)
SlashReserved(ledger, who, amount) ==
  [ledger EXCEPT ![who].reserved = SatSub(@, amount)]

(* Currency::transfer with ExistenceRequirement::KeepAlive: the receiver   *)
(* must exist or be created by the amount, and the sender must stay.       *)
CanTransferKeepAlive(ledger, from, to, amount) ==
  \/ amount = 0
  \/ /\ ledger[from].free >= amount
     /\ ledger[to].free + ledger[to].reserved + amount >= ExistentialDeposit
     /\ ledger[from].free - amount + ledger[from].reserved >= ExistentialDeposit

Transfer(ledger, from, to, amount) ==
  [ledger EXCEPT ![from].free = @ - amount, ![to].free = @ + amount]
=============================================================================
