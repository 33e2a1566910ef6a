---------------------------- MODULE Transactions ----------------------------
(***************************************************************************)
(* The life of a transaction in the runtimes (runtime/keiko,               *)
(* runtime/local): it is signed, for a limited number of blocks or for     *)
(* ever, validated when it enters the pool of a node, checked again and    *)
(* charged when a block under construction takes it, and its fee ends in   *)
(* the pot of the validators, which the author of the next block is paid   *)
(* from.                                                                   *)
(*                                                                         *)
(* Between validation and inclusion other transactions of the same signer, *)
(* of root and of anybody who sends tokens are applied.  Of the calls only *)
(* what bears on this is kept: transfers, which may remove the signer's    *)
(* account and its nonce, the calls of regulators, which are free of       *)
(* charge, and root's changes of the regulators.  frame_system,            *)
(* frame_executive, pallet_transaction_payment, pallet_sudo and the pool   *)
(* are external.                                                           *)
(***************************************************************************)
EXTENDS Integers, FiniteSets, Functions, Perbill, Currency

CONSTANTS
  Alice, RootKey, Eve,  \* accounts that the chain specifications name
  Users,                \* the other endowed accounts
  Pot,                  \* ValidatorPot
  None,

  BlockHashCount,       \* the runtime's parameters
  MilliKei,
  ExtrinsicBaseWeight,
  TransactionByteFee,

  Transactions,         \* the transactions of an instance
  CallWeight, Length,   \* of a transaction that pays
  BlockRoom,            \* transactions for which a block has weight left
  InitialBalance

Accounts == {Alice, RootKey, Eve} \cup Users

Holders == Accounts \cup {Pot}

Call == [kind : {"transfer"}, to : Holders, amount : Nat]
          \cup [kind : {"regulate"}]
          \cup [kind : {"appoint", "revoke"}, who : Accounts]

ASSUME TransactionsAssumption ==
  /\ IsFiniteSet(Users)
  /\ Pot \notin Accounts
  /\ None \notin Nat
  /\ BlockHashCount \in Nat \ {0, 1}
  /\ {MilliKei, TransactionByteFee, CallWeight, Length, BlockRoom,
      InitialBalance} \subseteq Nat
  /\ ExtrinsicBaseWeight \in Nat \ {0}
  /\ \A tx \in Transactions :
       /\ tx.signer \in Accounts /\ tx.nonce \in Nat /\ tx.call \in Call
       /\ tx.period \in Nat \cup {None}

VARIABLES
  sudoKey,      \* the key of pallet_sudo
  regulators,   \* Regulators of the dAPI pallet
  balances,     \* the accounts of pallet_balances
  nonce,        \* the nonces of frame_system
  pool,         \* the transaction pool
  age,          \* number of the next block minus the birth of a transaction
                \* (0 if it is immortal), None before it is signed
  building,     \* a block is under construction
  room,         \* transactions that still fit into it
  applied       \* those of living accounts that were applied (history)

vars == <<sudoKey, regulators, balances, nonce, pool, age, building, room,
          applied>>

----------------------------------------------------------------------------
(* The two chain specifications: who has tokens, who authors, who is root  *)
(* and who are the regulators.                                             *)

KeikoGenesis ==
  [endowed |-> {RootKey} \cup Users, root |-> RootKey, regulators |-> {}]

LocalGenesis ==
  [endowed |-> {Alice, Eve} \cup Users, root |-> Alice, regulators |-> {Eve}]

(* The only authority of either.                                           *)
InitialAuthorities == {Alice}

Init ==
  /\ \E genesis \in {KeikoGenesis, LocalGenesis} :
       /\ sudoKey = genesis.root
       /\ regulators = genesis.regulators
       /\ balances = [h \in Holders |->
            IF h \in genesis.endowed
            THEN [free |-> InitialBalance, reserved |-> 0] ELSE EmptyAccount]
  /\ nonce = [a \in Accounts |-> 0]
  /\ pool = {}
  /\ age = [tx \in Transactions |-> None]
  /\ building = FALSE
  /\ room = 0
  /\ applied = {}

----------------------------------------------------------------------------
(* Signing                                                                 *)

NextPowerOfTwo(n) ==
  2 ^ (CHOOSE k \in 0..n : 2 ^ k >= n /\ \A i \in 0..(k - 1) : 2 ^ i < n)

(* Faulty: the next power of two itself.                                   *)
WholePowerOfTwo == NextPowerOfTwo(BlockHashCount)

(* create_transaction, which the runtimes offer to off-chain workers:      *)
(* mortal for the largest power of two of blocks whose hashes are kept ... *)
ValidityPeriod == NextPowerOfTwo(BlockHashCount) \div 2

(* ... from the block before the current one on.                           *)
BirthDistance == 2

Signed(tx) == age[tx] # None

(* A wallet signs for the period it likes, or for ever.                    *)
Mortal(tx) == tx.period # None

(* frame_system keeps the hashes of the last BlockHashCount + 1 blocks.    *)
HashKept(tx) == age[tx] <= BlockHashCount + 1

----------------------------------------------------------------------------
(* Fees                                                                    *)

WeightToFee(weight) ==
  LET q == 10 * ExtrinsicBaseWeight
  IN  weight * (MilliKei \div q)
        + PerbillMul(FromRational(MilliKei % q, q), weight)

InclusionFee ==
  TransactionByteFee * Length + WeightToFee(ExtrinsicBaseWeight)
    + WeightToFee(CallWeight)

(* The calls of regulators are Pays::No.                                   *)
FeeOf(tx) == IF tx.call.kind = "regulate" THEN 0 ELSE InclusionFee

(* Faulty: the tips are handed on, the fees are not.                       *)
DealWithTips(ledger, fee) == ledger

(* DealWithFees hands fees and tips to ToValidatorPot.                     *)
DealWithFees(ledger, fee) == DepositCreating(ledger, Pot, fee)

----------------------------------------------------------------------------
(* What is checked when a transaction enters the pool and, with exactly    *)
(* the next nonce, when a block takes it (SignedExtra).                    *)

InEra(tx) == Mortal(tx) /\ age[tx] < tx.period /\ HashKept(tx)

(* Faulty: a transaction is good for ever, whatever its era.               *)
NeverExpires(tx) == Signed(tx)

CheckEra(tx) == Signed(tx) /\ (InEra(tx) \/ ~Mortal(tx))

ChargeTransactionPayment(tx) ==
  CanWithdrawKeepAlive(balances, tx.signer, FeeOf(tx))

PreValidateRegulatorCalls(tx) ==
  tx.call.kind = "regulate" => tx.signer \in regulators

ValidateTransaction(tx) ==
  /\ CheckEra(tx)
  /\ tx.nonce >= nonce[tx.signer]
  /\ ChargeTransactionPayment(tx)
  /\ PreValidateRegulatorCalls(tx)

(* Faulty: who was a regulator when the transaction was submitted may      *)
(* place it on chain.                                                      *)
PreDispatchTrusting(tx) ==
  /\ CheckEra(tx)
  /\ tx.nonce = nonce[tx.signer]
  /\ ChargeTransactionPayment(tx)

(* Faulty: an old nonce is good enough.                                    *)
PreDispatchAnyNonce(tx) ==
  /\ CheckEra(tx)
  /\ tx.nonce <= nonce[tx.signer]
  /\ ChargeTransactionPayment(tx)
  /\ PreValidateRegulatorCalls(tx)

PreDispatch(tx) ==
  /\ CheckEra(tx)
  /\ tx.nonce = nonce[tx.signer]
  /\ ChargeTransactionPayment(tx)
  /\ PreValidateRegulatorCalls(tx)

----------------------------------------------------------------------------
(* The pool                                                                *)

(* A transaction replaces the one of the same account and nonce.           *)
Rivals(tx) == {t \in pool : t.signer = tx.signer /\ t.nonce = tx.nonce}

(* By a wallet, at the latest block, or by create_transaction.             *)
Sign(tx) ==
  /\ ~Signed(tx)
  /\ ~building
  /\ \E distance \in {d \in 0..BirthDistance : Mortal(tx) <=> d > 0} :
       age' = [age EXCEPT ![tx] = distance]
  /\ UNCHANGED <<sudoKey, regulators, balances, nonce, pool, building, room,
                 applied>>

(* Again and again, as long as it is valid: peers send it around.          *)
Submit(tx) ==
  /\ ~building
  /\ tx \notin pool
  /\ ValidateTransaction(tx)
  /\ pool' = (pool \ Rivals(tx)) \cup {tx}
  /\ UNCHANGED <<sudoKey, regulators, balances, nonce, age, building, room,
                 applied>>

(* The pool revalidates what it holds, and the proposer discards what a    *)
(* block under construction refuses.                                       *)
RemoveInvalid(tx) ==
  /\ tx \in pool
  /\ ~ValidateTransaction(tx)
  /\ pool' = pool \ {tx}
  /\ UNCHANGED <<sudoKey, regulators, balances, nonce, age, building, room,
                 applied>>

----------------------------------------------------------------------------
(* Blocks                                                                  *)

(* Faulty: nothing is kept back.                                           *)
WholePot == balances[Pot].free

AuthorReward == SatSub(balances[Pot].free, ExistentialDeposit)

(* Faulty: the pot is only paid out to accounts that exist.                *)
PayExisting(author) ==
  IF balances[author] # EmptyAccount
       /\ CanTransferKeepAlive(balances, Pot, author, AuthorReward)
  THEN Transfer(balances, Pot, author, AuthorReward)
  ELSE balances

(* note_author, in the hooks before any transaction of the block.          *)
PayAuthor(author) ==
  IF CanTransferKeepAlive(balances, Pot, author, AuthorReward)
  THEN Transfer(balances, Pot, author, AuthorReward)
  ELSE balances

InitializeBlock(author) ==
  /\ ~building
  /\ building' = TRUE
  /\ room' = BlockRoom
  /\ balances' = PayAuthor(author)
  /\ UNCHANGED <<sudoKey, regulators, nonce, pool, age, applied>>

TransferAllowDeath(ledger, from, to, amount) ==
  IF /\ from # to
     /\ CanWithdraw(ledger, from, amount)
     /\ ledger[to].free + ledger[to].reserved + amount >= ExistentialDeposit
  THEN DepositCreating(WithdrawAllowDeath(ledger, from, amount), to, amount)
  ELSE ledger

(* sudo refunds its fee if root signed, and fails if not.                  *)
ByRoot(tx) == tx.call.kind \in {"appoint", "revoke"} /\ tx.signer = sudoKey

Charged(tx) == IF ByRoot(tx) THEN 0 ELSE FeeOf(tx)

(* The ledger after the call, and after its fee has been handed on.        *)
Dispatch(tx) ==
  LET charged == WithdrawKeepAlive(balances, tx.signer, Charged(tx))
      after   == IF tx.call.kind = "transfer"
                 THEN TransferAllowDeath(charged, tx.signer, tx.call.to,
                                         tx.call.amount)
                 ELSE charged
  IN  IF Charged(tx) = 0 THEN after ELSE DealWithFees(after, Charged(tx))

RegulatorsAfter(tx) ==
  IF ~ByRoot(tx) THEN regulators
  ELSE IF tx.call.kind = "appoint" THEN regulators \cup {tx.call.who}
  ELSE regulators \ {tx.call.who}

(* With its last token an account loses its nonce.                         *)
Removed(tx) ==
  balances[tx.signer] # EmptyAccount /\ Dispatch(tx)[tx.signer] = EmptyAccount

(* Faulty: one transaction too many.                                       *)
CheckWeightAfter == room >= 0

CheckWeight == room > 0

(* From the pool of this node or, in a block it imports, of another one.   *)
ApplyExtrinsic(tx) ==
  /\ building
  /\ CheckWeight
  /\ PreDispatch(tx)
  /\ room' = room - 1
  /\ pool' = pool \ {tx}
  /\ balances' = Dispatch(tx)
  /\ regulators' = RegulatorsAfter(tx)
  /\ nonce' = [nonce EXCEPT ![tx.signer] = IF Removed(tx) THEN 0 ELSE @ + 1]
  /\ applied' = IF Removed(tx) THEN {t \in applied : t.signer # tx.signer}
                               ELSE applied \cup {tx}
  /\ UNCHANGED <<sudoKey, age, building>>

(* finalize_block, and the import of the block.                            *)
FinalizeBlock ==
  /\ building
  /\ building' = FALSE
  /\ room' = 0
  /\ age' = [tx \in Transactions |->
               IF Signed(tx) /\ InEra(tx) THEN age[tx] + 1 ELSE age[tx]]
  /\ UNCHANGED <<sudoKey, regulators, balances, nonce, pool, applied>>

----------------------------------------------------------------------------
Next ==
  \/ \E author \in InitialAuthorities : InitializeBlock(author)
  \/ FinalizeBlock
  \/ \E tx \in Transactions :
       Sign(tx) \/ Submit(tx) \/ RemoveInvalid(tx) \/ ApplyExtrinsic(tx)

(* The authority goes on producing blocks and the pool is revalidated.     *)
(* Nobody has to sign or submit anything, and a block need not take a      *)
(* transaction although it could.                                          *)
Fairness ==
  /\ \A author \in InitialAuthorities : WF_vars(InitializeBlock(author))
  /\ WF_vars(FinalizeBlock)
  /\ \A tx \in Transactions : WF_vars(RemoveInvalid(tx))

Spec == Init /\ [][Next]_vars /\ Fairness

----------------------------------------------------------------------------
(* Properties                                                              *)

(* Type correctness; a block never takes more than it has room for.        *)
TransactionsTypeOK ==
  /\ sudoKey \in Accounts
  /\ regulators \subseteq Accounts
  /\ balances \in [Holders -> Account]
  /\ nonce \in [Accounts -> Nat]
  /\ pool \subseteq Transactions
  /\ age \in [Transactions -> Nat \cup {None}]
  /\ building \in BOOLEAN
  /\ room \in 0..BlockRoom
  /\ applied \subseteq Transactions

(* While its signer's account lives, a transaction is applied at most once, *)
(* however often the pool is given it and in whatever order the other      *)
(* transactions of the signer, and those that fund it, come.               *)
AppliedOnce ==
  [][\A tx \in Transactions : ApplyExtrinsic(tx) => tx \notin applied]_vars

(* The free calls of the dAPI pallet are checked before they are placed on *)
(* chain, "Needed to avoid a DoS attack" (dapi/src/lib.rs:441): a          *)
(* transaction for which nobody pays was signed by root or by one who is a *)
(* regulator then, although he may have lost the role since the pool took  *)
(* the transaction, in the same block even.                                *)
FreeOnlyForRegulators ==
  [][\A tx \in Transactions :
       ApplyExtrinsic(tx) /\ balances' = balances
         => tx.signer \in regulators \cup {sudoKey}]_vars

(* debug_assert!(success.is_ok()) of note_author (lib.rs:438): paying the  *)
(* author never fails, also if the author's account does not exist yet or  *)
(* the pot holds no more than the existential deposit.                     *)
AuthorAlwaysPaid ==
  [][\A author \in InitialAuthorities :
       InitializeBlock(author)
         => CanTransferKeepAlive(balances, Pot, author, AuthorReward)]_vars

(* The period of create_transaction fits the hashes that are kept: what it *)
(* signs is never refused before the period is over because the hash of    *)
(* the block it was born at is gone.                                       *)
BirthHashKept ==
  \A tx \in Transactions :
    Signed(tx) /\ tx.period = ValidityPeriod /\ age[tx] < ValidityPeriod
      => HashKept(tx)

TotalIssuance ==
  SumFunctionOnSet([h \in Holders |-> balances[h].free + balances[h].reserved],
                   Holders)

(* Fees are handed on and never burnt: the only tokens that a step         *)
(* destroys are the rest of an account that fell below the existential     *)
(* deposit.                                                                *)
OnlyDustIsLost ==
  [][/\ TotalIssuance' <= TotalIssuance
     /\ TotalIssuance' < TotalIssuance =>
          /\ TotalIssuance - TotalIssuance' < ExistentialDeposit
          /\ \E a \in Accounts : balances[a] # EmptyAccount
                                 /\ balances'[a] = EmptyAccount]_vars

(* A mortal transaction that enters the pool leaves it: included, replaced, *)
(* found to be invalid, or refused at the end of its era or when the hash  *)
(* of its birth is gone, whichever comes first.                            *)
PoolDrains ==
  \A tx \in Transactions : Mortal(tx) => (tx \in pool ~> tx \notin pool)

(* The fees of a block do not stay in the pot: again and again it is empty *)
(* but for the existential deposit.                                        *)
FeesPaidOut == []<>(balances[Pot].free <= ExistentialDeposit)

----------------------------------------------------------------------------
(* Statements of the documentation                                         *)

(* "In each block, the validator who authored it receives total value of   *)
(* the Pot and transaction fees within the block" (validator-set/src/      *)
(* lib.rs:23): when a block is finished, nothing of what it collected is   *)
(* left for the author of another one.                                     *)
FeesToOwnAuthor ==
  [][FinalizeBlock => balances[Pot].free <= ExistentialDeposit]_vars
=============================================================================
