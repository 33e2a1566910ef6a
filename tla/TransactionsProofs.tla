------------------------ MODULE TransactionsProofs -------------------------
(***************************************************************************)
(* Theorems about the life of a transaction, for every set of transactions *)
(* and users, every length of the chain's memory and every fee.            *)
(***************************************************************************)
EXTENDS Transactions, LedgerLemmas

(* What the runtimes' parameters amount to: a fee, of which TransactionByte- *)
(* Fee is MILLIKEI / 100 for every byte, is far above the existential      *)
(* deposit, which is 500.                                                  *)
FeesAmple == InclusionFee > 0 /\ InclusionFee >= 2 * ExistentialDeposit

----------------------------------------------------------------------------
(* Fees                                                                    *)

LEMMA WeightFeeType ==
  ASSUME NEW weight \in Nat
  PROVE  WeightToFee(weight) \in Nat
<1>1. PICK q \in Nat \ {0} : q = 10 * ExtrinsicBaseWeight
  BY TransactionsAssumption
<1>2. MilliKei \in Nat
  BY TransactionsAssumption
<1>3. \A n \in Nat, d \in Nat \ {0} : n \div d \in Nat /\ (n % d) \in Nat
  OBVIOUS
<1>4. PICK d \in Nat, r \in Nat : d = MilliKei \div q /\ r = (MilliKei % q)
  BY <1>2, <1>3
<1>5. FromRational(r, q) \in Nat
  BY FromRationalType
<1>6. PerbillMul(FromRational(r, q), weight) \in Nat
  BY <1>5, PerbillMulType
<1>7. weight * d \in Nat
  OBVIOUS
<1>8. WeightToFee(weight) = weight * d + PerbillMul(FromRational(r, q), weight)
  BY <1>1, <1>4 DEF WeightToFee
<1> QED
  BY <1>6, <1>7, <1>8

LEMMA InclusionFeeType == InclusionFee \in Nat
<1>1. ExtrinsicBaseWeight \in Nat /\ CallWeight \in Nat
      /\ TransactionByteFee \in Nat /\ Length \in Nat
  BY TransactionsAssumption
<1>2. WeightToFee(ExtrinsicBaseWeight) \in Nat /\ WeightToFee(CallWeight) \in Nat
  BY <1>1, WeightFeeType
<1>3. TransactionByteFee * Length \in Nat
  BY <1>1
<1> QED
  BY <1>2, <1>3 DEF InclusionFee

LEMMA HoldersOf ==
  /\ IsFiniteSet(Holders)
  /\ Accounts \subseteq Holders
  /\ Pot \in Holders /\ Pot \notin Accounts
  /\ \A author \in InitialAuthorities : author \in Accounts
<1>1. IsFiniteSet({Alice} \cup {RootKey} \cup {Eve} \cup {Pot} \cup Users)
  BY TransactionsAssumption, FS_Singleton, FS_Union
<1>2. Holders = {Alice} \cup {RootKey} \cup {Eve} \cup {Pot} \cup Users
  BY DEF Holders, Accounts
<1> QED
  BY <1>1, <1>2, TransactionsAssumption DEF Holders, Accounts, InitialAuthorities

LEMMA TransactionFields ==
  ASSUME NEW tx \in Transactions
  PROVE  /\ tx.signer \in Accounts /\ tx.nonce \in Nat
         /\ tx.call.kind = "transfer" => tx.call.to \in Holders /\ tx.call.amount \in Nat
         /\ tx.call.kind \in {"appoint", "revoke"} => tx.call.who \in Accounts
<1>1. tx.signer \in Accounts /\ tx.nonce \in Nat /\ tx.call \in Call
  BY TransactionsAssumption
<1>2. tx.call.kind = "transfer" => tx.call \in [kind : {"transfer"}, to : Holders, amount : Nat]
  BY <1>1 DEF Call
<1>3. tx.call.kind \in {"appoint", "revoke"} =>
        tx.call \in [kind : {"appoint", "revoke"}, who : Accounts]
  BY <1>1 DEF Call
<1> QED
  BY <1>1, <1>2, <1>3

----------------------------------------------------------------------------
(* The ledger after a call                                                 *)

(* A transfer takes from its sender only, and tokens are lost only with    *)
(* the whole account of the sender.                                        *)
Sends(ledger, after, from) ==
  /\ after \in LedgerOver(Holders)
  /\ after[from].free <= ledger[from].free
  /\ \A h \in Holders : h # from => after[h].free >= ledger[h].free
  /\ Tokens(after, Holders) <= Tokens(ledger, Holders)
  /\ Tokens(after, Holders) < Tokens(ledger, Holders) =>
       /\ after[from] = EmptyAccount
       /\ Tokens(ledger, Holders) - Tokens(after, Holders) < ExistentialDeposit

LEMMA SendsNothing ==
  ASSUME NEW ledger \in LedgerOver(Holders), NEW from \in Holders
  PROVE  Sends(ledger, ledger, from)
<1>1. Tokens(ledger, Holders) \in Nat
  BY HoldersOf, TokensType
<1>2. \A h \in Holders : ledger[h].free \in Nat
  BY AccountTokens
<1> QED
  BY <1>1, <1>2 DEF Sends

LEMMA TransferSends ==
  ASSUME NEW ledger \in LedgerOver(Holders), NEW from \in Holders, NEW to \in Holders,
         NEW amount \in Nat
  PROVE  Sends(ledger, TransferAllowDeath(ledger, from, to, amount), from)
<1>1. CASE ~(/\ from # to
             /\ CanWithdraw(ledger, from, amount)
             /\ ledger[to].free + ledger[to].reserved + amount >= ExistentialDeposit)
  <2>1. TransferAllowDeath(ledger, from, to, amount) = ledger
    BY <1>1 DEF TransferAllowDeath
  <2> QED
    BY <2>1, SendsNothing
<1>2. CASE /\ from # to
           /\ CanWithdraw(ledger, from, amount)
           /\ ledger[to].free + ledger[to].reserved + amount >= ExistentialDeposit
  <2>1. PICK mid : mid = WithdrawAllowDeath(ledger, from, amount)
    OBVIOUS
  <2>2. PICK after : after = DepositCreating(mid, to, amount)
    OBVIOUS
  <2>3. TransferAllowDeath(ledger, from, to, amount) = after
    BY <1>2, <2>1, <2>2 DEF TransferAllowDeath
  <2>4. /\ mid \in LedgerOver(Holders)
        /\ \A h \in Holders : h # from => mid[h] = ledger[h]
        /\ \/ /\ mid[from].free = ledger[from].free - amount
              /\ mid[from].reserved = ledger[from].reserved
           \/ /\ mid[from] = EmptyAccount /\ amount > 0
              /\ TokensOf(ledger[from]) - amount < ExistentialDeposit
    BY <1>2, <2>1, WithdrawAllowDeathEffect
  <2>5. /\ after \in LedgerOver(Holders)
        /\ \A h \in Holders : h # to => after[h] = mid[h]
        /\ \/ after[to].free = mid[to].free + amount
           \/ /\ after = mid
              /\ mid[to].free = 0 /\ mid[to].reserved = 0
              /\ amount < ExistentialDeposit
        /\ after[to].reserved = mid[to].reserved
    BY <2>2, <2>4, DepositEffect
  <2>6. mid[to] = ledger[to] /\ ledger[to].free \in Nat /\ ledger[to].reserved \in Nat
    BY <1>2, <2>4, AccountTokens
  <2>7. after[to].free = ledger[to].free + amount /\ after[to].reserved = ledger[to].reserved
    BY <1>2, <2>5, <2>6, CurrencyAssumption
  <2>8. /\ ledger[from].free \in Nat /\ ledger[from].reserved \in Nat
        /\ ledger[from].free >= amount
    BY <1>2, AccountTokens DEF CanWithdraw
  <2>9. after[from] = mid[from] /\ mid[from].free <= ledger[from].free
    BY <1>2, <2>4, <2>5, <2>8 DEF EmptyAccount
  <2>10. \A h \in Holders : h # from => after[h].free >= ledger[h].free
    <3> SUFFICES ASSUME NEW h \in Holders, h # from PROVE after[h].free >= ledger[h].free
      OBVIOUS
    <3>1. ledger[h].free \in Nat
      BY AccountTokens
    <3> QED
      BY <2>4, <2>5, <2>7, <3>1
  <2>11. /\ Tokens(mid, Holders) =
              Tokens(ledger, Holders) - TokensOf(ledger[from]) + TokensOf(mid[from])
         /\ Tokens(after, Holders) =
              Tokens(mid, Holders) - TokensOf(mid[to]) + TokensOf(after[to])
    BY <2>4, <2>5, HoldersOf, TokensChange
  <2>12. TokensOf(after[to]) = TokensOf(mid[to]) + amount /\ TokensOf(mid[to]) \in Nat
    BY <2>6, <2>7 DEF TokensOf
  <2>13. TokensOf(ledger[from]) \in Nat /\ TokensOf(ledger[from]) >= amount
    BY <2>8 DEF TokensOf
  <2>14. \/ TokensOf(mid[from]) = TokensOf(ledger[from]) - amount
         \/ /\ TokensOf(mid[from]) = 0 /\ mid[from] = EmptyAccount
            /\ TokensOf(ledger[from]) - amount < ExistentialDeposit
    BY <2>4, <2>8 DEF TokensOf, EmptyAccount
  <2>15. Tokens(ledger, Holders) \in Nat /\ Tokens(mid, Holders) \in Nat
    BY <2>4, HoldersOf, TokensType
  <2> DEFINE t == Tokens(ledger, Holders)
             m == Tokens(mid, Holders)
             n == Tokens(after, Holders)
             x == TokensOf(ledger[from])
             y == TokensOf(mid[from])
             z == TokensOf(mid[to])
  <2>16. /\ m = t - x + y /\ n = m - z + (z + amount)
         /\ t \in Nat /\ m \in Nat /\ x \in Nat /\ z \in Nat /\ x >= amount
         /\ \/ y = x - amount
            \/ y = 0 /\ mid[from] = EmptyAccount /\ x - amount < ExistentialDeposit
    BY <2>11, <2>12, <2>13, <2>14, <2>15
  <2> HIDE DEF t, m, n, x, y, z
  <2>17. n <= t /\ (n < t => mid[from] = EmptyAccount /\ t - n < ExistentialDeposit)
    <3>1. CASE y = x - amount
      <4>1. n = t
        BY <3>1, <2>16
      <4> QED
        BY <4>1, <2>16
    <3>2. CASE y = 0 /\ mid[from] = EmptyAccount /\ x - amount < ExistentialDeposit
      <4>1. t - n = x - amount /\ n <= t
        BY <3>2, <2>16
      <4> QED
        BY <4>1, <3>2
    <3> QED
      BY <2>16, <3>1, <3>2
  <2> QED
    BY <2>3, <2>5, <2>9, <2>10, <2>17 DEF Sends, t, n
<1> QED
  BY <1>1, <1>2

(* What a transaction that passes the checks does to the ledger.           *)
LEMMA ChargedType ==
  ASSUME NEW tx \in Transactions
  PROVE  /\ Charged(tx) \in Nat
         /\ Charged(tx) = 0 \/ Charged(tx) = FeeOf(tx)
         /\ FeesAmple /\ Charged(tx) = 0 => tx.call.kind # "transfer"
         /\ Charged(tx) # 0 => Charged(tx) = InclusionFee
BY InclusionFeeType DEF Charged, FeeOf, ByRoot, FeesAmple

LEMMA FeeAffordable ==
  ASSUME TransactionsTypeOK, NEW tx \in Transactions, PreDispatch(tx)
  PROVE  balances[tx.signer].free >= Charged(tx)
<1>1. balances \in LedgerOver(Holders) /\ tx.signer \in Holders
  BY TransactionFields, HoldersOf DEF TransactionsTypeOK, LedgerOver
<1>2. balances[tx.signer].free \in Nat
  BY <1>1, AccountTokens
<1>3. FeeOf(tx) = 0 \/ balances[tx.signer].free >= FeeOf(tx)
  BY DEF PreDispatch, ChargeTransactionPayment, CanWithdrawKeepAlive
<1> QED
  BY <1>2, <1>3, ChargedType

(* The fee is taken from the signer, then the call is made.                *)
Pays(ledger, tx) ==
  /\ Sends(WithdrawKeepAlive(balances, tx.signer, Charged(tx)), ledger, tx.signer)
  /\ Charged(tx) # 0 \/ ~FeesAmple
       \/ ledger = WithdrawKeepAlive(balances, tx.signer, Charged(tx))

LEMMA DispatchParts ==
  ASSUME TransactionsTypeOK, NEW tx \in Transactions, PreDispatch(tx)
  PROVE  \E ledger : /\ Pays(ledger, tx)
                     /\ Dispatch(tx) = IF Charged(tx) = 0 THEN ledger
                                       ELSE DepositCreating(ledger, Pot, Charged(tx))
<1>1. /\ balances \in LedgerOver(Holders) /\ tx.signer \in Holders
      /\ Charged(tx) \in Nat /\ balances[tx.signer].free >= Charged(tx)
  BY TransactionFields, HoldersOf, ChargedType, FeeAffordable
     DEF TransactionsTypeOK, LedgerOver
<1>2. PICK charged : charged = WithdrawKeepAlive(balances, tx.signer, Charged(tx))
  OBVIOUS
<1>3. charged \in LedgerOver(Holders)
  BY <1>1, <1>2, WithdrawKeepAliveEffect
<1>4. PICK ledger : ledger = IF tx.call.kind = "transfer"
                             THEN TransferAllowDeath(charged, tx.signer, tx.call.to,
                                                     tx.call.amount)
                             ELSE charged
  OBVIOUS
<1>5. Sends(charged, ledger, tx.signer)
  <2>1. CASE tx.call.kind = "transfer"
    <3>1. tx.call.to \in Holders /\ tx.call.amount \in Nat
      BY <2>1, TransactionFields
    <3> QED
      BY <1>1, <1>3, <1>4, <2>1, <3>1, TransferSends
  <2>2. CASE tx.call.kind # "transfer"
    BY <1>1, <1>3, <1>4, <2>2, SendsNothing
  <2> QED
    BY <2>1, <2>2
<1>6. Pays(ledger, tx)
  BY <1>2, <1>4, <1>5, ChargedType DEF Pays
<1>7. Dispatch(tx) = IF Charged(tx) = 0 THEN ledger
                     ELSE DepositCreating(ledger, Pot, Charged(tx))
  BY <1>2, <1>4 DEF Dispatch, DealWithFees
<1> QED
  BY <1>6, <1>7

LEMMA DispatchEffect ==
  ASSUME TransactionsTypeOK, NEW tx \in Transactions, PreDispatch(tx),
         NEW after, after = Dispatch(tx)
  PROVE  /\ after \in LedgerOver(Holders)
         /\ after[tx.signer].free <= balances[tx.signer].free - Charged(tx)
         /\ FeesAmple /\ Charged(tx) # 0 =>
              after[Pot].free >= balances[Pot].free + InclusionFee
         /\ FeesAmple /\ Charged(tx) = 0 =>
              after[Pot].free = balances[Pot].free
<1>1. PICK ledger : /\ Pays(ledger, tx)
                    /\ after = IF Charged(tx) = 0 THEN ledger
                               ELSE DepositCreating(ledger, Pot, Charged(tx))
  BY DispatchParts
<1>2. /\ balances \in LedgerOver(Holders) /\ tx.signer \in Holders /\ tx.signer # Pot
      /\ Pot \in Holders
      /\ Charged(tx) \in Nat /\ balances[tx.signer].free >= Charged(tx)
  BY TransactionFields, HoldersOf, ChargedType, FeeAffordable
     DEF TransactionsTypeOK, LedgerOver
<1>3. PICK charged : charged = WithdrawKeepAlive(balances, tx.signer, Charged(tx))
  OBVIOUS
<1>4. /\ charged \in LedgerOver(Holders)
      /\ \A h \in Holders : h # tx.signer => charged[h] = balances[h]
      /\ charged[tx.signer].free = balances[tx.signer].free - Charged(tx)
  BY <1>2, <1>3, WithdrawKeepAliveEffect
<1>5. /\ ledger \in LedgerOver(Holders)
      /\ ledger[tx.signer].free <= charged[tx.signer].free
      /\ ledger[Pot].free >= charged[Pot].free
      /\ Charged(tx) # 0 \/ ~FeesAmple \/ ledger = charged
  BY <1>1, <1>2, <1>3 DEF Pays, Sends
<1>6. CASE Charged(tx) = 0
  BY <1>1, <1>2, <1>4, <1>5, <1>6
<1>7. CASE Charged(tx) # 0
  <2>1. PICK fee \in Nat : fee = Charged(tx) /\ after = DepositCreating(ledger, Pot, fee)
    BY <1>1, <1>2, <1>7
  <2>2. /\ after \in LedgerOver(Holders)
        /\ \A h \in Holders : h # Pot => after[h] = ledger[h]
        /\ \/ after[Pot].free = ledger[Pot].free + fee
           \/ /\ after = ledger
              /\ ledger[Pot].free = 0 /\ ledger[Pot].reserved = 0
              /\ fee < ExistentialDeposit
    BY <1>2, <1>5, <2>1, DepositEffect
  <2>3. FeesAmple => after[Pot].free = ledger[Pot].free + InclusionFee
    BY <2>1, <2>2, <1>7, ChargedType, InclusionFeeType, CurrencyAssumption DEF FeesAmple
  <2>4. charged[Pot] = balances[Pot] /\ balances[Pot].free \in Nat /\ ledger[Pot].free \in Nat
    BY <1>2, <1>4, <1>5, AccountTokens
  <2>5. FeesAmple => after[Pot].free >= balances[Pot].free + InclusionFee
    BY <1>5, <2>3, <2>4, InclusionFeeType
  <2> QED
    BY <1>2, <1>4, <1>5, <1>7, <2>2, <2>5
<1> QED
  BY <1>6, <1>7

----------------------------------------------------------------------------
(* The invariant                                                           *)

(* Every transaction that was applied has used up its nonce.               *)
NoncesUsed == \A tx \in applied : tx.nonce < nonce[tx.signer]

TransactionsInv == TransactionsTypeOK /\ NoncesUsed

LEMMA TransactionsInit == Init => TransactionsInv
<1> SUFFICES ASSUME Init PROVE TransactionsInv
  OBVIOUS
<1>1. InitialBalance \in Nat /\ BlockRoom \in Nat
  BY TransactionsAssumption
<1>2. /\ sudoKey \in Accounts /\ regulators \subseteq Accounts
      /\ balances \in [Holders -> Account]
  BY <1>1 DEF Init, KeikoGenesis, LocalGenesis, Accounts, Account, EmptyAccount
<1>3. room \in 0..BlockRoom
  BY <1>1 DEF Init
<1>4. /\ nonce \in [Accounts -> Nat] /\ pool \subseteq Transactions
      /\ age \in [Transactions -> Nat \cup {None}] /\ building \in BOOLEAN
      /\ applied \subseteq Transactions
  BY DEF Init
<1>5. NoncesUsed
  BY DEF Init, NoncesUsed
<1> QED
  BY <1>2, <1>3, <1>4, <1>5 DEF TransactionsInv, TransactionsTypeOK

(* Paying the author moves tokens from the pot to the author.              *)
LEMMA AuthorPaid ==
  ASSUME TransactionsTypeOK, NEW author \in InitialAuthorities
  PROVE  /\ AuthorReward \in Nat /\ balances[Pot].free >= AuthorReward
         /\ PayAuthor(author) \in LedgerOver(Holders)
         /\ Tokens(PayAuthor(author), Holders) = Tokens(balances, Holders)
<1>1. /\ balances \in LedgerOver(Holders) /\ author \in Holders /\ author # Pot
      /\ Pot \in Holders
  BY HoldersOf DEF TransactionsTypeOK, LedgerOver
<1>2. balances[Pot].free \in Nat
  BY <1>1, AccountTokens
<1>3. PICK reward \in Nat : reward = AuthorReward /\ balances[Pot].free >= reward
  BY <1>2, CurrencyAssumption DEF AuthorReward, SatSub
<1>4. PICK after : after = Transfer(balances, Pot, author, reward)
  OBVIOUS
<1>5. after \in LedgerOver(Holders)
  BY <1>1, <1>3, <1>4, TransferEffect
<1>6. Tokens(after, Holders) = Tokens(balances, Holders)
  BY <1>1, <1>3, <1>4, HoldersOf, TransferTokens
<1>7. PayAuthor(author) = after \/ PayAuthor(author) = balances
  BY <1>3, <1>4 DEF PayAuthor
<1> QED
  BY <1>1, <1>3, <1>5, <1>6, <1>7

LEMMA InitializeKeeps ==
  ASSUME TransactionsInv, NEW author \in InitialAuthorities, InitializeBlock(author)
  PROVE  TransactionsInv'
<1>1. balances' \in [Holders -> Account]
  BY AuthorPaid DEF InitializeBlock, TransactionsInv, LedgerOver
<1>2. room' \in 0..BlockRoom
  BY TransactionsAssumption DEF InitializeBlock
<1> QED
  BY <1>1, <1>2 DEF InitializeBlock, TransactionsInv, TransactionsTypeOK, NoncesUsed

LEMMA FinalizeKeeps == TransactionsInv /\ FinalizeBlock => TransactionsInv'
<1> SUFFICES ASSUME TransactionsInv, FinalizeBlock PROVE TransactionsInv'
  OBVIOUS
<1>1. \A tx \in Transactions : Signed(tx) => age[tx] \in Nat
  BY DEF TransactionsInv, TransactionsTypeOK, Signed
<1>2. age' \in [Transactions -> Nat \cup {None}]
  <2>1. \A tx \in Transactions : Signed(tx) => age[tx] + 1 \in Nat
    BY <1>1
  <2>2. \A tx \in Transactions : age[tx] \in Nat \cup {None}
    BY DEF TransactionsInv, TransactionsTypeOK
  <2> QED
    BY <2>1, <2>2 DEF FinalizeBlock
<1>3. room' \in 0..BlockRoom
  BY TransactionsAssumption DEF FinalizeBlock
<1> QED
  BY <1>2, <1>3 DEF FinalizeBlock, TransactionsInv, TransactionsTypeOK, NoncesUsed

LEMMA PoolKeeps ==
  ASSUME TransactionsInv, NEW tx \in Transactions,
         Sign(tx) \/ Submit(tx) \/ RemoveInvalid(tx)
  PROVE  TransactionsInv'
<1>1. CASE Sign(tx)
  <2>1. age' \in [Transactions -> Nat \cup {None}]
    <3>1. PICK distance \in 0..BirthDistance : age' = [age EXCEPT ![tx] = distance]
      BY <1>1 DEF Sign
    <3>2. distance \in Nat
      BY DEF BirthDistance
    <3> QED
      BY <3>1, <3>2 DEF TransactionsInv, TransactionsTypeOK
  <2> QED
    BY <1>1, <2>1 DEF Sign, TransactionsInv, TransactionsTypeOK, NoncesUsed
<1>2. CASE Submit(tx)
  BY <1>2 DEF Submit, TransactionsInv, TransactionsTypeOK, NoncesUsed
<1>3. CASE RemoveInvalid(tx)
  BY <1>3 DEF RemoveInvalid, TransactionsInv, TransactionsTypeOK, NoncesUsed
<1> QED
  BY <1>1, <1>2, <1>3

LEMMA ApplyKeeps ==
  ASSUME TransactionsInv, NEW tx \in Transactions, ApplyExtrinsic(tx)
  PROVE  TransactionsInv'
<1>1. TransactionsTypeOK /\ NoncesUsed /\ PreDispatch(tx)
  BY DEF TransactionsInv, ApplyExtrinsic
<1>2. balances' \in [Holders -> Account]
  <2>1. balances' = Dispatch(tx)
    BY DEF ApplyExtrinsic
  <2> QED
    BY <1>1, <2>1, DispatchEffect DEF LedgerOver
<1>3. regulators' \subseteq Accounts
  <2>1. regulators \subseteq Accounts /\ regulators' = RegulatorsAfter(tx)
    BY <1>1 DEF TransactionsTypeOK, ApplyExtrinsic
  <2>2. ByRoot(tx) => tx.call.who \in Accounts
    BY TransactionFields DEF ByRoot
  <2> QED
    BY <2>1, <2>2 DEF RegulatorsAfter
<1>4. room' \in 0..BlockRoom
  <2>1. room \in 0..BlockRoom /\ room > 0 /\ room' = room - 1 /\ BlockRoom \in Nat
    BY <1>1, TransactionsAssumption DEF TransactionsTypeOK, ApplyExtrinsic, CheckWeight
  <2> QED
    BY <2>1
<1>5. tx.signer \in Accounts /\ nonce \in [Accounts -> Nat] /\ tx.nonce = nonce[tx.signer]
  BY <1>1, TransactionFields DEF TransactionsTypeOK, PreDispatch
<1>6. /\ nonce' \in [Accounts -> Nat]
      /\ nonce'[tx.signer] = IF Removed(tx) THEN 0 ELSE nonce[tx.signer] + 1
      /\ \A a \in Accounts : a # tx.signer => nonce'[a] = nonce[a]
  BY <1>5 DEF ApplyExtrinsic
<1>7. applied' \subseteq Transactions
  BY <1>1 DEF ApplyExtrinsic, TransactionsTypeOK
<1>8. NoncesUsed'
  <2> SUFFICES ASSUME NEW t \in applied' PROVE t.nonce < nonce'[t.signer]
    BY DEF NoncesUsed
  <2>1. t \in Transactions /\ t.signer \in Accounts /\ t.nonce \in Nat
    BY <1>7, TransactionFields
  <2>2. CASE Removed(tx)
    <3>1. t \in applied /\ t.signer # tx.signer
      BY <2>2 DEF ApplyExtrinsic
    <3> QED
      BY <1>1, <1>6, <2>1, <3>1 DEF NoncesUsed
  <2>3. CASE ~Removed(tx)
    <3>1. t \in applied \/ t = tx
      BY <2>3 DEF ApplyExtrinsic
    <3>2. t.nonce < nonce[t.signer] \/ (t.signer = tx.signer /\ t.nonce = nonce[tx.signer])
      BY <3>1, <1>1, <1>5 DEF NoncesUsed
    <3>3. nonce[t.signer] \in Nat /\ nonce'[t.signer] >= nonce[t.signer]
      BY <1>5, <1>6, <2>1, <2>3
    <3> QED
      BY <1>5, <1>6, <2>1, <2>3, <3>2, <3>3
  <2> QED
    BY <2>2, <2>3
<1>9. pool' \subseteq Transactions /\ UNCHANGED <<sudoKey, age, building>>
  BY <1>1 DEF ApplyExtrinsic, TransactionsTypeOK
<1> QED
  BY <1>1, <1>2, <1>3, <1>4, <1>6, <1>7, <1>8, <1>9 DEF TransactionsInv, TransactionsTypeOK

LEMMA TransactionsNext == TransactionsInv /\ [Next]_vars => TransactionsInv'
<1> SUFFICES ASSUME TransactionsInv, [Next]_vars PROVE TransactionsInv'
  OBVIOUS
<1>1. CASE Next
  BY <1>1, InitializeKeeps, FinalizeKeeps, PoolKeeps, ApplyKeeps DEF Next
<1>2. CASE UNCHANGED vars
  BY <1>2 DEF vars, TransactionsInv, TransactionsTypeOK, NoncesUsed
<1> QED
  BY <1>1, <1>2

(* Every storage item keeps its type whatever transactions are submitted,  *)
(* replaced, applied or refused: no account is overdrawn by a fee and a    *)
(* transfer in the same transaction, and no block takes more transactions  *)
(* than it has room for.                                                   *)
THEOREM TransactionsTypeCorrect == Spec => []TransactionsTypeOK
<1>1. TransactionsInv => TransactionsTypeOK
  BY DEF TransactionsInv
<1> QED
  BY <1>1, TransactionsInit, TransactionsNext, PTL DEF Spec

(* The nonce check of SignedExtra is enough against replay, for any number *)
(* of transactions that are submitted again and again: while the account   *)
(* of its signer lives, a transaction is applied at most once.             *)
THEOREM TransactionsAppliedOnce == Spec => AppliedOnce
<1>1. TransactionsInv =>
        [\A tx \in Transactions : ApplyExtrinsic(tx) => tx \notin applied]_vars
  <2> SUFFICES ASSUME TransactionsInv, NEW tx \in Transactions, ApplyExtrinsic(tx)
               PROVE  tx \notin applied
    OBVIOUS
  <2>1. tx.nonce = nonce[tx.signer] /\ tx.nonce \in Nat
    BY TransactionFields DEF ApplyExtrinsic, PreDispatch
  <2> QED
    BY <2>1 DEF TransactionsInv, NoncesUsed
<1> QED
  BY <1>1, TransactionsInit, TransactionsNext, PTL DEF Spec, AppliedOnce

----------------------------------------------------------------------------
(* Free calls                                                              *)

(* A transaction that leaves every balance as it was comes from root or    *)
(* from one who is a regulator when the block takes it: losing the role    *)
(* while the transaction waits in the pool, even earlier in the same       *)
(* block, is enough for it to be refused.                                  *)
THEOREM FreeCallsOnlyByRegulators ==
  ASSUME FeesAmple PROVE Spec => FreeOnlyForRegulators
<1>1. TransactionsInv =>
        [\A tx \in Transactions : ApplyExtrinsic(tx) /\ balances' = balances
           => tx.signer \in regulators \cup {sudoKey}]_vars
  <2> SUFFICES ASSUME TransactionsInv, NEW tx \in Transactions, ApplyExtrinsic(tx),
                      balances' = balances, tx.signer \notin regulators \cup {sudoKey}
               PROVE  FALSE
    OBVIOUS
  <2>1. TransactionsTypeOK /\ PreDispatch(tx) /\ balances = Dispatch(tx)
    BY DEF TransactionsInv, ApplyExtrinsic
  <2>2. tx.call.kind # "regulate" /\ ~ByRoot(tx)
    BY <2>1 DEF PreDispatch, PreValidateRegulatorCalls, ByRoot
  <2>3. Charged(tx) = InclusionFee
    BY <2>2 DEF Charged, FeeOf
  <2>4. balances[tx.signer].free <= balances[tx.signer].free - Charged(tx)
    BY <2>1, DispatchEffect
  <2>5. balances[tx.signer].free \in Nat
    BY <2>1, TransactionFields, HoldersOf DEF TransactionsTypeOK, Account
  <2> QED
    BY <2>3, <2>4, <2>5, InclusionFeeType DEF FeesAmple
<1> QED
  BY <1>1, TransactionsInit, TransactionsNext, PTL DEF Spec, FreeOnlyForRegulators

----------------------------------------------------------------------------
(* The author's reward                                                     *)

(* The pot holds either no more than the existential deposit, so that      *)
(* there is nothing to pay, or enough for the rest to create the account   *)
(* of an author who does not exist yet.                                    *)
PotReady ==
  balances[Pot].free <= ExistentialDeposit \/ balances[Pot].free >= 2 * ExistentialDeposit

LEMMA PotReadySuffices ==
  ASSUME TransactionsTypeOK, PotReady, NEW author \in InitialAuthorities
  PROVE  CanTransferKeepAlive(balances, Pot, author, AuthorReward)
<1>1. /\ balances[Pot].free \in Nat /\ balances[Pot].reserved \in Nat
      /\ balances[author].free \in Nat /\ balances[author].reserved \in Nat
  BY HoldersOf DEF TransactionsTypeOK, Account
<1>2. CASE balances[Pot].free <= ExistentialDeposit
  <2>1. AuthorReward = 0
    BY <1>1, <1>2, CurrencyAssumption DEF AuthorReward, SatSub
  <2> QED
    BY <2>1 DEF CanTransferKeepAlive
<1>3. CASE ~(balances[Pot].free <= ExistentialDeposit)
  <2>1. /\ balances[Pot].free >= 2 * ExistentialDeposit
        /\ AuthorReward = balances[Pot].free - ExistentialDeposit
    BY <1>1, <1>3, CurrencyAssumption DEF AuthorReward, SatSub, PotReady
  <2>2. /\ balances[Pot].free >= AuthorReward
        /\ balances[author].free + balances[author].reserved + AuthorReward
             >= ExistentialDeposit
        /\ balances[Pot].free - AuthorReward + balances[Pot].reserved >= ExistentialDeposit
    BY <1>1, <2>1, CurrencyAssumption
  <2> QED
    BY <2>2 DEF CanTransferKeepAlive
<1> QED
  BY <1>2, <1>3

LEMMA PotReadyInit == Init => PotReady
BY HoldersOf, CurrencyAssumption
   DEF Init, PotReady, EmptyAccount, KeikoGenesis, LocalGenesis, Accounts

LEMMA PotReadyNext ==
  ASSUME FeesAmple, TransactionsInv, PotReady, [Next]_vars
  PROVE  PotReady'
<1>1. TransactionsTypeOK /\ balances[Pot].free \in Nat
  BY HoldersOf DEF TransactionsInv, TransactionsTypeOK, Account
<1>2. ASSUME balances' = balances PROVE PotReady'
  BY <1>2 DEF PotReady
<1>3. ASSUME NEW author \in InitialAuthorities, InitializeBlock(author)
      PROVE  PotReady'
  <2>1. /\ balances \in LedgerOver(Holders) /\ author \in Holders /\ author # Pot
        /\ Pot \in Holders
    BY <1>1, HoldersOf DEF TransactionsTypeOK, LedgerOver
  <2>2. PICK reward \in Nat : reward = AuthorReward /\ balances[Pot].free >= reward
    BY <1>1, AuthorPaid
  <2>3. balances' = Transfer(balances, Pot, author, reward)
    BY <1>1, <1>3, <2>2, PotReadySuffices DEF InitializeBlock, PayAuthor
  <2>4. PICK after : after = Transfer(balances, Pot, author, reward)
    OBVIOUS
  <2>5. after[Pot].free = balances[Pot].free - reward
    BY <2>1, <2>2, <2>4, TransferEffect
  <2>6. after[Pot].free <= ExistentialDeposit
    BY <1>1, <2>2, <2>5, CurrencyAssumption DEF AuthorReward, SatSub
  <2> QED
    BY <2>3, <2>4, <2>6 DEF PotReady
<1>4. ASSUME NEW tx \in Transactions, ApplyExtrinsic(tx)
      PROVE  PotReady'
  <2>1. PreDispatch(tx) /\ balances' = Dispatch(tx)
    BY <1>4 DEF ApplyExtrinsic
  <2>2. /\ Charged(tx) # 0 => balances'[Pot].free >= balances[Pot].free + InclusionFee
        /\ Charged(tx) = 0 => balances'[Pot].free = balances[Pot].free
        /\ balances' \in LedgerOver(Holders)
    BY <1>1, <2>1, DispatchEffect
  <2>3. balances'[Pot].free \in Nat
    BY <2>2, HoldersOf, AccountTokens
  <2>4. CASE Charged(tx) # 0
    <3>1. balances'[Pot].free >= 2 * ExistentialDeposit
      BY <1>1, <2>2, <2>3, <2>4, InclusionFeeType, CurrencyAssumption DEF FeesAmple
    <3> QED
      BY <3>1 DEF PotReady
  <2>5. CASE Charged(tx) = 0
    BY <2>2, <2>5 DEF PotReady
  <2> QED
    BY <2>4, <2>5
<1>5. CASE Next
  <2>1. CASE \E author \in InitialAuthorities : InitializeBlock(author)
    BY <2>1, <1>3
  <2>2. CASE FinalizeBlock
    BY <2>2, <1>2 DEF FinalizeBlock
  <2>3. CASE \E tx \in Transactions : Sign(tx) \/ Submit(tx) \/ RemoveInvalid(tx)
    BY <2>3, <1>2 DEF Sign, Submit, RemoveInvalid
  <2>4. CASE \E tx \in Transactions : ApplyExtrinsic(tx)
    BY <2>4, <1>4
  <2> QED
    BY <1>5, <2>1, <2>2, <2>3, <2>4 DEF Next
<1>6. CASE UNCHANGED vars
  BY <1>6, <1>2 DEF vars
<1> QED
  BY <1>5, <1>6

(* debug_assert!(success.is_ok()) of note_author never fires: whatever     *)
(* fees and transfers the pot received, and although the first author of   *)
(* keiko has no account yet, the transfer of the reward succeeds.          *)
THEOREM AuthorsArePaid == ASSUME FeesAmple PROVE Spec => AuthorAlwaysPaid
<1>1. TransactionsInv /\ PotReady =>
        [\A author \in InitialAuthorities : InitializeBlock(author)
           => CanTransferKeepAlive(balances, Pot, author, AuthorReward)]_vars
  BY PotReadySuffices DEF TransactionsInv
<1>2. TransactionsInv /\ PotReady /\ [Next]_vars => PotReady'
  BY PotReadyNext
<1> QED
  BY <1>1, <1>2, PotReadyInit, TransactionsInit, TransactionsNext, PTL
     DEF Spec, AuthorAlwaysPaid

----------------------------------------------------------------------------
(* Tokens                                                                  *)

IssuanceIs ==
  TotalIssuance = Tokens(balances, Holders) /\ balances \in LedgerOver(Holders)

LEMMA IssuanceTokens == TransactionsTypeOK => IssuanceIs
BY DEF TransactionsTypeOK, IssuanceIs, TotalIssuance, Tokens, TokensOf, LedgerOver

LEMMA IssuanceTokensNext == TransactionsTypeOK' => IssuanceIs'
BY IssuanceTokens, PTL

(* The step of OnlyDustIsLost.                                             *)
DustLost ==
  /\ TotalIssuance' <= TotalIssuance
  /\ TotalIssuance' < TotalIssuance =>
       /\ TotalIssuance - TotalIssuance' < ExistentialDeposit
       /\ \E a \in Accounts : balances[a] # EmptyAccount /\ balances'[a] = EmptyAccount

LEMMA ApplyLosesDust ==
  ASSUME FeesAmple, TransactionsInv, TransactionsInv', NEW tx \in Transactions,
         ApplyExtrinsic(tx)
  PROVE  DustLost
<1>1. /\ TransactionsTypeOK /\ PreDispatch(tx) /\ balances' = Dispatch(tx)
      /\ IssuanceIs /\ IssuanceIs'
  BY IssuanceTokens, IssuanceTokensNext DEF TransactionsInv, ApplyExtrinsic
<1>2. PICK ledger : /\ Pays(ledger, tx)
                    /\ balances' = IF Charged(tx) = 0 THEN ledger
                                   ELSE DepositCreating(ledger, Pot, Charged(tx))
  BY <1>1, DispatchParts
<1>3. PICK fee \in Nat : fee = Charged(tx)
  BY ChargedType
<1>4. PICK who \in Accounts : who = tx.signer
  BY TransactionFields
<1>5. /\ balances \in LedgerOver(Holders) /\ who \in Holders /\ who # Pot
      /\ Pot \in Holders /\ IsFiniteSet(Holders) /\ balances[who].free >= fee
  BY <1>1, <1>3, <1>4, HoldersOf, FeeAffordable DEF IssuanceIs
<1>6. PICK charged : charged = WithdrawKeepAlive(balances, who, fee)
  OBVIOUS
<1>7. /\ charged \in LedgerOver(Holders)
      /\ \A h \in Holders : h # who => charged[h] = balances[h]
      /\ charged[who].free = balances[who].free - fee
      /\ charged[who].reserved = balances[who].reserved
  BY <1>5, <1>6, WithdrawKeepAliveEffect
<1>8. Sends(charged, ledger, who) /\ (fee # 0 \/ ledger = charged)
  BY <1>2, <1>3, <1>4, <1>6 DEF Pays
<1>9. /\ Tokens(charged, Holders) = Tokens(balances, Holders) - fee
      /\ Tokens(balances, Holders) \in Nat /\ Tokens(charged, Holders) \in Nat
  <2>1. Tokens(charged, Holders) =
          Tokens(balances, Holders) - TokensOf(balances[who]) + TokensOf(charged[who])
    BY <1>5, <1>7, TokensChange
  <2>2. /\ TokensOf(charged[who]) = TokensOf(balances[who]) - fee
        /\ TokensOf(balances[who]) \in Nat
    BY <1>5, <1>7, AccountTokens DEF TokensOf
  <2>3. Tokens(balances, Holders) \in Nat /\ Tokens(charged, Holders) \in Nat
    BY <1>5, <1>7, TokensType
  <2> QED
    BY <2>1, <2>2, <2>3
<1>10. /\ ledger \in LedgerOver(Holders) /\ Tokens(ledger, Holders) \in Nat
       /\ Tokens(ledger, Holders) <= Tokens(charged, Holders)
       /\ Tokens(ledger, Holders) < Tokens(charged, Holders) =>
            /\ ledger[who] = EmptyAccount
            /\ Tokens(charged, Holders) - Tokens(ledger, Holders) < ExistentialDeposit
  BY <1>5, <1>8, TokensType DEF Sends
<1>11. CASE fee = 0
  <2>1. balances' = charged
    BY <1>2, <1>3, <1>8, <1>11
  <2>2. Tokens(balances', Holders) = Tokens(balances, Holders)
    BY <1>9, <1>11, <2>1
  <2> QED
    BY <1>1, <1>9, <2>2 DEF IssuanceIs, DustLost
<1>12. CASE fee # 0
  <2>1. PICK after : after = DepositCreating(ledger, Pot, fee)
    OBVIOUS
  <2>2. /\ after \in LedgerOver(Holders)
        /\ \A h \in Holders : h # Pot => after[h] = ledger[h]
        /\ \/ after[Pot].free = ledger[Pot].free + fee
           \/ /\ after = ledger
              /\ ledger[Pot].free = 0 /\ ledger[Pot].reserved = 0
              /\ fee < ExistentialDeposit
        /\ after[Pot].reserved = ledger[Pot].reserved
    <3>1. ledger \in LedgerOver(Holders) /\ Pot \in Holders
      BY <1>5, <1>10
    <3> QED
      BY <2>1, <3>1, DepositEffect
  <2>3. after[Pot].free = ledger[Pot].free + fee
    BY <1>3, <1>12, <2>2, ChargedType, InclusionFeeType, CurrencyAssumption DEF FeesAmple
  <2>4. Tokens(after, Holders) =
          Tokens(ledger, Holders) - TokensOf(ledger[Pot]) + TokensOf(after[Pot])
    BY <1>5, <1>10, <2>2, TokensChange
  <2>5. TokensOf(after[Pot]) = TokensOf(ledger[Pot]) + fee /\ TokensOf(ledger[Pot]) \in Nat
    BY <1>5, <1>10, <2>2, <2>3, AccountTokens DEF TokensOf
  <2>6. Tokens(after, Holders) = Tokens(ledger, Holders) + fee
    BY <1>10, <2>4, <2>5
  <2>7. balances' = after
    BY <1>2, <1>3, <1>12, <2>1
  <2> DEFINE t == Tokens(balances, Holders)
             c == Tokens(charged, Holders)
             l == Tokens(ledger, Holders)
             n == Tokens(after, Holders)
  <2>8. /\ c = t - fee /\ t \in Nat /\ c \in Nat /\ l \in Nat /\ n = l + fee /\ l <= c
        /\ l < c => ledger[who] = EmptyAccount /\ c - l < ExistentialDeposit
    BY <1>9, <1>10, <2>6
  <2> HIDE DEF t, c, l, n
  <2>9. n <= t /\ (n < t => ledger[who] = EmptyAccount /\ t - n < ExistentialDeposit)
    BY <2>8
  <2>10. balances[who] # EmptyAccount
    BY <1>5, <1>12 DEF EmptyAccount
  <2>11. n < t => balances'[who] = EmptyAccount
    BY <1>5, <2>2, <2>7, <2>9
  <2>12. TotalIssuance = t /\ TotalIssuance' = n
    BY <1>1, <2>7 DEF IssuanceIs, t, n
  <2> QED
    BY <2>9, <2>10, <2>11, <2>12 DEF DustLost
<1> QED
  BY <1>11, <1>12

(* Fees end in the pot: no step creates tokens, and a step destroys only   *)
(* what was left, below the existential deposit, on an account that it     *)
(* removed.                                                                *)
THEOREM FeesAreNeverBurnt == ASSUME FeesAmple PROVE Spec => OnlyDustIsLost
<1>1. TransactionsInv /\ TransactionsInv' /\ [Next]_vars => [DustLost]_vars
  <2> SUFFICES ASSUME TransactionsInv, TransactionsInv', Next PROVE DustLost
    OBVIOUS
  <2>1. /\ TransactionsTypeOK /\ IssuanceIs /\ IssuanceIs'
        /\ Tokens(balances, Holders) \in Nat
    BY IssuanceTokens, IssuanceTokensNext, HoldersOf, TokensType
       DEF TransactionsInv, IssuanceIs
  <2>2. ASSUME Tokens(balances', Holders) = Tokens(balances, Holders) PROVE DustLost
    BY <2>1, <2>2 DEF IssuanceIs, DustLost
  <2>3. ASSUME NEW author \in InitialAuthorities, InitializeBlock(author) PROVE DustLost
    BY <2>1, <2>2, <2>3, AuthorPaid DEF InitializeBlock
  <2>4. CASE FinalizeBlock
    BY <2>4, <2>2 DEF FinalizeBlock
  <2>5. CASE \E tx \in Transactions : Sign(tx) \/ Submit(tx) \/ RemoveInvalid(tx)
    BY <2>5, <2>2 DEF Sign, Submit, RemoveInvalid
  <2> QED
    BY <2>3, <2>4, <2>5, ApplyLosesDust DEF Next
<1> QED
  BY <1>1, TransactionsInit, TransactionsNext, PTL DEF Spec, OnlyDustIsLost, DustLost

----------------------------------------------------------------------------
(* Mortal transactions                                                     *)

(* Powers of two, as the numbers of subsets of finite sets.                *)
LEMMA PowerIsSubsets ==
  ASSUME NEW k \in Nat
  PROVE  /\ IsFiniteSet(SUBSET (1..k)) /\ Cardinality(SUBSET (1..k)) = 2 ^ k
         /\ 2 ^ k \in Nat
<1>1. IsFiniteSet(1..k) /\ Cardinality(1..k) = k
  BY FS_Interval
<1>2. IsFiniteSet(SUBSET (1..k)) /\ Cardinality(SUBSET (1..k)) = 2 ^ Cardinality(1..k)
  BY <1>1, FS_SUBSET
<1> QED
  BY <1>1, <1>2, FS_CardinalityType

LEMMA PowerZero == 2 ^ 0 = 1
<1>1. 1..0 = {} /\ SUBSET (1..0) = {{}}
  OBVIOUS
<1>2. Cardinality(SUBSET (1..0)) = 1
  BY <1>1, FS_Singleton
<1> QED
  BY <1>2, PowerIsSubsets

LEMMA PowerDoubles ==
  ASSUME NEW k \in Nat
  PROVE  2 ^ (k + 1) = 2 ^ k + 2 ^ k
<1> DEFINE S == SUBSET (1..k)
           With == {T \cup {k + 1} : T \in S}
           f == [T \in S |-> T \cup {k + 1}]
<1>1. \A T \in S : k + 1 \notin T
  OBVIOUS
<1>2. f \in Bijection(S, With)
  <2>1. \A T, U \in S : f[T] = f[U] => T = U
    BY <1>1
  <2>2. f \in [S -> With]
    OBVIOUS
  <2>3. \A U \in With : \E T \in S : f[T] = U
    OBVIOUS
  <2> HIDE DEF f, S, With
  <2>4. f \in Injection(S, With)
    BY <2>1, <2>2 DEF Injection, IsInjective
  <2>5. f \in Surjection(S, With)
    BY <2>2, <2>3 DEF Surjection
  <2> QED
    BY <2>4, <2>5 DEF Bijection
<1>3. IsFiniteSet(S) /\ Cardinality(S) = 2 ^ k /\ 2 ^ k \in Nat
  BY PowerIsSubsets
<1>4. IsFiniteSet(With) /\ Cardinality(With) = 2 ^ k
  BY <1>2, <1>3, FS_Bijection DEF ExistsBijection
<1>5. S \cap With = {}
  BY <1>1
<1>6. SUBSET (1..(k + 1)) = S \cup With
  <2>1. 1..(k + 1) = (1..k) \cup {k + 1}
    OBVIOUS
  <2>2. ASSUME NEW T \in SUBSET (1..(k + 1)) PROVE T \in S \cup With
    <3>1. CASE k + 1 \in T
      <4>1. T \ {k + 1} \in S /\ T = (T \ {k + 1}) \cup {k + 1}
        BY <2>1, <3>1
      <4> QED
        BY <4>1
    <3>2. CASE k + 1 \notin T
      BY <2>1, <3>2
    <3> QED
      BY <3>1, <3>2
  <2>3. S \cup With \subseteq SUBSET (1..(k + 1))
    BY <2>1
  <2> QED
    BY <2>2, <2>3
<1>7. Cardinality(S \cup With) = Cardinality(S) + Cardinality(With) - Cardinality(S \cap With)
  BY <1>3, <1>4, FS_Union
<1>8. Cardinality(S \cap With) = 0
  BY <1>5, FS_EmptySet
<1>9. PICK j \in Nat : j = k + 1
  OBVIOUS
<1>10. Cardinality(SUBSET (1..j)) = 2 ^ j
  BY PowerIsSubsets
<1>11. SUBSET (1..j) = S \cup With
  BY <1>6, <1>9
<1> HIDE DEF S, With
<1>12. PICK n \in Nat : n = 2 ^ k
  BY <1>3
<1>13. Cardinality(S \cup With) = n + n - 0
  BY <1>3, <1>4, <1>7, <1>8, <1>12
<1>14. 2 ^ j = n + n
  <2>1. 2 ^ j = n + n - 0
    BY <1>10, <1>11, <1>13
  <2> QED
    BY <2>1
<1> QED
  BY <1>9, <1>12, <1>14

LEMMA PowerExceeds ==
  ASSUME NEW N \in Nat
  PROVE  2 ^ N >= N
<1> DEFINE Good == {k \in Nat : 2 ^ k >= k + 1}
<1>1. 0 \in Good
  BY PowerZero
<1>2. \A k \in 0..(N - 1) : k \in Good => k + 1 \in Good
  <2> SUFFICES ASSUME NEW k \in Nat, 2 ^ k >= k + 1 PROVE 2 ^ (k + 1) >= (k + 1) + 1
    OBVIOUS
  <2>1. PICK p \in Nat : p = 2 ^ k
    BY PowerIsSubsets
  <2>2. 2 ^ (k + 1) = p + p
    BY <2>1, PowerDoubles
  <2> QED
    BY <2>1, <2>2
<1> HIDE DEF Good
<1>3. N \in Good
  BY <1>1, <1>2, UpToInduction
<1>4. 2 ^ N \in Nat
  BY PowerIsSubsets
<1> QED
  BY <1>3, <1>4 DEF Good

(* What checked_next_power_of_two gives, halved, is less than the number   *)
(* it was computed from.                                                   *)
LEMMA HalfNextPower ==
  ASSUME NEW n \in Nat, n > 1
  PROVE  NextPowerOfTwo(n) \div 2 \in Nat /\ NextPowerOfTwo(n) \div 2 < n
<1> DEFINE Enough == {k \in Nat : 2 ^ k >= n}
           P(k) == 2 ^ k >= n /\ \A i \in 0..(k - 1) : 2 ^ i < n
<1>1. n \in Enough /\ Enough \subseteq Nat
  BY PowerExceeds
<1>2. PICK least \in Enough : \A k \in Enough : least <= k
  BY <1>1, LeastNatural
<1>3. least \in 0..n
  BY <1>1, <1>2
<1>4. P(least)
  <2>1. ASSUME NEW i \in 0..(least - 1) PROVE 2 ^ i < n
    <3>1. i \in Nat /\ i < least /\ least \in Nat
      BY <1>3
    <3>2. i \notin Enough
      BY <1>2, <3>1
    <3>3. 2 ^ i \in Nat
      BY <3>1, PowerIsSubsets
    <3> QED
      BY <3>1, <3>2, <3>3
  <2> QED
    BY <1>2, <2>1
<1>5. PICK k \in 0..n : P(k) /\ NextPowerOfTwo(n) = 2 ^ k
  <2> DEFINE c == CHOOSE k \in 0..n : P(k)
  <2>1. c \in 0..n /\ P(c)
    BY <1>3, <1>4
  <2>2. NextPowerOfTwo(n) = 2 ^ c
    BY DEF NextPowerOfTwo
  <2> HIDE DEF c
  <2> QED
    BY <2>1, <2>2
<1>6. k # 0
  <2> SUFFICES ASSUME k = 0 PROVE FALSE
    OBVIOUS
  <2>1. 2 ^ k = 1
    BY PowerZero
  <2>2. 2 ^ k >= n
    BY <1>5
  <2> QED
    BY <2>1, <2>2
<1>7. PICK i \in Nat : k = i + 1 /\ i \in 0..(k - 1)
  <2>1. k - 1 \in Nat /\ k = (k - 1) + 1 /\ k - 1 \in 0..(k - 1)
    BY <1>6
  <2> QED
    BY <2>1
<1>8. PICK p \in Nat : p = 2 ^ i
  BY PowerIsSubsets
<1>9. NextPowerOfTwo(n) = p + p
  BY <1>5, <1>7, <1>8, PowerDoubles
<1>10. p < n
  BY <1>5, <1>7, <1>8
<1>11. (p + p) \div 2 = p
  OBVIOUS
<1> QED
  BY <1>9, <1>10, <1>11

(* Whatever BlockHashCount is, the period that create_transaction computes *)
(* from it ends before the hash of the block of birth is forgotten.        *)
THEOREM BirthHashIsKept == Spec => []BirthHashKept
<1>1. TransactionsInv => BirthHashKept
  <2> SUFFICES ASSUME TransactionsInv, NEW tx \in Transactions,
                      Signed(tx), age[tx] < ValidityPeriod
               PROVE  HashKept(tx)
    BY DEF BirthHashKept
  <2>1. age[tx] \in Nat
    BY DEF TransactionsInv, TransactionsTypeOK, Signed
  <2>2. BlockHashCount \in Nat /\ BlockHashCount > 1
    BY TransactionsAssumption
  <2>3. ValidityPeriod \in Nat /\ ValidityPeriod < BlockHashCount
    BY <2>2, HalfNextPower DEF ValidityPeriod
  <2> QED
    BY <2>1, <2>2, <2>3 DEF HashKept
<1> QED
  BY <1>1, TransactionsInit, TransactionsNext, PTL DEF Spec
=============================================================================
