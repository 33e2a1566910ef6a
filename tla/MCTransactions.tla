--------------------------- MODULE MCTransactions ---------------------------
(* Transactions that spend an account down to nothing and fund it again, a *)
(* free report of a regulator, and root's changes of the regulators, by    *)
(* the root key of one chain and by that of the other.                     *)
EXTENDS Transactions

CONSTANTS a1, a2

SendTokens(from, n, period, to, amount) ==
  [signer |-> from, nonce |-> n, period |-> period,
   call |-> [kind |-> "transfer", to |-> to, amount |-> amount]]

Set(from, n, kind, who) ==
  [signer |-> from, nonce |-> n, period |-> ValidityPeriod,
   call |-> [kind |-> kind, who |-> who]]

(* Immortal, for longer than hashes are kept, or as create_transaction     *)
(* would sign it.                                                          *)
TransactionSet ==
  {SendTokens(a1, 0, None, a2, InitialBalance - InclusionFee - 1),
   SendTokens(a2, 0, 8, a1, InitialBalance),
   [signer |-> Eve, nonce |-> 0, period |-> None,
    call |-> [kind |-> "regulate"]],
   Set(RootKey, 0, "appoint", Eve),
   Set(Alice, 0, "revoke", Eve)}
=============================================================================
