------------------------------ MODULE Perbill ------------------------------
(***************************************************************************)
(* sp_arithmetic::Perbill as the pallets use it (external).  A Perbill is  *)
(* a number of parts in 0..Accuracy; Accuracy is 10^9 in the library and a *)
(* parameter here so that TLC can use a small one.                         *)
(***************************************************************************)
EXTENDS Integers

CONSTANT Accuracy      \* parts in a whole

ASSUME AccuracyAssumption == Accuracy \in Nat \ {0}

Parts == 0..Accuracy

One == Accuracy

(* Perbill::from_rational(p, q): the fraction p/q rounded down.  A zero    *)
(* denominator counts as one and the result never exceeds one.             *)
FromRational(p, q) ==
  LET den == IF q = 0 THEN 1 ELSE q
  IN  IF p >= den THEN One ELSE (p * Accuracy) \div den

(* part * x: the product rounded to the nearest integer, a tie going down. *)
PerbillMul(part, x) == (2 * part * x + Accuracy - 1) \div (2 * Accuracy)
=============================================================================
