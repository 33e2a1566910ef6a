------------------------------ MODULE MCRuntime -----------------------------
(* Distribution configurations for the model of the runtime: one that      *)
(* rounds, one that gives everything to the validators, and an invalid one.*)
EXTENDS Runtime, TLC

Symmetry == Permutations(Accounts)

EvenSplit == [providers_percent |-> 500, validators_percent |-> 500]

Configs == {[providers_percent |-> 0, validators_percent |-> 1000],
            [providers_percent |-> 500, validators_percent |-> 400]}
=============================================================================
