--------------------------- MODULE MCDapiStaking ----------------------------
(* Instances of DapiStaking, with its refinement of StakeLedger, for TLC.  *)
EXTENDS StakingRefinement, TLC

(* All accounts start alike, and so do all providers.                     *)
Symmetry == Permutations(Accounts) \cup Permutations(Providers)
=============================================================================
