------------------------------- MODULE MCNode -------------------------------
(* Every configuration, and the files that build-spec writes for the       *)
(* shipped chains together with one whose id is of the operator's choice.  *)
EXTENDS Node

AllConfigurations == Configuration

Files == {DevelopmentConfig, KeikoConfig, [id |-> "other", code |-> "keiko"]}
=============================================================================
