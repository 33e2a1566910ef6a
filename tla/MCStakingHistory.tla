-------------------------- MODULE MCStakingHistory --------------------------
(***************************************************************************)
(* DapiStaking with a history variable that remembers how the current era  *)
(* began.  It does not constrain the pallet.                               *)
(***************************************************************************)
EXTENDS DapiStaking

VARIABLE startLength   \* the configured length when the current era began

HistoryInit ==
  /\ Init
  /\ startLength = 0

RecordStart ==
  startLength' = IF era'.current # era.current THEN era'.length ELSE startLength

historyVars == <<vars, startLength>>

HistorySpec == HistoryInit /\ [][Next /\ RecordStart]_historyVars

(* "Change the number of blocks per era config. The config is applied at    *)
(* next era" (lib.rs:283): an era lasts as many blocks as were configured  *)
(* when it began.                                                          *)
EraLastsItsLength ==
  [][era.current > 0 /\ era'.current # era.current =>
       era'.first_block - era.first_block = startLength]_historyVars
=============================================================================
