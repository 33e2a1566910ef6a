----------------------------- MODULE NodeProofs -----------------------------
(***************************************************************************)
(* What holds of the node for every set of configurations and for every    *)
(* specification a file may hold.  The invariants of the runs speak of the *)
(* end of the start only; the inductive invariant says what is spawned at  *)
(* each of its steps.                                                      *)
(***************************************************************************)
EXTENDS Node, TLAPS

(* The essential tasks spawned before the step at which the start is.      *)
Spawned ==
  If(step \in {"network", "rpc", "aura", "grandpa", "start", "running"}, "transaction-pool")
    \cup If(step \in {"network", "rpc", "aura", "grandpa", "start", "running"}, "import-queue")
    \cup If(step \in {"grandpa", "start", "running"} /\ config.authority, "aura")
    \cup If(step \in {"start", "running"} /\ ~config.disable_grandpa, "grandpa-voter")

(* As long as nothing failed the essential tasks that run are those that   *)
(* were spawned; there never are others, and none before or after the      *)
(* service.                                                                *)
TasksOfStep ==
  /\ ~failed => tasks \cap Essential = Spawned
  /\ "aura" \in tasks => config.authority
  /\ step \in {"command", "partial", "exited"} => tasks = {}

(* The specification is loaded, and the runtime chosen, by the command and *)
(* only there, so that what was authored with it stays its own.            *)
LoadedOnce ==
  /\ step = "command" => spec = None /\ ~authored
  /\ RunsWhatItReports
  /\ AuthorsOwnChain

NodeInv == NodeTypeOK /\ TasksOfStep /\ LoadedOnce

----------------------------------------------------------------------------
(* Nothing runs and nothing is loaded when the process starts.             *)
LEMMA NodeInit == Init => NodeInv
<1> SUFFICES ASSUME Init PROVE NodeInv
  OBVIOUS
<1>1. NodeTypeOK
  BY NodeAssumption DEF Init, NodeTypeOK, Steps, Runtimes, ChainSpec
<1>2. TasksOfStep
  BY DEF Init, TasksOfStep, Spawned, If
<1>3. LoadedOnce
  BY DEF Init, LoadedOnce, RunsWhatItReports, AuthorsOwnChain
<1> QED
  BY <1>1, <1>2, <1>3 DEF NodeInv

(* Loading a specification: the chains the node ships have the runtime     *)
(* that their id selects.                                                  *)
LEMMA RunKeeps == NodeInv /\ Run => NodeInv'
<1> SUFFICES ASSUME NodeInv, Run PROVE NodeInv'
  OBVIOUS
<1> USE DEF NodeInv
<1>1. PICK s \in LoadSpec(chain) : spec' = s /\ executor' = SelectRuntime(s)
  BY DEF Run
<1>2. s \in ChainSpec
  BY NodeAssumption, <1>1 DEF LoadSpec, DevelopmentConfig, KeikoConfig, ChainSpec, Runtimes
<1>3. NodeTypeOK'
  BY <1>1, <1>2 DEF NodeTypeOK, Run, SelectRuntime, Runtimes, Steps
<1>4. TasksOfStep'
  BY DEF Run, TasksOfStep, Spawned, If
<1>5. chain # "file" => SelectRuntime(s) = s.code /\ SelectRuntime(s) = NativeRuntimeVersion(s)
  BY <1>1 DEF NodeTypeOK, ChainArguments, LoadSpec, DevelopmentConfig, KeikoConfig,
              SelectRuntime, NativeRuntimeVersion, IsDev, IsKeiko
<1>6. LoadedOnce'
  BY <1>1, <1>5 DEF Run, LoadedOnce, RunsWhatItReports, AuthorsOwnChain, NativeRuntimeVersion, IsDev
<1> QED
  BY <1>3, <1>4, <1>6

(* Each step of the start spawns the essential tasks that belong to it.    *)
LEMMA StartKeeps ==
  NodeInv /\ (NewPartial \/ BuildNetwork \/ SpawnRpc \/ StartAura \/ StartGrandpa \/ StartNetwork)
    => NodeInv'
<1> SUFFICES ASSUME NodeInv,
                    NewPartial \/ BuildNetwork \/ SpawnRpc \/ StartAura \/ StartGrandpa \/ StartNetwork
             PROVE  NodeInv'
  OBVIOUS
<1> USE DEF NodeInv
<1>1. /\ step # "command"
      /\ step' \notin {"command", "partial", "exited"}
      /\ UNCHANGED <<chain, config, spec, executor, failed, authorities, sync, authored>>
  BY DEF NewPartial, BuildNetwork, SpawnRpc, StartAura, StartGrandpa, StartNetwork, Advance
<1>2. NodeTypeOK'
  <2>1. step' \in Steps
    BY DEF NewPartial, BuildNetwork, SpawnRpc, StartAura, StartGrandpa, StartNetwork, Advance, Steps
  <2>2. tasks' \subseteq TaskNames
    BY DEF NodeTypeOK, TaskNames, If,
           NewPartial, BuildNetwork, SpawnRpc, StartAura, StartGrandpa, StartNetwork, Advance
  <2> QED
    BY <1>1, <2>1, <2>2 DEF NodeTypeOK
<1>3. TasksOfStep'
  <2>1. config' = config /\ failed' = failed
    BY <1>1
  <2>2. ~failed => (tasks \cap Essential = Spawned)'
    <3>1. CASE NewPartial
      BY <3>1, <2>1 DEF TasksOfStep, NewPartial, Advance, Spawned, If, Essential
    <3>2. CASE BuildNetwork
      BY <3>2, <2>1 DEF TasksOfStep, BuildNetwork, Advance, Spawned, If, Essential
    <3>3. CASE SpawnRpc
      BY <3>3, <2>1 DEF TasksOfStep, SpawnRpc, Advance, Spawned, If, Essential
    <3>4. CASE StartAura
      BY <3>4, <2>1 DEF TasksOfStep, StartAura, Advance, Spawned, If, Essential
    <3>5. CASE StartGrandpa
      BY <3>5, <2>1 DEF TasksOfStep, StartGrandpa, Advance, Spawned, If, Essential
    <3>6. CASE StartNetwork
      BY <3>6, <2>1 DEF TasksOfStep, StartNetwork, Advance, Spawned, If, Essential
    <3> QED
      BY <3>1, <3>2, <3>3, <3>4, <3>5, <3>6
  <2>3. "aura" \in tasks' => config.authority
    BY DEF TasksOfStep, If,
           NewPartial, BuildNetwork, SpawnRpc, StartAura, StartGrandpa, StartNetwork, Advance
  <2> QED
    BY <1>1, <2>1, <2>2, <2>3 DEF TasksOfStep
<1>4. LoadedOnce'
  BY <1>1 DEF LoadedOnce, RunsWhatItReports, AuthorsOwnChain, NativeRuntimeVersion, IsDev
<1> QED
  BY <1>2, <1>3, <1>4

(* Wherever the service ends, it ends with all its tasks.                  *)
LEMMA EndKeeps == NodeInv /\ (StartFails \/ EndOnFailure \/ Interrupt) => NodeInv'
<1> SUFFICES ASSUME NodeInv, StartFails \/ EndOnFailure \/ Interrupt PROVE NodeInv'
  OBVIOUS
<1> USE DEF NodeInv
<1>1. /\ step' = "exited" /\ tasks' = {}
      /\ UNCHANGED <<chain, config, spec, executor, failed, authorities, sync, authored>>
  BY DEF StartFails, EndOnFailure, Interrupt
<1>2. NodeTypeOK'
  BY <1>1 DEF NodeTypeOK, Steps
<1>3. TasksOfStep'
  BY <1>1 DEF TasksOfStep, Spawned, If
<1>4. LoadedOnce'
  BY <1>1 DEF LoadedOnce, RunsWhatItReports, AuthorsOwnChain, NativeRuntimeVersion, IsDev
<1> QED
  BY <1>2, <1>3, <1>4

(* A task that fails leaves the others as they are.                        *)
LEMMA TaskFailsKeeps == ASSUME NEW t \in TaskNames, NodeInv, TaskFails(t) PROVE NodeInv'
<1> USE DEF NodeInv
<1>1. NodeTypeOK'
  BY DEF NodeTypeOK, TaskFails
<1>2. TasksOfStep'
  <2>1. ~failed' => tasks' \cap Essential = tasks \cap Essential
    BY DEF TaskFails, NodeTypeOK
  <2>2. Spawned' = Spawned
    BY DEF TaskFails, Spawned, If
  <2>3. ~failed' => ~failed
    BY DEF TaskFails
  <2> QED
    BY <2>1, <2>2, <2>3 DEF TasksOfStep, TaskFails
<1>3. LoadedOnce'
  BY DEF TaskFails, LoadedOnce, RunsWhatItReports, AuthorsOwnChain, NativeRuntimeVersion, IsDev
<1> QED
  BY <1>1, <1>2, <1>3

(* Synchronising and authoring leave the service as it is; a block comes   *)
(* from the authoring task and from the runtime on chain.                  *)
LEMMA WorkKeeps == NodeInv /\ (FindPeers \/ FinishSync \/ LosePeers \/ AuthorBlock) => NodeInv'
<1> SUFFICES ASSUME NodeInv, FindPeers \/ FinishSync \/ LosePeers \/ AuthorBlock PROVE NodeInv'
  OBVIOUS
<1> USE DEF NodeInv
<1>1. UNCHANGED <<chain, config, spec, executor, step, tasks, failed, authorities>>
  BY DEF FindPeers, FinishSync, LosePeers, AuthorBlock
<1>2. NodeTypeOK'
  BY <1>1 DEF NodeTypeOK, FindPeers, FinishSync, LosePeers, AuthorBlock
<1>3. TasksOfStep'
  BY <1>1 DEF TasksOfStep, Spawned, If
<1>4. LoadedOnce'
  <2>1. authored' => authored \/ AuthorBlock
    BY DEF FindPeers, FinishSync, LosePeers, AuthorBlock
  <2>2. AuthorsOwnChain'
    BY <1>1, <2>1 DEF LoadedOnce, AuthorsOwnChain, AuthorBlock, CanAuthor, TasksOfStep
  <2>3. step' = "command" => ~authored'
    BY <1>1, <2>1 DEF LoadedOnce, AuthorBlock, TasksOfStep
  <2> QED
    BY <1>1, <2>2, <2>3 DEF LoadedOnce, RunsWhatItReports, NativeRuntimeVersion, IsDev
<1> QED
  BY <1>2, <1>3, <1>4

(* Every step of the node keeps the inductive invariant.                   *)
LEMMA NodeStep == NodeInv /\ [Next]_vars => NodeInv'
<1> SUFFICES ASSUME NodeInv, [Next]_vars PROVE NodeInv'
  OBVIOUS
<1>1. CASE StartUp
  BY <1>1, RunKeeps, StartKeeps DEF StartUp
<1>2. CASE StartFails \/ EndOnFailure \/ Interrupt
  BY <1>2, EndKeeps
<1>3. CASE \E t \in TaskNames : TaskFails(t)
  BY <1>3, TaskFailsKeeps
<1>4. CASE FindPeers \/ FinishSync \/ LosePeers \/ AuthorBlock
  BY <1>4, WorkKeeps
<1>5. CASE UNCHANGED vars
  BY <1>5 DEF vars, NodeInv, NodeTypeOK, TasksOfStep, Spawned, LoadedOnce, RunsWhatItReports,
              AuthorsOwnChain, NativeRuntimeVersion, IsDev, If
<1> QED
  BY <1>1, <1>2, <1>3, <1>4, <1>5 DEF Next

(* The inductive invariant holds in every state of the node.               *)
THEOREM NodeInvariant == Spec => []NodeInv
<1>1. Init => NodeInv
  BY NodeInit
<1>2. NodeInv /\ [Next]_vars => NodeInv'
  BY NodeStep
<1> QED
  BY <1>1, <1>2, PTL DEF Spec

----------------------------------------------------------------------------
(* Whatever the configuration, and whatever failed on the way, the state   *)
(* of the node has its type: the runtime is one the node is built with.    *)
THEOREM NodeTypeCorrect == Spec => []NodeTypeOK
<1>1. NodeInv => NodeTypeOK
  BY DEF NodeInv
<1> QED
  BY <1>1, NodeInvariant, PTL

(* start_node_impl gives a service with all essential tasks its            *)
(* configuration asks for or none, at whatever step it may fail.           *)
THEOREM ServiceCompleteOrNothing == Spec => []CompleteOrNothing
<1>1. NodeInv => CompleteOrNothing
  <2> SUFFICES ASSUME NodeInv PROVE CompleteOrNothing
    OBVIOUS
  <2>1. step = "running" => Spawned = Required
    BY DEF Spawned, Required, If
  <2> QED
    BY <2>1 DEF NodeInv, TasksOfStep, CompleteOrNothing
<1> QED
  BY <1>1, NodeInvariant, PTL

(* On the chains the node ships, run() starts the runtime of the genesis   *)
(* that native_runtime_version reports.                                    *)
THEOREM RunsTheReportedRuntime == Spec => []RunsWhatItReports
<1>1. NodeInv => RunsWhatItReports
  BY DEF NodeInv, LoadedOnce
<1> QED
  BY <1>1, NodeInvariant, PTL

(* Whatever file is given as --chain, a node that authors is an authority  *)
(* with a key of the active set whose native runtime is the one on chain.  *)
THEOREM AuthorsOnlyItsOwnChain == Spec => []AuthorsOwnChain
<1>1. NodeInv => AuthorsOwnChain
  BY DEF NodeInv, LoadedOnce
<1> QED
  BY <1>1, NodeInvariant, PTL
=============================================================================
