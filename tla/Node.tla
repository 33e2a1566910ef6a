-------------------------------- MODULE Node --------------------------------
(***************************************************************************)
(* The node (node/src): from the command line to the running service and   *)
(* its end.  The chain specification is loaded, one of the two runtimes is *)
(* chosen by the chain's id, and start_node_impl spawns the tasks of the   *)
(* service one after the other.  Any of these steps may return an error;   *)
(* a task that was spawned runs on its own and may fail at any time, also  *)
(* while the next ones are still being spawned.                            *)
(*                                                                         *)
(* A chain specification is its id, of which only the prefix counts, and   *)
(* the runtime whose code its genesis holds.                               *)
(***************************************************************************)
EXTENDS FiniteSets

CONSTANTS
  None,
  SpecFiles,       \* the specifications that a file given as --chain may hold
  Configurations   \* the settings of a node that start_node_impl reads

Runtimes == {"local", "keiko"}

ChainSpec == [id : {"dev", "keiko", "other"}, code : Runtimes]

Configuration ==
  [authority : BOOLEAN, disable_grandpa : BOOLEAN, force_authoring : BOOLEAN,
   offchain_worker : BOOLEAN, telemetry : BOOLEAN]

ASSUME NodeAssumption ==
  /\ None \notin Runtimes \cup ChainSpec
  /\ SpecFiles \subseteq ChainSpec
  /\ Configurations \subseteq Configuration

ChainArguments == {"dev", "keiko-dev", "keiko", "file"}

VARIABLES
  chain,       \* the argument --chain
  config,      \* the other settings
  spec,        \* the chain specification, None until it is loaded
  executor,    \* the runtime the service is instantiated with
  step,        \* what the start of the service does next
  tasks,       \* the running tasks of the task manager
  failed,      \* an essential task has failed
  authorities, \* the active set, "self" if a key of it is in the keystore
  sync,        \* "alone" until there are peers, "syncing", "synced", and
               \* "cut" off when they are lost
  authored     \* the node has produced a block

vars == <<chain, config, spec, executor, step, tasks, failed, authorities,
          sync, authored>>

Steps == {"command", "partial", "network", "rpc", "aura", "grandpa",
          "start", "running", "exited"}

TaskNames == {"telemetry", "transaction-pool", "import-queue", "network-worker",
              "offchain-workers", "rpc", "aura", "grandpa-voter"}

(* Spawned by the essential handle: the service ends when one of them does. *)
Essential == {"transaction-pool", "import-queue", "aura", "grandpa-voter"}

Init ==
  /\ chain \in ChainArguments
  /\ config \in Configurations
  /\ spec = None
  /\ executor = None
  /\ step = "command"
  /\ tasks = {}
  /\ failed = FALSE
  /\ authorities \in SUBSET {"self", "other"} \ {{}}
  /\ sync = "alone"
  /\ authored = FALSE

----------------------------------------------------------------------------
(* Command line                                                            *)

DevelopmentConfig == [id |-> "dev", code |-> "local"]

KeikoConfig == [id |-> "keiko", code |-> "keiko"]

(* load_spec; "keiko-dev" is built and "keiko" is read from the same       *)
(* specification, anything else is the path of a file.                     *)
LoadSpec(argument) ==
  IF argument = "dev" THEN {DevelopmentConfig}
  ELSE IF argument \in {"keiko-dev", "keiko"} THEN {KeikoConfig}
  ELSE SpecFiles

IsDev(s) == s.id = "dev"

IsKeiko(s) == s.id = "keiko"

(* The version the command line reports for a chain.                       *)
NativeRuntimeVersion(s) == IF IsDev(s) THEN "local" ELSE "keiko"

(* Faulty: the choices are swapped.                                        *)
SelectOther(s) == IF IsKeiko(s) THEN "local" ELSE "keiko"

(* Faulty: the id is taken for the runtime's name.                         *)
SelectById(s) == s.id

(* The runtime that run() and check-block use.                             *)
SelectRuntime(s) == IF IsKeiko(s) THEN "keiko" ELSE "local"

Run ==
  /\ step = "command"
  /\ \E s \in LoadSpec(chain) :
       /\ spec' = s
       /\ executor' = SelectRuntime(s)
  /\ step' = "partial"
  /\ UNCHANGED <<chain, config, tasks, failed, authorities,
                 sync, authored>>

----------------------------------------------------------------------------
(* The start of the service                                                *)

Advance(from, to, spawned) ==
  /\ step = from
  /\ step' = to
  /\ tasks' = tasks \cup spawned
  /\ UNCHANGED <<chain, config, spec, executor, failed, authorities, sync,
                 authored>>

If(condition, task) == IF condition THEN {task} ELSE {}

NewPartial ==
  Advance("partial", "network",
          If(config.telemetry, "telemetry") \cup {"transaction-pool", "import-queue"})

BuildNetwork ==
  Advance("network", "rpc",
          {"network-worker"} \cup If(config.offchain_worker, "offchain-workers"))

SpawnRpc == Advance("rpc", "aura", {"rpc"})

(* Faulty: every node authors.                                             *)
StartAuraAlways == Advance("aura", "grandpa", {"aura"})

StartAura == Advance("aura", "grandpa", If(config.authority, "aura"))

(* Without --no-grandpa every node runs the full voter; who is no authority *)
(* runs it without a keystore.                                             *)
StartGrandpa ==
  Advance("grandpa", "start", If(~config.disable_grandpa, "grandpa-voter"))

StartNetwork == Advance("start", "running", {})

(* The steps with a `?`; authoring and the voter are only set up where the *)
(* configuration asks for them.                                            *)
MayFail ==
  \/ step \in {"command", "partial", "network", "rpc"}
  \/ step = "aura" /\ config.authority
  \/ step = "grandpa" /\ ~config.disable_grandpa

(* Faulty: the tasks spawned so far go on.                                 *)
LeaveTasks ==
  /\ MayFail
  /\ step' = "exited"
  /\ UNCHANGED <<chain, config, spec, executor, tasks, failed, authorities,
                 sync, authored>>

(* The error is returned; the task manager is dropped with its tasks.      *)
StartFails ==
  /\ MayFail
  /\ step' = "exited"
  /\ tasks' = {}
  /\ UNCHANGED <<chain, config, spec, executor, failed, authorities, sync,
                 authored>>

----------------------------------------------------------------------------
(* The running service                                                     *)

TaskFails(t) ==
  /\ t \in tasks
  /\ tasks' = tasks \ {t}
  /\ failed' = (failed \/ t \in Essential)
  /\ UNCHANGED <<chain, config, spec, executor, step, authorities, sync,
                 authored>>

(* Faulty: a failure is only noticed if the service was complete before.   *)
EndIfComplete ==
  /\ step = "running"
  /\ failed
  /\ "aura" \in tasks
  /\ step' = "exited"
  /\ tasks' = {}
  /\ UNCHANGED <<chain, config, spec, executor, failed, authorities, sync,
                 authored>>

(* run_node_until_exit looks at the essential tasks once the start is over. *)
EndOnFailure ==
  /\ step = "running"
  /\ failed
  /\ step' = "exited"
  /\ tasks' = {}
  /\ UNCHANGED <<chain, config, spec, executor, failed, authorities, sync,
                 authored>>

Interrupt ==
  /\ step = "running"
  /\ step' = "exited"
  /\ tasks' = {}
  /\ UNCHANGED <<chain, config, spec, executor, failed, authorities, sync,
                 authored>>

(* The network (external): peers are found, ahead of the node or not, and  *)
(* may be lost for good.                                                   *)
FindPeers ==
  /\ step = "running"
  /\ "network-worker" \in tasks
  /\ sync = "alone"
  /\ sync' \in {"syncing", "synced"}
  /\ UNCHANGED <<chain, config, spec, executor, step, tasks, failed,
                 authorities, authored>>

FinishSync ==
  /\ step = "running"
  /\ {"network-worker", "import-queue"} \subseteq tasks
  /\ sync = "syncing"
  /\ sync' = "synced"
  /\ UNCHANGED <<chain, config, spec, executor, step, tasks, failed,
                 authorities, authored>>

LosePeers ==
  /\ step = "running"
  /\ sync \in {"syncing", "synced"}
  /\ sync' = "cut"
  /\ UNCHANGED <<chain, config, spec, executor, step, tasks, failed,
                 authorities, authored>>

(* CanAuthorWithNativeVersion: the native runtime is the one on chain.     *)
CanAuthor == executor = spec.code

(* Other authorities go on without a node that has no peers; only one that *)
(* forces authoring does not mind.                                         *)
LeftOut ==
  /\ sync \in {"alone", "cut"}
  /\ "other" \in authorities
  /\ ~config.force_authoring

(* The Aura worker runs from when it is spawned. In every slot it needs a  *)
(* key of the active set, and it skips the slot while the node is syncing  *)
(* or left out. The strategy for backing off when finality lags postpones  *)
(* a slot by a bounded number and is left out.                             *)
AuthorBlock ==
  /\ "aura" \in tasks
  /\ CanAuthor
  /\ "self" \in authorities
  /\ sync # "syncing"
  /\ ~LeftOut
  /\ ~authored
  /\ authored' = TRUE
  /\ UNCHANGED <<chain, config, spec, executor, step, tasks, failed,
                 authorities, sync>>

----------------------------------------------------------------------------
StartUp ==
  \/ Run \/ NewPartial \/ BuildNetwork \/ SpawnRpc \/ StartAura
  \/ StartGrandpa \/ StartNetwork

Next ==
  \/ StartUp
  \/ StartFails
  \/ \E t \in TaskNames : TaskFails(t)
  \/ EndOnFailure
  \/ Interrupt
  \/ FindPeers
  \/ FinishSync
  \/ LosePeers
  \/ AuthorBlock

(* The process goes on with its start, polls its tasks, downloads the      *)
(* blocks of its peers and tries to author in every slot; nothing has to   *)
(* fail.                                                                   *)
Fairness ==
  /\ WF_vars(StartUp)
  /\ WF_vars(EndOnFailure)
  /\ WF_vars(FinishSync)
  /\ WF_vars(AuthorBlock)

Spec == Init /\ [][Next]_vars /\ Fairness

----------------------------------------------------------------------------
(* Properties                                                              *)

(* Type correctness of the node's state.                                   *)
NodeTypeOK ==
  /\ chain \in ChainArguments
  /\ config \in Configuration
  /\ spec \in ChainSpec \cup {None}
  /\ executor \in Runtimes \cup {None}
  /\ step \in Steps
  /\ tasks \subseteq TaskNames
  /\ failed \in BOOLEAN
  /\ authorities \subseteq {"self", "other"}
  /\ sync \in {"alone", "syncing", "synced", "cut"}
  /\ authored \in BOOLEAN

(* The essential tasks that a configuration asks for.                      *)
Required ==
  {"transaction-pool", "import-queue"}
    \cup If(config.authority, "aura")
    \cup If(~config.disable_grandpa, "grandpa-voter")

(* The service is complete or not there: a running one of which no         *)
(* essential task has failed has exactly those its configuration asks for, *)
(* so that an authority that authors also votes, and of a start that       *)
(* returned an error at any step nothing runs on.                          *)
CompleteOrNothing ==
  /\ step = "running" /\ ~failed => tasks \cap Essential = Required
  /\ step = "exited" => tasks = {}

(* "the AURA authoring task is considered essential, i.e. if it fails we   *)
(* take down the service with it" (service.rs:351), also when it fails     *)
(* before the start is over.                                               *)
EssentialFailureEndsNode == failed ~> step = "exited"

(* On the chains the node ships, it runs the runtime that is in the        *)
(* genesis and that it reports as its own.                                 *)
RunsWhatItReports ==
  chain # "file" /\ spec # None =>
    /\ executor = spec.code
    /\ executor = NativeRuntimeVersion(spec)

(* Blocks come from authorities only, that is, from nodes that hold a key  *)
(* of the active set, and only from the runtime on chain.                  *)
AuthorsOwnChain ==
  authored =>
    config.authority /\ executor = spec.code /\ "self" \in authorities

NetworkLost == sync = "syncing" /\ "network-worker" \notin tasks

(* A node of a shipped chain that runs as an authority with a key of the   *)
(* active set produces blocks, unless it exits, loses the network in the   *)
(* middle of a sync, or has no peers while there are other authorities.    *)
(* Alone in the active set, or told to force authoring, it needs no peers. *)
AuthoritiesAuthor ==
  (step = "running" /\ config.authority /\ "self" \in authorities
     /\ chain # "file")
    ~> (authored \/ step = "exited" \/ NetworkLost \/ LeftOut)
=============================================================================
