------------------------------ MODULE Bootstrap ------------------------------
(***************************************************************************)
(* The first setup of a Talos cluster by `clustertool talos apply`: the    *)
(* decision between a first bootstrap, a resumed one and a rolling apply   *)
(* (cmd/talos_apply.go, pkg/gencmd/clusterstate.go), the checkpoint file   *)
(* talos/.bootstrap-in-progress.json (bootstrap_state.go), the loop that   *)
(* configures every node (bootstrap_nodes.go), the probe / bootstrap-RPC   *)
(* loop (bootstrap_endpoint.go) and the ordered rest of RunBootstrap       *)
(* (bootstrap.go).                                                         *)
(*                                                                         *)
(* One clustertool process runs at a time; it may stop at any step (crash, *)
(* kill, error return, expired wait, declined prompt) and be started       *)
(* again.  A layer of charts is one step here, which a stop within it may  *)
(* leave with a release that later runs refuse; its charts, goroutines and *)
(* releases are ChartInstall's.  The nodes are the environment: they       *)
(* install, boot, join etcd and become ready on their own.                 *)
(***************************************************************************)
EXTENDS Integers

CONSTANTS
  Nodes,            \* node numbers: the inventory's order by name
  ControlPlanes,    \* the nodes of role control-plane
  FaultKinds,       \* what may go wrong in this instance
  MaxFaults,        \* bound on the number of faults of one behaviour
  InterruptPoints   \* the steps at which the process may be interrupted

Kinds == {"interrupt", "unreachable", "lost", "reboot", "edit", "wipe"}

None  == 0   \* no checkpoint file; also: not a member of any etcd cluster
Empty == -1  \* the checkpoint file exists and holds no parseable state

Steps == {"create", "write", "nodes", "install", "probe", "rpc", "up",
          "kube", "base", "join", "config", "charts", "flux", "remove",
          "rolling"}

ASSUME NodesAssumption ==
  /\ Nodes \subseteq Nat \ {0}
  /\ ControlPlanes \subseteq Nodes
  /\ ControlPlanes # {}
ASSUME FaultsAssumption ==
  /\ FaultKinds \subseteq Kinds
  /\ MaxFaults \in Nat
  /\ InterruptPoints \subseteq Steps

VARIABLES
  (* the machines *)
  stage,      \* machine stage of each node; "ready" is running with .status.ready
  member,     \* the etcd cluster each control plane belongs to, None if none
  founded,    \* number of etcd clusters created so far; numbers the next one
  installed,  \* layers deployed in Kubernetes
  leftover,   \* layers with a Helm release in place that is not deployed
  late,       \* targets of abandoned bootstrap RPCs that may still be served
  (* the working directory *)
  boot,       \* inv.Bootstrap(): the first control plane of the inventory
  ckpt,       \* the checkpoint: None, Empty, or the node it was written for
  (* the clustertool process *)
  pc,         \* its next step, "idle" when no process runs
  todo,       \* nodes its current loop still has to visit
  (* bound *)
  faults

machineVars == <<stage, member, founded, installed, leftover, late>>
vars == <<stage, member, founded, installed, leftover, late, boot, ckpt, pc, todo, faults>>

Stages == {"maintenance", "installing", "booting", "running", "ready"}
Booted == {"booting", "running", "ready"}
Layers == {"cni", "config", "charts", "flux"}

(* The steps that install Helm charts, with the layer each of them deploys;  *)
(* "config" is plain manifests.                                             *)
HelmLayer == [base |-> "cni", charts |-> "charts", flux |-> "flux"]
HelmSteps == {"base", "charts", "flux"}
HelmLayers == {"cni", "charts", "flux"}

-----------------------------------------------------------------------------
(* Inventory order: control planes first, the bootstrap node before all.    *)
Before(m, n) ==
  \/ m = boot
  \/ /\ n # boot
     /\ \/ m \in ControlPlanes /\ n \notin ControlPlanes
        \/ (m \in ControlPlanes <=> n \in ControlPlanes) /\ m < n

NextNode(n) == n \in todo /\ \A m \in todo \ {n} : Before(n, m)

(* A control plane in etcd answers `etcd members` once it runs; while it    *)
(* still boots it may or may not.                                           *)
MayAnswer(n)  == member[n] # None /\ stage[n] \in Booted
MustAnswer(n) == member[n] # None /\ stage[n] \in {"running", "ready"}

Fault(kind) ==
  /\ kind \in FaultKinds
  /\ faults < MaxFaults
  /\ faults' = faults + 1

(* ExistingControlPlane: found as soon as one control plane answers with a   *)
(* membership table; a transport error is treated as "not found".           *)
EtcdFound    == \E n \in ControlPlanes : MayAnswer(n)
EtcdNotFound == IF \E n \in ControlPlanes : MustAnswer(n)
                THEN Fault("unreachable")
                ELSE UNCHANGED faults

(* Talos serves the bootstrap RPC on a configured node without etcd data.    *)
CanFound(n) == stage[n] = "booting" /\ member[n] = None

Found(n) ==
  /\ founded' = founded + 1
  /\ member' = [member EXCEPT ![n] = founded + 1]

-----------------------------------------------------------------------------
(* The apply command up to its decision.  It refuses to go on when the      *)
(* checkpoint cannot be parsed or is another identity's, when it is pending *)
(* and only one node is addressed, and when no etcd answers although some   *)
(* control plane has left maintenance; refusing changes nothing.            *)
PendingForAnyNode == ckpt \notin {None, Empty}  \* mutant: identity not compared
CheckpointPending == ckpt = boot

CheckpointUnusable == ckpt # None /\ ~CheckpointPending

BootNodeInMaintenance == stage[boot] = "maintenance"  \* mutant: others not asked
AllInMaintenance == \A n \in ControlPlanes : stage[n] = "maintenance"

ApplyRefused(target) ==
  /\ pc = "idle"
  /\ \/ CheckpointUnusable
     \/ CheckpointPending /\ target # Nodes
     \/ /\ ckpt = None
        /\ \/ ~AllInMaintenance
           \/ target \notin {Nodes, {boot}}
  /\ UNCHANGED vars

ResumeWithControlPlanes ==  \* mutant: workers are taken as configured
  /\ pc = "idle"
  /\ CheckpointPending
  /\ pc' = "nodes"
  /\ todo' = ControlPlanes
  /\ UNCHANGED <<machineVars, boot, ckpt, faults>>
ResumeBootstrap ==
  /\ pc = "idle"
  /\ CheckpointPending
  /\ pc' = "nodes"
  /\ todo' = Nodes
  /\ UNCHANGED <<machineVars, boot, ckpt, faults>>

StartWithoutCheckpoint(target) ==  \* mutant: beginBootstrap skipped
  /\ pc = "idle"
  /\ ckpt = None
  /\ EtcdNotFound
  /\ AllInMaintenance
  /\ target \in {Nodes, {boot}}
  /\ pc' = "nodes"
  /\ todo' = Nodes
  /\ UNCHANGED <<machineVars, boot, ckpt>>
StartBootstrap(target) ==
  /\ pc = "idle"
  /\ ckpt = None
  /\ EtcdNotFound
  /\ AllInMaintenance
  /\ target \in {Nodes, {boot}}
  /\ pc' = "create"
  /\ UNCHANGED <<machineVars, boot, ckpt, todo>>

StartRolling(target) ==
  /\ pc = "idle"
  /\ ckpt = None
  /\ EtcdFound
  /\ pc' = "rolling"
  /\ todo' = target
  /\ UNCHANGED <<machineVars, boot, ckpt, faults>>

(* beginBootstrap: exclusive creation, then the write, two system calls.    *)
CreateCheckpoint ==
  /\ pc = "create"
  /\ ckpt = None
  /\ ckpt' = Empty
  /\ pc' = "write"
  /\ UNCHANGED <<machineVars, boot, todo, faults>>

WriteCheckpoint ==
  /\ pc = "write"
  /\ ckpt' = boot
  /\ pc' = "nodes"
  /\ todo' = Nodes
  /\ UNCHANGED <<machineVars, boot, faults>>

-----------------------------------------------------------------------------
(* bootstrapTalosNodes: each node in turn, by its stage.                    *)
ConfigureNode(n) ==
  /\ pc = "nodes"
  /\ NextNode(n)
  /\ stage[n] = "maintenance"
  /\ stage' = [stage EXCEPT ![n] = "installing"]
  /\ todo' = todo \ {n}
  /\ UNCHANGED <<member, founded, installed, leftover, late, boot, ckpt, pc, faults>>

KeepNode(n) ==
  /\ pc = "nodes"
  /\ NextNode(n)
  /\ stage[n] \in Booted
  /\ todo' = todo \ {n}
  /\ UNCHANGED <<machineVars, boot, ckpt, pc, faults>>

UnexpectedStage(n) ==
  /\ pc = "nodes"
  /\ NextNode(n)
  /\ stage[n] = "installing"
  /\ pc' = "idle"
  /\ todo' = {}
  /\ UNCHANGED <<machineVars, boot, ckpt, faults>>

NodesDone ==
  /\ pc = "nodes"
  /\ todo = {}
  /\ \/ EtcdFound /\ pc' = "up" /\ UNCHANGED faults
     \/ EtcdNotFound /\ pc' = "install"
  /\ UNCHANGED <<machineVars, boot, ckpt, todo>>

BootNodeInstalled ==
  /\ pc = "install"
  /\ stage[boot] \in Booted
  /\ pc' = "probe"
  /\ UNCHANGED <<machineVars, boot, ckpt, todo, faults>>

(* waitForBootstrap: probe every control plane, then send the RPC.          *)
ProbeFindsEtcd ==
  /\ pc = "probe"
  /\ EtcdFound
  /\ pc' = "up"
  /\ UNCHANGED <<machineVars, boot, ckpt, todo, faults>>

ProbeFindsNothing ==
  /\ pc = "probe"
  /\ EtcdNotFound
  /\ pc' = "rpc"
  /\ UNCHANGED <<machineVars, boot, ckpt, todo>>

RpcAccepted ==
  /\ pc = "rpc"
  /\ CanFound(boot)
  /\ Found(boot)
  /\ pc' = "up"
  /\ UNCHANGED <<stage, installed, leftover, late, boot, ckpt, todo, faults>>

(* The node already holds etcd data: not one of the temporary errors.       *)
RpcRejected ==
  /\ pc = "rpc"
  /\ member[boot] # None
  /\ pc' = "idle"
  /\ UNCHANGED <<machineVars, boot, ckpt, todo, faults>>

(* "bootstrap is not available yet" or a transport error: retried.          *)
RpcUnavailable ==
  /\ pc = "rpc"
  /\ \/ ~CanFound(boot) /\ member[boot] = None /\ UNCHANGED faults
     \/ Fault("unreachable")
  /\ pc' = "probe"
  /\ UNCHANGED <<machineVars, boot, ckpt, todo>>

(* No answer within 30 seconds: retried, and the request may yet be served. *)
RpcToEveryNode ==  \* mutant: the bootstrap command names every node
  /\ pc = "rpc"
  /\ Fault("lost")
  /\ late' = late \cup Nodes
  /\ pc' = "probe"
  /\ UNCHANGED <<stage, member, founded, installed, leftover, boot, ckpt, todo>>
RpcTimesOut ==
  /\ pc = "rpc"
  /\ Fault("lost")
  /\ late' = late \cup {boot}
  /\ pc' = "probe"
  /\ UNCHANGED <<stage, member, founded, installed, leftover, boot, ckpt, todo>>

-----------------------------------------------------------------------------
(* The rest of RunBootstrap, in its order.                                  *)
BootNodeRunning ==
  /\ pc = "up"
  /\ stage[boot] \in {"running", "ready"}
  /\ pc' = "kube"
  /\ UNCHANGED <<machineVars, boot, ckpt, todo, faults>>

JoinBeforeBaseCharts ==  \* mutant: node readiness awaited before the CNI
  /\ pc = "kube"
  /\ IF "cni" \in installed \/ Nodes = {boot}
     THEN pc' = "base" /\ todo' = todo
     ELSE pc' = "join" /\ todo' = Nodes \ {boot}
  /\ UNCHANGED <<machineVars, boot, ckpt, faults>>
ControlPlanePods ==
  /\ pc = "kube"
  /\ pc' = "base"
  /\ UNCHANGED <<machineVars, boot, ckpt, todo, faults>>

(* A release that an earlier run left pending or failed is refused, never   *)
(* installed over; one that is deployed is kept.                            *)
DeployOrIgnore(layer) ==  \* mutant: an install error does not stop the run
  installed' \in {installed, installed \cup ({layer} \ leftover)}
Deploy(layer) ==
  /\ layer \notin leftover
  /\ installed' = installed \cup {layer}

InstallBaseCharts ==
  /\ pc = "base"
  /\ Deploy("cni")
  /\ pc' = "join"
  /\ todo' = Nodes \ {boot}
  /\ UNCHANGED <<stage, member, founded, leftover, late, boot, ckpt, faults>>

JoiningNodeReady(n) ==
  /\ pc = "join"
  /\ NextNode(n)
  /\ stage[n] = "ready"
  /\ todo' = todo \ {n}
  /\ UNCHANGED <<machineVars, boot, ckpt, pc, faults>>

AllJoined ==
  /\ pc = "join"
  /\ todo = {}
  /\ pc' = "config"
  /\ UNCHANGED <<machineVars, boot, ckpt, todo, faults>>

(* One Kubernetes layer after the other: namespaces, settings and the       *)
(* health check; the prio, intermediate, late and post charts; Flux.        *)
InstallLayer(step, layer, next) ==
  /\ pc = step
  /\ Deploy(layer)
  /\ pc' = next
  /\ UNCHANGED <<stage, member, founded, leftover, late, boot, ckpt, todo, faults>>

InstallLayers ==
  \/ InstallLayer("config", "config", "charts")
  \/ InstallLayer("charts", "charts", "flux")
  \/ InstallLayer("flux", "flux", "remove")

(* resumeHelmRelease: a release that is there and not deployed ends the run. *)
ReleaseRefused ==
  /\ pc \in HelmSteps
  /\ HelmLayer[pc] \in leftover
  /\ pc' = "idle"
  /\ todo' = {}
  /\ UNCHANGED <<machineVars, boot, ckpt, faults>>

RemoveCheckpoint ==
  /\ pc = "remove"
  /\ ckpt' = None
  /\ pc' = "idle"
  /\ UNCHANGED <<machineVars, boot, todo, faults>>

-----------------------------------------------------------------------------
(* RunApply on a cluster that answers: a node still in maintenance gets its *)
(* configuration, and each node is awaited before the next.                 *)
RollingConfigure(n) ==
  /\ pc = "rolling"
  /\ NextNode(n)
  /\ stage[n] = "maintenance"
  /\ stage' = [stage EXCEPT ![n] = "installing"]
  /\ UNCHANGED <<member, founded, installed, leftover, late, boot, ckpt, pc, todo, faults>>

RollingReady(n) ==
  /\ pc = "rolling"
  /\ NextNode(n)
  /\ stage[n] = "ready"
  /\ todo' = todo \ {n}
  /\ pc' = IF todo' = {} THEN "idle" ELSE "rolling"
  /\ UNCHANGED <<machineVars, boot, ckpt, faults>>

(* A wait expires after 15 minutes without what it waits for.               *)
WaitExpires ==
  /\ \/ pc = "install" /\ stage[boot] \notin Booted
     \/ pc \in {"probe", "rpc"} /\ member[boot] = None /\ ~CanFound(boot)
     \/ pc = "up" /\ stage[boot] \notin {"running", "ready"}
     \/ pc = "join" /\ \E n \in Nodes : NextNode(n) /\ stage[n] # "ready"
     \/ pc = "rolling" /\ \E n \in Nodes : NextNode(n) /\ stage[n] \notin {"maintenance", "ready"}
  /\ pc' = "idle"
  /\ todo' = {}
  /\ UNCHANGED <<machineVars, boot, ckpt, faults>>

(* The process ends before its work does: a crash, a kill, or any error     *)
(* return, a failed installation among them.  An RPC it was waiting for may *)
(* still reach the node; a release it was installing may stay behind.       *)
UnfinishedReleases == {HelmLayer[step] : step \in HelmSteps \cap {pc}} \ installed

Interrupt ==
  /\ pc \in InterruptPoints
  /\ Fault("interrupt")
  /\ pc' = "idle"
  /\ todo' = {}
  /\ \/ late' = late
     \/ pc = "rpc" /\ late' = late \cup {boot}
  /\ \E releases \in SUBSET UnfinishedReleases : leftover' = leftover \cup releases
  /\ UNCHANGED <<stage, member, founded, installed, boot, ckpt>>

(* "resolve its Helm status before resuming bootstrap": between two runs the *)
(* operator removes the releases of a layer that are not deployed, or        *)
(* completes them.                                                           *)
ResolveRelease(layer) ==
  /\ pc = "idle"
  /\ layer \in leftover
  /\ leftover' = leftover \ {layer}
  /\ UNCHANGED <<stage, member, founded, installed, late, boot, ckpt, pc, todo, faults>>

(* Between two runs the operator renames nodes: another one sorts first.    *)
EditInventory(n) ==
  /\ pc = "idle"
  /\ n # boot
  /\ Fault("edit")
  /\ boot' = n
  /\ UNCHANGED <<machineVars, ckpt, pc, todo>>

-----------------------------------------------------------------------------
(* The machines.                                                            *)
InstallDone(n) ==
  /\ stage[n] = "installing"
  /\ stage' = [stage EXCEPT ![n] = "booting"]
  /\ UNCHANGED <<member, founded, installed, leftover, late, boot, ckpt, pc, todo, faults>>

JoinEtcd(n) ==
  /\ CanFound(n)
  /\ \E m \in ControlPlanes :
       /\ MustAnswer(m)
       /\ member' = [member EXCEPT ![n] = member[m]]
  /\ UNCHANGED <<stage, founded, installed, leftover, late, boot, ckpt, pc, todo, faults>>

BootDone(n) ==
  /\ stage[n] = "booting"
  /\ n \in ControlPlanes => member[n] # None
  /\ stage' = [stage EXCEPT ![n] = "running"]
  /\ UNCHANGED <<member, founded, installed, leftover, late, boot, ckpt, pc, todo, faults>>

(* A node is ready only once the cluster network runs.                      *)
BecomeReady(n) ==
  /\ stage[n] = "running"
  /\ "cni" \in installed
  /\ stage' = [stage EXCEPT ![n] = "ready"]
  /\ UNCHANGED <<member, founded, installed, leftover, late, boot, ckpt, pc, todo, faults>>

Reboot(n) ==
  /\ stage[n] \in {"running", "ready"}
  /\ Fault("reboot")
  /\ stage' = [stage EXCEPT ![n] = "booting"]
  /\ UNCHANGED <<member, founded, installed, leftover, late, boot, ckpt, pc, todo>>

Wipe(n) ==
  /\ stage[n] # "maintenance"
  /\ Fault("wipe")
  /\ stage' = [stage EXCEPT ![n] = "maintenance"]
  /\ member' = [k \in ControlPlanes |-> IF k = n THEN None ELSE member[k]]
  /\ UNCHANGED <<founded, installed, leftover, late, boot, ckpt, pc, todo>>

(* An abandoned RPC is served, or refused, or never arrives.                *)
LateRpc(n) ==
  /\ n \in late
  /\ late' = late \ {n}
  /\ \/ CanFound(n) /\ Found(n)
     \/ UNCHANGED <<founded, member>>
  /\ UNCHANGED <<stage, installed, leftover, boot, ckpt, pc, todo, faults>>

-----------------------------------------------------------------------------
(* Either a fresh fleet, or a cluster that was set up earlier on some of    *)
(* the control planes, with further nodes waiting in maintenance.           *)
Init ==
  /\ boot \in ControlPlanes
  /\ ckpt = None
  /\ pc = "idle"
  /\ todo = {}
  /\ leftover = {}
  /\ late = {}
  /\ faults = 0
  /\ \/ /\ stage = [n \in Nodes |-> "maintenance"]
        /\ member = [n \in ControlPlanes |-> None]
        /\ founded = 0
        /\ installed = {}
     \/ \E old \in SUBSET Nodes :
        /\ old \cap ControlPlanes # {}
        /\ stage = [n \in Nodes |-> IF n \in old THEN "ready" ELSE "maintenance"]
        /\ member = [n \in ControlPlanes |-> IF n \in old THEN 1 ELSE None]
        /\ founded = 1
        /\ installed = Layers

Targets == {Nodes} \cup {{n} : n \in Nodes}

Apply == ResumeBootstrap \/ \E t \in Targets : StartBootstrap(t) \/ StartRolling(t)

PrepareNodes ==
  \E n \in Nodes : ConfigureNode(n) \/ KeepNode(n) \/ UnexpectedStage(n)

BootstrapEtcd ==
  \/ ProbeFindsEtcd \/ ProbeFindsNothing
  \/ RpcAccepted \/ RpcRejected \/ RpcUnavailable \/ RpcTimesOut

JoinNodes == (\E n \in Nodes : JoiningNodeReady(n)) \/ AllJoined

Rolling == \E n \in Nodes : RollingConfigure(n) \/ RollingReady(n)

Tool ==
  \/ CreateCheckpoint \/ WriteCheckpoint
  \/ PrepareNodes \/ NodesDone \/ BootNodeInstalled
  \/ BootstrapEtcd
  \/ BootNodeRunning \/ ControlPlanePods \/ InstallBaseCharts
  \/ JoinNodes \/ InstallLayers \/ ReleaseRefused \/ RemoveCheckpoint
  \/ Rolling

Machine(n) == InstallDone(n) \/ BootDone(n) \/ BecomeReady(n)

Next ==
  \/ Apply
  \/ \E t \in Targets : ApplyRefused(t)
  \/ Tool
  \/ WaitExpires
  \/ Interrupt
  \/ \E layer \in HelmLayers : ResolveRelease(layer)
  \/ \E n \in Nodes : Machine(n) \/ Reboot(n) \/ Wipe(n)
  \/ \E n \in ControlPlanes : EditInventory(n) \/ JoinEtcd(n) \/ LateRpc(n)

Spec == Init /\ [][Next]_vars

(* The process keeps running until it ends, the operator starts it again    *)
(* until setup is complete, and machines make progress.  A layer whose      *)
(* releases every run refuses is in the end resolved by the operator:       *)
(* strong, for the next run may start before it is.                         *)
Fairness ==
  /\ WF_vars(Tool)
  /\ WF_vars(Apply)
  /\ \A layer \in HelmLayers : SF_vars(ResolveRelease(layer))
  /\ \A n \in Nodes : WF_vars(Machine(n))
  /\ \A n \in ControlPlanes : WF_vars(JoinEtcd(n))

FairSpec == Spec /\ Fairness

-----------------------------------------------------------------------------
(* Properties.                                                              *)

(* Every variable keeps to its domain, whatever is interrupted or lost.     *)
TypeOK ==
  /\ stage \in [Nodes -> Stages]
  /\ member \in [ControlPlanes -> Nat]
  /\ founded \in Nat
  /\ installed \subseteq Layers
  /\ leftover \subseteq HelmLayers \ installed
  /\ late \subseteq ControlPlanes
  /\ boot \in ControlPlanes
  /\ ckpt \in {None, Empty} \cup ControlPlanes
  /\ pc \in {"idle"} \cup Steps
  /\ todo \subseteq Nodes
  /\ faults \in 0..MaxFaults

(* All control planes that hold etcd data hold the same cluster's: however   *)
(* runs are interrupted, RPC answers lost, probes unanswered and nodes       *)
(* renamed, resuming never splits the control plane in two.                 *)
SingleCluster ==
  \A m, n \in ControlPlanes :
    member[m] # None /\ member[n] # None => member[m] = member[n]

(* bootstrap_state.go: "Live etcd still decides whether the bootstrap RPC is *)
(* necessary on resume": no cluster is created while one is running.        *)
LiveEtcdDecides ==
  [][founded' # founded => \A n \in ControlPlanes : ~MustAnswer(n)]_vars

(* clusterstate.go: "Failure is not evidence that bootstrapping a new cluster *)
(* is safe": a new setup begins only when no control plane holds etcd data.  *)
NewSetupOnlyWithoutEtcd ==
  [][ckpt = None /\ ckpt' # None => \A n \in ControlPlanes : member[n] = None]_vars

(* As long as a bootstrap RPC may be served, every node of the inventory has *)
(* its configuration: "Configure every node before bootstrap".              *)
FleetConfiguredBeforeBootstrap ==
  (pc = "rpc" \/ late # {}) => \A n \in Nodes : stage[n] # "maintenance"

(* A fleet that has been touched but has no etcd yet always has a checkpoint *)
(* file: without one, apply would refuse it for good (NeedsBootstrap).       *)
TouchedFleetHasCheckpoint ==
  (founded = 0 /\ \E n \in Nodes : stage[n] # "maintenance") => ckpt \in ControlPlanes

(* An etcd cluster is only ever created on the node the operator's recorded  *)
(* consent names, even by an RPC served after its sender has gone.           *)
FoundedUnderConsent ==
  [][founded' # founded =>
       \E n \in ControlPlanes : ckpt = n /\ member[n] = None /\ member'[n] = founded']_vars

(* The checkpoint disappears only when every layer is deployed and every     *)
(* node has been configured: an error on the way never drops it.             *)
CheckpointKeptUntilComplete ==
  [][ckpt # None /\ ckpt' = None =>
       /\ installed = Layers
       /\ \A n \in Nodes : stage[n] \notin {"maintenance", "installing"}]_vars

(* What setup promises as a whole, told without a process, checkpoint states *)
(* and RPCs: consent on one node, one etcd cluster founded there, layers in  *)
(* order, and the consent is kept until all of them are deployed.            *)
Members == {n \in ControlPlanes : member[n] # None}

Abstract == INSTANCE FirstSetup WITH
  Nobody   <- None,
  consent  <- IF ckpt = Empty THEN None ELSE ckpt,
  members  <- Members,
  deployed <- installed

ImplementsFirstSetup == Abstract!Spec

(* Apply of the whole inventory never locks the operator out: it resumes,    *)
(* begins, or finds etcd and rolls, unless the checkpoint was torn or is for *)
(* a node that is no longer first.                                           *)
ApplyIsOpen ==
  pc = "idle" =>
    \/ CheckpointPending
    \/ ckpt = None /\ (AllInMaintenance \/ EtcdFound)
    \/ ckpt = Empty \/ ckpt \in ControlPlanes \ {boot}

(* The layers are deployed in their order, and the checkpoint goes only when *)
(* all are there, whichever faults occur, wiped disks included.              *)
LayersDeployedInOrder ==
  /\ [][\E layer \in Layers : Abstract!LayersInOrder!Deploy(layer)]_installed
  /\ [][ckpt # None /\ ckpt' = None => installed = Layers]_vars

(* HOW_TO: "If setup is interrupted, run apply again": once begun, a setup   *)
(* completes when faults stop, apply is run again and the releases that an  *)
(* interrupted installation left are resolved, as the refusal asks for.     *)
BegunSetupCompletes == (ckpt # None) ~> (ckpt = None /\ installed = Layers)
=============================================================================
