--------------------------- MODULE Bootstrap_proofs ---------------------------
(***************************************************************************)
(* Proofs about Bootstrap, for every inventory, every set of fault kinds   *)
(* without wiped disks, every number of faults and every set of            *)
(* interruption points.                                                    *)
(***************************************************************************)
EXTENDS Bootstrap, TLAPS

NoWipe == "wipe" \notin FaultKinds

(* Steps taken after beginBootstrap, after the node loop, and after etcd.   *)
CheckpointSteps == Steps \ {"create", "write", "rolling"}
ConfiguredSteps == CheckpointSteps \ {"nodes"}
EtcdSteps == ConfiguredSteps \ {"install", "probe", "rpc"}
JoinedSteps == {"config", "charts", "flux", "remove"}

(* Members belong to the one cluster, and sit on booted nodes.              *)
MembersInv ==
  /\ founded \in {0, 1}
  /\ \A n \in ControlPlanes :
       member[n] # None => member[n] = 1 /\ founded = 1 /\ stage[n] \in Booted
  /\ founded = 1 => \E n \in ControlPlanes : member[n] # None

(* Whoever may still receive a bootstrap RPC is the founder already, or the *)
(* node named by the checkpoint of a setup without etcd.                    *)
TargetsInv ==
  /\ founded = 0 => late \subseteq {ckpt}
  /\ founded = 1 => \A n \in late : member[n] # None
  /\ founded = 1 /\ ckpt \in ControlPlanes => member[ckpt] # None

(* What each step of the process may rely on.                               *)
StepInv ==
  /\ pc \in CheckpointSteps => ckpt = boot
  /\ pc = "create" => ckpt = None /\ founded = 0
  /\ pc = "write" => ckpt = Empty /\ founded = 0
  /\ pc \in EtcdSteps \cup {"rolling"} => founded = 1

(* Which nodes have been configured.                                        *)
FleetInv ==
  /\ founded = 0 /\ ckpt \notin ControlPlanes
       => \A n \in Nodes : stage[n] = "maintenance"
  /\ pc = "nodes" => \A n \in Nodes \ todo : stage[n] # "maintenance"
  /\ pc \in ConfiguredSteps \/ late # {}
       => \A n \in Nodes : stage[n] # "maintenance"

(* Which layers are deployed.                                               *)
LayersInv ==
  /\ pc \in {"join"} \cup JoinedSteps => "cni" \in installed
  /\ pc \in {"charts", "flux", "remove"} => "config" \in installed
  /\ pc \in {"flux", "remove"} => "charts" \in installed
  /\ pc = "remove" => "flux" \in installed

(* Which nodes have been awaited, and which layers are deployed.            *)
ProgressInv ==
  /\ pc \in {"kube", "base", "join"} => stage[boot] \in Booted
  /\ pc = "join" => \A n \in Nodes \ todo : stage[n] \in Booted
  /\ pc \in JoinedSteps => \A n \in Nodes : stage[n] \in Booted
  /\ LayersInv

IInv == TypeOK /\ MembersInv /\ TargetsInv /\ StepInv /\ FleetInv /\ ProgressInv

-----------------------------------------------------------------------------
(* The checkpoint's values are told apart: a node is neither None nor Empty. *)
LEMMA CheckpointValues ==
  None \notin ControlPlanes /\ Empty \notin ControlPlanes /\ None # Empty
BY NodesAssumption DEF None, Empty

(* A budgeted fault keeps the counter in its range.                         *)
LEMMA FaultBounded ==
  ASSUME NEW kind, faults \in 0..MaxFaults, Fault(kind)
  PROVE  faults' \in 0..MaxFaults
BY FaultsAssumption DEF Fault

(* The decision of apply keeps the invariant: a new setup starts only without *)
(* any etcd member, a rolling apply only with one. *)
LEMMA ApplyStep ==
  ASSUME IInv,
         Apply
  PROVE  IInv'
<1> USE NodesAssumption, CheckpointValues
        DEF IInv, TypeOK, MembersInv, TargetsInv, StepInv, FleetInv, ProgressInv, LayersInv,
            Steps, CheckpointSteps, ConfiguredSteps, EtcdSteps, JoinedSteps,
            Stages, Booted, Layers, HelmLayers, machineVars, None, Empty
<1>1. ASSUME ResumeBootstrap PROVE IInv'
  BY <1>1 DEF ResumeBootstrap, CheckpointPending
<1>2. ASSUME NEW t \in Targets, StartBootstrap(t) PROVE IInv'
  BY FaultBounded, <1>2 DEF StartBootstrap, EtcdNotFound, AllInMaintenance, Targets
<1>3. ASSUME NEW t \in Targets, StartRolling(t) PROVE IInv'
  BY <1>3 DEF StartRolling, EtcdFound, MayAnswer, Targets
<1> QED
  BY <1>1, <1>2, <1>3 DEF Apply

(* Creating and writing the checkpoint keeps the invariant. *)
LEMMA BeginStep ==
  ASSUME IInv,
         CreateCheckpoint \/ WriteCheckpoint
  PROVE  IInv'
<1> USE NodesAssumption, CheckpointValues
        DEF IInv, TypeOK, MembersInv, TargetsInv, StepInv, FleetInv, ProgressInv, LayersInv,
            Steps, CheckpointSteps, ConfiguredSteps, EtcdSteps, JoinedSteps,
            Stages, Booted, Layers, HelmLayers, machineVars, None, Empty
<1>1. ASSUME CreateCheckpoint PROVE IInv'
  BY <1>1 DEF CreateCheckpoint
<1>2. ASSUME WriteCheckpoint PROVE IInv'
  BY <1>2 DEF WriteCheckpoint
<1> QED
  BY <1>1, <1>2

(* The node loop keeps the invariant. *)
LEMMA NodesStep ==
  ASSUME IInv,
         PrepareNodes \/ NodesDone \/ BootNodeInstalled
  PROVE  IInv'
<1> USE NodesAssumption, CheckpointValues
        DEF IInv, TypeOK, MembersInv, TargetsInv, StepInv, FleetInv, ProgressInv, LayersInv,
            Steps, CheckpointSteps, ConfiguredSteps, EtcdSteps, JoinedSteps,
            Stages, Booted, Layers, HelmLayers, machineVars, None, Empty
<1>1. ASSUME NEW n \in Nodes, ConfigureNode(n) PROVE IInv'
  BY <1>1 DEF ConfigureNode, NextNode
<1>2. ASSUME NEW n \in Nodes, KeepNode(n) PROVE IInv'
  BY <1>2 DEF KeepNode, NextNode
<1>3. ASSUME NEW n \in Nodes, UnexpectedStage(n) PROVE IInv'
  BY <1>3 DEF UnexpectedStage, NextNode
<1>4. ASSUME NodesDone PROVE IInv'
  BY FaultBounded, <1>4 DEF NodesDone, EtcdFound, EtcdNotFound, MayAnswer
<1>5. ASSUME BootNodeInstalled PROVE IInv'
  BY <1>5 DEF BootNodeInstalled
<1> QED
  BY <1>1, <1>2, <1>3, <1>4, <1>5 DEF PrepareNodes

(* The probe and RPC loop keeps the invariant: an RPC is accepted only from a *)
(* node without etcd data, hence before any cluster exists. *)
LEMMA EtcdStep ==
  ASSUME IInv,
         BootstrapEtcd
  PROVE  IInv'
<1> USE NodesAssumption, CheckpointValues
        DEF IInv, TypeOK, MembersInv, TargetsInv, StepInv, FleetInv, ProgressInv, LayersInv,
            Steps, CheckpointSteps, ConfiguredSteps, EtcdSteps, JoinedSteps,
            Stages, Booted, Layers, HelmLayers, machineVars, None, Empty
<1>1. ASSUME ProbeFindsEtcd PROVE IInv'
  BY <1>1 DEF ProbeFindsEtcd, EtcdFound, MayAnswer
<1>2. ASSUME ProbeFindsNothing PROVE IInv'
  BY FaultBounded, <1>2 DEF ProbeFindsNothing, EtcdNotFound
<1>3. ASSUME RpcAccepted PROVE IInv'
  BY <1>3 DEF RpcAccepted, CanFound, Found
<1>4. ASSUME RpcRejected PROVE IInv'
  BY <1>4 DEF RpcRejected
<1>5. ASSUME RpcUnavailable PROVE IInv'
  BY FaultBounded, <1>5 DEF RpcUnavailable
<1>6. ASSUME RpcTimesOut PROVE IInv'
  BY FaultBounded, <1>6 DEF RpcTimesOut
<1> QED
  BY <1>1, <1>2, <1>3, <1>4, <1>5, <1>6 DEF BootstrapEtcd

(* The rest of RunBootstrap, and a rolling apply, keep the invariant. *)
LEMMA RestStep ==
  ASSUME IInv,
         BootNodeRunning \/ ControlPlanePods \/ InstallBaseCharts \/ JoinNodes
         \/ InstallLayers \/ ReleaseRefused \/ RemoveCheckpoint \/ Rolling
  PROVE  IInv'
<1> USE NodesAssumption, CheckpointValues
        DEF IInv, TypeOK, MembersInv, TargetsInv, StepInv, FleetInv, ProgressInv, LayersInv,
            Steps, CheckpointSteps, ConfiguredSteps, EtcdSteps, JoinedSteps,
            Stages, Booted, Layers, HelmLayers, machineVars, None, Empty
<1>1. ASSUME BootNodeRunning PROVE IInv'
  BY <1>1 DEF BootNodeRunning
<1>2. ASSUME ControlPlanePods PROVE IInv'
  BY <1>2 DEF ControlPlanePods
<1>3. ASSUME InstallBaseCharts PROVE IInv'
  BY <1>3 DEF InstallBaseCharts, Deploy
<1>4. ASSUME NEW n \in Nodes, JoiningNodeReady(n) PROVE IInv'
  BY <1>4 DEF JoiningNodeReady, NextNode
<1>5. ASSUME AllJoined PROVE IInv'
  BY <1>5 DEF AllJoined
<1>6. ASSUME InstallLayers PROVE IInv'
  <2>1. CASE InstallLayer("config", "config", "charts")
    BY <2>1 DEF InstallLayer, Deploy
  <2>2. CASE InstallLayer("charts", "charts", "flux")
    BY <2>2 DEF InstallLayer, Deploy
  <2>3. CASE InstallLayer("flux", "flux", "remove")
    BY <2>3 DEF InstallLayer, Deploy
  <2> QED
    BY <1>6, <2>1, <2>2, <2>3 DEF InstallLayers
<1>7. ASSUME RemoveCheckpoint PROVE IInv'
  BY <1>7 DEF RemoveCheckpoint
<1>8. ASSUME NEW n \in Nodes, RollingConfigure(n) PROVE IInv'
  BY <1>8 DEF RollingConfigure, NextNode
<1>9. ASSUME NEW n \in Nodes, RollingReady(n) PROVE IInv'
  BY <1>9 DEF RollingReady, NextNode
<1>10. ASSUME ReleaseRefused PROVE IInv'
  BY <1>10 DEF ReleaseRefused, HelmSteps
<1> QED
  BY <1>1, <1>2, <1>3, <1>4, <1>5, <1>6, <1>7, <1>8, <1>9, <1>10 DEF JoinNodes, Rolling

(* The release a stop may leave is of a Helm layer not yet deployed. *)
LEMMA UnfinishedAreHelm == UnfinishedReleases \subseteq HelmLayers \ installed
BY DEF UnfinishedReleases, HelmLayer, HelmSteps, HelmLayers

(* Ending the process early, resolving its releases, or renaming nodes, keeps *)
(* the invariant. *)
LEMMA StopStep ==
  ASSUME IInv,
         \/ WaitExpires \/ Interrupt
         \/ \E layer \in HelmLayers : ResolveRelease(layer)
         \/ \E n \in ControlPlanes : EditInventory(n)
  PROVE  IInv'
<1> USE NodesAssumption, CheckpointValues
        DEF IInv, TypeOK, MembersInv, TargetsInv, StepInv, FleetInv, ProgressInv, LayersInv,
            Steps, CheckpointSteps, ConfiguredSteps, EtcdSteps, JoinedSteps,
            Stages, Booted, Layers, HelmLayers, machineVars, None, Empty
<1>1. ASSUME WaitExpires PROVE IInv'
  BY <1>1 DEF WaitExpires
<1>2. ASSUME Interrupt PROVE IInv'
  BY FaultBounded, UnfinishedAreHelm, <1>2 DEF Interrupt
<1>3. ASSUME NEW n \in ControlPlanes, EditInventory(n) PROVE IInv'
  BY FaultBounded, <1>3 DEF EditInventory
<1>4. ASSUME NEW layer \in HelmLayers, ResolveRelease(layer) PROVE IInv'
  BY <1>4 DEF ResolveRelease
<1> QED
  BY <1>1, <1>2, <1>3, <1>4

(* The machines keep the invariant: an abandoned RPC can found a cluster only *)
(* on the node the checkpoint names. *)
LEMMA MachineStep ==
  ASSUME IInv,
         \/ \E n \in Nodes : Machine(n) \/ Reboot(n)
         \/ \E n \in ControlPlanes : JoinEtcd(n) \/ LateRpc(n)
  PROVE  IInv'
<1> USE NodesAssumption, CheckpointValues
        DEF IInv, TypeOK, MembersInv, TargetsInv, StepInv, FleetInv, ProgressInv, LayersInv,
            Steps, CheckpointSteps, ConfiguredSteps, EtcdSteps, JoinedSteps,
            Stages, Booted, Layers, HelmLayers, machineVars, None, Empty
<1>1. ASSUME NEW n \in Nodes, InstallDone(n) PROVE IInv'
  BY <1>1 DEF InstallDone
<1>2. ASSUME NEW n \in Nodes, BootDone(n) PROVE IInv'
  BY <1>2 DEF BootDone
<1>3. ASSUME NEW n \in Nodes, BecomeReady(n) PROVE IInv'
  BY <1>3 DEF BecomeReady
<1>4. ASSUME NEW n \in Nodes, Reboot(n) PROVE IInv'
  BY FaultBounded, <1>4 DEF Reboot
<1>5. ASSUME NEW n \in ControlPlanes, JoinEtcd(n) PROVE IInv'
  BY <1>5 DEF JoinEtcd, CanFound, MustAnswer
<1>6. ASSUME NEW n \in ControlPlanes, LateRpc(n) PROVE IInv'
  BY <1>6 DEF LateRpc, CanFound, Found
<1> QED
  BY <1>1, <1>2, <1>3, <1>4, <1>5, <1>6 DEF Machine

-----------------------------------------------------------------------------
(* A fresh fleet and an earlier cluster both satisfy the invariant.         *)
LEMMA InitIInv == Init => IInv
<1> SUFFICES ASSUME Init PROVE IInv
  OBVIOUS
<1> USE NodesAssumption, FaultsAssumption, CheckpointValues
        DEF Init, IInv, TypeOK, MembersInv, TargetsInv, StepInv, FleetInv, ProgressInv, LayersInv,
            Steps, CheckpointSteps, ConfiguredSteps, EtcdSteps, JoinedSteps,
            Stages, Booted, Layers, HelmLayers, None, Empty
<1>1. CASE founded = 0
  BY <1>1
<1>2. ASSUME NEW old \in SUBSET Nodes,
             old \cap ControlPlanes # {},
             stage = [n \in Nodes |-> IF n \in old THEN "ready" ELSE "maintenance"],
             member = [n \in ControlPlanes |-> IF n \in old THEN 1 ELSE None],
             founded = 1,
             installed = Layers
      PROVE  IInv
  <2>1. PICK m \in ControlPlanes : m \in old
    BY <1>2
  <2>2. TypeOK
    BY <1>2
  <2>3. MembersInv
    <3>1. member[m] # None
      BY <1>2, <2>1
    <3>2. \A n \in ControlPlanes :
            member[n] # None => member[n] = 1 /\ stage[n] \in Booted
      BY <1>2
    <3> QED
      BY <1>2, <3>1, <3>2
  <2>4. TargetsInv /\ StepInv /\ FleetInv /\ ProgressInv
    BY <1>2
  <2> QED
    BY <2>2, <2>3, <2>4
<1> QED
  BY <1>1, <1>2

(* Without wiped disks every step keeps the invariant.                      *)
LEMMA NextIInv ==
  ASSUME NoWipe, IInv, [Next]_vars
  PROVE  IInv'
<1>1. CASE Apply
  BY <1>1, ApplyStep
<1>2. CASE \E t \in Targets : ApplyRefused(t)
  <2>1. UNCHANGED vars
    BY <1>2 DEF ApplyRefused
  <2> QED
    BY <2>1 DEF vars, IInv, TypeOK, MembersInv, TargetsInv, StepInv, FleetInv, ProgressInv, LayersInv
<1>3. CASE Tool
  BY <1>3, BeginStep, NodesStep, EtcdStep, RestStep DEF Tool
<1>4. CASE \/ WaitExpires \/ Interrupt
           \/ \E layer \in HelmLayers : ResolveRelease(layer)
           \/ \E n \in ControlPlanes : EditInventory(n)
  BY <1>4, StopStep
<1>5. CASE \/ \E n \in Nodes : Machine(n) \/ Reboot(n)
           \/ \E n \in ControlPlanes : JoinEtcd(n) \/ LateRpc(n)
  BY <1>5, MachineStep
<1>6. ASSUME NEW n \in Nodes, Wipe(n) PROVE IInv'
  BY <1>6 DEF NoWipe, Wipe, Fault
<1>7. CASE UNCHANGED vars
  BY <1>7 DEF vars, IInv, TypeOK, MembersInv, TargetsInv, StepInv, FleetInv, ProgressInv, LayersInv
<1> QED
  BY <1>1, <1>2, <1>3, <1>4, <1>5, <1>6, <1>7 DEF Next

(* The inductive invariant holds of every behaviour without wiped disks.    *)
THEOREM InductiveInvariant ==
  ASSUME NoWipe
  PROVE  Spec => []IInv
<1>1. Init => IInv
  BY InitIInv
<1>2. IInv /\ [Next]_vars => IInv'
  BY NextIInv
<1> QED
  BY <1>1, <1>2, PTL DEF Spec

-----------------------------------------------------------------------------
(* No resume, retry, late answer or renaming ever splits the control plane. *)
THEOREM SingleClusterHolds ==
  ASSUME NoWipe
  PROVE  Spec => []SingleCluster
<1>1. IInv => SingleCluster
  BY DEF IInv, MembersInv, SingleCluster
<1> QED
  BY <1>1, InductiveInvariant, PTL

(* Nobody can be told to bootstrap while a node still lacks its config.     *)
THEOREM FleetConfiguredHolds ==
  ASSUME NoWipe
  PROVE  Spec => []FleetConfiguredBeforeBootstrap
<1>1. IInv => FleetConfiguredBeforeBootstrap
  BY DEF IInv, FleetInv, FleetConfiguredBeforeBootstrap, ConfiguredSteps, CheckpointSteps, Steps
<1> QED
  BY <1>1, InductiveInvariant, PTL

(* A touched fleet without etcd can always be resumed from a checkpoint.    *)
THEOREM TouchedFleetHolds ==
  ASSUME NoWipe
  PROVE  Spec => []TouchedFleetHasCheckpoint
<1>1. IInv => TouchedFleetHasCheckpoint
  BY DEF IInv, FleetInv, TouchedFleetHasCheckpoint
<1> QED
  BY <1>1, InductiveInvariant, PTL

(* Founding happens in two actions only: on an accepted RPC and on a late   *)
(* one; in both the node is the checkpoint's, and no etcd exists yet.       *)
LEMMA FoundingStep ==
  ASSUME IInv, [Next]_vars, NoWipe, founded' # founded
  PROVE  /\ founded = 0
         /\ \E n \in ControlPlanes :
              ckpt = n /\ member[n] = None /\ member'[n] = founded'
<1> USE DEF IInv, TypeOK, machineVars
<1>1. CASE RpcAccepted
  <2>1. ckpt = boot /\ boot \in ControlPlanes /\ member[boot] = None
    BY <1>1 DEF RpcAccepted, CanFound, StepInv, CheckpointSteps, Steps
  <2>2. founded = 0
    BY <2>1 DEF MembersInv, TargetsInv
  <2> QED
    BY <1>1, <2>1, <2>2 DEF RpcAccepted, Found
<1>2. CASE \E n \in ControlPlanes : LateRpc(n)
  <2>1. PICK n \in ControlPlanes : LateRpc(n)
    BY <1>2
  <2>2. n \in late /\ member[n] = None
    BY <2>1 DEF LateRpc, CanFound
  <2>3. founded = 0
    BY <2>2 DEF MembersInv, TargetsInv
  <2>4. ckpt = n
    BY <2>2, <2>3 DEF TargetsInv
  <2> QED
    BY <2>1, <2>2, <2>3, <2>4 DEF LateRpc, Found
<1>3. RpcAccepted \/ \E n \in ControlPlanes : LateRpc(n)
  BY DEF Next, Apply, ResumeBootstrap, StartBootstrap, StartRolling, ApplyRefused, vars,
         Tool, CreateCheckpoint, WriteCheckpoint, PrepareNodes, ConfigureNode, KeepNode,
         UnexpectedStage, NodesDone, BootNodeInstalled, BootstrapEtcd, ProbeFindsEtcd,
         ProbeFindsNothing, RpcRejected, RpcUnavailable, RpcTimesOut, BootNodeRunning,
         ControlPlanePods, InstallBaseCharts, JoinNodes, JoiningNodeReady, AllJoined,
         InstallLayers, InstallLayer, ReleaseRefused, RemoveCheckpoint, Rolling, RollingConfigure,
         RollingReady, WaitExpires, Interrupt, ResolveRelease, Machine, InstallDone, BootDone,
         BecomeReady, Reboot, Wipe, EditInventory, JoinEtcd
<1> QED
  BY <1>1, <1>2, <1>3

(* An etcd cluster is created on the node the recorded consent names.       *)
THEOREM FoundedUnderConsentHolds ==
  ASSUME NoWipe
  PROVE  Spec => FoundedUnderConsent
<1>1. IInv /\ [Next]_vars
        => [founded' # founded =>
              \E n \in ControlPlanes :
                ckpt = n /\ member[n] = None /\ member'[n] = founded']_vars
  BY FoundingStep
<1> QED
  BY <1>1, InductiveInvariant, PTL DEF Spec, FoundedUnderConsent

(* The checkpoint is dropped only by the last step of a complete setup.     *)
THEOREM CheckpointKeptHolds ==
  ASSUME NoWipe
  PROVE  Spec => CheckpointKeptUntilComplete
<1>1. ASSUME IInv, [Next]_vars, ckpt # None, ckpt' = None
      PROVE  RemoveCheckpoint
  BY <1>1, CheckpointValues
     DEF IInv, TypeOK, machineVars, Next, Apply, ResumeBootstrap, StartBootstrap,
         StartRolling, ApplyRefused, vars, Tool, CreateCheckpoint, WriteCheckpoint,
         PrepareNodes, ConfigureNode, KeepNode, UnexpectedStage, NodesDone,
         BootNodeInstalled, BootstrapEtcd, ProbeFindsEtcd, ProbeFindsNothing,
         RpcAccepted, RpcRejected, RpcUnavailable, RpcTimesOut, BootNodeRunning,
         ControlPlanePods, InstallBaseCharts, JoinNodes, JoiningNodeReady, AllJoined,
         InstallLayers, InstallLayer, ReleaseRefused, Rolling, RollingConfigure, RollingReady,
         WaitExpires, Interrupt, ResolveRelease, Machine, InstallDone, BootDone, BecomeReady, Reboot,
         Wipe, EditInventory, JoinEtcd, LateRpc
<1>2. ASSUME IInv, RemoveCheckpoint
      PROVE  /\ installed = Layers
             /\ \A n \in Nodes : stage[n] \notin {"maintenance", "installing"}
  BY <1>2 DEF IInv, TypeOK, ProgressInv, LayersInv, JoinedSteps, RemoveCheckpoint, Layers, Booted
<1>3. IInv /\ [Next]_vars
        => [ckpt # None /\ ckpt' = None =>
              /\ installed = Layers
              /\ \A n \in Nodes : stage[n] \notin {"maintenance", "installing"}]_vars
  BY <1>1, <1>2
<1> QED
  BY <1>3, InductiveInvariant, PTL DEF Spec, CheckpointKeptUntilComplete

(* A cluster is created only while no control plane holds etcd data: as long *)
(* as no disk is wiped, live etcd decides whether the RPC is necessary.      *)
THEOREM LiveEtcdDecidesHolds ==
  ASSUME NoWipe
  PROVE  Spec => LiveEtcdDecides
<1>1. IInv /\ [Next]_vars
        => [founded' # founded => \A n \in ControlPlanes : ~MustAnswer(n)]_vars
  <2> SUFFICES ASSUME IInv, [Next]_vars, founded' # founded, NEW n \in ControlPlanes
               PROVE  member[n] = None
    BY DEF MustAnswer
  <2> QED
    BY FoundingStep DEF IInv, MembersInv
<1> QED
  BY <1>1, InductiveInvariant, PTL DEF Spec, LiveEtcdDecides

(* However setup was broken off, apply of the whole inventory finds a way to *)
(* go on, unless the checkpoint was torn or the first control plane renamed. *)
THEOREM ApplyIsOpenHolds ==
  ASSUME NoWipe
  PROVE  Spec => []ApplyIsOpen
<1>1. IInv => ApplyIsOpen
  <2> SUFFICES ASSUME IInv, ckpt = None PROVE AllInMaintenance \/ EtcdFound
    BY DEF ApplyIsOpen, CheckpointPending, IInv, TypeOK
  <2>1. CASE founded = 0
    BY <2>1, CheckpointValues, NodesAssumption DEF IInv, FleetInv, AllInMaintenance
  <2>2. CASE founded = 1
    BY <2>2 DEF IInv, MembersInv, EtcdFound, MayAnswer
  <2> QED
    BY <2>1, <2>2 DEF IInv, MembersInv
<1> QED
  BY <1>1, InductiveInvariant, PTL

-----------------------------------------------------------------------------
(* First setup implements FirstSetup.  The checkpoint's states are told      *)
(* apart from the abstract consent by None and Empty only.                   *)
Consented == IF ckpt = Empty THEN None ELSE ckpt

(* Deploying a layer again changes nothing; otherwise the layers before it   *)
(* are there, and the consented node is in etcd.                             *)
LEMMA LayerImplements ==
  ASSUME IInv,
         InstallBaseCharts \/ InstallLayers
  PROVE  [Abstract!Next]_(Abstract!vars)
<1>1. PICK layer \in Layers :
        /\ installed' = installed \cup {layer}
        /\ Abstract!Before(layer) \subseteq installed
  <2> USE DEF IInv, ProgressInv, LayersInv, StepInv, JoinedSteps, Deploy, Layers,
              Abstract!Before, Abstract!Layers, Abstract!Position
  <2>1. CASE InstallBaseCharts
    BY <2>1 DEF InstallBaseCharts
  <2>2. CASE InstallLayer("config", "config", "charts")
    BY <2>2 DEF InstallLayer
  <2>3. CASE InstallLayer("charts", "charts", "flux")
    BY <2>3 DEF InstallLayer
  <2>4. CASE InstallLayer("flux", "flux", "remove")
    BY <2>4 DEF InstallLayer
  <2> QED
    BY <2>1, <2>2, <2>3, <2>4 DEF InstallLayers
<1>2. UNCHANGED <<ckpt, member>> /\ pc \in EtcdSteps
  BY DEF InstallBaseCharts, InstallLayers, InstallLayer, EtcdSteps, ConfiguredSteps,
         CheckpointSteps, Steps
<1>3. UNCHANGED <<Consented, Members>>
  BY <1>2 DEF Consented, Members
<1>4. Consented \in Members
  <2>1. ckpt = boot /\ founded = 1
    BY <1>2 DEF IInv, StepInv, EtcdSteps, ConfiguredSteps
  <2> QED
    BY <2>1, CheckpointValues DEF IInv, TypeOK, TargetsInv, Consented, Members
<1>5. CASE layer \in installed
  <2>1. installed' = installed
    BY <1>1, <1>5
  <2> QED
    BY <1>3, <2>1 DEF Abstract!vars, Consented
<1>6. CASE layer \notin installed
  <2>1. Abstract!DeployLayer(layer)
    BY <1>1, <1>3, <1>4, <1>6
       DEF Abstract!DeployLayer, Abstract!LayersInOrder!Deploy, Abstract!Layers, Layers,
           Consented
  <2> QED
    BY <2>1 DEF Abstract!Next, Abstract!Layers, Layers
<1> QED
  BY <1>5, <1>6

(* The steps of the checkpoint: consent is given while there is no cluster,  *)
(* and taken back when everything is deployed.                               *)
LEMMA ConsentImplements ==
  ASSUME IInv,
         CreateCheckpoint \/ WriteCheckpoint \/ RemoveCheckpoint
  PROVE  [Abstract!Next]_(Abstract!vars)
<1> USE CheckpointValues DEF IInv, TypeOK, machineVars
<1>1. UNCHANGED <<Members, installed>>
  BY DEF CreateCheckpoint, WriteCheckpoint, RemoveCheckpoint, Members
<1>2. CASE CreateCheckpoint
  <2>1. UNCHANGED Consented
    BY <1>2 DEF CreateCheckpoint, Consented
  <2> QED
    BY <1>1, <2>1 DEF Abstract!vars, Consented
<1>3. CASE WriteCheckpoint
  <2>1. Members = {}
    BY <1>3 DEF WriteCheckpoint, StepInv, MembersInv, Members
  <2>2. Consented = None /\ Consented' = boot
    BY <1>3 DEF WriteCheckpoint, StepInv, Consented
  <2>3. Abstract!Consent(boot)
    BY <1>1, <2>1, <2>2 DEF Abstract!Consent, Consented
  <2> QED
    BY <2>3 DEF Abstract!Next
<1>4. CASE RemoveCheckpoint
  <2>1. ckpt = boot /\ founded = 1
    BY <1>4 DEF RemoveCheckpoint, StepInv, EtcdSteps, ConfiguredSteps, CheckpointSteps, Steps
  <2>2. Consented \in Members /\ Consented' = None
    BY <1>4, <2>1 DEF RemoveCheckpoint, TargetsInv, Consented, Members
  <2>3. installed = Layers
    BY <1>4 DEF RemoveCheckpoint, ProgressInv, LayersInv, JoinedSteps, Layers
  <2>4. Abstract!Complete
    BY <1>1, <2>2, <2>3 DEF Abstract!Complete, Abstract!Layers, Layers, Consented
  <2> QED
    BY <2>4 DEF Abstract!Next
<1> QED
  BY <1>2, <1>3, <1>4

(* The steps of etcd: founded on the consented node, joined by others.       *)
LEMMA EtcdImplements ==
  ASSUME IInv,
         RpcAccepted \/ \E n \in ControlPlanes : JoinEtcd(n) \/ LateRpc(n)
  PROVE  [Abstract!Next]_(Abstract!vars)
<1> USE CheckpointValues DEF IInv, TypeOK, machineVars
<1>1. UNCHANGED <<Consented, installed>>
  BY DEF RpcAccepted, JoinEtcd, LateRpc, Consented
<1>2. ASSUME NEW n \in ControlPlanes, n = ckpt, CanFound(n), Found(n)
      PROVE  Abstract!Found
  <2>1. founded = 0 /\ Members = {}
    BY <1>2 DEF CanFound, TargetsInv, MembersInv, Members
  <2>2. Members' = {n}
    <3>1. member' = [member EXCEPT ![n] = 1]
      BY <1>2, <2>1 DEF Found
    <3>2. \A k \in ControlPlanes : member'[k] # None <=> k = n
      BY <2>1, <3>1 DEF Members, None
    <3> QED
      BY <3>2 DEF Members
  <2>3. Consented = n /\ Consented # None
    BY <1>2 DEF Consented
  <2> QED
    BY <1>1, <2>1, <2>2, <2>3 DEF Abstract!Found, Consented
<1>3. CASE RpcAccepted
  <2>1. ckpt = boot
    BY <1>3 DEF RpcAccepted, StepInv, CheckpointSteps, Steps
  <2> QED
    BY <1>2, <1>3, <2>1 DEF RpcAccepted, Abstract!Next
<1>4. ASSUME NEW n \in ControlPlanes, LateRpc(n)
      PROVE  [Abstract!Next]_(Abstract!vars)
  <2>1. CASE CanFound(n) /\ Found(n)
    <3>1. founded = 0 /\ n \in late
      BY <1>4, <2>1 DEF LateRpc, CanFound, TargetsInv, MembersInv
    <3>2. n = ckpt
      BY <3>1 DEF TargetsInv
    <3> QED
      BY <1>2, <2>1, <3>2 DEF Abstract!Next
  <2>2. CASE UNCHANGED member
    <3>1. UNCHANGED Members
      BY <2>2 DEF Members
    <3> QED
      BY <1>1, <3>1 DEF Abstract!vars, Consented
  <2> QED
    BY <1>4, <2>1, <2>2 DEF LateRpc
<1>5. ASSUME NEW n \in ControlPlanes, JoinEtcd(n)
      PROVE  Abstract!Next
  <2>1. PICK m \in ControlPlanes :
          member[m] # None /\ member' = [member EXCEPT ![n] = member[m]]
    BY <1>5 DEF JoinEtcd, MustAnswer
  <2>2. Members # {} /\ Members' = Members \cup {n}
    <3>1. \A k \in ControlPlanes : member'[k] # None <=> member[k] # None \/ k = n
      BY <2>1
    <3> QED
      BY <2>1, <3>1 DEF Members
  <2>3. Abstract!Join(n)
    BY <1>1, <2>2 DEF Abstract!Join, Consented
  <2> QED
    BY <2>3 DEF Abstract!Next
<1> QED
  BY <1>3, <1>4, <1>5

(* Every other step is a stutter: it touches neither checkpoint, nor etcd    *)
(* data, nor layers.                                                         *)
LEMMA OthersStutter ==
  ASSUME NoWipe, IInv, [Next]_vars
  PROVE  \/ UNCHANGED <<ckpt, member, installed>>
         \/ InstallBaseCharts \/ InstallLayers
         \/ CreateCheckpoint \/ WriteCheckpoint \/ RemoveCheckpoint
         \/ RpcAccepted \/ \E n \in ControlPlanes : JoinEtcd(n) \/ LateRpc(n)
<1> USE DEF machineVars
<1>1. CASE Apply \/ (\E t \in Targets : ApplyRefused(t)) \/ UNCHANGED vars
  BY <1>1 DEF Apply, ResumeBootstrap, StartBootstrap, StartRolling, ApplyRefused, vars
<1>2. CASE Tool
  BY <1>2 DEF Tool, PrepareNodes, ConfigureNode, KeepNode, UnexpectedStage, NodesDone,
       BootNodeInstalled, BootstrapEtcd, ProbeFindsEtcd, ProbeFindsNothing, RpcRejected,
       RpcUnavailable, RpcTimesOut, BootNodeRunning, ControlPlanePods, JoinNodes,
       JoiningNodeReady, AllJoined, ReleaseRefused, Rolling, RollingConfigure, RollingReady
<1>3. CASE \/ WaitExpires \/ Interrupt
           \/ \E layer \in HelmLayers : ResolveRelease(layer)
           \/ \E n \in ControlPlanes : EditInventory(n)
  BY <1>3 DEF WaitExpires, Interrupt, ResolveRelease, EditInventory
<1>4. CASE \E n \in Nodes : Machine(n) \/ Reboot(n)
  BY <1>4 DEF Machine, InstallDone, BootDone, BecomeReady, Reboot
<1>5. CASE \E n \in Nodes : Wipe(n)
  BY <1>5 DEF NoWipe, Wipe, Fault
<1> QED
  BY <1>1, <1>2, <1>3, <1>4, <1>5 DEF Next

(* First setup, interrupted and repeated at will, implements FirstSetup, as  *)
(* long as no disk is wiped: consent before etcd, one cluster founded on the *)
(* consented node, layers in order, consent kept until the last of them.     *)
THEOREM Implementation ==
  ASSUME NoWipe
  PROVE  Spec => ImplementsFirstSetup
<1>1. Init => Abstract!Init
  <2> SUFFICES ASSUME Init PROVE Abstract!Init
    OBVIOUS
  <2>1. Consented = None
    BY CheckpointValues DEF Init, Consented
  <2>2. CASE founded = 0
    BY <2>1, <2>2 DEF Init, Abstract!Init, Members, Consented
  <2>3. CASE founded # 0
    <3>1. installed = Layers /\ Members # {}
      <4>1. PICK old \in SUBSET Nodes :
              /\ old \cap ControlPlanes # {} /\ installed = Layers
              /\ member = [n \in ControlPlanes |-> IF n \in old THEN 1 ELSE None]
        BY <2>3 DEF Init
      <4>2. PICK m \in ControlPlanes : m \in old
        BY <4>1
      <4>3. member[m] = 1
        BY <4>1, <4>2
      <4> QED
        BY <4>1, <4>3 DEF Members, None
    <3>2. Members \in SUBSET ControlPlanes
      BY DEF Members
    <3> QED
      BY <2>1, <3>1, <3>2 DEF Abstract!Init, Abstract!Layers, Layers, Consented
  <2> QED
    BY <2>2, <2>3
<1>2. IInv /\ [Next]_vars => [Abstract!Next]_(Abstract!vars)
  <2> SUFFICES ASSUME IInv, [Next]_vars PROVE [Abstract!Next]_(Abstract!vars)
    OBVIOUS
  <2>1. CASE UNCHANGED <<ckpt, member, installed>>
    <3>1. UNCHANGED <<Consented, Members, installed>>
      BY <2>1 DEF Consented, Members
    <3> QED
      BY <3>1 DEF Abstract!vars, Consented
  <2> QED
    BY <2>1, OthersStutter, LayerImplements, ConsentImplements, EtcdImplements
<1> QED
  BY <1>1, <1>2, InductiveInvariant, PTL DEF Spec, ImplementsFirstSetup, Abstract!Spec

-----------------------------------------------------------------------------
(* What holds even when disks are wiped: types, etcd data only on booted    *)
(* nodes, and no etcd data anywhere while a new setup is about to begin.    *)
WipedInv ==
  /\ TypeOK
  /\ \A n \in ControlPlanes : member[n] # None => stage[n] \in Booted
  /\ pc = "create" => ckpt = None /\ AllInMaintenance
  /\ pc = "write" => ckpt = Empty

LEMMA NextWipedInv ==
  ASSUME WipedInv, [Next]_vars
  PROVE  WipedInv'
<1> USE NodesAssumption, CheckpointValues, FaultBounded
        DEF WipedInv, TypeOK, AllInMaintenance, Steps, Stages, Booted, Layers,
            machineVars, None, Empty
<1>1. CASE Apply
  <2>1. ASSUME ResumeBootstrap PROVE WipedInv'
    BY <2>1 DEF ResumeBootstrap, CheckpointPending
  <2>2. ASSUME NEW t \in Targets, StartBootstrap(t) PROVE WipedInv'
    BY <2>2 DEF StartBootstrap, EtcdNotFound
  <2>3. ASSUME NEW t \in Targets, StartRolling(t) PROVE WipedInv'
    BY <2>3 DEF StartRolling, Targets
  <2> QED
    BY <1>1, <2>1, <2>2, <2>3 DEF Apply
<1>2. CASE \E t \in Targets : ApplyRefused(t)
  BY <1>2 DEF ApplyRefused, vars
<1>3. CASE CreateCheckpoint \/ WriteCheckpoint
  BY <1>3 DEF CreateCheckpoint, WriteCheckpoint
<1>4. CASE PrepareNodes \/ NodesDone \/ BootNodeInstalled
  BY <1>4 DEF PrepareNodes, ConfigureNode, KeepNode, UnexpectedStage, NextNode, NodesDone,
              EtcdNotFound, BootNodeInstalled
<1>5. CASE BootstrapEtcd
  <2>1. ASSUME ProbeFindsEtcd \/ RpcRejected PROVE WipedInv'
    BY <2>1 DEF ProbeFindsEtcd, RpcRejected
  <2>2. ASSUME ProbeFindsNothing PROVE WipedInv'
    BY <2>2 DEF ProbeFindsNothing, EtcdNotFound
  <2>3. ASSUME RpcAccepted PROVE WipedInv'
    BY <2>3 DEF RpcAccepted, CanFound, Found
  <2>4. ASSUME RpcUnavailable PROVE WipedInv'
    BY <2>4 DEF RpcUnavailable
  <2>5. ASSUME RpcTimesOut PROVE WipedInv'
    BY <2>5 DEF RpcTimesOut
  <2> QED
    BY <1>5, <2>1, <2>2, <2>3, <2>4, <2>5 DEF BootstrapEtcd
<1>6. CASE BootNodeRunning \/ ControlPlanePods \/ InstallBaseCharts \/ JoinNodes
           \/ InstallLayers \/ ReleaseRefused \/ RemoveCheckpoint
  BY <1>6 DEF BootNodeRunning, ControlPlanePods, InstallBaseCharts, JoinNodes,
              JoiningNodeReady, AllJoined, InstallLayers, InstallLayer, Deploy,
              ReleaseRefused, RemoveCheckpoint
<1>7. CASE Rolling
  BY <1>7 DEF Rolling, RollingConfigure, RollingReady, NextNode
<1>8. CASE \/ WaitExpires \/ Interrupt
           \/ \E layer \in HelmLayers : ResolveRelease(layer)
           \/ \E n \in ControlPlanes : EditInventory(n)
  BY UnfinishedAreHelm, <1>8 DEF WaitExpires, Interrupt, ResolveRelease, EditInventory
<1>9. CASE \E n \in Nodes : Machine(n) \/ Reboot(n) \/ Wipe(n)
  <2>1. ASSUME NEW n \in Nodes, Machine(n) PROVE WipedInv'
    BY <2>1 DEF Machine, InstallDone, BootDone, BecomeReady
  <2>2. ASSUME NEW n \in Nodes, Reboot(n) PROVE WipedInv'
    BY <2>2 DEF Reboot
  <2>3. ASSUME NEW n \in Nodes, Wipe(n) PROVE WipedInv'
    BY <2>3 DEF Wipe
  <2> QED
    BY <1>9, <2>1, <2>2, <2>3
<1>10. CASE \E n \in ControlPlanes : JoinEtcd(n) \/ LateRpc(n)
  <2>1. ASSUME NEW n \in ControlPlanes, JoinEtcd(n) PROVE WipedInv'
    BY <2>1 DEF JoinEtcd, CanFound
  <2>2. ASSUME NEW n \in ControlPlanes, LateRpc(n) PROVE WipedInv'
    BY <2>2 DEF LateRpc, CanFound, Found
  <2> QED
    BY <1>10, <2>1, <2>2
<1>11. CASE UNCHANGED vars
  BY <1>11 DEF vars
<1> QED
  BY <1>1, <1>2, <1>3, <1>4, <1>5, <1>6, <1>7, <1>8, <1>9, <1>10, <1>11 DEF Next, Tool

LEMMA WipedInvariant == Spec => []WipedInv
<1>1. Init => WipedInv
  BY NodesAssumption, FaultsAssumption, CheckpointValues
     DEF Init, WipedInv, TypeOK, Stages, Booted, Layers, HelmLayers, None, Empty
<1>2. WipedInv /\ [Next]_vars => WipedInv'
  BY NextWipedInv
<1> QED
  BY <1>1, <1>2, PTL DEF Spec

(* Types are kept under every kind of fault.                                *)
THEOREM TypeCorrect == Spec => []TypeOK
<1>1. WipedInv => TypeOK
  BY DEF WipedInv
<1> QED
  BY <1>1, WipedInvariant, PTL

(* Whatever fails, is wiped or does not answer, a new setup is begun only   *)
(* when no control plane holds etcd data.                                   *)
THEOREM NewSetupHolds == Spec => NewSetupOnlyWithoutEtcd
<1>1. ASSUME WipedInv, [Next]_vars, ckpt = None, ckpt' # None
      PROVE  CreateCheckpoint
  BY <1>1, CheckpointValues
     DEF WipedInv, TypeOK, machineVars, Next, Apply, ResumeBootstrap, StartBootstrap,
         StartRolling, ApplyRefused, vars, Tool, WriteCheckpoint,
         PrepareNodes, ConfigureNode, KeepNode, UnexpectedStage, NodesDone,
         BootNodeInstalled, BootstrapEtcd, ProbeFindsEtcd, ProbeFindsNothing,
         RpcAccepted, RpcRejected, RpcUnavailable, RpcTimesOut, BootNodeRunning,
         ControlPlanePods, InstallBaseCharts, JoinNodes, JoiningNodeReady, AllJoined,
         InstallLayers, InstallLayer, ReleaseRefused, RemoveCheckpoint, Rolling, RollingConfigure,
         RollingReady, WaitExpires, Interrupt, ResolveRelease, Machine, InstallDone, BootDone,
         BecomeReady, Reboot, Wipe, EditInventory, JoinEtcd, LateRpc
<1>2. ASSUME WipedInv, CreateCheckpoint
      PROVE  \A n \in ControlPlanes : member[n] = None
  BY <1>2 DEF WipedInv, CreateCheckpoint, AllInMaintenance, Booted
<1>3. WipedInv /\ [Next]_vars
        => [ckpt = None /\ ckpt' # None
              => \A n \in ControlPlanes : member[n] = None]_vars
  BY <1>1, <1>2
<1> QED
  BY <1>3, WipedInvariant, PTL DEF Spec, NewSetupOnlyWithoutEtcd


(* Each step may rely on the layers before it, whatever the machines do.     *)
LEMMA NextLayersInv ==
  ASSUME TypeOK, LayersInv, [Next]_vars
  PROVE  LayersInv'
<1> USE DEF LayersInv, JoinedSteps, machineVars
<1>1. CASE Apply \/ (\E t \in Targets : ApplyRefused(t)) \/ UNCHANGED vars
  BY <1>1 DEF Apply, ResumeBootstrap, StartBootstrap, StartRolling, ApplyRefused, vars
<1>2. CASE CreateCheckpoint \/ WriteCheckpoint \/ PrepareNodes \/ NodesDone
           \/ BootNodeInstalled \/ BootstrapEtcd \/ BootNodeRunning \/ ControlPlanePods
  BY <1>2 DEF CreateCheckpoint, WriteCheckpoint, PrepareNodes, ConfigureNode, KeepNode,
       UnexpectedStage, NodesDone, BootNodeInstalled, BootstrapEtcd, ProbeFindsEtcd,
       ProbeFindsNothing, RpcAccepted, RpcRejected, RpcUnavailable, RpcTimesOut,
       BootNodeRunning, ControlPlanePods
<1>3. CASE InstallBaseCharts
  BY <1>3 DEF InstallBaseCharts, Deploy
<1>4. CASE JoinNodes
  BY <1>4 DEF JoinNodes, JoiningNodeReady, AllJoined
<1>5. CASE InstallLayers
  BY <1>5 DEF InstallLayers, InstallLayer, Deploy
<1>6. CASE ReleaseRefused \/ RemoveCheckpoint \/ Rolling
  BY <1>6 DEF ReleaseRefused, HelmSteps, RemoveCheckpoint, Rolling, RollingConfigure, RollingReady
<1>7. CASE \/ WaitExpires \/ Interrupt
           \/ \E layer \in HelmLayers : ResolveRelease(layer)
           \/ \E n \in ControlPlanes : EditInventory(n)
  BY <1>7 DEF WaitExpires, Interrupt, ResolveRelease, EditInventory
<1>8. CASE \E n \in Nodes : Machine(n) \/ Reboot(n) \/ Wipe(n)
  BY <1>8 DEF Machine, InstallDone, BootDone, BecomeReady, Reboot, Wipe
<1>9. CASE \E n \in ControlPlanes : JoinEtcd(n) \/ LateRpc(n)
  BY <1>9 DEF JoinEtcd, LateRpc
<1> QED
  BY <1>1, <1>2, <1>3, <1>4, <1>5, <1>6, <1>7, <1>8, <1>9 DEF Next, Tool

(* Layers are deployed in order, and the checkpoint goes with the last, for  *)
(* every fault, wiped disks included.                                        *)
THEOREM LayersDeployedInOrderHolds == Spec => LayersDeployedInOrder
<1>1. Init => LayersInv
  BY DEF Init, LayersInv, JoinedSteps
<1>2. TypeOK /\ LayersInv /\ [Next]_vars => LayersInv'
  BY NextLayersInv
<1>3. Spec => [](TypeOK /\ LayersInv)
  BY <1>1, <1>2, TypeCorrect, PTL DEF Spec
<1>4. TypeOK /\ LayersInv /\ [Next]_vars
        => [\E layer \in Layers : Abstract!LayersInOrder!Deploy(layer)]_installed
  <2> SUFFICES ASSUME TypeOK, LayersInv, [Next]_vars, installed' # installed
               PROVE  \E layer \in Layers : Abstract!LayersInOrder!Deploy(layer)
    OBVIOUS
  <2>1. InstallBaseCharts \/ InstallLayers
    BY DEF Next, machineVars, Apply, ResumeBootstrap, StartBootstrap, StartRolling,
         ApplyRefused, vars, Tool, CreateCheckpoint, WriteCheckpoint, PrepareNodes,
         ConfigureNode, KeepNode, UnexpectedStage, NodesDone, BootNodeInstalled,
         BootstrapEtcd, ProbeFindsEtcd, ProbeFindsNothing, RpcAccepted, RpcRejected,
         RpcUnavailable, RpcTimesOut, BootNodeRunning, ControlPlanePods, JoinNodes,
         JoiningNodeReady, AllJoined, ReleaseRefused, RemoveCheckpoint, Rolling, RollingConfigure,
         RollingReady, WaitExpires, Interrupt, ResolveRelease, Machine, InstallDone, BootDone,
         BecomeReady, Reboot, Wipe, EditInventory, JoinEtcd, LateRpc
  <2>2. PICK layer \in Layers : /\ installed' = installed \cup {layer}
                                /\ Abstract!Before(layer) \subseteq installed
    <3> USE DEF LayersInv, JoinedSteps, Deploy, Layers,
                Abstract!Before, Abstract!Layers, Abstract!Position
    <3>1. CASE InstallBaseCharts
      BY <3>1 DEF InstallBaseCharts
    <3>2. CASE InstallLayers
      BY <3>2 DEF InstallLayers, InstallLayer
    <3> QED
      BY <2>1, <3>1, <3>2
  <2> QED
    BY <2>2 DEF Abstract!LayersInOrder!Deploy, Abstract!Layers, Layers
<1>5. TypeOK /\ LayersInv /\ [Next]_vars
        => [ckpt # None /\ ckpt' = None => installed = Layers]_vars
  <2> SUFFICES ASSUME TypeOK, LayersInv, [Next]_vars, ckpt # None, ckpt' = None
               PROVE  installed = Layers
    OBVIOUS
  <2>1. RemoveCheckpoint
    BY CheckpointValues
       DEF TypeOK, Next, machineVars, Apply, ResumeBootstrap, StartBootstrap, StartRolling,
         ApplyRefused, vars, Tool, CreateCheckpoint, WriteCheckpoint, PrepareNodes,
         ConfigureNode, KeepNode, UnexpectedStage, NodesDone, BootNodeInstalled,
         BootstrapEtcd, ProbeFindsEtcd, ProbeFindsNothing, RpcAccepted, RpcRejected,
         RpcUnavailable, RpcTimesOut, BootNodeRunning, ControlPlanePods, JoinNodes,
         JoiningNodeReady, AllJoined, InstallBaseCharts, InstallLayers, InstallLayer,
         ReleaseRefused, Rolling, RollingConfigure, RollingReady, WaitExpires, Interrupt,
         ResolveRelease, Machine, InstallDone, BootDone, BecomeReady, Reboot, Wipe,
         EditInventory, JoinEtcd, LateRpc
  <2> QED
    BY <2>1 DEF TypeOK, RemoveCheckpoint, LayersInv, JoinedSteps, Layers
<1> QED
  BY <1>3, <1>4, <1>5, PTL DEF Spec, LayersDeployedInOrder

=============================================================================
