----------------------------- MODULE Rollout_proofs -----------------------------
(***************************************************************************)
(* What a rollout keeps in a fleet of any size, control planes and workers *)
(* alike, however often machines fail and commands are refused.  What      *)
(* needs it assumes that no boot falls between a check and the command it  *)
(* allows, or that the command is not apply (Calm), or that no run is      *)
(* abandoned on a machine still at work (NoAbandoning).                    *)
(***************************************************************************)
EXTENDS Rollout, FiniteSetTheorems, TLAPS

NoRaces      == "race" \notin FaultKinds
NoAbandoning == "abandon" \notin FaultKinds

(* A race does harm in one place only: the boot ID an apply has read belongs *)
(* to a boot that is over when the configuration is sent.                    *)
NoApply == "apply-config" \notin Operations
Calm    == NoRaces \/ NoApply

(* One node at a time is the current one.                                   *)
LEMMA CurrentUnique ==
  ASSUME NEW n \in Nodes, NEW m \in Nodes, Current(n), Current(m)
  PROVE  n = m
BY NodesAssumption DEF Current, Before

-----------------------------------------------------------------------------
(* Type correctness.                                                        *)

LEMMA InitType == Init => TypeOK
<1> SUFFICES ASSUME Init PROVE TypeOK
  OBVIOUS
<1>1. PICK old \in SUBSET Nodes :
         /\ stage = [n \in Nodes |-> IF n \in old THEN "ready" ELSE "maintenance"]
         /\ etcd = [n \in ControlPlanes |-> IF n \in old THEN "voter" ELSE "out"]
         /\ listed \in {Nodes} \cup {Nodes \ {n} : n \in old \cap ControlPlanes}
  BY DEF Init
<1>2. stage \in [Nodes -> Stages] /\ etcd \in [ControlPlanes -> {"out", "learner", "voter"}]
  BY <1>1 DEF Stages
<1>3. listed \subseteq Nodes
  BY <1>1
<1>4. fits \subseteq Nodes
  BY DEF Init
<1>5. kubeFits \in BOOLEAN /\ talosOnly \in BOOLEAN
  BY DEF Init
<1>6. /\ config \in [Nodes -> {"old", "staged", "new"}]
      /\ pending \subseteq Nodes /\ asked \subseteq Nodes /\ hosts \subseteq ControlPlanes
      /\ sel \subseteq listed /\ todo \subseteq sel
      /\ kube \in {"old", "new"} /\ op \in Commands /\ pc \in {"idle"} \cup Steps
      /\ boot \in {"none", "same", "changed"} /\ mode \in {"auto", "no-reboot", "insecure"}
      /\ outcome \in {"none", "ok", "failed"} /\ faults \in 0..MaxFaults
  BY FaultsAssumption DEF Init, Commands
<1> QED
  BY <1>2, <1>3, <1>4, <1>5, <1>6 DEF TypeOK

LEMMA StopType ==
  ASSUME TypeOK, Stop, faults' \in 0..MaxFaults
  PROVE  TypeOK'
BY DEF TypeOK, Stop, machineVars, filesVars

LEMMA FaultType ==
  ASSUME TypeOK, NEW kind, Fault(kind)
  PROVE  faults' \in 0..MaxFaults
BY FaultsAssumption DEF TypeOK, Fault

LEMMA NoRaceType ==
  ASSUME TypeOK, NoRace
  PROVE  faults' \in 0..MaxFaults
BY FaultType DEF NoRace, TypeOK

LEMMA StartType ==
  ASSUME TypeOK, NEW command \in Operations, NEW target \in Targets, Start(command, target)
  PROVE  TypeOK'
<1>1. command \in Commands /\ target \subseteq listed
  BY FaultsAssumption DEF Targets
<1>2. talosOnly' \in BOOLEAN
  BY DEF Start
<1>3. pc' \in Steps
  BY DEF Start, Steps
<1>4. UNCHANGED <<stage, etcd, config, pending, kube, listed, fits, kubeFits, faults>>
  BY DEF Start, machineVars, filesVars
<1> QED
  BY <1>1, <1>2, <1>3, <1>4 DEF TypeOK, Start

LEMMA PreflightType ==
  ASSUME TypeOK, Preflight
  PROVE  TypeOK'
<1>1. ASSUME NEW n \in Nodes, PreflightNode(n)
      PROVE  TypeOK'
  BY <1>1 DEF TypeOK, PreflightNode, machineVars, filesVars, Steps
<1>2. ASSUME NEW n \in Nodes, PreflightRefuses(n)
      PROVE  TypeOK'
  BY <1>2, StopType DEF TypeOK, PreflightRefuses
<1>3. CASE DryRun
  BY <1>3, StopType DEF TypeOK, DryRun, GoTo, machineVars, filesVars, Steps
<1> QED
  BY <1>1, <1>2, <1>3 DEF Preflight

LEMMA BeforeType ==
  ASSUME TypeOK, NEW n \in Nodes, BeforeCommand(n)
  PROVE  TypeOK'
<1>1. CASE Stop
  BY <1>1, StopType DEF TypeOK, BeforeCommand, ReadStatus, AwaitReady, ReadBootID, Guard
<1>2. CASE ReadStatus(n) /\ ~Stop
  <2>1. UNCHANGED machineVars /\ pc' \in {"wait", "exec"} /\ boot' = boot
        /\ mode' \in {mode, "insecure"} /\ GoTo(pc')
    BY <1>2 DEF ReadStatus, GoTo
  <2> QED
    BY <1>2, <2>1 DEF ReadStatus, TypeOK, GoTo, machineVars, filesVars, Steps
<1>3. CASE AwaitReady(n) /\ ~Stop
  <2>1. pc' \in {"bootid", "guard", "exec"}
    BY <1>3 DEF AwaitReady, TypeOK, GoTo, Commands
  <2> QED
    BY <1>3, <2>1 DEF AwaitReady, TypeOK, GoTo, machineVars, filesVars, Steps
<1>4. CASE ReadBootID(n) /\ ~Stop
  BY <1>4 DEF ReadBootID, TypeOK, GoTo, machineVars, filesVars, Steps
<1>5. CASE Guard(n) /\ ~Stop
  BY <1>5 DEF Guard, TypeOK, GoTo, machineVars, filesVars, Steps, Members
<1> QED
  BY <1>1, <1>2, <1>3, <1>4, <1>5 DEF BeforeCommand

LEMMA FinishType ==
  ASSUME TypeOK, NEW n \in Nodes, FinishNode(n), asked' \subseteq Nodes,
         (stage \in [Nodes -> Stages])', (config \in [Nodes -> {"old", "staged", "new"}])',
         (etcd \in [ControlPlanes -> {"out", "learner", "voter"}])',
         pending' \subseteq Nodes, kube' \in {"old", "new"}, faults' \in 0..MaxFaults
  PROVE  TypeOK'
BY DEF TypeOK, FinishNode, filesVars, Steps

LEMMA CommandType ==
  ASSUME TypeOK, NEW n \in Nodes, Command(n)
  PROVE  TypeOK'
<1>1. CASE Apply(n)
  BY <1>1 DEF TypeOK, Apply, ApplyInsecure, ApplyAtOnce, ApplyWithReboot, filesVars, Steps, Stages
<1>2. CASE Upgrade(n)
  BY <1>2 DEF TypeOK, Upgrade, filesVars, Steps
<1>3. CASE UpgradeReturns(n)
  BY <1>3, StopType DEF TypeOK, UpgradeReturns, GoTo, machineVars, filesVars, Steps
<1>4. CASE Reset(n)
  BY <1>4, FinishType DEF TypeOK, Reset, Stages
<1> QED
  BY <1>1, <1>2, <1>3, <1>4 DEF Command

LEMMA AfterType ==
  ASSUME TypeOK, NEW n \in Nodes, AfterCommand(n)
  PROVE  TypeOK'
<1>1. CASE AwaitReboot(n) \/ AwaitRecovery(n)
  BY <1>1 DEF TypeOK, AwaitReboot, AwaitRecovery, GoTo, machineVars, filesVars, Steps
<1>2. CASE CheckMembership(n)
  BY <1>2, StopType, FinishType DEF TypeOK, CheckMembership, machineVars
<1>3. CASE WaitExpires(n)
  BY <1>3, StopType DEF TypeOK, WaitExpires
<1> QED
  BY <1>1, <1>2, <1>3 DEF AfterCommand

LEMMA OtherType ==
  ASSUME TypeOK,
         CommandFails \/ UpgradeKubernetes \/ NoControlPlaneAnswers \/ Rejected \/ Abandon
  PROVE  TypeOK'
<1>1. CASE CommandFails \/ NoControlPlaneAnswers
  BY <1>1, StopType DEF TypeOK, CommandFails, NoControlPlaneAnswers
<1>2. CASE Rejected \/ Abandon
  BY <1>2, StopType, FaultType DEF Rejected, Abandon
<1>3. CASE UpgradeKubernetes
  BY <1>3 DEF TypeOK, UpgradeKubernetes, filesVars
<1> QED
  BY <1>1, <1>2, <1>3

LEMMA MachineType ==
  ASSUME TypeOK, NEW n \in Nodes, Machine(n) \/ Fail(n)
  PROVE  TypeOK'
<1>1. CASE GoDown(n)
  BY <1>1 DEF TypeOK, GoDown, filesVars, toolVars, Stages
<1>2. CASE Boot(n)
  BY <1>2, NoRaceType DEF TypeOK, Boot, filesVars, Stages
<1>3. CASE n \in ControlPlanes /\ (JoinEtcd(n) \/ Promote(n))
  BY <1>3, NoRaceType DEF TypeOK, JoinEtcd, Promote, filesVars, toolVars
<1>4. CASE BecomeReady(n)
  BY <1>4 DEF TypeOK, BecomeReady, filesVars, toolVars, Stages
<1>5. CASE Fail(n)
  BY <1>5, FaultType DEF TypeOK, Fail, filesVars, toolVars, Stages
<1> QED
  BY <1>1, <1>2, <1>3, <1>4, <1>5 DEF Machine

LEMMA NextType ==
  ASSUME TypeOK, [Next]_vars
  PROVE  TypeOK'
<1>1. CASE UNCHANGED vars
  BY <1>1 DEF TypeOK, vars, machineVars, filesVars, toolVars
<1> QED
  BY <1>1, StartType, PreflightType, BeforeType, CommandType, AfterType, OtherType, MachineType
  DEF Next, Tool

(* Every variable keeps to its domain, in a fleet of any size.              *)
THEOREM TypeCorrect == Spec => []TypeOK
BY InitType, NextType, PTL DEF Spec

-----------------------------------------------------------------------------
(* The invariant behind the safety properties, whatever machines and the    *)
(* tool do.                                                                 *)

(* An upgrade that has asked a node has seen the whole preflight pass.      *)
PreflightDone ==
  op = "upgrade" =>
    /\ pc = "preflight" => asked = {} /\ sel \ todo \subseteq fits
    /\ pc = "dryrun" => asked = {} /\ sel \subseteq fits
    /\ pc \notin {"preflight", "dryrun"} /\ (pc = "idle" => asked # {}) =>
         sel \subseteq fits /\ (talosOnly \/ kubeFits)

(* A reboot that was accepted is still to come only where the machine is up. *)
PendingUp == \A n \in pending : Up(n)

(* Without races: the machines this process took down, and down still.      *)
Down == asked \cap Disturbed

DownAwaited ==
  /\ \A n \in Down :
       pc = "idle" \/ (pc \in {"upgrading", "reboot", "recover"} /\ Current(n))
  /\ \A n, m \in Down : n = m

(* The boot ID is the one before the reboot until the reboot has happened.  *)
BootIDTells ==
  /\ (pc = "guard" \/ (pc = "exec" /\ mode # "insecure")) /\ op = "apply-config" =>
       boot = "same"
  /\ pc = "reboot" => boot \in {"same", "changed"}
  /\ pc = "recover" \/ (pc = "reboot" /\ boot = "changed") => pending \cap asked = {}

(* A run is one of the operator's commands.                                 *)
RunsOperation == pc # "idle" => op \in Operations

OneAtATimeInv == TypeOK /\ PendingUp /\ RunsOperation /\ DownAwaited /\ BootIDTells

(* Without races and abandoned runs: no reboot is left to come.             *)
NoneLeft ==
  /\ pending # {} => pc \in {"upgrading", "reboot"}
  /\ \A n \in pending : Current(n)
  /\ pc = "reboot" /\ boot = "changed" => pending = {}
  /\ \A n \in Members : stage[n] = "rebooting" => pc \in {"upgrading", "reboot"} /\ Current(n)
  /\ \A n \in Members : stage[n] # "maintenance"

(* A control plane that was guarded is a member.                            *)
Guarded == \/ pc = "exec" /\ op # "reset" /\ mode # "insecure"
           \/ pc \in {"upgrading", "reboot"}
GuardedIsMember == Guarded => \A n \in ControlPlanes : Current(n) => n \in Members

(* A reboot is only asked for where the guard allows it.                    *)
RebootAllowed ==
  (pc = "exec" /\ op = "upgrade") \/ pc \in {"upgrading", "reboot"} => mode = "auto"

(* What the guard found is enough for the reboot it allowed.                *)
EnoughVoters ==
  Guarded /\ mode = "auto" =>
    \A n \in ControlPlanes : Current(n) =>
      Cardinality(Voters) >= 3 \/ Cardinality(hosts) = 1

(* The current node's configuration on its way to the machine.              *)
ConfigOnItsWay ==
  \A n \in Nodes : Current(n) =>
    /\ pc = "reboot" => config[n] = IF boot = "changed" THEN "new" ELSE "staged"
    /\ pc = "recover" => config[n] = "new" \/ (config[n] = "staged" /\ ~Up(n))
    /\ pc = "membership" => config[n] = "new" /\ stage[n] # "rebooting"

(* A node the run has left behind is as desired.                            *)
FinishedAsDesired ==
  op # "reset" /\ pc \notin {"preflight", "dryrun"} /\ (pc = "idle" => outcome = "ok") =>
    \A m \in sel \ todo : config[m] = "new" /\ m \notin Disturbed

(* A run ends, and upgrades Kubernetes, with nothing left to do.            *)
EndsDone ==
  /\ pc # "idle" => outcome = "none"
  /\ pc = "dryrun" => todo = sel
  /\ pc = "kube" => op = "upgrade" /\ todo = {}
  /\ outcome = "ok" => todo = {}

SettledInv ==
  /\ OneAtATimeInv /\ NoneLeft /\ RebootAllowed /\ GuardedIsMember /\ EnoughVoters
  /\ ConfigOnItsWay /\ FinishedAsDesired /\ EndsDone

-----------------------------------------------------------------------------
(* The preflight pass comes first.                                          *)

LEMMA PreflightStep ==
  ASSUME TypeOK, PreflightDone, Next
  PROVE  PreflightDone'
<1>1. CASE Stop
  BY <1>1 DEF PreflightDone, Stop, filesVars, TypeOK
<1>2. ASSUME NEW command \in Operations, NEW target \in Targets, Start(command, target)
      PROVE  PreflightDone'
  BY <1>2 DEF PreflightDone, Start
<1>3. ASSUME NEW n \in Nodes, PreflightNode(n)
      PROVE  PreflightDone'
  BY <1>3 DEF PreflightDone, PreflightNode, filesVars, TypeOK
<1>4. CASE DryRun /\ ~Stop
  BY <1>4 DEF PreflightDone, DryRun, GoTo, filesVars
<1>5. CASE /\ pc \notin {"idle", "preflight", "dryrun"}
           /\ pc' \notin {"preflight", "dryrun"}
           /\ op' = op /\ talosOnly' = talosOnly /\ sel' = sel /\ UNCHANGED filesVars
  BY <1>5 DEF PreflightDone, filesVars
<1>6. ASSUME NEW n \in Nodes, BeforeCommand(n), ~Stop
      PROVE  PreflightDone'
  <2>1. pc' \in {"wait", "exec", "bootid", "guard"}
    BY <1>6 DEF BeforeCommand, ReadStatus, AwaitReady, ReadBootID, Guard, GoTo, TypeOK, Commands
  <2> QED
    BY <1>5, <1>6, <2>1 DEF BeforeCommand, ReadStatus, AwaitReady, ReadBootID, Guard, GoTo, filesVars
<1>7. ASSUME NEW n \in Nodes, Command(n), ~Stop
      PROVE  PreflightDone'
  BY <1>5, <1>7 DEF Command, Apply, ApplyInsecure, ApplyAtOnce, ApplyWithReboot, Upgrade,
                    UpgradeReturns, Reset, FinishNode, GoTo, filesVars
<1>8. ASSUME NEW n \in Nodes, AfterCommand(n), ~Stop
      PROVE  PreflightDone'
  BY <1>5, <1>8 DEF AfterCommand, AwaitReboot, AwaitRecovery, CheckMembership, WaitExpires,
                    FinishNode, GoTo, filesVars
<1>9. CASE UpgradeKubernetes
  BY <1>5, <1>9 DEF UpgradeKubernetes, filesVars
<1>10. ASSUME NEW n \in Nodes, Machine(n) \/ Fail(n)
       PROVE  PreflightDone'
  BY <1>10 DEF PreflightDone, Machine, GoDown, Boot, BecomeReady, JoinEtcd, Promote, Fail,
               filesVars, toolVars
<1> QED
  BY <1>1, <1>2, <1>3, <1>4, <1>6, <1>7, <1>8, <1>9, <1>10
  DEF Next, Tool, Preflight, PreflightRefuses, CommandFails, NoControlPlaneAnswers, Rejected, Abandon

(* No node is asked to upgrade before every selected node, and the plan for *)
(* Kubernetes, has passed the preflight: in any fleet, whatever fails.      *)
THEOREM NothingUpgradedBeforePreflightHolds == Spec => []NothingUpgradedBeforePreflight
<1>1. Init => PreflightDone
  BY DEF Init, PreflightDone
<1>2. TypeOK /\ PreflightDone /\ [Next]_vars => PreflightDone'
  BY PreflightStep DEF vars, filesVars, toolVars, PreflightDone
<1>3. TypeOK /\ PreflightDone => NothingUpgradedBeforePreflight
  BY DEF PreflightDone, NothingUpgradedBeforePreflight
<1> QED
  BY <1>1, <1>2, <1>3, TypeCorrect, PTL DEF Spec

-----------------------------------------------------------------------------
(* One node at a time.                                                      *)

LEMMA PendingUpStep ==
  ASSUME TypeOK, PendingUp, Next
  PROVE  PendingUp'
<1>1. CASE UNCHANGED <<stage, pending>>
  BY <1>1 DEF PendingUp, Up
<1>2. CASE Stop
  BY <1>1, <1>2 DEF Stop, machineVars
<1>3. ASSUME NEW n \in Nodes, Machine(n) \/ Fail(n)
      PROVE  PendingUp'
  BY <1>3 DEF PendingUp, Up, TypeOK, Machine, GoDown, Boot, BecomeReady, JoinEtcd, Promote, Fail
<1>4. ASSUME NEW n \in Nodes, Command(n), ~Stop
      PROVE  PendingUp'
  BY <1>4 DEF PendingUp, Up, TypeOK, Command, Apply, ApplyInsecure, ApplyAtOnce, ApplyWithReboot,
              Upgrade, UpgradeReturns, Reset, machineVars
<1>5. CASE /\ ~Stop
           /\ \/ \E command \in Operations, target \in Targets : Start(command, target)
              \/ Preflight \/ UpgradeKubernetes
              \/ \E n \in Nodes : BeforeCommand(n) \/ AfterCommand(n)
  BY <1>1, <1>5
  DEF Start, Preflight, PreflightNode, PreflightRefuses, DryRun, UpgradeKubernetes,
      BeforeCommand, ReadStatus, AwaitReady, ReadBootID, Guard,
      AfterCommand, AwaitReboot, AwaitRecovery, CheckMembership, WaitExpires, machineVars
<1> QED
  BY <1>2, <1>3, <1>4, <1>5
  DEF Next, Tool, CommandFails, NoControlPlaneAnswers, Rejected, Abandon

(* Steps that disturb no machine and stay clear of, or within, the waits.   *)
LEMMA RunsOperationStep ==
  ASSUME RunsOperation, Next
  PROVE  RunsOperation'
<1>1. CASE \E command \in Operations, target \in Targets : Start(command, target)
  BY <1>1 DEF RunsOperation, Start
<1>2. CASE op' = op /\ (pc' # "idle" => pc # "idle")
  BY <1>2 DEF RunsOperation
<1>3. CASE Stop
  BY <1>3 DEF RunsOperation, Stop
<1>4. ASSUME NEW n \in Nodes, BeforeCommand(n) \/ Command(n) \/ AfterCommand(n), ~Stop
      PROVE  op' = op /\ pc # "idle"
  BY <1>4
  DEF BeforeCommand, ReadStatus, AwaitReady, ReadBootID, Guard, Command, Apply, Upgrade, UpgradeReturns,
      Reset, AfterCommand, AwaitReboot, AwaitRecovery, CheckMembership, WaitExpires, FinishNode, GoTo
<1>5. CASE (Preflight /\ ~Stop) \/ UpgradeKubernetes
  BY <1>2, <1>5 DEF Preflight, PreflightNode, PreflightRefuses, DryRun, GoTo, UpgradeKubernetes
<1>6. ASSUME NEW n \in Nodes, Machine(n) \/ Fail(n)
      PROVE  op' = op /\ pc' = pc
  BY <1>6 DEF Machine, GoDown, Boot, BecomeReady, JoinEtcd, Promote, Fail, toolVars
<1> QED
  BY <1>1, <1>2, <1>3, <1>4, <1>5, <1>6
  DEF Next, Tool, CommandFails, NoControlPlaneAnswers, Rejected, Abandon

LEMMA DownKept ==
  ASSUME DownAwaited, Down' \subseteq Down,
         \/ Down = {}
         \/ pc' = "idle"
         \/ pc' = pc /\ todo' = todo
         \/ /\ {pc, pc'} \subseteq {"upgrading", "reboot", "recover"}
            /\ todo' = todo
  PROVE  DownAwaited'
BY DEF DownAwaited, Current

LEMMA StopDown ==
  ASSUME DownAwaited, Stop
  PROVE  DownAwaited' /\ BootIDTells'
BY DownKept DEF Stop, machineVars, Down, Disturbed, BootIDTells

(* Between two nodes of a run none of them is down for it.                  *)
LEMMA NoneDown ==
  ASSUME DownAwaited, pc \notin {"idle", "upgrading", "reboot", "recover"}
  PROVE  Down = {}
BY DEF DownAwaited

LEMMA CommandDown ==
  ASSUME OneAtATimeInv, NEW n \in Nodes, Command(n)
  PROVE  DownAwaited' /\ BootIDTells'
<1>1. Current(n)
  BY DEF Command, Apply, Upgrade, UpgradeReturns, Reset
<1>2. CASE Apply(n) \/ Upgrade(n) \/ Reset(n)
  <2>1. Down = {}
    BY <1>2, NoneDown DEF Apply, Upgrade, Reset, OneAtATimeInv
  <2>2. Down' \subseteq {n}
    BY <1>2, <2>1 DEF Down, Disturbed, Apply, ApplyInsecure, ApplyAtOnce, ApplyWithReboot,
                      Upgrade, Reset, OneAtATimeInv, TypeOK
  <2>3. CASE Apply(n)
    <3>1. todo' = todo /\ pc' \in {"recover", "reboot"}
      BY <2>3 DEF Apply, ApplyInsecure, ApplyAtOnce, ApplyWithReboot
    <3>2. DownAwaited'
      BY <1>1, <2>2, <3>1 DEF DownAwaited, Current
    <3>3. CASE ApplyInsecure(n)
      <4>1. n \notin pending
        BY <3>3 DEF ApplyInsecure, OneAtATimeInv, PendingUp, Up
      <4> QED
        BY <2>1, <3>2, <3>3, <4>1 DEF ApplyInsecure, BootIDTells, Down, Disturbed
    <3>4. CASE ApplyAtOnce(n)
      BY <2>1, <3>2, <3>4 DEF ApplyAtOnce, BootIDTells, Down, Disturbed
    <3>5. CASE ApplyWithReboot(n)
      BY <2>3, <3>2, <3>5 DEF Apply, ApplyWithReboot, BootIDTells, OneAtATimeInv
    <3> QED
      BY <2>3, <3>2, <3>3, <3>4, <3>5 DEF Apply
  <2>4. CASE Upgrade(n)
    BY <1>1, <2>2, <2>4 DEF Upgrade, DownAwaited, BootIDTells, Current
  <2>5. CASE Reset(n)
    <3>1. Down' = {}
      BY <2>2, <2>5 DEF Reset, Down, Disturbed, OneAtATimeInv, TypeOK
    <3> QED
      BY <2>5, <3>1 DEF Reset, FinishNode, DownAwaited, BootIDTells
  <2> QED
    BY <1>2, <2>3, <2>4, <2>5
<1>3. CASE UpgradeReturns(n) /\ ~Stop
  <2>1. /\ pc = "upgrading" /\ pc' = "recover" /\ todo' = todo
        /\ n \notin pending /\ pending' = pending /\ asked' = asked /\ stage' = stage
    BY <1>3 DEF UpgradeReturns, GoTo, machineVars
  <2>2. DownAwaited'
    BY <2>1, DownKept DEF Down, Disturbed, OneAtATimeInv
  <2>3. \A m \in Down : m = n
    BY <1>1, <2>1, CurrentUnique DEF OneAtATimeInv, DownAwaited, Down, TypeOK
  <2> QED
    BY <2>1, <2>2, <2>3 DEF BootIDTells, Down, Disturbed
<1> QED
  BY <1>2, <1>3, StopDown DEF Command, OneAtATimeInv

LEMMA BeforeDown ==
  ASSUME OneAtATimeInv, NEW n \in Nodes, BeforeCommand(n), ~Stop
  PROVE  DownAwaited' /\ BootIDTells'
<1>1. Down = {}
  BY NoneDown DEF BeforeCommand, ReadStatus, AwaitReady, ReadBootID, Guard, OneAtATimeInv
<1>2. UNCHANGED <<stage, pending, asked, op>>
  BY DEF BeforeCommand, ReadStatus, AwaitReady, ReadBootID, Guard, GoTo, machineVars
<1>3. DownAwaited'
  BY <1>1, <1>2, DownKept DEF OneAtATimeInv, Down, Disturbed
<1>4. pc' \in {"wait", "exec", "bootid", "guard"}
  BY DEF BeforeCommand, ReadStatus, AwaitReady, ReadBootID, Guard, GoTo, OneAtATimeInv, TypeOK, Commands
<1>5. (pc' = "guard" \/ (pc' = "exec" /\ mode' # "insecure")) /\ op' = "apply-config" =>
        boot' = "same"
  <2>1. CASE ReadStatus(n)
    BY <2>1 DEF ReadStatus, GoTo
  <2>2. CASE AwaitReady(n)
    BY <1>2, <2>2 DEF AwaitReady, GoTo
  <2>3. CASE ReadBootID(n)
    BY <2>3 DEF ReadBootID
  <2>4. CASE Guard(n)
    BY <1>2, <2>4 DEF Guard, OneAtATimeInv, BootIDTells
  <2> QED
    BY <2>1, <2>2, <2>3, <2>4 DEF BeforeCommand
<1> QED
  BY <1>3, <1>4, <1>5 DEF BootIDTells

LEMMA AfterDown ==
  ASSUME OneAtATimeInv, NEW n \in Nodes, AfterCommand(n), ~Stop
  PROVE  DownAwaited' /\ BootIDTells'
<1>1. UNCHANGED <<stage, pending, asked>>
  BY DEF AfterCommand, AwaitReboot, AwaitRecovery, CheckMembership, WaitExpires, machineVars, GoTo
<1>2. CASE AwaitReboot(n)
  <2>1. pc = "reboot" /\ boot = "changed" /\ pc' = "recover" /\ todo' = todo
    BY <1>2 DEF AwaitReboot, GoTo
  <2> QED
    BY <1>1, <2>1, DownKept DEF Down, Disturbed, BootIDTells, OneAtATimeInv
<1>3. CASE AwaitRecovery(n)
  <2>1. pc = "recover" /\ stage[n] = "ready" /\ pc' = "membership" /\ Current(n)
    BY <1>3 DEF AwaitRecovery, GoTo
  <2>2. \A m \in Down : m = n
    BY <2>1, CurrentUnique DEF OneAtATimeInv, DownAwaited, Down, TypeOK
  <2>3. Down = {}
    BY <2>1, <2>2 DEF OneAtATimeInv, BootIDTells, Down, Disturbed
  <2> QED
    BY <1>1, <2>1, <2>3, DownKept DEF Down, Disturbed, BootIDTells, OneAtATimeInv
<1>4. CASE CheckMembership(n)
  <2>1. pc = "membership" /\ FinishNode(n)
    BY <1>4 DEF CheckMembership
  <2>2. Down = {}
    BY <2>1, NoneDown DEF OneAtATimeInv
  <2> QED
    BY <1>1, <2>1, <2>2, DownKept DEF Down, Disturbed, BootIDTells, OneAtATimeInv, FinishNode
<1> QED
  BY <1>2, <1>3, <1>4 DEF AfterCommand, WaitExpires

LEMMA MachineDown ==
  ASSUME Calm, OneAtATimeInv, NEW n \in Nodes, Machine(n) \/ Fail(n)
  PROVE  DownAwaited' /\ BootIDTells'
<1>1. UNCHANGED <<pc, op, todo, mode, asked>>
  BY DEF Machine, GoDown, Boot, BecomeReady, JoinEtcd, Promote, Fail, toolVars
<1>2. Down' \subseteq Down /\ pending' \subseteq pending
  BY <1>1 DEF Down, Disturbed, OneAtATimeInv, TypeOK, Up,
              Machine, GoDown, Boot, BecomeReady, JoinEtcd, Promote, Fail
<1>3. DownAwaited'
  BY <1>1, <1>2, DownKept DEF OneAtATimeInv
<1>4. CASE boot' = boot
  BY <1>1, <1>2, <1>3, <1>4 DEF BootIDTells, OneAtATimeInv
<1>5. CASE boot' # boot
  <2>1. /\ stage[n] \in {"rebooting", "failed"} /\ Current(n)
        /\ boot = "same" /\ boot' = "changed" /\ NoRace
    BY <1>5 DEF Machine, GoDown, Boot, BecomeReady, JoinEtcd, Promote, Fail, toolVars
  <2>2. pc \notin {"guard", "exec"} \/ op # "apply-config"
    BY <2>1 DEF NoRace, Fault, Calm, NoRaces, NoApply, OneAtATimeInv, RunsOperation
  <2>3. n \notin pending
    BY <2>1 DEF OneAtATimeInv, PendingUp, Up
  <2>4. ASSUME pc = "reboot", NEW m \in pending \cap asked PROVE FALSE
    <3>1. m \in Down /\ m \in Nodes /\ Current(m)
      BY <2>4 DEF Down, Disturbed, OneAtATimeInv, DownAwaited, TypeOK
    <3> QED
      BY <2>1, <2>3, <3>1, CurrentUnique
  <2>5. pc \in {"reboot", "recover"} => pending' \cap asked' = {}
    BY <1>1, <1>2, <2>4 DEF OneAtATimeInv, BootIDTells
  <2> QED
    BY <1>1, <1>3, <2>1, <2>2, <2>5 DEF BootIDTells
<1> QED
  BY <1>3, <1>4, <1>5

LEMMA OneAtATimeStep ==
  ASSUME Calm, OneAtATimeInv, [Next]_vars
  PROVE  OneAtATimeInv'
<1>1. CASE UNCHANGED vars
  BY <1>1 DEF vars, machineVars, filesVars, toolVars, OneAtATimeInv, TypeOK, PendingUp, Up,
              RunsOperation, DownAwaited, BootIDTells, Down, Disturbed, Current
<1>2. CASE Next
  <2>1. TypeOK' /\ PendingUp' /\ RunsOperation'
    BY <1>2, NextType, PendingUpStep, RunsOperationStep DEF OneAtATimeInv
  <2>2. CASE Stop
    BY <2>1, <2>2, StopDown DEF OneAtATimeInv
  <2>3. ASSUME NEW command \in Operations, NEW target \in Targets, Start(command, target)
        PROVE  DownAwaited' /\ BootIDTells'
    BY <2>3 DEF Start, DownAwaited, Down, BootIDTells
  <2>4. CASE (Preflight /\ ~Stop) \/ UpgradeKubernetes
    <3>1. /\ UNCHANGED <<stage, pending, asked>>
          /\ pc \in {"preflight", "dryrun", "kube"}
          /\ pc' \in {"preflight", "dryrun", "status", "idle"}
      BY <2>4 DEF Preflight, PreflightNode, PreflightRefuses, DryRun, GoTo, UpgradeKubernetes,
                  machineVars
    <3>2. Down = {}
      BY <3>1, NoneDown DEF OneAtATimeInv
    <3> QED
      BY <2>1, <3>1, <3>2, DownKept DEF Down, Disturbed, BootIDTells, OneAtATimeInv
  <2> QED
    BY <1>2, <2>1, <2>2, <2>3, <2>4, CommandDown, BeforeDown, AfterDown, MachineDown
    DEF Next, Tool, CommandFails, NoControlPlaneAnswers, Rejected, Abandon, OneAtATimeInv
<1> QED
  BY <1>1, <1>2

LEMMA InitOneAtATime == Init => OneAtATimeInv
BY InitType DEF Init, OneAtATimeInv, PendingUp, RunsOperation, DownAwaited, Down, BootIDTells

(* Where no boot falls between a check and an apply, one run never has two  *)
(* machines down, in any fleet, with runs abandoned or not.                 *)
THEOREM OneNodeAtATimeHolds == ASSUME Calm PROVE Spec => []OneNodeAtATime
<1>1. OneAtATimeInv => OneNodeAtATime
  <2> SUFFICES ASSUME OneAtATimeInv PROVE Cardinality(Down) <= 1
    BY DEF OneNodeAtATime, Down
  <2>1. CASE Down = {}
    BY <2>1, FS_EmptySet
  <2>2. CASE Down # {}
    <3>1. PICK n : Down = {n}
      BY <2>2 DEF OneAtATimeInv, DownAwaited
    <3>2. Cardinality({n}) = 1
      BY FS_Singleton, Zenon
    <3>3. Cardinality(Down) = 1
      BY <3>1, <3>2
    <3> QED
      BY <3>3
  <2> QED
    BY <2>1, <2>2
<1>2. OneAtATimeInv /\ [Next]_vars => OneAtATimeInv'
  BY OneAtATimeStep
<1> QED
  BY <1>1, <1>2, InitOneAtATime, PTL DEF Spec

-----------------------------------------------------------------------------
(* Where no run is abandoned either, a run leaves no reboot behind it.      *)

(* Members are only lost by a reset, and only gained by machines that run.  *)
LEMMA MembersKept ==
  ASSUME TypeOK, Next, op # "reset" \/ pc # "exec"
  PROVE  Members \subseteq Members'
<1>1. CASE etcd' = etcd
  BY <1>1 DEF Members
<1>2. ASSUME NEW n \in Nodes, n \in ControlPlanes /\ (JoinEtcd(n) \/ Promote(n))
      PROVE  Members \subseteq Members'
  BY <1>2 DEF Members, JoinEtcd, Promote, TypeOK
<1> QED
  BY <1>1, <1>2
  DEF Next, Start, Tool, Preflight, PreflightNode, PreflightRefuses, DryRun,
      BeforeCommand, ReadStatus, AwaitReady, ReadBootID, Guard,
      Command, Apply, Upgrade, UpgradeReturns, Reset,
      AfterCommand, AwaitReboot, AwaitRecovery, CheckMembership, WaitExpires,
      CommandFails, UpgradeKubernetes, NoControlPlaneAnswers, Rejected, Abandon,
      Machine, GoDown, Boot, BecomeReady, Fail, Stop, GoTo, machineVars

(* Leaving a state in which nothing is to come, or within the same wait.    *)
LEMMA NoneLeftKept ==
  ASSUME NoneLeft, UNCHANGED <<stage, etcd, pending>>,
         \/ pending = {} /\ \A n \in Members : stage[n] # "rebooting"
         \/ UNCHANGED <<pc, todo, boot>>
  PROVE  NoneLeft'
BY DEF NoneLeft, Members, Current

LEMMA NothingToCome ==
  ASSUME NoneLeft, pc \notin {"upgrading", "reboot"}
  PROVE  pending = {} /\ \A n \in Members : stage[n] # "rebooting"
BY DEF NoneLeft

(* A machine that has come back, or gone down for good, is not to reboot.   *)
LEMMA CameBack ==
  ASSUME TypeOK, PendingUp, NoneLeft, GuardedIsMember, NEW n \in Nodes, Current(n),
         n \notin pending, stage[n] # "rebooting" \/ n \in ControlPlanes \ Members
  PROVE  pending = {} /\ \A m \in Members : stage[m] # "rebooting"
<1>1. \A m \in Nodes : Current(m) => m = n
  BY CurrentUnique
<1>2. pending = {}
  BY <1>1 DEF NoneLeft, TypeOK
<1>3. ASSUME NEW m \in Members, stage[m] = "rebooting" PROVE FALSE
  <2>1. pc \in {"upgrading", "reboot"} /\ Current(m) /\ m \in ControlPlanes /\ m \in Nodes
    BY <1>3, NodesAssumption DEF NoneLeft, Members
  <2> QED
    BY <1>1, <1>3, <2>1
<1> QED
  BY <1>2, <1>3

LEMMA NoneLeftCommand ==
  ASSUME OneAtATimeInv, NoneLeft, GuardedIsMember, NEW n \in Nodes, Command(n)
  PROVE  NoneLeft'
<1>1. CASE Apply(n)
  <2>1. pending = {} /\ (\A m \in Members : stage[m] # "rebooting") /\ Current(n)
    BY <1>1, NothingToCome DEF Apply
  <2>2. Members' = Members /\ UNCHANGED <<todo, boot>>
    BY <1>1 DEF Members, Apply
  <2>3. CASE ApplyInsecure(n)
    <3>1. n \notin Members
      BY <2>3 DEF ApplyInsecure, NoneLeft
    <3> QED
      BY <2>1, <2>2, <2>3, <3>1, NodesAssumption
      DEF NoneLeft, ApplyInsecure, OneAtATimeInv, TypeOK, Members
  <2>4. CASE ApplyAtOnce(n)
    BY <2>1, <2>2, <2>4 DEF NoneLeft, ApplyAtOnce
  <2>5. CASE ApplyWithReboot(n)
    <3>1. boot = "same"
      BY <1>1, <2>5 DEF Apply, ApplyWithReboot, OneAtATimeInv, BootIDTells
    <3> QED
      BY <2>1, <2>2, <2>5, <3>1 DEF NoneLeft, ApplyWithReboot, Current
  <2> QED
    BY <1>1, <2>3, <2>4, <2>5 DEF Apply
<1>2. CASE Upgrade(n)
  <2>1. pending = {} /\ (\A m \in Members : stage[m] # "rebooting") /\ Current(n)
    BY <1>2, NothingToCome DEF Upgrade
  <2> QED
    BY <1>2, <2>1 DEF NoneLeft, Upgrade, Members, Current
<1>3. CASE UpgradeReturns(n)
  <2>1. Current(n) /\ n \notin pending /\ stage[n] # "rebooting"
    BY <1>3 DEF UpgradeReturns, Up
  <2> QED
    BY <1>3, <2>1, CameBack, NoneLeftKept
    DEF UpgradeReturns, GoTo, Stop, machineVars, OneAtATimeInv
<1>4. CASE Reset(n)
  <2>1. pending = {} /\ (\A m \in Members : stage[m] # "rebooting")
    BY <1>4, NothingToCome DEF Reset
  <2>2. \A m \in Members' : m \in Members /\ m # n
    BY <1>4 DEF Reset, Members
  <2>3. \A m \in Members' : stage'[m] = stage[m]
    BY <1>4, <2>2, NodesAssumption DEF Reset, OneAtATimeInv, TypeOK, Members
  <2> QED
    BY <1>4, <2>1, <2>2, <2>3 DEF NoneLeft, Reset
<1> QED
  BY <1>1, <1>2, <1>3, <1>4 DEF Command

LEMMA NoneLeftMachine ==
  ASSUME OneAtATimeInv, NoneLeft, NEW n \in Nodes, Machine(n) \/ Fail(n)
  PROVE  NoneLeft'
<1>1. UNCHANGED <<pc, todo>>
  BY DEF Machine, GoDown, Boot, BecomeReady, JoinEtcd, Promote, Fail, toolVars
<1>2. CASE GoDown(n)
  BY <1>1, <1>2, NodesAssumption
  DEF GoDown, NoneLeft, Members, Current, OneAtATimeInv, TypeOK, toolVars, Up
<1>3. CASE Boot(n)
  <2>1. n \notin pending
    BY <1>3 DEF Boot, OneAtATimeInv, PendingUp, Up
  <2>2. boot' # boot => pending = {}
    <3>1. SUFFICES ASSUME Current(n), NEW m \in pending PROVE FALSE
      BY <1>3 DEF Boot
    <3>2. Current(m) /\ m \in Nodes
      BY DEF NoneLeft, OneAtATimeInv, TypeOK
    <3> QED
      BY <2>1, <3>1, <3>2, CurrentUnique
  <2>3. UNCHANGED <<etcd, pending>> /\ stage' = [stage EXCEPT ![n] = "running"]
    BY <1>3 DEF Boot
  <2> QED
    BY <1>1, <2>2, <2>3, NodesAssumption DEF NoneLeft, Members, Current, OneAtATimeInv, TypeOK
<1>4. CASE BecomeReady(n)
  BY <1>1, <1>4, NodesAssumption
  DEF BecomeReady, NoneLeft, Members, Current, OneAtATimeInv, TypeOK, toolVars
<1>5. CASE n \in ControlPlanes /\ (JoinEtcd(n) \/ Promote(n))
  <2>1. Up(n)
    BY <1>5 DEF JoinEtcd, Promote, Up
  <2>2. \A m \in Members' : m \in Members \/ m = n
    BY <1>5 DEF JoinEtcd, Promote, Members, OneAtATimeInv, TypeOK
  <2> QED
    BY <1>1, <1>5, <2>1, <2>2 DEF JoinEtcd, Promote, NoneLeft, Current, toolVars, Up
<1>6. CASE Fail(n)
  BY <1>1, <1>6, NodesAssumption
  DEF Fail, NoneLeft, Members, Current, OneAtATimeInv, TypeOK, toolVars
<1> QED
  BY <1>2, <1>3, <1>4, <1>5, <1>6 DEF Machine

LEMMA NoneLeftStep ==
  ASSUME NoAbandoning, OneAtATimeInv, NoneLeft, GuardedIsMember, Next
  PROVE  NoneLeft'
<1>1. ASSUME NEW n \in Nodes, WaitExpires(n)
      PROVE  NoneLeft'
  <2>1. Current(n) /\ (stage[n] = "failed" \/ n \in ControlPlanes \ Members)
    BY <1>1 DEF WaitExpires
  <2>2. n \notin pending
    BY <2>1 DEF OneAtATimeInv, PendingUp, Up, NoneLeft, GuardedIsMember, Guarded
  <2> QED
    BY <1>1, <2>1, <2>2, CameBack, NoneLeftKept
    DEF WaitExpires, Stop, machineVars, OneAtATimeInv
<1>2. ASSUME NEW n \in Nodes, AwaitReboot(n) \/ AwaitRecovery(n) \/ CheckMembership(n)
      PROVE  NoneLeft'
  <2>1. Current(n) /\ UNCHANGED <<stage, etcd, pending>>
    BY <1>2 DEF AwaitReboot, AwaitRecovery, CheckMembership, machineVars, Stop
  <2>2. pc = "membership" \/ (n \notin pending /\ stage[n] # "rebooting")
    BY <1>2 DEF AwaitReboot, AwaitRecovery, CheckMembership, Up, NoneLeft
  <2> QED
    BY <2>1, <2>2, CameBack, NothingToCome, NoneLeftKept DEF OneAtATimeInv
<1>3. CASE \/ \E command \in Operations, target \in Targets : Start(command, target)
           \/ Preflight \/ CommandFails \/ UpgradeKubernetes \/ NoControlPlaneAnswers \/ Rejected
           \/ \E n \in Nodes : BeforeCommand(n)
  <2>1. pc \notin {"upgrading", "reboot"} /\ UNCHANGED <<stage, etcd, pending>>
    BY <1>3
    DEF Start, Preflight, PreflightNode, PreflightRefuses, DryRun, CommandFails, UpgradeKubernetes,
        NoControlPlaneAnswers, Rejected, BeforeCommand, ReadStatus, AwaitReady, ReadBootID, Guard,
        Stop, GoTo, machineVars
  <2> QED
    BY <2>1, NothingToCome, NoneLeftKept
<1> QED
  BY <1>1, <1>2, <1>3, NoneLeftCommand, NoneLeftMachine
  DEF Next, Tool, AfterCommand, Abandon, Fault, NoAbandoning

-----------------------------------------------------------------------------
(* What the quorum guard found.                                             *)

LEMMA RebootAllowedStep ==
  ASSUME TypeOK, RebootAllowed, Next
  PROVE  RebootAllowed'
<1>1. ASSUME NEW n \in Nodes, BeforeCommand(n)
      PROVE  RebootAllowed'
  <2>1. op \in Commands
    BY DEF TypeOK
  <2>2. CASE ReadStatus(n)
    BY <2>2 DEF RebootAllowed, ReadStatus, GoTo, Stop
  <2>3. CASE AwaitReady(n)
    BY <2>1, <2>3 DEF RebootAllowed, AwaitReady, GoTo, Stop, Commands
  <2>4. CASE ReadBootID(n)
    BY <2>4 DEF RebootAllowed, ReadBootID, GoTo, Stop
  <2>5. CASE Guard(n)
    BY <2>5 DEF RebootAllowed, Guard, Stop
  <2> QED
    BY <1>1, <2>2, <2>3, <2>4, <2>5 DEF BeforeCommand
<1>2. ASSUME NEW n \in Nodes, Machine(n) \/ Fail(n)
      PROVE  RebootAllowed'
  BY <1>2 DEF RebootAllowed, Machine, GoDown, Boot, BecomeReady, JoinEtcd, Promote, Fail, toolVars
<1>3. ASSUME NEW n \in Nodes, Command(n) \/ AfterCommand(n)
      PROVE  RebootAllowed'
  BY <1>3 DEF RebootAllowed, Command, Apply, ApplyInsecure, ApplyAtOnce, ApplyWithReboot, Upgrade,
              UpgradeReturns, Reset, AfterCommand, AwaitReboot, AwaitRecovery, CheckMembership,
              WaitExpires, FinishNode, Stop, GoTo
<1>4. CASE \/ \E command \in Operations, target \in Targets : Start(command, target)
           \/ Preflight \/ CommandFails \/ UpgradeKubernetes \/ NoControlPlaneAnswers
           \/ Rejected \/ Abandon
  BY <1>4
  DEF RebootAllowed, Start, Preflight, PreflightNode, PreflightRefuses, DryRun,
      CommandFails, UpgradeKubernetes, NoControlPlaneAnswers, Rejected, Abandon, Stop, GoTo
<1> QED
  BY <1>1, <1>2, <1>3, <1>4 DEF Next, Tool

(* A step reaches, or stays in, the guarded part of a node's turn from the  *)
(* guard, by the command it allows, or beside it.                           *)
LEMMA GuardedSteps ==
  ASSUME TypeOK, RebootAllowed, Next, Guarded'
  PROVE  \/ \E n \in Nodes : Guard(n) /\ ~Stop
         \/ /\ Guarded /\ UNCHANGED <<todo, mode, hosts>>
            /\ ~(op = "reset" /\ pc = "exec")
<1>1. ASSUME NEW n \in Nodes, BeforeCommand(n), ~Stop, ~Guard(n)
      PROVE  FALSE
  <2>1. op \in Commands
    BY DEF TypeOK
  <2>2. CASE ReadStatus(n)
    BY <1>1, <2>2 DEF Guarded, ReadStatus, GoTo
  <2>3. CASE AwaitReady(n)
    BY <1>1, <2>1, <2>3 DEF Guarded, AwaitReady, GoTo, Commands
  <2>4. CASE ReadBootID(n)
    BY <1>1, <2>4 DEF Guarded, ReadBootID, GoTo
  <2> QED
    BY <1>1, <2>2, <2>3, <2>4 DEF BeforeCommand
<1>2. ASSUME NEW n \in Nodes, Machine(n) \/ Fail(n)
      PROVE  Guarded /\ UNCHANGED <<todo, mode, hosts>> /\ ~(op = "reset" /\ pc = "exec")
  BY <1>2 DEF Guarded, Machine, GoDown, Boot, BecomeReady, JoinEtcd, Promote, Fail, toolVars
<1>3. ASSUME NEW n \in Nodes, Command(n), ~Stop
      PROVE  Guarded /\ UNCHANGED <<todo, mode, hosts>> /\ ~(op = "reset" /\ pc = "exec")
  BY <1>3 DEF Guarded, RebootAllowed, Command, Apply, ApplyInsecure, ApplyAtOnce, ApplyWithReboot,
              Upgrade, UpgradeReturns, Reset, FinishNode, GoTo
<1>4. CASE Stop
  BY <1>4 DEF Guarded, Stop
<1>5. CASE /\ ~Stop
           /\ ~ \E n \in Nodes : BeforeCommand(n) \/ Machine(n) \/ Fail(n) \/ Command(n)
  BY <1>5
  DEF Guarded, Next, Tool, Start, Preflight, PreflightNode, PreflightRefuses, DryRun,
      AfterCommand, AwaitReboot, AwaitRecovery, CheckMembership, WaitExpires, FinishNode,
      CommandFails, UpgradeKubernetes, NoControlPlaneAnswers, Rejected, Abandon, GoTo
<1> QED
  BY <1>1, <1>2, <1>3, <1>4, <1>5 DEF BeforeCommand

LEMMA GuardedIsMemberStep ==
  ASSUME TypeOK, RebootAllowed, GuardedIsMember, Next
  PROVE  GuardedIsMember'
<1> SUFFICES ASSUME Guarded', NEW m \in ControlPlanes, Current(m)' PROVE m \in Members'
  BY DEF GuardedIsMember
<1>1. ASSUME NEW n \in Nodes, Guard(n), ~Stop
      PROVE  m \in Members'
  <2>1. Current(n) /\ MembershipHealthy(n) /\ UNCHANGED <<todo, etcd>>
    BY <1>1 DEF Guard, machineVars
  <2>2. m = n
    BY <2>1, CurrentUnique, NodesAssumption DEF Current
  <2> QED
    BY <2>1, <2>2 DEF MembershipHealthy, Members
<1>2. CASE Guarded /\ UNCHANGED todo /\ ~(op = "reset" /\ pc = "exec")
  BY <1>2, MembersKept DEF GuardedIsMember, Current
<1> QED
  BY <1>1, <1>2, GuardedSteps

LEMMA VotersFinite ==
  /\ IsFiniteSet(Voters) /\ Cardinality(Voters) \in Nat
  /\ IsFiniteSet(Members) /\ Cardinality(Members) \in Nat
<1>1. IsFiniteSet(ControlPlanes)
  BY NodesAssumption, FS_Subset
<1> QED
  BY <1>1, FS_Subset, FS_CardinalityType DEF Voters, Members

(* Voters are only lost by a reset.                                         *)
LEMMA VotersKept ==
  ASSUME TypeOK, Next, op # "reset" \/ pc # "exec"
  PROVE  Voters \subseteq Voters'
<1>1. CASE etcd' = etcd
  BY <1>1 DEF Voters
<1>2. ASSUME NEW n \in Nodes, n \in ControlPlanes /\ (JoinEtcd(n) \/ Promote(n))
      PROVE  Voters \subseteq Voters'
  BY <1>2 DEF Voters, JoinEtcd, Promote, TypeOK
<1> QED
  BY <1>1, <1>2
  DEF Next, Start, Tool, Preflight, PreflightNode, PreflightRefuses, DryRun,
      BeforeCommand, ReadStatus, AwaitReady, ReadBootID, Guard,
      Command, Apply, Upgrade, UpgradeReturns, Reset,
      AfterCommand, AwaitReboot, AwaitRecovery, CheckMembership, WaitExpires,
      CommandFails, UpgradeKubernetes, NoControlPlaneAnswers, Rejected, Abandon,
      Machine, GoDown, Boot, BecomeReady, Fail, Stop, GoTo, machineVars

(* The arithmetic of quorum.go: a strict majority remains after the loss of *)
(* one voter exactly where there are three or more.                         *)
LEMMA MajorityRemains ==
  ASSUME NEW n \in ControlPlanes, MembershipHealthy(n), CanReboot(n)
  PROVE  Cardinality(Members) = 1 \/ Cardinality(Voters) >= 3
<1>1. Members = Voters
  BY DEF MembershipHealthy, Members, Voters
<1>2. \A v \in Nat : v - 1 >= v \div 2 + 1 => v >= 3
  OBVIOUS
<1> QED
  BY <1>1, <1>2, VotersFinite DEF CanReboot

LEMMA EnoughVotersStep ==
  ASSUME TypeOK, RebootAllowed, EnoughVoters, Next
  PROVE  EnoughVoters'
<1> SUFFICES ASSUME Guarded', mode' = "auto", NEW m \in ControlPlanes, Current(m)'
             PROVE  Cardinality(Voters)' >= 3 \/ Cardinality(hosts)' = 1
  BY DEF EnoughVoters
<1>1. ASSUME NEW n \in Nodes, Guard(n), ~Stop
      PROVE  Cardinality(Voters)' >= 3 \/ Cardinality(hosts)' = 1
  <2>1. Current(n) /\ MembershipHealthy(n) /\ UNCHANGED <<todo, etcd>>
    BY <1>1 DEF Guard, machineVars
  <2>2. m = n
    BY <2>1, CurrentUnique, NodesAssumption DEF Current
  <2>3. CanReboot(n) /\ hosts' = Members
    BY <1>1, <2>2 DEF Guard
  <2>4. Voters' = Voters
    BY <2>1 DEF Voters
  <2> QED
    BY <2>1, <2>2, <2>3, <2>4, MajorityRemains
<1>2. CASE Guarded /\ UNCHANGED <<todo, mode, hosts>> /\ ~(op = "reset" /\ pc = "exec")
  <2>1. Cardinality(Voters) >= 3 \/ Cardinality(hosts) = 1
    BY <1>2 DEF EnoughVoters, Current
  <2>2. Voters \subseteq Voters'
    BY <1>2, VotersKept
  <2>3. IsFiniteSet(Voters')
    <3>1. IsFiniteSet(ControlPlanes)
      BY NodesAssumption, FS_Subset
    <3> QED
      BY <3>1, FS_Subset DEF Voters
  <2>4. Cardinality(Voters) <= Cardinality(Voters') /\ Cardinality(Voters') \in Nat
    BY <2>2, <2>3, FS_Subset, FS_CardinalityType
  <2> QED
    BY <1>2, <2>1, <2>4, VotersFinite
<1> QED
  BY <1>1, <1>2, GuardedSteps

-----------------------------------------------------------------------------
(* The configuration of the current node, and of those before it.           *)

LEMMA ConfigStep ==
  ASSUME OneAtATimeInv, NoneLeft, ConfigOnItsWay, Next
  PROVE  ConfigOnItsWay'
<1> SUFFICES ASSUME pc' \in {"reboot", "recover", "membership"}, NEW m \in Nodes, Current(m)'
             PROVE  /\ pc' = "reboot" => config'[m] = IF boot' = "changed" THEN "new" ELSE "staged"
                    /\ pc' = "recover" => config'[m] = "new" \/ (config'[m] = "staged" /\ ~Up(m)')
                    /\ pc' = "membership" => config'[m] = "new" /\ stage'[m] # "rebooting"
  BY DEF ConfigOnItsWay
<1>1. TypeOK
  BY DEF OneAtATimeInv
<1>2. ASSUME NEW n \in Nodes, Apply(n)
      PROVE  /\ pc' = "reboot" => config'[m] = IF boot' = "changed" THEN "new" ELSE "staged"
             /\ pc' = "recover" => config'[m] = "new" \/ (config'[m] = "staged" /\ ~Up(m)')
             /\ pc' = "membership" => config'[m] = "new" /\ stage'[m] # "rebooting"
  <2>1. m = n /\ pending = {}
    BY <1>2, CurrentUnique, NothingToCome DEF Apply, Current
  <2>2. CASE ApplyInsecure(n)
    BY <1>1, <2>1, <2>2 DEF ApplyInsecure, Up, TypeOK
  <2>3. CASE ApplyAtOnce(n)
    BY <1>1, <2>1, <2>3 DEF ApplyAtOnce, TypeOK
  <2>4. CASE ApplyWithReboot(n)
    <3>1. boot' = "same"
      BY <1>2, <2>4 DEF Apply, ApplyWithReboot, OneAtATimeInv, BootIDTells
    <3> QED
      BY <1>1, <2>1, <2>4, <3>1 DEF ApplyWithReboot, TypeOK
  <2> QED
    BY <1>2, <2>2, <2>3, <2>4 DEF Apply
<1>3. ASSUME NEW n \in Nodes, UpgradeReturns(n) \/ AwaitReboot(n) \/ AwaitRecovery(n), ~Stop
      PROVE  /\ pc' # "reboot" /\ config'[m] = "new" /\ stage'[m] # "rebooting"
  <2>1. Current(n) /\ todo' = todo /\ UNCHANGED <<config, stage>> /\ Up(n)
    BY <1>3 DEF UpgradeReturns, AwaitReboot, AwaitRecovery, GoTo, machineVars, Up
  <2>2. m = n
    BY <2>1, CurrentUnique DEF Current
  <2> QED
    BY <1>3, <2>1, <2>2 DEF UpgradeReturns, AwaitReboot, AwaitRecovery, GoTo, ConfigOnItsWay, Up
<1>4. ASSUME NEW n \in Nodes, Machine(n) \/ Fail(n)
      PROVE  /\ pc' = "reboot" => config'[m] = IF boot' = "changed" THEN "new" ELSE "staged"
             /\ pc' = "recover" => config'[m] = "new" \/ (config'[m] = "staged" /\ ~Up(m)')
             /\ pc' = "membership" => config'[m] = "new" /\ stage'[m] # "rebooting"
  <2>1. UNCHANGED <<pc, todo>>
    BY <1>4 DEF Machine, GoDown, Boot, BecomeReady, JoinEtcd, Promote, Fail, toolVars
  <2>2. Current(m)
    BY <2>1 DEF Current
  <2>3. CASE GoDown(n)
    <3>1. Current(n) /\ pc \in {"upgrading", "reboot"} /\ pending # {}
      BY <2>3 DEF GoDown, NoneLeft
    <3>2. m = n /\ pc = "reboot" /\ boot # "changed"
      BY <2>1, <2>2, <3>1, CurrentUnique DEF NoneLeft
    <3> QED
      BY <1>1, <2>1, <2>3, <3>2 DEF GoDown, TypeOK, toolVars
  <2>4. CASE Boot(n)
    <3>1. CASE n = m
      <4>1. pc = "reboot" => boot \in {"same", "changed"}
        BY DEF OneAtATimeInv, BootIDTells
      <4>2. /\ pc = "reboot" => config[m] = IF boot = "changed" THEN "new" ELSE "staged"
            /\ pc = "recover" => config[m] = "new" \/ (config[m] = "staged" /\ ~Up(m))
            /\ pc = "membership" => config[m] = "new" /\ stage[m] # "rebooting"
        BY <2>2 DEF ConfigOnItsWay
      <4>3. /\ config'[m] = IF config[m] = "staged" THEN "new" ELSE config[m]
            /\ stage'[m] = "running"
        BY <1>1, <2>4, <3>1 DEF Boot, TypeOK
      <4>4. boot' = IF boot = "same" THEN "changed" ELSE boot
        BY <2>2, <2>4, <3>1 DEF Boot
      <4> QED
        BY <2>1, <4>1, <4>2, <4>3, <4>4
    <3>2. CASE n # m
      <4>1. ~Current(n)
        BY <2>2, <3>2, CurrentUnique
      <4>2. boot' = boot /\ config'[m] = config[m] /\ stage'[m] = stage[m]
        BY <1>1, <2>4, <3>2, <4>1 DEF Boot, TypeOK
      <4> QED
        BY <2>1, <2>2, <4>2 DEF ConfigOnItsWay, Up
    <3> QED
      BY <3>1, <3>2
  <2>5. CASE BecomeReady(n) \/ (n \in ControlPlanes /\ (JoinEtcd(n) \/ Promote(n))) \/ Fail(n)
    <3>1. /\ UNCHANGED <<config, boot>>
          /\ (Up(m)' => Up(m)) /\ (stage'[m] = "rebooting" => stage[m] = "rebooting")
      BY <1>1, <2>5 DEF BecomeReady, JoinEtcd, Promote, Fail, toolVars, Up, TypeOK
    <3> QED
      BY <2>1, <2>2, <3>1 DEF ConfigOnItsWay
  <2> QED
    BY <1>4, <2>3, <2>4, <2>5 DEF Machine
<1>5. ~Stop
  BY DEF Stop
<1>6. ~ \E n \in Nodes : BeforeCommand(n) \/ Upgrade(n) \/ Reset(n) \/ CheckMembership(n) \/ WaitExpires(n)
  BY <1>1, <1>5
  DEF BeforeCommand, ReadStatus, AwaitReady, ReadBootID, Guard, Upgrade, Reset, CheckMembership,
      WaitExpires, FinishNode, GoTo, TypeOK, Commands
<1>7. ~(\/ Preflight \/ CommandFails \/ UpgradeKubernetes \/ NoControlPlaneAnswers \/ Rejected \/ Abandon
        \/ \E command \in Operations, target \in Targets : Start(command, target))
  BY <1>5
  DEF Start, Preflight, PreflightNode, PreflightRefuses, DryRun, CommandFails, UpgradeKubernetes,
      NoControlPlaneAnswers, Rejected, Abandon, GoTo
<1> QED
  BY <1>2, <1>3, <1>4, <1>5, <1>6, <1>7 DEF Next, Tool, Command, AfterCommand

LEMMA EndsDoneStep ==
  ASSUME TypeOK, EndsDone, Next
  PROVE  EndsDone'
<1>1. CASE Stop
  BY <1>1 DEF EndsDone, Stop
<1>2. CASE \/ \E command \in Operations, target \in Targets : Start(command, target)
           \/ (Preflight /\ ~Stop) \/ UpgradeKubernetes
  BY <1>2 DEF EndsDone, Start, Preflight, PreflightNode, PreflightRefuses, DryRun, GoTo, UpgradeKubernetes
<1>3. ASSUME NEW n \in Nodes, BeforeCommand(n), ~Stop
      PROVE  EndsDone'
  <2>1. pc' \in {"wait", "exec", "bootid", "guard"}
    BY <1>3 DEF BeforeCommand, ReadStatus, AwaitReady, ReadBootID, Guard, GoTo, TypeOK, Commands
  <2> QED
    BY <1>3, <2>1 DEF EndsDone, BeforeCommand, ReadStatus, AwaitReady, ReadBootID, Guard, GoTo
<1>4. ASSUME NEW n \in Nodes, FinishNode(n), pc # "idle"
      PROVE  EndsDone'
  BY <1>4 DEF EndsDone, FinishNode
<1>5. ASSUME NEW n \in Nodes, Command(n) \/ AfterCommand(n), ~Stop
      PROVE  EndsDone'
  BY <1>4, <1>5
  DEF EndsDone, Command, Apply, ApplyInsecure, ApplyAtOnce, ApplyWithReboot, Upgrade, UpgradeReturns,
      Reset, AfterCommand, AwaitReboot, AwaitRecovery, CheckMembership, WaitExpires, GoTo
<1>6. ASSUME NEW n \in Nodes, Machine(n) \/ Fail(n)
      PROVE  EndsDone'
  BY <1>6 DEF EndsDone, Machine, GoDown, Boot, BecomeReady, JoinEtcd, Promote, Fail, toolVars
<1> QED
  BY <1>1, <1>2, <1>3, <1>5, <1>6
  DEF Next, Tool, CommandFails, NoControlPlaneAnswers, Rejected, Abandon

(* Nodes that are done stay done.                                           *)
LEMMA FinishedKept ==
  ASSUME FinishedAsDesired,
         op' = op, sel' = sel, todo' = todo,
         op # "reset" /\ pc' \notin {"preflight", "dryrun"} /\ (pc' = "idle" => outcome' = "ok") =>
           /\ pc \notin {"preflight", "dryrun"} /\ (pc = "idle" => outcome = "ok")
           /\ \A m \in sel \ todo :
                /\ config[m] = "new" => config'[m] = "new"
                /\ m \in Disturbed' => m \in Disturbed
  PROVE  FinishedAsDesired'
BY DEF FinishedAsDesired

LEMMA FinishedMachine ==
  ASSUME OneAtATimeInv, NoneLeft, FinishedAsDesired, NEW n \in Nodes, Machine(n) \/ Fail(n)
  PROVE  FinishedAsDesired'
<1>1. UNCHANGED <<op, sel, todo, pc, outcome>> /\ TypeOK
  BY DEF Machine, GoDown, Boot, BecomeReady, JoinEtcd, Promote, Fail, toolVars, OneAtATimeInv
<1>2. ASSUME NEW m \in sel \ todo
      PROVE  /\ config[m] = "new" => config'[m] = "new"
             /\ m \in Disturbed' => m \in Disturbed
  <2>1. m \in Nodes /\ m \notin pending
    BY <1>1 DEF TypeOK, NoneLeft, Current
  <2>2. CASE GoDown(n)
    <3>1. m # n
      BY <2>1, <2>2 DEF GoDown
    <3> QED
      BY <1>1, <2>1, <2>2, <3>1 DEF GoDown, TypeOK, Disturbed
  <2>3. CASE Boot(n) \/ BecomeReady(n) \/ (n \in ControlPlanes /\ (JoinEtcd(n) \/ Promote(n))) \/ Fail(n)
    BY <1>1, <2>1, <2>3 DEF Boot, BecomeReady, JoinEtcd, Promote, Fail, TypeOK, Disturbed
  <2> QED
    BY <2>2, <2>3 DEF Machine
<1> QED
  BY <1>1, <1>2, FinishedKept

LEMMA FinishedStep ==
  ASSUME OneAtATimeInv, NoneLeft, ConfigOnItsWay, FinishedAsDesired, EndsDone, Next
  PROVE  FinishedAsDesired'
<1>0. TypeOK
  BY DEF OneAtATimeInv
<1>1. CASE Stop
  BY <1>1 DEF FinishedAsDesired, Stop
<1>2. ASSUME NEW command \in Operations, NEW target \in Targets, Start(command, target)
      PROVE  FinishedAsDesired'
  BY <1>2 DEF FinishedAsDesired, Start
<1>3. CASE Preflight /\ ~Stop
  <2>1. pc' \in {"preflight", "dryrun"} \/ sel' \ todo' = {}
    <3>1. CASE DryRun
      BY <1>3, <3>1 DEF DryRun, GoTo, EndsDone
    <3> QED
      BY <1>3, <3>1 DEF Preflight, PreflightNode, PreflightRefuses
  <2> QED
    BY <2>1 DEF FinishedAsDesired
<1>4. CASE UpgradeKubernetes
  BY <1>4, FinishedKept DEF UpgradeKubernetes, Disturbed
<1>5. ASSUME NEW n \in Nodes, BeforeCommand(n), ~Stop
      PROVE  FinishedAsDesired'
  <2>1. /\ UNCHANGED <<op, sel, todo, config, pending, stage>>
        /\ pc \in {"status", "wait", "bootid", "guard"}
    BY <1>5 DEF BeforeCommand, ReadStatus, AwaitReady, ReadBootID, Guard, GoTo, machineVars
  <2> QED
    BY <2>1, FinishedKept DEF Disturbed
<1>6. ASSUME NEW n \in Nodes, Apply(n) \/ Upgrade(n)
      PROVE  FinishedAsDesired'
  <2>1. UNCHANGED <<op, sel, todo>> /\ pc = "exec" /\ n \in todo
    BY <1>6 DEF Apply, Upgrade, Current
  <2>2. ASSUME NEW m \in sel \ todo
        PROVE  /\ config[m] = "new" => config'[m] = "new"
               /\ m \in Disturbed' => m \in Disturbed
    BY <1>0, <1>6, <2>1
    DEF Apply, ApplyInsecure, ApplyAtOnce, ApplyWithReboot, Upgrade, TypeOK, Disturbed
  <2> QED
    BY <2>1, <2>2, FinishedKept
<1>7. ASSUME NEW n \in Nodes, UpgradeReturns(n) \/ AwaitReboot(n) \/ AwaitRecovery(n), ~Stop
      PROVE  FinishedAsDesired'
  <2>1. /\ UNCHANGED <<op, sel, todo, config, pending, stage>>
        /\ pc \in {"upgrading", "reboot", "recover"}
    BY <1>7 DEF UpgradeReturns, AwaitReboot, AwaitRecovery, GoTo, machineVars
  <2> QED
    BY <2>1, FinishedKept DEF Disturbed
<1>8. ASSUME NEW n \in Nodes, Reset(n)
      PROVE  FinishedAsDesired'
  BY <1>8 DEF Reset, FinishNode, FinishedAsDesired
<1>9. ASSUME NEW n \in Nodes, CheckMembership(n), ~Stop
      PROVE  FinishedAsDesired'
  <2>1. /\ pc = "membership" /\ Current(n) /\ FinishNode(n)
        /\ UNCHANGED <<stage, config, pending>>
    BY <1>9 DEF CheckMembership, machineVars
  <2>2. config[n] = "new" /\ (op # "reset" => \A m \in sel \ todo : config[m] = "new" /\ m \notin Disturbed)
    BY <2>1 DEF ConfigOnItsWay, FinishedAsDesired
  <2>3. n \notin Disturbed
    BY <2>1 DEF NoneLeft, ConfigOnItsWay, Disturbed
  <2> QED
    BY <2>1, <2>2, <2>3 DEF FinishNode, FinishedAsDesired, Disturbed
<1> QED
  BY <1>1, <1>2, <1>3, <1>4, <1>5, <1>6, <1>7, <1>8, <1>9, FinishedMachine
  DEF Next, Tool, Command, AfterCommand, WaitExpires, CommandFails, NoControlPlaneAnswers, Rejected, Abandon

LEMMA SettledStep ==
  ASSUME Calm, NoAbandoning, SettledInv, [Next]_vars
  PROVE  SettledInv'
<1>1. OneAtATimeInv'
  BY OneAtATimeStep DEF SettledInv
<1>2. CASE UNCHANGED vars
  <2>1. /\ UNCHANGED <<stage, etcd, config, pending, pc, op, sel, todo, boot, mode, hosts, outcome>>
        /\ Members' = Members /\ Voters' = Voters /\ Disturbed' = Disturbed
    BY <1>2 DEF vars, machineVars, toolVars, Members, Voters, Disturbed
  <2>2. NoneLeft' /\ RebootAllowed' /\ GuardedIsMember' /\ EndsDone'
    BY <2>1 DEF SettledInv, NoneLeft, RebootAllowed, GuardedIsMember, Guarded, EndsDone, Current
  <2>3. EnoughVoters' /\ FinishedAsDesired'
    BY <2>1 DEF SettledInv, EnoughVoters, Guarded, FinishedAsDesired, Current
  <2>4. ConfigOnItsWay'
    BY <2>1 DEF SettledInv, ConfigOnItsWay, Current, Up
  <2> QED
    BY <1>1, <2>2, <2>3, <2>4 DEF SettledInv
<1>3. CASE Next
  BY <1>1, <1>3, NoneLeftStep, RebootAllowedStep, GuardedIsMemberStep, EnoughVotersStep,
     ConfigStep, FinishedStep, EndsDoneStep DEF SettledInv, OneAtATimeInv
<1> QED
  BY <1>2, <1>3

LEMMA InitSettled == Init => SettledInv
<1> SUFFICES ASSUME Init PROVE SettledInv
  OBVIOUS
<1>1. PICK old \in SUBSET Nodes :
         /\ stage = [n \in Nodes |-> IF n \in old THEN "ready" ELSE "maintenance"]
         /\ etcd = [n \in ControlPlanes |-> IF n \in old THEN "voter" ELSE "out"]
  BY DEF Init
<1>2. \A n \in Members : stage[n] = "ready"
  BY <1>1, NodesAssumption DEF Members
<1>3. /\ pc = "idle" /\ pending = {} /\ todo = {} /\ outcome = "none"
  BY DEF Init
<1>4. NoneLeft /\ RebootAllowed /\ GuardedIsMember /\ EnoughVoters
  BY <1>2, <1>3 DEF NoneLeft, RebootAllowed, GuardedIsMember, EnoughVoters, Guarded
<1>5. ConfigOnItsWay /\ FinishedAsDesired /\ EndsDone
  BY <1>3 DEF ConfigOnItsWay, FinishedAsDesired, EndsDone
<1> QED
  BY <1>4, <1>5, InitOneAtATime DEF SettledInv

(* The inductive invariant of runs that end on their own: it holds of every *)
(* behaviour without races of apply and abandoned runs.                     *)
THEOREM SettledInvariant == ASSUME Calm, NoAbandoning PROVE Spec => []SettledInv
<1>1. SettledInv /\ [Next]_vars => SettledInv'
  BY SettledStep
<1> QED
  BY <1>1, InitSettled, PTL DEF Spec

(* quorum.go: while only the tool takes machines down, etcd keeps a strict  *)
(* majority of its voters, however many control planes there are - except   *)
(* where there are none or one, or the guard met one only.                  *)
THEOREM QuorumKeptHolds == ASSUME Calm, NoAbandoning PROVE Spec => []QuorumKept
<1>1. SettledInv => QuorumKept
  <2> SUFFICES ASSUME SettledInv, \A n \in Voters : stage[n] # "failed",
                      ~(Cardinality(Voters) <= 1), ~(Cardinality(hosts) = 1)
               PROVE  EtcdServes
    BY DEF QuorumKept
  <2> DEFINE up == {n \in Voters : Up(n)}
  <2>1. Cardinality(Voters) \in Nat /\ Cardinality(Voters) >= 2
    BY VotersFinite
  <2>2. \A n \in Voters : n \in Members /\ n \in Nodes /\ n \in ControlPlanes
    BY NodesAssumption DEF Voters, Members
  <2>3. \A n \in Voters : Up(n) \/ stage[n] = "rebooting"
    BY <2>2 DEF SettledInv, OneAtATimeInv, TypeOK, Stages, NoneLeft, Up
  <2>4. CASE up = Voters
    BY <2>1, <2>4 DEF EtcdServes, Majority
  <2>5. CASE up # Voters
    <3>1. PICK v \in Voters : stage[v] = "rebooting"
      BY <2>3, <2>5
    <3>2. Current(v) /\ pc \in {"upgrading", "reboot"}
      BY <2>2, <3>1 DEF SettledInv, NoneLeft
    <3>3. ASSUME NEW m \in Voters, m # v PROVE Up(m)
      BY <2>2, <2>3, <3>2, <3>3, CurrentUnique DEF SettledInv, NoneLeft
    <3>4. up = Voters \ {v}
      BY <3>1, <3>3 DEF Up
    <3>5. Cardinality(up) = Cardinality(Voters) - 1
      BY <3>4, VotersFinite, FS_RemoveElement
    <3>6. mode = "auto" => Cardinality(Voters) >= 3
      BY <2>2, <3>2 DEF SettledInv, EnoughVoters, Guarded
    <3>7. mode = "auto"
      BY <3>2 DEF SettledInv, RebootAllowed
    <3> QED
      BY <2>1, <3>5, <3>6, <3>7 DEF EtcdServes, Majority
  <2> QED
    BY <2>4, <2>5
<1> QED
  BY <1>1, SettledInvariant, PTL

(* A rollout that reports success, and a Kubernetes upgrade, find every     *)
(* selected node on the desired configuration with its reboot behind it.    *)
THEOREM SuccessMeansCurrentHolds == ASSUME Calm, NoAbandoning PROVE Spec => []SuccessMeansCurrent
<1>1. SettledInv => SuccessMeansCurrent
  BY DEF SettledInv, EndsDone, FinishedAsDesired, SuccessMeansCurrent, Disturbed
<1> QED
  BY <1>1, SettledInvariant, PTL

(* A node is addressed only after every earlier node of the run came back   *)
(* with the desired configuration: the run stops at its first failure.      *)
THEOREM StopsAtFirstFailureHolds == ASSUME Calm, NoAbandoning PROVE Spec => StopsAtFirstFailure
<1>1. SettledInv /\ [Next]_vars =>
        [pc = "exec" /\ pc' # "idle" /\ op # "reset" =>
           \A m \in sel \ todo : config[m] = "new" /\ m \notin Disturbed]_vars
  BY DEF SettledInv, FinishedAsDesired
<1> QED
  BY <1>1, SettledInvariant, PTL DEF Spec, StopsAtFirstFailure
-----------------------------------------------------------------------------
(* Upgrades, whatever happens.                                              *)

(* A run of upgrade: what it has left behind and what it has just seen come *)
(* back is upgraded, and only the machine it waits for, or the last one it  *)
(* asked before it ended, is down for it.                                   *)
LeftUpgraded ==
  /\ pc \notin {"bootid", "reboot"}
  /\ pc \in {"preflight", "dryrun"} => asked = {}
  /\ pc \notin {"preflight", "dryrun"} => \A m \in sel \ todo : Upgraded(m)
  /\ pc \in {"recover", "membership"} => \A m \in todo : Current(m) => Upgraded(m)

OneDown ==
  /\ \A n \in Down : pc = "idle" \/ (pc = "upgrading" /\ Current(n))
  /\ \A n, m \in Down : n = m

UpgradeInv == op = "upgrade" => LeftUpgraded /\ OneDown

(* No machine loses its new image, or gets a reboot to come, by itself.     *)
LEMMA MachinesStayUpgraded ==
  ASSUME TypeOK, NEW n \in Nodes, Machine(n) \/ Fail(n)
  PROVE  /\ UNCHANGED <<pc, op, sel, todo, asked>>
         /\ Disturbed' \subseteq Disturbed
         /\ \A m \in Nodes : Upgraded(m) => Upgraded(m)'
<1>1. UNCHANGED <<pc, op, sel, todo, asked>>
  BY DEF Machine, GoDown, Boot, BecomeReady, JoinEtcd, Promote, Fail, toolVars
<1>2. Disturbed' \subseteq Disturbed
  BY DEF Machine, GoDown, Boot, BecomeReady, JoinEtcd, Promote, Fail, TypeOK, Disturbed
<1>3. ASSUME NEW m \in Nodes, m \notin Disturbed, config[m] = "new"
      PROVE  config'[m] = "new"
  BY <1>3 DEF Machine, GoDown, Boot, BecomeReady, JoinEtcd, Promote, Fail, TypeOK, Disturbed
<1> QED
  BY <1>1, <1>2, <1>3 DEF Upgraded

(* A run that goes on without touching a machine or finishing a node.       *)
LEMMA UpgradeGoesOn ==
  ASSUME UpgradeInv, op = "upgrade",
         UNCHANGED <<machineVars, op, sel, todo, asked>>,
         pc \notin {"idle", "preflight", "dryrun", "upgrading"},
         pc' \notin {"bootid", "reboot", "preflight", "dryrun"},
         pc' \in {"recover", "membership"} => pc \in {"recover", "membership"}
  PROVE  UpgradeInv'
BY DEF UpgradeInv, LeftUpgraded, OneDown, Down, Upgraded, Disturbed, Current, machineVars

LEMMA UpgradeStep ==
  ASSUME TypeOK, EndsDone, UpgradeInv, Next
  PROVE  UpgradeInv'
<1> SUFFICES ASSUME op' = "upgrade" PROVE LeftUpgraded' /\ OneDown'
  BY DEF UpgradeInv
<1>1. ASSUME NEW command \in Operations, NEW target \in Targets, Start(command, target)
      PROVE  LeftUpgraded' /\ OneDown'
  BY <1>1 DEF Start, LeftUpgraded, OneDown, Down
<1>2. CASE Stop
  <2>1. op = "upgrade" /\ Down' = Down /\ sel' = {} /\ pc' = "idle"
    BY <1>2 DEF Stop, Down, Disturbed, machineVars
  <2>2. todo' = {}
    BY <1>2 DEF Stop
  <2> QED
    BY <2>1, <2>2 DEF UpgradeInv, LeftUpgraded, OneDown
<1>3. CASE Preflight /\ ~Stop
  <2>1. op = "upgrade" /\ asked' = asked /\ pc \in {"preflight", "dryrun"} /\ asked = {}
    BY <1>3 DEF Preflight, PreflightNode, PreflightRefuses, DryRun, GoTo, UpgradeInv, LeftUpgraded
  <2>2. \/ pc' \in {"preflight", "dryrun"}
        \/ pc' = "status" /\ sel' \ todo' = {}
    <3>1. CASE DryRun
      BY <1>3, <3>1 DEF DryRun, GoTo, EndsDone
    <3> QED
      BY <1>3, <3>1 DEF Preflight, PreflightNode, PreflightRefuses
  <2> QED
    BY <2>1, <2>2 DEF LeftUpgraded, OneDown, Down
<1>4. ASSUME NEW n \in Nodes, BeforeCommand(n), ~Stop
      PROVE  LeftUpgraded' /\ OneDown'
  <2>1. /\ op = "upgrade" /\ UNCHANGED <<machineVars, op, sel, todo, asked>>
        /\ pc \in {"status", "wait", "bootid", "guard"}
    BY <1>4 DEF BeforeCommand, ReadStatus, AwaitReady, ReadBootID, Guard, GoTo
  <2>2. pc' \in {"wait", "guard", "exec"}
    BY <1>4, <2>1 DEF BeforeCommand, ReadStatus, AwaitReady, ReadBootID, Guard, GoTo
  <2> QED
    BY <2>1, <2>2, UpgradeGoesOn DEF UpgradeInv
<1>5. ASSUME NEW n \in Nodes, Upgrade(n)
      PROVE  LeftUpgraded' /\ OneDown'
  <2>1. /\ op = "upgrade" /\ pc = "exec" /\ pc' = "upgrading" /\ Current(n) /\ Current(n)'
        /\ pending' = pending \cup {n} /\ asked' = asked \cup {n}
        /\ UNCHANGED <<stage, config, sel, todo>>
    BY <1>5 DEF Upgrade, Current
  <2>2. Down = {}
    BY <2>1 DEF UpgradeInv, OneDown
  <2>3. Down' \subseteq {n}
    BY <2>1, <2>2 DEF Down, Disturbed
  <2>4. \A m \in sel \ todo : Upgraded(m) => Upgraded(m)'
    BY <2>1 DEF Upgraded, Disturbed, Current
  <2> QED
    BY <2>1, <2>3, <2>4 DEF UpgradeInv, LeftUpgraded, OneDown
<1>6. ASSUME NEW n \in Nodes, UpgradeReturns(n), ~Stop
      PROVE  LeftUpgraded' /\ OneDown'
  <2>1. /\ op = "upgrade" /\ pc = "upgrading" /\ pc' = "recover" /\ Current(n)
        /\ UNCHANGED <<stage, config, pending, sel, todo, asked>>
        /\ n \notin pending /\ Up(n) /\ config[n] = "new"
    BY <1>6 DEF UpgradeReturns, GoTo, machineVars, UpgradeInv
  <2>2. Upgraded(n)
    BY <2>1 DEF Upgraded, Disturbed, Up
  <2>3. \A m \in todo : Current(m) => m = n
    BY <2>1, CurrentUnique DEF TypeOK
  <2>4. Down = {} /\ Down' = Down
    <3>1. \A m \in Down : Current(m)
      BY <2>1 DEF UpgradeInv, OneDown
    <3>2. Down \subseteq {n}
      BY <2>3, <3>1 DEF Current
    <3> QED
      BY <2>1, <2>2, <3>2 DEF Upgraded, Down, Disturbed
  <2>5. \A m : (Upgraded(m)' <=> Upgraded(m)) /\ (Current(m)' <=> Current(m))
    BY <2>1 DEF Upgraded, Disturbed, Current
  <2> QED
    BY <2>1, <2>2, <2>3, <2>4, <2>5 DEF UpgradeInv, LeftUpgraded, OneDown
<1>7. ASSUME NEW n \in Nodes, AwaitRecovery(n)
      PROVE  LeftUpgraded' /\ OneDown'
  <2>1. /\ op = "upgrade" /\ UNCHANGED <<machineVars, op, sel, todo, asked>>
        /\ pc = "recover" /\ pc' = "membership"
    BY <1>7 DEF AwaitRecovery, GoTo
  <2> QED
    BY <2>1, UpgradeGoesOn DEF UpgradeInv
<1>8. ASSUME NEW n \in Nodes, CheckMembership(n), ~Stop
      PROVE  LeftUpgraded' /\ OneDown'
  <2>1. /\ op = "upgrade" /\ pc = "membership" /\ Current(n)
        /\ UNCHANGED <<stage, config, pending, sel, asked>>
        /\ todo' = todo \ {n} /\ pc' \in {"status", "kube", "idle"}
    BY <1>8 DEF CheckMembership, FinishNode, machineVars
  <2>2. Upgraded(n) /\ \A m \in sel \ todo : Upgraded(m)
    BY <2>1 DEF UpgradeInv, LeftUpgraded, Current
  <2>3. Down = {} /\ Down' = Down
    BY <2>1 DEF UpgradeInv, OneDown, Down, Disturbed
  <2>4. \A m : Upgraded(m)' <=> Upgraded(m)
    BY <2>1 DEF Upgraded, Disturbed
  <2> QED
    BY <2>1, <2>2, <2>3, <2>4 DEF LeftUpgraded, OneDown
<1>9. CASE UpgradeKubernetes
  <2>1. /\ op = "upgrade" /\ pc = "kube" /\ pc' = "idle"
        /\ UNCHANGED <<stage, config, pending, sel, todo, asked>>
    BY <1>9 DEF UpgradeKubernetes
  <2> QED
    BY <2>1 DEF UpgradeInv, LeftUpgraded, OneDown, Down, Upgraded, Disturbed, Current
<1>10. ASSUME NEW n \in Nodes, Machine(n) \/ Fail(n)
       PROVE  LeftUpgraded' /\ OneDown'
  <2>1. /\ UNCHANGED <<pc, op, sel, todo, asked>>
        /\ Disturbed' \subseteq Disturbed
        /\ \A m \in Nodes : Upgraded(m) => Upgraded(m)'
    BY <1>10, MachinesStayUpgraded
  <2>2. Down' \subseteq Down /\ \A m : Current(m)' <=> Current(m)
    BY <2>1 DEF Down, Current
  <2>3. sel \subseteq Nodes /\ todo \subseteq Nodes
    BY DEF TypeOK
  <2> QED
    BY <2>1, <2>2, <2>3 DEF UpgradeInv, LeftUpgraded, OneDown
<1>11. ASSUME NEW n \in Nodes, Apply(n) \/ Reset(n) \/ AwaitReboot(n)
       PROVE  FALSE
  BY <1>11 DEF Apply, Reset, FinishNode, AwaitReboot, GoTo, UpgradeInv, LeftUpgraded
<1> QED
  BY <1>1, <1>2, <1>3, <1>4, <1>5, <1>6, <1>7, <1>8, <1>9, <1>10, <1>11
  DEF Next, Tool, Command, AfterCommand, WaitExpires, CommandFails, NoControlPlaneAnswers, Rejected, Abandon

(* In any fleet and under every fault, races and abandoned runs included, an *)
(* upgrade has one machine down at a time, leaves upgraded nodes behind, and *)
(* turns to Kubernetes, or reports success, when every node is upgraded.     *)
THEOREM UpgradedOneByOneHolds == Spec => []UpgradedOneByOne
<1> DEFINE Inv == EndsDone /\ UpgradeInv
<1>1. Init => Inv
  BY DEF Init, EndsDone, UpgradeInv
<1>2. TypeOK /\ Inv /\ [Next]_vars => Inv'
  <2>1. TypeOK /\ Inv /\ Next => Inv'
    BY EndsDoneStep, UpgradeStep
  <2>2. Inv /\ UNCHANGED vars => Inv'
    BY DEF vars, machineVars, toolVars, EndsDone, UpgradeInv, LeftUpgraded, OneDown, Down,
           Upgraded, Disturbed, Current
  <2> QED
    BY <2>1, <2>2
<1>3. Inv => UpgradedOneByOne
  <2> SUFFICES ASSUME Inv, op = "upgrade" PROVE Cardinality(Down) <= 1
    BY DEF UpgradedOneByOne, UpgradeInv, LeftUpgraded, EndsDone, Down
  <2>1. CASE Down = {}
    BY <2>1, FS_EmptySet
  <2>2. CASE Down # {}
    <3>1. PICK n : Down = {n}
      BY <2>2 DEF UpgradeInv, OneDown
    <3> QED
      BY <3>1, FS_Singleton
  <2> QED
    BY <2>1, <2>2
<1> HIDE DEF Inv
<1> QED
  BY <1>1, <1>2, <1>3, TypeCorrect, PTL DEF Spec
=============================================================================
