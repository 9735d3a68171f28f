------------------------------- MODULE Rollout -------------------------------
(***************************************************************************)
(* Node-by-node maintenance of a running cluster: `clustertool talos       *)
(* apply`, `upgrade` and `reset` all end in ExecCmds                       *)
(* (pkg/gencmd/execcmd.go), which visits the selected nodes in inventory   *)
(* order and, for each, checks it, guards the etcd quorum (quorum.go),     *)
(* runs talosctl, waits for recovery and checks membership again.          *)
(* `upgrade` first runs a read-only preflight over the whole selection     *)
(* (upgrade_preflight.go) and ends with one Kubernetes upgrade             *)
(* (cmd/talos_upgrade.go).                                                 *)
(*                                                                         *)
(* The machines act on their own between any two steps of the tool: they   *)
(* reboot, join etcd as learners, are promoted, become ready, fail.        *)
(***************************************************************************)
EXTENDS Integers, FiniteSets

CONSTANTS
  Nodes,          \* node numbers: the inventory's order by name
  ControlPlanes,  \* the nodes of role control-plane
  Operations,     \* the commands the operator runs in this instance
  FaultKinds,     \* what may go wrong in this instance
  MaxFaults       \* bound on the number of faults of one behaviour

(* "fail": a machine goes down by itself.  "reject": talosctl fails without  *)
(* effect.  "abandon": the tool stops, or gives up waiting, after a command  *)
(* was accepted.  "race": a machine completes a boot or an etcd promotion    *)
(* within the few talosctl calls between a check and the command it allows.  *)
Kinds == {"fail", "reject", "abandon", "race"}

Commands == {"apply-config", "upgrade", "reset"}

ASSUME NodesAssumption ==
  /\ Nodes \subseteq Nat
  /\ IsFiniteSet(Nodes)
  /\ ControlPlanes \subseteq Nodes
  /\ ControlPlanes # {}
ASSUME FaultsAssumption ==
  /\ Operations \subseteq Commands
  /\ FaultKinds \subseteq Kinds
  /\ MaxFaults \in Nat

VARIABLES
  (* the machines *)
  stage,     \* maintenance; rebooting for the tool; failed; running; ready
  etcd,      \* out, learner or voter, for each control plane
  config,    \* old, staged for the next boot, or new: what each node runs
  pending,   \* nodes that have accepted a reboot and have not gone down yet
  kube,      \* the Kubernetes release the cluster runs
  (* the inventory and its generated files, fixed here *)
  listed,    \* the nodes of clustertool.yaml
  fits,      \* nodes whose desired image is within one minor release
  kubeFits,  \* whether the Kubernetes dry run accepts the plan
  (* the clustertool process *)
  pc,        \* its next step, "idle" when no process runs
  op,        \* the command it executes
  talosOnly, \* whether its Kubernetes upgrade was declined
  sel,       \* the nodes selected for it
  todo,      \* the nodes not yet finished, the current one included
  boot,      \* the boot ID read before an apply: none, same, or changed since
  mode,      \* how apply-config is sent: auto, no-reboot or insecure
  hosts,     \* the etcd members its last quorum guard found
  asked,     \* nodes this process has taken down, by reboot or reset
  outcome,   \* how the last process ended
  (* bound *)
  faults

machineVars == <<stage, etcd, config, pending, kube>>
filesVars   == <<listed, fits, kubeFits>>
toolVars    == <<pc, op, talosOnly, sel, todo, boot, mode, hosts, asked, outcome>>
vars        == <<machineVars, filesVars, toolVars, faults>>

Stages == {"maintenance", "rebooting", "failed", "running", "ready"}
Steps  == {"preflight", "dryrun", "status", "wait", "bootid", "guard", "exec",
           "upgrading", "reboot", "recover", "membership", "kube"}

-----------------------------------------------------------------------------
Before(m, n) ==
  \/ m \in ControlPlanes /\ n \notin ControlPlanes
  \/ (m \in ControlPlanes <=> n \in ControlPlanes) /\ m < n

Current(n) == n \in todo /\ \A m \in todo \ {n} : Before(n, m)

Up(n)    == stage[n] \in {"running", "ready"}
Members  == {n \in ControlPlanes : etcd[n] # "out"}
Voters   == {n \in ControlPlanes : etcd[n] = "voter"}
Majority(up, all) == 2 * Cardinality(up) > Cardinality(all)
EtcdServes == Majority({n \in Voters : Up(n)}, Voters)

(* Nodes that are down, or about to be, because the tool asked for it.       *)
Disturbed == pending \cup {n \in Nodes : stage[n] = "rebooting"}

Fault(kind) ==
  /\ kind \in FaultKinds
  /\ faults < MaxFaults
  /\ faults' = faults + 1

(* controlPlaneGuard: the node's own membership table must hold no learner,  *)
(* only listed control planes, and every one of them must be ready.          *)
MembershipHealthy(n) ==
  n \in ControlPlanes =>
    /\ n \in Members
    /\ \A m \in Members : etcd[m] = "voter" /\ m \in listed /\ stage[m] = "ready"

HalfRemains(n) ==  \* mutant: half of the voters is taken for a majority
  n \in ControlPlanes =>
    LET voters == Cardinality(Members)
    IN  voters = 1 \/ voters - 1 >= voters \div 2
MajorityExceeded(n) ==  \* mutant: more than a majority must remain
  n \in ControlPlanes =>
    LET voters == Cardinality(Members)
    IN  voters = 1 \/ voters - 1 > voters \div 2 + 1
CanReboot(n) ==
  n \in ControlPlanes =>
    LET voters == Cardinality(Members)
    IN  voters = 1 \/ voters - 1 >= voters \div 2 + 1

(* The process returns an error; whatever it asked of a machine goes on.     *)
Stop ==
  /\ pc' = "idle"
  /\ outcome' = "failed"
  /\ todo' = {}
  /\ sel' = {}
  /\ boot' = "none"
  /\ mode' = "auto"
  /\ UNCHANGED <<machineVars, filesVars, op, talosOnly, hosts, asked>>

GoTo(step) ==
  /\ pc' = step
  /\ UNCHANGED <<filesVars, op, talosOnly, sel, todo, hosts, asked, outcome>>

(* Node n is finished: on to the next, to the Kubernetes upgrade, or done.   *)
FinishNode(n) ==
  /\ todo' = todo \ {n}
  /\ pc' = IF todo' # {} THEN "status"
           ELSE IF op = "upgrade" /\ ~talosOnly THEN "kube" ELSE "idle"
  /\ outcome' = IF pc' = "idle" THEN "ok" ELSE outcome
  /\ boot' = "none"
  /\ mode' = "auto"
  /\ UNCHANGED <<filesVars, op, talosOnly, sel, hosts>>

-----------------------------------------------------------------------------
(* The operator starts a command for the whole inventory or for one node.    *)
(* Without an etcd that answers, apply is a first setup instead (Bootstrap). *)
Start(command, target) ==
  /\ pc = "idle"
  /\ command \in Operations
  /\ command = "apply-config" => \E n \in Members : Up(n)
  /\ op' = command
  /\ talosOnly' \in (IF command = "upgrade" THEN BOOLEAN ELSE {FALSE})
  /\ sel' = target
  /\ todo' = target
  /\ pc' = IF command = "upgrade" THEN "preflight" ELSE "status"
  /\ boot' = "none"
  /\ mode' = "auto"
  /\ hosts' = {}
  /\ asked' = {}
  /\ outcome' = "none"
  /\ UNCHANGED <<machineVars, filesVars, faults>>

(* PreflightUpgrade: every selected node before any command is sent.         *)
PreflightFirstOnly(n) ==  \* mutant: only the first node is checked
  /\ pc = "preflight"
  /\ Current(n)
  /\ stage[n] = "ready" /\ MembershipHealthy(n) /\ CanReboot(n) /\ n \in fits
  /\ todo' = sel
  /\ pc' = IF talosOnly THEN "status" ELSE "dryrun"
  /\ UNCHANGED <<machineVars, filesVars, op, talosOnly, sel, boot, mode, hosts, asked, outcome, faults>>
PreflightThenAll(n) ==  \* mutant: the rollout forgets the selection
  /\ pc = "preflight"
  /\ Current(n)
  /\ stage[n] = "ready" /\ MembershipHealthy(n) /\ CanReboot(n) /\ n \in fits
  /\ IF todo = {n}
     THEN todo' = listed /\ pc' = IF talosOnly THEN "status" ELSE "dryrun"
     ELSE todo' = todo \ {n} /\ pc' = pc
  /\ UNCHANGED <<machineVars, filesVars, op, talosOnly, sel, boot, mode, hosts, asked, outcome, faults>>
PreflightNode(n) ==
  /\ pc = "preflight"
  /\ Current(n)
  /\ stage[n] = "ready" /\ MembershipHealthy(n) /\ CanReboot(n) /\ n \in fits
  /\ IF todo = {n}
     THEN todo' = sel /\ pc' = IF talosOnly THEN "status" ELSE "dryrun"
     ELSE todo' = todo \ {n} /\ pc' = pc
  /\ UNCHANGED <<machineVars, filesVars, op, talosOnly, sel, boot, mode, hosts, asked, outcome, faults>>

PreflightRefuses(n) ==
  /\ pc = "preflight"
  /\ Current(n)
  /\ ~(stage[n] = "ready" /\ MembershipHealthy(n) /\ CanReboot(n) /\ n \in fits)
  /\ Stop
  /\ UNCHANGED faults

(* The dry run goes to the first control plane that answers.                 *)
DryRun ==
  /\ pc = "dryrun"
  /\ IF kubeFits /\ \E n \in Members : Up(n)
     THEN GoTo("status") /\ UNCHANGED <<machineVars, boot, mode>>
     ELSE Stop
  /\ UNCHANGED faults

-----------------------------------------------------------------------------
(* ExecCmds, one node.  CheckStatus fails on a node that does not answer;    *)
(* only apply-config may address a node in maintenance.                      *)
ReadStatus(n) ==
  /\ pc = "status"
  /\ Current(n)
  /\ \/ Up(n) /\ GoTo("wait") /\ UNCHANGED <<machineVars, boot, mode>>
     \/ /\ stage[n] = "maintenance" /\ op = "apply-config"
        /\ GoTo("exec") /\ mode' = "insecure" /\ UNCHANGED <<machineVars, boot>>
     \/ ~Up(n) /\ ~(stage[n] = "maintenance" /\ op = "apply-config") /\ Stop
  /\ UNCHANGED faults

AwaitReady(n) ==
  /\ pc = "wait"
  /\ Current(n)
  /\ \/ /\ stage[n] = "ready"
        /\ GoTo(CASE op = "apply-config" -> "bootid"
                  [] op = "upgrade"      -> "guard"
                  [] op = "reset"        -> "exec")
        /\ UNCHANGED <<machineVars, boot, mode>>
     \/ stage[n] # "ready" /\ Stop
  /\ UNCHANGED faults

ReadBootID(n) ==
  /\ pc = "bootid"
  /\ Current(n)
  /\ IF Up(n)
     THEN GoTo("guard") /\ boot' = "same" /\ UNCHANGED <<machineVars, mode>>
     ELSE Stop
  /\ UNCHANGED faults

Guard(n) ==
  /\ pc = "guard"
  /\ Current(n)
  /\ IF MembershipHealthy(n) /\ (CanReboot(n) \/ op = "apply-config")
     THEN /\ pc' = "exec"
          /\ hosts' = IF n \in ControlPlanes THEN Members ELSE {}
          /\ mode' = IF CanReboot(n) THEN "auto" ELSE "no-reboot"
          /\ UNCHANGED <<machineVars, filesVars, op, talosOnly, sel, todo, boot, asked, outcome>>
     ELSE Stop
  /\ UNCHANGED faults

(* The machine takes the configuration: at once, or with a reboot to come    *)
(* unless that was excluded.  In maintenance it installs itself and reboots. *)
ApplyInsecure(n) ==
  /\ mode = "insecure"
  /\ stage[n] = "maintenance"
  /\ stage' = [stage EXCEPT ![n] = "rebooting"]
  /\ config' = [config EXCEPT ![n] = "staged"]
  /\ asked' = asked \cup {n}
  /\ pc' = "recover"
  /\ UNCHANGED pending

ApplyAtOnce(n) ==
  /\ mode # "insecure"
  /\ Up(n)
  /\ config' = [config EXCEPT ![n] = IF n \in pending THEN "staged" ELSE "new"]
  /\ pc' = "recover"
  /\ UNCHANGED <<stage, pending, asked>>

AssumeRebooted(n) ==  \* mutant: the boot ID is not awaited
  /\ mode = "auto"
  /\ Up(n)
  /\ config[n] # "new"
  /\ config' = [config EXCEPT ![n] = "staged"]
  /\ pending' = pending \cup {n}
  /\ asked' = asked \cup {n}
  /\ pc' = "recover"
  /\ UNCHANGED stage
ApplyWithReboot(n) ==
  /\ mode = "auto"
  /\ Up(n)
  /\ config[n] # "new"
  /\ config' = [config EXCEPT ![n] = "staged"]
  /\ pending' = pending \cup {n}
  /\ asked' = asked \cup {n}
  /\ pc' = "reboot"
  /\ UNCHANGED stage

Apply(n) ==
  /\ pc = "exec" /\ op = "apply-config"
  /\ Current(n)
  /\ ApplyInsecure(n) \/ ApplyAtOnce(n) \/ ApplyWithReboot(n)
  /\ UNCHANGED <<etcd, kube, filesVars, op, talosOnly, sel, todo, boot, mode, hosts, outcome, faults>>

(* talosctl upgrade --wait: returns once the node runs the new image.        *)
Upgrade(n) ==
  /\ pc = "exec" /\ op = "upgrade"
  /\ Current(n)
  /\ Up(n)
  /\ pending' = pending \cup {n}
  /\ asked' = asked \cup {n}
  /\ pc' = "upgrading"
  /\ UNCHANGED <<stage, etcd, config, kube, filesVars, op, talosOnly, sel, todo, boot, mode, hosts, outcome, faults>>

UpgradeReturns(n) ==
  /\ pc = "upgrading"
  /\ Current(n)
  /\ n \notin pending /\ Up(n)
  /\ IF config[n] = "new"
     THEN GoTo("recover") /\ UNCHANGED <<machineVars, boot, mode>>
     ELSE Stop
  /\ UNCHANGED faults

(* A reset node leaves etcd and comes back in maintenance; nothing is awaited. *)
Reset(n) ==
  /\ pc = "exec" /\ op = "reset"
  /\ Current(n)
  /\ Up(n)
  /\ stage' = [stage EXCEPT ![n] = "maintenance"]
  /\ config' = [config EXCEPT ![n] = "old"]
  /\ etcd' = [m \in ControlPlanes |-> IF m = n THEN "out" ELSE etcd[m]]
  /\ pending' = pending \ {n}
  /\ asked' = asked \cup {n}
  /\ FinishNode(n)
  /\ UNCHANGED <<kube, faults>>

(* talosctl fails: the node does not answer, or refuses the command.         *)
CommandFails ==
  /\ pc = "exec"
  /\ mode # "insecure"
  /\ \E n \in Nodes : Current(n) /\ (~Up(n) \/ mode = "no-reboot")
  /\ Stop
  /\ UNCHANGED faults

Rejected ==
  /\ pc \in {"exec", "kube"}
  /\ Fault("reject")
  /\ Stop

(* "with a reboot": read the boot ID until it differs.                       *)
AwaitReboot(n) ==
  /\ pc = "reboot"
  /\ Current(n)
  /\ Up(n) /\ boot = "changed"
  /\ GoTo("recover")
  /\ UNCHANGED <<machineVars, boot, mode, faults>>

AwaitRecovery(n) ==
  /\ pc = "recover"
  /\ Current(n)
  /\ stage[n] = "ready"
  /\ GoTo("membership")
  /\ UNCHANGED <<machineVars, boot, mode, faults>>

(* The second guard: its verdict on reboots is not used, its error is.       *)
CheckMembership(n) ==
  /\ pc = "membership"
  /\ Current(n)
  /\ IF MembershipHealthy(n)
     THEN FinishNode(n) /\ UNCHANGED <<machineVars, asked>>
     ELSE Stop
  /\ UNCHANGED faults

(* A wait expires: the machine went down by itself, or finds no etcd to join. *)
ExpiryIgnored(n) ==  \* mutant: an expired wait does not stop the run
  /\ pc \in {"upgrading", "reboot", "recover"}
  /\ Current(n)
  /\ stage[n] = "failed"
  /\ FinishNode(n)
  /\ UNCHANGED <<machineVars, asked, faults>>
WaitExpires(n) ==
  /\ pc \in {"upgrading", "reboot", "recover"}
  /\ Current(n)
  /\ \/ stage[n] = "failed"
     \/ n \in ControlPlanes \ Members /\ ~EtcdServes
  /\ Stop
  /\ UNCHANGED faults

(* The process is killed, or a wait expires on a machine still at work.      *)
Abandon ==
  /\ pc # "idle"
  /\ Fault("abandon")
  /\ Stop

UpgradeKubernetes ==
  /\ pc = "kube"
  /\ \E n \in Members : Up(n)
  /\ kube' = "new"
  /\ pc' = "idle"
  /\ outcome' = "ok"
  /\ UNCHANGED <<stage, etcd, config, pending, filesVars, op, talosOnly, sel, todo, boot, mode, hosts, asked, faults>>

NoControlPlaneAnswers ==
  /\ pc = "kube"
  /\ ~ \E n \in Members : Up(n)
  /\ Stop
  /\ UNCHANGED faults

-----------------------------------------------------------------------------
(* The machines.  A boot or a promotion takes far longer than the few calls  *)
(* between the tool's last check and its command; "race" lifts that.         *)
NoRace == IF pc \in {"bootid", "guard", "exec"} THEN Fault("race") ELSE UNCHANGED faults

GoDown(n) ==
  /\ n \in pending
  /\ Up(n)
  /\ stage' = [stage EXCEPT ![n] = "rebooting"]
  /\ config' = [config EXCEPT ![n] = "staged"]
  /\ pending' = pending \ {n}
  /\ UNCHANGED <<etcd, kube, filesVars, toolVars, faults>>

Boot(n) ==
  /\ stage[n] \in {"rebooting", "failed"}
  /\ stage' = [stage EXCEPT ![n] = "running"]
  /\ config' = [config EXCEPT ![n] = IF @ = "staged" THEN "new" ELSE @]
  /\ boot' = IF Current(n) /\ boot = "same" THEN "changed" ELSE boot
  /\ NoRace
  /\ UNCHANGED <<etcd, pending, kube, filesVars, pc, op, talosOnly, sel, todo, mode, hosts, asked, outcome>>

JoinEtcd(n) ==
  /\ stage[n] = "running"
  /\ etcd[n] = "out"
  /\ EtcdServes
  /\ etcd' = [etcd EXCEPT ![n] = "learner"]
  /\ NoRace
  /\ UNCHANGED <<stage, config, pending, kube, filesVars, toolVars>>

Promote(n) ==
  /\ Up(n)
  /\ etcd[n] = "learner"
  /\ EtcdServes
  /\ etcd' = [etcd EXCEPT ![n] = "voter"]
  /\ NoRace
  /\ UNCHANGED <<stage, config, pending, kube, filesVars, toolVars>>

BecomeReady(n) ==
  /\ stage[n] = "running"
  /\ n \in ControlPlanes => n \in Members
  /\ stage' = [stage EXCEPT ![n] = "ready"]
  /\ UNCHANGED <<etcd, config, pending, kube, filesVars, toolVars, faults>>

Fail(n) ==
  /\ Up(n)
  /\ Fault("fail")
  /\ stage' = [stage EXCEPT ![n] = "failed"]
  /\ pending' = pending \ {n}
  /\ UNCHANGED <<etcd, config, kube, filesVars, toolVars>>

-----------------------------------------------------------------------------
(* A running cluster; some nodes may wait in maintenance, one etcd member    *)
(* may be missing from the inventory, one image or the Kubernetes plan may   *)
(* not fit.                                                                  *)
Init ==
  /\ \E old \in SUBSET Nodes :
       /\ old \cap ControlPlanes # {}
       /\ stage = [n \in Nodes |-> IF n \in old THEN "ready" ELSE "maintenance"]
       /\ etcd = [n \in ControlPlanes |-> IF n \in old THEN "voter" ELSE "out"]
       /\ listed \in {Nodes} \cup {Nodes \ {n} : n \in old \cap ControlPlanes}
  /\ listed \cap ControlPlanes # {}
  /\ config = [n \in Nodes |-> "old"]
  /\ pending = {}
  /\ kube = "old"
  /\ fits \in {Nodes} \cup {Nodes \ {n} : n \in Nodes}
  /\ kubeFits \in BOOLEAN
  /\ pc = "idle"
  /\ op = "apply-config"
  /\ talosOnly = FALSE
  /\ sel = {} /\ todo = {} /\ hosts = {} /\ asked = {}
  /\ boot = "none"
  /\ mode = "auto"
  /\ outcome = "none"
  /\ faults = 0

Targets == {listed} \cup {{n} : n \in listed}

Preflight == (\E n \in Nodes : PreflightNode(n) \/ PreflightRefuses(n)) \/ DryRun

BeforeCommand(n) == ReadStatus(n) \/ AwaitReady(n) \/ ReadBootID(n) \/ Guard(n)
Command(n)       == Apply(n) \/ Upgrade(n) \/ UpgradeReturns(n) \/ Reset(n)
AfterCommand(n)  == AwaitReboot(n) \/ AwaitRecovery(n) \/ CheckMembership(n) \/ WaitExpires(n)

Tool ==
  \/ Preflight
  \/ \E n \in Nodes : BeforeCommand(n) \/ Command(n) \/ AfterCommand(n)
  \/ CommandFails \/ UpgradeKubernetes \/ NoControlPlaneAnswers

Machine(n) ==
  \/ GoDown(n) \/ Boot(n) \/ BecomeReady(n)
  \/ n \in ControlPlanes /\ (JoinEtcd(n) \/ Promote(n))

Next ==
  \/ \E command \in Operations, target \in Targets : Start(command, target)
  \/ Tool
  \/ Rejected \/ Abandon
  \/ \E n \in Nodes : Machine(n) \/ Fail(n)

Spec == Init /\ [][Next]_vars

(* The process runs on, the operator keeps asking for the whole inventory,   *)
(* and machines make progress.                                               *)
Fairness ==
  /\ WF_vars(Tool)
  /\ SF_vars(Start("upgrade", listed) /\ ~talosOnly')
  /\ \A n \in Nodes : SF_vars(Machine(n))

FairSpec == Spec /\ Fairness

-----------------------------------------------------------------------------
(* Properties.                                                               *)

(* Every variable keeps to its domain.                                       *)
TypeOK ==
  /\ stage \in [Nodes -> Stages]
  /\ etcd \in [ControlPlanes -> {"out", "learner", "voter"}]
  /\ config \in [Nodes -> {"old", "staged", "new"}]
  /\ pending \subseteq Nodes
  /\ kube \in {"old", "new"}
  /\ listed \subseteq Nodes
  /\ fits \subseteq Nodes
  /\ kubeFits \in BOOLEAN
  /\ pc \in {"idle"} \cup Steps
  /\ op \in Commands
  /\ talosOnly \in BOOLEAN
  /\ sel \subseteq listed /\ todo \subseteq sel /\ asked \subseteq Nodes
  /\ hosts \subseteq ControlPlanes
  /\ boot \in {"none", "same", "changed"}
  /\ mode \in {"auto", "no-reboot", "insecure"}
  /\ outcome \in {"none", "ok", "failed"}
  /\ faults \in 0..MaxFaults

(* ExecCmds: one run never has two machines rebooting for it, even when      *)
(* machines fail on their own and runs are abandoned and started again.      *)
OneNodeAtATime == Cardinality(Disturbed \cap asked) <= 1

(* quorum.go: "losing one voter must retain a strict majority".  While only  *)
(* the tool takes machines down, etcd keeps a majority of its voters, except *)
(* where the guard met a single voter, which necessarily restarts.           *)
QuorumKept ==
  (\A n \in Voters : stage[n] # "failed") =>
    \/ EtcdServes
    \/ Cardinality(Voters) <= 1 \/ Cardinality(hosts) = 1

(* PreflightUpgrade: "completes read-only checks for the entire selected set *)
(* before changing any node": no node is asked to upgrade while another      *)
(* selected node's version, or the Kubernetes plan, is unacceptable.         *)
NothingUpgradedBeforePreflight ==
  op = "upgrade" /\ asked # {} => sel \subseteq fits /\ (talosOnly \/ kubeFits)

(* A rollout that reports success, and a Kubernetes upgrade, leave every     *)
(* selected node running the desired configuration, its reboot behind it.    *)
SuccessMeansCurrent ==
  (outcome = "ok" /\ op # "reset") \/ pc = "kube" =>
    \A n \in sel : config[n] = "new" /\ n \notin pending

(* A node is addressed only after every earlier node of the run has come     *)
(* back into a membership the guard accepts: the run stops at a failure.     *)
StopsAtFirstFailure ==
  [][pc = "exec" /\ pc' # "idle" /\ op # "reset" =>
       \A m \in sel \ todo : config[m] = "new" /\ m \notin Disturbed]_vars

(* Upgrade returns only when its node runs the new image.  So under every    *)
(* fault, races and abandoned runs included, it has one machine down at a    *)
(* time; what it leaves behind runs the new image, with no reboot to come;   *)
(* and it upgrades Kubernetes, and succeeds, with nothing left to upgrade.   *)
Upgraded(n) == config[n] = "new" /\ n \notin Disturbed

UpgradedOneByOne ==
  op = "upgrade" =>
    /\ Cardinality(Disturbed \cap asked) <= 1
    /\ pc \notin {"preflight", "dryrun"} => \A m \in sel \ todo : Upgraded(m)
    /\ pc = "kube" \/ outcome = "ok" => todo = {}

(* An operator who repeats `upgrade all` ends with the whole inventory, and  *)
(* Kubernetes, upgraded, whatever failed on the way, when the fleet can be   *)
(* upgraded at all.                                                          *)
Upgradable ==
  /\ listed = Nodes /\ fits = Nodes /\ kubeFits
  /\ \A n \in Nodes : stage[n] # "maintenance"
  /\ Cardinality(Voters) \notin {0, 2}
  /\ Voters = ControlPlanes
RepeatedUpgradeCompletes ==
  Upgradable ~> (kube = "new" /\ \A n \in Nodes : config[n] = "new")
=============================================================================
