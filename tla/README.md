# Formal model of clustertool

TLA+ specifications of [clustertool](../src/README.md), the command-line tool that
sets up and maintains Talos Linux / Kubernetes clusters, with model-checking
configurations for TLC and proofs for TLAPS. Paths such as `pkg/gencmd/quorum.go`
are relative to the repository; `HOW_TO.md` is `embed/generic/root/HOW_TO.md`, the
user documentation that ships in every cluster repository.

clustertool keeps no daemon and no database. Its state is spread over three places
that change independently: the files of a cluster repository, the machines reached
through `talosctl`, and the Kubernetes API behind them. A command is a long
sequence of file operations and remote calls which can end anywhere, after which
the operator runs it again. Nearly everything that can go wrong here is about what
a repeated command finds, and what the machines did in the meantime.

## 1. Inventory

| Part of the system | Where | State it keeps | Operations | Modelled in |
|---|---|---|---|---|
| First cluster setup | `cmd/talos_apply.go`, `pkg/gencmd/bootstrap*.go`, `clusterstate.go` | checkpoint `talos/.bootstrap-in-progress.json`; through the machines: stages, etcd members, charts | decide (first setup, resumption, rolling apply), configure all nodes, bootstrap etcd, install the layers | `Bootstrap` |
| Rolling apply, upgrade, reset | `pkg/gencmd/execcmd.go`, `quorum.go`, `upgrade_preflight.go`, `cmd/talos_upgrade.go`, `cmd/talos_reset.go` | none on disk; boot ID and membership in memory | preflight, per node: status, quorum guard, command, recovery; the Kubernetes upgrade | `Rollout` |
| Generated Talos configuration | `pkg/talosconfig/generate.go`, `documents.go` | `talos/generated`, its backup, a private staging directory | render, validate, publish by renames, recover | `Publication`, `ConfigSet` |
| Repository initialisation | `pkg/initfiles`, `cmd/init.go`, `cmd/genconfig.go`, `pkg/talosconfig/config.go` | `RUNAGAIN`, age key, `.sops.yaml`, settings, identity, deploy key, hook | `init` in two runs, `genconfig` | `RepoInit` |
| Node status and health | `pkg/nodestatus` | none (bounded polling) | read status, boot ID; wait for readiness | as guards in `Bootstrap`, `Rollout` |
| Inventory | `pkg/talosconfig/inventory.go` | `talos/clustertool.yaml` | parse, validate, order, select | ordering and selection in `Bootstrap`, `Rollout` |
| Environment values | `pkg/initfiles/clusterenv.go` | cluster settings | validation, overlap checks | `EnvValues`; when it runs, in `RepoInit` |
| SOPS encryption | `pkg/sops` | secret files, plain or encrypted | encrypt, decrypt, check | `SopsFiles`; all files together, as `lock`, in `RepoInit` |
| Git hook | `pkg/helper/git*.go`, `cmd/checkcrypt.go` | `.git/hooks/pre-commit` | install, check staged files | `SopsFiles`; its installation in `RepoInit` |
| Helm charts | `pkg/fluxhandler/helm*.go` | releases, repository file, cached indexes | concurrent installs, resumption | `ChartInstall`; one step per layer in `Bootstrap` |
| Flux bootstrap, Git secret | `pkg/fluxhandler/bootstrap.go`, `sshsecretgen.go` | deploy key Secret and public key | create pair, install Flux | key pair in `RepoInit`; installation in `Bootstrap` |
| Kustomizations | `pkg/fluxhandler/kustomizations.go` | `kustomization.yaml`, `ks.yaml` | two passes over the tree | `Kustomize`; when they run, in `RepoInit` |
| Kubernetes helpers | `pkg/kubectlcmds` | none | apply, approve CSRs, wait for pods | the approver in `ChartInstall`; the rest as steps that may fail |
| Schematic and version questions | `pkg/gencmd/schematic_check.go`, `version_check.go` | none | ask the operator | the version question in `RepoInit` |
| External processes | `pkg/helper/process.go` | none | run `talosctl` with a time limit | failing and abandoned calls in `Rollout` |
| CLI, embedded files, templates | `main.go`, `cmd/root.go`, `embed/` | cache directory | parsing, unpacking | not modelled |

How the parts interact:

* `init` makes the repository; `genconfig` reads its settings and identity and
  publishes `talos/generated`; `talos apply`, `upgrade` and `reset` read the
  inventory and the generated files and talk to the machines.
* `talos apply` decides between `RunBootstrap` and `RunApply` by asking the
  machines (`NeedsBootstrap`) and by the checkpoint. Both run in one process,
  sequentially; the machines go on by themselves between any two calls.
* Files are the only channel between two runs, and git the only one between two
  clones of a repository. Operations on the same files are not to be run
  concurrently (HOW_TO.md:178), so one process at a time is modelled.
* Inside one process the only goroutines are chart installations of one layer and
  the certificate approver beside them (`pkg/fluxhandler/helm.go`,
  `pkg/kubectlcmds/approvecerts.go`).

The hard behaviours, and what makes each component correct:

* **First setup.** A lost answer to the etcd bootstrap call, an interrupted loop
  over the nodes, an unreachable etcd, a renamed node. Correct means: never two
  etcd clusters, never a setup over an existing cluster, never a fleet that was
  touched and can no longer be set up, and that repeating `apply` completes it.
* **Rolling maintenance.** A node answers "ready" from its old boot; another member
  fails between guard and command; a run is given up while its node still has to
  reboot. Correct means: one node at a time, etcd keeps its majority, nothing is
  upgraded on a refusal, success means the new configuration runs.
* **Publication.** Two renames with a backup. Correct means: one whole set, never
  lost, only replaced by a younger one.
* **Initialisation.** A dozen files created one by one, each only where missing.
  Correct means: one age key, one identity, one deploy key pair, and completion.
* **Encryption and hook.** Files rewritten in place from a list of states read
  earlier, and staged by a hook, while the operator saves and stages. Correct means:
  no plain secret in a commit, no value lost, nothing encrypted twice.
* **Charts.** Concurrent rewrites of shared files that pulls read, releases left
  pending by an interrupted run, a certificate approver beside them. Correct means:
  installed in order, never over an existing release, and no failure without a fault
  but where two charts of http repositories are pulled at once, which no lock prevents.

## 2. Modules

| Module | Lines it stands for | What it is |
|---|---|---|
| `FirstSetup` | | what a first setup promises: consent, one founding there, joins, layers in order |
| `OrderedInstall` | | what layers and charts promise: each after those ahead of it, for good |
| `KeyRegister` | | what a generated secret is promised: recorded once, never exchanged |
| `Bootstrap` | `RunBootstrap` and the decision of `apply` | state machine, refines `FirstSetup` (which is an `OrderedInstall` of layers) |
| `Bootstrap_proofs` | | theorems about it |
| `Rollout` | `ExecCmds`, `PreflightUpgrade`, the `upgrade` and `reset` commands | state machine |
| `ConfigSet` | | what publication promises: one current set, replaced by younger ones |
| `Publication` | `Generate`, `publish` | state machine, refines `ConfigSet` |
| `Publication_proofs` | | theorems about it, the refinement included |
| `RepoInit` | `init`, `genconfig` and what they call | state machine, refines three `KeyRegister`s |
| `RepoInit_proofs` | | theorems about it |
| `SopsFiles` | `pkg/sops`, the pre-commit hook | state machine |
| `SopsFiles_proofs` | | theorems about it |
| `ChartInstall` | `InstallCharts`, `HelmInstall`, the certificate approver | state machine, refines `OrderedInstall` |
| `ChartInstall_proofs` | | theorems about it |
| `Rollout_proofs` | | theorems about `Rollout` |
| `Kustomize`, `EnvValues` | `ProcessDirectory`; `CheckEnvVariables` | functions of their inputs, without state |
| `Kustomize_proofs`, `EnvValues_proofs` | | theorems about them |
| `MC*` | | values of the constants for TLC |

Every module keeps the process as a program counter (`pc`, `tool.pc`) whose values
are the points between two effects (a file operation, a remote call) in the order
of the code. An action is what happens from one such point to the next, with the
code's condition as its guard; every early return is an action or a disjunct that
leads back to `"idle"`. Deadlines are not counted: an expired wait is an action
that is enabled while what is waited for is missing. Definitions marked
`mutant:` beside an operation are the same operation with a plausible bug; no
specification uses them, and each breaks the property it is paired with in
`PROJECT.json`, which shows that the property depends on the code it is about.

### 2.1 Bootstrap

Variables. The machines: `stage` (Talos' machine stage; `"ready"` is running with
`.status.ready`), `member` (which etcd cluster a control plane holds the data of;
clusters are numbered by `founded`), `installed` (layers deployed), `leftover` (layers
with a Helm release in place that is not deployed), `late` (abandoned RPCs that Talos
may still serve). The directory: `boot`
(`inv.Bootstrap()`), `ckpt` (the checkpoint file: none, empty, or written for a
node). The process: `pc`, `todo`.

| Action | Code |
|---|---|
| `ApplyRefused`, `ResumeBootstrap`, `StartBootstrap`, `StartRolling` | `talos_apply.go`, `NeedsBootstrap`, `BootstrapPending` |
| `CreateCheckpoint`, `WriteCheckpoint` | `beginBootstrap`: `O_EXCL` creation, then the write |
| `ConfigureNode`, `KeepNode`, `UnexpectedStage`, `NodesDone` | `bootstrapTalosNodes` |
| `BootNodeInstalled`, `ProbeFinds...`, `Rpc...` | `waitForBootstrap` and its retry rules |
| `BootNodeRunning` .. `RemoveCheckpoint` | the rest of `RunBootstrap`, in its order |
| `ReleaseRefused` | `resumeHelmRelease`: a release that is there and not deployed ends this run and every later one |
| `RollingConfigure`, `RollingReady` | `RunApply` as far as first setup is concerned; its detail is `Rollout` |
| `WaitExpires`, `Interrupt` | an expired wait; a crash, kill or error anywhere |
| `EditInventory`, `ResolveRelease` | the operator, between runs: renames nodes; resolves the release a run has refused |
| `InstallDone`, `JoinEtcd`, `BootDone`, `BecomeReady`, `Reboot`, `Wipe`, `LateRpc` | the machines (external) |

The faults are `interrupt`, `unreachable` (etcd runs and does not answer), `lost`
(an RPC answer), `reboot`, `edit`, `wipe` (a disk); at most `MaxFaults` of them
occur in a behaviour. `InterruptPoints` says where an interruption may hit. One in a
step that installs charts (the base charts, the later charts, Flux: `HelmSteps`), which
may be a kill or a failed or expired installation, may leave the layer in `leftover`.

`FirstSetup` tells the same without process, machine stages, RPCs and charts. Its
`consent` is the checkpoint's node (none while the file is empty), its `members` are
the control planes with etcd data, its `deployed` is `installed`. Every retry, lost
answer and interruption is a stutter of it, and no step of it withdraws a consent before
all layers are deployed.

Assumed about Talos: the bootstrap RPC creates etcd data only on a configured node
that holds none; a configured control plane without data joins a cluster that
answers; nodes become ready only once the CNI is installed.

### 2.2 Rollout

Variables. The machines: `stage`, `etcd` (out, learner, voter), `config` (what each
node runs: old, staged for the next boot, new), `pending` (accepted a reboot, still
up), `kube`. The files, constant during a behaviour: `listed`, `fits` (which
desired images are within one minor release), `kubeFits`. The process: `pc`, `op`,
`talosOnly` (the Kubernetes upgrade was declined), `sel`, `todo`, `boot` (the boot
ID: none read, same, changed), `mode` (auto, no-reboot, insecure), `hosts` (members
the last guard saw), `asked` (nodes this run took down), `outcome`.

| Action | Code |
|---|---|
| `PreflightNode`, `PreflightRefuses`, `DryRun` | `PreflightUpgrade`, the dry run of the Kubernetes upgrade |
| `ReadStatus`, `AwaitReady`, `ReadBootID`, `Guard` | `ExecCmds` before the command; `controlPlaneGuard` is `MembershipHealthy`/`CanReboot` |
| `Apply`, `Upgrade`, `UpgradeReturns`, `Reset`, `CommandFails`, `Rejected` | the `talosctl` call |
| `AwaitReboot`, `AwaitRecovery`, `CheckMembership`, `WaitExpires` | `waitForReboot`, `waitForRecovery`, the second guard |
| `UpgradeKubernetes`, `NoControlPlaneAnswers` | `cmd/talos_upgrade.go` after the nodes |
| `GoDown`, `Boot`, `JoinEtcd`, `Promote`, `BecomeReady`, `Fail` | the machines (external) |

Faults: `fail` (a machine goes down by itself), `reject` (a `talosctl` call fails
without effect), `abandon` (the process ends, or gives up waiting, while a machine
is still at work), `race` (a boot or an etcd promotion completes in the few calls
between the guard and the command; without it, `NoRace` holds these two back in that
window).

Simplifications: `controlPlaneGuard` loops over the members but is one step here;
the kubeconfig fetched at the end of `RunApply` changes nothing the model has and
is left out; the desired configuration is the same for the whole behaviour.

### 2.3 Publication and ConfigSet

A directory is a record of the generation that wrote it and the files it holds.
`generated`, `backup` and `staged` are `talos/generated`, `talos/generated.previous`
and `talos/.generate-*/validated`. `Begin`, `RenderNode`, `WriteClient` stand for
`Generate` up to `publish`; `CheckBackup`, `SaveGenerated`, `InstallStaged`,
`InstallFails`, `Restore`, `DiscardFile`, `DiscardDirectory` for `publish`,
statement by statement, with `RemoveAll` file by file. `Stops` is any failing call
without a reaction of its own, or the end of the process. `InspectBackup` is what the
message "generation backup exists; inspect it before retrying" asks of the operator.

`ConfigSet` is the promise: a variable `current` that only grows, by `Publish`.
`Publication` implements it with `current` as the generation of `talos/generated`,
or of the backup while that is missing. The text of a document is not modelled;
rendering and validating one is a step that happens or does not.

### 2.4 RepoInit

`repo` is the repository, a record with one field per file or group of files; a file
that holds a key is `None`, `Torn` (created, nothing written) or the number of the
key. `tool` is the running command, its next step, and `firstInit`, which the code
reads once at the start and uses later. `made` counts keys so that new ones are
distinct. `completed` and `unmarked` are history for the properties.

| Action | Code |
|---|---|
| `Confirm`, `Decline`, `Gate`, `Decrypt`, `Stat` | `ConfirmInit`, `GenConfig`'s look at `RUNAGAIN`, `DecryptFiles`, the start of `InitFiles` |
| `AgeCreate`, `AgeWrite`, `RootFiles`, `Recipient` | `ageGen`, `genRootFiles` |
| `BaseSettings`, `BaseInventory`, `Mark` | `genBaseFiles` in its lexical order, `createRunAgainFile` |
| `CheckEnv`, `SecretsCreate`, `SecretsWrite` | `CheckEnvVariables`, `EnsureSecrets`, `checkExistingIdentity` |
| `Kubernetes`, `DeployKey`, `DeployCreate`, `DeployFill` | `genKubernetes`, `CreateGitSecret` |
| `SopsSecret`, `Kustomize`, `Hook`, `Unmark` | the rest of `InitFiles` |
| `Version`, `CheckGeneration`, `SaveGenerated`, `Install`, `Discard` | `genconfig`; `Publication` has the detail |
| `FillSettings`, `EncryptRepo`, `InspectBackup`, `RestoreKey`, `RestoreSecrets` | what the documentation and messages ask of the operator |
| `Stop`, `Clone`, `LoseSecrets` | the faults `stop`, `torn` (a stop inside of a file), `clone`, `lose` |

Simplifications: secret files are encrypted and decrypted together (`lock` is the
recipient they are encrypted for); copies of single template files are whole or
absent; the check for a legacy layout is left out, since it ends `init` before
anything changes; applications, Kustomizations and hook are one bit each.

`KeyRegister` is instantiated three times: for the age key, with the files and the
encryption that know it (`agekey`, `rules`, `lock`, `sopsAge`); for the deploy key; and
for the identity, with `secrets` and what was generated from it (`generated`, `backup`).
Only the identity may get lost altogether, by `LoseSecrets`.

Two situations the model leaves to the operator, because the code looks at less than
the property would need: an age key deleted while the repository is *decrypted* is
replaced by a new one although `.sops.yaml` keeps the old recipient; and an identity
lost exactly while `talos/generated` is missing between the two renames of `publish`
is replaced by a new one, because `checkExistingIdentity` looks at `talos/generated`
and not at its backup. `LoseSecrets` and the clone's way of losing keys are
restricted accordingly.

### 2.5 SopsFiles

`work`, `index` and `head` are the three copies git knows of each file that
`.sops.yaml` matches: plain text, cipher text, text encrypted twice (`"double"`), text
that does not parse or is refused (`"bad"`), or what a crash left (`"torn"`), each
with the number of the save it comes from. `run` holds what the two processes do: the
`terminal` (`encrypt` or `decrypt`) and the `hook` (`precommit`, inside of a
`git commit`). `saved` is the last save of each file, `damaged` the files a crash tore
or whose save was overwritten in the instant of a write; `touched` and `raced` observe
what happened beside a process.

| Action | Code |
|---|---|
| `StartCommand` | `EncryptAllFiles`/`DecryptFiles` up to the end of `ExecuteCheck`: all files are read first |
| `Read`, `Write` | one file of the loop: read and transform, then `os.WriteFile` |
| `Finish` | the loop's end |
| `StartCommit`, `StageAgain`, `CheckStaged` | the hook's list of staged files, its `git add` of them, its look at the work tree |
| `Add`, `Recheck`, `Commit` | staging what it encrypted, the second look, and git's commit of the index |
| `Crash` | a kill or a failed write, in the middle of a file or not |
| `Save`, `Delete`, `Repair`, `Stage` | the operator: an editor, `rm`, repairing what a message names, `git add` |

Simplifications: the cipher is perfect; entries are processed in any order; the
reading of all files at a start is one step, because saves in between are the same as
saves before; cipher text edited by hand and `git commit --no-verify` are left out.

### 2.6 ChartInstall

`Layers` is the sequence of layers `RunBootstrap` installs, each synchronous or
asynchronous. The cluster: `release` (absent, pending, deployed, failed), `ready`,
`namespaces`. The files all goroutines share, in Helm's directories: `repos`, the
repositories in the repository file, `garbled`, that it cannot be parsed, and `torn`,
the repositories whose cached index is cut off. The run: `layer`, and per chart `pc` and
`loaded` (what it read of the repository file). The approver: `approver`, `listed`; `csr`
is the latest certificate request of each node. `Http` are the charts of http(s)
repositories; the others, like all in the shipped templates, are `oci://` or local ones.

| Action | Code |
|---|---|
| `Inspect`, `KeptReady` | `resumeHelmRelease`: keep a deployed release, refuse any other |
| `FindNamespace`, `CreateNamespace` | `ensureNamespace`, whose "already exists" is passed over |
| `SharesFiles`, `Pull` | the two branches of `HelmPull`: only for http(s) it calls `updateHelmRepo` |
| `DownloadIndex`, `CacheIndex` | `DownloadIndexFile`: the cached index is truncated, then written |
| `LoadRepos`, `TruncateRepos`, `WriteRepos` | the rest of `updateHelmRepo`: without a lock, its errors passed over |
| `ReadRepos`, `PullFails` | `client.Run`: for http(s), Helm reads the repository file and the cached index of each repository in it |
| `Install`, `Deployed`, `Fails`, `WaitsInVain` | the end of the pull, and Helm's installation |
| `StartRun`, `NextLayer`, `LayerFails`, `Interrupt` | `RunBootstrap` around `InstallCharts` |
| `List`, `Approve` | `ApprovePendingCertificates` |
| `BecomeReady`, `Unready`, `Request`, `Deny`, `ChartApproves` | the cluster (external) |
| `Resolve`, `RepairFiles` | the operator removes a release, as the message of `resumeHelmRelease` asks; removes a repository file that cannot be parsed, or updates the indexes, as Helm's messages ask |

`HelmUpgrade` and `UpgradeCharts` have no caller; the merging of values is data. What
lies between two layers (joining nodes, health) is the guard of `NextLayer` and may
fail; `Bootstrap` has its detail. The two meet in `OrderedInstall`: with layers as items,
one after the other, it is part of `FirstSetup`; with charts as items and the charts a
chart has to wait for as `Before`, it is what `ChartInstall` implements.

### 2.7 Kustomize and EnvValues

Functions of their inputs, so there is no behaviour to explore and no run; what is
said of them is proved for every input.

`Kustomize`: a tree is the set of directories with a `ks.yaml` and the lines of each
`kustomization.yaml`; `Visit` is `ProcessDirectory` in one directory,
`ProcessDirectory` one pass, `genks` the two passes of `genks` and `init`. `Within`
stands for `strings.Contains` and is left open.

`EnvValues`: an address is its family and its value, a network its first and last
address; `CheckEnvVariables` is the conjunction of the code's checks, in its order.
The theorem shows by omission what is *not* asked: VIP and gateway may be one address,
and PODNET may overlap SVCNET.

## 3. Runs

| Run | Instance | States | What it shows |
|---|---|---|---|
| `Bootstrap` | 3 control planes, 1 worker; every fault but `wipe`, 4 of them | 274,392 | Setup never splits the control plane, bootstraps only a configured fleet, never locks the operator out of `apply`, and drops the checkpoint only when complete; refinement of `FirstSetup`: founded once, on the node of the recorded consent, layers in order |
| `BootstrapWiped` | as above; all faults but `lost`, 3 of them | 1,334,148 | Wiped disks and unanswered probes included, a *new* setup begins only where no control plane holds etcd data |
| `BootstrapLive` | as above; all but `wipe` and `edit`, 2 of them; no interruption inside the checkpoint's write | 105,228 | A setup that was begun completes, once the releases its interruptions left are resolved |
| `BootstrapLiveEtcd` | `interrupt`, `unreachable`, `wipe` | counterexample | Finding 2 |
| `BootstrapTorn` | interruption inside the checkpoint's write | counterexample | Finding 1 |
| `Rollout` | 3 control planes; `fail` and `reject`, 2 of them; all three commands | 2,349,901 | One machine down at a time; nothing upgraded before the whole preflight; the tool keeps etcd's majority and stops at the first failure; success means current |
| `RolloutLive` | 3 control planes, `upgrade` only; every fault, 2 of them | 193,632 | Races and abandoned runs included, an upgrade has one machine down at a time, leaves only upgraded nodes behind and upgrades Kubernetes last; repeating it completes it |
| `SopsFiles` | 2 files, one rule; 2 saves, deletions, decryptions, crashes or overlaps | 201,615 | Only cipher text gets into a commit; nothing lost; nothing encrypted twice; staging and committing suffices |
| `ChartInstall` | 3 layers of 2 charts: OCI charts at once, an OCI and an http one in turn, http charts at once; 2 certificate requests; every fault, 2 of them | 214,420 | Charts in order; never a second install; without a fault only http charts at once fail; certificate requests are served and decisions stand; repeating completes; refinement of `OrderedInstall` |
| `Publication` | 2 nodes, 4 generation runs | 412 | One whole set or a recoverable one; refinement of `ConfigSet` |
| `RepoInit` | all faults, 3 of them | 11,655 | One age key, one deploy pair; generation waits for init; init completes; refinement of `KeyRegister` for each of the three secrets |
| `RepoInitTorn` | one torn file | counterexample | Finding 3 |

**Bounds and why they are enough.** Three control planes are the least with a
majority that survives one loss, and the least in which the bootstrap node, a
joining control plane and a further one differ; the worker of `Bootstrap` is the node
whose configuration etcd does not need. Two control planes occur as well, since `Init`
lets any of the three be absent from etcd: the guard must refuse there. `Rollout` is
checked without workers, for its size; fleets with workers, and abandoned runs, are
covered by the theorems, whose invariants were checked on two control planes and a
worker too. Fault budgets: an interruption, a lost answer, an edit
and an unreachable etcd in one behaviour (4) is the longest combination the setup's
retry logic distinguishes; a lost identity after a clone after a stop is 3. In `SopsFiles` one file must be
the settings (`shamCheck` looks at them) and one not, and a race takes two acts: a save
or command, and what it meets. `ChartInstall` has two asynchronous layers, whose charts
share a namespace: one in which no pull touches shared files, one in which both do; and
a synchronous one between them. Two faults are a kill and another failure in the repeated
run; failures that need no fault, in the races for the shared files and where the CNI
has failed, come on top. For
`Publication`, four runs allow a whole set, a failed publication over it, a refused
one and a retry. Where a theorem is proved (section 5) the bounds are not part of
the result at all.

**Deadlock** is checked everywhere except in `Publication`, which stops after its
last run (`MaxRuns`), and in `ChartInstall`, which stops when setup is complete.

**Fairness.** Runs of safety alone use `Spec`, without any. `FairSpec` assumes

* weak fairness of the tool's own steps: a running process goes on (its waits have
  deadlines, `WaitExpires`);
* for `Bootstrap`, weak fairness of `Apply`: the operator runs `apply` again, as
  HOW_TO.md:185 tells, and of each machine's installing, booting, joining and
  becoming ready. Strong fairness of `ResolveRelease`: a release that an interruption
  left is refused by every run (`helm_resume.go:30`) until the operator follows its
  message, "resolve its Helm status before resuming bootstrap", and runs that fail may
  come before he does. Without it `BegunSetupCompletes` is false. Nothing is assumed
  about faults; their number is bounded;
* for `Rollout`, strong fairness of starting the upgrade of the whole inventory with
  Kubernetes: between runs it is enabled again and again, and any other run may
  intervene. Machines have strong fairness because `NoRace` disables a boot or a
  promotion for the few calls between guard and command;
* for `SopsFiles`, weak fairness of a started command, and strong fairness of
  staging, committing and repairing a file a message names: the operator keeps at it,
  and nobody has to run `encrypt`;
* for `ChartInstall`, weak fairness of each chart's installation (a goroutine goes on),
  of workloads coming up, of the approver and of running `apply` again; strong fairness
  of `Resolve` and `RepairFiles`, since a run may come between the operator and what is
  in the way; and of `ReadRepos`: goroutines that write the repository file together do
  not, in every run there is, garble it between another's write and its read;
* for `RepoInit`, strong fairness of starting and confirming `init`, filling in the
  settings and restoring what a message asks for: the operator may do anything in
  between, but does not give up. `SetupCompletes` holds where no file was torn,
  which `[]Untorn` states; a torn age key or identity blocks every later command
  with a message.

**What the rollout run does not claim.** `OneNodeAtATime`, `QuorumKept`,
`SuccessMeansCurrent` and `StopsAtFirstFailure` fail with `race`: a boot or a promotion
completed between guard and command changes what the guard has seen. The last three are
about what one run does and fail also with `abandon`: a reboot the abandoned run asked
for is still to come, the next run finds all members ready, and both nodes go down; the
code has no means to know. `OneNodeAtATime` holds with
abandoned runs. A race does harm in one way only: a node that reboots by itself between
`apply`'s look at its boot ID and the command has changed it already when the reboot the
command asks for is awaited. Without `apply-config` all four hold with races (section 5),
and what `upgrade` promises of its own nodes, `UpgradedOneByOne`, holds under every fault,
since `talosctl upgrade` returns only once the node runs the new image. `QuorumKept` exempts the case in which the guard met a single voter,
which may restart by design, even if another node is promoted before it does (that is
what `hosts` records); and machines that failed by themselves, for which the tool is
not responsible.

**What `SopsFiles` does not claim.** `OnlyEncryptedCommitted` and `EncryptedOnce` exempt
a commit beside which something was staged or another command wrote (`raced`): the hook
reads the work tree while git commits the index, so a `git add` within its run does get
plain text committed. `NothingLost` exempts files hit within the instant of a write.
`EncryptedOnce` needs one rule per file: `ExecuteCheck` lists a file once for every rule
that matches, so with overlapping rules `encrypt` encrypts it twice, although
`pkg/sops/encrypt.go:37` says "Skip files that are already encrypted". The template
`.sops.yaml` has no such rules.

**What `ChartInstall` and `BootstrapLive` do not claim.** Neither says that running
`apply` again is enough. An interruption inside Helm's installation leaves a pending or
failed release, which `helm_resume.go:30` refuses in every later run
(`TestResumeChecksReadinessWithoutInstalling`); HOW_TO.md:185 ("If setup is
interrupted, run apply again") does not mention it, the message of the refusal does.
`InstallationCompletes` and `BegunSetupCompletes` assume an operator who follows the
message.

Charts of http repositories installed at once do make each other fail. `updateHelmRepo`
truncates and rewrites the cached index of its repository (`helm.go:507`) and the shared
repository file (`helm.go:526`) without a lock, and the pull that follows
(`helm.go:107`) reads that file and every index it lists. A pull may meet an index that
is half written, and two overlapping writes may leave a repository file that cannot be
parsed, which then fails every http pull, of later runs too, until it is removed. So does
an index a kill has cut off, if the next download fails and is passed over.
`OnlyHttpChartsRace` confines this: without a fault nothing else fails (`Exposed` adds
the charts whose wait ends because the CNI lost such a race), and a lost pull leaves no
release to be refused. The shipped templates name `oci://` repositories only and do not
meet it. Workloads that stop being ready do so between runs only (`Unready`).

## 4. Findings

1. **A torn checkpoint blocks setup for good** (`BootstrapTorn`).
   `beginBootstrap` (`pkg/gencmd/bootstrap_state.go:83`) creates the checkpoint
   exclusively and writes it in a second call. A crash in between leaves an empty
   file that `BootstrapPending` cannot parse, so every later `apply` returns its
   error, while HOW_TO.md:185 says "If setup is interrupted, run apply again."
2. **Live etcd does not always decide** (`BootstrapLiveEtcd`).
   `pkg/gencmd/bootstrap_state.go:46` says "Live etcd still decides whether the
   bootstrap RPC is necessary on resume"; `waitForBootstrap`
   (`bootstrap_endpoint.go:104`) takes any round of unanswered probes for the absence
   of etcd. If the bootstrap node was reset meanwhile, a second cluster is founded
   beside the running one. As long as no disk is wiped the comment is right
   (`LiveEtcdDecidesHolds`).
3. **A torn deploy key counts as a deploy key** (`RepoInitTorn`).
   `CreateGitSecret` (`pkg/fluxhandler/sshsecretgen.go:38`) asks only whether the
   Secret's file exists. If its write failed, the repeated `init` keeps the empty
   file, completes and removes `RUNAGAIN`; HOW_TO.md:71 says that the marker remains
   until init completes so that a failed setup can be retried.

## 5. Proofs

The theorems hold for every set of nodes, every number of faults and runs, and every
choice of fault kinds, unless an assumption is named.

**`Bootstrap_proofs`.** Assumed: `NodesAssumption`, `FaultsAssumption` of the module;
for the theorems below the line also `NoWipe`, no disk is wiped.

* `TypeCorrect`, `NewSetupHolds`, `LayersDeployedInOrderHolds` (all faults, wiped disks
  included). The second follows from `WipedInv`:
  who holds etcd data has booted, so all control planes in maintenance at the
  decision means no etcd data, and nothing but the tool itself acts on a node in
  maintenance before the checkpoint exists. The third follows from `LayersInv`, which
  relates the layers deployed to the step of the run and needs nothing of the machines:
  a second cluster may be founded beside a wiped node, but no layer is skipped.
* with `NoWipe`: `SingleClusterHolds`, `FleetConfiguredHolds`, `TouchedFleetHolds`,
  `FoundedUnderConsentHolds`, `CheckpointKeptHolds`, `LiveEtcdDecidesHolds`,
  `ApplyIsOpenHolds`, and `Implementation`: first setup implements `FirstSetup`. None of the properties is
  inductive: that no second cluster appears depends on who may still receive an RPC.
  `IInv` adds `MembersInv` (at most one cluster, every member of it booted and
  still there), `TargetsInv` (whoever may receive an RPC is the founder already, or
  the node of the checkpoint of a fleet without etcd), `StepInv` (what each step
  knows of the checkpoint), `FleetInv` (which nodes have been configured at each
  step) and `ProgressInv` (which nodes have been awaited, which layers deployed).
  One lemma per group of steps shows that it is kept. `FoundingStep` shows that a
  step which creates a cluster finds none; it is what makes such a step a `Found` of
  `FirstSetup`, and every other step that gives a node etcd data a `Join`
  (`EtcdImplements`). `ConsentImplements` and `LayerImplements` map the checkpoint's
  creation and removal and the layers; `OthersStutter` has the rest.

**`Publication_proofs`.** `IInv` has `DiskInv` (if `talos/generated` is missing, the
backup is whole, and otherwise the backup is older), `StagedInv` (what is staged is younger
than both and whole from `check` on) and `PublishInv` (where the two directories are at
each statement of `publish`). From it follow `TypeCorrect`, `OnlyWholeSetsHolds`,
`BackupGivenUpHolds` and `Implementation`: every step of `Publication` is a `Publish`
of `ConfigSet` or leaves `current` alone.

**`RepoInit_proofs`.** No assumption about faults. `IInv` has `StepInv` (what each
step knows), `KeyInv` (a missing age key is either not needed yet or known to be
needed, because files are encrypted for the recipient in `.sops.yaml`), `IdentityInv`
(an identity is born beside no generated files), `DeployInv` (the state of the two
halves of the deploy key at each step) and `MarkInv` (a repository with settings is
marked, complete, or has lost its marker). From it follow `TypeCorrect`,
`OneAgeKeyHolds`, `OneIdentityHolds`, `PairedDeployKeyHolds`,
`GenerationAwaitsInitHolds` and `KeyRegistersHold`. That a key is never exchanged is
more than that there is one at a time: it also says that the last copy does not go
before a new key is made. `AgeStep`, `DeployStep` and `IdentityStep` show that each
register only sees `Record` when it is empty; `LossInv` adds to `IInv` that generated files
are without their identity only where such a loss is among the faults.

**`Rollout_proofs`.** For all fleets, workers included. `TypeCorrect` and
`NothingUpgradedBeforePreflightHolds` need no assumption, and neither does
`UpgradedOneByOneHolds`: `UpgradeInv` says that a run of `upgrade` has left only upgraded
nodes behind, without a reboot to come, and that only the node it waits for is down for
it. `OneNodeAtATimeHolds` assumes
`Calm` (no races, or no `apply-config`; abandoned runs are allowed): `OneAtATimeInv` adds to the types that a machine
whose accepted reboot is still to come is up (`PendingUp`), that a machine this run took
down is the one it waits for (`DownAwaited`) and that the boot ID tells whether it has
rebooted (`BootIDTells`). `QuorumKeptHolds`, `SuccessMeansCurrentHolds` and
`StopsAtFirstFailureHolds` assume `NoAbandoning` as well, from `SettledInv`: between
nodes no reboot is outstanding (`NoneLeft`), whoever is to reboot has been allowed to by
the guard (`RebootAllowed`, `GuardedIsMember`, `EnoughVoters`: there are three voters or
more, or a lone member), and every node that is done runs, or is about to run, the desired configuration
(`ConfigOnItsWay`, `FinishedAsDesired`, `EndsDone`). Why the two assumptions are needed
is said in section 3.

**`SopsFiles_proofs`.** For all files, rules and faults, and any number of saves:
`TypeCorrect`, `NothingLostHolds`, `EncryptLeavesNoPlainHolds`,
`OnlyEncryptedCommittedHolds`; with `OneRulePerFile` also `EncryptedOnceHolds`. The
inductive invariant adds that what a process is about to write is the last save of its
file (`WritesLastSave`), that the hook works only on what it has listed
(`HookWorksOnListed`), and that, unraced, what it lets through is encrypted in the index:
staged files are listed or encrypted there, and a listed file that is encrypted in the
work tree is so in the index (`HookTracksIndex`); `TodoIsOpen` says that
what is still to be encrypted is not encrypted.

**`ChartInstall_proofs`.** For all sequences of layers: `TypeCorrect`,
`InstalledInOrderHolds`, `AlwaysAnApproverHolds`, `OnlyHttpChartsRaceHolds`,
`NeverASecondInstallHolds`, `DecisionsStandHolds`, and `Implementation` of
`OrderedInstall`, with the deployed releases as `deployed`: whatever runs at once, is killed
or resumed, each step deploys one chart whose predecessors are all deployed
(`DeployedImplements`), or none. The invariant says which release each
step of an installation stands for (`StepsMatchReleases`), that all layers below the
current one are installed (`LayersBelowInstalled`), that nothing is under way without a
run (`NothingWithoutRun`), what becomes of the shared files (`FilesInv`: only http charts
touch them, a chart that races with none finds the repository file as it has left it, and
a garbled file is the work of a racing chart that is not installed yet), and that without
a fault an index is cut off only while it is written and nothing but a lost race is in a
state the next run would refuse (`CleanWithoutFault`). `SharersRace` is the heart of
`OnlyHttpChartsRaceHolds`: of two charts that touch the shared files at one time, both
are racing.

**`Kustomize_proofs`.** `VisitIsLocal`: the visits of one pass do not disturb each other,
so a pass may be defined as all of them at once. `TwoPassesListEverything`: afterwards
every entry is listed once, by its `ks.yaml` where it has one. `TwoPassesAreEnough`: a
third pass changes nothing. `InterruptedPassCanBeRepeated`. Assumed: no listing names a
deleted `ks.yaml` (`NoneStale`), and no entry is taken for listed because its name occurs
within another (`NothingHidden`). The latter is a real limit of the code: a directory
`system` added beside a listed `flux-system` is never listed. `DistinctNamesHideNothing`
gives a condition on the names that is enough.

**`EnvValues_proofs`.** `ThreeAddressesDecide`: either end of the range lies in the
network or the network's base in the range, exactly if they overlap.
`AcceptsExactlyDisjoint`: `CheckEnvVariables` accepts exactly the settings in which
nodes, VIP and gateway, range and networks share no address and headlamp lies in the
range.

**Only model-checked:** all liveness (`BegunSetupCompletes`, `RepeatedUpgradeCompletes`,
`SetupCompletes`, `SavedIsCommitted`, `InstallationCompletes`), since proofs of liveness
under fairness are beyond the provers. Every other property of a passing run is proved,
the exceptions being named in section 3 by their assumptions. Conversely a few theorems
state what no run lists, because a listed property implies it or says it in part:
`TouchedFleetHolds`, `FoundedUnderConsentHolds`, `OneIdentityHolds`,
`LayersDeployedInOrderHolds`, `LiveEtcdDecidesHolds`. TLC finds no counterexample to them
on the instances of section 3 (with wiped disks for the layers, without for the others).

## 6. Not modelled, and why

* Flags, help texts, logging, version information, unpacking of embedded files: no
  state that matters to a later command.
* The text of Talos documents and patches, YAML merging, templates: data.
* The schematic question before `apply`: reads only, and a refusal ends the command
  before anything changes.
* Time. Waits expire or succeed; that deadlines are long enough is not a question for
  these models.
* Two clustertool processes in one repository, which HOW_TO.md:178 excludes. With two
  concurrent generations the promise of `ConfigSet` would depend on the file by file
  removal of the backup.
* An inventory edited *during* a run (between `LoadInventory` and the checkpoint).
* The polling of `pkg/nodestatus`, and parsing of `talosctl` output: a read succeeds or
  not, a wait succeeds or expires. Nothing is kept between two polls.
* Parsing and field validation of `clustertool.yaml` and the settings: they end a
  command before it changes anything. The checks of addresses are `EnvValues`.
* Merging of Helm values; `HelmUpgrade` and `UpgradeCharts`, which nothing calls.
* The installation of Flux in `pkg/fluxhandler/bootstrap.go`: manifests applied and
  awaited in a fixed order and charts installed by `InstallCharts`, one step of
  `Bootstrap`, which may leave a refused release like the layers before it.
* Truncated Kustomization files, and the order of their lines.

## 7. Plan

What has been left for later work, in this order:

1. `Kustomize` as a state machine with an operator who adds, renames and removes
   applications and with torn files: which trees never converge.
2. The composition of `Bootstrap` with `ChartInstall`: the step `InstallLayers` as the
   abstraction of a run of `ChartInstall`, with `leftover` as the layers of its refused
   releases.
3. The composition of `RepoInit` with `Publication` (its `save`/`install`/`discard` as a
   refinement), and with a committed clone in `SopsFiles`.
4. For `SopsFiles`, an abstract repository of plain texts that encryption is invisible in.
