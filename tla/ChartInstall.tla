------------------------------ MODULE ChartInstall ------------------------------
(***************************************************************************)
(* The second half of first setup: layer after layer of Helm charts, and   *)
(* the approval of certificate requests beside the first of them.          *)
(*                                                                         *)
(* InstallCharts installs the charts of a layer one after the other, or    *)
(* each in a goroutine of its own.  An installation looks for the release, *)
(* and keeps it, or makes its namespace, pulls the chart and has Helm      *)
(* install it.  For a chart of an http repository two kinds of files that  *)
(* all goroutines share are rewritten before, and read by the pull: the    *)
(* cached index of the repository, and the list of all repositories.       *)
(*                                                                         *)
(* A run can be killed anywhere, and calls can fail or time out.  What it  *)
(* leaves in the cluster, deployed, failed and pending releases, is what   *)
(* the next run finds.                                                     *)
(***************************************************************************)
EXTENDS Integers, Sequences, Functions

CONSTANTS
  Layers,       \* sequence of [charts |-> sequence of charts, async |-> BOOLEAN]
  Awaited,      \* charts installed with Wait
  Cni,          \* the chart the pods of every other one need
  CsrApprover,  \* the chart that approves certificate requests afterwards
  NamespaceOf,  \* by chart
  RepoOf,       \* by chart: the repository, as named in the repository file
  Http,         \* charts of http(s) repositories; the others are OCI or local
  Nodes,        \* kubelets that request certificates
  MaxRequests,  \* bound on certificate requests of a node
  FaultKinds,   \* subset of Kinds
  MaxFaults     \* bound on faults

Kinds == {"interrupt",   \* the run is killed
          "timeout",     \* a wait for a release's workloads ends after 15 minutes
          "error",       \* a pull, or a call of the API server, fails
          "deny",        \* someone denies a certificate request
         "restart"}     \* between two runs, workloads of a chart stop being ready

ChartsOf(l) == Range(Layers[l].charts)
Charts == UNION {ChartsOf(l) : l \in DOMAIN Layers}
Numbers == 1..Len(Layers)

ASSUME ChartsAssumption ==
  /\ Layers \in Seq([charts : Seq(STRING), async : BOOLEAN]) /\ Layers # <<>>
  /\ DOMAIN NamespaceOf = Charts /\ DOMAIN RepoOf = Charts
  /\ Awaited \subseteq Charts /\ Http \subseteq Charts
  /\ \A l, k \in Numbers : l # k => ChartsOf(l) \cap ChartsOf(k) = {}
  /\ {Cni, CsrApprover} \subseteq ChartsOf(1) \cap Awaited
  /\ MaxRequests \in Nat /\ MaxFaults \in Nat /\ FaultKinds \subseteq Kinds

VARIABLES
  release,      \* by chart: what Helm keeps in the cluster
  ready,        \* charts whose workloads run, of those somebody waits for
  namespaces,   \* namespaces of the cluster
  repos,        \* repositories in the shared repository file
  garbled,      \* that file cannot be parsed
  torn,         \* repositories whose cached index is cut off
  layer,        \* the layer being installed; 0: no run
  pc,           \* by chart: the next step of its installation in this run
  loaded,       \* by chart: the repository file as it has read it
  complete,     \* a run has come to its end
  csr,          \* by node: its latest certificate request
  approver,     \* off, on, or told to stop
  listed,       \* requests the approver has listed and not yet dealt with
  faults

cluster == <<release, ready, namespaces>>
files == <<repos, garbled, torn>>
tool == <<layer, pc, loaded, complete, files>>
certificates == <<csr, approver, listed>>
vars == <<cluster, tool, certificates, faults>>

-----------------------------------------------------------------------------
Fault(kind) == kind \in FaultKinds /\ faults < MaxFaults /\ faults' = faults + 1

NoRequest == [id |-> 0, status |-> "none"]

Init ==
  /\ release = [c \in Charts |-> "absent"] /\ ready = {} /\ namespaces = {}
  /\ repos = {} /\ garbled = FALSE /\ torn = {} /\ layer = 0 /\ complete = FALSE
  /\ pc = [c \in Charts |-> "waiting"] /\ loaded = [c \in Charts |-> {}]
  /\ csr = [n \in Nodes |-> NoRequest] /\ approver = "off" /\ listed = {}
  /\ faults = 0

-----------------------------------------------------------------------------
(* The installation of one chart.                                           *)

Goto(c, step) == pc' = [pc EXCEPT ![c] = step]

(* A bug: a layer's goroutines are started whether it is asynchronous or not. *)
StartTogether(c) == layer # 0 /\ c \in ChartsOf(layer)

(* Asynchronous charts start at once, the others after their predecessor.   *)
MayStart(c) ==
  /\ layer # 0 /\ c \in ChartsOf(layer)
  /\ LET l == Layers[layer]
     IN l.async \/ \A i \in DOMAIN l.charts :
          l.charts[i] = c => \A j \in 1..(i - 1) : pc[l.charts[j]] = "done"

(* A bug: a deployed release is kept without a wait.                        *)
KeepUnawaited(c) ==
  /\ pc[c] = "waiting" /\ MayStart(c)
  /\ Goto(c, CASE release[c] = "absent"   -> "namespace"
               [] release[c] = "deployed" -> "done"
               [] OTHER                   -> "failed")
  /\ UNCHANGED <<cluster, layer, loaded, complete, files, certificates, faults>>

(* A bug: only a deployed release counts as one.                            *)
InstallOverUndeployed(c) ==
  /\ pc[c] = "waiting" /\ MayStart(c)
  /\ Goto(c, CASE release[c] # "deployed" -> "namespace"
               [] c \in Awaited           -> "await"
               [] OTHER                   -> "done")
  /\ UNCHANGED <<cluster, layer, loaded, complete, files, certificates, faults>>

(* A bug: any existing release is an error.                                 *)
RefuseExisting(c) ==
  /\ pc[c] = "waiting" /\ MayStart(c)
  /\ Goto(c, IF release[c] = "absent" THEN "namespace" ELSE "failed")
  /\ UNCHANGED <<cluster, layer, loaded, complete, files, certificates, faults>>

(* resumeHelmRelease: a release that is not deployed is an error, a         *)
(* deployed one is kept, and awaited like a new one.                        *)
Inspect(c) ==
  /\ pc[c] = "waiting" /\ MayStart(c)
  /\ Goto(c, CASE release[c] = "absent"                       -> "namespace"
               [] release[c] = "deployed" /\ c \in Awaited    -> "await"
               [] release[c] = "deployed" /\ c \notin Awaited -> "done"
               [] OTHER                                       -> "failed")
  /\ UNCHANGED <<cluster, layer, loaded, complete, files, certificates, faults>>

KeptReady(c) ==
  /\ pc[c] = "await" /\ c \in ready
  /\ Goto(c, "done")
  /\ UNCHANGED <<cluster, layer, loaded, complete, files, certificates, faults>>

(* A bug: HelmPull updates the repository of every chart.                   *)
SharesAlways(c) == TRUE

(* HelmPull has two branches: only a chart of an http repository touches    *)
(* the shared files.                                                        *)
SharesFiles(c) == c \in Http

Pull(c) == Goto(c, IF SharesFiles(c) THEN "index" ELSE "pull")

(* ensureNamespace: asked for, and created if the answer is not that it     *)
(* exists; that it exists by then is an error that is passed over.          *)
FindNamespace(c) ==
  /\ pc[c] = "namespace"
  /\ \/ UNCHANGED faults
        /\ IF NamespaceOf[c] \in namespaces THEN Pull(c) ELSE Goto(c, "create")
     \/ Fault("error") /\ Goto(c, "create")
  /\ UNCHANGED <<cluster, layer, loaded, complete, files, certificates>>

CreateNamespace(c) ==
  /\ pc[c] = "create"
  /\ namespaces' = namespaces \cup {NamespaceOf[c]}
  /\ Pull(c)
  /\ UNCHANGED <<release, ready, layer, loaded, complete, files, certificates, faults>>

(* updateHelmRepo, without a lock, and with its errors passed over.  The    *)
(* downloaded index is written in place: truncated first, then written.     *)
DownloadIndex(c) ==
  /\ pc[c] = "index"
  /\ \/ torn' = torn \cup {RepoOf[c]} /\ Goto(c, "cache") /\ UNCHANGED faults
     \/ Fault("error") /\ Goto(c, "pull") /\ UNCHANGED torn
  /\ UNCHANGED <<cluster, layer, loaded, complete, repos, garbled, certificates>>

CacheIndex(c) ==
  /\ pc[c] = "cache"
  /\ torn' = torn \ {RepoOf[c]} /\ Goto(c, "load")
  /\ UNCHANGED <<cluster, layer, loaded, complete, repos, garbled, certificates, faults>>

(* The repository file is read, and truncated and written with one more     *)
(* repository.                                                              *)
LoadRepos(c) ==
  /\ pc[c] = "load"
  /\ IF garbled
     THEN Goto(c, "pull") /\ UNCHANGED loaded
     ELSE Goto(c, "store") /\ loaded' = [loaded EXCEPT ![c] = repos]
  /\ UNCHANGED <<cluster, layer, complete, files, certificates, faults>>

TruncateRepos(c) ==
  /\ pc[c] = "store"
  /\ repos' = {} /\ garbled' = FALSE /\ Goto(c, "write")
  /\ UNCHANGED <<cluster, layer, loaded, complete, torn, certificates, faults>>

(* What another goroutine has written since the truncation is overwritten   *)
(* from its beginning; the rest of it may stay, as entries or as garbage.   *)
WriteRepos(c) ==
  /\ pc[c] = "write"
  /\ LET own == loaded[c] \cup {RepoOf[c]}
     IN \/ /\ \E kept \in SUBSET repos : repos' = own \cup kept
           /\ garbled' = FALSE
        \/ (repos # {} \/ garbled) /\ repos' = own /\ garbled' = TRUE
  /\ loaded' = [loaded EXCEPT ![c] = {}] /\ Goto(c, "pull")
  /\ UNCHANGED <<cluster, layer, complete, torn, certificates, faults>>

(* client.Run: for a chart of an http repository, the pull reads the        *)
(* repository file and looks through the cached index of each repository in *)
(* it; an OCI reference or a local path needs neither.                      *)
ReadRepos(c) ==
  /\ pc[c] = "pull" /\ SharesFiles(c) /\ ~garbled
  /\ loaded' = [loaded EXCEPT ![c] = repos] /\ Goto(c, "scan")
  /\ UNCHANGED <<cluster, layer, complete, files, certificates, faults>>

(* A file that cannot be parsed, or an index that is cut off: the pull      *)
(* fails, and nothing has been stored in the cluster yet.                   *)
PullFails(c) ==
  /\ \/ pc[c] = "pull" /\ SharesFiles(c) /\ garbled
     \/ pc[c] = "scan" /\ loaded[c] \cap torn # {}
  /\ Goto(c, "failed")
  /\ UNCHANGED <<cluster, layer, loaded, complete, files, certificates, faults>>

(* Otherwise, or if the chart is found before the index that is cut off, or *)
(* what is there of that can be parsed, Helm has the chart, and stores the  *)
(* release and its resources.                                               *)
Install(c) ==
  /\ pc[c] = IF SharesFiles(c) THEN "scan" ELSE "pull"
  /\ release' = [release EXCEPT ![c] = "pending"] /\ Goto(c, "install")
  /\ loaded' = [loaded EXCEPT ![c] = {}]
  /\ UNCHANGED <<ready, namespaces, layer, complete, files, certificates, faults>>

Deployed(c) ==
  /\ pc[c] = "install" /\ (c \in Awaited => c \in ready)
  /\ release' = [release EXCEPT ![c] = "deployed"] /\ Goto(c, "done")
  /\ UNCHANGED <<ready, namespaces, layer, loaded, complete, files, certificates, faults>>

(* Nothing is stored in the cluster before the installation proper; what    *)
(* fails then leaves a failed release.                                      *)
Fail(c) ==
  /\ release' = IF pc[c] = "install" THEN [release EXCEPT ![c] = "failed"] ELSE release
  /\ Goto(c, "failed")
  /\ UNCHANGED <<ready, namespaces, layer, loaded, complete, files, certificates>>

Fails(c) ==
  /\ \/ pc[c] = "waiting" /\ MayStart(c) /\ Fault("error")
     \/ pc[c] \in {"create", "pull", "install"} /\ Fault("error")
     \/ pc[c] \in {"await", "install"} /\ Fault("timeout")
  /\ Fail(c)

(* A wait ends too when what it waits for cannot come: the CNI has failed.  *)
WaitsInVain(c) ==
  /\ pc[c] \in {"await", "install"} /\ c \in Awaited \ ready
  /\ Cni \notin ready /\ release[Cni] = "absent" /\ pc[Cni] = "failed"
  /\ Fail(c) /\ UNCHANGED faults

ChartStep(c) ==
  \/ Inspect(c) \/ KeptReady(c) \/ FindNamespace(c) \/ CreateNamespace(c)
  \/ DownloadIndex(c) \/ CacheIndex(c) \/ LoadRepos(c) \/ TruncateRepos(c) \/ WriteRepos(c)
  \/ ReadRepos(c) \/ PullFails(c) \/ Install(c) \/ Deployed(c) \/ WaitsInVain(c)

-----------------------------------------------------------------------------
(* The run: from layer to layer.                                            *)

StartRun ==
  /\ layer = 0 /\ ~complete
  /\ layer' = 1 /\ approver' = "on" /\ listed' = {}
  /\ pc' = [c \in Charts |-> "waiting"] /\ loaded' = [c \in Charts |-> {}]
  /\ UNCHANGED <<cluster, complete, files, csr, faults>>

(* A bug: the approver is left listing when the run ends.                   *)
ForgetApprover ==
  /\ layer' = 0 /\ listed' = {} /\ UNCHANGED approver
  /\ pc' = [c \in Charts |-> "waiting"] /\ loaded' = [c \in Charts |-> {}]

(* The process ends, and its goroutines with it.                            *)
EndRun ==
  /\ layer' = 0 /\ approver' = "off" /\ listed' = {}
  /\ pc' = [c \in Charts |-> "waiting"] /\ loaded' = [c \in Charts |-> {}]

(* After the first layer the nodes join and the cluster is healthy; the     *)
(* approver is told to stop.                                                *)
NextLayer ==
  /\ layer # 0 /\ \A c \in ChartsOf(layer) : pc[c] = "done"
  /\ IF layer < Len(Layers)
     THEN /\ layer' = layer + 1
          /\ approver' = IF approver = "on" THEN "stop" ELSE approver
          /\ UNCHANGED <<pc, loaded, complete, listed>>
     ELSE EndRun /\ complete' = TRUE
  /\ UNCHANGED <<cluster, files, csr, faults>>

(* An asynchronous layer ends when all its goroutines have returned, a      *)
(* synchronous one at its first failure.  A check between two layers may    *)
(* fail too.                                                                *)
LayerFails ==
  /\ layer # 0
  /\ \/ /\ \E c \in ChartsOf(layer) : pc[c] = "failed"
        /\ Layers[layer].async => \A c \in ChartsOf(layer) : pc[c] \in {"done", "failed"}
        /\ UNCHANGED faults
     \/ (\A c \in ChartsOf(layer) : pc[c] = "done") /\ Fault("error")
  /\ EndRun
  /\ UNCHANGED <<cluster, complete, files, csr>>

Interrupt ==
  /\ layer # 0 /\ Fault("interrupt") /\ EndRun
  /\ UNCHANGED <<cluster, complete, files, csr>>

-----------------------------------------------------------------------------
(* ApprovePendingCertificates: list, then approve what had no condition.    *)

(* A bug: the approver ends with its first round.                           *)
ListOnce ==
  /\ approver # "off" /\ listed = {}
  /\ approver' = "off"
  /\ listed' = {<<n, csr[n].id>> : n \in {m \in Nodes : csr[m].status = "pending"}}
  /\ UNCHANGED <<cluster, tool, csr, faults>>

List ==
  /\ approver # "off" /\ listed = {}
  /\ IF approver = "stop"
     THEN approver' = "off" /\ UNCHANGED listed
     ELSE /\ listed' = {<<n, csr[n].id>> : n \in {m \in Nodes : csr[m].status = "pending"}}
          /\ UNCHANGED approver
  /\ UNCHANGED <<cluster, tool, csr, faults>>

(* A bug: the approval does not carry the version that was listed.          *)
ApproveUnversioned(n) ==
  /\ \E q \in listed : q[1] = n
  /\ csr' = [csr EXCEPT ![n].status = "approved"]
  /\ listed' = {q \in listed : q[1] # n}
  /\ UNCHANGED <<cluster, tool, approver, faults>>

(* The update carries the version that was listed: the API server refuses   *)
(* it when the request has changed since.                                   *)
Approve(n) ==
  /\ \E r \in listed : r[1] = n
  /\ csr' = IF csr[n].status = "pending" /\ <<n, csr[n].id>> \in listed
            THEN [csr EXCEPT ![n].status = "approved"] ELSE csr
  /\ listed' = {r \in listed : r[1] # n}
  /\ UNCHANGED <<cluster, tool, approver, faults>>

-----------------------------------------------------------------------------
(* The cluster and the operator.                                            *)

BecomeReady(c) ==
  /\ release[c] # "absent" /\ c \in Awaited \ ready
  /\ c = Cni \/ Cni \in ready
  /\ ready' = ready \cup {c}
  /\ UNCHANGED <<release, namespaces, tool, certificates, faults>>

Unready(c) ==
  /\ layer = 0 /\ ~complete /\ c \in ready /\ Fault("restart")
  /\ ready' = ready \ {c}
  /\ UNCHANGED <<release, namespaces, tool, certificates>>

Request(n) ==
  /\ csr[n].id < MaxRequests /\ csr[n].status # "pending"
  /\ csr' = [csr EXCEPT ![n] = [id |-> @.id + 1, status |-> "pending"]]
  /\ UNCHANGED <<cluster, tool, approver, listed, faults>>

Deny(n) ==
  /\ csr[n].status = "pending" /\ Fault("deny")
  /\ csr' = [csr EXCEPT ![n].status = "denied"]
  /\ UNCHANGED <<cluster, tool, approver, listed>>

ChartApproves(n) ==
  /\ CsrApprover \in ready /\ csr[n].status = "pending"
  /\ csr' = [csr EXCEPT ![n].status = "approved"]
  /\ UNCHANGED <<cluster, tool, approver, listed, faults>>

(* "Resolve its Helm status": the operator removes the release.             *)
Resolve(c) ==
  /\ layer = 0 /\ release[c] \in {"pending", "failed"}
  /\ release' = [release EXCEPT ![c] = "absent"] /\ ready' = ready \ {c}
  /\ UNCHANGED <<namespaces, tool, certificates, faults>>

(* A repository file that cannot be parsed, or a cached index cut off by a  *)
(* kill, fails pulls in later runs too.  The operator removes the one, and  *)
(* updates the other, as Helm's message asks.                               *)
RepairFiles ==
  /\ layer = 0 /\ (garbled \/ torn # {})
  /\ repos' = (IF garbled THEN {} ELSE repos) /\ garbled' = FALSE /\ torn' = {}
  /\ UNCHANGED <<cluster, layer, pc, loaded, complete, certificates, faults>>

-----------------------------------------------------------------------------
Certificates(n) == Approve(n) \/ ChartApproves(n)

Next ==
  \/ \E c \in Charts : ChartStep(c) \/ Fails(c) \/ BecomeReady(c)
                     \/ Unready(c) \/ Resolve(c)
  \/ StartRun \/ NextLayer \/ LayerFails \/ Interrupt
  \/ RepairFiles \/ List
  \/ \E n \in Nodes : Certificates(n) \/ Request(n) \/ Deny(n)

Spec == Init /\ [][Next]_vars

(* Goroutines go on, workloads come up, and the operator runs apply again.  *)
AgainSpec ==
  /\ Spec
  /\ \A c \in Charts : WF_vars(ChartStep(c)) /\ WF_vars(BecomeReady(c))
  /\ WF_vars(StartRun) /\ WF_vars(NextLayer \/ LayerFails) /\ WF_vars(List)
  /\ \A n \in Nodes : WF_vars(Certificates(n))

(* He also resolves the releases a failed run names, and repairs the shared *)
(* files.  And goroutines that write the repository file together do not    *)
(* garble it between another's write and read in every run there is.        *)
FairSpec ==
  /\ AgainSpec /\ SF_vars(\E c \in Charts : Resolve(c)) /\ SF_vars(RepairFiles)
  /\ SF_vars(\E c \in Charts : ReadRepos(c))

-----------------------------------------------------------------------------
(* Properties.                                                              *)

Steps == {"waiting", "await", "namespace", "create", "index", "cache", "load", "store",
          "write", "pull", "scan", "install", "done", "failed"}
Requests == [id : Nat, status : {"none", "pending", "approved", "denied"}]

(* Every variable has its type; nothing is under way without a run, and     *)
(* nothing outside the layer being installed.                               *)
TypeOK ==
  /\ release \in [Charts -> {"absent", "pending", "deployed", "failed"}]
  /\ ready \subseteq Awaited /\ namespaces \subseteq Range(NamespaceOf)
  /\ repos \subseteq Range(RepoOf) /\ garbled \in BOOLEAN /\ torn \subseteq Range(RepoOf)
  /\ layer \in 0..Len(Layers) /\ complete \in BOOLEAN
  /\ pc \in [Charts -> Steps]
  /\ loaded \in [Charts -> SUBSET Range(RepoOf)]
  /\ csr \in [Nodes -> Requests] /\ approver \in {"off", "on", "stop"}
  /\ listed \subseteq Nodes \X Nat /\ faults \in Nat
  /\ \A c \in Charts : pc[c] \notin {"waiting", "done"} => layer # 0 /\ c \in ChartsOf(layer)
  /\ layer = 0 => approver = "off"

Installed(c) == release[c] = "deployed" /\ (c \in Awaited => c \in ready)

(* What is installed before a chart: earlier layers, and its predecessors   *)
(* in a synchronous layer.                                                  *)
Predecessors ==
  [c \in Charts |->
     {d \in Charts : \E k, l \in Numbers :
        /\ d \in ChartsOf(k) /\ c \in ChartsOf(l)
        /\ \/ k < l
           \/ /\ k = l /\ ~Layers[l].async
              /\ \E i, j \in DOMAIN Layers[l].charts :
                   i < j /\ Layers[l].charts[i] = d /\ Layers[l].charts[j] = c}]

Before(c) == Predecessors[c]

(* No chart is begun, in the first run or in a resumed one, before those    *)
(* ahead of it are deployed and, if they are awaited, ready; setup is only  *)
(* complete when all are.                                                   *)
InstalledInOrder ==
  /\ \A c \in Charts : pc[c] # "waiting" => \A d \in Before(c) : Installed(d)
  /\ complete => \A c \in Charts : Installed(c)

(* What installing promises, told without goroutines, Helm's releases and    *)
(* repeated runs: charts are deployed one after the other in their order,    *)
(* and none is lost again by a failing, killed or repeated run.              *)
Abstract == INSTANCE OrderedInstall WITH
  Items    <- Charts,
  deployed <- {c \in Charts : release[c] = "deployed"}

ImplementsOrderedInstall == Abstract!Spec

(* "Never issue a second install": over a release of whatever status, of    *)
(* this run or an earlier one, no other is made.                            *)
NeverASecondInstall ==
  [][\A c \in Charts :
        pc[c] # "install" /\ pc'[c] = "install" => release[c] = "absent"]_pc

(* While charts are installed, somebody approves certificate requests: the  *)
(* run does, until the chart made for it is ready to take over.             *)
AlwaysAnApprover ==
  layer # 0 => approver = "on" \/ CsrApprover \in ready

(* A decision is final: a request denied after it was listed, or replaced   *)
(* by a new one, is not approved from the old list.                         *)
DecisionsStand ==
  [][\A n \in Nodes : csr'[n] # csr[n] /\ csr[n].status # "pending" =>
        csr'[n].id = csr[n].id + 1 /\ csr'[n].status = "pending"]_csr

(* Charts of http repositories installed together: no lock keeps them from   *)
(* spoiling the files each other's pull needs.                              *)
Racing ==
  {c \in Http : \E l \in Numbers :
     /\ Layers[l].async /\ c \in ChartsOf(l)
     /\ \E d \in Http \cap ChartsOf(l) : d # c}

(* Who may fail for it: they, and if the CNI is one of them, what is        *)
(* awaited beside it.                                                       *)
Exposed == Racing \cup {c \in Awaited \cap ChartsOf(1) : Cni \in Racing}

(* Without a fault only the races of http charts make an installation fail, *)
(* in this run or, by what it leaves in the shared files, in a later one:   *)
(* OCI charts, an http chart that is alone in its layer or installed in     *)
(* turn, and charts that create the same namespace, install side by side.   *)
(* A pull that has lost a race leaves no release the next run would refuse. *)
OnlyHttpChartsRace ==
  faults = 0 => \A c \in Charts :
    /\ pc[c] = "failed" => c \in Exposed
    /\ release[c] = "failed" => c \in Exposed /\ c \in Awaited /\ Cni \in Racing

(* Running apply again completes the installation, whatever failed or was   *)
(* killed, if the operator resolves releases that are not deployed and      *)
(* repairs the files the pulls share.                                       *)
InstallationCompletes == <>complete
=============================================================================
