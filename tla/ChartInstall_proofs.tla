-------------------------- MODULE ChartInstall_proofs --------------------------
(***************************************************************************)
(* What ChartInstall promises for every sequence of layers, every set of   *)
(* nodes and every number and kind of faults.                              *)
(***************************************************************************)
EXTENDS ChartInstall, TLAPS

(* The steps that touch the files the goroutines share.                     *)
Sharing == {"index", "cache", "load", "store", "write", "scan"}
Fetching == {"namespace", "create", "pull"} \cup Sharing

(* What a step of an installation says of the release.                      *)
StepsMatchReleases ==
  \A c \in Charts :
    /\ pc[c] \in Fetching => release[c] = "absent"
    /\ pc[c] = "install"  => release[c] = "pending"
    /\ pc[c] = "await"    => release[c] = "deployed"
    /\ pc[c] = "done"     => Installed(c)

(* A layer is begun when those below it are installed.                      *)
LayersBelowInstalled ==
  \A l \in Numbers : l < layer => \A d \in ChartsOf(l) : Installed(d)

NothingWithoutRun ==
  /\ layer = 0 => \A c \in Charts : pc[c] = "waiting"
  /\ complete  => layer = 0

SharersAreHttp == \A c \in Charts : pc[c] \in Sharing => c \in Http

(* In a synchronous layer nothing is under way before what is ahead of it   *)
(* is done.                                                                 *)
StartedInTurn ==
  \A l \in Numbers : ~Layers[l].async =>
    \A i, j \in DOMAIN Layers[l].charts :
      i < j /\ pc[Layers[l].charts[j]] \notin {"waiting", "done"} =>
        pc[Layers[l].charts[i]] = "done"

(* Who does not race finds the repository file as it has left it.           *)
WritesAlone == \A c \in Charts \ Racing : pc[c] = "write" => repos = {} /\ ~garbled

(* A garbled file is the work of a racing chart, which cannot be installed  *)
(* as long as the file is garbled.                                          *)
GarbledInRace ==
  garbled => \E c \in Racing :
    /\ release[c] = "absent" /\ pc[c] # "scan"
    /\ \A d \in Before(c) : release[d] = "deployed"

FilesInv == SharersAreHttp /\ StartedInTurn /\ WritesAlone /\ GarbledInRace

(* Without a fault an index is cut off only while it is written, and no     *)
(* release is left behind that is not deployed, but by a lost race.         *)
CleanWithoutFault ==
  faults = 0 =>
    /\ \A r \in torn : \E c \in Charts : pc[c] = "cache" /\ RepoOf[c] = r
    /\ \A c \in Charts :
         /\ pc[c] = "failed" => c \in Exposed
         /\ release[c] = "failed" => c \in Exposed /\ c \in Awaited /\ Cni \in Racing
         /\ release[c] = "pending" => pc[c] = "install"

IInv ==
  /\ TypeOK
  /\ StepsMatchReleases
  /\ LayersBelowInstalled
  /\ NothingWithoutRun
  /\ InstalledInOrder
  /\ AlwaysAnApprover
  /\ FilesInv
  /\ CleanWithoutFault

-----------------------------------------------------------------------------
(* Layers is a sequence of records.                                         *)
LEMMA LayersAreSequences ==
  /\ Len(Layers) \in Nat \ {0} /\ DOMAIN Layers = Numbers /\ 1 \in Numbers
  /\ \A l \in Numbers : Layers[l].async \in BOOLEAN /\ Layers[l].charts \in Seq(STRING)
<1> DEFINE Layer == [charts : Seq(STRING), async : BOOLEAN]
<1>1. Layers \in Seq(Layer) /\ Layers # <<>>
  BY ChartsAssumption
<1>2. \A l \in Layer : l.async \in BOOLEAN /\ l.charts \in Seq(STRING)
  OBVIOUS
<1> HIDE DEF Layer
<1>3. Len(Layers) \in Nat \ {0} /\ DOMAIN Layers = Numbers /\ 1 \in Numbers
  BY <1>1 DEF Numbers
<1>4. \A l \in Numbers : Layers[l] \in Layer
  BY <1>1, <1>3
<1> QED
  BY <1>2, <1>3, <1>4

(* Every chart has a layer, and only one.                                   *)
LEMMA LayersFacts ==
  /\ Len(Layers) \in Nat \ {0} /\ DOMAIN Layers = Numbers /\ 1 \in Numbers
  /\ \A l \in Numbers : ChartsOf(l) \subseteq Charts /\ Layers[l].async \in BOOLEAN
  /\ \A c \in Charts : \E l \in Numbers : c \in ChartsOf(l)
  /\ \A l, k \in Numbers, c \in Charts : c \in ChartsOf(l) /\ c \in ChartsOf(k) => l = k
  /\ Awaited \subseteq Charts
  /\ CsrApprover \in Charts /\ CsrApprover \in ChartsOf(1) /\ CsrApprover \in Awaited
  /\ Http \subseteq Charts /\ Cni \in Charts /\ Cni \in ChartsOf(1)
<1>1. Len(Layers) \in Nat \ {0} /\ DOMAIN Layers = Numbers /\ 1 \in Numbers
  BY LayersAreSequences
<1>2. \A l \in Numbers : Layers[l].async \in BOOLEAN
  BY LayersAreSequences
<1>3. \A l \in Numbers : ChartsOf(l) \subseteq Charts
  BY <1>1 DEF Charts
<1>4. \A c \in Charts : \E l \in Numbers : c \in ChartsOf(l)
  BY <1>1 DEF Charts
<1>5. \A l, k \in Numbers, c \in Charts : c \in ChartsOf(l) /\ c \in ChartsOf(k) => l = k
  BY ChartsAssumption
<1> QED
  BY <1>1, <1>2, <1>3, <1>4, <1>5, ChartsAssumption

(* The position of a chart in its layer.                                    *)
LEMMA ChartsOfFacts ==
  ASSUME NEW l \in Numbers
  PROVE  /\ DOMAIN Layers[l].charts = 1..Len(Layers[l].charts)
         /\ Len(Layers[l].charts) \in Nat
         /\ \A i \in DOMAIN Layers[l].charts : Layers[l].charts[i] \in ChartsOf(l)
<1>1. Layers[l].charts \in Seq(STRING)
  BY LayersAreSequences
<1> QED
  BY <1>1 DEF ChartsOf, Range

-----------------------------------------------------------------------------
(* Types.                                                                   *)

LEMMA InitType == Init => TypeOK
<1> SUFFICES ASSUME Init PROVE TypeOK
  OBVIOUS
<1>1. NoRequest \in Requests
  BY DEF NoRequest, Requests
<1>2. 0 \in 0..Len(Layers)
  BY LayersFacts
<1> QED
  BY <1>1, <1>2 DEF Init, TypeOK, Steps

(* One installation goes on, or ends.                                       *)
LEMMA ChartStepType ==
  ASSUME TypeOK, NEW c \in Charts, ChartStep(c) \/ Fails(c)
  PROVE  TypeOK'
<1> USE DEF TypeOK, Steps, Goto, cluster, files, certificates
<1>1. ASSUME Inspect(c) PROVE TypeOK'
  BY <1>1 DEF Inspect, MayStart
<1>2. ASSUME KeptReady(c) PROVE TypeOK'
  BY <1>2 DEF KeptReady
<1>3. ASSUME FindNamespace(c) PROVE TypeOK'
  BY <1>3 DEF FindNamespace, Pull, Fault
<1>4. ASSUME CreateNamespace(c) PROVE TypeOK'
  <2>1. NamespaceOf[c] \in Range(NamespaceOf)
    BY ChartsAssumption DEF Range
  <2> QED
    BY <1>4, <2>1 DEF CreateNamespace, Pull
<1>5. RepoOf[c] \in Range(RepoOf)
  BY ChartsAssumption DEF Range
<1>6. ASSUME DownloadIndex(c) \/ CacheIndex(c) PROVE TypeOK'
  BY <1>5, <1>6 DEF DownloadIndex, CacheIndex, Fault
<1>7. ASSUME LoadRepos(c) \/ TruncateRepos(c) \/ WriteRepos(c) PROVE TypeOK'
  BY <1>5, <1>7 DEF LoadRepos, TruncateRepos, WriteRepos
<1>8. ASSUME ReadRepos(c) \/ PullFails(c) \/ Install(c) \/ Deployed(c) PROVE TypeOK'
  BY <1>8 DEF ReadRepos, PullFails, Install, Deployed
<1>9. ASSUME Fails(c) \/ WaitsInVain(c) PROVE TypeOK'
  BY <1>9 DEF Fails, WaitsInVain, Fail, MayStart, Fault
<1> QED
  BY <1>1, <1>2, <1>3, <1>4, <1>6, <1>7, <1>8, <1>9 DEF ChartStep

LEMMA RunType ==
  ASSUME TypeOK, StartRun \/ NextLayer \/ LayerFails \/ Interrupt \/ RepairFiles
  PROVE  TypeOK'
<1> USE LayersFacts DEF TypeOK, Steps, cluster, files, certificates, EndRun
<1>1. ASSUME StartRun PROVE TypeOK'
  BY <1>1 DEF StartRun
<1>2. ASSUME NextLayer PROVE TypeOK'
  <2>1. \A c \in Charts : pc[c] \in {"waiting", "done"}
    BY <1>2 DEF NextLayer
  <2>2. CASE layer < Len(Layers)
    BY <1>2, <2>1, <2>2 DEF NextLayer
  <2>3. CASE ~(layer < Len(Layers))
    BY <1>2, <2>3 DEF NextLayer
  <2> QED
    BY <2>2, <2>3
<1>3. ASSUME LayerFails \/ Interrupt PROVE TypeOK'
  BY <1>3 DEF LayerFails, Interrupt, Fault
<1>4. ASSUME RepairFiles PROVE TypeOK'
  BY <1>4 DEF RepairFiles
<1> QED
  BY <1>1, <1>2, <1>3, <1>4

LEMMA RequestsType ==
  ASSUME TypeOK, List \/ \E n \in Nodes : Certificates(n) \/ Request(n) \/ Deny(n)
  PROVE  TypeOK'
<1> USE DEF TypeOK, cluster, tool, files, Requests
<1>1. ASSUME List PROVE TypeOK'
  BY <1>1 DEF List
<1>2. ASSUME NEW n \in Nodes, Approve(n) PROVE TypeOK'
  BY <1>2 DEF Approve
<1>3. ASSUME NEW n \in Nodes, ChartApproves(n) PROVE TypeOK'
  BY <1>3 DEF ChartApproves
<1>4. ASSUME NEW n \in Nodes, Request(n) PROVE TypeOK'
  BY <1>4 DEF Request
<1>5. ASSUME NEW n \in Nodes, Deny(n) PROVE TypeOK'
  <2>1. csr' \in [Nodes -> Requests]
    BY <1>5 DEF Deny
  <2> QED
    BY <1>5, <2>1 DEF Deny, Fault
<1> QED
  BY <1>1, <1>2, <1>3, <1>4, <1>5 DEF Certificates

LEMMA WorkloadsType ==
  ASSUME TypeOK, NEW c \in Charts, BecomeReady(c) \/ Unready(c) \/ Resolve(c)
  PROVE  TypeOK'
BY DEF TypeOK, BecomeReady, Unready, Resolve, Fault, tool, files, certificates

LEMMA NextType ==
  ASSUME TypeOK, [Next]_vars
  PROVE  TypeOK'
<1>1. ASSUME UNCHANGED vars PROVE TypeOK'
  BY <1>1 DEF vars, cluster, tool, files, certificates, TypeOK
<1> QED
  BY <1>1, ChartStepType, RunType, RequestsType, WorkloadsType DEF Next

(* The variables keep to their domains, and nothing is under way without a  *)
(* run or outside the layer being installed.                                *)
THEOREM TypeCorrect == Spec => []TypeOK
BY InitType, NextType, PTL DEF Spec

-----------------------------------------------------------------------------
(* The inductive invariant.                                                 *)

LEMMA InitIInv == Init => IInv
<1> SUFFICES ASSUME Init PROVE IInv
  OBVIOUS
<1> USE DEF Init
<1>1. TypeOK
  BY InitType
<1>2. StepsMatchReleases /\ NothingWithoutRun /\ CleanWithoutFault
  BY DEF StepsMatchReleases, NothingWithoutRun, CleanWithoutFault, Fetching, Sharing
<1>3. LayersBelowInstalled /\ AlwaysAnApprover
  BY DEF LayersBelowInstalled, AlwaysAnApprover, Numbers
<1>4. InstalledInOrder
  BY DEF InstalledInOrder
<1>5. FilesInv
  <2>1. SharersAreHttp /\ WritesAlone /\ GarbledInRace
    BY DEF SharersAreHttp, WritesAlone, GarbledInRace, Sharing
  <2>2. StartedInTurn
    BY LayersFacts, ChartsOfFacts DEF StartedInTurn
  <2> QED
    BY <2>1, <2>2 DEF FilesInv
<1> QED
  BY <1>1, <1>2, <1>3, <1>4, <1>5 DEF IInv

(* What a step of one installation leaves alone.                            *)
LEMMA ChartStepFrame ==
  ASSUME TypeOK, NEW c \in Charts, ChartStep(c) \/ Fails(c)
  PROVE  /\ UNCHANGED <<ready, layer, complete, approver>>
         /\ \A d \in Charts \ {c} : pc'[d] = pc[d] /\ release'[d] = release[d]
         /\ pc[c] # "done" /\ (pc[c] = "waiting" => MayStart(c))
         /\ layer # 0
         /\ pc'[c] # "waiting"
<1> USE DEF TypeOK, Goto, certificates, cluster
<1>1. ASSUME Inspect(c) PROVE UNCHANGED <<ready, layer, complete, approver, release>> /\ layer # 0
                              /\ MayStart(c) /\ pc[c] = "waiting"
                              /\ \E step \in Steps \ {"waiting"} : Goto(c, step)
  BY <1>1 DEF Inspect, MayStart, Steps
<1>2. ASSUME Fails(c)
      PROVE  /\ UNCHANGED <<ready, layer, complete, approver>> /\ layer # 0
             /\ pc[c] # "done" /\ (pc[c] = "waiting" => MayStart(c))
             /\ \E step \in Steps \ {"waiting"} : Goto(c, step)
             /\ \A d \in Charts \ {c} : release'[d] = release[d]
  BY <1>2 DEF Fails, Fail, MayStart, Steps
<1>3. ASSUME KeptReady(c) \/ FindNamespace(c) \/ CreateNamespace(c)
      PROVE  /\ UNCHANGED <<ready, layer, complete, approver, release>> /\ layer # 0
             /\ pc[c] \notin {"waiting", "done"}
             /\ \E step \in Steps \ {"waiting"} : Goto(c, step)
  BY <1>3 DEF KeptReady, FindNamespace, CreateNamespace, Pull, Steps
<1>4. ASSUME DownloadIndex(c) \/ CacheIndex(c) \/ LoadRepos(c) \/ TruncateRepos(c)
             \/ WriteRepos(c) \/ ReadRepos(c) \/ PullFails(c)
      PROVE  /\ UNCHANGED <<ready, layer, complete, approver, release>> /\ layer # 0
             /\ pc[c] \notin {"waiting", "done"}
             /\ \E step \in Steps \ {"waiting"} : Goto(c, step)
  BY <1>4 DEF DownloadIndex, CacheIndex, LoadRepos, TruncateRepos, WriteRepos, ReadRepos,
              PullFails, Steps
<1>5. ASSUME Install(c) \/ Deployed(c) \/ WaitsInVain(c)
      PROVE  /\ UNCHANGED <<ready, layer, complete, approver>> /\ layer # 0
             /\ pc[c] \notin {"waiting", "done"}
             /\ \E step \in Steps \ {"waiting"} : Goto(c, step)
             /\ \A d \in Charts \ {c} : release'[d] = release[d]
  BY <1>5 DEF Install, Deployed, WaitsInVain, Fail, Steps
<1> QED
  BY <1>1, <1>2, <1>3, <1>4, <1>5 DEF ChartStep

(* A step of an installation takes it from one matching release to another. *)
LEMMA ChartStepMatches ==
  ASSUME TypeOK, StepsMatchReleases, NEW c \in Charts, ChartStep(c) \/ Fails(c)
  PROVE  StepsMatchReleases'
<1> USE DEF Goto, Fetching, Sharing, TypeOK
<1> DEFINE Match(d) ==
      /\ pc[d] \in Fetching => release[d] = "absent"
      /\ pc[d] = "install"  => release[d] = "pending"
      /\ pc[d] = "await"    => release[d] = "deployed"
      /\ pc[d] = "done"     => Installed(d)
<1>0. Match(c)
  BY DEF StepsMatchReleases
<1>1. ASSUME Inspect(c) PROVE Match(c)'
  BY <1>1 DEF Inspect, Installed, cluster
<1>2. ASSUME KeptReady(c) \/ FindNamespace(c) \/ CreateNamespace(c)  PROVE Match(c)'
  BY <1>2, <1>0 DEF KeptReady, FindNamespace, CreateNamespace, Pull, Installed, cluster
<1>3. ASSUME DownloadIndex(c) \/ CacheIndex(c) \/ LoadRepos(c) \/ TruncateRepos(c)
             \/ WriteRepos(c) \/ ReadRepos(c) \/ PullFails(c)
      PROVE  Match(c)'
  BY <1>3, <1>0 DEF DownloadIndex, CacheIndex, LoadRepos, TruncateRepos, WriteRepos, ReadRepos,
                    PullFails, cluster
<1>4. ASSUME Install(c) \/ Deployed(c) PROVE Match(c)'
  BY <1>4 DEF Install, Deployed, Installed
<1>5. ASSUME Fails(c) \/ WaitsInVain(c) PROVE Match(c)'
  BY <1>5 DEF Fails, WaitsInVain, Fail
<1>6. Match(c)'
  BY <1>1, <1>2, <1>3, <1>4, <1>5 DEF ChartStep
<1>7. ASSUME NEW d \in Charts \ {c} PROVE Match(d)'
  BY ChartStepFrame DEF StepsMatchReleases, Installed
<1> QED
  BY <1>6, <1>7 DEF StepsMatchReleases

LEMMA OnlyInstallsChangeReleases ==
  ASSUME NEW c, ChartStep(c), ~Install(c), ~Deployed(c), ~WaitsInVain(c)
  PROVE  release' = release
<1>1. ASSUME Inspect(c) \/ KeptReady(c) \/ FindNamespace(c) \/ CreateNamespace(c)
      PROVE  release' = release
  BY <1>1 DEF Inspect, KeptReady, FindNamespace, CreateNamespace, cluster
<1>2. ASSUME DownloadIndex(c) \/ CacheIndex(c) \/ LoadRepos(c) \/ TruncateRepos(c)
             \/ WriteRepos(c) \/ ReadRepos(c) \/ PullFails(c)
      PROVE  release' = release
  BY <1>2 DEF DownloadIndex, CacheIndex, LoadRepos, TruncateRepos, WriteRepos, ReadRepos,
              PullFails, cluster
<1> QED
  BY <1>1, <1>2 DEF ChartStep

(* An installation never undoes another one, nor itself.                    *)
LEMMA DeployedStays ==
  ASSUME TypeOK, StepsMatchReleases, NEW c \in Charts, ChartStep(c) \/ Fails(c),
         NEW d \in Charts, release[d] = "deployed"
  PROVE  release'[d] = "deployed"
<1>1. CASE d # c
  BY <1>1, ChartStepFrame
<1>2. CASE d = c
  <2>1. release[c] = "deployed" /\ pc[c] \notin Fetching \cup {"install"}
    BY <1>2 DEF StepsMatchReleases
  <2>2. ~Install(c) /\ ~Deployed(c)
    BY <2>1 DEF Install, Deployed, Fetching, Sharing
  <2>3. release' = release
    <3>1. ASSUME Fails(c) \/ WaitsInVain(c) PROVE release' = release
      BY <3>1, <2>1 DEF Fails, WaitsInVain, Fail
    <3> QED
      BY <2>2, <3>1, OnlyInstallsChangeReleases
  <2> QED
    BY <1>2, <2>3
<1> QED
  BY <1>1, <1>2

LEMMA InstalledStays ==
  ASSUME TypeOK, StepsMatchReleases, NEW c \in Charts, ChartStep(c) \/ Fails(c),
         NEW d \in Charts, Installed(d)
  PROVE  Installed(d)'
BY DeployedStays, ChartStepFrame DEF Installed

LEMMA BeforeInCharts == ASSUME NEW c \in Charts PROVE Before(c) \subseteq Charts
BY DEF Before, Predecessors

LEMMA LowerLayersBefore ==
  ASSUME NEW k \in Numbers, NEW l \in Numbers, k < l, NEW d \in ChartsOf(k), NEW c \in ChartsOf(l)
  PROVE  d \in Before(c)
BY LayersFacts DEF Before, Predecessors

(* A chart that may start finds what is before it installed.                *)
LEMMA BeforeInstalled ==
  ASSUME TypeOK, StepsMatchReleases, LayersBelowInstalled,
         NEW c \in Charts, MayStart(c), NEW d \in Before(c)
  PROVE  Installed(d)
<1>1. layer \in Numbers /\ c \in ChartsOf(layer)
  BY LayersFacts DEF MayStart, TypeOK, Numbers
<1>2. PICK k \in Numbers, l \in Numbers :
        /\ d \in ChartsOf(k) /\ c \in ChartsOf(l)
        /\ \/ k < l
           \/ /\ k = l /\ ~Layers[l].async
              /\ \E i, j \in DOMAIN Layers[l].charts :
                   i < j /\ Layers[l].charts[i] = d /\ Layers[l].charts[j] = c
  BY DEF Before, Predecessors
<1>3. l = layer
  BY <1>1, <1>2, LayersFacts
<1>4. CASE k < l
  BY <1>2, <1>3, <1>4 DEF LayersBelowInstalled
<1>5. CASE ~(k < l)
  <2>1. PICK i \in DOMAIN Layers[l].charts, j \in DOMAIN Layers[l].charts :
          i < j /\ Layers[l].charts[i] = d /\ Layers[l].charts[j] = c /\ ~Layers[l].async
    BY <1>2, <1>5
  <2>2. i \in 1..(j - 1)
    BY <2>1, ChartsOfFacts
  <2>3. pc[d] = "done"
    BY <1>3, <2>1, <2>2 DEF MayStart
  <2> QED
    BY <2>3, BeforeInCharts DEF StepsMatchReleases
<1> QED
  BY <1>4, <1>5

LEMMA ChartStepOrder ==
  ASSUME IInv, NEW c \in Charts, ChartStep(c) \/ Fails(c)
  PROVE  InstalledInOrder'
<1> USE DEF IInv
<1>1. ASSUME NEW b \in Charts, pc'[b] # "waiting", NEW d \in Before(b) PROVE Installed(d)'
  <2>1. d \in Charts
    BY BeforeInCharts
  <2>2. Installed(d)
    <3>1. CASE pc[b] # "waiting"
      BY <3>1 DEF InstalledInOrder
    <3>2. CASE pc[b] = "waiting"
      <4>1. b = c
        BY <1>1, <3>2, ChartStepFrame
      <4>2. MayStart(c)
        BY <3>2, <4>1, ChartStepFrame
      <4> QED
        BY <4>1, <4>2, BeforeInstalled
    <3> QED
      BY <3>1, <3>2
  <2> QED
    BY <2>1, <2>2, InstalledStays
<1>2. complete' => \A b \in Charts : Installed(b)'
  BY ChartStepFrame, InstalledStays DEF InstalledInOrder
<1> QED
  BY <1>1, <1>2 DEF InstalledInOrder

(* What a step does to the files the goroutines share.                      *)
LEMMA ChartStepShares ==
  ASSUME TypeOK, NEW c \in Charts, ChartStep(c) \/ Fails(c)
  PROVE  /\ UNCHANGED <<repos, garbled>> \/ TruncateRepos(c) \/ WriteRepos(c)
         /\ UNCHANGED torn \/ DownloadIndex(c) \/ CacheIndex(c)
         /\ pc'[c] \in Sharing => pc[c] \in Sharing \/ SharesFiles(c)
         /\ pc'[c] = "write" => TruncateRepos(c)
         /\ pc'[c] = "scan" => ReadRepos(c)
         /\ pc[c] = "cache" => CacheIndex(c)
         /\ pc'[c] = "install" => Install(c)
<1> USE DEF TypeOK, Goto, Sharing, files
<1>1. ASSUME Inspect(c) \/ KeptReady(c) \/ WaitsInVain(c) \/ Fails(c)
      PROVE  UNCHANGED <<repos, garbled, torn>> /\ pc[c] # "cache"
             /\ pc'[c] \notin Sharing \cup {"install"}
  BY <1>1 DEF Inspect, KeptReady, WaitsInVain, Fails, Fail
<1>2. ASSUME FindNamespace(c) \/ CreateNamespace(c)
      PROVE  /\ UNCHANGED <<repos, garbled, torn>> /\ pc[c] # "cache"
             /\ pc'[c] \notin {"write", "scan", "install"}
             /\ pc'[c] \in Sharing => SharesFiles(c)
  BY <1>2 DEF FindNamespace, CreateNamespace, Pull
<1>3. ASSUME DownloadIndex(c) \/ CacheIndex(c) \/ LoadRepos(c)
      PROVE  /\ UNCHANGED <<repos, garbled>> /\ pc[c] \in Sharing
             /\ UNCHANGED torn \/ DownloadIndex(c) \/ CacheIndex(c)
             /\ pc'[c] \notin {"write", "scan", "install"}
             /\ pc[c] = "cache" => CacheIndex(c)
  BY <1>3 DEF DownloadIndex, CacheIndex, LoadRepos
<1>4. ASSUME TruncateRepos(c) \/ WriteRepos(c)
      PROVE  /\ UNCHANGED torn /\ pc[c] \in Sharing /\ pc[c] # "cache"
             /\ pc'[c] \notin {"scan", "install"}
             /\ pc'[c] = "write" => TruncateRepos(c)
  BY <1>4 DEF TruncateRepos, WriteRepos
<1>5. ASSUME ReadRepos(c) \/ PullFails(c)
      PROVE  /\ UNCHANGED <<repos, garbled, torn>> /\ pc[c] # "cache"
             /\ pc'[c] \notin {"write", "install"}
             /\ pc'[c] \in Sharing => SharesFiles(c) /\ ReadRepos(c)
  BY <1>5 DEF ReadRepos, PullFails
<1>6. ASSUME Install(c) \/ Deployed(c)
      PROVE  /\ UNCHANGED <<repos, garbled, torn>> /\ pc[c] # "cache"
             /\ pc'[c] \notin Sharing
             /\ pc'[c] = "install" => Install(c)
  BY <1>6 DEF Install, Deployed
<1> HIDE DEF TypeOK, Goto, files
<1> QED
  BY <1>1, <1>2, <1>3, <1>4, <1>5, <1>6 DEF ChartStep

(* Two charts are only at the shared files together if they race.           *)
LEMMA SharersRace ==
  ASSUME IInv, NEW c \in Charts, NEW d \in Charts \ {c}, pc[c] \in Sharing, pc[d] \in Sharing
  PROVE  c \in Racing
<1> USE DEF IInv, FilesInv
<1>1. layer \in Numbers /\ c \in ChartsOf(layer) /\ d \in ChartsOf(layer)
  BY LayersFacts DEF TypeOK, Sharing, Numbers
<1>2. c \in Http /\ d \in Http
  BY DEF SharersAreHttp
<1>3. CASE Layers[layer].async
  BY <1>1, <1>2, <1>3 DEF Racing
<1>4. CASE ~Layers[layer].async
  <2>1. PICK i \in DOMAIN Layers[layer].charts, j \in DOMAIN Layers[layer].charts :
          Layers[layer].charts[i] = c /\ Layers[layer].charts[j] = d
    BY <1>1 DEF ChartsOf, Range
  <2>2. i \in Nat /\ j \in Nat /\ i # j
    BY <1>1, <2>1, ChartsOfFacts
  <2>3. pc[c] \notin {"waiting", "done"} /\ pc[d] \notin {"waiting", "done"}
    BY DEF Sharing
  <2>4. ~(i < j) /\ ~(j < i)
    BY <1>1, <1>4, <2>1, <2>3 DEF StartedInTurn
  <2> QED
    BY <2>2, <2>4
<1> QED
  BY <1>3, <1>4

LEMMA ChartStepInTurn ==
  ASSUME IInv, NEW c \in Charts, ChartStep(c) \/ Fails(c)
  PROVE  StartedInTurn'
<1> USE DEF IInv, FilesInv
<1> SUFFICES ASSUME NEW l \in Numbers, ~Layers[l].async,
                    NEW i \in DOMAIN Layers[l].charts, NEW j \in DOMAIN Layers[l].charts, i < j,
                    pc'[Layers[l].charts[j]] \notin {"waiting", "done"}
             PROVE  pc'[Layers[l].charts[i]] = "done"
  BY DEF StartedInTurn
<1> DEFINE x == Layers[l].charts[i]
           y == Layers[l].charts[j]
<1>1. x \in ChartsOf(l) /\ y \in ChartsOf(l) /\ x \in Charts /\ y \in Charts
  BY ChartsOfFacts, LayersFacts
<1>2. pc[x] = "done"
  <2>1. CASE pc[y] \notin {"waiting", "done"}
    BY <2>1 DEF StartedInTurn
  <2>2. CASE pc[y] \in {"waiting", "done"}
    <3>1. y = c
      BY <1>1, <2>2, ChartStepFrame
    <3>2. MayStart(c)
      BY <2>2, <3>1, ChartStepFrame
    <3>3. layer \in Numbers /\ c \in ChartsOf(layer)
      BY <3>2, LayersFacts DEF MayStart, TypeOK, Numbers
    <3>4. layer = l
      BY <1>1, <3>1, <3>3, LayersFacts
    <3>5. i \in 1..(j - 1)
      BY ChartsOfFacts
    <3> QED
      BY <3>1, <3>2, <3>4, <3>5 DEF MayStart
  <2> QED
    BY <2>1, <2>2
<1> QED
  BY <1>1, <1>2, ChartStepFrame

LEMMA ChartStepWrites ==
  ASSUME IInv, NEW c \in Charts, ChartStep(c) \/ Fails(c)
  PROVE  WritesAlone'
<1> USE DEF IInv, FilesInv
<1> SUFFICES ASSUME NEW d \in Charts \ Racing, pc'[d] = "write"
             PROVE  repos' = {} /\ ~garbled'
  BY DEF WritesAlone
<1>1. CASE d = c
  <2>1. TruncateRepos(c)
    BY <1>1, ChartStepShares
  <2> QED
    BY <2>1 DEF TruncateRepos
<1>2. CASE d # c
  <2>1. pc[d] = "write"
    BY <1>2, ChartStepFrame
  <2>2. pc[c] \notin Sharing
    BY <1>2, <2>1, SharersRace DEF Sharing
  <2>3. UNCHANGED <<repos, garbled>>
    BY <2>2, ChartStepShares DEF TruncateRepos, WriteRepos, Sharing
  <2> QED
    BY <2>1, <2>3 DEF WritesAlone
<1> QED
  BY <1>1, <1>2

LEMMA ChartStepGarbles ==
  ASSUME IInv, NEW c \in Charts, ChartStep(c) \/ Fails(c)
  PROVE  GarbledInRace'
<1> USE DEF IInv, FilesInv
<1> SUFFICES ASSUME garbled'
             PROVE  \E d \in Racing : /\ release'[d] = "absent" /\ pc'[d] # "scan"
                                      /\ \A e \in Before(d) : release'[e] = "deployed"
  BY DEF GarbledInRace
<1>0. Racing \subseteq Charts
  BY LayersFacts DEF Racing
<1>1. CASE WriteRepos(c)
  <2>1. pc[c] = "write" /\ UNCHANGED release /\ (repos # {} \/ garbled)
    BY <1>1 DEF WriteRepos, cluster
  <2>2. c \in Racing
    BY <2>1 DEF WritesAlone
  <2>3. release[c] = "absent"
    BY <2>1 DEF StepsMatchReleases, Fetching, Sharing
  <2>4. \A e \in Before(c) : release[e] = "deployed"
    BY <2>1 DEF InstalledInOrder, Installed
  <2>5. pc'[c] # "scan"
    BY <1>1 DEF WriteRepos, Goto, TypeOK
  <2> QED
    BY <2>1, <2>2, <2>3, <2>4, <2>5
<1>2. CASE ~WriteRepos(c)
  <2>1. ~TruncateRepos(c)
    BY DEF TruncateRepos
  <2>2. garbled
    BY <1>2, <2>1, ChartStepShares
  <2>3. PICK d \in Racing : /\ release[d] = "absent" /\ pc[d] # "scan"
                            /\ \A e \in Before(d) : release[e] = "deployed"
    BY <2>2 DEF GarbledInRace
  <2>4. \A e \in Before(d) : release'[e] = "deployed"
    BY <1>0, <2>3, DeployedStays, BeforeInCharts
  <2>5. pc'[d] # "scan"
    BY <1>0, <2>2, <2>3, ChartStepFrame, ChartStepShares DEF ReadRepos
  <2>6. release'[d] = "absent"
    <3>1. CASE d # c
      BY <1>0, <2>3, <3>1, ChartStepFrame
    <3>2. CASE d = c
      <4>1. ~Install(c) /\ ~Deployed(c)
        <5>1. d \in Http
          BY DEF Racing
        <5> QED
          BY <2>3, <3>2, <5>1 DEF Install, Deployed, SharesFiles, StepsMatchReleases
      <4>2. pc[c] # "install"
        BY <2>3, <3>2 DEF StepsMatchReleases
      <4>3. release' = release
        <5>1. ASSUME Fails(c) \/ WaitsInVain(c) PROVE release' = release
          BY <5>1, <4>2 DEF Fails, WaitsInVain, Fail
        <5> QED
          BY <4>1, <5>1, OnlyInstallsChangeReleases DEF ChartStep
      <4> QED
        BY <2>3, <3>2, <4>3
    <3> QED
      BY <3>1, <3>2
  <2> QED
    BY <2>3, <2>4, <2>5, <2>6
<1> QED
  BY <1>1, <1>2

LEMMA ChartStepFiles ==
  ASSUME IInv, NEW c \in Charts, ChartStep(c) \/ Fails(c)
  PROVE  FilesInv'
<1>1. SharersAreHttp'
  BY ChartStepFrame, ChartStepShares DEF IInv, FilesInv, SharersAreHttp, SharesFiles
<1> QED
  BY <1>1, ChartStepInTurn, ChartStepWrites, ChartStepGarbles DEF FilesInv

(* Who may fail without a fault is installed concurrently.                  *)
LEMMA ExposedConcurrently ==
  ASSUME NEW l \in Numbers, NEW c \in ChartsOf(l) \cap Exposed
  PROVE  Layers[l].async
<1>1. \A d \in Racing, k \in Numbers : d \in ChartsOf(k) => Layers[k].async
  BY LayersFacts DEF Racing
<1>2. Cni \in Racing => Layers[1].async
  BY <1>1, LayersFacts
<1>3. c \in ChartsOf(1) => l = 1
  BY LayersFacts
<1> QED
  BY <1>1, <1>2, <1>3 DEF Exposed

(* A pull only fails by itself if its chart races.                          *)
LEMMA LostPull ==
  ASSUME IInv, faults = 0, NEW c \in Charts, PullFails(c)
  PROVE  c \in Racing
<1> USE DEF IInv, FilesInv
<1>1. c \in Http
  BY DEF PullFails, SharesFiles, SharersAreHttp, Sharing
<1>2. CASE pc[c] = "scan"
  <2>1. PICK r \in torn : r \in loaded[c]
    BY <1>2 DEF PullFails
  <2>2. PICK d \in Charts : pc[d] = "cache"
    BY <2>1 DEF CleanWithoutFault
  <2> QED
    BY <1>2, <2>2, SharersRace DEF Sharing
<1>3. CASE pc[c] = "pull" /\ garbled
  <2>1. PICK d \in Racing : release[d] = "absent" /\ \A e \in Before(d) : release[e] = "deployed"
    BY <1>3 DEF GarbledInRace
  <2>0. pc[c] = "pull"
    BY <1>3
  <2>2. PICK k \in Numbers : Layers[k].async /\ d \in ChartsOf(k) /\ d \in Http
    BY DEF Racing
  <2>3. layer \in Numbers /\ c \in ChartsOf(layer)
    BY <2>0, LayersFacts DEF TypeOK, Numbers
  <2>4. release[c] = "absent" /\ \A e \in Before(c) : release[e] = "deployed"
    BY <2>0 DEF StepsMatchReleases, Fetching, InstalledInOrder, Installed
  <2>5. ~(k < layer) /\ ~(layer < k)
    BY <2>1, <2>2, <2>3, <2>4, LowerLayersBefore
  <2>6. k = layer
    BY <2>3, <2>5 DEF Numbers
  <2> QED
    BY <1>1, <2>2, <2>3, <2>6 DEF Racing
<1> QED
  BY <1>2, <1>3 DEF PullFails

LEMMA ChartStepClean ==
  ASSUME IInv, NEW c \in Charts, ChartStep(c) \/ Fails(c)
  PROVE  CleanWithoutFault'
<1> USE DEF IInv
<1> SUFFICES ASSUME faults' = 0 PROVE CleanWithoutFault'
  BY DEF CleanWithoutFault
<1>1. faults = 0 /\ ~Fails(c)
  <2>1. ~Fails(c)
    BY DEF Fails, Fault, TypeOK
  <2>2. faults' = faults \/ faults' = faults + 1
    <3>1. ASSUME Inspect(c) \/ KeptReady(c) \/ FindNamespace(c) \/ CreateNamespace(c)
          PROVE  faults' = faults \/ faults' = faults + 1
      BY <3>1 DEF Inspect, KeptReady, FindNamespace, CreateNamespace, Fault
    <3>2. ASSUME DownloadIndex(c) \/ CacheIndex(c) \/ LoadRepos(c) \/ TruncateRepos(c)
          PROVE  faults' = faults \/ faults' = faults + 1
      BY <3>2 DEF DownloadIndex, CacheIndex, LoadRepos, TruncateRepos, Fault
    <3>3. ASSUME WriteRepos(c) \/ ReadRepos(c) \/ PullFails(c) \/ Install(c) \/ Deployed(c)
                 \/ WaitsInVain(c)
          PROVE  faults' = faults \/ faults' = faults + 1
      BY <3>3 DEF WriteRepos, ReadRepos, PullFails, Install, Deployed, WaitsInVain
    <3> QED
      BY <2>1, <3>1, <3>2, <3>3 DEF ChartStep
  <2> QED
    BY <2>1, <2>2 DEF TypeOK
<1>2. ASSUME NEW r \in torn' PROVE \E d \in Charts : pc'[d] = "cache" /\ RepoOf[d] = r
  <2>1. CASE DownloadIndex(c) /\ r = RepoOf[c]
    <3>1. pc'[c] = "cache"
      BY <1>1, <2>1 DEF DownloadIndex, Goto, TypeOK, Fault
    <3> QED
      BY <2>1, <3>1
  <2>2. CASE ~(DownloadIndex(c) /\ r = RepoOf[c])
    <3>1. r \in torn /\ (CacheIndex(c) => r # RepoOf[c])
      BY <1>1, <2>2, ChartStepShares DEF DownloadIndex, CacheIndex, Fault
    <3>2. PICK d \in Charts : pc[d] = "cache" /\ RepoOf[d] = r
      BY <1>1, <3>1 DEF CleanWithoutFault
    <3>3. d # c
      BY <1>1, <3>1, <3>2, ChartStepShares
    <3> QED
      BY <3>2, <3>3, ChartStepFrame
  <2> QED
    BY <2>1, <2>2
<1> DEFINE Clean(d) ==
      /\ pc[d] = "failed" => d \in Exposed
      /\ release[d] = "failed" => d \in Exposed /\ d \in Awaited /\ Cni \in Racing
      /\ release[d] = "pending" => pc[d] = "install"
<1>3. \A d \in Charts : Clean(d)
  BY <1>1 DEF CleanWithoutFault
<1>4. Clean(c)'
  <2>1. ASSUME Inspect(c) PROVE Clean(c)'
    BY <1>3, <2>1 DEF Inspect, Goto, TypeOK, cluster
  <2>2. ASSUME KeptReady(c) \/ FindNamespace(c) \/ CreateNamespace(c) PROVE Clean(c)'
    BY <1>3, <2>2 DEF KeptReady, FindNamespace, CreateNamespace, Pull, Goto, TypeOK, cluster
  <2>3. ASSUME DownloadIndex(c) \/ CacheIndex(c) \/ LoadRepos(c) \/ TruncateRepos(c)
               \/ WriteRepos(c) \/ ReadRepos(c)
        PROVE  Clean(c)'
    BY <1>3, <2>3 DEF DownloadIndex, CacheIndex, LoadRepos, TruncateRepos, WriteRepos, ReadRepos,
                      Goto, TypeOK, cluster
  <2>4. ASSUME PullFails(c) PROVE Clean(c)'
    <3>1. c \in Exposed
      BY <1>1, <2>4, LostPull DEF Exposed
    <3> QED
      BY <1>3, <2>4, <3>1 DEF PullFails, Goto, TypeOK, cluster
  <2>5. ASSUME Install(c) \/ Deployed(c) PROVE Clean(c)'
    BY <2>5 DEF Install, Deployed, Goto, TypeOK
  <2>6. ASSUME WaitsInVain(c) PROVE Clean(c)'
    <3>1. pc[Cni] = "failed" /\ c \in Awaited /\ pc[c] \in {"await", "install"}
      BY <2>6 DEF WaitsInVain
    <3>2. Cni \in Racing
      BY <1>3, <3>1, LayersFacts DEF Exposed
    <3>3. layer # 0 /\ Cni \in ChartsOf(layer) /\ c \in ChartsOf(layer)
      BY <3>1, LayersFacts DEF TypeOK
    <3>4. c \in ChartsOf(1)
      <4>1. layer \in Numbers
        BY <3>3, LayersFacts DEF TypeOK, Numbers
      <4> QED
        BY <3>3, <4>1, LayersFacts
    <3>5. c \in Exposed
      BY <3>1, <3>2, <3>4 DEF Exposed
    <3>6. pc'[c] = "failed" /\ (release'[c] = "failed" \/ (release'[c] = release[c] /\ pc[c] # "install"))
      BY <2>6 DEF WaitsInVain, Fail, Goto, TypeOK
    <3> QED
      BY <1>3, <3>1, <3>2, <3>5, <3>6
  <2> QED
    BY <1>1, <2>1, <2>2, <2>3, <2>4, <2>5, <2>6 DEF ChartStep
<1>5. \A d \in Charts : Clean(d)'
  BY <1>3, <1>4, ChartStepFrame
<1> QED
  BY <1>2, <1>5 DEF CleanWithoutFault

LEMMA ChartStepIInv ==
  ASSUME IInv, NEW c \in Charts, ChartStep(c) \/ Fails(c)
  PROVE  IInv'
<1> USE DEF IInv
<1>1. TypeOK'
  BY ChartStepType
<1>2. StepsMatchReleases'
  BY ChartStepMatches
<1>3. LayersBelowInstalled'
  BY ChartStepFrame, InstalledStays, LayersFacts DEF LayersBelowInstalled
<1>4. NothingWithoutRun'
  BY ChartStepFrame DEF NothingWithoutRun
<1>5. AlwaysAnApprover'
  BY ChartStepFrame DEF AlwaysAnApprover
<1> QED
  BY <1>1, <1>2, <1>3, <1>4, <1>5, ChartStepOrder, ChartStepFiles, ChartStepClean

-----------------------------------------------------------------------------
(* The other steps.                                                         *)

(* What is known of the shared files depends on little else.                *)
LEMMA FilesFrame ==
  ASSUME IInv, UNCHANGED <<repos, garbled>> \/ (~garbled' /\ \A c \in Charts : pc[c] = "waiting"),
         UNCHANGED pc \/ \A c \in Charts : pc'[c] = "waiting",
         \A c \in Charts : /\ release[c] = "absent"   => release'[c] = "absent"
                           /\ release[c] = "deployed" => release'[c] = "deployed"
  PROVE  FilesInv'
<1> USE DEF IInv, FilesInv
<1>1. SharersAreHttp'
  BY DEF SharersAreHttp, Sharing
<1>2. StartedInTurn'
  BY ChartsOfFacts, LayersFacts DEF StartedInTurn
<1>3. WritesAlone'
  <2> SUFFICES ASSUME NEW c \in Charts \ Racing, pc'[c] = "write" PROVE repos' = {} /\ ~garbled'
    BY DEF WritesAlone
  <2>1. pc[c] = "write" /\ UNCHANGED <<repos, garbled>>
    OBVIOUS
  <2> QED
    BY <2>1 DEF WritesAlone
<1>4. GarbledInRace'
  <2> SUFFICES ASSUME garbled'
               PROVE  \E c \in Racing : /\ release'[c] = "absent" /\ pc'[c] # "scan"
                                        /\ \A d \in Before(c) : release'[d] = "deployed"
    BY DEF GarbledInRace
  <2>1. PICK c \in Racing : /\ release[c] = "absent" /\ pc[c] # "scan"
                            /\ \A d \in Before(c) : release[d] = "deployed"
    BY DEF GarbledInRace
  <2>2. c \in Charts
    BY LayersFacts DEF Racing
  <2>3. pc'[c] # "scan"
    BY <2>1, <2>2
  <2> QED
    BY <2>1, <2>2, <2>3, BeforeInCharts
<1> QED
  BY <1>1, <1>2, <1>3, <1>4

(* The end of a run leaves the cluster as it is.                            *)
LEMMA EndRunIInv ==
  ASSUME IInv, TypeOK', EndRun, UNCHANGED <<release, ready, files>>,
         complete' => \A c \in Charts : Installed(c),
         faults' = 0 => faults = 0 /\ \A c \in Charts : pc[c] \notin {"install", "cache"}
  PROVE  IInv'
<1> USE DEF IInv, EndRun, Installed, files
<1>1. \A c \in Charts : pc'[c] = "waiting"
  OBVIOUS
<1>2. StepsMatchReleases' /\ NothingWithoutRun' /\ InstalledInOrder'
  BY <1>1 DEF StepsMatchReleases, NothingWithoutRun, InstalledInOrder, Fetching, Sharing
<1>3. LayersBelowInstalled' /\ AlwaysAnApprover'
  BY DEF LayersBelowInstalled, AlwaysAnApprover, Numbers
<1>4. CleanWithoutFault'
  BY <1>1 DEF CleanWithoutFault
<1>5. FilesInv'
  BY <1>1, FilesFrame
<1> QED
  BY <1>2, <1>3, <1>4, <1>5

LEMMA RunIInv ==
  ASSUME IInv, StartRun \/ NextLayer \/ LayerFails \/ Interrupt \/ RepairFiles
  PROVE  IInv'
<1> USE DEF IInv
<1>1. TypeOK'
  BY RunType
<1>2. ASSUME StartRun PROVE IInv'
  <2>1. \A c \in Charts : pc'[c] = "waiting" /\ pc[c] = "waiting"
    BY <1>2 DEF StartRun, NothingWithoutRun
  <2>2. UNCHANGED <<release, ready, complete, files, faults>> /\ layer' = 1 /\ approver' = "on" /\ ~complete
    BY <1>2 DEF StartRun, cluster
  <2>3. StepsMatchReleases' /\ NothingWithoutRun' /\ InstalledInOrder'
    BY <2>1, <2>2 DEF StepsMatchReleases, NothingWithoutRun, InstalledInOrder, Fetching, Sharing
  <2>4. LayersBelowInstalled' /\ AlwaysAnApprover'
    BY <2>2, LayersFacts DEF LayersBelowInstalled, AlwaysAnApprover, Numbers
  <2>5. CleanWithoutFault' /\ FilesInv'
    BY <2>1, <2>2, FilesFrame DEF CleanWithoutFault, files
  <2> QED
    BY <1>1, <2>3, <2>4, <2>5
<1>3. ASSUME NextLayer PROVE IInv'
  <2>1. layer \in Numbers /\ UNCHANGED <<release, ready, files, faults>>
    BY <1>3, LayersFacts DEF NextLayer, TypeOK, cluster, Numbers
  <2>2. \A l \in Numbers : l <= layer => \A d \in ChartsOf(l) : Installed(d)
    <3>1. \A d \in ChartsOf(layer) : Installed(d)
      BY <1>3, <2>1, LayersFacts DEF NextLayer, StepsMatchReleases
    <3> QED
      BY <2>1, <3>1, LayersFacts DEF LayersBelowInstalled, Numbers
  <2>3. \A c \in Charts : pc[c] \notin {"install", "cache"}
    BY <1>3 DEF NextLayer, TypeOK
  <2>4. CASE layer < Len(Layers)
    <3>1. layer' = layer + 1 /\ UNCHANGED <<pc, complete>>
      BY <1>3, <2>4 DEF NextLayer
    <3>2. StepsMatchReleases' /\ InstalledInOrder' /\ CleanWithoutFault'
      BY <2>1, <3>1 DEF StepsMatchReleases, InstalledInOrder, CleanWithoutFault, Installed, files
    <3>3. LayersBelowInstalled'
      BY <2>1, <2>2, <3>1, LayersFacts DEF LayersBelowInstalled, Installed, Numbers
    <3>4. CsrApprover \in ready
      <4>1. Installed(CsrApprover)
        BY <2>1, <2>2, LayersFacts DEF Numbers
      <4> QED
        BY <4>1, LayersFacts DEF Installed
    <3>5. NothingWithoutRun' /\ AlwaysAnApprover'
      BY <2>1, <3>1, <3>4, LayersFacts DEF NothingWithoutRun, AlwaysAnApprover, Numbers
    <3>6. FilesInv'
      BY <2>1, <3>1, FilesFrame DEF files
    <3> QED
      BY <1>1, <3>2, <3>3, <3>5, <3>6
  <2>5. CASE ~(layer < Len(Layers))
    <3>1. EndRun
      BY <1>3, <2>5 DEF NextLayer
    <3>2. \A c \in Charts : Installed(c)
      BY <2>1, <2>2, <2>5, LayersFacts DEF Numbers
    <3> QED
      BY <1>1, <2>1, <2>3, <3>1, <3>2, EndRunIInv
  <2> QED
    BY <2>4, <2>5
<1>4. ASSUME LayerFails \/ Interrupt PROVE IInv'
  <2>1. EndRun /\ UNCHANGED <<release, ready, files, complete>> /\ faults' \in {faults, faults + 1}
    BY <1>4 DEF LayerFails, Interrupt, Fault, cluster
  <2>2. complete => \A c \in Charts : Installed(c)
    BY DEF InstalledInOrder
  <2>3. ASSUME faults' = 0
        PROVE  faults = 0 /\ \A c \in Charts : pc[c] \notin {"install", "cache"}
    <3>1. faults = 0
      BY <2>1, <2>3 DEF TypeOK
    <3>2. layer \in Numbers
      BY <1>4, LayersFacts DEF TypeOK, LayerFails, Interrupt, Numbers
    <3>3. PICK c \in ChartsOf(layer) : pc[c] = "failed"
      BY <1>4, <2>3, <3>1 DEF LayerFails, Interrupt, Fault
    <3>4. Layers[layer].async
      BY <3>1, <3>2, <3>3, LayersFacts, ExposedConcurrently DEF CleanWithoutFault
    <3>5. \A d \in ChartsOf(layer) : pc[d] \in {"done", "failed"}
      BY <1>4, <2>3, <3>1, <3>4 DEF LayerFails, Interrupt, Fault
    <3> QED
      BY <3>1, <3>5 DEF TypeOK
  <2> QED
    BY <1>1, <2>1, <2>2, <2>3, EndRunIInv
<1>5. ASSUME RepairFiles PROVE IInv'
  <2>1. UNCHANGED <<release, ready, layer, pc, complete, approver, faults>> /\ torn' = {} /\ ~garbled'
    BY <1>5 DEF RepairFiles, cluster, certificates
  <2>2. \A c \in Charts : pc[c] = "waiting"
    BY <1>5 DEF RepairFiles, NothingWithoutRun
  <2>3. StepsMatchReleases' /\ LayersBelowInstalled' /\ NothingWithoutRun'
    BY <2>1 DEF StepsMatchReleases, LayersBelowInstalled, NothingWithoutRun, Installed
  <2>4. InstalledInOrder' /\ AlwaysAnApprover' /\ CleanWithoutFault'
    BY <2>1 DEF InstalledInOrder, AlwaysAnApprover, CleanWithoutFault, Installed
  <2> QED
    BY <1>1, <2>1, <2>2, <2>3, <2>4, FilesFrame
<1> QED
  BY <1>2, <1>3, <1>4, <1>5

(* Readiness goes only between runs, and so do releases.                    *)
LEMMA WorkloadsIInv ==
  ASSUME IInv, NEW c \in Charts, BecomeReady(c) \/ Unready(c) \/ Resolve(c)
  PROVE  IInv'
<1> USE DEF IInv, tool, files, certificates
<1>1. TypeOK'
  BY WorkloadsType
<1>0. FilesInv'
  BY FilesFrame DEF BecomeReady, Unready, Resolve, TypeOK
<1>2. ASSUME BecomeReady(c) PROVE IInv'
  <2>1. UNCHANGED <<release, layer, pc, complete, torn, approver, faults>> /\ ready \subseteq ready'
    BY <1>2 DEF BecomeReady
  <2>2. \A d \in Charts : Installed(d) => Installed(d)'
    BY <2>1 DEF Installed
  <2>3. StepsMatchReleases' /\ LayersBelowInstalled'
    BY <2>1, <2>2, LayersFacts DEF StepsMatchReleases, LayersBelowInstalled
  <2>4. NothingWithoutRun' /\ AlwaysAnApprover' /\ CleanWithoutFault'
    BY <2>1 DEF NothingWithoutRun, AlwaysAnApprover, CleanWithoutFault
  <2>5. InstalledInOrder'
    BY <2>1, <2>2, BeforeInCharts DEF InstalledInOrder
  <2> QED
    BY <1>0, <1>1, <2>3, <2>4, <2>5
<1>3. ASSUME Unready(c) \/ Resolve(c) PROVE IInv'
  <2>1. layer = 0 /\ UNCHANGED <<layer, pc, complete, torn, approver>> /\ faults' \in {faults, faults + 1}
    BY <1>3 DEF Unready, Resolve, Fault
  <2>2. \A d \in Charts : pc'[d] = "waiting"
    BY <2>1 DEF NothingWithoutRun
  <2>3. ~complete'
    <3>1. ASSUME complete PROVE FALSE
      BY <1>3, <3>1 DEF Unready, Resolve, InstalledInOrder, Installed
    <3> QED
      BY <2>1, <3>1
  <2>4. StepsMatchReleases' /\ NothingWithoutRun' /\ InstalledInOrder'
    BY <2>1, <2>2, <2>3 DEF StepsMatchReleases, NothingWithoutRun, InstalledInOrder, Fetching, Sharing
  <2>5. LayersBelowInstalled' /\ AlwaysAnApprover'
    BY <2>1 DEF LayersBelowInstalled, AlwaysAnApprover, Numbers
  <2>6. CleanWithoutFault'
    <3>1. \A d \in Charts : release'[d] \in {release[d], "absent"}
      BY <1>3 DEF Unready, Resolve, TypeOK
    <3> QED
      BY <2>1, <2>2, <3>1 DEF CleanWithoutFault, TypeOK
  <2> QED
    BY <1>0, <1>1, <2>4, <2>5, <2>6
<1> QED
  BY <1>2, <1>3

LEMMA RequestsIInv ==
  ASSUME IInv, List \/ \E n \in Nodes : Certificates(n) \/ Request(n) \/ Deny(n)
  PROVE  IInv'
<1> USE DEF IInv, cluster, tool, files
<1>1. TypeOK'
  BY RequestsType
<1>2. UNCHANGED <<release, ready, layer, pc, complete, files>> /\ faults' \in {faults, faults + 1}
  <2>1. ASSUME List PROVE UNCHANGED <<release, ready, layer, pc, complete, files, faults>>
    BY <2>1 DEF List
  <2>2. ASSUME NEW n \in Nodes, Approve(n) \/ ChartApproves(n) \/ Request(n)
        PROVE  UNCHANGED <<release, ready, layer, pc, complete, files, faults>>
    BY <2>2 DEF Approve, ChartApproves, Request
  <2>3. ASSUME NEW n \in Nodes, Deny(n)
        PROVE  UNCHANGED <<release, ready, layer, pc, complete, files>> /\ faults' = faults + 1
    BY <2>3 DEF Deny, Fault
  <2> QED
    BY <2>1, <2>2, <2>3 DEF Certificates
<1>3. StepsMatchReleases' /\ LayersBelowInstalled'
  BY <1>2 DEF StepsMatchReleases, LayersBelowInstalled, Installed
<1>4. NothingWithoutRun' /\ InstalledInOrder'
  BY <1>2 DEF NothingWithoutRun, InstalledInOrder, Installed
<1>5. CleanWithoutFault'
  BY <1>2 DEF CleanWithoutFault, TypeOK
<1>6. AlwaysAnApprover'
  <2>1. approver' = approver \/ (approver = "stop" /\ approver' = "off")
    BY DEF List, Certificates, Approve, ChartApproves, Request, Deny
  <2> QED
    BY <1>2, <2>1 DEF AlwaysAnApprover
<1>7. FilesInv'
  BY <1>2, FilesFrame
<1> QED
  BY <1>1, <1>3, <1>4, <1>5, <1>6, <1>7

LEMMA NextIInv ==
  ASSUME IInv, [Next]_vars
  PROVE  IInv'
<1>1. ASSUME UNCHANGED vars PROVE IInv'
  <2>1. TypeOK'
    BY <1>1, NextType DEF IInv
  <2>2. FilesInv'
    BY <1>1, FilesFrame DEF vars, cluster, tool, files
  <2> QED
    BY <1>1, <2>1, <2>2 DEF vars, cluster, tool, files, certificates, IInv, StepsMatchReleases, LayersBelowInstalled,
         NothingWithoutRun, InstalledInOrder, AlwaysAnApprover, CleanWithoutFault, Installed
<1> QED
  BY <1>1, ChartStepIInv, RunIInv, WorkloadsIInv, RequestsIInv DEF Next

(* The inductive invariant holds of every behaviour.                        *)
THEOREM InductiveInvariant == Spec => []IInv
BY InitIInv, NextIInv, PTL DEF Spec

(* No chart is begun before those ahead of it are deployed and ready.       *)
THEOREM InstalledInOrderHolds == Spec => []InstalledInOrder
BY InductiveInvariant, PTL DEF IInv

(* As long as charts are installed, certificate requests have an approver.  *)
THEOREM AlwaysAnApproverHolds == Spec => []AlwaysAnApprover
BY InductiveInvariant, PTL DEF IInv

(* Without a fault only charts of http repositories fail, only those that   *)
(* are installed beside another one, and without leaving a release: what    *)
(* else the goroutines of a layer share, or find of earlier runs, makes no  *)
(* installation fail.  If the CNI is one of them, so may what waits for it. *)
THEOREM OnlyHttpChartsRaceHolds == Spec => []OnlyHttpChartsRace
<1>1. IInv => OnlyHttpChartsRace
  BY DEF IInv, CleanWithoutFault, OnlyHttpChartsRace
<1> QED
  BY <1>1, InductiveInvariant, PTL

-----------------------------------------------------------------------------
(* Action properties.                                                       *)

LEMMA InstallsOnce ==
  ASSUME IInv, [Next]_vars
  PROVE  [\A c \in Charts : pc[c] # "install" /\ pc'[c] = "install" => release[c] = "absent"]_pc
<1> SUFFICES ASSUME NEW c \in Charts, pc[c] # "install", pc'[c] = "install"
             PROVE  release[c] = "absent"
  OBVIOUS
<1> USE DEF IInv, TypeOK, Goto
<1>1. ASSUME NEW d \in Charts, ChartStep(d) \/ Fails(d) PROVE release[c] = "absent"
  <2>1. d = c
    BY <1>1, ChartStepFrame
  <2>2. ASSUME Install(c) PROVE release[c] = "absent"
    BY <2>2 DEF Install, StepsMatchReleases, Fetching, Sharing
  <2> QED
    BY <1>1, <2>1, <2>2, ChartStepShares
<1>2. ASSUME StartRun \/ LayerFails \/ Interrupt \/ RepairFiles PROVE FALSE
  BY <1>2 DEF StartRun, LayerFails, Interrupt, RepairFiles, EndRun
<1>3. ASSUME NextLayer PROVE FALSE
  BY <1>3 DEF NextLayer, EndRun
<1>4. ASSUME \E d \in Charts : BecomeReady(d) \/ Unready(d) \/ Resolve(d) PROVE FALSE
  BY <1>4 DEF BecomeReady, Unready, Resolve, tool
<1>5. ASSUME List \/ \E n \in Nodes : Certificates(n) \/ Request(n) \/ Deny(n) PROVE FALSE
  BY <1>5 DEF List, Certificates, Approve, ChartApproves, Request, Deny, tool
<1>6. ASSUME UNCHANGED vars PROVE FALSE
  BY <1>6 DEF vars, tool
<1> QED
  BY <1>1, <1>2, <1>3, <1>4, <1>5, <1>6 DEF Next

(* Over an existing release none is installed a second time.                *)
THEOREM NeverASecondInstallHolds == Spec => NeverASecondInstall
<1>1. IInv /\ [Next]_vars =>
        [\A c \in Charts : pc[c] # "install" /\ pc'[c] = "install" => release[c] = "absent"]_pc
  BY InstallsOnce
<1> QED
  BY <1>1, InductiveInvariant, PTL DEF Spec, NeverASecondInstall

LEMMA DecisionsFinal ==
  ASSUME TypeOK, [Next]_vars
  PROVE  [\A n \in Nodes : csr'[n] # csr[n] /\ csr[n].status # "pending" =>
            csr'[n].id = csr[n].id + 1 /\ csr'[n].status = "pending"]_csr
<1> SUFFICES ASSUME NEW n \in Nodes, csr'[n] # csr[n], csr[n].status # "pending"
             PROVE  csr'[n].id = csr[n].id + 1 /\ csr'[n].status = "pending"
  OBVIOUS
<1> USE DEF TypeOK, Requests
<1>1. csr[n] \in [id : Nat, status : {"none", "pending", "approved", "denied"}]
  OBVIOUS
<1>2. ASSUME NEW m \in Nodes, Request(m)
      PROVE  csr'[n].id = csr[n].id + 1 /\ csr'[n].status = "pending"
  <2>1. m = n
    BY <1>2 DEF Request
  <2> QED
    BY <1>1, <1>2, <2>1 DEF Request
<1>3. ASSUME NEW m \in Nodes, Approve(m) \/ ChartApproves(m) \/ Deny(m) PROVE FALSE
  BY <1>3 DEF Approve, ChartApproves, Deny
<1>4. ASSUME List \/ UNCHANGED vars PROVE FALSE
  BY <1>4 DEF List, vars, certificates
<1>5. ASSUME NEW c \in Charts, ChartStep(c) \/ Fails(c) PROVE FALSE
  <2>1. ~Inspect(c) /\ ~KeptReady(c) /\ ~FindNamespace(c) /\ ~CreateNamespace(c)
    BY DEF Inspect, KeptReady, FindNamespace, CreateNamespace, certificates
  <2>2. ~DownloadIndex(c) /\ ~CacheIndex(c) /\ ~LoadRepos(c) /\ ~TruncateRepos(c) /\ ~WriteRepos(c)
    BY DEF DownloadIndex, CacheIndex, LoadRepos, TruncateRepos, WriteRepos, certificates
  <2>3. ~ReadRepos(c) /\ ~PullFails(c) /\ ~Install(c)
    BY DEF ReadRepos, PullFails, Install, certificates
  <2>4. ~Deployed(c) /\ ~WaitsInVain(c) /\ ~Fails(c)
    BY DEF Deployed, WaitsInVain, Fails, Fail, certificates
  <2> QED
    BY <1>5, <2>1, <2>2, <2>3, <2>4 DEF ChartStep
<1>6. ASSUME StartRun \/ NextLayer \/ LayerFails \/ Interrupt \/ RepairFiles PROVE FALSE
  BY <1>6 DEF StartRun, NextLayer, LayerFails, Interrupt, RepairFiles, certificates
<1>7. ASSUME \E c \in Charts : BecomeReady(c) \/ Unready(c) \/ Resolve(c) PROVE FALSE
  BY <1>7 DEF BecomeReady, Unready, Resolve, certificates
<1> QED
  BY <1>2, <1>3, <1>4, <1>5, <1>6, <1>7 DEF Next, Certificates

(* A decided certificate request changes only by being replaced.            *)
THEOREM DecisionsStandHolds == Spec => DecisionsStand
<1>1. TypeOK /\ [Next]_vars =>
        [\A n \in Nodes : csr'[n] # csr[n] /\ csr[n].status # "pending" =>
            csr'[n].id = csr[n].id + 1 /\ csr'[n].status = "pending"]_csr
  BY DecisionsFinal
<1> QED
  BY <1>1, TypeCorrect, PTL DEF Spec, DecisionsStand

-----------------------------------------------------------------------------
(* ChartInstall implements OrderedInstall.                                  *)

DeployedCharts == {c \in Charts : release[c] = "deployed"}

(* Only the end of an installation deploys a chart: what is before it has   *)
(* been installed since it was begun.                                       *)
LEMMA DeployedImplements ==
  ASSUME IInv, NEW c \in Charts, Deployed(c)
  PROVE  Abstract!Deploy(c)
<1> USE DEF IInv, TypeOK
<1>1. c \notin DeployedCharts
  BY DEF Deployed, StepsMatchReleases, DeployedCharts
<1>2. Before(c) \subseteq DeployedCharts
  BY BeforeInCharts DEF Deployed, InstalledInOrder, Installed, DeployedCharts
<1>3. DeployedCharts' = DeployedCharts \cup {c}
  BY DEF Deployed, DeployedCharts
<1> QED
  BY <1>1, <1>2, <1>3 DEF Abstract!Deploy, DeployedCharts

(* No other step deploys anything, and none undoes what is deployed: a      *)
(* release is only removed, or marked as failed, that is not.               *)
LEMMA OthersStutter ==
  ASSUME IInv, [Next]_vars
  PROVE  UNCHANGED DeployedCharts \/ \E c \in Charts : Deployed(c)
<1> USE DEF IInv, TypeOK
<1>1. ASSUME NEW c \in Charts, Install(c) \/ Fails(c) \/ WaitsInVain(c)
      PROVE  UNCHANGED DeployedCharts
  <2>1. CASE Install(c)
    <3>1. release' = [release EXCEPT ![c] = "pending"] /\ release[c] = "absent"
      BY <2>1 DEF Install, StepsMatchReleases, Fetching, Sharing
    <3> QED
      BY <3>1 DEF DeployedCharts
  <2>2. CASE Fails(c) \/ WaitsInVain(c)
    <3>1. \/ release' = release
          \/ release' = [release EXCEPT ![c] = "failed"] /\ release[c] = "pending"
      BY <2>2 DEF Fails, WaitsInVain, Fail, StepsMatchReleases
    <3> QED
      BY <3>1 DEF DeployedCharts
  <2> QED
    BY <1>1, <2>1, <2>2
<1>2. ASSUME NEW c \in Charts, ChartStep(c), ~Install(c), ~Deployed(c), ~WaitsInVain(c)
      PROVE  UNCHANGED DeployedCharts
  BY <1>2, OnlyInstallsChangeReleases DEF DeployedCharts
<1>3. ASSUME NEW c \in Charts, BecomeReady(c) \/ Unready(c) \/ Resolve(c)
      PROVE  UNCHANGED DeployedCharts
  <2>1. \/ release' = release
        \/ release' = [release EXCEPT ![c] = "absent"] /\ release[c] # "deployed"
    BY <1>3 DEF BecomeReady, Unready, Resolve
  <2> QED
    BY <2>1 DEF DeployedCharts
<1>4. ASSUME StartRun \/ NextLayer \/ LayerFails \/ Interrupt \/ RepairFiles \/ List
             \/ \E n \in Nodes : Certificates(n) \/ Request(n) \/ Deny(n)
      PROVE  UNCHANGED DeployedCharts
  BY <1>4 DEF StartRun, NextLayer, LayerFails, Interrupt, RepairFiles, List, Certificates, Approve,
              ChartApproves, Request, Deny, cluster, DeployedCharts
<1>5. ASSUME UNCHANGED vars PROVE UNCHANGED DeployedCharts
  BY <1>5 DEF vars, cluster, DeployedCharts
<1> QED
  BY <1>1, <1>2, <1>3, <1>4, <1>5 DEF Next

(* Installing charts, concurrently, failing, killed and repeated, deploys   *)
(* them in their order and loses none that is deployed.                     *)
THEOREM Implementation == Spec => ImplementsOrderedInstall
<1>1. Init => Abstract!Init
  BY DEF Init, Abstract!Init
<1>2. IInv /\ [Next]_vars => [Abstract!Next]_DeployedCharts
  BY DeployedImplements, OthersStutter DEF Abstract!Next
<1>3. IInv /\ [Next]_vars => [Abstract!Next]_{c \in Charts : release[c] = "deployed"}
  BY <1>2 DEF DeployedCharts
<1> QED
  BY <1>1, <1>3, InductiveInvariant, PTL
     DEF Spec, ImplementsOrderedInstall, Abstract!Spec
=============================================================================
