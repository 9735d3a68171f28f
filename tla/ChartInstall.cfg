\* Layers of charts, killed, failing and repeated, with the approver.
SPECIFICATION FairSpec
CONSTANTS
  Layers <- MCLayers
  Awaited <- MCAwaited
  Cni = "cilium"
  CsrApprover = "csr-approver"
  NamespaceOf <- MCNamespaceOf
  RepoOf <- MCRepoOf
  Http <- MCHttp
  Nodes <- MCNodes
  MaxRequests = 2
  FaultKinds <- AllKinds
  MaxFaults = 2
CHECK_DEADLOCK FALSE
INVARIANTS
  TypeOK
  InstalledInOrder
  AlwaysAnApprover
  OnlyHttpChartsRace
PROPERTIES
  NeverASecondInstall
  DecisionsStand
  InstallationCompletes
  ImplementsOrderedInstall
