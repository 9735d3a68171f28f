\* No new setup over an existing cluster, even with wiped disks.
SPECIFICATION Spec
CONSTANTS
  Nodes <- MCNodes
  ControlPlanes <- MCControlPlanes
  FaultKinds <- FaultsButLost
  MaxFaults = 3
  InterruptPoints <- AllSteps
PROPERTY NewSetupOnlyWithoutEtcd
