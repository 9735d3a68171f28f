\* Safety of first setup under every fault but wiped disks.
SPECIFICATION Spec
CONSTANTS
  Nodes <- MCNodes
  ControlPlanes <- MCControlPlanes
  FaultKinds <- FaultsButWipe
  MaxFaults = 4
  InterruptPoints <- AllSteps
INVARIANTS
  TypeOK
  SingleCluster
  FleetConfiguredBeforeBootstrap
  ApplyIsOpen
PROPERTIES
  CheckpointKeptUntilComplete
  ImplementsFirstSetup
