\* Expected to fail: a checkpoint created but not written.
SPECIFICATION FairSpec
CONSTANTS
  Nodes <- MCNodes
  ControlPlanes <- MCControlPlanes
  FaultKinds <- FaultsButWipeAndEdit
  MaxFaults = 1
  InterruptPoints <- AllSteps
PROPERTY BegunSetupCompletes
