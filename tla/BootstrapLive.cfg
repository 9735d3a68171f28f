\* Completion of an interrupted setup, checkpoint writes not torn.
SPECIFICATION FairSpec
CONSTANTS
  Nodes <- MCNodes
  ControlPlanes <- MCControlPlanes
  FaultKinds <- FaultsButWipeAndEdit
  MaxFaults = 2
  InterruptPoints <- StepsButCheckpointWrite
PROPERTY BegunSetupCompletes
