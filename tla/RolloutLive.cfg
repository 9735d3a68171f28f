SPECIFICATION FairSpec
CONSTANTS
  Nodes <- MCNodes
  ControlPlanes <- ThreeControlPlanes
  Operations <- OnlyUpgrade
  FaultKinds <- Kinds
  MaxFaults = 2
INVARIANTS
  UpgradedOneByOne
PROPERTIES
  RepeatedUpgradeCompletes
