\* Three control planes that fail and refuse commands: what a run may do.
SPECIFICATION Spec
CONSTANTS
  Nodes <- MCNodes
  ControlPlanes <- ThreeControlPlanes
  Operations <- AllCommands
  FaultKinds <- FaultsInsideARun
  MaxFaults = 2
INVARIANTS
  TypeOK
  OneNodeAtATime
  NothingUpgradedBeforePreflight
  QuorumKept
  SuccessMeansCurrent
PROPERTIES
  StopsAtFirstFailure
