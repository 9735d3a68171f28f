\* init, repeated and interrupted, in one repository with every fault.
SPECIFICATION FairSpec
CONSTANTS
  FaultKinds = {"stop", "torn", "clone", "lose"}
  MaxFaults = 3
INVARIANTS
  TypeOK
  OneAgeKey
  PairedDeployKey
  GenerationAwaitsInit
PROPERTIES
  ImplementsKeyRegisters
  SetupCompletes
