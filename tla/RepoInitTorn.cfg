\* A file operation of init fails half-way; init is repeated.
SPECIFICATION FairSpec
CONSTANTS
  FaultKinds = {"torn"}
  MaxFaults = 1
INVARIANTS
  CompletedWithDeployKey
