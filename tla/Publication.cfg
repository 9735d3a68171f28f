\* Publication of generated files, every call failing or interrupted.
SPECIFICATION Spec
CONSTANTS
  Nodes <- MCNodes
  MaxRuns = 4
CHECK_DEADLOCK FALSE
INVARIANTS
  TypeOK
  OnlyWholeSets
PROPERTIES
  BackupGivenUpForYounger
  ImplementsConfigSet
