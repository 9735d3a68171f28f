\* Expected to fail: a running etcd that does not answer does not decide.
SPECIFICATION Spec
CONSTANTS
  Nodes <- MCNodes
  ControlPlanes <- MCControlPlanes
  FaultKinds <- WipeAndLoseContact
  MaxFaults = 4
  InterruptPoints <- AllSteps
PROPERTY LiveEtcdDecides
