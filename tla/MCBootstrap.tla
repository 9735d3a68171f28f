---------------------------- MODULE MCBootstrap ----------------------------
(* Instances of Bootstrap for TLC: three control planes, one worker.        *)
EXTENDS Bootstrap

MCNodes == 1..4
MCControlPlanes == 1..3

AllSteps == Steps
StepsButCheckpointWrite == Steps \ {"write"}

(* No wiped disks: every other fault.                                      *)
FaultsButWipe == Kinds \ {"wipe"}
FaultsButLost == Kinds \ {"lost"}
FaultsButWipeAndEdit == Kinds \ {"wipe", "edit"}

(* The least it takes to lose sight of a running etcd.                     *)
WipeAndLoseContact == {"interrupt", "unreachable", "wipe"}
=============================================================================
