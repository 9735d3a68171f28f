------------------------------ MODULE MCRollout ------------------------------
(* Instances of Rollout for TLC: three control planes, the smallest fleet    *)
(* that may lose one.                                                        *)
EXTENDS Rollout

MCNodes            == 1..3
ThreeControlPlanes == 1..3

AllCommands      == Commands
OnlyUpgrade      == {"upgrade"}
FaultsInsideARun == {"fail", "reject"}
=============================================================================
