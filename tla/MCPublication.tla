---------------------------- MODULE MCPublication ----------------------------
(* Publication with two nodes, for TLC.                                      *)
EXTENDS Publication

MCNodes == 1..2
=============================================================================
