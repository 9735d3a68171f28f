------------------------------ MODULE MCRepoInit ------------------------------
(* RepoInit for TLC: the constants are given by the configurations.          *)
EXTENDS RepoInit
=============================================================================
