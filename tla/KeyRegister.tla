------------------------------ MODULE KeyRegister ------------------------------
(***************************************************************************)
(* What a repository promises of a secret it generates: however many files *)
(* hold or name it, they are about one key; it is recorded once, and never *)
(* exchanged for another while any file still knows it.                    *)
(***************************************************************************)
CONSTANTS
  Keys,
  MayLose   \* every copy may get lost

VARIABLE held   \* the keys some file holds or names

Record ==
  /\ held = {}
  /\ \E k \in held' : k \in Keys /\ held' = {k}

Lose ==
  /\ MayLose
  /\ held' = {}

Init == held = {}

Spec == Init /\ [][Record \/ Lose]_held
=============================================================================
