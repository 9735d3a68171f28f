------------------------------ MODULE ConfigSet ------------------------------
(***************************************************************************)
(* What regenerating the Talos configuration promises: there is one        *)
(* current set of generated files, a run replaces it as a whole by a       *)
(* younger one or leaves it alone, and it is never lost.                   *)
(***************************************************************************)
EXTENDS Integers

CONSTANT Generations  \* numbers of generation runs, 0 for "none yet"

VARIABLE current

Init == current = 0

Publish ==
  /\ current' \in Generations
  /\ current' > current

Spec == Init /\ [][Publish]_current
=============================================================================
