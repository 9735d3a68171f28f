---------------------------- MODULE OrderedInstall ----------------------------
(***************************************************************************)
(* What installing into a cluster promises, of layers and of the charts in *)
(* them: things are deployed one by one, each after those it depends on,   *)
(* and what is deployed stays so, however often installing is broken off   *)
(* and begun again.                                                        *)
(***************************************************************************)
CONSTANTS
  Items,
  Before(_)   \* the items that are deployed before an item

VARIABLE deployed

Deploy(i) ==
  /\ i \in Items \ deployed
  /\ Before(i) \subseteq deployed
  /\ deployed' = deployed \cup {i}

Init == deployed = {}

Next == \E i \in Items : Deploy(i)

Spec == Init /\ [][Next]_deployed
=============================================================================
