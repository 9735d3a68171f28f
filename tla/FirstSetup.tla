------------------------------ MODULE FirstSetup ------------------------------
(***************************************************************************)
(* What the first setup of a cluster promises, whatever happens to the     *)
(* process and the machines on the way.  The operator consents to a setup  *)
(* on one control plane; there, and nowhere else, an etcd cluster is       *)
(* founded, once and for all; control planes join it; the layers are       *)
(* deployed in their order; and the consent lasts until all of them are.   *)
(***************************************************************************)
EXTENDS Integers

CONSTANTS
  ControlPlanes,
  Nobody         \* no control plane

VARIABLES
  consent,    \* the control plane a setup under way was consented for
  members,    \* the control planes in the etcd cluster
  deployed    \* the layers deployed

vars == <<consent, members, deployed>>

Layers == {"cni", "config", "charts", "flux"}
Position == [cni |-> 1, config |-> 2, charts |-> 3, flux |-> 4]
Before(layer) == {l \in Layers : Position[l] < Position[layer]}

LayersInOrder == INSTANCE OrderedInstall WITH Items <- Layers

(* A new fleet, or a cluster that was set up before.                        *)
Init ==
  /\ consent = Nobody
  /\ \/ members = {} /\ deployed = {}
     \/ members \in (SUBSET ControlPlanes) \ {{}} /\ deployed = Layers

Consent(n) ==
  /\ consent = Nobody /\ members = {}
  /\ consent' = n
  /\ UNCHANGED <<members, deployed>>

Found ==
  /\ consent # Nobody /\ members = {}
  /\ members' = {consent}
  /\ UNCHANGED <<consent, deployed>>

Join(n) ==
  /\ members # {}
  /\ members' = members \cup {n}
  /\ UNCHANGED <<consent, deployed>>

DeployLayer(layer) ==
  /\ consent \in members
  /\ LayersInOrder!Deploy(layer)
  /\ UNCHANGED <<consent, members>>

Complete ==
  /\ consent \in members /\ deployed = Layers
  /\ consent' = Nobody
  /\ UNCHANGED <<members, deployed>>

Next ==
  \/ \E n \in ControlPlanes : Consent(n) \/ Join(n)
  \/ Found
  \/ \E layer \in Layers : DeployLayer(layer)
  \/ Complete

Spec == Init /\ [][Next]_vars
=============================================================================
