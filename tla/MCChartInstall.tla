----------------------------- MODULE MCChartInstall -----------------------------
(* ChartInstall for TLC: the base layer, two OCI charts installed            *)
(* concurrently; a synchronous layer, an OCI chart and then an http one; and *)
(* a concurrent one with two charts from http repositories.                  *)
EXTENDS ChartInstall

MCLayers == <<[charts |-> <<"cilium", "csr-approver">>, async |-> TRUE],
              [charts |-> <<"prometheus", "cert-manager">>, async |-> FALSE],
              [charts |-> <<"metallb", "metrics-server">>, async |-> TRUE]>>
MCAwaited == {"cilium", "csr-approver", "prometheus"}
MCHttp == {"cert-manager", "metallb", "metrics-server"}
MCNamespaceOf ==
  [c \in Charts |-> IF c \in {"cert-manager", "metallb", "metrics-server"} THEN "system" ELSE "base"]
MCRepoOf == [c \in Charts |-> IF c \in {"cilium", "metallb"} THEN c ELSE "home"]
MCNodes == {"node"}
AllKinds == Kinds
=============================================================================
