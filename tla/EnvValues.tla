------------------------------ MODULE EnvValues ------------------------------
(***************************************************************************)
(* CheckEnvVariables (pkg/initfiles/clusterenv.go): which addresses of     *)
(* cluster-secrets.sops.yaml init and genconfig accept for a cluster.      *)
(*                                                                         *)
(* An address is its family, by its number of bits, and its value within   *)
(* the family; IPv4 addresses written as IPv6 ones are already unmapped.   *)
(* A prefix is its first and its last address. That the texts are present  *)
(* and parse is what membership in Settings says.                          *)
(***************************************************************************)
EXTENDS Integers

Families == {32, 128}

Addresses == [bits : Families, value : Nat]

Prefixes == {p \in [bits : Families, first : Nat, last : Nat] : p.first <= p.last}

Settings == [VIP : Addresses, GATEWAY : Addresses, HEADLAMP_IP : Addresses,
             start : Addresses, end : Addresses,     \* METALLB_RANGE
             PODNET : Prefixes, SVCNET : Prefixes]

(* netip.Addr.Compare(a, b) <= 0: families first, then values. *)
NotAfter(a, b) ==
  \/ a.bits < b.bits
  \/ a.bits = b.bits /\ a.value <= b.value

RangeOrdered(s) == s.start.bits = s.end.bits /\ NotAfter(s.start, s.end)

InRange(s, a) == a.bits = s.start.bits /\ NotAfter(s.start, a) /\ NotAfter(a, s.end)

(* net.IPNet.Contains, and the prefix's own address prefix.IP. *)
Contains(p, a) == a.bits = p.bits /\ p.first <= a.value /\ a.value <= p.last

Base(p) == [bits |-> p.bits, value |-> p.first]

(* The range is not walked: three of the addresses decide. *)
RangeOverlaps(s, p) == Contains(p, s.start) \/ Contains(p, s.end) \/ InRange(s, Base(p))

RangeApart(s, nodes) ==
  /\ RangeOrdered(s)
  /\ ~InRange(s, s.VIP)
  /\ ~InRange(s, s.GATEWAY)
  /\ InRange(s, s.HEADLAMP_IP)
  /\ \A n \in nodes : n # s.VIP /\ n # s.GATEWAY /\ ~InRange(s, n)

PrefixApart(s, nodes, p) ==
  /\ ~Contains(p, s.VIP)
  /\ ~Contains(p, s.GATEWAY)
  /\ \A n \in nodes : ~Contains(p, n)
  /\ ~RangeOverlaps(s, p)

CheckEnvVariables(s, nodes) ==
  /\ RangeApart(s, nodes)
  /\ PrefixApart(s, nodes, s.PODNET)
  /\ PrefixApart(s, nodes, s.SVCNET)

-----------------------------------------------------------------------------
(* What the check is for, as sets of addresses.                            *)

AddressesOf(p) == {a \in Addresses : Contains(p, a)}

LoadBalancers(s) == {a \in Addresses : InRange(s, a)}

Fixed(s) == {s.VIP, s.GATEWAY}

Disjoint(A, B) == A \cap B = {}

NoAddressTwice(s, nodes) ==
  /\ Disjoint(nodes, Fixed(s))
  /\ Disjoint(nodes \cup Fixed(s), LoadBalancers(s))
  /\ \A p \in {s.PODNET, s.SVCNET} :
       Disjoint(nodes \cup Fixed(s) \cup LoadBalancers(s), AddressesOf(p))
=============================================================================
