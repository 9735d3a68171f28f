-------------------------- MODULE EnvValues_proofs --------------------------
(***************************************************************************)
(* CheckEnvVariables decides by comparing single addresses what is a       *)
(* question about sets of them.                                            *)
(***************************************************************************)
EXTENDS EnvValues, TLAPS

(* Three addresses tell whether a range and a prefix have any in common:   *)
(* either end of the range lies in the prefix, or the prefix begins inside *)
(* of the range (clusterenv.go:135).                                       *)
THEOREM ThreeAddressesDecide ==
  ASSUME NEW s \in Settings, RangeOrdered(s), NEW p \in Prefixes
  PROVE  RangeOverlaps(s, p) <=> ~Disjoint(LoadBalancers(s), AddressesOf(p))
<1>1. /\ s.start \in Addresses /\ s.end \in Addresses
      /\ p.bits \in Families /\ p.first \in Nat /\ p.last \in Nat /\ p.first <= p.last
  BY DEF Settings, Prefixes
<1>2. /\ s.start.bits \in Families /\ s.start.value \in Nat
      /\ s.end.bits \in Families /\ s.end.value \in Nat
      /\ s.start.bits = s.end.bits /\ s.start.value <= s.end.value
  BY <1>1 DEF Addresses, Families, RangeOrdered, NotAfter
<1>3. Base(p) \in Addresses /\ Base(p).bits = p.bits /\ Base(p).value = p.first
  BY <1>1 DEF Base, Addresses
<1>4. ASSUME RangeOverlaps(s, p)
      PROVE  \E a \in Addresses : InRange(s, a) /\ Contains(p, a)
  <2>1. CASE Contains(p, s.start)
    <3>1. InRange(s, s.start)
      BY <1>2 DEF InRange, NotAfter
    <3> QED BY <2>1, <3>1, <1>1
  <2>2. CASE Contains(p, s.end)
    <3>1. InRange(s, s.end)
      BY <1>2 DEF InRange, NotAfter
    <3> QED BY <2>2, <3>1, <1>1
  <2>3. CASE InRange(s, Base(p))
    <3>1. Contains(p, Base(p))
      BY <1>1, <1>3 DEF Contains
    <3> QED BY <2>3, <3>1, <1>3
  <2> QED BY <1>4, <2>1, <2>2, <2>3 DEF RangeOverlaps
<1>5. ASSUME NEW a \in Addresses, InRange(s, a), Contains(p, a)
      PROVE  RangeOverlaps(s, p)
  <2>1. /\ a.bits = p.bits /\ a.bits = s.start.bits /\ a.value \in Nat
        /\ p.first <= a.value /\ a.value <= p.last
        /\ s.start.value <= a.value /\ a.value <= s.end.value
    BY <1>2, <1>5 DEF Addresses, Families, InRange, NotAfter, Contains
  <2>2. CASE s.start.value < p.first
    <3>1. p.first <= s.end.value /\ s.start.value <= p.first
      BY <1>1, <1>2, <2>1, <2>2
    <3>2. InRange(s, Base(p))
      BY <3>1, <1>2, <1>3, <2>1 DEF InRange, NotAfter
    <3> QED BY <3>2 DEF RangeOverlaps
  <2>3. CASE p.first <= s.start.value
    <3>1. s.start.value <= p.last
      BY <1>1, <1>2, <2>1
    <3>2. Contains(p, s.start)
      BY <3>1, <2>1, <2>3 DEF Contains
    <3> QED BY <3>2 DEF RangeOverlaps
  <2> QED BY <1>1, <1>2, <2>2, <2>3
<1> QED BY <1>4, <1>5 DEF Disjoint, LoadBalancers, AddressesOf

(* What CheckEnvVariables accepts is exactly what it is meant to accept:   *)
(* settings whose nodes, virtual IP and gateway, load-balancer range and   *)
(* cluster networks share no address, with headlamp inside of the range.   *)
(* Nothing unsafe passes, and nothing safe is refused.                     *)
THEOREM AcceptsExactlyDisjoint ==
  ASSUME NEW s \in Settings, NEW nodes \in SUBSET Addresses
  PROVE  CheckEnvVariables(s, nodes)
           <=> /\ RangeOrdered(s)
               /\ InRange(s, s.HEADLAMP_IP)
               /\ NoAddressTwice(s, nodes)
<1>1. /\ s.VIP \in Addresses /\ s.GATEWAY \in Addresses
      /\ s.PODNET \in Prefixes /\ s.SVCNET \in Prefixes
  BY DEF Settings
<1> DEFINE Held == nodes \cup Fixed(s)
<1>2. Held \subseteq Addresses
  BY <1>1 DEF Fixed
<1>3. RangeApart(s, nodes)
        <=> /\ RangeOrdered(s) /\ InRange(s, s.HEADLAMP_IP)
            /\ Disjoint(nodes, Fixed(s)) /\ Disjoint(Held, LoadBalancers(s))
  <2>1. Disjoint(nodes, Fixed(s)) <=> \A n \in nodes : n # s.VIP /\ n # s.GATEWAY
    BY DEF Disjoint, Fixed
  <2>2. Disjoint(Held, LoadBalancers(s)) <=> \A a \in Held : ~InRange(s, a)
    BY <1>2 DEF Disjoint, LoadBalancers
  <2>3. (\A a \in Held : ~InRange(s, a))
          <=> /\ ~InRange(s, s.VIP) /\ ~InRange(s, s.GATEWAY)
              /\ \A n \in nodes : ~InRange(s, n)
    BY DEF Fixed
  <2> QED BY <2>1, <2>2, <2>3 DEF RangeApart
<1>4. ASSUME RangeOrdered(s), NEW p \in Prefixes
      PROVE  PrefixApart(s, nodes, p)
               <=> Disjoint(Held \cup LoadBalancers(s), AddressesOf(p))
  <2>1. ~RangeOverlaps(s, p) <=> Disjoint(LoadBalancers(s), AddressesOf(p))
    BY <1>4, ThreeAddressesDecide
  <2>2. Disjoint(Held, AddressesOf(p)) <=> \A a \in Held : ~Contains(p, a)
    BY <1>2 DEF Disjoint, AddressesOf
  <2>3. (\A a \in Held : ~Contains(p, a))
          <=> /\ ~Contains(p, s.VIP) /\ ~Contains(p, s.GATEWAY)
              /\ \A n \in nodes : ~Contains(p, n)
    BY DEF Fixed
  <2>4. Disjoint(Held \cup LoadBalancers(s), AddressesOf(p))
          <=> Disjoint(Held, AddressesOf(p)) /\ Disjoint(LoadBalancers(s), AddressesOf(p))
    BY DEF Disjoint
  <2> QED BY <2>1, <2>2, <2>3, <2>4 DEF PrefixApart
<1>5. ASSUME RangeOrdered(s)
      PROVE  (PrefixApart(s, nodes, s.PODNET) /\ PrefixApart(s, nodes, s.SVCNET))
               <=> \A p \in {s.PODNET, s.SVCNET} :
                     Disjoint(Held \cup LoadBalancers(s), AddressesOf(p))
  BY <1>1, <1>4, <1>5
<1>6. CheckEnvVariables(s, nodes) => RangeOrdered(s)
  BY DEF CheckEnvVariables, RangeApart
<1> QED BY <1>3, <1>5, <1>6 DEF CheckEnvVariables, NoAddressTwice
=============================================================================
