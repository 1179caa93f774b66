----------------------------- MODULE SourcesProofs ---------------------------
(* Theorems about Sources, for every list of networks and every offsets. *)
EXTENDS Scan, FiniteSetTheorems, TLAPS

LEMMA Division ==
    ASSUME NEW n \in Nat, NEW d \in Nat \ {0}
    PROVE  n \div d \in Nat /\ n % d \in Nat /\ n = d * (n \div d) + (n % d)
OBVIOUS

LEMMA By256 ==
    ASSUME NEW n \in Nat
    PROVE  n \div 256 \in Nat /\ n % 256 \in 0 .. 255 /\ n = 256 * (n \div 256) + (n % 256)
OBVIOUS

(* Clearing the host bits leaves a multiple of the size, and so of 256. *)
LEMMA NetworkAligned ==
    ASSUME NEW c \in [base: Nat, size: Nat \ {0}], c.size % 256 = 0
    PROVE  LET n == IpNetwork(c) IN
           /\ n.base \in Nat /\ n.base % 256 = 0
           /\ n.size \in Nat \ {0} /\ n.size % 256 = 0 /\ n.size >= 256
<1> DEFINE n == IpNetwork(c)
           q == c.base \div c.size
           m == c.size \div 256
<1>1. c.base \in Nat /\ c.size \in Nat \ {0}
  OBVIOUS
<1>2. q \in Nat /\ c.base % c.size \in Nat /\ c.base = c.size * q + (c.base % c.size)
  BY <1>1, Division
<1>3. m \in Nat /\ c.size = 256 * m
  BY <1>1, By256
<1>4. n.base = c.base - (c.base % c.size) /\ n.size = c.size
  BY DEF IpNetwork
<1> HIDE DEF n, q, m
<1>5. n.base = c.size * q
  <2> DEFINE r == c.base % c.size
             p == c.size * q
  <2>1. p \in Nat
    BY <1>1, <1>2
  <2> HIDE DEF r, p
  <2> QED
    BY <1>1, <1>2, <1>4, <2>1 DEF r, p
<1>6. c.size * q = 256 * (m * q)
  <2>1. (256 * m) * q = 256 * (m * q)
    BY <1>2, <1>3
  <2> QED
    BY <1>3, <2>1
<1>7. m * q \in Nat
  BY <1>2, <1>3
<1> DEFINE p == m * q
<1> HIDE DEF p
<1>8. n.base = 256 * p /\ p \in Nat
  BY <1>5, <1>6, <1>7 DEF p
<1>9. n.base \in Nat /\ n.base % 256 = 0
  BY <1>8
<1>10. m # 0
  BY <1>1, <1>3
<1> QED
  BY <1>1, <1>3, <1>4, <1>9, <1>10 DEF n

(* The segments of a network are of 256 addresses each, from its first one on. *)
LEMMA SubnetsOf ==
    ASSUME NEW n, n.base \in Nat, n.size \in Nat, n.size % 256 = 0, n.size >= 256,
           n = [base |-> n.base, size |-> n.size]
    PROVE  Subnets24(n) = {[base |-> n.base + 256 * k, size |-> 256] : k \in 0 .. (n.size \div 256) - 1}
<1> DEFINE Nth(k) == [base |-> n.base + 256 * k, size |-> 256]
<1>1. CASE n.size <= 256
  <2>1. n.size = 256 /\ n.size \div 256 = 1
    BY <1>1
  <2>2. 0 .. (n.size \div 256) - 1 = {0}
    BY <2>1
  <2>3. Nth(0) = n
    BY <2>1
  <2>4. Subnets24(n) = {n}
    BY <1>1 DEF Subnets24
  <2> HIDE DEF Nth
  <2>5. {Nth(k) : k \in {0}} = {n}
    BY <2>3
  <2>6. {Nth(k) : k \in 0 .. (n.size \div 256) - 1} = {n}
    BY <2>2, <2>5
  <2> QED
    BY <2>4, <2>6 DEF Nth
<1>2. CASE ~(n.size <= 256)
  BY <1>2 DEF Subnets24
<1> QED
  BY <1>1, <1>2

(* An address of a network, not the first or last of its /24, is a host of the segment
   its distance from the network's first address gives, and of no other. *)
LEMMA HostOfOne ==
    ASSUME NEW n, n.base \in Nat, n.base % 256 = 0, n.size \in Nat, n.size % 256 = 0,
           n.size >= 256, n = [base |-> n.base, size |-> n.size],
           NEW a \in Within(n), a % 256 \notin {0, 255}
    PROVE  \E s \in Subnets24(n) : /\ a \in AllHosts(s)
                                   /\ \A t \in Subnets24(n) : a \in AllHosts(t) => t = s
<1> DEFINE Nth(k) == [base |-> n.base + 256 * k, size |-> 256]
           m == n.size \div 256
           b == n.base \div 256
           k0 == (a \div 256) - b
           r == a % 256
<1>1. m \in Nat /\ n.size = 256 * m /\ b \in Nat /\ n.base = 256 * b
  BY By256
<1>2. a \in Nat /\ n.base <= a /\ a < n.base + n.size
  BY DEF Within
<1>3. a \div 256 \in Nat /\ r \in 1 .. 254 /\ a = 256 * (a \div 256) + r
  BY <1>2, By256
<1>4. Subnets24(n) = {Nth(k) : k \in 0 .. m - 1}
  BY SubnetsOf
<1>5. \A k \in Nat : a \in AllHosts(Nth(k)) <=> n.base + 256 * k < a /\ a < n.base + 256 * k + 255
  <2> SUFFICES ASSUME NEW k \in Nat
               PROVE  a \in AllHosts(Nth(k)) <=> n.base + 256 * k < a /\ a < n.base + 256 * k + 255
    OBVIOUS
  <2>1. Nth(k).base = n.base + 256 * k /\ Nth(k).size = 256
    OBVIOUS
  <2> HIDE DEF Nth
  <2> QED
    BY <1>2, <2>1 DEF AllHosts, Within
<1> HIDE DEF Nth, m, b, r
<1>6. k0 \in 0 .. m - 1 /\ a = n.base + 256 * k0 + r
  <2> DEFINE q == a \div 256
  <2> HIDE DEF q
  <2> QED
    BY <1>1, <1>2, <1>3 DEF q
<1> HIDE DEF k0
<1>7. a \in AllHosts(Nth(k0))
  BY <1>3, <1>5, <1>6
<1>8. ASSUME NEW k \in 0 .. m - 1, a \in AllHosts(Nth(k)) PROVE k = k0
  BY <1>1, <1>3, <1>5, <1>6, <1>8
<1> QED
  BY <1>4, <1>6, <1>7, <1>8

LEMMA ElementsTyped ==
    ASSUME NEW S, NEW list \in Seq(S)
    PROVE  \A k \in DOMAIN list : list[k] \in S
OBVIOUS

(* The segments of disjoint networks. *)
LEMMA SegmentsOfNetworks ==
    ASSUME NEW cidrs \in Seq([base: Nat, size: Nat \ {0}]), Disjoint(cidrs),
           NEW offsets \in SUBSET Int
    PROVE  SegmentsPartition(cidrs, offsets)
<1>0. \A k \in DOMAIN cidrs : cidrs[k] \in [base: Nat, size: Nat \ {0}]
  BY ElementsTyped
<1> DEFINE parts == ExplodeTo24(cidrs)
           net(k) == IpNetwork(cidrs[k])
<1>1. \A k \in DOMAIN cidrs : /\ net(k).base \in Nat /\ net(k).base % 256 = 0
                              /\ net(k).size \in Nat /\ net(k).size % 256 = 0 /\ net(k).size >= 256
  <2> SUFFICES ASSUME NEW k \in DOMAIN cidrs
               PROVE  /\ net(k).base \in Nat /\ net(k).base % 256 = 0
                      /\ net(k).size \in Nat /\ net(k).size % 256 = 0 /\ net(k).size >= 256
    OBVIOUS
  <2>1. cidrs[k] \in [base: Nat, size: Nat \ {0}] /\ cidrs[k].size % 256 = 0
    <3>1. cidrs[k] \in [base: Nat, size: Nat \ {0}]
      BY <1>0
    <3>2. cidrs[k].size % 256 = 0
      BY Zenon DEF Disjoint
    <3> QED
      BY <3>1, <3>2
  <2> QED
    BY <2>1, NetworkAligned
<1>2. \A k \in DOMAIN cidrs : net(k) = [base |-> net(k).base, size |-> net(k).size]
  BY DEF IpNetwork
<1>3. parts = UNION {{k} \X Subnets24(net(k)) : k \in DOMAIN cidrs}
  BY DEF ExplodeTo24
<1>4. \A k, m \in DOMAIN cidrs : k # m => Within(net(k)) \cap Within(net(m)) = {}
  BY DEF Disjoint
<1> HIDE DEF net, parts
<1>5. \A x : x \in parts <=> \E k \in DOMAIN cidrs : \E s \in Subnets24(net(k)) : x = <<k, s>>
  BY <1>3
<1>6. ASSUME NEW k \in DOMAIN cidrs, NEW s \in Subnets24(net(k))
      PROVE  /\ s.size = 256 /\ s.base \in Nat
             /\ AllHosts(s) = s.base + 1 .. s.base + 254
             /\ AllHosts(s) \subseteq Within(net(k))
  <2>1. Subnets24(net(k)) = {[base |-> net(k).base + 256 * j, size |-> 256] :
                                j \in 0 .. (net(k).size \div 256) - 1}
    BY <1>1, <1>2, SubnetsOf
  <2>2. PICK j \in 0 .. (net(k).size \div 256) - 1 : s = [base |-> net(k).base + 256 * j, size |-> 256]
    BY <2>1
  <2>3. s.size = 256 /\ s.base = net(k).base + 256 * j
    BY <2>2
  <2>4. s.base \in Nat /\ s.base >= net(k).base /\ s.base + 256 <= net(k).base + net(k).size
    <3> DEFINE q == net(k).size \div 256
    <3>1. q \in Nat /\ net(k).size = 256 * q
      BY <1>1, By256
    <3>2. j \in Nat /\ j <= q - 1
      BY <3>1
    <3>3. net(k).base \in Nat
      BY <1>1
    <3> HIDE DEF q
    <3>4. \A b \in Nat : b + 256 * j \in Nat /\ b + 256 * j >= b /\ b + 256 * j + 256 <= b + 256 * q
      BY <3>1, <3>2
    <3> QED
      BY <2>3, <3>1, <3>3, <3>4
  <2>5. AllHosts(s) = s.base + 1 .. s.base + 254
    <3>1. Within(s) = s.base .. s.base + 255
      BY <2>3, <2>4 DEF Within
    <3>2. AllHosts(s) = Within(s) \ {s.base, s.base + 255}
      BY <2>3, <2>4 DEF AllHosts
    <3>3. \A b \in Nat : (b .. b + 255) \ {b, b + 255} = b + 1 .. b + 254
      OBVIOUS
    <3>4. AllHosts(s) = (s.base .. s.base + 255) \ {s.base, s.base + 255}
      BY <3>1, <3>2, Zenon
    <3> QED
      BY <2>4, <3>3, <3>4, Zenon
  <2>6. AllHosts(s) \subseteq Within(net(k))
    <3>1. net(k).base \in Nat /\ net(k).size \in Nat
      BY <1>1
    <3>2. \A b, c, z \in Nat : b >= c /\ b + 256 <= c + z => b + 1 .. b + 254 \subseteq c .. c + z - 1
      OBVIOUS
    <3> QED
      BY <2>4, <2>5, <3>1, <3>2 DEF Within
  <2> QED
    BY <2>3, <2>4, <2>5, <2>6
<1>7. ASSUME NEW k \in DOMAIN cidrs, NEW a \in Within(net(k)), a % 256 \notin {0, 255}
      PROVE  Cardinality({x \in parts : a \in AllHosts(x[2])}) = 1
  <2>1. PICK s \in Subnets24(net(k)) :
            /\ a \in AllHosts(s)
            /\ \A t \in Subnets24(net(k)) : a \in AllHosts(t) => t = s
    BY <1>1, <1>2, <1>7, HostOfOne
  <2>2. ASSUME NEW x \in parts, a \in AllHosts(x[2]) PROVE x = <<k, s>>
    <3>1. PICK m \in DOMAIN cidrs : \E t \in Subnets24(net(m)) : x = <<m, t>>
      BY <1>5
    <3>2. PICK t \in Subnets24(net(m)) : x = <<m, t>>
      BY <3>1
    <3>3. a \in Within(net(m))
      BY <1>6, <2>2, <3>2
    <3>4. m = k
      BY <1>4, <3>3
    <3> QED
      BY <2>1, <2>2, <3>2, <3>4
  <2>3. <<k, s>> \in parts
    BY <1>5
  <2>4. {x \in parts : a \in AllHosts(x[2])} = {<<k, s>>}
    <3>1. <<k, s>>[2] = s
      OBVIOUS
    <3> QED
      BY <2>1, <2>2, <2>3, <3>1
  <2> QED
    BY <2>4, FS_Singleton
<1>8. ASSUME NEW x \in parts PROVE SampleOffsets(x[2], offsets) \subseteq AllHosts(x[2])
  <2>1. PICK k \in DOMAIN cidrs : \E s \in Subnets24(net(k)) : x = <<k, s>>
    BY <1>5
  <2>2. PICK s \in Subnets24(net(k)) : x = <<k, s>>
    BY <2>1
  <2>3. x[2] = s
    BY <2>2
  <2> QED
    BY <1>6, <2>3 DEF SampleOffsets
<1>9. /\ \A a \in UNION {Within(net(k)) : k \in DOMAIN cidrs} : a % 256 \notin {0, 255} =>
            Cardinality({x \in parts : a \in AllHosts(x[2])}) = 1
      /\ \A x \in parts : SampleOffsets(x[2], offsets) \subseteq AllHosts(x[2])
  <2>1. ASSUME NEW a \in UNION {Within(net(k)) : k \in DOMAIN cidrs}
        PROVE  \E k \in DOMAIN cidrs : a \in Within(net(k))
    OBVIOUS
  <2> QED
    <3>1. ASSUME NEW a \in UNION {Within(net(k)) : k \in DOMAIN cidrs}, a % 256 \notin {0, 255}
          PROVE  Cardinality({x \in parts : a \in AllHosts(x[2])}) = 1
      <4>1. PICK k \in DOMAIN cidrs : a \in Within(net(k))
        BY <2>1
      <4> QED
        BY <1>7, <3>1, <4>1
    <3> QED
      BY <1>8, <3>1
<1> QED
  BY <1>9, Zenon DEF SegmentsPartition, net, parts

(* Whatever disjoint networks are listed, each address is of one segment, and the samples
   that decide on a segment are addresses its expansion covers, for all offsets
   (master/ip_sources.py). *)
THEOREM SegmentsDisjoint == Spec => []SegmentsAreDisjoint
<1>1. SegmentsAreDisjoint
  BY SegmentsOfNetworks, SourcesAssumption DEF SegmentsAreDisjoint, Networks
<1> QED
  BY <1>1, PTL
=============================================================================
