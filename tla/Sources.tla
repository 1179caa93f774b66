------------------------------- MODULE Sources -------------------------------
(****************************************************************************)
(* The networks to scan (master/ip_sources.py): what Storage takes as its   *)
(* constants Seg, Ip, CidrOf and SampleIp.  An address is a number, and a   *)
(* network, written as an address and a prefix length, is a record of the   *)
(* address and of the size that length stands for: 256 for a /24.           *)
(* Operators on networks are ipaddress's where the code calls it.           *)
(****************************************************************************)
EXTENDS Integers, Sequences, FiniteSets

CONSTANTS
    Fetched,    \* what www.cloudflare.com/ips-v4 lists
    Builtin,    \* FALLBACK_CF_CIDRS_V4
    Offsets     \* c_segment_probe_offsets

\* ip_network with strict=False: host bits are cleared.
IpNetwork(c) == [base |-> c.base - (c.base % c.size), size |-> c.size]
Within(n) == n.base .. n.base + n.size - 1

\* Networks as Cloudflare lists them: none in another, and none smaller than a /24.
Disjoint(cidrs) ==
    /\ \A k \in DOMAIN cidrs : cidrs[k].size % 256 = 0
    /\ \A k, m \in DOMAIN cidrs :
          k # m => Within(IpNetwork(cidrs[k])) \cap Within(IpNetwork(cidrs[m])) = {}

ASSUME SourcesAssumption ==
    /\ {Fetched, Builtin} \subseteq Seq([base: Nat, size: Nat \ {0}])
    /\ Disjoint(Fetched) /\ Disjoint(Builtin)
    /\ Offsets \subseteq Int

\* fetch_cloudflare_cidrs: what was fetched, if that is anything, or the built-in list.
Networks(fetched) == IF fetched = <<>> THEN Builtin ELSE fetched

\* A network longer than a /24 stays what it is.
Subnets24(n) ==
    IF n.size <= 256 THEN {n}
    ELSE {[base |-> n.base + 256 * k, size |-> 256] : k \in 0 .. (n.size \div 256) - 1}

\* explode_to_24: the list, as the set of its segments with the entry each came from.
ExplodeTo24(cidrs) ==
    UNION {{k} \X Subnets24(IpNetwork(cidrs[k])) : k \in DOMAIN cidrs}

\* Faulty variant: offsets are not checked.
SampleAnyOffsets(n, offsets) == {n.base + off : off \in offsets}

\* sample_offsets_in_24
SampleOffsets(n, offsets) == {n.base + off : off \in {o \in offsets : 0 < o /\ o < 255}}

\* all_hosts_in_24: networks of one or two addresses have no broadcast address.
AllHosts(n) == IF n.size <= 2 THEN Within(n)
               ELSE Within(n) \ {n.base, n.base + n.size - 1}

\* Every address but the first and last of a /24 is a host of exactly one segment, and
\* whatever offsets are configured, the samples of a segment are hosts of that segment,
\* which its expansion covers.
SegmentsPartition(cidrs, offsets) ==
    LET segs == ExplodeTo24(cidrs)
        all == UNION {Within(IpNetwork(cidrs[k])) : k \in DOMAIN cidrs}
    IN  /\ \A a \in all : a % 256 \notin {0, 255} =>
              Cardinality({s \in segs : a \in AllHosts(s[2])}) = 1
        /\ \A s \in segs : SampleOffsets(s[2], offsets) \subseteq AllHosts(s[2])
=============================================================================
