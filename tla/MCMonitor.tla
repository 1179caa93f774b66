------------------------------ MODULE MCMonitor ------------------------------
(* Small instances of Monitor for TLC. *)
EXTENDS Monitor, TLC

CONSTANTS i1, s1, pa, pb, a1, a2, h1, h2

OneIsp == {i1}
OneSeg == {s1}
OneIp == {pa}
TwoIps == {pa, pb}
AllInS1 == [p \in Ip |-> s1]
\* Agents and handler threads are interchangeable; used by safety runs only.
Symmetry == Permutations({a1, a2}) \cup Permutations({h1, h2})
AllServeI1 == [a \in Agent |-> i1]
=============================================================================
