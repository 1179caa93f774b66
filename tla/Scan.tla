--------------------------------- MODULE Scan --------------------------------
(* The whole system with the networks its rounds start from. *)
EXTENDS Monitor, Sources

\* Before the first round: what is scanned are segments as Storage takes them, each
\* address of one and with samples of its own, whether the list could be fetched or not
\* (master/ip_sources.py, master/strategy.py).
SegmentsAreDisjoint ==
    seq = 0 /\ started = 0 /\ crashes = 0 =>
        \A fetched \in {<<>>, Fetched} : SegmentsPartition(Networks(fetched), Offsets)
=============================================================================
