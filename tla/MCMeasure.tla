------------------------------ MODULE MCMeasure ------------------------------
(* A small instance of Measure for TLC. *)
EXTENDS Measure

CONSTANTS pa, pb

Ips == {pa, pb}
SomeColos == {[name |-> "HKG", part |-> ""]}
SomeRegions == "HKG" :> "hk"
SomeTargets == {<<"telecom", pa>>, <<"telecom", pb>>, <<"unicom", pa>>}
\* Slow once.
SomeHandshakes == {[warmup |-> 1, rtts |-> <<9, 1, 3>>]}
=============================================================================
