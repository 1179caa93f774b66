------------------------------- MODULE RoundLog ------------------------------
(****************************************************************************)
(* What the rounds promise: they are numbered as they start, each starts    *)
(* only when the one before is finished, and a finished round stays         *)
(* finished.                                                                *)
(****************************************************************************)
EXTENDS Naturals

VARIABLES started, running

RLInit == started = 0 /\ running = {}

Start ==
    /\ running = {}
    /\ started' = started + 1
    /\ running' = {started + 1}

Finish ==
    /\ running # {}
    /\ running' = {}
    /\ UNCHANGED started

RLNext == Start \/ Finish

RLSpec == RLInit /\ [][RLNext]_<<started, running>>
=============================================================================
