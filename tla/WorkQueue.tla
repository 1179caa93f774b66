------------------------------ MODULE WorkQueue ------------------------------
(****************************************************************************)
(* What the task queue promises, however often a task is handed out, lost,  *)
(* requeued or answered: a task is open from when it is added until it is   *)
(* answered, is then done for good, and only a done task is removed.        *)
(****************************************************************************)
VARIABLES open, done

WQInit == open = {} /\ done = {}

\* New tasks come in sets; one that is done is not added again.
Add ==
    /\ open \subseteq open'
    /\ open' \cap done = {}
    /\ done' = done

Complete ==
    /\ open' \subseteq open
    /\ done' = done \cup (open \ open')

Purge ==
    /\ done' \subseteq done
    /\ open' = open

WQNext == Add \/ Complete \/ Purge

WQSpec == WQInit /\ [][WQNext]_<<open, done>>
=============================================================================
