------------------------------- MODULE Reports -------------------------------
(****************************************************************************)
(* The probing agents (agent/runner.py) and the two endpoints they use      *)
(* (master/server.py): POST /v1/tasks/pull and POST /v1/tasks/report.       *)
(*                                                                          *)
(* The endpoints are plain functions, so FastAPI runs each request on a     *)
(* thread of its pool; a report handler makes several Storage calls and     *)
(* others run between them.  A handler is a record in req: pc names its     *)
(* next Storage call, the other fields are its local variables.             *)
(****************************************************************************)
EXTENDS Storage

CONSTANTS
    Agent,      \* agent processes
    IspOf,      \* the operator an agent is configured with
    Handler,    \* threads that serve report requests
    BatchSize,  \* min(body.max, scheduler.batch_size)
    MayLose     \* whether a response or a report may be lost on the way

ASSUME ReportsAssumption ==
    /\ IspOf \in [Agent -> Isp]
    /\ BatchSize \in Nat \ {0}
    /\ MayLose \in BOOLEAN

VARIABLES
    held,       \* the tasks an agent is executing, by agent
    req         \* the report each handler thread is serving

reportVars == <<held, req>>

Idle == [pc |-> "idle", isp |-> CHOOSE i \in Isp : TRUE, batch |-> {}, ok |-> {},
         known |-> {}, round |-> NoRound, todo |-> {}, cidrs |-> {}, full |-> FALSE]

Request ==
    [pc: {"idle", "insert", "done", "progress", "summary", "alive", "silent"},
     isp: Isp,
     batch: SUBSET Task,    \* tasks the reported results answer
     ok: SUBSET Task,       \* those whose probe succeeded
     known: SUBSET Task,    \* those _lookup_task_meta found
     round: RoundId \cup {NoRound},
     todo: SUBSET Seg,      \* segments _bump_segment_state has still to visit
     cidrs: SUBSET Seg,     \* the one it is visiting, none outside the loop's body
     full: BOOLEAN]         \* done_n = task_total, as read

ReportsTypeOK ==
    /\ held \in [Agent -> SUBSET Task]
    /\ req \in [Handler -> Request]

ReportsInit ==
    /\ held = [a \in Agent |-> {}]
    /\ req = [h \in Handler |-> Idle]

----------------------------------------------------------------------------
(* Agents *)

\* The loop pulls when it holds nothing.  The rows are assigned even when the
\* response does not reach the agent (read timeout, crash of the agent).
Pull(a) ==
    /\ held[a] = {}
    /\ \E S \in ClaimSets(IspOf[a], BatchSize) :
          /\ S # {}
          /\ ClaimPending(S)
          /\ held' = [held EXCEPT ![a] = S]
    /\ UNCHANGED <<seq, started, running, segs, okProbes, req>>

PullLost(a) ==
    /\ MayLose /\ held[a] = {}
    /\ \E S \in ClaimSets(IspOf[a], BatchSize) : S # {} /\ ClaimPending(S)
    /\ UNCHANGED <<seq, started, running, segs, okProbes, held, req>>

\* A failed POST of the report is logged and the results are dropped.
ReportLost(a) ==
    /\ MayLose /\ held[a] # {}
    /\ held' = [held EXCEPT ![a] = {}]
    /\ UNCHANGED <<dbVars, req>>

\* Stages whose ok rows are read by a query of the modelled jobs.
Recorded == {"sample", "expand", "http_trace"}

\* The first result whose task is known and has a round gives the batch's round;
\* the agent reports in assignment order, which RETURNING leaves open.
RoundChoices(known) == IF known = {} THEN {NoRound} ELSE {t.round : t \in known}

\* A report reaches the master: the handler looks its tasks up.  The agent moves
\* on, whether it got the answer or gave up waiting for it.
Report(a, h) ==
    /\ held[a] # {} /\ req[h].pc = "idle"
    /\ \E ok \in SUBSET {t \in held[a] : t.stage \in Recorded},
          r \in RoundChoices(held[a] \cap DOMAIN tasks) :
          LET known == held[a] \cap DOMAIN tasks IN
          req' = [req EXCEPT ![h] =
                    [pc |-> "insert", isp |-> IspOf[a], batch |-> held[a], ok |-> ok,
                     known |-> known, round |-> r,
                     todo |-> {CidrOf[t.ip] : t \in {u \in known : u.stage = "sample"}},
                     cidrs |-> {}, full |-> FALSE]]
    /\ held' = [held EXCEPT ![a] = {}]
    /\ UNCHANGED dbVars

----------------------------------------------------------------------------
(* The report handler *)

\* The probe_raw row of a result: round and stage come from the task's row.
ProbeOf(t, known) ==
    [round |-> IF t \in known THEN t.round ELSE NoRound, isp |-> t.isp,
     stage |-> IF t \in known THEN t.stage ELSE "null", ip |-> t.ip]

InsertedProbes(h) == {ProbeOf(t, req[h].known) : t \in req[h].ok}

InsertResults(h) ==
    /\ req[h].pc = "insert"
    /\ okProbes' = okProbes \cup InsertedProbes(h)
    /\ req' = [req EXCEPT ![h].pc = "done"]
    /\ UNCHANGED <<tasks, seq, started, running, segs, held>>

\* The handler's state when _bump_segment_state still has the segments cs to visit.
Visiting(h, cs) ==
    IF cs = {} THEN Idle
    ELSE [req[h] EXCEPT !.pc = "progress", !.batch = {}, !.ok = {}, !.known = {},
                        !.todo = cs, !.cidrs = {}, !.full = FALSE]

MarkBatchDone(h) ==
    /\ req[h].pc = "done"
    /\ MarkDone(req[h].batch)
    /\ req' = [req EXCEPT ![h] = Visiting(h, IF req[h].round = NoRound THEN {} ELSE req[h].todo)]
    /\ UNCHANGED <<seq, started, running, segs, okProbes, held>>

\* sample_task_progress: a segment without sample tasks in the batch's round is
\* passed over.
ReadProgress(h) ==
    /\ req[h].pc = "progress"
    /\ \E c \in req[h].todo :
          LET rows == SampleTasks(req[h].isp, c, req[h].round) IN
          req' = [req EXCEPT ![h] =
                    IF rows = {} THEN Visiting(h, req[h].todo \ {c})
                    ELSE [req[h] EXCEPT !.pc = "summary", !.cidrs = {c},
                                        !.full = rows \subseteq InState("done")]]
    /\ UNCHANGED <<dbVars, held>>

\* Faulty variants: a failure so far is enough for silent; a complete sample is
\* only ever found silent.
ReadSummaryHasty(h) ==
    /\ req[h].pc = "summary"
    /\ \E c \in req[h].cidrs :
          req' = [req EXCEPT ![h].pc =
                    IF SampleHit(req[h].isp, c, req[h].round) THEN "alive" ELSE "silent"]
    /\ UNCHANGED <<dbVars, held>>

ReadSummaryFinalSilentOnly(h) ==
    /\ req[h].pc = "summary"
    /\ \E c \in req[h].cidrs :
          LET hit == SampleHit(req[h].isp, c, req[h].round) IN
          req' = [req EXCEPT ![h] =
                    IF hit # req[h].full
                    THEN [req[h] EXCEPT !.pc = IF hit THEN "alive" ELSE "silent"]
                    ELSE Visiting(h, req[h].todo \ {c})]
    /\ UNCHANGED <<dbVars, held>>

\* sample_cidr_probe_summary and the verdict it leads to: one ok row is enough for
\* alive, silent takes a complete sample.
ReadSummary(h) ==
    /\ req[h].pc = "summary"
    /\ \E c \in req[h].cidrs :
          req' = [req EXCEPT ![h] =
                    IF SampleHit(req[h].isp, c, req[h].round)
                    THEN [req[h] EXCEPT !.pc = "alive", !.cidrs = {c}]
                    ELSE IF req[h].full THEN [req[h] EXCEPT !.pc = "silent", !.cidrs = {c}]
                    ELSE Visiting(h, req[h].todo \ {c})]
    /\ UNCHANGED <<dbVars, held>>

\* Faulty variant: files the verdict under the round that runs by now.
WriteVerdictCurrentRound(h) ==
    /\ req[h].pc \in {"alive", "silent"}
    /\ \E c \in req[h].cidrs :
          /\ SetSegmentState(req[h].isp, c, req[h].pc, CurrentRound)
          /\ req' = [req EXCEPT ![h] = Visiting(h, req[h].todo \ {c})]
    /\ UNCHANGED <<tasks, seq, started, running, okProbes, held>>

WriteVerdict(h) ==
    /\ req[h].pc \in {"alive", "silent"}
    /\ \E c \in req[h].cidrs :
          /\ SetSegmentState(req[h].isp, c, req[h].pc, req[h].round)
          /\ req' = [req EXCEPT ![h] = Visiting(h, req[h].todo \ {c})]
    /\ UNCHANGED <<tasks, seq, started, running, okProbes, held>>

HandlerStep(h) ==
    \/ InsertResults(h) \/ MarkBatchDone(h)
    \/ ReadProgress(h) \/ ReadSummary(h) \/ WriteVerdict(h)

AgentStep(a) ==
    \/ Pull(a) \/ PullLost(a) \/ ReportLost(a)
    \/ \E h \in Handler : Report(a, h)

ReportsNext == (\E a \in Agent : AgentStep(a)) \/ (\E h \in Handler : HandlerStep(h))
=============================================================================
