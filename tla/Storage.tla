------------------------------- MODULE Storage -------------------------------
(****************************************************************************)
(* The master's SQLite store (master/storage.py).                           *)
(*                                                                          *)
(* Every method of class Storage runs inside _conn(), which holds one       *)
(* process-wide lock for the whole call, so a method is one atomic step and *)
(* is modelled by one operator here.  What is NOT atomic is a sequence of   *)
(* calls: the request handlers (Reports) and the scheduler's jobs           *)
(* (Scheduler) interleave between any two calls.                            *)
(*                                                                          *)
(* The connection is opened with isolation_level=None, so a call that       *)
(* writes several rows with executemany commits them one at a time: other   *)
(* threads see all or nothing, but a killed process may leave a part.       *)
(****************************************************************************)
EXTENDS Integers, FiniteSets

CONSTANTS
    Isp,        \* operators (运营商) the master plans for
    Seg,        \* /24 segments of Cloudflare's address space
    Ip,         \* host addresses of these segments
    CidrOf,     \* the segment of an address
    SampleIp    \* the addresses the sampling offsets select (.1 .65 ...)

ASSUME StorageAssumption ==
    /\ CidrOf \in [Ip -> Seg]
    /\ SampleIp \subseteq Ip
    /\ Isp # {}

VARIABLES
    tasks,      \* task_queue: each row's state, by row
    seq,        \* logical clock of created_at: one tick per enqueue_tasks call
    started,    \* scan_round: rounds are numbered in started_at order
    running,    \* scan_round: the rounds whose state is 'running'
    segs,       \* c_segment_state, by <<isp, cidr>>
    okProbes    \* probe_raw: the rows with ok=1 that some query reads

dbVars == <<tasks, seq, started, running, segs, okProbes>>

Stage == {"sample", "expand", "http_trace", "speed", "traceroute"}

StageRank == [sample |-> 0, expand |-> 1, http_trace |-> 2, speed |-> 3,
              traceroute |-> 4]

\* A NULL scan_round_id, and the id "ad-hoc" of tasks queued between rounds.
NoRound == 0
AdHoc == -1

Round == Nat \ {NoRound}
RoundId == Round \cup {AdHoc}
SegKey == Isp \X Seg

Task == [round: RoundId, isp: Isp, stage: Stage, ip: Ip, created: Nat]

Segment == [state: {"none", "alive", "silent"}, sampled: RoundId \cup {NoRound},
            expanded: Round \cup {NoRound}, fresh: BOOLEAN]

\* Rows whose task was no longer in the table when reported carry no stage.
Probe == [round: RoundId \cup {NoRound}, isp: Isp, stage: Stage \cup {"null"},
          ip: Ip]

UnknownSegment ==
    [state |-> "none", sampled |-> NoRound, expanded |-> NoRound, fresh |-> FALSE]

StorageTypeOK ==
    /\ DOMAIN tasks \subseteq Task
    /\ tasks \in [DOMAIN tasks -> {"pending", "assigned", "done"}]
    /\ seq \in Nat
    /\ started \in Nat
    /\ running \subseteq 1 .. started
    /\ segs \in [SegKey -> Segment]
    /\ okProbes \subseteq Probe

StorageInit ==
    /\ tasks = [t \in {} |-> "pending"]
    /\ seq = 0
    /\ started = 0
    /\ running = {}
    /\ segs = [k \in SegKey |-> UnknownSegment]
    /\ okProbes = {}

----------------------------------------------------------------------------
(* task_queue *)

InState(s) == {t \in DOMAIN tasks : tasks[t] = s}
Open == {t \in DOMAIN tasks : tasks[t] # "done"}
RowsOf(r) == {t \in DOMAIN tasks : t.round = r}

\* Rows a Strategy method builds: one fresh task per address.
NewTasks(r, i, stage, ips) ==
    {[round |-> r, isp |-> i, stage |-> stage, ip |-> p, created |-> seq] : p \in ips}

\* enqueue_tasks: INSERT OR IGNORE ... 'pending'; no rows, no call.
Enqueue(rows) ==
    /\ tasks' = [t \in DOMAIN tasks \cup rows |->
                    IF t \in rows THEN "pending" ELSE tasks[t]]
    /\ seq' = IF rows = {} THEN seq ELSE seq + 1

\* The UPDATE statements on task_queue.state.
SetState(ts, s) ==
    tasks' = [t \in DOMAIN tasks |-> IF t \in ts THEN s ELSE tasks[t]]

Before(t, u) ==
    \/ StageRank[t.stage] < StageRank[u.stage]
    \/ StageRank[t.stage] = StageRank[u.stage] /\ t.created < u.created

\* Faulty variant: takes every row that is not assigned, finished ones included.
ClaimSetsUnassigned(i, n) ==
    LET rows == {t \in DOMAIN tasks : tasks[t] # "assigned" /\ t.isp = i}
    IN  {S \in SUBSET rows : Cardinality(S) <= n}

\* claim_pending: the rows ORDER BY stage rank, created_at LIMIT n selects;
\* equal keys are taken in any order.
ClaimSets(i, n) ==
    LET pending == {t \in InState("pending") : t.isp = i}
    IN  {S \in SUBSET pending :
            /\ \/ S = pending /\ Cardinality(S) <= n
               \/ Cardinality(S) = n
            /\ \A t \in S, u \in pending \ S : ~Before(u, t)}

\* Faulty variant: selects without the UPDATE.
ClaimPendingUnmarked(S) == SetState({}, "assigned")

ClaimPending(S) == SetState(S, "assigned")

\* mark_done: no test of the row's state; a row already deleted is no row.
MarkDone(ts) == SetState(ts, "done")

\* Faulty variants: a state of its own for released rows; nothing released.
RequeueStaleReleased(S) == SetState(S, "released")
RequeueStaleNever(S) == tasks' = tasks

\* requeue_stale_assignments, for the assigned rows S older than the cutoff.
RequeueStale(S) == SetState(S, "pending")

\* cleanup_done_tasks, for the done rows S older than the cutoff.
CleanupDone(S) == tasks' = [t \in DOMAIN tasks \ S |-> tasks[t]]

\* Faulty variant: forgets the tasks an agent is running.
WithoutActiveSpeedPendingOnly(i, ips) ==
    {p \in ips : ~\E t \in InState("pending") : t.stage = "speed" /\ t.isp = i /\ t.ip = p}

\* filter_ips_without_active_speed_tasks
WithoutActiveSpeed(i, ips) ==
    {p \in ips : ~\E t \in Open : t.stage = "speed" /\ t.isp = i /\ t.ip = p}

----------------------------------------------------------------------------
(* scan_round *)

\* current_round: the running round started last, NoRound when there is none.
CurrentRound ==
    IF running = {} THEN NoRound
    ELSE CHOOSE r \in running : \A q \in running : q <= r

CreateRound ==
    /\ started' = started + 1
    /\ running' = running \cup {started + 1}

FinishRound(r) == running' = running \ {r}

\* all_round_pending(r) > 0
HasActive(r) == \E t \in Open : t.round = r

----------------------------------------------------------------------------
(* c_segment_state and the probe_raw summaries it is judged by *)

\* sample_task_progress counts these rows.
SampleTasks(i, c, r) ==
    {t \in RowsOf(r) : t.stage = "sample" /\ t.isp = i /\ CidrOf[t.ip] = c}

\* sample_cidr_probe_summary(...).ok_n > 0
SampleHit(i, c, r) ==
    \E p \in okProbes : p.round = r /\ p.stage = "sample" /\ p.isp = i /\ CidrOf[p.ip] = c

\* set_segment_state: an upsert that leaves expanded_round alone.
SetSegmentState(i, c, s, r) ==
    segs' = [segs EXCEPT ![<<i, c>>] =
                [state |-> s, sampled |-> r, expanded |-> @.expanded, fresh |-> TRUE]]

\* get_silent_segments: silent rows whose expires_at is still ahead.
SilentSegments(i) ==
    {c \in Seg : segs[<<i, c>>].state = "silent" /\ segs[<<i, c>>].fresh}

\* The clock passes expires_at of a silent row; no query reads an alive row's.
ExpireSegment(k) ==
    /\ segs[k].state = "silent" /\ segs[k].fresh
    /\ segs' = [segs EXCEPT ![k].fresh = FALSE]

\* Faulty variant: does not ask which round the segment was sampled in.
UnexpandedAnyRound(r) == {k \in SegKey : segs[k].state = "alive" /\ segs[k].expanded # r}

\* The rows claim_unexpanded_alive_segments selects:
Unexpanded(r) ==
    {k \in SegKey : segs[k].state = "alive" /\ segs[k].sampled = r /\ segs[k].expanded # r}

\* LIMIT n of them, in no particular order ...
ClaimableSets(r, n) ==
    {ks \in SUBSET Unexpanded(r) :
        \/ ks = Unexpanded(r) /\ Cardinality(ks) <= n
        \/ Cardinality(ks) = n}

\* Faulty variant: selects without marking.
MarkExpandedNot(ks, r) == segs' = segs

\* ... and the mark it leaves on them.
MarkExpanded(ks, r) ==
    segs' = [k \in SegKey |-> IF k \in ks THEN [segs[k] EXCEPT !.expanded = r] ELSE segs[k]]

\* Addresses of these segments with an ok sample row in round r
\* (scheduler._collect_sample_ok_ips).
SampleOkIps(i, cidrs, r) ==
    {p \in Ip : /\ CidrOf[p] \in cidrs
                /\ [round |-> r, isp |-> i, stage |-> "sample", ip |-> p] \in okProbes}

\* aggregate_recent only returns addresses with an ok http_trace row.
Traced(i) == {p \in Ip : \E q \in okProbes : q.isp = i /\ q.ip = p /\ q.stage = "http_trace"}
=============================================================================
