------------------------------ MODULE Scheduler ------------------------------
(****************************************************************************)
(* The master's background jobs (master/scheduler.py, master/strategy.py).  *)
(*                                                                          *)
(* APScheduler runs each job on a thread of its pool, at most one instance  *)
(* per job (max_instances=1), so different jobs and the report handlers     *)
(* interleave between any two Storage calls.  job[j].pc names the next call *)
(* of job j, the other fields are the local variables it carries there.     *)
(****************************************************************************)
EXTENDS Storage

CONSTANTS
    ClaimLimit,   \* segments one process_results run claims
    MaxRound,     \* bound: rounds ever started
    MaxSpeed,     \* bound: runs of speed_round
    MayGoStale,   \* whether an assignment may outlive the 15 minutes allowed
    MayGoOld      \* whether done rows may outlive cleanup_done_after_hours

ASSUME SchedulerAssumption ==
    /\ ClaimLimit \in Nat \ {0}
    /\ MaxRound \in Nat
    /\ MaxSpeed \in Nat
    /\ MayGoStale \in BOOLEAN
    /\ MayGoOld \in BOOLEAN

VARIABLES
    job,        \* the run of each job in progress
    speeds      \* runs of speed_round so far

schedulerVars == <<job, speeds>>

JobName == {"sample_round", "process_results", "speed_round", "housekeeping"}

Job ==
    [pc: {"idle", "left", "finish", "create", "silent", "enqueue",
          "claim", "expand", "collect", "trace",
          "pick", "filter", "cleanup", "current", "pending", "total"},
     round: RoundId \cup {NoRound},
     todo: SUBSET Isp,        \* operators the run's loop has still to visit
     cur: SUBSET Isp,         \* the one it is visiting, none outside the body
     segs: SUBSET SegKey,     \* segments read: silent ones, or those claimed
     ips: SUBSET Ip]          \* addresses read: trace targets, speed candidates

IdleJob == [pc |-> "idle", round |-> NoRound, todo |-> {}, cur |-> {}, segs |-> {}, ips |-> {}]

SchedulerTypeOK ==
    /\ job \in [JobName -> Job]
    /\ speeds \in Nat

SchedulerInit ==
    /\ job = [j \in JobName |-> IdleJob]
    /\ speeds = 0

\* Job j is at pc and continues as the record next.
Goto(j, pc, next) ==
    /\ job[j].pc = pc
    /\ job' = [job EXCEPT ![j] = next]

\* The head of the loop over operators: go on at pc, or return when none is left.
Loop(j, pc) ==
    IF job[j].todo = {} THEN IdleJob
    ELSE [job[j] EXCEPT !.pc = pc, !.cur = {}, !.ips = {}]

----------------------------------------------------------------------------
(* run_sample_round *)

\* current_round; the bound stands for the end of the period observed.
SampleStart ==
    /\ started < MaxRound
    /\ Goto("sample_round", "idle",
            [IdleJob EXCEPT !.pc = IF CurrentRound = NoRound THEN "create" ELSE "left",
                            !.round = CurrentRound])
    /\ UNCHANGED <<dbVars, speeds>>

\* Faulty variant: opens the next round without closing this one.
SampleLeftUnclosed ==
    /\ Goto("sample_round", "left",
            IF HasActive(job["sample_round"].round) THEN IdleJob
            ELSE [job["sample_round"] EXCEPT !.pc = "create"])
    /\ UNCHANGED <<dbVars, speeds>>

\* all_round_pending: an unfinished round makes the job skip this time.
SampleLeft ==
    /\ Goto("sample_round", "left",
            IF HasActive(job["sample_round"].round) THEN IdleJob
            ELSE [job["sample_round"] EXCEPT !.pc = "finish"])
    /\ UNCHANGED <<dbVars, speeds>>

SampleFinish ==
    /\ Goto("sample_round", "finish", [job["sample_round"] EXCEPT !.pc = "create"])
    /\ FinishRound(job["sample_round"].round)
    /\ UNCHANGED <<tasks, seq, started, segs, okProbes, speeds>>

SampleCreate ==
    /\ Goto("sample_round", "create",
            [IdleJob EXCEPT !.pc = "silent", !.round = started + 1, !.todo = Isp])
    /\ CreateRound
    /\ UNCHANGED <<tasks, seq, segs, okProbes, speeds>>

\* plan_initial_sampling, per operator: read the silent segments ...
SampleSilent ==
    \E i \in job["sample_round"].todo :
        /\ Goto("sample_round", "silent",
                [job["sample_round"] EXCEPT !.pc = "enqueue", !.cur = {i}, !.todo = @ \ {i},
                                            !.segs = {i} \X SilentSegments(i)])
        /\ UNCHANGED <<dbVars, speeds>>

SampleRows(i) ==
    NewTasks(job["sample_round"].round, i, "sample",
             {p \in SampleIp : <<i, CidrOf[p]>> \notin job["sample_round"].segs})

\* ... and enqueue sample tasks for all the others.
SampleEnqueue ==
    \E i \in job["sample_round"].cur :
        /\ Goto("sample_round", "enqueue",
                [Loop("sample_round", "silent") EXCEPT !.segs = {}])
        /\ Enqueue(SampleRows(i))
        /\ UNCHANGED <<started, running, segs, okProbes, speeds>>

----------------------------------------------------------------------------
(* run_process_results *)

ProcessStart ==
    /\ CurrentRound # NoRound
    /\ Goto("process_results", "idle",
            [IdleJob EXCEPT !.pc = "claim", !.round = CurrentRound])
    /\ UNCHANGED <<dbVars, speeds>>

\* claim_unexpanded_alive_segments, grouped by operator.
ProcessClaim ==
    \E ks \in ClaimableSets(job["process_results"].round, ClaimLimit) :
        /\ Goto("process_results", "claim",
                IF ks = {} THEN IdleJob
                ELSE [job["process_results"] EXCEPT !.pc = "expand", !.segs = ks,
                                                    !.todo = {k[1] : k \in ks}])
        /\ MarkExpanded(ks, job["process_results"].round)
        /\ UNCHANGED <<tasks, seq, started, running, okProbes, speeds>>

\* The claimed segments of operator i.
ClaimedOf(i) == {k[2] : k \in {q \in job["process_results"].segs : q[1] = i}}

\* Faulty variant: leaves out the addresses the sampling has probed.
ExpandRowsUnsampled(i) ==
    NewTasks(job["process_results"].round, i, "expand",
             {p \in Ip \ SampleIp : CidrOf[p] \in ClaimedOf(i)})

ExpandRows(i) ==
    NewTasks(job["process_results"].round, i, "expand", {p \in Ip : CidrOf[p] \in ClaimedOf(i)})

\* expand_alive_segments: every host of the operator's claimed segments.
ProcessExpand ==
    \E i \in job["process_results"].todo :
        /\ Goto("process_results", "expand",
                [job["process_results"] EXCEPT !.pc = "collect", !.cur = {i}, !.todo = @ \ {i}])
        /\ Enqueue(ExpandRows(i))
        /\ UNCHANGED <<started, running, segs, okProbes, speeds>>

\* _collect_sample_ok_ips
ProcessCollect ==
    \E i \in job["process_results"].cur :
        LET targets == SampleOkIps(i, ClaimedOf(i), job["process_results"].round) IN
        /\ Goto("process_results", "collect",
                IF targets = {} THEN Loop("process_results", "expand")
                ELSE [job["process_results"] EXCEPT !.pc = "trace", !.cur = {i}, !.ips = targets])
        /\ UNCHANGED <<dbVars, speeds>>

TraceRows(i) ==
    NewTasks(job["process_results"].round, i, "http_trace", job["process_results"].ips)

\* queue_http_trace
ProcessTrace ==
    \E i \in job["process_results"].cur :
        /\ Goto("process_results", "trace", Loop("process_results", "expand"))
        /\ Enqueue(TraceRows(i))
        /\ UNCHANGED <<started, running, segs, okProbes, speeds>>

----------------------------------------------------------------------------
(* run_speed_round *)

SpeedStart ==
    /\ speeds < MaxSpeed
    /\ speeds' = speeds + 1
    /\ Goto("speed_round", "idle",
            [IdleJob EXCEPT !.pc = "pick", !.todo = Isp,
                            !.round = IF CurrentRound = NoRound THEN AdHoc ELSE CurrentRound])
    /\ UNCHANGED dbVars

\* latency_top_candidates: which of the traced addresses qualify is left open.
SpeedPick ==
    \E i \in job["speed_round"].todo : \E cands \in SUBSET Traced(i) :
        /\ Goto("speed_round", "pick",
                [job["speed_round"] EXCEPT !.pc = "filter", !.cur = {i}, !.todo = @ \ {i},
                                           !.ips = cands])
        /\ UNCHANGED <<dbVars, speeds>>

\* filter_ips_without_active_speed_tasks; nothing left, on to the next operator.
SpeedFilter ==
    \E i \in job["speed_round"].cur :
        LET cands == WithoutActiveSpeed(i, job["speed_round"].ips) IN
        /\ Goto("speed_round", "filter",
                IF cands = {} THEN Loop("speed_round", "pick")
                ELSE [job["speed_round"] EXCEPT !.pc = "enqueue", !.ips = cands])
        /\ UNCHANGED <<dbVars, speeds>>

SpeedRows(i) == NewTasks(job["speed_round"].round, i, "speed", job["speed_round"].ips)

SpeedEnqueue ==
    \E i \in job["speed_round"].cur :
        /\ Goto("speed_round", "enqueue", Loop("speed_round", "pick"))
        /\ Enqueue(SpeedRows(i))
        /\ UNCHANGED <<started, running, segs, okProbes, speeds>>

----------------------------------------------------------------------------
(* run_housekeeping *)

\* Faulty variant: goes by age alone, so rows that are done come back.
HousekeepingRequeueAnyState ==
    /\ Goto("housekeeping", "idle", [IdleJob EXCEPT !.pc = "cleanup"])
    /\ \E S \in SUBSET DOMAIN tasks : (MayGoStale \/ S = {}) /\ RequeueStale(S)
    /\ UNCHANGED <<seq, started, running, segs, okProbes, speeds>>

\* requeue_stale_assignments: how long each assignment has been out is left open.
HousekeepingRequeue ==
    /\ Goto("housekeeping", "idle", [IdleJob EXCEPT !.pc = "cleanup"])
    /\ \E S \in SUBSET InState("assigned") : (MayGoStale \/ S = {}) /\ RequeueStale(S)
    /\ UNCHANGED <<seq, started, running, segs, okProbes, speeds>>

\* cleanup_done_tasks: how long each row has been done is left open.
HousekeepingCleanup ==
    /\ Goto("housekeeping", "cleanup", [IdleJob EXCEPT !.pc = "current"])
    /\ \E S \in SUBSET InState("done") : (MayGoOld \/ S = {}) /\ CleanupDone(S)
    /\ UNCHANGED <<seq, started, running, segs, okProbes, speeds>>

HousekeepingCurrent ==
    /\ Goto("housekeeping", "current",
            IF CurrentRound = NoRound THEN IdleJob
            ELSE [IdleJob EXCEPT !.pc = "pending", !.round = CurrentRound])
    /\ UNCHANGED <<dbVars, speeds>>

\* all_round_pending
HousekeepingPending ==
    /\ Goto("housekeeping", "pending",
            IF HasActive(job["housekeeping"].round) THEN IdleJob
            ELSE [job["housekeeping"] EXCEPT !.pc = "total"])
    /\ UNCHANGED <<dbVars, speeds>>

\* Faulty variant: the test the wrong way round.
HousekeepingTotalInverted ==
    /\ Goto("housekeeping", "total",
            IF RowsOf(job["housekeeping"].round) # {} THEN IdleJob
            ELSE [job["housekeeping"] EXCEPT !.pc = "finish"])
    /\ UNCHANGED <<dbVars, speeds>>

\* A round no task belongs to has only just been created.
HousekeepingTotal ==
    /\ Goto("housekeeping", "total",
            IF RowsOf(job["housekeeping"].round) = {} THEN IdleJob
            ELSE [job["housekeeping"] EXCEPT !.pc = "finish"])
    /\ UNCHANGED <<dbVars, speeds>>

HousekeepingFinish ==
    /\ Goto("housekeeping", "finish", IdleJob)
    /\ FinishRound(job["housekeeping"].round)
    /\ UNCHANGED <<tasks, seq, started, segs, okProbes, speeds>>

----------------------------------------------------------------------------
\* The row lists an enqueue_tasks call may be writing at this moment.
EnqueuesInProgress ==
    {SampleRows(i) : i \in {k \in job["sample_round"].cur : job["sample_round"].pc = "enqueue"}}
    \cup {ExpandRows(i) : i \in {k \in job["process_results"].todo :
                                    job["process_results"].pc = "expand"}}
    \cup {TraceRows(i) : i \in {k \in job["process_results"].cur :
                                    job["process_results"].pc = "trace"}}
    \cup {SpeedRows(i) : i \in {k \in job["speed_round"].cur :
                                    job["speed_round"].pc = "enqueue"}}

----------------------------------------------------------------------------
SampleRound ==
    \/ SampleStart \/ SampleLeft \/ SampleFinish
    \/ SampleCreate \/ SampleSilent \/ SampleEnqueue

ProcessResults ==
    \/ ProcessStart \/ ProcessClaim \/ ProcessExpand
    \/ ProcessCollect \/ ProcessTrace

SpeedRound == SpeedStart \/ SpeedPick \/ SpeedFilter \/ SpeedEnqueue

Housekeeping ==
    \/ HousekeepingRequeue \/ HousekeepingCleanup \/ HousekeepingCurrent
    \/ HousekeepingPending \/ HousekeepingTotal \/ HousekeepingFinish

SchedulerNext == SampleRound \/ ProcessResults \/ SpeedRound \/ Housekeeping
=============================================================================
