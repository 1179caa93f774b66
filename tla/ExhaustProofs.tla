----------------------------- MODULE ExhaustProofs ----------------------------
(* What verdicts say of the samples and when they come, and that speed_round    *)
(* never tests an address twice at a time: theorems about Monitor, the last of  *)
(* them that all its invariants hold together.                                  *)
EXTENDS ExpandProofs

----------------------------------------------------------------------------
(* What one step does to the rows the two invariants speak of *)

\* The rows added by the enqueue in progress, by stage.
LEMMA AddedRows ==
    ASSUME NEW rows \in EnqueuesInProgress, NEW t \in rows
    PROVE  /\ t.stage = "sample" =>
                 /\ job["sample_round"].pc = "enqueue"
                 /\ t.isp \in job["sample_round"].cur
                 /\ t.round = job["sample_round"].round
           /\ t.stage = "speed" =>
                 /\ job["speed_round"].pc = "enqueue"
                 /\ rows = SpeedRows(t.isp)
                 /\ t.isp \in job["speed_round"].cur
                 /\ t.ip \in job["speed_round"].ips
<1>1. ASSUME NEW r, NEW i, NEW stage, NEW ips, t \in NewTasks(r, i, stage, ips)
      PROVE  t.stage = stage /\ t.isp = i /\ t.round = r /\ t.ip \in ips
  BY <1>1 DEF NewTasks
<1>2. CASE /\ job["sample_round"].pc = "enqueue"
           /\ \E i \in job["sample_round"].cur : rows = SampleRows(i)
  BY <1>1, <1>2 DEF SampleRows
<1>3. CASE \E i \in job["process_results"].todo : rows = ExpandRows(i)
  BY <1>1, <1>3 DEF ExpandRows
<1>4. CASE \E i \in job["process_results"].cur : rows = TraceRows(i)
  BY <1>1, <1>4 DEF TraceRows
<1>5. CASE /\ job["speed_round"].pc = "enqueue"
           /\ \E i \in job["speed_round"].cur : rows = SpeedRows(i)
  <2>1. PICK i \in job["speed_round"].cur : rows = SpeedRows(i)
    BY <1>5
  <2>2. t.stage = "speed" /\ t.isp = i /\ t.ip \in job["speed_round"].ips
    BY <1>1, <2>1 DEF SpeedRows
  <2> QED BY <1>5, <2>1, <2>2
<1> QED BY <1>2, <1>3, <1>4, <1>5 DEF EnqueuesInProgress

\* A row that appears in a step was built for the enqueue in progress.
LEMMA NewRowIsEnqueued ==
    ASSUME Next, NEW t \in DOMAIN tasks' \ DOMAIN tasks
    PROVE  \E rows \in EnqueuesInProgress : t \in rows
BY TasksStep DEF Enqueue

\* Done rows are never reopened: an open row was open before, or is new.
LEMMA OpenStep ==
    ASSUME TypeInv, FreshInv, Next, NEW t \in Open'
    PROVE  t \in Open \/ t \in DOMAIN tasks' \ DOMAIN tasks
<1>1. QueueStep
  BY QueueSimulation
<1>2. t \in DOMAIN tasks' /\ t \notin InState("done")'
  BY DEF Open, InState
<1>3. ASSUME t \in InState("done") PROVE FALSE
  <2>1. CASE UNCHANGED <<Open, InState("done")>>
    BY <1>2, <1>3, <2>1
  <2>2. CASE Queue!Add
    BY <1>2, <1>3, <2>2 DEF Queue!Add
  <2>3. CASE Queue!Complete
    BY <1>2, <1>3, <2>3 DEF Queue!Complete
  <2>4. CASE Queue!Purge
    BY <1>3, <2>4 DEF Queue!Purge, Open, InState
  <2> QED BY <1>1, <2>1, <2>2, <2>3, <2>4 DEF QueueStep, Queue!WQNext
<1> QED BY <1>2, <1>3 DEF Open, InState

\* sample_round moves only by its own steps, or is cut off.
LEMMA SampleStep ==
    ASSUME TypeInv, Next
    PROVE  \/ job'["sample_round"] = job["sample_round"] /\ started' = started
           \/ job'["sample_round"] = IdleJob /\ started' = started
           \/ SampleRound
<1> USE DEF TypeInv, TypeOK, SchedulerTypeOK
<1>1. CASE ProcessResults \/ SpeedRound \/ Housekeeping
  BY <1>1
  DEF JobName, ProcessResults, SpeedRound, Housekeeping, Goto, dbVars,
      ProcessStart, ProcessClaim, ProcessExpand, ProcessCollect, ProcessTrace,
      SpeedStart, SpeedPick, SpeedFilter, SpeedEnqueue,
      HousekeepingRequeue, HousekeepingCleanup, HousekeepingCurrent, HousekeepingPending,
      HousekeepingTotal, HousekeepingFinish
<1>2. CASE Crash
  BY <1>2, WritePartType DEF Crash, JobName, WritePart, dbVars
<1>3. CASE ReportsNext /\ UNCHANGED <<schedulerVars, crashes>>
  BY <1>3, ReportsFrame DEF schedulerVars
<1> QED BY <1>1, <1>2, <1>3 DEF Next, SchedulerNext, Expire, schedulerVars

LEMMA SpeedStep ==
    ASSUME TypeInv, Next
    PROVE  \/ job'["speed_round"] = job["speed_round"]
           \/ job'["speed_round"] = IdleJob
           \/ SpeedRound
<1> USE DEF TypeInv, TypeOK, SchedulerTypeOK
<1>1. CASE SampleRound \/ ProcessResults \/ Housekeeping
  BY <1>1
  DEF JobName, SampleRound, ProcessResults, Housekeeping, Goto,
      SampleStart, SampleLeft, SampleFinish, SampleCreate, SampleSilent, SampleEnqueue,
      ProcessStart, ProcessClaim, ProcessExpand, ProcessCollect, ProcessTrace,
      HousekeepingRequeue, HousekeepingCleanup, HousekeepingCurrent, HousekeepingPending,
      HousekeepingTotal, HousekeepingFinish
<1>2. CASE Crash
  BY <1>2 DEF Crash, JobName
<1> QED BY <1>1, <1>2 DEF Next, SchedulerNext, Expire, schedulerVars

\* Which step adds a sample row ...
LEMMA NewSampleRow ==
    ASSUME Next, NEW t \in DOMAIN tasks' \ DOMAIN tasks, t.stage = "sample"
    PROVE  /\ SampleEnqueue \/ Crash
           /\ job["sample_round"].pc = "enqueue"
           /\ t.isp \in job["sample_round"].cur
           /\ t.round = job["sample_round"].round
<1>1. PICK rows \in EnqueuesInProgress : t \in rows
  BY NewRowIsEnqueued
<1>2. ASSUME NEW r, NEW i, NEW stage, NEW ips, t \in NewTasks(r, i, stage, ips)
      PROVE  stage = "sample"
  BY <1>2 DEF NewTasks
<1>3. ~ProcessExpand /\ ~ProcessTrace /\ ~SpeedEnqueue
  <2>1. \A i : t \notin ExpandRows(i) /\ t \notin TraceRows(i) /\ t \notin SpeedRows(i)
    BY <1>2 DEF ExpandRows, TraceRows, SpeedRows
  <2> QED BY <2>1 DEF ProcessExpand, ProcessTrace, SpeedEnqueue, Enqueue
<1>4. SampleEnqueue \/ Crash
  <2>1. CASE ReportsNext
    BY <2>1 DEF ReportsNext, AgentStep, HandlerStep, Pull, PullLost, ReportLost, Report,
                InsertResults, MarkBatchDone, ReadProgress, ReadSummary, WriteVerdict, dbVars,
                ClaimPending, MarkDone, SetState
  <2>2. CASE SchedulerNext
    BY <1>3, <2>2
    DEF SchedulerNext, SampleRound, ProcessResults, SpeedRound, Housekeeping, dbVars,
        SampleStart, SampleLeft, SampleFinish, SampleCreate, SampleSilent,
        ProcessStart, ProcessClaim, ProcessCollect, SpeedStart, SpeedPick, SpeedFilter,
        HousekeepingRequeue, HousekeepingCleanup, HousekeepingCurrent, HousekeepingPending,
        HousekeepingTotal, HousekeepingFinish, RequeueStale, SetState, CleanupDone
  <2> QED BY <2>1, <2>2 DEF Next, Expire
<1> QED BY <1>1, <1>4, AddedRows

\* ... and which a speed row.
LEMMA NewSpeedRow ==
    ASSUME Next, NEW t \in DOMAIN tasks' \ DOMAIN tasks, t.stage = "speed"
    PROVE  /\ SpeedEnqueue \/ Crash
           /\ job["speed_round"].pc = "enqueue"
           /\ t \in SpeedRows(t.isp)
           /\ t.isp \in job["speed_round"].cur
           /\ t.ip \in job["speed_round"].ips
<1>1. PICK rows \in EnqueuesInProgress : t \in rows
  BY NewRowIsEnqueued
<1>2. ASSUME NEW r, NEW i, NEW stage, NEW ips, t \in NewTasks(r, i, stage, ips)
      PROVE  stage = "speed"
  BY <1>2 DEF NewTasks
<1>3. ~ProcessExpand /\ ~ProcessTrace /\ ~SampleEnqueue
  <2>1. \A i : t \notin ExpandRows(i) /\ t \notin TraceRows(i) /\ t \notin SampleRows(i)
    BY <1>2 DEF ExpandRows, TraceRows, SampleRows
  <2> QED BY <2>1 DEF ProcessExpand, ProcessTrace, SampleEnqueue, Enqueue
<1>4. SpeedEnqueue \/ Crash
  <2>1. CASE ReportsNext
    BY <2>1 DEF ReportsNext, AgentStep, HandlerStep, Pull, PullLost, ReportLost, Report,
                InsertResults, MarkBatchDone, ReadProgress, ReadSummary, WriteVerdict, dbVars,
                ClaimPending, MarkDone, SetState
  <2>2. CASE SchedulerNext
    BY <1>3, <2>2
    DEF SchedulerNext, SampleRound, ProcessResults, SpeedRound, Housekeeping, dbVars,
        SampleStart, SampleLeft, SampleFinish, SampleCreate, SampleSilent,
        ProcessStart, ProcessClaim, ProcessCollect, SpeedStart, SpeedPick, SpeedFilter,
        HousekeepingRequeue, HousekeepingCleanup, HousekeepingCurrent, HousekeepingPending,
        HousekeepingTotal, HousekeepingFinish, RequeueStale, SetState, CleanupDone
  <2> QED BY <2>1, <2>2 DEF Next, Expire
<1> QED BY <1>1, <1>4, AddedRows

----------------------------------------------------------------------------
(* Sampling settles, operator by operator *)

\* The ways sample_round can move while it plans a round.
LEMMA SamplingMoves ==
    ASSUME TypeInv, Next
    PROVE  LET sj == job["sample_round"] IN
           \/ sj' = sj /\ started' = started
           \/ sj'.pc \notin {"silent", "enqueue"} /\ started' = started
           \/ /\ sj'.pc = "silent" /\ sj'.round = started + 1 /\ sj'.cur = {}
              /\ started' = started + 1
           \/ /\ sj.pc = "silent" /\ sj'.pc = "enqueue" /\ sj'.round = sj.round
              /\ started' = started
              /\ \E i \in sj.todo : sj'.cur = {i} /\ sj'.todo = sj.todo \ {i}
           \/ /\ sj.pc = "enqueue" /\ sj'.pc = "silent" /\ sj'.round = sj.round
              /\ started' = started
              /\ sj'.cur = {} /\ sj'.todo = sj.todo
<1> DEFINE sj == job["sample_round"]
<1> USE DEF TypeInv, TypeOK
<1>t. /\ sj \in Job /\ "sample_round" \in JobName /\ job \in [JobName -> Job]
  BY DEF SchedulerTypeOK, JobName
<1>1. CASE sj' = IdleJob /\ started' = started
  BY <1>1 DEF IdleJob
<1>2. CASE SampleStart
  BY <1>2, <1>t DEF SampleStart, Goto, IdleJob, dbVars
<1>3. CASE SampleLeft
  BY <1>3, <1>t DEF SampleLeft, Goto, IdleJob, dbVars, Job
<1>4. CASE SampleFinish
  BY <1>4, <1>t DEF SampleFinish, Goto, Job
<1>5. CASE SampleCreate
  BY <1>5, <1>t DEF SampleCreate, CreateRound, Goto, IdleJob
<1>6. CASE SampleSilent
  <2>1. PICK i \in sj.todo :
           /\ sj.pc = "silent"
           /\ sj' = [sj EXCEPT !.pc = "enqueue", !.cur = {i}, !.todo = @ \ {i},
                              !.segs = {i} \X SilentSegments(i)]
    BY <1>6, <1>t DEF SampleSilent, Goto
  <2>2. sj'.pc = "enqueue" /\ sj'.round = sj.round /\ sj'.cur = {i} /\ sj'.todo = sj.todo \ {i}
    BY <2>1, <1>t DEF Job
  <2> QED BY <1>6, <2>1, <2>2 DEF SampleSilent, dbVars
<1>7. CASE SampleEnqueue
  <2>1. sj.pc = "enqueue" /\ sj' = [Loop("sample_round", "silent") EXCEPT !.segs = {}]
    BY <1>7, <1>t DEF SampleEnqueue, Goto
  <2>2. CASE sj.todo = {}
    BY <1>7, <2>1, <2>2 DEF Loop, IdleJob, SampleEnqueue
  <2>3. CASE sj.todo # {}
    <3>1. sj'.pc = "silent" /\ sj'.round = sj.round /\ sj'.cur = {} /\ sj'.todo = sj.todo
      BY <2>1, <2>3, <1>t DEF Loop, Job
    <3> QED BY <1>7, <2>1, <3>1 DEF SampleEnqueue
  <2> QED BY <2>2, <2>3
<1> QED BY <1>1, <1>2, <1>3, <1>4, <1>5, <1>6, <1>7, SampleStep DEF SampleRound

\* What is settled stays settled: a later round has another number.
LEMMA SettledStays ==
    ASSUME TypeInv, Next, NEW i, NEW r \in Int, Settled(i, r)
    PROVE  Settled(i, r)'
<1>1. started \in Nat
  BY DEF TypeInv, TypeOK, StorageTypeOK
<1> QED BY <1>1, SamplingMoves DEF Settled

\* A complete sample stays complete: no task of it is reopened, none is added.
LEMMA CompleteStays ==
    ASSUME TypeInv, FreshInv, Next, NEW i, NEW c, NEW r,
           Settled(i, r), SampleComplete(i, c, r)
    PROVE  SampleComplete(i, c, r)'
<1> SUFFICES ASSUME NEW t \in SampleTasks(i, c, r)', t \notin InState("done")'
             PROVE  FALSE
  BY DEF SampleComplete
<1>1. /\ t \in DOMAIN tasks' /\ t.stage = "sample" /\ t.isp = i /\ t.round = r
      /\ CidrOf[t.ip] = c
  BY DEF SampleTasks, RowsOf
<1>2. t \in DOMAIN tasks
  BY <1>1, NewSampleRow DEF Settled
<1>3. t \in InState("done")
  BY <1>1, <1>2 DEF SampleComplete, SampleTasks, RowsOf
<1>4. t \in Open'
  BY <1>1 DEF Open, InState
<1>5. t \in Open
  BY <1>2, <1>4, OpenStep
<1> QED BY <1>3, <1>5 DEF Open, InState

LEMMA SamplingStep ==
    ASSUME TypeInv, FreshInv, SamplingInv, Next
    PROVE  SamplingInv'
<1> DEFINE sj == job["sample_round"]
<1>t. DOMAIN tasks \subseteq Task /\ started \in Nat /\ RoundId \subseteq Int
  BY DEF TypeInv, TypeOK, StorageTypeOK, RoundId, Round, AdHoc, NoRound
<1>1. /\ sj'.pc = "silent" => sj'.cur = {}
      /\ sj'.pc = "enqueue" => sj'.cur \cap sj'.todo = {}
  BY SamplingMoves DEF SamplingInv
<1>2. ASSUME NEW t \in DOMAIN tasks', t.stage = "sample" PROVE Settled(t.isp, t.round)'
  <2>1. CASE t \in DOMAIN tasks
    BY <1>t, <1>2, <2>1, SettledStays DEF SamplingInv, Task
  <2>2. CASE t \notin DOMAIN tasks
    <3>1. /\ SampleEnqueue \/ Crash
          /\ sj.pc = "enqueue" /\ t.isp \in sj.cur /\ t.round = sj.round
      BY <1>2, <2>2, NewSampleRow
    <3>2. t.round <= started /\ t.isp \notin sj.todo
      BY <3>1, <1>t DEF SamplingInv, TypeInv, JobsHaveRounds
    <3>3. sj'.pc # "enqueue"
      <4>1. CASE Crash
        BY <4>1 DEF Crash, JobName, IdleJob
      <4>2. CASE SampleEnqueue
        <5>1. sj \in Job /\ "sample_round" \in JobName /\ job \in [JobName -> Job]
          BY DEF TypeInv, TypeOK, SchedulerTypeOK, JobName
        <5>2. sj' = [Loop("sample_round", "silent") EXCEPT !.segs = {}]
          BY <4>2, <5>1 DEF SampleEnqueue, Goto
        <5> QED BY <5>1, <5>2 DEF Loop, IdleJob, Job
      <4> QED BY <3>1, <4>1, <4>2
    <3>4. t.round \in Int
      BY <3>1, <1>t DEF TypeInv, JobsHaveRounds
    <3>5. /\ t.round <= started'
          /\ sj'.pc = "silent" => sj'.round # t.round \/ t.isp \notin sj'.todo \cup sj'.cur
      <4>1. started' \in {started, started + 1}
        BY SamplingMoves
      <4>2. ASSUME sj'.pc = "silent"
            PROVE  \/ sj'.round = started + 1
                   \/ sj'.cur = {} /\ sj'.todo = sj.todo
        BY <4>2, <3>1, SamplingMoves
      <4> QED BY <4>1, <4>2, <3>2, <3>4, <1>t
    <3> QED BY <3>3, <3>5 DEF Settled
  <2> QED BY <2>1, <2>2
<1> QED BY <1>1, <1>2 DEF SamplingInv

----------------------------------------------------------------------------
(* Verdicts *)

\* A handler comes to a verdict by counting a segment's sample and then reading it.
LEMMA RequestMoves ==
    ASSUME TypeInv, Next, NEW h \in Handler
    PROVE  \/ req'[h] = req[h]
           \/ ReadProgress(h) /\ UNCHANGED schedulerVars
           \/ ReadSummary(h) /\ UNCHANGED schedulerVars
           \/ req'[h].pc \notin {"summary", "silent"}
<1> USE DEF TypeInv, TypeOK, ReportsTypeOK
<1>1. CASE ReportsNext /\ UNCHANGED schedulerVars
  <2>1. ASSUME NEW a \in Agent, NEW g \in Handler, Report(a, g)
        PROVE  req'[h] = req[h] \/ req'[h].pc \notin {"summary", "silent"}
    BY <2>1 DEF Report
  <2>v. ASSUME NEW g \in Handler, NEW cs PROVE Visiting(g, cs).pc \in {"idle", "progress"}
    BY DEF Visiting, Idle, Request
  <2>2. ASSUME NEW g \in Handler, InsertResults(g) \/ MarkBatchDone(g) \/ WriteVerdict(g)
        PROVE  req'[h] = req[h] \/ req'[h].pc \notin {"summary", "silent"}
    <3>1. CASE InsertResults(g)
      BY <3>1 DEF InsertResults, Request
    <3>2. CASE MarkBatchDone(g)
      BY <3>2, <2>v DEF MarkBatchDone
    <3>3. CASE WriteVerdict(g)
      BY <3>3, <2>v DEF WriteVerdict
    <3> QED BY <2>2, <3>1, <3>2, <3>3
  <2>3. ASSUME NEW g \in Handler, ReadProgress(g) \/ ReadSummary(g), g # h
        PROVE  req'[h] = req[h]
    BY <2>3 DEF ReadProgress, ReadSummary
  <2>4. ASSUME NEW a \in Agent, Pull(a) \/ PullLost(a) \/ ReportLost(a)
        PROVE  req' = req
    BY <2>4 DEF Pull, PullLost, ReportLost
  <2> QED BY <1>1, <2>1, <2>2, <2>3, <2>4 DEF ReportsNext, AgentStep, HandlerStep
<1>2. CASE Crash
  BY <1>2 DEF Crash, Idle
<1> QED BY <1>1, <1>2 DEF Next, Expire, reportVars

LEMMA CountsStep ==
    ASSUME TypeInv, FreshInv, SamplingInv, CountsInv, Next
    PROVE  CountsInv'
<1> SUFFICES ASSUME NEW h \in Handler
             PROVE  /\ req'[h].pc \in {"summary", "silent"} =>
                          Settled(req[h].isp, req[h].round)'
                    /\ req'[h].pc = "silent" \/ (req'[h].pc = "summary" /\ req'[h].full) =>
                          \A c \in req'[h].cidrs :
                             SampleComplete(req[h].isp, c, req[h].round)'
  BY DEF CountsInv
<1> DEFINE q == req[h]
<1>t. /\ q \in Request /\ req \in [Handler -> Request]
      /\ q.round \in Int
      /\ DOMAIN tasks \subseteq Task
  BY DEF TypeInv, TypeOK, ReportsTypeOK, StorageTypeOK, Request, RoundId, Round, AdHoc, NoRound
<1>1. CASE q' = q
  BY <1>1, <1>t, SettledStays, CompleteStays DEF CountsInv
<1>2. CASE ReadProgress(h) /\ UNCHANGED schedulerVars
  <2>1. PICK c \in q.todo :
           LET rows == SampleTasks(q.isp, c, q.round) IN
           q' = IF rows = {} THEN Visiting(h, q.todo \ {c})
                ELSE [q EXCEPT !.pc = "summary", !.cidrs = {c},
                               !.full = rows \subseteq InState("done")]
    BY <1>2, <1>t DEF ReadProgress
  <2> DEFINE rows == SampleTasks(q.isp, c, q.round)
  <2>2. CASE rows = {}
    <3>1. q'.pc \in {"idle", "progress"}
      BY <2>1, <2>2, <1>t DEF Visiting, Idle, Request
    <3> QED BY <3>1
  <2>3. CASE rows # {}
    <3>1. /\ q'.pc = "summary" /\ q'.cidrs = {c} /\ q'.isp = q.isp /\ q'.round = q.round
          /\ q'.full = (rows \subseteq InState("done"))
      BY <2>1, <2>3, <1>t DEF Request
    <3>2. PICK t \in rows : TRUE
      BY <2>3
    <3>3. t \in DOMAIN tasks /\ t.stage = "sample" /\ t.isp = q.isp /\ t.round = q.round
      BY <3>2 DEF SampleTasks, RowsOf
    <3>4. Settled(q.isp, q.round)
      BY <3>3 DEF SamplingInv
    <3>5. q'.full => SampleComplete(q.isp, c, q.round)
      BY <3>1 DEF SampleComplete
    <3> QED BY <3>1, <3>4, <3>5, <1>t, SettledStays, CompleteStays
  <2> QED BY <2>2, <2>3
<1>3. CASE ReadSummary(h) /\ UNCHANGED schedulerVars
  <2>1. PICK c \in q.cidrs :
           q' = IF SampleHit(q.isp, c, q.round) THEN [q EXCEPT !.pc = "alive", !.cidrs = {c}]
                ELSE IF q.full THEN [q EXCEPT !.pc = "silent", !.cidrs = {c}]
                ELSE Visiting(h, q.todo \ {c})
    BY <1>3, <1>t DEF ReadSummary
  <2>2. q.pc = "summary"
    BY <1>3 DEF ReadSummary
  <2>3. Visiting(h, q.todo \ {c}).pc \in {"idle", "progress"}
    BY <1>t DEF Visiting, Idle, Request
  <2>4. CASE q'.pc \notin {"summary", "silent"}
    BY <2>4
  <2>5. CASE q'.pc \in {"summary", "silent"}
    <3>1. /\ q.full /\ q'.pc = "silent" /\ q'.cidrs = {c}
          /\ q'.isp = q.isp /\ q'.round = q.round
      BY <2>1, <2>3, <2>5, <1>t DEF Request
    <3>2. Settled(q.isp, q.round) /\ SampleComplete(q.isp, c, q.round)
      BY <2>1, <2>2, <3>1 DEF CountsInv
    <3> QED BY <3>1, <3>2, <1>t, SettledStays, CompleteStays
  <2> QED BY <2>4, <2>5
<1>4. CASE q'.pc \notin {"summary", "silent"}
  BY <1>4
<1> QED BY <1>1, <1>2, <1>3, <1>4, RequestMoves

\* A segment is silent after a step: it was so before, for the same round, or a handler
\* has just written it so.
LEMMA SilentStep ==
    ASSUME TypeInv, Next, NEW i \in Isp, NEW c \in Seg, segs'[<<i, c>>].state = "silent"
    PROVE  \/ /\ segs[<<i, c>>].state = "silent"
              /\ segs'[<<i, c>>].sampled = segs[<<i, c>>].sampled
           \/ \E h \in Handler :
                 /\ req[h].pc = "silent" /\ req[h].isp = i /\ c \in req[h].cidrs
                 /\ segs'[<<i, c>>].sampled = req[h].round
<1>t. <<i, c>> \in SegKey /\ segs \in [SegKey -> Segment] /\ req \in [Handler -> Request]
  BY DEF SegKey, TypeInv, TypeOK, StorageTypeOK, ReportsTypeOK
<1>1. CASE segs' = segs
  BY <1>1
<1>2. ASSUME NEW h \in Handler, WriteVerdict(h)
      PROVE  \/ segs'[<<i, c>>] = segs[<<i, c>>]
             \/ /\ req[h].pc = "silent" /\ req[h].isp = i /\ c \in req[h].cidrs
                /\ segs'[<<i, c>>].sampled = req[h].round
  <2>1. PICK d \in req[h].cidrs :
           segs' = [segs EXCEPT ![<<req[h].isp, d>>] =
                      [state |-> req[h].pc, sampled |-> req[h].round,
                       expanded |-> segs[<<req[h].isp, d>>].expanded, fresh |-> TRUE]]
    BY <1>2 DEF WriteVerdict, SetSegmentState
  <2>2. CASE i = req[h].isp /\ c = d
    <3>1. /\ segs'[<<i, c>>].state = req[h].pc
          /\ segs'[<<i, c>>].sampled = req[h].round
      BY <2>1, <2>2, <1>t
    <3> QED BY <2>1, <2>2, <3>1
  <2>3. CASE ~(i = req[h].isp /\ c = d)
    BY <2>1, <2>3, <1>t
  <2> QED BY <2>2, <2>3
<1>3. ASSUME NEW k \in SegKey, ExpireSegment(k)
      PROVE  /\ segs'[<<i, c>>].state = segs[<<i, c>>].state
             /\ segs'[<<i, c>>].sampled = segs[<<i, c>>].sampled
  BY <1>3, <1>t DEF ExpireSegment, Segment
<1>4. ASSUME NEW ks, NEW r, MarkExpanded(ks, r)
      PROVE  /\ segs'[<<i, c>>].state = segs[<<i, c>>].state
             /\ segs'[<<i, c>>].sampled = segs[<<i, c>>].sampled
  BY <1>4, <1>t DEF MarkExpanded, Segment
<1> QED BY <1>1, <1>2, <1>3, <1>4, SegsStep

LEMMA SilentSettledStep ==
    ASSUME TypeInv, FreshInv, ExhaustInv, Next
    PROVE  SilentSettled' /\ SilentIsExhaustive'
<1> SUFFICES ASSUME NEW i \in Isp, NEW c \in Seg, segs'[<<i, c>>].state = "silent"
             PROVE  /\ Settled(i, segs[<<i, c>>].sampled)'
                    /\ SampleComplete(i, c, segs[<<i, c>>].sampled)'
  BY DEF SilentSettled, SilentIsExhaustive, SampleComplete
<1>t. /\ <<i, c>> \in SegKey /\ segs[<<i, c>>].sampled \in Int
      /\ \A h \in Handler : req[h].round \in Int
  BY DEF SegKey, TypeInv, TypeOK, StorageTypeOK, ReportsTypeOK, Segment, Request,
         RoundId, Round, AdHoc, NoRound
<1>1. PICK r \in Int :
         /\ r = segs'[<<i, c>>].sampled
         /\ Settled(i, r) /\ SampleComplete(i, c, r)
  <2>1. CASE /\ segs[<<i, c>>].state = "silent"
             /\ segs'[<<i, c>>].sampled = segs[<<i, c>>].sampled
    BY <2>1, <1>t DEF ExhaustInv, SilentSettled, SilentIsExhaustive, SampleComplete
  <2>2. ASSUME NEW h \in Handler, req[h].pc = "silent", req[h].isp = i, c \in req[h].cidrs,
               segs'[<<i, c>>].sampled = req[h].round
        PROVE  Settled(i, req[h].round) /\ SampleComplete(i, c, req[h].round)
    BY <2>2 DEF ExhaustInv, CountsInv
  <2> QED BY <2>1, <2>2, <1>t, SilentStep
<1>2. Settled(i, r)' /\ SampleComplete(i, c, r)'
  BY <1>1, SettledStays, CompleteStays
<1> QED BY <1>1, <1>2 DEF Settled, SampleComplete, SampleTasks

LEMMA ExhaustInvariant == Spec => []ExhaustInv
<1>1. Init => ExhaustInv
  <2> SUFFICES ASSUME Init PROVE ExhaustInv
    OBVIOUS
  <2>1. SamplingInv
    BY DEF Init, StorageInit, SchedulerInit, SamplingInv, IdleJob, JobName
  <2>2. CountsInv
    BY DEF Init, ReportsInit, Idle, CountsInv
  <2>3. SilentSettled /\ SilentIsExhaustive
    BY DEF Init, StorageInit, SilentSettled, SilentIsExhaustive, SegKey, UnknownSegment
  <2> QED BY <2>1, <2>2, <2>3 DEF ExhaustInv
<1>2. TypeInv /\ FreshInv /\ ExhaustInv /\ [Next]_vars => ExhaustInv'
  <2>1. ASSUME TypeInv, FreshInv, ExhaustInv, Next PROVE ExhaustInv'
    BY <2>1, SamplingStep, CountsStep, SilentSettledStep DEF ExhaustInv
  <2>2. ASSUME ExhaustInv, UNCHANGED vars PROVE ExhaustInv'
    BY <2>2 DEF vars, ExhaustInv, SamplingInv, CountsInv, SilentSettled, SilentIsExhaustive,
                Settled, SampleComplete, SampleTasks, RowsOf, InState
  <2> QED BY <2>1, <2>2
<1> QED BY <1>1, <1>2, TypeInvInvariant, FreshInvariant, PTL DEF Spec

\* _bump_segment_state: a silent verdict stands on a sample every task of which has been
\* answered, whatever is requeued, lost, reported twice or cut off by a restart, and
\* however many handlers and jobs interleave between the calls that count and judge it.
THEOREM SilentExhaustive == Spec => []SilentIsExhaustive
<1>1. ExhaustInv => SilentIsExhaustive
  BY DEF ExhaustInv
<1> QED BY <1>1, ExhaustInvariant, PTL

----------------------------------------------------------------------------
(* Speed tests *)

\* speed_round passes its addresses through the filter before it queues them.
LEMMA FilterStep ==
    ASSUME TypeInv, FreshInv, FilterHolds, Next
    PROVE  FilterHolds'
<1> DEFINE vj == job["speed_round"]
<1>t. vj \in Job /\ "speed_round" \in JobName /\ job \in [JobName -> Job]
  BY DEF TypeInv, TypeOK, SchedulerTypeOK, JobName
<1>1. CASE vj' = IdleJob
  BY <1>1 DEF FilterHolds, IdleJob
<1>l. Loop("speed_round", "pick").pc \notin {"filter", "enqueue"}
  BY <1>t DEF Loop, IdleJob, Job
<1>2. CASE vj' = vj /\ ~SpeedEnqueue /\ ~Crash
  <2> SUFFICES ASSUME vj.pc = "enqueue", NEW i \in vj.cur, NEW t \in Open',
                      t.stage = "speed", t.isp = i, t.ip \in vj.ips
               PROVE  FALSE
    BY <1>2 DEF FilterHolds
  <2>1. t \in Open
    BY <1>2, OpenStep, NewSpeedRow
  <2> QED BY <2>1 DEF FilterHolds
<1>3. CASE SpeedStart
  BY <1>3, <1>t DEF SpeedStart, Goto, IdleJob, FilterHolds
<1>4. CASE SpeedPick
  <2>1. PICK i \in vj.todo : \E cands :
           vj' = [vj EXCEPT !.pc = "filter", !.cur = {i}, !.todo = @ \ {i}, !.ips = cands]
    BY <1>4, <1>t DEF SpeedPick, Goto
  <2>2. vj'.pc = "filter" /\ vj'.cur = {i} /\ i \in Isp
    BY <2>1, <1>t DEF Job
  <2> QED BY <2>2 DEF FilterHolds
<1>5. CASE SpeedFilter
  <2>1. PICK i \in vj.cur :
           /\ vj.pc = "filter"
           /\ vj' = IF WithoutActiveSpeed(i, vj.ips) = {} THEN Loop("speed_round", "pick")
                    ELSE [vj EXCEPT !.pc = "enqueue", !.ips = WithoutActiveSpeed(i, vj.ips)]
    BY <1>5, <1>t DEF SpeedFilter, Goto
  <2>2. CASE vj' = Loop("speed_round", "pick")
    BY <2>2, <1>l DEF FilterHolds
  <2>3. CASE vj' = [vj EXCEPT !.pc = "enqueue", !.ips = WithoutActiveSpeed(i, vj.ips)]
    <3>1. vj'.pc = "enqueue" /\ vj'.cur = vj.cur /\ vj'.ips = WithoutActiveSpeed(i, vj.ips)
      BY <2>3, <1>t DEF Job
    <3>2. vj.cur = {i} /\ i \in Isp
      BY <2>1 DEF FilterHolds
    <3>3. Open' = Open
      BY <1>5 DEF SpeedFilter, dbVars, Open
    <3> QED BY <3>1, <3>2, <3>3 DEF FilterHolds, WithoutActiveSpeed
  <2> QED BY <2>1, <2>2, <2>3
<1>6. CASE SpeedEnqueue
  <2>1. vj' = Loop("speed_round", "pick")
    BY <1>6, <1>t DEF SpeedEnqueue, Goto
  <2> QED BY <2>1, <1>l DEF FilterHolds
<1>7. CASE Crash
  BY <1>7, <1>1, <1>t DEF Crash
<1> QED BY <1>1, <1>2, <1>3, <1>4, <1>5, <1>6, <1>7, SpeedStep DEF SpeedRound

LEMMA OneActiveStep ==
    ASSUME TypeInv, FreshInv, SpeedInv, Next
    PROVE  OneActiveSpeedTask'
<1> SUFFICES ASSUME NEW t \in Open', NEW u \in Open',
                    t.stage = "speed", u.stage = "speed", t.isp = u.isp, t.ip = u.ip
             PROVE  t = u
  BY DEF OneActiveSpeedTask
<1>1. CASE t \in Open /\ u \in Open
  BY <1>1 DEF SpeedInv, OneActiveSpeedTask
<1>2. ASSUME NEW x \in DOMAIN tasks' \ DOMAIN tasks, NEW y \in Open,
             x.stage = "speed", y.stage = "speed", x.isp = y.isp, x.ip = y.ip
      PROVE  FALSE
  BY <1>2, NewSpeedRow DEF SpeedInv, FilterHolds
<1>3. CASE t \in DOMAIN tasks' \ DOMAIN tasks /\ u \in DOMAIN tasks' \ DOMAIN tasks
  <2>1. t \in SpeedRows(t.isp) /\ u \in SpeedRows(t.isp)
    BY <1>3, NewSpeedRow
  <2> QED BY <2>1 DEF SpeedRows, NewTasks
<1> QED BY <1>1, <1>2, <1>3, OpenStep

LEMMA SpeedInvariant == Spec => []SpeedInv
<1>1. Init => SpeedInv
  BY DEF Init, StorageInit, SchedulerInit, SpeedInv, OneActiveSpeedTask, FilterHolds, Open,
         IdleJob, JobName
<1>2. TypeInv /\ FreshInv /\ SpeedInv /\ [Next]_vars => SpeedInv'
  <2>1. ASSUME TypeInv, FreshInv, SpeedInv, Next PROVE SpeedInv'
    BY <2>1, FilterStep, OneActiveStep DEF SpeedInv
  <2>2. ASSUME SpeedInv, UNCHANGED vars PROVE SpeedInv'
    BY <2>2 DEF vars, SpeedInv, OneActiveSpeedTask, FilterHolds, Open
  <2> QED BY <2>1, <2>2
<1> QED BY <1>1, <1>2, TypeInvInvariant, FreshInvariant, PTL DEF Spec

\* run_speed_round never has an address under test twice for one operator, though tasks
\* are requeued and reported between its query and its enqueue.
THEOREM OneSpeedTask == Spec => []OneActiveSpeedTask
<1>1. SpeedInv => OneActiveSpeedTask
  BY DEF SpeedInv
<1> QED BY <1>1, SpeedInvariant, PTL

----------------------------------------------------------------------------
(* Verdicts and late answers *)

\* Nobody releases an assignment, so only a report of the task ends it.
LEMMA AssignedStep ==
    ASSUME TypeInv, FreshInv, Next, ~MayGoStale, NEW t \in InState("assigned")
    PROVE  \/ t \in InState("assigned")'
           \/ \E h \in Handler : MarkBatchDone(h) /\ t \in req[h].batch
<1>t. t \in DOMAIN tasks /\ tasks[t] = "assigned"
  BY DEF InState
<1>1. CASE UNCHANGED tasks
  BY <1>1 DEF InState
<1>2. ASSUME NEW rows \in EnqueuesInProgress, NEW part \in SUBSET rows, Enqueue(part)
      PROVE  t \in InState("assigned")'
  <2>1. t \notin part
    <3>1. t.created < seq /\ seq \in Nat
      BY <1>t DEF FreshInv, TypeInv, TypeOK, StorageTypeOK
    <3> QED BY <3>1, NewRows
  <2> QED BY <1>t, <1>2, <2>1 DEF Enqueue, InState
<1>3. ASSUME NEW i, NEW S \in ClaimSets(i, BatchSize), ClaimPending(S)
      PROVE  t \in InState("assigned")'
  BY <1>t, <1>3 DEF ClaimPending, SetState, InState
<1>4. ASSUME NEW h \in Handler, MarkBatchDone(h), t \notin req[h].batch
      PROVE  t \in InState("assigned")'
  BY <1>t, <1>4 DEF MarkBatchDone, MarkDone, SetState, InState
<1>5. ASSUME RequeueStale({}) PROVE t \in InState("assigned")'
  BY <1>t, <1>5 DEF RequeueStale, SetState, InState
<1>6. ASSUME NEW S \in SUBSET InState("done"), CleanupDone(S) PROVE t \in InState("assigned")'
  <2>1. t \notin S
    BY <1>t DEF InState
  <2> QED BY <1>t, <1>6, <2>1 DEF CleanupDone, InState
<1> QED BY <1>1, <1>2, <1>3, <1>4, <1>5, <1>6, TaskMoves

\* How tasks change hands.
LEMMA HandMoves ==
    ASSUME TypeInv, Next
    PROVE  \/ /\ \A a \in Agent : held'[a] \subseteq held[a]
              /\ \A h \in Handler : /\ req'[h].batch \subseteq req[h].batch
                                    /\ req'[h].ok \subseteq req[h].ok \/ req'[h].ok = {}
                                    /\ req'[h].batch = req[h].batch \/ req'[h].ok = {}
                                    /\ MarkBatchDone(h) => req'[h].batch = {}
           \/ \E a \in Agent : Pull(a)
           \/ \E a \in Agent, h \in Handler : Report(a, h)
<1>t. req \in [Handler -> Request] /\ held \in [Agent -> SUBSET Task]
  BY DEF TypeInv, TypeOK, ReportsTypeOK
<1>v. ASSUME NEW h \in Handler, NEW cs
      PROVE  Visiting(h, cs).batch = {} /\ Visiting(h, cs).ok = {}
  BY <1>t DEF Visiting, Idle, Request
<1> SUFFICES ASSUME \A a \in Agent : ~Pull(a), \A a \in Agent, h \in Handler : ~Report(a, h)
             PROVE  /\ \A a \in Agent : held'[a] \subseteq held[a]
                    /\ \A h \in Handler :
                          /\ req'[h].batch \subseteq req[h].batch
                          /\ req'[h].ok \subseteq req[h].ok \/ req'[h].ok = {}
                          /\ req'[h].batch = req[h].batch \/ req'[h].ok = {}
                          /\ MarkBatchDone(h) => req'[h].batch = {}
  OBVIOUS
<1>d. ASSUME NEW h \in Handler, MarkBatchDone(h) PROVE req'[h].batch = {}
  BY <1>d, <1>t, <1>v DEF MarkBatchDone
<1>1. CASE UNCHANGED req /\ UNCHANGED held
  BY <1>1, <1>d
<1>2. ASSUME NEW a \in Agent, PullLost(a) \/ ReportLost(a)
      PROVE  UNCHANGED req /\ \A b \in Agent : held'[b] \subseteq held[b]
  BY <1>2, <1>t DEF PullLost, ReportLost
<1>3. ASSUME NEW g \in Handler, HandlerStep(g), NEW h \in Handler
      PROVE  /\ held' = held
             /\ req'[h].batch \subseteq req[h].batch
             /\ req'[h].ok \subseteq req[h].ok \/ req'[h].ok = {}
             /\ req'[h].batch = req[h].batch \/ req'[h].ok = {}
  <2>1. CASE g # h
    <3>1. req'[h] = req[h] /\ held' = held
      BY <1>3, <1>t, <2>1
      DEF HandlerStep, InsertResults, MarkBatchDone, ReadProgress, ReadSummary, WriteVerdict
    <3> QED BY <3>1
  <2>2. CASE g = h
    <3>1. CASE InsertResults(h)
      <4>1. req'[h] = [req[h] EXCEPT !.pc = "done"] /\ held' = held
        BY <1>t, <3>1 DEF InsertResults
      <4> QED BY <4>1, <1>t DEF Request
    <3>2. CASE MarkBatchDone(h)
      BY <1>t, <1>v, <3>2 DEF MarkBatchDone
    <3>3. CASE ReadProgress(h)
      <4>1. PICK c \in req[h].todo :
               LET rows == SampleTasks(req[h].isp, c, req[h].round) IN
               /\ held' = held
               /\ req'[h] = IF rows = {} THEN Visiting(h, req[h].todo \ {c})
                            ELSE [req[h] EXCEPT !.pc = "summary", !.cidrs = {c},
                                                !.full = rows \subseteq InState("done")]
        BY <1>t, <3>3 DEF ReadProgress
      <4>2. ASSUME NEW b
            PROVE  LET q == [req[h] EXCEPT !.pc = "summary", !.cidrs = {c}, !.full = b] IN
                   q.batch = req[h].batch /\ q.ok = req[h].ok
        BY <1>t DEF Request
      <4>3. CASE SampleTasks(req[h].isp, c, req[h].round) = {}
        BY <4>1, <4>3, <1>v
      <4>4. CASE SampleTasks(req[h].isp, c, req[h].round) # {}
        <5>1. req'[h].batch = req[h].batch /\ req'[h].ok = req[h].ok
          BY <4>1, <4>2, <4>4
        <5> QED BY <4>1, <5>1
      <4> QED BY <4>3, <4>4
    <3>4. CASE ReadSummary(h)
      <4>1. /\ held' = held
            /\ \/ \E cs : req'[h] = Visiting(h, cs)
               \/ \E c : req'[h] = [req[h] EXCEPT !.pc = "alive", !.cidrs = {c}]
               \/ \E c : req'[h] = [req[h] EXCEPT !.pc = "silent", !.cidrs = {c}]
        BY <1>t, <3>4 DEF ReadSummary
      <4> QED BY <4>1, <1>t, <1>v DEF Request
    <3>5. CASE WriteVerdict(h)
      <4>1. held' = held /\ \E cs : req'[h] = Visiting(h, cs)
        BY <1>t, <3>5 DEF WriteVerdict
      <4> QED BY <4>1, <1>v
    <3> QED BY <1>3, <2>2, <3>1, <3>2, <3>3, <3>4, <3>5 DEF HandlerStep
  <2> QED BY <2>1, <2>2
<1>4. CASE Crash
  BY <1>4, <1>d DEF Crash, Idle
<1>5. CASE ReportsNext
  BY <1>5, <1>d, <1>2, <1>3 DEF ReportsNext, AgentStep
<1> QED BY <1>1, <1>4, <1>5 DEF Next, Expire, reportVars

\* Hands that only let go of tasks stay as they should be, if what they keep stays
\* assigned.
LEMMA HandsShrink ==
    ASSUME InHandsOnce,
           \A a \in Agent : held'[a] \subseteq held[a] /\ held'[a] \subseteq InState("assigned")',
           \A h \in Handler : /\ req'[h].batch \subseteq req[h].batch
                              /\ req'[h].batch \subseteq InState("assigned")'
    PROVE  InHandsOnce'
<1>1. /\ \A a \in Agent : held'[a] \subseteq InState("assigned")'
      /\ \A h \in Handler : req'[h].batch \subseteq InState("assigned")'
  OBVIOUS
<1>2. \A a, b \in Agent : a # b => held'[a] \cap held'[b] = {}
  BY DEF InHandsOnce
<1>3. \A a \in Agent, h \in Handler : held'[a] \cap req'[h].batch = {}
  BY DEF InHandsOnce
<1>4. \A g, h \in Handler : g # h => req'[g].batch \cap req'[h].batch = {}
  BY DEF InHandsOnce
<1> QED BY <1>1, <1>2, <1>3, <1>4 DEF InHandsOnce

LEMMA InHandsStep ==
    ASSUME TypeInv, FreshInv, OkInBatch, InHandsOnce, Next, ~MayGoStale
    PROVE  InHandsOnce' /\ OkInBatch'
<1>t. req \in [Handler -> Request] /\ held \in [Agent -> SUBSET Task]
  BY DEF TypeInv, TypeOK, ReportsTypeOK
<1>1. ASSUME \A a \in Agent : held'[a] \subseteq held[a],
             \A h \in Handler : /\ req'[h].batch \subseteq req[h].batch
                                /\ req'[h].ok \subseteq req[h].ok \/ req'[h].ok = {}
                                /\ req'[h].batch = req[h].batch \/ req'[h].ok = {}
                                /\ MarkBatchDone(h) => req'[h].batch = {}
      PROVE  InHandsOnce' /\ OkInBatch'
  <2>1. ASSUME NEW a \in Agent PROVE held'[a] \subseteq InState("assigned")'
    <3> SUFFICES ASSUME NEW t \in held'[a] PROVE t \in InState("assigned")'
      OBVIOUS
    <3>1. t \in InState("assigned") /\ \A h \in Handler : t \notin req[h].batch
      BY <1>1, <2>1 DEF InHandsOnce
    <3> QED BY <3>1, AssignedStep
  <2>2. ASSUME NEW h \in Handler PROVE req'[h].batch \subseteq InState("assigned")'
    <3> SUFFICES ASSUME NEW t \in req'[h].batch PROVE t \in InState("assigned")'
      OBVIOUS
    <3>1. /\ t \in InState("assigned") /\ ~MarkBatchDone(h)
          /\ \A g \in Handler : g # h => t \notin req[g].batch
      BY <1>1, <2>2 DEF InHandsOnce
    <3> QED BY <3>1, AssignedStep
  <2>3. InHandsOnce'
    BY <1>1, <2>1, <2>2, HandsShrink
  <2>4. OkInBatch'
    BY <1>1 DEF OkInBatch
  <2> QED BY <2>3, <2>4
<1>2. ASSUME NEW a \in Agent, Pull(a) PROVE InHandsOnce' /\ OkInBatch'
  <2>1. PICK S \in ClaimSets(IspOf[a], BatchSize) :
           ClaimPending(S) /\ held' = [held EXCEPT ![a] = S] /\ req' = req
    BY <1>2 DEF Pull
  <2>2. S \subseteq InState("pending")
    BY DEF ClaimSets
  <2>3. S \subseteq InState("assigned")' /\ InState("assigned") \subseteq InState("assigned")'
    BY <2>1, <2>2 DEF ClaimPending, SetState, InState
  <2>4. S \cap InState("assigned") = {}
    BY <2>2 DEF InState
  <2>5. /\ \A b \in Agent : held'[b] = IF b = a THEN S ELSE held[b]
        /\ \A h \in Handler : req'[h] = req[h]
    BY <2>1, <1>t
  <2>6. /\ \A b \in Agent : held'[b] \subseteq InState("assigned")'
        /\ \A h \in Handler : req'[h].batch \subseteq InState("assigned")'
    BY <2>3, <2>5 DEF InHandsOnce
  <2>7. /\ \A b, c \in Agent : b # c => held'[b] \cap held'[c] = {}
        /\ \A b \in Agent, h \in Handler : held'[b] \cap req'[h].batch = {}
        /\ \A g, h \in Handler : g # h => req'[g].batch \cap req'[h].batch = {}
    BY <2>4, <2>5 DEF InHandsOnce
  <2> QED BY <2>1, <2>6, <2>7 DEF InHandsOnce, OkInBatch
<1>3. ASSUME NEW a \in Agent, NEW h \in Handler, Report(a, h)
      PROVE  InHandsOnce' /\ OkInBatch'
  <2>1. PICK ok \in SUBSET {t \in held[a] : t.stage \in Recorded} :
           /\ req'[h].batch = held[a] /\ req'[h].ok = ok
           /\ \A g \in Handler : g # h => req'[g] = req[g]
    BY <1>3, <1>t DEF Report
  <2>2. /\ \A b \in Agent : held'[b] = IF b = a THEN {} ELSE held[b]
        /\ InState("assigned")' = InState("assigned")
    BY <1>3, <1>t DEF Report, dbVars, InState
  <2>3. /\ \A b \in Agent : held'[b] \subseteq InState("assigned")'
        /\ \A g \in Handler : req'[g].batch \subseteq InState("assigned")'
    BY <2>1, <2>2 DEF InHandsOnce
  <2>4. \A b, c \in Agent : b # c => held'[b] \cap held'[c] = {}
    BY <2>2 DEF InHandsOnce
  <2>5. \A b \in Agent, g \in Handler : held'[b] \cap req'[g].batch = {}
    BY <2>1, <2>2 DEF InHandsOnce
  <2>6. \A f, g \in Handler : f # g => req'[f].batch \cap req'[g].batch = {}
    BY <2>1 DEF InHandsOnce
  <2>7. OkInBatch'
    BY <2>1 DEF OkInBatch
  <2> QED BY <2>3, <2>4, <2>5, <2>6, <2>7 DEF InHandsOnce
<1> QED BY <1>1, <1>2, <1>3, HandMoves

\* A sample that succeeds is in a handler's hands, so its task is assigned.
LEMMA NewHit ==
    ASSUME InHandsOnce, OkInBatch, Next,
           NEW i, NEW c, NEW r, ~SampleHit(i, c, r), SampleHit(i, c, r)'
    PROVE  \E t \in SampleTasks(i, c, r) : tasks[t] = "assigned"
<1>1. PICK p \in okProbes' : p.round = r /\ p.stage = "sample" /\ p.isp = i /\ CidrOf[p.ip] = c
  BY DEF SampleHit
<1>2. p \notin okProbes
  BY <1>1 DEF SampleHit
<1>3. PICK h \in Handler : p \in InsertedProbes(h)
  BY <1>1, <1>2
  DEF Next, ReportsNext, AgentStep, HandlerStep, Pull, PullLost, ReportLost, Report,
      InsertResults, MarkBatchDone, ReadProgress, ReadSummary, WriteVerdict, dbVars,
      SchedulerNext, SampleRound, ProcessResults, SpeedRound, Housekeeping,
      SampleStart, SampleLeft, SampleFinish, SampleCreate, SampleSilent, SampleEnqueue,
      ProcessStart, ProcessClaim, ProcessExpand, ProcessCollect, ProcessTrace,
      SpeedStart, SpeedPick, SpeedFilter, SpeedEnqueue,
      HousekeepingRequeue, HousekeepingCleanup, HousekeepingCurrent,
      HousekeepingPending, HousekeepingTotal, HousekeepingFinish, Expire, Crash, WritePart
<1>4. PICK t \in req[h].ok : p = ProbeOf(t, req[h].known)
  BY <1>3 DEF InsertedProbes
<1>5. t \in InState("assigned")
  BY <1>4 DEF OkInBatch, InHandsOnce
<1>6. t.round = r /\ t.stage = "sample" /\ t.isp = i /\ CidrOf[t.ip] = c
  BY <1>1, <1>4 DEF ProbeOf
<1> QED BY <1>5, <1>6 DEF SampleTasks, RowsOf, InState

\* So no hit comes to a sample that is complete ...
LEMMA NoHitStays ==
    ASSUME InHandsOnce, OkInBatch, Next,
           NEW i, NEW c, NEW r, SampleComplete(i, c, r), ~SampleHit(i, c, r)
    PROVE  ~SampleHit(i, c, r)'
BY NewHit DEF SampleComplete, InState

\* ... neither before the verdict is written nor while it stands.
LEMMA UnrefutedStep ==
    ASSUME TypeInv, ExhaustInv, InHandsOnce, OkInBatch, Unrefuted, Next
    PROVE  Unrefuted'
<1> SUFFICES ASSUME NEW h \in Handler, req'[h].pc = "silent", NEW c \in req'[h].cidrs
             PROVE  ~SampleHit(req[h].isp, c, req[h].round)'
  BY DEF Unrefuted
<1> DEFINE q == req[h]
<1>t. q \in Request /\ req \in [Handler -> Request]
  BY DEF TypeInv, TypeOK, ReportsTypeOK
<1>1. CASE q' = q
  <2>1. ~SampleHit(q.isp, c, q.round) /\ SampleComplete(q.isp, c, q.round)
    BY <1>1 DEF Unrefuted, ExhaustInv, CountsInv
  <2>2. ~SampleHit(q.isp, c, q.round)'
    <3> HIDE DEF q
    <3> QED BY <1>1, <2>1, NoHitStays DEF SampleHit
  <2> QED BY <2>2
<1>2. CASE ReadSummary(h)
  <2>1. PICK d \in q.cidrs :
           q' = IF SampleHit(q.isp, d, q.round) THEN [q EXCEPT !.pc = "alive", !.cidrs = {d}]
                ELSE IF q.full THEN [q EXCEPT !.pc = "silent", !.cidrs = {d}]
                ELSE Visiting(h, q.todo \ {d})
    BY <1>2, <1>t DEF ReadSummary
  <2>2. Visiting(h, q.todo \ {d}).pc \in {"idle", "progress"}
    BY <1>t DEF Visiting, Idle, Request
  <2>3. /\ ~SampleHit(q.isp, d, q.round) /\ c = d
        /\ q'.isp = q.isp /\ q'.round = q.round
    BY <2>1, <2>2, <1>t DEF Request
  <2>4. okProbes' = okProbes
    BY <1>2 DEF ReadSummary, dbVars
  <2> QED BY <2>3, <2>4 DEF SampleHit
<1>3. CASE ReadProgress(h)
  <2>1. PICK d \in q.todo :
           LET rows == SampleTasks(q.isp, d, q.round) IN
           q' = IF rows = {} THEN Visiting(h, q.todo \ {d})
                ELSE [q EXCEPT !.pc = "summary", !.cidrs = {d},
                               !.full = rows \subseteq InState("done")]
    BY <1>3, <1>t DEF ReadProgress
  <2>2. Visiting(h, q.todo \ {d}).pc \in {"idle", "progress"}
    BY <1>t DEF Visiting, Idle, Request
  <2> QED BY <2>1, <2>2, <1>t DEF Request
<1> QED BY <1>1, <1>2, <1>3, RequestMoves

LEMMA SilentNoHitStep ==
    ASSUME TypeInv, ExhaustInv, SilentInv, Next
    PROVE  SilentHasNoHit'
<1> SUFFICES ASSUME NEW i \in Isp, NEW c \in Seg, segs'[<<i, c>>].state = "silent"
             PROVE  ~SampleHit(i, c, segs[<<i, c>>].sampled)'
  BY DEF SilentHasNoHit
<1>1. PICK r : /\ r = segs'[<<i, c>>].sampled
               /\ ~SampleHit(i, c, r) /\ SampleComplete(i, c, r)
  <2>1. CASE /\ segs[<<i, c>>].state = "silent"
             /\ segs'[<<i, c>>].sampled = segs[<<i, c>>].sampled
    BY <2>1 DEF ExhaustInv, SilentInv, SilentHasNoHit, SilentIsExhaustive, SampleComplete
  <2>2. ASSUME NEW h \in Handler, req[h].pc = "silent", req[h].isp = i, c \in req[h].cidrs,
               segs'[<<i, c>>].sampled = req[h].round
        PROVE  ~SampleHit(i, c, req[h].round) /\ SampleComplete(i, c, req[h].round)
    BY <2>2 DEF ExhaustInv, CountsInv, SilentInv, Unrefuted
  <2> QED BY <2>1, <2>2, SilentStep
<1>2. ~SampleHit(i, c, r)'
  BY <1>1, NoHitStays DEF SilentInv
<1> QED BY <1>1, <1>2 DEF SampleHit

LEMMA SilentInvariant ==
    ASSUME ~MayGoStale
    PROVE  Spec => []SilentInv
<1>1. Init => SilentInv
  BY DEF Init, StorageInit, ReportsInit, Idle, SegKey, UnknownSegment,
         SilentInv, OkInBatch, InHandsOnce, Unrefuted, SilentHasNoHit
<1>2. TypeInv /\ FreshInv /\ ExhaustInv /\ SilentInv /\ [Next]_vars => SilentInv'
  <2>1. ASSUME TypeInv, FreshInv, ExhaustInv, SilentInv, Next PROVE SilentInv'
    BY <2>1, InHandsStep, UnrefutedStep, SilentNoHitStep DEF SilentInv
  <2>2. ASSUME SilentInv, UNCHANGED vars PROVE SilentInv'
    BY <2>2 DEF vars, SilentInv, OkInBatch, InHandsOnce, Unrefuted, SilentHasNoHit,
                SampleHit, InState
  <2> QED BY <2>1, <2>2
<1> QED BY <1>1, <1>2, TypeInvInvariant, FreshInvariant, ExhaustInvariant, PTL DEF Spec

\* claim_pending and mark_done: as long as no assignment outlives the 15 minutes after
\* which it is released, a task is in one pair of hands at a time, however responses and
\* reports are lost, handlers interleave and the master is restarted.
THEOREM TasksAreInHandsOnce ==
    ASSUME ~MayGoStale
    PROVE  Spec => []InHandsOnce
<1>1. SilentInv => InHandsOnce
  BY DEF SilentInv
<1> QED BY <1>1, SilentInvariant, PTL

\* _bump_segment_state: as long as no assignment outlives those 15 minutes, a silent
\* verdict is never contradicted by an ok sample of its round, though the handler that
\* gives it reads and writes in three calls and others insert results between them.
\* The run silent_race shows that a released and answered task can contradict it.
THEOREM SilentNeverContradicted ==
    ASSUME ~MayGoStale
    PROVE  Spec => []SilentHasNoHit
<1>1. SilentInv => SilentHasNoHit
  BY DEF SilentInv
<1> QED BY <1>1, SilentInvariant, PTL

----------------------------------------------------------------------------
(* Every complete sample is judged *)

LEMMA FirstRoundStep ==
    ASSUME MaxRound = 1, MaxSpeed = 0, MaxCrash = 0,
           TypeInv, TypeInv', FirstRoundOnly, Next
    PROVE  FirstRoundOnly'
<1> DEFINE sj == job["sample_round"]
<1>t. /\ started \in Nat /\ started' \in Nat /\ job \in [JobName -> Job] /\ sj \in Job
      /\ "sample_round" \in JobName /\ "speed_round" \in JobName
  BY DEF TypeInv, TypeOK, StorageTypeOK, SchedulerTypeOK, JobName
<1>1. /\ started' <= 1
      /\ sj'.pc \in {"left", "finish", "create"} => started' = 0
  <2>1. CASE started' = started /\ (sj' = sj \/ sj' = IdleJob)
    BY <2>1 DEF FirstRoundOnly, IdleJob
  <2>2. CASE SampleStart
    BY <2>2, <1>t DEF SampleStart, dbVars, FirstRoundOnly
  <2>3. CASE SampleLeft \/ SampleFinish
    BY <2>3, <1>t DEF SampleLeft, SampleFinish, Goto, dbVars, FirstRoundOnly
  <2>4. CASE SampleCreate
    BY <2>4, <1>t DEF SampleCreate, CreateRound, Goto, IdleJob, FirstRoundOnly
  <2>5. CASE SampleSilent
    <3>1. sj'.pc = "enqueue" /\ started' = started
      BY <2>5, <1>t DEF SampleSilent, Goto, dbVars, Job
    <3> QED BY <3>1 DEF FirstRoundOnly
  <2>6. CASE SampleEnqueue
    <3>1. sj' = [Loop("sample_round", "silent") EXCEPT !.segs = {}] /\ started' = started
      BY <2>6, <1>t DEF SampleEnqueue, Goto
    <3>2. sj'.pc \in {"idle", "silent"}
      BY <3>1, <1>t DEF Loop, IdleJob, Job
    <3> QED BY <3>1, <3>2 DEF FirstRoundOnly
  <2> QED BY <2>1, <2>2, <2>3, <2>4, <2>5, <2>6, SampleStep DEF SampleRound
<1>2. running' \subseteq {1}
  BY <1>1, <1>t DEF TypeInv, TypeOK, StorageTypeOK
<1>3. ~SpeedRound
  BY DEF FirstRoundOnly, SpeedRound, SpeedStart, SpeedPick, SpeedFilter, SpeedEnqueue, Goto
<1>4. job'["speed_round"].pc = "idle"
  BY <1>3, SpeedStep DEF FirstRoundOnly, IdleJob
<1>5. speeds' = 0
  <2>1. speeds' = speeds
    BY <1>3
    DEF Next, schedulerVars, SchedulerNext, SampleRound, ProcessResults, Housekeeping,
        SampleStart, SampleLeft, SampleFinish, SampleCreate, SampleSilent, SampleEnqueue,
        ProcessStart, ProcessClaim, ProcessExpand, ProcessCollect, ProcessTrace,
        HousekeepingRequeue, HousekeepingCleanup, HousekeepingCurrent, HousekeepingPending,
        HousekeepingTotal, HousekeepingFinish, Expire, Crash
  <2> QED BY <2>1 DEF FirstRoundOnly
<1>6. ASSUME NEW t \in DOMAIN tasks' PROVE t.round = 1
  <2>1. CASE t \in DOMAIN tasks
    BY <2>1 DEF FirstRoundOnly
  <2>2. CASE t \notin DOMAIN tasks
    <3>1. PICK rows \in EnqueuesInProgress : t \in rows
      BY <2>2, NewRowIsEnqueued
    <3>2. ASSUME NEW r, NEW i, NEW stage, NEW ips, t \in NewTasks(r, i, stage, ips)
          PROVE  t.round = r
      BY <3>2 DEF NewTasks
    <3>3. \/ sj.pc = "enqueue" /\ t.round = sj.round
          \/ /\ job["process_results"].pc \in {"expand", "trace"}
             /\ t.round = job["process_results"].round
      <4>1. CASE sj.pc = "enqueue" /\ \E i : rows = SampleRows(i)
        BY <3>1, <3>2, <4>1 DEF SampleRows
      <4>2. CASE /\ job["process_results"].pc = "expand"
                 /\ \E i : rows = ExpandRows(i)
        BY <3>1, <3>2, <4>2 DEF ExpandRows
      <4>3. CASE /\ job["process_results"].pc = "trace"
                 /\ \E i : rows = TraceRows(i)
        BY <3>1, <3>2, <4>3 DEF TraceRows
      <4>4. job["speed_round"].pc # "enqueue"
        BY DEF FirstRoundOnly
      <4> QED BY <3>1, <4>1, <4>2, <4>3, <4>4 DEF EnqueuesInProgress
    <3>4. t.round \in 1 .. started
      BY <3>3 DEF TypeInv, JobsHaveRounds
    <3> QED BY <3>4, <1>t DEF FirstRoundOnly
  <2> QED BY <2>1, <2>2
<1> QED BY <1>1, <1>2, <1>4, <1>5, <1>6 DEF FirstRoundOnly

\* A report handler moves only by its own steps, is given a report, or is cut off.
LEMMA HandlerMoves ==
    ASSUME TypeInv, Next, NEW h \in Handler
    PROVE  \/ req'[h] = req[h]
           \/ req'[h] = Idle /\ Crash
           \/ HandlerStep(h)
           \/ \E a \in Agent : Report(a, h)
<1>t. req \in [Handler -> Request]
  BY DEF TypeInv, TypeOK, ReportsTypeOK
<1>1. ASSUME NEW g \in Handler, HandlerStep(g), g # h PROVE req'[h] = req[h]
  BY <1>1, <1>t
  DEF HandlerStep, InsertResults, MarkBatchDone, ReadProgress, ReadSummary, WriteVerdict
<1>2. ASSUME NEW a \in Agent, AgentStep(a), ~Report(a, h) PROVE req'[h] = req[h]
  BY <1>2, <1>t DEF AgentStep, Pull, PullLost, ReportLost, Report
<1>3. CASE ReportsNext
  BY <1>1, <1>2, <1>3 DEF ReportsNext, AgentStep
<1>4. CASE Crash
  BY <1>4 DEF Crash
<1> QED BY <1>3, <1>4 DEF Next, Expire, reportVars

LEMMA VisitingFields ==
    ASSUME TypeInv, NEW h \in Handler, NEW cs
    PROVE  IF cs = {} THEN Visiting(h, cs) = Idle
           ELSE /\ Visiting(h, cs).pc = "progress" /\ Visiting(h, cs).todo = cs
                /\ Visiting(h, cs).isp = req[h].isp /\ Visiting(h, cs).round = req[h].round
                /\ Visiting(h, cs).batch = {} /\ Visiting(h, cs).known = {}
BY DEF TypeInv, TypeOK, ReportsTypeOK, Request, Visiting

\* created_at grows, so what is in hand is never a row that is added later.
LEMMA ClockStep ==
    ASSUME TypeInv, Next
    PROVE  /\ seq \in Nat /\ seq' \in Nat /\ seq' >= seq
           /\ \A t \in DOMAIN tasks' \ DOMAIN tasks : t.created = seq
<1>1. seq \in Nat
  BY DEF TypeInv, TypeOK, StorageTypeOK
<1>2. seq' = seq \/ seq' = seq + 1
  <2>1. ASSUME NEW part, Enqueue(part) PROVE seq' = seq \/ seq' = seq + 1
    BY <2>1 DEF Enqueue
  <2> QED BY <2>1, TasksStep
<1>3. \A t \in DOMAIN tasks' \ DOMAIN tasks : t.created = seq
  BY NewRowIsEnqueued, NewRows
<1> QED BY <1>1, <1>2, <1>3

LEMMA ReportsKnowStep ==
    ASSUME TypeInv, FreshInv, FirstRoundOnly, ReportsKnow, Next
    PROVE  ReportsKnow'
<1> DEFINE Knows(q) ==
              /\ \A t \in q.batch : t.isp = q.isp /\ t.created < seq'
              /\ q.batch \cap DOMAIN tasks' \subseteq q.known
              /\ \A t \in q.known :
                    q.round = 1 /\ (t.stage = "sample" => CidrOf[t.ip] \in q.todo)
              /\ q.round \in {NoRound, 1}
              /\ q.pc \in {"progress", "summary", "alive", "silent"} => q.round = 1
<1>t. /\ held \in [Agent -> SUBSET Task] /\ req \in [Handler -> Request]
      /\ DOMAIN tasks \subseteq Task /\ \A t \in Task : t.created \in Nat
  BY DEF TypeInv, TypeOK, StorageTypeOK, ReportsTypeOK, Task
<1>c. /\ seq \in Nat /\ seq' \in Nat /\ seq' >= seq
      /\ \A t \in DOMAIN tasks' \ DOMAIN tasks : t.created = seq
  BY ClockStep
<1>1. ASSUME NEW a \in Agent, NEW t \in held'[a]
      PROVE  t.isp = IspOf[a] /\ t.created < seq'
  <2>1. CASE t \in held[a]
    BY <2>1, <1>t, <1>c DEF ReportsKnow
  <2>2. CASE t \notin held[a]
    <3>1. Pull(a)
      <4>1. ASSUME NEW b \in Agent, Pull(b), b # a PROVE held'[a] = held[a]
        BY <1>t, <4>1 DEF Pull
      <4> QED BY <1>1, <2>2, <4>1, <1>t, HandMoves DEF Report
    <3>2. t \in DOMAIN tasks /\ t.isp = IspOf[a]
      BY <1>1, <3>1, <1>t DEF Pull, ClaimSets, InState
    <3> QED BY <3>2, <1>t, <1>c DEF FreshInv
  <2> QED BY <2>1, <2>2
<1>2. ASSUME NEW h \in Handler PROVE Knows(req'[h])
  <2>k. Knows(req[h])
    <3>1. \A t \in req[h].batch : t.isp = req[h].isp /\ t.created < seq /\ t.created \in Nat
      BY <1>t DEF ReportsKnow, Request
    <3>2. req[h].batch \cap DOMAIN tasks' \subseteq req[h].known
      BY <3>1, <1>c DEF ReportsKnow
    <3>3. \A t \in req[h].batch : t.created < seq'
      BY <3>1, <1>c
    <3> QED BY <3>1, <3>2, <3>3 DEF ReportsKnow
  <2>i. Knows(Idle)
    BY DEF Idle
  <2>1. CASE InsertResults(h)
    <3>1. /\ req'[h].pc = "done" /\ req'[h].isp = req[h].isp /\ req'[h].round = req[h].round
          /\ req'[h].batch = req[h].batch /\ req'[h].known = req[h].known
          /\ req'[h].todo = req[h].todo
      BY <2>1, <1>t DEF InsertResults, Request
    <3> QED BY <2>k, <3>1
  <2>2. ASSUME NEW cs, req'[h] = Visiting(h, cs), req[h].round = NoRound => cs = {}
        PROVE  Knows(req'[h])
    BY <2>2, <2>i, <2>k, VisitingFields
  <2>3. CASE MarkBatchDone(h)
    BY <2>2, <2>3, <1>t DEF MarkBatchDone
  <2>4. CASE ReadProgress(h)
    <3>1. PICK c \in req[h].todo :
             LET rows == SampleTasks(req[h].isp, c, req[h].round) IN
             req'[h] = IF rows = {} THEN Visiting(h, req[h].todo \ {c})
                       ELSE [req[h] EXCEPT !.pc = "summary", !.cidrs = {c},
                                           !.full = rows \subseteq InState("done")]
      BY <1>t, <2>4 DEF ReadProgress
    <3>2. req[h].round = 1
      BY <2>4 DEF ReportsKnow, ReadProgress
    <3>3. CASE SampleTasks(req[h].isp, c, req[h].round) = {}
      BY <3>1, <3>2, <3>3, <2>2 DEF NoRound
    <3>4. CASE SampleTasks(req[h].isp, c, req[h].round) # {}
      <4>1. /\ req'[h].isp = req[h].isp /\ req'[h].round = req[h].round
            /\ req'[h].batch = req[h].batch /\ req'[h].known = req[h].known
            /\ req'[h].todo = req[h].todo
        BY <3>1, <3>4, <1>t DEF Request
      <4> QED BY <2>k, <3>2, <4>1
    <3> QED BY <3>3, <3>4
  <2>5. CASE ReadSummary(h)
    <3>1. PICK c \in req[h].cidrs :
             \/ req'[h] = Visiting(h, req[h].todo \ {c})
             \/ \E pc \in {"alive", "silent"} :
                   req'[h] = [req[h] EXCEPT !.pc = pc, !.cidrs = {c}]
      BY <1>t, <2>5 DEF ReadSummary
    <3>2. req[h].round = 1
      BY <2>5 DEF ReportsKnow, ReadSummary
    <3>3. ASSUME NEW pc, req'[h] = [req[h] EXCEPT !.pc = pc, !.cidrs = {c}]
          PROVE  Knows(req'[h])
      <4>1. /\ req'[h].isp = req[h].isp /\ req'[h].round = req[h].round
            /\ req'[h].batch = req[h].batch /\ req'[h].known = req[h].known
            /\ req'[h].todo = req[h].todo
        BY <3>3, <1>t DEF Request
      <4> QED BY <2>k, <3>2, <4>1
    <3> HIDE DEF Knows
    <3>5. req[h].round # NoRound
      BY <3>2 DEF NoRound
    <3>4. CASE req'[h] = Visiting(h, req[h].todo \ {c})
      BY <3>5, <3>4, <2>2
    <3> QED BY <3>1, <3>3, <3>4
  <2>6. CASE WriteVerdict(h)
    <3>1. \E cs : req'[h] = Visiting(h, cs)
      BY <1>t, <2>6 DEF WriteVerdict
    <3>2. req[h].round = 1
      BY <2>6 DEF ReportsKnow, WriteVerdict
    <3> QED BY <3>1, <3>2, <2>2 DEF NoRound
  <2>7. ASSUME NEW a \in Agent, Report(a, h) PROVE Knows(req'[h])
    <3> DEFINE known == held[a] \cap DOMAIN tasks
    <3>1. /\ req'[h].pc = "insert" /\ req'[h].isp = IspOf[a]
          /\ req'[h].batch = held[a] /\ req'[h].known = known
          /\ req'[h].round \in RoundChoices(known)
          /\ req'[h].todo = {CidrOf[t.ip] : t \in {u \in known : u.stage = "sample"}}
          /\ tasks' = tasks /\ seq' = seq
      BY <2>7, <1>t DEF Report, dbVars
    <3>2. /\ req'[h].round \in {NoRound, 1}
          /\ known # {} => req'[h].round = 1
      BY <3>1 DEF RoundChoices, FirstRoundOnly
    <3>3. \A t \in held[a] : t.isp = IspOf[a] /\ t.created < seq
      BY DEF ReportsKnow
    <3>4. \A t \in known :
             req'[h].round = 1 /\ (t.stage = "sample" => CidrOf[t.ip] \in req'[h].todo)
      BY <3>1, <3>2
    <3>5. req'[h].batch \cap DOMAIN tasks' \subseteq req'[h].known
      BY <3>1
    <3>6. \A t \in req'[h].batch : t.isp = req'[h].isp /\ t.created < seq'
      BY <3>1, <3>3
    <3> HIDE DEF known
    <3> QED BY <3>1, <3>2, <3>4, <3>5, <3>6
  <2> QED
    <3>1. CASE req'[h] = req[h]
      BY <2>k, <3>1
    <3>2. CASE req'[h] = Idle
      BY <2>i, <3>2
    <3> HIDE DEF Knows
    <3> QED
      BY <3>1, <3>2, <2>1, <2>3, <2>4, <2>5, <2>6, <2>7, HandlerMoves DEF HandlerStep
<1> QED BY <1>1, <1>2 DEF ReportsKnow

\* A handler that is to judge a segment whose sample is complete goes on to do so.
LEMMA WillJudgeStep ==
    ASSUME TypeInv, ReportsKnow, Next, ~Crash,
           NEW i \in Isp, NEW c \in Seg, NEW h \in Handler,
           WillJudge(h, i, c), SampleTasks(i, c, 1) # {}, SampleComplete(i, c, 1)
    PROVE  WillJudge(h, i, c)' \/ segs'[<<i, c>>].sampled = 1
<1> DEFINE q == req[h]
<1>t. /\ req \in [Handler -> Request] /\ q \in Request
      /\ <<i, c>> \in SegKey /\ segs \in [SegKey -> Segment]
  BY DEF TypeInv, TypeOK, ReportsTypeOK, StorageTypeOK, SegKey
<1>q. /\ q.isp = i /\ c \in q.todo /\ q.round = 1
      /\ \/ q.pc \in {"progress", "alive", "silent"}
         \/ q.pc = "summary" /\ (c \in q.cidrs => q.full)
  BY DEF WillJudge, ReportsKnow
<1>v. ASSUME NEW d, d # c, q' = Visiting(h, q.todo \ {d}) PROVE WillJudge(h, i, c)'
  BY <1>v, <1>q, VisitingFields DEF WillJudge
<1>1. CASE q' = q
  BY <1>1, <1>q DEF WillJudge
<1>2. CASE ReadProgress(h)
  <2>1. PICK d \in q.todo :
           LET rows == SampleTasks(q.isp, d, q.round) IN
           q' = IF rows = {} THEN Visiting(h, q.todo \ {d})
                ELSE [q EXCEPT !.pc = "summary", !.cidrs = {d},
                               !.full = rows \subseteq InState("done")]
    BY <1>t, <1>2 DEF ReadProgress
  <2>2. CASE SampleTasks(q.isp, d, q.round) = {}
    <3>1. d # c
      BY <1>q, <2>2
    <3> QED BY <2>1, <2>2, <3>1, <1>v
  <2>3. CASE SampleTasks(q.isp, d, q.round) # {}
    <3>1. /\ q'.pc = "summary" /\ q'.cidrs = {d} /\ q'.isp = q.isp /\ q'.todo = q.todo
          /\ q'.full = (SampleTasks(q.isp, d, q.round) \subseteq InState("done"))
      BY <2>1, <2>3, <1>t DEF Request
    <3>2. c = d => q'.full
      BY <3>1, <1>q DEF SampleComplete
    <3> QED BY <3>1, <3>2, <1>q DEF WillJudge
  <2> QED BY <2>2, <2>3
<1>3. CASE ReadSummary(h)
  <2>1. PICK d \in q.cidrs :
           q' = IF SampleHit(q.isp, d, q.round) THEN [q EXCEPT !.pc = "alive", !.cidrs = {d}]
                ELSE IF q.full THEN [q EXCEPT !.pc = "silent", !.cidrs = {d}]
                ELSE Visiting(h, q.todo \ {d})
    BY <1>t, <1>3 DEF ReadSummary
  <2>2. ASSUME NEW pc \in {"alive", "silent"}, q' = [q EXCEPT !.pc = pc, !.cidrs = {d}]
        PROVE  WillJudge(h, i, c)'
    <3>1. q'.pc = pc /\ q'.isp = q.isp /\ q'.todo = q.todo
      BY <2>2, <1>t DEF Request
    <3> QED BY <3>1, <1>q DEF WillJudge
  <2>3. CASE q' = Visiting(h, q.todo \ {d}) /\ ~q.full
    <3>1. d # c
      BY <1>q, <1>3, <2>3 DEF ReadSummary
    <3> QED BY <2>3, <3>1, <1>v
  <2> QED BY <2>1, <2>2, <2>3
<1>4. CASE WriteVerdict(h)
  <2>1. PICK d \in q.cidrs :
           /\ SetSegmentState(q.isp, d, q.pc, q.round)
           /\ q' = Visiting(h, q.todo \ {d})
    BY <1>t, <1>4 DEF WriteVerdict
  <2>2. CASE d = c
    BY <2>1, <2>2, <1>q, <1>t DEF SetSegmentState
  <2>3. CASE d # c
    BY <2>1, <2>3, <1>v
  <2> QED BY <2>2, <2>3
<1>5. ~InsertResults(h) /\ ~MarkBatchDone(h) /\ \A a \in Agent : ~Report(a, h)
  BY <1>q DEF InsertResults, MarkBatchDone, Report
<1> QED BY <1>1, <1>2, <1>3, <1>4, <1>5, HandlerMoves DEF HandlerStep

\* A verdict of the first round is only replaced by another one.
LEMMA JudgedStays ==
    ASSUME TypeInv, ReportsKnow, Next, NEW k \in SegKey, segs[k].sampled = 1
    PROVE  segs'[k].sampled = 1
<1>t. segs \in [SegKey -> Segment]
  BY DEF TypeInv, TypeOK, StorageTypeOK
<1>1. ASSUME NEW h \in Handler, WriteVerdict(h) PROVE segs'[k].sampled = 1
  <2>1. req[h].round = 1
    BY <1>1 DEF WriteVerdict, ReportsKnow
  <2> QED BY <1>1, <2>1, <1>t DEF WriteVerdict, SetSegmentState
<1>2. ASSUME NEW l \in SegKey, ExpireSegment(l) PROVE segs'[k].sampled = 1
  BY <1>2, <1>t DEF ExpireSegment, Segment
<1>3. ASSUME NEW ks, NEW r, MarkExpanded(ks, r) PROVE segs'[k].sampled = 1
  BY <1>3, <1>t DEF MarkExpanded, Segment
<1> QED BY <1>1, <1>2, <1>3, SegsStep

\* A sample becomes complete only by the report of one of its tasks.
LEMMA BecomesComplete ==
    ASSUME TypeInv, FreshInv, Next, NEW i, NEW c,
           SampleTasks(i, c, 1)' # {}, SampleComplete(i, c, 1)'
    PROVE  \/ SampleTasks(i, c, 1) # {} /\ SampleComplete(i, c, 1)
           \/ \E h \in Handler : MarkBatchDone(h) /\ req[h].batch \cap SampleTasks(i, c, 1) # {}
<1> DEFINE old == SampleTasks(i, c, 1)
           now == SampleTasks(i, c, 1)'
           Kept == /\ now \subseteq old
                   /\ \A t \in old : tasks[t] # "done" => t \in now /\ tasks'[t] # "done"
<1>0. now # {} /\ \A t \in now : tasks'[t] = "done"
  BY DEF SampleComplete, InState
<1>k. ASSUME Kept PROVE old # {} /\ SampleComplete(i, c, 1)
  BY <1>0, <1>k DEF SampleComplete, SampleTasks, RowsOf, InState
<1>d. DOMAIN tasks' = DOMAIN tasks => now = old
  BY DEF SampleTasks, RowsOf
<1>1. CASE UNCHANGED tasks
  BY <1>1, <1>d, <1>k
<1>2. ASSUME NEW rows \in EnqueuesInProgress, NEW part \in SUBSET rows, Enqueue(part)
      PROVE  Kept
  <2>1. DOMAIN tasks' = DOMAIN tasks \cup part /\ \A t \in part : tasks'[t] = "pending"
    BY <1>2 DEF Enqueue
  <2>2. \A t \in now : t \notin part
    BY <1>0, <2>1
  <2>3. now \subseteq old
    BY <2>1, <2>2 DEF SampleTasks, RowsOf
  <2>4. \A t \in old : t \in now
    BY <2>1 DEF SampleTasks, RowsOf
  <2>5. \A t \in DOMAIN tasks : tasks'[t] \in {"pending", tasks[t]}
    BY <1>2 DEF Enqueue
  <2> QED BY <2>3, <2>4, <2>5 DEF SampleTasks, RowsOf
<1>3. ASSUME NEW S, NEW s \in {"pending", "assigned"}, SetState(S, s) PROVE Kept
  <2>1. now = old
    BY <1>3, <1>d DEF SetState
  <2>2. \A t \in old : tasks[t] # "done" => tasks'[t] # "done"
    BY <1>3 DEF SetState, SampleTasks, RowsOf
  <2> QED BY <2>1, <2>2
<1>4. ASSUME NEW h \in Handler, MarkBatchDone(h), req[h].batch \cap old = {} PROVE Kept
  <2>1. now = old
    BY <1>4, <1>d DEF MarkBatchDone, MarkDone, SetState
  <2>2. \A t \in old : tasks[t] # "done" => tasks'[t] # "done"
    BY <1>4 DEF MarkBatchDone, MarkDone, SetState, SampleTasks, RowsOf
  <2> QED BY <2>1, <2>2
<1>5. ASSUME NEW S \in SUBSET InState("done"), CleanupDone(S) PROVE Kept
  <2>1. /\ DOMAIN tasks' = DOMAIN tasks \ S
        /\ \A t \in DOMAIN tasks' : tasks'[t] = tasks[t]
    BY <1>5 DEF CleanupDone
  <2> QED BY <2>1 DEF SampleTasks, RowsOf, InState
<1> HIDE DEF Kept
<1> QED
  BY <1>1, <1>2, <1>3, <1>4, <1>5, <1>k, TaskMoves DEF ClaimPending, RequeueStale

LEMMA CompleteStep ==
    ASSUME TypeInv, FreshInv, ReportsKnow, CompleteIsJudged, Next, ~Crash
    PROVE  CompleteIsJudged'
<1> SUFFICES ASSUME NEW i \in Isp, NEW c \in Seg,
                    SampleTasks(i, c, 1)' # {}, SampleComplete(i, c, 1)'
             PROVE  segs'[<<i, c>>].sampled = 1 \/ \E h \in Handler : WillJudge(h, i, c)'
  BY DEF CompleteIsJudged
<1>t. <<i, c>> \in SegKey /\ req \in [Handler -> Request]
  BY DEF SegKey, TypeInv, TypeOK, ReportsTypeOK
<1>1. CASE SampleTasks(i, c, 1) # {} /\ SampleComplete(i, c, 1)
  <2>1. CASE segs[<<i, c>>].sampled = 1
    BY <2>1, <1>t, JudgedStays
  <2>2. ASSUME NEW h \in Handler, WillJudge(h, i, c)
        PROVE  WillJudge(h, i, c)' \/ segs'[<<i, c>>].sampled = 1
    BY <1>1, <2>2, WillJudgeStep
  <2> QED BY <1>1, <2>1, <2>2 DEF CompleteIsJudged
<1>2. ASSUME NEW h \in Handler, MarkBatchDone(h),
             NEW t \in req[h].batch \cap SampleTasks(i, c, 1)
      PROVE  WillJudge(h, i, c)'
  <2>1. /\ t \in DOMAIN tasks /\ t.stage = "sample" /\ t.isp = i /\ CidrOf[t.ip] = c
    BY DEF SampleTasks, RowsOf
  <2>2. /\ req[h].round = 1 /\ c \in req[h].todo /\ req[h].isp = i
    BY <2>1 DEF ReportsKnow
  <2>3. req'[h] = Visiting(h, req[h].todo)
    BY <1>2, <2>2, <1>t DEF MarkBatchDone, NoRound
  <2> QED BY <2>2, <2>3, VisitingFields DEF WillJudge
<1> QED BY <1>1, <1>2, BecomesComplete

LEMMA JudgedInvariant ==
    ASSUME MaxRound = 1, MaxSpeed = 0, MaxCrash = 0
    PROVE  Spec => []JudgedInv
<1>1. Init => JudgedInv
  <2> SUFFICES ASSUME Init PROVE JudgedInv
    OBVIOUS
  <2>1. FirstRoundOnly
    BY DEF Init, StorageInit, SchedulerInit, IdleJob, JobName, FirstRoundOnly
  <2>2. ReportsKnow
    BY DEF Init, StorageInit, ReportsInit, Idle, ReportsKnow
  <2>3. CompleteIsJudged
    BY DEF Init, StorageInit, CompleteIsJudged, SampleTasks, RowsOf
  <2> QED BY <2>1, <2>2, <2>3 DEF JudgedInv
<1>2. TypeInv /\ TypeInv' /\ FreshInv /\ JudgedInv /\ [Next]_vars => JudgedInv'
  <2>1. ASSUME TypeInv, TypeInv', FreshInv, JudgedInv, Next PROVE JudgedInv'
    <3>1. ~Crash
      BY <2>1 DEF TypeInv, TypeOK, Crash
    <3> QED BY <2>1, <3>1, FirstRoundStep, ReportsKnowStep, CompleteStep DEF JudgedInv
  <2>2. ASSUME JudgedInv, UNCHANGED vars PROVE JudgedInv'
    BY <2>2 DEF vars, JudgedInv, FirstRoundOnly, ReportsKnow, CompleteIsJudged, WillJudge,
                SampleComplete, SampleTasks, RowsOf, InState
  <2> QED BY <2>1, <2>2
<1> QED BY <1>1, <1>2, TypeInvInvariant, FreshInvariant, PTL DEF Spec

\* _bump_segment_state: in the first round, before a speed test is queued and without a
\* kill, a segment all of whose sample tasks are answered has its verdict once no handler
\* is at work: whichever of the handlers answers the last one, whatever was lost,
\* released and answered twice, or deleted meanwhile.  The run mixed_batch shows what a
\* speed task reported in the same batch does to it.
THEOREM CompleteSamplesAreJudged ==
    ASSUME MaxRound = 1, MaxSpeed = 0, MaxCrash = 0
    PROVE  Spec => []SampledSegmentIsJudged
<1>1. JudgedInv => SampledSegmentIsJudged
  <2> SUFFICES ASSUME JudgedInv, NoReportInProgress, NEW i \in Isp, NEW c \in Seg,
                      NEW r \in running, SampleTasks(i, c, r) # {},
                      SampleTasks(i, c, r) \subseteq InState("done")
               PROVE  segs[<<i, c>>].sampled = r
    BY DEF SampledSegmentIsJudged
  <2>1. r = 1
    BY DEF JudgedInv, FirstRoundOnly
  <2>2. \A h \in Handler : ~WillJudge(h, i, c)
    BY DEF NoReportInProgress, WillJudge
  <2> QED BY <2>1, <2>2 DEF JudgedInv, CompleteIsJudged, SampleComplete
<1> QED BY <1>1, JudgedInvariant, PTL

\* The strengthenings the proofs of Monitor's properties rest on hold together: rounds,
\* evidence, marks, samples and verdicts of task_queue, scan_round and c_segment_state
\* agree in every state.
THEOREM StoreIsConsistent == Spec => []InductiveInv
<1>1. Spec => [](RoundsInv /\ JobsHaveRounds /\ EvidenceInv /\ ExpandInv /\ ExhaustInv
                 /\ FreshInv /\ SpeedInv)
  <2>1. TypeInv => RoundsInv /\ JobsHaveRounds
    BY DEF TypeInv
  <2> QED BY <2>1, TypeInvInvariant, EvidenceInvariant, ExpandInvariant, ExhaustInvariant,
             FreshInvariant, SpeedInvariant, PTL
<1>2. Spec => [](~MayGoStale => SilentInv)
  <2>1. CASE ~MayGoStale
    <3>1. SilentInv => (~MayGoStale => SilentInv)
      OBVIOUS
    <3> QED BY <2>1, <3>1, SilentInvariant, PTL
  <2>2. CASE MayGoStale
    <3>1. ~MayGoStale => SilentInv
      BY <2>2
    <3> QED BY <3>1, PTL
  <2> QED BY <2>1, <2>2
<1>3. Spec => [](MaxCrash = 0 /\ ~MayGoOld => ClaimsPending)
  <2>1. CASE MaxCrash = 0 /\ ~MayGoOld
    <3>1. ClaimsPending => (MaxCrash = 0 /\ ~MayGoOld => ClaimsPending)
      OBVIOUS
    <3> QED BY <2>1, <3>1, ClaimsInvariant, PTL
  <2>2. CASE ~(MaxCrash = 0 /\ ~MayGoOld)
    <3>1. MaxCrash = 0 /\ ~MayGoOld => ClaimsPending
      BY <2>2
    <3> QED BY <3>1, PTL
  <2> QED BY <2>1, <2>2
<1>4. Spec => [](MaxRound = 1 /\ MaxSpeed = 0 /\ MaxCrash = 0 => JudgedInv)
  <2>1. CASE MaxRound = 1 /\ MaxSpeed = 0 /\ MaxCrash = 0
    <3>1. JudgedInv => (MaxRound = 1 /\ MaxSpeed = 0 /\ MaxCrash = 0 => JudgedInv)
      OBVIOUS
    <3> QED BY <2>1, <3>1, JudgedInvariant, PTL
  <2>2. CASE ~(MaxRound = 1 /\ MaxSpeed = 0 /\ MaxCrash = 0)
    <3>1. MaxRound = 1 /\ MaxSpeed = 0 /\ MaxCrash = 0 => JudgedInv
      BY <2>2
    <3> QED BY <3>1, PTL
  <2> QED BY <2>1, <2>2
<1>5. /\ RoundsInv /\ JobsHaveRounds /\ EvidenceInv /\ ExpandInv /\ ExhaustInv
      /\ FreshInv /\ SpeedInv
      /\ (~MayGoStale => SilentInv)
      /\ (MaxCrash = 0 /\ ~MayGoOld => ClaimsPending)
      /\ (MaxRound = 1 /\ MaxSpeed = 0 /\ MaxCrash = 0 => JudgedInv)
      => InductiveInv
  BY DEF InductiveInv
<1> QED BY <1>1, <1>2, <1>3, <1>4, <1>5, PTL
=============================================================================
