----------------------------- MODULE MonitorProofs ---------------------------
(* Theorems about Monitor, for every value of its constants. *)
EXTENDS Monitor, TLAPS

----------------------------------------------------------------------------
(* What the Storage operators do to the type of what they write *)

TaskState == {"pending", "assigned", "done"}

TasksOK(f) == DOMAIN f \subseteq Task /\ f \in [DOMAIN f -> TaskState]

\* An UPDATE of task_queue.state keeps the rows and gives each a legal state.
LEMMA SetStateType ==
    ASSUME TasksOK(tasks), NEW ts, NEW s \in TaskState, SetState(ts, s)
    PROVE  TasksOK(tasks') /\ DOMAIN tasks' = DOMAIN tasks
BY DEF TasksOK, SetState

\* The rows Strategy builds are tasks.
LEMMA NewTasksType ==
    ASSUME seq \in Nat, NEW r \in RoundId, NEW i \in Isp, NEW stage \in Stage,
           NEW ips \in SUBSET Ip
    PROVE  NewTasks(r, i, stage, ips) \subseteq Task
BY DEF NewTasks, Task

\* enqueue_tasks adds rows to a well-formed queue.
LEMMA EnqueueType ==
    ASSUME TasksOK(tasks), seq \in Nat, NEW rows \in SUBSET Task, Enqueue(rows)
    PROVE  TasksOK(tasks') /\ seq' \in Nat /\ DOMAIN tasks' = DOMAIN tasks \cup rows
<1>1. TasksOK(tasks') /\ DOMAIN tasks' = DOMAIN tasks \cup rows
  BY DEF TasksOK, Enqueue, TaskState
<1>2. seq' \in Nat
  BY DEF Enqueue
<1> QED BY <1>1, <1>2

\* cleanup_done_tasks keeps the remaining rows as they are.
LEMMA CleanupType ==
    ASSUME TasksOK(tasks), NEW S, CleanupDone(S)
    PROVE  TasksOK(tasks') /\ DOMAIN tasks' = DOMAIN tasks \ S
BY DEF TasksOK, CleanupDone

\* An upsert of a verdict keeps the segment table well-formed.
LEMMA SetSegmentType ==
    ASSUME segs \in [SegKey -> Segment], NEW i \in Isp, NEW c \in Seg,
           NEW s \in {"alive", "silent"}, NEW r \in RoundId \cup {NoRound},
           SetSegmentState(i, c, s, r)
    PROVE  segs' \in [SegKey -> Segment]
BY DEF SetSegmentState, Segment, SegKey

\* So does the mark of claim_unexpanded_alive_segments.
LEMMA MarkExpandedType ==
    ASSUME segs \in [SegKey -> Segment], NEW ks, NEW r \in Round \cup {NoRound},
           MarkExpanded(ks, r)
    PROVE  segs' \in [SegKey -> Segment]
BY DEF MarkExpanded, Segment

\* The current round is a running round, if there is one.
LEMMA CurrentRoundType ==
    ASSUME running \subseteq 1 .. started, running \subseteq {started}, started \in Nat
    PROVE  /\ CurrentRound \in (1 .. started) \cup {NoRound}
           /\ running \subseteq {CurrentRound}
<1>1. CASE running = {}
  BY <1>1 DEF CurrentRound
<1>2. CASE running = {started}
  <2>1. CurrentRound = started
    BY <1>2 DEF CurrentRound
  <2> QED BY <1>2, <2>1
<1> QED BY <1>1, <1>2

----------------------------------------------------------------------------
(* Types of the records that hold a handler's and a job's local state *)

LEMMA IdleType == Idle \in Request
BY StorageAssumption DEF Idle, Request

LEMMA IdleJobType == IdleJob \in Job
BY DEF IdleJob, Job

\* Fields of a job's record are replaced by values of their sets.
LEMMA JobReadsSegs ==
    ASSUME NEW rec \in Job,
           NEW pc \in {"idle", "left", "finish", "create", "silent", "enqueue",
                       "claim", "expand", "collect", "trace",
                       "pick", "filter", "cleanup", "current", "pending", "total"},
           NEW todo \in SUBSET Isp, NEW cur \in SUBSET Isp, NEW ks \in SUBSET SegKey
    PROVE  [rec EXCEPT !.pc = pc, !.cur = cur, !.todo = todo, !.segs = ks] \in Job
BY DEF Job

LEMMA JobReadsIps ==
    ASSUME NEW rec \in Job,
           NEW pc \in {"idle", "left", "finish", "create", "silent", "enqueue",
                       "claim", "expand", "collect", "trace",
                       "pick", "filter", "cleanup", "current", "pending", "total"},
           NEW todo \in SUBSET Isp, NEW cur \in SUBSET Isp, NEW ips \in SUBSET Ip
    PROVE  [rec EXCEPT !.pc = pc, !.cur = cur, !.todo = todo, !.ips = ips] \in Job
BY DEF Job

LEMMA JobHasTargets ==
    ASSUME NEW rec \in Job,
           NEW pc \in {"idle", "left", "finish", "create", "silent", "enqueue",
                       "claim", "expand", "collect", "trace",
                       "pick", "filter", "cleanup", "current", "pending", "total"},
           NEW cur \in SUBSET Isp, NEW ips \in SUBSET Ip
    PROVE  [rec EXCEPT !.pc = pc, !.cur = cur, !.ips = ips] \in Job
BY DEF Job

LEMMA JobKeepsIps ==
    ASSUME NEW rec \in Job,
           NEW pc \in {"idle", "left", "finish", "create", "silent", "enqueue",
                       "claim", "expand", "collect", "trace",
                       "pick", "filter", "cleanup", "current", "pending", "total"},
           NEW ips \in SUBSET Ip
    PROVE  [rec EXCEPT !.pc = pc, !.ips = ips] \in Job
BY DEF Job

\* The head of a handler's loop over segments.
LEMMA VisitingType ==
    ASSUME ReportsTypeOK, NEW h \in Handler, NEW cs \in SUBSET Seg
    PROVE  Visiting(h, cs) \in Request
<1>1. req[h] \in Request
  BY DEF ReportsTypeOK
<1> QED BY <1>1, IdleType DEF Visiting, Request

\* The head of a job's loop over operators.
LEMMA LoopType ==
    ASSUME SchedulerTypeOK, NEW j \in JobName,
           NEW pc \in {"silent", "expand", "pick"}
    PROVE  Loop(j, pc) \in Job
<1>1. job[j] \in Job
  BY DEF SchedulerTypeOK
<1> QED BY <1>1, IdleJobType DEF Loop, Job

\* A loop that goes on keeps its round.
LEMMA LoopRound ==
    ASSUME SchedulerTypeOK, NEW j \in JobName, NEW pc, Loop(j, pc).pc # "idle"
    PROVE  Loop(j, pc).round = job[j].round
<1>1. job[j] \in Job
  BY DEF SchedulerTypeOK
<1> QED BY <1>1 DEF Loop, Job, IdleJob

\* A step of one job changes that job's record only.
LEMMA GotoType ==
    ASSUME SchedulerTypeOK, NEW j \in JobName, NEW pc, NEW next \in Job, Goto(j, pc, next)
    PROVE  /\ job' \in [JobName -> Job]
           /\ job[j].pc = pc
           /\ job'[j] = next
           /\ \A k \in JobName \ {j} : job'[k] = job[k]
BY DEF Goto, SchedulerTypeOK
----------------------------------------------------------------------------
(* Type correctness *)

\* An agent's pull hands out rows of the queue.
LEMMA ClaimSetsType ==
    ASSUME TasksOK(tasks), NEW i, NEW n, NEW S \in ClaimSets(i, n)
    PROVE  S \subseteq Task
BY DEF ClaimSets, InState, TasksOK

\* The steps of agents and report handlers keep every type.
LEMMA ReportsStepType ==
    ASSUME StorageTypeOK, ReportsTypeOK, ReportsNext
    PROVE  StorageTypeOK' /\ ReportsTypeOK'
<1> USE DEF StorageTypeOK, ReportsTypeOK
<1>0. TasksOK(tasks)
  BY DEF TasksOK, TaskState
<1>1. ASSUME NEW a \in Agent, Pull(a) PROVE StorageTypeOK' /\ ReportsTypeOK'
  <2>1. PICK S \in ClaimSets(IspOf[a], BatchSize) :
           ClaimPending(S) /\ held' = [held EXCEPT ![a] = S]
    BY <1>1 DEF Pull
  <2>2. TasksOK(tasks')
    BY <1>0, <2>1, SetStateType DEF ClaimPending, TaskState
  <2>3. held' \in [Agent -> SUBSET Task]
    BY <1>0, <2>1, ClaimSetsType
  <2> QED BY <1>1, <2>2, <2>3 DEF Pull, TasksOK, TaskState
<1>2. ASSUME NEW a \in Agent, PullLost(a) PROVE StorageTypeOK' /\ ReportsTypeOK'
  <2>1. TasksOK(tasks')
    BY <1>0, <1>2, SetStateType DEF PullLost, ClaimPending, TaskState
  <2> QED BY <1>2, <2>1 DEF PullLost, TasksOK, TaskState
<1>3. ASSUME NEW a \in Agent, ReportLost(a) PROVE StorageTypeOK' /\ ReportsTypeOK'
  BY <1>3 DEF ReportLost, dbVars
<1>4. ASSUME NEW a \in Agent, NEW h \in Handler, Report(a, h)
      PROVE  StorageTypeOK' /\ ReportsTypeOK'
  <2> DEFINE known == held[a] \cap DOMAIN tasks
  <2>1. PICK ok \in SUBSET {t \in held[a] : t.stage \in Recorded}, r \in RoundChoices(known) :
           req' = [req EXCEPT ![h] =
                    [pc |-> "insert", isp |-> IspOf[a], batch |-> held[a], ok |-> ok,
                     known |-> known, round |-> r,
                     todo |-> {CidrOf[t.ip] : t \in {u \in known : u.stage = "sample"}},
                     cidrs |-> {}, full |-> FALSE]]
    BY <1>4 DEF Report
  <2>2. held[a] \subseteq Task
    OBVIOUS
  <2>3. r \in RoundId \cup {NoRound}
    BY <2>2 DEF RoundChoices, Task
  <2>4. {CidrOf[t.ip] : t \in {u \in known : u.stage = "sample"}} \subseteq Seg
    BY <2>2, StorageAssumption DEF Task
  <2>5. IspOf[a] \in Isp
    BY ReportsAssumption
  <2>6. req' \in [Handler -> Request]
    BY <2>1, <2>2, <2>3, <2>4, <2>5 DEF Request
  <2> QED BY <1>4, <2>6 DEF Report, dbVars
<1>5. ASSUME NEW h \in Handler, InsertResults(h) PROVE StorageTypeOK' /\ ReportsTypeOK'
  <2>1. req[h] \in Request
    OBVIOUS
  <2>2. InsertedProbes(h) \subseteq Probe
    BY <2>1 DEF InsertedProbes, ProbeOf, Request, Task, Probe
  <2>3. req' \in [Handler -> Request]
    BY <1>5, <2>1 DEF InsertResults, Request
  <2> QED BY <1>5, <2>2, <2>3 DEF InsertResults
<1>6. ASSUME NEW h \in Handler, MarkBatchDone(h) PROVE StorageTypeOK' /\ ReportsTypeOK'
  <2>1. TasksOK(tasks')
    BY <1>0, <1>6, SetStateType DEF MarkBatchDone, MarkDone, TaskState
  <2>2. (IF req[h].round = NoRound THEN {} ELSE req[h].todo) \subseteq Seg
    BY DEF Request
  <2>3. req' \in [Handler -> Request]
    BY <1>6, <2>2, VisitingType DEF MarkBatchDone
  <2> QED BY <1>6, <2>1, <2>3 DEF MarkBatchDone, TasksOK, TaskState
<1>7. ASSUME NEW h \in Handler, ReadProgress(h) PROVE StorageTypeOK' /\ ReportsTypeOK'
  <2>1. req[h] \in Request
    OBVIOUS
  <2>2. PICK c \in req[h].todo :
           LET rows == SampleTasks(req[h].isp, c, req[h].round) IN
           req' = [req EXCEPT ![h] =
                     IF rows = {} THEN Visiting(h, req[h].todo \ {c})
                     ELSE [req[h] EXCEPT !.pc = "summary", !.cidrs = {c},
                                         !.full = rows \subseteq InState("done")]]
    BY <1>7 DEF ReadProgress
  <2>3. Visiting(h, req[h].todo \ {c}) \in Request
    BY <2>1, VisitingType DEF Request
  <2>4. c \in Seg
    BY <2>1, <2>2 DEF Request
  <2>5. \A b \in BOOLEAN :
           [req[h] EXCEPT !.pc = "summary", !.cidrs = {c}, !.full = b] \in Request
    BY <2>1, <2>4 DEF Request
  <2>6. req' \in [Handler -> Request]
    BY <2>2, <2>3, <2>5
  <2> QED BY <1>7, <2>6 DEF ReadProgress, dbVars
<1>8. ASSUME NEW h \in Handler, ReadSummary(h) PROVE StorageTypeOK' /\ ReportsTypeOK'
  <2>1. req[h] \in Request
    OBVIOUS
  <2>2. PICK c \in req[h].cidrs :
           req' = [req EXCEPT ![h] =
                     IF SampleHit(req[h].isp, c, req[h].round)
                     THEN [req[h] EXCEPT !.pc = "alive", !.cidrs = {c}]
                     ELSE IF req[h].full THEN [req[h] EXCEPT !.pc = "silent", !.cidrs = {c}]
                     ELSE Visiting(h, req[h].todo \ {c})]
    BY <1>8 DEF ReadSummary
  <2>3. /\ Visiting(h, req[h].todo \ {c}) \in Request
        /\ [req[h] EXCEPT !.pc = "alive", !.cidrs = {c}] \in Request
        /\ [req[h] EXCEPT !.pc = "silent", !.cidrs = {c}] \in Request
    <3>1. Visiting(h, req[h].todo \ {c}) \in Request
      BY <2>1, VisitingType DEF Request
    <3>2. c \in Seg
      BY <2>1, <2>2 DEF Request
    <3> QED BY <2>1, <3>1, <3>2 DEF Request
  <2>4. req' \in [Handler -> Request]
    BY <2>2, <2>3
  <2> QED BY <1>8, <2>4 DEF ReadSummary, dbVars
<1>9. ASSUME NEW h \in Handler, WriteVerdict(h) PROVE StorageTypeOK' /\ ReportsTypeOK'
  <2>1. req[h] \in Request
    OBVIOUS
  <2>2. PICK c \in req[h].cidrs :
           /\ SetSegmentState(req[h].isp, c, req[h].pc, req[h].round)
           /\ req' = [req EXCEPT ![h] = Visiting(h, req[h].todo \ {c})]
    BY <1>9 DEF WriteVerdict
  <2>3. /\ req[h].isp \in Isp /\ c \in Seg
        /\ req[h].pc \in {"alive", "silent"} /\ req[h].round \in RoundId \cup {NoRound}
    BY <1>9, <2>1, <2>2 DEF WriteVerdict, Request
  <2>4. segs' \in [SegKey -> Segment]
    BY <2>2, <2>3, SetSegmentType
  <2>5. Visiting(h, req[h].todo \ {c}) \in Request
    BY <2>1, VisitingType DEF Request
  <2>6. req' \in [Handler -> Request]
    BY <2>2, <2>5
  <2> QED BY <1>9, <2>4, <2>6 DEF WriteVerdict
<1> QED
  BY <1>1, <1>2, <1>3, <1>4, <1>5, <1>6, <1>7, <1>8, <1>9
  DEF ReportsNext, AgentStep, HandlerStep

\* The steps of the scheduler's jobs keep every type, and each job knows its round
\* by the time it writes for it.
LEMMA SchedulerStepType ==
    ASSUME StorageTypeOK, SchedulerTypeOK, RoundsInv, JobsHaveRounds, SchedulerNext
    PROVE  StorageTypeOK' /\ SchedulerTypeOK' /\ JobsHaveRounds'
<1> DEFINE sj == job["sample_round"]
           pj == job["process_results"]
           vj == job["speed_round"]
           hj == job["housekeeping"]
           Goal == StorageTypeOK' /\ SchedulerTypeOK' /\ JobsHaveRounds'
<1>0. TasksOK(tasks)
  BY DEF TasksOK, TaskState, StorageTypeOK
<1>j. /\ \A j \in JobName : job[j] \in Job
      /\ "sample_round" \in JobName /\ "process_results" \in JobName
      /\ "speed_round" \in JobName /\ "housekeeping" \in JobName
  BY DEF SchedulerTypeOK, JobName
<1>c. /\ CurrentRound \in (1 .. started) \cup {NoRound}
      /\ CurrentRound \in Round \cup {NoRound}
  BY CurrentRoundType DEF StorageTypeOK, RoundsInv, Round, NoRound
<1>r. 1 .. started \subseteq Round /\ Round \subseteq RoundId
  BY DEF StorageTypeOK, Round, RoundId, NoRound
\* A job has to continue as a legal record that knows its round.
<1>q. ASSUME NEW j \in JobName, NEW pc, NEW next \in Job, Goto(j, pc, next),
             StorageTypeOK', speeds' \in Nat, started' \in {started, started + 1},
             j = "sample_round" /\ next.pc \in {"silent", "enqueue"} => next.round \in 1 .. started',
             j = "process_results" /\ next.pc # "idle" => next.round \in 1 .. started,
             j = "speed_round" /\ next.pc # "idle" => next.round # NoRound
      PROVE  Goal
  <2>1. job' \in [JobName -> Job] /\ job'[j] = next /\ \A k \in JobName \ {j} : job'[k] = job[k]
    BY <1>q, GotoType
  <2>2. SchedulerTypeOK'
    BY <1>q, <2>1 DEF SchedulerTypeOK
  <2>3. 1 .. started \subseteq 1 .. started'
    BY <1>q DEF StorageTypeOK
  <2>4. JobsHaveRounds'
    BY <1>q, <1>j, <2>1, <2>3 DEF JobsHaveRounds
  <2> QED BY <1>q, <2>2, <2>4
<1>u. UNCHANGED dbVars => StorageTypeOK' /\ started' = started
  BY DEF StorageTypeOK, dbVars
<1>v. ASSUME TasksOK(tasks'), seq' \in Nat, UNCHANGED <<started, running, segs, okProbes>>
      PROVE  StorageTypeOK'
  BY <1>v DEF StorageTypeOK, TasksOK, TaskState
<1>e. ASSUME NEW rows \in SUBSET Task, Enqueue(rows), UNCHANGED <<started, running, segs, okProbes>>
      PROVE  StorageTypeOK'
  BY <1>e, <1>v, <1>0, EnqueueType DEF StorageTypeOK
<1>s. speeds \in Nat /\ started \in Nat
  BY DEF SchedulerTypeOK, StorageTypeOK
\* run_sample_round
<1>1. CASE SampleStart
  <2> DEFINE next == [IdleJob EXCEPT !.pc = IF CurrentRound = NoRound THEN "create" ELSE "left",
                                     !.round = CurrentRound]
  <2>1. next \in Job /\ next.pc \in {"create", "left"}
    BY <1>c DEF IdleJob, Job, RoundId
  <2> QED BY <1>1, <2>1, <1>q, <1>u, <1>s, <1>j DEF SampleStart
<1>2. CASE SampleLeft
  <2> DEFINE next == IF HasActive(sj.round) THEN IdleJob ELSE [sj EXCEPT !.pc = "finish"]
  <2>1. next \in Job /\ next.pc \in {"idle", "finish"}
    BY <1>j, IdleJobType DEF IdleJob, Job
  <2> QED BY <1>2, <2>1, <1>q, <1>u, <1>s, <1>j DEF SampleLeft
<1>3. CASE SampleFinish
  <2> DEFINE next == [sj EXCEPT !.pc = "create"]
  <2>1. next \in Job /\ next.pc = "create"
    BY <1>j DEF Job
  <2>2. StorageTypeOK' /\ started' = started
    BY <1>3 DEF SampleFinish, FinishRound, StorageTypeOK
  <2> QED BY <1>3, <2>1, <2>2, <1>q, <1>s, <1>j DEF SampleFinish
<1>4. CASE SampleCreate
  <2> DEFINE next == [IdleJob EXCEPT !.pc = "silent", !.round = started + 1, !.todo = Isp]
  <2>1. started + 1 \in RoundId
    BY <1>s DEF RoundId, Round, NoRound
  <2>2. next \in Job /\ next.round = started + 1
    BY <2>1 DEF IdleJob, Job
  <2>3. StorageTypeOK' /\ started' = started + 1 /\ speeds' = speeds
    BY <1>4 DEF SampleCreate, CreateRound, StorageTypeOK
  <2>4. Goto("sample_round", "create", next)
    BY <1>4 DEF SampleCreate
  <2>5. next.round \in 1 .. started'
    BY <1>s, <2>2, <2>3
  <2> HIDE DEF next
  <2> QED BY <2>2, <2>3, <2>4, <2>5, <1>q, <1>s, <1>j
<1>5. CASE SampleSilent
  <2>1. PICK i \in sj.todo :
           Goto("sample_round", "silent",
                [sj EXCEPT !.pc = "enqueue", !.cur = {i}, !.todo = @ \ {i},
                           !.segs = {i} \X SilentSegments(i)])
    BY <1>5 DEF SampleSilent
  <2> DEFINE next == [sj EXCEPT !.pc = "enqueue", !.cur = {i}, !.todo = @ \ {i},
                                !.segs = {i} \X SilentSegments(i)]
  <2>2. i \in Isp /\ {i} \X SilentSegments(i) \subseteq SegKey
    BY <1>j DEF Job, SilentSegments, SegKey
  <2>3. next \in Job /\ next.round = sj.round
    <3>1. sj.todo \ {i} \in SUBSET Isp /\ {i} \in SUBSET Isp
      BY <1>j, <2>2 DEF Job
    <3>2. next \in Job
      BY <1>j, <2>2, <3>1, JobReadsSegs
    <3> QED BY <1>j, <3>2 DEF Job
  <2>4. sj.round \in 1 .. started
    BY <2>1 DEF JobsHaveRounds, Goto
  <2> HIDE DEF next
  <2> QED BY <1>5, <2>1, <2>3, <2>4, <1>q, <1>u, <1>s, <1>j DEF SampleSilent, next
<1>6. CASE SampleEnqueue
  <2>1. PICK i \in sj.cur :
           /\ Goto("sample_round", "enqueue", [Loop("sample_round", "silent") EXCEPT !.segs = {}])
           /\ Enqueue(SampleRows(i))
    BY <1>6 DEF SampleEnqueue
  <2> DEFINE next == [Loop("sample_round", "silent") EXCEPT !.segs = {}]
  <2>2. sj.round \in 1 .. started
    BY <2>1 DEF JobsHaveRounds, Goto
  <2>3. next.pc # "idle" => next.round = sj.round
    BY <1>j DEF Loop, Job, IdleJob
  <2>4. next \in Job
    BY <1>j, LoopType DEF Job
  <2>5. i \in Isp
    BY <1>j DEF Job
  <2>6. SampleRows(i) \subseteq Task
    BY <2>2, <2>5, <1>r, NewTasksType, StorageAssumption DEF SampleRows, StorageTypeOK, Stage
  <2>7. StorageTypeOK'
    BY <1>6, <2>1, <2>6, <1>e DEF SampleEnqueue
  <2> HIDE DEF next
  <2>8. started' = started /\ speeds' = speeds
    BY <1>6 DEF SampleEnqueue
  <2>9. Goto("sample_round", "enqueue", next)
    BY <2>1 DEF next
  <2>10. next.pc \in {"silent", "enqueue"} => next.round \in 1 .. started'
    BY <2>2, <2>3, <2>4, <2>8
  <2> QED BY <2>4, <2>7, <2>8, <2>9, <2>10, <1>q, <1>s, <1>j
\* run_process_results
<1>7. CASE ProcessStart
  <2> DEFINE next == [IdleJob EXCEPT !.pc = "claim", !.round = CurrentRound]
  <2>1. CurrentRound \in 1 .. started
    BY <1>7, <1>c DEF ProcessStart
  <2>2. next \in Job /\ next.round = CurrentRound
    BY <1>c DEF IdleJob, Job, RoundId
  <2> HIDE DEF next
  <2>3. Goto("process_results", "idle", next) /\ UNCHANGED <<dbVars, speeds>>
    BY <1>7 DEF ProcessStart, next
  <2> QED BY <2>1, <2>2, <2>3, <1>q, <1>u, <1>s, <1>j
<1>8. CASE ProcessClaim
  <2>1. PICK ks \in ClaimableSets(pj.round, ClaimLimit) :
           /\ Goto("process_results", "claim",
                IF ks = {} THEN IdleJob
                ELSE [pj EXCEPT !.pc = "expand", !.segs = ks, !.todo = {k[1] : k \in ks}])
           /\ MarkExpanded(ks, pj.round)
    BY <1>8 DEF ProcessClaim
  <2> DEFINE next == IF ks = {} THEN IdleJob
                     ELSE [pj EXCEPT !.pc = "expand", !.segs = ks, !.todo = {k[1] : k \in ks}]
  <2>2. ks \subseteq SegKey /\ {k[1] : k \in ks} \subseteq Isp
    BY DEF ClaimableSets, Unexpanded, SegKey
  <2>3. pj.round \in 1 .. started
    BY <2>1 DEF JobsHaveRounds, Goto
  <2>4. next \in Job
    BY <1>j, <2>2, IdleJobType DEF Job
  <2>5. next.pc # "idle" => next.round = pj.round
    BY <1>j DEF IdleJob, Job
  <2>6. segs' \in [SegKey -> Segment]
    BY <2>1, <2>3, <1>r, MarkExpandedType DEF StorageTypeOK
  <2>7. StorageTypeOK' /\ started' = started /\ speeds' = speeds
    BY <1>8, <2>6 DEF ProcessClaim, StorageTypeOK
  <2> HIDE DEF next
  <2>8. Goto("process_results", "claim", next)
    BY <2>1 DEF next
  <2> QED BY <2>3, <2>4, <2>5, <2>7, <2>8, <1>q, <1>s, <1>j
<1>9. CASE ProcessExpand
  <2>1. PICK i \in pj.todo :
           /\ Goto("process_results", "expand",
                [pj EXCEPT !.pc = "collect", !.cur = {i}, !.todo = @ \ {i}])
           /\ Enqueue(ExpandRows(i))
    BY <1>9 DEF ProcessExpand
  <2> DEFINE next == [pj EXCEPT !.pc = "collect", !.cur = {i}, !.todo = @ \ {i}]
  <2>2. pj.round \in 1 .. started
    BY <2>1 DEF JobsHaveRounds, Goto
  <2>3. i \in Isp
    BY <1>j DEF Job
  <2>4. next \in Job /\ next.round = pj.round
    BY <1>j, <2>3 DEF Job
  <2>5. ExpandRows(i) \subseteq Task
    BY <2>2, <2>3, <1>r, NewTasksType DEF ExpandRows, StorageTypeOK, Stage
  <2>6. StorageTypeOK' /\ started' = started /\ speeds' = speeds
    BY <1>9, <2>1, <2>5, <1>e DEF ProcessExpand
  <2> HIDE DEF next
  <2>7. Goto("process_results", "expand", next)
    BY <2>1 DEF next
  <2> QED BY <2>2, <2>4, <2>6, <2>7, <1>q, <1>s, <1>j
<1>10. CASE ProcessCollect
  <2>1. PICK i \in pj.cur :
           Goto("process_results", "collect",
                IF SampleOkIps(i, ClaimedOf(i), pj.round) = {} THEN Loop("process_results", "expand")
                ELSE [pj EXCEPT !.pc = "trace", !.cur = {i}, !.ips = SampleOkIps(i, ClaimedOf(i), pj.round)])
    BY <1>10 DEF ProcessCollect
  <2> DEFINE next == IF SampleOkIps(i, ClaimedOf(i), pj.round) = {}
                     THEN Loop("process_results", "expand")
                     ELSE [pj EXCEPT !.pc = "trace", !.cur = {i}, !.ips = SampleOkIps(i, ClaimedOf(i), pj.round)]
  <2>2. pj.round \in 1 .. started
    BY <2>1 DEF JobsHaveRounds, Goto
  <2>3. SampleOkIps(i, ClaimedOf(i), pj.round) \subseteq Ip /\ i \in Isp
    BY <1>j DEF SampleOkIps, Job
  <2>4. next \in Job
    <3>1. Loop("process_results", "expand") \in Job
      BY <1>j, LoopType
    <3>2. [pj EXCEPT !.pc = "trace", !.cur = {i}, !.ips = SampleOkIps(i, ClaimedOf(i), pj.round)] \in Job
      <4>1. {i} \in SUBSET Isp
        BY <2>3
      <4> QED BY <1>j, <2>3, <4>1, JobHasTargets
    <3> QED BY <3>1, <3>2
  <2>5. next.pc # "idle" => next.round = pj.round
    <3>1. Loop("process_results", "expand").pc # "idle"
             => Loop("process_results", "expand").round = pj.round
      BY <1>j, LoopRound
    <3>2. [pj EXCEPT !.pc = "trace", !.cur = {i}, !.ips = SampleOkIps(i, ClaimedOf(i), pj.round)].round = pj.round
      BY <1>j DEF Job
    <3> QED BY <3>1, <3>2
  <2> HIDE DEF next
  <2>6. Goto("process_results", "collect", next) /\ UNCHANGED <<dbVars, speeds>>
    BY <1>10, <2>1 DEF ProcessCollect, next
  <2> QED BY <2>2, <2>4, <2>5, <2>6, <1>q, <1>u, <1>s, <1>j
<1>11. CASE ProcessTrace
  <2>1. PICK i \in pj.cur :
           /\ Goto("process_results", "trace", Loop("process_results", "expand"))
           /\ Enqueue(TraceRows(i))
    BY <1>11 DEF ProcessTrace
  <2>2. pj.round \in 1 .. started
    BY <2>1 DEF JobsHaveRounds, Goto
  <2>3. i \in Isp /\ pj.ips \subseteq Ip
    BY <1>j DEF Job
  <2>4. TraceRows(i) \subseteq Task
    BY <2>2, <2>3, <1>r, NewTasksType DEF TraceRows, StorageTypeOK, Stage
  <2>5. StorageTypeOK' /\ started' = started /\ speeds' = speeds
    BY <1>11, <2>1, <2>4, <1>e DEF ProcessTrace
  <2>6. Loop("process_results", "expand") \in Job
    BY <1>j, LoopType
  <2>7. Loop("process_results", "expand").pc # "idle"
           => Loop("process_results", "expand").round = pj.round
    BY <1>j DEF Loop, Job, IdleJob
  <2> QED BY <2>1, <2>2, <2>5, <2>6, <2>7, <1>q, <1>s, <1>j
\* run_speed_round
<1>12. CASE SpeedStart
  <2> DEFINE rd == IF CurrentRound = NoRound THEN AdHoc ELSE CurrentRound
             next == [IdleJob EXCEPT !.pc = "pick", !.todo = Isp, !.round = rd]
  <2>1. rd \in RoundId /\ rd # NoRound
    BY <1>c DEF RoundId, Round, AdHoc, NoRound
  <2>2. next \in Job /\ next.round = rd
    BY <2>1 DEF IdleJob, Job
  <2>3. Goto("speed_round", "idle", next) /\ UNCHANGED dbVars /\ speeds' = speeds + 1
    BY <1>12 DEF SpeedStart
  <2> HIDE DEF next, rd
  <2> QED BY <2>1, <2>2, <2>3, <1>q, <1>u, <1>s, <1>j
<1>13. CASE SpeedPick
  <2>0. PICK i \in vj.todo : \E cands \in SUBSET Traced(i) :
           Goto("speed_round", "pick",
                [vj EXCEPT !.pc = "filter", !.cur = {i}, !.todo = @ \ {i}, !.ips = cands])
    BY <1>13 DEF SpeedPick
  <2>1. PICK cands \in SUBSET Traced(i) :
           Goto("speed_round", "pick",
                [vj EXCEPT !.pc = "filter", !.cur = {i}, !.todo = @ \ {i}, !.ips = cands])
    BY <2>0
  <2> DEFINE next == [vj EXCEPT !.pc = "filter", !.cur = {i}, !.todo = @ \ {i}, !.ips = cands]
  <2>2. i \in Isp /\ cands \subseteq Ip
    BY <1>j DEF Job, Traced
  <2>3. next \in Job /\ next.round = vj.round
    <3>1. vj.todo \ {i} \in SUBSET Isp /\ {i} \in SUBSET Isp
      BY <1>j, <2>2 DEF Job
    <3>2. next \in Job
      BY <1>j, <2>2, <3>1, JobReadsIps
    <3> QED BY <1>j, <3>2 DEF Job
  <2>4. vj.round # NoRound
    BY <2>1 DEF JobsHaveRounds, Goto
  <2> HIDE DEF next
  <2>5. Goto("speed_round", "pick", next) /\ UNCHANGED <<dbVars, speeds>>
    BY <1>13, <2>1 DEF SpeedPick, next
  <2> QED BY <2>3, <2>4, <2>5, <1>q, <1>u, <1>s, <1>j
<1>14. CASE SpeedFilter
  <2>1. PICK i \in vj.cur :
           Goto("speed_round", "filter",
                IF WithoutActiveSpeed(i, vj.ips) = {} THEN Loop("speed_round", "pick")
                ELSE [vj EXCEPT !.pc = "enqueue", !.ips = WithoutActiveSpeed(i, vj.ips)])
    BY <1>14 DEF SpeedFilter
  <2> DEFINE next == IF WithoutActiveSpeed(i, vj.ips) = {} THEN Loop("speed_round", "pick")
                     ELSE [vj EXCEPT !.pc = "enqueue", !.ips = WithoutActiveSpeed(i, vj.ips)]
  <2>2. WithoutActiveSpeed(i, vj.ips) \subseteq Ip
    BY <1>j DEF WithoutActiveSpeed, Job
  <2>3. next \in Job
    <3>1. Loop("speed_round", "pick") \in Job
      BY <1>j, LoopType
    <3>2. [vj EXCEPT !.pc = "enqueue", !.ips = WithoutActiveSpeed(i, vj.ips)] \in Job
      BY <1>j, <2>2, JobKeepsIps
    <3> QED BY <3>1, <3>2
  <2>4. next.pc # "idle" => next.round = vj.round
    <3>1. Loop("speed_round", "pick").pc # "idle" => Loop("speed_round", "pick").round = vj.round
      BY <1>j, LoopRound
    <3>2. [vj EXCEPT !.pc = "enqueue", !.ips = WithoutActiveSpeed(i, vj.ips)].round = vj.round
      BY <1>j DEF Job
    <3> QED BY <3>1, <3>2
  <2>5. vj.round # NoRound
    BY <2>1 DEF JobsHaveRounds, Goto
  <2> HIDE DEF next
  <2>6. Goto("speed_round", "filter", next) /\ UNCHANGED <<dbVars, speeds>>
    BY <1>14, <2>1 DEF SpeedFilter, next
  <2> QED BY <2>3, <2>4, <2>5, <2>6, <1>q, <1>u, <1>s, <1>j
<1>15. CASE SpeedEnqueue
  <2>1. PICK i \in vj.cur :
           /\ Goto("speed_round", "enqueue", Loop("speed_round", "pick"))
           /\ Enqueue(SpeedRows(i))
    BY <1>15 DEF SpeedEnqueue
  <2>2. vj.round # NoRound
    BY <2>1 DEF JobsHaveRounds, Goto
  <2>3. i \in Isp /\ vj.ips \subseteq Ip /\ vj.round \in RoundId
    BY <1>j, <2>2 DEF Job
  <2>4. SpeedRows(i) \subseteq Task
    BY <2>3, NewTasksType DEF SpeedRows, StorageTypeOK, Stage
  <2>5. StorageTypeOK' /\ started' = started /\ speeds' = speeds
    BY <1>15, <2>1, <2>4, <1>e DEF SpeedEnqueue
  <2>6. Loop("speed_round", "pick") \in Job
    BY <1>j, LoopType
  <2>7. Loop("speed_round", "pick").pc # "idle" => Loop("speed_round", "pick").round = vj.round
    BY <1>j DEF Loop, Job, IdleJob
  <2> QED BY <2>1, <2>2, <2>5, <2>6, <2>7, <1>q, <1>s, <1>j
\* run_housekeeping
<1>16. CASE HousekeepingRequeue
  <2>1. PICK S : RequeueStale(S)
    BY <1>16 DEF HousekeepingRequeue
  <2>2. TasksOK(tasks')
    BY <1>0, <2>1, SetStateType DEF RequeueStale, TaskState
  <2>3. StorageTypeOK' /\ started' = started /\ speeds' = speeds
    BY <1>16, <2>2, <1>v DEF HousekeepingRequeue, StorageTypeOK
  <2> DEFINE next == [IdleJob EXCEPT !.pc = "cleanup"]
  <2>4. next \in Job
    BY IdleJobType DEF Job
  <2> QED BY <1>16, <2>3, <2>4, <1>q, <1>s, <1>j DEF HousekeepingRequeue
<1>17. CASE HousekeepingCleanup
  <2>1. PICK S : CleanupDone(S)
    BY <1>17 DEF HousekeepingCleanup
  <2>2. TasksOK(tasks')
    BY <1>0, <2>1, CleanupType
  <2>3. StorageTypeOK' /\ started' = started /\ speeds' = speeds
    BY <1>17, <2>2, <1>v DEF HousekeepingCleanup, StorageTypeOK
  <2> DEFINE next == [IdleJob EXCEPT !.pc = "current"]
  <2>4. next \in Job
    BY IdleJobType DEF Job
  <2> QED BY <1>17, <2>3, <2>4, <1>q, <1>s, <1>j DEF HousekeepingCleanup
<1>18. CASE HousekeepingCurrent
  <2> DEFINE next == IF CurrentRound = NoRound THEN IdleJob
                     ELSE [IdleJob EXCEPT !.pc = "pending", !.round = CurrentRound]
  <2>1. next \in Job
    BY <1>c, IdleJobType DEF IdleJob, Job, RoundId
  <2> QED BY <1>18, <2>1, <1>q, <1>u, <1>s, <1>j DEF HousekeepingCurrent
<1>19. CASE HousekeepingPending
  <2> DEFINE next == IF HasActive(hj.round) THEN IdleJob ELSE [hj EXCEPT !.pc = "total"]
  <2>1. next \in Job
    BY <1>j, IdleJobType DEF Job
  <2> QED BY <1>19, <2>1, <1>q, <1>u, <1>s, <1>j DEF HousekeepingPending
<1>20. CASE HousekeepingTotal
  <2> DEFINE next == IF RowsOf(hj.round) = {} THEN IdleJob ELSE [hj EXCEPT !.pc = "finish"]
  <2>1. next \in Job
    BY <1>j, IdleJobType DEF Job
  <2> QED BY <1>20, <2>1, <1>q, <1>u, <1>s, <1>j DEF HousekeepingTotal
<1>21. CASE HousekeepingFinish
  <2>1. StorageTypeOK' /\ started' = started /\ speeds' = speeds
    BY <1>21 DEF HousekeepingFinish, FinishRound, StorageTypeOK
  <2> QED BY <1>21, <2>1, IdleJobType, <1>q, <1>s, <1>j DEF HousekeepingFinish
<1> QED
  BY <1>1, <1>2, <1>3, <1>4, <1>5, <1>6, <1>7, <1>8, <1>9, <1>10, <1>11, <1>12, <1>13,
     <1>14, <1>15, <1>16, <1>17, <1>18, <1>19, <1>20, <1>21
  DEF SchedulerNext, SampleRound, ProcessResults, SpeedRound, Housekeeping

\* What a killed master leaves behind is well typed.
LEMMA WritePartType ==
    ASSUME StorageTypeOK, ReportsTypeOK, SchedulerTypeOK, JobsHaveRounds, WritePart
    PROVE  StorageTypeOK' /\ UNCHANGED <<started, running>>
<1>0. TasksOK(tasks)
  BY DEF TasksOK, TaskState, StorageTypeOK
<1>j. /\ \A j \in JobName : job[j] \in Job
      /\ "sample_round" \in JobName /\ "process_results" \in JobName /\ "speed_round" \in JobName
  BY DEF SchedulerTypeOK, JobName
<1>r. 1 .. started \subseteq Round /\ Round \subseteq RoundId
  BY DEF StorageTypeOK, Round, RoundId, NoRound
<1>1. CASE UNCHANGED dbVars
  BY <1>1 DEF dbVars, StorageTypeOK
<1>2. CASE /\ \E rows \in EnqueuesInProgress : \E part \in SUBSET rows : Enqueue(part)
           /\ UNCHANGED <<started, running, segs, okProbes>>
  <2>1. \A i \in job["sample_round"].cur :
           job["sample_round"].pc = "enqueue" => SampleRows(i) \subseteq Task
    BY <1>j, <1>r, NewTasksType, StorageAssumption
    DEF SampleRows, StorageTypeOK, Stage, JobsHaveRounds, Job
  <2>2. \A i \in job["process_results"].todo :
           job["process_results"].pc = "expand" => ExpandRows(i) \subseteq Task
    BY <1>j, <1>r, NewTasksType DEF ExpandRows, StorageTypeOK, Stage, JobsHaveRounds, Job
  <2>3. \A i \in job["process_results"].cur :
           job["process_results"].pc = "trace" => TraceRows(i) \subseteq Task
    BY <1>j, <1>r, NewTasksType DEF TraceRows, StorageTypeOK, Stage, JobsHaveRounds, Job
  <2>4. \A i \in job["speed_round"].cur :
           job["speed_round"].pc = "enqueue" => SpeedRows(i) \subseteq Task
    BY <1>j, <1>r, NewTasksType DEF SpeedRows, StorageTypeOK, Stage, JobsHaveRounds, Job
  <2>5. \A rows \in EnqueuesInProgress : rows \subseteq Task
    BY <2>1, <2>2, <2>3, <2>4 DEF EnqueuesInProgress
  <2>6. PICK part \in SUBSET Task : Enqueue(part)
    BY <1>2, <2>5
  <2>7. TasksOK(tasks') /\ seq' \in Nat
    BY <1>0, <2>6, EnqueueType DEF StorageTypeOK
  <2> QED BY <1>2, <2>7 DEF StorageTypeOK, TasksOK, TaskState
<1>3. CASE /\ job["process_results"].pc = "claim"
           /\ \E ks \in SUBSET Unexpanded(job["process_results"].round) :
                 /\ Cardinality(ks) <= ClaimLimit
                 /\ MarkExpanded(ks, job["process_results"].round)
           /\ UNCHANGED <<tasks, seq, started, running, okProbes>>
  <2>1. job["process_results"].round \in Round
    BY <1>3, <1>r DEF JobsHaveRounds
  <2>2. segs' \in [SegKey -> Segment]
    BY <1>3, <2>1, MarkExpandedType DEF StorageTypeOK
  <2> QED BY <1>3, <2>2 DEF StorageTypeOK
<1>4. CASE /\ \E h \in Handler :
                 /\ req[h].pc = "insert"
                 /\ \E part \in SUBSET InsertedProbes(h) : okProbes' = okProbes \cup part
           /\ UNCHANGED <<tasks, seq, started, running, segs>>
  <2>1. \A h \in Handler : InsertedProbes(h) \subseteq Probe
    BY DEF ReportsTypeOK, InsertedProbes, ProbeOf, Request, Task, Probe
  <2> QED BY <1>4, <2>1 DEF StorageTypeOK
<1> QED BY <1>1, <1>2, <1>3, <1>4 DEF WritePart

----------------------------------------------------------------------------
(* Rounds *)

TypeInv == TypeOK /\ RoundsInv /\ JobsHaveRounds

\* Steps that are not the scheduler's leave scan_round alone.
LEMMA ReportsFrame ==
    ASSUME ReportsNext
    PROVE  UNCHANGED <<started, running>>
BY DEF ReportsNext, AgentStep, HandlerStep, Pull, PullLost, ReportLost, Report, InsertResults,
       MarkBatchDone, ReadProgress, ReadSummary, WriteVerdict, dbVars

\* Of the scheduler's steps, three write scan_round.
LEMMA SchedulerFrame ==
    ASSUME SchedulerNext, ~SampleFinish, ~SampleCreate, ~HousekeepingFinish
    PROVE  UNCHANGED <<started, running>>
BY DEF SchedulerNext, SampleRound, ProcessResults, SpeedRound, Housekeeping, dbVars,
       SampleStart, SampleLeft, SampleSilent, SampleEnqueue, ProcessStart, ProcessClaim,
       ProcessExpand, ProcessCollect, ProcessTrace, SpeedStart, SpeedPick, SpeedFilter,
       SpeedEnqueue, HousekeepingRequeue, HousekeepingCleanup, HousekeepingCurrent,
       HousekeepingPending, HousekeepingTotal

\* Only sample_round's own steps move it.
LEMMA OtherJobsFrame ==
    ASSUME SchedulerTypeOK, ProcessResults \/ SpeedRound \/ Housekeeping
    PROVE  job'["sample_round"] = job["sample_round"]
BY DEF SchedulerTypeOK, JobName, ProcessResults, SpeedRound, Housekeeping, Goto,
       ProcessStart, ProcessClaim, ProcessExpand, ProcessCollect, ProcessTrace, SpeedStart,
       SpeedPick, SpeedFilter, SpeedEnqueue, HousekeepingRequeue, HousekeepingCleanup,
       HousekeepingCurrent, HousekeepingPending, HousekeepingTotal, HousekeepingFinish

\* At most the newest round runs, and none does when sample_round creates the next.
LEMMA RoundsStep ==
    ASSUME TypeInv, Next
    PROVE  RoundsInv'
<1> DEFINE sj == job["sample_round"]
<1> USE DEF TypeInv
<1>0. /\ running \subseteq 1 .. started /\ started \in Nat
      /\ sj \in Job /\ job \in [JobName -> Job] /\ "sample_round" \in JobName
  BY DEF TypeOK, StorageTypeOK, SchedulerTypeOK, JobName
<1>c. running \subseteq {CurrentRound}
  BY <1>0, CurrentRoundType DEF RoundsInv
<1>1. CASE UNCHANGED <<started, running>> /\ job'["sample_round"] = sj
  BY <1>1 DEF RoundsInv
<1>2. CASE SampleStart
  <2>1. /\ running' = running /\ started' = started
        /\ job'["sample_round"].pc \in {"create", "left"}
        /\ job'["sample_round"].round = CurrentRound
        /\ job'["sample_round"].pc = "create" => CurrentRound = NoRound
    BY <1>0, <1>2 DEF SampleStart, Goto, IdleJob, dbVars
  <2>2. CurrentRound = NoRound => running = {}
    BY <1>0, <1>c DEF NoRound
  <2> QED BY <2>1, <2>2, <1>c DEF RoundsInv
<1>3. CASE SampleLeft
  <2>1. /\ running' = running /\ started' = started /\ sj.pc = "left"
        /\ job'["sample_round"].pc \in {"idle", "finish"}
        /\ job'["sample_round"].pc = "finish" => job'["sample_round"].round = sj.round
    BY <1>0, <1>3 DEF SampleLeft, Goto, IdleJob, dbVars, Job
  <2> QED BY <2>1 DEF RoundsInv
<1>4. CASE SampleFinish
  <2>1. /\ running' = running \ {sj.round} /\ started' = started /\ sj.pc = "finish"
        /\ job'["sample_round"].pc = "create"
    BY <1>0, <1>4 DEF SampleFinish, FinishRound, Goto, Job
  <2> QED BY <2>1 DEF RoundsInv
<1>5. CASE SampleCreate
  <2>1. /\ running' = running \cup {started + 1} /\ started' = started + 1
        /\ sj.pc = "create" /\ job'["sample_round"].pc = "silent"
    BY <1>0, <1>5 DEF SampleCreate, CreateRound, Goto, IdleJob
  <2> QED BY <2>1 DEF RoundsInv
<1>6. CASE SampleSilent
  <2>1. /\ running' = running /\ started' = started /\ job'["sample_round"].pc = "enqueue"
    BY <1>0, <1>6 DEF SampleSilent, Goto, Job, dbVars
  <2> QED BY <2>1 DEF RoundsInv
<1>7. CASE SampleEnqueue
  <2>1. running' = running /\ started' = started
    BY <1>7 DEF SampleEnqueue
  <2> DEFINE next == [Loop("sample_round", "silent") EXCEPT !.segs = {}]
  <2>2. Loop("sample_round", "silent").pc \in {"idle", "silent"}
    <3>1. CASE sj.todo = {}
      BY <3>1 DEF Loop, IdleJob
    <3>2. CASE sj.todo # {}
      BY <1>0, <3>2 DEF Loop, Job
    <3> QED BY <3>1, <3>2
  <2>3. next.pc \in {"idle", "silent"}
    <3>1. Loop("sample_round", "silent") \in Job
      BY <1>0, LoopType DEF TypeOK
    <3> QED BY <2>2, <3>1 DEF Job
  <2>4. job'["sample_round"] = next
    BY <1>0, <1>7 DEF SampleEnqueue, Goto
  <2> QED BY <2>1, <2>3, <2>4 DEF RoundsInv
<1>8. CASE HousekeepingFinish
  <2>1. running' \subseteq running /\ started' = started
    BY <1>8 DEF HousekeepingFinish, FinishRound
  <2>2. job'["sample_round"] = sj
    BY <1>8, OtherJobsFrame DEF Housekeeping, TypeOK
  <2> QED BY <2>1, <2>2 DEF RoundsInv
<1>9. CASE Crash
  <2>1. running' = running /\ started' = started
    BY <1>9, WritePartType DEF Crash, TypeOK
  <2>2. job'["sample_round"].pc = "idle"
    BY <1>0, <1>9 DEF Crash, IdleJob
  <2> QED BY <2>1, <2>2 DEF RoundsInv
<1>10. CASE Expire
  BY <1>1, <1>10 DEF Expire, schedulerVars
<1>11. CASE ReportsNext /\ UNCHANGED <<schedulerVars, crashes>>
  BY <1>1, <1>11, ReportsFrame DEF schedulerVars
<1>12. CASE SchedulerNext
  <2>1. CASE ProcessResults \/ SpeedRound \/ (Housekeeping /\ ~HousekeepingFinish)
    <3>1. job'["sample_round"] = sj
      BY <2>1, OtherJobsFrame DEF TypeOK
    <3>2. UNCHANGED <<started, running>> \/ SampleFinish \/ SampleCreate \/ HousekeepingFinish
      BY <1>12, SchedulerFrame
    <3> QED BY <1>1, <1>4, <1>5, <1>8, <3>1, <3>2
  <2> QED
    BY <2>1, <1>2, <1>3, <1>4, <1>5, <1>6, <1>7, <1>8, <1>12 DEF SchedulerNext, SampleRound
<1> QED BY <1>9, <1>10, <1>11, <1>12 DEF Next

----------------------------------------------------------------------------
\* The joint invariant holds at first and is kept by every step.
LEMMA TypeInvInit == Init => TypeInv
<1> SUFFICES ASSUME Init PROVE TypeInv
  OBVIOUS
<1>1. StorageTypeOK
  BY DEF Init, StorageInit, StorageTypeOK, UnknownSegment, Segment, NoRound
<1>2. ReportsTypeOK
  BY IdleType DEF Init, ReportsInit, ReportsTypeOK
<1>3. SchedulerTypeOK
  BY IdleJobType DEF Init, SchedulerInit, SchedulerTypeOK
<1>4. RoundsInv /\ JobsHaveRounds
  BY DEF Init, SchedulerInit, StorageInit, RoundsInv, JobsHaveRounds, IdleJob, JobName
<1> QED BY <1>1, <1>2, <1>3, <1>4 DEF TypeInv, TypeOK, Init

LEMMA TypeInvStep == TypeInv /\ [Next]_vars => TypeInv'
<1> SUFFICES ASSUME TypeInv, [Next]_vars PROVE TypeInv'
  OBVIOUS
<1> USE DEF TypeInv, TypeOK
<1>1. CASE UNCHANGED vars
  BY <1>1 DEF vars, StorageTypeOK, ReportsTypeOK, SchedulerTypeOK, RoundsInv, JobsHaveRounds
<1>2. CASE ReportsNext /\ UNCHANGED <<schedulerVars, crashes>>
  <2>1. StorageTypeOK' /\ ReportsTypeOK'
    BY <1>2, ReportsStepType
  <2>2. SchedulerTypeOK' /\ crashes' \in Nat
    BY <1>2 DEF schedulerVars, SchedulerTypeOK
  <2>3. JobsHaveRounds'
    BY <1>2, ReportsFrame DEF schedulerVars, JobsHaveRounds
  <2> QED BY <1>2, <2>1, <2>2, <2>3, RoundsStep DEF Next
<1>3. CASE SchedulerNext /\ UNCHANGED <<reportVars, crashes>>
  <2>1. StorageTypeOK' /\ SchedulerTypeOK' /\ JobsHaveRounds'
    BY <1>3, SchedulerStepType
  <2>2. ReportsTypeOK' /\ crashes' \in Nat
    BY <1>3 DEF reportVars, ReportsTypeOK
  <2> QED BY <1>3, <2>1, <2>2, RoundsStep DEF Next
<1>4. CASE Expire
  <2>1. segs' \in [SegKey -> Segment]
    <3>1. PICK k \in SegKey : ExpireSegment(k)
      BY <1>4 DEF Expire
    <3>2. segs \in [SegKey -> Segment] /\ segs[k] \in Segment
      BY <3>1 DEF StorageTypeOK
    <3>3. [segs[k] EXCEPT !.fresh = FALSE] \in Segment
      BY <3>2 DEF Segment
    <3>4. segs' = [segs EXCEPT ![k] = [segs[k] EXCEPT !.fresh = FALSE]]
      BY <3>1, <3>2 DEF ExpireSegment
    <3> HIDE DEF Segment
    <3> QED BY <3>2, <3>3, <3>4
  <2>2. StorageTypeOK' /\ ReportsTypeOK' /\ SchedulerTypeOK' /\ crashes' \in Nat
    BY <1>4, <2>1 DEF Expire, StorageTypeOK, ReportsTypeOK, SchedulerTypeOK, reportVars,
                      schedulerVars
  <2>3. JobsHaveRounds'
    BY <1>4 DEF Expire, schedulerVars, JobsHaveRounds
  <2> QED BY <1>4, <2>2, <2>3, RoundsStep DEF Next
<1>5. CASE Crash
  <2>1. StorageTypeOK'
    BY <1>5, WritePartType DEF Crash
  <2>2. ReportsTypeOK' /\ SchedulerTypeOK' /\ crashes' \in Nat
    BY <1>5, IdleType, IdleJobType DEF Crash, ReportsTypeOK, SchedulerTypeOK
  <2>3. JobsHaveRounds'
    BY <1>5 DEF Crash, JobsHaveRounds, IdleJob, JobName
  <2> QED BY <1>5, <2>1, <2>2, <2>3, RoundsStep DEF Next
<1> QED BY <1>1, <1>2, <1>3, <1>4, <1>5 DEF Next

\* Joint invariant of the whole system.
LEMMA TypeInvInvariant == Spec => []TypeInv
BY TypeInvInit, TypeInvStep, PTL DEF Spec

\* Every variable keeps its type: in particular no task ever gets a state outside
\* pending, assigned, done and no row of a table names an unknown round.
THEOREM TypeCorrect == Spec => []TypeOK
BY TypeInvInvariant, PTL DEF TypeInv

\* Rounds never overlap: each starts only when the one before is finished, and a
\* finished round stays finished, across interleavings and restarts.
THEOREM RoundsRefine == Spec => RoundsAreSequential
<1>1. Init => Rounds!RLInit
  BY DEF Init, StorageInit, Rounds!RLInit
<1>2. TypeInv /\ [Next]_vars => [Rounds!RLNext]_<<started, running>>
  <2> SUFFICES ASSUME TypeInv, [Next]_vars, ~UNCHANGED <<started, running>>
               PROVE  Rounds!RLNext
    OBVIOUS
  <2> USE DEF TypeInv, TypeOK
  <2>1. SampleFinish \/ SampleCreate \/ HousekeepingFinish
    BY ReportsFrame, SchedulerFrame, WritePartType DEF Next, Crash, Expire, vars
  <2>2. CASE SampleCreate
    BY <2>2 DEF SampleCreate, CreateRound, Goto, RoundsInv, Rounds!RLNext, Rounds!Start
  <2>3. ASSUME NEW r, FinishRound(r), UNCHANGED started PROVE Rounds!RLNext
    BY <2>3 DEF FinishRound, RoundsInv, Rounds!RLNext, Rounds!Finish
  <2> QED BY <2>1, <2>2, <2>3 DEF SampleFinish, HousekeepingFinish
<1> QED BY <1>1, <1>2, TypeInvInvariant, PTL DEF Spec, RoundsAreSequential, Rounds!RLSpec
=============================================================================
