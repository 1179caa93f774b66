----------------------------- MODULE ExpandProofs -----------------------------
(* No address is given two expand tasks in one round. *)
EXTENDS SafetyProofs

----------------------------------------------------------------------------
(* Which steps touch what ExpandInv speaks of *)

\* Expand rows come from process_results' own enqueue, or the part of it that a
\* kill left behind.
LEMMA ExpandRowsStep ==
    ASSUME Next, NEW t \in DOMAIN tasks' \ DOMAIN tasks, t.stage = "expand"
    PROVE  /\ \/ Crash
              \/ \E i \in job["process_results"].todo :
                    /\ Goto("process_results", "expand",
                            [job["process_results"] EXCEPT !.pc = "collect", !.cur = {i},
                                                           !.todo = @ \ {i}])
                    /\ t.isp = i
           /\ t \in ExpandRows(t.isp)
           /\ job["process_results"].pc = "expand"
           /\ t.isp \in job["process_results"].todo
<1>r. ASSUME NEW r, NEW i, NEW stage, NEW ips, t \in NewTasks(r, i, stage, ips)
      PROVE  t.stage = stage /\ t.isp = i
  BY <1>r DEF NewTasks
<1>x. \A i : t \notin SampleRows(i) /\ t \notin TraceRows(i) /\ t \notin SpeedRows(i)
  <2>1. \A r, i, stage, ips : t \in NewTasks(r, i, stage, ips) => stage = "expand"
    BY <1>r
  <2> QED BY <2>1 DEF SampleRows, TraceRows, SpeedRows
<1>1. CASE ReportsNext
  BY <1>1 DEF ReportsNext, AgentStep, HandlerStep, Pull, PullLost, ReportLost, Report,
              InsertResults, MarkBatchDone, ReadProgress, ReadSummary, WriteVerdict, dbVars,
              ClaimPending, MarkDone, SetState
<1>2. CASE SampleEnqueue \/ ProcessTrace \/ SpeedEnqueue
  BY <1>2, <1>x DEF SampleEnqueue, ProcessTrace, SpeedEnqueue, Enqueue
<1>3. CASE ProcessExpand
  <2>1. PICK i \in job["process_results"].todo :
           /\ Goto("process_results", "expand",
                   [job["process_results"] EXCEPT !.pc = "collect", !.cur = {i}, !.todo = @ \ {i}])
           /\ Enqueue(ExpandRows(i))
    BY <1>3 DEF ProcessExpand
  <2>2. t \in ExpandRows(i)
    BY <2>1 DEF Enqueue
  <2>3. t.isp = i
    BY <2>2, <1>r DEF ExpandRows
  <2> QED BY <2>1, <2>2, <2>3 DEF Goto
<1>4. CASE SchedulerNext /\ ~SampleEnqueue /\ ~ProcessExpand /\ ~ProcessTrace /\ ~SpeedEnqueue
  BY <1>4
  DEF SchedulerNext, SampleRound, ProcessResults, SpeedRound, Housekeeping, dbVars,
      SampleStart, SampleLeft, SampleFinish, SampleCreate, SampleSilent,
      ProcessStart, ProcessClaim, ProcessCollect, SpeedStart, SpeedPick, SpeedFilter,
      HousekeepingRequeue, HousekeepingCleanup, HousekeepingCurrent, HousekeepingPending,
      HousekeepingTotal, HousekeepingFinish, RequeueStale, SetState, CleanupDone
<1>5. CASE Expire
  BY <1>5 DEF Expire
<1>6. CASE Crash
  <2>1. PICK rows \in EnqueuesInProgress : \E part \in SUBSET rows : Enqueue(part)
    BY <1>6 DEF Crash, WritePart, dbVars
  <2>2. t \in rows
    BY <2>1 DEF Enqueue
  <2>3. job["process_results"].pc = "expand" /\ t.isp \in job["process_results"].todo
    BY <2>2, NewRows
  <2>4. CASE \E i \in job["process_results"].todo : rows = ExpandRows(i)
    <3>1. PICK i \in job["process_results"].todo : t \in ExpandRows(i)
      BY <2>2, <2>4
    <3>2. t.isp = i
      BY <3>1, <1>r DEF ExpandRows
    <3> QED BY <1>6, <2>3, <3>1, <3>2
  <2>5. CASE \/ \E i \in job["sample_round"].cur : rows = SampleRows(i)
             \/ \E i \in job["process_results"].cur : rows = TraceRows(i)
             \/ \E i \in job["speed_round"].cur : rows = SpeedRows(i)
    BY <2>2, <2>5, <1>x
  <2> QED BY <2>4, <2>5 DEF EnqueuesInProgress
<1> QED BY <1>1, <1>2, <1>3, <1>4, <1>5, <1>6 DEF Next

\* Only a claim marks a segment as expanded.
LEMMA ExpandedStep ==
    ASSUME TypeInv, Next
    PROVE  \/ \A k \in SegKey : segs'[k].expanded = segs[k].expanded
           \/ /\ job["process_results"].pc = "claim"
              /\ ProcessClaim \/ Crash
              /\ \E ks \in SUBSET Unexpanded(job["process_results"].round) :
                    MarkExpanded(ks, job["process_results"].round)
<1> USE DEF TypeInv, TypeOK
<1>t. segs \in [SegKey -> Segment] /\ req \in [Handler -> Request]
  BY DEF StorageTypeOK, ReportsTypeOK
<1>0. CASE segs' = segs
  BY <1>0
<1>1. ASSUME NEW h \in Handler, WriteVerdict(h)
      PROVE  \A k \in SegKey : segs'[k].expanded = segs[k].expanded
  <2>1. PICK c : segs' = [segs EXCEPT ![<<req[h].isp, c>>] =
                            [state |-> req[h].pc, sampled |-> req[h].round,
                             expanded |-> segs[<<req[h].isp, c>>].expanded, fresh |-> TRUE]]
    BY <1>1 DEF WriteVerdict, SetSegmentState
  <2> QED BY <1>t, <2>1
<1>2. ASSUME NEW k \in SegKey, ExpireSegment(k)
      PROVE  \A q \in SegKey : segs'[q].expanded = segs[q].expanded
  BY <1>t, <1>2 DEF ExpireSegment, Segment
<1>3. CASE ProcessClaim
  BY <1>3 DEF ProcessClaim, ClaimableSets, Goto
<1>4. CASE Crash
  BY <1>4, <1>0 DEF Crash, WritePart, dbVars
<1>5. CASE SchedulerNext /\ ~ProcessClaim
  BY <1>5, <1>0
  DEF SchedulerNext, SampleRound, ProcessResults, SpeedRound, Housekeeping, dbVars,
      SampleStart, SampleLeft, SampleFinish, SampleCreate, SampleSilent, SampleEnqueue,
      ProcessStart, ProcessExpand, ProcessCollect, ProcessTrace,
      SpeedStart, SpeedPick, SpeedFilter, SpeedEnqueue,
      HousekeepingRequeue, HousekeepingCleanup, HousekeepingCurrent, HousekeepingPending,
      HousekeepingTotal, HousekeepingFinish
<1>6. CASE ReportsNext
  BY <1>6, <1>0, <1>1
  DEF ReportsNext, AgentStep, HandlerStep, Pull, PullLost, ReportLost, Report,
      InsertResults, MarkBatchDone, ReadProgress, ReadSummary, dbVars
<1> QED BY <1>2, <1>3, <1>4, <1>5, <1>6 DEF Next, Expire

----------------------------------------------------------------------------
(* The parts of ExpandInv *)

\* A claim raises the mark of a segment, never past the newest round.
LEMMA MarksStep ==
    ASSUME TypeInv, ExpandInv, Next
    PROVE  MarksInv' /\ \A k \in SegKey : segs[k].expanded <= segs'[k].expanded
<1> DEFINE pj == job["process_results"]
<1> USE DEF TypeInv, TypeOK
<1>t. /\ \A k \in SegKey : segs[k] \in Segment /\ segs[k].expanded \in Nat
      /\ segs \in [SegKey -> Segment]
      /\ started \in Nat /\ pj \in Job /\ job \in [JobName -> Job]
      /\ "process_results" \in JobName
  BY DEF StorageTypeOK, SchedulerTypeOK, Segment, Round, NoRound, JobName
<1>s. started' \in {started, started + 1}
  <2>1. started' = started \/ SampleFinish \/ SampleCreate \/ HousekeepingFinish
    BY ReportsFrame, SchedulerFrame, WritePartType DEF Next, Crash, Expire
  <2> QED BY <2>1 DEF SampleFinish, SampleCreate, HousekeepingFinish, CreateRound
<1>1. CASE \A k \in SegKey : segs'[k].expanded = segs[k].expanded
  <2>1. /\ \A k \in SegKey : segs[k].expanded <= segs'[k].expanded
        /\ \A k \in SegKey : segs'[k].expanded <= started'
    BY <1>1, <1>t, <1>s DEF ExpandInv, MarksInv
  <2>2. ASSUME job'["process_results"].pc = "claim"
        PROVE  \A k \in SegKey : segs[k].expanded <= job'["process_results"].round
    <3>1. CASE job'["process_results"] = pj
      BY <2>2, <3>1 DEF ExpandInv, MarksInv
    <3>2. CASE ProcessStart
      <4>1. job'["process_results"].round = CurrentRound
        BY <3>2, <1>t DEF ProcessStart, Goto, IdleJob
      <4>2. CurrentRound = started
        BY <3>2 DEF ProcessStart, CurrentRound, RoundsInv, NoRound
      <4> QED BY <4>1, <4>2 DEF ExpandInv, MarksInv
    <3>3. CASE ProcessClaim
      BY <2>2, <3>3, <1>t DEF ProcessClaim, Goto, IdleJob, Job
    <3>4. CASE ProcessExpand
      BY <2>2, <3>4, <1>t DEF ProcessExpand, Goto, Job
    <3>5. CASE ProcessCollect \/ ProcessTrace
      <4>1. Loop("process_results", "expand").pc # "claim"
        BY <1>t, LoopSegs DEF IdleJob
      <4>2. \A i, v : [pj EXCEPT !.pc = "trace", !.cur = {i}, !.ips = v].pc = "trace"
        BY <1>t DEF Job
      <4>3. CASE ProcessTrace
        BY <2>2, <4>3, <4>1, <1>t DEF ProcessTrace, Goto
      <4>4. CASE ProcessCollect
        BY <2>2, <4>4, <4>1, <4>2, <1>t DEF ProcessCollect, Goto
      <4> QED BY <3>5, <4>3, <4>4
    <3>6. job'["process_results"] # IdleJob
      BY <2>2 DEF IdleJob
    <3> QED BY <3>1, <3>2, <3>3, <3>4, <3>5, <3>6, ProcessStep DEF ProcessResults
  <2> QED BY <1>1, <2>1, <2>2 DEF MarksInv
<1>2. ASSUME pj.pc = "claim", ProcessClaim \/ Crash,
             NEW ks \in SUBSET Unexpanded(pj.round), MarkExpanded(ks, pj.round)
      PROVE  /\ \A k \in SegKey : segs[k].expanded <= segs'[k].expanded
             /\ \A k \in SegKey : segs'[k].expanded <= started'
             /\ job'["process_results"].pc # "claim"
  <2>1. \A k \in SegKey : segs'[k].expanded \in {segs[k].expanded, pj.round}
    BY <1>2, <1>t DEF MarkExpanded, Segment
  <2>2. pj.round \in 1 .. started
    BY <1>2 DEF JobsHaveRounds
  <2>3. \A k \in SegKey : segs[k].expanded <= pj.round
    BY <1>2 DEF ExpandInv, MarksInv
  <2>4. job'["process_results"].pc # "claim"
    <3>1. IdleJob.pc # "claim"
      BY DEF IdleJob
    <3>2. CASE Crash
      BY <3>1, <3>2, <1>t DEF Crash
    <3>3. CASE ProcessClaim
      <4>1. \A s, o : [pj EXCEPT !.pc = "expand", !.segs = s, !.todo = o].pc = "expand"
        BY <1>t DEF Job
      <4> QED BY <3>1, <3>3, <4>1, <1>t DEF ProcessClaim, Goto
    <3> QED BY <1>2, <3>2, <3>3
  <2> QED BY <2>1, <2>2, <2>3, <2>4, <1>t, <1>s DEF ExpandInv, MarksInv
<1> QED BY <1>1, <1>2, ExpandedStep DEF MarksInv

\* Whatever expand row is new belongs to a claimed segment marked with its round.
LEMMA NewExpandRows ==
    ASSUME TypeInv, ExpandInv, Next, NEW t \in DOMAIN tasks' \ DOMAIN tasks, t.stage = "expand"
    PROVE  /\ <<t.isp, CidrOf[t.ip]>> \in job["process_results"].segs
           /\ t.round = job["process_results"].round
           /\ t.round = segs[<<t.isp, CidrOf[t.ip]>>].expanded
           /\ \A u \in DOMAIN tasks :
                 u.stage = "expand" /\ u.isp = t.isp /\ u.ip = t.ip => u.round < t.round
<1>1. /\ t \in ExpandRows(t.isp)
      /\ job["process_results"].pc = "expand" /\ t.isp \in job["process_results"].todo
  BY ExpandRowsStep
<1>2. CidrOf[t.ip] \in ClaimedOf(t.isp) /\ t.round = job["process_results"].round
  BY <1>1 DEF ExpandRows, NewTasks
<1>3. <<t.isp, CidrOf[t.ip]>> \in job["process_results"].segs
  BY <1>2, ClaimedOfRows DEF TypeInv, TypeOK
<1> DEFINE k == <<t.isp, CidrOf[t.ip]>>
<1>4. k[1] = t.isp
  OBVIOUS
<1> QED BY <1>1, <1>2, <1>3, <1>4 DEF ExpandInv, ClaimsUntouched

LEMMA TasksBehindStep ==
    ASSUME TypeInv, ExpandInv, Next
    PROVE  TasksBehindMarks'
<1>1. TasksOK(tasks')
  BY TypeInvStep DEF TypeInv, TypeOK, StorageTypeOK, TasksOK, TaskState
<1> SUFFICES ASSUME NEW t \in DOMAIN tasks', t.stage = "expand"
             PROVE  t.round <= segs'[<<t.isp, CidrOf[t.ip]>>].expanded
  BY DEF TasksBehindMarks
<1> DEFINE k == <<t.isp, CidrOf[t.ip]>>
<1>2. k \in SegKey /\ t.round \in Int
  BY <1>1, StorageAssumption DEF TasksOK, Task, SegKey, RoundId, Round, AdHoc
<1>3. /\ segs[k].expanded \in Nat /\ segs'[k].expanded \in Nat
      /\ segs[k].expanded <= segs'[k].expanded
  BY <1>2, MarksStep, TypeInvStep DEF TypeInv, TypeOK, StorageTypeOK, Segment, Round, NoRound
<1>4. t.round <= segs[k].expanded
  <2>1. CASE t \in DOMAIN tasks
    BY <2>1 DEF ExpandInv, TasksBehindMarks
  <2>2. CASE t \notin DOMAIN tasks
    BY <2>2, <1>2, NewExpandRows
  <2> QED BY <2>1, <2>2
<1> HIDE DEF k
<1>5. t.round <= segs'[k].expanded
  BY <1>2, <1>3, <1>4
<1> QED BY <1>5 DEF k

LEMMA ExpandOnceStep ==
    ASSUME TypeInv, ExpandInv, Next
    PROVE  ExpandOnce'
<1> SUFFICES ASSUME NEW t \in DOMAIN tasks', NEW u \in DOMAIN tasks',
                    t.stage = "expand", u.stage = "expand",
                    t.round = u.round, t.isp = u.isp, t.ip = u.ip
             PROVE  t = u
  BY DEF ExpandOnce
<1>t. /\ t.round \in Int /\ u.round \in Int
      /\ t \in Task /\ u \in Task
  BY TypeInvStep DEF TypeInv, TypeOK, StorageTypeOK, Task, RoundId, Round, AdHoc
<1>1. CASE t \in DOMAIN tasks /\ u \in DOMAIN tasks
  BY <1>1 DEF ExpandInv, ExpandOnce
<1>2. CASE t \notin DOMAIN tasks /\ u \in DOMAIN tasks
  <2>1. u.round < t.round
    BY <1>2, NewExpandRows
  <2> QED BY <2>1, <1>t
<1>3. CASE t \in DOMAIN tasks /\ u \notin DOMAIN tasks
  <2>1. t.round < u.round
    BY <1>3, NewExpandRows
  <2> QED BY <2>1, <1>t
\* Two rows of one enqueue for one address are one row.
<1>4. CASE t \notin DOMAIN tasks /\ u \notin DOMAIN tasks
  <2>1. t \in ExpandRows(t.isp) /\ u \in ExpandRows(u.isp)
    BY <1>4, ExpandRowsStep
  <2>2. t.created = seq /\ u.created = seq
    BY <2>1 DEF ExpandRows, NewTasks
  <2> QED BY <2>2, <1>t DEF Task
<1> QED BY <1>1, <1>2, <1>3, <1>4

LEMMA ClaimsStep ==
    ASSUME TypeInv, ExpandInv, Next
    PROVE  ClaimsUntouched'
<1> DEFINE pj == job["process_results"]
           qj == job'["process_results"]
<1> USE DEF TypeInv, TypeOK
<1>p. /\ pj \in Job /\ job \in [JobName -> Job] /\ "process_results" \in JobName
      /\ pj.segs \subseteq SegKey
      /\ segs \in [SegKey -> Segment]
      /\ \A k \in SegKey : segs[k].expanded \in Nat
  BY DEF SchedulerTypeOK, StorageTypeOK, Segment, Round, NoRound, JobName, Job
<1> SUFFICES ASSUME qj.pc \in {"expand", "collect", "trace"},
                    NEW k \in qj.segs, k[1] \in qj.todo
             PROVE  /\ segs'[k].expanded = qj.round
                    /\ \A t \in DOMAIN tasks' :
                          t.stage = "expand" /\ <<t.isp, CidrOf[t.ip]>> = k =>
                             t.round < qj.round
  BY DEF ClaimsUntouched
\* The run goes on with what it has claimed, its list of operators no longer.
<1>1. ASSUME pj.pc \in {"expand", "collect", "trace"}, ~Crash,
             qj.segs = pj.segs, qj.round = pj.round, qj.todo \subseteq pj.todo,
             \A t \in DOMAIN tasks' \ DOMAIN tasks : t.stage = "expand" => t.isp \notin qj.todo
      PROVE  /\ segs'[k].expanded = qj.round
             /\ \A t \in DOMAIN tasks' :
                   t.stage = "expand" /\ <<t.isp, CidrOf[t.ip]>> = k =>
                      t.round < qj.round
  <2>1. k \in pj.segs /\ k[1] \in pj.todo /\ k \in SegKey
    BY <1>1, <1>p
  <2>2. segs'[k].expanded = segs[k].expanded
    BY <1>1, <2>1, ExpandedStep
  <2>3. ASSUME NEW t \in DOMAIN tasks', t.stage = "expand", <<t.isp, CidrOf[t.ip]>> = k
        PROVE  t \in DOMAIN tasks
    BY <2>3, <1>1
  <2> QED BY <1>1, <2>1, <2>2, <2>3 DEF ExpandInv, ClaimsUntouched
<1>2. CASE qj = pj
  <2>1. ~Crash
    BY <1>2 DEF Crash, IdleJob, JobName
  <2>2. ASSUME NEW t \in DOMAIN tasks' \ DOMAIN tasks, t.stage = "expand" PROVE FALSE
    <3>1. pj.pc = "expand"
      BY <2>2, ExpandRowsStep
    <3>2. PICK i : qj = [pj EXCEPT !.pc = "collect", !.cur = {i}, !.todo = @ \ {i}]
      BY <2>1, <2>2, <1>p, ExpandRowsStep DEF Goto
    <3>3. qj.pc = "collect"
      BY <3>2, <1>p DEF Job
    <3> QED BY <1>2, <3>1, <3>3
  <2> QED BY <1>1, <1>2, <2>1, <2>2
<1>3. CASE qj = IdleJob
  BY <1>3 DEF IdleJob
<1>4. CASE ProcessStart
  BY <1>4, <1>p DEF ProcessStart, Goto, IdleJob
<1>5. CASE ProcessClaim
  <2>1. PICK ks \in ClaimableSets(pj.round, ClaimLimit) :
           /\ qj = IF ks = {} THEN IdleJob
                   ELSE [pj EXCEPT !.pc = "expand", !.segs = ks, !.todo = {q[1] : q \in ks}]
           /\ MarkExpanded(ks, pj.round)
           /\ UNCHANGED tasks /\ pj.pc = "claim"
    BY <1>5, <1>p DEF ProcessClaim, Goto
  <2>2. ks # {} /\ qj.segs = ks /\ qj.round = pj.round
    <3>1. ks # {}
      BY <2>1 DEF IdleJob
    <3> QED BY <2>1, <3>1, <1>p DEF Job
  <2>3. k \in Unexpanded(pj.round) /\ k \in SegKey /\ k \in ks
    BY <2>2 DEF ClaimableSets, Unexpanded
  <2>4. segs'[k].expanded = pj.round
    BY <2>1, <2>3, <1>p DEF MarkExpanded, Segment
  <2>5. segs[k].expanded < pj.round
    <3>1. segs[k].expanded # pj.round
      BY <2>3 DEF Unexpanded
    <3>2. segs[k].expanded <= pj.round
      BY <2>1, <2>3 DEF ExpandInv, MarksInv
    <3>3. pj.round \in Nat
      BY <2>1 DEF JobsHaveRounds
    <3> QED BY <3>1, <3>2, <3>3, <1>p, <2>3
  <2>6. ASSUME NEW t \in DOMAIN tasks, t.stage = "expand", <<t.isp, CidrOf[t.ip]>> = k
        PROVE  t.round < pj.round
    <3>1. t.round <= segs[k].expanded
      BY <2>6 DEF ExpandInv, TasksBehindMarks
    <3>2. t.round \in Int /\ pj.round \in Int
      BY <2>1 DEF StorageTypeOK, Task, RoundId, Round, AdHoc, JobsHaveRounds
    <3> QED BY <3>1, <3>2, <2>5, <1>p, <2>3
  <2> QED BY <2>1, <2>2, <2>4, <2>6
<1>6. CASE ProcessExpand
  <2>1. PICK i \in pj.todo :
           /\ pj.pc = "expand"
           /\ qj = [pj EXCEPT !.pc = "collect", !.cur = {i}, !.todo = @ \ {i}]
           /\ DOMAIN tasks' = DOMAIN tasks \cup ExpandRows(i)
    BY <1>6, <1>p DEF ProcessExpand, Goto, Enqueue
  <2>2. qj.pc = "collect" /\ qj.segs = pj.segs /\ qj.round = pj.round /\ qj.todo = pj.todo \ {i}
    BY <2>1, <1>p DEF Job
  <2>3. ~Crash
    BY <2>2, <1>p DEF Crash, IdleJob
  <2>4. \A t \in ExpandRows(i) : t.isp = i
    BY DEF ExpandRows, NewTasks
  <2> QED BY <1>1, <2>1, <2>2, <2>3, <2>4
<1>7. CASE ProcessCollect \/ ProcessTrace
  <2>1. \/ qj = IdleJob
        \/ /\ pj.pc \in {"collect", "trace"} /\ qj.pc \in {"expand", "trace"}
           /\ qj.segs = pj.segs /\ qj.round = pj.round /\ qj.todo = pj.todo
    <3>1. CASE ProcessTrace
      <4>1. pj.pc = "trace" /\ qj = Loop("process_results", "expand")
        BY <3>1, <1>p DEF ProcessTrace, Goto
      <4> QED BY <4>1, <1>p, LoopSegs
    <3>2. CASE ProcessCollect
      <4>1. PICK i \in pj.cur :
               /\ pj.pc = "collect"
               /\ qj = IF SampleOkIps(i, ClaimedOf(i), pj.round) = {}
                       THEN Loop("process_results", "expand")
                       ELSE [pj EXCEPT !.pc = "trace", !.cur = {i},
                                       !.ips = SampleOkIps(i, ClaimedOf(i), pj.round)]
        BY <3>2, <1>p DEF ProcessCollect, Goto
      <4>2. CASE qj = Loop("process_results", "expand")
        BY <4>1, <4>2, <1>p, LoopSegs
      <4>3. CASE qj = [pj EXCEPT !.pc = "trace", !.cur = {i},
                                 !.ips = SampleOkIps(i, ClaimedOf(i), pj.round)]
        BY <4>1, <4>3, <1>p DEF Job
      <4> QED BY <4>1, <4>2, <4>3
    <3> QED BY <1>7, <3>1, <3>2
  <2>2. CASE qj.segs = pj.segs /\ qj.pc # "idle" /\ pj.pc \in {"collect", "trace"}
    <3>1. ~Crash
      BY <2>2, <1>p DEF Crash, IdleJob
    <3>2. ASSUME NEW t \in DOMAIN tasks' \ DOMAIN tasks, t.stage = "expand" PROVE FALSE
      <4>1. pj.pc = "expand"
        BY <3>2, ExpandRowsStep
      <4> QED BY <2>2, <4>1
    <3> QED BY <1>1, <1>3, <2>1, <2>2, <3>1, <3>2
  <2> QED BY <1>3, <2>1, <2>2
<1> QED BY <1>2, <1>3, <1>4, <1>5, <1>6, <1>7, ProcessStep DEF ProcessResults

LEMMA ExpandInvariant == Spec => []ExpandInv
<1>1. Init => ExpandInv
  BY DEF Init, StorageInit, SchedulerInit, JobName, IdleJob, ExpandInv, ExpandOnce, MarksInv,
         TasksBehindMarks, ClaimsUntouched, UnknownSegment, NoRound
<1>2. TypeInv /\ ExpandInv /\ [Next]_vars => ExpandInv'
  <2>1. ASSUME TypeInv, ExpandInv, Next PROVE ExpandInv'
    BY <2>1, ExpandOnceStep, MarksStep, TasksBehindStep, ClaimsStep DEF ExpandInv
  <2>2. ASSUME ExpandInv, UNCHANGED vars PROVE ExpandInv'
    BY <2>2 DEF vars, ExpandInv, ExpandOnce, MarksInv, TasksBehindMarks, ClaimsUntouched
  <2> QED BY <2>1, <2>2
<1> QED BY <1>1, <1>2, TypeInvInvariant, PTL DEF Spec

\* claim_unexpanded_alive_segments: no address is given two expand tasks in one round,
\* however verdicts, expiries, kills and repeated runs of the job follow each other.
THEOREM ExpandedOnce == Spec => []ExpandOnce
<1>1. ExpandInv => ExpandOnce
  BY DEF ExpandInv
<1> QED BY <1>1, ExpandInvariant, PTL

----------------------------------------------------------------------------
(* A claimed segment is expanded in full, unless the master is killed between the
   claim and the enqueue or its rows are deleted. *)

LEMMA RowsStay ==
    ASSUME Next, ~MayGoOld
    PROVE  DOMAIN tasks \subseteq DOMAIN tasks'
<1>1. CASE HousekeepingCleanup
  BY <1>1 DEF HousekeepingCleanup, CleanupDone
<1>2. CASE ReportsNext
  BY <1>2 DEF ReportsNext, AgentStep, HandlerStep, Pull, PullLost, ReportLost, Report,
              InsertResults, MarkBatchDone, ReadProgress, ReadSummary, WriteVerdict, dbVars,
              ClaimPending, MarkDone, SetState
<1>3. CASE SchedulerNext /\ ~HousekeepingCleanup
  BY <1>3
  DEF SchedulerNext, SampleRound, ProcessResults, SpeedRound, Housekeeping, dbVars,
      SampleStart, SampleLeft, SampleFinish, SampleCreate, SampleSilent, SampleEnqueue,
      ProcessStart, ProcessClaim, ProcessExpand, ProcessCollect, ProcessTrace,
      SpeedStart, SpeedPick, SpeedFilter, SpeedEnqueue,
      HousekeepingRequeue, HousekeepingCurrent, HousekeepingPending,
      HousekeepingTotal, HousekeepingFinish, RequeueStale, SetState, Enqueue
<1>4. CASE Expire \/ Crash
  BY <1>4 DEF Expire, Crash, WritePart, dbVars, Enqueue
<1> QED BY <1>1, <1>2, <1>3, <1>4 DEF Next

LEMMA ClaimsPendingStep ==
    ASSUME TypeInv, ExpandInv, ClaimsPending, Next, ~Crash, ~MayGoOld
    PROVE  ClaimsPending'
<1> DEFINE pj == job["process_results"]
           qj == job'["process_results"]
<1> SUFFICES ASSUME NEW i \in Isp, NEW p \in Ip, segs'[<<i, CidrOf[p]>>].expanded # NoRound
             PROVE  \/ HasExpandTask(i, p, segs[<<i, CidrOf[p]>>].expanded)'
                    \/ /\ qj.pc \in {"expand", "collect", "trace"}
                       /\ <<i, CidrOf[p]>> \in qj.segs /\ i \in qj.todo
  BY DEF ClaimsPending
<1> DEFINE k == <<i, CidrOf[p]>>
           r == segs[k].expanded
<1>t. /\ k \in SegKey /\ k[1] = i /\ k[2] = CidrOf[p]
      /\ segs \in [SegKey -> Segment]
      /\ pj \in Job /\ job \in [JobName -> Job] /\ "process_results" \in JobName
  BY StorageAssumption DEF SegKey, TypeInv, TypeOK, StorageTypeOK, SchedulerTypeOK, JobName
<1> HIDE DEF k
<1>1. CASE segs'[k].expanded # r
  <2>1. ProcessClaim /\ pj.pc = "claim"
    BY <1>1, <1>t, ExpandedStep
  <2>2. PICK ks \in ClaimableSets(pj.round, ClaimLimit) :
           /\ qj = IF ks = {} THEN IdleJob
                   ELSE [pj EXCEPT !.pc = "expand", !.segs = ks, !.todo = {q[1] : q \in ks}]
           /\ MarkExpanded(ks, pj.round)
    BY <2>1, <1>t DEF ProcessClaim, Goto
  <2>3. k \in ks
    BY <1>1, <2>2, <1>t DEF MarkExpanded
  <2>4. qj.pc = "expand" /\ qj.segs = ks /\ qj.todo = {q[1] : q \in ks}
    BY <2>2, <2>3, <1>t DEF Job
  <2> QED BY <2>3, <2>4, <1>t DEF k
<1>2. CASE segs'[k].expanded = r /\ HasExpandTask(i, p, r)
  <2>1. HasExpandTask(i, p, r)'
    BY <1>2, RowsStay DEF HasExpandTask, RowsOf
  <2> QED BY <1>2, <2>1 DEF k
<1>3. CASE /\ segs'[k].expanded = r
           /\ pj.pc \in {"expand", "collect", "trace"} /\ k \in pj.segs /\ i \in pj.todo
  <2>1. CASE qj = pj
    BY <1>3, <2>1 DEF k
  <2>2. CASE ProcessExpand
    <3>1. PICK x \in pj.todo :
             /\ pj.pc = "expand"
             /\ qj = [pj EXCEPT !.pc = "collect", !.cur = {x}, !.todo = @ \ {x}]
             /\ DOMAIN tasks' = DOMAIN tasks \cup ExpandRows(x)
      BY <2>2, <1>t DEF ProcessExpand, Goto, Enqueue
    <3>2. CASE x = i
      <4> DEFINE t == [round |-> pj.round, isp |-> i, stage |-> "expand", ip |-> p, created |-> seq]
      <4>1. CidrOf[p] \in ClaimedOf(i)
        BY <1>3, <1>t DEF ClaimedOf
      <4>2. t \in ExpandRows(i)
        BY <4>1 DEF ExpandRows, NewTasks
      <4>3. r = pj.round
        BY <1>3, <1>t DEF ExpandInv, ClaimsUntouched
      <4>4. HasExpandTask(i, p, segs[k].expanded)'
        BY <1>3, <3>1, <3>2, <4>2, <4>3 DEF HasExpandTask, RowsOf
      <4> QED BY <4>4 DEF k
    <3>3. CASE x # i
      <4>1. qj.pc = "collect" /\ qj.segs = pj.segs /\ qj.todo = pj.todo \ {x}
        BY <3>1, <1>t DEF Job
      <4> QED BY <1>3, <3>3, <4>1 DEF k
    <3> QED BY <3>2, <3>3
  <2>l. LET l == Loop("process_results", "expand") IN
           l.pc = "expand" /\ l.segs = pj.segs /\ l.todo = pj.todo
    BY <1>3, <1>t DEF Loop, Job
  <2>3. CASE ProcessCollect
    <3>1. PICK x \in pj.cur :
             LET ips == SampleOkIps(x, ClaimedOf(x), pj.round) IN
             qj = IF ips = {} THEN Loop("process_results", "expand")
                  ELSE [pj EXCEPT !.pc = "trace", !.cur = {x}, !.ips = ips]
      BY <2>3, <1>t DEF ProcessCollect, Goto
    <3>2. qj.pc \in {"expand", "trace"} /\ qj.segs = pj.segs /\ qj.todo = pj.todo
      BY <2>l, <3>1, <1>t DEF Job
    <3> QED BY <1>3, <3>2 DEF k
  <2>5. CASE ProcessTrace
    <3>1. qj = Loop("process_results", "expand")
      BY <2>5, <1>t DEF ProcessTrace, Goto
    <3> QED BY <1>3, <2>l, <3>1 DEF k
  <2>4. ~ProcessStart /\ ~ProcessClaim
    BY <1>3 DEF ProcessStart, ProcessClaim, Goto
  <2> QED BY <2>1, <2>2, <2>3, <2>4, <2>5, ProcessStep DEF ProcessResults
<1> QED BY <1>1, <1>2, <1>3 DEF ClaimsPending, k

LEMMA ClaimsInvariant ==
    ASSUME MaxCrash = 0, ~MayGoOld
    PROVE  Spec => []ClaimsPending
<1>1. Init => ClaimsPending
  BY StorageAssumption DEF Init, StorageInit, ClaimsPending, SegKey, UnknownSegment
<1>2. TypeInv /\ Crash => FALSE
  BY DEF TypeInv, TypeOK, Crash
<1>3. TypeInv /\ ExpandInv /\ ClaimsPending /\ [Next]_vars => ClaimsPending'
  <2>1. ASSUME TypeInv, ExpandInv, ClaimsPending, Next PROVE ClaimsPending'
    BY <1>2, <2>1, ClaimsPendingStep
  <2>2. ASSUME ClaimsPending, UNCHANGED vars PROVE ClaimsPending'
    BY <2>2 DEF vars, ClaimsPending, HasExpandTask, RowsOf
  <2> QED BY <2>1, <2>2
<1> QED BY <1>1, <1>3, TypeInvInvariant, ExpandInvariant, PTL DEF Spec

\* Whoever claims expands: with no kill between the claim and the enqueue, and none of
\* its rows deleted for age, every host of a segment marked as expanded has a task once
\* the job is back (master/scheduler.py, run_process_results).
THEOREM ClaimsAreExpanded ==
    ASSUME MaxCrash = 0, ~MayGoOld
    PROVE  Spec => []ClaimedIsExpanded
<1>1. ClaimsPending => ClaimedIsExpanded
  BY DEF ClaimsPending, ClaimedIsExpanded, HasExpandTask
<1> QED BY <1>1, ClaimsInvariant, PTL
=============================================================================
