----------------------------- MODULE SafetyProofs ----------------------------
(* Safety theorems about Monitor, resting on its types and rounds, and that the task *)
(* queue, with agents, handlers, jobs and restarts around it, implements WorkQueue.  *)
EXTENDS MonitorProofs

----------------------------------------------------------------------------
(* Evidence only accumulates *)

\* Rows of probe_raw are never deleted.
LEMMA ProbesGrow ==
    ASSUME Next
    PROVE  okProbes \subseteq okProbes'
BY DEF Next, ReportsNext, AgentStep, HandlerStep, Pull, PullLost, ReportLost, Report,
       InsertResults, MarkBatchDone, ReadProgress, ReadSummary, WriteVerdict, dbVars,
       SchedulerNext, SampleRound, ProcessResults, SpeedRound, Housekeeping,
       SampleStart, SampleLeft, SampleFinish, SampleCreate, SampleSilent, SampleEnqueue,
       ProcessStart, ProcessClaim, ProcessExpand, ProcessCollect, ProcessTrace,
       SpeedStart, SpeedPick, SpeedFilter, SpeedEnqueue,
       HousekeepingRequeue, HousekeepingCleanup, HousekeepingCurrent,
       HousekeepingPending, HousekeepingTotal, HousekeepingFinish,
       Expire, Crash, WritePart

\* So a hit stays a hit.
LEMMA HitStays ==
    ASSUME okProbes \subseteq okProbes', NEW i, NEW c, NEW r, SampleHit(i, c, r)
    PROVE  SampleHit(i, c, r)'
BY DEF SampleHit

----------------------------------------------------------------------------
(* What one step can do to each table *)

\* Rows enter task_queue only through the enqueue a job is executing.
LEMMA TasksStep ==
    ASSUME Next
    PROVE  \/ DOMAIN tasks' \subseteq DOMAIN tasks /\ seq' = seq
           \/ \E rows \in EnqueuesInProgress : \E part \in SUBSET rows : Enqueue(part)
<1> DEFINE Shrinks == DOMAIN tasks' \subseteq DOMAIN tasks /\ seq' = seq
           Grows == \E rows \in EnqueuesInProgress : \E part \in SUBSET rows : Enqueue(part)
<1>1. CASE ReportsNext
  BY <1>1 DEF ReportsNext, AgentStep, HandlerStep, Pull, PullLost, ReportLost, Report,
              InsertResults, MarkBatchDone, ReadProgress, ReadSummary, WriteVerdict, dbVars,
              ClaimPending, MarkDone, SetState
<1>2. CASE SampleEnqueue
  <2>1. PICK i \in job["sample_round"].cur :
           job["sample_round"].pc = "enqueue" /\ Enqueue(SampleRows(i))
    BY <1>2 DEF SampleEnqueue, Goto
  <2>2. SampleRows(i) \in EnqueuesInProgress
    BY <2>1 DEF EnqueuesInProgress
  <2> QED BY <2>1, <2>2
<1>3. CASE ProcessExpand
  <2>1. PICK i \in job["process_results"].todo :
           job["process_results"].pc = "expand" /\ Enqueue(ExpandRows(i))
    BY <1>3 DEF ProcessExpand, Goto
  <2>2. ExpandRows(i) \in EnqueuesInProgress
    BY <2>1 DEF EnqueuesInProgress
  <2> QED BY <2>1, <2>2
<1>4. CASE ProcessTrace
  <2>1. PICK i \in job["process_results"].cur :
           job["process_results"].pc = "trace" /\ Enqueue(TraceRows(i))
    BY <1>4 DEF ProcessTrace, Goto
  <2>2. TraceRows(i) \in EnqueuesInProgress
    BY <2>1 DEF EnqueuesInProgress
  <2> QED BY <2>1, <2>2
<1>5. CASE SpeedEnqueue
  <2>1. PICK i \in job["speed_round"].cur :
           job["speed_round"].pc = "enqueue" /\ Enqueue(SpeedRows(i))
    BY <1>5 DEF SpeedEnqueue, Goto
  <2>2. SpeedRows(i) \in EnqueuesInProgress
    BY <2>1 DEF EnqueuesInProgress
  <2> QED BY <2>1, <2>2
<1>6. CASE SchedulerNext /\ ~SampleEnqueue /\ ~ProcessExpand /\ ~ProcessTrace /\ ~SpeedEnqueue
  BY <1>6
  DEF SchedulerNext, SampleRound, ProcessResults, SpeedRound, Housekeeping, dbVars,
      SampleStart, SampleLeft, SampleFinish, SampleCreate, SampleSilent,
      ProcessStart, ProcessClaim, ProcessCollect, SpeedStart, SpeedPick, SpeedFilter,
      HousekeepingRequeue, HousekeepingCleanup, HousekeepingCurrent, HousekeepingPending,
      HousekeepingTotal, HousekeepingFinish, RequeueStale, SetState, CleanupDone
<1>7. CASE Expire
  BY <1>7 DEF Expire
<1>8. CASE Crash
  BY <1>8 DEF Crash, WritePart, dbVars
<1> QED BY <1>1, <1>2, <1>3, <1>4, <1>5, <1>6, <1>7, <1>8 DEF Next

\* What is known of a row an enqueue in progress may add.
LEMMA NewRows ==
    ASSUME NEW rows \in EnqueuesInProgress, NEW t \in rows
    PROVE  /\ t.created = seq
           /\ t.stage = "expand" =>
                 /\ job["process_results"].pc = "expand"
                 /\ t.isp \in job["process_results"].todo
                 /\ t.round = job["process_results"].round
                 /\ CidrOf[t.ip] \in ClaimedOf(t.isp)
           /\ t.stage = "http_trace" =>
                 /\ job["process_results"].pc = "trace"
                 /\ t.isp \in job["process_results"].cur
                 /\ t.round = job["process_results"].round
                 /\ t.ip \in job["process_results"].ips
<1>1. ASSUME NEW r, NEW i, NEW stage, NEW ips, t \in NewTasks(r, i, stage, ips)
      PROVE  /\ t.created = seq /\ t.stage = stage /\ t.isp = i /\ t.round = r
             /\ t.ip \in ips
  BY <1>1 DEF NewTasks
<1>2. CASE \E i \in job["sample_round"].cur : rows = SampleRows(i)
  BY <1>1, <1>2 DEF SampleRows
<1>3. CASE /\ job["process_results"].pc = "expand"
           /\ \E i \in job["process_results"].todo : rows = ExpandRows(i)
  BY <1>1, <1>3 DEF ExpandRows
<1>4. CASE /\ job["process_results"].pc = "trace"
           /\ \E i \in job["process_results"].cur : rows = TraceRows(i)
  BY <1>1, <1>4 DEF TraceRows
<1>5. CASE \E i \in job["speed_round"].cur : rows = SpeedRows(i)
  BY <1>1, <1>5 DEF SpeedRows
<1> QED BY <1>2, <1>3, <1>4, <1>5 DEF EnqueuesInProgress

\* A segment's row changes by a verdict, by its expiry, or by the mark of a claim.
LEMMA SegsStep ==
    ASSUME Next
    PROVE  \/ segs' = segs
           \/ \E h \in Handler : WriteVerdict(h)
           \/ \E k \in SegKey : ExpireSegment(k)
           \/ /\ job["process_results"].pc = "claim"
              /\ \E ks \in SUBSET Unexpanded(job["process_results"].round) :
                    MarkExpanded(ks, job["process_results"].round)
<1>1. CASE ReportsNext
  BY <1>1 DEF ReportsNext, AgentStep, HandlerStep, Pull, PullLost, ReportLost, Report,
              InsertResults, MarkBatchDone, ReadProgress, ReadSummary, dbVars
<1>2. CASE ProcessClaim
  BY <1>2 DEF ProcessClaim, ClaimableSets, Goto
<1>3. CASE SchedulerNext /\ ~ProcessClaim
  BY <1>3
  DEF SchedulerNext, SampleRound, ProcessResults, SpeedRound, Housekeeping, dbVars,
      SampleStart, SampleLeft, SampleFinish, SampleCreate, SampleSilent, SampleEnqueue,
      ProcessStart, ProcessExpand, ProcessCollect, ProcessTrace,
      SpeedStart, SpeedPick, SpeedFilter, SpeedEnqueue,
      HousekeepingRequeue, HousekeepingCleanup, HousekeepingCurrent, HousekeepingPending,
      HousekeepingTotal, HousekeepingFinish
<1>4. CASE Expire
  BY <1>4 DEF Expire
<1>5. CASE Crash
  BY <1>5 DEF Crash, WritePart, dbVars
<1> QED BY <1>1, <1>2, <1>3, <1>4, <1>5 DEF Next

\* A handler gets to write alive only by having just read a hit.
LEMMA RequestStep ==
    ASSUME TypeInv, Next, NEW h \in Handler
    PROVE  req'[h] = req[h] \/ ReadSummary(h) \/ req'[h].pc # "alive"
<1> USE DEF TypeInv, TypeOK, ReportsTypeOK
<1>1. CASE ReportsNext
  <2>1. ASSUME NEW a \in Agent, NEW g \in Handler, Report(a, g)
        PROVE  req'[h] = req[h] \/ req'[h].pc # "alive"
    BY <2>1 DEF Report
  <2>v. ASSUME NEW g \in Handler, NEW cs PROVE Visiting(g, cs).pc \in {"idle", "progress"}
    BY DEF Visiting, Idle, Request
  <2>2. ASSUME NEW g \in Handler, InsertResults(g) \/ MarkBatchDone(g) \/ WriteVerdict(g)
        PROVE  req'[h] = req[h] \/ req'[h].pc # "alive"
    <3>1. CASE InsertResults(g)
      BY <3>1 DEF InsertResults, Request
    <3>2. CASE MarkBatchDone(g)
      BY <3>2, <2>v DEF MarkBatchDone
    <3>3. CASE WriteVerdict(g)
      BY <3>3, <2>v DEF WriteVerdict
    <3> QED BY <2>2, <3>1, <3>2, <3>3
  <2>3. ASSUME NEW g \in Handler, ReadProgress(g)
        PROVE  req'[h] = req[h] \/ req'[h].pc # "alive"
    <3>1. \A c, b : [req[g] EXCEPT !.pc = "summary", !.cidrs = {c}, !.full = b].pc = "summary"
      BY DEF Request
    <3> QED BY <2>3, <2>v, <3>1 DEF ReadProgress
  <2>4. ASSUME NEW g \in Handler, ReadSummary(g), g # h PROVE req'[h] = req[h]
    BY <2>4 DEF ReadSummary
  <2>5. ASSUME NEW a \in Agent, Pull(a) \/ PullLost(a) \/ ReportLost(a) PROVE req' = req
    BY <2>5 DEF Pull, PullLost, ReportLost
  <2> QED BY <1>1, <2>1, <2>2, <2>3, <2>4, <2>5 DEF ReportsNext, AgentStep, HandlerStep
<1>2. CASE Crash
  BY <1>2 DEF Crash, Idle
<1> QED BY <1>1, <1>2 DEF Next, Expire, reportVars

\* process_results moves only by its own steps, or is cut off.
LEMMA ProcessStep ==
    ASSUME TypeInv, Next
    PROVE  \/ job'["process_results"] = job["process_results"]
           \/ Crash /\ job'["process_results"] = IdleJob
           \/ ProcessResults
<1> USE DEF TypeInv, TypeOK, SchedulerTypeOK
<1>1. CASE SampleRound \/ SpeedRound \/ Housekeeping
  BY <1>1
  DEF JobName, SampleRound, SpeedRound, Housekeeping, Goto,
      SampleStart, SampleLeft, SampleFinish, SampleCreate, SampleSilent, SampleEnqueue,
      SpeedStart, SpeedPick, SpeedFilter, SpeedEnqueue,
      HousekeepingRequeue, HousekeepingCleanup, HousekeepingCurrent, HousekeepingPending,
      HousekeepingTotal, HousekeepingFinish
<1>2. CASE Crash
  BY <1>2 DEF Crash, JobName
<1> QED BY <1>1, <1>2 DEF Next, SchedulerNext, Expire, schedulerVars

\* The claimed segments of an operator are rows of the claim.
LEMMA ClaimedOfRows ==
    ASSUME SchedulerTypeOK, NEW i, NEW c \in ClaimedOf(i)
    PROVE  <<i, c>> \in job["process_results"].segs /\ c \in Seg
<1>1. job["process_results"].segs \subseteq SegKey
  BY DEF SchedulerTypeOK, JobName, Job
<1>2. PICK q \in job["process_results"].segs : q[1] = i /\ c = q[2]
  BY DEF ClaimedOf
<1> QED BY <1>1, <1>2 DEF SegKey

\* A loop that goes on keeps what was claimed.
LEMMA LoopSegs ==
    ASSUME SchedulerTypeOK, NEW j \in JobName, NEW pc \in {"silent", "expand", "pick"}
    PROVE  \/ Loop(j, pc) = IdleJob
           \/ /\ Loop(j, pc).pc = pc
              /\ Loop(j, pc).segs = job[j].segs
              /\ Loop(j, pc).round = job[j].round
              /\ Loop(j, pc).todo = job[j].todo
<1>1. job[j] \in Job
  BY DEF SchedulerTypeOK
<1> QED BY <1>1 DEF Loop, Job

----------------------------------------------------------------------------
(* Evidence *)

\* Every verdict and every task has its evidence after a step that had it before.
LEMMA EvidenceStep ==
    ASSUME TypeInv, EvidenceInv, Next
    PROVE  EvidenceInv'
<1> DEFINE pj == job["process_results"]
<1> USE DEF TypeInv, TypeOK
<1>0. okProbes \subseteq okProbes'
  BY ProbesGrow
<1>p. /\ pj \in Job /\ "process_results" \in JobName
      /\ pj.segs \subseteq SegKey
      /\ job \in [JobName -> Job]
  BY DEF SchedulerTypeOK, JobName, Job
<1>g. \A i, r : SampleOkIps(i, Seg, r) \subseteq SampleOkIps(i, Seg, r)'
  BY <1>0 DEF SampleOkIps
<1>1. AliveHasEvidence'
  <2>1. CASE segs' = segs
    BY <2>1, <1>0, HitStays DEF EvidenceInv, AliveHasEvidence
  <2>2. ASSUME NEW h \in Handler, WriteVerdict(h) PROVE AliveHasEvidence'
    <3>1. PICK c \in req[h].cidrs : SetSegmentState(req[h].isp, c, req[h].pc, req[h].round)
      BY <2>2 DEF WriteVerdict
    <3>2. req[h].isp \in Isp /\ c \in Seg /\ segs \in [SegKey -> Segment]
      BY <3>1 DEF ReportsTypeOK, StorageTypeOK, Request
    <3>3. segs' = [segs EXCEPT ![<<req[h].isp, c>>] =
                     [state |-> req[h].pc, sampled |-> req[h].round,
                      expanded |-> segs[<<req[h].isp, c>>].expanded, fresh |-> TRUE]]
      BY <3>1 DEF SetSegmentState
    <3>4. req[h].pc = "alive" => SampleHit(req[h].isp, c, req[h].round)
      BY <3>1 DEF EvidenceInv, VerdictsHaveEvidence
    <3>5. ASSUME NEW i \in Isp, NEW d \in Seg, segs'[<<i, d>>].state = "alive"
          PROVE  SampleHit(i, d, segs'[<<i, d>>].sampled)
      <4>1. CASE i = req[h].isp /\ d = c
        <5>1. <<i, d>> \in SegKey
          BY <3>2 DEF SegKey
        <5>2. segs'[<<i, d>>].state = req[h].pc /\ segs'[<<i, d>>].sampled = req[h].round
          BY <4>1, <5>1, <3>2, <3>3
        <5> QED BY <3>4, <3>5, <4>1, <5>2
      <4>2. CASE ~(i = req[h].isp /\ d = c)
        <5>1. segs'[<<i, d>>] = segs[<<i, d>>]
          BY <4>2, <3>2, <3>3 DEF SegKey
        <5> QED BY <3>5, <5>1 DEF EvidenceInv, AliveHasEvidence
      <4> QED BY <4>1, <4>2
    <3> QED BY <3>5, <1>0, HitStays DEF AliveHasEvidence
  <2>3. ASSUME NEW k \in SegKey, ExpireSegment(k) PROVE AliveHasEvidence'
    <3>1. \A q \in SegKey : segs'[q].state = segs[q].state /\ segs'[q].sampled = segs[q].sampled
      BY <2>3 DEF ExpireSegment, StorageTypeOK, Segment
    <3>2. \A i \in Isp, c \in Seg : <<i, c>> \in SegKey
      BY DEF SegKey
    <3> QED BY <3>1, <3>2, <1>0, HitStays DEF EvidenceInv, AliveHasEvidence
  <2>4. ASSUME NEW ks, NEW r, MarkExpanded(ks, r) PROVE AliveHasEvidence'
    <3>1. \A q \in SegKey : segs'[q].state = segs[q].state /\ segs'[q].sampled = segs[q].sampled
      BY <2>4 DEF MarkExpanded, StorageTypeOK, Segment
    <3>2. \A i \in Isp, c \in Seg : <<i, c>> \in SegKey
      BY DEF SegKey
    <3> QED BY <3>1, <3>2, <1>0, HitStays DEF EvidenceInv, AliveHasEvidence
  <2> QED BY <2>1, <2>2, <2>3, <2>4, SegsStep
<1>2. WorkHasEvidence'
  <2> SUFFICES ASSUME NEW t \in DOMAIN tasks'
               PROVE  /\ t.stage = "expand" => SampleHit(t.isp, CidrOf[t.ip], t.round)
                      /\ t.stage = "http_trace" => t.ip \in SampleOkIps(t.isp, Seg, t.round)
    BY <1>0, <1>g, HitStays DEF WorkHasEvidence
  <2>1. CASE t \in DOMAIN tasks
    BY <2>1 DEF EvidenceInv, WorkHasEvidence
  <2>2. CASE t \notin DOMAIN tasks
    <3>1. PICK rows \in EnqueuesInProgress : t \in rows
      BY <2>2, TasksStep DEF Enqueue
    <3>2. CASE t.stage = "expand"
      <4>1. /\ pj.pc = "expand" /\ t.round = pj.round /\ CidrOf[t.ip] \in ClaimedOf(t.isp)
        BY <3>1, <3>2, NewRows
      <4>2. <<t.isp, CidrOf[t.ip]>> \in pj.segs
        BY <4>1, ClaimedOfRows
      <4> QED BY <3>2, <4>1, <4>2 DEF EvidenceInv, ClaimsHaveEvidence
    <3>3. CASE t.stage = "http_trace"
      BY <3>1, <3>3, NewRows DEF EvidenceInv, ClaimsHaveEvidence
    <3> QED BY <3>2, <3>3
  <2> QED BY <2>1, <2>2
<1>3. VerdictsHaveEvidence'
  <2> SUFFICES ASSUME NEW h \in Handler, req'[h].pc = "alive", NEW c \in req'[h].cidrs
               PROVE  SampleHit(req'[h].isp, c, req'[h].round)
    BY <1>0 DEF SampleHit, VerdictsHaveEvidence
  <2>1. CASE req'[h] = req[h]
    BY <2>1 DEF EvidenceInv, VerdictsHaveEvidence
  <2>2. CASE ReadSummary(h)
    <3>1. PICK d \in req[h].cidrs :
             req' = [req EXCEPT ![h] =
                       IF SampleHit(req[h].isp, d, req[h].round)
                       THEN [req[h] EXCEPT !.pc = "alive", !.cidrs = {d}]
                       ELSE IF req[h].full THEN [req[h] EXCEPT !.pc = "silent", !.cidrs = {d}]
                       ELSE Visiting(h, req[h].todo \ {d})]
      BY <2>2 DEF ReadSummary
    <3>2. req[h] \in Request /\ req \in [Handler -> Request]
      BY DEF ReportsTypeOK
    <3>3. Visiting(h, req[h].todo \ {d}).pc # "alive"
      BY <3>2 DEF Visiting, Idle, Request
    <3>4. SampleHit(req[h].isp, d, req[h].round)
      BY <3>1, <3>2, <3>3 DEF Request
    <3>5. req'[h].cidrs = {d} /\ req'[h].isp = req[h].isp /\ req'[h].round = req[h].round
      BY <3>1, <3>2, <3>4 DEF Request
    <3> QED BY <3>4, <3>5
  <2> QED BY <2>1, <2>2, RequestStep
\* What process_results carries.
<1>4. /\ pj'.pc \in {"expand", "collect", "trace"} =>
            \A k \in pj'.segs : SampleHit(k[1], k[2], pj'.round)
      /\ pj'.pc = "trace" =>
            \A i \in pj'.cur : pj'.ips \subseteq SampleOkIps(i, Seg, pj'.round)
  <2>1. CASE pj' = pj
    BY <2>1 DEF EvidenceInv, ClaimsHaveEvidence
  <2>2. CASE pj' = IdleJob
    BY <2>2 DEF IdleJob
  <2>3. CASE ProcessStart
    <3>1. pj'.pc = "claim"
      BY <2>3, <1>p DEF ProcessStart, Goto, IdleJob
    <3> QED BY <3>1
  <2>4. CASE ProcessClaim
    <3>1. PICK ks \in ClaimableSets(pj.round, ClaimLimit) :
             pj' = IF ks = {} THEN IdleJob
                   ELSE [pj EXCEPT !.pc = "expand", !.segs = ks, !.todo = {k[1] : k \in ks}]
      BY <2>4, <1>p DEF ProcessClaim, Goto
    <3>2. ks = {} => pj' = IdleJob
      BY <3>1
    <3>3. ks # {} => pj'.pc = "expand" /\ pj'.segs = ks /\ pj'.round = pj.round
      BY <3>1, <1>p DEF Job
    <3>4. \A k \in ks : SampleHit(k[1], k[2], pj.round)
      BY DEF ClaimableSets, Unexpanded, SegKey, EvidenceInv, AliveHasEvidence
    <3> QED BY <3>2, <3>3, <3>4, <2>2
  <2>5. CASE ProcessExpand
    <3>1. pj.pc = "expand" /\ pj'.pc = "collect" /\ pj'.segs = pj.segs /\ pj'.round = pj.round
      BY <2>5, <1>p DEF ProcessExpand, Goto, Job
    <3> QED BY <3>1 DEF EvidenceInv, ClaimsHaveEvidence
  <2>6. CASE ProcessCollect
    <3>1. PICK i \in pj.cur :
             pj' = IF SampleOkIps(i, ClaimedOf(i), pj.round) = {}
                   THEN Loop("process_results", "expand")
                   ELSE [pj EXCEPT !.pc = "trace", !.cur = {i},
                                   !.ips = SampleOkIps(i, ClaimedOf(i), pj.round)]
      BY <2>6, <1>p DEF ProcessCollect, Goto
    <3>2. pj.pc = "collect"
      BY <2>6 DEF ProcessCollect, Goto
    <3>3. SampleOkIps(i, ClaimedOf(i), pj.round) \subseteq SampleOkIps(i, Seg, pj.round)
      BY ClaimedOfRows DEF SampleOkIps
    <3>4. CASE SampleOkIps(i, ClaimedOf(i), pj.round) # {}
      <4>1. /\ pj'.pc = "trace" /\ pj'.cur = {i} /\ pj'.segs = pj.segs /\ pj'.round = pj.round
            /\ pj'.ips = SampleOkIps(i, ClaimedOf(i), pj.round)
        BY <3>1, <3>4, <1>p DEF Job
      <4> QED BY <3>2, <3>3, <4>1 DEF EvidenceInv, ClaimsHaveEvidence
    <3>5. CASE pj' = Loop("process_results", "expand")
      BY <3>2, <3>5, <2>2, <1>p, LoopSegs DEF EvidenceInv, ClaimsHaveEvidence
    <3> QED BY <3>1, <3>4, <3>5
  <2>7. CASE ProcessTrace
    <3>1. pj.pc = "trace" /\ pj' = Loop("process_results", "expand")
      BY <2>7, <1>p DEF ProcessTrace, Goto
    <3> QED BY <3>1, <2>2, <1>p, LoopSegs DEF EvidenceInv, ClaimsHaveEvidence
  <2> QED BY <2>1, <2>2, <2>3, <2>4, <2>5, <2>6, <2>7, ProcessStep DEF ProcessResults
<1>5. ClaimsHaveEvidence'
  BY <1>0, <1>4 DEF SampleHit, SampleOkIps, ClaimsHaveEvidence
<1> HIDE DEF TypeInv, TypeOK
<1> QED BY <1>1, <1>2, <1>3, <1>5 DEF EvidenceInv

LEMMA EvidenceInit ==
    ASSUME Init
    PROVE  EvidenceInv
<1>1. AliveHasEvidence
  BY DEF Init, StorageInit, AliveHasEvidence, SegKey, UnknownSegment
<1>2. WorkHasEvidence
  BY DEF Init, StorageInit, WorkHasEvidence
<1>3. VerdictsHaveEvidence
  BY DEF Init, ReportsInit, VerdictsHaveEvidence, Idle
<1>4. ClaimsHaveEvidence
  BY DEF Init, SchedulerInit, ClaimsHaveEvidence, JobName, IdleJob
<1> QED BY <1>1, <1>2, <1>3, <1>4 DEF EvidenceInv

LEMMA EvidenceInvariant == Spec => []EvidenceInv
<1>1. Init => EvidenceInv
  BY EvidenceInit
<1>2. TypeInv /\ EvidenceInv /\ [Next]_vars => EvidenceInv'
  <2>1. ASSUME TypeInv, EvidenceInv, Next PROVE EvidenceInv'
    BY <2>1, EvidenceStep
  <2>2. ASSUME EvidenceInv, UNCHANGED vars PROVE EvidenceInv'
    BY <2>2 DEF vars, EvidenceInv, AliveHasEvidence, WorkHasEvidence, VerdictsHaveEvidence,
                ClaimsHaveEvidence, SampleHit, SampleOkIps
  <2> QED BY <2>1, <2>2
<1> QED BY <1>1, <1>2, TypeInvInvariant, PTL DEF Spec

\* _bump_segment_state: every alive verdict rests on an ok sample row of its round.
THEOREM AliveEvidence == Spec => []AliveHasEvidence
<1>1. EvidenceInv => AliveHasEvidence
  BY DEF EvidenceInv
<1> QED BY <1>1, EvidenceInvariant, PTL

\* run_process_results: full scans and traces are only ever queued on the strength
\* of an ok sample row of the round they are queued for.
THEOREM WorkEvidence == Spec => []WorkHasEvidence
<1>1. EvidenceInv => WorkHasEvidence
  BY DEF EvidenceInv
<1> QED BY <1>1, EvidenceInvariant, PTL


----------------------------------------------------------------------------
(* The statements on task_queue, seen from WorkQueue *)

QueueStep == [Queue!WQNext]_<<Open, InState("done")>>

\* Claiming and releasing move rows between two open states.
LEMMA OpenMoves ==
    ASSUME NEW S \in SUBSET Open, NEW s \in {"pending", "assigned"}, SetState(S, s)
    PROVE  UNCHANGED <<Open, InState("done")>>
<1>1. DOMAIN tasks' = DOMAIN tasks
  BY DEF SetState
<1>2. \A t \in DOMAIN tasks : tasks'[t] = "done" <=> tasks[t] = "done"
  BY DEF SetState, Open
<1> QED BY <1>1, <1>2 DEF Open, InState

LEMMA MarkDoneCompletes ==
    ASSUME NEW S, MarkDone(S)
    PROVE  Queue!Complete
<1>1. DOMAIN tasks' = DOMAIN tasks
  BY DEF MarkDone, SetState
<1>2. \A t \in DOMAIN tasks : tasks'[t] = "done" <=> t \in S \/ tasks[t] = "done"
  BY DEF MarkDone, SetState
<1> QED BY <1>1, <1>2 DEF Open, InState, Queue!Complete

LEMMA CleanupPurges ==
    ASSUME NEW S \in SUBSET InState("done"), CleanupDone(S)
    PROVE  Queue!Purge
<1>1. DOMAIN tasks' = DOMAIN tasks \ S
  BY DEF CleanupDone
<1>2. \A t \in DOMAIN tasks' : tasks'[t] = tasks[t]
  BY <1>1 DEF CleanupDone
<1>3. \A t \in S : tasks[t] = "done"
  BY DEF InState
<1> QED BY <1>1, <1>2, <1>3 DEF Open, InState, Queue!Purge

\* A row built for the enqueue in progress is stamped now, so it is not in the
\* table: INSERT OR IGNORE never meets an old row.
LEMMA EnqueueAdds ==
    ASSUME FreshInv, seq \in Nat, NEW rows \in EnqueuesInProgress, NEW part \in SUBSET rows,
           Enqueue(part)
    PROVE  Queue!Add
<1>1. \A t \in part : t \notin DOMAIN tasks
  BY NewRows DEF FreshInv
<1>2. DOMAIN tasks' = DOMAIN tasks \cup part
  BY DEF Enqueue
<1>3. /\ \A t \in part : tasks'[t] = "pending"
      /\ \A t \in DOMAIN tasks : tasks'[t] = tasks[t]
  BY <1>1 DEF Enqueue
<1> QED BY <1>1, <1>2, <1>3 DEF Open, InState, Queue!Add

----------------------------------------------------------------------------
LEMMA FreshStep ==
    ASSUME TypeInv, FreshInv, Next
    PROVE  FreshInv'
<1>t. seq \in Nat /\ DOMAIN tasks \subseteq Task
  BY DEF TypeInv, TypeOK, StorageTypeOK
<1>1. CASE DOMAIN tasks' \subseteq DOMAIN tasks /\ seq' = seq
  BY <1>1 DEF FreshInv
<1>2. ASSUME NEW rows \in EnqueuesInProgress, NEW part \in SUBSET rows, Enqueue(part)
      PROVE  FreshInv'
  <2>1. \A t \in part : t.created = seq
    BY NewRows
  <2>2. DOMAIN tasks' = DOMAIN tasks \cup part
    BY <1>2 DEF Enqueue
  <2>3. seq' = IF part = {} THEN seq ELSE seq + 1
    BY <1>2 DEF Enqueue
  <2>4. \A t \in DOMAIN tasks : t.created \in Nat /\ t.created < seq
    BY <1>t DEF FreshInv, Task
  <2> QED BY <1>t, <2>1, <2>2, <2>3, <2>4 DEF FreshInv
<1> QED BY <1>1, <1>2, TasksStep

LEMMA FreshInvariant == Spec => []FreshInv
<1>1. Init => FreshInv
  BY DEF Init, StorageInit, FreshInv
<1>2. TypeInv /\ FreshInv /\ [Next]_vars => FreshInv'
  <2>1. ASSUME FreshInv, UNCHANGED vars PROVE FreshInv'
    BY <2>1 DEF vars, FreshInv
  <2> QED BY <2>1, FreshStep
<1> QED BY <1>1, <1>2, TypeInvInvariant, PTL DEF Spec

\* The steps that touch task_queue, and what each does to it.
LEMMA TaskMoves ==
    ASSUME Next
    PROVE  \/ UNCHANGED tasks
           \/ \E rows \in EnqueuesInProgress : \E part \in SUBSET rows : Enqueue(part)
           \/ \E a \in Agent : \E S \in ClaimSets(IspOf[a], BatchSize) :
                 (Pull(a) \/ PullLost(a)) /\ ClaimPending(S)
           \/ \E h \in Handler : MarkBatchDone(h)
           \/ \E S \in SUBSET InState("assigned") : (MayGoStale \/ S = {}) /\ RequeueStale(S)
           \/ \E S \in SUBSET InState("done") : CleanupDone(S)
<1>1. ASSUME NEW a \in Agent, Pull(a) \/ PullLost(a)
      PROVE  \E S \in ClaimSets(IspOf[a], BatchSize) : ClaimPending(S)
  BY <1>1 DEF Pull, PullLost
<1>2. CASE ReportsNext
  <2>1. ASSUME NEW a \in Agent, ReportLost(a) \/ \E h \in Handler : Report(a, h)
        PROVE  UNCHANGED tasks
    BY <2>1 DEF ReportLost, Report, dbVars
  <2>2. ASSUME NEW h \in Handler,
               InsertResults(h) \/ ReadProgress(h) \/ ReadSummary(h) \/ WriteVerdict(h)
        PROVE  UNCHANGED tasks
    BY <2>2 DEF InsertResults, ReadProgress, ReadSummary, WriteVerdict, dbVars
  <2> QED BY <1>1, <1>2, <2>1, <2>2 DEF ReportsNext, AgentStep, HandlerStep
<1>3. CASE SampleEnqueue \/ ProcessExpand \/ ProcessTrace \/ SpeedEnqueue
  <2>1. PICK rows \in EnqueuesInProgress : Enqueue(rows)
    <3>1. CASE SampleEnqueue
      <4>1. PICK i \in job["sample_round"].cur :
               job["sample_round"].pc = "enqueue" /\ Enqueue(SampleRows(i))
        BY <3>1 DEF SampleEnqueue, Goto
      <4> QED BY <4>1 DEF EnqueuesInProgress
    <3>2. CASE ProcessExpand
      <4>1. PICK i \in job["process_results"].todo :
               job["process_results"].pc = "expand" /\ Enqueue(ExpandRows(i))
        BY <3>2 DEF ProcessExpand, Goto
      <4> QED BY <4>1 DEF EnqueuesInProgress
    <3>3. CASE ProcessTrace
      <4>1. PICK i \in job["process_results"].cur :
               job["process_results"].pc = "trace" /\ Enqueue(TraceRows(i))
        BY <3>3 DEF ProcessTrace, Goto
      <4> QED BY <4>1 DEF EnqueuesInProgress
    <3>4. CASE SpeedEnqueue
      <4>1. PICK i \in job["speed_round"].cur :
               job["speed_round"].pc = "enqueue" /\ Enqueue(SpeedRows(i))
        BY <3>4 DEF SpeedEnqueue, Goto
      <4> QED BY <4>1 DEF EnqueuesInProgress
    <3> QED BY <1>3, <3>1, <3>2, <3>3, <3>4
  <2> QED BY <2>1
<1>4. CASE SchedulerNext
  <2>1. ASSUME SchedulerNext,
               ~HousekeepingRequeue, ~HousekeepingCleanup,
               ~(SampleEnqueue \/ ProcessExpand \/ ProcessTrace \/ SpeedEnqueue)
        PROVE  UNCHANGED tasks
    BY <2>1
    DEF SchedulerNext, SampleRound, ProcessResults, SpeedRound, Housekeeping, dbVars,
        SampleStart, SampleLeft, SampleFinish, SampleCreate, SampleSilent,
        ProcessStart, ProcessClaim, ProcessCollect, SpeedStart, SpeedPick, SpeedFilter,
        HousekeepingCurrent, HousekeepingPending, HousekeepingTotal, HousekeepingFinish
  <2>2. CASE HousekeepingRequeue
    BY <2>2 DEF HousekeepingRequeue
  <2>3. CASE HousekeepingCleanup
    BY <2>3 DEF HousekeepingCleanup
  <2> QED BY <1>3, <1>4, <2>1, <2>2, <2>3
<1>5. CASE Expire \/ Crash
  BY <1>5 DEF Expire, Crash, WritePart, dbVars
<1> QED BY <1>2, <1>4, <1>5 DEF Next

LEMMA QueueSimulation ==
    ASSUME TypeInv, FreshInv, Next
    PROVE  QueueStep
<1>1. CASE UNCHANGED tasks
  BY <1>1 DEF QueueStep, Open, InState
<1>2. ASSUME NEW rows \in EnqueuesInProgress, NEW part \in SUBSET rows, Enqueue(part)
      PROVE  QueueStep
  <2>1. seq \in Nat
    BY DEF TypeInv, TypeOK, StorageTypeOK
  <2> QED BY <1>2, <2>1, EnqueueAdds DEF QueueStep, Queue!WQNext
<1>3. ASSUME NEW i, NEW S \in ClaimSets(i, BatchSize), ClaimPending(S) PROVE QueueStep
  <2>1. S \subseteq Open
    BY DEF ClaimSets, InState, Open
  <2> QED BY <1>3, <2>1, OpenMoves DEF ClaimPending, QueueStep
<1>4. ASSUME NEW h \in Handler, MarkBatchDone(h) PROVE QueueStep
  BY <1>4, MarkDoneCompletes DEF MarkBatchDone, QueueStep, Queue!WQNext
<1>5. ASSUME NEW S \in SUBSET InState("assigned"), RequeueStale(S) PROVE QueueStep
  <2>1. S \subseteq Open
    BY DEF InState, Open
  <2> QED BY <1>5, <2>1, OpenMoves DEF RequeueStale, QueueStep
<1>6. ASSUME NEW S \in SUBSET InState("done"), CleanupDone(S) PROVE QueueStep
  BY <1>6, CleanupPurges DEF QueueStep, Queue!WQNext
<1> QED BY <1>1, <1>2, <1>3, <1>4, <1>5, <1>6, TaskMoves

\* A task stays open from its enqueue to its first report, is then done for good,
\* and only done rows are deleted: whatever is lost, requeued or cut off.
THEOREM QueueRefine == Spec => QueueIsWorkQueue
<1>1. Init => Queue!WQInit
  BY DEF Init, StorageInit, Queue!WQInit, Open, InState
<1>2. TypeInv /\ FreshInv /\ [Next]_vars => QueueStep
  <2>1. ASSUME UNCHANGED vars PROVE QueueStep
    BY <2>1 DEF vars, QueueStep, Open, InState
  <2> QED BY <2>1, QueueSimulation
<1> QED
  BY <1>1, <1>2, TypeInvInvariant, FreshInvariant, PTL
  DEF Spec, QueueIsWorkQueue, Queue!WQSpec, QueueStep
=============================================================================
