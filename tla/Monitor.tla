------------------------------- MODULE Monitor -------------------------------
(****************************************************************************)
(* The whole system: agents, report handlers and scheduler jobs over one    *)
(* store, the clock that lets silent verdicts expire, and a master process  *)
(* that may be killed and started again.                                    *)
(****************************************************************************)
EXTENDS Reports, Scheduler

CONSTANT MaxCrash     \* bound: times the master process is killed

ASSUME MonitorAssumption == MaxCrash \in Nat

VARIABLE crashes

vars == <<tasks, seq, started, running, segs, okProbes, held, req, job, speeds, crashes>>

TypeOK ==
    /\ StorageTypeOK
    /\ ReportsTypeOK
    /\ SchedulerTypeOK
    /\ crashes \in Nat

Init ==
    /\ StorageInit
    /\ ReportsInit
    /\ SchedulerInit
    /\ crashes = 0

Expire ==
    /\ \E k \in SegKey : ExpireSegment(k)
    /\ UNCHANGED <<tasks, seq, started, running, okProbes, reportVars, schedulerVars, crashes>>

\* What a kill leaves of the call being executed: rows written one at a time by
\* enqueue_tasks, claim_unexpanded_alive_segments or insert_results.
WritePart ==
    \/ UNCHANGED dbVars
    \/ /\ \E rows \in EnqueuesInProgress : \E part \in SUBSET rows : Enqueue(part)
       /\ UNCHANGED <<started, running, segs, okProbes>>
    \/ /\ job["process_results"].pc = "claim"
       /\ \E ks \in SUBSET Unexpanded(job["process_results"].round) :
             /\ Cardinality(ks) <= ClaimLimit
             /\ MarkExpanded(ks, job["process_results"].round)
       /\ UNCHANGED <<tasks, seq, started, running, okProbes>>
    \/ /\ \E h \in Handler :
             /\ req[h].pc = "insert"
             /\ \E part \in SUBSET InsertedProbes(h) : okProbes' = okProbes \cup part
       /\ UNCHANGED <<tasks, seq, started, running, segs>>

\* Jobs and handlers live in memory only; a restart begins them afresh.
Crash ==
    /\ crashes < MaxCrash
    /\ crashes' = crashes + 1
    /\ WritePart
    /\ job' = [j \in JobName |-> IdleJob]
    /\ req' = [h \in Handler |-> Idle]
    /\ UNCHANGED <<held, speeds>>

Next ==
    \/ ReportsNext /\ UNCHANGED <<schedulerVars, crashes>>
    \/ SchedulerNext /\ UNCHANGED <<reportVars, crashes>>
    \/ Expire
    \/ Crash

Spec == Init /\ [][Next]_vars

\* Assigned rows that no agent works on and no handler is about to answer.
Lost ==
    {t \in InState("assigned") :
        /\ \A a \in Agent : t \notin held[a]
        /\ \A h \in Handler : t \notin req[h].batch}

Fairness ==
    /\ \A a \in Agent :
          /\ SF_vars(Pull(a) /\ UNCHANGED <<schedulerVars, crashes>>)
          /\ SF_vars((\E h \in Handler : Report(a, h)) /\ UNCHANGED <<schedulerVars, crashes>>)
    /\ \A h \in Handler : WF_vars(HandlerStep(h) /\ UNCHANGED <<schedulerVars, crashes>>)
    /\ WF_vars(SampleRound /\ UNCHANGED <<reportVars, crashes>>)
    /\ WF_vars(ProcessResults /\ UNCHANGED <<reportVars, crashes>>)
    /\ WF_vars(Housekeeping /\ UNCHANGED <<reportVars, crashes>>)
    /\ SF_vars(HousekeepingRequeue /\ (\A t \in Lost : tasks'[t] = "pending")
                  /\ UNCHANGED <<reportVars, crashes>>)

FairSpec == Spec /\ Fairness
----------------------------------------------------------------------------
(* Safety *)

\* A segment is called alive for a round only on the strength of an ok sample
\* row of that same round (_bump_segment_state reads the round's summary).
AliveHasEvidence ==
    \A i \in Isp, c \in Seg :
        segs[<<i, c>>].state = "alive" => SampleHit(i, c, segs[<<i, c>>].sampled)

\* A segment is called silent for a round only when every sample task of the
\* round there has been answered, whatever was requeued, lost or reported twice.
SilentIsExhaustive ==
    \A i \in Isp, c \in Seg :
        segs[<<i, c>>].state = "silent" =>
            SampleTasks(i, c, segs[<<i, c>>].sampled) \subseteq InState("done")

\* No ok sample of the round contradicts a silent verdict.
SilentHasNoHit ==
    \A i \in Isp, c \in Seg :
        segs[<<i, c>>].state = "silent" => ~SampleHit(i, c, segs[<<i, c>>].sampled)

NoReportInProgress == \A h \in Handler : req[h].pc = "idle"

\* The same, looked at only when no handler has a verdict still to write.
SilentStandsWhenQuiet == NoReportInProgress => SilentHasNoHit

\* A task an agent or a handler has in hand is assigned, and no one else has it.
InHandsOnce ==
    /\ \A a \in Agent : held[a] \subseteq InState("assigned")
    /\ \A h \in Handler : req[h].batch \subseteq InState("assigned")
    /\ \A a, b \in Agent : a # b => held[a] \cap held[b] = {}
    /\ \A a \in Agent, h \in Handler : held[a] \cap req[h].batch = {}
    /\ \A g, h \in Handler : g # h => req[g].batch \cap req[h].batch = {}

\* Once every sample task of a segment in the running round is answered and no
\* handler is at work, the segment carries a verdict of that round.
SampledSegmentIsJudged ==
    NoReportInProgress =>
        \A i \in Isp, c \in Seg, r \in running :
            LET rows == SampleTasks(i, c, r) IN
            rows # {} /\ rows \subseteq InState("done") => segs[<<i, c>>].sampled = r

\* "The same cidr is not expanded twice": one expand task per address, operator
\* and round.
ExpandOnce ==
    \A t, u \in DOMAIN tasks :
        /\ t.stage = "expand" /\ u.stage = "expand"
        /\ t.round = u.round /\ t.isp = u.isp /\ t.ip = u.ip
        => t = u

\* speed_round never has two tasks for one address and operator under way.
OneActiveSpeedTask ==
    \A t, u \in Open :
        /\ t.stage = "speed" /\ u.stage = "speed"
        /\ t.isp = u.isp /\ t.ip = u.ip
        => t = u

\* A segment marked expanded has, once process_results is back, a task for
\* every one of its hosts.
ClaimedIsExpanded ==
    job["process_results"].pc = "idle" =>
        \A i \in Isp, p \in Ip :
            LET r == segs[<<i, CidrOf[p]>>].expanded IN
            r # NoRound => \E t \in RowsOf(r) : t.stage = "expand" /\ t.isp = i /\ t.ip = p

\* A round that is done left no alive segment unexpanded.
DoneRoundIsExpanded ==
    \A k \in SegKey :
        segs[k].state = "alive" /\ segs[k].sampled \in (1 .. started) \ running =>
            segs[k].expanded = segs[k].sampled

\* An address the full /24 scan found alive becomes a candidate: when its round is
\* done it has had an http_trace task, without which no query returns it.
ExpandedHitsAreCandidates ==
    \A p \in okProbes :
        p.stage = "expand" /\ p.round \in (1 .. started) \ running =>
            \E t \in DOMAIN tasks : t.stage = "http_trace" /\ t.isp = p.isp /\ t.ip = p.ip

\* Only segments with an ok sample of the round are scanned in full, and only
\* addresses with one are traced, whatever state the segment is in by then.
WorkHasEvidence ==
    \A t \in DOMAIN tasks :
        /\ t.stage = "expand" => SampleHit(t.isp, CidrOf[t.ip], t.round)
        /\ t.stage = "http_trace" => t.ip \in SampleOkIps(t.isp, Seg, t.round)

----------------------------------------------------------------------------
(* Inductive strengthenings, for the proofs *)

\* Only the newest round can be running, and sample_round creates one only when
\* none is: nothing else starts rounds while it is between its calls.
RoundsInv ==
    /\ running \subseteq {started}
    /\ job["sample_round"].pc \in {"left", "finish"} =>
          running \subseteq {job["sample_round"].round}
    /\ job["sample_round"].pc = "create" => running = {}

\* A job that is about to write for a round knows which.
JobsHaveRounds ==
    /\ job["sample_round"].pc \in {"silent", "enqueue"} =>
          job["sample_round"].round \in 1 .. started
    /\ job["process_results"].pc # "idle" => job["process_results"].round \in 1 .. started
    /\ job["speed_round"].pc # "idle" => job["speed_round"].round # NoRound

\* A handler about to write alive has read a hit ...
VerdictsHaveEvidence ==
    \A h \in Handler : req[h].pc = "alive" =>
        \A c \in req[h].cidrs : SampleHit(req[h].isp, c, req[h].round)

\* ... and process_results carries segments and addresses with one.
ClaimsHaveEvidence ==
    /\ job["process_results"].pc \in {"expand", "collect", "trace"} =>
          \A k \in job["process_results"].segs :
             SampleHit(k[1], k[2], job["process_results"].round)
    /\ job["process_results"].pc = "trace" =>
          \A i \in job["process_results"].cur :
             job["process_results"].ips \subseteq SampleOkIps(i, Seg, job["process_results"].round)

EvidenceInv ==
    AliveHasEvidence /\ WorkHasEvidence /\ VerdictsHaveEvidence /\ ClaimsHaveEvidence

\* expanded_round never runs ahead of the round it is read for ...
MarksInv ==
    /\ \A k \in SegKey : segs[k].expanded <= started
    /\ job["process_results"].pc = "claim" =>
          \A k \in SegKey : segs[k].expanded <= job["process_results"].round

\* ... nor falls behind the expand tasks of its segment ...
TasksBehindMarks ==
    \A t \in DOMAIN tasks :
        t.stage = "expand" => t.round <= segs[<<t.isp, CidrOf[t.ip]>>].expanded

\* ... and a claimed segment whose turn has still to come has none of this round.
ClaimsUntouched ==
    job["process_results"].pc \in {"expand", "collect", "trace"} =>
        \A k \in job["process_results"].segs : k[1] \in job["process_results"].todo =>
            /\ segs[k].expanded = job["process_results"].round
            /\ \A t \in DOMAIN tasks :
                  t.stage = "expand" /\ <<t.isp, CidrOf[t.ip]>> = k =>
                     t.round < job["process_results"].round

ExpandInv == ExpandOnce /\ MarksInv /\ TasksBehindMarks /\ ClaimsUntouched

\* Rows are created in the past, so a new row is never one that is already there.
FreshInv == \A t \in DOMAIN tasks : t.created < seq

\* The sampling of operator i in round r is past its enqueue, or never will come to it:
\* no sample task of theirs is added any more.
Settled(i, r) ==
    /\ r <= started
    /\ ~(/\ job["sample_round"].pc \in {"silent", "enqueue"}
         /\ job["sample_round"].round = r
         /\ i \in job["sample_round"].todo \cup job["sample_round"].cur)

SampleComplete(i, c, r) == SampleTasks(i, c, r) \subseteq InState("done")

\* An operator's sample tasks are enqueued by one call, its only one in a round ...
SamplingInv ==
    /\ job["sample_round"].pc = "silent" => job["sample_round"].cur = {}
    /\ job["sample_round"].pc = "enqueue" =>
          job["sample_round"].cur \cap job["sample_round"].todo = {}
    /\ \A t \in DOMAIN tasks : t.stage = "sample" => Settled(t.isp, t.round)

\* ... so a sample that was complete when a handler counted it still is when the
\* handler writes its verdict ...
CountsInv ==
    \A h \in Handler :
        /\ req[h].pc \in {"summary", "silent"} => Settled(req[h].isp, req[h].round)
        /\ req[h].pc = "silent" \/ (req[h].pc = "summary" /\ req[h].full) =>
              \A c \in req[h].cidrs : SampleComplete(req[h].isp, c, req[h].round)

\* ... and for as long as the verdict stands.
SilentSettled ==
    \A i \in Isp, c \in Seg :
        segs[<<i, c>>].state = "silent" => Settled(i, segs[<<i, c>>].sampled)

ExhaustInv == SamplingInv /\ CountsInv /\ SilentSettled /\ SilentIsExhaustive

\* speed_round looks at one operator at a time, and between its filter and its
\* enqueue nobody else queues speed tasks.
FilterHolds ==
    /\ job["speed_round"].pc \in {"filter", "enqueue"} =>
          \E i \in Isp : job["speed_round"].cur = {i}
    /\ job["speed_round"].pc = "enqueue" =>
          \A i \in job["speed_round"].cur : \A t \in Open :
             t.stage = "speed" /\ t.isp = i => t.ip \notin job["speed_round"].ips

SpeedInv == OneActiveSpeedTask /\ FilterHolds

\* A handler about to write silent has read no hit, and none has come since: what
\* succeeded was in the hands of someone else then, and the sample not complete.
Unrefuted ==
    \A h \in Handler : req[h].pc = "silent" =>
        \A c \in req[h].cidrs : ~SampleHit(req[h].isp, c, req[h].round)

OkInBatch == \A h \in Handler : req[h].ok \subseteq req[h].batch

SilentInv == OkInBatch /\ InHandsOnce /\ Unrefuted /\ SilentHasNoHit

HasExpandTask(i, p, r) ==
    \E t \in RowsOf(r) : t.stage = "expand" /\ t.isp = i /\ t.ip = p

\* A claimed segment is still on the list of the run that claimed it, or has its tasks.
ClaimsPending ==
    \A i \in Isp, p \in Ip :
        LET k == <<i, CidrOf[p]>> IN
        segs[k].expanded # NoRound =>
            \/ HasExpandTask(i, p, segs[k].expanded)
            \/ /\ job["process_results"].pc \in {"expand", "collect", "trace"}
               /\ k \in job["process_results"].segs /\ i \in job["process_results"].todo

\* In the first round, before any speed test, every task and every report is of it ...
FirstRoundOnly ==
    /\ started <= 1 /\ running \subseteq {1}
    /\ job["sample_round"].pc \in {"left", "finish", "create"} => started = 0
    /\ speeds = 0 /\ job["speed_round"].pc = "idle"
    /\ \A t \in DOMAIN tasks : t.round = 1

\* ... a report knows the tasks it answers that are still in the table, and the
\* segments of those are the ones it is to visit ...
ReportsKnow ==
    /\ \A a \in Agent : \A t \in held[a] : t.isp = IspOf[a] /\ t.created < seq
    /\ \A h \in Handler :
          /\ \A t \in req[h].batch : t.isp = req[h].isp /\ t.created < seq
          /\ req[h].batch \cap DOMAIN tasks \subseteq req[h].known
          /\ \A t \in req[h].known :
                /\ req[h].round = 1
                /\ t.stage = "sample" => CidrOf[t.ip] \in req[h].todo
          /\ req[h].round \in {NoRound, 1}
          /\ req[h].pc \in {"progress", "summary", "alive", "silent"} => req[h].round = 1

\* ... so the segments of a complete sample are judged, or will be.
WillJudge(h, i, c) ==
    /\ req[h].isp = i /\ c \in req[h].todo
    /\ \/ req[h].pc \in {"progress", "alive", "silent"}
       \/ req[h].pc = "summary" /\ (c \in req[h].cidrs => req[h].full)

CompleteIsJudged ==
    \A i \in Isp, c \in Seg :
        SampleTasks(i, c, 1) # {} /\ SampleComplete(i, c, 1) =>
            segs[<<i, c>>].sampled = 1 \/ \E h \in Handler : WillJudge(h, i, c)

JudgedInv == FirstRoundOnly /\ ReportsKnow /\ CompleteIsJudged

\* All of it: the first parts hold whatever goes wrong, the others while no assignment
\* is released, while no kill or cleanup comes between claim and tasks, and in a first
\* round without kills.
InductiveInv ==
    /\ RoundsInv /\ JobsHaveRounds /\ EvidenceInv /\ ExpandInv /\ ExhaustInv
    /\ FreshInv /\ SpeedInv
    /\ ~MayGoStale => SilentInv
    /\ MaxCrash = 0 /\ ~MayGoOld => ClaimsPending
    /\ MaxRound = 1 /\ MaxSpeed = 0 /\ MaxCrash = 0 => JudgedInv

----------------------------------------------------------------------------
(* Refinement *)

Queue == INSTANCE WorkQueue WITH open <- Open, done <- InState("done")

\* The queue's rows implement the abstract work queue.
QueueIsWorkQueue == Queue!WQSpec

Rounds == INSTANCE RoundLog

\* scan_round implements the abstract sequence of rounds.
RoundsAreSequential == Rounds!RLSpec

----------------------------------------------------------------------------
(* Liveness *)

\* Every task is answered in the end: what was lost or cut off is handed out again.
TasksAreAnswered == []<>(Open = {})

\* A round that has tasks is closed in the end.
RoundsEnd == \A r \in 1 .. MaxRound : (r \in running /\ RowsOf(r) # {}) ~> r \notin running
=============================================================================
