-------------------------------- MODULE Measure ------------------------------
(****************************************************************************)
(* From a probe on an agent to the rows the Scorer decides on: execute_task *)
(* (agent/runner.py) and the probes it calls, the rows report stores        *)
(* (insert_results), and speed_round, which asks for further probes of what *)
(* the rows show.                                                           *)
(*                                                                          *)
(* A probe under way is a record as a job is in Scheduler: pc names what it *)
(* waits for.  Which addresses are pinged and traced is the scan's affair   *)
(* and left open here.                                                      *)
(****************************************************************************)
EXTENDS Candidates

CONSTANTS
    Handshakes,     \* what tcp_ping may meet: [warmup, rtts] records
    Rtt,            \* times a trace may take
    Colo,           \* what edges answer: [name, part], the part a cut leaves
    Enough,         \* least bytes of a speed test that counts
    MaxBytes,       \* speed_bytes
    Timeout,        \* speed_timeout_s, in units of the least duration counted
    Slack,          \* least time a recv may wait
    Chunk,          \* most bytes of a recv
    MaxHead,        \* most bytes of the header of a download,
    HeadChunk,      \* read at most so many at a time
    Targets,        \* bound: the operators and addresses probed
    FirstHour,      \* when the observation begins
    MaxTime,        \* bound: the clock
    MaxRows,        \* bound: rows of the table and probes under way
    MaxRunning,     \* bound: probes under way
    MaxHandshakes,  \* bound: handshakes of a tcp_ping checked as a function
    PingTimes       \* bound: times of these

ASSUME MeasureAssumption ==
    /\ {Enough, MaxBytes, Timeout, Slack, Chunk, MaxHead, HeadChunk} \subseteq Nat \ {0}
    /\ HeadChunk <= Chunk
    /\ {FirstHour, MaxTime, MaxRows, MaxRunning, MaxHandshakes} \subseteq Nat
    /\ Rtt \cup PingTimes \subseteq Nat
    /\ Targets \subseteq Isp \X Ip
    /\ \A c \in Colo : {c.name, c.part} \subseteq STRING
    /\ \A h \in Handshakes :
          h.rtts \in Seq(Nat \cup {NoValue}) /\ h.warmup \in 0 .. Len(h.rtts) - 1

VARIABLES
    now,        \* the clock
    table,      \* probe_raw, a bag of rows
    running,    \* probes under way, up to the report of their result
    asked       \* the open speed tasks of each operator, by address

vars == <<now, table, running, asked>>

\* The outcome of a probe; of one that failed or raised by default.
Failed == [ok |-> FALSE, latency |-> NoValue, jitter |-> NoValue, speed |-> NoValue, colo |-> ""]
Outcome == [ok: BOOLEAN, latency: Nat \cup {NoValue}, jitter: Nat \cup {NoValue},
            speed: Nat \cup {NoValue}, colo: STRING]
Probe == [isp: Isp, ip: Ip, kind: {"tcp_ping", "http_trace", "speed"}, at: Nat,
          pc: {"connect", "read", "head", "body", "report", "done"},
          stage: 1 .. Len(TraceStages), bytes: Nat, spent: Nat, out: Outcome]

TypeOK ==
    /\ now \in Nat
    /\ IsABag(table) /\ BagToSet(table) \subseteq ProbeRow
    /\ running \subseteq Probe
    /\ asked \in [Isp -> SUBSET Ip]

Init == now = FirstHour /\ table = EmptyBag /\ running = {} /\ asked = [i \in Isp |-> {}]

Tick == now < MaxTime /\ now' = now + 1 /\ UNCHANGED <<table, running, asked>>

----------------------------------------------------------------------------
(* execute_task *)

Start(i, p, kind, pc, out) ==
    /\ <<i, p>> \in Targets
    /\ Cardinality(running) < MaxRunning
    /\ BagCardinality(table) + Cardinality(running) < MaxRows
    /\ running' = running \cup
          {[isp |-> i, ip |-> p, kind |-> kind, at |-> now, pc |-> pc,
            stage |-> 1, bytes |-> 0, spent |-> 0, out |-> out]}
    /\ UNCHANGED <<now, table, asked>>

\* The result of a tcp_ping; its representative latency is the median.
PingOutcome(stats) ==
    [Failed EXCEPT !.ok = stats.ok, !.latency = stats.p50, !.jitter = stats.jitter]

TcpStart ==
    \E i \in Isp, p \in Ip, h \in Handshakes :
        Start(i, p, "tcp_ping", "report", PingOutcome(TcpStats(h.warmup, h.rtts)))
TraceStart == \E i \in Isp, p \in Ip : Start(i, p, "http_trace", "connect", Failed)
SpeedStart == \E i \in Isp : \E p \in asked[i] : Start(i, p, "speed", "connect", Failed)

\* What a step of a probe makes of it.
Become(r, new) == running' = (running \ {r}) \cup {new} /\ UNCHANGED <<now, table, asked>>
Finish(r, out) ==
    Become(r, [r EXCEPT !.pc = "report", !.stage = 1, !.bytes = 0, !.spent = 0, !.out = out])

\* Anything raised before or while reading, and a header that is cut off, too long or says
\* an error: no time, no bytes are reported.
Raise(r) == r.pc \in {"connect", "read", "head", "body"} /\ Finish(r, Failed)

----------------------------------------------------------------------------
(* http_trace and http_get *)

TraceConnect(r) == r.pc = "connect" /\ r.kind = "http_trace" /\ Become(r, [r EXCEPT !.pc = "read"])

TraceRecv(r) ==
    /\ r.pc = "read"
    /\ \E stage \in r.stage + 1 .. Len(TraceStages) : Become(r, [r EXCEPT !.stage = stage])

\* The edge closes the connection, or nothing comes for the timeout: either ends reading.
TraceEnd(r) ==
    /\ r.pc = "read"
    /\ \E c \in Colo, rtt \in Rtt :
          LET res == HttpTrace(TraceStages[r.stage], rtt, c.name, c.part)
          IN  Finish(r, [Failed EXCEPT !.ok = res.ok, !.latency = res.latency, !.colo = res.colo])

----------------------------------------------------------------------------
(* speed_test and http_stream_download *)

Conclude(r, bytes, spent) ==
    LET res == SpeedTest(bytes, AtLeast(1, spent), Enough, Scale)
    IN  Finish(r, [Failed EXCEPT !.ok = res.ok, !.speed = res.speed])

SpeedConnect(r) == r.pc = "connect" /\ r.kind = "speed" /\ Become(r, [r EXCEPT !.pc = "head"])

\* There is no deadline for the header: each recv may wait for the whole timeout.
HeadRecv(r) ==
    /\ r.pc = "head"
    /\ \E n \in 1 .. HeadChunk, t \in 0 .. Timeout :
          LET more == [r EXCEPT !.bytes = @ + n, !.spent = @ + t]
          IN  /\ more.bytes <= MaxHead
              /\ Become(r, more)

\* The end of the header comes.  The clock starts anew, and what came behind it counts.
HeadEnd(r) ==
    /\ r.pc = "head"
    /\ \E n \in 1 .. HeadChunk : \E leftover \in 0 .. n - 1 :
          /\ r.bytes + n <= MaxHead
          /\ Become(r, [r EXCEPT !.pc = "body", !.bytes = leftover, !.spent = 0])

\* Faulty variant: each recv waits for the whole timeout.
WaitWhole(spent) == Timeout

\* The time settimeout gives the next recv.
Wait(spent) == AtLeast(Slack, Timeout - spent)

SpeedRecv(r) ==
    /\ r.pc = "body" /\ r.bytes < MaxBytes /\ r.spent < Timeout
    /\ \E n \in 1 .. Chunk, t \in 0 .. Wait(r.spent) :
          Become(r, [r EXCEPT !.bytes = @ + n, !.spent = @ + t])

\* The recv times out.
SpeedStall(r) ==
    /\ r.pc = "body" /\ r.bytes < MaxBytes /\ r.spent < Timeout
    /\ Conclude(r, r.bytes, r.spent + Wait(r.spent))

\* The edge ends the download early.
SpeedEof(r) ==
    /\ r.pc = "body" /\ r.bytes < MaxBytes /\ r.spent < Timeout
    /\ \E t \in 0 .. Wait(r.spent) : Conclude(r, r.bytes, r.spent + t)

SpeedStop(r) ==
    /\ r.pc = "body" /\ (r.bytes >= MaxBytes \/ r.spent >= Timeout)
    /\ Conclude(r, r.bytes, r.spent)

----------------------------------------------------------------------------
(* report and speed_round *)

RowOf(r) == [isp |-> r.isp, ip |-> r.ip, kind |-> r.kind, ok |-> r.out.ok, at |-> r.at,
             latency |-> r.out.latency, jitter |-> r.out.jitter, speed |-> r.out.speed,
             colo |-> r.out.colo]

\* insert_results
ReportInsert(r) ==
    /\ r.pc = "report"
    /\ table' = table (+) SetToBag({RowOf(r)})
    /\ running' = (running \ {r}) \cup (IF r.kind = "speed" THEN {[r EXCEPT !.pc = "done"]} ELSE {})
    /\ UNCHANGED <<now, asked>>

\* mark_done
ReportMarkDone(r) ==
    /\ r.pc = "done"
    /\ asked' = [asked EXCEPT ![r.isp] = @ \ {r.ip}]
    /\ running' = running \ {r}
    /\ UNCHANGED <<now, table>>

\* The report does not arrive; the task stays open.
ReportLost(r) == r.pc = "report" /\ running' = running \ {r} /\ UNCHANGED <<now, table, asked>>

\* run_speed_round for one operator: latency_top_candidates, and of these the ones
\* without an open task.  (Scheduler has its calls one by one.)
SpeedRound ==
    /\ \E i \in Isp : \E ips \in LatencyTop(AggregateRecent(table, i, now)) :
          asked' = [asked EXCEPT ![i] = @ \cup ips]
    /\ UNCHANGED <<now, table, running>>

TraceStep(r) == TraceConnect(r) \/ TraceRecv(r) \/ TraceEnd(r)
SpeedStep(r) == \/ SpeedConnect(r) \/ HeadRecv(r) \/ HeadEnd(r)
                \/ SpeedRecv(r) \/ SpeedStall(r) \/ SpeedEof(r) \/ SpeedStop(r)
ReportStep(r) == ReportInsert(r) \/ ReportMarkDone(r) \/ ReportLost(r)

Next ==
    \/ Tick \/ TcpStart \/ TraceStart \/ SpeedStart \/ SpeedRound
    \/ \E r \in running : Raise(r) \/ TraceStep(r) \/ SpeedStep(r) \/ ReportStep(r)

Spec == Init /\ [][Next]_vars

----------------------------------------------------------------------------
(* Properties *)

\* What a tcp_ping reports is what its samples say (Probes, StatsAreSound), whatever its
\* handshakes meet and not only what probes meet here (agent/probes/tcp_ping.py).
PingsAreSound ==
    BagToSet(table) \cup running = {} => StatsAreSound(MaxHandshakes, PingTimes)

\* However little an edge sends at a time: the body of a download takes no more bytes and
\* no more time than its task allows, but for the last recv.  The header, which has no
\* deadline, is bounded by its length alone: a timeout for each of its bytes
\* (agent/probes/http_client.py).
DownloadIsBounded ==
    \A r \in running :
        /\ r.pc = "head" => r.bytes <= MaxHead /\ r.spent <= r.bytes * Timeout
        /\ r.pc = "body" => r.bytes < MaxBytes + Chunk /\ r.spent < Timeout + Slack

OwnRows(i) == [r \in {x \in BagToSet(table) : x.isp = i} |-> table[r]]
Successes == [r \in {x \in BagToSet(table) : x.ok} |-> table[r]]

\* What is known of an address under one operator comes from that operator's agents
\* alone, in each of aggregate_recent's subqueries (master/storage.py).
OperatorsDoNotMix ==
    \A i \in Isp : AggregateRecent(table, i, now) = AggregateRecent(OwnRows(i), i, now)

\* Every candidate has a latency measured over HTTPS and a region: the fallback to TCP
\* latencies is never needed (agent/probes/http_trace.py, master/storage.py).
CandidatesAreUsable ==
    \A i \in Isp : LET rows == AggregateRecent(table, i, now) IN
        \A p \in DOMAIN rows :
            /\ rows[p].latency = TraceLatency(table, i, p, now) /\ rows[p].latency # NoValue
            /\ rows[p].colo # ""

\* Failed probes never make an address eligible nor change the rank of one that is, when
\* speed is required (master/scoring.py, master/storage.py).
FailuresDoNotCount ==
    \A i \in Isp :
        LET rows == AggregateRecent(table, i, now)
            without == AggregateRecent(Successes, i, now)
        IN  SpeedRequired => \A p \in DOMAIN rows : Eligible(rows[p]) =>
                p \in DOMAIN without /\ rows[p] = without[p]

\* The distance of two hours of the day, round the clock.
Apart(a, b) == LET d == (a - b) % Day IN AtMost(d, Day - d)

\* What may be published answered a trace within the lookback, and was found fast enough
\* at this time of day on the average of its tests (master/scoring.py, pick_best).
PublishedIsAlive ==
    \A i \in Isp : LET rows == AggregateRecent(table, i, now) IN
        \A p \in DOMAIN rows : Eligible(rows[p]) =>
            /\ \E r \in BagToSet(table) : r.isp = i /\ r.ip = p /\ r.kind = "http_trace" /\ r.ok
                                          /\ now - r.at <= Lookback
            /\ SpeedRequired => \E r \in BagToSet(table) :
                  /\ r.isp = i /\ r.ip = p /\ r.kind = "speed" /\ r.ok
                  /\ Scale * r.speed >= MinSpeed
                  /\ now - r.at <= Lookback /\ Apart(now, r.at) <= Window

\* As long as any candidate is within the limit, a speed round takes a fastest one
\* (master/scoring.py, latency_top_candidates; no latency rounds to 0).
FastestIsTested ==
    \A i \in Isp :
        LET rows == AggregateRecent(table, i, now)
            near == {p \in DOMAIN rows : rows[p].latency <= MaxLatency}
        IN  near # {} => \A ips \in LatencyTop(rows) :
                \E p \in ips : \A q \in near : rows[p].latency <= rows[q].latency
=============================================================================
