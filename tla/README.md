# A TLA+ verification of cf_ip_monitor

cf_ip_monitor finds good Cloudflare edge addresses for each operator (ISP) of
mainland China. A *master* plans scans, hands probe tasks to *agents* inside the
operators' networks, collects their results, judges /24 segments, scores
addresses and publishes the best. This directory models the part of it in which
concurrency, failure and order matter: **the scan**, from a round's sample tasks
to the verdict on each segment, its full expansion, the traces, the speed tests,
and the end of the round; **measurement**, from a probe on an agent to the
averages the Scorer decides on; and **publication**, from the best addresses of a
moment to files, DNS, traceroutes and the labels they give. Line numbers below
are those of `src/src/cf_ip_monitor/`.

## Inventory

| component | state | operations | talks to | what is hard | what makes it correct |
|---|---|---|---|---|---|
| **Storage** `master/storage.py` | SQLite tables `task_queue`, `scan_round`, `c_segment_state`, `probe_raw`, `probe_trace_hops`, `ip_route_label`, `best_ip_snapshot` | ~40 methods, each one transaction scope under one process lock | called by everyone in the master | a *sequence* of calls is not atomic; autocommit makes a multi-row write cuttable by a kill | a task is open until answered, then done for good; rounds never overlap |
| **Endpoints** `master/server.py` | none but the request's locals | register, pull, report, read-only pages | agents, Storage, Enricher | handlers run on a thread pool and interleave; a report is four to six Storage calls; verdicts are computed from two earlier reads | a verdict says what the samples say |
| **Agents** `agent/runner.py` | tasks in hand | register, pull, execute, report | master over HTTP | lost answers, lost reports, late reports | no task is lost for good |
| **Probes** `agent/probes/` | none but a probe's locals | tcp_ping, http_trace, speed_test, traceroute | edges over TCP and TLS | answers cut off, stalled or trickling; statistics of very few samples | what is reported is what was measured; a probe ends |
| **Scheduler** `master/scheduler.py` | none but a run's locals | sample_round, process_results, speed_round, housekeeping, trace_round, relabel_round, export_round | Storage, Strategy, Scorer, exporters | seven jobs run concurrently with each other and with handlers; a kill may fall between any two calls | work is planned once, from evidence, and rounds end |
| **Strategy** `master/strategy.py` | none | builds the rows of each stage | Storage | – | rows match what the job asked for |
| **Scorer** `master/scoring.py` | none | pick_best, latency_top_candidates | Storage | numeric edges (zero quality, small percentiles) | scores in range, monotone; cut never empty |
| **Labelling** `master/labeling.py` | none | label_one, relabel_recent | Storage | priority of rules, missing data | premium lines win |
| **Exporters** `master/exporters/` | published files, DNS record sets | export | DNS service, file system | partial failure, a failed list read as "none" | consumers see one batch |
| **Enricher** `master/enrich.py`, **ipdata** | read-only databases | lookup | third-party readers | missing fields, fallbacks skipped under conditions | nothing a database knows is lost |
| **Address sources** `master/ip_sources.py` | none | fetch, explode, sample offsets, hosts | HTTP | fetch failure, offsets at both ends of a segment | segments are disjoint and hold their samples |
| Configuration, dashboard, deployment | – | – | – | – | – |

How they interact: agents poll `pull` and post `report`; both end in Storage.
Jobs never talk to handlers or to each other except through the tables. In
particular `report` turns a segment `alive`, and `process_results`, up to two
minutes later, finds it there; `housekeeping` closes the round that
`sample_round` opened and that `process_results` may be adding tasks to.

## Modules

Built so far, in the order they depend on each other:

| module | models | state |
|---|---|---|
| `Storage` | the four tables of the scan and every Storage call on them | `tasks`, `seq`, `started`, `running`, `segs`, `okProbes` |
| `Reports` | agents, `pull`, `report`, `_bump_segment_state` | `held` (an agent's tasks), `req` (a handler thread's locals) |
| `Scheduler` | sample_round, process_results, speed_round, housekeeping with Strategy's row lists | `job` (the locals of each job's run), `speeds` |
| `Monitor` | the composition, expiry of silent verdicts, kill and restart; the properties | `crashes` |
| `WorkQueue` | what `task_queue` promises, abstractly | `open`, `done` |
| `RoundLog` | what `scan_round` promises, abstractly | `started`, `running` |
| `MCMonitor`, `MCRounds` | small instances for TLC | |
| `Sources` | the networks to scan, their segments, samples and hosts (`ip_sources.py`) | – |
| `Scan` | `Monitor` with the networks its rounds start from | |
| `RouteLabel` | the rules of `labeling.py` as operators | – |
| `Probes` | what tcp_ping, http_trace and speed_test make of what the network answers | – |
| `Ranking` | the score and the pick of `scoring.py`, exactly, as integers | – |
| `Candidates` | `aggregate_recent` over a bag of `probe_raw` rows, latency_top_candidates | – |
| `Measure` | execute_task and the probes step by step, the rows of `report`, the speed rounds that read them | `now`, `table`, `running` (probes under way), `asked` (open speed tasks) |
| `MCMeasure` | a small instance for TLC | |
| `Enrich` | `lookup` over the answers of the six databases | – |
| `Publish` | trace_round, relabel_round, export_round, the traceroute half of `report`, both exporters | `now`, `due`, `snaps`, `open`, `sent`, `traces`, `labels`, `file`, `dns`; `tj`, `rj`, `ej` (the locals of each job's run) |
| `Feed` | what the readers of the files and of DNS are promised, abstractly | `recorded`, `offer`, `file`, `dns` |
| `MCPublish` | small instances for TLC | |
| `MonitorProofs`, `SafetyProofs`, `ExpandProofs`, `ExhaustProofs` | theorems about `Monitor` | |
| `RankingProofs` | theorems about `Ranking`, facts about finite sets | |
| `MeasureProofs` | theorems about `Probes`, `Candidates` and `Measure` | |
| `PublishProofs` | theorems about `Enrich` and `Publish` | |
| `SourcesProofs` | theorem about `Sources`, stated of `Scan` | |

**Correspondence.** `Storage._conn()` holds one lock for the whole call, so one
Storage call is one atomic step. A handler or a job is a record with a `pc` that
names its *next call* and fields for the local variables it carries there; each
action is one call and what the code computes until the next one. A job's loop
over operators is `todo` (operators left) and `cur` (the one being worked on). A
row of `task_queue` is identified by what it is and when it was enqueued
(`created`, a logical clock); its state is `tasks[row]`. `probe_raw` is kept as
the set of rows with ok = 1 that some query of the modelled jobs reads, since
everything they ask is whether such a row exists. Rounds are numbered in the
order they start; `NoRound` is a NULL id, `AdHoc` the id `"ad-hoc"` of tasks
queued between rounds. A segment's `sampled` and `expanded` are the columns
`sampled_round` and `expanded_round`, `fresh` says whether `expires_at` is ahead.

**Publication stands on its own.** Its jobs read the scan only through
`aggregate_recent`, whose answer `Publish` therefore leaves open (`Rows`), and
the queue only as what `WorkQueue` promises: a traceroute task is open until a
report of it is handled. pick_best is one step, since the rows it reads are open
anyway. Each other Storage call, file write and DNS request is a step of its
own. `labels` remembers, besides the columns of `ip_route_label`, which
traceroute a label was read off (`at`); an idle export job remembers the batch of
its latest run and whether an exporter failed (`text`, `dns`). These are history
variables: nothing but the properties reads them. The DNS service is external:
it is taken to keep one record set per name, type and line and to refuse a
second one. One clock serves agents and master.

**Measurement stands on its own** as well: which addresses are pinged and traced
is the scan's affair, so `Measure` lets any of `Targets` be probed at any time.
A probe is a record as a job is; `pc` is what it waits for. An HTTPS answer
comes in four stages, since all that http_trace tells apart is whether the
status line, the beginning of the colo line and its end have come (`TraceStages`).
A download is counted in units of bytes and of the least duration that counts;
`Slack` and `Chunk` are the least wait and the most bytes of one recv of its body,
`MaxHead` and `HeadChunk` the most bytes of its header and of one recv of that. `table` is
a bag, because two equal rows weigh twice in an average, and averages are
multiplied by `Scale`, a multiple of every count of rows, so that they are exact.
Hours are the clock; a `Day` of the model is shorter than the real one, which
makes the hour window wrap within the bounds. Of a score's inputs nothing is left
out. `SpeedRound` is one step here; `Scheduler` has its calls one by one.

**Places.** A hop that a traceroute reports is, in `Publish`, what the databases say
of it (`Answers`); storing it is `Lookup`. A hop that did not answer and one with
a private address have none. `Sources` is the arithmetic behind `Storage`'s
constants: a network is its address and its size, a segment what shares the upper 24
bits of an address, kept with the entry it came from. `SegmentsAreDisjoint` says why
`CidrOf` is a function and why every sample is an address its segment's expansion
covers. The networks are constants, so that it says something of the states in which
no round has started yet.

**Statistics.** tcp_ping filters and sorts its handshakes and reads the list at indices;
`Samples` gives the n-th of the sorted list as the time that fewer than n samples go below
and at least n do not exceed, which is the same list without a sort.

**Left open on purpose.** Whether a probe succeeds; how long an assignment or a
done row has been there (any subset may be stale or old, when `MayGoStale` or
`MayGoOld` allows it); which rows of equal rank and time `LIMIT` takes; which
traced addresses a speed round picks; in which order operators and segments are
visited; when jobs fire (any job may start whenever its previous run is over,
which covers every setting of the intervals).

**Faults.** `PullLost`: the rows are assigned, the answer never arrives.
`ReportLost`: a batch is executed and its report is dropped. `HousekeepingRequeue`:
a slow assignment is handed out again, so a task may be answered twice, by two
handlers at once. `Crash`: the master dies between or inside calls (`WritePart`
writes any part of a multi-row statement), handlers and jobs vanish, tables and
agents stay. In `Publish` a report may also be lost or handled after later ones, a
list of record sets may fail and read as empty, a DNS request may be refused or
raise, be carried out or not when its answer is lost, a file may fail to be written, and a kill leaves any part of a snapshot
or of a plan and any beginning of a hop list.

## Runs

Every run of `MCMonitor` and `MCRounds` has one operator and one segment (that operators do not
mix is theorem `WorkEvidence`, for any number of them): segments
are judged independently, and what interleaves is handlers and jobs on one of
them. Two rounds, two agents, two handlers or two addresses are there where the
question needs them.

| run | bounds | checks | shows |
|---|---|---|---|
| `verdict` | 2 addresses, 2 agents, 2 handlers, 1 round, no faults, symmetry | `InHandsOnce`, `SilentHasNoHit`, `SampledSegmentIsJudged`, `ClaimedIsExpanded`, `InductiveInv` | while every task is answered once, nobody else has it in hand, verdicts agree with *all* samples although handlers interleave, always come, and a claimed segment is expanded in full |
| `faults` | 1 agent, 1 handler, lost messages, stale assignments, 1 kill, 2 speed rounds | `TypeOK`, `AliveHasEvidence`, `SilentIsExhaustive`, `OneActiveSpeedTask`, `InductiveInv`, `QueueIsWorkQueue` | what still holds under every fault, the proofs' invariant among it |
| `rounds` | 2 rounds, old rows deleted, 1 kill; 7 segments of 3 networks | `SegmentsAreDisjoint`, `ExpandOnce`, `WorkHasEvidence`, `InductiveInv`, `RoundsAreSequential` | rounds do not overlap, work rests on samples of its own round, no address is expanded twice in one; the segments a round starts from hold their samples |
| `liveness` | 1 agent, 1 handler, lost messages, stale assignments, 1 kill, `FairSpec` | `TasksAreAnswered`, `RoundsEnd` | every task is answered and every round with tasks is closed |
| `publish` | 2 operators, 2 addresses of 2 regions, 2 export runs, 2 faults; the pick over all pairs of 14 rows and 2 labels; lookup over all answers that name at most two countries | `PublishedIsRecorded`, `ExportersFailAlone`, `ReadersSeeBatches`, `BestIsPublished`, `HopsAreLocated` | an exporter that fails leaves the other alone, nothing is served that no snapshot has, a file or a line changes only to what one batch has for it, the better address is picked, each field of a hop is what the first database in its order has |
| `labels` | 2 operators, 1 address, 2 moments of the clock, 1 trace, 2 relabel and 1 export runs, 2 reports under way at a time, 1 fault | `TypeOK`, `LabelsAreEarned`, `LabelsNeverGoBack` | labels come from the operator's own latest traceroutes, in whatever order reports arrive |
| `measure` | 2 operators, 2 addresses, 3 rows, 1 probe under way at a time, 4 hours of a 4-hour day, lookback of 2 and window of 1 hour, headers of 2 bytes, downloads of 2 units of bytes in 2 of time; all outcomes of up to 7 handshakes | `TypeOK`, `DownloadIsBounded`, `OperatorsDoNotMix`, `CandidatesAreUsable`, `FailuresDoNotCount`, `PublishedIsAlive`, `FastestIsTested`, `PingsAreSound` | the Scorer decides on recent successes of the operator's own agents; a download's header and body are bounded; a ping's figures are those of its samples |
| `silent_race` | 1 agent, 2 handlers, stale assignments | `SilentStandsWhenQuiet` **violated** | below |
| `mixed_batch` | batches of 2, 2 rounds, 1 speed round | `SampledSegmentIsJudged` **violated** | below |
| `unexpanded_round` | 1 round | `DoneRoundIsExpanded` **violated** | below |
| `lost_expansion` | 1 round, 1 kill | `ClaimedIsExpanded` **violated** | below |
| `unused_expansion` | 2 addresses, one sampled | `ExpandedHitsAreCandidates` **violated** | below |

Why the bounds are enough: a fault needs to happen once to matter, and one kill,
one address with two sample tasks or two handlers on one segment are the
smallest instances in which each hazard exists. The mutants of `PROJECT.json`
confirm that every property fails within its run's bounds when the code is
changed in the way it is meant to catch.

In `labels` one address is enough, since the jobs treat addresses one by one; the
cut by `TraceTopN` does not bite. In `publish` nothing is traced, since exports do
not depend on when it is. A fault in these two is a kill, a lost report or one
failure of an exporter. The path traced has a hop without an answer, one on the
backbone and one on a premium line, and a kill leaves any beginning of it. Which of several addresses is picked is a function of rows
and labels, and `BestIsPublished` evaluates it for two addresses over rows on both
sides of every limit and cap. Deadlock checking is off in these two, where the
bounds end every job, and in `measure`, where the clock and the table do; in the
others housekeeping may always run.

In `measure` three rows are the fewest that make an address eligible (a trace, a
ping, a speed test) and let one row more, of the other operator, the other address or a
failure, disturb it: with two rows the eligibility of an address needs only trace and
speed test, and the third is the disturbance. Probes run one at a time, since they share nothing
but the table; a colo that is cut off leaves nothing of its name in this run. In four
hours a row leaves the lookback, the hours wrap, and a row two
hours old is within the lookback and outside the window.

### What the violated runs show

- **`silent_race`.** `server.py:300-302` gives the reason the whole round is
  summed up: so that a segment with a success is never marked silent. Progress,
  summary and write are separate calls. A sample task requeued after 15 minutes
  and answered twice lets one handler read "all done, no success", the other
  store a success and write `alive`, and the first write `silent` over it. The
  verdict stays for the round and keeps the segment from the next ones until it
  expires. Without double answers this cannot happen (`verdict`).
- **`mixed_batch`.** `report` files every verdict of a batch under the round of
  its first result. When a batch holds tasks of two rounds (an ad-hoc speed test
  and samples, say), samples of the other round are looked up where the segment
  has no tasks, and skipped; if it was the segment's last batch, it is never
  judged.
- **`unexpanded_round`.** A round may be closed before `process_results` has
  seen its last alive segments, which are then never expanded, against
  `README.md:45`.
- **`lost_expansion`.** Segments are marked as expanded before the tasks are
  enqueued; a kill in between loses the expansion for the round, against
  `README.md:172`.
- **`unused_expansion`.** Only addresses with an ok *sample* row are traced, and
  only traced addresses are ever returned as candidates: the full scan of a
  segment never contributes one, against `README.md:45`.

Other places where a document and the code differ, met while modelling and not
turned into runs: the AS number has no fallback to ip2region (`enrich.py:252`,
against `enrich.py:5` and `README.md:101`); in China dbip's region is skipped once
another database has the city (`enrich.py:295`, against the chains of `enrich.py:7` and
`README.md:104`), the one exception `HopsAreLocated` makes from them; latencies are averaged over all hours, not
the same ones (`storage.py:764`, against `storage.py:749`); the dashboard's "latest
batch" is every batch of the latest 30 minutes (`storage.py:895`); http_get returns what came before
a timeout, so that a colo may be cut in the middle (`http_client.py:58`, against
`http_client.py:44`); addresses are traced every second interval
(`scheduler.py:240`, against `README.md:644`); explode_to_24 keeps networks longer
than a /24 (`ip_sources.py:57`, against its docstring).

The model also reaches, without a run of its own, a round closed while
`process_results` adds tasks to it (the count of open tasks and the closing are
separate calls), and sample hits reported after the claim that are never traced.

## Fairness

`FairSpec` assumes no more than the code schedules:

- agents: strong fairness of `Pull` and of `Report`. The loop of `runner.py`
  retries for ever, and a network that loses some messages does not lose all of
  them; with weak fairness only, every report could be lost.
- handlers: weak fairness of each one's next call; it is a running thread.
- sample_round, process_results, housekeeping: weak fairness, they are interval
  jobs and a run in progress proceeds. Nothing is assumed of speed_round, which
  may be disabled.
- requeueing: an assignment no agent works on and no handler is about to answer
  (`Lost`) is strongly fairly requeued: time passes, and after 15 minutes
  housekeeping's statement includes it.

Bounds (`MaxRound`, `MaxSpeed`, `MaxCrash`) end the observation, not the system:
after the last kill the fair steps still happen, and both properties are about
tasks and rounds that exist.

## Proofs

For every number of operators, segments, addresses, agents, handlers, rounds and
kills, every batch size and limit, every bag of rows and every size of a download,
from the constants' named assumptions and the hypotheses in the last column only:

| theorem | module | says | if |
|---|---|---|---|
| `TypeCorrect` | `MonitorProofs` | `TypeOK` of `Monitor` | |
| `RoundsRefine` | `MonitorProofs` | `scan_round` implements `RoundLog` | |
| `AliveEvidence` | `SafetyProofs` | an alive verdict rests on an ok sample of its round | |
| `WorkEvidence` | `SafetyProofs` | expand and trace tasks rest on one too | |
| `QueueRefine` | `SafetyProofs` | `task_queue` implements `WorkQueue` | |
| `ExpandedOnce` | `ExpandProofs` | no address is expanded twice for one operator in one round | |
| `ClaimsAreExpanded` | `ExpandProofs` | every host of a claimed segment has its task when the job is back | no kill, no row deleted for its age |
| `SilentExhaustive` | `ExhaustProofs` | a silent verdict comes only after every sample of its round was answered | |
| `OneSpeedTask` | `ExhaustProofs` | no two open speed tests of an operator are for one address | |
| `TasksAreInHandsOnce` | `ExhaustProofs` | no two agents or handlers have a task in hand | no assignment released |
| `SilentNeverContradicted` | `ExhaustProofs` | no ok sample of its round contradicts a silent verdict | no assignment released |
| `CompleteSamplesAreJudged` | `ExhaustProofs` | a fully answered segment has its verdict when no handler is at work | first round, no speed test, no kill |
| `StoreIsConsistent` | `ExhaustProofs` | `InductiveInv`, all of the above and what they rest on | |
| `BetterIsNotLeftOut` | `RankingProofs` | pick_best leaves no address out for a slower one of its region that is no better otherwise, for all rows and labels | |
| `MedianHalves` | `MeasureProofs` | the median's rank splits any number of samples in halves | |
| `StatsAreRight` | `MeasureProofs` | what tcp_ping reports is what the handshakes that count say, for any number of them, failed or not | |
| `PingsAreRight` | `MeasureProofs` | `PingsAreSound`, for every bound on the number of handshakes and all times | |
| `MeasureTypes` | `MeasureProofs` | `TypeOK` of `Measure` | |
| `BoundedDownloads` | `MeasureProofs` | a download's body ends within its bytes and time and one recv more, its header within its limit of bytes and a timeout for each | |
| `OperatorsStayApart` | `MeasureProofs` | `aggregate_recent` reads no row of another operator | |
| `FailuresAreIgnored` | `MeasureProofs` | failed probes change nothing of an eligible address | speed is required (in the property) |
| `CandidatesAreMeasured` | `MeasureProofs` | every candidate has a latency over HTTPS and a colo | |
| `PublishedWasAlive` | `MeasureProofs` | an eligible address answered within the lookback and was fast enough at this hour | |
| `FastestGetsTested` | `MeasureProofs` | a speed round tests a fastest address | no trace's time rounds to 0 |
| `ChainsAreFollowed` | `PublishProofs` | country, region and city of a hop are each what the first database of the field's chain has, but for dbip's region in China next to a city known without it | |
| `BestPublished` | `PublishProofs` | `BestIsPublished`: what `BetterIsNotLeftOut` says, over the rows and labels the run enumerates | |
| `HopsLocated` | `PublishProofs` | `HopsAreLocated`: what `ChainsAreFollowed` says, over the answers the run enumerates | |
| `TypeCorrect` | `PublishProofs` | `TypeOK` of `Publish` | |
| `RecordedBeforePublished` | `PublishProofs` | nothing is served that no snapshot has | |
| `ExportersIndependent` | `PublishProofs` | an exporter without a failure published the whole batch | |
| `LabelsEarned` | `PublishProofs` | a label was read off its operator's own traceroute of its address | |
| `LabelsOnlyAdvance` | `PublishProofs` | no label is replaced by one read off an older traceroute | |
| `FeedIsKept` | `PublishProofs` | publication implements `Feed` | |
| `SegmentsDisjoint` | `SourcesProofs` | every address scanned is a host of one segment, every sample a host of its own segment's expansion | networks disjoint and of /24 or more (in `SourcesAssumption`) |

**The hypotheses** of the conditional theorems are constants of `Monitor`. None is a
convenience of the proof: where the model finds the property violated without one, a run
shows it. `lost_expansion` is `ClaimsAreExpanded` with a kill, `silent_race` is
`SilentNeverContradicted` with a released assignment, `mixed_batch` is
`CompleteSamplesAreJudged` with a second round and a speed test. One hypothesis has no
run: where a trace takes a time of 0, `FastestIsTested` fails (`scoring.py:180`). That a kill between
mark_done and the verdict leaves a segment without one is the hazard of
`server.py:394`. Lost messages are allowed in all of them, released assignments and
deleted rows in `CompleteSamplesAreJudged`, kills in `TasksAreInHandsOnce` and
`SilentNeverContradicted`.

**The scan.** None of its properties is inductive by itself, because it depends
on what a job or a handler *read earlier and still believes*.

- `RoundsInv`: only the newest round can be running, and `sample_round` between
  its read and its write is the only one that could make another. It needs
  `sample_round` to carry the running round at `finish` and to know there is
  none at `create`; nobody else starts rounds, and housekeeping can only close.
- `EvidenceInv`: `AliveHasEvidence` needs that a handler about to write `alive`
  has read a hit (`VerdictsHaveEvidence`); `WorkHasEvidence` needs that the
  segments and addresses `process_results` carries have one
  (`ClaimsHaveEvidence`). Both last because ok rows are never deleted, although
  tasks are.
- `ExpandInv`: two expand tasks for one address could come from two runs or from
  two operators of one run. The first is excluded because the marks are never
  behind the tasks (`TasksBehindMarks`) and `claim` reads them in the step that
  moves them; the second because a claimed segment whose turn has still to come
  has no task of this round (`ClaimsUntouched`). `MarksInv` bounds the marks by
  the rounds, so that a new round's mark is new.
- `ClaimsPending`: a claimed segment either has its tasks or is on the list of the run
  that claimed it, with its operator still to come. Only a kill takes the list away.
- `FreshInv`: a row enqueued now was never there, which is what lets a new task
  be new in the abstract queue even after old ones were deleted.
- `ExhaustInv`: a handler that writes `silent` has counted "all done" in a step
  of the past. That all of a round's samples were in the table then needs that the round
  is planned for one operator in one statement, before any of its tasks can be
  handed out, and that a task answered stays done or is deleted.
- `SilentInv`: that no *hit* comes after the count needs more. The success another
  handler is about to store belongs to a task in that handler's batch; in hands once, that
  task is still assigned, so the sample was not complete when it was counted
  (`Unrefuted`).
- `JudgedInv`: whichever handler answers the last task of a segment has the segment
  ahead of it and will find the sample complete (`WillJudge`), even when others answered
  the rest. It needs that a batch is of one round, known to its handler from the
  rows it marks (`ReportsKnow`), which only the first round without speed tests
  guarantees (`FirstRoundOnly`).
- `SpeedInv`: between the filter and the enqueue of a speed round nobody else
  adds speed tests, and a requeued one is the same row.

`InductiveInv` is the conjunction of these (`ClaimsPending`, `SilentInv` and `JudgedInv`
under the hypotheses of their theorems) and is checked by TLC in `verdict`, `rounds` and `faults`.

**Measurement.** `BoundedDownloads` rests on `ProbesInv`: every probe under way is a
record with numbers where the steps count, and its counts are below their limits. The
test `bytes < MaxBytes` and `spent < Timeout` before each recv, with the shrinking wait,
carries it; with the whole timeout for each recv (the mutant) it does not hold. The header
is read without a deadline (`http_client.py:99-106`): since each recv brings a byte at
least and may take a timeout, its length is all that bounds its time, and an edge that
sends byte by byte holds the agent far past `speed_timeout_s`. The property says no more than that. What
the Scorer decides on rests on `RowsInv` and `ResultsInv`: from the end of a probe to the
table, a success carries what its kind measures. The rest is arithmetic of averages:
`AverageBounds` says that an average over rows which all have the column reaches no bound that
none of them reaches, and every bound that all of them do. `OperatorsStayApart` and
`FailuresAreIgnored` need no invariant, since they are about what the queries read of any
table; `FastestGetsTested` needs its hypothesis, because the code takes a latency of 0
for unknown (`scoring.py:180`). `HoursApart` is the arithmetic of the hour window round
midnight. `StatsAreRight` is a matter of counting: `EveryPlaceHasATime` shows that every
place of the sorted list is taken, so that a figure is one of the times and as many are
below and above it as its place says; `MedianHalves` and `HighPlace` bound the two places
by the number of samples, with round()'s halves to even. `MeasureTypes` needs `ProbesInv`
beside the types, for what a download has counted when it ends.

**Publication.** `TypeInv` adds to the types what the jobs hold. `PublishedInv`: the batch
an export run carries from the snapshot on to the exporters is in a snapshot for as long as
it carries it, and snapshots stay. `ExporterInv` follows each exporter through its loop:
as long as it met no failure, the operators it has behind it have what the batch says, at
its current call and at the end. `LabelInv`: a relabel run about to write carries
a label earned by a traceroute of its operator and address, and no older than the stored
one; it lasts because nobody else writes labels and reports only add traceroutes.

`FeedIsKept` maps what is recorded to the union of all snapshots, and the feed's offer to the
batch the export run carries while it is at its exporters, to nothing otherwise. Every step
is then one of the feed's or changes nothing of it: a snapshot under way, or part of one
after a kill, is `Record`; a file is `Write`; what a DNS request leaves behind is `Serve`,
also when its answer was lost. `PublishedInv` gives that an offer is recorded before it is
made, `ExporterInv` which operators the exporters have in hand.

**Address sources.** Clearing host bits leaves an address and a size that 256 divides
(`NetworkAligned`), hence segments between two multiples of 256. An address lies in one
network, since they are disjoint, and is divided by 256 in one way, so in one segment
(`HostOfOne`, `SegmentsOfNetworks`); an offset between 0 and 255 stays within it.

**Induction over data.** Averages and the least or greatest of a set are defined by recursion
over finite sets. `SmallestSubset` (`RankingProofs`) says that every family of subsets of
a finite set has a smallest member; each induction is a proof that the family of
counterexamples is empty. That the recursive function exists at all, which makes its
equation usable, is shown so as well (`SumExists`). `StringAssumption` in `RouteLabel`
says of the empty string what the provers do not know, that it is one.

Only model-checked is liveness (`TasksAreAnswered`, `RoundsEnd`): the prover does not do
fairness and ENABLED. Every other property of a passing run is stated by a theorem above.

## Plan

1. *Done:* the scan (`Storage`, `Reports`, `Scheduler`, `Monitor`), its abstract
   specifications, type correctness and the main safety theorems.
2. *Done, with safety:* publication (`Publish`, `Ranking`, `RouteLabel`). To
   add: more than one address in the jobs, liveness of the exports, and the
   frequency of traceroutes. trace_round runs every `trace_interval_hours` and
   leaves out what was traced within that time (`scheduler.py:240-246`); a
   traceroute follows its enqueue, so it is always too recent at the next run,
   and an address is traced every second run, not once in 24 hours
   (`README.md:48`). This wants a run over four intervals of the clock.
3. *Done:* an abstract specification of what a reader of the files and records may see
   (`Feed`), implemented by `Publish`.
4. *Done:* measurement (`Probes`, `Candidates`, `Measure`), `Enrich`, `Sources`. To
   add: two probes under way of which one holds the batch up (`pool.map` reports
   nothing until the last is done), and a run in which rows that a kill cut off
   are measured again.
5. *Done:* proofs of all safety properties the passing runs check and of the three
   refinements. To add: what items 2 and 4 add.

## Not modelled, and why

The dashboard, registration, token check and configuration change no state of
the scan; the defaults an agent would fill into a task never apply, since the
message type has defaults of its own (`shared/protocol.py:40-43`). icmp_ping is
called by no kind of task. The readers of the databases are third-party, and their answers open.
What a traceroute prints is parsed line by line; its hops are open. Time to
connect and to read an HTTPS answer is open: `http_get` bounds each recv and not
the whole, so that there is nothing to state of it. The jitter penalty cannot be switched
off by a `max_jitter_ms` of 0 or less (`scoring.py:140`), nor are the other limits 0
(`RankingAssumption`).
`release_assigned_tasks` is reached only when a row cannot be turned into a task
(`server.py:259`), which Strategy's rows always can; `consume_sample_results` and
`mark_segment_expanded` have no caller. Of the exporters, the layout of a line
and the signing of requests are left out. Of `aggregate_recent`, the columns nothing decides
on (`latency_p95`, counts, the place of the address) are.
