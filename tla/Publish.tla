------------------------------- MODULE Publish -------------------------------
(****************************************************************************)
(* What becomes of the measurements: trace_round, relabel_round and         *)
(* export_round (master/scheduler.py), the traceroute half of the report    *)
(* handler (master/server.py) and the two exporters.                        *)
(*                                                                          *)
(* The queue is the abstract one (WorkQueue): a traceroute task is open     *)
(* until a report of it is handled.  A job is a record as in Scheduler: pc  *)
(* names its next call, the other fields are its local variables.           *)
(****************************************************************************)
EXTENDS Ranking, Enrich

CONSTANTS
    Isp,            \* operators, each with a DNS line of its own
    Ip,             \* addresses
    Rows,           \* rows aggregate_recent may return for an address: the scan's results
    Paths,          \* hop lists a traceroute may return, as what the databases say of each hop
    Interval,       \* trace_interval_hours, in ticks of the clock
    TraceTopN,      \* trace_top_n_per_isp
    RecordsPerLine,
    MaxTime,        \* bound: the clock
    MaxTrace,       \* bound: runs of trace_round
    MaxExport,      \* bound: runs of export_round
    MaxRelabel,     \* bound: runs of relabel_round
    MaxSent,        \* bound: reports of traceroutes under way at a time
    MaxFault,       \* bound: kills of the master, lost reports and failures of exporters
    ScoredRows,     \* bound: rows and labels the pick is checked over as a function
    ScoredLabels,
    SomeAnswers     \* bound: answers of the databases lookup is checked over

ASSUME PublishAssumption ==
    /\ {Interval, TraceTopN, RecordsPerLine} \subseteq Nat \ {0}
    /\ {MaxTime, MaxTrace, MaxExport, MaxRelabel, MaxSent, MaxFault} \subseteq Nat
    /\ Rows \cup ScoredRows \subseteq Row
    /\ ScoredLabels \subseteq Label
    /\ Paths \subseteq Seq(Answers) /\ SomeAnswers \subseteq Answers
    /\ Isp # {}

VARIABLES
    now,        \* the clock
    snaps,      \* best_ip_snapshot
    open,       \* traceroute tasks that are pending or assigned
    sent,       \* reports of traceroutes on their way or being handled
    traces,     \* probe_trace_hops, one record per traceroute
    labels,     \* ip_route_label
    file,       \* the text file of each operator
    dns,        \* the addresses DNS serves on each operator's line, {} if no record set
    tj, rj,     \* the runs of trace_round and relabel_round
    ej,         \* the run of export_round; text and dns remember whether the exporter
                \* has done without a failure so far
    due,        \* when trace_round runs next
    count       \* how often the bounded things have happened

traceVars == <<tj, due, open>>
reportVars == <<sent, traces>>
relabelVars == <<rj, labels>>
exportVars == <<ej, snaps, file, dns>>
vars == <<now, traceVars, reportVars, relabelVars, exportVars, count>>

Task == [isp: Isp, ip: Ip, run: Nat]
\* The rows stored of the hops of a traceroute, and what a kill may leave of them.
Enriched(hops) == [k \in DOMAIN hops |-> Lookup(hops[k])]
Stored == UNION {{SubSeq(Enriched(path), 1, n) : n \in 1 .. Len(path)} : path \in Paths}
Trace == [isp: Isp, ip: Ip, at: Nat, hops: Stored]
Report == [task: Task, at: Nat, hops: Paths \cup {<<>>}, pc: {"sent", "hops"}]
Batch == [Isp -> SUBSET Ip]

IdleTrace == [pc |-> "idle", since |-> 0, todo |-> {}, cur |-> {}, ips |-> {}]
IdleRelabel == [pc |-> "idle", since |-> 0, todo |-> {}, cur |-> {}, ips |-> {},
                ip |-> {}, label |-> NoLabel]
IdleExport == [pc |-> "idle", todo |-> {}, cur |-> {}, batch |-> [i \in Isp |-> {}],
               found |-> FALSE, text |-> TRUE, dns |-> TRUE]

TypeOK ==
    /\ now \in Nat /\ due \in Nat
    /\ snaps \subseteq [isp: Isp, ip: Ip, at: Nat]
    /\ open \subseteq Task
    /\ sent \subseteq Report
    /\ traces \subseteq Trace
    /\ labels \in [Isp -> [Ip -> Label]]
    /\ file \in Batch /\ dns \in Batch
    /\ tj \in [pc: {"idle", "snapshot", "recent", "queue"}, since: Int, todo: SUBSET Isp,
               cur: SUBSET Isp, ips: SUBSET Ip]
    /\ rj \in [pc: {"idle", "recent", "fetch", "upsert"}, since: Int, todo: SUBSET Isp,
               cur: SUBSET Isp, ips: SUBSET Ip, ip: SUBSET Ip, label: Label]
    /\ ej \in [pc: {"idle", "pick", "save", "text", "find", "put", "return"}, todo: SUBSET Isp,
               cur: SUBSET Isp, batch: Batch, found: BOOLEAN, text: BOOLEAN, dns: BOOLEAN]
    /\ count \in [{"trace", "relabel", "export", "fault"} -> Nat]

Init ==
    /\ now = 0 /\ due = 0
    /\ snaps = {} /\ open = {} /\ sent = {} /\ traces = {}
    /\ labels = [i \in Isp |-> [p \in Ip |-> NoLabel]]
    /\ file = [i \in Isp |-> {}] /\ dns = [i \in Isp |-> {}]
    /\ tj = IdleTrace /\ rj = IdleRelabel /\ ej = IdleExport
    /\ count = [c \in {"trace", "relabel", "export", "fault"} |-> 0]

Count(what) == count' = [count EXCEPT ![what] = @ + 1]
Fault == count["fault"] < MaxFault /\ Count("fault")

----------------------------------------------------------------------------
Tick ==
    /\ now < MaxTime
    /\ now' = now + 1
    /\ UNCHANGED <<traceVars, reportVars, relabelVars, exportVars, count>>

----------------------------------------------------------------------------
(* run_trace_round *)

\* Every loop over operators takes them in the order of the configured list.
First(todo) == CHOOSE i \in todo : TRUE

\* What the loop over operators does after its body.
NextIsp(j, pc, idle) == IF j.todo = {} THEN idle ELSE [j EXCEPT !.pc = pc, !.cur = {}, !.ips = {}]

TraceStart ==
    /\ tj.pc = "idle" /\ now >= due /\ count["trace"] < MaxTrace
    /\ tj' = [IdleTrace EXCEPT !.pc = "snapshot", !.todo = Isp, !.since = now - 2 * Interval]
    /\ due' = now + Interval
    /\ Count("trace")
    /\ UNCHANGED <<now, open, reportVars, relabelVars, exportVars>>

\* best_snapshot_ips
SnapshotIps(i, since) == {s.ip : s \in {x \in snaps : x.isp = i /\ x.at >= since}}

TraceSnapshot ==
    /\ tj.pc = "snapshot"
    /\ LET i == First(tj.todo)
           ips == SnapshotIps(i, tj.since)
           j == [tj EXCEPT !.todo = @ \ {i}, !.cur = {i}, !.ips = ips]
       IN  tj' = IF ips = {} THEN NextIsp(j, "snapshot", IdleTrace)
                 ELSE [j EXCEPT !.pc = "recent"]
    /\ UNCHANGED <<now, due, open, reportVars, relabelVars, exportVars, count>>

\* recent_trace_ips
RecentTraceIps(i, cutoff) == {tr.ip : tr \in {x \in traces : x.isp = i /\ x.at >= cutoff}}

\* The first TraceTopN of a list without an order.
TraceRecent ==
    /\ tj.pc = "recent"
    /\ \E i \in tj.cur, ips \in SUBSET tj.ips :
          LET todo == tj.ips \ RecentTraceIps(i, now - Interval) IN
          /\ ips \subseteq todo /\ Cardinality(ips) = AtMost(TraceTopN, Cardinality(todo))
          /\ tj' = IF ips = {} THEN NextIsp(tj, "snapshot", IdleTrace)
                   ELSE [tj EXCEPT !.pc = "queue", !.ips = ips]
    /\ UNCHANGED <<now, due, open, reportVars, relabelVars, exportVars, count>>

\* queue_traceroute
TraceRows == {[isp |-> i, ip |-> p, run |-> count["trace"]] : i \in tj.cur, p \in tj.ips}
TraceQueue ==
    /\ tj.pc = "queue"
    /\ open' = open \cup TraceRows
    /\ tj' = NextIsp(tj, "snapshot", IdleTrace)
    /\ UNCHANGED <<now, due, reportVars, relabelVars, exportVars, count>>

----------------------------------------------------------------------------
(* Traceroutes and their reports *)

\* An agent of the operator traces an open task's address; a task handed out again is
\* traced again.  A traceroute that fails to run has no hops; one that nobody answers is
\* reported as failed, with its hops all the same.
TraceDone ==
    /\ \E t \in open, path \in Paths \cup {<<>>} :
          sent' = sent \cup {[task |-> t, at |-> now, hops |-> path, pc |-> "sent"]}
    /\ Cardinality(sent') <= MaxSent
    /\ UNCHANGED <<now, traceVars, traces, relabelVars, exportVars, count>>

ReportLost ==
    /\ Fault
    /\ \E r \in sent : r.pc = "sent" /\ sent' = sent \ {r}
    /\ UNCHANGED <<now, traceVars, traces, relabelVars, exportVars>>

\* mark_done; a traceroute without hops has nothing more to store.
ReportMarkDone ==
    /\ \E r \in sent :
          /\ r.pc = "sent"
          /\ open' = open \ {r.task}
          /\ sent' = (sent \ {r}) \cup (IF r.hops = <<>> THEN {} ELSE {[r EXCEPT !.pc = "hops"]})
    /\ UNCHANGED <<now, tj, due, traces, relabelVars, exportVars, count>>

\* insert_trace_hops
TraceOf(r, hops) == [isp |-> r.task.isp, ip |-> r.task.ip, at |-> r.at, hops |-> hops]
ReportInsertHops ==
    /\ \E r \in sent :
          /\ r.pc = "hops"
          /\ sent' = sent \ {r}
          /\ traces' = traces \cup {TraceOf(r, Enriched(r.hops))}
    /\ UNCHANGED <<now, traceVars, relabelVars, exportVars, count>>

----------------------------------------------------------------------------
(* run_relabel_round *)

RelabelStart ==
    /\ rj.pc = "idle" /\ count["relabel"] < MaxRelabel
    /\ Count("relabel")
    /\ rj' = [IdleRelabel EXCEPT !.pc = "recent", !.todo = Isp, !.since = now - 2 * Interval]
    /\ UNCHANGED <<now, traceVars, reportVars, labels, exportVars>>

\* The loop over the addresses of an operator, inside the loop over operators.
NextLabel(j) == IF j.ips = {} THEN NextIsp(j, "recent", IdleRelabel) ELSE [j EXCEPT !.pc = "fetch"]

RelabelRecent ==
    /\ rj.pc = "recent"
    /\ LET i == First(rj.todo) IN
       rj' = NextLabel([rj EXCEPT !.todo = @ \ {i}, !.cur = {i},
                                  !.ips = RecentTraceIps(i, now - 2 * Interval)])
    /\ UNCHANGED <<now, traceVars, reportVars, labels, exportVars, count>>

\* Faulty variants: any traceroute of the window; the latest of any operator.
LatestTracesAny(i, p, since) == {tr \in traces : tr.isp = i /\ tr.ip = p /\ tr.at >= since}
LatestTracesAnyIsp(i, p, since) ==
    {tr \in traces : /\ tr.ip = p /\ tr.at >= since
                     /\ \A u \in traces : u.ip = p => u.at <= tr.at}

\* fetch_trace_hops: the hops measured last, of traceroutes since the cutoff.
LatestTraces(i, p, since) ==
    {tr \in traces : /\ tr.isp = i /\ tr.ip = p /\ tr.at >= since
                     /\ \A u \in traces : u.isp = i /\ u.ip = p => u.at <= tr.at}

RelabelFetch ==
    /\ rj.pc = "fetch"
    /\ \E i \in rj.cur, p \in rj.ips :
          \/ /\ LatestTraces(i, p, rj.since) = {}
             /\ rj' = NextLabel([rj EXCEPT !.ips = @ \ {p}])
          \/ \E tr \in LatestTraces(i, p, rj.since) :
                rj' = [rj EXCEPT !.pc = "upsert", !.ips = @ \ {p}, !.ip = {p},
                                 !.label = LabelOne(tr.hops, i, tr.at)]
    /\ UNCHANGED <<now, traceVars, reportVars, labels, exportVars, count>>

\* upsert_route_label
RelabelUpsert ==
    /\ rj.pc = "upsert"
    /\ \E i \in rj.cur, p \in rj.ip : labels' = [labels EXCEPT ![i][p] = rj.label]
    /\ rj' = NextLabel([rj EXCEPT !.ip = {}, !.label = NoLabel])
    /\ UNCHANGED <<now, traceVars, reportVars, exportVars, count>>

----------------------------------------------------------------------------
(* run_export_round *)

ExportStart ==
    /\ ej.pc = "idle" /\ count["export"] < MaxExport
    /\ Count("export")
    /\ ej' = [IdleExport EXCEPT !.pc = "pick", !.todo = Isp]
    /\ UNCHANGED <<now, traceVars, reportVars, relabelVars, snaps, file, dns>>

\* The labels pick_best sees: get_route_labels, or none.
SeenLabels(i) == IF RouteQualityEnabled THEN labels[i] ELSE [p \in Ip |-> NoLabel]

\* pick_best.  Its rows come from tables no job of this module writes, so that reading
\* them and reading the labels are one step.
ExportPick ==
    /\ ej.pc = "pick"
    /\ LET i == First(ej.todo) IN
       \E found \in [Ip -> Rows \cup {NoRow}] : \E picks \in PickBest(found, SeenLabels(i)) :
          ej' = [ej EXCEPT !.pc = IF ej.todo = {i} THEN "save" ELSE "pick",
                           !.todo = @ \ {i}, !.batch[i] = picks]
    /\ UNCHANGED <<now, traceVars, reportVars, relabelVars, snaps, file, dns, count>>

SnapshotRows == {[isp |-> i, ip |-> p, at |-> now] : i \in Isp, p \in Ip}
BatchRows == {s \in SnapshotRows : s.ip \in ej.batch[s.isp]}

\* Faulty variant: a batch is saved only when every operator has a pick.
ExportSaveComplete ==
    /\ ej.pc = "save"
    /\ snaps' = IF \A i \in Isp : ej.batch[i] # {} THEN snaps \cup BatchRows ELSE snaps
    /\ ej' = [ej EXCEPT !.pc = "text", !.todo = Isp]
    /\ UNCHANGED <<now, traceVars, reportVars, relabelVars, file, dns, count>>

\* save_snapshot, and then the exporters.
ExportSave ==
    /\ ej.pc = "save"
    /\ snaps' = snaps \cup BatchRows
    /\ ej' = [ej EXCEPT !.pc = "text", !.todo = Isp]
    /\ UNCHANGED <<now, traceVars, reportVars, relabelVars, file, dns, count>>

\* Going on to the DNS exporter, or ending the run.
ToDns(j) == [j EXCEPT !.pc = "find", !.todo = Isp, !.cur = {}]
EndExport(j) == [j EXCEPT !.pc = "return", !.todo = {}, !.cur = {}, !.found = FALSE]

\* _atomic_write
TextWrite ==
    /\ ej.pc = "text"
    /\ LET i == First(ej.todo) IN
       /\ file' = [file EXCEPT ![i] = ej.batch[i]]
       /\ ej' = IF ej.todo = {i} THEN ToDns(ej) ELSE [ej EXCEPT !.todo = @ \ {i}]
    /\ UNCHANGED <<now, traceVars, reportVars, relabelVars, snaps, dns, count>>

\* The same in merged mode, all operators in one file; the mode is left open.
TextWriteMerged ==
    /\ ej.pc = "text" /\ ej.todo = Isp
    /\ file' = ej.batch
    /\ ej' = ToDns(ej)
    /\ UNCHANGED <<now, traceVars, reportVars, relabelVars, snaps, dns, count>>

\* Faulty variant: the failure of an exporter ends the run.
TextFailEndsRun ==
    /\ ej.pc = "text" /\ Fault
    /\ ej' = EndExport([ej EXCEPT !.text = FALSE])
    /\ UNCHANGED <<now, traceVars, reportVars, relabelVars, snaps, file, dns>>

\* A write fails: the operators still to be written keep their old file.
TextFail ==
    /\ ej.pc = "text" /\ Fault
    /\ ej' = ToDns([ej EXCEPT !.text = FALSE])
    /\ UNCHANGED <<now, traceVars, reportVars, relabelVars, snaps, file, dns>>

\* What the DNS exporter does after an operator.
AfterDns(j) == IF j.todo = {} THEN EndExport(j) ELSE [j EXCEPT !.pc = "find", !.cur = {}]

\* Faulty variant: an operator without a pick is served like the others.
DnsFindEmpty ==
    /\ ej.pc = "find"
    /\ LET i == First(ej.todo)
           j == [ej EXCEPT !.todo = @ \ {i}]
       IN  \/ /\ ej' = [j EXCEPT !.pc = "put", !.cur = {i}, !.found = dns[i] # {}]
              /\ UNCHANGED count
           \/ /\ ej' = [j EXCEPT !.pc = "put", !.cur = {i}, !.found = FALSE, !.dns = FALSE]
              /\ Fault
    /\ UNCHANGED <<now, traceVars, reportVars, relabelVars, snaps, file, dns>>

\* _find_recordset: a failed list reads as no record set.
DnsFind ==
    /\ ej.pc = "find"
    /\ LET i == First(ej.todo)
           j == [ej EXCEPT !.todo = @ \ {i}]
       IN  IF ej.batch[i] = {} THEN ej' = AfterDns(j) /\ UNCHANGED count
           ELSE \/ /\ ej' = [j EXCEPT !.pc = "put", !.cur = {i}, !.found = dns[i] # {}]
                   /\ UNCHANGED count
                \/ /\ ej' = [j EXCEPT !.pc = "put", !.cur = {i}, !.found = FALSE, !.dns = FALSE]
                   /\ Fault
    /\ UNCHANGED <<now, traceVars, reportVars, relabelVars, snaps, file, dns>>

\* What a PUT to the record set found, or the POST of a new one, does at the service: it
\* accepts a new one only if the line has none.
Accepted(i) == ej.found \/ dns[i] = {}
Serve(i) ==
    \E records \in SUBSET ej.batch[i] :
        /\ Cardinality(records) = AtMost(RecordsPerLine, Cardinality(ej.batch[i]))
        /\ dns' = [dns EXCEPT ![i] = records]

\* _upsert_recordset; the status is only logged.
DnsPut ==
    /\ ej.pc = "put"
    /\ \E i \in ej.cur :
          \/ /\ Accepted(i) /\ Serve(i)
             /\ ej' = AfterDns(ej)
             /\ UNCHANGED count
          \/ /\ IF Accepted(i) THEN Fault ELSE UNCHANGED count
             /\ ej' = AfterDns([ej EXCEPT !.dns = FALSE])
             /\ UNCHANGED dns
    /\ UNCHANGED <<now, traceVars, reportVars, relabelVars, snaps, file>>

\* A request of the DNS exporter raises; if only its answer was lost, the service has
\* done what it asked for.
DnsFail ==
    /\ ej.pc \in {"find", "put"} /\ Fault
    /\ \/ UNCHANGED dns
       \/ ej.pc = "put" /\ \E i \in ej.cur : Accepted(i) /\ Serve(i)
    /\ ej' = EndExport([ej EXCEPT !.dns = FALSE])
    /\ UNCHANGED <<now, traceVars, reportVars, relabelVars, snaps, file>>

ExportReturn ==
    /\ ej.pc = "return"
    /\ ej' = IdleExport
    /\ UNCHANGED <<now, traceVars, reportVars, relabelVars, snaps, file, dns, count>>

----------------------------------------------------------------------------
\* The master process is killed and restarted.  Statements run in autocommit: the one
\* under way may have stored a part of its rows.
Crash ==
    /\ Fault
    /\ tj' = IdleTrace /\ rj' = IdleRelabel /\ ej' = IdleExport /\ due' = now
    /\ \E rows \in SUBSET (IF tj.pc = "queue" THEN TraceRows ELSE {}) : open' = open \cup rows
    /\ \E rows \in SUBSET (IF ej.pc = "save" THEN BatchRows ELSE {}) : snaps' = snaps \cup rows
    /\ LET cut == {r \in sent : r.pc = "hops"} IN
       /\ sent' = sent \ cut
       /\ \E kept \in [cut -> Stored \cup {<<>>}] :
             /\ \A r \in cut : IsPrefix(kept[r], Enriched(r.hops))
             /\ traces' = traces \cup {TraceOf(r, kept[r]) : r \in {x \in cut : kept[x] # <<>>}}
    /\ UNCHANGED <<now, labels, file, dns>>

Next ==
    \/ Tick \/ Crash
    \/ TraceStart \/ TraceSnapshot \/ TraceRecent \/ TraceQueue
    \/ TraceDone \/ ReportLost \/ ReportMarkDone \/ ReportInsertHops
    \/ RelabelStart \/ RelabelRecent \/ RelabelFetch \/ RelabelUpsert
    \/ ExportStart \/ ExportPick \/ ExportSave
    \/ TextWrite \/ TextWriteMerged \/ TextFail \/ DnsFind \/ DnsPut \/ DnsFail \/ ExportReturn

Spec == Init /\ [][Next]_vars

----------------------------------------------------------------------------
(* Properties *)

Recorded(i) == {s.ip : s \in {x \in snaps : x.isp = i}}
Exporting == {"text", "find", "put", "return"}

\* What is read is the feed: a file or a line changes only to what the batch under way has
\* for it, whole and recorded before, whatever fails and whenever the master is killed
\* (master/scheduler.py, run_export_round; master/exporters).
Public == INSTANCE Feed WITH
    recorded <- [i \in Isp |-> Recorded(i)],
    offer <- IF ej.pc \in Exporting THEN {ej.batch} ELSE {}
ReadersSeeBatches == Public!FDSpec

\* Whatever a consumer of the files or of DNS is given was saved as a snapshot before:
\* traceroutes and the dashboard know of it (master/scheduler.py, run_export_round).
PublishedIsRecorded == \A i \in Isp : file[i] \cup dns[i] \subseteq Recorded(i)

\* Whenever export_round comes to pick, the better of two addresses of a region is picked,
\* whatever their rows and labels (Ranking, BestIsPicked; master/scoring.py).
BestIsPublished == ej.pc = "pick" => BestIsPicked(Ip, ScoredRows, ScoredLabels)

\* Before anything is published: country, region and city of a hop are each what the first
\* database of the field's chain has, but for dbip's region in China next to a city known
\* without it (Enrich, FieldsFollowChains; master/enrich.py, module docstring).
HopsAreLocated == count["export"] = 0 => \A a \in SomeAnswers : FieldsFollowChains(a)

\* An exporter without a failure published the whole batch, whatever became of the other
\* one: no failed write keeps DNS on old addresses, no failed call keeps a file old.
ExportersFailAlone ==
    ej.pc = "return" =>
        \A i \in Isp :
            /\ ej.text => file[i] = ej.batch[i]
            /\ ej.dns /\ ej.batch[i] # {} =>
                  /\ dns[i] \subseteq ej.batch[i]
                  /\ Cardinality(dns[i]) = AtMost(RecordsPerLine, Cardinality(ej.batch[i]))

\* The label of an address under an operator was read off a traceroute that operator's
\* own agents made of that address (master/labeling.py, relabel_recent).
LabelsAreEarned ==
    \A i \in Isp, p \in Ip : labels[i][p] # NoLabel =>
        \E tr \in traces : /\ tr.isp = i /\ tr.ip = p
                           /\ labels[i][p] = LabelOne(tr.hops, i, tr.at)

\* A label is never replaced by one read off an older traceroute, though reports arrive
\* late and in any order and the master is killed (master/storage.py, fetch_trace_hops).
LabelsNeverGoBack ==
    [][\A i \in Isp, p \in Ip : labels'[i][p].at >= labels[i][p].at]_labels
=============================================================================
