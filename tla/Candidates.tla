------------------------------ MODULE Candidates -----------------------------
(****************************************************************************)
(* What the master reads of the measurements: aggregate_recent              *)
(* (master/storage.py) and the addresses worth a speed test                 *)
(* (master/scoring.py).  The table probe_raw is a bag of rows, since two    *)
(* equal rows count twice in an average.  Time is counted in hours.         *)
(****************************************************************************)
EXTENDS Ranking

CONSTANTS
    Isp, Ip,
    Day,                  \* hours of a day
    Lookback,             \* lookback_days, in hours
    Window,               \* same_hour_window
    Percent,              \* speed_top_percentile, in hundredths
    Scale                 \* common denominator of all averages; limits are times Scale

ASSUME CandidatesAssumption ==
    /\ {Day, Scale} \subseteq Nat \ {0}
    /\ {Lookback, Window} \subseteq Nat
    /\ Percent \in 0 .. 100

\* A row of probe_raw, by the columns that are read back.
ProbeRow == [isp: Isp, ip: Ip, kind: {"tcp_ping", "http_trace", "speed"}, ok: BOOLEAN, at: Int,
             latency: Nat \cup {NoValue}, jitter: Nat \cup {NoValue},
             speed: Nat \cup {NoValue}, colo: STRING]

\* The rows of one operator and address since a time.
Recent(table, i, p, since) ==
    {r \in BagToSet(table) : r.isp = i /\ r.ip = p /\ r.at >= since}
OkRows(rows, kind) == {r \in rows : r.kind = kind /\ r.ok}

\* hour_set, hour_bucket
HourSet(now) == {(now + offset) % Day : offset \in -Window .. Window}
InHours(rows, now) == {r \in rows : r.at % Day \in HourSet(now)}

\* AVG of a column over some rows of the table: a NULL does not count, and none is NULL.
Average(table, rows, column) ==
    LET counted == {r \in rows : r[column] # NoValue}
        total == SumFunction([r \in counted |-> table[r] * r[column]])
        number == SumFunction([r \in counted |-> table[r]])
    IN  IF counted = {} THEN NoValue ELSE (Scale * total) \div number

\* The first of two averages that is not NULL.
Coalesce(a, b) == IF a # NoValue THEN a ELSE b

\* last_colo: of the latest trace ever, not only of the recent ones.
LastColo(table, i, p) ==
    LET traces == {r \in BagToSet(table) :
                      r.isp = i /\ r.ip = p /\ r.kind = "http_trace" /\ r.ok}
    IN  CHOOSE c \in {r.colo : r \in {x \in traces : \A y \in traces : y.at <= x.at}} : TRUE

\* Faulty variant: the trace that makes a candidate may be of any age.
GroupedForever(table, i, now) ==
    {p \in Ip : /\ OkRows({r \in BagToSet(table) : r.isp = i /\ r.ip = p}, "http_trace") # {}
                /\ InHours(Recent(table, i, p, now - Lookback), now) # {}}

\* The addresses with a row in the hours around now's and a successful trace at any hour.
Grouped(table, i, now) ==
    {p \in Ip : LET rows == Recent(table, i, p, now - Lookback)
                IN  OkRows(rows, "http_trace") # {} /\ InHours(rows, now) # {}}

\* Faulty variants: a latency may come from any operator's rows; failed traces count.
TraceLatencyAnyIsp(table, i, p, now) ==
    Average(table, OkRows(UNION {Recent(table, j, p, now - Lookback) : j \in Isp}, "http_trace"), "latency")
TraceLatencyFailed(table, i, p, now) ==
    Average(table, {r \in Recent(table, i, p, now - Lookback) : r.kind = "http_trace"}, "latency")

\* The subquery of lat_p50: all hours count.
TraceLatency(table, i, p, now) ==
    Average(table, OkRows(Recent(table, i, p, now - Lookback), "http_trace"), "latency")

\* aggregate_recent
AggregateRecent(table, i, now) ==
    [p \in Grouped(table, i, now) |->
        LET rows == InHours(Recent(table, i, p, now - Lookback), now)
            pings == OkRows(rows, "tcp_ping")
        IN  [latency |-> Coalesce(TraceLatency(table, i, p, now),
                                  Average(table, pings, "latency")),
             jitter |-> Average(table, pings, "jitter"),
             speed |-> Average(table, OkRows(rows, "speed"), "speed"),
             colo |-> LastColo(table, i, p)]]

\* The key latency_top_candidates sorts by, negated: a latency of 0 is taken for unknown.
Nearness(r) == IF r.latency = 0 THEN -9999 * Scale ELSE -r.latency

\* Faulty variant: the cut may be empty.
LatencyTopEmpty(rows) ==
    LET ips == {p \in DOMAIN rows : rows[p].latency # NoValue /\ rows[p].latency <= MaxLatency}
    IN  BestOf(ips, (Cardinality(ips) * Percent) \div 100, [p \in ips |-> Nearness(rows[p])])

\* latency_top_candidates: what it may return, ties in any order.
LatencyTop(rows) ==
    LET ips == {p \in DOMAIN rows : rows[p].latency # NoValue /\ rows[p].latency <= MaxLatency}
        cut == AtLeast(1, (Cardinality(ips) * Percent) \div 100)
    IN  BestOf(ips, cut, [p \in ips |-> Nearness(rows[p])])
=============================================================================
