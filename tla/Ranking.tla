------------------------------- MODULE Ranking -------------------------------
(****************************************************************************)
(* The Scorer (master/scoring.py): which addresses of an operator are       *)
(* published.  Scores are compared only with each other, so the model       *)
(* computes them exactly, multiplied by a common denominator.               *)
(****************************************************************************)
EXTENDS RouteLabel, Probes

CONSTANTS
    Region,               \* the region of a colo (COLO_TO_REGION_CN)
    MinSpeed, MaxLatency, MaxJitter, TopN,
    SpeedRequired, RouteQualityEnabled

ASSUME RankingAssumption ==
    /\ {MinSpeed, MaxLatency, MaxJitter, TopN} \subseteq Nat \ {0}
    /\ {SpeedRequired, RouteQualityEnabled} \subseteq BOOLEAN

\* A row of aggregate_recent, with NoValue for a NULL average.
Row == [latency: Nat \cup {NoValue}, jitter: Nat \cup {NoValue},
        speed: Nat \cup {NoValue}, colo: DOMAIN Region]
NoRow == [latency |-> NoValue, jitter |-> NoValue, speed |-> NoValue,
          colo |-> CHOOSE c \in DOMAIN Region : TRUE]

Eligible(r) ==
    /\ r.latency # NoValue /\ r.latency <= MaxLatency
    /\ SpeedRequired => r.speed # NoValue /\ r.speed >= MinSpeed

\* _jitter_penalty, of 2 * MaxJitter: never below a half.
JitterPenalty(r) ==
    IF r.jitter = NoValue THEN 2 * MaxJitter
    ELSE AtLeast(MaxJitter, AtMost(2 * MaxJitter, 2 * (MaxJitter - r.jitter)))

\* lat_norm, of LatencyUnit
LatencyUnit == MaxLatency * 2 * MaxJitter
LatencyPart(r) == AtLeast(0, MaxLatency - r.latency) * JitterPenalty(r)

\* spd_norm, of 3 * MinSpeed: three times the required speed is enough.
SpeedPart(r) == AtMost(3 * MinSpeed, r.speed)

\* _route_quality, of 100: an address without a label counts as unknown.
RoutePart(label) ==
    IF label = NoLabel THEN Quality["unknown"]
    ELSE IF label.quality # 0 THEN label.quality ELSE Quality[label.line]

\* _score: the weights, in tenths, of the three parts.
Weights(r) ==
    CASE SpeedRequired /\ r.speed # NoValue /\ RouteQualityEnabled -> <<5, 3, 2>>
      [] SpeedRequired /\ r.speed # NoValue /\ ~RouteQualityEnabled -> <<6, 4, 0>>
      [] ~(SpeedRequired /\ r.speed # NoValue) /\ RouteQualityEnabled -> <<7, 0, 3>>
      [] OTHER -> <<10, 0, 0>>

\* Faulty variant: the penalty grows as the jitter shrinks.
ScoreJitterInverted(r, label) ==
    LET w == Weights(r)
        penalty == 3 * MaxJitter - JitterPenalty(r)
    IN  w[1] * AtLeast(0, MaxLatency - r.latency) * penalty * 3 * MinSpeed * 100
        + w[2] * SpeedPart(r) * LatencyUnit * 100
        + w[3] * RoutePart(label) * LatencyUnit * 3 * MinSpeed

Score(r, label) ==
    LET w == Weights(r)
    IN  w[1] * LatencyPart(r) * 3 * MinSpeed * 100
        + w[2] * SpeedPart(r) * LatencyUnit * 100
        + w[3] * RoutePart(label) * LatencyUnit * 3 * MinSpeed

\* Sorting by score and cutting off, ties in any order: the sets this can leave.
BestOf(ips, n, score) ==
    {T \in SUBSET ips :
        /\ Cardinality(T) = AtMost(n, Cardinality(ips))
        /\ \A p \in T, q \in ips \ T : score[p] >= score[q]}

\* pick_best: what it may return for these rows and labels of addresses, the best of
\* each region.
PickBest(rows, labels) ==
    LET ips == {p \in DOMAIN rows : Eligible(rows[p])}
        bucket(g) == {p \in ips : Region[rows[p].colo] = g}
        regions == {Region[rows[p].colo] : p \in ips}
        score == [p \in ips |-> Score(rows[p], labels[p])]
    IN  {T \in SUBSET ips :
            \A g \in regions : T \cap bucket(g) \in BestOf(bucket(g), TopN, score)}

\* p is at least as good as q by every measure, and faster.
Dominates(rows, labels, p, q) ==
    LET worth(label) == IF label = NoLabel THEN Quality["unknown"] ELSE label.quality
    IN  /\ Eligible(rows[p]) /\ Eligible(rows[q])
        /\ Region[rows[p].colo] = Region[rows[q].colo]
        /\ rows[p].latency < rows[q].latency
        /\ rows[p].jitter <= rows[q].jitter
        /\ rows[p].speed >= rows[q].speed
        /\ worth(labels[p]) >= worth(labels[q])

\* A better address is never left out for a worse one: whatever the rows and labels,
\* pick_best returns no address without the ones of its region that are faster and as
\* good by jitter, speed and line (master/scoring.py, pick_best and _score).
BestIsPicked(ips, rows, labels) ==
    \A found \in [ips -> rows], seen \in [ips -> labels] :
        \A picks \in PickBest(found, seen) :
            \A p \in ips \ picks, q \in picks : ~Dominates(found, seen, p, q)
=============================================================================
