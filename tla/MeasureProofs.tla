----------------------------- MODULE MeasureProofs ---------------------------
(* Theorems about Probes, Candidates and Measure, for every value of the constants. *)
EXTENDS Measure, RankingProofs, TLAPS

(* The median of any number of samples leaves at least half of them on each
   side, whichever way an index that ends in a half is rounded
   (agent/probes/tcp_ping.py, _percentile). *)
THEOREM MedianHalves ==
    ASSUME NEW n \in Nat \ {0}
    PROVE  HalvesAt(n, PercentileIndex(n, 1, 2))
<1> DEFINE m == n - 1
           floor == m \div 2
           rest == m % 2
           idx == Round(m, 2)
<1>1. m \in Nat
  OBVIOUS
<1>2. floor \in Nat /\ rest \in 0 .. 1 /\ m = 2 * floor + rest
  <2> HIDE DEF m
  <2> QED
    BY <1>1
<1>3. idx \in {floor, floor + 1} /\ (rest = 0 => idx = floor)
  BY <1>2 DEF Round
<1>4. PercentileIndex(n, 1, 2) = 1 + AtLeast(0, AtMost(m, idx))
  BY DEF PercentileIndex
<1> HIDE DEF floor, rest, idx
<1>5. idx \in 0 .. m
  BY <1>1, <1>2, <1>3
<1>6. PercentileIndex(n, 1, 2) = idx + 1
  BY <1>1, <1>4, <1>5 DEF AtLeast, AtMost
<1>7. 2 * (idx + 1) >= n /\ 2 * (n - idx) >= n
  BY <1>2, <1>3
<1> QED
  BY <1>5, <1>6, <1>7 DEF HalvesAt

(* Of any number of samples, less than a twentieth and one lie beyond the place taken
   for the high percentile, and it never lies before the median's. *)
LEMMA HighPlace ==
    ASSUME NEW n \in Nat \ {0}
    PROVE  LET high == PercentileIndex(n, 19, 20) IN
           /\ high \in 1 .. n /\ 20 * (n - high) < n + 20
           /\ PercentileIndex(n, 1, 2) <= high
<1> DEFINE m == n - 1
           floor == (19 * m) \div 20
           rest == (19 * m) % 20
           idx == Round(19 * m, 20)
           half == m \div 2
           odd == m % 2
           mid == Round(m, 2)
<1>1. m \in Nat
  OBVIOUS
<1>2. floor \in Nat /\ rest \in 0 .. 19 /\ 19 * m = 20 * floor + rest
      /\ half \in Nat /\ odd \in 0 .. 1 /\ m = 2 * half + odd
  <2> HIDE DEF m
  <2> QED
    BY <1>1
<1>3. idx \in {floor, floor + 1} /\ (rest < 10 => idx = floor) /\ (rest > 10 => idx = floor + 1)
  BY <1>2 DEF Round
<1>4. mid \in {half, half + 1} /\ (odd = 0 => mid = half)
  BY <1>2 DEF Round
<1>5. /\ PercentileIndex(n, 19, 20) = 1 + AtLeast(0, AtMost(m, idx))
      /\ PercentileIndex(n, 1, 2) = 1 + AtLeast(0, AtMost(m, mid))
  BY DEF PercentileIndex
<1>6. n = m + 1
  OBVIOUS
<1> HIDE DEF m, floor, rest, idx, half, odd, mid
<1>7. idx \in 0 .. m /\ mid \in 0 .. m
  BY <1>1, <1>2, <1>3, <1>4
<1>8. PercentileIndex(n, 19, 20) = idx + 1 /\ PercentileIndex(n, 1, 2) = mid + 1
  BY <1>1, <1>5, <1>7 DEF AtLeast, AtMost
<1>9. 20 * (n - (idx + 1)) < n + 20
  BY <1>1, <1>2, <1>3, <1>6
<1>10. mid <= idx
  BY <1>1, <1>2, <1>3, <1>4
<1>11. idx + 1 \in 1 .. n /\ mid + 1 <= idx + 1
  BY <1>1, <1>6, <1>7, <1>10
<1> QED
  BY <1>8, <1>9, <1>11

(* Sorting.  The numbers of the handshakes that count stand for their times. *)

UpTo(good, rtts, t) == {k \in good : rtts[k] <= t}
Below(good, rtts, t) == {k \in good : rtts[k] < t}

LEMMA SubsetCounts ==
    ASSUME NEW S, IsFiniteSet(S)
    PROVE  /\ Cardinality(S) \in Nat /\ (Cardinality(S) = 0 <=> S = {})
           /\ \A T \in SUBSET S :
                /\ IsFiniteSet(T) /\ Cardinality(T) \in Nat
                /\ Cardinality(T) <= Cardinality(S)
                /\ Cardinality(S \ T) = Cardinality(S) - Cardinality(T)
<1>1. Cardinality(S) \in Nat /\ (Cardinality(S) = 0 <=> S = {})
  BY FS_CardinalityType, FS_EmptySet
<1> SUFFICES ASSUME NEW T \in SUBSET S
             PROVE  /\ IsFiniteSet(T) /\ Cardinality(T) \in Nat
                    /\ Cardinality(T) <= Cardinality(S)
                    /\ Cardinality(S \ T) = Cardinality(S) - Cardinality(T)
  BY <1>1
<1>2. IsFiniteSet(T) /\ Cardinality(T) <= Cardinality(S)
  BY FS_Subset
<1>3. Cardinality(T) \in Nat
  BY <1>2, FS_CardinalityType
<1>4. Cardinality(S \ T) = Cardinality(S) - Cardinality(S \cap T)
  BY FS_Difference
<1>5. S \cap T = T
  OBVIOUS
<1> QED
  BY <1>2, <1>3, <1>4, <1>5

(* There is a time for every place: the least one that so many do not exceed. *)
LEMMA EveryPlaceHasATime ==
    ASSUME NEW good, IsFiniteSet(good), NEW rtts, \A k \in good : rtts[k] \in Nat,
           NEW n \in 1 .. Cardinality(good)
    PROVE  \E t \in {rtts[k] : k \in good} :
              Cardinality(Below(good, rtts, t)) < n /\ n <= Cardinality(UpTo(good, rtts, t))
<1> DEFINE enough == {k \in good : n <= Cardinality(UpTo(good, rtts, rtts[k]))}
           value == [k \in good |-> rtts[k]]
           negated == [k \in good |-> -rtts[k]]
<1>1. Cardinality(good) \in Nat /\ (Cardinality(good) = 0 <=> good = {})
  BY SubsetCounts
<1>2. good # {} /\ n \in Nat /\ n <= Cardinality(good)
  BY <1>1
<1>3. enough # {}
  <2>1. PICK k \in good : \A j \in good : value[j] <= value[k]
    <3>1. \A k \in good : value[k] \in Int
      OBVIOUS
    <3> HIDE DEF value
    <3> QED
      BY <1>2, <3>1, GreatestMember
  <2>2. UpTo(good, rtts, rtts[k]) = good
    BY <2>1 DEF UpTo
  <2> QED
    BY <1>2, <2>1, <2>2
<1>4. IsFiniteSet(enough)
  BY FS_Subset
<1>5. PICK k \in enough : \A j \in enough : negated[j] <= negated[k]
  <2>1. \A k \in enough : negated[k] \in Int
    OBVIOUS
  <2> HIDE DEF negated, enough
  <2> QED
    BY <1>3, <1>4, <2>1, GreatestMember
<1>6. \A j \in enough : rtts[k] <= rtts[j]
  BY <1>5
<1> DEFINE t == rtts[k]
           below == Below(good, rtts, t)
<1>7. Cardinality(below) < n
  <2>1. below \subseteq good /\ IsFiniteSet(below) /\ Cardinality(below) \in Nat
    BY SubsetCounts DEF Below
  <2>2. CASE below = {}
    <3>1. Cardinality(below) = 0
      BY <2>2, FS_EmptySet
    <3> HIDE DEF below
    <3> QED
      BY <1>1, <3>1
  <2>3. CASE below # {}
    <3>1. PICK j \in below : \A i \in below : value[i] <= value[j]
      <4>1. \A i \in below : value[i] \in Int
        BY <2>1
      <4> HIDE DEF value, below
      <4> QED
        BY <2>1, <2>3, <4>1, GreatestMember
    <3>2. j \in good /\ rtts[j] < t /\ \A i \in below : rtts[i] <= rtts[j]
      BY <3>1 DEF Below
    <3>3. UpTo(good, rtts, rtts[j]) = below
      BY <3>2 DEF UpTo, Below
    <3>4. j \notin enough
      <4>1. t \in Nat /\ rtts[j] \in Nat
        BY <3>2
      <4> HIDE DEF enough, below
      <4> QED
        BY <1>6, <3>2, <4>1
    <3>5. ~(n <= Cardinality(below))
      BY <3>2, <3>3, <3>4
    <3> HIDE DEF below
    <3> QED
      BY <1>2, <2>1, <3>5
  <2> QED
    BY <2>2, <2>3
<1>8. t \in {rtts[x] : x \in good} /\ n <= Cardinality(UpTo(good, rtts, t))
  OBVIOUS
<1> QED
  BY <1>7, <1>8

LEMMA SortedSamples ==
    ASSUME NEW warmup, NEW size \in Nat, NEW rtts \in [1 .. size -> Nat \cup {NoValue}]
    PROVE  LET good == Answered(warmup, rtts)
               samples == Samples(warmup, rtts)
           IN  /\ IsFiniteSet(good) /\ \A k \in good : rtts[k] \in Nat
               /\ samples \in Seq(Nat) /\ Len(samples) = Cardinality(good)
               /\ \A n \in 1 .. Cardinality(good) :
                    /\ \E k \in good : samples[n] = rtts[k]
                    /\ Cardinality(Below(good, rtts, samples[n])) < n
                    /\ n <= Cardinality(UpTo(good, rtts, samples[n]))
<1> DEFINE good == Answered(warmup, rtts)
           samples == Samples(warmup, rtts)
           Fits(n, t) == Cardinality(Below(good, rtts, t)) < n /\ n <= Cardinality(UpTo(good, rtts, t))
           times == {rtts[k] : k \in good}
<1>1. IsFiniteSet(good) /\ \A k \in good : rtts[k] \in Nat
  <2>1. good \subseteq 1 .. size /\ \A k \in good : rtts[k] \in Nat
    BY DEF Answered
  <2>2. IsFiniteSet(1 .. size)
    BY FS_Interval
  <2> HIDE DEF good
  <2> QED
    BY <2>1, <2>2, FS_Subset
<1>2. Cardinality(good) \in Nat
  BY <1>1, FS_CardinalityType
<1>3. samples = [n \in 1 .. Cardinality(good) |-> CHOOSE t \in times : Fits(n, t)]
  BY DEF Samples, Below, UpTo
<1> HIDE DEF good, samples
<1>4. \A n \in 1 .. Cardinality(good) : \E t \in times : Fits(n, t)
  BY <1>1, EveryPlaceHasATime
<1>5. times \subseteq Nat
  BY <1>1
<1>6. ASSUME NEW n \in 1 .. Cardinality(good) PROVE samples[n] \in times /\ Fits(n, samples[n])
  <2> HIDE DEF Fits, times
  <2>1. samples[n] = CHOOSE t \in times : Fits(n, t)
    BY <1>3
  <2> QED
    BY <1>4, <2>1
<1>7. samples \in [1 .. Cardinality(good) -> Nat]
  <2> HIDE DEF Fits, times
  <2> QED
    BY <1>3, <1>5, <1>6
<1>8. samples \in Seq(Nat) /\ Len(samples) = Cardinality(good)
  BY <1>2, <1>7
<1> QED
  BY <1>1, <1>6, <1>8 DEF good, samples

(* What tcp_ping reports of any number of handshakes is what those that count say, in
   numbers and not in an order: how many are as fast as the median, how many as slow, and
   how many are beyond the jitter (agent/probes/tcp_ping.py). *)
THEOREM StatsAreRight ==
    ASSUME NEW warmup, NEW size \in Nat, NEW rtts \in [1 .. size -> Nat \cup {NoValue}]
    PROVE  StatsAreOf(TcpStats(warmup, rtts), warmup, rtts)
<1> DEFINE good == Answered(warmup, rtts)
           samples == Samples(warmup, rtts)
           n == Cardinality(good)
           mid == PercentileIndex(n, 1, 2)
           high == PercentileIndex(n, 19, 20)
           p50 == samples[mid]
           p95 == samples[high]
           stats == TcpStats(warmup, rtts)
<1>1. /\ IsFiniteSet(good) /\ \A k \in good : rtts[k] \in Nat
      /\ samples \in Seq(Nat) /\ Len(samples) = n
      /\ \A m \in 1 .. n : /\ \E k \in good : samples[m] = rtts[k]
                            /\ Cardinality(Below(good, rtts, samples[m])) < m
                            /\ m <= Cardinality(UpTo(good, rtts, samples[m]))
  BY SortedSamples
<1>2. n \in Nat /\ (n = 0 <=> good = {})
  BY <1>1, SubsetCounts
<1>3. Quantile(samples, 1, 2) = p50 /\ Quantile(samples, 19, 20) = p95
  BY <1>1 DEF Quantile
<1>4. stats = IF samples = <<>> THEN NoStats
              ELSE [ok |-> TRUE, min |-> samples[1], p50 |-> p50, p95 |-> p95,
                    jitter |-> Jitter(p50, p95)]
  BY <1>3 DEF TcpStats
<1>5. StatsAreOf(stats, warmup, rtts) <=>
        /\ stats.ok <=> good # {}
        /\ stats.ok =>
              /\ \A k \in good : stats.min <= rtts[k]
              /\ 2 * Cardinality({k \in good : rtts[k] <= stats.p50}) >= n
              /\ 2 * Cardinality({k \in good : rtts[k] >= stats.p50}) >= n
              /\ \E k \in good : rtts[k] = stats.p50 + stats.jitter
              /\ 20 * Cardinality({k \in good : rtts[k] > stats.p50 + stats.jitter}) < n + 20
  BY DEF StatsAreOf
<1>6. samples = <<>> <=> good = {}
  BY <1>1, <1>2
<1> HIDE DEF good, samples, n, stats, mid, high
<1>7. CASE good = {}
  <2>1. stats = NoStats
    BY <1>4, <1>6, <1>7
  <2>2. stats.ok = FALSE
    BY <2>1 DEF NoStats
  <2> QED
    BY <1>5, <1>7, <2>2 DEF stats
<1>8. CASE good # {}
  <2>1. n \in Nat \ {0} /\ samples # <<>>
    BY <1>2, <1>6, <1>8
  <2>2. mid \in 1 .. n /\ 2 * mid >= n /\ 2 * (n - mid + 1) >= n
    BY <2>1, MedianHalves DEF HalvesAt, mid
  <2>3. high \in 1 .. n /\ 20 * (n - high) < n + 20 /\ mid <= high
    BY <2>1, HighPlace DEF mid, high
  <2>4. p50 \in Nat /\ p95 \in Nat
    BY <1>1, <2>2, <2>3
  <2>5. \A S \in SUBSET good : Cardinality(S) \in Nat /\ Cardinality(good \ S) = n - Cardinality(S)
    BY <1>1, SubsetCounts DEF n
  <2>6. \A S, T : S \subseteq T /\ T \subseteq good => Cardinality(S) <= Cardinality(T)
    BY <1>1, FS_Subset
  <2>7. \A t : UpTo(good, rtts, t) \subseteq good /\ Below(good, rtts, t) \subseteq good
    BY DEF UpTo, Below
  <2>8. p50 <= p95
    <3> SUFFICES ASSUME p95 < p50 PROVE FALSE
      BY <2>4
    <3>1. UpTo(good, rtts, p95) \subseteq Below(good, rtts, p50)
      BY <1>1, <2>4 DEF UpTo, Below
    <3>2. Cardinality(UpTo(good, rtts, p95)) <= Cardinality(Below(good, rtts, p50))
      BY <2>6, <2>7, <3>1
    <3>3. high <= Cardinality(UpTo(good, rtts, p95)) /\ Cardinality(Below(good, rtts, p50)) < mid
      BY <1>1, <2>2, <2>3
    <3>4. Cardinality(UpTo(good, rtts, p95)) \in Nat /\ Cardinality(Below(good, rtts, p50)) \in Nat
      BY <2>5, <2>7
    <3> QED
      BY <2>2, <2>3, <3>2, <3>3, <3>4
  <2>9. p50 + Jitter(p50, p95) = p95
    BY <2>4, <2>8 DEF Jitter, AtLeast
  <2>10. stats.ok = TRUE /\ stats.min = samples[1] /\ stats.p50 = p50
         /\ stats.jitter = Jitter(p50, p95)
    BY <1>4, <2>1
  <2>11. \A k \in good : samples[1] <= rtts[k]
    <3>1. Below(good, rtts, samples[1]) = {}
      <4>1. Cardinality(Below(good, rtts, samples[1])) < 1
        BY <1>1, <2>1
      <4>2. /\ IsFiniteSet(Below(good, rtts, samples[1]))
            /\ Cardinality(Below(good, rtts, samples[1])) \in Nat
        BY <1>1, <2>7, SubsetCounts
      <4> QED
        BY <4>1, <4>2, SubsetCounts
    <3>2. samples[1] \in Nat
      BY <1>1, <2>1
    <3> QED
      BY <1>1, <3>1, <3>2 DEF Below
  <2>12. 2 * Cardinality({k \in good : rtts[k] <= p50}) >= n
    <3>1. mid <= Cardinality(UpTo(good, rtts, p50))
      BY <1>1, <2>2
    <3>2. Cardinality(UpTo(good, rtts, p50)) \in Nat
      BY <2>5, <2>7
    <3> QED
      BY <2>1, <2>2, <3>1, <3>2 DEF UpTo
  <2>13. 2 * Cardinality({k \in good : rtts[k] >= p50}) >= n
    <3>1. {k \in good : rtts[k] >= p50} = good \ Below(good, rtts, p50)
      BY <1>1, <2>4 DEF Below
    <3>2. Cardinality(Below(good, rtts, p50)) < mid
      BY <1>1, <2>2
    <3>3. /\ Cardinality(Below(good, rtts, p50)) \in Nat
          /\ Cardinality(good \ Below(good, rtts, p50)) = n - Cardinality(Below(good, rtts, p50))
      BY <2>5, <2>7
    <3>4. \A a \in Nat : a < mid => 2 * (n - a) >= n
      BY <2>1, <2>2
    <3> QED
      BY <3>1, <3>2, <3>3, <3>4
  <2>14. \E k \in good : rtts[k] = p95
    BY <1>1, <2>3
  <2>15. 20 * Cardinality({k \in good : rtts[k] > p95}) < n + 20
    <3>1. {k \in good : rtts[k] > p95} = good \ UpTo(good, rtts, p95)
      BY <1>1, <2>4 DEF UpTo
    <3>2. high <= Cardinality(UpTo(good, rtts, p95))
      BY <1>1, <2>3
    <3>3. /\ Cardinality(UpTo(good, rtts, p95)) \in Nat
          /\ Cardinality(good \ UpTo(good, rtts, p95)) = n - Cardinality(UpTo(good, rtts, p95))
      BY <2>5, <2>7
    <3>4. \A a \in Nat : high <= a => 20 * (n - a) < n + 20
      BY <2>1, <2>3
    <3> QED
      BY <3>1, <3>2, <3>3, <3>4
  <2> HIDE DEF p50, p95
  <2> QED
    BY <1>5, <1>8, <2>9, <2>10, <2>11, <2>12, <2>13, <2>14, <2>15 DEF stats
<1> QED
  BY <1>7, <1>8

----------------------------------------------------------------------------
(* Downloads.  The bound is inductive for any probe, once every probe under
   way is known to be a record with the fields a step changes. *)

Shaped(r) ==
    r \in [isp: Isp, ip: Ip, kind: {"tcp_ping", "http_trace", "speed"}, at: Nat,
           pc: {"connect", "read", "head", "body", "report", "done"},
           stage: Nat, bytes: Nat, spent: Nat, out: {r.out}]
Bounded(r) ==
    /\ r.pc = "connect" => r.bytes = 0 /\ r.spent = 0
    /\ r.pc = "head" => r.bytes <= MaxHead /\ r.spent <= r.bytes * Timeout
    /\ r.pc = "body" => r.bytes < MaxBytes + Chunk /\ r.spent < Timeout + Slack
ProbesInv == now \in Nat /\ \A r \in running : Shaped(r) /\ Bounded(r)

LEMMA BecomeKeeps ==
    ASSUME ProbesInv, NEW r \in running, NEW new, Become(r, new), Shaped(new), Bounded(new)
    PROVE  ProbesInv'
BY DEF ProbesInv, Become, Shaped, Bounded

LEMMA FinishKeeps ==
    ASSUME ProbesInv, NEW r \in running, NEW out, Finish(r, out)
    PROVE  ProbesInv'
<1> DEFINE new == [r EXCEPT !.pc = "report", !.stage = 1, !.bytes = 0, !.spent = 0, !.out = out]
<1>1. Shaped(r)
  BY DEF ProbesInv
<1>2. Shaped(new) /\ new.pc = "report"
  BY <1>1 DEF Shaped
<1>3. Bounded(new)
  BY <1>2 DEF Bounded
<1>4. Become(r, new)
  BY DEF Finish
<1> QED
  BY <1>2, <1>3, <1>4, BecomeKeeps

LEMMA StartKeeps ==
    ASSUME ProbesInv, NEW i, NEW p, NEW kind \in {"tcp_ping", "http_trace", "speed"},
           NEW pc \in {"connect", "report"}, NEW out, Start(i, p, kind, pc, out)
    PROVE  ProbesInv'
<1> DEFINE new == [isp |-> i, ip |-> p, kind |-> kind, at |-> now, pc |-> pc,
                   stage |-> 1, bytes |-> 0, spent |-> 0, out |-> out]
<1>1. running' = running \cup {new} /\ now' = now
  BY DEF Start
<1>2. i \in Isp /\ p \in Ip
  BY MeasureAssumption DEF Start
<1>3. Shaped(new)
  BY <1>2 DEF ProbesInv, Shaped
<1>4. Bounded(new)
  BY DEF Bounded
<1> HIDE DEF new
<1> QED
  BY <1>1, <1>3, <1>4 DEF ProbesInv

LEMMA TraceKeeps ==
    ASSUME ProbesInv, NEW r \in running, TraceStep(r) \/ Raise(r)
    PROVE  ProbesInv'
<1>1. Shaped(r) /\ Bounded(r)
  BY DEF ProbesInv
<1>2. CASE TraceConnect(r)
  <2> DEFINE new == [r EXCEPT !.pc = "read"]
  <2>1. Shaped(new) /\ new.pc = "read"
    BY <1>1 DEF Shaped
  <2>2. Become(r, new)
    BY <1>2 DEF TraceConnect
  <2> QED
    BY <2>1, <2>2, BecomeKeeps DEF Bounded
<1>3. CASE TraceRecv(r)
  <2>1. PICK stage \in r.stage + 1 .. Len(TraceStages) : Become(r, [r EXCEPT !.stage = stage])
    BY <1>3 DEF TraceRecv
  <2>3. Len(TraceStages) = 4 /\ r.stage \in Nat
    BY <1>1 DEF TraceStages, Shaped
  <2>4. stage \in Nat
    BY <2>3
  <2> DEFINE new == [r EXCEPT !.stage = stage]
  <2>2. Shaped(new) /\ new.pc = "read"
    BY <1>1, <1>3, <2>4 DEF Shaped, TraceRecv
  <2> QED
    BY <2>1, <2>2, BecomeKeeps DEF Bounded
<1>4. CASE TraceEnd(r)
  BY <1>4, FinishKeeps DEF TraceEnd
<1>5. CASE Raise(r)
  BY <1>5, FinishKeeps DEF Raise
<1> QED
  BY <1>2, <1>3, <1>4, <1>5 DEF TraceStep

LEMMA SpeedKeeps ==
    ASSUME ProbesInv, NEW r \in running, SpeedStep(r)
    PROVE  ProbesInv'
<1>1. Shaped(r) /\ Bounded(r)
  BY DEF ProbesInv
<1>2. CASE SpeedConnect(r)
  <2> DEFINE new == [r EXCEPT !.pc = "head"]
  <2>1. Shaped(new) /\ new.pc = "head" /\ new.bytes = 0 /\ new.spent = 0
    BY <1>1, <1>2 DEF Shaped, Bounded, SpeedConnect
  <2>2. Bounded(new)
    <3>1. 0 <= MaxHead /\ 0 <= 0 * Timeout
      BY MeasureAssumption
    <3> QED
      BY <2>1, <3>1 DEF Bounded
  <2> QED
    BY <1>2, <2>1, <2>2, BecomeKeeps DEF SpeedConnect
<1>5. CASE HeadRecv(r)
  <2>1. PICK n \in 1 .. HeadChunk, t \in 0 .. Timeout :
            LET more == [r EXCEPT !.bytes = @ + n, !.spent = @ + t]
            IN  more.bytes <= MaxHead /\ Become(r, more)
    BY <1>5 DEF HeadRecv
  <2> DEFINE new == [r EXCEPT !.bytes = @ + n, !.spent = @ + t]
  <2>2. /\ r.bytes \in Nat /\ r.spent \in Nat /\ n \in Nat /\ n >= 1 /\ t \in Nat
        /\ Timeout \in Nat /\ t <= Timeout
    BY <1>1, MeasureAssumption DEF Shaped
  <2>3. r.bytes + n \in Nat /\ r.spent + t \in Nat
    BY <2>2
  <2>4. Shaped(new) /\ new.pc = "head" /\ new.bytes = r.bytes + n /\ new.spent = r.spent + t
    BY <1>1, <1>5, <2>3 DEF Shaped, HeadRecv
  <2>5. r.spent <= r.bytes * Timeout
    BY <1>1, <1>5 DEF Bounded, HeadRecv
  <2>6. r.spent + t <= (r.bytes + n) * Timeout
    <3>1. \A b \in Nat : b * Timeout \in Nat /\ (b + n) * Timeout = b * Timeout + n * Timeout
      BY <2>2
    <3>2. n * Timeout >= Timeout
      BY <2>2
    <3>3. n * Timeout \in Nat
      BY <2>2
    <3> QED
      BY <2>2, <2>5, <3>1, <3>2, <3>3
  <2>7. Bounded(new)
    BY <2>1, <2>4, <2>6 DEF Bounded
  <2> QED
    BY <2>1, <2>4, <2>7, BecomeKeeps
<1>6. CASE HeadEnd(r)
  <2>1. PICK n \in 1 .. HeadChunk : \E leftover \in 0 .. n - 1 :
            Become(r, [r EXCEPT !.pc = "body", !.bytes = leftover, !.spent = 0])
    BY <1>6 DEF HeadEnd
  <2>2. PICK leftover \in 0 .. n - 1 :
            Become(r, [r EXCEPT !.pc = "body", !.bytes = leftover, !.spent = 0])
    BY <2>1
  <2> DEFINE new == [r EXCEPT !.pc = "body", !.bytes = leftover, !.spent = 0]
  <2>3. leftover \in Nat /\ leftover < MaxBytes + Chunk /\ 0 < Timeout + Slack
    BY MeasureAssumption
  <2>4. Shaped(new) /\ new.pc = "body" /\ new.bytes = leftover /\ new.spent = 0
    BY <1>1, <2>3 DEF Shaped
  <2> QED
    BY <2>2, <2>3, <2>4, BecomeKeeps DEF Bounded
<1>3. CASE SpeedRecv(r)
  <2>1. r.bytes < MaxBytes /\ r.spent < Timeout
    BY <1>3 DEF SpeedRecv
  <2>2. PICK n \in 1 .. Chunk, t \in 0 .. Wait(r.spent) :
            Become(r, [r EXCEPT !.bytes = @ + n, !.spent = @ + t])
    BY <1>3 DEF SpeedRecv
  <2> DEFINE new == [r EXCEPT !.bytes = @ + n, !.spent = @ + t]
  <2>3. r.bytes + n \in Nat /\ r.bytes + n < MaxBytes + Chunk
    <3>1. r.bytes \in Nat /\ MaxBytes \in Nat /\ Chunk \in Nat
      BY <1>1, MeasureAssumption DEF Shaped
    <3> QED
      BY <2>1, <3>1
  <2>4. r.spent + t \in Nat /\ r.spent + t < Timeout + Slack
    <3>1. r.spent \in Nat /\ Timeout \in Nat /\ Slack \in Nat \ {0}
      BY <1>1, MeasureAssumption DEF Shaped
    <3>2. Wait(r.spent) \in {Slack, Timeout - r.spent}
      BY DEF Wait, AtLeast
    <3>3. Wait(r.spent) \in Nat
      BY <2>1, <3>1, <3>2
    <3>4. t \in Nat /\ t <= Wait(r.spent)
      BY <3>3
    <3>5. CASE Wait(r.spent) = Slack
      BY <2>1, <3>1, <3>4, <3>5
    <3>6. CASE Wait(r.spent) = Timeout - r.spent
      BY <3>1, <3>4, <3>6
    <3> QED
      BY <3>2, <3>5, <3>6
  <2>5. Shaped(new) /\ new.pc = "body" /\ new.bytes = r.bytes + n /\ new.spent = r.spent + t
    BY <1>1, <1>3, <2>3, <2>4 DEF Shaped, SpeedRecv
  <2> QED
    BY <2>2, <2>3, <2>4, <2>5, BecomeKeeps DEF Bounded
<1>4. CASE SpeedStall(r) \/ SpeedEof(r) \/ SpeedStop(r)
  BY <1>4, FinishKeeps DEF SpeedStall, SpeedEof, SpeedStop, Conclude
<1> QED
  BY <1>2, <1>3, <1>4, <1>5, <1>6 DEF SpeedStep

LEMMA ReportKeeps ==
    ASSUME ProbesInv, NEW r \in running, ReportStep(r)
    PROVE  ProbesInv'
<1>1. Shaped(r) /\ Bounded(r)
  BY DEF ProbesInv
<1>2. CASE ReportInsert(r)
  <2> DEFINE new == [r EXCEPT !.pc = "done"]
  <2>1. Shaped(new) /\ new.pc = "done"
    BY <1>1 DEF Shaped
  <2>2. Bounded(new)
    BY <2>1 DEF Bounded
  <2>3. running' \subseteq running \cup {new} /\ now' = now
    BY <1>2 DEF ReportInsert
  <2> HIDE DEF new
  <2> QED
    BY <2>1, <2>2, <2>3 DEF ProbesInv
<1>3. CASE ReportMarkDone(r) \/ ReportLost(r)
  <2>1. running' \subseteq running /\ now' = now
    BY <1>3 DEF ReportMarkDone, ReportLost
  <2> QED
    BY <2>1 DEF ProbesInv
<1> QED
  BY <1>2, <1>3 DEF ReportStep

LEMMA ProbesInvariant == Spec => []ProbesInv
<1>1. Init => ProbesInv
  BY MeasureAssumption DEF Init, ProbesInv
<1>2. ProbesInv /\ [Next]_vars => ProbesInv'
  <2> SUFFICES ASSUME ProbesInv, [Next]_vars PROVE ProbesInv'
    OBVIOUS
  <2>1. CASE Tick \/ SpeedRound \/ UNCHANGED vars
    BY <2>1 DEF Tick, SpeedRound, vars, ProbesInv, Shaped, Bounded
  <2>2. CASE TcpStart \/ TraceStart \/ SpeedStart
    <3>1. CASE TcpStart
      <4>1. PICK i, p, h : Start(i, p, "tcp_ping", "report", PingOutcome(TcpStats(h.warmup, h.rtts)))
        BY <3>1 DEF TcpStart
      <4> QED
        BY <4>1, StartKeeps
    <3>2. CASE TraceStart
      <4>1. PICK i, p : Start(i, p, "http_trace", "connect", Failed)
        BY <3>2 DEF TraceStart
      <4> QED
        BY <4>1, StartKeeps
    <3>3. CASE SpeedStart
      <4>1. PICK i, p : Start(i, p, "speed", "connect", Failed)
        BY <3>3 DEF SpeedStart
      <4> QED
        BY <4>1, StartKeeps
    <3> QED
      BY <2>2, <3>1, <3>2, <3>3
  <2>3. CASE \E r \in running : Raise(r) \/ TraceStep(r) \/ SpeedStep(r) \/ ReportStep(r)
    BY <2>3, TraceKeeps, SpeedKeeps, ReportKeeps
  <2> QED
    BY <2>1, <2>2, <2>3 DEF Next
<1> QED
  BY <1>1, <1>2, PTL DEF Spec

(* Whatever the edge sends and when, the body of a download ends within the bytes and the
   time of its task and one more recv; its header takes no longer than a timeout for each
   of its bytes (agent/probes/http_client.py). *)
THEOREM BoundedDownloads == Spec => []DownloadIsBounded
<1>1. ProbesInv => DownloadIsBounded
  BY DEF ProbesInv, Bounded, DownloadIsBounded
<1> QED
  BY <1>1, ProbesInvariant, PTL

----------------------------------------------------------------------------
(* Sums, of which averages are made.  SumFunction is a fold over a finite set; what it
   needs are that the function it is defined by exists and what follows from its
   recursion, by the smallest subset without the property. *)

IsSum(g, f, U) ==
    g = [T \in SUBSET U |-> IF T = {} THEN 0
                            ELSE LET x == CHOOSE x \in T : TRUE IN f[x] + g[T \ {x}]]

LEMMA SumsAgree ==
    ASSUME NEW S, IsFiniteSet(S), NEW f, NEW U \in SUBSET S, NEW V \in SUBSET S,
           NEW g, IsSum(g, f, U), NEW h, IsSum(h, f, V)
    PROVE  \A T \in SUBSET (U \cap V) : g[T] = h[T]
<1> DEFINE Differ == {T \in SUBSET (U \cap V) : g[T] # h[T]}
<1> SUFFICES ASSUME Differ # {} PROVE FALSE
  OBVIOUS
<1>1. PICK T \in Differ : \A W \in Differ : W \subseteq T => W = T
  <2>1. Differ \subseteq SUBSET S
    OBVIOUS
  <2> HIDE DEF Differ
  <2> QED
    BY <2>1, SmallestSubset
<1> DEFINE x == CHOOSE x \in T : TRUE
<1>2. T \in SUBSET U /\ T \in SUBSET V /\ g[T] # h[T]
  OBVIOUS
<1>3. /\ g[T] = IF T = {} THEN 0 ELSE f[x] + g[T \ {x}]
      /\ h[T] = IF T = {} THEN 0 ELSE f[x] + h[T \ {x}]
  BY <1>2 DEF IsSum
<1>4. T # {} => x \in T /\ T \ {x} \notin Differ
  BY <1>1
<1>5. T # {} => g[T \ {x}] = h[T \ {x}]
  BY <1>4
<1> QED
  BY <1>2, <1>3, <1>5

LEMMA SumExists ==
    ASSUME NEW S, IsFiniteSet(S), NEW f
    PROVE  \E g : IsSum(g, f, S)
<1> DEFINE Without == {U \in SUBSET S : ~\E g : IsSum(g, f, U)}
<1> SUFFICES ASSUME Without # {} PROVE FALSE
  OBVIOUS
<1>1. PICK U \in Without : \A W \in Without : W \subseteq U => W = U
  <2>1. Without \subseteq SUBSET S
    OBVIOUS
  <2> HIDE DEF Without
  <2> QED
    BY <2>1, SmallestSubset
<1> DEFINE sum == [W \in SUBSET U |-> CHOOSE g : IsSum(g, f, W)]
           least(T) == CHOOSE x \in T : TRUE
           g == [T \in SUBSET U |->
                    IF T = {} THEN 0 ELSE f[least(T)] + sum[T \ {least(T)}][T \ {least(T)}]]
<1>2. ASSUME NEW W \in SUBSET U, W # U PROVE IsSum(sum[W], f, W)
  <2>1. \E s : IsSum(s, f, W)
    BY <1>1, <1>2
  <2>2. IsSum(CHOOSE s : IsSum(s, f, W), f, W)
    BY <2>1
  <2> QED
    BY <2>2
<1>3. ASSUME NEW W \in SUBSET U, W # U PROVE g[W] = sum[W][W]
  <2> DEFINE y == least(W)
  <2>1. IsSum(sum[W], f, W)
    BY <1>2, <1>3
  <2>2. sum[W][W] = IF W = {} THEN 0 ELSE f[y] + sum[W][W \ {y}]
    <3> HIDE DEF sum
    <3> QED
      BY <2>1 DEF IsSum
  <2>3. CASE W = {}
    <3> HIDE DEF sum
    <3> QED
      BY <2>2, <2>3
  <2>4. CASE W # {}
    <3>1. W \ {y} \in SUBSET U /\ W \ {y} # U /\ W \ {y} \in SUBSET W
      BY <1>3, <2>4
    <3>2. IsSum(sum[W \ {y}], f, W \ {y})
      BY <1>2, <3>1
    <3> HIDE DEF sum, y
    <3>3. sum[W][W \ {y}] = sum[W \ {y}][W \ {y}]
      BY <2>1, <3>1, <3>2, SumsAgree
    <3>4. g[W] = f[y] + sum[W \ {y}][W \ {y}]
      BY <2>4 DEF y
    <3> QED
      BY <2>2, <2>4, <3>3, <3>4
  <2> QED
    BY <2>3, <2>4
<1>4. IsSum(g, f, U)
  <2>1. ASSUME NEW T \in SUBSET U
        PROVE  g[T] = IF T = {} THEN 0 ELSE f[least(T)] + g[T \ {least(T)}]
    <3>1. CASE T = {}
      BY <3>1
    <3>2. CASE T # {}
      <4> DEFINE x == least(T)
      <4>1. T \ {x} \in SUBSET U /\ T \ {x} # U
        BY <3>2
      <4>2. g[T \ {x}] = sum[T \ {x}][T \ {x}]
        <5> HIDE DEF g, sum, x
        <5> QED
          BY <1>3, <4>1
      <4> HIDE DEF sum
      <4>3. g[T] = f[x] + sum[T \ {x}][T \ {x}]
        BY <3>2
      <4> HIDE DEF g
      <4> QED
        BY <3>2, <4>2, <4>3
    <3> QED
      BY <3>1, <3>2
  <2>2. g = [T \in SUBSET U |-> g[T]]
    OBVIOUS
  <2> HIDE DEF g
  <2>3. g = [T \in SUBSET U |-> IF T = {} THEN 0 ELSE f[least(T)] + g[T \ {least(T)}]]
    BY <2>1, <2>2
  <2> QED
    BY <2>3 DEF IsSum
<1> QED
  BY <1>1, <1>4

LEMMA SumFolds ==
    ASSUME NEW f, IsFiniteSet(DOMAIN f)
    PROVE  \E g : IsSum(g, f, DOMAIN f) /\ SumFunction(f) = g[DOMAIN f]
<1> DEFINE sum == CHOOSE g : IsSum(g, f, DOMAIN f)
<1>1. IsSum(sum, f, DOMAIN f)
  BY SumExists
<1>2. SumFunction(f) = sum[DOMAIN f]
  BY DEF SumFunction, SumFunctionOnSet, FoldFunctionOnSet, MapThenFoldSet, IsSum
<1> QED
  BY <1>1, <1>2

LEMMA SumIsNatural ==
    ASSUME NEW f, IsFiniteSet(DOMAIN f), \A x \in DOMAIN f : f[x] \in Nat
    PROVE  /\ SumFunction(f) \in Nat
           /\ DOMAIN f # {} /\ (\A x \in DOMAIN f : f[x] # 0) => SumFunction(f) # 0
<1> DEFINE S == DOMAIN f
           least(T) == CHOOSE x \in T : TRUE
<1>1. PICK g : IsSum(g, f, S) /\ SumFunction(f) = g[S]
  BY SumFolds
<1>2. \A T \in SUBSET S : g[T] = IF T = {} THEN 0 ELSE f[least(T)] + g[T \ {least(T)}]
  BY <1>1 DEF IsSum
<1>3. \A T \in SUBSET S : g[T] \in Nat
  <2> DEFINE Bad == {T \in SUBSET S : g[T] \notin Nat}
  <2> SUFFICES ASSUME Bad # {} PROVE FALSE
    OBVIOUS
  <2>1. PICK T \in Bad : \A W \in Bad : W \subseteq T => W = T
    <3>1. Bad \subseteq SUBSET S
      OBVIOUS
    <3> HIDE DEF Bad
    <3> QED
      BY <3>1, SmallestSubset
  <2>2. T # {} => least(T) \in S /\ g[T \ {least(T)}] \in Nat
    BY <2>1
  <2>3. g[T] = IF T = {} THEN 0 ELSE f[least(T)] + g[T \ {least(T)}]
    BY <1>2
  <2>4. T # {} => f[least(T)] \in Nat
    BY <2>2
  <2>5. g[T] \notin Nat
    OBVIOUS
  <2> HIDE DEF least
  <2> QED
    BY <2>2, <2>3, <2>4, <2>5
<1>4. ASSUME S # {}, \A x \in S : f[x] # 0 PROVE g[S] # 0
  <2>1. g[S] = f[least(S)] + g[S \ {least(S)}] /\ least(S) \in S
    BY <1>2, <1>4
  <2> QED
    BY <1>3, <1>4, <2>1
<1> QED
  BY <1>1, <1>3, <1>4

LEMMA SumsCompare ==
    ASSUME NEW S, IsFiniteSet(S), NEW f \in [S -> Nat], NEW g \in [S -> Nat],
           NEW a \in Nat, NEW b \in Nat, \A x \in S : a * f[x] <= b * g[x]
    PROVE  a * SumFunction(f) <= b * SumFunction(g)
<1>1. PICK sf : IsSum(sf, f, S) /\ SumFunction(f) = sf[S]
  BY SumFolds
<1>2. PICK sg : IsSum(sg, g, S) /\ SumFunction(g) = sg[S]
  BY SumFolds
<1> DEFINE Right(T) == sf[T] \in Nat /\ sg[T] \in Nat /\ a * sf[T] <= b * sg[T]
           Bad == {T \in SUBSET S : ~Right(T)}
<1> SUFFICES ASSUME Bad # {} PROVE FALSE
  BY <1>1, <1>2
<1>3. PICK T \in Bad : \A W \in Bad : W \subseteq T => W = T
  <2>1. Bad \subseteq SUBSET S
    OBVIOUS
  <2> HIDE DEF Bad
  <2> QED
    BY <2>1, SmallestSubset
<1> DEFINE x == CHOOSE x \in T : TRUE
<1>4. /\ sf[T] = IF T = {} THEN 0 ELSE f[x] + sf[T \ {x}]
      /\ sg[T] = IF T = {} THEN 0 ELSE g[x] + sg[T \ {x}]
  BY <1>1, <1>2 DEF IsSum
<1>5. CASE T = {}
  BY <1>4, <1>5
<1>6. CASE T # {}
  <2>1. x \in T /\ T \ {x} \in SUBSET S /\ T \ {x} \subseteq T /\ T \ {x} # T
    BY <1>6
  <2>2. Right(T \ {x})
    <3> HIDE DEF Right, x
    <3> QED
      BY <1>3, <2>1
  <2>3. f[x] \in Nat /\ g[x] \in Nat /\ a * f[x] <= b * g[x]
    BY <2>1
  <2>4. Right(T)
    <3> DEFINE m == sf[T \ {x}]
               n == sg[T \ {x}]
               c == f[x]
               d == g[x]
    <3>1. m \in Nat /\ n \in Nat /\ a * m <= b * n /\ c \in Nat /\ d \in Nat /\ a * c <= b * d
      BY <2>2, <2>3
    <3>2. sf[T] = c + m /\ sg[T] = d + n
      BY <1>4, <1>6
    <3> HIDE DEF m, n, c, d
    <3>3. a * (c + m) = a * c + a * m /\ b * (d + n) = b * d + b * n
      BY <3>1
    <3>4. a * c \in Nat /\ a * m \in Nat /\ b * d \in Nat /\ b * n \in Nat
      BY <3>1
    <3> QED
      BY <3>1, <3>2, <3>3, <3>4
  <2> QED
    BY <2>4
<1> QED
  BY <1>5, <1>6

----------------------------------------------------------------------------

(* Averages *)

LEMMA DivisionBounds ==
    ASSUME NEW a \in Nat, NEW b \in Nat \ {0}, NEW n \in Nat
    PROVE  a \div b \in Nat /\ (n <= a \div b <=> n * b <= a)
<1> DEFINE q == a \div b
           r == a % b
<1>1. q \in Int /\ r \in 0 .. b - 1 /\ a = b * q + r
  OBVIOUS
<1> HIDE DEF q, r
<1>2. q \in Nat
  <2> SUFFICES ASSUME q <= -1 PROVE FALSE
    BY <1>1
  <2>1. b * (-1 - q) \in Nat /\ b * q = -b - b * (-1 - q)
    BY <1>1
  <2> QED
    BY <1>1, <2>1
<1>3. ASSUME n <= q PROVE n * b <= a
  <2>1. b * (q - n) \in Nat /\ b * q = n * b + b * (q - n)
    BY <1>1, <1>3
  <2> QED
    BY <1>1, <2>1
<1>4. ASSUME q < n PROVE a < n * b
  <2>1. b * (n - q - 1) \in Nat /\ n * b = b * q + b + b * (n - q - 1)
    BY <1>1, <1>4
  <2> QED
    BY <1>1, <2>1
<1>5. n * b \in Nat
  OBVIOUS
<1> QED
  BY <1>1, <1>2, <1>3, <1>4, <1>5 DEF q

(* What a column's average over rows that all have it is bounded by. *)
LEMMA AverageBounds ==
    ASSUME NEW t, IsABag(t), IsFiniteSet(BagToSet(t)),
           NEW rows, rows \subseteq BagToSet(t), rows # {},
           NEW column, \A r \in rows : r[column] \in Nat,
           NEW n \in Nat
    PROVE  /\ Average(t, rows, column) \in Nat
           /\ n <= Average(t, rows, column) => \E r \in rows : n <= Scale * r[column]
           /\ (\A r \in rows : n <= Scale * r[column]) => n <= Average(t, rows, column)
<1> DEFINE value == [r \in rows |-> t[r] * r[column]]
           weight == [r \in rows |-> t[r]]
           total == SumFunction(value)
           number == SumFunction(weight)
<1>1. IsFiniteSet(rows) /\ \A r \in rows : t[r] \in Nat \ {0}
  <2>1. IsFiniteSet(rows)
    BY FS_Subset
  <2> QED
    BY <2>1 DEF IsABag, BagToSet
<1>2. value \in [rows -> Nat] /\ weight \in [rows -> Nat]
  BY <1>1
<1>3. Average(t, rows, column) = (Scale * total) \div number
  <2>1. {r \in rows : r[column] # NoValue} = rows
    BY DEF NoValue
  <2> QED
    BY <2>1 DEF Average
<1>4. \A r \in rows : value[r] = t[r] * r[column] /\ weight[r] = t[r]
  OBVIOUS
<1>5. DOMAIN value = rows /\ DOMAIN weight = rows
  OBVIOUS
<1> HIDE DEF value, weight
<1>6. total \in Nat /\ number \in Nat
  BY <1>1, <1>2, <1>5, SumIsNatural
<1>7. number \in Nat \ {0}
  BY <1>1, <1>4, <1>5, <1>6, SumIsNatural
<1>8. Scale \in Nat /\ Scale * total \in Nat
  BY <1>6, CandidatesAssumption
<1>9. Average(t, rows, column) \in Nat
      /\ (n <= Average(t, rows, column) <=> n * number <= Scale * total)
  BY <1>3, <1>7, <1>8, DivisionBounds
<1>10. ASSUME \A r \in rows : n <= Scale * r[column] PROVE n * number <= Scale * total
  <2>1. ASSUME NEW r \in rows PROVE n * weight[r] <= Scale * value[r]
    <3> DEFINE w == t[r]
               c == r[column]
    <3>1. w \in Nat /\ c \in Nat /\ n <= Scale * c /\ Scale * c \in Nat
      BY <1>1, <1>8, <1>10
    <3>2. weight[r] = w /\ value[r] = w * c
      BY <1>4
    <3> HIDE DEF w, c
    <3>3. n * w <= (Scale * c) * w
      BY <3>1, TimesKeepsOrder
    <3>4. (Scale * c) * w = Scale * (w * c)
      BY <1>8, <3>1
    <3> QED
      BY <3>2, <3>3, <3>4
  <2> QED
    BY <1>1, <1>2, <1>8, <2>1, SumsCompare
<1>11. ASSUME n * number <= Scale * total PROVE \E r \in rows : n <= Scale * r[column]
  <2>1. CASE n = 0
    <3>1. PICK r \in rows : TRUE
      OBVIOUS
    <3>2. 0 <= Scale * r[column]
      BY <1>8
    <3> QED
      BY <2>1, <3>2
  <2>2. CASE n # 0
    <3> SUFFICES ASSUME \A r \in rows : ~(n <= Scale * r[column]) PROVE FALSE
      OBVIOUS
    <3>1. ASSUME NEW r \in rows PROVE Scale * value[r] <= (n - 1) * weight[r]
      <4> DEFINE w == t[r]
                 c == r[column]
      <4>1. w \in Nat /\ c \in Nat /\ Scale * c \in Nat /\ Scale * c <= n - 1 /\ n - 1 \in Nat
        BY <1>1, <1>8, <2>2
      <4>2. weight[r] = w /\ value[r] = w * c
        BY <1>4
      <4> HIDE DEF w, c
      <4>3. (Scale * c) * w <= (n - 1) * w
        BY <4>1, TimesKeepsOrder
      <4>4. (Scale * c) * w = Scale * (w * c)
        BY <1>8, <4>1
      <4> QED
        BY <4>2, <4>3, <4>4
    <3>2. n - 1 \in Nat
      BY <2>2
    <3>3. Scale * total <= (n - 1) * number
      BY <1>1, <1>2, <1>8, <3>1, <3>2, SumsCompare
    <3>4. n * number = (n - 1) * number + number /\ (n - 1) * number \in Nat
      BY <1>7, <3>2
    <3> HIDE DEF total, number
    <3> QED
      BY <1>6, <1>7, <1>8, <1>11, <3>3, <3>4
  <2> QED
    BY <2>1, <2>2
<1> QED
  BY <1>9, <1>10, <1>11

----------------------------------------------------------------------------
(* What aggregate_recent reads.  These two hold of any table. *)

LEMMA SameAverage ==
    ASSUME NEW s, NEW t, NEW rows, \A r \in rows : s[r] = t[r], NEW column
    PROVE  Average(s, rows, column) = Average(t, rows, column)
<1> DEFINE counted == {r \in rows : r[column] # NoValue}
<1>1. [r \in counted |-> s[r] * r[column]] = [r \in counted |-> t[r] * r[column]]
  OBVIOUS
<1>2. [r \in counted |-> s[r]] = [r \in counted |-> t[r]]
  OBVIOUS
<1> QED
  BY <1>1, <1>2 DEF Average

(* None of aggregate_recent's subqueries takes a row of another operator
   (master/storage.py, aggregate_recent). *)
THEOREM OperatorsStayApart == Spec => []OperatorsDoNotMix
<1>1. OperatorsDoNotMix
  <2> SUFFICES ASSUME NEW i \in Isp
               PROVE  AggregateRecent(table, i, now) = AggregateRecent(OwnRows(i), i, now)
    BY DEF OperatorsDoNotMix
  <2> DEFINE own == OwnRows(i)
  <2>1. /\ BagToSet(own) = {x \in BagToSet(table) : x.isp = i}
        /\ \A r \in BagToSet(own) : own[r] = table[r]
    BY DEF OwnRows, BagToSet
  <2> HIDE DEF own
  <2>2. \A p, since : Recent(own, i, p, since) = Recent(table, i, p, since)
    BY <2>1 DEF Recent
  <2>3. \A p, since : \A r \in Recent(table, i, p, since) : own[r] = table[r]
    BY <2>1 DEF Recent
  <2>4. Grouped(own, i, now) = Grouped(table, i, now)
    BY <2>2 DEF Grouped
  <2>5. ASSUME NEW p, NEW rows, rows \subseteq Recent(table, i, p, now - Lookback), NEW column
        PROVE  Average(table, rows, column) = Average(own, rows, column)
    BY <2>3, <2>5, SameAverage
  <2>6. ASSUME NEW p PROVE TraceLatency(table, i, p, now) = TraceLatency(own, i, p, now)
    BY <2>2, <2>5 DEF TraceLatency, OkRows
  <2>7. ASSUME NEW p PROVE LastColo(table, i, p) = LastColo(own, i, p)
    <3>1. {r \in BagToSet(table) : r.isp = i /\ r.ip = p /\ r.kind = "http_trace" /\ r.ok}
          = {r \in BagToSet(own) : r.isp = i /\ r.ip = p /\ r.kind = "http_trace" /\ r.ok}
      BY <2>1
    <3> QED
      BY <3>1 DEF LastColo
  <2>8. ASSUME NEW p, NEW kind, NEW column
        PROVE  LET rows == InHours(Recent(table, i, p, now - Lookback), now)
               IN  Average(table, OkRows(rows, kind), column)
                   = Average(own, OkRows(rows, kind), column)
    BY <2>5 DEF OkRows, InHours
  <2> QED
    BY <2>2, <2>4, <2>6, <2>7, <2>8 DEF AggregateRecent, own
<1> QED
  BY <1>1, PTL

(* With speed required, an eligible address is eligible by its successes alone, with the
   same row (master/storage.py, aggregate_recent; master/scoring.py, pick_best). *)
THEOREM FailuresAreIgnored == Spec => []FailuresDoNotCount
<1>1. FailuresDoNotCount
  <2> SUFFICES ASSUME NEW i \in Isp, SpeedRequired,
                      NEW p \in DOMAIN AggregateRecent(table, i, now),
                      Eligible(AggregateRecent(table, i, now)[p])
               PROVE  /\ p \in DOMAIN AggregateRecent(Successes, i, now)
                      /\ AggregateRecent(table, i, now)[p] = AggregateRecent(Successes, i, now)[p]
    BY DEF FailuresDoNotCount
  <2> DEFINE kept == Successes
             rows == Recent(table, i, p, now - Lookback)
             good == Recent(kept, i, p, now - Lookback)
  <2>1. /\ BagToSet(kept) = {x \in BagToSet(table) : x.ok}
        /\ \A r \in BagToSet(kept) : kept[r] = table[r]
    BY DEF Successes, BagToSet
  <2> HIDE DEF kept
  <2>2. good = {r \in rows : r.ok} /\ \A r \in good : kept[r] = table[r]
    BY <2>1 DEF Recent
  <2>3. /\ OkRows(good, "http_trace") = OkRows(rows, "http_trace")
        /\ InHours(good, now) = {r \in InHours(rows, now) : r.ok}
    BY <2>2 DEF OkRows, InHours
  <2>4. \A kind : OkRows(InHours(good, now), kind) = OkRows(InHours(rows, now), kind)
    BY <2>3 DEF OkRows
  <2>5. p \in Grouped(table, i, now)
    BY DEF AggregateRecent
  <2>6. p \in Grouped(kept, i, now)
    <3>1. OkRows(InHours(rows, now), "speed") # {}
      <4>1. AggregateRecent(table, i, now)[p].speed
            = Average(table, OkRows(InHours(rows, now), "speed"), "speed")
        BY <2>5 DEF AggregateRecent
      <4>2. AggregateRecent(table, i, now)[p].speed # NoValue
        BY DEF Eligible
      <4> QED
        BY <4>1, <4>2 DEF Average
    <3>2. InHours(good, now) # {}
      BY <2>3, <3>1 DEF OkRows
    <3>3. p \in Ip /\ OkRows(rows, "http_trace") # {}
      BY <2>5 DEF Grouped
    <3> QED
      BY <2>3, <3>2, <3>3 DEF Grouped
  <2>7. ASSUME NEW some, some \subseteq good, NEW column
        PROVE  Average(table, some, column) = Average(kept, some, column)
    BY <2>2, <2>7, SameAverage
  <2>8. TraceLatency(table, i, p, now) = TraceLatency(kept, i, p, now)
    <3>1. OkRows(good, "http_trace") \subseteq good
      BY DEF OkRows
    <3> QED
      BY <2>3, <2>7, <3>1 DEF TraceLatency
  <2>9. ASSUME NEW kind, NEW column
        PROVE  Average(table, OkRows(InHours(rows, now), kind), column)
               = Average(kept, OkRows(InHours(good, now), kind), column)
    <3>1. OkRows(InHours(good, now), kind) \subseteq good
      BY DEF OkRows, InHours
    <3> QED
      BY <2>4, <2>7, <3>1
  <2>10. LastColo(table, i, p) = LastColo(kept, i, p)
    <3>1. {r \in BagToSet(table) : r.isp = i /\ r.ip = p /\ r.kind = "http_trace" /\ r.ok}
          = {r \in BagToSet(kept) : r.isp = i /\ r.ip = p /\ r.kind = "http_trace" /\ r.ok}
      BY <2>1
    <3> QED
      BY <3>1 DEF LastColo
  <2>11. ASSUME NEW t, p \in Grouped(t, i, now)
         PROVE  /\ p \in DOMAIN AggregateRecent(t, i, now)
                /\ AggregateRecent(t, i, now)[p] =
                      LET pings == OkRows(InHours(Recent(t, i, p, now - Lookback), now), "tcp_ping")
                      IN  [latency |-> Coalesce(TraceLatency(t, i, p, now), Average(t, pings, "latency")),
                           jitter |-> Average(t, pings, "jitter"),
                           speed |-> Average(t, OkRows(InHours(Recent(t, i, p, now - Lookback), now), "speed"), "speed"),
                           colo |-> LastColo(t, i, p)]
    BY <2>11 DEF AggregateRecent
  <2>12. /\ p \in DOMAIN AggregateRecent(kept, i, now)
         /\ AggregateRecent(table, i, now)[p] = AggregateRecent(kept, i, now)[p]
    BY <2>5, <2>6, <2>8, <2>9, <2>10, <2>11
  <2> QED
    BY <2>12 DEF kept
<1> QED
  BY <1>1, PTL

----------------------------------------------------------------------------

(* The rows that report stores.  A success has what its kind of probe measures, from the
   probe's end through its report into the table. *)

Credible(kind, out) ==
    out.ok => /\ kind = "http_trace" => /\ out.latency \in Rtt /\ out.colo # ""
              /\ kind = "speed" => out.speed \in Nat
RowsInv ==
    /\ IsABag(table) /\ IsFiniteSet(BagToSet(table))
    /\ \A r \in BagToSet(table) : r.at \in Nat /\ Credible(r.kind, r)
ResultsInv ==
    \A r \in running : /\ r.pc = "read" => r.kind = "http_trace"
                       /\ r.pc \in {"head", "body"} => r.kind = "speed"
                       /\ Credible(r.kind, r.out)

(* A step that replaces a probe keeps ResultsInv if what it makes of it is credible. *)
LEMMA MoveKeeps ==
    ASSUME ResultsInv, NEW S, NEW new, running' \subseteq S \cup {new}, S \subseteq running,
           new.pc = "read" => new.kind = "http_trace",
           new.pc \in {"head", "body"} => new.kind = "speed",
           Credible(new.kind, new.out)
    PROVE  ResultsInv'
BY DEF ResultsInv, Credible

LEMMA ConcludeKeeps ==
    ASSUME ProbesInv, ResultsInv, NEW r \in running, NEW out, Finish(r, out), Credible(r.kind, out)
    PROVE  ResultsInv'
<1> DEFINE new == [r EXCEPT !.pc = "report", !.stage = 1, !.bytes = 0, !.spent = 0, !.out = out]
<1>1. Shaped(r)
  BY DEF ProbesInv
<1>2. new.pc = "report" /\ new.kind = r.kind /\ new.out = out
  BY <1>1 DEF Shaped
<1>3. running' \subseteq running \cup {new}
  BY DEF Finish, Become
<1> HIDE DEF new
<1> QED
  BY <1>2, <1>3, MoveKeeps

LEMMA FailedIsCredible == \A kind : Credible(kind, Failed)
BY DEF Credible, Failed

LEMMA ResultsStep ==
    ASSUME ProbesInv, ResultsInv, [Next]_vars
    PROVE  ResultsInv'
<1>1. CASE Tick \/ SpeedRound \/ UNCHANGED vars
  BY <1>1 DEF Tick, SpeedRound, vars, ResultsInv, Credible
<1>2. ASSUME NEW i, NEW p, NEW kind, NEW pc \in {"connect", "report"}, NEW out,
             Start(i, p, kind, pc, out), Credible(kind, out)
      PROVE  ResultsInv'
  <2> DEFINE new == [isp |-> i, ip |-> p, kind |-> kind, at |-> now, pc |-> pc,
                     stage |-> 1, bytes |-> 0, spent |-> 0, out |-> out]
  <2>1. running' = running \cup {new}
    BY <1>2 DEF Start
  <2>2. new.pc = pc /\ new.kind = kind /\ new.out = out
    OBVIOUS
  <2> HIDE DEF new
  <2> QED
    BY <1>2, <2>1, <2>2, MoveKeeps
<1>3. CASE TcpStart \/ TraceStart \/ SpeedStart
  <2>1. CASE TcpStart
    <3>1. PICK i, p, h : Start(i, p, "tcp_ping", "report", PingOutcome(TcpStats(h.warmup, h.rtts)))
      BY <2>1 DEF TcpStart
    <3>2. \A out : Credible("tcp_ping", out)
      BY DEF Credible
    <3> QED
      BY <1>2, <3>1, <3>2
  <2>2. CASE TraceStart
    <3>1. PICK i, p : Start(i, p, "http_trace", "connect", Failed)
      BY <2>2 DEF TraceStart
    <3> QED
      BY <1>2, <3>1, FailedIsCredible
  <2>3. CASE SpeedStart
    <3>1. PICK i, p : Start(i, p, "speed", "connect", Failed)
      BY <2>3 DEF SpeedStart
    <3> QED
      BY <1>2, <3>1, FailedIsCredible
  <2> QED
    BY <1>3, <2>1, <2>2, <2>3
<1>4. ASSUME NEW r \in running, Raise(r) \/ TraceStep(r) \/ SpeedStep(r) \/ ReportStep(r)
      PROVE  ResultsInv'
  <2>1. /\ Shaped(r) /\ Credible(r.kind, r.out)
        /\ r.pc = "read" => r.kind = "http_trace"
        /\ r.pc \in {"head", "body"} => r.kind = "speed"
    BY DEF ProbesInv, ResultsInv
  <2>2. ASSUME NEW new, Become(r, new), new.kind = r.kind, new.out = r.out,
               new.pc = "read" => r.kind = "http_trace",
               new.pc \in {"head", "body"} => r.kind = "speed"
        PROVE  ResultsInv'
    <3>1. running' \subseteq running \cup {new}
      BY <2>2 DEF Become
    <3> QED
      BY <2>1, <2>2, <3>1, MoveKeeps
  <2>3. CASE Raise(r)
    BY <2>3, ConcludeKeeps, FailedIsCredible DEF Raise
  <2>4. CASE TraceConnect(r)
    <3> DEFINE new == [r EXCEPT !.pc = "read"]
    <3>1. Become(r, new) /\ r.kind = "http_trace"
      BY <2>4 DEF TraceConnect
    <3>2. new.kind = r.kind /\ new.out = r.out /\ new.pc = "read"
      BY <2>1 DEF Shaped
    <3> HIDE DEF new
    <3> QED
      BY <2>2, <3>1, <3>2
  <2>5. CASE TraceRecv(r)
    <3>1. PICK stage : Become(r, [r EXCEPT !.stage = stage])
      BY <2>5 DEF TraceRecv
    <3> DEFINE new == [r EXCEPT !.stage = stage]
    <3>2. new.kind = r.kind /\ new.out = r.out /\ new.pc = r.pc
      BY <2>1 DEF Shaped
    <3>3. Become(r, new)
      BY <3>1
    <3> HIDE DEF new
    <3> QED
      BY <2>1, <2>2, <3>2, <3>3
  <2>6. CASE TraceEnd(r)
    <3>1. PICK c \in Colo, rtt \in Rtt :
              LET res == HttpTrace(TraceStages[r.stage], rtt, c.name, c.part)
              IN  Finish(r, [Failed EXCEPT !.ok = res.ok, !.latency = res.latency, !.colo = res.colo])
      BY <2>6 DEF TraceEnd
    <3> DEFINE res == HttpTrace(TraceStages[r.stage], rtt, c.name, c.part)
               out == [Failed EXCEPT !.ok = res.ok, !.latency = res.latency, !.colo = res.colo]
    <3>2. r.kind = "http_trace"
      BY <2>1, <2>6 DEF TraceEnd
    <3>3. (res.ok <=> res.colo # "") /\ res.latency = rtt
      BY DEF HttpTrace
    <3>4. Finish(r, out)
      BY <3>1
    <3> HIDE DEF res
    <3>5. out.ok = res.ok /\ out.latency = res.latency /\ out.colo = res.colo
      BY DEF Failed
    <3> HIDE DEF out
    <3>6. Credible(r.kind, out)
      BY <3>2, <3>3, <3>5 DEF Credible
    <3> QED
      BY <3>4, <3>6, ConcludeKeeps
  <2>7. CASE SpeedConnect(r)
    <3> DEFINE new == [r EXCEPT !.pc = "head"]
    <3>1. Become(r, new) /\ r.kind = "speed"
      BY <2>7 DEF SpeedConnect
    <3>2. new.kind = r.kind /\ new.out = r.out /\ new.pc = "head"
      BY <2>1 DEF Shaped
    <3> HIDE DEF new
    <3> QED
      BY <2>2, <3>1, <3>2
  <2>12. CASE HeadEnd(r)
    <3>1. PICK leftover : Become(r, [r EXCEPT !.pc = "body", !.bytes = leftover, !.spent = 0])
      BY <2>12 DEF HeadEnd
    <3> DEFINE new == [r EXCEPT !.pc = "body", !.bytes = leftover, !.spent = 0]
    <3>2. new.kind = r.kind /\ new.out = r.out /\ new.pc = "body"
      BY <2>1 DEF Shaped
    <3>3. Become(r, new) /\ r.kind = "speed"
      BY <2>1, <2>12, <3>1 DEF HeadEnd
    <3> HIDE DEF new
    <3> QED
      BY <2>2, <3>2, <3>3
  <2>8. CASE SpeedRecv(r) \/ HeadRecv(r)
    <3>1. PICK n, t : Become(r, [r EXCEPT !.bytes = @ + n, !.spent = @ + t])
      BY <2>8 DEF SpeedRecv, HeadRecv
    <3> DEFINE new == [r EXCEPT !.bytes = @ + n, !.spent = @ + t]
    <3>2. new.kind = r.kind /\ new.out = r.out /\ new.pc = r.pc
      BY <2>1 DEF Shaped
    <3>3. Become(r, new)
      BY <3>1
    <3> HIDE DEF new
    <3> QED
      BY <2>1, <2>2, <3>2, <3>3
  <2>9. CASE SpeedStall(r) \/ SpeedEof(r) \/ SpeedStop(r)
    <3>1. PICK spent \in Nat : Conclude(r, r.bytes, spent)
      <4>1. r.spent \in Nat /\ {Timeout, Slack} \subseteq Nat
        BY <2>1, MeasureAssumption DEF Shaped
      <4>2. r.spent < Timeout => Wait(r.spent) \in Nat
        BY <4>1 DEF Wait, AtLeast
      <4>3. CASE SpeedStall(r)
        BY <4>1, <4>2, <4>3 DEF SpeedStall
      <4>4. CASE SpeedEof(r)
        <5>1. PICK t \in 0 .. Wait(r.spent) : Conclude(r, r.bytes, r.spent + t)
          BY <4>4 DEF SpeedEof
        <5>2. r.spent + t \in Nat
          BY <4>1, <4>2, <4>4 DEF SpeedEof
        <5> QED
          BY <5>1, <5>2
      <4>5. CASE SpeedStop(r)
        BY <4>1, <4>5 DEF SpeedStop
      <4> QED
        BY <2>9, <4>3, <4>4, <4>5
    <3> DEFINE res == SpeedTest(r.bytes, AtLeast(1, spent), Enough, Scale)
               out == [Failed EXCEPT !.ok = res.ok, !.speed = res.speed]
    <3>2. res.ok => res.speed \in Nat
      <4>1. AtLeast(1, spent) \in Nat \ {0}
        BY DEF AtLeast
      <4>2. r.bytes \in Nat /\ Scale \in Nat
        BY <2>1, CandidatesAssumption DEF Shaped
      <4>3. Scale * r.bytes \in Nat
        BY <4>2
      <4>4. (Scale * r.bytes) \div AtLeast(1, spent) \in Nat
        BY <4>1, <4>3, DivisionBounds
      <4> QED
        BY <4>4 DEF SpeedTest
    <3>3. Finish(r, out)
      BY <3>1 DEF Conclude
    <3> HIDE DEF res
    <3>4. out.ok = res.ok /\ out.speed = res.speed
      BY DEF Failed
    <3>5. r.kind = "speed"
      BY <2>1, <2>9 DEF SpeedStall, SpeedEof, SpeedStop
    <3> HIDE DEF out
    <3>6. Credible(r.kind, out)
      BY <3>2, <3>4, <3>5 DEF Credible
    <3> QED
      BY <3>3, <3>6, ConcludeKeeps
  <2>10. CASE ReportInsert(r)
    <3> DEFINE new == [r EXCEPT !.pc = "done"]
    <3>1. new.kind = r.kind /\ new.out = r.out /\ new.pc = "done"
      BY <2>1 DEF Shaped
    <3>2. running' \subseteq running \cup {new}
      BY <2>10 DEF ReportInsert
    <3> HIDE DEF new
    <3> QED
      BY <2>1, <3>1, <3>2, MoveKeeps
  <2>11. CASE ReportMarkDone(r) \/ ReportLost(r)
    <3>1. running' \subseteq running
      BY <2>11 DEF ReportMarkDone, ReportLost
    <3> QED
      BY <3>1 DEF ResultsInv, Credible
  <2> QED
    BY <1>4, <2>3, <2>4, <2>5, <2>6, <2>7, <2>8, <2>9, <2>10, <2>11, <2>12
       DEF TraceStep, SpeedStep, ReportStep
<1> QED
  BY <1>1, <1>3, <1>4 DEF Next

LEMMA RowsGrow ==
    ASSUME NEW bag, IsABag(bag), NEW row
    PROVE  /\ IsABag(bag (+) SetToBag({row}))
           /\ BagToSet(bag (+) SetToBag({row})) = BagToSet(bag) \cup {row}
<1> DEFINE one == SetToBag({row})
           more == bag (+) one
<1>1. DOMAIN one = {row} /\ one[row] = 1
  BY DEF SetToBag
<1> HIDE DEF one
<1>2. BagToSet(more) = BagToSet(bag) \cup {row}
  BY <1>1 DEF BagToSet, (+)
<1>3. \A x \in DOMAIN bag : bag[x] \in Nat /\ bag[x] > 0
  BY DEF IsABag
<1>4. \A x \in DOMAIN more : more[x] \in Nat /\ more[x] > 0
  BY <1>1, <1>3 DEF (+)
<1>5. more = [x \in DOMAIN more |-> more[x]]
  BY DEF (+)
<1>6. IsABag(more)
  BY <1>4, <1>5 DEF IsABag
<1> QED
  BY <1>2, <1>6 DEF one

LEMMA RowsStep ==
    ASSUME ProbesInv, ResultsInv, RowsInv, [Next]_vars
    PROVE  RowsInv'
<1>1. CASE \E r \in running : ReportInsert(r)
  <2>1. PICK r \in running : ReportInsert(r)
    BY <1>1
  <2> DEFINE row == RowOf(r)
  <2>2. row.at \in Nat /\ Credible(row.kind, row)
    BY DEF ProbesInv, Shaped, ResultsInv, Credible, RowOf
  <2> HIDE DEF row
  <2>3. IsABag(table') /\ BagToSet(table') = BagToSet(table) \cup {row}
    BY <2>1, RowsGrow DEF ReportInsert, RowsInv, row
  <2>4. IsFiniteSet(BagToSet(table'))
    BY <2>3, FS_AddElement DEF RowsInv
  <2> QED
    BY <2>2, <2>3, <2>4 DEF RowsInv, Credible
<1>2. CASE table' = table
  BY <1>2 DEF RowsInv, Credible
<1>3. table' = table \/ \E r \in running : ReportInsert(r)
  BY DEF Next, vars, Tick, TcpStart, TraceStart, SpeedStart, SpeedRound, Start, Raise, TraceStep,
         TraceConnect, TraceRecv, TraceEnd, SpeedStep, SpeedConnect, HeadRecv, HeadEnd, SpeedRecv,
         SpeedStall, SpeedEof, SpeedStop, Conclude, Finish, Become, ReportStep, ReportMarkDone, ReportLost
<1> QED
  BY <1>1, <1>2, <1>3

LEMMA RowsInvariant == Spec => [](now \in Nat /\ RowsInv)
<1>1. Init => RowsInv /\ ResultsInv
  <2> SUFFICES ASSUME Init PROVE RowsInv /\ ResultsInv
    OBVIOUS
  <2>1. DOMAIN table = {} /\ running = {}
    BY DEF Init, EmptyBag, SetToBag
  <2>2. table = [x \in {} |-> 1]
    BY DEF Init, EmptyBag, SetToBag
  <2> QED
    BY <2>1, <2>2, FS_EmptySet DEF RowsInv, ResultsInv, IsABag, BagToSet
<1>2. ProbesInv /\ ResultsInv /\ RowsInv /\ [Next]_vars => (ResultsInv /\ RowsInv)'
  BY ResultsStep, RowsStep
<1>3. ProbesInv => now \in Nat
  BY DEF ProbesInv
<1> QED
  BY <1>1, <1>2, <1>3, ProbesInvariant, PTL DEF Spec

----------------------------------------------------------------------------
(* What the averages say of the rows they are taken over *)

LEMMA CandidateRows ==
    ASSUME now \in Nat, RowsInv, NEW i \in Isp, NEW p \in DOMAIN AggregateRecent(table, i, now)
    PROVE  LET rows == Recent(table, i, p, now - Lookback)
               traces == OkRows(rows, "http_trace")
               tests == OkRows(InHours(rows, now), "speed")
               found == AggregateRecent(table, i, now)[p]
           IN  /\ traces # {} /\ traces \subseteq BagToSet(table)
               /\ \A r \in traces : r.latency \in Nat /\ r.latency \in Rtt
               /\ TraceLatency(table, i, p, now) = Average(table, traces, "latency")
               /\ found.latency = TraceLatency(table, i, p, now) /\ found.latency \in Nat
               /\ tests \subseteq BagToSet(table) /\ \A r \in tests : r.speed \in Nat
               /\ found.speed = Average(table, tests, "speed")
               /\ found.colo = LastColo(table, i, p)
<1> DEFINE rows == Recent(table, i, p, now - Lookback)
           traces == OkRows(rows, "http_trace")
           tests == OkRows(InHours(rows, now), "speed")
           pings == OkRows(InHours(rows, now), "tcp_ping")
           found == AggregateRecent(table, i, now)[p]
<1>1. p \in Grouped(table, i, now)
  BY DEF AggregateRecent
<1>2. traces # {} /\ traces \subseteq BagToSet(table)
  BY <1>1 DEF Grouped, OkRows, Recent
<1>3. \A r \in traces : r.latency \in Nat /\ r.latency \in Rtt
  BY <1>2, MeasureAssumption DEF OkRows, RowsInv, Credible
<1>4. tests \subseteq BagToSet(table) /\ \A r \in tests : r.speed \in Nat
  BY DEF OkRows, InHours, Recent, RowsInv, Credible
<1>5. /\ found.latency = Coalesce(TraceLatency(table, i, p, now), Average(table, pings, "latency"))
      /\ found.speed = Average(table, tests, "speed")
      /\ found.colo = LastColo(table, i, p)
  BY <1>1 DEF AggregateRecent
<1>6. TraceLatency(table, i, p, now) = Average(table, traces, "latency")
  BY DEF TraceLatency
<1>7. Average(table, traces, "latency") \in Nat
  <2> HIDE DEF traces
  <2>1. \A r \in traces : r["latency"] \in Nat
    BY <1>3
  <2> QED
    BY <1>2, <2>1, AverageBounds, 0 \in Nat DEF RowsInv
<1>8. found.latency = TraceLatency(table, i, p, now)
  BY <1>5, <1>6, <1>7 DEF Coalesce, NoValue
<1> QED
  BY <1>2, <1>3, <1>4, <1>5, <1>6, <1>7, <1>8

LEMMA LastColoIsKnown ==
    ASSUME RowsInv, NEW i, NEW p, NEW since, OkRows(Recent(table, i, p, since), "http_trace") # {}
    PROVE  LastColo(table, i, p) # ""
<1> DEFINE traces == {r \in BagToSet(table) : r.isp = i /\ r.ip = p /\ r.kind = "http_trace" /\ r.ok}
           taken == [r \in traces |-> r.at]
           colos == {r.colo : r \in {x \in traces : \A y \in traces : y.at <= x.at}}
<1>1. traces # {} /\ traces \subseteq BagToSet(table)
  BY DEF OkRows, Recent
<1>2. IsFiniteSet(traces)
  BY <1>1, FS_Subset DEF RowsInv
<1>3. \A r \in traces : taken[r] \in Int /\ taken[r] = r.at /\ r.colo # ""
  <2> SUFFICES ASSUME NEW r \in traces PROVE taken[r] \in Int /\ taken[r] = r.at /\ r.colo # ""
    OBVIOUS
  <2>1. r \in BagToSet(table) /\ r.kind = "http_trace" /\ r.ok
    OBVIOUS
  <2>2. r.at \in Nat
    BY <2>1 DEF RowsInv
  <2>3. r.colo # ""
    BY <2>1 DEF RowsInv, Credible
  <2>4. taken[r] = r.at
    OBVIOUS
  <2> HIDE DEF taken, traces
  <2>5. taken[r] \in Int
    BY <2>2, <2>4
  <2> QED
    BY <2>3, <2>4, <2>5
<1>4. PICK x \in traces : \A y \in traces : taken[y] <= taken[x]
  <2> HIDE DEF taken, traces
  <2>1. \A r \in traces : taken[r] \in Int
    BY <1>3
  <2> QED
    BY <1>1, <1>2, <2>1, GreatestMember
<1>5. x.colo \in colos /\ \A c \in colos : c # ""
  <2> HIDE DEF taken
  <2> QED
    BY <1>3, <1>4
<1>6. LastColo(table, i, p) = CHOOSE c \in colos : TRUE
  BY DEF LastColo
<1> HIDE DEF colos
<1> QED
  BY <1>5, <1>6

(* The columns of a candidate that the fallbacks were written for are always there
   (master/storage.py, aggregate_recent). *)
THEOREM CandidatesAreMeasured == Spec => []CandidatesAreUsable
<1>1. ASSUME now \in Nat, RowsInv PROVE CandidatesAreUsable
  <2> SUFFICES ASSUME NEW i \in Isp, NEW p \in DOMAIN AggregateRecent(table, i, now)
               PROVE  /\ AggregateRecent(table, i, now)[p].latency = TraceLatency(table, i, p, now)
                      /\ AggregateRecent(table, i, now)[p].latency # NoValue
                      /\ AggregateRecent(table, i, now)[p].colo # ""
    BY DEF CandidatesAreUsable
  <2> DEFINE found == AggregateRecent(table, i, now)[p]
  <2>1. /\ found.latency = TraceLatency(table, i, p, now) /\ found.latency \in Nat
        /\ OkRows(Recent(table, i, p, now - Lookback), "http_trace") # {}
        /\ found.colo = LastColo(table, i, p)
    BY <1>1, CandidateRows
  <2>2. found.colo # ""
    BY <1>1, <2>1, LastColoIsKnown
  <2>3. found.latency # NoValue
    <3> HIDE DEF found
    <3> QED
      BY <2>1 DEF NoValue
  <2> QED
    BY <2>1, <2>2, <2>3
<1> QED
  BY <1>1, RowsInvariant, PTL

LEMMA HoursApart ==
    ASSUME NEW a \in Nat, NEW b \in Nat, b % Day \in HourSet(a)
    PROVE  Apart(a, b) <= Window
<1>1. Day \in Nat \ {0} /\ Window \in Nat
  BY CandidatesAssumption
<1>2. PICK offset \in -Window .. Window : b % Day = (a + offset) % Day
  BY DEF HourSet
<1>3. \A n \in Int : n \div Day \in Int /\ n % Day \in 0 .. Day - 1 /\ n = Day * (n \div Day) + (n % Day)
  BY <1>1
<1> DEFINE d == (a - b) % Day
           k == (a - b) \div Day - (a + offset) \div Day + b \div Day
<1>4. k \in Int /\ d \in 0 .. Day - 1 /\ -offset = Day * k + d
  <2> DEFINE x == (a - b) \div Day
             y == (a + offset) \div Day
             z == b \div Day
  <2>1. x \in Int /\ d \in 0 .. Day - 1 /\ a - b = Day * x + d
    BY <1>3
  <2>2. y \in Int /\ a + offset = Day * y + (b % Day) /\ offset \in Int
    <3>1. offset \in Int /\ a + offset \in Int
      BY <1>1
    <3>2. y \in Int /\ a + offset = Day * y + ((a + offset) % Day)
      BY <1>3, <3>1
    <3> HIDE DEF y
    <3> QED
      BY <1>2, <3>1, <3>2
  <2>3. z \in Int /\ b = Day * z + (b % Day) /\ b % Day \in Int
    BY <1>1, <1>3
  <2> DEFINE e == b % Day
  <2> HIDE DEF x, y, z, d, e
  <2>4. Day * (x - y + z) = Day * x - Day * y + Day * z
    BY <1>1, <2>1, <2>2, <2>3
  <2>5. Day * x \in Int /\ Day * y \in Int /\ Day * z \in Int
    BY <1>1, <2>1, <2>2, <2>3
  <2>6. -offset = Day * (x - y + z) + d
    BY <2>1, <2>2, <2>3, <2>4, <2>5 DEF e
  <2> QED
    BY <2>1, <2>2, <2>3, <2>6 DEF x, y, z
<1> HIDE DEF d, k
<1>5. CASE k >= 0
  <2>1. Day * k \in Nat
    BY <1>1, <1>4, <1>5
  <2> QED
    BY <1>1, <1>4, <2>1 DEF Apart, AtMost, d
<1>6. CASE k <= -1
  <2>1. Day * (-1 - k) \in Nat /\ Day * k = -Day - Day * (-1 - k)
    BY <1>1, <1>4, <1>6
  <2> QED
    BY <1>1, <1>4, <2>1 DEF Apart, AtMost, d
<1> QED
  BY <1>4, <1>5, <1>6

(* No average admits what none of its rows shows: an address is published only after a
   successful trace within the lookback and, where speed is required, a test that was
   fast enough at about this hour of a day (master/scoring.py, pick_best;
   master/storage.py, aggregate_recent). *)
THEOREM PublishedWasAlive == Spec => []PublishedIsAlive
<1>1. ASSUME now \in Nat, RowsInv PROVE PublishedIsAlive
  <2> SUFFICES ASSUME NEW i \in Isp, NEW p \in DOMAIN AggregateRecent(table, i, now),
                      Eligible(AggregateRecent(table, i, now)[p])
               PROVE  /\ \E r \in BagToSet(table) :
                            r.isp = i /\ r.ip = p /\ r.kind = "http_trace" /\ r.ok
                            /\ now - r.at <= Lookback
                      /\ SpeedRequired => \E r \in BagToSet(table) :
                            /\ r.isp = i /\ r.ip = p /\ r.kind = "speed" /\ r.ok
                            /\ Scale * r.speed >= MinSpeed
                            /\ now - r.at <= Lookback /\ Apart(now, r.at) <= Window
    BY DEF PublishedIsAlive
  <2> DEFINE rows == Recent(table, i, p, now - Lookback)
             tests == OkRows(InHours(rows, now), "speed")
             found == AggregateRecent(table, i, now)[p]
  <2>1. Lookback \in Nat /\ MinSpeed \in Nat \ {0}
    BY CandidatesAssumption, RankingAssumption
  <2>2. \A r \in rows : /\ r \in BagToSet(table) /\ r.isp = i /\ r.ip = p
                        /\ r.at \in Nat /\ now - r.at <= Lookback
    BY <1>1, <2>1 DEF Recent, RowsInv
  <2>3. \E r \in rows : r.kind = "http_trace" /\ r.ok
    <3>1. OkRows(rows, "http_trace") # {}
      BY <1>1, CandidateRows
    <3> QED
      BY <3>1 DEF OkRows
  <2>4. ASSUME SpeedRequired
        PROVE  \E r \in tests : MinSpeed <= Scale * r.speed
    <3>1. found.speed # NoValue /\ found.speed >= MinSpeed
      BY <2>4 DEF Eligible
    <3>2. /\ tests \subseteq BagToSet(table) /\ \A r \in tests : r["speed"] \in Nat
          /\ found.speed = Average(table, tests, "speed")
      BY <1>1, CandidateRows
    <3>3. tests # {}
      <4> HIDE DEF tests, found
      <4> QED
        BY <3>1, <3>2 DEF Average
    <3> HIDE DEF tests, found
    <3>4. IsABag(table) /\ IsFiniteSet(BagToSet(table)) /\ MinSpeed \in Nat
      BY <1>1, <2>1 DEF RowsInv
    <3>5. /\ Average(table, tests, "speed") \in Nat
          /\ MinSpeed <= Average(table, tests, "speed") => \E r \in tests : MinSpeed <= Scale * r["speed"]
      BY <3>2, <3>3, <3>4, AverageBounds
    <3> QED
      BY <2>1, <3>1, <3>2, <3>5
  <2>5. ASSUME NEW r \in tests
        PROVE  r \in rows /\ r.kind = "speed" /\ r.ok /\ r.at % Day \in HourSet(now)
    BY DEF OkRows, InHours
  <2>6. ASSUME NEW r \in tests, MinSpeed <= Scale * r.speed
        PROVE  /\ r \in BagToSet(table) /\ r.isp = i /\ r.ip = p /\ r.kind = "speed" /\ r.ok
               /\ Scale * r.speed >= MinSpeed
               /\ now - r.at <= Lookback /\ Apart(now, r.at) <= Window
    <3>1. Apart(now, r.at) <= Window
      BY <1>1, <2>2, <2>5, HoursApart
    <3>2. r.speed \in Nat /\ Scale \in Nat
      BY <1>1, CandidateRows, CandidatesAssumption
    <3>3. Scale * r.speed \in Nat
      BY <3>2
    <3> QED
      BY <2>1, <2>2, <2>5, <2>6, <3>1, <3>3
  <2> QED
    BY <2>2, <2>3, <2>4, <2>6
<1> QED
  BY <1>1, RowsInvariant, PTL

(* As long as no trace takes a time that rounds to 0, which latency_top_candidates would
   take for unknown, a speed round tests a fastest address, however ties are broken and
   however few it takes (master/scoring.py, latency_top_candidates). *)
THEOREM FastestGetsTested ==
    ASSUME 0 \notin Rtt
    PROVE  Spec => []FastestIsTested
<1>1. ASSUME now \in Nat, RowsInv PROVE FastestIsTested
  <2> SUFFICES ASSUME NEW i \in Isp,
                      NEW near, near = {p \in DOMAIN AggregateRecent(table, i, now) :
                                          AggregateRecent(table, i, now)[p].latency <= MaxLatency},
                      near # {}, NEW ips \in LatencyTop(AggregateRecent(table, i, now))
               PROVE  \E p \in ips : \A q \in near :
                          AggregateRecent(table, i, now)[p].latency <= AggregateRecent(table, i, now)[q].latency
    BY DEF FastestIsTested
  <2> DEFINE rows == AggregateRecent(table, i, now)
             cut == AtLeast(1, (Cardinality(near) * Percent) \div 100)
             score == [p \in near |-> Nearness(rows[p])]
  <2>1. \A p \in DOMAIN rows : rows[p].latency \in Nat \ {0}
    <3> SUFFICES ASSUME NEW p \in DOMAIN rows PROVE rows[p].latency \in Nat \ {0}
      OBVIOUS
    <3> DEFINE traces == OkRows(Recent(table, i, p, now - Lookback), "http_trace")
    <3>1. /\ traces # {} /\ traces \subseteq BagToSet(table)
          /\ \A r \in traces : r["latency"] \in Nat /\ r["latency"] \in Rtt
          /\ rows[p].latency = Average(table, traces, "latency") /\ rows[p].latency \in Nat
      BY <1>1, CandidateRows
    <3> HIDE DEF traces, rows
    <3>2. \A r \in traces : 1 <= Scale * r["latency"]
      <4> SUFFICES ASSUME NEW r \in traces PROVE 1 <= Scale * r["latency"]
        OBVIOUS
      <4>1. r["latency"] \in Nat \ {0} /\ Scale \in Nat \ {0}
        BY <3>1, CandidatesAssumption
      <4>2. Scale * r["latency"] \in Nat \ {0}
        BY <4>1
      <4> QED
        BY <4>2
    <3>3. IsABag(table) /\ IsFiniteSet(BagToSet(table)) /\ 1 \in Nat
      BY <1>1 DEF RowsInv
    <3>4. 1 <= Average(table, traces, "latency")
      BY <3>1, <3>2, <3>3, AverageBounds
    <3> QED
      BY <3>1, <3>4
  <2>2. {p \in DOMAIN rows : rows[p].latency # NoValue /\ rows[p].latency <= MaxLatency} = near
    BY <2>1 DEF NoValue
  <2>3. ips \in BestOf(near, cut, score)
    BY <2>2 DEF LatencyTop
  <2>4. \A p \in near : score[p] = -rows[p].latency /\ rows[p].latency \in Nat
    BY <2>1 DEF Nearness
  <2>5. IsFiniteSet(near)
    <3> DEFINE known == {r.ip : r \in BagToSet(table)}
    <3>1. IsFiniteSet(known)
      <4> DEFINE ip == [r \in BagToSet(table) |-> r.ip]
      <4>1. ip \in Surjection(BagToSet(table), known)
        BY DEF Surjection
      <4> QED
        BY <1>1, <4>1, FS_Surjection DEF RowsInv
    <3>2. near \subseteq known
      BY DEF AggregateRecent, Grouped, OkRows, Recent
    <3> QED
      BY <3>1, <3>2, FS_Subset
  <2> HIDE DEF rows, score, cut
  <2>6. ips \subseteq near /\ IsFiniteSet(ips) /\ \A p \in ips, q \in near \ ips : score[p] >= score[q]
    BY <2>3, <2>5, FS_Subset DEF BestOf
  <2>7. ips # {}
    <3>1. Cardinality(near) \in Nat /\ Cardinality(near) # 0
      BY <2>5, FS_CardinalityType, FS_EmptySet
    <3>2. cut # 0
      BY DEF cut, AtLeast
    <3>3. Cardinality(ips) = AtMost(cut, Cardinality(near))
      BY <2>3 DEF BestOf
    <3>4. Cardinality(ips) # 0
      BY <3>1, <3>2, <3>3 DEF AtMost
    <3> QED
      BY <3>4, FS_EmptySet
  <2>8. \A x \in ips : score[x] \in Int
    BY <2>4, <2>6
  <2>9. PICK p \in ips : \A q \in ips : score[q] <= score[p]
    BY <2>6, <2>7, <2>8, GreatestMember
  <2>10. ASSUME NEW q \in near PROVE rows[p].latency <= rows[q].latency
    <3>1. score[q] <= score[p]
      BY <2>4, <2>6, <2>9
    <3>2. /\ score[p] = -rows[p].latency /\ rows[p].latency \in Nat
          /\ score[q] = -rows[q].latency /\ rows[q].latency \in Nat
      BY <2>4, <2>6
    <3> QED
      BY <3>1, <3>2
  <2> QED
    BY <2>10 DEF rows
<1> QED
  BY <1>1, RowsInvariant, PTL

----------------------------------------------------------------------------

(* What tcp_ping is checked for on a few handshakes holds of any number of them
   (agent/probes/tcp_ping.py). *)
THEOREM PingsAreRight == Spec => []PingsAreSound
<1>1. PingsAreSound
  <2> SUFFICES ASSUME NEW total \in 1 .. MaxHandshakes, NEW warmup,
                      NEW rtts \in [1 .. total -> PingTimes \cup {NoValue}]
               PROVE  StatsAreOf(TcpStats(warmup, rtts), warmup, rtts)
    BY DEF PingsAreSound, StatsAreSound
  <2>1. total \in Nat /\ rtts \in [1 .. total -> Nat \cup {NoValue}]
    BY MeasureAssumption
  <2> QED
    BY <2>1, StatsAreRight
<1> QED
  BY <1>1, PTL

(* Types.  An outcome is Failed with the columns set that its kind of probe measures. *)

LEMMA FailedIsTyped == Failed \in Outcome
BY StringAssumption, Zenon DEF Failed, Outcome

LEMMA PingsAreTyped ==
    ASSUME NEW h \in Handshakes
    PROVE  PingOutcome(TcpStats(h.warmup, h.rtts)) \in Outcome
<1> DEFINE rtts == h.rtts
           samples == Samples(h.warmup, rtts)
           n == Len(samples)
           stats == TcpStats(h.warmup, rtts)
<1> HIDE DEF rtts
<1>5. ASSUME NEW s, s.ok \in BOOLEAN, s.p50 \in Nat \cup {NoValue}, s.jitter \in Nat \cup {NoValue}
      PROVE  PingOutcome(s) \in Outcome
  BY <1>5, FailedIsTyped DEF PingOutcome, Outcome
<1> USE DEF rtts
<1>1. Len(rtts) \in Nat /\ rtts \in [1 .. Len(rtts) -> Nat \cup {NoValue}]
  BY MeasureAssumption
<1>2. samples \in Seq(Nat)
  <2> HIDE DEF rtts
  <2> QED
    BY <1>1, SortedSamples
<1> HIDE DEF rtts, samples
<1>3. CASE samples = <<>>
  <2>1. stats = NoStats
    BY <1>3 DEF TcpStats, samples
  <2>2. stats.ok \in BOOLEAN /\ stats.p50 \in {NoValue} /\ stats.jitter \in {NoValue}
    BY <2>1 DEF NoStats
  <2> HIDE DEF stats
  <2> QED
    BY <1>5, <2>2 DEF stats, rtts
<1>4. CASE samples # <<>>
  <2>1. n \in Nat \ {0}
    BY <1>2, <1>4
  <2>2. PercentileIndex(n, 1, 2) \in 1 .. n /\ PercentileIndex(n, 19, 20) \in 1 .. n
    BY <2>1, MedianHalves, HighPlace DEF HalvesAt
  <2> DEFINE p50 == Quantile(samples, 1, 2)
             p95 == Quantile(samples, 19, 20)
  <2>3. p50 \in Nat /\ p95 \in Nat
    BY <1>2, <2>2 DEF Quantile
  <2>4. stats.ok = TRUE /\ stats.p50 = p50 /\ stats.jitter = Jitter(p50, p95)
    BY <1>4 DEF TcpStats, samples
  <2>5. Jitter(p50, p95) \in Nat
    <3> HIDE DEF p50, p95
    <3> QED
      BY <2>3 DEF Jitter, AtLeast
  <2>6. stats.ok \in BOOLEAN /\ stats.p50 \in Nat /\ stats.jitter \in Nat
    BY <2>3, <2>4, <2>5
  <2> HIDE DEF stats
  <2> QED
    BY <1>5, <2>6 DEF stats, rtts
<1> QED
  BY <1>3, <1>4

LEMMA ProbeChanges ==
    ASSUME NEW r \in Probe
    PROVE  /\ \A pc \in {"read", "head", "done"} : [r EXCEPT !.pc = pc] \in Probe
           /\ \A stage \in 1 .. Len(TraceStages) : [r EXCEPT !.stage = stage] \in Probe
           /\ \A bytes \in Nat : [r EXCEPT !.pc = "body", !.bytes = bytes, !.spent = 0] \in Probe
           /\ \A n, t \in Nat : [r EXCEPT !.bytes = @ + n, !.spent = @ + t] \in Probe
           /\ \A out \in Outcome :
                 [r EXCEPT !.pc = "report", !.stage = 1, !.bytes = 0, !.spent = 0, !.out = out] \in Probe
<1>1. 1 \in 1 .. Len(TraceStages)
  BY DEF TraceStages
<1>2. ASSUME NEW pc \in {"read", "head", "done"} PROVE [r EXCEPT !.pc = pc] \in Probe
  BY DEF Probe
<1>3. ASSUME NEW stage \in 1 .. Len(TraceStages) PROVE [r EXCEPT !.stage = stage] \in Probe
  BY DEF Probe
<1>4. ASSUME NEW bytes \in Nat
      PROVE  [r EXCEPT !.pc = "body", !.bytes = bytes, !.spent = 0] \in Probe
  BY DEF Probe
<1>5. ASSUME NEW n \in Nat, NEW t \in Nat
      PROVE  [r EXCEPT !.bytes = @ + n, !.spent = @ + t] \in Probe
  <2>1. r.bytes + n \in Nat /\ r.spent + t \in Nat
    BY DEF Probe
  <2> QED
    BY <2>1 DEF Probe
<1>6. ASSUME NEW out \in Outcome
      PROVE  [r EXCEPT !.pc = "report", !.stage = 1, !.bytes = 0, !.spent = 0, !.out = out] \in Probe
  BY <1>1 DEF Probe
<1> QED
  BY <1>2, <1>3, <1>4, <1>5, <1>6

LEMMA BecomeTypes ==
    ASSUME TypeOK, NEW r \in running, NEW new \in Probe, Become(r, new)
    PROVE  TypeOK'
BY DEF TypeOK, Become

LEMMA FinishTypes ==
    ASSUME TypeOK, NEW r \in running, NEW out \in Outcome, Finish(r, out)
    PROVE  TypeOK'
<1>1. r \in Probe
  BY DEF TypeOK
<1> QED
  BY <1>1, ProbeChanges, BecomeTypes DEF Finish

LEMMA StartTypes ==
    ASSUME TypeOK, NEW i, NEW p, NEW kind \in {"tcp_ping", "http_trace", "speed"},
           NEW pc \in {"connect", "report"}, NEW out \in Outcome, Start(i, p, kind, pc, out)
    PROVE  TypeOK'
<1> DEFINE new == [isp |-> i, ip |-> p, kind |-> kind, at |-> now, pc |-> pc,
                   stage |-> 1, bytes |-> 0, spent |-> 0, out |-> out]
<1>1. running' = running \cup {new} /\ UNCHANGED <<now, table, asked>>
  BY DEF Start
<1>2. i \in Isp /\ p \in Ip
  BY MeasureAssumption DEF Start
<1>3. 1 \in 1 .. Len(TraceStages)
  BY DEF TraceStages
<1>4. new \in Probe
  BY <1>2, <1>3 DEF TypeOK, Probe
<1> HIDE DEF new
<1> QED
  BY <1>1, <1>4 DEF TypeOK

LEMMA TypesStep ==
    ASSUME TypeOK, [Next]_vars
    PROVE  TypeOK'
<1>1. CASE Tick \/ UNCHANGED vars
  BY <1>1 DEF Tick, vars, TypeOK
<1>2. CASE SpeedRound
  <2>1. PICK i \in Isp : \E ips \in LatencyTop(AggregateRecent(table, i, now)) :
                             asked' = [asked EXCEPT ![i] = @ \cup ips]
    BY <1>2 DEF SpeedRound
  <2>2. PICK ips \in LatencyTop(AggregateRecent(table, i, now)) :
                             asked' = [asked EXCEPT ![i] = @ \cup ips]
    BY <2>1
  <2>3. ips \subseteq DOMAIN AggregateRecent(table, i, now)
    BY DEF LatencyTop, BestOf
  <2>4. ips \subseteq Ip
    BY <2>3 DEF AggregateRecent, Grouped
  <2>5. asked' \in [Isp -> SUBSET Ip]
    BY <2>2, <2>4 DEF TypeOK
  <2> QED
    BY <1>2, <2>5 DEF SpeedRound, TypeOK
<1>3. CASE TcpStart
  <2>1. PICK i \in Isp, p \in Ip, h \in Handshakes : Start(i, p, "tcp_ping", "report", PingOutcome(TcpStats(h.warmup, h.rtts)))
    BY <1>3 DEF TcpStart
  <2> QED
    BY <2>1, PingsAreTyped, StartTypes
<1>4. CASE TraceStart \/ SpeedStart
  BY <1>4, FailedIsTyped, StartTypes DEF TraceStart, SpeedStart
<1>5. ASSUME NEW r \in running, Raise(r) \/ TraceStep(r) \/ SpeedStep(r) \/ ReportStep(r)
      PROVE  TypeOK'
  <2>1. r \in Probe
    BY DEF TypeOK
  <2>2. r.stage \in 1 .. 4 /\ r.bytes \in Nat /\ r.spent \in Nat /\ Len(TraceStages) = 4
    BY <2>1 DEF Probe, TraceStages
  <2>3. {Timeout, Slack, Chunk, HeadChunk} \subseteq Nat /\ (r.spent < Timeout => Wait(r.spent) \in Nat)
    <3>1. {Timeout, Slack, Chunk, HeadChunk} \subseteq Nat
      BY MeasureAssumption
    <3> QED
      BY <2>2, <3>1 DEF Wait, AtLeast
  <2>4. CASE Raise(r)
    BY <2>4, FinishTypes, FailedIsTyped DEF Raise
  <2>5. CASE TraceConnect(r)
    BY <2>1, <2>5, ProbeChanges, BecomeTypes DEF TraceConnect
  <2>6. CASE TraceRecv(r)
    <3>1. PICK stage \in r.stage + 1 .. Len(TraceStages) : Become(r, [r EXCEPT !.stage = stage])
      BY <2>6 DEF TraceRecv
    <3>2. stage \in 1 .. Len(TraceStages)
      BY <2>2
    <3> QED
      BY <2>1, <3>1, <3>2, ProbeChanges, BecomeTypes
  <2>7. CASE TraceEnd(r)
    <3>1. PICK c \in Colo, rtt \in Rtt :
              LET res == HttpTrace(TraceStages[r.stage], rtt, c.name, c.part)
              IN  Finish(r, [Failed EXCEPT !.ok = res.ok, !.latency = res.latency, !.colo = res.colo])
      BY <2>7 DEF TraceEnd
    <3> DEFINE res == HttpTrace(TraceStages[r.stage], rtt, c.name, c.part)
    <3>2. rtt \in Nat /\ c.name \in STRING /\ c.part \in STRING
      BY MeasureAssumption
    <3>3. res.ok \in BOOLEAN /\ res.latency \in Nat /\ res.colo \in STRING
      BY <3>2, StringAssumption, Zenon DEF HttpTrace
    <3> DEFINE out == [Failed EXCEPT !.ok = res.ok, !.latency = res.latency, !.colo = res.colo]
    <3>4. Finish(r, out)
      BY <3>1
    <3> HIDE DEF res
    <3>5. out \in Outcome
      BY <3>3, FailedIsTyped DEF Outcome
    <3> HIDE DEF out
    <3> QED
      BY <3>4, <3>5, FinishTypes
  <2>8. CASE SpeedConnect(r)
    BY <2>1, <2>8, ProbeChanges, BecomeTypes DEF SpeedConnect
  <2>14. CASE HeadRecv(r)
    <3>1. PICK n \in 1 .. HeadChunk, t \in 0 .. Timeout :
              Become(r, [r EXCEPT !.bytes = @ + n, !.spent = @ + t])
      BY <2>14 DEF HeadRecv
    <3>2. n \in Nat /\ t \in Nat
      BY <2>3
    <3> QED
      BY <2>1, <3>1, <3>2, ProbeChanges, BecomeTypes
  <2>15. CASE HeadEnd(r)
    <3>1. PICK n \in 1 .. HeadChunk : \E leftover \in 0 .. n - 1 :
              Become(r, [r EXCEPT !.pc = "body", !.bytes = leftover, !.spent = 0])
      BY <2>15 DEF HeadEnd
    <3>2. PICK leftover \in 0 .. n - 1 :
              Become(r, [r EXCEPT !.pc = "body", !.bytes = leftover, !.spent = 0])
      BY <3>1
    <3>3. leftover \in Nat
      BY <2>3
    <3> QED
      BY <2>1, <3>2, <3>3, ProbeChanges, BecomeTypes
  <2>9. CASE SpeedRecv(r)
    <3>1. PICK n \in 1 .. Chunk, t \in 0 .. Wait(r.spent) :
              Become(r, [r EXCEPT !.bytes = @ + n, !.spent = @ + t])
      BY <2>9 DEF SpeedRecv
    <3>2. n \in Nat /\ t \in Nat
      BY <2>3, <2>9 DEF SpeedRecv
    <3> QED
      BY <2>1, <3>1, <3>2, ProbeChanges, BecomeTypes
  <2>10. CASE SpeedStall(r) \/ SpeedEof(r) \/ SpeedStop(r)
    <3>1. PICK spent : spent \in Nat /\ Conclude(r, r.bytes, spent)
      <4>1. CASE SpeedStall(r)
        BY <2>2, <2>3, <4>1 DEF SpeedStall
      <4>2. CASE SpeedEof(r)
        <5>1. PICK t \in 0 .. Wait(r.spent) : Conclude(r, r.bytes, r.spent + t)
          BY <4>2 DEF SpeedEof
        <5>2. r.spent + t \in Nat
          BY <2>2, <2>3, <4>2 DEF SpeedEof
        <5> QED
          BY <5>1, <5>2
      <4>3. CASE SpeedStop(r)
        BY <2>2, <4>3 DEF SpeedStop
      <4> QED
        BY <2>10, <4>1, <4>2, <4>3
    <3> DEFINE res == SpeedTest(r.bytes, AtLeast(1, spent), Enough, Scale)
    <3>2. res.ok \in BOOLEAN /\ res.speed \in Nat \cup {NoValue}
      <4>1. AtLeast(1, spent) \in Nat \ {0} /\ Scale * r.bytes \in Nat
        BY <2>2, <3>1, CandidatesAssumption DEF AtLeast
      <4>2. (Scale * r.bytes) \div AtLeast(1, spent) \in Nat
        BY <4>1, DivisionBounds
      <4> QED
        BY <4>2 DEF SpeedTest
    <3> DEFINE out == [Failed EXCEPT !.ok = res.ok, !.speed = res.speed]
    <3>3. Finish(r, out)
      BY <3>1 DEF Conclude
    <3> HIDE DEF res
    <3>4. out \in Outcome
      BY <3>2, FailedIsTyped DEF Outcome
    <3> HIDE DEF out
    <3> QED
      BY <3>3, <3>4, FinishTypes
  <2>11. CASE ReportInsert(r)
    <3>1. RowOf(r) \in ProbeRow
      <4>1. r.out \in Outcome
        BY <2>1 DEF Probe
      <4> QED
        BY <2>1, <4>1 DEF RowOf, ProbeRow, Probe, Outcome
    <3>2. IsABag(table') /\ BagToSet(table') = BagToSet(table) \cup {RowOf(r)}
      BY <2>11, RowsGrow DEF ReportInsert, TypeOK
    <3>3. running' \subseteq running \cup {[r EXCEPT !.pc = "done"]}
      BY <2>11 DEF ReportInsert
    <3>4. running' \subseteq Probe
      BY <2>1, <3>3, ProbeChanges DEF TypeOK
    <3> QED
      BY <2>11, <3>1, <3>2, <3>4 DEF ReportInsert, TypeOK
  <2>12. CASE ReportMarkDone(r)
    BY <2>12 DEF ReportMarkDone, TypeOK
  <2>13. CASE ReportLost(r)
    BY <2>13 DEF ReportLost, TypeOK
  <2> QED
    BY <1>5, <2>4, <2>5, <2>6, <2>7, <2>8, <2>9, <2>10, <2>11, <2>12, <2>13, <2>14, <2>15
       DEF TraceStep, SpeedStep, ReportStep
<1> QED
  BY <1>1, <1>2, <1>3, <1>4, <1>5 DEF Next

(* Every variable keeps its type, and with it what the statistics, the averages and the
   choice of addresses compute on. *)
THEOREM MeasureTypes == Spec => []TypeOK
<1>1. Init => TypeOK
  <2> SUFFICES ASSUME Init PROVE TypeOK
    OBVIOUS
  <2>1. DOMAIN table = {} /\ table = [x \in {} |-> 1]
    BY DEF Init, EmptyBag, SetToBag
  <2>2. IsABag(table) /\ BagToSet(table) = {}
    BY <2>1 DEF IsABag, BagToSet
  <2> QED
    <3>1. now \in Nat /\ running = {} /\ asked = [i \in Isp |-> {}]
      BY MeasureAssumption DEF Init
    <3> QED
      BY <2>2, <3>1 DEF TypeOK
<1> QED
  BY <1>1, TypesStep, PTL DEF Spec
=============================================================================
