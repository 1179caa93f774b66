---------------------------- MODULE RankingProofs ----------------------------
(* What the Scorer's choice guarantees for all rows and labels, and the facts about
   finite sets that this and other proofs need. *)
EXTENDS Ranking, FiniteSetTheorems, WellFoundedInduction, TLAPS

----------------------------------------------------------------------------
(* Induction over finite sets, in a form without operators: a family of subsets has a
   smallest member. *)

LEMMA SmallestSubset ==
    ASSUME NEW S, IsFiniteSet(S), NEW Family, Family \subseteq SUBSET S, Family # {}
    PROVE  \E U \in Family : \A V \in Family : V \subseteq U => V = U
<1> DEFINE R == StrictSubsetOrdering(S)
<1>1. Family \subseteq FiniteSubsetsOf(S)
  BY FS_Subset DEF FiniteSubsetsOf
<1>2. PICK U \in Family : \A V \in Family : ~(<<V, U>> \in R)
  <2> HIDE DEF R
  <2>1. IsWellFoundedOn(R, FiniteSubsetsOf(S))
    BY FS_StrictSubsetOrderingWellFounded DEF R
  <2> QED
    BY <1>1, <2>1, WFMin
<1>3. ASSUME NEW V \in Family, V \subseteq U PROVE V = U
  <2>1. <<V, U>> \in (SUBSET S) \X (SUBSET S)
    OBVIOUS
  <2> QED
    BY <1>2, <1>3, <2>1 DEF StrictSubsetOrdering
<1> QED
  BY <1>3

(* Every nonempty finite set has a member of the greatest value. *)
LEMMA GreatestMember ==
    ASSUME NEW S, IsFiniteSet(S), S # {}, NEW value, \A x \in S : value[x] \in Int
    PROVE  \E x \in S : \A y \in S : value[y] <= value[x]
<1> DEFINE Greatest(U) == \E x \in U : \A y \in U : value[y] <= value[x]
           Family == {U \in SUBSET S : U # {} /\ ~Greatest(U)}
<1> SUFFICES ASSUME ~Greatest(S) PROVE FALSE
  OBVIOUS
<1>1. S \in Family
  OBVIOUS
<1>2. PICK U \in Family : \A V \in Family : V \subseteq U => V = U
  <2> HIDE DEF Family
  <2>1. Family \subseteq SUBSET S
    BY DEF Family
  <2> QED
    BY <1>1, <2>1, SmallestSubset
<1>3. PICK x \in U : TRUE
  OBVIOUS
<1>4. CASE U \ {x} = {}
  BY <1>4, <1>3
<1>5. CASE U \ {x} # {}
  <2>1. Greatest(U \ {x})
    <3> HIDE DEF Greatest
    <3>1. U \ {x} \in SUBSET S /\ U \ {x} # U /\ U \ {x} \subseteq U
      BY <1>3
    <3>2. U \ {x} \notin Family
      BY <1>2, <3>1
    <3> QED
      BY <1>5, <3>1, <3>2
  <2>2. PICK m \in U \ {x} : \A y \in U \ {x} : value[y] <= value[m]
    BY <2>1
  <2>3. value[x] \in Int /\ \A y \in U : value[y] \in Int
    BY <1>3
  <2>4. CASE value[x] <= value[m]
    BY <2>2, <2>4
  <2>5. CASE value[m] <= value[x]
    BY <1>3, <2>2, <2>3, <2>5
  <2> QED
    BY <2>2, <2>3, <2>4, <2>5
<1> QED
  BY <1>4, <1>5

(* A nonempty set of places of a sequence has a first and a last one. *)
LEMMA EndsOfPlaces ==
    ASSUME NEW n \in Nat, NEW S, S \subseteq 1 .. n, S # {}
    PROVE  /\ \E k \in S : \A j \in S : j <= k
           /\ \E k \in S : \A j \in S : k <= j
<1> DEFINE up == [k \in S |-> k]
           down == [k \in S |-> -k]
<1>1. IsFiniteSet(S) /\ S \subseteq Int
  <2>1. IsFiniteSet(1 .. n) /\ 1 .. n \subseteq Int
    BY FS_Interval
  <2>2. S \in SUBSET (1 .. n)
    OBVIOUS
  <2> QED
    BY <2>1, <2>2, FS_Subset
<1>2. \E k \in S : \A j \in S : up[j] <= up[k]
  <2>1. \A x \in S : up[x] \in Int
    BY <1>1
  <2> HIDE DEF up
  <2> QED
    BY <1>1, <2>1, GreatestMember
<1>3. \E k \in S : \A j \in S : down[j] <= down[k]
  <2>1. \A x \in S : down[x] \in Int
    BY <1>1
  <2> HIDE DEF down
  <2> QED
    BY <1>1, <2>1, GreatestMember
<1>4. \E k \in S : \A j \in S : j <= k
  BY <1>2
<1>5. \E k \in S : \A j \in S : k <= j
  <2>1. PICK k \in S : \A j \in S : down[j] <= down[k]
    BY <1>3
  <2>2. ASSUME NEW j \in S PROVE k <= j
    <3>1. -j <= -k
      BY <2>1
    <3> QED
      BY <1>1, <3>1
  <2> QED
    BY <2>2
<1> QED
  BY <1>4, <1>5

----------------------------------------------------------------------------
(* The score *)

LEMMA TimesKeepsOrder ==
    /\ \A a, b, k \in Nat : a <= b => a * k <= b * k
    /\ \A a, b \in Nat, k \in Nat \ {0} : a < b => a * k < b * k
<1>1. ASSUME NEW a \in Nat, NEW b \in Nat, NEW k \in Nat, a <= b
      PROVE  a * k <= b * k
  <2>1. b * k = a * k + (b - a) * k
    BY <1>1
  <2>2. (b - a) * k \in Nat /\ a * k \in Nat
    BY <1>1
  <2> QED
    BY <2>1, <2>2
<1>2. ASSUME NEW a \in Nat, NEW b \in Nat, NEW k \in Nat \ {0}, a < b
      PROVE  a * k < b * k
  <2>1. b * k = a * k + k + (b - a - 1) * k
    BY <1>2
  <2>2. (b - a - 1) * k \in Nat /\ a * k \in Nat
    BY <1>2
  <2> QED
    BY <2>1, <2>2
<1> QED
  BY <1>1, <1>2

(* The worth of a label in _score, and what it adds to the score. *)
LEMMA RoutePartOrdered ==
    ASSUME NEW l \in Label, NEW m \in Label
    PROVE  LET worth(label) == IF label = NoLabel THEN Quality["unknown"] ELSE label.quality
           IN  /\ RoutePart(l) \in Nat
               /\ worth(l) >= worth(m) => RoutePart(l) >= RoutePart(m)
<1>1. \A line \in DOMAIN Quality : Quality[line] \in 1 .. 100
  BY DEF Quality
<1>2. Quality["unknown"] \in 1 .. 100
  BY DEF Quality
<1>3. \A n \in Label : n # NoLabel => n.quality \in 1 .. 100 /\ RoutePart(n) = n.quality
  BY <1>1 DEF Label, RoutePart
<1>4. RoutePart(NoLabel) = Quality["unknown"]
  BY DEF RoutePart
<1> QED
  BY <1>2, <1>3, <1>4

LEMMA JitterPenaltyOrdered ==
    ASSUME NEW r \in Row, NEW s \in Row
    PROVE  /\ JitterPenalty(r) \in Nat \ {0}
           /\ r.jitter <= s.jitter => JitterPenalty(s) <= JitterPenalty(r)
<1>1. MaxJitter \in Nat \ {0}
  BY RankingAssumption
<1>2. r.jitter \in Nat \cup {-1} /\ s.jitter \in Nat \cup {-1}
  BY DEF Row, NoValue
<1> QED
  BY <1>1, <1>2 DEF JitterPenalty, AtLeast, AtMost, NoValue

(* By latency and jitter, a faster row is strictly better. *)
LEMMA LatencyPartOrdered ==
    ASSUME NEW r \in Row, NEW s \in Row, Eligible(r), Eligible(s)
    PROVE  /\ LatencyPart(r) \in Nat
           /\ r.latency < s.latency /\ r.jitter <= s.jitter => LatencyPart(s) < LatencyPart(r)
<1> DEFINE jr == JitterPenalty(r)
           js == JitterPenalty(s)
           x == MaxLatency - r.latency
           y == MaxLatency - s.latency
<1>1. x \in Nat /\ y \in Nat /\ (r.latency < s.latency => y < x)
  BY RankingAssumption DEF Eligible, Row, NoValue
<1>2. LatencyPart(r) = x * jr /\ LatencyPart(s) = y * js
  BY <1>1 DEF LatencyPart, AtLeast
<1>3. jr \in Nat \ {0} /\ js \in Nat \ {0} /\ (r.jitter <= s.jitter => js <= jr)
  BY JitterPenaltyOrdered
<1> HIDE DEF jr, js, x, y
<1>4. ASSUME y < x, js <= jr PROVE y * js < x * jr
  <2>1. y * js < x * js
    BY <1>1, <1>3, <1>4, TimesKeepsOrder
  <2>2. js * x <= jr * x
    BY <1>1, <1>3, <1>4, TimesKeepsOrder
  <2> QED
    BY <1>1, <1>3, <2>1, <2>2
<1>5. x * jr \in Nat
  BY <1>1, <1>3
<1> QED
  BY <1>1, <1>2, <1>3, <1>4, <1>5

LEMMA ScoreOrdered ==
    ASSUME NEW ips, NEW found, NEW seen, NEW p \in ips, NEW q \in ips,
           {found[p], found[q]} \subseteq Row, {seen[p], seen[q]} \subseteq Label,
           Dominates(found, seen, p, q)
    PROVE  /\ Score(found[p], seen[p]) \in Int /\ Score(found[q], seen[q]) \in Int
           /\ Score(found[q], seen[q]) < Score(found[p], seen[p])
<1> DEFINE r == found[p]
           s == found[q]
           w == Weights(r)
           unit == LatencyUnit
<1>1. /\ r \in Row /\ s \in Row /\ Eligible(r) /\ Eligible(s)
      /\ r.latency < s.latency /\ r.jitter <= s.jitter /\ r.speed >= s.speed
  BY DEF Dominates
<1>2. Weights(s) = w
  BY <1>1 DEF Weights, Eligible
<1>3. w[1] \in Nat \ {0} /\ w[2] \in Nat /\ w[3] \in Nat
  BY DEF Weights
<1>4. w[2] # 0 => r.speed # NoValue /\ s.speed # NoValue
  BY <1>1, RankingAssumption DEF Weights, Eligible
<1>5. MinSpeed \in Nat \ {0} /\ unit \in Nat \ {0}
  BY RankingAssumption DEF LatencyUnit
<1>6. LatencyPart(r) \in Nat /\ LatencyPart(s) \in Nat /\ LatencyPart(s) < LatencyPart(r)
  BY <1>1, LatencyPartOrdered
<1>7. w[2] * SpeedPart(s) \in Int /\ w[2] * SpeedPart(r) \in Int
      /\ w[2] * SpeedPart(s) <= w[2] * SpeedPart(r)
  <2>1. r.speed \in Nat \cup {-1} /\ s.speed \in Nat \cup {-1}
    BY <1>1 DEF Row, NoValue
  <2>2. SpeedPart(r) \in Int /\ SpeedPart(s) \in Int /\ SpeedPart(s) <= SpeedPart(r)
    BY <1>1, <1>5, <2>1 DEF SpeedPart, AtMost
  <2>3. CASE w[2] = 0
    BY <2>2, <2>3
  <2>4. CASE w[2] # 0
    <3>1. SpeedPart(r) \in Nat /\ SpeedPart(s) \in Nat
      BY <1>4, <1>5, <2>1, <2>4 DEF SpeedPart, AtMost, NoValue
    <3> QED
      BY <1>3, <2>2, <3>1, TimesKeepsOrder
  <2> QED
    BY <2>3, <2>4
<1>8. RoutePart(seen[p]) \in Nat /\ RoutePart(seen[q]) \in Nat
      /\ RoutePart(seen[q]) <= RoutePart(seen[p])
  BY RoutePartOrdered DEF Dominates
<1> HIDE DEF w, unit
<1>9. w[1] * LatencyPart(s) * 3 * MinSpeed * 100 < w[1] * LatencyPart(r) * 3 * MinSpeed * 100
  <2> DEFINE k == w[1] * 3 * MinSpeed * 100
  <2>1. w[1] * MinSpeed \in Nat \ {0}
    BY <1>3, <1>5
  <2>2. k = (w[1] * MinSpeed) * 300 /\ k \in Nat \ {0}
    BY <1>3, <1>5, <2>1
  <2>3. LatencyPart(s) * k < LatencyPart(r) * k
    BY <1>6, <2>2, TimesKeepsOrder
  <2> QED
    BY <1>3, <1>5, <1>6, <2>3
<1>10. w[2] * SpeedPart(s) * unit * 100 <= w[2] * SpeedPart(r) * unit * 100
  <2> DEFINE d == w[2] * SpeedPart(r) - w[2] * SpeedPart(s)
  <2>1. d \in Nat /\ d * unit * 100 \in Nat
    BY <1>5, <1>7
  <2>2. w[2] * SpeedPart(r) * unit * 100 - w[2] * SpeedPart(s) * unit * 100 = d * unit * 100
    BY <1>5, <1>7
  <2> QED
    BY <1>5, <1>7, <2>1, <2>2
<1>11. w[3] * RoutePart(seen[q]) * unit * 3 * MinSpeed <= w[3] * RoutePart(seen[p]) * unit * 3 * MinSpeed
  <2> DEFINE k == w[3] * unit * 3 * MinSpeed
  <2>1. k \in Nat
    BY <1>3, <1>5
  <2>2. RoutePart(seen[q]) * k <= RoutePart(seen[p]) * k
    BY <1>8, <2>1, TimesKeepsOrder
  <2> QED
    BY <1>3, <1>5, <1>8, <2>2
<1> QED
  BY <1>2, <1>3, <1>5, <1>6, <1>7, <1>8, <1>9, <1>10, <1>11 DEF Score, w, unit

(* Whatever the rows and the labels, and however ties are broken, pick_best never
   leaves out an address for one of the same region that is slower and no better by
   jitter, speed or line (master/scoring.py, pick_best). *)
THEOREM BetterIsNotLeftOut ==
    ASSUME NEW ips, NEW rows, rows \subseteq Row, NEW labels, labels \subseteq Label
    PROVE  BestIsPicked(ips, rows, labels)
<1> SUFFICES ASSUME NEW found \in [ips -> rows], NEW seen \in [ips -> labels],
                    NEW picks \in PickBest(found, seen),
                    NEW p \in ips \ picks, NEW q \in picks,
                    Dominates(found, seen, p, q)
             PROVE  FALSE
  BY DEF BestIsPicked
<1> DEFINE fit == {x \in DOMAIN found : Eligible(found[x])}
           g == Region[found[q].colo]
           bucket == {x \in fit : Region[found[x].colo] = g}
           score == [x \in fit |-> Score(found[x], seen[x])]
<1>1. p \in bucket /\ q \in bucket /\ q \in fit /\ q \in ips
  BY DEF PickBest, Dominates
<1>2. picks \cap bucket \in BestOf(bucket, TopN, score)
  BY <1>1 DEF PickBest
<1>3. score[q] >= score[p]
  BY <1>1, <1>2 DEF BestOf
<1>4. /\ Score(found[p], seen[p]) \in Int /\ Score(found[q], seen[q]) \in Int
      /\ Score(found[q], seen[q]) < Score(found[p], seen[p])
  BY <1>1, ScoreOrdered
<1> QED
  BY <1>1, <1>3, <1>4
=============================================================================
