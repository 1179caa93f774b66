-------------------------------- MODULE Probes -------------------------------
(****************************************************************************)
(* What an agent's probes make of what the network answers (agent/probes/). *)
(* Times and sizes are natural numbers; NoValue is None.                    *)
(****************************************************************************)
EXTENDS Integers, Sequences, SequencesExt

NoValue == -1

AtLeast(low, n) == IF n < low THEN low ELSE n
AtMost(high, n) == IF n > high THEN high ELSE n

----------------------------------------------------------------------------
(* tcp_ping *)

\* round(): to the nearest integer, a half to the even one.
Round(num, den) ==
    LET floor == num \div den
        rest == 2 * (num % den)
    IN  IF rest < den \/ (rest = den /\ floor % 2 = 0) THEN floor ELSE floor + 1

\* Faulty variant: an index counted from the number of values, not from the last one.
PercentileIndexCount(n, num, den) == 1 + AtMost(n - 1, Round(num * n, den))

\* _percentile, the place of the num/den quantile among n sorted values, from 1.
PercentileIndex(n, num, den) == 1 + AtLeast(0, AtMost(n - 1, Round(num * (n - 1), den)))

\* The handshakes that count: not warmup, and answered.
Answered(warmup, rtts) == {k \in DOMAIN rtts : k > warmup /\ rtts[k] # NoValue}

\* Their times, sorted: the n-th is the one that fewer than n go below and at least n do
\* not exceed.
Samples(warmup, rtts) ==
    LET good == Answered(warmup, rtts)
    IN  [n \in 1 .. Cardinality(good) |->
            CHOOSE t \in {rtts[k] : k \in good} :
                /\ Cardinality({k \in good : rtts[k] < t}) < n
                /\ n <= Cardinality({k \in good : rtts[k] <= t})]

NoStats == [ok |-> FALSE, min |-> NoValue, p50 |-> NoValue, p95 |-> NoValue, jitter |-> NoValue]
Quantile(samples, num, den) == samples[PercentileIndex(Len(samples), num, den)]

\* Faulty variant: the median less the high percentile.
JitterSwapped(p50, p95) == p50 - p95

Jitter(p50, p95) == AtLeast(0, p95 - p50)

\* tcp_ping: rtts are the times of all its handshakes, warmup first, NoValue for a failed
\* one.  The loss rate, which nothing reads back, is left out.
TcpStats(warmup, rtts) ==
    LET samples == Samples(warmup, rtts)
        p50 == Quantile(samples, 1, 2)
        p95 == Quantile(samples, 19, 20)
    IN  IF samples = <<>> THEN NoStats
        ELSE [ok |-> TRUE, min |-> samples[1], p50 |-> p50, p95 |-> p95, jitter |-> Jitter(p50, p95)]

----------------------------------------------------------------------------
(* http_trace: how much of the answer has come in when reading ends, in the order it
   comes in.  A colo line may be cut off in the middle. *)
TraceStages == <<"nothing", "head", "cut", "whole">>

\* Faulty variant: a body without a colo is a success.
HttpTraceAnyBody(stage, rtt, colo, part) ==
    CASE stage = "whole" -> [ok |-> TRUE, latency |-> rtt, colo |-> colo]
      [] stage = "cut" -> [ok |-> TRUE, latency |-> rtt, colo |-> part]
      [] stage = "head" -> [ok |-> TRUE, latency |-> rtt, colo |-> ""]
      [] OTHER -> [ok |-> FALSE, latency |-> rtt, colo |-> ""]

\* The outcome of a trace that raised nothing; part is the beginning of colo that a cut
\* leaves.  An answer without a status line reads as status 0.
HttpTrace(stage, rtt, colo, part) ==
    LET found == CASE stage = "whole" -> colo [] stage = "cut" -> part [] OTHER -> ""
    IN  [ok |-> found # "", latency |-> rtt, colo |-> found]

----------------------------------------------------------------------------
(* speed_test, of what http_stream_download returns. *)
SpeedTest(bytes, duration, enough, scale) ==
    IF bytes < enough THEN [ok |-> FALSE, speed |-> NoValue]
    ELSE [ok |-> TRUE, speed |-> (scale * bytes) \div duration]

----------------------------------------------------------------------------
(* What the statistics mean *)

\* The place taken for the median leaves at least half of n sorted values on each side.
HalvesAt(n, k) == k \in 1 .. n /\ 2 * k >= n /\ 2 * (n - k + 1) >= n

\* Reference for tcp_ping, of the numbers of its handshakes and not of their order: the
\* warmup changes nothing, half of the samples are as fast as the median and half as
\* slow, and jitter leads from it to a sample that at most a twentieth, rounded up, exceed.
StatsAreOf(stats, warmup, rtts) ==
    LET good == Answered(warmup, rtts)
        size == Cardinality(good)
    IN  /\ stats.ok <=> good # {}
        /\ stats.ok =>
              /\ \A k \in good : stats.min <= rtts[k]
              /\ 2 * Cardinality({k \in good : rtts[k] <= stats.p50}) >= size
              /\ 2 * Cardinality({k \in good : rtts[k] >= stats.p50}) >= size
              /\ \E k \in good : rtts[k] = stats.p50 + stats.jitter
              /\ 20 * Cardinality({k \in good : rtts[k] > stats.p50 + stats.jitter}) < size + 20

\* tcp_ping over all outcomes of up to size handshakes (agent/probes/tcp_ping.py).
StatsAreSound(size, times) ==
    \A total \in 1 .. size : \A warmup \in 0 .. AtMost(2, total - 1) :
        \A rtts \in [1 .. total -> times \cup {NoValue}] :
            StatsAreOf(TcpStats(warmup, rtts), warmup, rtts)
=============================================================================
