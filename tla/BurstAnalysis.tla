--------------------------- MODULE BurstAnalysis ---------------------------
(***************************************************************************)
(* The burst detection of the metrics analyzer: analyze_aimd_behavior and  *)
(* get_burst_events each scan the time series of a run, which grows        *)
(* between calls, with a state machine of their own.                       *)
(***************************************************************************)
EXTENDS Integers, Sequences, FiniteSets

CONSTANTS
  Series,        \* time buckets that a run may have
  SeriesLength   \* bound: the number of buckets of a run

(* limited: the requests of the bucket that were answered 429 or 529.      *)
ASSUME SeriesAssumption ==
  /\ Series \subseteq [total : Nat \ {0}, limited : Nat, success : Nat]
  /\ \A b \in Series : b.limited + b.success <= b.total
  /\ SeriesLength \in Nat

VARIABLES buckets

High(b) == 10 * b.limited > 3 * b.total
Low(b) == 10 * b.limited < b.total

(* The buckets a bucket from start to before end. *)
Burst(start, end, ended) == [start |-> start, end |-> end, ended |-> ended]

-----------------------------------------------------------------------------
(* analyze_aimd_behavior: two lists of indices, of which the second is     *)
(* completed when the last burst has not ended.                            *)

NotStormy == [inBurst |-> FALSE, starts |-> <<>>, ends |-> <<>>]

AimdStep(scan, i) ==
  IF High(buckets[i]) /\ ~scan.inBurst
    THEN [scan EXCEPT !.inBurst = TRUE, !.starts = Append(@, i)]
  ELSE IF Low(buckets[i]) /\ scan.inBurst
    THEN [scan EXCEPT !.inBurst = FALSE, !.ends = Append(@, i)]
  ELSE scan

(* The scan of the first i buckets, and of all. *)
AimdPrefix[i \in 0..Len(buckets)] ==
  IF i = 0 THEN NotStormy ELSE AimdStep(AimdPrefix[i - 1], i)

AimdScan == AimdPrefix[Len(buckets)]

AimdEnds == IF AimdScan.inBurst THEN Append(AimdScan.ends, Len(buckets) + 1) ELSE AimdScan.ends

(* Seeded fault: the time to the end of the series counts as a recovery. *)
RecoveriesOfAll == {i \in DOMAIN AimdScan.starts : AimdEnds[i] > AimdScan.starts[i]}

(* The bursts whose length counts as a recovery time. *)
Recoveries == {i \in DOMAIN AimdScan.starts : ~(i = Len(AimdScan.starts) /\ AimdScan.inBurst)}

(* What the answer counts; fewer than two buckets are insufficient data.   *)
AimdBursts ==
  IF Len(buckets) < 2 THEN {}
  ELSE {Burst(AimdScan.starts[i], AimdEnds[i], i \in Recoveries) : i \in DOMAIN AimdScan.starts}

(* The successes of the buckets in a burst and of the others. *)
Throughput(during) ==
  {i \in DOMAIN buckets :
     during <=> \E k \in DOMAIN AimdScan.starts : AimdScan.starts[k] <= i /\ i < AimdEnds[k]}

-----------------------------------------------------------------------------
(* get_burst_events: a burst is reported when it ends, and at the end of   *)
(* the series when it has not.                                             *)

Quiet == [start |-> 0, events |-> {}]

EventStep(scan, i) ==
  IF High(buckets[i]) /\ scan.start = 0 THEN [scan EXCEPT !.start = i]
  ELSE IF Low(buckets[i]) /\ scan.start # 0
    THEN [start |-> 0, events |-> scan.events \cup {Burst(scan.start, i, TRUE)}]
  ELSE scan

EventPrefix[i \in 0..Len(buckets)] ==
  IF i = 0 THEN Quiet ELSE EventStep(EventPrefix[i - 1], i)

EventScan == EventPrefix[Len(buckets)]

Unfinished ==
  IF EventScan.start # 0 THEN {Burst(EventScan.start, Len(buckets) + 1, FALSE)} ELSE {}

BurstEvents == IF Len(buckets) < 3 THEN {} ELSE EventScan.events \cup Unfinished

-----------------------------------------------------------------------------

SeriesInit == buckets = <<>>

(* The next bucket of the time series. *)
GrowSeries ==
  /\ Len(buckets) < SeriesLength
  /\ \E b \in Series : buckets' = Append(buckets, b)

SeriesSpec == SeriesInit /\ [][GrowSeries]_buckets

-----------------------------------------------------------------------------
(* Properties. *)

(* A bucket is in a burst when one before it, or itself, was high and none *)
(* since then was low.                                                     *)
Stormy(i) ==
  \E j \in 1..i : High(buckets[j]) /\ \A k \in (j + 1)..i : ~Low(buckets[k])

(* The bursts are the longest runs of such buckets; one has ended when     *)
(* something follows it.                                                   *)
Bursts ==
  {Burst(run[1], run[2], run[2] <= Len(buckets)) : run \in
     {p \in (1..Len(buckets)) \X (2..(Len(buckets) + 1)) :
        /\ p[1] < p[2] /\ \A i \in p[1]..(p[2] - 1) : Stormy(i)
        /\ p[1] = 1 \/ ~Stormy(p[1] - 1)
        /\ p[2] = Len(buckets) + 1 \/ ~Stormy(p[2])}}

(* With data enough for them both tools find the same bursts, those of the *)
(* definition; recovery times are of bursts that have ended, and           *)
(* throughput under stress is that of exactly the buckets in bursts.       *)
BurstsAreFound ==
  /\ Len(buckets) >= 2 => AimdBursts = Bursts
  /\ Len(buckets) >= 3 => BurstEvents = Bursts
  /\ Throughput(TRUE) = {i \in DOMAIN buckets : Stormy(i)}
  /\ Throughput(FALSE) = {i \in DOMAIN buckets : ~Stormy(i)}
=============================================================================
