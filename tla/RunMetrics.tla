----------------------------- MODULE RunMetrics -----------------------------
(***************************************************************************)
(* What the metrics database of a chaos server promises: the committed     *)
(* tables `requests` and `timeseries` describe the same requests, every    *)
(* request is counted in one indivisible step, and a reset empties both    *)
(* tables in the step that opens the next run.  MetricsStore, which works  *)
(* statement by statement, is shown to implement this specification.       *)
(***************************************************************************)
EXTENDS Integers, FiniteSets

CONSTANTS
  Requests,   \* request identifiers, the primary key of table requests
  Buckets,    \* time-series buckets
  Columns,    \* counter columns of table timeseries
  BucketOf,   \* [Requests -> Buckets]: the bucket of a request's timestamp
  Ticks,      \* [Requests -> SUBSET Columns]: the counters a request adds 1 to
  RunIds,     \* run identifiers
  FirstRun    \* the run the server starts with

VARIABLES
  recorded,   \* the requests of the current run
  counts,     \* per bucket and column, how often it was ticked in this run
  runs        \* the run identifiers described in table run_info

absVars == <<recorded, counts, runs>>

NoCounts == [b \in Buckets |-> [c \in Columns |-> 0]]

(* The upsert of update_timeseries: one more request q in its bucket. *)
Bump(series, q) ==
  [series EXCEPT ![BucketOf[q]] =
     [c \in Columns |-> IF c \in Ticks[q] THEN @[c] + 1 ELSE @[c]]]

Init ==
  /\ recorded = {}
  /\ counts = NoCounts
  /\ runs = {FirstRun}

Record(q) ==
  /\ q \notin recorded
  /\ recorded' = recorded \cup {q}
  /\ counts' = Bump(counts, q)
  /\ UNCHANGED runs

StartRun(r) ==
  /\ r \notin runs
  /\ recorded' = {}
  /\ counts' = NoCounts
  /\ runs' = {r}

Next == (\E q \in Requests : Record(q)) \/ (\E r \in RunIds : StartRun(r))

Spec == Init /\ [][Next]_absVars
=============================================================================
