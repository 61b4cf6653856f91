----------------------------- MODULE StatsReader -----------------------------
(***************************************************************************)
(* A reader of the metrics store beside its writers: get_stats and         *)
(* export_data (engine/metrics_store.py), which GET /admin/stats and       *)
(* GET /admin/export call.  Every SELECT is a read transaction of its own, *)
(* so one call looks at several committed databases.  The reader thread    *)
(* writes nothing, so what its connection sees is the committed one.  Each *)
(* section of a summary is represented by the rows it was computed from.   *)
(***************************************************************************)
EXTENDS MetricsStore

VARIABLES
  rpc,      \* the reader's next SELECT
  stats,    \* the summary under construction
  export,   \* the export under construction
  wiped     \* history: a reset has committed since the call's first SELECT

readerVars == <<rpc, stats, export, wiped>>

NoStats == [total |-> {}, outcomes |-> {}, timed |-> {}, missing |-> FALSE]
NoExport == [requests |-> {}, timeseries |-> NoCounts]

InitReader ==
  /\ rpc = "idle"
  /\ stats = NoStats
  /\ export = NoExport
  /\ wiped = FALSE

(* A call begins with nothing read. *)
Begin(total, rows, next) ==
  /\ rpc = "idle"
  /\ stats' = [NoStats EXCEPT !.total = total]
  /\ export' = [NoExport EXCEPT !.requests = rows]
  /\ wiped' = FALSE
  /\ rpc' = next

-----------------------------------------------------------------------------
(* get_stats. *)

(* Seeded fault: the total is a dirty read of the writer's image. *)
StatsTotalDirty == Begin(tx.requests, {}, "outcomes")

StatsTotal == Begin(db.requests, {}, "outcomes")

(* SELECT outcome, COUNT GROUP BY outcome. *)
StatsOutcomes ==
  /\ rpc = "outcomes"
  /\ stats' = [stats EXCEPT !.outcomes = db.requests]
  /\ rpc' = "latency"
  /\ UNCHANGED <<export, wiped>>

(* Average, maximum and count; no percentile is looked up for count 0. *)
StatsLatency ==
  /\ rpc = "latency"
  /\ stats' = [stats EXCEPT !.timed = db.requests \cap Timed]
  /\ rpc' = IF db.requests \cap Timed # {} THEN "p50" ELSE "done"
  /\ UNCHANGED <<export, wiped>>

(* Seeded fault: a rank that counts from 1. *)
RankFromOne(count, pct) == (count * pct + 99) \div 100

(* max(0, min(ceil(count * pct) - 1, count - 1)) *)
Rank(count, pct) ==
  LET ceiling == (count * pct + 99) \div 100
      least   == IF ceiling < count THEN ceiling - 1 ELSE count - 1
  IN  IF least < 0 THEN 0 ELSE least

(* SELECT latency_ms ... LIMIT 1 OFFSET rank finds no row when there are   *)
(* too few of them by now: prow[0] raises a TypeError and the call ends.   *)
Percentile(label, pct, next) ==
  /\ rpc = label
  /\ LET count == Cardinality(stats.timed)
         gone  == Rank(count, pct) >= Cardinality(db.requests \cap Timed)
     IN  /\ stats' = [stats EXCEPT !.missing = gone]
         /\ rpc' = IF gone THEN "idle" ELSE next
  /\ UNCHANGED <<export, wiped>>

StatsPercentiles ==
  \/ Percentile("p50", 50, "p95")
  \/ Percentile("p95", 95, "p99")
  \/ Percentile("p99", 99, "done")

(* The caller has its summary and asks for the next one in its own time.   *)
StatsDone ==
  /\ rpc = "done"
  /\ rpc' = "idle"
  /\ UNCHANGED <<stats, export, wiped>>

-----------------------------------------------------------------------------
(* export_data. *)

(* Seeded fault: the rows are a dirty read of the writer's image. *)
ExportRequestsDirty == Begin({}, tx.requests, "export_timeseries")

ExportRequests == Begin({}, db.requests, "export_timeseries")

ExportTimeseries ==
  /\ rpc = "export_timeseries"
  /\ export' = [export EXCEPT !.timeseries = db.timeseries]
  /\ rpc' = "idle"
  /\ UNCHANGED <<stats, wiped>>

Read ==
  \/ StatsTotal \/ StatsOutcomes \/ StatsLatency
  \/ StatsPercentiles \/ StatsDone
  \/ ExportRequests \/ ExportTimeseries

NextWithReader ==
  \/ /\ Next
     /\ wiped' = (wiped \/ \E t \in Threads : ResetCommit(t))
     /\ UNCHANGED <<rpc, stats, export>>
  \/ Read /\ UNCHANGED vars

ReaderSpec == Init /\ InitReader /\ [][NextWithReader]_<<vars, readerVars>>

-----------------------------------------------------------------------------
(* Properties. *)

ReaderTypeOK ==
  /\ rpc \in {"idle", "outcomes", "latency", "p50", "p95", "p99", "done",
              "export_timeseries"}
  /\ stats \in [total : SUBSET Requests, outcomes : SUBSET Requests,
                timed : SUBSET Timed, missing : BOOLEAN]
  /\ export \in [requests : SUBSET Requests, timeseries : [Buckets -> [Columns -> Nat]]]
  /\ wiped \in BOOLEAN

(* Unless a reset came in between, no row of an earlier section of a       *)
(* summary is missing from a later one: a recording that raises never      *)
(* shows up in the total and vanishes from the outcomes or the latencies.  *)
SectionsOnlyGrow ==
  ~wiped =>
    /\ rpc \in {"latency", "p50", "p95", "p99", "done"} => stats.total \subseteq stats.outcomes
    /\ rpc \in {"p50", "p95", "p99", "done"} => stats.outcomes \cap Timed \subseteq stats.timed

(* get_stats fails on the row of a percentile only when a reset has        *)
(* emptied the table since the count that its OFFSET was computed from.    *)
PercentileRowExists == stats.missing => wiped

(* An export's time series accounts for every request row it contains,     *)
(* though the two tables are read one after the other, unless a reset came *)
(* in between.                                                             *)
ExportSeriesCoversRequests ==
  rpc = "idle" /\ ~wiped =>
    \A b \in Buckets, c \in Columns :
      export.timeseries[b][c] >= Aggregate(export.requests)[b][c]
=============================================================================
