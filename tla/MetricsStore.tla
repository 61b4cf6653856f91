---------------------------- MODULE MetricsStore ----------------------------
(***************************************************************************)
(* The SQLite metrics store (engine/metrics_store.py) under the recorders  *)
(* of the four servers.  Every thread owns a connection, so every thread   *)
(* has its own transaction; SQLite admits one writing transaction at a     *)
(* time.  A recorder's call is the statement sequence INSERT requests,     *)
(* UPSERT timeseries, UPDATE latency, COMMIT, and each statement may fail. *)
(*                                                                         *)
(* The recorders differ in what they do then:                              *)
(*   ChaosLLM and ChaosSMTP roll back and re-raise  RecorderRollsBack      *)
(*   ChaosWeb and ChaosBlob just let it propagate   ~RecorderRollsBack     *)
(* and the servers differ in reset():                                      *)
(*   ChaosLLM, ChaosWeb, ChaosBlob call save_run_info afterwards           *)
(*   ChaosSMTP passes config_json instead           ~SavesAfterReset       *)
(***************************************************************************)
EXTENDS Integers, FiniteSets

CONSTANTS
  Threads, NoThread,
  Resetters,          \* the threads that call reset()
  Requests, NoRequest,
  Buckets, BucketOf,  \* the bucket a request is counted in
  Window,             \* the requests stamped in [bucket, bucket + bucket_sec)
  Columns, RequestsTotal, Ticks,
  Timed,              \* the requests recorded with a latency_ms
  RunIds, FirstRun,
  RecorderRollsBack, SavesAfterReset

ASSUME StoreAssumption ==
  /\ NoThread \notin Threads
  /\ NoRequest \notin Requests
  /\ Resetters \subseteq Threads
  /\ IsFiniteSet(Requests)
  /\ BucketOf \in [Requests -> Buckets]
  /\ Window \in [Buckets -> SUBSET Requests]
  /\ RequestsTotal \in Columns
  /\ Ticks \in [Requests -> SUBSET Columns]
  /\ \A q \in Requests : RequestsTotal \in Ticks[q]
  /\ Timed \subseteq Requests
  /\ FirstRun \in RunIds
  /\ RecorderRollsBack \in BOOLEAN
  /\ SavesAfterReset \in BOOLEAN

VARIABLES
  db,       \* the committed database
  tx,       \* the writing transaction's image of it; db when nobody writes
  writer,   \* the thread whose connection holds SQLite's write lock
  runId,    \* self._run_id
  lock,     \* self._lock, as reset() takes it
  pc,       \* the next statement of each thread's call
  req,      \* the request each thread is recording
  oldRun,   \* old_run_id, read by reset() before it takes the lock
  runArg,   \* the run id a thread is about to write to run_info
  result    \* how the record call of a request ended

vars == <<db, tx, writer, runId, lock, pc, req, oldRun, runArg, result>>

-----------------------------------------------------------------------------
(* The tables.  A bucket without a row in timeseries is one whose counters *)
(* are all 0; the avg/p99 pair of a bucket is represented by the rows it   *)
(* was computed over.                                                      *)

Database == [requests   : SUBSET Requests,
             timeseries : [Buckets -> [Columns -> Nat]],
             latency    : [Buckets -> SUBSET Requests],
             runs       : SUBSET RunIds]

Tables(requests, timeseries, latency, runs) ==
  [requests |-> requests, timeseries |-> timeseries, latency |-> latency, runs |-> runs]

NoCounts  == [b \in Buckets |-> [c \in Columns |-> 0]]
NoLatency == [b \in Buckets |-> {}]

Bump(series, q) ==
  [series EXCEPT ![BucketOf[q]] =
     [c \in Columns |-> IF c \in Ticks[q] THEN @[c] + 1 ELSE @[c]]]

(* The rows of R that tick column c of bucket b. *)
Ticking(R, b, c) == {q \in R : BucketOf[q] = b /\ c \in Ticks[q]}

(* What rebuild_timeseries computes from the rows of table requests. *)
Aggregate(R) == [b \in Buckets |-> [c \in Columns |-> Cardinality(Ticking(R, b, c))]]

(* What rebuild_timeseries takes the latency figures of a bucket over, and *)
(* what update_bucket_latency does.  Buckets begin anew at midnight UTC,   *)
(* so the last one of a day is cut short when bucket_sec does not divide   *)
(* the day; its window, bucket_sec long and compared as text, is not, and  *)
(* reaches into the next day.                                              *)
LatencyRows(R, b) == {q \in R \cap Timed : BucketOf[q] = b}
AllLatency(R) == [b \in Buckets |-> LatencyRows(R, b)]

WindowRows(R, b) == R \cap Timed \cap Window[b]

(* COUNT(latency_ms) = 0: the bucket keeps the figures that it has.        *)
Refigured(latency, R, b) ==
  IF WindowRows(R, b) = {} THEN latency ELSE [latency EXCEPT ![b] = WindowRows(R, b)]

-----------------------------------------------------------------------------
(* Transactions. *)

CanWrite(t) == writer \in {NoThread, t}

(* The first writing statement opens the transaction and takes the lock. *)
Write(t, image) ==
  /\ CanWrite(t)
  /\ writer' = t
  /\ tx' = image

CommitTx(t) ==
  /\ db' = IF writer = t THEN tx ELSE db
  /\ writer' = IF writer = t THEN NoThread ELSE writer
  /\ UNCHANGED tx

(* Seeded fault: a rollback that gives up the lock but keeps the writes.   *)
RollbackKeepsWrites(t) ==
  /\ writer' = IF writer = t THEN NoThread ELSE writer
  /\ UNCHANGED tx

RollbackTx(t) ==
  /\ tx' = IF writer = t THEN db ELSE tx
  /\ writer' = IF writer = t THEN NoThread ELSE writer

Goto(t, label) == pc' = [pc EXCEPT ![t] = label]

Init ==
  /\ db = Tables({}, NoCounts, NoLatency, {FirstRun})
  /\ tx = db
  /\ writer = NoThread
  /\ runId = FirstRun
  /\ lock = NoThread
  /\ pc = [t \in Threads |-> "idle"]
  /\ req = [t \in Threads |-> NoRequest]
  /\ oldRun = [t \in Threads |-> FirstRun]
  /\ runArg = [t \in Threads |-> FirstRun]
  /\ result = [q \in Requests |-> "none"]

-----------------------------------------------------------------------------
(* record_request / record_transaction. *)

(* request_id is a uuid4: it names no row and no call in progress. *)
Fresh(q) ==
  /\ q \notin db.requests \cup tx.requests
  /\ \A t \in Threads : req[t] # q

RecordCall(t, q) ==
  /\ pc[t] = "idle"
  /\ Fresh(q)
  /\ req' = [req EXCEPT ![t] = q]
  /\ result' = [result EXCEPT ![q] = "none"]
  /\ Goto(t, "insert")
  /\ UNCHANGED <<db, tx, writer, runId, lock, oldRun, runArg>>

Insert(t) ==
  /\ pc[t] = "insert"
  /\ Write(t, Tables(tx.requests \cup {req[t]}, tx.timeseries, tx.latency, tx.runs))
  /\ Goto(t, "upsert")
  /\ UNCHANGED <<db, runId, lock, req, oldRun, runArg, result>>

Upsert(t) ==
  /\ pc[t] = "upsert"
  /\ Write(t, Tables(tx.requests, Bump(tx.timeseries, req[t]), tx.latency, tx.runs))
  /\ Goto(t, "latency")
  /\ UNCHANGED <<db, runId, lock, req, oldRun, runArg, result>>

(* Seeded fault: the pending request's own row is not among the latencies. *)
UpdateLatencyOfCommitted(t) ==
  /\ pc[t] = "latency"
  /\ LET b == BucketOf[req[t]]
     IN  Write(t, Tables(tx.requests, tx.timeseries,
                         Refigured(tx.latency, db.requests, b), tx.runs))
  /\ Goto(t, "commit")
  /\ UNCHANGED <<db, runId, lock, req, oldRun, runArg, result>>

(* update_bucket_latency returns at once for a request without latency_ms. *)
UpdateLatency(t) ==
  /\ pc[t] = "latency"
  /\ \/ /\ req[t] \in Timed
        /\ LET b == BucketOf[req[t]]
           IN  Write(t, Tables(tx.requests, tx.timeseries,
                         Refigured(tx.latency, tx.requests, b), tx.runs))
     \/ req[t] \notin Timed /\ UNCHANGED <<tx, writer>>
  /\ Goto(t, "commit")
  /\ UNCHANGED <<db, runId, lock, req, oldRun, runArg, result>>

(* A call ends: the thread is between requests again. *)
EndRecord(t, outcome) ==
  /\ result' = [result EXCEPT ![req[t]] = outcome]
  /\ req' = [req EXCEPT ![t] = NoRequest]
  /\ Goto(t, "idle")
  /\ UNCHANGED <<runId, lock, oldRun, runArg>>

Commit(t) ==
  /\ pc[t] = "commit"
  /\ CommitTx(t)
  /\ EndRecord(t, "recorded")

(* Seeded fault: the except branch forgets self._store.rollback(). *)
RaiseWithoutRollback(t) ==
  /\ pc[t] = "except"
  /\ EndRecord(t, "raised")
  /\ UNCHANGED <<db, tx, writer>>

RollbackAndRaise(t) ==
  /\ RecorderRollsBack
  /\ pc[t] = "except"
  /\ RollbackTx(t)
  /\ EndRecord(t, "raised")
  /\ UNCHANGED db

RaiseOnly(t) ==
  /\ ~RecorderRollsBack
  /\ pc[t] = "except"
  /\ EndRecord(t, "raised")
  /\ UNCHANGED <<db, tx, writer>>

-----------------------------------------------------------------------------
(* rebuild_timeseries.  Only the ChaosLLM and ChaosSMTP recorders, the     *)
(* ones that roll back, expose it.                                         *)

RebuildDelete(t) ==
  /\ RecorderRollsBack
  /\ pc[t] = "idle"
  /\ Write(t, Tables(tx.requests, NoCounts, NoLatency, tx.runs))
  /\ Goto(t, "rebuild_insert")
  /\ UNCHANGED <<db, runId, lock, req, oldRun, runArg, result>>

RebuildInsert(t) ==
  /\ pc[t] = "rebuild_insert"
  /\ Write(t, Tables(tx.requests, Aggregate(tx.requests), AllLatency(tx.requests),
                     tx.runs))
  /\ Goto(t, "rebuild_commit")
  /\ UNCHANGED <<db, runId, lock, req, oldRun, runArg, result>>

RebuildCommit(t) ==
  /\ pc[t] = "rebuild_commit"
  /\ CommitTx(t)
  /\ Goto(t, "idle")
  /\ UNCHANGED <<runId, lock, req, oldRun, runArg, result>>

RebuildRollback(t) ==
  /\ pc[t] = "rebuild_except"
  /\ RollbackTx(t)
  /\ Goto(t, "idle")
  /\ UNCHANGED <<db, runId, lock, req, oldRun, runArg, result>>

-----------------------------------------------------------------------------
(* reset(), and the save_run_info with which three of the servers end it.  *)
(* run_info always has a row once a server is constructed, so reset always *)
(* finds a config_json to carry over and rewrites run_info.                *)

Resetting == {"reset_lock", "reset_delete", "reset_info", "reset_commit",
              "reset_except", "save_bind", "save", "save_commit"}

(* uuid4 again: the new run's id is not in use anywhere. *)
FreshRun(r) ==
  /\ r # runId
  /\ r \notin db.runs \cup tx.runs
  /\ \A t \in Threads : pc[t] \in Resetting => r \notin {oldRun[t], runArg[t]}

ResetCall(t, r) ==
  /\ t \in Resetters
  /\ pc[t] = "idle"
  /\ FreshRun(r)
  /\ oldRun' = [oldRun EXCEPT ![t] = runId]
  /\ runArg' = [runArg EXCEPT ![t] = r]
  /\ Goto(t, "reset_lock")
  /\ UNCHANGED <<db, tx, writer, runId, lock, req, result>>

ResetLock(t) ==
  /\ pc[t] = "reset_lock"
  /\ lock = NoThread
  /\ lock' = t
  /\ Goto(t, "reset_delete")
  /\ UNCHANGED <<db, tx, writer, runId, req, oldRun, runArg, result>>

(* Seeded fault: reset empties table requests but not timeseries. *)
ResetDeletesRequestsOnly(t) ==
  /\ pc[t] = "reset_delete"
  /\ Write(t, Tables({}, tx.timeseries, tx.latency, tx.runs))
  /\ Goto(t, "reset_info")
  /\ UNCHANGED <<db, runId, lock, req, oldRun, runArg, result>>

ResetDelete(t) ==
  /\ pc[t] = "reset_delete"
  /\ Write(t, Tables({}, NoCounts, NoLatency, tx.runs))
  /\ Goto(t, "reset_info")
  /\ UNCHANGED <<db, runId, lock, req, oldRun, runArg, result>>

(* self._run_id changes here, before the transaction commits. *)
ResetInfo(t) ==
  /\ pc[t] = "reset_info"
  /\ runId' = runArg[t]
  /\ Write(t, Tables(tx.requests, tx.timeseries, tx.latency, {runArg[t]}))
  /\ Goto(t, "reset_commit")
  /\ UNCHANGED <<db, lock, req, oldRun, runArg, result>>

ResetCommit(t) ==
  /\ pc[t] = "reset_commit"
  /\ CommitTx(t)
  /\ result' = [q \in Requests |-> IF result[q] = "recorded" THEN "none" ELSE result[q]]
  /\ lock' = NoThread
  /\ Goto(t, IF SavesAfterReset THEN "save_bind" ELSE "idle")
  /\ UNCHANGED <<runId, req, oldRun, runArg>>

(* Seeded fault: a failed reset keeps the new run's id. *)
ResetRollbackKeepsRunId(t) ==
  /\ pc[t] = "reset_except"
  /\ RollbackTx(t)
  /\ lock' = NoThread
  /\ Goto(t, "idle")
  /\ UNCHANGED <<db, runId, req, oldRun, runArg, result>>

ResetRollback(t) ==
  /\ pc[t] = "reset_except"
  /\ RollbackTx(t)
  /\ runId' = oldRun[t]
  /\ lock' = NoThread
  /\ Goto(t, "idle")
  /\ UNCHANGED <<db, req, oldRun, runArg, result>>

(* save_run_info binds self._run_id before its INSERT gets the write lock. *)
SaveBind(t) ==
  /\ pc[t] = "save_bind"
  /\ runArg' = [runArg EXCEPT ![t] = runId]
  /\ Goto(t, "save")
  /\ UNCHANGED <<db, tx, writer, runId, lock, req, oldRun, result>>

SaveInsert(t) ==
  /\ pc[t] = "save"
  /\ Write(t, Tables(tx.requests, tx.timeseries, tx.latency, tx.runs \cup {runArg[t]}))
  /\ Goto(t, "save_commit")
  /\ UNCHANGED <<db, runId, lock, req, oldRun, runArg, result>>

SaveCommit(t) ==
  /\ pc[t] = "save_commit"
  /\ CommitTx(t)
  /\ Goto(t, "idle")
  /\ UNCHANGED <<runId, lock, req, oldRun, runArg, result>>

-----------------------------------------------------------------------------
(* Failing statements. *)

(* Where control goes when the statement at a label raises. *)
Handler(label) ==
  CASE label \in {"insert", "upsert", "latency", "commit"}       -> "except"
    [] label \in {"rebuild_insert", "rebuild_commit"}            -> "rebuild_except"
    [] label \in {"reset_delete", "reset_info", "reset_commit"}  -> "reset_except"
    [] OTHER                                                     -> "idle"

Statements == {"insert", "upsert", "latency", "commit",
               "rebuild_insert", "rebuild_commit",
               "reset_delete", "reset_info", "reset_commit",
               "save", "save_commit"}

(* A statement fails (disk full, I/O error, locked table).  The failed     *)
(* statement has no effect; for some errors SQLite itself rolls the whole  *)
(* transaction back.  Without latency_ms the third step runs no statement. *)
StatementError(t) ==
  /\ pc[t] \in Statements
  /\ pc[t] = "latency" => req[t] \in Timed
  /\ RollbackTx(t) \/ UNCHANGED <<tx, writer>>
  /\ Goto(t, Handler(pc[t]))
  /\ UNCHANGED <<db, runId, lock, req, oldRun, runArg, result>>

(* Seeded fault: the statement is tried again instead of raising. *)
BusyRetry(t) ==
  /\ pc[t] \in {"insert", "reset_delete", "save"}
  /\ ~CanWrite(t)
  /\ UNCHANGED vars

(* Another connection keeps the write lock until this one's 30 s busy      *)
(* timeout expires (at once for a shared-cache memory database).           *)
BusyTimeout(t) ==
  /\ pc[t] \in {"insert", "reset_delete", "save"}
  /\ ~CanWrite(t)
  /\ Goto(t, Handler(pc[t]))
  /\ UNCHANGED <<db, tx, writer, runId, lock, req, oldRun, runArg, result>>

-----------------------------------------------------------------------------
(* The steps a thread takes on its own once a call has begun. *)
Step(t) ==
  \/ Insert(t) \/ Upsert(t) \/ UpdateLatency(t) \/ Commit(t)
  \/ RollbackAndRaise(t) \/ RaiseOnly(t)
  \/ RebuildInsert(t) \/ RebuildCommit(t) \/ RebuildRollback(t)
  \/ ResetLock(t) \/ ResetDelete(t) \/ ResetInfo(t) \/ ResetCommit(t) \/ ResetRollback(t)
  \/ SaveBind(t) \/ SaveInsert(t) \/ SaveCommit(t)
  \/ BusyTimeout(t)

Call(t) ==
  \/ \E q \in Requests : RecordCall(t, q)
  \/ \E r \in RunIds : ResetCall(t, r)
  \/ RebuildDelete(t)

Next == \E t \in Threads : Call(t) \/ Step(t) \/ StatementError(t)

Spec == Init /\ [][Next]_vars

(* A thread inside a call is scheduled and its statements end, if only by  *)
(* the busy timeout.  Nothing obliges a thread to make calls.              *)
FairSpec == Spec /\ \A t \in Threads : WF_vars(Step(t))
-----------------------------------------------------------------------------
(* Properties. *)

Labels == Statements \cup {"idle", "except", "rebuild_except", "reset_lock",
                           "reset_except", "save_bind"}

(* Every variable has its type.  `db` and `tx` are whole databases, and    *)
(* the image is the committed database whenever no transaction is open.    *)
TypeOK ==
  /\ db \in Database
  /\ tx \in Database
  /\ writer \in Threads \cup {NoThread}
  /\ runId \in RunIds
  /\ lock \in Threads \cup {NoThread}
  /\ pc \in [Threads -> Labels]
  /\ req \in [Threads -> Requests \cup {NoRequest}]
  /\ oldRun \in [Threads -> RunIds]
  /\ runArg \in [Threads -> RunIds]
  /\ result \in [Requests -> {"none", "recorded", "raised"}]
  /\ writer = NoThread => tx = db

(* The INSERT, the UPSERT and the latency UPDATE of a request are          *)
(* committed together or not at all ("Commit all three operations          *)
(* atomically"): the counters of table timeseries are at every moment the  *)
(* ones rebuild_timeseries would compute from table requests.              *)
SeriesMatchesRequests == db.timeseries = Aggregate(db.requests)

(* Whichever request was recorded last, and with rebuilds in between, the  *)
(* latency figures of a bucket leave out no timed request of the bucket    *)
(* that its window finds, and take in none but those of the two.  Where    *)
(* every window is its bucket these are all its timed requests and no      *)
(* others.                                                                 *)
LatencyCoversBucket ==
  \A b \in Buckets :
    /\ LatencyRows(db.requests, b) \cap Window[b] \subseteq db.latency[b]
    /\ db.latency[b] \subseteq LatencyRows(db.requests, b) \cup WindowRows(db.requests, b)

(* "Average latency for the bucket": the figures of a bucket are those of  *)
(* the timed requests that it counts, which is what rebuild_timeseries     *)
(* makes them.  So are a recording's where every window is its bucket; at  *)
(* midnight they need not be.                                              *)
LatencyMatchesRequests == db.latency = AllLatency(db.requests)

(* Half of the above that even the recorders without a rollback keep: the  *)
(* time series never counts a request that table requests does not hold.   *)
SeriesNeverAhead ==
  \A b \in Buckets, c \in Columns :
    db.timeseries[b][c] <= Aggregate(db.requests)[b][c]

(* Between two calls a thread holds no write transaction, so a server that *)
(* swallows a failed recording cannot lock the other threads out.          *)
IdleHoldsNoTransaction == \A t \in Threads : pc[t] = "idle" => writer # t

(* A record call that returned has its row in the run; one that raised (as *)
(* far as its caller knows, nothing was recorded) never appears later.     *)
ResultIsTruthful ==
  \A q \in Requests :
    /\ result[q] = "recorded" => q \in db.requests
    /\ result[q] = "raised" => q \notin db.requests

(* run_id "is the current run ID": outside reset() it names the one run    *)
(* that table run_info describes.                                          *)
RunIdIsCurrent == lock = NoThread => db.runs = {runId}

(* The statement-by-statement store implements the one-step store.         *)
Metrics == INSTANCE RunMetrics
             WITH recorded <- db.requests, counts <- db.timeseries, runs <- db.runs

(* Committed state changes only as RunMetrics allows: one whole request    *)
(* per commit, or a reset.                                                 *)
ImplementsRunMetrics == Metrics!Spec

(* Every call that is past the wait for self._lock ends, though the writer *)
(* it waits for may be an idle thread that will never commit: nothing but  *)
(* the busy timeout ends that wait.                                        *)
CallsReturn ==
  \A t \in Threads : pc[t] \notin {"idle", "reset_lock"} ~> pc[t] = "idle"
=============================================================================
