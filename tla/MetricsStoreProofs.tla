------------------------- MODULE MetricsStoreProofs -------------------------
(***************************************************************************)
(* Theorems about MetricsStore and StatsReader, for any threads, requests, *)
(* buckets, columns and runs.                                              *)
(***************************************************************************)
EXTENDS StatsReader, FiniteSetTheorems, TLAPS

-----------------------------------------------------------------------------
(* Counting. *)

(* The rows that tick a column of a bucket are finitely many. *)
LEMMA TickingFinite ==
  ASSUME NEW R \in SUBSET Requests, NEW b, NEW c
  PROVE  /\ IsFiniteSet(Ticking(R, b, c))
         /\ Cardinality(Ticking(R, b, c)) \in Nat
<1>1. Ticking(R, b, c) \in SUBSET Requests
  BY DEF Ticking
<1>2. IsFiniteSet(Ticking(R, b, c))
  BY <1>1, FS_Subset, StoreAssumption DEF StoreAssumption
<1>3. QED
  BY <1>2, FS_CardinalityType

(* Rebuilding yields a well-typed table. *)
LEMMA AggregateType ==
  ASSUME NEW R \in SUBSET Requests
  PROVE  Aggregate(R) \in [Buckets -> [Columns -> Nat]]
BY TickingFinite DEF Aggregate

(* No rows, no counts: what reset leaves is consistent. *)
LEMMA AggregateEmpty == Aggregate({}) = NoCounts
<1>1. \A b, c : Ticking({}, b, c) = {}
  BY DEF Ticking
<1>2. Cardinality({}) = 0
  BY FS_EmptySet
<1>3. QED
  BY <1>1, <1>2 DEF Aggregate, NoCounts

(* The upsert of one request is the step from the counters without its row *)
(* to the counters with it.                                                *)
LEMMA BumpAggregate ==
  ASSUME NEW R \in SUBSET Requests, NEW q \in R
  PROVE  Bump(Aggregate(R \ {q}), q) = Aggregate(R)
<1> DEFINE S == R \ {q}
<1>1. q \in Requests /\ S \in SUBSET Requests
  OBVIOUS
<1>2. BucketOf[q] \in Buckets
  BY <1>1, StoreAssumption DEF StoreAssumption
<1>3. ASSUME NEW b \in Buckets, NEW c \in Columns
      PROVE  Cardinality(Ticking(R, b, c)) =
               IF BucketOf[q] = b /\ c \in Ticks[q]
               THEN Cardinality(Ticking(S, b, c)) + 1
               ELSE Cardinality(Ticking(S, b, c))
  <2>1. CASE BucketOf[q] = b /\ c \in Ticks[q]
    <3>1. Ticking(R, b, c) = Ticking(S, b, c) \cup {q} /\ q \notin Ticking(S, b, c)
      BY <2>1 DEF Ticking
    <3>2. QED
      BY <3>1, <2>1, <1>1, TickingFinite, FS_AddElement
  <2>2. CASE ~(BucketOf[q] = b /\ c \in Ticks[q])
    <3>1. Ticking(R, b, c) = Ticking(S, b, c)
      BY <2>2 DEF Ticking
    <3>2. QED
      BY <3>1, <2>2
  <2>3. QED
    BY <2>1, <2>2
<1>4. Aggregate(S) \in [Buckets -> [Columns -> Nat]]
  BY <1>1, AggregateType
<1>5. ASSUME NEW b \in Buckets
      PROVE  Bump(Aggregate(S), q)[b] = Aggregate(R)[b]
  <2>1. CASE BucketOf[q] = b
    <3>1. Bump(Aggregate(S), q)[b] =
            [c \in Columns |-> IF c \in Ticks[q] THEN Aggregate(S)[b][c] + 1
                                                 ELSE Aggregate(S)[b][c]]
      BY <2>1, <1>4 DEF Bump
    <3>2. QED
      BY <3>1, <2>1, <1>3 DEF Aggregate
  <2>2. CASE BucketOf[q] # b
    <3>1. Bump(Aggregate(S), q)[b] = Aggregate(S)[b]
      BY <2>2, <1>4 DEF Bump
    <3>2. QED
      BY <3>1, <2>2, <1>3 DEF Aggregate
  <2>3. QED
    BY <2>1, <2>2
<1>6. QED
  BY <1>4, <1>5 DEF Bump, Aggregate

-----------------------------------------------------------------------------
(* Types. *)

LEMMA BumpType ==
  ASSUME NEW series \in [Buckets -> [Columns -> Nat]], NEW q \in Requests
  PROVE  Bump(series, q) \in [Buckets -> [Columns -> Nat]]
<1>1. [c \in Columns |-> IF c \in Ticks[q] THEN series[BucketOf[q]][c] + 1
                                           ELSE series[BucketOf[q]][c]]
        \in [Columns -> Nat]
  BY StoreAssumption DEF StoreAssumption
<1>2. QED
  BY <1>1 DEF Bump

LEMMA EmptyTables ==
  /\ NoCounts \in [Buckets -> [Columns -> Nat]]
  /\ NoLatency \in [Buckets -> SUBSET Requests]
BY DEF NoCounts, NoLatency

Recording == {"insert", "upsert", "latency", "commit", "except"}

(* TypeOK is not inductive: a recording thread must have a request in hand. *)
ReqOK == \A t \in Threads : pc[t] \in Recording => req[t] \in Requests

TypeInv == TypeOK /\ ReqOK

LEMMA InitType == Init => TypeInv
BY EmptyTables, StoreAssumption
   DEF Init, TypeInv, TypeOK, ReqOK, Recording, Database, Tables, Labels, Statements,
       StoreAssumption

(* Every image a writing statement leaves behind is a database again, and  *)
(* no step leaves a recording thread without its request.                  *)
LEMMA NextType == TypeInv /\ [Next]_vars => TypeInv'
<1> SUFFICES ASSUME TypeInv, [Next]_vars
             PROVE  TypeInv'
  OBVIOUS
<1> USE StoreAssumption DEF TypeInv, TypeOK, ReqOK, Recording, Labels, Statements, Goto,
        StoreAssumption
<1>1. ASSUME NEW t \in Threads, NEW q \in Requests, RecordCall(t, q)
      PROVE  TypeInv'
  BY <1>1 DEF RecordCall
<1>2. ASSUME NEW t \in Threads, Insert(t)
      PROVE  TypeInv'
  <2>1. tx' \in Database
    BY <1>2 DEF Insert, Write, Database, Tables
  <2>2. QED
    BY <1>2, <2>1 DEF Insert, Write, CanWrite
<1>3. ASSUME NEW t \in Threads, Upsert(t)
      PROVE  TypeInv'
  <2>1. tx' \in Database
    BY <1>3, BumpType DEF Upsert, Write, Database, Tables
  <2>2. QED
    BY <1>3, <2>1 DEF Upsert, Write, CanWrite
<1>4. ASSUME NEW t \in Threads, UpdateLatency(t)
      PROVE  TypeInv'
  <2>1. \A b : WindowRows(tx.requests, b) \in SUBSET Requests
    BY DEF WindowRows, Database
  <2>2. Refigured(tx.latency, tx.requests, BucketOf[req[t]]) \in [Buckets -> SUBSET Requests]
    BY <2>1 DEF Refigured, Database
  <2>3. tx' \in Database
    <3>1. CASE req[t] \in Timed
      <4> DEFINE new == Refigured(tx.latency, tx.requests, BucketOf[req[t]])
      <4>1. tx' = Tables(tx.requests, tx.timeseries, new, tx.runs)
        BY <1>4, <3>1 DEF UpdateLatency, Write
      <4>2. new \in [Buckets -> SUBSET Requests]
        BY <2>2
      <4> HIDE DEF new
      <4>3. QED
        BY <4>1, <4>2 DEF Database, Tables
    <3>2. CASE req[t] \notin Timed
      BY <1>4, <3>2 DEF UpdateLatency
    <3>3. QED
      BY <3>1, <3>2
  <2>4. QED
    BY <1>4, <2>3 DEF UpdateLatency, Write, CanWrite
<1>5. ASSUME NEW t \in Threads, Commit(t)
      PROVE  TypeInv'
  BY <1>5 DEF Commit, CommitTx, EndRecord
<1>6. ASSUME NEW t \in Threads, RollbackAndRaise(t) \/ RaiseOnly(t)
      PROVE  TypeInv'
  BY <1>6 DEF RollbackAndRaise, RaiseOnly, RollbackTx, EndRecord
<1>7. ASSUME NEW t \in Threads, RebuildDelete(t)
      PROVE  TypeInv'
  <2>1. tx' \in Database
    BY <1>7, EmptyTables DEF RebuildDelete, Write, Database, Tables
  <2>2. QED
    BY <1>7, <2>1 DEF RebuildDelete, Write, CanWrite
<1>8. ASSUME NEW t \in Threads, RebuildInsert(t)
      PROVE  TypeInv'
  <2>1. Aggregate(tx.requests) \in [Buckets -> [Columns -> Nat]]
    BY AggregateType DEF Database
  <2>2. AllLatency(tx.requests) \in [Buckets -> SUBSET Requests]
    BY DEF AllLatency, LatencyRows, Database
  <2>3. tx' \in Database
    BY <1>8, <2>1, <2>2 DEF RebuildInsert, Write, Database, Tables
  <2>4. QED
    BY <1>8, <2>3 DEF RebuildInsert, Write, CanWrite
<1>9. ASSUME NEW t \in Threads, RebuildCommit(t) \/ RebuildRollback(t)
      PROVE  TypeInv'
  BY <1>9 DEF RebuildCommit, RebuildRollback, CommitTx, RollbackTx
<1>10. ASSUME NEW t \in Threads, NEW r \in RunIds, ResetCall(t, r)
       PROVE  TypeInv'
  BY <1>10 DEF ResetCall
<1>11. ASSUME NEW t \in Threads, ResetLock(t)
       PROVE  TypeInv'
  BY <1>11 DEF ResetLock
<1>12. ASSUME NEW t \in Threads, ResetDelete(t)
       PROVE  TypeInv'
  <2>1. tx' \in Database
    BY <1>12, EmptyTables DEF ResetDelete, Write, Database, Tables
  <2>2. QED
    BY <1>12, <2>1 DEF ResetDelete, Write, CanWrite
<1>13. ASSUME NEW t \in Threads, ResetInfo(t)
       PROVE  TypeInv'
  <2>1. tx' \in Database
    BY <1>13 DEF ResetInfo, Write, Database, Tables
  <2>2. QED
    BY <1>13, <2>1 DEF ResetInfo, Write, CanWrite
<1>14. ASSUME NEW t \in Threads, ResetCommit(t) \/ ResetRollback(t)
       PROVE  TypeInv'
  BY <1>14 DEF ResetCommit, ResetRollback, CommitTx, RollbackTx
<1>15. ASSUME NEW t \in Threads, SaveBind(t) \/ SaveCommit(t)
       PROVE  TypeInv'
  BY <1>15 DEF SaveBind, SaveCommit, CommitTx
<1>16. ASSUME NEW t \in Threads, SaveInsert(t)
       PROVE  TypeInv'
  <2>1. tx' \in Database
    BY <1>16 DEF SaveInsert, Write, Database, Tables
  <2>2. QED
    BY <1>16, <2>1 DEF SaveInsert, Write, CanWrite
<1>17. ASSUME NEW t \in Threads, StatementError(t)
       PROVE  TypeInv'
  BY <1>17 DEF StatementError, RollbackTx, Handler
<1>18. ASSUME NEW t \in Threads, BusyTimeout(t)
       PROVE  TypeInv'
  BY <1>18 DEF BusyTimeout, Handler
<1>19. CASE UNCHANGED vars
  BY <1>19 DEF vars
<1>20. QED
  BY <1>1, <1>2, <1>3, <1>4, <1>5, <1>6, <1>7, <1>8, <1>9, <1>10, <1>11, <1>12, <1>13,
     <1>14, <1>15, <1>16, <1>17, <1>18, <1>19 DEF Next, Call, Step

(* Type correctness of the store: whatever the interleaving and whichever  *)
(* statements fail, `db` and `tx` stay databases and the image without a   *)
(* writer is the committed one.                                            *)
THEOREM TypeCorrect == Spec => []TypeOK
<1>1. TypeInv => TypeOK
  BY DEF TypeInv
<1>2. QED
  BY InitType, NextType, <1>1, PTL DEF Spec

-----------------------------------------------------------------------------
(* The time series agrees with table requests.  Only the recorders that    *)
(* roll back keep this, so RecorderRollsBack is an assumption of the       *)
(* theorem.  SeriesMatchesRequests is not inductive: what is committed     *)
(* next is the writer's image, so the image must agree too whenever the    *)
(* writer is where it may commit; in the middle of a recording it lacks    *)
(* exactly the pending request, and behind a failed statement or a         *)
(* rebuild's DELETE nothing is known of it.                                *)

Consistent(d) == d.timeseries = Aggregate(d.requests)

(* Where a thread has executed a writing statement and not yet failed.     *)
Writing == {"upsert", "latency", "commit", "rebuild_insert", "rebuild_commit",
            "reset_info", "reset_commit", "save_commit"}

Abandoned == {"except", "rebuild_insert", "rebuild_except"}

WritersWrite == \A t \in Threads : pc[t] \in Writing => writer = t

LEMMA NextWriters ==
  ASSUME TypeInv, WritersWrite, [Next]_vars
  PROVE  WritersWrite'
<1> USE StoreAssumption
    DEF TypeInv, TypeOK, WritersWrite, Writing, Goto, Write, CanWrite, CommitTx, RollbackTx,
        StoreAssumption
<1>1. ASSUME NEW t \in Threads, Call(t)
      PROVE  WritersWrite'
  BY <1>1 DEF Call, RecordCall, ResetCall, RebuildDelete
<1>2. ASSUME NEW t \in Threads, Insert(t) \/ Upsert(t) \/ UpdateLatency(t)
      PROVE  WritersWrite'
  BY <1>2 DEF Insert, Upsert, UpdateLatency
<1>3. ASSUME NEW t \in Threads, Commit(t) \/ RollbackAndRaise(t) \/ RaiseOnly(t)
      PROVE  WritersWrite'
  BY <1>3 DEF Commit, RollbackAndRaise, RaiseOnly, EndRecord
<1>4. ASSUME NEW t \in Threads, RebuildInsert(t) \/ RebuildCommit(t) \/ RebuildRollback(t)
      PROVE  WritersWrite'
  BY <1>4 DEF RebuildInsert, RebuildCommit, RebuildRollback
<1>5. ASSUME NEW t \in Threads, ResetLock(t) \/ ResetDelete(t) \/ ResetInfo(t)
      PROVE  WritersWrite'
  BY <1>5 DEF ResetLock, ResetDelete, ResetInfo
<1>6. ASSUME NEW t \in Threads, ResetCommit(t) \/ ResetRollback(t)
      PROVE  WritersWrite'
  BY <1>6 DEF ResetCommit, ResetRollback
<1>7. ASSUME NEW t \in Threads, SaveBind(t) \/ SaveInsert(t) \/ SaveCommit(t)
      PROVE  WritersWrite'
  BY <1>7 DEF SaveBind, SaveInsert, SaveCommit
<1>8. ASSUME NEW t \in Threads, StatementError(t) \/ BusyTimeout(t)
      PROVE  WritersWrite'
  BY <1>8 DEF StatementError, BusyTimeout, Statements, Handler
<1>9. CASE UNCHANGED vars
  BY <1>9 DEF vars
<1>10. QED
  BY <1>1, <1>2, <1>3, <1>4, <1>5, <1>6, <1>7, <1>8, <1>9 DEF Next, Step

ImageOK ==
  \A t \in Threads : writer = t =>
    /\ pc[t] = "upsert" =>
         /\ req[t] \in tx.requests
         /\ tx.timeseries = Aggregate(tx.requests \ {req[t]})
    /\ pc[t] \notin Abandoned \cup {"upsert"} => Consistent(tx)

(* The request about to be inserted is in no table, and no two threads     *)
(* record the same one.                                                    *)
PendingIsNew ==
  /\ \A t \in Threads :
       pc[t] = "insert" => req[t] \notin db.requests \cup tx.requests
  /\ \A t, u \in Threads : t # u /\ req[t] \in Requests => req[u] # req[t]

SeriesInv == TypeInv /\ Consistent(db) /\ WritersWrite /\ ImageOK /\ PendingIsNew

LEMMA InitSeries == Init => SeriesInv
BY InitType, AggregateEmpty, StoreAssumption
   DEF Init, SeriesInv, Consistent, WritersWrite, ImageOK, PendingIsNew, Writing, Tables,
       StoreAssumption

LEMMA NextSeries ==
  ASSUME RecorderRollsBack, SeriesInv, [Next]_vars
  PROVE  SeriesInv'
<1> DEFINE Agreement == Consistent(db) /\ WritersWrite /\ ImageOK /\ PendingIsNew
<1> USE StoreAssumption
    DEF SeriesInv, TypeInv, TypeOK, ReqOK, Recording, Goto, Consistent, WritersWrite,
        Writing, ImageOK, Abandoned, PendingIsNew, StoreAssumption
<1>1. ASSUME NEW t \in Threads, NEW q \in Requests, RecordCall(t, q)
      PROVE  Agreement'
  BY <1>1 DEF RecordCall, Fresh
<1>2. ASSUME NEW t \in Threads, Insert(t)
      PROVE  Agreement'
  <2>1. tx'.requests = tx.requests \cup {req[t]} /\ tx'.timeseries = tx.timeseries
    BY <1>2 DEF Insert, Write, Tables
  <2>2. tx'.requests \ {req[t]} = tx.requests
    BY <1>2, <2>1 DEF Insert
  <2>3. Consistent(tx)
    BY <1>2 DEF Insert, Write, CanWrite
  <2>4. writer' = t /\ db' = db /\ req' = req /\ pc' = [pc EXCEPT ![t] = "upsert"]
    BY <1>2 DEF Insert, Write
  <2>5. \A u \in Threads : pc[u] \in Writing => u = t
    BY <1>2 DEF Insert, Write, CanWrite
  <2>6. req[t] \in Requests /\ req[t] \notin db.requests \cup tx.requests
    BY <1>2 DEF Insert
  <2>7. (Consistent(db) /\ WritersWrite)'
    BY <2>4, <2>5
  <2>8. ImageOK'
    BY <2>1, <2>2, <2>3, <2>4
  <2>9. PendingIsNew'
    BY <2>1, <2>4, <2>6
  <2>10. QED
    BY <2>7, <2>8, <2>9
<1>3. ASSUME NEW t \in Threads, Upsert(t)
      PROVE  Agreement'
  <2>1. tx'.requests = tx.requests /\ tx'.timeseries = Bump(tx.timeseries, req[t])
    BY <1>3 DEF Upsert, Write, Tables
  <2>2. writer = t
    BY <1>3 DEF Upsert
  <2>3. req[t] \in tx.requests /\ tx.timeseries = Aggregate(tx.requests \ {req[t]})
    BY <1>3, <2>2 DEF Upsert
  <2>4. tx.requests \in SUBSET Requests
    BY DEF Database
  <2>5. Consistent(tx')
    BY <2>1, <2>3, <2>4, BumpAggregate
  <2>6. writer' = t /\ db' = db /\ req' = req /\ pc' = [pc EXCEPT ![t] = "latency"]
    BY <1>3 DEF Upsert, Write
  <2>7. QED
    BY <2>1, <2>2, <2>5, <2>6
<1>4. ASSUME NEW t \in Threads, UpdateLatency(t)
      PROVE  Agreement'
  <2>1. writer = t
    BY <1>4 DEF UpdateLatency
  <2>2. Consistent(tx)
    BY <1>4, <2>1 DEF UpdateLatency
  <2>3. tx'.requests = tx.requests /\ tx'.timeseries = tx.timeseries /\ writer' = t
    BY <1>4, <2>1 DEF UpdateLatency, Write, Tables
  <2>4. db' = db /\ req' = req /\ pc' = [pc EXCEPT ![t] = "commit"]
    BY <1>4 DEF UpdateLatency
  <2>5. QED
    BY <2>1, <2>2, <2>3, <2>4
<1>5. ASSUME NEW t \in Threads, Commit(t)
      PROVE  Agreement'
  BY <1>5 DEF Commit, CommitTx, EndRecord
<1>6. ASSUME NEW t \in Threads, RollbackAndRaise(t)
      PROVE  Agreement'
  BY <1>6 DEF RollbackAndRaise, RollbackTx, EndRecord
<1>7. ASSUME NEW t \in Threads, RaiseOnly(t)
      PROVE  Agreement'
  BY <1>7 DEF RaiseOnly
<1>8. ASSUME NEW t \in Threads, RebuildDelete(t)
      PROVE  Agreement'
  <2>1. tx'.requests = tx.requests /\ writer' = t /\ CanWrite(t)
    BY <1>8 DEF RebuildDelete, Write, Tables
  <2>2. db' = db /\ req' = req /\ pc' = [pc EXCEPT ![t] = "rebuild_insert"]
    BY <1>8 DEF RebuildDelete
  <2>3. QED
    BY <2>1, <2>2 DEF CanWrite
<1>9. ASSUME NEW t \in Threads, RebuildInsert(t)
      PROVE  Agreement'
  <2>1. tx'.requests = tx.requests /\ tx'.timeseries = Aggregate(tx.requests)
    BY <1>9 DEF RebuildInsert, Write, Tables
  <2>2. writer = t /\ writer' = t
    BY <1>9 DEF RebuildInsert, Write
  <2>3. db' = db /\ req' = req /\ pc' = [pc EXCEPT ![t] = "rebuild_commit"]
    BY <1>9 DEF RebuildInsert
  <2>4. QED
    BY <2>1, <2>2, <2>3
<1>10. ASSUME NEW t \in Threads, RebuildCommit(t)
      PROVE  Agreement'
  BY <1>10 DEF RebuildCommit, CommitTx
<1>11. ASSUME NEW t \in Threads, RebuildRollback(t)
      PROVE  Agreement'
  BY <1>11 DEF RebuildRollback, RollbackTx
<1>12. ASSUME NEW t \in Threads, NEW r \in RunIds, ResetCall(t, r)
      PROVE  Agreement'
  BY <1>12 DEF ResetCall
<1>13. ASSUME NEW t \in Threads, ResetLock(t)
      PROVE  Agreement'
  BY <1>13 DEF ResetLock
<1>14. ASSUME NEW t \in Threads, ResetDelete(t)
      PROVE  Agreement'
  <2>1. tx'.requests = {} /\ tx'.timeseries = NoCounts /\ writer' = t /\ CanWrite(t)
    BY <1>14 DEF ResetDelete, Write, Tables
  <2>2. Consistent(tx')
    BY <2>1, AggregateEmpty
  <2>3. db' = db /\ req' = req /\ pc' = [pc EXCEPT ![t] = "reset_info"]
    BY <1>14 DEF ResetDelete
  <2>4. QED
    BY <2>1, <2>2, <2>3 DEF CanWrite
<1>15. ASSUME NEW t \in Threads, ResetInfo(t)
      PROVE  Agreement'
  <2>1. writer = t /\ Consistent(tx)
    BY <1>15 DEF ResetInfo
  <2>2. tx'.requests = tx.requests /\ tx'.timeseries = tx.timeseries /\ writer' = t
    BY <1>15 DEF ResetInfo, Write, Tables
  <2>3. db' = db /\ req' = req /\ pc' = [pc EXCEPT ![t] = "reset_commit"]
    BY <1>15 DEF ResetInfo
  <2>4. QED
    BY <2>1, <2>2, <2>3
<1>16. ASSUME NEW t \in Threads, ResetCommit(t)
      PROVE  Agreement'
  BY <1>16 DEF ResetCommit, CommitTx
<1>17. ASSUME NEW t \in Threads, ResetRollback(t)
      PROVE  Agreement'
  BY <1>17 DEF ResetRollback, RollbackTx
<1>18. ASSUME NEW t \in Threads, SaveBind(t)
      PROVE  Agreement'
  BY <1>18 DEF SaveBind
<1>19. ASSUME NEW t \in Threads, SaveInsert(t)
      PROVE  Agreement'
  <2>1. Consistent(tx) /\ CanWrite(t)
    BY <1>19 DEF SaveInsert, Write, CanWrite
  <2>2. tx'.requests = tx.requests /\ tx'.timeseries = tx.timeseries /\ writer' = t
    BY <1>19 DEF SaveInsert, Write, Tables
  <2>3. db' = db /\ req' = req /\ pc' = [pc EXCEPT ![t] = "save_commit"]
    BY <1>19 DEF SaveInsert
  <2>4. QED
    BY <2>1, <2>2, <2>3 DEF CanWrite
<1>20. ASSUME NEW t \in Threads, SaveCommit(t)
      PROVE  Agreement'
  BY <1>20 DEF SaveCommit, CommitTx
<1>21. ASSUME NEW t \in Threads, StatementError(t)
      PROVE  Agreement'
  <2>1. pc' = [pc EXCEPT ![t] = Handler(pc[t])] /\ db' = db /\ req' = req
    BY <1>21 DEF StatementError
  <2>2. /\ Handler(pc[t]) \in {"except", "rebuild_except", "reset_except", "idle"}
        /\ Handler(pc[t]) = "idle" => pc[t] \in {"save", "save_commit"}
        /\ pc[t] = "upsert" => Handler(pc[t]) = "except"
    BY <1>21 DEF StatementError, Statements, Handler
  <2>3. /\ pc[t] \notin {"except", "rebuild_except"}
        /\ pc[t] = "rebuild_insert" => Handler(pc[t]) = "rebuild_except"
    BY <1>21 DEF StatementError, Statements, Handler
  <2>4. CASE UNCHANGED <<tx, writer>>
    BY <2>1, <2>2, <2>3, <2>4
  <2>5. CASE RollbackTx(t)
    BY <2>1, <2>2, <2>5 DEF RollbackTx
  <2>6. QED
    BY <1>21, <2>4, <2>5 DEF StatementError
<1>22. ASSUME NEW t \in Threads, BusyTimeout(t)
      PROVE  Agreement'
  <2>1. pc' = [pc EXCEPT ![t] = Handler(pc[t])] /\ Handler(pc[t]) \notin Writing \cup {"insert"}
    BY <1>22 DEF BusyTimeout, Handler
  <2>2. writer # t /\ UNCHANGED <<db, tx, writer, req>>
    BY <1>22 DEF BusyTimeout, CanWrite
  <2>3. QED
    BY <2>1, <2>2
<1>23. CASE UNCHANGED vars
  BY <1>23 DEF vars
<1>24. Agreement'
  BY <1>1, <1>2, <1>3, <1>4, <1>5, <1>6, <1>7, <1>8, <1>9, <1>10, <1>11, <1>12, <1>13, <1>14, <1>15, <1>16, <1>17, <1>18, <1>19, <1>20, <1>21, <1>22, <1>23
     DEF Next, Call, Step
<1>25. QED
  BY <1>24, NextType

(* In every run of ChaosLLM or ChaosSMTP, of any size and with failures at *)
(* any statement, the committed time series is the one a rebuild would     *)
(* compute from the committed requests.                                    *)
THEOREM SeriesConsistent ==
  ASSUME RecorderRollsBack
  PROVE  Spec => []SeriesMatchesRequests
<1>1. SeriesInv /\ [Next]_vars => SeriesInv'
  BY NextSeries
<1>2. SeriesInv => SeriesMatchesRequests
  BY DEF SeriesInv, Consistent, SeriesMatchesRequests
<1>3. QED
  BY InitSeries, <1>1, <1>2, PTL DEF Spec

-----------------------------------------------------------------------------
(* The write lock is never left behind.  save_run_info is the one call     *)
(* that raises without a rollback, so reset must not end with it.          *)

Saving == {"save_bind", "save", "save_commit"}

IdleInv ==
  \A t \in Threads : pc[t] \notin Saving /\ (pc[t] = "idle" => writer # t)

LEMMA NextIdle ==
  ASSUME RecorderRollsBack, ~SavesAfterReset, TypeInv, IdleInv, [Next]_vars
  PROVE  IdleInv'
<1> USE StoreAssumption
    DEF TypeInv, TypeOK, IdleInv, Saving, Goto, Write, CanWrite, CommitTx, RollbackTx,
        StoreAssumption
<1>1. ASSUME NEW t \in Threads, Call(t)
      PROVE  IdleInv'
  BY <1>1 DEF Call, RecordCall, ResetCall, RebuildDelete
<1>2. ASSUME NEW t \in Threads, Insert(t) \/ Upsert(t) \/ UpdateLatency(t)
      PROVE  IdleInv'
  BY <1>2 DEF Insert, Upsert, UpdateLatency
<1>3. ASSUME NEW t \in Threads, Commit(t) \/ RollbackAndRaise(t) \/ RaiseOnly(t)
      PROVE  IdleInv'
  BY <1>3 DEF Commit, RollbackAndRaise, RaiseOnly, EndRecord
<1>4. ASSUME NEW t \in Threads, RebuildInsert(t) \/ RebuildCommit(t) \/ RebuildRollback(t)
      PROVE  IdleInv'
  BY <1>4 DEF RebuildInsert, RebuildCommit, RebuildRollback
<1>5. ASSUME NEW t \in Threads, ResetLock(t) \/ ResetDelete(t) \/ ResetInfo(t)
      PROVE  IdleInv'
  BY <1>5 DEF ResetLock, ResetDelete, ResetInfo
<1>6. ASSUME NEW t \in Threads, ResetCommit(t) \/ ResetRollback(t)
      PROVE  IdleInv'
  BY <1>6 DEF ResetCommit, ResetRollback
<1>7. ASSUME NEW t \in Threads, SaveBind(t) \/ SaveInsert(t) \/ SaveCommit(t)
      PROVE  IdleInv'
  BY <1>7 DEF SaveBind, SaveInsert, SaveCommit
<1>8. ASSUME NEW t \in Threads, StatementError(t) \/ BusyTimeout(t)
      PROVE  IdleInv'
  BY <1>8 DEF StatementError, BusyTimeout, Statements, Handler
<1>9. CASE UNCHANGED vars
  BY <1>9 DEF vars
<1>10. QED
  BY <1>1, <1>2, <1>3, <1>4, <1>5, <1>6, <1>7, <1>8, <1>9 DEF Next, Step

(* A ChaosSMTP thread between two calls holds no write transaction: the    *)
(* next thread to record never waits for one that may never come back.     *)
THEOREM IdleIsFree ==
  ASSUME RecorderRollsBack, ~SavesAfterReset
  PROVE  Spec => []IdleHoldsNoTransaction
<1>1. Init => TypeInv /\ IdleInv
  BY InitType, StoreAssumption DEF Init, IdleInv, Saving, StoreAssumption
<1>2. TypeInv /\ IdleInv /\ [Next]_vars => (TypeInv /\ IdleInv)'
  BY NextType, NextIdle
<1>3. IdleInv => IdleHoldsNoTransaction
  BY DEF IdleInv, IdleHoldsNoTransaction
<1>4. QED
  BY <1>1, <1>2, <1>3, PTL DEF Spec

-----------------------------------------------------------------------------
(* The rows.  The inductive invariant says which of them the writer's      *)
(* image has beyond the committed ones, at each statement of a call, and   *)
(* that what is being recorded is in no table.  A transaction that a       *)
(* failed save_run_info left behind has no row of its own.                 *)

BeforeWriting == {"idle", "insert", "reset_lock", "reset_delete"}

ImageRows ==
  \A t \in Threads : writer = t =>
    /\ pc[t] \in BeforeWriting \cup Saving \cup {"rebuild_insert", "rebuild_commit"} =>
         tx.requests = db.requests
    /\ pc[t] \in {"upsert", "latency", "commit"} => tx.requests = db.requests \cup {req[t]}
    /\ pc[t] \in {"reset_info", "reset_commit"} => tx.requests = {}

PendingIsUnknown == \A t \in Threads : pc[t] \in Recording => req[t] \notin db.requests

RowsInv == SeriesInv /\ ImageRows /\ PendingIsUnknown

LEMMA InitRows == Init => RowsInv
BY InitSeries, StoreAssumption
   DEF Init, RowsInv, ImageRows, PendingIsUnknown, Recording, StoreAssumption

LEMMA NextImageRows ==
  ASSUME RecorderRollsBack, RowsInv, [Next]_vars
  PROVE  ImageRows'
<1> USE StoreAssumption
    DEF RowsInv, SeriesInv, TypeInv, TypeOK, WritersWrite, Writing, ImageRows, BeforeWriting,
        Saving, Goto, StoreAssumption
<1>1. ASSUME NEW t \in Threads, Insert(t)
      PROVE  ImageRows'
  BY <1>1 DEF Insert, Write, CanWrite, Tables
<1>2. ASSUME NEW t \in Threads, Upsert(t)
      PROVE  ImageRows'
  BY <1>2 DEF Upsert, Write, CanWrite, Tables
<1>3. ASSUME NEW t \in Threads, UpdateLatency(t)
      PROVE  ImageRows'
  <2>1. tx'.requests = tx.requests /\ writer = t /\ writer' = t
    BY <1>3 DEF UpdateLatency, Write, Tables
  <2>2. QED
    BY <1>3, <2>1 DEF UpdateLatency
<1>4. ASSUME NEW t \in Threads, Commit(t) \/ RebuildCommit(t) \/ ResetCommit(t) \/ SaveCommit(t)
      PROVE  ImageRows'
  <2>1. writer = t /\ writer' = NoThread
    BY <1>4 DEF Commit, RebuildCommit, ResetCommit, SaveCommit, CommitTx
  <2>2. QED
    BY <2>1
<1>5. ASSUME NEW t \in Threads,
             RollbackAndRaise(t) \/ RaiseOnly(t) \/ RebuildRollback(t) \/ ResetRollback(t)
      PROVE  ImageRows'
  <2>1. /\ RollbackTx(t) /\ UNCHANGED db
        /\ \A u \in Threads : u # t => pc'[u] = pc[u] /\ req'[u] = req[u]
    BY <1>5 DEF RollbackAndRaise, RaiseOnly, RebuildRollback, ResetRollback, EndRecord
  <2>2. QED
    BY <2>1 DEF RollbackTx
<1>6. ASSUME NEW t \in Threads, RebuildDelete(t)
      PROVE  ImageRows'
  BY <1>6 DEF RebuildDelete, Write, CanWrite, Tables
<1>7. ASSUME NEW t \in Threads, RebuildInsert(t)
      PROVE  ImageRows'
  BY <1>7 DEF RebuildInsert, Write, CanWrite, Tables
<1>8. ASSUME NEW t \in Threads, ResetDelete(t) \/ ResetInfo(t)
      PROVE  ImageRows'
  BY <1>8 DEF ResetDelete, ResetInfo, Write, CanWrite, Tables
<1>9. ASSUME NEW t \in Threads, ResetLock(t) \/ SaveBind(t)
      PROVE  ImageRows'
  BY <1>9 DEF ResetLock, SaveBind
<1>10. ASSUME NEW t \in Threads, SaveInsert(t)
       PROVE  ImageRows'
  BY <1>10 DEF SaveInsert, Write, CanWrite, Tables
<1>11. ASSUME NEW t \in Threads, NEW q \in Requests, RecordCall(t, q)
       PROVE  ImageRows'
  BY <1>11 DEF RecordCall
<1>12. ASSUME NEW t \in Threads, NEW r \in RunIds, ResetCall(t, r)
       PROVE  ImageRows'
  BY <1>12 DEF ResetCall
<1>13. ASSUME NEW t \in Threads, StatementError(t)
       PROVE  ImageRows'
  <2>1. pc' = [pc EXCEPT ![t] = Handler(pc[t])] /\ UNCHANGED <<db, req>>
    BY <1>13 DEF StatementError
  <2>2. \/ Handler(pc[t]) \in {"except", "rebuild_except", "reset_except"}
        \/ Handler(pc[t]) = "idle" /\ pc[t] \in Saving
    BY <1>13 DEF StatementError, Statements, Handler
  <2>3. CASE UNCHANGED <<tx, writer>>
    BY <2>1, <2>2, <2>3
  <2>4. CASE RollbackTx(t)
    BY <2>1, <2>2, <2>4 DEF RollbackTx
  <2>5. QED
    BY <1>13, <2>3, <2>4 DEF StatementError
<1>14. ASSUME NEW t \in Threads, BusyTimeout(t)
       PROVE  ImageRows'
  BY <1>14 DEF BusyTimeout, Handler, CanWrite
<1>15. CASE UNCHANGED vars
  BY <1>15 DEF vars
<1>16. QED
  BY <1>1, <1>2, <1>3, <1>4, <1>5, <1>6, <1>7, <1>8, <1>9, <1>10, <1>11, <1>12, <1>13, <1>14, <1>15
     DEF Next, Call, Step

(* What each commit makes of the committed rows and counters. *)
LEMMA CommitRecords ==
  ASSUME RowsInv, NEW t \in Threads, Commit(t)
  PROVE  /\ req[t] \in Requests /\ req[t] \notin db.requests
         /\ db'.requests = db.requests \cup {req[t]}
         /\ db'.timeseries = Bump(db.timeseries, req[t])
<1>1. /\ pc[t] = "commit" /\ writer = t /\ db' = tx
      /\ req[t] \in Requests /\ req[t] \notin db.requests
  BY DEF RowsInv, SeriesInv, TypeInv, ReqOK, WritersWrite, Writing, PendingIsUnknown, Recording,
         Commit, CommitTx
<1>2. tx.requests = db.requests \cup {req[t]}
  BY <1>1 DEF RowsInv, ImageRows
<1>3. tx.timeseries = Aggregate(tx.requests) /\ db.timeseries = Aggregate(db.requests)
  BY <1>1 DEF RowsInv, SeriesInv, ImageOK, Abandoned, Consistent
<1>4. tx.requests \in SUBSET Requests /\ tx.requests \ {req[t]} = db.requests
  BY <1>1, <1>2 DEF RowsInv, SeriesInv, TypeInv, TypeOK, Database
<1>5. Bump(Aggregate(db.requests), req[t]) = Aggregate(tx.requests)
  BY <1>2, <1>4, BumpAggregate
<1>6. QED
  BY <1>1, <1>2, <1>3, <1>5

LEMMA RebuildKeepsRows ==
  ASSUME RowsInv, NEW t \in Threads, RebuildCommit(t) \/ SaveCommit(t)
  PROVE  db'.requests = db.requests /\ db'.timeseries = db.timeseries
<1>1. pc[t] \in {"rebuild_commit", "save_commit"} /\ writer = t /\ db' = tx
  BY DEF RowsInv, SeriesInv, WritersWrite, Writing, RebuildCommit, SaveCommit, CommitTx
<1>2. tx.requests = db.requests
  BY <1>1 DEF RowsInv, ImageRows, Saving
<1>3. tx.timeseries = Aggregate(tx.requests) /\ db.timeseries = Aggregate(db.requests)
  BY <1>1 DEF RowsInv, SeriesInv, ImageOK, Abandoned, Consistent
<1>4. QED
  BY <1>1, <1>2, <1>3

LEMMA ResetEmpties ==
  ASSUME RowsInv, NEW t \in Threads, ResetCommit(t)
  PROVE  db'.requests = {} /\ db'.timeseries = NoCounts
<1>1. pc[t] = "reset_commit" /\ writer = t /\ db' = tx
  BY DEF RowsInv, SeriesInv, WritersWrite, Writing, ResetCommit, CommitTx
<1>2. tx.requests = {}
  BY <1>1 DEF RowsInv, ImageRows
<1>3. tx.timeseries = Aggregate(tx.requests)
  BY <1>1 DEF RowsInv, SeriesInv, ImageOK, Abandoned, Consistent
<1>4. QED
  BY <1>1, <1>2, <1>3, AggregateEmpty

LEMMA OthersCommitNothing ==
  ASSUME NEW t \in Threads, Call(t) \/ Step(t) \/ StatementError(t),
         ~Commit(t), ~RebuildCommit(t), ~ResetCommit(t), ~SaveCommit(t)
  PROVE  db' = db
BY DEF Call, Step, RecordCall, Insert, Upsert, UpdateLatency, RollbackAndRaise, RaiseOnly,
       RebuildDelete, RebuildInsert, RebuildRollback, ResetCall, ResetLock, ResetDelete, ResetInfo,
       ResetRollback, SaveBind, SaveInsert, StatementError, BusyTimeout

LEMMA NextPending ==
  ASSUME RecorderRollsBack, RowsInv, [Next]_vars
  PROVE  PendingIsUnknown'
<1> USE DEF PendingIsUnknown, Recording, Goto
<1>1. /\ PendingIsUnknown
      /\ pc \in [Threads -> Labels] /\ req \in [Threads -> Requests \cup {NoRequest}]
      /\ \A t \in Threads : pc[t] \in Recording => req[t] \in Requests
      /\ \A t, u \in Threads : t # u /\ req[t] \in Requests => req[u] # req[t]
  BY DEF RowsInv, SeriesInv, TypeInv, TypeOK, ReqOK, PendingIsNew
<1>2. ASSUME NEW t \in Threads, Commit(t)
      PROVE  PendingIsUnknown'
  BY <1>1, <1>2, CommitRecords DEF Commit, EndRecord
<1>3. ASSUME NEW t \in Threads, RebuildCommit(t) \/ SaveCommit(t)
      PROVE  PendingIsUnknown'
  BY <1>1, <1>3, RebuildKeepsRows DEF RebuildCommit, SaveCommit
<1>4. ASSUME NEW t \in Threads, ResetCommit(t)
      PROVE  PendingIsUnknown'
  BY <1>4, ResetEmpties
<1>5. ASSUME NEW t \in Threads, NEW q \in Requests, RecordCall(t, q)
      PROVE  PendingIsUnknown'
  BY <1>1, <1>5 DEF RecordCall, Fresh
<1>6. ASSUME NEW t \in Threads, Call(t) \/ Step(t) \/ StatementError(t),
             ~Commit(t), ~RebuildCommit(t), ~ResetCommit(t), ~SaveCommit(t),
             \A q \in Requests : ~RecordCall(t, q)
      PROVE  PendingIsUnknown'
  <2>1. db' = db
    BY <1>6, OthersCommitNothing
  <2>2. \A u \in Threads : pc'[u] \in Recording => pc[u] \in Recording /\ req'[u] = req[u]
    BY <1>1, <1>6
       DEF Call, Step, Insert, Upsert, UpdateLatency, RollbackAndRaise, RaiseOnly, EndRecord,
       RebuildDelete, RebuildInsert, RebuildRollback, ResetCall, ResetLock, ResetDelete, ResetInfo,
       ResetRollback, SaveBind, SaveInsert, StatementError, Statements, BusyTimeout, Handler
  <2>3. QED
    BY <1>1, <2>1, <2>2
<1>7. CASE UNCHANGED vars
  BY <1>1, <1>7 DEF vars
<1>8. QED
  BY <1>2, <1>3, <1>4, <1>5, <1>6, <1>7 DEF Next

LEMMA NextRowsInv ==
  ASSUME RecorderRollsBack, RowsInv, [Next]_vars
  PROVE  RowsInv'
BY NextSeries, NextImageRows, NextPending DEF RowsInv, SeriesInv

LEMMA RowsInvHolds ==
  ASSUME RecorderRollsBack
  PROVE  Spec => []RowsInv
<1>1. RowsInv /\ [Next]_vars => RowsInv'
  BY NextRowsInv
<1>2. QED
  BY InitRows, <1>1, PTL DEF Spec

(* What a caller was told. *)
LEMMA NextResult ==
  ASSUME RecorderRollsBack, RowsInv, ResultIsTruthful, [Next]_vars
  PROVE  ResultIsTruthful'
<1>1. /\ result \in [Requests -> {"none", "recorded", "raised"}]
      /\ \A t \in Threads : pc[t] \in Recording => req[t] \in Requests
  BY DEF RowsInv, SeriesInv, TypeInv, TypeOK, ReqOK
<1>2. ASSUME NEW t \in Threads, Commit(t)
      PROVE  ResultIsTruthful'
  <2>1. req[t] \in Requests /\ db'.requests = db.requests \cup {req[t]}
    BY <1>2, CommitRecords
  <2>2. result' = [result EXCEPT ![req[t]] = "recorded"]
    BY <1>2 DEF Commit, EndRecord
  <2>3. QED
    BY <1>1, <2>1, <2>2 DEF ResultIsTruthful
<1>3. ASSUME NEW t \in Threads, RebuildCommit(t) \/ SaveCommit(t)
      PROVE  ResultIsTruthful'
  BY <1>3, RebuildKeepsRows DEF RebuildCommit, SaveCommit, ResultIsTruthful
<1>4. ASSUME NEW t \in Threads, ResetCommit(t)
      PROVE  ResultIsTruthful'
  BY <1>1, <1>4, ResetEmpties DEF ResetCommit, ResultIsTruthful
<1>5. ASSUME NEW t \in Threads, NEW q \in Requests, RecordCall(t, q)
      PROVE  ResultIsTruthful'
  BY <1>1, <1>5 DEF RecordCall, ResultIsTruthful
<1>6. ASSUME NEW t \in Threads, RollbackAndRaise(t)
      PROVE  ResultIsTruthful'
  <2>1. req[t] \in Requests /\ req[t] \notin db.requests
    BY <1>1, <1>6 DEF RollbackAndRaise, RowsInv, PendingIsUnknown, Recording
  <2>2. QED
    BY <1>1, <1>6, <2>1 DEF RollbackAndRaise, EndRecord, ResultIsTruthful
<1>7. ASSUME NEW t \in Threads, Call(t) \/ Step(t) \/ StatementError(t),
             ~Commit(t), ~RebuildCommit(t), ~ResetCommit(t), ~SaveCommit(t), ~RollbackAndRaise(t),
             \A q \in Requests : ~RecordCall(t, q)
      PROVE  ResultIsTruthful'
  <2>1. db' = db
    BY <1>7, OthersCommitNothing
  <2>2. result' = result
    BY <1>7
       DEF Call, Step, Insert, Upsert, UpdateLatency, RaiseOnly, RebuildDelete, RebuildInsert,
       RebuildRollback, ResetCall, ResetLock, ResetDelete, ResetInfo, ResetRollback, SaveBind,
       SaveInsert, StatementError, BusyTimeout
  <2>3. QED
    BY <2>1, <2>2 DEF ResultIsTruthful
<1>8. CASE UNCHANGED vars
  BY <1>8 DEF vars, ResultIsTruthful
<1>9. QED
  BY <1>2, <1>3, <1>4, <1>5, <1>6, <1>7, <1>8 DEF Next

(* A record call that returned has its row in the run it was recorded in,  *)
(* and one that raised never appears: its rollback takes back what it had  *)
(* written, and no other thread commits it.  This is ChaosLLM and          *)
(* ChaosSMTP, with resets from any threads.                                *)
THEOREM ResultsAreTruthful ==
  ASSUME RecorderRollsBack
  PROVE  Spec => []ResultIsTruthful
<1>1. Init => ResultIsTruthful
  BY DEF Init, ResultIsTruthful
<1>2. RowsInv /\ ResultIsTruthful /\ [Next]_vars => ResultIsTruthful'
  BY NextResult
<1>3. QED
  BY <1>1, <1>2, RowsInvHolds, PTL DEF Spec

-----------------------------------------------------------------------------
(* The runs.  A reset opens a run that is not there yet, and save_run_info *)
(* writes a row for one that is.  The latter needs that nobody else resets *)
(* meanwhile: SavedIsKnown rests on OneResetter.                           *)

InReset == {"reset_lock", "reset_delete", "reset_info", "reset_commit", "reset_except"}

OneResetter == \A t, u \in Resetters : t = u

ImageRuns ==
  \A t \in Threads : writer = t =>
    /\ pc[t] \notin {"reset_commit", "reset_except"} => tx.runs = db.runs
    /\ pc[t] = "reset_commit" => tx.runs = {runArg[t]}

RunsAreNew ==
  \A t \in Threads : pc[t] \in InReset =>
    /\ runArg[t] \notin db.runs
    /\ \A u \in Threads : u # t /\ pc[u] \in InReset => runArg[u] # runArg[t]

SavedIsKnown ==
  \A t \in Threads :
    /\ pc[t] \in Saving => SavesAfterReset /\ t \in Resetters
    /\ pc[t] = "save_bind" => runId \in db.runs
    /\ pc[t] \in {"save", "save_commit"} => runArg[t] \in db.runs

CommitInv == TypeInv /\ WritersWrite /\ ImageRuns /\ RunsAreNew /\ SavedIsKnown

LEMMA InitCommit == Init => CommitInv
BY InitType, StoreAssumption
   DEF Init, CommitInv, WritersWrite, Writing, ImageRuns, RunsAreNew, SavedIsKnown, InReset, Saving, StoreAssumption

LEMMA NextImageRuns ==
  ASSUME CommitInv, [Next]_vars
  PROVE  ImageRuns'
<1> USE StoreAssumption
    DEF CommitInv, TypeInv, TypeOK, WritersWrite, Writing, ImageRuns, Goto,
        StoreAssumption
<1>1. ASSUME NEW t \in Threads, Insert(t) \/ Upsert(t) \/ RebuildDelete(t) \/ RebuildInsert(t)
      PROVE  ImageRuns'
  BY <1>1 DEF Insert, Upsert, RebuildDelete, RebuildInsert, Write, CanWrite, Tables
<1>2. ASSUME NEW t \in Threads, UpdateLatency(t)
      PROVE  ImageRuns'
  <2>1. tx'.runs = tx.runs /\ writer = t /\ writer' = t
    BY <1>2 DEF UpdateLatency, Write, Tables
  <2>2. QED
    BY <1>2, <2>1 DEF UpdateLatency
<1>3. ASSUME NEW t \in Threads, Commit(t) \/ RebuildCommit(t) \/ ResetCommit(t) \/ SaveCommit(t)
      PROVE  ImageRuns'
  <2>1. writer = t /\ writer' = NoThread
    BY <1>3 DEF Commit, RebuildCommit, ResetCommit, SaveCommit, CommitTx
  <2>2. QED
    BY <2>1
<1>4. ASSUME NEW t \in Threads, RollbackAndRaise(t) \/ RebuildRollback(t) \/ ResetRollback(t)
      PROVE  ImageRuns'
  <2>1. /\ RollbackTx(t) /\ UNCHANGED <<db, runArg>>
        /\ \A u \in Threads : u # t => pc'[u] = pc[u]
    BY <1>4 DEF RollbackAndRaise, RebuildRollback, ResetRollback, EndRecord
  <2>2. QED
    BY <2>1 DEF RollbackTx
<1>5. ASSUME NEW t \in Threads, ResetDelete(t) \/ ResetInfo(t)
      PROVE  ImageRuns'
  BY <1>5 DEF ResetDelete, ResetInfo, Write, CanWrite, Tables
<1>6. ASSUME NEW t \in Threads, ResetLock(t) \/ SaveBind(t)
      PROVE  ImageRuns'
  BY <1>6 DEF ResetLock, SaveBind
<1>7. ASSUME NEW t \in Threads, SaveInsert(t)
      PROVE  ImageRuns'
  <2>1. runArg[t] \in db.runs
    BY <1>7 DEF SaveInsert, SavedIsKnown
  <2>2. QED
    BY <1>7, <2>1 DEF SaveInsert, Write, CanWrite, Tables
<1>8. ASSUME NEW t \in Threads, \/ \E q \in Requests : RecordCall(t, q)
                                \/ \E r \in RunIds : ResetCall(t, r)
      PROVE  ImageRuns'
  BY <1>8 DEF RecordCall, ResetCall
<1>9. ASSUME NEW t \in Threads, StatementError(t)
      PROVE  ImageRuns'
  <2>1. pc' = [pc EXCEPT ![t] = Handler(pc[t])] /\ UNCHANGED <<db, runArg>>
    BY <1>9 DEF StatementError
  <2>2. /\ Handler(pc[t]) # "reset_commit"
        /\ pc[t] \in {"reset_commit", "reset_except"} => Handler(pc[t]) = "reset_except"
    BY <1>9 DEF StatementError, Statements, Handler
  <2>3. CASE UNCHANGED <<tx, writer>>
    BY <2>1, <2>2, <2>3
  <2>4. CASE RollbackTx(t)
    BY <2>1, <2>2, <2>4 DEF RollbackTx
  <2>5. QED
    BY <1>9, <2>3, <2>4 DEF StatementError
<1>10. ASSUME NEW t \in Threads, BusyTimeout(t)
       PROVE  ImageRuns'
  BY <1>10 DEF BusyTimeout, Handler, CanWrite
<1>11. ASSUME NEW t \in Threads, RaiseOnly(t)
       PROVE  ImageRuns'
  BY <1>11 DEF RaiseOnly, EndRecord
<1>12. CASE UNCHANGED vars
  BY <1>12 DEF vars
<1>13. QED
  BY <1>1, <1>2, <1>3, <1>4, <1>5, <1>6, <1>7, <1>8, <1>9, <1>10, <1>11, <1>12
     DEF Next, Call, Step

(* What each commit makes of the committed runs. *)
LEMMA CommitKeepsRuns ==
  ASSUME CommitInv, NEW t \in Threads, Commit(t) \/ RebuildCommit(t) \/ SaveCommit(t)
  PROVE  db'.runs = db.runs
<1>1. /\ pc[t] \in {"commit", "rebuild_commit", "save_commit"} /\ writer = t /\ db' = tx
  BY DEF CommitInv, WritersWrite, Writing, Commit, RebuildCommit, SaveCommit,
         CommitTx
<1>2. QED
  BY <1>1 DEF CommitInv, ImageRuns

LEMMA ResetStartsRun ==
  ASSUME CommitInv, NEW t \in Threads, ResetCommit(t)
  PROVE  runArg[t] \in RunIds /\ runArg[t] \notin db.runs /\ db'.runs = {runArg[t]}
<1>1. pc[t] = "reset_commit" /\ writer = t /\ db' = tx
  BY DEF CommitInv, WritersWrite, Writing, ResetCommit, CommitTx
<1>2. tx.runs = {runArg[t]}
  BY <1>1 DEF CommitInv, ImageRuns
<1>3. runArg[t] \in RunIds /\ runArg[t] \notin db.runs
  BY <1>1 DEF CommitInv, TypeInv, TypeOK, RunsAreNew, InReset
<1>4. QED
  BY <1>1, <1>2, <1>3

LEMMA NextRuns ==
  ASSUME CommitInv, [Next]_vars
  PROVE  RunsAreNew'
<1> USE DEF RunsAreNew, InReset, Goto
<1>1. /\ RunsAreNew /\ pc \in [Threads -> Labels] /\ runArg \in [Threads -> RunIds]
  BY DEF CommitInv, TypeInv, TypeOK
<1>2. ASSUME NEW t \in Threads, Commit(t) \/ RebuildCommit(t) \/ SaveCommit(t)
      PROVE  RunsAreNew'
  <2>1. db'.runs = db.runs
    BY <1>2, CommitKeepsRuns
  <2>2. QED
    BY <1>1, <1>2, <2>1 DEF Commit, RebuildCommit, SaveCommit, EndRecord
<1>3. ASSUME NEW t \in Threads, ResetCommit(t)
      PROVE  RunsAreNew'
  BY <1>1, <1>3, ResetStartsRun DEF ResetCommit
<1>4. ASSUME NEW t \in Threads, NEW r \in RunIds, ResetCall(t, r)
      PROVE  RunsAreNew'
  BY <1>1, <1>4 DEF ResetCall, FreshRun, Resetting
<1>5. ASSUME NEW t \in Threads, SaveBind(t)
      PROVE  RunsAreNew'
  BY <1>1, <1>5 DEF SaveBind
<1>6. ASSUME NEW t \in Threads, Call(t) \/ Step(t) \/ StatementError(t), ~Commit(t),
             ~RebuildCommit(t), ~ResetCommit(t), ~SaveCommit(t), ~SaveBind(t),
             \A r \in RunIds : ~ResetCall(t, r)
      PROVE  RunsAreNew'
  <2>1. db' = db
    BY <1>6, OthersCommitNothing
  <2>2. /\ runArg' = runArg
        /\ \A u \in Threads : pc'[u] \in InReset => pc[u] \in InReset
    BY <1>1, <1>6
       DEF Call, Step, RecordCall, Insert, Upsert, UpdateLatency, RollbackAndRaise, RaiseOnly,
       EndRecord, RebuildDelete, RebuildInsert, RebuildRollback, ResetLock, ResetDelete, ResetInfo,
       ResetRollback, SaveInsert, StatementError, Statements, BusyTimeout, Handler
  <2>3. QED
    BY <1>1, <2>1, <2>2
<1>7. CASE UNCHANGED vars
  BY <1>1, <1>7 DEF vars
<1>8. QED
  BY <1>2, <1>3, <1>4, <1>5, <1>6, <1>7 DEF Next

(* Until reset commits, the run it has read is the one in run_info; the id *)
(* in memory is ahead of it from the UPDATE of run_info on.                *)
ResetHoldsLock == \A t \in Threads : lock = t <=> pc[t] \in InReset \ {"reset_lock"}

OldRunKept ==
  \A t \in Threads :
    /\ pc[t] \in InReset => t \in Resetters /\ db.runs = {oldRun[t]}
    /\ pc[t] \in {"reset_lock", "reset_delete", "reset_info"} => runId = oldRun[t]
    /\ pc[t] = "reset_commit" => runId = runArg[t]

RunKept == ResetHoldsLock /\ OldRunKept /\ RunIdIsCurrent

(* Where save_run_info ends a reset, nobody else may reset meanwhile. *)
LoneSaver == SavesAfterReset => OneResetter

RunInv == CommitInv /\ (OneResetter => RunKept)

LEMMA NextRunKept ==
  ASSUME OneResetter, CommitInv, RunKept, [Next]_vars
  PROVE  RunKept'
<1> USE DEF RunKept, ResetHoldsLock, OldRunKept, RunIdIsCurrent, InReset, Goto
<1>1. /\ lock \in Threads \cup {NoThread} /\ NoThread \notin Threads
      /\ pc \in [Threads -> Labels]
      /\ runArg \in [Threads -> RunIds] /\ oldRun \in [Threads -> RunIds]
  BY StoreAssumption DEF CommitInv, TypeInv, TypeOK, StoreAssumption
<1>2. \A t, u \in Threads : pc[t] \in InReset /\ pc[u] \in InReset => t = u
  BY DEF OneResetter
<1>3. ASSUME NEW t \in Threads, Commit(t) \/ RebuildCommit(t) \/ SaveCommit(t)
      PROVE  RunKept'
  <2>1. db'.runs = db.runs
    BY <1>3, CommitKeepsRuns
  <2>2. QED
    BY <1>1, <1>3, <2>1 DEF Commit, RebuildCommit, SaveCommit, EndRecord
<1>4. ASSUME NEW t \in Threads, ResetCommit(t)
      PROVE  RunKept'
  <2>1. db'.runs = {runArg[t]} /\ runId' = runArg[t] /\ lock' = NoThread
    BY <1>4, ResetStartsRun DEF ResetCommit
  <2>2. \A u \in Threads : pc'[u] \notin InReset
    BY <1>1, <1>2, <1>4 DEF ResetCommit
  <2>3. QED
    BY <1>1, <2>1, <2>2
<1>5. ASSUME NEW t \in Threads, NEW r \in RunIds, ResetCall(t, r)
      PROVE  RunKept'
  <2>1. \A u \in Threads : pc[u] \notin InReset
    BY <1>2, <1>5 DEF ResetCall, OneResetter
  <2>2. lock = NoThread /\ db.runs = {runId}
    BY <1>1, <2>1
  <2>3. QED
    BY <1>1, <1>5, <2>1, <2>2 DEF ResetCall
<1>6. ASSUME NEW t \in Threads, ResetLock(t) \/ ResetDelete(t) \/ ResetInfo(t)
      PROVE  RunKept'
  BY <1>1, <1>2, <1>6 DEF ResetLock, ResetDelete, ResetInfo
<1>7. ASSUME NEW t \in Threads, ResetRollback(t)
      PROVE  RunKept'
  BY <1>1, <1>2, <1>7 DEF ResetRollback
<1>8. ASSUME NEW t \in Threads, StatementError(t) \/ BusyTimeout(t)
      PROVE  RunKept'
  <2>1. UNCHANGED <<db, runId, lock, oldRun, runArg>> /\ pc' = [pc EXCEPT ![t] = Handler(pc[t])]
    BY <1>8 DEF StatementError, BusyTimeout
  <2>2. IF pc[t] \in {"reset_delete", "reset_info", "reset_commit"}
        THEN Handler(pc[t]) = "reset_except"
        ELSE pc[t] \notin InReset /\ Handler(pc[t]) \notin InReset
    BY <1>8 DEF StatementError, BusyTimeout, Statements, Handler
  <2>3. QED
    BY <1>1, <2>1, <2>2
<1>9. ASSUME NEW t \in Threads, SaveBind(t)
      PROVE  RunKept'
  BY <1>1, <1>9 DEF SaveBind
<1>10. ASSUME NEW t \in Threads, Call(t) \/ Step(t), \A r \in RunIds : ~ResetCall(t, r),
              ~Commit(t), ~RebuildCommit(t), ~SaveCommit(t), ~ResetCommit(t), ~ResetLock(t),
              ~ResetDelete(t), ~ResetInfo(t), ~ResetRollback(t), ~SaveBind(t), ~BusyTimeout(t)
       PROVE  RunKept'
  <2>1. UNCHANGED <<db, runId, lock, oldRun, runArg>>
    BY <1>10
       DEF Call, Step, RecordCall, Insert, Upsert, UpdateLatency, RollbackAndRaise, RaiseOnly,
       EndRecord, RebuildDelete, RebuildInsert, RebuildRollback, SaveInsert
  <2>2. PICK label \in {"idle", "insert", "upsert", "latency", "commit",
                        "rebuild_insert", "rebuild_commit", "save_commit"} :
          pc' = [pc EXCEPT ![t] = label] /\ pc[t] \notin InReset
    BY <1>10
       DEF Call, Step, RecordCall, Insert, Upsert, UpdateLatency, RollbackAndRaise, RaiseOnly,
       EndRecord, RebuildDelete, RebuildInsert, RebuildRollback, SaveInsert
  <2>3. QED
    BY <1>1, <2>1, <2>2
<1>11. CASE UNCHANGED vars
  BY <1>11 DEF vars
<1>12. QED
  BY <1>3, <1>4, <1>5, <1>6, <1>7, <1>8, <1>9, <1>10, <1>11 DEF Next, Step

LEMMA NextSaved ==
  ASSUME RunInv, LoneSaver, [Next]_vars
  PROVE  SavedIsKnown'
<1> USE DEF SavedIsKnown, Saving, Goto
<1>1. SavedIsKnown /\ pc \in [Threads -> Labels] /\ runArg \in [Threads -> RunIds]
  BY DEF RunInv, CommitInv, TypeInv, TypeOK
<1>2. ASSUME NEW t \in Threads, pc[t] \in InReset, NEW u \in Threads, u # t
      PROVE  pc[u] \notin Saving
  BY <1>1, <1>2 DEF RunInv, LoneSaver, OneResetter, RunKept, OldRunKept
<1>3. ASSUME NEW t \in Threads, Commit(t) \/ RebuildCommit(t) \/ SaveCommit(t)
      PROVE  SavedIsKnown'
  <2>1. db'.runs = db.runs
    BY <1>3, CommitKeepsRuns DEF RunInv
  <2>2. QED
    BY <1>1, <1>3, <2>1 DEF Commit, RebuildCommit, SaveCommit, EndRecord
<1>4. ASSUME NEW t \in Threads, ResetCommit(t)
      PROVE  SavedIsKnown'
  <2>1. pc[t] = "reset_commit" /\ pc[t] \in InReset
    BY <1>4 DEF ResetCommit, InReset
  <2>2. \A u \in Threads : u # t => pc'[u] = pc[u] /\ pc[u] \notin Saving
    BY <1>1, <1>2, <1>4, <2>1 DEF ResetCommit
  <2>3. CASE SavesAfterReset
    <3>1. t \in Resetters /\ runId = runArg[t]
      BY <2>1, <2>3 DEF RunInv, LoneSaver, RunKept, OldRunKept
    <3>2. db'.runs = {runArg[t]}
      BY <1>4, ResetStartsRun DEF RunInv
    <3>3. QED
      BY <1>1, <1>4, <2>2, <2>3, <3>1, <3>2 DEF ResetCommit
  <2>4. CASE ~SavesAfterReset
    BY <1>1, <1>4, <2>2, <2>4 DEF ResetCommit
  <2>5. QED
    BY <2>3, <2>4
<1>5. ASSUME NEW t \in Threads, ResetInfo(t) \/ ResetRollback(t)
      PROVE  SavedIsKnown'
  <2>1. pc[t] \in InReset /\ UNCHANGED <<db, runArg>>
    BY <1>5 DEF ResetInfo, ResetRollback, InReset
  <2>2. \A u \in Threads : u # t => pc[u] \notin Saving
    BY <1>2, <2>1
  <2>3. QED
    BY <1>1, <1>5, <2>1, <2>2 DEF ResetInfo, ResetRollback
<1>6. ASSUME NEW t \in Threads, NEW r \in RunIds, ResetCall(t, r)
      PROVE  SavedIsKnown'
  BY <1>1, <1>6 DEF ResetCall
<1>7. ASSUME NEW t \in Threads, SaveBind(t)
      PROVE  SavedIsKnown'
  BY <1>1, <1>7 DEF SaveBind
<1>8. ASSUME NEW t \in Threads, SaveInsert(t)
      PROVE  SavedIsKnown'
  BY <1>1, <1>8 DEF SaveInsert
<1>9. ASSUME NEW t \in Threads, Call(t) \/ Step(t) \/ StatementError(t),
             \A r \in RunIds : ~ResetCall(t, r), ~Commit(t), ~RebuildCommit(t), ~SaveCommit(t),
             ~ResetCommit(t), ~ResetInfo(t), ~ResetRollback(t), ~SaveBind(t), ~SaveInsert(t)
      PROVE  SavedIsKnown'
  <2>1. db' = db
    BY <1>9, OthersCommitNothing
  <2>2. /\ UNCHANGED <<runId, runArg>>
        /\ \A u \in Threads : pc'[u] \in Saving => pc'[u] = pc[u]
    BY <1>1, <1>9
       DEF Call, Step, RecordCall, Insert, Upsert, UpdateLatency, RollbackAndRaise, RaiseOnly,
       EndRecord, RebuildDelete, RebuildInsert, RebuildRollback, ResetLock, ResetDelete,
       StatementError, Statements, BusyTimeout, Handler
  <2>3. QED
    BY <1>1, <2>1, <2>2
<1>10. CASE UNCHANGED vars
  BY <1>1, <1>10 DEF vars
<1>11. QED
  BY <1>3, <1>4, <1>5, <1>6, <1>7, <1>8, <1>9, <1>10 DEF Next

LEMMA RunInvHolds ==
  ASSUME LoneSaver
  PROVE  Spec => []RunInv
<1>1. Init => RunInv
  BY InitCommit, StoreAssumption
     DEF Init, RunInv, RunKept, ResetHoldsLock, OldRunKept, RunIdIsCurrent, InReset, Tables,
         StoreAssumption
<1>2. ASSUME RunInv, [Next]_vars
      PROVE  RunInv'
  <2>1. CommitInv'
    BY <1>2, NextType, NextWriters, NextImageRuns, NextRuns, NextSaved DEF RunInv, CommitInv
  <2>2. OneResetter => RunKept'
    BY <1>2, NextRunKept DEF RunInv
  <2>3. QED
    BY <2>1, <2>2 DEF RunInv, OneResetter
<1>3. QED
  BY <1>1, <1>2, PTL DEF Spec

(* The store implements RunMetrics: with any threads, rebuilds and resets, *)
(* and failures at any statement, the committed tables take one whole      *)
(* request per commit, or open the next run empty.  ChaosSMTP may reset    *)
(* from several threads at once; the save_run_info of ChaosLLM could write *)
(* the row of a run that another reset has meanwhile closed, so there only *)
(* one thread may.                                                         *)
THEOREM StoreImplementsRunMetrics ==
  ASSUME RecorderRollsBack, SavesAfterReset => OneResetter
  PROVE  Spec => ImplementsRunMetrics
<1>1. Init => Metrics!Init
  BY DEF Init, Metrics!Init, Tables, NoCounts, Metrics!NoCounts
<1>2. RunInv /\ RowsInv /\ [Next]_vars => [Metrics!Next]_(Metrics!absVars)
  <2> SUFFICES ASSUME CommitInv, RowsInv, [Next]_vars
               PROVE  Metrics!Next \/ UNCHANGED Metrics!absVars
    BY DEF RunInv
  <2>1. ASSUME NEW t \in Threads, Commit(t)
        PROVE  Metrics!Next
    <3>1. PICK q \in Requests : q = req[t]
      BY <2>1, CommitRecords
    <3>2. Metrics!Record(q)
      BY <2>1, <3>1, CommitRecords, CommitKeepsRuns DEF Metrics!Record, Metrics!Bump, Bump
    <3>3. QED
      BY <3>2 DEF Metrics!Next
  <2>2. ASSUME NEW t \in Threads, ResetCommit(t)
        PROVE  Metrics!Next
    <3>1. PICK r \in RunIds : r = runArg[t]
      BY <2>2, ResetStartsRun
    <3>2. Metrics!StartRun(r)
      BY <2>2, <3>1, ResetStartsRun, ResetEmpties DEF Metrics!StartRun, Metrics!NoCounts, NoCounts
    <3>3. QED
      BY <3>2 DEF Metrics!Next
  <2>3. ASSUME NEW t \in Threads, RebuildCommit(t) \/ SaveCommit(t)
        PROVE  UNCHANGED Metrics!absVars
    BY <2>3, RebuildKeepsRows, CommitKeepsRuns DEF Metrics!absVars
  <2>4. ASSUME NEW t \in Threads, Call(t) \/ Step(t) \/ StatementError(t),
               ~Commit(t), ~RebuildCommit(t), ~SaveCommit(t), ~ResetCommit(t)
        PROVE  UNCHANGED Metrics!absVars
    BY <2>4, OthersCommitNothing DEF Metrics!absVars
  <2>5. CASE UNCHANGED vars
    BY <2>5 DEF vars, Metrics!absVars
  <2>6. QED
    BY <2>1, <2>2, <2>3, <2>4, <2>5 DEF Next
<1>3. LoneSaver
  BY DEF LoneSaver
<1>4. QED
  BY <1>1, <1>2, <1>3, RowsInvHolds, RunInvHolds, PTL DEF Spec, ImplementsRunMetrics, Metrics!Spec

(* In all four servers, rollback or not:                                   *)
(* Outside reset() the run id that a server hands out is the one run that  *)
(* run_info describes, though it changes before the commit and changes     *)
(* back when the commit fails.  With two resets at once the id restored    *)
(* after a failure, read before the lock was taken, may be that of a run   *)
(* the other reset has closed; so the theorem is about one resetter.       *)
THEOREM RunIdStaysCurrent ==
  ASSUME OneResetter
  PROVE  Spec => []RunIdIsCurrent
<1>1. LoneSaver
  BY DEF LoneSaver
<1>2. RunInv => RunIdIsCurrent
  BY DEF RunInv, RunKept
<1>3. QED
  BY <1>1, <1>2, RunInvHolds, PTL

-----------------------------------------------------------------------------
(* The latency figures.  Between its INSERT and its UPDATE of the bucket a *)
(* recording's image may lack exactly the pending row.                     *)

LeavesOutNone(latency, R) ==
  \A b \in Buckets : LatencyRows(R, b) \cap Window[b] \subseteq latency[b]
TakesInNoOther(latency, R) ==
  \A b \in Buckets : latency[b] \subseteq LatencyRows(R, b) \cup WindowRows(R, b)

LatencyAgrees(d) == LeavesOutNone(d.latency, d.requests) /\ TakesInNoOther(d.latency, d.requests)

ImageLatency ==
  \A t \in Threads : writer = t =>
    /\ pc[t] \in {"upsert", "latency"} =>
         /\ req[t] \in tx.requests
         /\ LeavesOutNone(tx.latency, tx.requests \ {req[t]})
         /\ TakesInNoOther(tx.latency, tx.requests)
    /\ pc[t] \notin Abandoned \cup {"upsert", "latency"} => LatencyAgrees(tx)

LatencyInv == SeriesInv /\ LatencyAgrees(db) /\ ImageLatency

(* One more row is in the bounds of what may be taken in. *)
LEMMA MoreRows ==
  ASSUME NEW latency, NEW R, NEW q, TakesInNoOther(latency, R)
  PROVE  TakesInNoOther(latency, R \cup {q})
BY DEF TakesInNoOther, LatencyRows, WindowRows

(* The UPDATE of its bucket takes the pending row in, a row without        *)
(* latency_ms has no figure to be taken into.                              *)
LEMMA UpdateCompletes ==
  ASSUME NEW R \in SUBSET Requests, NEW q \in R, NEW latency \in [Buckets -> SUBSET Requests],
         LeavesOutNone(latency, R \ {q}), TakesInNoOther(latency, R)
  PROVE  /\ LeavesOutNone(Refigured(latency, R, BucketOf[q]), R)
         /\ TakesInNoOther(Refigured(latency, R, BucketOf[q]), R)
         /\ q \notin Timed => LeavesOutNone(latency, R)
<1> DEFINE B == BucketOf[q]
<1>1. \A b : b # B \/ q \notin Timed => LatencyRows(R \ {q}, b) = LatencyRows(R, b)
  BY DEF LatencyRows
<1>2. B \in Buckets
  BY StoreAssumption DEF StoreAssumption
<1>3. \A b \in Buckets : LatencyRows(R, b) \cap Window[b] \subseteq WindowRows(R, b)
  BY DEF LatencyRows, WindowRows
<1>4. CASE WindowRows(R, B) = {}
  BY <1>1, <1>2, <1>3, <1>4 DEF Refigured, LeavesOutNone, TakesInNoOther
<1>5. CASE WindowRows(R, B) # {}
  <2>1. /\ Refigured(latency, R, B)[B] = WindowRows(R, B)
        /\ \A b \in Buckets : b # B => Refigured(latency, R, B)[b] = latency[b]
    BY <1>2, <1>5 DEF Refigured
  <2>2. LeavesOutNone(Refigured(latency, R, B), R)
    <3>1. ASSUME NEW b \in Buckets
          PROVE  LatencyRows(R, b) \cap Window[b] \subseteq Refigured(latency, R, B)[b]
      <4>1. CASE b = B
        BY <1>3, <2>1, <4>1
      <4>2. CASE b # B
        <5>1. LatencyRows(R, b) \cap Window[b] \subseteq latency[b]
          BY <1>1, <4>2 DEF LeavesOutNone
        <5>2. QED
          BY <2>1, <4>2, <5>1
      <4>3. QED
        BY <4>1, <4>2
    <3>2. QED
      BY <3>1 DEF LeavesOutNone
  <2>3. TakesInNoOther(Refigured(latency, R, B), R)
    BY <2>1 DEF TakesInNoOther
  <2>4. q \notin Timed => LeavesOutNone(latency, R)
    BY <1>1 DEF LeavesOutNone
  <2>5. QED
    BY <2>2, <2>3, <2>4
<1>6. QED
  BY <1>4, <1>5

LEMMA LatencyEmpty == LeavesOutNone(NoLatency, {}) /\ TakesInNoOther(NoLatency, {})
BY DEF LeavesOutNone, TakesInNoOther, LatencyRows, NoLatency

(* A rebuild takes in what its buckets count. *)
LEMMA RebuiltAgrees ==
  ASSUME NEW R
  PROVE  LeavesOutNone(AllLatency(R), R) /\ TakesInNoOther(AllLatency(R), R)
BY DEF LeavesOutNone, TakesInNoOther, AllLatency

LEMMA NextLatency ==
  ASSUME RecorderRollsBack, LatencyInv, [Next]_vars
  PROVE  (LatencyAgrees(db) /\ ImageLatency)'
<1> DEFINE Kept == LatencyAgrees(db) /\ ImageLatency
<1> USE DEF ImageLatency, LatencyAgrees, Abandoned, Goto
<1>1. /\ LatencyAgrees(db) /\ ImageLatency
      /\ pc \in [Threads -> Labels] /\ req \in [Threads -> Requests \cup {NoRequest}]
      /\ tx.requests \in SUBSET Requests
      /\ writer \in Threads \cup {NoThread} /\ NoThread \notin Threads
      /\ writer = NoThread => tx = db
  BY StoreAssumption DEF LatencyInv, SeriesInv, TypeInv, TypeOK, Database, StoreAssumption
<1>2. \A t \in Threads : pc[t] \in Writing => writer = t
  BY DEF LatencyInv, SeriesInv, WritersWrite
<1>3. ASSUME NEW t \in Threads, Insert(t)
      PROVE  Kept'
  <2>1. /\ tx'.requests = tx.requests \cup {req[t]} /\ tx'.latency = tx.latency
        /\ writer' = t /\ db' = db /\ req' = req /\ pc' = [pc EXCEPT ![t] = "upsert"]
    BY <1>3 DEF Insert, Write, Tables
  <2>2. req[t] \notin tx.requests /\ req[t] \in Requests
    BY <1>3 DEF Insert, LatencyInv, SeriesInv, PendingIsNew, TypeInv, ReqOK, Recording
  <2>3. LatencyAgrees(tx)
    BY <1>1, <1>3 DEF Insert, Write, CanWrite
  <2>4. tx'.requests \ {req[t]} = tx.requests
    BY <2>1, <2>2
  <2>5. /\ LeavesOutNone(tx'.latency, tx'.requests \ {req'[t]})
        /\ TakesInNoOther(tx'.latency, tx'.requests)
        /\ req'[t] \in tx'.requests
    <3>1. req'[t] = req[t] /\ tx'.requests \ {req[t]} = tx.requests
      BY <2>1, <2>4
    <3>2. LeavesOutNone(tx.latency, tx.requests) /\ TakesInNoOther(tx.latency, tx.requests \cup {req[t]})
      BY <2>3, MoreRows
    <3>3. QED
      BY <2>1, <3>1, <3>2
  <2>6. QED
    BY <1>1, <2>1, <2>5
<1>4. ASSUME NEW t \in Threads, Upsert(t)
      PROVE  Kept'
  BY <1>1, <1>2, <1>4 DEF Upsert, Write, Tables, Writing
<1>5. ASSUME NEW t \in Threads, UpdateLatency(t)
      PROVE  Kept'
  <2>1. writer = t /\ db' = db /\ req' = req /\ pc' = [pc EXCEPT ![t] = "commit"]
    BY <1>2, <1>5 DEF UpdateLatency, Writing
  <2>2. /\ req[t] \in tx.requests /\ TakesInNoOther(tx.latency, tx.requests)
        /\ LeavesOutNone(tx.latency, tx.requests \ {req[t]})
        /\ tx.latency \in [Buckets -> SUBSET Requests]
    BY <1>1, <1>5, <2>1 DEF UpdateLatency, LatencyInv, SeriesInv, TypeInv, TypeOK, Database
  <2>3. LatencyAgrees(tx') /\ writer' = t
    <3>1. CASE req[t] \in Timed
      <4>1. /\ tx'.requests = tx.requests /\ writer' = t
            /\ tx'.latency = Refigured(tx.latency, tx.requests, BucketOf[req[t]])
        BY <1>5, <3>1 DEF UpdateLatency, Write, Tables
      <4>2. QED
        BY <1>1, <2>2, <4>1, UpdateCompletes
    <3>2. CASE req[t] \notin Timed
      <4>1. tx' = tx /\ writer' = writer
        BY <1>5, <3>2 DEF UpdateLatency
      <4>2. QED
        BY <1>1, <2>1, <2>2, <3>2, <4>1, UpdateCompletes
    <3>3. QED
      BY <3>1, <3>2
  <2>4. QED
    BY <1>1, <2>1, <2>3
<1>6. ASSUME NEW t \in Threads, Commit(t) \/ RebuildCommit(t) \/ ResetCommit(t) \/ SaveCommit(t)
      PROVE  Kept'
  <2>1. writer = t /\ writer' = NoThread /\ db' = tx
    BY <1>2, <1>6 DEF Commit, RebuildCommit, ResetCommit, SaveCommit, CommitTx, Writing
  <2>2. LatencyAgrees(tx)
    BY <1>1, <1>6, <2>1 DEF Commit, RebuildCommit, ResetCommit, SaveCommit
  <2>3. QED
    BY <1>1, <2>1, <2>2
<1>7. ASSUME NEW t \in Threads,
             RollbackAndRaise(t) \/ RaiseOnly(t) \/ RebuildRollback(t) \/ ResetRollback(t)
      PROVE  Kept'
  <2>1. /\ RollbackTx(t) /\ db' = db
        /\ \A u \in Threads : u # t => pc'[u] = pc[u] /\ req'[u] = req[u]
    BY <1>1, <1>7 DEF RollbackAndRaise, RaiseOnly, RebuildRollback, ResetRollback, EndRecord
  <2>2. QED
    BY <1>1, <2>1 DEF RollbackTx
<1>8. ASSUME NEW t \in Threads, RebuildDelete(t)
      PROVE  Kept'
  BY <1>1, <1>8 DEF RebuildDelete, Write, CanWrite, Tables
<1>9. ASSUME NEW t \in Threads, RebuildInsert(t)
      PROVE  Kept'
  <2>1. tx'.requests = tx.requests /\ tx'.latency = AllLatency(tx.requests) /\ writer' = t
    BY <1>9 DEF RebuildInsert, Write, Tables
  <2>2. QED
    BY <1>1, <1>9, <2>1, RebuiltAgrees DEF RebuildInsert
<1>10. ASSUME NEW t \in Threads, ResetDelete(t)
       PROVE  Kept'
  <2>1. tx'.requests = {} /\ tx'.latency = NoLatency /\ writer' = t
    BY <1>10 DEF ResetDelete, Write, Tables
  <2>2. QED
    BY <1>1, <1>10, <2>1, LatencyEmpty DEF ResetDelete
<1>11. ASSUME NEW t \in Threads, ResetInfo(t) \/ SaveInsert(t)
       PROVE  Kept'
  <2>1. LatencyAgrees(tx)
    BY <1>1, <1>2, <1>11 DEF ResetInfo, SaveInsert, Write, CanWrite, Writing
  <2>2. tx'.requests = tx.requests /\ tx'.latency = tx.latency /\ writer' = t
    BY <1>11 DEF ResetInfo, SaveInsert, Write, Tables
  <2>3. QED
    BY <1>1, <1>11, <2>1, <2>2 DEF ResetInfo, SaveInsert
<1>12. ASSUME NEW t \in Threads, ResetLock(t) \/ SaveBind(t)
       PROVE  Kept'
  BY <1>1, <1>12 DEF ResetLock, SaveBind
<1>13. ASSUME NEW t \in Threads, NEW q \in Requests, RecordCall(t, q)
       PROVE  Kept'
  BY <1>1, <1>13 DEF RecordCall
<1>14. ASSUME NEW t \in Threads, NEW r \in RunIds, ResetCall(t, r)
       PROVE  Kept'
  BY <1>1, <1>14 DEF ResetCall
<1>15. ASSUME NEW t \in Threads, StatementError(t)
       PROVE  Kept'
  <2>1. pc' = [pc EXCEPT ![t] = Handler(pc[t])] /\ db' = db /\ req' = req
    BY <1>15 DEF StatementError
  <2>2. /\ pc[t] \in {"insert", "upsert", "latency", "commit"} => Handler(pc[t]) = "except"
        /\ pc[t] = "rebuild_insert" => Handler(pc[t]) = "rebuild_except"
        /\ Handler(pc[t]) \in {"except", "rebuild_except", "reset_except", "idle"}
        /\ pc[t] \notin {"except", "rebuild_except"}
    BY <1>15 DEF StatementError, Statements, Handler
  <2>3. CASE UNCHANGED <<tx, writer>>
    BY <1>1, <2>1, <2>2, <2>3
  <2>4. CASE RollbackTx(t)
    BY <1>1, <2>1, <2>2, <2>4 DEF RollbackTx
  <2>5. QED
    BY <1>15, <2>3, <2>4 DEF StatementError
<1>16. ASSUME NEW t \in Threads, BusyTimeout(t)
       PROVE  Kept'
  <2>1. writer # t /\ UNCHANGED <<db, tx, writer, req>> /\ pc' = [pc EXCEPT ![t] = Handler(pc[t])]
    BY <1>16 DEF BusyTimeout, CanWrite
  <2>2. QED
    BY <1>1, <2>1
<1>17. CASE UNCHANGED vars
  BY <1>1, <1>17 DEF vars
<1>18. QED
  BY <1>3, <1>4, <1>5, <1>6, <1>7, <1>8, <1>9, <1>10, <1>11, <1>12, <1>13, <1>14, <1>15, <1>16, <1>17
     DEF Next, Call, Step

LEMMA LatencyInvHolds ==
  ASSUME RecorderRollsBack
  PROVE  Spec => []LatencyInv
<1>1. Init => LatencyInv
  BY InitSeries, LatencyEmpty, StoreAssumption
     DEF Init, LatencyInv, LatencyAgrees, ImageLatency, Tables, StoreAssumption
<1>2. LatencyInv /\ [Next]_vars => LatencyInv'
  BY NextSeries, NextLatency DEF LatencyInv
<1>3. QED
  BY <1>1, <1>2, PTL DEF Spec

(* The average and the p99 of a bucket leave out none of its committed     *)
(* rows that its window finds, the pending one included by the transaction *)
(* that inserts it, and take in none from elsewhere, whatever rows the     *)
(* window finds and whether a recording or a rebuild came last.            *)
THEOREM LatencyConsistent ==
  ASSUME RecorderRollsBack
  PROVE  Spec => []LatencyCoversBucket
<1>1. LatencyInv => LatencyCoversBucket
  BY DEF LatencyInv, LatencyAgrees, LeavesOutNone, TakesInNoOther, LatencyCoversBucket
<1>2. QED
  BY LatencyInvHolds, <1>1, PTL

(* With a bucket_sec that divides the day, where the window of a bucket    *)
(* finds exactly the rows that it counts, its figures are theirs.          *)
THEOREM LatencyIsTheBuckets ==
  ASSUME RecorderRollsBack,
         \A b \in Buckets : Window[b] = {q \in Requests : BucketOf[q] = b}
  PROVE  Spec => []LatencyMatchesRequests
<1>1. LatencyInv => LatencyMatchesRequests
  <2> SUFFICES ASSUME LatencyInv
               PROVE  LatencyMatchesRequests
    OBVIOUS
  <2>1. db.requests \in SUBSET Requests /\ db.latency \in [Buckets -> SUBSET Requests]
    BY DEF LatencyInv, SeriesInv, TypeInv, TypeOK, Database
  <2>2. \A b \in Buckets :
          /\ WindowRows(db.requests, b) = LatencyRows(db.requests, b)
          /\ LatencyRows(db.requests, b) \cap Window[b] = LatencyRows(db.requests, b)
    BY <2>1 DEF WindowRows, LatencyRows
  <2>3. \A b \in Buckets : db.latency[b] = LatencyRows(db.requests, b)
    BY <2>2 DEF LatencyInv, LatencyAgrees, LeavesOutNone, TakesInNoOther
  <2>4. QED
    BY <2>1, <2>3 DEF LatencyMatchesRequests, AllLatency
<1>2. QED
  BY LatencyInvHolds, <1>1, PTL

-----------------------------------------------------------------------------
(* What is left without a rollback.  A recording of ChaosWeb that fails    *)
(* between INSERT and UPSERT leaves its row in the open transaction of an  *)
(* idle thread, and a later commit makes it durable uncounted; but what is *)
(* counted always has a row.                                               *)

Covers(R, series) ==
  \A b \in Buckets, c \in Columns : series[b][c] <= Aggregate(R)[b][c]

ImageCovered ==
  \A t \in Threads : writer = t =>
    /\ pc[t] = "upsert" =>
         req[t] \in tx.requests /\ Covers(tx.requests \ {req[t]}, tx.timeseries)
    /\ pc[t] # "upsert" => Covers(tx.requests, tx.timeseries)

CoverInv ==
  TypeInv /\ WritersWrite /\ PendingIsNew /\ Covers(db.requests, db.timeseries) /\ ImageCovered

LEMMA CoversItself ==
  ASSUME NEW R \in SUBSET Requests
  PROVE  Covers(R, Aggregate(R)) /\ Covers(R, NoCounts)
<1>1. \A b \in Buckets, c \in Columns : Aggregate(R)[b][c] \in Nat
  BY AggregateType
<1>2. QED
  BY <1>1 DEF Covers, NoCounts

(* Counting one request, and a row more, keep the series behind. *)
LEMMA BumpCovered ==
  ASSUME NEW R \in SUBSET Requests, NEW q \in R,
         NEW series \in [Buckets -> [Columns -> Nat]], Covers(R \ {q}, series)
  PROVE  Covers(R, Bump(series, q)) /\ Covers(R, series)
<1>1. Aggregate(R \ {q}) \in [Buckets -> [Columns -> Nat]]
  BY AggregateType
<1>2. Bump(Aggregate(R \ {q}), q) = Aggregate(R)
  BY BumpAggregate
<1>3. ASSUME NEW b \in Buckets, NEW c \in Columns
      PROVE  /\ Bump(series, q)[b][c] <= Bump(Aggregate(R \ {q}), q)[b][c]
             /\ series[b][c] <= Bump(Aggregate(R \ {q}), q)[b][c]
  <2>1. series[b][c] <= Aggregate(R \ {q})[b][c] /\ series[b][c] \in Nat
        /\ Aggregate(R \ {q})[b][c] \in Nat
    BY <1>1 DEF Covers
  <2>2. \A s \in [Buckets -> [Columns -> Nat]] :
          Bump(s, q)[b][c] = IF b = BucketOf[q] /\ c \in Ticks[q] THEN s[b][c] + 1 ELSE s[b][c]
    BY DEF Bump
  <2>3. /\ Bump(series, q)[b][c] =
             IF b = BucketOf[q] /\ c \in Ticks[q] THEN series[b][c] + 1 ELSE series[b][c]
        /\ Bump(Aggregate(R \ {q}), q)[b][c] =
             IF b = BucketOf[q] /\ c \in Ticks[q]
             THEN Aggregate(R \ {q})[b][c] + 1 ELSE Aggregate(R \ {q})[b][c]
    BY <1>1, <2>2
  <2>4. QED
    BY <2>1, <2>3
<1>4. QED
  BY <1>2, <1>3 DEF Covers

LEMMA NextNew ==
  ASSUME TypeInv, WritersWrite, PendingIsNew, [Next]_vars
  PROVE  PendingIsNew'
<1> USE StoreAssumption
    DEF TypeInv, TypeOK, ReqOK, Recording, WritersWrite, Writing, PendingIsNew, Goto, StoreAssumption
<1>1. ASSUME NEW t \in Threads, NEW q \in Requests, RecordCall(t, q)
      PROVE  PendingIsNew'
  BY <1>1 DEF RecordCall, Fresh
<1>2. ASSUME NEW t \in Threads, NEW r \in RunIds, ResetCall(t, r)
      PROVE  PendingIsNew'
  BY <1>2 DEF ResetCall
<1>3. ASSUME NEW t \in Threads, Insert(t)
      PROVE  PendingIsNew'
  BY <1>3 DEF Insert, Write, Tables
<1>4. ASSUME NEW t \in Threads,
             \/ Upsert(t) \/ RebuildDelete(t) \/ RebuildInsert(t)
             \/ ResetDelete(t) \/ ResetInfo(t) \/ SaveInsert(t)
      PROVE  PendingIsNew'
  BY <1>4 DEF Upsert, RebuildDelete, RebuildInsert, ResetDelete, ResetInfo, SaveInsert, Write, Tables
<1>5. ASSUME NEW t \in Threads, UpdateLatency(t)
      PROVE  PendingIsNew'
  BY <1>5 DEF UpdateLatency, Write, Tables
<1>6. ASSUME NEW t \in Threads, Commit(t) \/ RebuildCommit(t) \/ ResetCommit(t) \/ SaveCommit(t)
      PROVE  PendingIsNew'
  BY <1>6 DEF Commit, RebuildCommit, ResetCommit, SaveCommit, CommitTx, EndRecord
<1>7. ASSUME NEW t \in Threads,
             RollbackAndRaise(t) \/ RaiseOnly(t) \/ RebuildRollback(t) \/ ResetRollback(t)
      PROVE  PendingIsNew'
  BY <1>7 DEF RollbackAndRaise, RaiseOnly, RebuildRollback, ResetRollback, RollbackTx, EndRecord
<1>8. ASSUME NEW t \in Threads, ResetLock(t) \/ SaveBind(t)
      PROVE  PendingIsNew'
  BY <1>8 DEF ResetLock, SaveBind
<1>9. ASSUME NEW t \in Threads, StatementError(t) \/ BusyTimeout(t)
      PROVE  PendingIsNew'
  BY <1>9 DEF StatementError, BusyTimeout, Statements, Handler, RollbackTx
<1>10. CASE UNCHANGED vars
  BY <1>10 DEF vars
<1>11. QED
  BY <1>1, <1>2, <1>3, <1>4, <1>5, <1>6, <1>7, <1>8, <1>9, <1>10 DEF Next, Call, Step

LEMMA NextCovered ==
  ASSUME CoverInv, [Next]_vars
  PROVE  (Covers(db.requests, db.timeseries) /\ ImageCovered)'
<1> DEFINE Kept == Covers(db.requests, db.timeseries) /\ ImageCovered
<1> USE DEF ImageCovered, Goto
<1>1. /\ Covers(db.requests, db.timeseries) /\ ImageCovered
      /\ pc \in [Threads -> Labels] /\ req \in [Threads -> Requests \cup {NoRequest}]
      /\ tx.requests \in SUBSET Requests
      /\ tx.timeseries \in [Buckets -> [Columns -> Nat]]
      /\ writer \in Threads \cup {NoThread} /\ NoThread \notin Threads
      /\ writer = NoThread => tx = db
  BY StoreAssumption DEF CoverInv, TypeInv, TypeOK, Database, StoreAssumption
<1>2. \A t \in Threads : pc[t] \in Writing => writer = t
  BY DEF CoverInv, WritersWrite
<1>3. ASSUME NEW t \in Threads, CanWrite(t), pc[t] # "upsert"
      PROVE  Covers(tx.requests, tx.timeseries)
  BY <1>1, <1>3 DEF CanWrite
<1>4. ASSUME NEW t \in Threads, Insert(t)
      PROVE  Kept'
  <2>1. /\ tx'.requests = tx.requests \cup {req[t]} /\ tx'.timeseries = tx.timeseries
        /\ writer' = t /\ db' = db /\ req' = req /\ pc' = [pc EXCEPT ![t] = "upsert"]
    BY <1>4 DEF Insert, Write, Tables
  <2>2. req[t] \notin tx.requests /\ req[t] \in Requests
    BY <1>4 DEF Insert, CoverInv, PendingIsNew, TypeInv, ReqOK, Recording
  <2>3. Covers(tx.requests, tx.timeseries)
    BY <1>3, <1>4 DEF Insert, Write
  <2>4. tx'.requests \ {req[t]} = tx.requests
    BY <2>1, <2>2
  <2>5. QED
    BY <1>1, <2>1, <2>3, <2>4
<1>5. ASSUME NEW t \in Threads, Upsert(t)
      PROVE  Kept'
  <2>1. /\ tx'.requests = tx.requests /\ tx'.timeseries = Bump(tx.timeseries, req[t])
        /\ writer' = t /\ db' = db /\ req' = req /\ pc' = [pc EXCEPT ![t] = "latency"]
    BY <1>5 DEF Upsert, Write, Tables
  <2>2. req[t] \in tx.requests /\ Covers(tx.requests \ {req[t]}, tx.timeseries)
    BY <1>1, <1>2, <1>5 DEF Upsert, Writing
  <2>3. Covers(tx'.requests, tx'.timeseries)
    BY <1>1, <2>1, <2>2, BumpCovered
  <2>4. QED
    BY <1>1, <2>1, <2>3
<1>6. ASSUME NEW t \in Threads,
             UpdateLatency(t) \/ ResetInfo(t) \/ SaveInsert(t)
      PROVE  Kept'
  <2>1. CASE UNCHANGED <<tx, writer>>
    BY <1>1, <1>6, <2>1 DEF UpdateLatency, ResetInfo, SaveInsert
  <2>2. CASE CanWrite(t) /\ writer' = t /\ tx'.requests = tx.requests /\ tx'.timeseries = tx.timeseries
    BY <1>1, <1>3, <1>6, <2>2 DEF UpdateLatency, ResetInfo, SaveInsert
  <2>3. QED
    BY <1>6, <2>1, <2>2 DEF UpdateLatency, ResetInfo, SaveInsert, Write, Tables
<1>7. ASSUME NEW t \in Threads, RebuildDelete(t) \/ RebuildInsert(t) \/ ResetDelete(t)
      PROVE  Kept'
  <2>1. /\ tx'.requests \in SUBSET Requests /\ writer' = t
        /\ tx'.timeseries = NoCounts \/ tx'.timeseries = Aggregate(tx'.requests)
    BY <1>1, <1>7 DEF RebuildDelete, RebuildInsert, ResetDelete, Write, Tables
  <2>2. Covers(tx'.requests, tx'.timeseries)
    BY <2>1, CoversItself
  <2>3. /\ db' = db
        /\ pc'[t] # "upsert" /\ \A u \in Threads : u # t => pc'[u] = pc[u]
    BY <1>1, <1>7 DEF RebuildDelete, RebuildInsert, ResetDelete
  <2>4. QED
    BY <1>1, <2>1, <2>2, <2>3
<1>8. ASSUME NEW t \in Threads, Commit(t) \/ RebuildCommit(t) \/ ResetCommit(t) \/ SaveCommit(t)
      PROVE  Kept'
  <2>1. writer = t /\ writer' = NoThread /\ db' = tx
    BY <1>2, <1>8 DEF Commit, RebuildCommit, ResetCommit, SaveCommit, CommitTx, Writing
  <2>2. Covers(tx.requests, tx.timeseries)
    BY <1>1, <1>8, <2>1 DEF Commit, RebuildCommit, ResetCommit, SaveCommit
  <2>3. QED
    BY <1>1, <2>1, <2>2
<1>9. ASSUME NEW t \in Threads, RollbackAndRaise(t) \/ RebuildRollback(t) \/ ResetRollback(t)
      PROVE  Kept'
  <2>1. /\ RollbackTx(t) /\ db' = db
        /\ \A u \in Threads : u # t => pc'[u] = pc[u] /\ req'[u] = req[u]
    BY <1>1, <1>9 DEF RollbackAndRaise, RebuildRollback, ResetRollback, EndRecord
  <2>2. QED
    BY <1>1, <2>1 DEF RollbackTx
<1>10. ASSUME NEW t \in Threads, RaiseOnly(t)
      PROVE  Kept'
  BY <1>1, <1>10 DEF RaiseOnly, EndRecord
<1>11. ASSUME NEW t \in Threads, ResetLock(t) \/ SaveBind(t)
       PROVE  Kept'
  BY <1>1, <1>11 DEF ResetLock, SaveBind
<1>12. ASSUME NEW t \in Threads, NEW q \in Requests, RecordCall(t, q)
       PROVE  Kept'
  BY <1>1, <1>12 DEF RecordCall
<1>13. ASSUME NEW t \in Threads, NEW r \in RunIds, ResetCall(t, r)
       PROVE  Kept'
  BY <1>1, <1>13 DEF ResetCall
<1>14. ASSUME NEW t \in Threads, StatementError(t) \/ BusyTimeout(t)
       PROVE  Kept'
  <2>1. /\ pc' = [pc EXCEPT ![t] = Handler(pc[t])] /\ db' = db /\ req' = req
        /\ Handler(pc[t]) # "upsert"
    BY <1>14 DEF StatementError, BusyTimeout, Statements, Handler
  <2>2. CASE UNCHANGED <<tx, writer>>
    <3>1. CASE writer = t /\ pc[t] = "upsert"
      <4>1. Covers(tx.requests, tx.timeseries)
        BY <1>1, <3>1, BumpCovered
      <4>2. QED
        BY <1>1, <2>1, <2>2, <3>1, <4>1
    <3>2. CASE ~(writer = t /\ pc[t] = "upsert")
      BY <1>1, <2>1, <2>2, <3>2
    <3>3. QED
      BY <3>1, <3>2
  <2>3. CASE RollbackTx(t)
    BY <1>1, <2>1, <2>3 DEF RollbackTx
  <2>4. QED
    BY <1>14, <2>2, <2>3 DEF StatementError, BusyTimeout
<1>15. CASE UNCHANGED vars
  BY <1>1, <1>15 DEF vars
<1>16. QED
  BY <1>4, <1>5, <1>6, <1>7, <1>8, <1>9, <1>10, <1>11, <1>12, <1>13, <1>14, <1>15
     DEF Next, Call, Step

(* In all four servers, with and without a rollback after a failure: the   *)
(* time series never counts a request that table requests does not hold.   *)
THEOREM SeriesStaysBehind == Spec => []SeriesNeverAhead
<1>1. Init => CoverInv
  <2>1. Covers({}, NoCounts)
    BY CoversItself
  <2>2. QED
    BY <2>1, InitType, StoreAssumption
       DEF Init, CoverInv, WritersWrite, Writing, PendingIsNew, ImageCovered, Tables, StoreAssumption
<1>2. CoverInv /\ [Next]_vars => CoverInv'
  BY NextType, NextWriters, NextNew, NextCovered DEF CoverInv
<1>3. CoverInv => SeriesNeverAhead
  BY DEF CoverInv, Covers, SeriesNeverAhead
<1>4. QED
  BY <1>1, <1>2, <1>3, PTL DEF Spec

-----------------------------------------------------------------------------
(* The reader beside the writers.  The committed rows only become more,    *)
(* since every image holds them all, until a reset commits.                *)

Emptied == {"reset_info", "reset_commit", "reset_except"}

RowsStay == \A t \in Threads : writer = t /\ pc[t] \notin Emptied => db.requests \subseteq tx.requests

ResetCommits == \E t \in Threads : ResetCommit(t)

LEMMA NextRows ==
  ASSUME TypeInv, WritersWrite, RowsStay, [Next]_vars
  PROVE  RowsStay' /\ (db.requests \subseteq db'.requests \/ ResetCommits)
<1> DEFINE Stay == RowsStay' /\ db.requests \subseteq db'.requests
<1> USE StoreAssumption
    DEF TypeInv, TypeOK, WritersWrite, Writing, RowsStay, Emptied, Goto, Write, CanWrite, CommitTx,
        RollbackTx, Tables, StoreAssumption
<1>1. ASSUME NEW t \in Threads, \/ \E q \in Requests : RecordCall(t, q)
                                \/ \E r \in RunIds : ResetCall(t, r)
      PROVE  Stay
  BY <1>1 DEF RecordCall, ResetCall
<1>2. ASSUME NEW t \in Threads, Insert(t) \/ Upsert(t) \/ RebuildDelete(t) \/ RebuildInsert(t)
      PROVE  Stay
  BY <1>2 DEF Insert, Upsert, RebuildDelete, RebuildInsert
<1>3. ASSUME NEW t \in Threads, UpdateLatency(t)
      PROVE  Stay
  BY <1>3 DEF UpdateLatency
<1>4. ASSUME NEW t \in Threads, Commit(t) \/ RollbackAndRaise(t) \/ RaiseOnly(t)
      PROVE  Stay
  BY <1>4 DEF Commit, RollbackAndRaise, RaiseOnly, EndRecord
<1>5. ASSUME NEW t \in Threads, RebuildCommit(t) \/ RebuildRollback(t)
      PROVE  Stay
  BY <1>5 DEF RebuildCommit, RebuildRollback
<1>6. ASSUME NEW t \in Threads, StatementError(t) \/ BusyTimeout(t)
      PROVE  Stay
  BY <1>6 DEF StatementError, BusyTimeout, Statements, Handler
<1>7. ASSUME NEW t \in Threads, ResetLock(t) \/ ResetDelete(t) \/ ResetInfo(t) \/ ResetRollback(t)
      PROVE  Stay
  BY <1>7 DEF ResetLock, ResetDelete, ResetInfo, ResetRollback
<1>8. ASSUME NEW t \in Threads, SaveBind(t) \/ SaveInsert(t) \/ SaveCommit(t)
      PROVE  Stay
  BY <1>8 DEF SaveBind, SaveInsert, SaveCommit
<1>9. ASSUME NEW t \in Threads, ResetCommit(t)
      PROVE  RowsStay' /\ ResetCommits
  BY <1>9 DEF ResetCommit, ResetCommits
<1>10. CASE UNCHANGED vars
  BY <1>10 DEF vars
<1>11. QED
  BY <1>1, <1>2, <1>3, <1>4, <1>5, <1>6, <1>7, <1>8, <1>9, <1>10 DEF Next, Call, Step

(* What the reader has seen is still there, unless a reset came after it.  *)
SeenStays ==
  /\ ~wiped => /\ stats.total \subseteq db.requests
               /\ stats.outcomes \subseteq db.requests
               /\ stats.timed \subseteq db.requests \cap Timed
  /\ rpc \in {"p50", "p95", "p99"} => stats.timed # {}

StatsInv ==
  /\ TypeInv /\ WritersWrite /\ RowsStay
  /\ ReaderTypeOK /\ SeenStays /\ SectionsOnlyGrow /\ PercentileRowExists

(* The offset of a percentile is within the rows it was counted from. *)
LEMMA RankBelowCount ==
  ASSUME NEW count \in Nat \ {0}
  PROVE  Rank(count, 50) < count /\ Rank(count, 95) < count /\ Rank(count, 99) < count
BY DEF Rank

LEMMA TimedCounted ==
  ASSUME NEW R \in SUBSET Requests, NEW S \in SUBSET R
  PROVE  /\ Cardinality(S) \in Nat /\ Cardinality(R) \in Nat
         /\ Cardinality(S) <= Cardinality(R)
         /\ S # {} => Cardinality(S) # 0
<1>1. IsFiniteSet(R)
  BY FS_Subset, StoreAssumption DEF StoreAssumption
<1>2. QED
  BY <1>1, FS_Subset, FS_CardinalityType, FS_EmptySet

LEMMA PercentileFound ==
  ASSUME StatsInv, NEW label, NEW next, NEW pct \in {50, 95, 99}, Percentile(label, pct, next),
         label \in {"p50", "p95", "p99"}
  PROVE  /\ rpc' \in {next, "idle"} /\ UNCHANGED <<export, wiped>>
         /\ \E gone \in BOOLEAN :
              stats' = [stats EXCEPT !.missing = gone] /\ (gone => wiped) /\ (gone => rpc' = "idle")
<1> DEFINE count == Cardinality(stats.timed)
           rows == Cardinality(db.requests \cap Timed)
           gone == Rank(count, pct) >= rows
<1>1. ASSUME ~wiped PROVE ~gone
  <2>1. stats.timed \subseteq db.requests \cap Timed /\ stats.timed # {}
    BY <1>1 DEF StatsInv, SeenStays, Percentile
  <2>2. count \in Nat \ {0} /\ rows \in Nat /\ count <= rows
    <3>1. db.requests \cap Timed \in SUBSET Requests
      BY DEF StatsInv, TypeInv, TypeOK, Database
    <3>2. QED
      BY <2>1, <3>1, TimedCounted
  <2>3. Rank(count, pct) < count /\ Rank(count, pct) \in Int
    BY <2>2, RankBelowCount DEF Rank
  <2>4. QED
    BY <2>2, <2>3
<1>2. /\ stats' = [stats EXCEPT !.missing = gone] /\ rpc' = (IF gone THEN "idle" ELSE next)
      /\ UNCHANGED <<export, wiped>>
  BY DEF Percentile
<1>3. gone \in BOOLEAN
  OBVIOUS
<1> HIDE DEF gone
<1>4. wiped \in BOOLEAN
  BY DEF StatsInv, ReaderTypeOK
<1>5. QED
  BY <1>1, <1>2, <1>3, <1>4

LEMMA ReadStep ==
  ASSUME StatsInv, Read, UNCHANGED vars
  PROVE  StatsInv'
<1> DEFINE Seen == ReaderTypeOK /\ SeenStays /\ SectionsOnlyGrow /\ PercentileRowExists
<1>1. (TypeInv /\ WritersWrite /\ RowsStay)'
  BY DEF StatsInv, vars, TypeInv, TypeOK, ReqOK, WritersWrite, RowsStay
<1>2. db' = db /\ db.requests \in SUBSET Requests /\ db.timeseries \in [Buckets -> [Columns -> Nat]]
  BY DEF vars, StatsInv, TypeInv, TypeOK, Database
<1>3. Seen
  BY DEF StatsInv
<1> USE DEF ReaderTypeOK, SeenStays, SectionsOnlyGrow, PercentileRowExists
<1>4. ASSUME StatsTotal \/ StatsOutcomes PROVE Seen'
  BY <1>2, <1>3, <1>4, EmptyTables DEF StatsTotal, StatsOutcomes, Begin, NoStats, NoExport
<1>5. ASSUME StatsLatency PROVE Seen'
  BY <1>2, <1>3, <1>5 DEF StatsLatency
<1>6. ASSUME StatsPercentiles PROVE Seen'
  <2>1. PICK next \in {"p95", "p99", "done"}, gone \in BOOLEAN :
          /\ stats' = [stats EXCEPT !.missing = gone] /\ rpc' \in {next, "idle"}
          /\ (gone => wiped) /\ UNCHANGED <<export, wiped>>
          /\ rpc \in {"p50", "p95", "p99"}
    BY <1>6, PercentileFound DEF StatsPercentiles, Percentile
  <2>2. QED
    BY <1>2, <1>3, <2>1
<1>7. ASSUME StatsDone PROVE Seen'
  BY <1>2, <1>3, <1>7 DEF StatsDone
<1>8. ASSUME ExportRequests PROVE Seen'
  BY <1>2, <1>3, <1>8, EmptyTables DEF ExportRequests, Begin, NoStats, NoExport
<1>9. ASSUME ExportTimeseries PROVE Seen'
  BY <1>2, <1>3, <1>9 DEF ExportTimeseries
<1>10. Seen'
  BY <1>4, <1>5, <1>6, <1>7, <1>8, <1>9 DEF Read
<1>11. QED
  BY <1>1, <1>10 DEF StatsInv

(* A step of a writer: it loses no row, or it is a reset and is noted.     *)
Beside == [Next]_vars /\ wiped' = (wiped \/ ResetCommits) /\ UNCHANGED <<rpc, stats, export>>

LEMMA WriteBeside ==
  ASSUME StatsInv, Beside
  PROVE  StatsInv'
<1>1. (TypeInv /\ WritersWrite)'
  BY NextType, NextWriters DEF StatsInv, Beside
<1>2. RowsStay' /\ (db.requests \subseteq db'.requests \/ ResetCommits)
  BY NextRows DEF StatsInv, Beside
<1>3. wiped' \in BOOLEAN /\ (wiped => wiped') /\ (ResetCommits => wiped')
  BY DEF StatsInv, ReaderTypeOK, Beside
<1>4. QED
  BY <1>1, <1>2, <1>3
     DEF Beside, StatsInv, ReaderTypeOK, SeenStays, SectionsOnlyGrow, PercentileRowExists

(* A step is one of the reader's, one of a writer's or none. *)
LEMMA ReaderStep ==
  ASSUME StatsInv, [NextWithReader]_<<vars, readerVars>>
  PROVE  \/ Read /\ UNCHANGED vars
         \/ Beside
         \/ UNCHANGED <<vars, readerVars>>
BY DEF NextWithReader, Beside, ResetCommits

LEMMA StatsStep ==
  ASSUME StatsInv, [NextWithReader]_<<vars, readerVars>>
  PROVE  StatsInv'
<1>1. CASE UNCHANGED <<vars, readerVars>>
  BY <1>1 DEF vars, readerVars, StatsInv, TypeInv, TypeOK, ReqOK, WritersWrite, RowsStay, ReaderTypeOK,
              SeenStays, SectionsOnlyGrow, PercentileRowExists
<1>2. QED
  BY <1>1, ReaderStep, ReadStep, WriteBeside

LEMMA StatsInvHolds == ReaderSpec => []StatsInv
<1>1. Init /\ InitReader => StatsInv
  <2> SUFFICES ASSUME Init, InitReader
               PROVE  StatsInv
    OBVIOUS
  <2>1. TypeInv /\ WritersWrite /\ RowsStay
    BY InitType, StoreAssumption DEF Init, WritersWrite, Writing, RowsStay, StoreAssumption
  <2>2. QED
    BY <2>1, EmptyTables
       DEF Init, InitReader, StatsInv, NoStats, NoExport, Tables, ReaderTypeOK, SeenStays,
           SectionsOnlyGrow, PercentileRowExists
<1>2. StatsInv /\ [NextWithReader]_<<vars, readerVars>> => StatsInv'
  BY StatsStep
<1>3. QED
  BY <1>1, <1>2, PTL DEF ReaderSpec

(* No row of an earlier section of a summary is missing from a later one,  *)
(* however many commits come between the SELECTs of get_stats, if none of  *)
(* them is a reset's.                                                      *)
THEOREM SectionsGrow == ReaderSpec => []SectionsOnlyGrow
<1>1. StatsInv => SectionsOnlyGrow
  BY DEF StatsInv
<1>2. QED
  BY StatsInvHolds, <1>1, PTL

(* get_stats fails on a percentile's row only after a reset: no recording, *)
(* failure or rebuild of another thread takes away a row that was counted. *)
THEOREM PercentilesFound == ReaderSpec => []PercentileRowExists
<1>1. StatsInv => PercentileRowExists
  BY DEF StatsInv
<1>2. QED
  BY StatsInvHolds, <1>1, PTL

(* An export is covered by its time series, read later, once both are read.*)
ExportInv ==
  /\ StatsInv /\ SeriesInv
  /\ ~wiped => export.requests \subseteq db.requests
  /\ rpc # "export_timeseries" /\ ~wiped =>
       \A b \in Buckets, c \in Columns :
         export.timeseries[b][c] >= Aggregate(export.requests)[b][c]

LEMMA AggregateGrows ==
  ASSUME NEW R \in SUBSET Requests, NEW S \in SUBSET R, NEW b \in Buckets, NEW c \in Columns
  PROVE  Aggregate(R)[b][c] >= Aggregate(S)[b][c]
<1>1. Ticking(R, b, c) \in SUBSET Requests /\ Ticking(S, b, c) \in SUBSET Ticking(R, b, c)
  BY DEF Ticking
<1>2. /\ Cardinality(Ticking(S, b, c)) \in Nat /\ Cardinality(Ticking(R, b, c)) \in Nat
      /\ Cardinality(Ticking(S, b, c)) <= Cardinality(Ticking(R, b, c))
  BY <1>1, TimedCounted
<1>3. QED
  BY <1>2 DEF Aggregate

LEMMA NextExport ==
  ASSUME RecorderRollsBack, ExportInv, [NextWithReader]_<<vars, readerVars>>
  PROVE  ExportInv'
<1>1. StatsInv' /\ [Next]_vars
  BY StatsStep DEF NextWithReader, ExportInv
<1>2. SeriesInv'
  BY <1>1, NextSeries DEF ExportInv
<1>3. /\ ~wiped => export.requests \subseteq db.requests
      /\ db.requests \in SUBSET Requests
      /\ db.timeseries = Aggregate(db.requests)
      /\ export \in [requests : SUBSET Requests, timeseries : [Buckets -> [Columns -> Nat]]]
      /\ wiped \in BOOLEAN
  BY DEF ExportInv, SeriesInv, Consistent, TypeInv, TypeOK, Database, StatsInv, ReaderTypeOK
<1>4. CASE Beside
  <2>1. db.requests \subseteq db'.requests \/ ResetCommits
    BY <1>1, NextRows DEF ExportInv, StatsInv
  <2>2. UNCHANGED <<rpc, export>> /\ (wiped => wiped') /\ (ResetCommits => wiped')
    BY <1>3, <1>4 DEF Beside
  <2>3. QED
    BY <1>1, <1>2, <1>3, <2>1, <2>2 DEF ExportInv
<1>5. CASE UNCHANGED vars /\ ExportRequests
  BY <1>1, <1>2, <1>3, <1>5 DEF ExportInv, ExportRequests, Begin, NoExport, vars
<1>6. CASE UNCHANGED vars /\ StatsTotal
  <2>1. export' = NoExport /\ wiped' = FALSE
    BY <1>6 DEF StatsTotal, Begin, NoExport
  <2>2. \A b \in Buckets, c \in Columns : NoCounts[b][c] >= Aggregate({})[b][c]
    BY AggregateEmpty DEF NoCounts
  <2>3. QED
    BY <1>1, <1>2, <2>1, <2>2 DEF ExportInv, NoExport
<1>7. CASE UNCHANGED vars /\ ExportTimeseries
  <2>1. export'.requests = export.requests /\ export'.timeseries = Aggregate(db.requests) /\ UNCHANGED wiped
    BY <1>3, <1>7 DEF ExportTimeseries
  <2>2. QED
    BY <1>1, <1>2, <1>3, <1>7, <2>1, AggregateGrows DEF ExportInv, vars
<1>8. CASE UNCHANGED vars /\ (StatsOutcomes \/ StatsLatency \/ StatsPercentiles \/ StatsDone)
  <2>1. rpc # "export_timeseries" /\ UNCHANGED <<export, wiped>>
    BY <1>8 DEF StatsOutcomes, StatsLatency, StatsPercentiles, StatsDone, Percentile
  <2>2. QED
    BY <1>1, <1>2, <1>3, <1>8, <2>1 DEF ExportInv, vars
<1>9. CASE UNCHANGED <<vars, readerVars>>
  BY <1>1, <1>2, <1>3, <1>9 DEF ExportInv, vars, readerVars
<1>10. QED
  BY <1>4, <1>5, <1>6, <1>7, <1>8, <1>9, ReaderStep DEF Read, ExportInv

(* The time series of an export accounts for every row that it contains,   *)
(* whatever is committed between its two reads, unless that is a reset.    *)
THEOREM ExportIsCovered ==
  ASSUME RecorderRollsBack
  PROVE  ReaderSpec => []ExportSeriesCoversRequests
<1>1. Init /\ InitReader => SeriesInv /\ export = NoExport
  BY InitSeries DEF InitReader
<1>2. SeriesInv /\ export = NoExport /\ StatsInv => ExportInv
  <2>1. \A b \in Buckets, c \in Columns : NoCounts[b][c] >= Aggregate({})[b][c]
    BY AggregateEmpty DEF NoCounts
  <2>2. QED
    BY <2>1 DEF ExportInv, NoExport
<1>3. ExportInv /\ [NextWithReader]_<<vars, readerVars>> => ExportInv'
  BY NextExport
<1>4. ExportInv => ExportSeriesCoversRequests
  BY DEF ExportInv, ExportSeriesCoversRequests
<1>5. QED
  BY StatsInvHolds, <1>1, <1>2, <1>3, <1>4, PTL DEF ReaderSpec

=============================================================================
