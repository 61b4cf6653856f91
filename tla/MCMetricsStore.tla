--------------------------- MODULE MCMetricsStore ---------------------------
(* A small store: a few threads, requests in two buckets (two of them      *)
(* share a bucket but not a counter), and one request without a latency.   *)
(* Bucket b1 is the last of a day and cut short by midnight: the requests  *)
(* of b2, the first of the next day, are stamped within its window too.    *)
EXTENDS MetricsStore

CONSTANTS q1, q2, b1, b2, success, error

MCBucketOf == [q \in Requests |-> IF q \in {q1, q2} THEN b1 ELSE b2]
MCWindow == [b \in Buckets |-> IF b = b1 THEN Requests ELSE Requests \ {q1, q2}]
MCTicks == [q \in Requests |-> {RequestsTotal, IF q = q2 THEN error ELSE success}]
MCTimed == Requests \ {q2}
=============================================================================
