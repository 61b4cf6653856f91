CONSTANTS
  q1 = q1
  q2 = q2
  b1 = b1
  b2 = b2
  success = success
  error = error
  NoThread = NoThread
  NoRequest = NoRequest
  RequestsTotal = requests_total
  Threads = {t1, t2}
  Resetters = {t1}
  Requests = {q1, q2, q3}
  Buckets = {b1, b2}
  Columns = {requests_total, success, error}
  BucketOf <- MCBucketOf
  Window <- MCWindow
  Ticks <- MCTicks
  Timed <- MCTimed
  RunIds = {r1, r2}
  FirstRun = r1
  RecorderRollsBack = FALSE
  SavesAfterReset = TRUE
SPECIFICATION FairSpec
INVARIANTS SeriesNeverAhead
PROPERTY CallsReturn
