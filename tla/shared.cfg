\* A reader beside two writers, one of which resets; three threads that come
\* and go over two idents; the event loop beside two threads that update; a
\* client that reads and one that writes, over two keys.
SPECIFICATION SharedSpec
SYMMETRY StoreSymmetry
CONSTANTS
  q1 = q1
  b1 = b1
  success = success
  error = error
  NoThread = NoThread
  NoRequest = NoRequest
  RequestsTotal = requests_total
  Threads = {t1, t2}
  Resetters = {t1}
  Requests = {q1, q2}
  Buckets = {b1, b2}
  Columns = {requests_total, success, error}
  BucketOf <- MCBucketOf
  Window <- MCWindow
  Ticks <- MCTicks
  Timed = {q1, q2}
  RunIds = {r1, r2}
  FirstRun = r1
  RecorderRollsBack = TRUE
  SavesAfterReset = FALSE
  Owners = {o1, o2, o3}
  Idents = {i1, i2}
  NoIdent = NoIdent
  Conns = {c1, c2, c3}
  NoConn = NoConn
  f = f
  g = g
  Callers = {loop, d1, d2}
  NoCaller = NoCaller
  Loop = loop
  NumSections = 2
  Fields = {f, g}
  Values = {0, 1}
  Updates <- MCUpdates
  InitialConfig <- MCInitial
  LockUses = {TRUE, FALSE}
  reader = reader
  Clients = {reader, writer}
  Operations <- MCOperations
  NumKeys = 2
  Bodies = {1, 4}
  NoBody = 0
  Stores = {s1, s2, s3}
  NoStore = NoStore
  Limits = {1, 4}
  FirstLimit = 4
  PageSizes = {1, 2}
  Faults = {"error", "corruption", "stale_list", "malformed_xml"}
INVARIANTS
  LatencyMatchesRequests SectionsOnlyGrow PercentileRowExists ExportSeriesCoversRequests
  KnownThreadsKeepTheirs  ConnectionsAreThreadLocal
  AnswerTellsOutcome NoHalfUpdate NoLostUpdateUnderLock
  BlobTypeOK StoredWithinLimit ListingInOrder ListingComplete
PROPERTIES SnapshotIsPublished AnswersMatchLiveStore
