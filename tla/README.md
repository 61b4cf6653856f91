# Verification of errorworks

errorworks runs four fault-injecting servers: ChaosLLM (an OpenAI-compatible
API), ChaosWeb (pages and redirects), ChaosBlob (an S3-like object store) and
ChaosSMTP (a mail sink). A test drives one of them, the server injects errors
with configured probabilities, and every request is counted in a SQLite metrics
database. The servers share an engine (`src/src/errorworks/engine/`); paths
below are relative to `src/src/errorworks/`.

This directory holds TLA+ models of the parts with state and concurrency, TLC
configurations for small instances, and TLAPS proofs for every instance.

## Inventory

| Component | State | Operations | Interaction | What is hard | What makes it correct |
|---|---|---|---|---|---|
| Metrics store, `engine/metrics_store.py` | SQLite tables `requests`, `timeseries`, `run_info`; one connection and so one transaction per thread; `_run_id`, `_lock`, `_connections` | `record`, `update_timeseries`, `update_bucket_latency`, `commit`, `rollback`, `rebuild_timeseries`, `reset`, `save_run_info`, `get_stats`, `export_data`, `get_requests`, `get_timeseries`, `close` | Called by the recorders (request threads) and the admin endpoints; every thread gets its own connection | Interleaved transactions, a statement that fails half way, SQLite's single write lock, several reads in one call, idents reused by new threads | The two tables agree; a failed recording leaves nothing; no idle thread holds the lock; readers see what was committed |
| Recorders, `*/metrics.py` | none of their own | `record_request` / `record_transaction`, classification of an outcome | One call per request, from the event loop or from test threads; the servers swallow `sqlite3.Error` | Different error paths: LLM and SMTP roll back, Web and Blob do not | The statements of a recording are committed together |
| Runtime configuration, `*/server.py` `update_config` | the live injector, simulator, generator / store / capture; `_config_lock` | update, read, snapshot of a handler | Admin calls beside request handlers | Components replaced one by one, validation failing half way, the base of a merge going stale | No half update is seen; no update is lost |
| ChaosSMTP sessions and capture, `smtp/server.py`, `smtp/message_capture.py` | envelope of each session, `_messages` | MAIL, RCPT, DATA, capture, trim, reset, capture update | Sessions share one event loop; the admin sidecar is a second thread; the MIME parser a third | Configuration read before two awaits and used after them; reset in two steps; cancellation | List, rows and replies agree; the list is bounded |
| ChaosBlob object store, `blob/server.py`, `blob/store.py`, `blob/xml.py` | objects by key; the store object itself | PUT, GET, HEAD, DELETE, LIST with continuation tokens, reset, storage update | handlers on the event loop, `BlobStore._lock` | Listing in pages while objects come and go, injected stale lists, store replaced under a running handler | Pages neither repeat nor skip what was there throughout; bounds on objects hold |
| ChaosWeb handling, `web/server.py`, `web/content_generator.py` | of a redirect loop only the URL; the preset bank, loaded under a lock by the first call | page, redirect hop, SSRF and loop injection, corrupted pages | one request per hop; the client carries the state | Loops across requests and configuration changes; rows of connections that are cut; double-checked loading | Chains are as long as advertised, within the limit, and end; rows and replies agree; each page in turn |
| ChaosLLM handling, `llm/server.py`, `llm/response_generator.py` | the preset bank, loaded by the constructor | completion, injected errors | handlers on the event loop | order of recording and replying | one row per served request, each response in turn |
| Injection engine, `engine/injection_engine.py` and `*/error_injector.py` | start time of the burst clock, RNG | `is_in_burst`, `select`, `reset` | called by every handler and by `/health`; replaced by updates | boundary of the burst window, a clock started by whoever asks first, weights that exceed 100 | bursts keep their schedule, every error its share |
| Latency, `engine/latency.py` | none | `simulate`, `simulate_slow_response` | | numeric only | never negative |
| Admin endpoints, `engine/admin.py`, `engine/request_body.py` | none | config, stats, reset, export | call the server object | order of authentication, body limit, parsing, dispatch; an answer read after the lock was released | nothing changes on an error reply; a success shows the update |
| Hand-off to workers, `engine/config_handoff.py`, `*/cli.py` | a temporary file and two environment variables | write, read, delete | parent and worker processes | workers that crash and are started again | workers start with the parent's configuration |
| Configuration models, `*/config.py`, `engine/config_loader.py`, `engine/validators.py` | none | load, deep merge, validate | | precedence | the override wins |
| MCP analysis, `llm_mcp/server.py` | none | queries over the database of a run; two burst detectors | reads what a server may still write | hysteresis, a burst that has not ended | both detectors find the same bursts |
| pytest fixtures, `testing/` | none | start and stop of servers | | | |

PROJECT.json lists the hazards of these parts line by line and, for each, the
properties that would catch it.

## Modules

* **RunMetrics** is the abstract specification of the metrics: recorded
  requests, counters and runs, changed by two indivisible actions, `Record` and
  `StartRun`.
* **MetricsStore** models the store statement by statement. `db` is what is
  committed, `tx` the image of the one writing transaction, `writer` its
  connection. A thread's `pc` is the next statement of its call:
  `insert - upsert - latency - commit` of a recording, `rebuild_*` of
  `rebuild_timeseries`, `reset_*` of `reset`, `save*` of `save_run_info`. Any
  statement may fail (`StatementError`), with or without SQLite rolling back by
  itself; a statement that finds the write lock taken waits until its busy
  timeout (`BusyTimeout`). `BucketOf` gives the bucket that counts a request,
  `Window` the requests stamped in `[bucket, bucket + bucket_sec)`, by which
  `update_bucket_latency` selects; midnight cuts a day's last bucket short but
  not its window. Two constants select the server:

  | | `RecorderRollsBack` | `SavesAfterReset` |
  |---|---|---|
  | ChaosLLM | TRUE | TRUE |
  | ChaosSMTP | TRUE | FALSE |
  | ChaosWeb, ChaosBlob | FALSE | TRUE |

* **StatsReader** extends it with a reader thread: the SELECTs of `get_stats`
  and `export_data`, each on the database committed at that moment. `wiped`
  remembers whether a reset was committed since the call began.
* **ConnectionRegistry** models `_get_connection`,
  `_cleanup_stale_connections` and `close`: thread-local cache, registry by
  ident, idents reused by the operating system. Threads start and exit, and
  `close` runs, at any moment; `late` remembers the threads that started inside
  another one's cleanup. MetricsStore gives each thread a connection of its own
  that stays open, which this module shows for the threads that are not `late`
  as long as nobody calls `close`.
* **ConfigSwap** models `update_config` and the snapshot handlers take, for the
  servers that merge under `_config_lock` (ChaosLLM, ChaosWeb) and for those
  that merge before it (ChaosBlob, ChaosSMTP). One thread is the event loop,
  which also answers `/admin/config`: authentication, body, shape, update, and
  the configuration it reads for its answer after the lock was released.
* **FaultTables** holds what the injectors of ChaosLLM, ChaosWeb and ChaosBlob
  can draw, the decision made of each tag, and the classification of a row into
  counters.
* **HttpServing** models how these three serve a request: `stage` is where its
  handler is (`body`, `asleep`, `reply`), `naps` the sleeps to come. A handler
  records its row and then replies. For ChaosWeb a slot also follows the
  redirects it is sent; `limits` remembers the limit at each of its requests.
  ChaosLLM and ChaosWeb do not record what they refuse (`served` is FALSE),
  ChaosBlob does. What ChaosBlob stores is BlobServer's matter; here it is whether
  the store has the object.
* **InjectionEngine** models the burst clock of each injector object, handlers
  that still hold an old injector, and the two ways of selection as operators
  that are compared with the share that the configuration promises, over all
  draws.
* **RoundRobin** is the abstract specification of a preset bank, and
  **PresetBank** the code of ChaosWeb's `ContentGenerator`: lazy loading
  double-checked under `_preset_lock`, `next` under the bank's lock, reset and
  replacement of the generator. ChaosLLM's bank differs in that its generator
  loads it when it is constructed for presets, and never otherwise.
* **WorkerPool** models the hand-off of the configuration: the parent step by
  step, the workers that uvicorn's supervisor (external) starts and starts again.
* **BurstAnalysis** writes the two burst detectors of the MCP server as scans of
  the time series (`AimdPrefix[i]` and `EventPrefix[i]` are what each knows after
  `i` buckets) and compares both with a definition of a burst.
* **SmtpDelivery** models ChaosSMTP's handlers on their shared event loop, the
  decision table of the SMTP injector, the capture list, and the admin thread's
  reset and capture update. `pc` names the await a session is at; everything
  between two awaits is one step of the loop, except that the admin thread may
  act between the capture of a message (`Store`) and its row
  (`RecordAccepted`). In it a recording is one step that happens or fails; that
  this is sound for ChaosSMTP is what `ImplementsRunMetrics` shows. aiosmtpd
  (order of commands, new envelope after DATA, cancellation when the client
  goes) is external.
* **BlobServer** models ChaosBlob's object handlers: `asked` is what a client
  waits for, `heldStore` the store its handler took at its start, `job` its key,
  body and fault; the action that ends the handler reads or changes that store. A reset empties the live store
  in place, a storage update replaces it. `listing` is a client's series of LIST
  requests, each from the token of the page before, with the history of the
  keys that were there throughout. A store that is neither live nor held
  is garbage (CPython) and its identity is reused.
* **MCMetricsStore**, **MCSmtpDelivery** and **MCHttpServing** give the constants
  their small values. **MCSharedState** puts StatsReader, ConnectionRegistry,
  ConfigSwap and BlobServer into one run, and **MCComponents** InjectionEngine,
  PresetBank, WorkerPool and BurstAnalysis; the modules of such a run share no
  state, and `part` says which of them moves. That is why their variables and
  specifications have names of their own (`RegistrySpec`, `SwapSpec`,
  `BlobSpec`, ...).
* **MetricsStoreProofs** (which is about StatsReader too),
  **ConnectionRegistryProofs**, **ConfigSwapProofs**, **SmtpDeliveryProofs**,
  **BlobServerProofs** and **HttpServingProofs** hold the theorems about the
  modules they are named after, **ComponentsProofs** those about PresetBank and
  WorkerPool, **BurstProofs** those about InjectionEngine and BurstAnalysis.

An operator whose comment begins with "Seeded fault" is a plausible bug in the
definition after it. PROJECT.json (`mutants`) names, for each property, the
fault that violates it; no specification uses these operators.

## Abstractions

* A row is its request id. Of a bucket's latency figures the model keeps the set
  of rows they were computed over. In
  MetricsStore the classification of a row is the constant `Ticks`; FaultTables
  has the real one.
* A connection's transaction starts at its first write. SQLite's busy-snapshot
  error and deadlock detection are among the failures a statement may have.
* `run_info` has a row from construction on (`_record_run_info`), so `reset`
  always rewrites it; `_started_utc` travels with the run id.
* A request id, run id or transaction id is a uuid4: fresh, and free for reuse
  in the model once no table, log or call mentions it. That keeps the state
  finite without bounding how long the system runs.
* CPython closes a connection when its last reference goes (`Register`).
* Which tag an injector draws is nondeterministic; delays are finite and unbounded.
* The slots of HttpServing share only the live configuration and the metrics,
  which the administrator changes at any time in any case. No step of one slot
  is enabled, or prevented, by another, and every property speaks of one slot,
  so one slot is enough.
* In InjectionEngine a percentage is a whole number of units of which `Full` make
  100%, and a draw is one of `Full` (in weighted mode of the sum of the weights)
  equally likely numbers. `ErrorsHaveTheirShare` counts them; in priority mode it
  compares those that choose an error with those that come to it. Time matters modulo
  the burst interval.
* Wording, header values, the corruption of bodies and pages, and token and page
  contents are left out.

## Runs

| Run | Question | Bounds |
|---|---|---|
| `store_smtp` | Do the tables agree, is no lock kept, are results truthful, is RunMetrics implemented? | 3 threads (one resets), 3 requests, 2 buckets, 3 run ids |
| `store_web` | What is left of this without a rollback, and does every call end? | 2 threads (one resets), 3 requests, 2 buckets, 2 run ids |
| `store_web_atomic` | Are ChaosWeb's and ChaosBlob's recordings atomic? Violated | as above |
| `shared` | Do the sections of a summary and of an export fit together, but for those that a reset overtakes? | 2 writers (one resets), 1 reader, 2 requests, 2 buckets, 2 run ids |
| | Do threads keep their connections open and to themselves, and does `close` find them all? | 3 threads over 2 idents, 3 connections |
| | Is an update seen whole, not lost where merging is locked, and answered truthfully? | event loop and 2 threads, 2 sections of 2 fields, 2 documents |
| | Are listings complete and in order, sizes within limits, answers true of the live store? | a reader and a writer, 2 keys, 2 sizes, 2 limits, 3 stores, pages of 1 and 2 |
| `registry_cleanup` | Does a cleanup close connections of exited threads only? Violated by a thread that starts during it | 3 threads over 2 idents, 3 connections |
| `smtp` | Do the capture list, the rows and the replies agree? Does every command end? | 2 sessions, 2 messages, 3 capture configurations, an error of each kind |
| `smtp_bound` | Does `max_messages` bound the list? Violated by an update during a delivery | as above, no errors |
| `serving` | Do rows, counters and replies agree? Are redirect chains as advertised, limited, and do they end? | 1 slot, 3 servers, every tag, limits of 3 to 5 hops with loops on or off, 4 URLs of the client's own |
| `serving_drops` | Does an injected connection error drop the connection? Violated by ChaosLLM | the same, ChaosLLM |
| `serving_unrecorded` | Is every request recorded? Violated by a refusal | the same, ChaosLLM |
| `serving_unclassified` | Is every row in a counter of its own? Violated by ChaosBlob's 400 and 413, and by ChaosWeb's 402, 410 and 451 | the same, ChaosWeb and ChaosBlob |
| `components` | Do bursts keep their schedule and errors their share? Is each preset response handed out in turn? Do workers start with their parent's configuration? Do both burst detectors find the bursts? | 2 injectors, 5 profiles of 3 errors, `Full` = 3, interval 5; 2 callers, 2 generators, 3 banks of 2; 2 workers; series of up to 6 buckets of 4 kinds |

The bounds admit the cases that matter: two requests that share a bucket and
one with another; a request without latency; a transaction held by an idle
thread, a second thread that waits for it and a third that goes on; a bucket
cut short by midnight beside the first of the next day (`store_smtp`), and
buckets whose windows are their own (`shared`); more threads than idents, so
that one is reused, and a third thread to start inside a cleanup; two updates
of overlapping fields, one of which sets back what the other sets, and a
reader; a message in flight across two configuration changes and across both
halves of a reset; a listing of two pages with any writes, resets and storage
updates between and during them. Two buckets and three requests also
distinguish a count that is missing from one in the wrong place. The profiles of
`components` have weights below, at and above 100%, zero weights, and a burst that switches an
error on or off; its buckets lie below, at and above the two thresholds of a
burst, and six are enough for two bursts with a gap, the second unfinished. The
limits of `serving` let a chain begin under any of three limits and end under
another.

The type invariants of MetricsStore (`store_smtp`) and BlobServer (`shared`) are
checked there because the proofs rest on them. Those of the other modules are
stated (`TypeOK`, `ReaderTypeOK`, `RegistryTypeOK`, `SwapTypeOK`,
`EngineTypeOK`, `BankTypeOK`, `PoolTypeOK`) for the reader and in no run.

The violated runs are findings, with the lines that promise otherwise quoted in
PROJECT.json.

### Observations without a run of their own

Each can be reproduced by changing a constant of a run or by checking a stated
property on another instance.

* "Average latency for the bucket" (`docs/guide/metrics.md:225`) is not what
  `update_bucket_latency` stores for the last bucket of a day when
  `timeseries_bucket_sec` does not divide the day, which `engine/types.py:79-83`
  allows: it selects the rows stamped in `[bucket_utc, bucket_utc + bucket_sec)`
  (`metrics_store.py:350-358`), while buckets begin anew at midnight (`:98-102`)
  and `rebuild_timeseries` groups by bucket (`:408-455`). The figures take in
  requests of the next day, and a rebuild changes them
  (`LatencyMatchesRequests` in `store_smtp.cfg`).
* `close()` waits for no recording in progress (`metrics_store.py:663-678`). A
  thread between its INSERT and its commit commits on a connection made anew,
  which succeeds, and the write is lost without an error (`CommitReachesWrite` in
  `registry_cleanup.cfg`). The servers close their store when they have stopped;
  it concerns users of the store with threads of their own.
* "HTTP status code returned (NULL for connection-level errors)"
  (`docs/guide/metrics.md:15`): ChaosBlob records 200 for `connection_reset` and
  `connection_stall`, whose client meets a closed connection
  (`blob/server.py:647-679`), as ChaosWeb does for `incomplete_response`
  (`web/server.py:562`; `ConnectionErrorsHaveNoStatus` in
  `serving_unrecorded.cfg` with `Servers = {"blob"}` or `{"web"}`).
* An injected 402, 410 or 451 of ChaosWeb is in no counter but `requests_total`
  (`serving_unclassified` with `Servers = {"web"}`).
* A reset between the COUNT and the fetch of `get_stats` empties the table; the
  fetch finds no row, and `get_stats` raises a TypeError on it
  (`metrics_store.py:529-534`; `stats.missing` of StatsReader). A reset between
  two sections mixes two runs in one summary. Nothing in the repository says
  what a summary is that a reset overtakes.
* ChaosBlob and ChaosSMTP read the configuration to merge with before they take
  the lock and lose one of two updates at the same time (`NoLostUpdate` with
  `LockUses = {FALSE}`). Both need updates from two threads; the admin endpoint
  alone, on one event loop, does not interleave.
* With two threads in `Resetters` a failing `reset` restores an `old_run_id` that
  another reset has replaced (`RunIdIsCurrent`), and with `SavesAfterReset` a
  `save_run_info` writes the row of a closed run (`ImplementsRunMetrics`).
  Nothing in the repository says these uses are supported.
* When `max_redirect_loop_hops` is lowered while a client follows a loop, the last
  page reports fewer hops than it was redirected.
* `/health` starts the burst clock, so the first request after it may come in the
  middle of a burst; an update or a reset makes the next question begin a burst.
* With several workers, an update or reset through the admin endpoint reaches one
  of them, and a worker that is started again has the configuration of the start.
* An exception between `mkstemp` and the `try` of `serve` leaves the file behind.

## Fairness

`store_web` assumes weak fairness of each thread's steps inside a call: a thread
that has started a call is scheduled, and a statement that waits for the write
lock ends by its busy timeout (30 s, `metrics_store.py:177`). Nothing obliges a
thread to call. `CallsReturn` says nothing of the wait for `self._lock`, which
is a plain `threading.Lock` and fair to no one. `smtp` assumes strong fairness of
each session's steps, since asyncio runs ready callbacks in the order they
became ready and no recording keeps the loop forever, and weak fairness of the
second half of `reset`. `serving` assumes weak fairness of each slot's handler and of its
client's next request: asyncio runs what is ready and every sleep ends, and a
client that follows redirects goes on, or gives up. Nobody has to call. The other
runs check safety only.

## Proofs

Every theorem holds for all values of the constants that satisfy the assumption
named in its module (`StoreAssumption`, `BlobAssumption`, ...): any number of
threads, clients, sessions, requests, sections, banks or workers. Those
assumptions are types, except that sets which are counted (`Requests` of
MetricsStore) are finite. Further assumptions stand in the theorem itself:

| Assumption | Where | Holds for |
|---|---|---|
| `RecorderRollsBack` | `SeriesConsistent`, `LatencyConsistent`, `LatencyIsTheBuckets`, `IdleIsFree`, `ResultsAreTruthful`, `StoreImplementsRunMetrics`, `ExportIsCovered` | ChaosLLM, ChaosSMTP |
| `~SavesAfterReset` | `IdleIsFree` | ChaosSMTP |
| `OneResetter` | `RunIdStaysCurrent`; `StoreImplementsRunMetrics` if `SavesAfterReset` | resets from one thread, which the admin endpoint is |
| every `Window[b]` is `{q : BucketOf[q] = b}` | `LatencyIsTheBuckets` | a `timeseries_bucket_sec` that divides a day |

Where they fail, TLC violates the property on a small instance. Each proof has an
inductive invariant that TLC checked on the instance of the run named there before it was proved.

**MetricsStoreProofs** (`store_smtp`, also with `SavesAfterReset`, and `shared`)

* `TypeCorrect`: `TypeOK`, which also says that the transaction image is the
  committed database when nobody writes; everything else needs this.
* `SeriesConsistent`: `SeriesMatchesRequests`, whatever statement fails. The
  property speaks of `db` only, and `db` becomes `tx` on a commit. The invariant
  `SeriesInv` adds what `tx` is at each `pc` of the writer: equal to the
  aggregate of its rows except between the INSERT and the UPSERT, where it is
  the aggregate without the new row, and between the two statements of a
  rebuild or reset, where it is about to be recomputed. A lemma about
  `Aggregate` says that adding a fresh row is what `Bump` does to the counters,
  by cardinality of finite sets. In the idle states the writer must be absent
  or consistent; that is where the rollback is used, and where ChaosWeb and
  ChaosBlob fail.
* `LatencyConsistent`: `LatencyCoversBucket`, with the same shape of invariant
  (`LatencyInv`): between INSERT and UPDATE the figures lack at most the pending
  row, and a row without latency changes none. It holds whatever a window finds;
  `LatencyIsTheBuckets` is `LatencyMatchesRequests`, where windows and buckets
  coincide. Elsewhere it is false, see the observations.
* `SeriesStaysBehind`: `SeriesNeverAhead`, with no assumption, so for ChaosWeb and
  ChaosBlob too: what a failed recording leaves is a row that is not counted,
  never a count without a row (`CoverInv`, over the image as well).
* `IdleIsFree`: `IdleHoldsNoTransaction`.
* `ResultsAreTruthful`: `ResultIsTruthful`, for any resetters. `RowsInv` says which
  rows the image has beyond the committed ones at each statement of a call
  (`ImageRows`) and that a pending request is in no table. A `save_run_info` that
  fails may leave its transaction to the next call of its thread, but the rows
  in it are the committed ones.
* `StoreImplementsRunMetrics`: the refinement. `CommitInv` says the same of the
  runs: a reset opens a run that is not there yet (`RunsAreNew`), and
  `save_run_info` writes a row for one that is (`SavedIsKnown`). So every commit
  is one `Record`, one `StartRun` or a stutter, and so is every other step.
* `RunIdStaysCurrent`: `RunIdIsCurrent`, in all four servers; `CommitInv` needs no
  rollback. `RunInv` adds that a reset holds
  `_lock` and that what it has read as the old id is still the one in
  `run_info`, which two resetters break. The refinement needs this too where
  `save_run_info` ends the reset, since it saves the id in memory: a second
  reset between `save_bind` and `save` makes it write the row of a closed run.
* `SectionsGrow`, `PercentilesFound`, `ExportIsCovered`: the sections of a summary
  and of an export fit together unless a reset comes in between. The other
  commits only add rows, which is to be shown of every one of them, so what an
  earlier SELECT saw is still there (`StatsInv`), and the rank
  of a percentile is below the count it was computed from; an export's series
  is the aggregate of rows that a later SELECT has too (`ExportInv`).

**ConnectionRegistryProofs** (`shared`): `KnownThreadsKeep`,
`OpenStaysRegistered`, `ConnectionsStayLocal`, without assumptions. `RegistryInv`
says what each thread has in hand at each step of `_get_connection`
(`HandsMatch`), that idents, cached connections and registry entries are one
thread's each, and that a thread cleaning up knows every running ident
(`LiveIsKnown`) but those of `late` threads. What those lose is
`registry_cleanup`.

**ConfigSwapProofs** (`shared`): `NeverHalf`, `SnapshotsArePublished`,
`NothingLost`, `AnswersAreTrue`. `UpdateInv` says where the lock is held, that the
configuration is the published one unless somebody swaps, how far a swapping
thread has come section by section (`SwappedSoFar`), that what is merged under
the lock is merged from the published configuration (`MergedFromLast`), and
that the configurations completed since an endpoint's update contain the
published one when it reads its answer (`SinceIsHistory`).

**SmtpDeliveryProofs** (`smtp`)

* `RowsTellTheTruth`: `CountersTellTheTruth`; `CountInv` says which tags a session
  can hold at each await, and the decision table does the rest.
* `NewestAreKept`: `OldestDroppedFirst`. The list is shown to be a suffix of what
  was captured; trimming a suffix gives a suffix.
* `CaptureMatches`: `CaptureMatchesMetrics`. Between the halves of a reset all
  that is captured counts as torn from its row, a message is in no table before
  it is stored, and a session about to record knows what it stored.

**BlobServerProofs** (`shared`)

* `WithinLimit`: `StoredWithinLimit`. The limit of a store changes in one step
  only, when an update makes it live, so the proof must know that it is empty
  then. `StoreInv` adds that what is neither live nor held is empty
  (`GarbageIsEmpty`) and that handlers, and only they, hold a store
  (`BusyHoldsStore`). Two lemmas (`AcceptKeepsInv`, `EndKeepsInv`) carry the
  fourteen actions of the clients.
* `AnswersMatch`: `AnswersMatchLiveStore`, from `HeldIsLive`: a handler that no
  update has overtaken holds the live store. A reset that replaced the store
  instead of emptying it would break it.
* `ListedCompletely`: `ListingComplete`, and `ListedInOrder`: `ListingInOrder`.
  `ListingComplete` speaks of a listing that has ended; `MissedAreStale` says the
  same of one under way: of the keys that were there throughout, the token has
  passed over at most one for each stale page. It needs that nothing beyond the
  token has been shown, and that the store a page is taken from still holds what
  was there throughout: after an update nothing was. `AddKeepsList` is the step
  of one page, for a page that leaves out any one key. That every set of keys
  can be put in order (`SortAll`) is proved by well-founded descent.
* `TypeCorrect`: `BlobTypeOK`.

**HttpServingProofs** (`serving`)

* `RowsAgree`: `RowsMatchReplies`, and `RowsCountOnce`: `CountedOnce`. These say
  what the documents and the code agree on; `AgreesInDetail` and `Counted` are what
  each server does beyond it. `RowsInv` says which decisions each server can have
  drawn where its handler sleeps, that a location sent is one of a loop, and that before its last reply a visit has a
  row for every reply. The tables of FaultTables are then gone through case by
  case.
* `ChainsStayWithinLimits`: `ChainWithinLimit`. For each limit that a request of a
  chain met, the redirects since and those that may still come (`Ahead`: of a
  decision, a reply or a URL) are within it. Every step keeps this, since a
  redirect sent is one fewer ahead, and a request that meets a new limit is
  capped by it.
* `ChainsAreAsAdvertised`: `ChainAsAdvertised`. The URL in hand has counted no more
  hops than were sent, leads no further than the advertised end, and is exactly
  on its way unless a limit was lowered (`LoopIsAsAdvertised`).

**ComponentsProofs** (`components`)

* `BankServesInTurn`: the refinement of RoundRobin, step by step. `BankInv` says
  that a bank belongs to one generator, that what a caller has read without
  `_preset_lock` stays true once the bank is loaded, and that between reading and
  advancing the index nobody else moves it.
* `StartAsTold`: `WorkersStartAsTold`. The file is whole from the export of its
  path until the workers have been joined (`FileOutlivesWorkers`), and every
  worker was given that path.

**BurstProofs** (`components`)

* `BurstsKeepSchedule`: `BurstsOnSchedule`. `EngineInv` says that the history
  variable `spent` of each injector is how far its clock is into the burst or the
  pause (`SpentIsPosition`), for the live one and for those that only a handler
  still holds. `PositionMoves` is the arithmetic: a tick moves the position on by
  one and from the end of the interval to its beginning. `EngineTypeCorrect`:
  `EngineTypeOK`.
* `SharesKept`: `ErrorsHaveTheirShare`, for any number of errors. Weighted
  selection chooses error `e` with exactly the draws from the threshold before it
  up to its own (`WeightedChoice`, from `ThresholdsGrow`), and these are as many as
  its weight. In priority mode what the errors before `e` have drawn says nothing
  of the draw of `e`: the draws that come to `e` are in bijection with pairs of
  the other draws and one of `Full` (`DrawsOfOne`).
* `BurstsFound`: `BurstsAreFound`, for series of any length. `AimdFound` and
  `EventFound` are the loop invariants of the two detectors: after `i` buckets each
  has exactly the bursts that ended in them and the start of one that has not.
  `AimdFindsNext` and `EventFindsNext` are one turn of each loop.

The last two are about recursive functions: sums of weights and scans of buckets.
The library's induction theorems take the property as an operator, which the
provers here cannot instantiate, so BurstProofs states induction for a set
(`SetInduction`: a set with 0 that has `n + 1` for each of its `n` has every
number), proved from the numbers being well-founded, and uses it for sets of the
indices up to which a property holds. `Recursion` says in the same way that a
recursion over the turns of a loop defines a function.

Only model-checked: liveness (`CallsReturn`, `CommandsEnd`, `ChainEnds`), which
is out of this prover's reach. Every invariant and action property of the
passing runs is proved.

No module here declares a recursive operator.

## Plan

*Done*: the store with its readers and connections, configuration and its admin
endpoint, ChaosSMTP, the blob handlers, serving and redirects, the engine, preset
banks, the hand-off to workers, burst detection.

Next, models: several prefixes in BlobServer, start and stop of ChaosSMTP,
precedence of configuration sources.

## Not modelled

`get_requests` and `get_timeseries` are single SELECTs, and so are the other MCP
tools. DDL generation, content and MIME generation, HTML, XML and token
formatting, latency draws, delays, range validators, command-line parsing and the
fixtures have no shared state. Start and stop of ChaosSMTP's controller are
mostly aiosmtpd's.
