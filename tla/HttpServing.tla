---------------------------- MODULE HttpServing ----------------------------
(***************************************************************************)
(* How ChaosLLM, ChaosWeb and ChaosBlob serve a request: the snapshot of   *)
(* the configuration, the body or the query string, the decision, the      *)
(* sleeps, the row and the reply, and how a client follows the hops of an  *)
(* injected redirect loop, whose only state is the URL.                    *)
(*                                                                         *)
(* A slot of Requests is one client's visit: a request, or the requests of *)
(* a redirect chain.  Handlers share nothing but the live configuration    *)
(* and the metrics.  A client that gives up does not stop a handler that   *)
(* runs; its retry is a visit of another slot.                             *)
(***************************************************************************)
EXTENDS FaultTables, Sequences, FiniteSets

CONSTANTS
  Requests,
  Servers,       \* some of "llm", "web" and "blob"
  Configs,       \* configurations that POST /admin/config may leave
  HopParams      \* hop and max that a client may put into a /redirect URL

ASSUME ServingAssumption ==
  /\ Servers \subseteq {"llm", "web", "blob"}
  /\ Configs # {} /\ Configs \subseteq [loops : BOOLEAN, maxHops : Nat]
  /\ \A c \in Configs : c.maxHops >= MinLoopHops
  /\ HopParams \subseteq Int \X Int

VARIABLES
  server,    \* which server this is; stays fixed
  config,    \* the live configuration, as far as handlers depend on it
  request,   \* the request of each slot and the state of its handler
  sent,      \* the replies of each visit
  rows,      \* the rows of each visit, as long as none was lost
  lost,      \* whether a row of the visit was not stored or was reset
  limits     \* history: max_redirect_loop_hops at each request of the visit

vars == <<server, config, request, sent, rows, lost, limits>>

NoUrl == <<0, 0>>   \* no Location, or one that leads elsewhere
NoHops == 0

(* kind is "http" or, of a connection that is closed instead, "dropped";   *)
(* hops is the number of hops that the page at the end of a loop reports;  *)
(* a request that is refused or fails is not served.                       *)
Reply(kind, status, location, hops, served) ==
  [kind |-> kind, status |-> status, location |-> location, hops |-> hops, served |-> served]

Http(status) == Reply("http", status, NoUrl, NoHops, TRUE)
Dropped(status) == Reply("dropped", status, NoUrl, NoHops, TRUE)
Redirect(location) == Reply("http", 301, location, NoHops, TRUE)
Declined(status) == Reply("http", status, NoUrl, NoHops, FALSE)

(* path is "page" (a page or a completion), "hop" (/redirect) or an        *)
(* operation of ChaosBlob; url is hop and max of the /redirect URL; naps   *)
(* counts the sleeps to come.                                              *)
Idle == [stage |-> "idle", path |-> "page", config |-> CHOOSE c \in Configs : TRUE,
         decision |-> Success, url |-> NoUrl, naps |-> 0, reply |-> Http(200)]

Minimum(a, b) == IF a < b THEN a ELSE b
Maximum(a, b) == IF a > b THEN a ELSE b

Last(seq) == seq[Len(seq)]

Init ==
  /\ server \in Servers
  /\ config \in Configs
  /\ request = [r \in Requests |-> Idle]
  /\ sent = [r \in Requests |-> <<>>]
  /\ rows = [r \in Requests |-> <<>>]
  /\ lost = [r \in Requests |-> FALSE]
  /\ limits = [r \in Requests |-> <<>>]

At(r, stage) == request[r].stage = stage

-----------------------------------------------------------------------------
(* The arrival of a request.  The snapshot is taken first; ChaosLLM then   *)
(* waits for the body while the live configuration may change.             *)

Snapshot(r) == limits' = [limits EXCEPT ![r] = Append(@, config.maxHops)]

Naps(decision) ==
  CASE server = "llm" /\ decision.category \in {"http", "malformed"} -> 0
    [] decision.tag = "connection_reset" -> 0
    [] server = "web" /\ decision.tag = "incomplete_response" -> 0
    [] decision.tag = "connection_stall" -> 2
    [] OTHER -> 1

(* The tags whose percentage the configuration may have above zero. *)
Drawn(order, c) == Tags(order) \ (IF c.loops THEN {} ELSE {"redirect_loop"})

Decisions(c) ==
  {Success} \cup (IF server = "llm"
                  THEN UNION {LlmDecisions(t) : t \in Drawn(LlmPriority, c)}
                  ELSE UNION {WebDecisions(t, c.maxHops) : t \in Drawn(WebPriority, c)})

Decide(r, c) ==
  \E d \in Decisions(c) :
    request' = [request EXCEPT ![r].stage = "asleep", ![r].config = c,
                               ![r].decision = d, ![r].naps = Naps(d)]

Refuse(r, status) ==
  request' = [request EXCEPT ![r].stage = "reply", ![r].reply = Declined(status)]

LlmCall(r) ==
  /\ server = "llm"
  /\ At(r, "idle")
  /\ request' = [request EXCEPT ![r].stage = "body", ![r].config = config]
  /\ Snapshot(r)
  /\ UNCHANGED <<sent, rows, lost>>

(* Too large, not JSON, not an object, messages not a list of objects. *)
LlmRefuse(r) ==
  /\ server = "llm"
  /\ At(r, "body")
  /\ \E status \in {413, 400} : Refuse(r, status)
  /\ UNCHANGED <<sent, rows, lost, limits>>

LlmDecide(r) ==
  /\ server = "llm"
  /\ At(r, "body")
  /\ Decide(r, request[r].config)
  /\ UNCHANGED <<sent, rows, lost, limits>>

PageCall(r) ==
  /\ server = "web"
  /\ At(r, "idle")
  /\ Decide(r, config)
  /\ Snapshot(r)
  /\ UNCHANGED <<sent, rows, lost>>

(* A visit that starts at /redirect with a URL of the client's own.  A     *)
(* parameter that is no integer is refused before the snapshot.            *)
HopEntry(r) ==
  /\ server = "web"
  /\ At(r, "idle")
  /\ \/ \E url \in HopParams : request' = [request EXCEPT ![r].stage = "follow", ![r].url = url]
     \/ Refuse(r, 400)
  /\ UNCHANGED <<sent, rows, lost, limits>>

(* ChaosBlob reads the body of an upload after its decision. *)
BlobDecide(r) ==
  \E op \in BlobOperations : \E d \in {Success} \cup {BlobDecision(t) : t \in BlobTags(op)} :
    request' = [request EXCEPT ![r].stage = IF op = "put" /\ d = Success THEN "body" ELSE "asleep",
                               ![r].path = op, ![r].decision = d, ![r].naps = Naps(d)]

BlobCall(r) ==
  /\ server = "blob"
  /\ At(r, "idle")
  /\ BlobDecide(r)
  /\ Snapshot(r)
  /\ UNCHANGED <<sent, rows, lost>>

(* Seeded fault: the bound of the URL is believed. *)
CappedUrl(url, maxHops) ==
  LET max == Maximum(1, url[2])
  IN  <<Minimum(Maximum(1, url[1]), max), max>>

(* Seeded fault: the bound of the configuration replaces that of the URL. *)
LiveUrl(url, maxHops) == <<Minimum(Maximum(1, url[1]), maxHops), maxHops>>

(* hop and max as /redirect uses them, capped by the configuration. *)
HopUrl(url, maxHops) ==
  LET max == Minimum(Maximum(1, url[2]), maxHops)
  IN  <<Minimum(Maximum(1, url[1]), max), max>>

HopCall(r) ==
  /\ At(r, "follow")
  /\ Snapshot(r)
  /\ IF config.loops
     THEN request' = [request EXCEPT ![r].stage = "asleep", ![r].path = "hop", ![r].config = config,
                                     ![r].url = HopUrl(@, config.maxHops), ![r].naps = 1]
     ELSE Refuse(r, 404)
  /\ UNCHANGED <<sent, rows, lost>>

(* Seeded fault: a stall waits for the client to hang up. *)
WakeUnlessStalled(r) ==
  /\ At(r, "asleep")
  /\ request[r].naps > 0
  /\ request[r].naps = 1 => request[r].decision.tag # "connection_stall"
  /\ request' = [request EXCEPT ![r].naps = @ - 1]
  /\ UNCHANGED <<sent, rows, lost, limits>>

(* A simulated latency, an injected delay or a half of a stall is over. *)
Wake(r) ==
  /\ At(r, "asleep")
  /\ request[r].naps > 0
  /\ request' = [request EXCEPT ![r].naps = @ - 1]
  /\ UNCHANGED <<sent, rows, lost, limits>>

-----------------------------------------------------------------------------
(* The end of a handler: it records its row, best effort, and replies.     *)
(* _record_request swallows the errors of the database.                    *)

Record(r, row) ==
  \/ /\ rows' = [rows EXCEPT ![r] = IF lost[r] THEN @ ELSE Append(@, row)]
     /\ UNCHANGED lost
  \/ /\ rows' = [rows EXCEPT ![r] = <<>>]
     /\ lost' = [lost EXCEPT ![r] = TRUE]

(* Seeded fault: a handler replies first and records later. *)
ReplyUnrecorded(r, row, reply) ==
  /\ request' = [request EXCEPT ![r].stage = "reply", ![r].reply = reply]
  /\ UNCHANGED <<sent, rows, lost, limits>>

(* ChaosBlob builds the row outside of the try: an incoherent one is a 500. *)
RecordAndReply(r, row, reply) ==
  /\ IF server = "blob" /\ ~Coherent(row)
     THEN Refuse(r, 500) /\ UNCHANGED <<rows, lost>>
     ELSE /\ request' = [request EXCEPT ![r].stage = "reply", ![r].reply = reply]
          /\ Record(r, row)
  /\ UNCHANGED <<sent, limits>>

(* A page handler that is awake and has drawn a decision of this category. *)
Handling(r, categories) ==
  /\ At(r, "asleep")
  /\ request[r].naps = 0
  /\ request[r].path # "hop"
  /\ request[r].decision.category \in categories

Generates(d) ==
  \/ d.category \in {"success", "slow"}
  \/ server = "web" /\ (d.category = "malformed" \/ d.tag = "incomplete_response")

(* A preset file that is missing or malformed, a template that fails. *)
GenerateFails(r) ==
  /\ server # "blob"
  /\ Handling(r, {"success", "slow", "malformed", "connection"})
  /\ Generates(request[r].decision)
  /\ Refuse(r, 500)
  /\ UNCHANGED <<sent, rows, lost, limits>>

HandleSuccess(r) ==
  /\ server # "blob"
  /\ Handling(r, {"success", "slow"})
  /\ RecordAndReply(r, Row("success", 200, "none", 0), Http(200))

HandleHttpError(r) ==
  /\ Handling(r, {"http"})
  /\ LET d == request[r].decision
     IN  RecordAndReply(r, Row("error_injected", d.status, d.tag, 0), Http(d.status))

(* The error of the row is the tag after "malformed_". *)
HandleMalformed(r) ==
  /\ Handling(r, {"malformed"})
  /\ RecordAndReply(r, Row("error_malformed", 200, request[r].decision.tag, 0), Http(200))

(* ChaosLLM answers 503 where the row has no status; the others close the  *)
(* connection after their headers or, for incomplete_response, a part of   *)
(* the page.                                                               *)
WebConnectionStatus ==
  [timeout |-> 504, connection_reset |-> NoStatus, connection_stall |-> NoStatus,
   incomplete_response |-> 200]

BlobConnectionStatus ==
  [timeout |-> 504, slow_response |-> 503, connection_reset |-> 200, connection_stall |-> 200]

HandleConnectionError(r) ==
  /\ Handling(r, {"connection"})
  /\ LET d == request[r].decision
         status == CASE server = "llm" -> d.status
                     [] server = "web" -> WebConnectionStatus[d.tag]
                     [] server = "blob" -> BlobConnectionStatus[d.tag]
     IN  RecordAndReply(r, Row("error_injected", status, d.tag, 0),
           IF status \in {503, 504} THEN Http(status)
           ELSE IF server = "llm" THEN Http(503) ELSE Dropped(200))

HandleRedirect(r) ==
  /\ Handling(r, {"redirect"})
  /\ LET d == request[r].decision
     IN  RecordAndReply(r, Row("error_redirect", 301, d.tag, d.hops),
           Redirect(IF d.tag = "redirect_loop" THEN <<1, d.hops>> ELSE NoUrl))

HandleHop(r) ==
  /\ At(r, "asleep")
  /\ request[r].naps = 0
  /\ request[r].path = "hop"
  /\ LET hop == request[r].url[1]
         max == request[r].url[2]
     IN  IF hop < max
         THEN RecordAndReply(r, Row("error_redirect", 301, "redirect_loop", hop), Redirect(<<hop + 1, max>>))
         ELSE RecordAndReply(r, Row("redirect_loop_terminated", 200, "redirect_loop", hop),
                             Reply("http", 200, NoUrl, hop, TRUE))

-----------------------------------------------------------------------------
(* ChaosBlob records also what it refuses. *)

Refused(r, status, error) == RecordAndReply(r, Row("error_injected", status, error, 0), Http(status))

(* The parameters of a listing, before its snapshot. *)
BlobRefuse(r) ==
  /\ server = "blob"
  /\ At(r, "idle")
  /\ \E error \in {"InvalidRequest", "InvalidArgument"} : Refused(r, 400, error)

BlobBody(r) ==
  /\ server = "blob"
  /\ At(r, "body")
  /\ \/ Refused(r, 400, "InvalidRequest")
     \/ Refused(r, 413, "EntityTooLarge")
     \/ request' = [request EXCEPT ![r].stage = "asleep"] /\ UNCHANGED <<sent, rows, lost, limits>>

(* The store takes no object above its limit and no token of others, and   *)
(* what to corrupt may be missing.                                         *)
StoreRefuses(r) ==
  /\ server = "blob"
  /\ Handling(r, {"success", "corruption"})
  /\ \/ request[r].path = "put" /\ Refused(r, 413, "EntityTooLarge")
     \/ request[r].path = "list" /\ Refused(r, 400, "InvalidArgument")
     \/ request[r].path \in {"get", "head"} /\ Refused(r, 404, "NoSuchKey")

HandleOperation(r) ==
  /\ server = "blob"
  /\ Handling(r, {"success", "corruption"})
  /\ LET d == request[r].decision
         status == IF request[r].path = "delete" THEN 204 ELSE 200
         outcome == IF d = Success THEN "success" ELSE "error_corrupted"
     IN  RecordAndReply(r, Row(outcome, status, d.tag, 0),
           IF d.tag = "wrong_content_length" THEN Dropped(status) ELSE Http(status))

-----------------------------------------------------------------------------
(* The client has the reply.  It follows a hop, or gives up doing so. *)

Send(r) ==
  /\ At(r, "reply")
  /\ LET reply == request[r].reply
     IN  /\ sent' = [sent EXCEPT ![r] = Append(@, reply)]
         /\ request' = [request EXCEPT ![r].stage = IF reply.location = NoUrl THEN "answered" ELSE "follow",
                                       ![r].url = reply.location]
  /\ UNCHANGED <<rows, lost, limits>>

GiveUp(r) ==
  /\ At(r, "follow")
  /\ request' = [request EXCEPT ![r].stage = "answered"]
  /\ UNCHANGED <<sent, rows, lost, limits>>

Leave(r) ==
  /\ At(r, "answered")
  /\ request' = [request EXCEPT ![r] = Idle]
  /\ sent' = [sent EXCEPT ![r] = <<>>]
  /\ rows' = [rows EXCEPT ![r] = <<>>]
  /\ lost' = [lost EXCEPT ![r] = FALSE]
  /\ limits' = [limits EXCEPT ![r] = <<>>]

-----------------------------------------------------------------------------
(* The administrator. *)

UpdateConfig ==
  /\ config' \in Configs
  /\ UNCHANGED <<request, sent, rows, lost, limits>>

(* A running handler records its row in the new run. *)
Reset ==
  /\ rows' = [r \in Requests |-> <<>>]
  /\ lost' = [r \in Requests |-> ~At(r, "idle")]
  /\ UNCHANGED <<config, request, sent, limits>>

Call(r) == LlmCall(r) \/ PageCall(r) \/ HopEntry(r) \/ BlobCall(r) \/ BlobRefuse(r)

Handle(r) ==
  \/ LlmRefuse(r) \/ LlmDecide(r) \/ Wake(r) \/ GenerateFails(r)
  \/ HandleSuccess(r) \/ HandleHttpError(r) \/ HandleMalformed(r)
  \/ HandleConnectionError(r) \/ HandleRedirect(r) \/ HandleHop(r)
  \/ BlobBody(r) \/ StoreRefuses(r) \/ HandleOperation(r) \/ Send(r)

Follow(r) == HopCall(r) \/ GiveUp(r)

RequestStep(r) == Call(r) \/ Handle(r) \/ Follow(r) \/ Leave(r)

Next ==
  /\ \/ \E r \in Requests : RequestStep(r) /\ UNCHANGED config
     \/ UpdateConfig
     \/ Reset
  /\ UNCHANGED server

Step(r) == (Handle(r) \/ Follow(r)) /\ UNCHANGED <<server, config>>

Spec == Init /\ [][Next]_vars

(* asyncio runs a ready handler, and a sleep ends.  Nobody has to call or  *)
(* to leave.                                                               *)
FairSpec == Spec /\ \A r \in Requests : WF_vars(Step(r))

-----------------------------------------------------------------------------
(* Properties. *)

Stages == {"idle", "body", "asleep", "reply", "follow", "answered"}

(* What was sent, with the reply that is on its way. *)
Replies(r) == IF At(r, "reply") THEN Append(sent[r], request[r].reply) ELSE sent[r]

ConnectionTags ==
  [llm |-> LlmConnectionTags, web |-> WebConnectionTags, blob |-> BlobConnectionTags][server]

(* The errors whose client may meet a closed connection. *)
Drops ==
  [llm |-> LlmConnectionTags, web |-> WebConnectionTags \ {"timeout"},
   blob |-> {"connection_reset", "connection_stall", "wrong_content_length"}][server]

(* The row has the status of the reply, or none when the client read none, *)
(* or read ChaosLLM's 503 in place of a closed connection; a connection is *)
(* closed for an error that may close it, and by ChaosWeb and ChaosBlob    *)
(* for each of them.  The hop numbers of a row are those of the Location   *)
(* or of the last page.                                                    *)
Agrees(row, reply) ==
  /\ \/ row.status = reply.status
     \/ row.status = NoStatus /\ (reply.kind = "dropped" \/ (server = "llm" /\ reply.status = 503))
  /\ reply.kind = "dropped" => row.error \in Drops
  /\ server # "llm" /\ row.error \in Drops => reply.kind = "dropped"
  /\ reply.hops # NoHops => row.hops = reply.hops
  /\ reply.location # NoUrl => row.hops \in {reply.location[1] - 1, reply.location[2]}

(* When a client has the reply to a request that was served, or one of     *)
(* ChaosBlob, its row is in the table: the rows of a visit are those of    *)
(* its replies, in their order, and both tell the same.  No row is that of *)
(* a reply still to come, or of none.                                      *)
RowsMatchReplies ==
  \A r \in Requests : ~lost[r] =>
    LET replies == Replies(r)
    IN  /\ {i \in DOMAIN replies : server = "blob" \/ replies[i].served} \subseteq DOMAIN rows[r]
        /\ DOMAIN rows[r] \subseteq DOMAIN replies
        /\ \A i \in DOMAIN rows[r] : Agrees(rows[r][i], replies[i])

(* "Every request or SMTP transaction that passes through an Errorworks    *)
(* server is recorded in a SQLite database."  ChaosBlob records what it    *)
(* refuses; ChaosLLM and ChaosWeb leave that out, and what fails.          *)
EveryRequestRecorded ==
  \A r \in Requests : ~lost[r] => DOMAIN rows[r] = DOMAIN Replies(r)

(* "HTTP status code returned (NULL for connection-level errors)": the row *)
(* of a connection error whose client met a closed connection has no       *)
(* status.  ChaosBlob records 200, and ChaosWeb for an incomplete response.*)
ConnectionErrorsHaveNoStatus ==
  \A r \in Requests : ~lost[r] =>
    \A i \in DOMAIN rows[r] \cap DOMAIN Replies(r) :
      Replies(r)[i].kind = "dropped" /\ rows[r][i].error \in ConnectionTags =>
        rows[r][i].status = NoStatus

(* "Immediately drops the TCP connection", "short delay, then drops",      *)
(* "stalls, then drops": a client that meets one of these errors reads no  *)
(* status.  True of the others; ChaosLLM answers 503 with a JSON body.     *)
ConnectionErrorsDrop ==
  \A r \in Requests :
    (At(r, "reply") /\ request[r].path # "hop" /\ request[r].reply.served
       /\ request[r].decision.tag \in {"connection_reset", "connection_failed", "connection_stall"}) =>
      request[r].reply.kind = "dropped"

(* The counters of the time series in which a row is counted. *)
Counters(row) ==
  CASE server = "llm" -> LlmCounters(row)
    [] server = "web" -> WebCounters(row)
    [] server = "blob" -> {BlobCounter(row)}

(* The errors of what ChaosBlob itself refuses, a missing object aside.    *)
Refusals == {"InvalidRequest", "InvalidArgument", "EntityTooLarge"}

(* No row is counted in two counters, and one is counted as a success if   *)
(* and only if it is one.  None of ChaosLLM and ChaosBlob is left out of   *)
(* the series, and of ChaosWeb none but a client error; the types of error *)
(* that ChaosBlob's tables hold are wired into its classifier, so that     *)
(* nothing but its own refusals can fall through.                          *)
CountedOnce ==
  \A r \in Requests : \A i \in DOMAIN rows[r] :
    LET row == rows[r][i]
    IN  /\ Cardinality(Counters(row)) <= 1
        /\ "success" \in Counters(row) <=> row.outcome = "success"
        /\ Counters(row) = {} => server = "web" /\ Between(row.status, 400, 500)
        /\ "unclassified" \in Counters(row) => server = "blob" /\ row.error \in Refusals

(* "Per-outcome counters (e.g., ...)": every row of the time series' bucket *)
(* is in one of them, and none falls through the classifier, which "means  *)
(* a new outcome/error_type was added upstream but never wired into the    *)
(* classifier".  ChaosBlob's own refusals with 400 and 413 fall through,   *)
(* and ChaosWeb counts its injected 402, 410 and 451 nowhere.              *)
EveryRowClassified ==
  \A r \in Requests : \A i \in DOMAIN rows[r] : Counters(rows[r][i]) \ {"unclassified"} # {}

(* The visit began with a page that advertised a loop.                     *)
Advertised(r) == sent[r] # <<>> /\ sent[r][1].location[1] = 1

(* A loop is as long as its first redirect says, and reports that length   *)
(* at its end, unless the limit was lowered on the way; then it is shorter *)
(* and reports no more than the client has followed.                       *)
ChainAsAdvertised ==
  \A r \in Requests : At(r, "answered") /\ Advertised(r) /\ Last(sent[r]).hops # NoHops =>
    LET advertised == sent[r][1].location[2]
        followed == Len(sent[r]) - 1
        reported == Last(sent[r]).hops
    IN  /\ reported <= followed /\ followed <= advertised
        /\ (\A i \in DOMAIN limits[r] : limits[r][i] >= advertised) =>
             reported = advertised /\ followed = advertised

(* "Cap to the configured maximum to prevent resource exhaustion": from    *)
(* any request of a visit on, the client is redirected at most as often as *)
(* the configuration of that request allows, whatever URL it began with    *)
(* and however often the limit is raised afterwards.                       *)
ChainWithinLimit ==
  \A r \in Requests : \A i \in DOMAIN limits[r] :
    Cardinality({j \in i..Len(sent[r]) : sent[r][j].status = 301}) <= limits[r][i]

(* A client that follows every redirect of a loop comes to its end.        *)
ChainEnds ==
  \A r \in Requests :
    At(r, "body") \/ At(r, "asleep") \/ At(r, "follow") ~> At(r, "answered")

TypeOK ==
  /\ server \in Servers
  /\ config \in Configs
  /\ \A r \in Requests :
       /\ request[r].stage \in Stages
       /\ request[r].config \in Configs
       /\ request[r].naps \in 0..2
       /\ request[r].url \in Int \X Int
  /\ lost \in [Requests -> BOOLEAN]
  /\ limits \in [Requests -> Seq({c.maxHops : c \in Configs})]
  /\ DOMAIN sent = Requests /\ DOMAIN rows = Requests
=============================================================================
