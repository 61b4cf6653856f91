------------------------- MODULE HttpServingProofs -------------------------
(***************************************************************************)
(* Theorems of HttpServing, for any visits, servers, configurations and    *)
(* parameters that a client may put into a /redirect URL: what is replied  *)
(* agrees with what is recorded and counted, and an injected redirect loop *)
(* has the length that its first redirect says, within every limit it met. *)
(***************************************************************************)
EXTENDS HttpServing, FiniteSetTheorems, TLAPS

Urls == Int \X Int

AllTags ==
  {"none", "slow_response"}
    \cup LlmConnectionTags \cup LlmMalformedTags \cup DOMAIN LlmHttpStatus
    \cup WebConnectionTags \cup WebMalformedTags \cup WebRedirectTags \cup DOMAIN WebHttpStatus
    \cup BlobConnectionTags \cup DOMAIN BlobHttpStatus
    \cup UNION {BlobCorruptionTags[op] : op \in BlobOperations}

Categories == {"success", "slow", "connection", "malformed", "redirect", "http", "corruption"}

AllDecisions == [tag : AllTags, category : Categories, status : Int, hops : Int]

AllReplies ==
  [kind : {"http", "dropped"}, status : Int, location : Urls, hops : Int, served : BOOLEAN]

Outcomes ==
  {"success", "error_injected", "error_malformed", "error_redirect", "redirect_loop_terminated",
   "error_corrupted"}

AllRows ==
  [outcome : Outcomes, status : Int, hops : Int,
   error : AllTags \cup Refusals \cup {"NoSuchKey"}]

Handlers ==
  [stage : Stages, path : {"page", "hop"} \cup BlobOperations, config : Configs,
   decision : AllDecisions, url : Urls, naps : Int, reply : AllReplies]

Typed ==
  /\ server \in Servers
  /\ config \in Configs
  /\ request \in [Requests -> Handlers]
  /\ sent \in [Requests -> Seq(AllReplies)]
  /\ rows \in [Requests -> Seq(AllRows)]
  /\ lost \in [Requests -> BOOLEAN]
  /\ limits \in [Requests -> Seq(Nat)]

-----------------------------------------------------------------------------
(* The decisions that each server draws, without regard to configurations. *)

LlmDrawn(d) ==
  \/ d.category \in {"success", "slow"}
  \/ d.category = "connection" /\ d.tag \in LlmConnectionTags /\ d.status \in {NoStatus, 504}
  \/ d.category = "malformed" /\ d.tag \in LlmMalformedTags
  \/ /\ d.category = "http" /\ d.tag \notin LlmConnectionTags
     /\ d.status \in {429, 529, 503, 502, 504, 500, 403, 404}

WebDrawn(d) ==
  \/ d.category \in {"success", "slow"}
  \/ d.category = "connection" /\ d.tag \in WebConnectionTags
  \/ d.category = "malformed" /\ d.tag \in WebMalformedTags
  \/ d.category = "redirect" /\ d.tag = "ssrf_redirect"
  \/ d.category = "redirect" /\ d.tag = "redirect_loop" /\ d.hops \in Nat \ {0}
  \/ /\ d.category = "http" /\ d.tag \notin WebConnectionTags
     /\ d.status \in {429, 403, 404, 410, 402, 451, 503, 502, 504, 500}

BlobDrawn(d, path) ==
  \/ d = Success
  \/ d.category = "connection" /\ d.tag \in BlobConnectionTags
  \/ /\ d.category = "http" /\ d.tag \in DOMAIN BlobHttpStatus
     /\ d.status = BlobHttpStatus[d.tag]
  \/ /\ d.category = "corruption" /\ path \in BlobOperations
     /\ d.tag \in BlobCorruptionTags[path]

IsDrawn(d, path) ==
  CASE server = "llm" -> LlmDrawn(d)
    [] server = "web" -> WebDrawn(d)
    [] server = "blob" -> BlobDrawn(d, path)

OnHop(r) == At(r, "asleep") /\ request[r].path = "hop"

(* A handler that has decided holds one of them, and only ChaosWeb sends   *)
(* its clients on to other URLs, which it caps.                            *)
DecisionIsDrawn(r) ==
  /\ At(r, "asleep") /\ request[r].path # "hop" => IsDrawn(request[r].decision, request[r].path)
  /\ OnHop(r) =>
       server = "web" /\ 1 <= request[r].url[1] /\ request[r].url[1] <= request[r].url[2]
  /\ At(r, "follow") => server = "web"
  /\ At(r, "body") => server # "web"
  /\ At(r, "idle") \/ At(r, "body") => request[r].path # "hop"
  /\ At(r, "body") /\ server = "blob" => BlobDrawn(request[r].decision, request[r].path)

-----------------------------------------------------------------------------
(* A reply that is served agrees with its row, and the row is counted.     *)

DroppedErrors ==
  [llm |-> {}, web |-> WebConnectionTags \ {"timeout"},
   blob |-> {"connection_reset", "connection_stall", "wrong_content_length"}][server]

(* Agrees, as each server does it.                                         *)
AgreesInDetail(row, reply) ==
  /\ \/ row.status = reply.status
     \/ row.status = NoStatus /\ IF server = "llm" THEN reply.status = 503 ELSE reply.kind = "dropped"
  /\ reply.kind = "dropped" <=> row.error \in DroppedErrors
  /\ reply.hops # NoHops => row.hops = reply.hops
  /\ reply.location # NoUrl => row.hops \in {reply.location[1] - 1, reply.location[2]}

Counted(row) ==
  /\ Cardinality(Counters(row)) <= 1
  /\ Counters(row) = {} => server = "web" /\ Between(row.status, 400, 500)
  /\ "success" \in Counters(row) <=> row.outcome = "success"
  /\ "unclassified" \in Counters(row) => server = "blob" /\ row.error \in Refusals

(* A location that is followed is one of a loop, and belongs to a reply    *)
(* that is served and reports no hops.                                     *)
Followed(reply) ==
  reply.location # NoUrl =>
    /\ server = "web" /\ reply.served /\ reply.hops = NoHops /\ reply.status = 301
    /\ 1 <= reply.location[1] /\ reply.location[1] <= reply.location[2]

(* Before its last reply a visit has a row for every reply. *)
RowsAreComplete(r) ==
  /\ At(r, "idle") => sent[r] = <<>>
  /\ ~lost[r] /\ request[r].stage \notin {"reply", "answered"} => Len(rows[r]) = Len(sent[r])

RowsMatch(r) ==
  ~lost[r] =>
    /\ DOMAIN rows[r] = {i \in DOMAIN Replies(r) : server = "blob" \/ Replies(r)[i].served}
    /\ \A i \in DOMAIN rows[r] : AgreesInDetail(rows[r][i], Replies(r)[i])

RowsOf(r) ==
  /\ DecisionIsDrawn(r)
  /\ At(r, "reply") => Followed(request[r].reply)
  /\ RowsAreComplete(r) /\ RowsMatch(r)
  /\ \A i \in DOMAIN rows[r] : Counted(rows[r][i])

RowsInv == Typed /\ \A r \in Requests : RowsOf(r)

-----------------------------------------------------------------------------
(* The length of redirect loops. *)

(* The redirects that a decision, a reply or a URL can still lead to.      *)
OfDecision(d) ==
  IF d.category # "redirect" THEN 0 ELSE IF d.tag = "redirect_loop" THEN d.hops ELSE 1

OfUrl(url) == url[2] - url[1]

OfReply(reply) ==
  (IF reply.status = 301 THEN 1 ELSE 0) + (IF reply.location = NoUrl THEN 0 ELSE OfUrl(reply.location))

Ahead(r) ==
  CASE At(r, "asleep") /\ request[r].path # "hop" -> OfDecision(request[r].decision)
    [] At(r, "asleep") /\ request[r].path = "hop" -> OfUrl(request[r].url)
    [] At(r, "reply") -> OfReply(request[r].reply)
    [] At(r, "follow") -> OfUrl(request[r].url)
    [] OTHER -> 0

Redirects(r, i) == {j \in i..Len(sent[r]) : sent[r][j].status = 301}

(* No request's limit is exceeded by what came and what may come. *)
LoopIsLimited(r) ==
  \A i \in DOMAIN limits[r] : Cardinality(Redirects(r, i)) + Ahead(r) <= limits[r][i]

(* A request that takes a snapshot meets a limit of its own. *)
LimitIsFresh(r) ==
  /\ At(r, "idle") => limits[r] = <<>>
  /\ request[r].stage \in {"body", "asleep"} => Len(sent[r]) < Len(limits[r])
  /\ At(r, "reply") /\ request[r].reply.location # NoUrl => Len(sent[r]) < Len(limits[r])
  /\ At(r, "follow") => Len(sent[r]) <= Len(limits[r])

(* The URL of a hop, once the server has named it. *)
HopIsWithin(r) ==
  At(r, "follow") /\ limits[r] # <<>> =>
    1 <= request[r].url[1] /\ request[r].url[1] <= request[r].url[2]

PageComesFirst(r) ==
  /\ At(r, "body") \/ (At(r, "asleep") /\ request[r].path # "hop") => sent[r] = <<>>
  /\ At(r, "follow") /\ sent[r] # <<>> => Last(sent[r]).hops = NoHops

Unlowered(r) == \A i \in DOMAIN limits[r] : limits[r][i] >= sent[r][1].location[2]

(* A loop that a page advertised is nowhere longer, and no shorter unless  *)
(* a limit was.                                                            *)
OnItsWay(r, n, url) ==
  LET advertised == sent[r][1].location[2]
  IN  /\ url[1] <= n
      /\ OfUrl(url) <= advertised - n
      /\ Unlowered(r) => url = <<n, advertised>>

AtItsEnd(r, n, reported) ==
  LET advertised == sent[r][1].location[2]
  IN  /\ reported <= n /\ n <= advertised
      /\ Unlowered(r) => reported = advertised /\ n = advertised

LoopIsAsAdvertised(r) ==
  Advertised(r) =>
    /\ At(r, "follow") \/ OnHop(r) => OnItsWay(r, Len(sent[r]), request[r].url)
    /\ At(r, "reply") /\ request[r].reply.location # NoUrl =>
         OnItsWay(r, Len(sent[r]) + 1, request[r].reply.location)
    /\ At(r, "reply") /\ request[r].reply.hops # NoHops =>
         AtItsEnd(r, Len(sent[r]), request[r].reply.hops)
    /\ At(r, "answered") /\ Last(sent[r]).hops # NoHops =>
         AtItsEnd(r, Len(sent[r]) - 1, Last(sent[r]).hops)

ChainOf(r) ==
  /\ LoopIsLimited(r) /\ LimitIsFresh(r) /\ HopIsWithin(r) /\ PageComesFirst(r)
  /\ LoopIsAsAdvertised(r)

ChainInv == RowsInv /\ \A r \in Requests : ChainOf(r)
-----------------------------------------------------------------------------
(* The tables. *)

LEMMA TagsOfTables ==
  /\ "none" \in AllTags /\ "slow_response" \in AllTags
  /\ LlmConnectionTags \subseteq AllTags /\ LlmMalformedTags \subseteq AllTags
  /\ DOMAIN LlmHttpStatus \subseteq AllTags
  /\ WebConnectionTags \subseteq AllTags /\ WebMalformedTags \subseteq AllTags
  /\ WebRedirectTags \subseteq AllTags /\ DOMAIN WebHttpStatus \subseteq AllTags
  /\ BlobConnectionTags \subseteq AllTags /\ DOMAIN BlobHttpStatus \subseteq AllTags
  /\ \A op \in BlobOperations : BlobCorruptionTags[op] \subseteq AllTags
BY Zenon DEF AllTags

LEMMA LlmTags ==
  Tags(LlmPriority) \subseteq
    LlmConnectionTags \cup {"slow_response"} \cup LlmMalformedTags
      \cup {"rate_limit", "capacity_529", "service_unavailable", "bad_gateway",
            "gateway_timeout", "internal_error", "forbidden", "not_found"}
BY DEF Tags, LlmPriority, LlmConnectionTags, LlmMalformedTags

LEMMA WebTags ==
  Tags(WebPriority) \subseteq
    WebConnectionTags \cup {"slow_response"} \cup WebMalformedTags \cup WebRedirectTags
      \cup {"rate_limit", "forbidden", "not_found", "gone", "payment_required",
            "unavailable_for_legal", "service_unavailable", "bad_gateway", "gateway_timeout",
            "internal_error"}
BY DEF Tags, WebPriority, WebConnectionTags, WebMalformedTags, WebRedirectTags

LEMMA LlmStatuses ==
  ASSUME NEW tag \in {"rate_limit", "capacity_529", "service_unavailable", "bad_gateway",
                      "gateway_timeout", "internal_error", "forbidden", "not_found"}
  PROVE  LlmHttpStatus[tag] \in {429, 529, 503, 502, 504, 500, 403, 404} /\ tag \in DOMAIN LlmHttpStatus
BY DEF LlmHttpStatus

LEMMA WebStatuses ==
  ASSUME NEW tag \in {"rate_limit", "forbidden", "not_found", "gone", "payment_required",
                      "unavailable_for_legal", "service_unavailable", "bad_gateway",
                      "gateway_timeout", "internal_error"}
  PROVE  /\ WebHttpStatus[tag] \in {429, 403, 404, 410, 402, 451, 503, 502, 504, 500}
         /\ tag \in DOMAIN WebHttpStatus
BY DEF WebHttpStatus

LEMMA BlobStatuses ==
  /\ DOMAIN BlobHttpStatus = {"slow_down", "access_denied", "not_found", "service_unavailable",
                              "internal_error", "bad_gateway", "gateway_timeout"}
  /\ \A tag \in DOMAIN BlobHttpStatus : BlobHttpStatus[tag] \in {503, 403, 404, 500, 502, 504}
  /\ \A tag \in DOMAIN BlobHttpStatus :
       BlobHttpStatus[tag] \notin {404, 403} => tag \notin {"not_found", "access_denied"}
BY DEF BlobHttpStatus

LEMMA BlobCorruptions ==
  ASSUME NEW path \in BlobOperations, NEW tag \in BlobCorruptionTags[path]
  PROVE  /\ tag \in {"truncated_body", "wrong_content_length", "checksum_mismatch",
                     "metadata_corruption", "stale_list", "malformed_xml"}
         /\ path # "delete"
BY DEF BlobOperations, BlobCorruptionTags

LEMMA LlmDecisionIsDrawn ==
  ASSUME NEW c, NEW d \in {Success} \cup UNION {LlmDecisions(t) : t \in Drawn(LlmPriority, c)}
  PROVE  d \in AllDecisions /\ LlmDrawn(d)
<1>1. CASE d = Success
  BY <1>1, TagsOfTables DEF Success, Decision, AllDecisions, Categories, LlmDrawn, NoStatus
<1>2. ASSUME NEW t \in Tags(LlmPriority), d \in LlmDecisions(t)
      PROVE  d \in AllDecisions /\ LlmDrawn(d)
  <2>1. CASE t = "slow_response"
    BY <1>2, <2>1, TagsOfTables DEF LlmDecisions, Decision, AllDecisions, Categories, LlmDrawn, NoStatus
  <2>2. CASE t # "slow_response" /\ t \in LlmConnectionTags
    <3>1. d \in {Decision(t, "connection", NoStatus, 0), Decision(t, "connection", 504, 0)}
      BY <1>2, <2>2 DEF LlmDecisions
    <3>2. QED
      BY <2>2, <3>1, TagsOfTables DEF Decision, AllDecisions, Categories, LlmDrawn, NoStatus, LlmConnectionTags
  <2>3. CASE t # "slow_response" /\ t \notin LlmConnectionTags /\ t \in LlmMalformedTags
    <3>1. d = Decision(t, "malformed", 200, 0)
      BY <1>2, <2>3 DEF LlmDecisions
    <3>2. QED
      BY <2>3, <3>1, TagsOfTables DEF Decision, AllDecisions, Categories, LlmDrawn, LlmMalformedTags
  <2>4. CASE t # "slow_response" /\ t \notin LlmConnectionTags /\ t \notin LlmMalformedTags
    <3>1. d = Decision(t, "http", LlmHttpStatus[t], 0)
      BY <1>2, <2>4 DEF LlmDecisions
    <3>2. t \in {"rate_limit", "capacity_529", "service_unavailable", "bad_gateway",
                 "gateway_timeout", "internal_error", "forbidden", "not_found"}
      BY <2>4, LlmTags
    <3>3. LlmHttpStatus[t] \in {429, 529, 503, 502, 504, 500, 403, 404} /\ t \in DOMAIN LlmHttpStatus
      BY <3>2, LlmStatuses
    <3>4. QED
      BY <2>4, <3>1, <3>2, <3>3, TagsOfTables DEF Decision, AllDecisions, Categories, LlmDrawn
  <2>5. QED
    BY <2>1, <2>2, <2>3, <2>4
<1>3. QED
  BY <1>1, <1>2 DEF Drawn

LEMMA WebDecisionIsDrawn ==
  ASSUME NEW c, c.maxHops \in Nat,
         NEW d \in {Success} \cup UNION {WebDecisions(t, c.maxHops) : t \in Drawn(WebPriority, c)}
  PROVE  d \in AllDecisions /\ WebDrawn(d) /\ (d.tag = "redirect_loop" => d.hops <= c.maxHops)
<1> DEFINE Goal == d \in AllDecisions /\ WebDrawn(d) /\ (d.tag = "redirect_loop" => d.hops <= c.maxHops)
<1>1. ASSUME d = Success
      PROVE  Goal
  BY <1>1, TagsOfTables DEF Success, Decision, AllDecisions, Categories, WebDrawn, NoStatus
<1>2. ASSUME NEW t \in Tags(WebPriority), d \in WebDecisions(t, c.maxHops)
      PROVE  Goal
  <2>1. ASSUME t = "slow_response"
        PROVE  Goal
    BY <1>2, <2>1, TagsOfTables DEF WebDecisions, Decision, AllDecisions, Categories, WebDrawn, NoStatus
  <2>2. ASSUME t # "slow_response", t \in WebConnectionTags
        PROVE  Goal
    <3>1. d = Decision(t, "connection", NoStatus, 0)
      BY <1>2, <2>2 DEF WebDecisions
    <3>2. QED
      BY <2>2, <3>1, TagsOfTables DEF Decision, AllDecisions, Categories, WebDrawn, NoStatus, WebConnectionTags
  <2>3. ASSUME t # "slow_response", t \notin WebConnectionTags, t \in WebMalformedTags
        PROVE  Goal
    <3>1. d = Decision(t, "malformed", 200, 0)
      BY <1>2, <2>3 DEF WebDecisions
    <3>2. QED
      BY <2>3, <3>1, TagsOfTables DEF Decision, AllDecisions, Categories, WebDrawn, WebMalformedTags
  <2>4. ASSUME t = "ssrf_redirect"
        PROVE  Goal
    <3>1. d = Decision(t, "redirect", 301, 0)
      BY <1>2, <2>4 DEF WebDecisions, WebConnectionTags, WebMalformedTags
    <3>2. QED
      BY <2>4, <3>1, TagsOfTables DEF Decision, AllDecisions, Categories, WebDrawn, WebRedirectTags
  <2>5. ASSUME t = "redirect_loop"
        PROVE  Goal
    <3>1. PICK h \in MinLoopHops..c.maxHops : d = Decision(t, "redirect", 301, h)
      BY <1>2, <2>5 DEF WebDecisions, WebConnectionTags, WebMalformedTags
    <3>2. QED
      BY <2>5, <3>1, TagsOfTables DEF Decision, AllDecisions, Categories, WebDrawn, WebRedirectTags, MinLoopHops
  <2>6. ASSUME t # "slow_response", t \notin WebConnectionTags, t \notin WebMalformedTags,
               t \notin WebRedirectTags
        PROVE  Goal
    <3>1. d = Decision(t, "http", WebHttpStatus[t], 0)
      BY <1>2, <2>6 DEF WebDecisions, WebRedirectTags
    <3>2. t \in {"rate_limit", "forbidden", "not_found", "gone", "payment_required",
                 "unavailable_for_legal", "service_unavailable", "bad_gateway",
                 "gateway_timeout", "internal_error"}
      BY <2>6, WebTags
    <3>3. /\ WebHttpStatus[t] \in {429, 403, 404, 410, 402, 451, 503, 502, 504, 500}
          /\ t \in DOMAIN WebHttpStatus
      BY <3>2, WebStatuses
    <3>4. QED
      BY <2>6, <3>1, <3>2, <3>3, TagsOfTables DEF Decision, AllDecisions, Categories, WebDrawn, WebRedirectTags
  <2>7. QED
    BY <2>1, <2>2, <2>3, <2>4, <2>5, <2>6 DEF WebRedirectTags
<1>3. QED
  BY <1>1, <1>2 DEF Drawn

LEMMA BlobDecisionIsDrawn ==
  ASSUME NEW op \in BlobOperations, NEW d \in {Success} \cup {BlobDecision(t) : t \in BlobTags(op)}
  PROVE  d \in AllDecisions /\ BlobDrawn(d, op)
<1>1. CASE d = Success
  BY <1>1, TagsOfTables DEF Success, Decision, AllDecisions, Categories, BlobDrawn, NoStatus
<1>2. ASSUME NEW t \in BlobTags(op), d = BlobDecision(t)
      PROVE  d \in AllDecisions /\ BlobDrawn(d, op)
  <2>1. CASE t \in BlobConnectionTags
    BY <1>2, <2>1, TagsOfTables DEF BlobDecision, Decision, AllDecisions, Categories, BlobDrawn, NoStatus, BlobConnectionTags
  <2>2. CASE t \notin BlobConnectionTags /\ t \in DOMAIN BlobHttpStatus
    <3>1. d = Decision(t, "http", BlobHttpStatus[t], 0)
      BY <1>2, <2>2 DEF BlobDecision
    <3>2. BlobHttpStatus[t] \in Int
      BY <2>2, BlobStatuses
    <3>3. QED
      BY <2>2, <3>1, <3>2, TagsOfTables DEF Decision, AllDecisions, Categories, BlobDrawn
  <2>3. CASE t \notin BlobConnectionTags /\ t \notin DOMAIN BlobHttpStatus
    <3>1. d = Decision(t, "corruption", NoStatus, 0)
      BY <1>2, <2>3 DEF BlobDecision
    <3>2. t \in BlobCorruptionTags[op]
      BY <2>3 DEF BlobTags
    <3>3. t \in AllTags
      BY <3>2, TagsOfTables
    <3>4. QED
      BY <3>1, <3>2, <3>3, TagsOfTables DEF Decision, AllDecisions, Categories, BlobDrawn, NoStatus
  <2>4. QED
    BY <2>1, <2>2, <2>3
<1>3. QED
  BY <1>1, <1>2
-----------------------------------------------------------------------------
(* Rows and their counters. *)

LEMMA LlmCounts ==
  ASSUME server = "llm", NEW row \in AllRows,
         \/ row.outcome = "success" /\ row.status = 200 /\ row.error \notin LlmConnectionTags
         \/ row.outcome = "error_malformed" /\ row.status = 200 /\ row.error \notin LlmConnectionTags
         \/ /\ row.outcome = "error_injected" /\ row.error \notin LlmConnectionTags
            /\ row.status \in {429, 529, 503, 502, 504, 500, 403, 404}
         \/ /\ row.outcome = "error_injected" /\ row.error \in LlmConnectionTags
            /\ row.status \in {NoStatus, 504}
  PROVE  Counted(row)
<1> DEFINE counter ==
      IF row.outcome = "success" THEN "success"
      ELSE IF row.outcome = "error_malformed" THEN "malformed"
      ELSE IF row.error \in LlmConnectionTags THEN "connection_error"
      ELSE IF row.status = 429 THEN "rate_limited"
      ELSE IF row.status = 529 THEN "capacity_error"
      ELSE IF row.status \in {403, 404} THEN "client_error" ELSE "server_error"
<1>1. LlmCounters(row) = {counter}
  BY DEF LlmCounters, Between, NoStatus
<1>2. Counters(row) = {counter}
  BY <1>1 DEF Counters
<1>3. Cardinality({counter}) = 1
  <2> HIDE DEF counter
  <2> QED
    BY FS_Singleton
<1>4. "success" = counter <=> row.outcome = "success"
  OBVIOUS
<1>5. counter # "unclassified"
  OBVIOUS
<1>6. QED
  BY <1>2, <1>3, <1>4, <1>5 DEF Counted

LEMMA WebCounts ==
  ASSUME server = "web", NEW row \in AllRows,
         \/ row.outcome = "success" /\ row.status = 200 /\ row.error \notin WebConnectionTags
         \/ row.outcome = "error_malformed" /\ row.status = 200 /\ row.error \notin WebConnectionTags
         \/ /\ row.outcome \in {"error_redirect", "redirect_loop_terminated"}
            /\ row.status \in {200, 301} /\ row.error \notin WebConnectionTags
         \/ /\ row.outcome = "error_injected" /\ row.error \notin WebConnectionTags
            /\ row.status \in {429, 403, 404, 410, 402, 451, 503, 502, 504, 500}
         \/ /\ row.outcome = "error_injected" /\ row.error \in WebConnectionTags
            /\ row.status \in {NoStatus, 200, 504}
  PROVE  Counted(row)
<1> DEFINE counter ==
      IF row.outcome = "success" THEN "success"
      ELSE IF row.outcome = "error_malformed" THEN "malformed"
      ELSE IF row.outcome # "error_injected" THEN "redirect"
      ELSE IF row.error \in WebConnectionTags THEN "connection_error"
      ELSE IF row.status = 429 THEN "rate_limited"
      ELSE IF row.status = 403 THEN "forbidden"
      ELSE IF row.status = 404 THEN "not_found" ELSE "server_error"
<1>1. WebCounters(row) = IF row.status \in {402, 410, 451} THEN {} ELSE {counter}
  BY DEF WebCounters, WebServerError, Between, NoStatus
<1>2. Counters(row) = IF row.status \in {402, 410, 451} THEN {} ELSE {counter}
  BY <1>1 DEF Counters
<1>3. Cardinality({counter}) = 1 /\ Cardinality({}) = 0
  <2> HIDE DEF counter
  <2> QED
    BY FS_Singleton, FS_EmptySet
<1>4. /\ "success" = counter <=> row.outcome = "success"
      /\ row.status \in {402, 410, 451} => row.outcome # "success"
  BY DEF NoStatus
<1>5. /\ counter # "unclassified"
      /\ row.status \in {402, 410, 451} => Between(row.status, 400, 500)
  BY DEF Between
<1>6. CASE row.status \in {402, 410, 451}
  BY <1>2, <1>3, <1>4, <1>5, <1>6 DEF Counted
<1>7. CASE row.status \notin {402, 410, 451}
  BY <1>2, <1>3, <1>4, <1>5, <1>7 DEF Counted
<1>8. QED
  BY <1>6, <1>7

(* The classes of a row are tried in their order. *)
LEMMA FirstClass ==
  ASSUME NEW row, NEW k \in 1..9, BlobClasses(row)[k][2],
         \A j \in 1..(k - 1) : ~BlobClasses(row)[j][2]
  PROVE  BlobCounter(row) = BlobClasses(row)[k][1]
<1> DEFINE classes == BlobClasses(row)
           IsFirst(i) == classes[i][2] /\ \A j \in 1..(i - 1) : ~classes[j][2]
<1>1. DOMAIN classes = 1..9
  BY DEF BlobClasses
<1>2. IsFirst(k) /\ k \in DOMAIN classes
  BY <1>1
<1>3. \A i \in DOMAIN classes : IsFirst(i) => i = k
  <2>1. ASSUME NEW i \in DOMAIN classes, IsFirst(i), i < k
        PROVE  FALSE
    BY <1>1, <2>1
  <2>2. ASSUME NEW i \in DOMAIN classes, IsFirst(i), k < i
        PROVE  FALSE
    BY <1>1, <2>2
  <2>3. QED
    BY <1>1, <2>1, <2>2
<1>4. (CHOOSE i \in DOMAIN classes : IsFirst(i)) = k
  BY <1>2, <1>3
<1>5. QED
  BY <1>4 DEF BlobCounter

LEMMA BlobCounts ==
  ASSUME server = "blob", NEW row \in AllRows,
         \/ row.outcome = "success" /\ row.status \in {200, 204} /\ row.error = "none"
         \/ /\ row.outcome = "error_injected" /\ row.status \in {400, 413}
            /\ row.error \in Refusals
         \/ row.outcome = "error_injected" /\ row.status = 404 /\ row.error = "NoSuchKey"
         \/ /\ row.outcome = "error_injected" /\ row.error \in DOMAIN BlobHttpStatus
            /\ row.status = BlobHttpStatus[row.error]
         \/ /\ row.outcome = "error_injected" /\ row.error \in BlobConnectionTags
            /\ row.status = BlobConnectionStatus[row.error]
         \/ /\ row.outcome = "error_corrupted" /\ row.status = 200
            /\ row.error \in BlobCorruptionRows \cup {"stale_list"}
  PROVE  Counted(row) /\ Coherent(row)
<1> DEFINE class(k) == BlobClasses(row)[k][2]
<1>1. /\ class(1) <=> (row.error = "slow_down")
      /\ class(2) <=> (row.error \in {"timeout", "connection_reset", "connection_stall"})
      /\ class(3) <=> (row.error = "stale_list")
      /\ class(4) <=> (row.status = 404 \/ row.error \in {"not_found", "NoSuchKey"})
      /\ class(5) <=> (row.outcome = "error_corrupted" \/ row.error \in BlobCorruptionRows)
      /\ class(6) <=> (row.status = 403 \/ row.error = "access_denied")
      /\ class(7) <=> Between(row.status, 500, 600)
      /\ class(8) <=> (row.outcome = "success")
      /\ class(9)
  BY DEF BlobClasses
<1>2. /\ BlobClasses(row)[1][1] = "slow_down" /\ BlobClasses(row)[2][1] = "connection_error"
      /\ BlobClasses(row)[3][1] = "stale_list" /\ BlobClasses(row)[4][1] = "not_found"
      /\ BlobClasses(row)[5][1] = "corrupted" /\ BlobClasses(row)[6][1] = "access_denied"
      /\ BlobClasses(row)[7][1] = "server_error" /\ BlobClasses(row)[8][1] = "success"
      /\ BlobClasses(row)[9][1] = "unclassified"
  BY DEF BlobClasses
<1> HIDE DEF class
<1>3. ASSUME NEW k \in 1..9, class(k), \A j \in 1..(k - 1) : ~class(j)
      PROVE  BlobCounter(row) = BlobClasses(row)[k][1]
  BY <1>3, FirstClass DEF class
<1> DEFINE Errors == {"slow_down", "connection_error", "stale_list", "not_found", "corrupted",
                      "access_denied", "server_error"}
<1>4. (\E k \in 1..7 : class(k)) => BlobCounter(row) \in Errors
  <2>1. \A k \in 1..7 : BlobClasses(row)[k][1] \in Errors
    BY <1>2
  <2>2. ASSUME NEW k \in 1..7, class(k)
        PROVE  \E i \in 1..7 : class(i) /\ \A j \in 1..(i - 1) : ~class(j)
    <3>1. CASE class(1)
      BY <3>1
    <3>2. CASE ~class(1) /\ class(2)
      BY <3>2
    <3>3. CASE ~class(1) /\ ~class(2) /\ class(3)
      BY <3>3
    <3>4. CASE ~class(1) /\ ~class(2) /\ ~class(3) /\ class(4)
      BY <3>4
    <3>5. CASE ~class(1) /\ ~class(2) /\ ~class(3) /\ ~class(4) /\ class(5)
      BY <3>5
    <3>6. CASE ~class(1) /\ ~class(2) /\ ~class(3) /\ ~class(4) /\ ~class(5) /\ class(6)
      BY <3>6
    <3>7. CASE /\ ~class(1) /\ ~class(2) /\ ~class(3) /\ ~class(4) /\ ~class(5) /\ ~class(6)
               /\ class(7)
      BY <3>7
    <3>8. QED
      BY <2>2, <3>1, <3>2, <3>3, <3>4, <3>5, <3>6, <3>7
  <2>3. \A i \in 1..7 : class(i) /\ (\A j \in 1..(i - 1) : ~class(j)) => BlobCounter(row) \in Errors
    BY <1>3, <2>1
  <2>4. QED
    BY <2>2, <2>3
<1> DEFINE NoErrorClass == /\ ~class(1) /\ ~class(2) /\ ~class(3) /\ ~class(4) /\ ~class(5) /\ ~class(6) /\ ~class(7)
<1>5. NoErrorClass /\ class(8) => BlobCounter(row) = "success"
  <2>1. NoErrorClass => \A j \in 1..7 : ~class(j)
    OBVIOUS
  <2>2. QED
    BY <1>2, <1>3, <2>1
<1>6. NoErrorClass /\ ~class(8) => BlobCounter(row) = "unclassified"
  <2>1. NoErrorClass /\ ~class(8) => \A j \in 1..8 : ~class(j)
    OBVIOUS
  <2>2. QED
    BY <1>1, <1>2, <1>3, <2>1
<1>7. Counters(row) = {BlobCounter(row)} /\ Cardinality(Counters(row)) = 1
  <2>1. Counters(row) = {BlobCounter(row)}
    BY DEF Counters
  <2>2. Cardinality({BlobCounter(row)}) = 1
    BY FS_Singleton
  <2>3. QED
    BY <2>1, <2>2
<1>8. CASE row.outcome = "success" /\ row.status \in {200, 204} /\ row.error = "none"
  <2>1. NoErrorClass /\ class(8)
    BY <1>1, <1>8 DEF Between, BlobCorruptionRows
  <2>2. QED
    BY <1>5, <1>7, <1>8, <2>1 DEF Counted, Coherent, Between
<1>9. CASE /\ row.outcome = "error_injected" /\ row.status \in {400, 413}
           /\ row.error \in Refusals
  <2>1. NoErrorClass /\ ~class(8)
    BY <1>1, <1>9 DEF Between, BlobCorruptionRows, Refusals
  <2>2. BlobCounter(row) # "success" /\ row.outcome # "success" /\ row.error # "none"
    BY <1>6, <1>9, <2>1 DEF Refusals
  <2>3. QED
    BY <1>7, <1>9, <2>2 DEF Counted, Coherent
<1>10. ASSUME \E k \in 1..7 : class(k), row.outcome # "success", row.error # "none"
       PROVE  Counted(row) /\ Coherent(row)
  <2>1. BlobCounter(row) \in Errors
    BY <1>4, <1>10
  <2>2. BlobCounter(row) # "success" /\ BlobCounter(row) # "unclassified"
    BY <2>1
  <2>3. QED
    BY <1>7, <1>10, <2>2 DEF Counted, Coherent
<1>11. CASE row.outcome = "error_injected" /\ row.status = 404 /\ row.error = "NoSuchKey"
  <2>1. class(4)
    BY <1>1, <1>11
  <2>2. QED
    BY <1>10, <1>11, <2>1
<1>12. CASE /\ row.outcome = "error_injected" /\ row.error \in DOMAIN BlobHttpStatus
            /\ row.status = BlobHttpStatus[row.error]
  <2>1. row.status \in {503, 403, 404, 500, 502, 504}
    BY <1>12, BlobStatuses
  <2>2. class(4) \/ class(6) \/ class(7)
    BY <1>1, <2>1 DEF Between
  <2>3. row.error # "none"
    BY <1>12, BlobStatuses
  <2>4. QED
    BY <1>10, <1>12, <2>1, <2>2, <2>3
<1>13. CASE /\ row.outcome = "error_injected" /\ row.error \in BlobConnectionTags
            /\ row.status = BlobConnectionStatus[row.error]
  <2>1. row.status \in {504, 503, 200} /\ (row.error = "slow_response" => row.status = 503)
    BY <1>13 DEF BlobConnectionStatus, BlobConnectionTags
  <2>2. class(2) \/ class(7)
    BY <1>1, <1>13, <2>1 DEF Between, BlobConnectionTags
  <2>3. row.error # "none"
    BY <1>13 DEF BlobConnectionTags
  <2>4. QED
    BY <1>10, <1>13, <2>1, <2>2, <2>3
<1>14. CASE /\ row.outcome = "error_corrupted" /\ row.status = 200
            /\ row.error \in BlobCorruptionRows \cup {"stale_list"}
  <2>1. class(5)
    BY <1>1, <1>14
  <2>2. row.error # "none"
    BY <1>14 DEF BlobCorruptionRows
  <2>3. QED
    BY <1>10, <1>14, <2>1, <2>2
<1>15. QED
  BY <1>8, <1>9, <1>11, <1>12, <1>13, <1>14

-----------------------------------------------------------------------------
(* What the handlers record and reply. *)

(* The row and the reply of one exchange fit each other. *)
Fits(row, reply) ==
  /\ row \in AllRows /\ reply \in AllReplies /\ reply.served
  /\ AgreesInDetail(row, reply) /\ Followed(reply) /\ Counted(row)
  /\ server = "blob" => Coherent(row)

(* A hop leads to the next one or to the end of the loop, a page at most   *)
(* to the first hop of a loop that its decision allows.                    *)
Leads(r, reply) ==
  IF OnHop(r)
  THEN LET hop == request[r].url[1]
           max == request[r].url[2]
       IN  \/ /\ hop < max /\ reply.location = <<hop + 1, max>>
              /\ reply.status = 301 /\ reply.hops = NoHops
           \/ /\ ~(hop < max) /\ reply.location = NoUrl
              /\ reply.status = 200 /\ reply.hops = hop
  ELSE /\ reply.hops = NoHops
       /\ reply.location # NoUrl => reply.location[1] = 1
       /\ OfReply(reply) <= Ahead(r)

(* The end of a handler that records. *)
Answers(r) ==
  \E row, reply : Fits(row, reply) /\ Leads(r, reply) /\ RecordAndReply(r, row, reply)

LEMMA DropsOfServers ==
  /\ server = "llm" => DroppedErrors = {}
  /\ server = "web" => DroppedErrors = WebConnectionTags \ {"timeout"}
  /\ server = "blob" => DroppedErrors = {"connection_reset", "connection_stall", "wrong_content_length"}
BY DEF DroppedErrors

(* A decision never promises less than nothing. *)
LEMMA DecisionAhead ==
  ASSUME Typed, NEW r \in Requests, DecisionIsDrawn(r), At(r, "asleep"), request[r].path # "hop"
  PROVE  OfDecision(request[r].decision) >= 0
<1>1. server \in {"llm", "web", "blob"}
  BY ServingAssumption DEF Typed, ServingAssumption
<1>2. CASE server = "llm"
  BY <1>2 DEF DecisionIsDrawn, IsDrawn, LlmDrawn, OfDecision
<1>3. CASE server = "web"
  BY <1>3 DEF DecisionIsDrawn, IsDrawn, WebDrawn, OfDecision
<1>4. CASE server = "blob"
  BY <1>4 DEF DecisionIsDrawn, IsDrawn, BlobDrawn, OfDecision, Success, Decision
<1>5. QED
  BY <1>1, <1>2, <1>3, <1>4

LEMMA PlainReply ==
  ASSUME Typed, NEW r \in Requests, DecisionIsDrawn(r),
         At(r, "idle") \/ At(r, "body") \/ (At(r, "asleep") /\ request[r].path # "hop"),
         NEW status \in Int, status # 301, NEW reply \in {Http(status), Dropped(status)}
  PROVE  reply \in AllReplies /\ reply.served /\ Followed(reply) /\ Leads(r, reply)
<1>1. reply \in AllReplies
  <2>1. NoUrl \in Urls
    BY DEF NoUrl, Urls
  <2>2. \A kind \in {"http", "dropped"} : Reply(kind, status, NoUrl, NoHops, TRUE) \in AllReplies
    BY <2>1 DEF Reply, AllReplies, NoHops
  <2>3. QED
    BY <2>2 DEF Http, Dropped
<1>2. reply.location = NoUrl /\ reply.hops = NoHops /\ reply.status = status /\ reply.served
  BY DEF Http, Dropped, Reply
<1>3. Followed(reply)
  BY <1>2 DEF Followed
<1>4. OfReply(reply) = 0
  BY <1>2 DEF OfReply
<1>5. Ahead(r) >= 0
  BY DecisionAhead DEF Ahead, At
<1>6. Leads(r, reply)
  BY <1>2, <1>4, <1>5 DEF Leads, OnHop, At
<1>7. QED
  BY <1>1, <1>2, <1>3, <1>6

LEMMA SuccessAnswers ==
  ASSUME Typed, NEW r \in Requests, DecisionIsDrawn(r), HandleSuccess(r)
  PROVE  Answers(r)
<1> DEFINE row == Row("success", 200, "none", 0)
<1>1. /\ server \in {"llm", "web"} /\ At(r, "asleep") /\ request[r].path # "hop"
      /\ RecordAndReply(r, row, Http(200))
  BY ServingAssumption DEF HandleSuccess, Handling, Typed, ServingAssumption
<1>2. row \in AllRows
  BY TagsOfTables DEF Row, AllRows, Outcomes
<1>3. Counted(row)
  <2>1. CASE server = "llm"
    BY <1>2, <2>1, LlmCounts DEF Row, LlmConnectionTags
  <2>2. CASE server = "web"
    BY <1>2, <2>2, WebCounts DEF Row, WebConnectionTags
  <2>3. QED
    BY <1>1, <2>1, <2>2
<1>4. /\ Http(200) \in AllReplies /\ Http(200).served /\ Followed(Http(200))
      /\ Leads(r, Http(200))
  BY <1>1, PlainReply
<1>5. AgreesInDetail(row, Http(200))
  BY <1>1, DropsOfServers DEF AgreesInDetail, Row, Http, Reply, WebConnectionTags
<1>6. Fits(row, Http(200))
  BY <1>1, <1>2, <1>3, <1>4, <1>5 DEF Fits
<1>7. QED
  BY <1>1, <1>4, <1>6 DEF Answers

LEMMA BlobCategories ==
  ASSUME NEW d, NEW path, BlobDrawn(d, path)
  PROVE  /\ d.category \in {"success", "connection", "http", "corruption"}
         /\ d.category = "success" <=> d = Success
<1>1. Success.category = "success"
  BY DEF Success, Decision
<1>2. QED
  BY <1>1 DEF BlobDrawn

LEMMA HttpErrorAnswers ==
  ASSUME Typed, NEW r \in Requests, DecisionIsDrawn(r), HandleHttpError(r)
  PROVE  Answers(r)
<1> DEFINE d == request[r].decision
           row == Row("error_injected", d.status, d.tag, 0)
           reply == Http(d.status)
<1>1. /\ server \in {"llm", "web", "blob"} /\ d \in AllDecisions
      /\ At(r, "asleep") /\ request[r].path # "hop" /\ d.category = "http"
      /\ IsDrawn(d, request[r].path) /\ RecordAndReply(r, row, reply)
  BY ServingAssumption
     DEF HandleHttpError, Handling, DecisionIsDrawn, Typed, ServingAssumption, Handlers
<1>2. row \in AllRows
  BY <1>1 DEF Row, AllRows, Outcomes, AllDecisions
<1> DEFINE Goal == /\ Counted(row) /\ d.status # 301 /\ d.tag \notin DroppedErrors
                   /\ server = "blob" => Coherent(row)
<1>3. ASSUME server = "llm"
      PROVE  Goal
  <2>1. d.tag \notin LlmConnectionTags /\ d.status \in {429, 529, 503, 502, 504, 500, 403, 404}
    BY <1>1, <1>3 DEF IsDrawn, LlmDrawn
  <2>2. Counted(row)
    BY <1>2, <1>3, <2>1, LlmCounts DEF Row
  <2>3. QED
    BY <1>3, <2>1, <2>2, DropsOfServers
<1>4. ASSUME server = "web"
      PROVE  Goal
  <2>1. /\ d.tag \notin WebConnectionTags
        /\ d.status \in {429, 403, 404, 410, 402, 451, 503, 502, 504, 500}
    BY <1>1, <1>4 DEF IsDrawn, WebDrawn
  <2>2. Counted(row)
    BY <1>2, <1>4, <2>1, WebCounts DEF Row
  <2>3. QED
    BY <1>4, <2>1, <2>2, DropsOfServers
<1>5. ASSUME server = "blob"
      PROVE  Goal
  <2>1. d.tag \in DOMAIN BlobHttpStatus /\ d.status = BlobHttpStatus[d.tag]
    BY <1>1, <1>5 DEF IsDrawn, BlobDrawn, Success, Decision
  <2>2. Counted(row) /\ Coherent(row)
    BY <1>2, <1>5, <2>1, BlobCounts DEF Row
  <2>3. d.status # 301 /\ d.tag \notin DroppedErrors
    BY <1>5, <2>1, BlobStatuses, DropsOfServers
  <2>4. QED
    BY <2>2, <2>3
<1>6. Goal
  BY <1>1, <1>3, <1>4, <1>5
<1>7. reply \in AllReplies /\ reply.served /\ Followed(reply) /\ Leads(r, reply)
  BY <1>1, <1>6, PlainReply DEF AllDecisions
<1>8. AgreesInDetail(row, reply)
  BY <1>6 DEF AgreesInDetail, Row, Http, Reply, NoUrl
<1>9. Fits(row, reply)
  BY <1>2, <1>6, <1>7, <1>8 DEF Fits
<1>10. QED
  BY <1>1, <1>7, <1>9 DEF Answers

LEMMA MalformedAnswers ==
  ASSUME Typed, NEW r \in Requests, DecisionIsDrawn(r), HandleMalformed(r)
  PROVE  Answers(r)
<1> DEFINE d == request[r].decision
           row == Row("error_malformed", 200, d.tag, 0)
           reply == Http(200)
<1>1. /\ server \in {"llm", "web", "blob"} /\ d \in AllDecisions
      /\ At(r, "asleep") /\ request[r].path # "hop" /\ d.category = "malformed"
      /\ IsDrawn(d, request[r].path) /\ RecordAndReply(r, row, reply)
  BY ServingAssumption
     DEF HandleMalformed, Handling, DecisionIsDrawn, Typed, ServingAssumption, Handlers
<1>2. row \in AllRows
  BY <1>1 DEF Row, AllRows, Outcomes, AllDecisions
<1>3. server # "blob"
  BY <1>1, BlobCategories DEF IsDrawn
<1>4. CASE server = "llm"
  <2>1. d.tag \notin LlmConnectionTags
    BY <1>1, <1>4 DEF IsDrawn, LlmDrawn, LlmConnectionTags, LlmMalformedTags
  <2>2. Counted(row) /\ d.tag \notin DroppedErrors
    BY <1>2, <1>4, <2>1, LlmCounts, DropsOfServers DEF Row
  <2>3. AgreesInDetail(row, reply)
    BY <2>2 DEF AgreesInDetail, Row, Http, Reply, NoUrl
  <2>4. QED
    BY <1>1, <1>2, <1>3, <2>2, <2>3, PlainReply DEF Fits, Answers
<1>5. CASE server = "web"
  <2>1. d.tag \notin WebConnectionTags
    BY <1>1, <1>5 DEF IsDrawn, WebDrawn, WebConnectionTags, WebMalformedTags
  <2>2. Counted(row) /\ d.tag \notin DroppedErrors
    BY <1>2, <1>5, <2>1, WebCounts, DropsOfServers DEF Row
  <2>3. AgreesInDetail(row, reply)
    BY <2>2 DEF AgreesInDetail, Row, Http, Reply, NoUrl
  <2>4. QED
    BY <1>1, <1>2, <1>3, <2>2, <2>3, PlainReply DEF Fits, Answers
<1>6. QED
  BY <1>1, <1>3, <1>4, <1>5

LEMMA ConnectionErrorAnswers ==
  ASSUME Typed, NEW r \in Requests, DecisionIsDrawn(r), HandleConnectionError(r)
  PROVE  Answers(r)
<1> DEFINE d == request[r].decision
           status == CASE server = "llm" -> d.status
                       [] server = "web" -> WebConnectionStatus[d.tag]
                       [] server = "blob" -> BlobConnectionStatus[d.tag]
           row == Row("error_injected", status, d.tag, 0)
           reply == IF status \in {503, 504} THEN Http(status)
                    ELSE IF server = "llm" THEN Http(503) ELSE Dropped(200)
<1>1. /\ server \in {"llm", "web", "blob"} /\ d \in AllDecisions
      /\ At(r, "asleep") /\ request[r].path # "hop" /\ d.category = "connection"
      /\ IsDrawn(d, request[r].path)
  BY ServingAssumption
     DEF HandleConnectionError, Handling, DecisionIsDrawn, Typed, ServingAssumption, Handlers
<1>2. RecordAndReply(r, row, reply)
  BY DEF HandleConnectionError
<1> DEFINE Goal == /\ row \in AllRows /\ Counted(row) /\ AgreesInDetail(row, reply)
                   /\ \E s \in {200, 503, 504} : reply \in {Http(s), Dropped(s)}
                   /\ server = "blob" => Coherent(row)
<1>3. ASSUME server = "llm"
      PROVE  Goal
  <2>1. d.tag \in LlmConnectionTags /\ d.status \in {NoStatus, 504}
    BY <1>1, <1>3 DEF IsDrawn, LlmDrawn
  <2>2. status = d.status
    BY <1>3
  <2>3. row = Row("error_injected", d.status, d.tag, 0)
    BY <2>2
  <2>4. row \in AllRows
    BY <1>1, <2>3 DEF Row, AllRows, Outcomes, AllDecisions
  <2>5. Counted(row)
    BY <1>3, <2>1, <2>3, <2>4, LlmCounts DEF Row
  <2>6. reply = IF d.status = 504 THEN Http(504) ELSE Http(503)
    BY <1>3, <2>1, <2>2 DEF NoStatus
  <2>7. AgreesInDetail(row, reply)
    BY <1>3, <2>1, <2>3, <2>6, DropsOfServers DEF AgreesInDetail, Row, Http, Reply, NoUrl, NoHops
  <2>8. QED
    BY <1>3, <2>4, <2>5, <2>6, <2>7
<1>4. ASSUME server = "web"
      PROVE  Goal
  <2>1. d.tag \in WebConnectionTags
    BY <1>1, <1>4 DEF IsDrawn, WebDrawn
  <2>2. status = WebConnectionStatus[d.tag]
    BY <1>4
  <2>3. /\ WebConnectionStatus[d.tag] \in {NoStatus, 200, 504}
        /\ d.tag = "timeout" <=> WebConnectionStatus[d.tag] = 504
    BY <2>1 DEF WebConnectionStatus, WebConnectionTags, NoStatus
  <2>4. row = Row("error_injected", WebConnectionStatus[d.tag], d.tag, 0)
    BY <2>2
  <2>5. row \in AllRows
    BY <1>1, <2>3, <2>4 DEF Row, AllRows, Outcomes, AllDecisions, NoStatus
  <2>6. Counted(row)
    BY <1>4, <2>1, <2>3, <2>4, <2>5, WebCounts DEF Row
  <2>7. reply = IF d.tag = "timeout" THEN Http(504) ELSE Dropped(200)
    BY <1>4, <2>2, <2>3 DEF NoStatus
  <2>8. AgreesInDetail(row, reply)
    BY <1>4, <2>1, <2>3, <2>4, <2>7, DropsOfServers
       DEF AgreesInDetail, Row, Http, Dropped, Reply, NoUrl, NoHops
  <2>9. QED
    BY <1>4, <2>5, <2>6, <2>7, <2>8
<1>5. ASSUME server = "blob"
      PROVE  Goal
  <2>1. d.tag \in BlobConnectionTags
    BY <1>1, <1>5, BlobCategories DEF IsDrawn, BlobDrawn, Success, Decision
  <2>2. status = BlobConnectionStatus[d.tag]
    BY <1>5
  <2>3. /\ d.tag = "timeout" => BlobConnectionStatus[d.tag] = 504
        /\ d.tag = "slow_response" => BlobConnectionStatus[d.tag] = 503
        /\ d.tag \notin {"timeout", "slow_response"} => BlobConnectionStatus[d.tag] = 200
    BY <2>1 DEF BlobConnectionStatus, BlobConnectionTags
  <2>4. row = Row("error_injected", BlobConnectionStatus[d.tag], d.tag, 0)
    BY <2>2
  <2>5. row \in AllRows
    BY <1>1, <2>3, <2>4 DEF Row, AllRows, Outcomes, AllDecisions
  <2>6. Counted(row) /\ Coherent(row)
    BY <1>5, <2>1, <2>4, <2>5, BlobCounts DEF Row
  <2>7. reply = CASE d.tag = "timeout" -> Http(504) [] d.tag = "slow_response" -> Http(503)
                  [] OTHER -> Dropped(200)
    BY <1>5, <2>2, <2>3
  <2>8. AgreesInDetail(row, reply)
    BY <1>5, <2>1, <2>3, <2>4, <2>7, DropsOfServers
       DEF AgreesInDetail, Row, Http, Dropped, Reply, NoUrl, NoHops, BlobConnectionTags
  <2>9. QED
    BY <1>5, <2>5, <2>6, <2>7, <2>8
<1>6. Goal
  BY <1>1, <1>3, <1>4, <1>5
<1> HIDE DEF row, reply
<1>7. reply \in AllReplies /\ reply.served /\ Followed(reply) /\ Leads(r, reply)
  BY <1>1, <1>6, PlainReply
<1>8. QED
  BY <1>2, <1>6, <1>7 DEF Fits, Answers

(* A redirect to a private address is not followed; a loop begins at its   *)
(* first hop.                                                              *)
LEMMA RedirectAnswers ==
  ASSUME Typed, NEW r \in Requests, DecisionIsDrawn(r), HandleRedirect(r)
  PROVE  Answers(r)
<1> DEFINE d == request[r].decision
           row == Row("error_redirect", 301, d.tag, d.hops)
           reply == Redirect(IF d.tag = "redirect_loop" THEN <<1, d.hops>> ELSE NoUrl)
<1>1. /\ server \in {"llm", "web", "blob"} /\ d \in AllDecisions
      /\ At(r, "asleep") /\ request[r].path # "hop" /\ d.category = "redirect"
      /\ IsDrawn(d, request[r].path) /\ RecordAndReply(r, row, reply)
  BY ServingAssumption
     DEF HandleRedirect, Handling, DecisionIsDrawn, Typed, ServingAssumption, Handlers
<1>2. server = "web"
  BY <1>1, BlobCategories DEF IsDrawn, LlmDrawn
<1>3. d.tag = "ssrf_redirect" \/ (d.tag = "redirect_loop" /\ d.hops \in Nat \ {0})
  BY <1>1, <1>2 DEF IsDrawn, WebDrawn
<1>4. row \in AllRows
  BY <1>1 DEF Row, AllRows, Outcomes, AllDecisions
<1>5. Counted(row)
  BY <1>2, <1>3, <1>4, WebCounts DEF Row, WebConnectionTags
<1>6. d.tag \notin DroppedErrors
  BY <1>2, <1>3, DropsOfServers DEF WebConnectionTags
<1>7. ~OnHop(r) /\ Ahead(r) = OfDecision(d)
  BY <1>1 DEF OnHop, Ahead, At
<1>8. CASE d.tag = "ssrf_redirect"
  <2>1. reply = Reply("http", 301, NoUrl, NoHops, TRUE)
    BY <1>8 DEF Redirect
  <2>2. /\ reply.kind = "http" /\ reply.status = 301 /\ reply.location = NoUrl
        /\ reply.hops = NoHops /\ reply.served
    BY <2>1 DEF Reply
  <2>3. reply \in AllReplies
    <3>1. NoUrl \in Urls
      BY DEF NoUrl, Urls
    <3>2. Reply("http", 301, NoUrl, NoHops, TRUE) \in AllReplies
      BY <3>1 DEF Reply, AllReplies, NoHops
    <3>3. QED
      BY <2>1, <3>2
  <2>4. AgreesInDetail(row, reply)
    BY <1>6, <2>2 DEF AgreesInDetail, Row
  <2>5. Followed(reply) /\ Leads(r, reply)
    BY <1>1, <1>7, <1>8, <2>2 DEF Followed, Leads, OfReply, OfDecision
  <2>6. QED
    BY <1>1, <1>2, <1>4, <1>5, <2>2, <2>3, <2>4, <2>5 DEF Fits, Answers
<1>9. CASE d.tag = "redirect_loop" /\ d.hops \in Nat \ {0}
  <2>1. reply = Reply("http", 301, <<1, d.hops>>, NoHops, TRUE)
    BY <1>9 DEF Redirect
  <2>2. /\ reply.kind = "http" /\ reply.status = 301 /\ reply.location = <<1, d.hops>>
        /\ reply.hops = NoHops /\ reply.served
    BY <2>1 DEF Reply
  <2>3. reply \in AllReplies
    <3>1. <<1, d.hops>> \in Urls
      BY <1>9 DEF Urls
    <3>2. Reply("http", 301, <<1, d.hops>>, NoHops, TRUE) \in AllReplies
      BY <3>1 DEF Reply, AllReplies, NoHops
    <3>3. QED
      BY <2>1, <3>2
  <2>4. AgreesInDetail(row, reply)
    BY <1>6, <1>9, <2>2 DEF AgreesInDetail, Row
  <2>5. OfReply(reply) = d.hops
    BY <1>9, <2>2 DEF OfReply, OfUrl, NoUrl
  <2>6. Leads(r, reply)
    BY <1>1, <1>7, <1>9, <2>2, <2>5 DEF Leads, OfDecision
  <2>7. Followed(reply)
    BY <1>2, <1>9, <2>2 DEF Followed
  <2>8. QED
    BY <1>1, <1>2, <1>4, <1>5, <2>2, <2>3, <2>4, <2>6, <2>7 DEF Fits, Answers
<1>10. QED
  BY <1>3, <1>8, <1>9

LEMMA HopAnswers ==
  ASSUME Typed, NEW r \in Requests, DecisionIsDrawn(r), HandleHop(r)
  PROVE  Answers(r)
<1> DEFINE hop == request[r].url[1]
           max == request[r].url[2]
<1>1. /\ OnHop(r) /\ server = "web" /\ request[r].url \in Urls /\ hop \in Int /\ max \in Int
      /\ 1 <= hop
  BY DEF HandleHop, OnHop, DecisionIsDrawn, At, Typed, Handlers, Urls
<1>2. "redirect_loop" \notin DroppedErrors /\ "redirect_loop" \notin WebConnectionTags
  BY <1>1, DropsOfServers DEF WebConnectionTags
<1>3. "redirect_loop" \in AllTags
  BY TagsOfTables DEF WebRedirectTags
<1>4. CASE hop < max
  <2> DEFINE row == Row("error_redirect", 301, "redirect_loop", hop)
             reply == Redirect(<<hop + 1, max>>)
  <2>1. RecordAndReply(r, row, reply)
    BY <1>4 DEF HandleHop
  <2>2. /\ reply.kind = "http" /\ reply.status = 301 /\ reply.location = <<hop + 1, max>>
        /\ reply.hops = NoHops /\ reply.served
    BY DEF Redirect, Reply
  <2>3. reply \in AllReplies
    <3>1. <<hop + 1, max>> \in Urls
      BY <1>1 DEF Urls
    <3>2. QED
      BY <3>1 DEF Redirect, Reply, AllReplies, NoHops
  <2>4. row \in AllRows /\ Counted(row)
    <3>1. row \in AllRows
      BY <1>1, <1>3 DEF Row, AllRows, Outcomes
    <3>2. QED
      BY <1>1, <1>2, <3>1, WebCounts DEF Row
  <2>5. AgreesInDetail(row, reply)
    BY <1>1, <1>2, <2>2 DEF AgreesInDetail, Row
  <2>6. Followed(reply) /\ Leads(r, reply)
    BY <1>1, <1>4, <2>2 DEF Followed, Leads
  <2>7. QED
    BY <1>1, <2>1, <2>2, <2>3, <2>4, <2>5, <2>6 DEF Fits, Answers
<1>5. CASE ~(hop < max)
  <2> DEFINE row == Row("redirect_loop_terminated", 200, "redirect_loop", hop)
             reply == Reply("http", 200, NoUrl, hop, TRUE)
  <2>1. RecordAndReply(r, row, reply)
    BY <1>5 DEF HandleHop
  <2>2. /\ reply.kind = "http" /\ reply.status = 200 /\ reply.location = NoUrl
        /\ reply.hops = hop /\ reply.served
    BY DEF Reply
  <2>3. reply \in AllReplies
    <3>1. NoUrl \in Urls
      BY DEF NoUrl, Urls
    <3>2. QED
      BY <1>1, <3>1 DEF Reply, AllReplies
  <2>4. row \in AllRows /\ Counted(row)
    <3>1. row \in AllRows
      BY <1>1, <1>3 DEF Row, AllRows, Outcomes
    <3>2. QED
      BY <1>1, <1>2, <3>1, WebCounts DEF Row
  <2>5. AgreesInDetail(row, reply)
    BY <1>1, <1>2, <2>2 DEF AgreesInDetail, Row
  <2>6. Followed(reply) /\ Leads(r, reply)
    BY <1>1, <1>5, <2>2 DEF Followed, Leads
  <2>7. QED
    BY <1>1, <2>1, <2>2, <2>3, <2>4, <2>5, <2>6 DEF Fits, Answers
<1>6. QED
  BY <1>4, <1>5

(* What ChaosBlob refuses by itself. *)
LEMMA RefusedAnswers ==
  ASSUME Typed, NEW r \in Requests, DecisionIsDrawn(r), server = "blob",
         At(r, "idle") \/ At(r, "body") \/ (At(r, "asleep") /\ request[r].path # "hop"),
         NEW status, NEW error, Refused(r, status, error),
         \/ status \in {400, 413} /\ error \in Refusals
         \/ status = 404 /\ error = "NoSuchKey"
  PROVE  Answers(r)
<1> DEFINE row == Row("error_injected", status, error, 0)
<1>1. RecordAndReply(r, row, Http(status))
  BY DEF Refused
<1>2. status \in Int /\ status # 301
  OBVIOUS
<1>3. row \in AllRows
  BY <1>2 DEF Row, AllRows, Outcomes
<1>4. Counted(row) /\ Coherent(row)
  BY <1>3, BlobCounts DEF Row
<1>5. error \notin DroppedErrors
  BY DropsOfServers DEF Refusals
<1>6. AgreesInDetail(row, Http(status))
  BY <1>5 DEF AgreesInDetail, Row, Http, Reply, NoUrl
<1>7. /\ Http(status) \in AllReplies /\ Http(status).served /\ Followed(Http(status))
      /\ Leads(r, Http(status))
  BY <1>2, PlainReply
<1>8. QED
  BY <1>1, <1>3, <1>4, <1>6, <1>7 DEF Fits, Answers

LEMMA OperationAnswers ==
  ASSUME Typed, NEW r \in Requests, DecisionIsDrawn(r), HandleOperation(r)
  PROVE  Answers(r)
<1> DEFINE d == request[r].decision
           status == IF request[r].path = "delete" THEN 204 ELSE 200
           outcome == IF d = Success THEN "success" ELSE "error_corrupted"
           row == Row(outcome, status, d.tag, 0)
           reply == IF d.tag = "wrong_content_length" THEN Dropped(status) ELSE Http(status)
<1>1. /\ server = "blob" /\ d \in AllDecisions /\ At(r, "asleep") /\ request[r].path # "hop"
      /\ d.category \in {"success", "corruption"} /\ BlobDrawn(d, request[r].path)
  BY DEF HandleOperation, Handling, DecisionIsDrawn, IsDrawn, Typed, Handlers
<1>2. RecordAndReply(r, row, reply)
  BY DEF HandleOperation
<1>3. row \in AllRows
  BY <1>1 DEF Row, AllRows, Outcomes, AllDecisions
<1>4. \/ outcome = "success" /\ status \in {200, 204} /\ d.tag = "none"
      \/ /\ outcome = "error_corrupted" /\ status = 200
         /\ d.tag \in BlobCorruptionRows \cup {"stale_list"}
  <2>1. CASE d = Success
    BY <2>1 DEF Success, Decision
  <2>2. CASE d # Success
    <3>1. d.category = "corruption"
      BY <1>1, <2>2, BlobCategories
    <3>2. request[r].path \in BlobOperations /\ d.tag \in BlobCorruptionTags[request[r].path]
      BY <1>1, <2>2, <3>1 DEF BlobDrawn
    <3>3. QED
      BY <2>2, <3>2, BlobCorruptions DEF BlobCorruptionRows
  <2>3. QED
    BY <2>1, <2>2
<1>5. Counted(row) /\ Coherent(row)
  BY <1>1, <1>3, <1>4, BlobCounts DEF Row
<1>6. d.tag \in DroppedErrors <=> d.tag = "wrong_content_length"
  BY <1>1, <1>4, DropsOfServers DEF BlobCorruptionRows
<1>7. AgreesInDetail(row, reply)
  BY <1>6 DEF AgreesInDetail, Row, Http, Dropped, Reply, NoUrl, NoHops
<1>8. reply \in AllReplies /\ reply.served /\ Followed(reply) /\ Leads(r, reply)
  <2>1. reply \in {Http(status), Dropped(status)} /\ status \in Int /\ status # 301
    OBVIOUS
  <2>2. QED
    BY <1>1, <2>1, PlainReply
<1>9. QED
  BY <1>2, <1>3, <1>5, <1>7, <1>8 DEF Fits, Answers

-----------------------------------------------------------------------------
(* Every step keeps rows and replies together. *)

LEMMA SameServer ==
  ASSUME server' = server
  PROVE  /\ \A row : Counted(row)' <=> Counted(row)
         /\ \A row, reply : AgreesInDetail(row, reply)' <=> AgreesInDetail(row, reply)
<1>1. \A row : Counted(row)' <=> Counted(row)
  <2>1. \A row : Counters(row)' = Counters(row)
    BY DEF Counters
  <2>2. QED
    BY <2>1 DEF Counted
<1>2. DroppedErrors' = DroppedErrors
  BY DEF DroppedErrors
<1>3. \A row, reply : AgreesInDetail(row, reply)' <=> AgreesInDetail(row, reply)
  BY <1>2 DEF AgreesInDetail
<1>4. QED
  BY <1>1, <1>3

LEMMA OtherVisitsKeepRows ==
  ASSUME NEW q, RowsOf(q), server' = server,
         request'[q] = request[q], sent'[q] = sent[q], rows'[q] = rows[q], lost'[q] = lost[q]
  PROVE  RowsOf(q)'
<1>1. DecisionIsDrawn(q)'
  BY DEF RowsOf, DecisionIsDrawn, IsDrawn, OnHop, At
<1>2. At(q, "reply")' => Followed(request[q].reply)'
  BY DEF RowsOf, At, Followed
<1>3. RowsAreComplete(q)'
  BY DEF RowsOf, RowsAreComplete, At
<1>4. RowsMatch(q)'
  <2>1. Replies(q)' = Replies(q)
    BY DEF Replies, At
  <2>2. QED
    BY <2>1, SameServer DEF RowsOf, RowsMatch
<1>5. \A i \in DOMAIN rows'[q] : Counted(rows[q][i])'
  BY SameServer DEF RowsOf
<1>6. QED
  BY <1>1, <1>2, <1>3, <1>4, <1>5 DEF RowsOf

(* A handler that does not reply yet. *)
LEMMA MoveKeepsRows ==
  ASSUME RowsInv, NEW r \in Requests, NEW h \in Handlers,
         request' = [request EXCEPT ![r] = h], UNCHANGED <<server, sent, rows, lost>>,
         request[r].stage \notin {"reply", "answered"}, h.stage \notin {"idle", "reply"},
         h.stage = "answered" => At(r, "follow"), DecisionIsDrawn(r)'
  PROVE  \A q \in Requests : RowsOf(q)'
<1>1. request'[r] = h /\ \A q \in Requests : q # r => request'[q] = request[q]
  BY DEF RowsInv, Typed
<1>2. ASSUME NEW q \in Requests, q # r
      PROVE  RowsOf(q)'
  BY <1>1, <1>2, OtherVisitsKeepRows DEF RowsInv
<1>3. RowsOf(r)'
  <2>1. RowsAreComplete(r)' /\ ~At(r, "reply")'
    BY <1>1 DEF RowsInv, RowsOf, RowsAreComplete, At
  <2>2. RowsMatch(r)'
    <3>1. Replies(r)' = Replies(r)
      BY <1>1 DEF Replies, At
    <3>2. QED
      BY <3>1, SameServer DEF RowsInv, RowsOf, RowsMatch
  <2>3. \A i \in DOMAIN rows'[r] : Counted(rows[r][i])'
    BY SameServer DEF RowsInv, RowsOf
  <2>4. QED
    BY <2>1, <2>2, <2>3 DEF RowsOf
<1>4. QED
  BY <1>2, <1>3

LEMMA RefuseKeepsRows ==
  ASSUME RowsInv, NEW r \in Requests, NEW status \in Int, Refuse(r, status),
         UNCHANGED <<server, sent, rows, lost>>, server # "blob",
         request[r].stage \notin {"reply", "answered"}
  PROVE  \A q \in Requests : RowsOf(q)'
<1> DEFINE h == [request[r] EXCEPT !.stage = "reply", !.reply = Declined(status)]
<1>1. request[r] \in Handlers /\ sent[r] \in Seq(AllReplies) /\ rows[r] \in Seq(AllRows)
  BY DEF RowsInv, Typed
<1>2. /\ At(r, "reply")' /\ request'[r].reply = Declined(status)
      /\ \A q \in Requests : q # r => request'[q] = request[q]
  BY <1>1 DEF RowsInv, Typed, Refuse, At, Handlers
<1>3. ASSUME NEW q \in Requests, q # r
      PROVE  RowsOf(q)'
  BY <1>2, <1>3, OtherVisitsKeepRows DEF RowsInv
<1>4. RowsOf(r)'
  <2>1. DecisionIsDrawn(r)' /\ RowsAreComplete(r)'
    BY <1>2 DEF DecisionIsDrawn, OnHop, RowsAreComplete, At
  <2>2. Declined(status).location = NoUrl /\ Declined(status).served = FALSE
    BY DEF Declined, Reply
  <2>3. Followed(request[r].reply)'
    BY <1>2, <2>2 DEF Followed
  <2>4. Replies(r)' = Append(sent[r], Declined(status)) /\ Replies(r) = sent[r]
    BY <1>2 DEF Replies, At
  <2>5. ~lost[r] => Len(rows[r]) = Len(sent[r])
    BY DEF RowsInv, RowsOf, RowsAreComplete
  <2>6. RowsMatch(r)'
    <3>1. CASE lost[r]
      BY <3>1 DEF RowsMatch
    <3>2. CASE ~lost[r]
      <4>1. DOMAIN rows[r] = 1..Len(sent[r]) /\ DOMAIN rows[r] = DOMAIN sent[r]
        BY <1>1, <2>5, <3>2
      <4>2. \A i \in DOMAIN sent[r] : sent[r][i].served /\ Replies(r)'[i] = sent[r][i]
        BY <1>1, <2>4, <3>2, <4>1 DEF RowsInv, RowsOf, RowsMatch
      <4>3. DOMAIN (Replies(r)') = 1..Len(sent[r]) + 1 /\ ~Replies(r)'[Len(sent[r]) + 1].served
        BY <1>1, <2>2, <2>4
      <4>4. QED
        BY <2>4, <3>2, <4>1, <4>2, <4>3, SameServer DEF RowsInv, RowsOf, RowsMatch
    <3>3. QED
      BY <3>1, <3>2
  <2>7. \A i \in DOMAIN rows'[r] : Counted(rows[r][i])'
    BY SameServer DEF RowsInv, RowsOf
  <2>8. QED
    BY <2>1, <2>3, <2>6, <2>7 DEF RowsOf
<1>5. QED
  BY <1>3, <1>4

(* The row of an answer is appended unless it is lost, and lost for good. *)
LEMMA AnswerKeepsRows ==
  ASSUME RowsInv, NEW r \in Requests, Answers(r), server' = server,
         request[r].stage \notin {"reply", "answered"}
  PROVE  \A q \in Requests : RowsOf(q)'
<1>1. PICK row, reply : Fits(row, reply) /\ RecordAndReply(r, row, reply)
  BY DEF Answers
<1>2. /\ request' = [request EXCEPT ![r].stage = "reply", ![r].reply = reply]
      /\ Record(r, row) /\ sent' = sent
  BY <1>1 DEF RecordAndReply, Fits
<1>3. request[r] \in Handlers /\ sent[r] \in Seq(AllReplies) /\ rows[r] \in Seq(AllRows)
  BY DEF RowsInv, Typed
<1>4. /\ At(r, "reply")' /\ request'[r].reply = reply
      /\ \A q \in Requests : q # r => request'[q] = request[q]
  BY <1>2, <1>3 DEF RowsInv, Typed, At, Handlers
<1>5. \A q \in Requests : q # r => rows'[q] = rows[q] /\ lost'[q] = lost[q]
  BY <1>2 DEF Record, RowsInv, Typed
<1>6. ASSUME NEW q \in Requests, q # r
      PROVE  RowsOf(q)'
  BY <1>2, <1>4, <1>5, <1>6, OtherVisitsKeepRows DEF RowsInv
<1>7. \/ lost'[r] = lost[r] /\ rows'[r] = IF lost[r] THEN rows[r] ELSE Append(rows[r], row)
      \/ lost'[r] = TRUE /\ rows'[r] = <<>>
  BY <1>2 DEF Record, RowsInv, Typed
<1>8. RowsOf(r)'
  <2>1. DecisionIsDrawn(r)' /\ RowsAreComplete(r)'
    BY <1>4 DEF DecisionIsDrawn, OnHop, RowsAreComplete, At
  <2>2. Followed(request[r].reply)'
    BY <1>1, <1>4 DEF Fits, Followed
  <2>3. Replies(r)' = Append(sent[r], reply) /\ Replies(r) = sent[r]
    BY <1>2, <1>4 DEF Replies, At
  <2>4. /\ ~lost[r] => Len(rows[r]) = Len(sent[r])
        /\ \A i \in DOMAIN rows[r] : Counted(rows[r][i])
        /\ row \in AllRows /\ reply \in AllReplies /\ reply.served
        /\ AgreesInDetail(row, reply) /\ Counted(row)
    BY <1>1 DEF RowsInv, RowsOf, RowsAreComplete, Fits
  <2>5. RowsMatch(r)'
    <3>1. CASE lost'[r]
      BY <3>1 DEF RowsMatch
    <3>2. CASE ~lost'[r]
      <4>1. /\ ~lost[r] /\ rows'[r] = Append(rows[r], row) /\ Len(rows[r]) = Len(sent[r])
        BY <1>7, <2>4, <3>2
      <4>2. /\ DOMAIN rows[r] = 1..Len(sent[r]) /\ DOMAIN sent[r] = 1..Len(sent[r])
            /\ DOMAIN (rows'[r]) = 1..Len(sent[r]) + 1 /\ DOMAIN (Replies(r)') = 1..Len(sent[r]) + 1
        BY <1>3, <2>3, <2>4, <4>1
      <4>3. \A i \in 1..Len(sent[r]) : /\ server = "blob" \/ sent[r][i].served
                                       /\ AgreesInDetail(rows[r][i], sent[r][i])
        BY <2>3, <4>1, <4>2 DEF RowsInv, RowsOf, RowsMatch
      <4>4. \A i \in 1..Len(sent[r]) : Replies(r)'[i] = sent[r][i] /\ rows'[r][i] = rows[r][i]
        BY <1>3, <2>3, <2>4, <4>1
      <4>5. Replies(r)'[Len(sent[r]) + 1] = reply /\ rows'[r][Len(sent[r]) + 1] = row
        <5>1. Append(sent[r], reply)[Len(sent[r]) + 1] = reply
          BY <1>3, <2>4
        <5>2. Append(rows[r], row)[Len(rows[r]) + 1] = row
          BY <1>3, <2>4
        <5>3. QED
          BY <2>3, <4>1, <5>1, <5>2
      <4>6. \A i \in 1..Len(sent[r]) + 1 : /\ server = "blob" \/ Replies(r)'[i].served
                                           /\ AgreesInDetail(rows'[r][i], Replies(r)'[i])
        <5>1. Len(sent[r]) \in Nat
          BY <1>3
        <5>2. QED
          BY <2>4, <4>3, <4>4, <4>5, <5>1
      <4>7. QED
        BY <4>2, <4>6, SameServer DEF RowsMatch
    <3>3. QED
      BY <3>1, <3>2
  <2>6. \A i \in DOMAIN rows'[r] : Counted(rows'[r][i])
    <3>1. CASE rows'[r] = rows[r]
      BY <2>4, <3>1
    <3>2. CASE rows'[r] = <<>>
      BY <3>2
    <3>3. CASE rows'[r] = Append(rows[r], row)
      BY <1>3, <2>4, <3>3
    <3>4. QED
      BY <1>7, <3>1, <3>2, <3>3
  <2>7. \A i \in DOMAIN rows'[r] : Counted(rows[r][i])'
    BY <2>6, SameServer
  <2>8. QED
    BY <2>1, <2>2, <2>5, <2>7 DEF RowsOf
<1>9. QED
  BY <1>6, <1>8

LEMMA SendKeepsRows ==
  ASSUME RowsInv, NEW r \in Requests, Send(r), server' = server
  PROVE  \A q \in Requests : RowsOf(q)'
<1> DEFINE reply == request[r].reply
<1>1. /\ request[r] \in Handlers /\ reply \in AllReplies
      /\ sent[r] \in Seq(AllReplies) /\ rows[r] \in Seq(AllRows)
  BY DEF RowsInv, Typed, Handlers
<1>2. /\ At(r, "reply") /\ rows' = rows /\ lost' = lost /\ sent'[r] = Append(sent[r], reply)
      /\ request'[r].stage = (IF reply.location = NoUrl THEN "answered" ELSE "follow")
      /\ \A q \in Requests : q # r => request'[q] = request[q] /\ sent'[q] = sent[q]
  BY <1>1 DEF Send, RowsInv, Typed, Handlers
<1>3. ASSUME NEW q \in Requests, q # r
      PROVE  RowsOf(q)'
  BY <1>2, <1>3, OtherVisitsKeepRows DEF RowsInv
<1>4. RowsOf(r)'
  <2>1. Followed(reply) /\ RowsMatch(r) /\ \A i \in DOMAIN rows[r] : Counted(rows[r][i])
    BY <1>2 DEF RowsInv, RowsOf
  <2>2. DecisionIsDrawn(r)' /\ ~At(r, "reply")'
    BY <1>2, <2>1 DEF DecisionIsDrawn, OnHop, At, Followed
  <2>3. Replies(r)' = Replies(r) /\ Replies(r) = Append(sent[r], reply)
    BY <1>2 DEF Replies, At
  <2>4. RowsMatch(r)'
    BY <1>2, <2>1, <2>3, SameServer DEF RowsMatch
  <2>5. RowsAreComplete(r)'
    <3>1. CASE reply.location = NoUrl \/ lost[r]
      BY <1>2, <3>1 DEF RowsAreComplete, At
    <3>2. CASE reply.location # NoUrl /\ ~lost[r]
      <4>1. reply.served /\ sent'[r] = Replies(r)
        BY <1>2, <2>1, <2>3, <3>2 DEF Followed
      <4>2. \A i \in DOMAIN Replies(r) : server = "blob" \/ Replies(r)[i].served
        <5>1. \A i \in DOMAIN sent[r] : i \in DOMAIN Replies(r) /\ Replies(r)[i] = sent[r][i]
          BY <1>1, <2>3
        <5>2. Len(rows[r]) \in Nat /\ Len(sent[r]) \in Nat
          BY <1>1
        <5>3. DOMAIN rows[r] = {i \in DOMAIN Replies(r) : server = "blob" \/ Replies(r)[i].served}
          BY <2>1, <3>2 DEF RowsMatch
        <5>4. /\ DOMAIN rows[r] = 1..Len(rows[r]) /\ DOMAIN Replies(r) = 1..Len(sent[r]) + 1
              /\ Replies(r)[Len(sent[r]) + 1] = reply
          BY <1>1, <2>3
        <5>5. Len(sent[r]) + 1 \in 1..Len(rows[r])
          BY <4>1, <5>2, <5>3, <5>4
        <5>6. QED
          BY <5>2, <5>3, <5>4, <5>5
      <4>3. DOMAIN rows[r] = DOMAIN sent'[r]
        BY <2>1, <3>2, <4>1, <4>2 DEF RowsMatch
      <4>4. sent'[r] \in Seq(AllReplies)
        BY <1>1, <1>2
      <4>5. Len(rows[r]) = Len(sent'[r])
        BY <1>1, <4>3, <4>4
      <4>6. QED
        BY <1>2, <3>2, <4>5 DEF RowsAreComplete, At
    <3>3. QED
      BY <3>1, <3>2
  <2>6. QED
    BY <1>2, <2>1, <2>2, <2>4, <2>5, SameServer DEF RowsOf
<1>5. QED
  BY <1>3, <1>4

LEMMA LeaveKeepsRows ==
  ASSUME RowsInv, NEW r \in Requests, Leave(r), server' = server
  PROVE  \A q \in Requests : RowsOf(q)'
<1>1. /\ request'[r] = Idle /\ sent'[r] = <<>> /\ rows'[r] = <<>>
      /\ \A q \in Requests : q # r =>
           request'[q] = request[q] /\ sent'[q] = sent[q] /\ rows'[q] = rows[q] /\ lost'[q] = lost[q]
  BY DEF Leave, RowsInv, Typed
<1>2. ASSUME NEW q \in Requests, q # r
      PROVE  RowsOf(q)'
  BY <1>1, <1>2, OtherVisitsKeepRows DEF RowsInv
<1>3. request'[r].stage = "idle"
  BY <1>1 DEF Idle
<1>4. RowsOf(r)'
  <2>1. request'[r].path = "page"
    BY <1>1 DEF Idle
  <2>2. QED
    BY <1>1, <1>3, <2>1
       DEF RowsOf, DecisionIsDrawn, OnHop, RowsAreComplete, RowsMatch, Replies, At
<1>5. QED
  BY <1>2, <1>4

LEMMA ResetKeepsRows ==
  ASSUME RowsInv, Reset, server' = server
  PROVE  \A q \in Requests : RowsOf(q)'
<1> SUFFICES ASSUME NEW q \in Requests
             PROVE  RowsOf(q)'
  OBVIOUS
<1>1. /\ request' = request /\ sent' = sent
      /\ rows'[q] = <<>> /\ lost'[q] = ~At(q, "idle")
  BY DEF Reset
<1>2. DecisionIsDrawn(q)' /\ (At(q, "reply") => Followed(request[q].reply))'
  BY <1>1 DEF RowsInv, RowsOf, DecisionIsDrawn, IsDrawn, OnHop, At, Followed
<1>3. At(q, "idle") => sent[q] = <<>>
  BY DEF RowsInv, RowsOf, RowsAreComplete
<1>4. RowsAreComplete(q)' /\ RowsMatch(q)'
  <2>1. CASE At(q, "idle")
    <3>1. Replies(q)' = <<>>
      BY <1>1, <1>3, <2>1 DEF Replies, At
    <3>2. RowsMatch(q)'
      BY <1>1, <3>1 DEF RowsMatch
    <3>3. QED
      BY <1>1, <1>3, <2>1, <3>2 DEF RowsAreComplete
  <2>2. CASE ~At(q, "idle")
    <3>1. lost'[q] = TRUE
      BY <1>1, <2>2
    <3>2. QED
      BY <1>1, <2>2, <3>1 DEF RowsAreComplete, RowsMatch, At
  <2>3. QED
    BY <2>1, <2>2
<1>5. QED
  BY <1>1, <1>2, <1>4 DEF RowsOf

-----------------------------------------------------------------------------
(* The kinds of steps that a visit takes. *)

Works(r) == request[r].stage \in {"idle", "body", "asleep"}

Awaits(r) == request[r].stage \notin {"reply", "answered"}

Moves(r) ==
  \E h \in Handlers :
    /\ request' = [request EXCEPT ![r] = h] /\ UNCHANGED <<sent, rows, lost>>
    /\ Awaits(r) /\ h.stage \notin {"idle", "reply"}
    /\ h.stage = "answered" => At(r, "follow")
    /\ DecisionIsDrawn(r)'

Refuses(r) ==
  \E status \in {400, 404, 413, 500} :
    /\ Refuse(r, status) /\ UNCHANGED <<sent, rows, lost>>
    /\ Awaits(r) /\ server # "blob"

LEMMA DecidingMoves ==
  ASSUME RowsInv, NEW r \in Requests, NEW c \in Configs, Decide(r, c), server # "blob",
         At(r, "idle") \/ At(r, "body"), UNCHANGED <<server, sent, rows, lost>>
  PROVE  /\ Moves(r)
         /\ \E d \in Decisions(c), n \in Int :
              /\ request'[r] = [request[r] EXCEPT !.stage = "asleep", !.config = c,
                                                   !.decision = d, !.naps = n]
              /\ d \in AllDecisions /\ IsDrawn(d, request[r].path)
              /\ d.tag = "redirect_loop" => d.hops <= c.maxHops
<1>1. PICK d \in Decisions(c) :
        request' = [request EXCEPT ![r].stage = "asleep", ![r].config = c,
                                   ![r].decision = d, ![r].naps = Naps(d)]
  BY DEF Decide
<1>2. /\ request[r] \in Handlers /\ request[r].path # "hop"
      /\ server \in {"llm", "web"} /\ c.maxHops \in Nat
  BY ServingAssumption DEF RowsInv, RowsOf, DecisionIsDrawn, Typed, ServingAssumption
<1>3. /\ d \in AllDecisions /\ IsDrawn(d, request[r].path)
      /\ d.tag = "redirect_loop" => d.hops <= c.maxHops
  <2>1. CASE server = "llm"
    <3>1. d \in AllDecisions /\ LlmDrawn(d)
      BY <2>1, LlmDecisionIsDrawn DEF Decisions
    <3>2. d.tag # "redirect_loop" \/ d.hops <= c.maxHops
      <4>1. CASE d = Success
        BY <4>1 DEF Success, Decision
      <4>2. ASSUME NEW t \in Tags(LlmPriority), d \in LlmDecisions(t)
            PROVE  d.tag # "redirect_loop"
        <5>1. d.tag = t
          BY <4>2 DEF LlmDecisions, Decision
        <5>2. QED
          BY <5>1, LlmTags DEF LlmConnectionTags, LlmMalformedTags
      <4>3. QED
        BY <2>1, <4>1, <4>2 DEF Decisions, Drawn
    <3>3. QED
      BY <2>1, <3>1, <3>2 DEF IsDrawn
  <2>2. CASE server = "web"
    <3>1. /\ d \in AllDecisions /\ WebDrawn(d)
          /\ d.tag = "redirect_loop" => d.hops <= c.maxHops
      BY <1>2, <2>2, WebDecisionIsDrawn DEF Decisions
    <3>2. QED
      BY <2>2, <3>1 DEF IsDrawn
  <2>3. QED
    BY <1>2, <2>1, <2>2
<1>4. Naps(d) \in Int
  BY DEF Naps
<1> DEFINE h == [request[r] EXCEPT !.stage = "asleep", !.config = c, !.decision = d,
                                   !.naps = Naps(d)]
<1>5. h \in Handlers /\ h.stage = "asleep" /\ h.path = request[r].path /\ h.decision = d
  BY <1>2, <1>3, <1>4 DEF Handlers, Stages
<1>6. request' = [request EXCEPT ![r] = h] /\ request'[r] = h
  BY <1>1 DEF RowsInv, Typed
<1> HIDE DEF h
<1>7. DecisionIsDrawn(r)'
  BY <1>2, <1>3, <1>5, <1>6 DEF DecisionIsDrawn, IsDrawn, OnHop, At
<1>8. Moves(r)
  BY <1>5, <1>6, <1>7 DEF Moves, Awaits, At
<1>9. QED
  BY <1>3, <1>4, <1>6, <1>8 DEF h

(* /redirect uses a hop of its bound, and its bound is within the limit. *)
LEMMA HopUrlIsCapped ==
  ASSUME NEW url \in Urls, NEW maxHops \in Nat, maxHops >= MinLoopHops
  PROVE  LET capped == HopUrl(url, maxHops)
         IN  /\ capped \in Urls
             /\ 1 <= capped[1] /\ capped[1] <= capped[2] /\ capped[2] <= maxHops
             /\ 1 <= url[1] /\ url[1] <= url[2] => OfUrl(capped) <= OfUrl(url)
             /\ 1 <= url[1] => capped[1] <= url[1]
             /\ 1 <= url[1] /\ url[1] <= url[2] /\ url[2] <= maxHops => capped = url
<1>1. url[1] \in Int /\ url[2] \in Int /\ url = <<url[1], url[2]>>
  BY DEF Urls
<1>2. QED
  BY <1>1 DEF HopUrl, Minimum, Maximum, MinLoopHops, Urls, OfUrl

LEMMA LimitsAreNaturals ==
  ASSUME NEW c \in Configs
  PROVE  c.maxHops \in Nat /\ c.maxHops >= MinLoopHops
BY ServingAssumption DEF ServingAssumption

(* A handler that goes to another stage, with all of its other fields set. *)
LEMMA MovesTo ==
  ASSUME RowsInv, NEW r \in Requests, NEW h \in Handlers,
         request' = [request EXCEPT ![r] = h], UNCHANGED <<server, sent, rows, lost>>,
         Awaits(r), h.stage \notin {"idle", "reply"}, h.stage = "answered" => At(r, "follow"),
         h.stage = "asleep" /\ h.path # "hop" => IsDrawn(h.decision, h.path),
         h.stage = "asleep" /\ h.path = "hop" =>
           server = "web" /\ 1 <= h.url[1] /\ h.url[1] <= h.url[2],
         h.stage = "follow" => server = "web",
         h.stage = "body" => server # "web" /\ h.path # "hop",
         h.stage = "body" /\ server = "blob" => BlobDrawn(h.decision, h.path)
  PROVE  Moves(r) /\ request'[r] = h
<1>1. request'[r] = h
  BY DEF RowsInv, Typed
<1>2. DecisionIsDrawn(r)'
  BY <1>1 DEF DecisionIsDrawn, IsDrawn, OnHop, At
<1>3. QED
  BY <1>1, <1>2 DEF Moves

LEMMA CallKinds ==
  ASSUME RowsInv, NEW r \in Requests, Call(r), UNCHANGED <<server, config>>
  PROVE  Moves(r) \/ Refuses(r) \/ (Answers(r) /\ Works(r))
<1>1. /\ request[r] \in Handlers /\ config \in Configs /\ DecisionIsDrawn(r)
      /\ server \in {"llm", "web", "blob"}
  BY ServingAssumption DEF RowsInv, Typed, RowsOf, ServingAssumption
<1>2. CASE LlmCall(r)
  <2> DEFINE h == [request[r] EXCEPT !.stage = "body", !.config = config]
  <2>1. At(r, "idle") /\ server = "llm" /\ request[r].path # "hop"
    BY <1>1, <1>2 DEF LlmCall, DecisionIsDrawn
  <2>2. h \in Handlers /\ h.stage = "body" /\ h.path = request[r].path
    BY <1>1 DEF Handlers, Stages
  <2>3. request' = [request EXCEPT ![r] = h]
    BY <1>2 DEF LlmCall, RowsInv, Typed
  <2> HIDE DEF h
  <2>4. QED
    BY <1>2, <2>1, <2>2, <2>3, MovesTo DEF LlmCall, Awaits, At
<1>3. CASE PageCall(r)
  BY <1>1, <1>3, DecidingMoves DEF PageCall
<1>4. CASE HopEntry(r)
  <2>1. At(r, "idle") /\ server = "web" /\ UNCHANGED <<sent, rows, lost>>
    BY <1>4 DEF HopEntry
  <2>2. ASSUME NEW url \in HopParams,
               request' = [request EXCEPT ![r].stage = "follow", ![r].url = url]
        PROVE  Moves(r)
    <3> DEFINE h == [request[r] EXCEPT !.stage = "follow", !.url = url]
    <3>1. url \in Urls
      BY ServingAssumption DEF ServingAssumption, Urls
    <3>2. h \in Handlers /\ h.stage = "follow"
      BY <1>1, <3>1 DEF Handlers, Stages
    <3>3. request' = [request EXCEPT ![r] = h]
      BY <2>2 DEF RowsInv, Typed
    <3> HIDE DEF h
    <3>4. QED
      BY <2>1, <3>2, <3>3, MovesTo DEF Awaits, At
  <2>3. CASE Refuse(r, 400)
    BY <2>1, <2>3 DEF Refuses, Awaits, At
  <2>4. QED
    BY <1>4, <2>2, <2>3 DEF HopEntry
<1>5. CASE BlobCall(r)
  <2>1. At(r, "idle") /\ server = "blob" /\ BlobDecide(r) /\ UNCHANGED <<sent, rows, lost>>
    BY <1>5 DEF BlobCall
  <2>2. PICK op \in BlobOperations : \E d \in {Success} \cup {BlobDecision(t) : t \in BlobTags(op)} :
          request' = [request EXCEPT
            ![r].stage = IF op = "put" /\ d = Success THEN "body" ELSE "asleep",
            ![r].path = op, ![r].decision = d, ![r].naps = Naps(d)]
    BY <2>1 DEF BlobDecide
  <2>3. PICK d \in {Success} \cup {BlobDecision(t) : t \in BlobTags(op)} :
          request' = [request EXCEPT
            ![r].stage = IF op = "put" /\ d = Success THEN "body" ELSE "asleep",
            ![r].path = op, ![r].decision = d, ![r].naps = Naps(d)]
    BY <2>2
  <2>4. d \in AllDecisions /\ BlobDrawn(d, op) /\ Naps(d) \in Int /\ op # "hop"
    BY BlobDecisionIsDrawn DEF Naps, BlobOperations
  <2> DEFINE h == [request[r] EXCEPT
                     !.stage = IF op = "put" /\ d = Success THEN "body" ELSE "asleep",
                     !.path = op, !.decision = d, !.naps = Naps(d)]
  <2>5. /\ h \in Handlers /\ h.stage \in {"body", "asleep"} /\ h.path = op /\ h.decision = d
    BY <1>1, <2>4 DEF Handlers, Stages
  <2>6. request' = [request EXCEPT ![r] = h]
    BY <2>3 DEF RowsInv, Typed
  <2> HIDE DEF h
  <2>7. IsDrawn(h.decision, h.path)
    BY <2>1, <2>4, <2>5 DEF IsDrawn
  <2>8. QED
    BY <2>1, <2>4, <2>5, <2>6, <2>7, MovesTo DEF Awaits, At
<1>6. CASE BlobRefuse(r)
  <2>1. PICK error \in {"InvalidRequest", "InvalidArgument"} : Refused(r, 400, error)
    BY <1>6 DEF BlobRefuse
  <2>2. server = "blob" /\ At(r, "idle") /\ Typed
    BY <1>6 DEF BlobRefuse, RowsInv
  <2>3. Answers(r)
    BY <1>1, <2>1, <2>2, RefusedAnswers DEF Refusals
  <2>4. QED
    BY <2>2, <2>3 DEF Works, At
<1>7. QED
  BY <1>2, <1>3, <1>4, <1>5, <1>6 DEF Call

(* The upload that a handler of ChaosBlob goes on with. *)
Uploads(r) ==
  /\ server = "blob" /\ At(r, "body")
  /\ request' = [request EXCEPT ![r].stage = "asleep"]
  /\ UNCHANGED <<sent, rows, lost, limits>>

LEMMA HandlersAnswer ==
  ASSUME RowsInv, NEW r \in Requests, Handle(r)
  PROVE  \/ LlmRefuse(r) \/ LlmDecide(r) \/ Wake(r) \/ GenerateFails(r) \/ Uploads(r) \/ Send(r)
         \/ Answers(r) /\ Works(r)
<1>1. DecisionIsDrawn(r) /\ Typed
  BY DEF RowsInv, RowsOf
<1>2. CASE HandleSuccess(r)
  BY <1>1, <1>2, SuccessAnswers DEF HandleSuccess, Handling, Works, At
<1>3. CASE HandleHttpError(r)
  BY <1>1, <1>3, HttpErrorAnswers DEF HandleHttpError, Handling, Works, At
<1>4. CASE HandleMalformed(r)
  BY <1>1, <1>4, MalformedAnswers DEF HandleMalformed, Handling, Works, At
<1>5. CASE HandleConnectionError(r)
  BY <1>1, <1>5, ConnectionErrorAnswers DEF HandleConnectionError, Handling, Works, At
<1>6. CASE HandleRedirect(r)
  BY <1>1, <1>6, RedirectAnswers DEF HandleRedirect, Handling, Works, At
<1>7. CASE HandleHop(r)
  BY <1>1, <1>7, HopAnswers DEF HandleHop, Works, At
<1>8. CASE BlobBody(r)
  <2>1. server = "blob" /\ At(r, "body") /\ Works(r)
    BY <1>8 DEF BlobBody, Works, At
  <2>2. CASE Refused(r, 400, "InvalidRequest")
    BY <1>1, <2>1, <2>2, RefusedAnswers DEF Refusals
  <2>3. CASE Refused(r, 413, "EntityTooLarge")
    BY <1>1, <2>1, <2>3, RefusedAnswers DEF Refusals
  <2>4. QED
    BY <1>8, <2>1, <2>2, <2>3 DEF BlobBody, Uploads
<1>9. CASE StoreRefuses(r)
  <2>1. server = "blob" /\ At(r, "asleep") /\ request[r].path # "hop" /\ Works(r)
    BY <1>9 DEF StoreRefuses, Handling, Works, At
  <2>2. CASE Refused(r, 413, "EntityTooLarge")
    BY <1>1, <2>1, <2>2, RefusedAnswers DEF Refusals
  <2>3. CASE Refused(r, 400, "InvalidArgument")
    BY <1>1, <2>1, <2>3, RefusedAnswers DEF Refusals
  <2>4. CASE Refused(r, 404, "NoSuchKey")
    BY <1>1, <2>1, <2>4, RefusedAnswers
  <2>5. QED
    BY <1>9, <2>1, <2>2, <2>3, <2>4 DEF StoreRefuses
<1>10. CASE HandleOperation(r)
  BY <1>1, <1>10, OperationAnswers DEF HandleOperation, Handling, Works, At
<1>11. QED
  BY <1>2, <1>3, <1>4, <1>5, <1>6, <1>7, <1>8, <1>9, <1>10 DEF Handle

LEMMA HandleKinds ==
  ASSUME RowsInv, NEW r \in Requests, Handle(r), UNCHANGED <<server, config>>
  PROVE  Moves(r) \/ Refuses(r) \/ (Answers(r) /\ Works(r)) \/ Send(r)
<1>1. request[r] \in Handlers /\ DecisionIsDrawn(r)
  BY DEF RowsInv, Typed, RowsOf
<1>2. CASE LlmRefuse(r)
  BY <1>2 DEF LlmRefuse, Refuses, Awaits, At
<1>3. CASE LlmDecide(r)
  <2>1. request[r].config \in Configs
    BY <1>1 DEF Handlers
  <2>2. QED
    BY <1>3, <2>1, DecidingMoves DEF LlmDecide
<1>4. CASE Wake(r)
  <2> DEFINE h == [request[r] EXCEPT !.naps = @ - 1]
  <2>1. At(r, "asleep") /\ UNCHANGED <<sent, rows, lost>>
    BY <1>4 DEF Wake
  <2>2. /\ h \in Handlers /\ h.stage = "asleep" /\ h.path = request[r].path
        /\ h.decision = request[r].decision /\ h.url = request[r].url
    BY <1>1, <2>1 DEF Handlers, Stages, At
  <2>3. request' = [request EXCEPT ![r] = h]
    BY <1>4 DEF Wake, RowsInv, Typed
  <2> HIDE DEF h
  <2>4. QED
    BY <1>1, <2>1, <2>2, <2>3, MovesTo DEF DecisionIsDrawn, OnHop, Awaits, At
<1>5. CASE GenerateFails(r)
  BY <1>5 DEF GenerateFails, Handling, Refuses, Awaits, At
<1>6. CASE Uploads(r)
  <2> DEFINE h == [request[r] EXCEPT !.stage = "asleep"]
  <2>1. server = "blob" /\ At(r, "body") /\ Awaits(r) /\ UNCHANGED <<sent, rows, lost>>
    BY <1>6 DEF Uploads, Awaits, At
  <2>2. /\ h \in Handlers /\ h.stage = "asleep" /\ h.path = request[r].path
        /\ h.decision = request[r].decision
    BY <1>1 DEF Handlers, Stages
  <2>3. request' = [request EXCEPT ![r] = h]
    BY <1>6 DEF Uploads, RowsInv, Typed
  <2>4. h.path # "hop" /\ IsDrawn(h.decision, h.path)
    BY <1>1, <2>1, <2>2 DEF DecisionIsDrawn, IsDrawn
  <2> HIDE DEF h
  <2>5. QED
    BY <2>1, <2>2, <2>3, <2>4, MovesTo
<1>7. QED
  BY <1>2, <1>3, <1>4, <1>5, <1>6, HandlersAnswer

LEMMA FollowKinds ==
  ASSUME RowsInv, NEW r \in Requests, Follow(r), UNCHANGED <<server, config>>
  PROVE  Moves(r) \/ Refuses(r)
<1>1. /\ request[r] \in Handlers /\ request[r].url \in Urls /\ config \in Configs
      /\ At(r, "follow") /\ server = "web" /\ UNCHANGED <<sent, rows, lost>>
  BY DEF RowsInv, Typed, Handlers, RowsOf, DecisionIsDrawn, Follow, HopCall, GiveUp
<1>2. CASE HopCall(r) /\ config.loops
  <2> DEFINE capped == HopUrl(request[r].url, config.maxHops)
             h == [request[r] EXCEPT !.stage = "asleep", !.path = "hop", !.config = config,
                                     !.url = capped, !.naps = 1]
  <2>1. capped \in Urls /\ 1 <= capped[1] /\ capped[1] <= capped[2]
    BY <1>1, LimitsAreNaturals, HopUrlIsCapped
  <2>2. request' = [request EXCEPT ![r] = h]
    BY <1>1, <1>2 DEF HopCall, RowsInv, Typed
  <2> HIDE DEF capped
  <2>3. h \in Handlers
    <3>1. \A n \in Int : [request[r] EXCEPT !.stage = "asleep", !.path = "hop", !.config = config,
                                            !.url = capped, !.naps = n] \in Handlers
      BY <1>1, <2>1 DEF Handlers, Stages
    <3>2. 1 \in Int
      OBVIOUS
    <3>3. QED
      BY <3>1, <3>2, Zenon
  <2>4. h.stage = "asleep" /\ h.path = "hop" /\ h.url = capped
    BY <1>1 DEF Handlers
  <2> HIDE DEF h
  <2>5. QED
    BY <1>1, <2>1, <2>2, <2>3, <2>4, MovesTo DEF Awaits, At
<1>3. CASE HopCall(r) /\ ~config.loops
  BY <1>1, <1>3 DEF HopCall, Refuses, Awaits, At
<1>4. CASE GiveUp(r)
  <2> DEFINE h == [request[r] EXCEPT !.stage = "answered"]
  <2>1. request' = [request EXCEPT ![r] = h]
    BY <1>1, <1>4 DEF GiveUp, RowsInv, Typed
  <2>2. h \in Handlers /\ h.stage = "answered"
    BY <1>1 DEF Handlers, Stages
  <2> HIDE DEF h
  <2>3. QED
    BY <1>1, <2>1, <2>2, MovesTo DEF Awaits, At
<1>5. QED
  BY <1>2, <1>3, <1>4 DEF Follow

LEMMA RequestKinds ==
  ASSUME RowsInv, NEW r \in Requests, RequestStep(r), UNCHANGED <<server, config>>
  PROVE  Moves(r) \/ Refuses(r) \/ (Answers(r) /\ Works(r)) \/ Send(r) \/ Leave(r)
BY CallKinds, HandleKinds, FollowKinds DEF RequestStep

-----------------------------------------------------------------------------
LEMMA IdleIsTyped == Idle \in Handlers /\ Idle.stage = "idle" /\ Idle.path = "page"
<1>1. (CHOOSE c \in Configs : TRUE) \in Configs
  BY ServingAssumption DEF ServingAssumption
<1>2. Success \in AllDecisions
  BY TagsOfTables DEF Success, Decision, AllDecisions, Categories, NoStatus
<1>3. NoUrl \in Urls
  BY DEF NoUrl, Urls
<1>4. Http(200) \in AllReplies
  BY <1>3 DEF Http, Reply, AllReplies, NoHops
<1>5. QED
  BY <1>1, <1>2, <1>3, <1>4 DEF Idle, Handlers, Stages

LEMMA InitRows ==
  ASSUME Init
  PROVE  RowsInv
<1>1. Typed
  BY IdleIsTyped DEF Init, Typed
<1>2. ASSUME NEW r \in Requests
      PROVE  RowsOf(r)
  <2>1. /\ request[r] = Idle /\ sent[r] = <<>> /\ rows[r] = <<>>
    BY <1>2 DEF Init
  <2>2. Replies(r) = <<>>
    BY <2>1, IdleIsTyped DEF Replies, At
  <2>3. QED
    BY <2>1, <2>2, IdleIsTyped DEF RowsOf, DecisionIsDrawn, OnHop, RowsAreComplete, RowsMatch, At
<1>3. QED
  BY <1>1, <1>2 DEF RowsInv

LEMMA LimitKinds ==
  ASSUME NEW r \in Requests, RequestStep(r)
  PROVE  UNCHANGED limits \/ Snapshot(r) \/ limits' = [limits EXCEPT ![r] = <<>>]
<1>1. CASE Call(r)
  BY <1>1 DEF Call, LlmCall, PageCall, HopEntry, BlobCall, BlobRefuse, Refused, RecordAndReply
<1>2. CASE Handle(r)
  BY <1>2 DEF Handle, LlmRefuse, LlmDecide, Wake, GenerateFails, HandleSuccess, HandleHttpError,
       HandleMalformed, HandleConnectionError, HandleRedirect, HandleHop, BlobBody, StoreRefuses,
       HandleOperation, Send, Refused, RecordAndReply
<1>3. CASE Follow(r)
  BY <1>3 DEF Follow, HopCall, GiveUp
<1>4. CASE Leave(r)
  BY <1>4 DEF Leave
<1>5. QED
  BY <1>1, <1>2, <1>3, <1>4 DEF RequestStep

LEMMA RequestKeepsTypes ==
  ASSUME RowsInv, NEW r \in Requests, RequestStep(r), UNCHANGED <<server, config>>
  PROVE  Typed'
<1>1. /\ request[r] \in Handlers /\ sent[r] \in Seq(AllReplies) /\ rows[r] \in Seq(AllRows)
      /\ limits[r] \in Seq(Nat) /\ config.maxHops \in Nat
  BY LimitsAreNaturals DEF RowsInv, Typed
<1>2. limits' \in [Requests -> Seq(Nat)]
  <2>1. Append(limits[r], config.maxHops) \in Seq(Nat) /\ <<>> \in Seq(Nat)
    BY <1>1
  <2>2. CASE UNCHANGED limits
    BY <2>2 DEF RowsInv, Typed
  <2>3. CASE limits' = [limits EXCEPT ![r] = Append(@, config.maxHops)]
    BY <2>1, <2>3 DEF RowsInv, Typed
  <2>4. CASE limits' = [limits EXCEPT ![r] = <<>>]
    BY <2>1, <2>4 DEF RowsInv, Typed
  <2>5. QED
    BY <2>2, <2>3, <2>4, LimitKinds DEF Snapshot
<1> DEFINE RestTyped == /\ request' \in [Requests -> Handlers] /\ sent' \in [Requests -> Seq(AllReplies)]
                        /\ rows' \in [Requests -> Seq(AllRows)] /\ lost' \in [Requests -> BOOLEAN]
<1>3. ASSUME Moves(r)
      PROVE  RestTyped
  BY <1>3 DEF Moves, RowsInv, Typed
<1>4. ASSUME Refuses(r)
      PROVE  RestTyped
  <2>1. PICK status \in {400, 404, 413, 500} : Refuse(r, status) /\ UNCHANGED <<sent, rows, lost>>
    BY <1>4 DEF Refuses
  <2>2. NoUrl \in Urls
    BY DEF NoUrl, Urls
  <2>3. Declined(status) \in AllReplies
    BY <2>2 DEF Declined, Reply, AllReplies, NoHops
  <2>4. [request[r] EXCEPT !.stage = "reply", !.reply = Declined(status)] \in Handlers
    BY <1>1, <2>3 DEF Handlers, Stages
  <2>5. request' \in [Requests -> Handlers]
    BY <2>1, <2>4 DEF Refuse, RowsInv, Typed
  <2>6. QED
    BY <2>1, <2>5 DEF RowsInv, Typed
<1>5. ASSUME Answers(r)
      PROVE  RestTyped
  <2>1. PICK row, reply : Fits(row, reply) /\ RecordAndReply(r, row, reply)
    BY <1>5 DEF Answers
  <2>2. /\ request' = [request EXCEPT ![r].stage = "reply", ![r].reply = reply]
        /\ Record(r, row) /\ sent' = sent /\ row \in AllRows /\ reply \in AllReplies
    BY <2>1 DEF RecordAndReply, Fits
  <2>3. [request[r] EXCEPT !.stage = "reply", !.reply = reply] \in Handlers
    BY <1>1, <2>2 DEF Handlers, Stages
  <2>4. request' \in [Requests -> Handlers]
    BY <2>2, <2>3 DEF RowsInv, Typed
  <2>5. Append(rows[r], row) \in Seq(AllRows) /\ <<>> \in Seq(AllRows)
    BY <1>1, <2>2
  <2>6. rows' \in [Requests -> Seq(AllRows)] /\ lost' \in [Requests -> BOOLEAN]
    BY <1>1, <2>2, <2>5 DEF Record, RowsInv, Typed
  <2>7. QED
    BY <2>2, <2>4, <2>6 DEF RowsInv, Typed
<1>6. ASSUME Send(r)
      PROVE  RestTyped
  <2>1. request[r].reply \in AllReplies /\ request[r].reply.location \in Urls
    BY <1>1 DEF Handlers, AllReplies
  <2>2. \A stage \in {"answered", "follow"} :
          [request[r] EXCEPT !.stage = stage, !.url = request[r].reply.location] \in Handlers
    BY <1>1, <2>1 DEF Handlers, Stages
  <2>3. request' \in [Requests -> Handlers]
    BY <1>6, <2>2 DEF Send, RowsInv, Typed
  <2>4. Append(sent[r], request[r].reply) \in Seq(AllReplies)
    BY <1>1, <2>1
  <2>5. QED
    BY <1>6, <2>3, <2>4 DEF Send, RowsInv, Typed
<1>7. ASSUME Leave(r)
      PROVE  RestTyped
  BY <1>7, IdleIsTyped DEF Leave, RowsInv, Typed
<1>8. RestTyped
  BY <1>3, <1>4, <1>5, <1>6, <1>7, RequestKinds
<1>9. QED
  BY <1>2, <1>8 DEF RowsInv, Typed

LEMMA NextRows ==
  ASSUME RowsInv, [Next]_vars
  PROVE  RowsInv'
<1>1. ASSUME NEW r \in Requests, RequestStep(r), UNCHANGED <<server, config>>
      PROVE  RowsInv'
  <2>1. CASE Moves(r)
    <3>1. PICK h \in Handlers :
            /\ request' = [request EXCEPT ![r] = h] /\ UNCHANGED <<sent, rows, lost>>
            /\ Awaits(r) /\ h.stage \notin {"idle", "reply"}
            /\ h.stage = "answered" => At(r, "follow")
            /\ DecisionIsDrawn(r)'
      BY <2>1 DEF Moves
    <3>2. \A q \in Requests : RowsOf(q)'
      BY <1>1, <3>1, MoveKeepsRows DEF Awaits
    <3>3. QED
      BY <1>1, <3>2, RequestKeepsTypes DEF RowsInv
  <2>2. CASE Refuses(r)
    <3>1. \A q \in Requests : RowsOf(q)'
      BY <1>1, <2>2, RefuseKeepsRows DEF Refuses, Awaits
    <3>2. QED
      BY <1>1, <3>1, RequestKeepsTypes DEF RowsInv
  <2>3. CASE Answers(r) /\ Works(r)
    BY <1>1, <2>3, AnswerKeepsRows, RequestKeepsTypes DEF RowsInv, Works
  <2>4. CASE Send(r)
    BY <1>1, <2>4, SendKeepsRows, RequestKeepsTypes DEF RowsInv
  <2>5. CASE Leave(r)
    BY <1>1, <2>5, LeaveKeepsRows, RequestKeepsTypes DEF RowsInv
  <2>6. QED
    BY <1>1, <2>1, <2>2, <2>3, <2>4, <2>5, RequestKinds
<1>2. ASSUME UpdateConfig \/ UNCHANGED vars, UNCHANGED server
      PROVE  RowsInv'
  <2>1. UNCHANGED <<request, sent, rows, lost, limits>> /\ config' \in Configs
    BY <1>2 DEF UpdateConfig, vars, RowsInv, Typed
  <2>2. \A q \in Requests : RowsOf(q)'
    BY <1>2, <2>1, OtherVisitsKeepRows DEF RowsInv
  <2>3. QED
    BY <1>2, <2>1, <2>2 DEF RowsInv, Typed
<1>3. ASSUME Reset, UNCHANGED server
      PROVE  RowsInv'
  <2>1. Typed'
    BY <1>3 DEF Reset, RowsInv, Typed
  <2>2. QED
    BY <1>3, <2>1, ResetKeepsRows DEF RowsInv
<1>4. QED
  BY <1>1, <1>2, <1>3 DEF Next, vars

LEMMA RowsInvHolds == Spec => []RowsInv
BY InitRows, NextRows, PTL DEF Spec

(* In every state each reply that is due a row has one of its own in the   *)
(* order of the replies, unless a row of the visit was lost or reset, and  *)
(* the row says what the client met.                                       *)
THEOREM RowsAgree == Spec => []RowsMatchReplies
<1>1. ASSUME server \in Servers, NEW row, NEW reply, AgreesInDetail(row, reply)
      PROVE  Agrees(row, reply)
  <2>1. reply.kind = "dropped" <=> row.error \in DroppedErrors
    BY <1>1 DEF AgreesInDetail
  <2>2. /\ reply.kind = "dropped" => row.error \in Drops
        /\ server # "llm" /\ row.error \in Drops => reply.kind = "dropped"
    BY <1>1, <2>1, ServingAssumption DEF Drops, DroppedErrors
  <2>3. QED
    BY <1>1, <2>2 DEF AgreesInDetail, Agrees
<1>2. RowsInv => RowsMatchReplies
  BY <1>1 DEF RowsInv, Typed, RowsOf, RowsMatch, RowsMatchReplies
<1>3. QED
  BY RowsInvHolds, <1>2, PTL

(* Every row a server ever stores is counted in one counter of the time    *)
(* series, and as a success only if it is one.                             *)
THEOREM RowsCountOnce == Spec => []CountedOnce
<1>1. RowsInv => CountedOnce
  BY DEF RowsInv, RowsOf, Counted, CountedOnce
<1>2. QED
  BY RowsInvHolds, <1>1, PTL

-----------------------------------------------------------------------------
(* Every step keeps the loops within the limits. *)

LEMMA AheadIsNatural ==
  ASSUME RowsInv, NEW r \in Requests, HopIsWithin(r)
  PROVE  /\ Ahead(r) \in Int
         /\ ~At(r, "follow") \/ limits[r] # <<>> => Ahead(r) >= 0
<1>1. /\ request[r] \in Handlers /\ DecisionIsDrawn(r) /\ Typed
      /\ At(r, "reply") => Followed(request[r].reply)
  BY DEF RowsInv, Typed, RowsOf
<1>2. CASE At(r, "asleep") /\ request[r].path # "hop"
  <2>1. Ahead(r) = OfDecision(request[r].decision)
    BY <1>2 DEF Ahead, At
  <2>2. OfDecision(request[r].decision) \in Int
    BY <1>1 DEF OfDecision, Handlers, AllDecisions
  <2>3. QED
    BY <1>1, <1>2, <2>1, <2>2, DecisionAhead
<1>3. CASE OnHop(r) \/ At(r, "follow")
  <2>1. Ahead(r) = OfUrl(request[r].url)
    BY <1>3 DEF Ahead, OnHop, At
  <2>2. request[r].url[1] \in Int /\ request[r].url[2] \in Int
    BY <1>1 DEF Handlers, Urls
  <2>3. OnHop(r) \/ limits[r] # <<>> => request[r].url[1] <= request[r].url[2]
    BY <1>1, <1>3 DEF DecisionIsDrawn, HopIsWithin
  <2>4. OnHop(r) => ~At(r, "follow")
    BY DEF OnHop, At
  <2>5. QED
    BY <1>3, <2>1, <2>2, <2>3, <2>4 DEF OfUrl
<1>4. CASE At(r, "reply")
  <2> DEFINE reply == request[r].reply
  <2>1. Ahead(r) = OfReply(reply)
    BY <1>4 DEF Ahead, At
  <2>2. reply \in AllReplies
    BY <1>1 DEF Handlers
  <2>3. reply.location[1] \in Int /\ reply.location[2] \in Int
    BY <2>2 DEF AllReplies, Urls
  <2>4. OfReply(reply) \in Int /\ OfReply(reply) >= 0
    BY <1>1, <1>4, <2>3 DEF OfReply, OfUrl, Followed
  <2>5. QED
    BY <2>1, <2>4
<1>5. CASE request[r].stage \notin {"asleep", "follow", "reply"}
  BY <1>5 DEF Ahead, At
<1>6. QED
  BY <1>2, <1>3, <1>4, <1>5 DEF OnHop, At

LEMMA RedirectsAreFinite ==
  ASSUME NEW r \in Requests, NEW i \in Int, sent[r] \in Seq(AllReplies)
  PROVE  /\ IsFiniteSet(Redirects(r, i)) /\ Cardinality(Redirects(r, i)) \in Nat
         /\ i > Len(sent[r]) => Cardinality(Redirects(r, i)) = 0
<1>1. IsFiniteSet(i..Len(sent[r]))
  BY FS_Interval
<1>2. Redirects(r, i) \subseteq i..Len(sent[r])
  BY DEF Redirects
<1>3. IsFiniteSet(Redirects(r, i))
  BY <1>1, <1>2, FS_Subset
<1>4. i > Len(sent[r]) => Redirects(r, i) = {}
  BY DEF Redirects
<1>5. QED
  BY <1>3, <1>4, FS_CardinalityType, FS_EmptySet

(* A step that sends nothing: what is ahead of the requests before does    *)
(* not grow, and is within the limit of a request that begins.             *)
LEMMA LimitedWithoutReply ==
  ASSUME NEW r \in Requests, LoopIsLimited(r), sent[r] \in Seq(AllReplies),
         sent'[r] = sent[r], limits[r] \in Seq(Nat), Ahead(r) \in Int, Ahead(r)' \in Int,
         limits[r] # <<>> => Ahead(r)' <= Ahead(r),
         \/ limits'[r] = limits[r]
         \/ \E max \in Nat : /\ limits'[r] = Append(limits[r], max)
                             /\ Ahead(r)' <= max /\ Len(sent[r]) <= Len(limits[r])
  PROVE  LoopIsLimited(r)'
<1>1. \A i : Redirects(r, i)' = Redirects(r, i)
  BY DEF Redirects
<1>2. \A i \in DOMAIN limits[r] : Cardinality(Redirects(r, i)) + Ahead(r)' <= limits[r][i]
  <2> SUFFICES ASSUME NEW i \in DOMAIN limits[r]
               PROVE  Cardinality(Redirects(r, i)) + Ahead(r)' <= limits[r][i]
    OBVIOUS
  <2>1. i \in Int /\ limits[r] # <<>> /\ limits[r][i] \in Nat
    OBVIOUS
  <2>2. Cardinality(Redirects(r, i)) \in Nat
    BY <2>1, RedirectsAreFinite
  <2>3. QED
    BY <2>1, <2>2 DEF LoopIsLimited
<1>3. CASE limits'[r] = limits[r]
  BY <1>1, <1>2, <1>3 DEF LoopIsLimited
<1>4. ASSUME NEW max \in Nat, limits'[r] = Append(limits[r], max), Ahead(r)' <= max,
             Len(sent[r]) <= Len(limits[r])
      PROVE  LoopIsLimited(r)'
  <2> SUFFICES ASSUME NEW i \in DOMAIN limits'[r]
               PROVE  Cardinality(Redirects(r, i)) + Ahead(r)' <= limits'[r][i]
    BY <1>1 DEF LoopIsLimited
  <2>1. CASE i \in DOMAIN limits[r]
    BY <1>2, <1>4, <2>1
  <2>2. CASE i = Len(limits[r]) + 1
    <3>1. limits'[r][i] = max /\ i \in Int /\ i > Len(sent[r])
      BY <1>4, <2>2
    <3>2. Cardinality(Redirects(r, i)) = 0
      BY <3>1, RedirectsAreFinite
    <3>3. QED
      BY <1>4, <3>1, <3>2
  <2>3. QED
    BY <1>4, <2>1, <2>2
<1>5. QED
  BY <1>3, <1>4

(* A reply that is a redirect was one of those ahead. *)
LEMMA LimitedByReply ==
  ASSUME NEW r \in Requests, LoopIsLimited(r), sent[r] \in Seq(AllReplies),
         NEW reply \in AllReplies, sent'[r] = Append(sent[r], reply),
         limits[r] \in Seq(Nat), limits'[r] = limits[r], Ahead(r) \in Int, Ahead(r)' \in Int,
         Ahead(r)' + (IF reply.status = 301 THEN 1 ELSE 0) <= Ahead(r)
  PROVE  LoopIsLimited(r)'
<1> DEFINE n == Len(sent[r]) + 1
<1> SUFFICES ASSUME NEW i \in DOMAIN limits[r]
             PROVE  Cardinality(Redirects(r, i)') + Ahead(r)' <= limits[r][i]
  BY DEF LoopIsLimited
<1>1. i \in Int /\ limits[r][i] \in Nat
  OBVIOUS
<1>2. IsFiniteSet(Redirects(r, i)) /\ Cardinality(Redirects(r, i)) \in Nat
  BY <1>1, RedirectsAreFinite
<1>3. /\ Redirects(r, i)' \subseteq Redirects(r, i) \cup {n}
      /\ reply.status # 301 => Redirects(r, i)' \subseteq Redirects(r, i)
  <2>1. /\ Len(sent'[r]) = n /\ n \in Nat /\ sent'[r][n] = reply
        /\ \A j \in 1..Len(sent[r]) : sent'[r][j] = sent[r][j]
    OBVIOUS
  <2>2. i >= 1
    OBVIOUS
  <2>3. QED
    BY <2>1, <2>2 DEF Redirects
<1>4. IsFiniteSet(Redirects(r, i) \cup {n}) /\ Cardinality(Redirects(r, i) \cup {n}) <= Cardinality(Redirects(r, i)) + 1
  <2> HIDE DEF n
  <2>1. /\ IsFiniteSet(Redirects(r, i) \cup {n})
        /\ Cardinality(Redirects(r, i) \cup {n}) =
             IF n \in Redirects(r, i) THEN Cardinality(Redirects(r, i))
             ELSE Cardinality(Redirects(r, i)) + 1
    BY <1>2, FS_AddElement
  <2>2. QED
    BY <1>2, <2>1
<1>5. Cardinality(Redirects(r, i)) + Ahead(r) <= limits[r][i]
  BY DEF LoopIsLimited
<1>6. CASE reply.status = 301
  <2>1. /\ Cardinality(Redirects(r, i)') <= Cardinality(Redirects(r, i) \cup {n})
        /\ IsFiniteSet(Redirects(r, i)')
    BY <1>3, <1>4, FS_Subset
  <2>2. Cardinality(Redirects(r, i)') \in Nat /\ Cardinality(Redirects(r, i) \cup {n}) \in Nat
    BY <1>4, <2>1, FS_CardinalityType
  <2>3. QED
    BY <1>1, <1>2, <1>4, <1>5, <1>6, <2>1, <2>2
<1>7. CASE reply.status # 301
  <2>1. /\ Cardinality(Redirects(r, i)') <= Cardinality(Redirects(r, i))
        /\ IsFiniteSet(Redirects(r, i)')
    BY <1>2, <1>3, <1>7, FS_Subset
  <2>2. Cardinality(Redirects(r, i)') \in Nat
    BY <2>1, FS_CardinalityType
  <2>3. QED
    BY <1>1, <1>2, <1>5, <1>7, <2>1, <2>2
<1>8. QED
  BY <1>6, <1>7

LEMMA OtherVisitsKeepChains ==
  ASSUME NEW q, ChainOf(q),
         request'[q] = request[q], sent'[q] = sent[q], limits'[q] = limits[q]
  PROVE  ChainOf(q)'
<1>1. Ahead(q)' = Ahead(q) /\ \A i : Redirects(q, i)' = Redirects(q, i)
  BY DEF Ahead, Redirects, At
<1>2. LoopIsLimited(q)'
  BY <1>1 DEF ChainOf, LoopIsLimited
<1>3. LimitIsFresh(q)' /\ HopIsWithin(q)' /\ PageComesFirst(q)'
  BY DEF ChainOf, LimitIsFresh, HopIsWithin, PageComesFirst, At, Last
<1>4. LoopIsAsAdvertised(q)'
  BY DEF ChainOf, LoopIsAsAdvertised, Advertised, OnItsWay, AtItsEnd, Unlowered, OnHop, At, Last
<1>5. QED
  BY <1>2, <1>3, <1>4 DEF ChainOf

(* A request that took its snapshot, before anything was sent. *)
LEMMA StartKeepsChain ==
  ASSUME RowsInv, NEW r \in Requests, ChainOf(r), At(r, "idle"), NEW max \in Nat,
         request'[r].stage \in {"body", "asleep"}, request'[r].path # "hop",
         request'[r].decision \in AllDecisions,
         At(r, "asleep")' => OfDecision(request'[r].decision) <= max,
         sent'[r] = sent[r], limits'[r] = Append(limits[r], max)
  PROVE  ChainOf(r)'
<1>1. sent[r] = <<>> /\ limits[r] = <<>>
  BY DEF RowsInv, RowsOf, RowsAreComplete, ChainOf, LimitIsFresh
<1>2. limits'[r] = <<max>> /\ Len(limits'[r]) = 1 /\ Len(sent'[r]) = 0
  BY <1>1
<1>3. Ahead(r)' \in Int /\ Ahead(r)' <= max
  BY DEF Ahead, At, OfDecision, AllDecisions
<1>4. LoopIsLimited(r)'
  <2>1. Ahead(r) = 0
    BY DEF Ahead, At
  <2>2. sent[r] \in Seq(AllReplies) /\ limits[r] \in Seq(Nat) /\ LoopIsLimited(r)
    BY DEF RowsInv, Typed, ChainOf
  <2>3. Len(sent[r]) <= Len(limits[r])
    BY <1>1
  <2>4. Ahead(r) \in Int /\ (limits[r] # <<>> => Ahead(r)' <= Ahead(r))
    BY <1>1, <2>1
  <2>5. \E m \in Nat : /\ limits'[r] = Append(limits[r], m)
                       /\ Ahead(r)' <= m /\ Len(sent[r]) <= Len(limits[r])
    BY <1>3, <2>3
  <2>6. QED
    BY <1>3, <2>2, <2>4, <2>5, LimitedWithoutReply
<1>5. LimitIsFresh(r)' /\ HopIsWithin(r)' /\ PageComesFirst(r)'
  BY <1>1, <1>2 DEF LimitIsFresh, HopIsWithin, PageComesFirst, At
<1>6. LoopIsAsAdvertised(r)'
  BY <1>1 DEF LoopIsAsAdvertised, Advertised
<1>7. QED
  BY <1>4, <1>5, <1>6 DEF ChainOf

LEMMA EntryKeepsChain ==
  ASSUME RowsInv, NEW r \in Requests, ChainOf(r), At(r, "idle"), At(r, "follow")',
         sent'[r] = sent[r], limits'[r] = limits[r]
  PROVE  ChainOf(r)'
<1>1. sent[r] = <<>> /\ limits[r] = <<>>
  BY DEF RowsInv, RowsOf, RowsAreComplete, ChainOf, LimitIsFresh
<1>2. LoopIsLimited(r)'
  BY <1>1 DEF LoopIsLimited
<1>3. LimitIsFresh(r)' /\ HopIsWithin(r)' /\ PageComesFirst(r)'
  BY <1>1 DEF LimitIsFresh, HopIsWithin, PageComesFirst, At
<1>4. LoopIsAsAdvertised(r)'
  BY <1>1 DEF LoopIsAsAdvertised, Advertised
<1>5. QED
  BY <1>2, <1>3, <1>4 DEF ChainOf

(* A handler that goes on without a snapshot and without a reply. *)
LEMMA WaitKeepsChain ==
  ASSUME RowsInv, NEW r \in Requests, ChainOf(r), At(r, "asleep")',
         sent'[r] = sent[r], limits'[r] = limits[r],
         \/ /\ At(r, "asleep") /\ request'[r].path = request[r].path
            /\ request'[r].url = request[r].url /\ request'[r].decision = request[r].decision
         \/ /\ At(r, "body") /\ request'[r].path # "hop" /\ OfDecision(request'[r].decision) = 0
  PROVE  ChainOf(r)'
<1>1. Ahead(r)' = Ahead(r)
  BY DEF Ahead, At
<1>2. \A i : Redirects(r, i)' = Redirects(r, i)
  BY DEF Redirects
<1>3. LoopIsLimited(r)'
  BY <1>1, <1>2 DEF ChainOf, LoopIsLimited
<1>4. LimitIsFresh(r)' /\ HopIsWithin(r)' /\ PageComesFirst(r)'
  BY DEF ChainOf, LimitIsFresh, HopIsWithin, PageComesFirst, At, Last
<1>5. LoopIsAsAdvertised(r)'
  BY DEF ChainOf, LoopIsAsAdvertised, PageComesFirst, Advertised, OnItsWay, Unlowered, OnHop, At
<1>6. QED
  BY <1>3, <1>4, <1>5 DEF ChainOf

(* The client gave up, or was refused where it may have come to. *)
LEMMA RefusalKeepsChain ==
  ASSUME RowsInv, NEW r \in Requests, ChainOf(r), Awaits(r),
         \/ At(r, "follow") /\ At(r, "answered")'
         \/ /\ At(r, "reply")' /\ request'[r].reply.location = NoUrl
            /\ request'[r].reply.hops = NoHops /\ request'[r].reply.status # 301,
         sent'[r] = sent[r],
         \/ limits'[r] = limits[r]
         \/ At(r, "follow") /\ \E max \in Nat : limits'[r] = Append(limits[r], max)
  PROVE  ChainOf(r)'
<1>1. /\ sent[r] \in Seq(AllReplies) /\ limits[r] \in Seq(Nat) /\ LoopIsLimited(r)
      /\ Ahead(r) \in Int /\ (~At(r, "follow") \/ limits[r] # <<>> => Ahead(r) >= 0)
  BY AheadIsNatural DEF RowsInv, Typed, ChainOf
<1>2. Ahead(r)' = 0
  BY DEF Ahead, At, OfReply
<1>3. At(r, "follow") => Len(sent[r]) <= Len(limits[r])
  BY DEF ChainOf, LimitIsFresh
<1>4. LoopIsLimited(r)'
  BY <1>1, <1>2, <1>3, LimitedWithoutReply
<1>5. LimitIsFresh(r)' /\ HopIsWithin(r)' /\ PageComesFirst(r)'
  BY DEF LimitIsFresh, HopIsWithin, PageComesFirst, At
<1>6. LoopIsAsAdvertised(r)'
  <2>1. ~At(r, "follow")' /\ ~OnHop(r)'
    BY DEF OnHop, At
  <2>2. At(r, "reply")' => request'[r].reply.location = NoUrl /\ request'[r].reply.hops = NoHops
    BY DEF At
  <2>3. At(r, "answered")' /\ sent[r] # <<>> => Last(sent[r]).hops = NoHops
    BY DEF ChainOf, PageComesFirst, At
  <2>4. QED
    BY <2>1, <2>2, <2>3 DEF LoopIsAsAdvertised, Advertised, Last
<1>7. QED
  BY <1>4, <1>5, <1>6 DEF ChainOf

(* A hop that is not refused is capped by a limit of its own. *)
LEMMA HopKeepsChain ==
  ASSUME RowsInv, NEW r \in Requests, ChainOf(r), At(r, "follow"),
         NEW max \in Nat, max >= MinLoopHops, limits'[r] = Append(limits[r], max),
         sent'[r] = sent[r], At(r, "asleep")', request'[r].path = "hop",
         request'[r].url = HopUrl(request[r].url, max)
  PROVE  ChainOf(r)'
<1> DEFINE url == request[r].url
           capped == HopUrl(url, max)
<1>1. /\ sent[r] \in Seq(AllReplies) /\ limits[r] \in Seq(Nat) /\ LoopIsLimited(r)
      /\ url \in Urls /\ url[1] \in Int /\ url[2] \in Int /\ Len(sent[r]) <= Len(limits[r])
  BY DEF RowsInv, Typed, Handlers, Urls, ChainOf, LimitIsFresh
<1>2. /\ capped \in Urls /\ capped[1] \in Int /\ capped[2] \in Int
      /\ 1 <= capped[1] /\ capped[1] <= capped[2] /\ capped[2] <= max
      /\ 1 <= url[1] /\ url[1] <= url[2] => OfUrl(capped) <= OfUrl(url)
      /\ 1 <= url[1] => capped[1] <= url[1]
      /\ 1 <= url[1] /\ url[1] <= url[2] /\ url[2] <= max => capped = url
  BY <1>1, HopUrlIsCapped DEF Urls
<1>3. request'[r].url = capped
  OBVIOUS
<1> HIDE DEF capped
<1>4. Ahead(r) = OfUrl(url) /\ Ahead(r)' = OfUrl(capped)
  BY <1>3 DEF Ahead, At
<1>5. OfUrl(url) \in Int /\ OfUrl(capped) \in Int
  BY <1>1, <1>2 DEF OfUrl
<1>6. limits[r] # <<>> => 1 <= url[1] /\ url[1] <= url[2]
  BY DEF ChainOf, HopIsWithin
<1>7. LoopIsLimited(r)'
  <2>1. /\ Ahead(r) \in Int /\ Ahead(r)' \in Int /\ Ahead(r)' <= max
        /\ limits[r] # <<>> => Ahead(r)' <= Ahead(r)
    BY <1>1, <1>2, <1>4, <1>6 DEF OfUrl
  <2>2. \E m \in Nat : /\ limits'[r] = Append(limits[r], m)
                       /\ Ahead(r)' <= m /\ Len(sent[r]) <= Len(limits[r])
    BY <1>1, <2>1
  <2>3. QED
    BY <1>1, <2>1, <2>2, LimitedWithoutReply
<1>8. LimitIsFresh(r)' /\ HopIsWithin(r)' /\ PageComesFirst(r)'
  BY <1>1 DEF LimitIsFresh, HopIsWithin, PageComesFirst, At
<1>9. LoopIsAsAdvertised(r)'
  <2> SUFFICES ASSUME Advertised(r)
               PROVE  OnItsWay(r, Len(sent[r]), request[r].url)'
    <3>1. ~At(r, "reply")' /\ ~At(r, "answered")'
      BY DEF At
    <3>2. Advertised(r)' => Advertised(r)
      BY DEF Advertised
    <3>3. QED
      BY <3>1, <3>2 DEF LoopIsAsAdvertised
  <2> DEFINE advertised == sent[r][1].location[2]
  <2>1. /\ sent[r] # <<>> /\ limits[r] # <<>>
        /\ sent[r][1] \in AllReplies /\ advertised \in Int /\ Len(sent[r]) \in Nat
    <3>1. sent[r] # <<>> /\ Len(sent[r]) >= 1 /\ sent[r][1] \in AllReplies
      BY <1>1 DEF Advertised
    <3>2. limits[r] # <<>>
      BY <1>1, <3>1
    <3>3. \A reply \in AllReplies : reply.location[2] \in Int
      BY DEF AllReplies, Urls
    <3>4. advertised \in Int
      BY <3>1, <3>3
    <3>5. Len(sent[r]) \in Nat
      BY <1>1
    <3>6. QED
      BY <3>1, <3>2, <3>4, <3>5
  <2>2. OnItsWay(r, Len(sent[r]), url)
    BY DEF ChainOf, LoopIsAsAdvertised
  <2>3. capped[1] <= Len(sent[r]) /\ OfUrl(capped) <= advertised - Len(sent[r])
    <3>1. url[1] <= Len(sent[r]) /\ OfUrl(url) <= advertised - Len(sent[r])
      BY <2>2 DEF OnItsWay
    <3>2. capped[1] <= url[1] /\ OfUrl(capped) <= OfUrl(url)
      BY <1>2, <1>6, <2>1
    <3>3. /\ url[1] \in Int /\ capped[1] \in Int /\ OfUrl(url) \in Int /\ OfUrl(capped) \in Int
          /\ Len(sent[r]) \in Int /\ advertised \in Int
      BY <1>1, <1>2, <1>5, <2>1
    <3> HIDE DEF url, advertised
    <3>4. QED
      BY <3>1, <3>2, <3>3
  <2>4. Unlowered(r)' => Unlowered(r) /\ max >= advertised
    <3>1. SUFFICES ASSUME \A i \in DOMAIN limits'[r] : limits'[r][i] >= sent'[r][1].location[2]
                   PROVE  (\A i \in DOMAIN limits[r] : limits[r][i] >= advertised) /\ max >= advertised
      BY DEF Unlowered
    <3>2. /\ limits'[r][Len(limits[r]) + 1] = max /\ Len(limits[r]) + 1 \in DOMAIN limits'[r]
          /\ \A i \in DOMAIN limits[r] : i \in DOMAIN limits'[r] /\ limits'[r][i] = limits[r][i]
      BY <1>1
    <3>3. QED
      BY <3>1, <3>2
  <2>5. Unlowered(r)' => capped = <<Len(sent[r]), advertised>>
    <3>1. SUFFICES ASSUME Unlowered(r)'
                   PROVE  capped = <<Len(sent[r]), advertised>>
      OBVIOUS
    <3>2. url = <<Len(sent[r]), advertised>> /\ max >= advertised
      BY <2>2, <2>4, <3>1 DEF OnItsWay
    <3>3. url[2] <= max
      BY <2>1, <3>2
    <3>4. QED
      BY <1>2, <1>6, <2>1, <3>2, <3>3
  <2>6. /\ OnItsWay(r, Len(sent[r]), request[r].url)' <=>
             /\ capped[1] <= Len(sent[r])
             /\ OfUrl(capped) <= advertised - Len(sent[r])
             /\ Unlowered(r)' => capped = <<Len(sent[r]), advertised>>
    BY <1>3 DEF OnItsWay
  <2>7. QED
    BY <2>3, <2>5, <2>6
<1>10. QED
  BY <1>7, <1>8, <1>9 DEF ChainOf

LEMMA LeaveKeepsChain ==
  ASSUME RowsInv, NEW r \in Requests, Leave(r)
  PROVE  ChainOf(r)'
<1>1. At(r, "idle")' /\ sent'[r] = <<>> /\ limits'[r] = <<>>
  BY DEF Leave, RowsInv, Typed, Idle, At
<1>2. LoopIsLimited(r)'
  BY <1>1 DEF LoopIsLimited
<1>3. LimitIsFresh(r)' /\ HopIsWithin(r)' /\ PageComesFirst(r)'
  BY <1>1 DEF LimitIsFresh, HopIsWithin, PageComesFirst, At
<1>4. LoopIsAsAdvertised(r)'
  BY <1>1 DEF LoopIsAsAdvertised, Advertised
<1>5. QED
  BY <1>2, <1>3, <1>4 DEF ChainOf

(* A handler that replies promises no more redirects than were ahead. *)
LEMMA AnswerKeepsChain ==
  ASSUME RowsInv, NEW r \in Requests, ChainOf(r), Answers(r), Works(r)
  PROVE  ChainOf(r)'
<1>1. PICK row, reply : Fits(row, reply) /\ Leads(r, reply) /\ RecordAndReply(r, row, reply)
  BY DEF Answers
<1>2. /\ request' = [request EXCEPT ![r].stage = "reply", ![r].reply = reply]
      /\ sent' = sent /\ limits' = limits
  BY <1>1 DEF RecordAndReply, Fits
<1>3. /\ request[r] \in Handlers /\ sent[r] \in Seq(AllReplies) /\ limits[r] \in Seq(Nat)
      /\ LoopIsLimited(r) /\ DecisionIsDrawn(r) /\ reply \in AllReplies /\ Followed(reply)
  BY <1>1 DEF RowsInv, Typed, RowsOf, ChainOf, Fits
<1>4. At(r, "reply")' /\ request'[r].reply = reply /\ Ahead(r)' = OfReply(reply)
  <2>1. request'[r] = [request[r] EXCEPT !.stage = "reply", !.reply = reply]
    BY <1>2 DEF RowsInv, Typed
  <2>2. request'[r].stage = "reply" /\ request'[r].reply = reply
    BY <1>3, <2>1 DEF Handlers
  <2>3. QED
    BY <2>2 DEF Ahead, At
<1>5. /\ Ahead(r) \in Int /\ OfReply(reply) \in Int /\ Len(sent[r]) \in Int
      /\ reply.location[1] \in Int /\ reply.location[2] \in Int /\ reply.hops \in Int
      /\ request[r].url \in Urls /\ request[r].url[1] \in Int /\ request[r].url[2] \in Int
  BY <1>3, AheadIsNatural DEF ChainOf, AllReplies, Urls, Handlers, OfReply, OfUrl
<1>6. CASE OnHop(r)
  <2> DEFINE hop == request[r].url[1]
             max == request[r].url[2]
             n == Len(sent[r])
             advertised == sent[r][1].location[2]
  <2>1. 1 <= hop /\ hop <= max /\ Ahead(r) = max - hop
    BY <1>3, <1>6 DEF DecisionIsDrawn, Ahead, OnHop, At, OfUrl
  <2>2. Len(sent[r]) < Len(limits[r])
    BY <1>6 DEF ChainOf, LimitIsFresh, OnHop, At
  <2>3. Advertised(r) =>
          /\ advertised \in Int /\ hop <= n /\ max - hop <= advertised - n
          /\ Unlowered(r) => hop = n /\ max = advertised
    <3> SUFFICES ASSUME Advertised(r)
                 PROVE  /\ advertised \in Int /\ hop <= n /\ max - hop <= advertised - n
                        /\ Unlowered(r) => hop = n /\ max = advertised
      OBVIOUS
    <3>1. OnItsWay(r, n, request[r].url)
      BY <1>6 DEF ChainOf, LoopIsAsAdvertised
    <3>2. sent[r][1] \in AllReplies
      BY <1>3 DEF Advertised
    <3>3. QED
      BY <3>1, <3>2 DEF OnItsWay, OfUrl, AllReplies, Urls
  <2>4. CASE hop < max
    <3>1. /\ reply.location = <<hop + 1, max>> /\ reply.status = 301 /\ reply.hops = NoHops
          /\ reply.location # NoUrl
      BY <1>1, <1>5, <1>6, <2>1, <2>4 DEF Leads, NoUrl
    <3>2. OfReply(reply) = Ahead(r)
      BY <1>5, <2>1, <3>1 DEF OfReply, OfUrl
    <3>3. LoopIsLimited(r)'
      BY <1>2, <1>3, <1>4, <1>5, <3>2, LimitedWithoutReply
    <3>4. LimitIsFresh(r)' /\ HopIsWithin(r)' /\ PageComesFirst(r)'
      BY <1>2, <1>4, <2>2 DEF LimitIsFresh, HopIsWithin, PageComesFirst, At
    <3>5. Advertised(r) => OnItsWay(r, n + 1, reply.location)
      <4> SUFFICES ASSUME Advertised(r)
                   PROVE  OnItsWay(r, n + 1, reply.location)
        OBVIOUS
      <4>1. reply.location[1] = hop + 1 /\ OfUrl(reply.location) = max - (hop + 1)
        BY <3>1 DEF OfUrl
      <4>2. hop + 1 <= n + 1 /\ max - (hop + 1) <= advertised - (n + 1)
        <5>1. /\ hop \in Int /\ max \in Int /\ n \in Int /\ advertised \in Int
              /\ hop <= n /\ max - hop <= advertised - n
          BY <1>5, <2>3
        <5> HIDE DEF hop, max, n, advertised
        <5>2. QED
          BY <5>1
      <4>3. Unlowered(r) => reply.location = <<n + 1, advertised>>
        BY <2>3, <3>1
      <4>4. QED
        BY <4>1, <4>2, <4>3 DEF OnItsWay
    <3>6. LoopIsAsAdvertised(r)'
      BY <1>2, <1>4, <3>1, <3>5 DEF LoopIsAsAdvertised, Advertised, OnItsWay, Unlowered, OnHop, At
    <3>7. QED
      BY <3>3, <3>4, <3>6 DEF ChainOf
  <2>5. CASE ~(hop < max)
    <3>1. reply.location = NoUrl /\ reply.status = 200 /\ reply.hops = hop /\ hop = max
      BY <1>1, <1>5, <1>6, <2>1, <2>5 DEF Leads
    <3>2. OfReply(reply) = Ahead(r)
      BY <1>5, <2>1, <3>1 DEF OfReply
    <3>3. LoopIsLimited(r)'
      BY <1>2, <1>3, <1>4, <1>5, <3>2, LimitedWithoutReply
    <3>4. LimitIsFresh(r)' /\ HopIsWithin(r)' /\ PageComesFirst(r)'
      BY <1>2, <1>4, <2>2 DEF LimitIsFresh, HopIsWithin, PageComesFirst, At
    <3>5. Advertised(r) => AtItsEnd(r, n, reply.hops)
      BY <1>5, <2>1, <2>3, <3>1 DEF AtItsEnd
    <3>6. LoopIsAsAdvertised(r)'
      BY <1>2, <1>4, <3>1, <3>5 DEF LoopIsAsAdvertised, Advertised, AtItsEnd, Unlowered, OnHop, At
    <3>7. QED
      BY <3>3, <3>4, <3>6 DEF ChainOf
  <2>6. QED
    BY <2>4, <2>5
<1>7. CASE ~OnHop(r)
  <2>1. reply.hops = NoHops /\ OfReply(reply) <= Ahead(r)
    BY <1>1, <1>7 DEF Leads
  <2>2. LoopIsLimited(r)'
    BY <1>2, <1>3, <1>4, <1>5, <2>1, LimitedWithoutReply
  <2>3. reply.location # NoUrl => /\ At(r, "asleep") /\ sent[r] = <<>>
                                  /\ Len(sent[r]) < Len(limits[r])
    <3> SUFFICES ASSUME reply.location # NoUrl
                 PROVE  At(r, "asleep") /\ sent[r] = <<>> /\ Len(sent[r]) < Len(limits[r])
      OBVIOUS
    <3>1. OfReply(reply) >= 1
      BY <1>3, <1>5 DEF Followed, OfReply, OfUrl
    <3>2. Ahead(r) >= 1
      BY <1>5, <2>1, <3>1
    <3>3. At(r, "asleep")
      BY <3>2 DEF Works, Ahead, At
    <3>4. QED
      BY <1>7, <3>3 DEF ChainOf, LimitIsFresh, PageComesFirst, OnHop, At
  <2>4. LimitIsFresh(r)' /\ HopIsWithin(r)' /\ PageComesFirst(r)'
    BY <1>2, <1>4, <2>3 DEF LimitIsFresh, HopIsWithin, PageComesFirst, At
  <2>5. LoopIsAsAdvertised(r)'
    BY <1>2, <1>4, <2>1, <2>3 DEF LoopIsAsAdvertised, Advertised, OnHop, At
  <2>6. QED
    BY <2>2, <2>4, <2>5 DEF ChainOf
<1>8. QED
  BY <1>6, <1>7

(* The client has the reply, and is at its location. *)
LEMMA SendKeepsChain ==
  ASSUME RowsInv, NEW r \in Requests, ChainOf(r), Send(r)
  PROVE  ChainOf(r)'
<1> DEFINE reply == request[r].reply
           n == Len(sent[r])
<1>1. /\ At(r, "reply") /\ request[r] \in Handlers /\ reply \in AllReplies /\ Followed(reply)
      /\ sent[r] \in Seq(AllReplies) /\ limits[r] \in Seq(Nat) /\ LoopIsLimited(r)
  BY DEF Send, RowsInv, Typed, RowsOf, ChainOf, Handlers
<1>2. /\ sent'[r] = Append(sent[r], reply) /\ limits' = limits
      /\ request'[r].stage = (IF reply.location = NoUrl THEN "answered" ELSE "follow")
      /\ request'[r].url = reply.location
  BY <1>1 DEF Send, RowsInv, Typed, Handlers
<1>3. /\ n \in Nat /\ reply.location \in Urls
      /\ reply.location[1] \in Int /\ reply.location[2] \in Int
  BY <1>1 DEF AllReplies, Urls
<1>4. Len(sent'[r]) = n + 1 /\ Last(sent'[r]) = reply /\ sent'[r] # <<>>
  BY <1>1, <1>2 DEF Last
<1>5. LoopIsLimited(r)'
  <2>1. Ahead(r) = OfReply(reply)
    BY <1>1 DEF Ahead, At
  <2>2. Ahead(r)' = IF reply.location = NoUrl THEN 0 ELSE OfUrl(reply.location)
    BY <1>2 DEF Ahead, At
  <2>3. /\ Ahead(r) \in Int /\ Ahead(r)' \in Int
        /\ Ahead(r)' + (IF reply.status = 301 THEN 1 ELSE 0) <= Ahead(r)
    <3>1. CASE reply.location = NoUrl
      BY <2>1, <2>2, <3>1 DEF OfReply
    <3>2. CASE reply.location # NoUrl
      <4> DEFINE redirects == IF reply.status = 301 THEN 1 ELSE 0
                 left == OfUrl(reply.location)
      <4>1. Ahead(r) = redirects + left /\ Ahead(r)' = left
        BY <2>1, <2>2, <3>2 DEF OfReply
      <4>2. redirects \in Int /\ left \in Int
        BY <1>3 DEF OfUrl
      <4> HIDE DEF redirects, left
      <4>3. Ahead(r) \in Int /\ Ahead(r)' \in Int /\ Ahead(r)' + redirects <= Ahead(r)
        BY <4>1, <4>2
      <4>4. QED
        BY <4>3 DEF redirects
    <3>3. QED
      BY <3>1, <3>2
  <2>4. QED
    BY <1>1, <1>2, <2>3, LimitedByReply
<1>6. reply.location # NoUrl => n < Len(limits[r])
  BY <1>1 DEF ChainOf, LimitIsFresh
<1>7. LimitIsFresh(r)'
  BY <1>1, <1>2, <1>3, <1>4, <1>6 DEF LimitIsFresh, At
<1>8. HopIsWithin(r)' /\ PageComesFirst(r)'
  BY <1>1, <1>2, <1>4 DEF HopIsWithin, PageComesFirst, Followed, At
<1>9. LoopIsAsAdvertised(r)'
  <2>1. CASE sent[r] = <<>>
    <3>1. sent'[r][1] = reply /\ Len(sent'[r]) = 1
      BY <1>1, <1>2, <2>1
    <3>2. SUFFICES ASSUME reply.location[1] = 1
                   PROVE  At(r, "follow")' /\ OnItsWay(r, Len(sent[r]), request[r].url)'
      BY <3>1 DEF LoopIsAsAdvertised, Advertised, OnHop, At
    <3>3. At(r, "follow")'
      BY <1>2, <3>2 DEF NoUrl, At
    <3>4. reply.location = <<1, reply.location[2]>>
      BY <1>3, <3>2 DEF Urls
    <3>5. QED
      BY <1>2, <1>3, <3>1, <3>2, <3>3, <3>4 DEF OnItsWay, OfUrl
  <2>2. CASE sent[r] # <<>>
    <3>1. sent'[r][1] = sent[r][1]
      BY <1>1, <1>2, <2>2
    <3>2. (Advertised(r)' <=> Advertised(r)) /\ (Unlowered(r)' <=> Unlowered(r))
      BY <1>2, <1>4, <2>2, <3>1 DEF Advertised, Unlowered
    <3>3. CASE reply.location = NoUrl
      <4>1. Advertised(r) /\ reply.hops # NoHops => AtItsEnd(r, n, reply.hops)
        BY <1>1 DEF ChainOf, LoopIsAsAdvertised
      <4>2. Len(sent'[r]) - 1 = n
        BY <1>3, <1>4
      <4>3. QED
        BY <1>2, <1>4, <3>1, <3>2, <3>3, <4>1, <4>2 DEF LoopIsAsAdvertised, AtItsEnd, OnHop, At
    <3>4. CASE reply.location # NoUrl
      <4>1. Advertised(r) => OnItsWay(r, n + 1, reply.location)
        BY <1>1, <3>4 DEF ChainOf, LoopIsAsAdvertised
      <4>2. QED
        BY <1>2, <1>4, <3>1, <3>2, <3>4, <4>1 DEF LoopIsAsAdvertised, OnItsWay, OnHop, At
    <3>5. QED
      BY <3>3, <3>4
  <2>3. QED
    BY <2>1, <2>2
<1>10. QED
  BY <1>5, <1>7, <1>8, <1>9 DEF ChainOf

(* What a client that is refused is told. *)
LEMMA RefusalIsPlain ==
  ASSUME RowsInv, NEW r \in Requests, NEW status, status # 301, Refuse(r, status)
  PROVE  /\ At(r, "reply")' /\ request'[r].reply.location = NoUrl
         /\ request'[r].reply.hops = NoHops /\ request'[r].reply.status # 301
<1>1. request[r] \in Handlers
  BY DEF RowsInv, Typed
<1>2. request'[r] = [request[r] EXCEPT !.stage = "reply", !.reply = Declined(status)]
  BY DEF Refuse, RowsInv, Typed
<1>3. request'[r].stage = "reply" /\ request'[r].reply = Declined(status)
  BY <1>1, <1>2 DEF Handlers
<1>4. QED
  BY <1>3 DEF At, Declined, Reply

LEMMA CallKeepsChain ==
  ASSUME RowsInv, NEW r \in Requests, ChainOf(r), Call(r), UNCHANGED <<server, config>>
  PROVE  ChainOf(r)'
<1>1. /\ request[r] \in Handlers /\ DecisionIsDrawn(r) /\ Typed
      /\ config \in Configs /\ config.maxHops \in Nat /\ config.maxHops >= MinLoopHops
  BY LimitsAreNaturals DEF RowsInv, Typed, RowsOf
<1>2. Snapshot(r) => limits'[r] = Append(limits[r], config.maxHops)
  BY <1>1 DEF Snapshot, Typed
<1>3. CASE LlmCall(r)
  <2> DEFINE h == [request[r] EXCEPT !.stage = "body", !.config = config]
  <2>1. At(r, "idle") /\ request[r].path # "hop" /\ sent' = sent /\ Snapshot(r)
    BY <1>1, <1>3 DEF LlmCall, DecisionIsDrawn
  <2>2. request'[r] = h
    BY <1>1, <1>3 DEF LlmCall, Typed
  <2>3. h.stage = "body" /\ h.path = request[r].path /\ h.decision \in AllDecisions
    BY <1>1 DEF Handlers
  <2> HIDE DEF h
  <2>4. QED
    BY <1>1, <1>2, <2>1, <2>2, <2>3, StartKeepsChain DEF At
<1>4. CASE PageCall(r)
  <2>1. /\ server = "web" /\ At(r, "idle") /\ Decide(r, config) /\ Snapshot(r)
        /\ UNCHANGED <<server, sent, rows, lost>> /\ request[r].path # "hop"
    BY <1>1, <1>4 DEF PageCall, DecisionIsDrawn
  <2>2. PICK d \in Decisions(config), n \in Int :
          /\ request'[r] = [request[r] EXCEPT !.stage = "asleep", !.config = config,
                                               !.decision = d, !.naps = n]
          /\ d \in AllDecisions /\ IsDrawn(d, request[r].path)
          /\ d.tag = "redirect_loop" => d.hops <= config.maxHops
    BY <1>1, <2>1, DecidingMoves
  <2>3. /\ request'[r].stage = "asleep" /\ request'[r].path = request[r].path
        /\ request'[r].decision = d
    BY <1>1, <2>2 DEF Handlers
  <2>4. OfDecision(d) <= config.maxHops
    BY <1>1, <2>2 DEF OfDecision, AllDecisions, MinLoopHops
  <2>5. QED
    BY <1>1, <1>2, <2>1, <2>2, <2>3, <2>4, StartKeepsChain DEF At
<1>5. CASE HopEntry(r)
  <2>1. At(r, "idle") /\ UNCHANGED <<sent, limits>> /\ Awaits(r)
    BY <1>5 DEF HopEntry, Awaits, At
  <2>2. ASSUME NEW url \in HopParams,
               request' = [request EXCEPT ![r].stage = "follow", ![r].url = url]
        PROVE  ChainOf(r)'
    <3>1. At(r, "follow")'
      BY <1>1, <2>2 DEF At, Typed, Handlers
    <3>2. QED
      BY <2>1, <3>1, EntryKeepsChain
  <2>3. CASE Refuse(r, 400)
    BY <2>1, <2>3, RefusalIsPlain, RefusalKeepsChain
  <2>4. QED
    BY <1>5, <2>2, <2>3 DEF HopEntry
<1>6. CASE BlobCall(r)
  <2>1. At(r, "idle") /\ server = "blob" /\ BlobDecide(r) /\ sent' = sent /\ Snapshot(r)
    BY <1>6 DEF BlobCall
  <2>2. PICK op \in BlobOperations : \E d \in {Success} \cup {BlobDecision(t) : t \in BlobTags(op)} :
          request' = [request EXCEPT
            ![r].stage = IF op = "put" /\ d = Success THEN "body" ELSE "asleep",
            ![r].path = op, ![r].decision = d, ![r].naps = Naps(d)]
    BY <2>1 DEF BlobDecide
  <2>3. PICK d \in {Success} \cup {BlobDecision(t) : t \in BlobTags(op)} :
          request' = [request EXCEPT
            ![r].stage = IF op = "put" /\ d = Success THEN "body" ELSE "asleep",
            ![r].path = op, ![r].decision = d, ![r].naps = Naps(d)]
    BY <2>2
  <2>4. d \in AllDecisions /\ BlobDrawn(d, op) /\ op # "hop"
    BY BlobDecisionIsDrawn DEF BlobOperations
  <2>5. /\ request'[r].stage \in {"body", "asleep"} /\ request'[r].path = op
        /\ request'[r].decision = d
    BY <1>1, <2>3 DEF Typed, Handlers
  <2>6. OfDecision(d) <= config.maxHops
    BY <1>1, <2>4 DEF OfDecision, BlobDrawn, Success, Decision
  <2>7. QED
    BY <1>1, <1>2, <2>1, <2>4, <2>5, <2>6, StartKeepsChain DEF At
<1>7. CASE BlobRefuse(r)
  <2>1. PICK error \in {"InvalidRequest", "InvalidArgument"} : Refused(r, 400, error)
    BY <1>7 DEF BlobRefuse
  <2>2. server = "blob" /\ At(r, "idle") /\ Works(r)
    BY <1>7 DEF BlobRefuse, Works, At
  <2>3. Answers(r)
    BY <1>1, <2>1, <2>2, RefusedAnswers DEF Refusals
  <2>4. QED
    BY <2>2, <2>3, AnswerKeepsChain
<1>8. QED
  BY <1>3, <1>4, <1>5, <1>6, <1>7 DEF Call

LEMMA HandleKeepsChain ==
  ASSUME RowsInv, NEW r \in Requests, ChainOf(r), Handle(r), UNCHANGED <<server, config>>
  PROVE  ChainOf(r)'
<1>1. request[r] \in Handlers /\ DecisionIsDrawn(r) /\ Typed
  BY DEF RowsInv, Typed, RowsOf
<1>2. CASE LlmRefuse(r)
  <2>1. PICK status \in {413, 400} : Refuse(r, status)
    BY <1>2 DEF LlmRefuse
  <2>2. Awaits(r) /\ sent' = sent /\ limits' = limits
    BY <1>2 DEF LlmRefuse, Awaits, At
  <2>3. QED
    BY <2>1, <2>2, RefusalIsPlain, RefusalKeepsChain
<1>3. CASE LlmDecide(r)
  <2>1. /\ server = "llm" /\ At(r, "body") /\ Decide(r, request[r].config)
        /\ UNCHANGED <<server, sent, rows, lost, limits>>
        /\ request[r].config \in Configs /\ request[r].path # "hop"
    BY <1>1, <1>3 DEF LlmDecide, DecisionIsDrawn, Handlers
  <2>2. PICK d \in Decisions(request[r].config), n \in Int :
          /\ request'[r] = [request[r] EXCEPT !.stage = "asleep", !.config = request[r].config,
                                               !.decision = d, !.naps = n]
          /\ d \in AllDecisions /\ IsDrawn(d, request[r].path)
    BY <2>1, DecidingMoves
  <2>3. /\ request'[r].stage = "asleep" /\ request'[r].path = request[r].path
        /\ request'[r].decision = d
    BY <1>1, <2>2 DEF Handlers
  <2>4. OfDecision(d) = 0
    BY <2>1, <2>2 DEF IsDrawn, LlmDrawn, OfDecision
  <2>5. QED
    BY <2>1, <2>3, <2>4, WaitKeepsChain DEF At
<1>4. CASE Wake(r)
  <2>1. At(r, "asleep") /\ sent' = sent /\ limits' = limits
    BY <1>4 DEF Wake
  <2>2. request'[r] = [request[r] EXCEPT !.naps = @ - 1]
    BY <1>1, <1>4 DEF Wake, Typed
  <2>3. /\ request'[r].stage = request[r].stage /\ request'[r].path = request[r].path
        /\ request'[r].url = request[r].url /\ request'[r].decision = request[r].decision
    BY <1>1, <2>2 DEF Handlers
  <2>4. QED
    BY <2>1, <2>3, WaitKeepsChain DEF At
<1>5. CASE GenerateFails(r)
  <2>1. Awaits(r) /\ Refuse(r, 500) /\ sent' = sent /\ limits' = limits
    BY <1>5 DEF GenerateFails, Handling, Awaits, At
  <2>2. QED
    BY <2>1, RefusalIsPlain, RefusalKeepsChain
<1>6. CASE Uploads(r)
  <2>1. /\ server = "blob" /\ At(r, "body") /\ sent' = sent /\ limits' = limits
        /\ request[r].path # "hop" /\ BlobDrawn(request[r].decision, request[r].path)
    BY <1>1, <1>6 DEF Uploads, DecisionIsDrawn
  <2>2. /\ request'[r].stage = "asleep" /\ request'[r].path = request[r].path
        /\ request'[r].decision = request[r].decision
    BY <1>1, <1>6 DEF Uploads, Typed, Handlers
  <2>3. OfDecision(request[r].decision) = 0
    BY <2>1 DEF OfDecision, BlobDrawn, Success, Decision
  <2>4. QED
    BY <2>1, <2>2, <2>3, WaitKeepsChain DEF At
<1>7. QED
  BY <1>2, <1>3, <1>4, <1>5, <1>6, HandlersAnswer, AnswerKeepsChain, SendKeepsChain

LEMMA FollowKeepsChain ==
  ASSUME RowsInv, NEW r \in Requests, ChainOf(r), Follow(r), UNCHANGED <<server, config>>
  PROVE  ChainOf(r)'
<1>1. /\ request[r] \in Handlers /\ Typed /\ At(r, "follow") /\ Awaits(r) /\ sent' = sent
      /\ config.maxHops \in Nat /\ config.maxHops >= MinLoopHops
  BY LimitsAreNaturals DEF RowsInv, Typed, Follow, HopCall, GiveUp, Awaits, At
<1>2. HopCall(r) => limits'[r] = Append(limits[r], config.maxHops)
  BY <1>1 DEF HopCall, Snapshot, Typed
<1>3. CASE HopCall(r) /\ config.loops
  <2>1. request'[r] = [request[r] EXCEPT !.stage = "asleep", !.path = "hop", !.config = config,
                                         !.url = HopUrl(@, config.maxHops), !.naps = 1]
    BY <1>1, <1>3 DEF HopCall, Typed
  <2>2. /\ request'[r].stage = "asleep" /\ request'[r].path = "hop"
        /\ request'[r].url = HopUrl(request[r].url, config.maxHops)
    BY <1>1, <2>1 DEF Handlers
  <2>3. QED
    BY <1>1, <1>2, <1>3, <2>2, HopKeepsChain DEF At
<1>4. CASE HopCall(r) /\ ~config.loops
  <2>1. Refuse(r, 404) /\ \E max \in Nat : limits'[r] = Append(limits[r], max)
    BY <1>1, <1>2, <1>4 DEF HopCall
  <2>2. QED
    BY <1>1, <2>1, RefusalIsPlain, RefusalKeepsChain
<1>5. CASE GiveUp(r)
  <2>1. At(r, "answered")' /\ limits' = limits
    BY <1>1, <1>5 DEF GiveUp, Typed, Handlers, At
  <2>2. QED
    BY <1>1, <2>1, RefusalKeepsChain
<1>6. QED
  BY <1>3, <1>4, <1>5 DEF Follow

(* A step of one visit leaves the others alone. *)
LEMMA OtherVisitsStay ==
  ASSUME RowsInv, NEW r \in Requests, RequestStep(r), UNCHANGED <<server, config>>,
         NEW q \in Requests, q # r
  PROVE  request'[q] = request[q] /\ sent'[q] = sent[q] /\ limits'[q] = limits[q]
<1>1. limits'[q] = limits[q]
  BY LimitKinds DEF Snapshot, RowsInv, Typed
<1>2. CASE Moves(r)
  BY <1>1, <1>2 DEF Moves, RowsInv, Typed
<1>3. CASE Refuses(r)
  BY <1>1, <1>3 DEF Refuses, Refuse, RowsInv, Typed
<1>4. CASE Answers(r)
  <2>1. PICK row, reply : Fits(row, reply) /\ RecordAndReply(r, row, reply)
    BY <1>4 DEF Answers
  <2>2. QED
    BY <1>1, <2>1 DEF RecordAndReply, Refuse, RowsInv, Typed
<1>5. CASE Send(r)
  BY <1>1, <1>5 DEF Send, RowsInv, Typed
<1>6. CASE Leave(r)
  BY <1>1, <1>6 DEF Leave, RowsInv, Typed
<1>7. QED
  BY <1>2, <1>3, <1>4, <1>5, <1>6, RequestKinds

LEMMA InitChains ==
  ASSUME Init
  PROVE  ChainInv
<1> SUFFICES ASSUME NEW r \in Requests
             PROVE  ChainOf(r)
  BY InitRows DEF ChainInv
<1>1. At(r, "idle") /\ sent[r] = <<>> /\ limits[r] = <<>>
  BY IdleIsTyped DEF Init, At
<1>2. LoopIsLimited(r)
  BY <1>1 DEF LoopIsLimited
<1>3. LimitIsFresh(r) /\ HopIsWithin(r) /\ PageComesFirst(r)
  BY <1>1 DEF LimitIsFresh, HopIsWithin, PageComesFirst, At
<1>4. LoopIsAsAdvertised(r)
  BY <1>1 DEF LoopIsAsAdvertised, Advertised
<1>5. QED
  BY <1>2, <1>3, <1>4 DEF ChainOf

LEMMA NextChains ==
  ASSUME ChainInv, [Next]_vars
  PROVE  ChainInv'
<1>1. RowsInv /\ RowsInv' /\ \A q \in Requests : ChainOf(q)
  BY NextRows DEF ChainInv
<1>2. ASSUME NEW r \in Requests, RequestStep(r), UNCHANGED <<server, config>>
      PROVE  \A q \in Requests : ChainOf(q)'
  <2>1. ChainOf(r)'
    BY <1>1, <1>2, CallKeepsChain, HandleKeepsChain, FollowKeepsChain, LeaveKeepsChain DEF RequestStep
  <2>2. ASSUME NEW q \in Requests, q # r
        PROVE  ChainOf(q)'
    BY <1>1, <1>2, <2>2, OtherVisitsStay, OtherVisitsKeepChains
  <2>3. QED
    BY <2>1, <2>2
<1>3. ASSUME UNCHANGED <<request, sent, limits>>
      PROVE  \A q \in Requests : ChainOf(q)'
  BY <1>1, <1>3, OtherVisitsKeepChains
<1>4. QED
  BY <1>1, <1>2, <1>3 DEF ChainInv, Next, UpdateConfig, Reset, vars

LEMMA ChainInvHolds == Spec => []ChainInv
BY InitChains, NextChains, PTL DEF Spec

(* From any request of a visit on, the client is redirected at most as     *)
(* often as the configuration of that request allows, whatever URL it      *)
(* began with and however often the limit changes afterwards.              *)
THEOREM ChainsStayWithinLimits == Spec => []ChainWithinLimit
<1>1. ChainInv => ChainWithinLimit
  <2> SUFFICES ASSUME ChainInv, NEW r \in Requests, NEW i \in DOMAIN limits[r]
               PROVE  Cardinality(Redirects(r, i)) <= limits[r][i]
    BY DEF ChainWithinLimit, Redirects
  <2>1. /\ RowsInv /\ HopIsWithin(r) /\ LoopIsLimited(r)
        /\ limits[r] \in Seq(Nat) /\ sent[r] \in Seq(AllReplies)
    BY DEF ChainInv, ChainOf, RowsInv, Typed
  <2>2. limits[r] # <<>> /\ i \in Int /\ limits[r][i] \in Nat
    BY <2>1
  <2>3. Ahead(r) \in Int /\ Ahead(r) >= 0
    BY <2>1, <2>2, AheadIsNatural
  <2>4. Cardinality(Redirects(r, i)) \in Nat
    BY <2>1, <2>2, RedirectsAreFinite
  <2>5. Cardinality(Redirects(r, i)) + Ahead(r) <= limits[r][i]
    BY <2>1 DEF LoopIsLimited
  <2>6. QED
    BY <2>2, <2>3, <2>4, <2>5
<1>2. QED
  BY ChainInvHolds, <1>1, PTL

(* A loop is as long as its first redirect says, and reports that length   *)
(* at its end, unless the limit was lowered on the way; then it is shorter *)
(* and reports no more than the client has followed.                       *)
THEOREM ChainsAreAsAdvertised == Spec => []ChainAsAdvertised
<1>1. ChainInv => ChainAsAdvertised
  BY DEF ChainInv, ChainOf, LoopIsAsAdvertised, AtItsEnd, Unlowered, ChainAsAdvertised
<1>2. QED
  BY ChainInvHolds, <1>1, PTL
=============================================================================
