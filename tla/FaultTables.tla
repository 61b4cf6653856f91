---------------------------- MODULE FaultTables ----------------------------
(***************************************************************************)
(* What the HTTP servers can inject: the tags of their error injectors, of *)
(* two of them in the order of _build_specs, the decision _build_decision    *)
(* makes of a tag, and the counters of the time series that a recorded row *)
(* is counted in.  Delays, header values and texts are left out.           *)
(***************************************************************************)
EXTENDS Integers

NoStatus == 0   \* the status None of a decision or a row

-----------------------------------------------------------------------------
(* ChaosLLM. *)

LlmConnectionTags == {"connection_failed", "connection_stall", "timeout", "connection_reset"}

LlmHttpStatus ==
  [rate_limit |-> 429, capacity_529 |-> 529, service_unavailable |-> 503, bad_gateway |-> 502,
   gateway_timeout |-> 504, internal_error |-> 500, forbidden |-> 403, not_found |-> 404]

LlmMalformedTags ==
  {"invalid_json", "truncated", "empty_body", "missing_fields", "wrong_content_type"}

LlmPriority ==
  <<"connection_failed", "connection_stall", "timeout", "connection_reset", "slow_response",
    "rate_limit", "capacity_529", "service_unavailable", "bad_gateway", "gateway_timeout",
    "internal_error", "forbidden", "not_found",
    "invalid_json", "truncated", "empty_body", "missing_fields", "wrong_content_type">>

-----------------------------------------------------------------------------
(* ChaosWeb. *)

WebConnectionTags == {"timeout", "connection_reset", "connection_stall", "incomplete_response"}

WebRedirectTags == {"ssrf_redirect", "redirect_loop"}

WebHttpStatus ==
  [rate_limit |-> 429, forbidden |-> 403, not_found |-> 404, gone |-> 410,
   payment_required |-> 402, unavailable_for_legal |-> 451, service_unavailable |-> 503,
   bad_gateway |-> 502, gateway_timeout |-> 504, internal_error |-> 500]

WebMalformedTags ==
  {"wrong_content_type", "encoding_mismatch", "truncated_html", "invalid_encoding",
   "charset_confusion", "malformed_meta"}

WebPriority ==
  <<"timeout", "connection_reset", "connection_stall", "slow_response", "incomplete_response",
    "ssrf_redirect", "redirect_loop",
    "rate_limit", "forbidden", "not_found", "gone", "payment_required", "unavailable_for_legal",
    "service_unavailable", "bad_gateway", "gateway_timeout", "internal_error",
    "wrong_content_type", "encoding_mismatch", "truncated_html", "invalid_encoding",
    "charset_confusion", "malformed_meta">>

MinLoopHops == 3   \* the shortest loop, and the least max_redirect_loop_hops

-----------------------------------------------------------------------------
(* ChaosBlob, whose errors depend on the operation. *)

BlobOperations == {"put", "get", "head", "delete", "list"}

BlobConnectionTags == {"timeout", "connection_reset", "connection_stall", "slow_response"}

BlobHttpStatus ==
  [slow_down |-> 503, access_denied |-> 403, not_found |-> 404, service_unavailable |-> 503,
   internal_error |-> 500, bad_gateway |-> 502, gateway_timeout |-> 504]

BlobCorruptionTags ==
  [put |-> {}, delete |-> {},
   get |-> {"truncated_body", "wrong_content_length", "checksum_mismatch", "metadata_corruption"},
   head |-> {"metadata_corruption"}, list |-> {"stale_list", "malformed_xml"}]

BlobTags(operation) ==
  BlobConnectionTags \cup DOMAIN BlobHttpStatus \cup BlobCorruptionTags[operation]

-----------------------------------------------------------------------------
(* Decisions.  The timeout of ChaosLLM ends in a 504 or in a transport     *)
(* error; hops is the length of an injected redirect loop.                 *)

Decision(tag, category, status, hops) ==
  [tag |-> tag, category |-> category, status |-> status, hops |-> hops]

Success == Decision("none", "success", NoStatus, 0)

Tags(order) == {order[i] : i \in DOMAIN order}

LlmDecisions(tag) ==
  IF tag = "slow_response" THEN {Decision(tag, "slow", NoStatus, 0)}
  ELSE IF tag \in LlmConnectionTags
    THEN {Decision(tag, "connection", s, 0) : s \in {NoStatus} \cup (IF tag = "timeout" THEN {504} ELSE {})}
  ELSE IF tag \in LlmMalformedTags THEN {Decision(tag, "malformed", 200, 0)}
  ELSE {Decision(tag, "http", LlmHttpStatus[tag], 0)}

WebDecisions(tag, maxHops) ==
  IF tag = "slow_response" THEN {Decision(tag, "slow", NoStatus, 0)}
  ELSE IF tag \in WebConnectionTags THEN {Decision(tag, "connection", NoStatus, 0)}
  ELSE IF tag \in WebMalformedTags THEN {Decision(tag, "malformed", 200, 0)}
  ELSE IF tag = "ssrf_redirect" THEN {Decision(tag, "redirect", 301, 0)}
  ELSE IF tag = "redirect_loop" THEN {Decision(tag, "redirect", 301, h) : h \in MinLoopHops..maxHops}
  ELSE {Decision(tag, "http", WebHttpStatus[tag], 0)}

BlobDecision(tag) ==
  IF tag \in BlobConnectionTags
    THEN Decision(tag, "connection", IF tag = "timeout" THEN 504 ELSE NoStatus, 0)
  ELSE IF tag \in DOMAIN BlobHttpStatus THEN Decision(tag, "http", BlobHttpStatus[tag], 0)
  ELSE Decision(tag, "corruption", NoStatus, 0)

-----------------------------------------------------------------------------
(* Rows, and the counters a row is counted in. *)

Row(outcome, status, error, hops) ==
  [outcome |-> outcome, status |-> status, error |-> error, hops |-> hops]

Between(status, low, high) == low <= status /\ status < high

LlmCounters(row) ==
  LET connection == row.error \in LlmConnectionTags
  IN  {c \in {"success", "rate_limited", "capacity_error", "server_error", "client_error",
              "connection_error", "malformed"} :
         \/ c = "success" /\ row.outcome = "success"
         \/ c = "rate_limited" /\ row.status = 429
         \/ c = "capacity_error" /\ row.status = 529
         \/ c = "server_error" /\ Between(row.status, 500, 600) /\ row.status # 529 /\ ~connection
         \/ c = "client_error" /\ Between(row.status, 400, 500) /\ row.status # 429
         \/ c = "connection_error" /\ connection
         \/ c = "malformed" /\ row.outcome = "error_malformed"}

(* Seeded fault: the 504 that an injected timeout ends in counts as well. *)
WebServerErrorByStatus(row) == Between(row.status, 500, 600)

WebServerError(row) == Between(row.status, 500, 600) /\ row.error \notin WebConnectionTags

WebCounters(row) ==
  {c \in {"success", "rate_limited", "forbidden", "not_found", "server_error", "malformed",
          "redirect", "connection_error"} :
     \/ c = "success" /\ row.outcome = "success"
     \/ c = "rate_limited" /\ row.status = 429
     \/ c = "forbidden" /\ row.status = 403
     \/ c = "not_found" /\ row.status = 404
     \/ c = "server_error" /\ WebServerError(row)
     \/ c = "malformed" /\ row.outcome = "error_malformed"
     \/ c = "redirect" /\ row.outcome \in {"error_redirect", "redirect_loop_terminated"}
     \/ c = "connection_error" /\ row.error \in WebConnectionTags}

(* BlobRequestRecord, which refuses an incoherent row. *)
Coherent(row) ==
  /\ row.outcome = "success" => row.error = "none" /\ (row.status = NoStatus \/ Between(row.status, 200, 400))
  /\ row.outcome \in {"error_injected", "error_corrupted"} => row.error # "none" \/ row.status >= 400

BlobCorruptionRows ==
  {"truncated_body", "wrong_content_length", "checksum_mismatch", "metadata_corruption", "malformed_xml"}

(* The first class that a row falls into. *)
BlobClasses(row) ==
  <<<<"slow_down", row.error = "slow_down">>,
    <<"connection_error", row.error \in {"timeout", "connection_reset", "connection_stall"}>>,
    <<"stale_list", row.error = "stale_list">>,
    <<"not_found", row.status = 404 \/ row.error \in {"not_found", "NoSuchKey"}>>,
    <<"corrupted", row.outcome = "error_corrupted" \/ row.error \in BlobCorruptionRows>>,
    <<"access_denied", row.status = 403 \/ row.error = "access_denied">>,
    <<"server_error", Between(row.status, 500, 600)>>,
    <<"success", row.outcome = "success">>,
    <<"unclassified", TRUE>>>>

BlobCounter(row) ==
  LET classes == BlobClasses(row)
      first == CHOOSE i \in DOMAIN classes : classes[i][2] /\ \A j \in 1..(i - 1) : ~classes[j][2]
  IN  classes[first][1]
=============================================================================
