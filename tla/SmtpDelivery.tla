---------------------------- MODULE SmtpDelivery ----------------------------
(***************************************************************************)
(* ChaosSMTP: sessions that deliver messages through the handlers of        *)
(* smtp/server.py into the MessageCapture list and the metrics of the run,  *)
(* while the admin sidecar (another thread) resets both and changes the     *)
(* capture configuration.  The handlers of all sessions share one event     *)
(* loop and let each other run where they await: while they sleep, and      *)
(* while a worker thread parses the message; recording a transaction does   *)
(* not await.  aiosmtpd, which calls the handlers and cancels them when     *)
(* the client goes away, is external.                                       *)
(***************************************************************************)
EXTENDS Integers, Sequences, SequencesExt

CONSTANTS
  Sessions,
  Messages, NoMessage,   \* transaction ids of DATA commands
  Enabled,               \* the error tags whose percentage is above 0
  Configs,               \* the capture configurations that are ever set
  FirstConfig,
  MaxRcpts               \* recipients a session adds to one envelope

Modes == {"discard", "metadata", "full"}

ASSUME SmtpAssumption ==
  /\ NoMessage \notin Messages
  /\ Configs \subseteq [mode : Modes, max : Nat \ {0}]
  /\ FirstConfig \in Configs
  /\ MaxRcpts \in Nat \ {0}

VARIABLES
  pc,          \* the command each session is at
  tag,         \* the error decided for it, "none" for success
  rcpts,       \* recipients in the envelope
  msg,         \* the transaction id of the DATA command
  snap,        \* the capture configuration read when DATA began
  config,      \* the live capture configuration
  messages,    \* MessageCapture._messages
  log,         \* history: everything captured since the last reset
  accepted,    \* the rows of accepted messages: <<transaction_id, capture_mode>>
  unrecorded,  \* the messages whose recording failed
  torn,        \* the messages whose capture and row a reset has separated
  exchange,    \* the command the last step ended: its row and the client's reply
  admin        \* where the admin thread is in reset()

vars == <<pc, tag, rcpts, msg, snap, config, messages, log, accepted, unrecorded,
          torn, exchange, admin>>

-----------------------------------------------------------------------------
(* Decisions. *)

StageTags ==
  [mail   |-> {"mail_from_tempfail", "mail_from_reject", "rate_limit",
               "connection_reset", "connection_stall", "slow_response"},
   rcpt   |-> {"rcpt_to_tempfail", "rcpt_to_reject", "rate_limit",
               "connection_reset", "connection_stall", "slow_response"},
   data   |-> {"data_tempfail", "data_reject", "connection_reset", "connection_stall",
               "slow_response", "malformed_reply", "wrong_reply_code"},
   accept |-> {"accept_then_drop"}]

Tags == UNION {StageTags[stage] : stage \in DOMAIN StageTags}

(* Either selection mode may pick any tag of the stage, or none. *)
Decisions(stage) == (StageTags[stage] \cap Enabled) \cup {"none"}

NoCode == 0

(* The reply code of a decision; those of connection errors have none.      *)
ReplyCode(decision) ==
  CASE decision = "rate_limit"                            -> 450
    [] decision \in {"mail_from_tempfail", "rcpt_to_tempfail", "data_tempfail"} -> 451
    [] decision \in {"mail_from_reject", "rcpt_to_reject"} -> 550
    [] decision = "data_reject"                           -> 554
    [] decision = "malformed_reply"                       -> 299
    [] decision = "wrong_reply_code"                      -> 252
    [] decision \in {"connection_reset", "connection_stall"} -> NoCode
    [] OTHER                                              -> 250

IsFailure(decision) == decision \notin {"none", "slow_response"}

(* The handler closes the transport and raises. *)
Closes(decision) == decision \in {"connection_reset", "connection_stall", "malformed_reply"}

TempCodes == 400..499
PermCodes == 500..599

Outcome(decision) ==
  CASE decision \in {"connection_reset", "connection_stall"}       -> "connection_error"
    [] decision \in {"malformed_reply", "wrong_reply_code"}        -> "malformed_protocol"
    [] decision = "accept_then_drop"                               -> "accepted_then_dropped"
    [] IsFailure(decision) /\ ReplyCode(decision) \in TempCodes    -> "tempfailed"
    [] IsFailure(decision) /\ ReplyCode(decision) \in PermCodes    -> "permfailed"
    [] OTHER                                                       -> "success"

Counters == {"accepted", "accepted_then_dropped", "tempfailed", "permfailed",
             "connection_error", "malformed_protocol", "uncounted"}

(* Seeded fault: a dropped message counts as an accepted one. *)
CounterOfDrops(outcome, stage) ==
  IF outcome \in {"success", "accepted_then_dropped"} THEN "accepted" ELSE outcome

(* The time-series counter of a row: a success counts as an accepted        *)
(* message at stage data only.                                              *)
Counter(outcome, stage) ==
  IF outcome # "success" THEN outcome
  ELSE IF stage = "data" THEN "accepted" ELSE "uncounted"

-----------------------------------------------------------------------------
Goto(s, label) == pc' = [pc EXCEPT ![s] = label]

(* Seeded fault: the loop is blocked while the worker parses. *)
LoopBlockedByParser == \A s \in Sessions : pc[s] \notin {"parse", "record"}

(* One event loop runs all sessions, and recording does not await. *)
LoopFree == \A s \in Sessions : pc[s] # "record"

NoExchange == [stage |-> "none", reply |-> NoCode, counter |-> "uncounted"]

(* A step that ends no command. *)
NothingEnds == exchange' = NoExchange

(* A command ends with a reply to the client and, unless its recording      *)
(* fails, a row.                                                            *)
Exchange(stage, decision, counter) ==
  exchange' = [stage |-> stage, reply |-> ReplyCode(decision), counter |-> counter]

(* What handle_stage and handle_data leave in the counters: a plain MAIL or *)
(* RCPT has no row, and a recording that fails is not retried.              *)
Recorded(decision, stage) ==
  IF decision = "none" /\ stage # "data" THEN {"uncounted"}
  ELSE {Counter(Outcome(decision), stage), "uncounted"}

(* Seeded fault: the newest records go first. *)
TrimNewest(list, max) == IF Len(list) <= max THEN list ELSE SubSeq(list, 1, max)

(* _trim_locked: the oldest records go first. *)
Trim(list, max) ==
  IF Len(list) <= max THEN list ELSE SubSeq(list, Len(list) - max + 1, Len(list))

Init ==
  /\ pc = [s \in Sessions |-> "greeted"]
  /\ tag = [s \in Sessions |-> "none"]
  /\ rcpts = [s \in Sessions |-> 0]
  /\ msg = [s \in Sessions |-> NoMessage]
  /\ snap = [s \in Sessions |-> FirstConfig]
  /\ config = FirstConfig
  /\ messages = <<>>
  /\ log = <<>>
  /\ accepted = {}
  /\ unrecorded = {}
  /\ torn = {}
  /\ exchange = NoExchange
  /\ admin = "idle"

captureVars == <<config, messages, log, torn, admin>>
rowVars == <<accepted, unrecorded>>
dataVars == <<msg, snap>>

-----------------------------------------------------------------------------
(* MAIL and RCPT: handle_stage decides and sleeps; the handler then changes *)
(* the envelope unless the decision is a failure.                           *)

StageCall(s, stage, from) ==
  /\ LoopFree
  /\ pc[s] = from
  /\ \E decision \in Decisions(stage) : tag' = [tag EXCEPT ![s] = decision]
  /\ Goto(s, stage)
  /\ NothingEnds
  /\ UNCHANGED <<rcpts, captureVars, rowVars, dataVars>>

MailCall(s) == StageCall(s, "mail", "greeted")

RcptCall(s) == rcpts[s] < MaxRcpts /\ StageCall(s, "rcpt", "mailed")

(* A failing or slow command is recorded, a plain one is not. *)
StageEnds(s, stage, back) ==
  /\ LoopFree
  /\ pc[s] = stage
  /\ \E counter \in Recorded(tag[s], stage) : Exchange(stage, tag[s], counter)
  /\ tag' = [tag EXCEPT ![s] = "none"]
  /\ Goto(s, IF Closes(tag[s]) THEN "closed" ELSE back)
  /\ UNCHANGED <<captureVars, rowVars, dataVars>>

MailDone(s) ==
  /\ StageEnds(s, "mail", IF IsFailure(tag[s]) THEN "greeted" ELSE "mailed")
  /\ UNCHANGED rcpts

RcptDone(s) ==
  /\ StageEnds(s, "rcpt", "mailed")
  /\ rcpts' = [rcpts EXCEPT ![s] =
                 IF Closes(tag[s]) THEN 0 ELSE IF IsFailure(tag[s]) THEN @ ELSE @ + 1]

-----------------------------------------------------------------------------
(* DATA: handle_data. *)

Captured == {log[i] : i \in DOMAIN log}

Rows == {row[1] : row \in accepted}

InFlight == {msg[s] : s \in Sessions} \ {NoMessage}

Fresh == Messages \ (Captured \cup Rows \cup unrecorded \cup torn \cup InFlight)

DataCall(s, m) ==
  /\ LoopFree
  /\ pc[s] = "mailed" /\ rcpts[s] > 0
  /\ m \in Fresh
  /\ snap' = [snap EXCEPT ![s] = config]
  /\ msg' = [msg EXCEPT ![s] = m]
  /\ \E decision \in Decisions("data") : tag' = [tag EXCEPT ![s] = decision]
  /\ Goto(s, "data")
  /\ NothingEnds
  /\ UNCHANGED <<rcpts, captureVars, rowVars>>

(* aiosmtpd starts a new envelope after DATA, whatever the reply. *)
EndData(s, label) ==
  /\ Goto(s, label)
  /\ tag' = [tag EXCEPT ![s] = "none"]
  /\ rcpts' = [rcpts EXCEPT ![s] = 0]
  /\ msg' = [msg EXCEPT ![s] = NoMessage]
  /\ snap' = [snap EXCEPT ![s] = FirstConfig]

DataFail(s) ==
  /\ LoopFree
  /\ pc[s] = "data" /\ IsFailure(tag[s])
  /\ \E counter \in Recorded(tag[s], "data") : Exchange("data", tag[s], counter)
  /\ EndData(s, IF Closes(tag[s]) THEN "closed" ELSE "greeted")
  /\ UNCHANGED <<captureVars, rowVars>>

(* accept_then_drop: the client reads 250, nothing is captured. *)
DataDrop(s) ==
  /\ LoopFree
  /\ pc[s] = "data" /\ ~IsFailure(tag[s])
  /\ "accept_then_drop" \in Decisions("accept")
  /\ \E counter \in Recorded("accept_then_drop", "accept") :
       Exchange("accept", "accept_then_drop", counter)
  /\ EndData(s, "greeted")
  /\ UNCHANGED <<captureVars, rowVars>>

(* capture() awaits the worker thread that parses the message. *)
DataAccept(s) ==
  /\ LoopFree
  /\ pc[s] = "data" /\ ~IsFailure(tag[s])
  /\ Goto(s, "parse")
  /\ NothingEnds
  /\ UNCHANGED <<tag, rcpts, captureVars, rowVars, dataVars>>

(* Seeded fault: the record is stored under the configuration of the moment.*)
LiveConfig(s) == config

(* The configuration the record is stored under: the one handle_data read.  *)
CaptureConfig(s) == snap[s]

(* The rest of capture(): append and trim under the capture's lock. *)
Store(s) ==
  /\ LoopFree
  /\ pc[s] = "parse"
  /\ IF CaptureConfig(s).mode = "discard" THEN UNCHANGED <<messages, log, torn>>
     ELSE /\ messages' = Trim(Append(messages, msg[s]), CaptureConfig(s).max)
          /\ log' = Append(log, msg[s])
          /\ torn' = IF admin = "idle" THEN torn ELSE torn \cup {msg[s]}
  /\ Goto(s, "record")
  /\ NothingEnds
  /\ UNCHANGED <<tag, rcpts, config, admin, rowVars, dataVars>>

(* The success row, with the mode handle_data read, and the 250 reply.      *)
RecordAccepted(s) ==
  /\ pc[s] = "record"
  /\ \E counter \in Recorded(tag[s], "data") :
       /\ Exchange("data", tag[s], counter)
       /\ IF counter = "accepted"
          THEN accepted' = accepted \cup {<<msg[s], snap[s].mode>>} /\ UNCHANGED unrecorded
          ELSE unrecorded' = unrecorded \cup {msg[s]} /\ UNCHANGED accepted
  /\ EndData(s, "greeted")
  /\ UNCHANGED captureVars

-----------------------------------------------------------------------------
(* The client goes away: the handler is cancelled where it awaits. *)
Disconnect(s) ==
  /\ LoopFree
  /\ pc[s] # "closed"
  /\ EndData(s, "closed")
  /\ NothingEnds
  /\ UNCHANGED <<captureVars, rowVars>>

Connect(s) ==
  /\ LoopFree
  /\ pc[s] = "closed"
  /\ Goto(s, "greeted")
  /\ NothingEnds
  /\ UNCHANGED <<tag, rcpts, captureVars, rowVars, dataVars>>

-----------------------------------------------------------------------------
(* The admin thread. *)

sessionVars == <<pc, tag, rcpts, dataVars>>

UpdateCapture(c) ==
  /\ admin = "idle" /\ c # config
  /\ config' = c
  /\ messages' = Trim(messages, c.max)
  /\ NothingEnds
  /\ UNCHANGED <<log, torn, admin, rowVars, sessionVars>>

(* Seeded fault: reset() leaves the captured messages. *)
KeptByReset == messages

EmptyCapture == <<>>

(* reset(): first the captured messages ... *)
ResetCapture ==
  /\ admin = "idle"
  /\ messages' = EmptyCapture
  /\ log' = EmptyCapture
  /\ torn' = {msg[s] : s \in {r \in Sessions : pc[r] = "record"}}
  /\ admin' = "reset_metrics"
  /\ NothingEnds
  /\ UNCHANGED <<config, rowVars, sessionVars>>

(* ... then the rows, in a transaction of their own. *)
ResetMetrics ==
  /\ admin = "reset_metrics"
  /\ accepted' = {}
  /\ unrecorded' = {}
  /\ admin' = "idle"
  /\ NothingEnds
  /\ UNCHANGED <<config, messages, log, torn, sessionVars>>

(* ... which may fail: the rows stay, their messages are gone. *)
ResetFails ==
  /\ admin = "reset_metrics"
  /\ torn' = torn \cup Rows
  /\ admin' = "idle"
  /\ NothingEnds
  /\ UNCHANGED <<config, messages, log, rowVars, sessionVars>>

-----------------------------------------------------------------------------
SessionStep(s) ==
  \/ MailDone(s) \/ RcptDone(s)
  \/ DataFail(s) \/ DataDrop(s) \/ DataAccept(s)
  \/ Store(s) \/ RecordAccepted(s)

ClientStep(s) ==
  \/ MailCall(s) \/ RcptCall(s)
  \/ \E m \in Messages : DataCall(s, m)
  \/ Disconnect(s) \/ Connect(s)

AdminStep ==
  \/ ResetCapture \/ ResetMetrics \/ ResetFails
  \/ \E c \in Configs : UpdateCapture(c)

Next == (\E s \in Sessions : SessionStep(s) \/ ClientStep(s)) \/ AdminStep

(* The event loop resumes every handler whose sleep or worker has ended,    *)
(* in the order they became ready: a handler that the loop is too busy for  *)
(* again and again still has its turn (strong fairness).  Clients and the   *)
(* administrator need never act, except that reset() runs to its end.       *)
Fairness == WF_vars(ResetMetrics \/ ResetFails) /\ \A s \in Sessions : SF_vars(SessionStep(s))

Spec == Init /\ [][Next]_vars

FairSpec == Spec /\ Fairness

-----------------------------------------------------------------------------
(* Type invariant of the variables above. *)
TypeOK ==
  /\ pc \in [Sessions -> {"greeted", "mail", "mailed", "rcpt", "data", "parse",
                          "record", "closed"}]
  /\ tag \in [Sessions -> Tags \cup {"none"}]
  /\ rcpts \in [Sessions -> 0..MaxRcpts]
  /\ msg \in [Sessions -> Messages \cup {NoMessage}]
  /\ snap \in [Sessions -> Configs]
  /\ config \in Configs
  /\ messages \in Seq(Messages)
  /\ log \in Seq(Messages)
  /\ accepted \subseteq Messages \X Modes
  /\ unrecorded \subseteq Messages
  /\ torn \subseteq Messages
  /\ exchange.counter \in Counters
  /\ admin \in {"idle", "reset_metrics"}

(* The captured list is always the newest part of what has been captured    *)
(* since the last reset, and is never emptied by trimming, whatever         *)
(* configuration a message or an update trims by.                           *)
OldestDroppedFirst == IsSuffix(messages, log) /\ (log # <<>> => messages # <<>>)

(* Between resets the capture and the metrics agree about every message     *)
(* that no reset has separated from its row: an accepted row says by its    *)
(* capture_mode whether the message was stored, although the live           *)
(* configuration may have changed twice since, and a stored message has an  *)
(* accepted row unless its recording failed or is still to come.            *)
CaptureMatchesMetrics ==
  admin = "idle" =>
    /\ \A row \in accepted : row[1] \notin torn =>
         (row[2] # "discard" <=> row[1] \in Captured)
    /\ Captured \subseteq Rows \cup unrecorded \cup torn
                  \cup {msg[s] : s \in {r \in Sessions : pc[r] = "record"}}

(* What a row counts is what its client was told: an accepted message was   *)
(* acknowledged at stage data, a dropped one was acknowledged too, and a    *)
(* temporary or permanent failure is counted exactly for 4xx or 5xx.        *)
CountersTellTheTruth ==
  /\ exchange.counter = "accepted" => exchange.stage = "data" /\ exchange.reply = 250
  /\ exchange.counter = "accepted_then_dropped" => exchange.reply = 250
  /\ exchange.counter = "connection_error" => exchange.reply = NoCode
  /\ exchange.counter = "tempfailed" => exchange.reply \in TempCodes
  /\ exchange.counter = "permfailed" => exchange.reply \in PermCodes
  /\ exchange.reply \in TempCodes => exchange.counter \in {"tempfailed", "uncounted"}
  /\ exchange.reply \in PermCodes => exchange.counter \in {"permfailed", "uncounted"}
  /\ exchange.stage = "data" /\ exchange.reply = 250
       => exchange.counter \in {"accepted", "uncounted"}

(* Every command the server has begun comes to a reply or to the end of     *)
(* its connection, however many messages the other sessions deliver.        *)
CommandsEnd ==
  \A s \in Sessions :
    pc[s] \in {"mail", "rcpt", "data", "parse", "record"}
      ~> pc[s] \in {"greeted", "mailed", "closed"}

(* The documented bound on the capture list, at the live configuration.     *)
(* The code trims by the configuration that handle_data read earlier.       *)
CaptureBounded == Len(messages) <= config.max
=============================================================================
