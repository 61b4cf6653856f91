------------------------- MODULE SmtpDeliveryProofs -------------------------
(***************************************************************************)
(* Theorems about SmtpDelivery, for any sessions, messages, enabled errors *)
(* and capture configurations.                                             *)
(***************************************************************************)
EXTENDS SmtpDelivery, TLAPS

-----------------------------------------------------------------------------
(* Sequences. *)

(* s is the end of t, element by element. *)
Newest(s, t) ==
  /\ Len(s) <= Len(t)
  /\ \A i \in 1..Len(s) : s[i] = t[Len(t) - Len(s) + i]

LEMMA ReverseElements ==
  ASSUME NEW S, NEW s \in Seq(S)
  PROVE  /\ Reverse(s) \in Seq(S) /\ Len(Reverse(s)) = Len(s)
         /\ \A i \in 1..Len(s) : Reverse(s)[i] = s[Len(s) - i + 1]
BY DEF Reverse

LEMMA NewestIsSuffix ==
  ASSUME NEW S, NEW s \in Seq(S), NEW t \in Seq(S)
  PROVE  IsSuffix(s, t) <=> Newest(s, t)
<1> DEFINE r == Reverse(s)
           q == Reverse(t)
           Prefix == \A i \in 1..Len(s) : r[i] = q[i]
<1>1. /\ r \in Seq(S) /\ Len(r) = Len(s) /\ q \in Seq(S) /\ Len(q) = Len(t)
      /\ \A i \in 1..Len(s) : r[i] = s[Len(s) - i + 1]
      /\ \A i \in 1..Len(t) : q[i] = t[Len(t) - i + 1]
  BY ReverseElements
<1>2. Len(s) \in Nat /\ Len(t) \in Nat
  OBVIOUS
<1> HIDE DEF r, q
<1>3. ASSUME Len(s) <= Len(t)
      PROVE  SubSeq(r, 1, Len(s)) = SubSeq(q, 1, Len(s)) <=> Prefix
  <2>1. /\ SubSeq(r, 1, Len(s)) \in Seq(S) /\ Len(SubSeq(r, 1, Len(s))) = Len(s)
        /\ SubSeq(q, 1, Len(s)) \in Seq(S) /\ Len(SubSeq(q, 1, Len(s))) = Len(s)
        /\ \A i \in 1..Len(s) : SubSeq(r, 1, Len(s))[i] = r[i] /\ SubSeq(q, 1, Len(s))[i] = q[i]
    BY <1>1, <1>2, <1>3
  <2>2. QED
    BY <2>1
<1>4. ASSUME Len(s) <= Len(t)
      PROVE  Prefix <=> Newest(s, t)
  <2>1. ASSUME Prefix, NEW i \in 1..Len(s)
        PROVE  s[i] = t[Len(t) - Len(s) + i]
    <3>1. Len(s) - i + 1 \in 1..Len(s) /\ Len(s) - i + 1 \in 1..Len(t)
      BY <1>2, <1>4
    <3>2. r[Len(s) - i + 1] = q[Len(s) - i + 1]
      BY <2>1, <3>1
    <3>3. /\ r[Len(s) - i + 1] = s[Len(s) - (Len(s) - i + 1) + 1]
          /\ q[Len(s) - i + 1] = t[Len(t) - (Len(s) - i + 1) + 1]
      BY <1>1, <3>1
    <3>4. /\ Len(s) - (Len(s) - i + 1) + 1 = i
          /\ Len(t) - (Len(s) - i + 1) + 1 = Len(t) - Len(s) + i
      BY <1>2
    <3>5. QED
      BY <3>2, <3>3, <3>4
  <2>2. ASSUME Newest(s, t), NEW i \in 1..Len(s)
        PROVE  r[i] = q[i]
    <3>1. Len(s) - i + 1 \in 1..Len(s) /\ i \in 1..Len(t)
      BY <1>2, <1>4
    <3>2. s[Len(s) - i + 1] = t[Len(t) - Len(s) + (Len(s) - i + 1)]
      BY <2>2, <3>1 DEF Newest
    <3>3. Len(t) - Len(s) + (Len(s) - i + 1) = Len(t) - i + 1
      BY <1>2
    <3>4. QED
      BY <1>1, <3>1, <3>2, <3>3
  <2>3. QED
    BY <1>4, <2>1, <2>2 DEF Newest
<1>5. IsSuffix(s, t) <=> Len(s) <= Len(t) /\ SubSeq(r, 1, Len(s)) = SubSeq(q, 1, Len(s))
  BY <1>1 DEF IsSuffix, IsPrefix, r, q
<1>6. QED
  BY <1>3, <1>4, <1>5 DEF Newest

LEMMA AppendNewest ==
  ASSUME NEW S, NEW s \in Seq(S), NEW t \in Seq(S), NEW m \in S, Newest(s, t)
  PROVE  Newest(Append(s, m), Append(t, m))
BY DEF Newest

(* Trimming drops the oldest records and leaves the newest. *)
LEMMA TrimNewestStays ==
  ASSUME NEW S, NEW s \in Seq(S), NEW t \in Seq(S), NEW max \in Nat \ {0}, Newest(s, t)
  PROVE  /\ Trim(s, max) \in Seq(S)
         /\ Newest(Trim(s, max), t)
         /\ s # <<>> => Trim(s, max) # <<>>
<1>1. CASE Len(s) <= max
  BY <1>1 DEF Trim
<1>2. CASE Len(s) > max
  <2> DEFINE u == SubSeq(s, Len(s) - max + 1, Len(s))
  <2>1. Trim(s, max) = u
    BY <1>2 DEF Trim
  <2>2. Len(s) \in Nat /\ Len(t) \in Nat /\ Len(s) - max + 1 \in 1..Len(s)
    BY <1>2
  <2>3. u \in Seq(S) /\ Len(u) = max /\ \A i \in 1..max : u[i] = s[Len(s) - max + i]
    BY <1>2, <2>2
  <2> HIDE DEF u
  <2>4. ASSUME NEW i \in 1..max
        PROVE  u[i] = t[Len(t) - max + i]
    <3>1. Len(s) - max + i \in 1..Len(s)
      BY <1>2, <2>2
    <3>2. s[Len(s) - max + i] = t[Len(t) - Len(s) + (Len(s) - max + i)]
      BY <3>1 DEF Newest
    <3>3. Len(t) - Len(s) + (Len(s) - max + i) = Len(t) - max + i
      BY <2>2
    <3>4. QED
      BY <2>3, <3>2, <3>3
  <2>5. Newest(u, t)
    BY <1>2, <2>2, <2>3, <2>4 DEF Newest
  <2>6. u # <<>>
    BY <2>3
  <2>7. QED
    BY <2>1, <2>3, <2>5, <2>6
<1>3. QED
  BY <1>1, <1>2

(* One more record is captured. *)
LEMMA AppendElements ==
  ASSUME NEW S, NEW s \in Seq(S), NEW m \in S
  PROVE  {Append(s, m)[i] : i \in DOMAIN Append(s, m)} = {s[i] : i \in DOMAIN s} \cup {m}
<1>1. /\ DOMAIN s = 1..Len(s) /\ DOMAIN Append(s, m) = 1..(Len(s) + 1) /\ Len(s) \in Nat
      /\ \A i \in 1..Len(s) : Append(s, m)[i] = s[i]
      /\ Append(s, m)[Len(s) + 1] = m
  OBVIOUS
<1>2. QED
  BY <1>1

-----------------------------------------------------------------------------
(* What a command's row counts. *)

(* The decisions a command may be under, as they come from StageTags. *)
TagFits(s) ==
  /\ pc[s] = "mail" => tag[s] \in StageTags.mail \cup {"none"}
  /\ pc[s] = "rcpt" => tag[s] \in StageTags.rcpt \cup {"none"}
  /\ pc[s] = "data" => tag[s] \in StageTags.data \cup {"none"}
  /\ pc[s] \in {"parse", "record"} => tag[s] \in {"none", "slow_response"}

(* Every decision of a stage is told by its counter as it was to the       *)
(* client, recorded or not.                                                *)
LEMMA RowsTellReplies ==
  ASSUME NEW stage \in {"mail", "rcpt", "data"},
         NEW decision \in StageTags[stage] \cup {"none"},
         NEW counter \in Recorded(decision, stage),
         Exchange(stage, decision, counter)
  PROVE  CountersTellTheTruth'
<1> DEFINE reply == ReplyCode(decision)
<1>1. exchange' = [stage |-> stage, reply |-> reply, counter |-> counter]
  BY DEF Exchange
<1>2. counter \in {Counter(Outcome(decision), stage), "uncounted"}
  BY DEF Recorded
<1>3. \/ decision \in {"none", "slow_response"}
      \/ decision = "rate_limit"
      \/ decision \in {"mail_from_tempfail", "rcpt_to_tempfail", "data_tempfail"}
      \/ decision \in {"mail_from_reject", "rcpt_to_reject"}
      \/ decision = "data_reject"
      \/ decision \in {"malformed_reply", "wrong_reply_code"}
      \/ decision \in {"connection_reset", "connection_stall"}
  BY DEF StageTags
<1> USE DEF CountersTellTheTruth, ReplyCode, NoCode, TempCodes, PermCodes, Counter, Outcome, IsFailure
<1>4. CASE decision \in {"none", "slow_response"}
  <2>1. reply = 250 /\ counter \in {"uncounted", "accepted"} /\ (counter = "accepted" => stage = "data")
    BY <1>2, <1>4
  <2>2. QED
    BY <1>1, <2>1
<1>5. CASE decision = "rate_limit"
  <2>1. reply = 450 /\ counter \in {"uncounted", "tempfailed"}
    BY <1>2, <1>5
  <2>2. QED
    BY <1>1, <2>1
<1>6. CASE decision \in {"mail_from_tempfail", "rcpt_to_tempfail", "data_tempfail"}
  <2>1. reply = 451 /\ counter \in {"uncounted", "tempfailed"}
    BY <1>2, <1>6
  <2>2. QED
    BY <1>1, <2>1
<1>7. CASE decision \in {"mail_from_reject", "rcpt_to_reject"}
  <2>1. reply = 550 /\ counter \in {"uncounted", "permfailed"}
    BY <1>2, <1>7
  <2>2. QED
    BY <1>1, <2>1
<1>8. CASE decision = "data_reject"
  <2>1. reply = 554 /\ counter \in {"uncounted", "permfailed"}
    BY <1>2, <1>8
  <2>2. QED
    BY <1>1, <2>1
<1>9. CASE decision \in {"malformed_reply", "wrong_reply_code"}
  <2>1. reply \in {299, 252} /\ counter \in {"uncounted", "malformed_protocol"}
    BY <1>2, <1>9
  <2>2. QED
    BY <1>1, <2>1
<1>10. CASE decision \in {"connection_reset", "connection_stall"}
  <2>1. reply = 0 /\ counter \in {"uncounted", "connection_error"}
    BY <1>2, <1>10
  <2>2. QED
    BY <1>1, <2>1
<1>11. QED
  BY <1>3, <1>4, <1>5, <1>6, <1>7, <1>8, <1>9, <1>10

LEMMA DropsTellReplies ==
  ASSUME NEW counter \in Recorded("accept_then_drop", "accept"),
         Exchange("accept", "accept_then_drop", counter)
  PROVE  CountersTellTheTruth'
<1>1. exchange' = [stage |-> "accept", reply |-> 250, counter |-> counter]
  BY DEF Exchange, ReplyCode
<1>2. counter \in {"accepted_then_dropped", "uncounted"}
  BY DEF Recorded, Counter, Outcome, ReplyCode, TempCodes, PermCodes
<1>3. QED
  BY <1>1, <1>2 DEF CountersTellTheTruth, NoCode, TempCodes, PermCodes

LEMMA NothingTold ==
  ASSUME NothingEnds
  PROVE  CountersTellTheTruth'
BY DEF NothingEnds, NoExchange, CountersTellTheTruth, NoCode, TempCodes, PermCodes

Labels == {"greeted", "mail", "mailed", "rcpt", "data", "parse", "record", "closed"}

CountInv ==
  /\ pc \in [Sessions -> Labels] /\ DOMAIN tag = Sessions
  /\ \A s \in Sessions : TagFits(s)
  /\ CountersTellTheTruth

LEMMA NextCount == CountInv /\ [Next]_vars => CountInv'
<1> SUFFICES ASSUME CountInv, [Next]_vars
             PROVE  CountInv'
  OBVIOUS
<1> USE DEF CountInv, TagFits, Labels, Goto
<1>1. ASSUME NEW s \in Sessions, MailCall(s)
      PROVE  CountInv'
  BY <1>1, NothingTold DEF MailCall, StageCall, Decisions, StageTags
<1>2. ASSUME NEW s \in Sessions, RcptCall(s)
      PROVE  CountInv'
  BY <1>2, NothingTold DEF RcptCall, StageCall, Decisions, StageTags
<1>3. ASSUME NEW s \in Sessions, MailDone(s)
      PROVE  CountInv'
  <2>1. CountersTellTheTruth'
    BY <1>3, RowsTellReplies DEF MailDone, StageEnds, StageTags
  <2>2. PICK label \in {"greeted", "mailed", "closed"} : pc' = [pc EXCEPT ![s] = label]
    BY <1>3 DEF MailDone, StageEnds
  <2>3. QED
    BY <1>3, <2>1, <2>2 DEF MailDone, StageEnds
<1>4. ASSUME NEW s \in Sessions, RcptDone(s)
      PROVE  CountInv'
  <2>1. CountersTellTheTruth'
    BY <1>4, RowsTellReplies DEF RcptDone, StageEnds, StageTags
  <2>2. PICK label \in {"mailed", "closed"} : pc' = [pc EXCEPT ![s] = label]
    BY <1>4 DEF RcptDone, StageEnds
  <2>3. QED
    BY <1>4, <2>1, <2>2 DEF RcptDone, StageEnds
<1>5. ASSUME NEW s \in Sessions, NEW m \in Messages, DataCall(s, m)
      PROVE  CountInv'
  BY <1>5, NothingTold DEF DataCall, Decisions, StageTags
<1>6. ASSUME NEW s \in Sessions, DataFail(s)
      PROVE  CountInv'
  <2>1. CountersTellTheTruth'
    BY <1>6, RowsTellReplies DEF DataFail, StageTags
  <2>2. PICK label \in {"greeted", "closed"} : pc' = [pc EXCEPT ![s] = label]
    BY <1>6 DEF DataFail, EndData
  <2>3. QED
    BY <1>6, <2>1, <2>2 DEF DataFail, EndData
<1>7. ASSUME NEW s \in Sessions, DataDrop(s)
      PROVE  CountInv'
  BY <1>7, DropsTellReplies DEF DataDrop, EndData
<1>8. ASSUME NEW s \in Sessions, DataAccept(s)
      PROVE  CountInv'
  BY <1>8, NothingTold DEF DataAccept, IsFailure
<1>9. ASSUME NEW s \in Sessions, Store(s)
      PROVE  CountInv'
  BY <1>9, NothingTold DEF Store
<1>10. ASSUME NEW s \in Sessions, RecordAccepted(s)
       PROVE  CountInv'
  <2>1. CountersTellTheTruth'
    BY <1>10, RowsTellReplies DEF RecordAccepted, StageTags
  <2>2. QED
    BY <1>10, <2>1 DEF RecordAccepted, EndData
<1>11. ASSUME NEW s \in Sessions, Disconnect(s) \/ Connect(s)
       PROVE  CountInv'
  BY <1>11, NothingTold DEF Disconnect, Connect, EndData
<1>12. CASE AdminStep
  BY <1>12, NothingTold
     DEF AdminStep, ResetCapture, ResetMetrics, ResetFails, UpdateCapture, sessionVars
<1>13. CASE UNCHANGED vars
  BY <1>13 DEF vars, CountersTellTheTruth
<1>14. QED
  BY <1>1, <1>2, <1>3, <1>4, <1>5, <1>6, <1>7, <1>8, <1>9, <1>10, <1>11, <1>12, <1>13
     DEF Next, SessionStep, ClientStep

(* Whatever errors are enabled and however sessions interleave, a row      *)
(* counts what its client was told.                                        *)
THEOREM RowsTellTheTruth == Spec => []CountersTellTheTruth
<1>1. Init => CountInv
  BY NothingTold
     DEF Init, CountInv, Labels, TagFits, CountersTellTheTruth, NoExchange, NoCode, TempCodes, PermCodes
<1>2. CountInv => CountersTellTheTruth
  BY DEF CountInv
<1>3. QED
  BY <1>1, <1>2, NextCount, PTL DEF Spec

-----------------------------------------------------------------------------
(* The captured list. *)

CaptureTyped ==
  /\ pc \in [Sessions -> Labels]
  /\ msg \in [Sessions -> Messages \cup {NoMessage}]
  /\ snap \in [Sessions -> Configs]
  /\ config \in Configs
  /\ messages \in Seq(Messages)
  /\ log \in Seq(Messages)
  /\ accepted \subseteq Messages \X Modes
  /\ admin \in {"idle", "reset_metrics"}

(* A session has a message in hand exactly while its DATA command runs.    *)
InData(s) == pc[s] \in {"data", "parse", "record"}
MessageInHand == \A s \in Sessions : IF InData(s) THEN msg[s] \in Messages ELSE msg[s] = NoMessage

ListInv == CaptureTyped /\ MessageInHand /\ OldestDroppedFirst

LEMMA InitList == Init => ListInv
<1> SUFFICES ASSUME Init
             PROVE  ListInv
  OBVIOUS
<1>1. CaptureTyped /\ MessageInHand
  BY SmtpAssumption DEF Init, CaptureTyped, MessageInHand, InData, Labels, SmtpAssumption
<1>2. messages = <<>> /\ log = <<>> /\ Newest(<<>>, <<>>)
  BY DEF Init, Newest
<1>3. OldestDroppedFirst
  BY <1>1, <1>2, NewestIsSuffix DEF CaptureTyped, OldestDroppedFirst
<1>4. QED
  BY <1>1, <1>3 DEF ListInv

(* Every step but a Store or an administrator's leaves what is captured.   *)
LEMMA NextList == ListInv /\ [Next]_vars => ListInv'
<1> SUFFICES ASSUME ListInv, [Next]_vars
             PROVE  ListInv'
  OBVIOUS
<1> DEFINE Kept == UNCHANGED <<config, messages, log, admin>>
<1>1. CaptureTyped /\ MessageInHand /\ Newest(messages, log) /\ (log # <<>> => messages # <<>>)
  BY NewestIsSuffix DEF ListInv, OldestDroppedFirst, CaptureTyped
<1>2. \A c \in Configs : c.max \in Nat \ {0}
  BY SmtpAssumption DEF SmtpAssumption
<1> USE DEF CaptureTyped, MessageInHand, InData, Labels, Goto
<1>3. ASSUME NEW s \in Sessions, NEW label \in Labels, EndData(s, label),
             label \notin {"data", "parse", "record"}
      PROVE  /\ pc' \in [Sessions -> Labels] /\ msg' \in [Sessions -> Messages \cup {NoMessage}]
             /\ snap' \in [Sessions -> Configs] /\ MessageInHand'
  BY <1>1, <1>3, SmtpAssumption DEF EndData, SmtpAssumption
<1>4. ASSUME NEW s \in Sessions, MailCall(s) \/ RcptCall(s) \/ DataAccept(s) \/ Connect(s)
      PROVE  (CaptureTyped /\ MessageInHand)' /\ Kept
  BY <1>1, <1>4
     DEF MailCall, RcptCall, StageCall, DataAccept, Connect, captureVars, rowVars, dataVars
<1>5. ASSUME NEW s \in Sessions, MailDone(s) \/ RcptDone(s)
      PROVE  (CaptureTyped /\ MessageInHand)' /\ Kept
  <2>1. PICK label \in {"greeted", "mailed", "closed"} :
          pc' = [pc EXCEPT ![s] = label] /\ pc[s] \in {"mail", "rcpt"}
    BY <1>5 DEF MailDone, RcptDone, StageEnds
  <2>2. QED
    BY <1>1, <1>5, <2>1 DEF MailDone, RcptDone, StageEnds, captureVars, rowVars, dataVars
<1>6. ASSUME NEW s \in Sessions, NEW m \in Messages, DataCall(s, m)
      PROVE  (CaptureTyped /\ MessageInHand)' /\ Kept
  BY <1>1, <1>6 DEF DataCall, captureVars, rowVars
<1>7. ASSUME NEW s \in Sessions, DataFail(s) \/ DataDrop(s) \/ Disconnect(s)
      PROVE  (CaptureTyped /\ MessageInHand)' /\ Kept
  <2>1. PICK label \in {"greeted", "closed"} : EndData(s, label)
    BY <1>7 DEF DataFail, DataDrop, Disconnect
  <2>2. QED
    BY <1>1, <1>3, <1>7, <2>1 DEF DataFail, DataDrop, Disconnect, captureVars, rowVars
<1>8. ASSUME NEW s \in Sessions, RecordAccepted(s)
      PROVE  (CaptureTyped /\ MessageInHand)' /\ Kept
  <2>1. msg[s] \in Messages /\ snap[s].mode \in Modes
    BY <1>1, <1>8, SmtpAssumption DEF RecordAccepted, SmtpAssumption
  <2>2. accepted' \subseteq Messages \X Modes
    BY <1>1, <1>8, <2>1 DEF RecordAccepted
  <2>3. QED
    BY <1>1, <1>3, <1>8, <2>2 DEF RecordAccepted, captureVars
<1>9. ASSUME NEW s \in Sessions, Store(s)
      PROVE  /\ (CaptureTyped /\ MessageInHand)'
             /\ Newest(messages, log)' /\ (log' # <<>> => messages' # <<>>)
  <2>1. msg[s] \in Messages /\ snap[s].max \in Nat \ {0}
    BY <1>1, <1>2, <1>9 DEF Store
  <2>2. /\ messages' \in Seq(Messages) /\ log' \in Seq(Messages)
        /\ Newest(messages, log)' /\ (log' # <<>> => messages' # <<>>)
    <3>1. CASE UNCHANGED <<messages, log>>
      BY <1>1, <3>1
    <3>2. CASE /\ messages' = Trim(Append(messages, msg[s]), snap[s].max)
               /\ log' = Append(log, msg[s])
      <4>1. /\ Append(messages, msg[s]) \in Seq(Messages) /\ Append(messages, msg[s]) # <<>>
            /\ Append(log, msg[s]) \in Seq(Messages)
        BY <1>1, <2>1
      <4>2. Newest(Append(messages, msg[s]), Append(log, msg[s]))
        BY <1>1, <2>1, AppendNewest
      <4>3. QED
        BY <2>1, <3>2, <4>1, <4>2, TrimNewestStays
    <3>3. QED
      BY <1>9, <3>1, <3>2 DEF Store, CaptureConfig
  <2>3. QED
    BY <1>1, <1>9, <2>2 DEF Store, rowVars, dataVars
<1>10. ASSUME NEW c \in Configs, UpdateCapture(c)
       PROVE  /\ (CaptureTyped /\ MessageInHand)'
              /\ Newest(messages, log)' /\ (log' # <<>> => messages' # <<>>)
  <2>1. /\ Trim(messages, c.max) \in Seq(Messages) /\ Newest(Trim(messages, c.max), log)
        /\ messages # <<>> => Trim(messages, c.max) # <<>>
    BY <1>1, <1>2, TrimNewestStays
  <2>2. QED
    BY <1>1, <1>10, <2>1 DEF UpdateCapture, sessionVars, dataVars, rowVars
<1>11. ASSUME ResetCapture
       PROVE  /\ (CaptureTyped /\ MessageInHand)'
              /\ Newest(messages, log)' /\ (log' # <<>> => messages' # <<>>)
  BY <1>1, <1>11 DEF ResetCapture, EmptyCapture, sessionVars, dataVars, rowVars, Newest
<1>12. ASSUME ResetMetrics \/ ResetFails
       PROVE  /\ (CaptureTyped /\ MessageInHand)'
              /\ Newest(messages, log)' /\ (log' # <<>> => messages' # <<>>)
  BY <1>1, <1>12 DEF ResetMetrics, ResetFails, sessionVars, dataVars, rowVars, Newest
<1>13. ASSUME UNCHANGED vars
       PROVE  (CaptureTyped /\ MessageInHand)' /\ Kept
  BY <1>1, <1>13 DEF vars, dataVars
<1>14. ASSUME Kept
       PROVE  Newest(messages, log)' /\ (log' # <<>> => messages' # <<>>)
  BY <1>1, <1>14 DEF Newest
<1>15. /\ (CaptureTyped /\ MessageInHand)'
       /\ Newest(messages, log)' /\ (log' # <<>> => messages' # <<>>)
  BY <1>4, <1>5, <1>6, <1>7, <1>8, <1>9, <1>10, <1>11, <1>12, <1>13, <1>14
     DEF Next, SessionStep, ClientStep, AdminStep
<1>16. QED
  <2>1. messages' \in Seq(Messages) /\ log' \in Seq(Messages)
    BY <1>15
  <2>2. IsSuffix(messages', log')
    BY <1>15, <2>1, NewestIsSuffix
  <2>3. QED
    BY <1>15, <2>2 DEF ListInv, OldestDroppedFirst

LEMMA ListInvHolds == Spec => []ListInv
BY InitList, NextList, PTL DEF Spec

(* The list holds the newest of what was captured, in order, and trimming  *)
(* never empties it, whatever configuration a message or an update trims   *)
(* by.                                                                     *)
THEOREM NewestAreKept == Spec => []OldestDroppedFirst
<1>1. ListInv => OldestDroppedFirst
  BY DEF ListInv
<1>2. QED
  BY ListInvHolds, <1>1, PTL

-----------------------------------------------------------------------------
(* The list and the rows.  While reset() is between its two halves all     *)
(* that is captured is torn from its row, so the agreement is restored     *)
(* whichever way the second half ends.                                     *)

Recording == {s \in Sessions : pc[s] = "record"}

MessagesAreOwn ==
  \A s, r \in Sessions : s # r /\ msg[s] # NoMessage => msg[s] # msg[r]

(* Until it is stored nothing tells of a message, and until its row is     *)
(* written no row does.                                                    *)
PendingIsUnknown ==
  \A s \in Sessions :
    /\ pc[s] \in {"data", "parse"} => msg[s] \notin Captured \cup torn
    /\ InData(s) => msg[s] \notin Rows \cup unrecorded

(* The row to come will say what Store has done. *)
PendingMatches ==
  \A s \in Recording :
    msg[s] \notin torn => (snap[s].mode # "discard" <=> msg[s] \in Captured)

ResetSeparates == admin = "reset_metrics" => Captured \subseteq torn

AgreeInv ==
  /\ ListInv /\ MessagesAreOwn /\ PendingIsUnknown /\ PendingMatches /\ ResetSeparates
  /\ CaptureMatchesMetrics

(* What is captured, rowed and torn changes in the steps listed in         *)
(* NextAgree; every other step also leaves the recording sessions alone    *)
(* and takes no message but a fresh one.                                   *)
Bystanders ==
  /\ UNCHANGED <<log, accepted, unrecorded, torn, admin>>
  /\ \A s \in Sessions :
       \/ /\ msg'[s] = msg[s] /\ snap'[s] = snap[s]
          /\ pc'[s] = "record" <=> pc[s] = "record"
          /\ pc'[s] \in {"data", "parse"} => pc[s] \in {"data", "parse"}
       \/ /\ pc[s] # "record" /\ ~InData(s)' /\ msg'[s] = NoMessage
       \/ /\ pc[s] # "record" /\ pc'[s] = "data" /\ msg'[s] \in Fresh
          /\ \A r \in Sessions : r # s => msg'[r] = msg[r]

LEMMA BystandersAgree ==
  ASSUME AgreeInv, Bystanders, ListInv'
  PROVE  AgreeInv'
<1> USE DEF Bystanders
<1>1. /\ Captured' = Captured /\ Rows' = Rows /\ torn' = torn /\ unrecorded' = unrecorded
      /\ accepted' = accepted /\ admin' = admin
  BY DEF Captured, Rows
<1>2. Recording' = Recording /\ \A s \in Recording : msg'[s] = msg[s] /\ snap'[s] = snap[s]
  <2>1. ASSUME NEW s \in Sessions
        PROVE  /\ pc'[s] = "record" <=> pc[s] = "record"
               /\ pc[s] = "record" => msg'[s] = msg[s] /\ snap'[s] = snap[s]
    <3>1. CASE /\ msg'[s] = msg[s] /\ snap'[s] = snap[s]
               /\ pc'[s] = "record" <=> pc[s] = "record"
      BY <3>1
    <3>2. CASE pc[s] # "record" /\ ~InData(s)'
      BY <3>2 DEF InData
    <3>3. CASE pc[s] # "record" /\ pc'[s] = "data"
      BY <3>3
    <3>4. QED
      BY <3>1, <3>2, <3>3
  <2>2. \A s \in Sessions : pc'[s] = "record" <=> pc[s] = "record"
    BY <2>1
  <2>3. Recording' = Recording
    BY <2>2 DEF Recording
  <2>4. \A s \in Recording : msg'[s] = msg[s] /\ snap'[s] = snap[s]
    BY <2>1 DEF Recording
  <2>5. QED
    BY <2>3, <2>4
<1>3. \A s \in Sessions : msg'[s] = msg[s] \/ msg'[s] = NoMessage
                           \/ (msg'[s] \in Fresh /\ \A r \in Sessions : r # s => msg'[r] = msg[r])
  OBVIOUS
<1>4. Fresh \cap {msg[s] : s \in Sessions} \subseteq {NoMessage}
  BY DEF Fresh, InFlight
<1>5. NoMessage \notin Fresh
  BY SmtpAssumption DEF SmtpAssumption, Fresh
<1>6. MessagesAreOwn'
  BY <1>3, <1>4, <1>5 DEF AgreeInv, MessagesAreOwn
<1>7. PendingIsUnknown'
  BY <1>1 DEF AgreeInv, PendingIsUnknown, Fresh, InData
<1>8. PendingMatches'
  BY <1>1, <1>2 DEF AgreeInv, PendingMatches
<1>9. ResetSeparates' /\ CaptureMatchesMetrics'
  <2>1. {msg[s] : s \in Recording}' = {msg[s] : s \in Recording}
    BY <1>2
  <2>2. QED
    BY <1>1, <2>1 DEF AgreeInv, ResetSeparates, CaptureMatchesMetrics, Recording
<1>10. QED
  BY <1>6, <1>7, <1>8, <1>9 DEF AgreeInv

LEMMA StoreAgrees ==
  ASSUME AgreeInv, NEW s \in Sessions, Store(s), ListInv'
  PROVE  AgreeInv'
<1>1. /\ msg[s] \in Messages /\ pc[s] = "parse"
      /\ msg[s] \notin Captured \cup torn /\ msg[s] \notin Rows \cup unrecorded
      /\ log \in Seq(Messages)
  BY DEF AgreeInv, ListInv, MessageInHand, CaptureTyped, InData, PendingIsUnknown, Store
<1>2. /\ UNCHANGED <<msg, snap, admin, accepted, unrecorded>>
      /\ pc' = [pc EXCEPT ![s] = "record"] /\ pc \in [Sessions -> Labels]
  BY DEF Store, rowVars, dataVars, Goto, AgreeInv, ListInv, CaptureTyped
<1>3. Recording' = {s} /\ Recording = {}
  BY <1>2 DEF Recording, Store, LoopFree, Labels
<1>4. Rows' = Rows
  BY <1>2 DEF Rows
<1>5. \A r \in Sessions : r # s => msg[r] # msg[s]
  BY <1>1, SmtpAssumption DEF AgreeInv, MessagesAreOwn, SmtpAssumption
<1>6. IF snap[s].mode = "discard" THEN Captured' = Captured /\ torn' = torn
      ELSE /\ Captured' = Captured \cup {msg[s]}
           /\ torn' = IF admin = "idle" THEN torn ELSE torn \cup {msg[s]}
  <2>1. CASE snap[s].mode = "discard"
    BY <2>1 DEF Store, CaptureConfig, Captured
  <2>2. CASE snap[s].mode # "discard"
    <3>1. log' = Append(log, msg[s]) /\ torn' = IF admin = "idle" THEN torn ELSE torn \cup {msg[s]}
      BY <2>2 DEF Store, CaptureConfig
    <3>2. Captured' = Captured \cup {msg[s]}
      BY <1>1, <3>1, AppendElements DEF Captured
    <3>3. QED
      BY <2>2, <3>1, <3>2
  <2>3. QED
    BY <2>1, <2>2
<1>7. MessagesAreOwn'
  BY <1>2 DEF AgreeInv, MessagesAreOwn
<1>8. PendingIsUnknown'
  BY <1>1, <1>2, <1>4, <1>5, <1>6 DEF AgreeInv, PendingIsUnknown, InData
<1>9. PendingMatches'
  BY <1>1, <1>2, <1>3, <1>6 DEF PendingMatches
<1>10. ResetSeparates'
  BY <1>2, <1>6, SmtpAssumption DEF AgreeInv, ResetSeparates, ListInv, CaptureTyped
<1>11. CaptureMatchesMetrics'
  <2>1. {msg[r] : r \in {q \in Sessions : pc[q] = "record"}}' = {msg[s]}
    BY <1>2, <1>3 DEF Recording
  <2>2. {msg[r] : r \in {q \in Sessions : pc[q] = "record"}} = {}
    BY <1>3 DEF Recording
  <2>3. \A row \in accepted : row[1] # msg[s]
    BY <1>1 DEF Rows
  <2>4. QED
    BY <1>2, <1>4, <1>6, <2>1, <2>2, <2>3 DEF AgreeInv, CaptureMatchesMetrics
<1>12. QED
  BY <1>7, <1>8, <1>9, <1>10, <1>11 DEF AgreeInv

LEMMA RecordAgrees ==
  ASSUME AgreeInv, NEW s \in Sessions, RecordAccepted(s), ListInv'
  PROVE  AgreeInv'
<1>1. /\ msg[s] \in Messages /\ pc[s] = "record"
      /\ msg[s] \notin Rows \cup unrecorded
      /\ msg[s] \notin torn => (snap[s].mode # "discard" <=> msg[s] \in Captured)
  BY DEF AgreeInv, ListInv, MessageInHand, InData, PendingIsUnknown, PendingMatches, Recording,
         RecordAccepted
<1>2. /\ UNCHANGED <<log, torn, admin>> /\ pc'[s] = "greeted" /\ msg'[s] = NoMessage
      /\ \A r \in Sessions : r # s => pc'[r] = pc[r] /\ msg'[r] = msg[r] /\ snap'[r] = snap[r]
  BY DEF RecordAccepted, EndData, Goto, captureVars, AgreeInv, ListInv, CaptureTyped
<1>3. Captured' = Captured
  BY <1>2 DEF Captured
<1>4. \/ accepted' = accepted \cup {<<msg[s], snap[s].mode>>} /\ unrecorded' = unrecorded
      \/ accepted' = accepted /\ unrecorded' = unrecorded \cup {msg[s]}
  BY DEF RecordAccepted
<1>5. Rows' \cup unrecorded' = Rows \cup unrecorded \cup {msg[s]}
  <2>1. CASE accepted' = accepted \cup {<<msg[s], snap[s].mode>>} /\ unrecorded' = unrecorded
    <3>1. <<msg[s], snap[s].mode>>[1] = msg[s]
      OBVIOUS
    <3>2. Rows' = Rows \cup {msg[s]}
      BY <2>1, <3>1, Zenon DEF Rows
    <3>3. QED
      BY <2>1, <3>2
  <2>2. CASE accepted' = accepted /\ unrecorded' = unrecorded \cup {msg[s]}
    BY <2>2 DEF Rows
  <2>3. QED
    BY <1>4, <2>1, <2>2
<1>6. \A r \in Sessions : r # s => msg[r] # msg[s]
  BY <1>1, SmtpAssumption DEF AgreeInv, MessagesAreOwn, SmtpAssumption
<1>7. MessagesAreOwn'
  BY <1>2 DEF AgreeInv, MessagesAreOwn
<1>8. PendingIsUnknown'
  BY <1>2, <1>3, <1>5, <1>6 DEF AgreeInv, PendingIsUnknown, InData
<1>9. PendingMatches'
  BY <1>2, <1>3 DEF AgreeInv, PendingMatches, Recording
<1>10. ResetSeparates'
  BY <1>2, <1>3 DEF AgreeInv, ResetSeparates
<1>11. CaptureMatchesMetrics'
  <2>1. {msg[r] : r \in {q \in Sessions : pc[q] = "record"}} \subseteq
          {msg[r] : r \in {q \in Sessions : pc[q] = "record"}}' \cup {msg[s]}
    BY <1>2
  <2>2. ASSUME admin = "idle", NEW row \in accepted', row[1] \notin torn
        PROVE  row[2] # "discard" <=> row[1] \in Captured
    <3>1. CASE row \in accepted
      BY <2>2, <3>1 DEF AgreeInv, CaptureMatchesMetrics
    <3>2. CASE row = <<msg[s], snap[s].mode>>
      BY <1>1, <2>2, <3>2
    <3>3. QED
      BY <1>4, <3>1, <3>2
  <2>3. admin = "idle" => Captured \subseteq Rows' \cup unrecorded' \cup torn
                            \cup {msg[r] : r \in {q \in Sessions : pc[q] = "record"}}'
    BY <1>5, <2>1 DEF AgreeInv, CaptureMatchesMetrics
  <2>4. QED
    BY <1>2, <1>3, <2>2, <2>3 DEF CaptureMatchesMetrics
<1>12. QED
  BY <1>7, <1>8, <1>9, <1>10, <1>11 DEF AgreeInv

LEMMA ResetsAgree ==
  ASSUME AgreeInv, ResetCapture \/ ResetMetrics \/ ResetFails, ListInv'
  PROVE  AgreeInv'
<1>1. UNCHANGED <<pc, msg, snap>>
  BY DEF ResetCapture, ResetMetrics, ResetFails, sessionVars, dataVars
<1>2. MessagesAreOwn'
  BY <1>1 DEF AgreeInv, MessagesAreOwn
<1>3. CASE ResetCapture
  <2>1. /\ Captured' = {} /\ Rows' = Rows /\ unrecorded' = unrecorded
        /\ torn' = {msg[s] : s \in Recording} /\ admin' = "reset_metrics"
    BY <1>3 DEF ResetCapture, EmptyCapture, Captured, Rows, rowVars, Recording
  <2>2. \A s \in Sessions : pc[s] \in {"data", "parse"} => msg[s] \notin torn'
    BY <2>1, SmtpAssumption
       DEF Recording, AgreeInv, MessagesAreOwn, ListInv, MessageInHand, InData, SmtpAssumption
  <2>3. PendingIsUnknown'
    BY <1>1, <2>1, <2>2 DEF AgreeInv, PendingIsUnknown, InData
  <2>4. PendingMatches'
    BY <1>1, <2>1 DEF PendingMatches, Recording
  <2>5. QED
    BY <1>2, <2>1, <2>3, <2>4 DEF AgreeInv, ResetSeparates, CaptureMatchesMetrics
<1>4. CASE ResetMetrics
  <2>1. /\ Captured' = Captured /\ torn' = torn /\ accepted' = {} /\ Rows' = {} /\ unrecorded' = {}
        /\ admin = "reset_metrics" /\ admin' = "idle"
    BY <1>4 DEF ResetMetrics, Captured, Rows
  <2>2. Captured \subseteq torn
    BY <2>1 DEF AgreeInv, ResetSeparates
  <2>3. PendingIsUnknown' /\ PendingMatches'
    BY <1>1, <2>1 DEF AgreeInv, PendingIsUnknown, PendingMatches, InData, Recording
  <2>4. QED
    BY <1>2, <2>1, <2>2, <2>3 DEF AgreeInv, ResetSeparates, CaptureMatchesMetrics
<1>5. CASE ResetFails
  <2>1. /\ Captured' = Captured /\ torn' = torn \cup Rows /\ accepted' = accepted /\ Rows' = Rows
        /\ unrecorded' = unrecorded /\ admin = "reset_metrics" /\ admin' = "idle"
    BY <1>5 DEF ResetFails, Captured, Rows, rowVars
  <2>2. Captured \subseteq torn
    BY <2>1 DEF AgreeInv, ResetSeparates
  <2>3. \A row \in accepted : row[1] \in Rows
    BY DEF Rows
  <2>4. PendingIsUnknown' /\ PendingMatches'
    BY <1>1, <2>1 DEF AgreeInv, PendingIsUnknown, PendingMatches, InData, Recording
  <2>5. QED
    BY <1>2, <2>1, <2>2, <2>3, <2>4 DEF AgreeInv, ResetSeparates, CaptureMatchesMetrics
<1>6. QED
  BY <1>3, <1>4, <1>5

LEMMA NextAgree == AgreeInv /\ [Next]_vars => AgreeInv'
<1> SUFFICES ASSUME AgreeInv, [Next]_vars
             PROVE  AgreeInv'
  OBVIOUS
<1> USE DEF captureVars, rowVars, dataVars, Goto, InData
<1>1. ListInv' /\ pc \in [Sessions -> Labels] /\ MessageInHand
  BY NextList DEF AgreeInv, ListInv, CaptureTyped
<1>2. ASSUME NEW s \in Sessions, MailCall(s) \/ RcptCall(s) \/ DataAccept(s) \/ Connect(s)
      PROVE  Bystanders
  BY <1>1, <1>2 DEF MailCall, RcptCall, StageCall, DataAccept, Connect, Bystanders
<1>3. ASSUME NEW s \in Sessions, MailDone(s) \/ RcptDone(s)
      PROVE  Bystanders
  <2>1. PICK label \in {"greeted", "mailed", "closed"} :
          pc' = [pc EXCEPT ![s] = label] /\ pc[s] \in {"mail", "rcpt"}
    BY <1>3 DEF MailDone, RcptDone, StageEnds
  <2>2. QED
    BY <1>1, <1>3, <2>1 DEF MailDone, RcptDone, StageEnds, Bystanders
<1>4. ASSUME NEW s \in Sessions, NEW m \in Messages, DataCall(s, m)
      PROVE  Bystanders
  <2>1. msg \in [Sessions -> Messages \cup {NoMessage}] /\ snap \in [Sessions -> Configs]
    BY DEF AgreeInv, ListInv, CaptureTyped
  <2>2. /\ UNCHANGED <<log, accepted, unrecorded, torn, admin>> /\ m \in Fresh
        /\ pc[s] = "mailed" /\ pc'[s] = "data" /\ msg'[s] = m
        /\ \A r \in Sessions : r # s => pc'[r] = pc[r] /\ msg'[r] = msg[r] /\ snap'[r] = snap[r]
    BY <1>1, <1>4, <2>1 DEF DataCall
  <2>3. QED
    BY <2>2 DEF Bystanders
<1>5. ASSUME NEW s \in Sessions, DataFail(s) \/ DataDrop(s) \/ Disconnect(s)
      PROVE  Bystanders
  <2>1. PICK label \in {"greeted", "closed"} : EndData(s, label) /\ pc[s] # "record"
    BY <1>5 DEF DataFail, DataDrop, Disconnect, LoopFree
  <2>2. msg \in [Sessions -> Messages \cup {NoMessage}] /\ snap \in [Sessions -> Configs]
    BY DEF AgreeInv, ListInv, CaptureTyped
  <2>3. /\ pc'[s] = label /\ msg'[s] = NoMessage
        /\ \A r \in Sessions : r # s => pc'[r] = pc[r] /\ msg'[r] = msg[r] /\ snap'[r] = snap[r]
    BY <1>1, <2>1, <2>2 DEF EndData
  <2>4. UNCHANGED <<log, accepted, unrecorded, torn, admin>>
    BY <1>5 DEF DataFail, DataDrop, Disconnect
  <2>5. QED
    BY <2>1, <2>3, <2>4 DEF Bystanders
<1>6. ASSUME NEW c \in Configs, UpdateCapture(c)
      PROVE  Bystanders
  BY <1>6 DEF UpdateCapture, sessionVars, Bystanders
<1>7. ASSUME UNCHANGED vars
      PROVE  Bystanders
  BY <1>7 DEF vars, Bystanders
<1>8. QED
  BY <1>1, <1>2, <1>3, <1>4, <1>5, <1>6, <1>7, BystandersAgree, StoreAgrees, RecordAgrees, ResetsAgree
     DEF Next, SessionStep, ClientStep, AdminStep

(* Between resets the capture and the rows agree about every message that  *)
(* no reset has separated from its row, whatever configuration updates,    *)
(* disconnects and failed recordings come between.                         *)
THEOREM CaptureMatches == Spec => []CaptureMatchesMetrics
<1>1. Init => AgreeInv
  <2> SUFFICES ASSUME Init
               PROVE  AgreeInv
    OBVIOUS
  <2>1. Captured = {} /\ Rows = {} /\ Recording = {}
    BY DEF Init, Captured, Rows, Recording
  <2>2. QED
    BY <2>1, InitList
       DEF Init, AgreeInv, MessagesAreOwn, PendingIsUnknown, PendingMatches, ResetSeparates,
           CaptureMatchesMetrics, InData
<1>2. AgreeInv => CaptureMatchesMetrics
  BY DEF AgreeInv
<1>3. QED
  BY <1>1, <1>2, NextAgree, PTL DEF Spec

=============================================================================
