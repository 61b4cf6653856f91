-------------------------- MODULE ConfigSwapProofs --------------------------
(***************************************************************************)
(* Theorems of ConfigSwap, for any threads, sections, fields, values and   *)
(* documents, and for both ways of merging.                                *)
(***************************************************************************)
EXTENDS ConfigSwap, TLAPS

-----------------------------------------------------------------------------
(* The invariant. *)

Configuration == [Sections -> SectionConfig]

Typed ==
  /\ mergesUnderLock \in BOOLEAN
  /\ config \in Configuration
  /\ configLock \in Callers \cup {NoCaller}
  /\ step \in [Callers -> SwapLabels]
  /\ update \in [Callers -> [Sections -> Patch]]
  /\ section \in [Callers -> 1..(NumSections + 1)]
  /\ built \in [Callers -> Configuration]
  /\ snapshot \in [Callers -> Configuration]
  /\ last \in Configuration
  /\ request \in {"none", "get", "post"}

(* Where a thread owns _config_lock. *)
Holds(t) ==
  \/ step[t] \in {"swap", "swapped", "read"}
  \/ mergesUnderLock /\ step[t] = "merge"

LockIsHeld == \A t \in Callers : configLock = t <=> Holds(t)

(* While no thread swaps, the configuration is the published one. *)
PublishedUnlessSwapping ==
  (\A t \in Callers : step[t] \notin {"swap", "swapped"}) => config = last

(* A thread that swaps has come as far as its section. *)
Replaced(t, s) == IF Mentioned(t, s) THEN built[t][s] ELSE last[s]

SwappedSoFar ==
  \A t \in Callers, s \in Sections :
    /\ step[t] = "swap" => config[s] = IF s < section[t] THEN Replaced(t, s) ELSE last[s]
    /\ step[t] = "swapped" => config[s] = Replaced(t, s)

(* What is built under the lock is built from the published configuration. *)
MergedFromLast ==
  mergesUnderLock =>
    \A t \in Callers, s \in Sections :
      \/ step[t] = "merge" /\ s < section[t]
      \/ step[t] \in {"swap", "swapped"}
      => built[t][s] = Merge(last[s], update[t][s])

ReadSoFar ==
  \A t \in Callers, s \in Sections :
    step[t] = "read" /\ s < section[t] => snapshot[t][s] = config[s]

(* Only the loop is ever at a step of the endpoint, and only there does it *)
(* have a request.                                                         *)
LoopControl ==
  /\ \A t \in Callers : step[t] \in {"shape", "look", "answered"} => t = Loop
  /\ step[Loop] \in {"idle", "serve"} => request = "none"
  /\ step[Loop] \in {"shape", "lock", "merge", "swap", "swapped"} => request = "post"
  /\ step[Loop] = "look" => request # "none"

(* The configurations completed since the update of the request: none      *)
(* before it, and then always the published one among others.              *)
SinceIsHistory ==
  /\ since # {} => request = "post" /\ step[Loop] \in {"look", "read", "answered"}
  /\ request = "post" /\ step[Loop] \in {"look", "read"} => last \in since

UpdateInv ==
  /\ Typed /\ LockIsHeld /\ PublishedUnlessSwapping /\ SwappedSoFar /\ MergedFromLast
  /\ ReadSoFar /\ LoopControl /\ SinceIsHistory /\ AnswerTellsOutcome

-----------------------------------------------------------------------------
(* Merging. *)

(* An update can never turn a section into anything but a section. *)
LEMMA MergeType ==
  ASSUME NEW base \in SectionConfig, NEW patch \in Patch
  PROVE  Merge(base, patch) \in SectionConfig
<1>1. PICK F \in SUBSET Fields : patch \in [F -> Values]
  BY DEF Patch
<1>2. QED
  BY <1>1 DEF Merge, SectionConfig

(* A document that does not mention a section leaves it as it is. *)
LEMMA MergeNothing ==
  ASSUME NEW base \in SectionConfig, NEW patch \in Patch, DOMAIN patch = {}
  PROVE  Merge(base, patch) = base
BY DEF Merge, SectionConfig

LEMMA NoUpdateType == NoUpdate \in [Sections -> Patch]
<1>1. [f \in {} |-> 0] \in [{} -> Values]
  OBVIOUS
<1>2. [f \in {} |-> 0] \in Patch
  BY <1>1 DEF Patch
<1>3. QED
  BY <1>2 DEF NoUpdate

-----------------------------------------------------------------------------
(* Types. *)

LEMMA InitTyped == SwapInit => Typed
BY ConfigAssumption, NoUpdateType
   DEF SwapInit, Typed, ConfigAssumption, Configuration, SwapLabels

(* The locals of a call that returns are those of a thread at rest. *)
LEMMA ReturnTyped ==
  ASSUME Typed, NEW t \in Callers, Return(t)
  PROVE  /\ step' \in [Callers -> SwapLabels]
         /\ update' \in [Callers -> [Sections -> Patch]]
         /\ section' \in [Callers -> 1..(NumSections + 1)]
         /\ built' \in [Callers -> Configuration]
         /\ snapshot' \in [Callers -> Configuration]
BY ConfigAssumption, NoUpdateType
   DEF Return, Continue, Typed, ConfigAssumption, Configuration, SwapLabels

LEMMA NextTyped == Typed /\ [SwapNext]_swapVars => Typed'
<1> SUFFICES ASSUME Typed, [SwapNext]_swapVars
             PROVE  Typed'
  OBVIOUS
<1> USE ConfigAssumption DEF Typed, Continue, Answered, SwapLabels, ConfigAssumption, adminVars
<1>1. mergesUnderLock' = mergesUnderLock
  BY DEF SwapNext, swapVars
<1>2. ASSUME NEW t \in Callers, UpdateCall(t)
      PROVE  Typed'
  BY <1>1, <1>2 DEF UpdateCall
<1>3. ASSUME NEW t \in Callers, UpdateLock(t) \/ MergeDone(t) \/ SwapDone(t)
      PROVE  Typed'
  <2>1. CASE UpdateLock(t)
    BY <1>1, <2>1 DEF UpdateLock
  <2>2. CASE MergeDone(t)
    BY <1>1, <2>2 DEF MergeDone
  <2>3. CASE SwapDone(t)
    BY <1>1, <2>3 DEF SwapDone
  <2>4. QED
    BY <1>3, <2>1, <2>2, <2>3
<1>4. ASSUME NEW t \in Callers, MergeSection(t)
      PROVE  Typed'
  <2>1. Merge(config[section[t]], update[t][section[t]]) \in SectionConfig
    BY <1>4, MergeType DEF MergeSection, Configuration
  <2>2. built' \in [Callers -> Configuration]
    BY <1>4, <2>1 DEF MergeSection, Configuration
  <2>3. section' \in [Callers -> 1..(NumSections + 1)]
    BY <1>4 DEF MergeSection, Sections
  <2>4. QED
    BY <1>1, <1>4, <2>2, <2>3 DEF MergeSection
<1>5. ASSUME NEW t \in Callers, Invalid(t)
      PROVE  Typed'
  BY <1>1, <1>5, ReturnTyped DEF Invalid
<1>6. ASSUME NEW t \in Callers, SwapSection(t)
      PROVE  Typed'
  <2>1. config' \in Configuration
    BY <1>6 DEF SwapSection, Configuration
  <2>2. section' \in [Callers -> 1..(NumSections + 1)]
    BY <1>6 DEF SwapSection, Sections
  <2>3. QED
    BY <1>1, <1>6, <2>1, <2>2 DEF SwapSection
<1>7. ASSUME NEW t \in Callers, Release(t)
      PROVE  Typed'
  BY <1>1, <1>7, ReturnTyped DEF Release
<1>8. ASSUME NEW t \in Callers, ReadLock(t) \/ ReadDone(t)
      PROVE  Typed'
  <2>1. CASE ReadLock(t)
    BY <1>1, <2>1 DEF ReadLock
  <2>2. CASE ReadDone(t)
    BY <1>1, <2>2 DEF ReadDone
  <2>3. QED
    BY <1>8, <2>1, <2>2
<1>9. ASSUME NEW t \in Callers, ReadSection(t)
      PROVE  Typed'
  <2>1. snapshot' \in [Callers -> Configuration]
    BY <1>9 DEF ReadSection, Configuration
  <2>2. section' \in [Callers -> 1..(NumSections + 1)]
    BY <1>9 DEF ReadSection, Sections
  <2>3. QED
    BY <1>1, <1>9, <2>1, <2>2 DEF ReadSection
<1>10. ASSUME NEW t \in Callers, Respond(t)
       PROVE  Typed'
  BY <1>1, <1>10, ReturnTyped DEF Respond
<1>11. CASE AdminDenied \/ AdminGet
  BY <1>1, <1>11 DEF AdminDenied, AdminGet
<1>12. CASE AdminPost \/ CheckShape
  BY <1>1, <1>12 DEF AdminPost, CheckShape
<1>13. CASE AdminDone
  BY <1>1, <1>13, ReturnTyped DEF AdminDone
<1>14. CASE UNCHANGED swapVars
  BY <1>14 DEF swapVars
<1>15. QED
  BY <1>2, <1>3, <1>4, <1>5, <1>6, <1>7, <1>8, <1>9, <1>10, <1>11, <1>12, <1>13, <1>14
     DEF SwapNext, Admin

-----------------------------------------------------------------------------
(* The invariant holds. *)

LEMMA InitInv == SwapInit => UpdateInv
<1> SUFFICES ASSUME SwapInit
             PROVE  UpdateInv
  OBVIOUS
<1>1. Typed
  BY InitTyped
<1>2. LockIsHeld /\ PublishedUnlessSwapping /\ SwappedSoFar /\ MergedFromLast /\ ReadSoFar
  BY ConfigAssumption
     DEF SwapInit, ConfigAssumption, LockIsHeld, Holds, PublishedUnlessSwapping, SwappedSoFar,
         MergedFromLast, ReadSoFar
<1>3. LoopControl /\ SinceIsHistory /\ AnswerTellsOutcome
  BY ConfigAssumption
     DEF SwapInit, ConfigAssumption, LoopControl, SinceIsHistory, AnswerTellsOutcome
<1>4. QED
  BY <1>1, <1>2, <1>3 DEF UpdateInv

(* A reader that is done has the published configuration: it holds the     *)
(* lock, so nobody swaps.                                                  *)
LEMMA ReadIsPublished ==
  ASSUME UpdateInv, NEW t \in Callers, ReadDone(t)
  PROVE  snapshot[t] = last
<1> USE DEF UpdateInv, Typed
<1>1. config = last
  BY DEF ReadDone, LockIsHeld, Holds, PublishedUnlessSwapping
<1>2. \A s \in Sections : s < section[t]
  BY ConfigAssumption DEF ReadDone, Sections, ConfigAssumption
<1>3. \A s \in Sections : snapshot[t][s] = config[s]
  BY <1>2 DEF ReadDone, ReadSoFar
<1>4. QED
  BY <1>1, <1>3 DEF Configuration

LEMMA NextInv == UpdateInv /\ [SwapNext]_swapVars => UpdateInv'
<1> SUFFICES ASSUME UpdateInv, [SwapNext]_swapVars
             PROVE  UpdateInv'
  OBVIOUS
<1> DEFINE Swaps == LockIsHeld /\ PublishedUnlessSwapping /\ SwappedSoFar /\ MergedFromLast
                    /\ ReadSoFar
           Answers == LoopControl /\ SinceIsHistory /\ AnswerTellsOutcome
<1> USE ConfigAssumption
    DEF UpdateInv, Typed, LockIsHeld, Holds, PublishedUnlessSwapping, SwappedSoFar,
        MergedFromLast, ReadSoFar, LoopControl, SinceIsHistory, AnswerTellsOutcome,
        Replaced, Mentioned, Continue, Answered, SwapLabels, ConfigAssumption, adminVars
<1>1. mergesUnderLock' = mergesUnderLock
  BY DEF SwapNext, swapVars
<1>2. ASSUME NEW t \in Callers, UpdateCall(t)
      PROVE  Swaps' /\ Answers'
  <2>1. Swaps'
    BY <1>1, <1>2 DEF UpdateCall
  <2>2. Answers'
    BY <1>1, <1>2 DEF UpdateCall
  <2>3. QED
    BY <2>1, <2>2
<1>3. ASSUME NEW t \in Callers, UpdateLock(t)
      PROVE  Swaps' /\ Answers'
  <2>1. Swaps'
    <3>1. LockIsHeld'
      BY <1>1, <1>3 DEF UpdateLock, Sections
    <3>2. PublishedUnlessSwapping'
      BY <1>1, <1>3 DEF UpdateLock, Sections
    <3>3. SwappedSoFar'
      BY <1>1, <1>3 DEF UpdateLock, Sections
    <3>4. MergedFromLast'
      BY <1>1, <1>3 DEF UpdateLock, Sections
    <3>5. ReadSoFar'
      BY <1>1, <1>3 DEF UpdateLock, Sections
    <3>6. QED
      BY <3>1, <3>2, <3>3, <3>4, <3>5
  <2>2. Answers'
    BY <1>1, <1>3 DEF UpdateLock
  <2>3. QED
    BY <2>1, <2>2
<1>4. ASSUME NEW t \in Callers, MergeSection(t)
      PROVE  Swaps' /\ Answers'
  <2>1. Swaps'
    <3>1. LockIsHeld'
      BY <1>1, <1>4 DEF MergeSection, Sections
    <3>2. PublishedUnlessSwapping'
      BY <1>1, <1>4 DEF MergeSection, Sections
    <3>3. SwappedSoFar'
      BY <1>1, <1>4 DEF MergeSection, Sections
    <3>4. MergedFromLast'
      <4> SUFFICES ASSUME mergesUnderLock, NEW u \in Callers, NEW s \in Sections,
                          \/ step[u] = "merge" /\ s < section'[u]
                          \/ step[u] \in {"swap", "swapped"}
                   PROVE  built'[u][s] = Merge(last[s], update[u][s])
        BY <1>1, <1>4 DEF MergeSection
      <4>1. CASE u = t /\ s = section[t]
        <5>1. config = last
          BY <1>4 DEF MergeSection
        <5>2. built'[u][s] = Merge(config[s], update[u][s])
          BY <1>4, <4>1 DEF MergeSection, Configuration
        <5>3. QED
          BY <5>1, <5>2
      <4>2. CASE ~(u = t /\ s = section[t])
        <5>1. built'[u][s] = built[u][s]
          BY <1>4, <4>2 DEF MergeSection, Configuration
        <5>2. \/ step[u] = "merge" /\ s < section[u]
              \/ step[u] \in {"swap", "swapped"}
          BY <1>4, <4>2 DEF MergeSection, Sections
        <5>3. QED
          BY <5>1, <5>2
      <4>3. QED
        BY <4>1, <4>2
    <3>5. ReadSoFar'
      BY <1>1, <1>4 DEF MergeSection, Sections
    <3>6. QED
      BY <3>1, <3>2, <3>3, <3>4, <3>5
  <2>2. Answers'
    BY <1>1, <1>4 DEF MergeSection
  <2>3. QED
    BY <2>1, <2>2
<1>5. ASSUME NEW t \in Callers, Invalid(t)
      PROVE  Swaps' /\ Answers'
  <2>1. Swaps'
    <3>0. /\ step'[t] \in {"idle", "answered"} /\ step[t] = "merge"
          /\ \A u \in Callers : u # t => step'[u] = step[u]
          /\ config' = config /\ last' = last
          /\ configLock' = IF mergesUnderLock THEN NoCaller ELSE configLock
      BY <1>5 DEF Invalid, Return, Posting
    <3>1. LockIsHeld'
      BY <1>1, <3>0
    <3>2. PublishedUnlessSwapping'
      BY <3>0
    <3>3. SwappedSoFar'
      BY <1>1, <1>5 DEF Invalid, Return
    <3>4. MergedFromLast'
      BY <1>1, <1>5 DEF Invalid, Return
    <3>5. ReadSoFar'
      BY <1>1, <1>5 DEF Invalid, Return
    <3>6. QED
      BY <3>1, <3>2, <3>3, <3>4, <3>5
  <2>2. Answers'
    BY <1>1, <1>5 DEF Invalid, Return, Posting
  <2>3. QED
    BY <2>1, <2>2
<1>6. ASSUME NEW t \in Callers, MergeDone(t)
      PROVE  Swaps' /\ Answers'
  <2>1. Swaps'
    <3>1. LockIsHeld'
      BY <1>1, <1>6 DEF MergeDone, Sections
    <3>2. PublishedUnlessSwapping'
      BY <1>1, <1>6 DEF MergeDone, Sections
    <3>3. SwappedSoFar'
      BY <1>1, <1>6 DEF MergeDone, Sections
    <3>4. MergedFromLast'
      BY <1>1, <1>6 DEF MergeDone, Sections
    <3>5. ReadSoFar'
      BY <1>1, <1>6 DEF MergeDone, Sections
    <3>6. QED
      BY <3>1, <3>2, <3>3, <3>4, <3>5
  <2>2. Answers'
    BY <1>1, <1>6 DEF MergeDone
  <2>3. QED
    BY <2>1, <2>2
<1>7. ASSUME NEW t \in Callers, SwapSection(t)
      PROVE  Swaps' /\ Answers'
  <2>1. Swaps'
    <3>1. LockIsHeld'
      BY <1>1, <1>7 DEF SwapSection, Sections
    <3>2. PublishedUnlessSwapping'
      BY <1>1, <1>7 DEF SwapSection, Sections
    <3>3. SwappedSoFar'
      <4> DEFINE here == section[t]
      <4>1. \A u \in Callers : step[u] \in {"swap", "swapped"} => u = t
        BY <1>7 DEF SwapSection
      <4>2. /\ step[t] = "swap" /\ here \in Sections /\ section'[t] = here + 1
            /\ \A s \in Sections : config'[s] = IF s = here THEN Replaced(t, s) ELSE config[s]
            /\ UNCHANGED <<step, update, built, last>>
        BY <1>7 DEF SwapSection, Configuration
      <4>3. \A s \in Sections : s < here + 1 <=> s < here \/ s = here
        BY <4>2 DEF Sections
      <4>4. \A s \in Sections : Replaced(t, s)' = Replaced(t, s)
        BY <4>2
      <4>5. \A s \in Sections :
              config'[s] = IF s < here + 1 THEN Replaced(t, s) ELSE last[s]
        BY <4>2, <4>3
      <4> HIDE DEF here, Replaced
      <4>6. QED
        BY <4>1, <4>2, <4>4, <4>5
    <3>4. MergedFromLast'
      BY <1>1, <1>7 DEF SwapSection, Sections
    <3>5. ReadSoFar'
      BY <1>1, <1>7 DEF SwapSection, Sections
    <3>6. QED
      BY <3>1, <3>2, <3>3, <3>4, <3>5
  <2>2. Answers'
    BY <1>1, <1>7 DEF SwapSection
  <2>3. QED
    BY <2>1, <2>2
<1>8. ASSUME NEW t \in Callers, SwapDone(t)
      PROVE  Swaps' /\ Answers'
  <2>1. Swaps'
    <3>1. LockIsHeld'
      BY <1>1, <1>8 DEF SwapDone, Sections
    <3>2. PublishedUnlessSwapping'
      BY <1>1, <1>8 DEF SwapDone, Sections
    <3>3. SwappedSoFar'
      BY <1>1, <1>8 DEF SwapDone, Sections
    <3>4. MergedFromLast'
      BY <1>1, <1>8 DEF SwapDone, Sections
    <3>5. ReadSoFar'
      BY <1>1, <1>8 DEF SwapDone, Sections
    <3>6. QED
      BY <3>1, <3>2, <3>3, <3>4, <3>5
  <2>2. Answers'
    BY <1>1, <1>8 DEF SwapDone
  <2>3. QED
    BY <2>1, <2>2
<1>9. ASSUME NEW t \in Callers, Release(t)
      PROVE  Swaps' /\ Answers'
  <2>1. Swaps'
    <3>1. LockIsHeld'
      BY <1>1, <1>9 DEF Release, Return
    <3>2. PublishedUnlessSwapping'
      BY <1>1, <1>9 DEF Release, Return
    <3>3. SwappedSoFar'
      BY <1>1, <1>9 DEF Release, Return
    <3>4. MergedFromLast'
      BY <1>1, <1>9 DEF Release, Return
    <3>5. ReadSoFar'
      BY <1>1, <1>9 DEF Release, Return
    <3>6. QED
      BY <3>1, <3>2, <3>3, <3>4, <3>5
  <2>2. Answers'
    BY <1>1, <1>9 DEF Release, Return, Posting, Later
  <2>3. QED
    BY <2>1, <2>2
<1>10. ASSUME NEW t \in Callers, ReadLock(t)
       PROVE  Swaps' /\ Answers'
  <2>1. Swaps'
    <3>1. LockIsHeld'
      BY <1>1, <1>10 DEF ReadLock, Sections
    <3>2. PublishedUnlessSwapping'
      BY <1>1, <1>10 DEF ReadLock, Sections
    <3>3. SwappedSoFar'
      BY <1>1, <1>10 DEF ReadLock, Sections
    <3>4. MergedFromLast'
      BY <1>1, <1>10 DEF ReadLock, Sections
    <3>5. ReadSoFar'
      BY <1>1, <1>10 DEF ReadLock, Sections
    <3>6. QED
      BY <3>1, <3>2, <3>3, <3>4, <3>5
  <2>2. Answers'
    BY <1>1, <1>10 DEF ReadLock
  <2>3. QED
    BY <2>1, <2>2
<1>11. ASSUME NEW t \in Callers, ReadSection(t)
       PROVE  Swaps' /\ Answers'
  <2>1. Swaps'
    <3>1. LockIsHeld'
      BY <1>1, <1>11 DEF ReadSection, Sections
    <3>2. PublishedUnlessSwapping'
      BY <1>1, <1>11 DEF ReadSection, Sections
    <3>3. SwappedSoFar'
      BY <1>1, <1>11 DEF ReadSection, Sections
    <3>4. MergedFromLast'
      BY <1>1, <1>11 DEF ReadSection, Sections
    <3>5. ReadSoFar'
      <4> SUFFICES ASSUME NEW u \in Callers, NEW s \in Sections, step[u] = "read",
                          s < section'[u]
                   PROVE  snapshot'[u][s] = config[s]
        BY <1>11 DEF ReadSection
      <4>1. CASE u = t /\ s = section[t]
        BY <1>11, <4>1 DEF ReadSection, Configuration
      <4>2. CASE ~(u = t /\ s = section[t])
        <5>1. snapshot'[u][s] = snapshot[u][s] /\ s < section[u]
          BY <1>11, <4>2 DEF ReadSection, Configuration, Sections
        <5>2. QED
          BY <5>1
      <4>3. QED
        BY <4>1, <4>2
    <3>6. QED
      BY <3>1, <3>2, <3>3, <3>4, <3>5
  <2>2. Answers'
    BY <1>1, <1>11 DEF ReadSection
  <2>3. QED
    BY <2>1, <2>2
<1>12. ASSUME NEW t \in Callers, ReadDone(t)
       PROVE  Swaps' /\ Answers'
  <2>1. Swaps'
    BY <1>1, <1>12 DEF ReadDone
  <2>2. Answers'
    <3>1. snapshot[t] = last
      BY <1>12, ReadIsPublished
    <3>2. QED
      BY <1>1, <1>12, <3>1 DEF ReadDone
  <2>3. QED
    BY <2>1, <2>2
<1>13. ASSUME NEW t \in Callers, Respond(t)
       PROVE  Swaps' /\ Answers'
  <2>1. Swaps'
    BY <1>1, <1>13 DEF Respond, Return
  <2>2. Answers'
    BY <1>1, <1>13 DEF Respond, Return
  <2>3. QED
    BY <2>1, <2>2
<1>14. ASSUME AdminDenied \/ AdminGet \/ AdminPost
       PROVE  Swaps' /\ Answers'
  <2>1. Swaps'
    <3>1. /\ step[Loop] = "idle" /\ step'[Loop] \in {"answered", "look", "shape"}
          /\ \A u \in Callers : u # Loop => step'[u] = step[u] /\ update'[u] = update[u]
          /\ UNCHANGED <<config, configLock, section, built, snapshot, last>>
      BY <1>14 DEF AdminDenied, AdminGet, AdminPost
    <3>2. QED
      BY <1>1, <3>1
  <2>2. Answers'
    <3>1. CASE AdminDenied
      BY <3>1 DEF AdminDenied
    <3>2. CASE AdminGet
      BY <3>2 DEF AdminGet
    <3>3. CASE AdminPost
      BY <3>3 DEF AdminPost
    <3>4. QED
      BY <1>14, <3>1, <3>2, <3>3
  <2>3. QED
    BY <2>1, <2>2
<1>15. ASSUME CheckShape
       PROVE  Swaps' /\ Answers'
  <2>1. Swaps'
    BY <1>1, <1>15 DEF CheckShape
  <2>2. Answers'
    BY <1>1, <1>15 DEF CheckShape
  <2>3. QED
    BY <2>1, <2>2
<1>16. ASSUME AdminDone
       PROVE  Swaps' /\ Answers'
  <2>1. Swaps'
    BY <1>1, <1>16 DEF AdminDone, Return
  <2>2. Answers'
    BY <1>1, <1>16 DEF AdminDone, Return
  <2>3. QED
    BY <2>1, <2>2
<1>17. ASSUME UNCHANGED swapVars
       PROVE  Swaps' /\ Answers'
  BY <1>17 DEF swapVars
<1>18. Swaps' /\ Answers'
  BY <1>2, <1>3, <1>4, <1>5, <1>6, <1>7, <1>8, <1>9, <1>10, <1>11, <1>12, <1>13, <1>14,
     <1>15, <1>16, <1>17 DEF SwapNext, Admin
<1>19. QED
  BY <1>18, NextTyped

-----------------------------------------------------------------------------
(* The theorems. *)

LEMMA Invariant == SwapSpec => []UpdateInv
BY InitInv, NextInv, PTL DEF SwapSpec

(* Whatever update_config does and wherever it fails, the configuration    *)
(* that a thread finds when nobody holds _config_lock is the one that the  *)
(* last completed update left, for all four servers.                       *)
THEOREM NeverHalf == SwapSpec => []NoHalfUpdate
<1>1. UpdateInv => NoHalfUpdate
  BY ConfigAssumption
     DEF UpdateInv, Typed, LockIsHeld, Holds, PublishedUnlessSwapping, NoHalfUpdate,
         ConfigAssumption
<1>2. QED
  BY Invariant, <1>1, PTL

(* Every snapshot that a request handler or get_current_config completes   *)
(* is the published configuration, although it is collected section by     *)
(* section.                                                                *)
THEOREM SnapshotsArePublished == SwapSpec => SnapshotIsPublished
<1> DEFINE Published == \A t \in Callers : ReadDone(t) => snapshot[t] = last
<1>1. UpdateInv => Published
  BY ReadIsPublished
<1>2. QED
  BY Invariant, <1>1, PTL DEF SnapshotIsPublished

(* ChaosLLM and ChaosWeb, which read, merge and swap within one hold of    *)
(* the lock, never undo a concurrent update.                               *)
THEOREM NothingLost == SwapSpec => []NoLostUpdateUnderLock
<1>1. UpdateInv => NoLostUpdateUnderLock
  <2> SUFFICES ASSUME UpdateInv, mergesUnderLock, NEW t \in Callers, step[t] = "swapped"
               PROVE  config = [s \in Sections |-> Merge(last[s], update[t][s])]
    BY DEF NoLostUpdateUnderLock, NoLostUpdate
  <2> USE DEF UpdateInv, Typed, Configuration
  <2>1. ASSUME NEW s \in Sections
        PROVE  config[s] = Merge(last[s], update[t][s])
    <3>1. CASE Mentioned(t, s)
      BY <3>1 DEF SwappedSoFar, Replaced, MergedFromLast
    <3>2. CASE ~Mentioned(t, s)
      BY <3>2, MergeNothing DEF SwappedSoFar, Replaced, Mentioned
    <3>3. QED
      BY <3>1, <3>2
  <2>2. QED
    BY <2>1
<1>2. QED
  BY Invariant, <1>1, PTL

(* An error answer to POST /admin/config means that the document was not   *)
(* applied; a success shows this update or a later one.                    *)
THEOREM AnswersAreTrue == SwapSpec => []AnswerTellsOutcome
<1>1. UpdateInv => AnswerTellsOutcome
  BY DEF UpdateInv
<1>2. QED
  BY Invariant, <1>1, PTL
=============================================================================
