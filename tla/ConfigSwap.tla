----------------------------- MODULE ConfigSwap -----------------------------
(***************************************************************************)
(* Runtime configuration of a chaos server: update_config against request  *)
(* handlers (and get_current_config) that take a snapshot of the           *)
(* components under _config_lock.  A component is represented by the       *)
(* configuration it was built from; its sections are visited in the order  *)
(* of the code (error_injection, then response / content / storage /       *)
(* capture, then latency).                                                 *)
(*                                                                         *)
(* ChaosLLM and ChaosWeb read, merge and swap within one hold of the lock  *)
(* (mergesUnderLock); ChaosBlob and ChaosSMTP read and merge first and     *)
(* take the lock only for the swap.  Which server it is stays fixed.       *)
(*                                                                         *)
(* One thread is the event loop, which also answers /admin/config.  Its    *)
(* handler awaits nothing but the body of the request, so at most one      *)
(* request is past that point.                                             *)
(***************************************************************************)
EXTENDS Integers

CONSTANTS
  Callers, NoCaller,
  Loop,              \* the thread of the event loop
  NumSections,       \* how many reconfigurable sections the server has
  Fields, Values,    \* the leaves of a section and what they may be set to
  Updates,           \* the update documents that POST /admin/config receives
  InitialConfig,
  LockUses           \* the values of mergesUnderLock to consider

Sections == 1..NumSections

SectionConfig == [Fields -> Values]

(* A section of an update document sets some of the section's fields; the  *)
(* empty one stands for a section that the document does not mention.      *)
Patch == UNION {[F -> Values] : F \in SUBSET Fields}

NoUpdate == [s \in Sections |-> [f \in {} |-> 0]]

ASSUME ConfigAssumption ==
  /\ NoCaller \notin Callers
  /\ Loop \in Callers
  /\ NumSections \in Nat
  /\ Updates \subseteq [Sections -> Patch]
  /\ InitialConfig \in [Sections -> SectionConfig]
  /\ LockUses \subseteq BOOLEAN

VARIABLES
  mergesUnderLock,   \* how this server's update_config uses the lock
  config,            \* the live component of each section
  configLock,        \* _config_lock
  step,              \* where each thread is in its call
  update,            \* the document of each thread's update_config call
  section,           \* the section at which each thread's loop is
  built,             \* the new components an update has built
  snapshot,          \* the components a reader has collected
  last,              \* history: the configuration the last completed update left
  request,           \* the admin request that the loop is answering: none, get, post
  answer,            \* and its answer
  since              \* history: the configurations completed since the update of that
                     \* request was

adminVars == <<request, answer, since>>
swapVars == <<mergesUnderLock, config, configLock, step, update, section, built, snapshot,
              last, adminVars>>

(* deep_merge: the override wins, every field it does not mention stays.   *)
Merge(base, patch) ==
  [f \in Fields |-> IF f \in DOMAIN patch THEN patch[f] ELSE base[f]]

Mentioned(t, s) == DOMAIN update[t][s] # {}

Continue(t, label) == step' = [step EXCEPT ![t] = label]

Answered(outcome) ==
  /\ answer' = outcome
  /\ Continue(Loop, "answered")

Posting(t) == t = Loop /\ request = "post"

(* The call returns or raises; its local variables are gone. *)
Return(t) ==
  /\ Continue(t, "idle")
  /\ update' = [update EXCEPT ![t] = NoUpdate]
  /\ section' = [section EXCEPT ![t] = 1]
  /\ built' = [built EXCEPT ![t] = InitialConfig]
  /\ snapshot' = [snapshot EXCEPT ![t] = InitialConfig]

SwapInit ==
  /\ mergesUnderLock \in LockUses
  /\ config = InitialConfig
  /\ configLock = NoCaller
  /\ step = [t \in Callers |-> "idle"]
  /\ update = [t \in Callers |-> NoUpdate]
  /\ section = [t \in Callers |-> 1]
  /\ built = [t \in Callers |-> InitialConfig]
  /\ snapshot = [t \in Callers |-> InitialConfig]
  /\ last = InitialConfig
  /\ request = "none"
  /\ answer = "none"
  /\ since = {}

-----------------------------------------------------------------------------
(* update_config. *)

(* A thread of the program that runs the server, as a test fixture does.   *)
UpdateCall(t) ==
  /\ t # Loop
  /\ step[t] = "idle"
  /\ \E u \in Updates : update' = [update EXCEPT ![t] = u]
  /\ section' = [section EXCEPT ![t] = 1]
  /\ Continue(t, IF mergesUnderLock THEN "lock" ELSE "merge")
  /\ UNCHANGED <<config, configLock, built, snapshot, last, adminVars>>

UpdateLock(t) ==
  /\ step[t] = "lock"
  /\ configLock = NoCaller
  /\ configLock' = t
  /\ section' = [section EXCEPT ![t] = 1]
  /\ Continue(t, IF mergesUnderLock THEN "merge" ELSE "swap")
  /\ UNCHANGED <<config, update, built, snapshot, last, adminVars>>

(* Seeded fault: the update is merged with the configuration the server    *)
(* was started with.                                                       *)
MergeSectionFromStartup(t) ==
  /\ step[t] = "merge"
  /\ section[t] \in Sections
  /\ LET s == section[t]
     IN  built' = [built EXCEPT ![t][s] = Merge(InitialConfig[s], update[t][s])]
  /\ section' = [section EXCEPT ![t] = @ + 1]
  /\ UNCHANGED <<config, configLock, step, update, snapshot, last, adminVars>>

(* Seeded fault: every section goes live as soon as it is built. *)
MergeSectionInPlace(t) ==
  /\ step[t] = "merge"
  /\ section[t] \in Sections
  /\ LET s == section[t]
     IN  /\ built' = [built EXCEPT ![t][s] = Merge(config[s], update[t][s])]
         /\ config' = [config EXCEPT ![s] = Merge(config[s], update[t][s])]
  /\ section' = [section EXCEPT ![t] = @ + 1]
  /\ UNCHANGED <<configLock, step, update, snapshot, last, adminVars>>

(* One section: model_dump of the live component, deep_merge, construct. *)
MergeSection(t) ==
  /\ step[t] = "merge"
  /\ section[t] \in Sections
  /\ LET s == section[t]
     IN  built' = [built EXCEPT ![t][s] = Merge(config[s], update[t][s])]
  /\ section' = [section EXCEPT ![t] = @ + 1]
  /\ UNCHANGED <<config, configLock, step, update, snapshot, last, adminVars>>

(* Construction rejects the merged section: ValidationError, HTTP 422.  No *)
(* component has been replaced yet; a held lock is released on the way out. *)
Invalid(t) ==
  /\ step[t] = "merge"
  /\ section[t] \in Sections
  /\ Mentioned(t, section[t])
  /\ configLock' = IF mergesUnderLock THEN NoCaller ELSE configLock
  /\ IF Posting(t)
     THEN Answered("invalid") /\ UNCHANGED <<update, section, built, snapshot>>
     ELSE Return(t) /\ UNCHANGED answer
  /\ UNCHANGED <<config, last, request, since>>

MergeDone(t) ==
  /\ step[t] = "merge"
  /\ section[t] = NumSections + 1
  /\ section' = [section EXCEPT ![t] = 1]
  /\ Continue(t, IF mergesUnderLock THEN "swap" ELSE "lock")
  /\ UNCHANGED <<config, configLock, update, built, snapshot, last, adminVars>>

SwapSection(t) ==
  /\ step[t] = "swap"
  /\ section[t] \in Sections
  /\ LET s == section[t]
     IN  config' = IF Mentioned(t, s) THEN [config EXCEPT ![s] = built[t][s]] ELSE config
  /\ section' = [section EXCEPT ![t] = @ + 1]
  /\ UNCHANGED <<configLock, step, update, built, snapshot, last, adminVars>>

SwapDone(t) ==
  /\ step[t] = "swap"
  /\ section[t] = NumSections + 1
  /\ Continue(t, "swapped")
  /\ UNCHANGED <<config, configLock, update, section, built, snapshot, last, adminVars>>

(* Another thread's update has completed. *)
Later == IF since = {} THEN {} ELSE since \cup {config}

(* Seeded fault: the answer shows the configuration that the handler read  *)
(* to check the document.                                                  *)
ReleaseAndAnswer(t) ==
  /\ step[t] = "swapped"
  /\ configLock' = NoCaller
  /\ last' = config
  /\ IF Posting(t)
     THEN Answered("ok") /\ since' = {config} /\ UNCHANGED <<update, section, built, snapshot>>
     ELSE Return(t) /\ since' = Later /\ UNCHANGED answer
  /\ UNCHANGED <<config, request>>

Release(t) ==
  /\ step[t] = "swapped"
  /\ configLock' = NoCaller
  /\ last' = config
  /\ IF Posting(t)
     THEN Continue(t, "look") /\ since' = {config} /\ UNCHANGED <<update, section, built, snapshot>>
     ELSE Return(t) /\ since' = Later
  /\ UNCHANGED <<config, request, answer>>

-----------------------------------------------------------------------------
(* The snapshot at the start of a request handler; get_current_config. *)

(* Seeded fault: the snapshot is taken without _config_lock. *)
ReadUnlocked(t) ==
  /\ step[t] \in {"idle", "look"}
  /\ section' = [section EXCEPT ![t] = 1]
  /\ Continue(t, "read")
  /\ UNCHANGED <<config, configLock, update, built, snapshot, last, adminVars>>

ReadLock(t) ==
  /\ step[t] \in {"idle", "look"}
  /\ configLock = NoCaller
  /\ configLock' = t
  /\ section' = [section EXCEPT ![t] = 1]
  /\ Continue(t, "read")
  /\ UNCHANGED <<config, update, built, snapshot, last, adminVars>>

ReadSection(t) ==
  /\ step[t] = "read"
  /\ section[t] \in Sections
  /\ LET s == section[t]
     IN  snapshot' = [snapshot EXCEPT ![t][s] = config[s]]
  /\ section' = [section EXCEPT ![t] = @ + 1]
  /\ UNCHANGED <<config, configLock, step, update, built, last, adminVars>>

ReadDone(t) ==
  /\ step[t] = "read"
  /\ section[t] = NumSections + 1
  /\ configLock' = NoCaller
  /\ IF t = Loop /\ request # "none"
     THEN Answered("ok")
     ELSE Continue(t, "serve") /\ UNCHANGED answer
  /\ UNCHANGED <<config, update, section, built, snapshot, last, request, since>>

(* The handler sleeps and answers with its snapshot, whatever is live now. *)
Respond(t) ==
  /\ step[t] = "serve"
  /\ Return(t)
  /\ UNCHANGED <<config, configLock, last, adminVars>>

-----------------------------------------------------------------------------
(* /admin/config. *)

(* No token or a wrong one, before anything is read: 401, 403. *)
AdminDenied ==
  /\ step[Loop] = "idle"
  /\ request' = "post"
  /\ Answered("denied")
  /\ UNCHANGED <<config, configLock, update, section, built, snapshot, last, since>>

AdminGet ==
  /\ step[Loop] = "idle"
  /\ request' = "get"
  /\ Continue(Loop, "look")
  /\ UNCHANGED <<config, configLock, update, section, built, snapshot, last, answer, since>>

(* The body has been awaited.  It is too large (413), no JSON, or not an   *)
(* object (400), or it is a document.                                      *)
AdminPost ==
  /\ step[Loop] = "idle"
  /\ request' = "post"
  /\ \/ Answered("rejected") /\ UNCHANGED update
     \/ /\ \E u \in Updates : update' = [update EXCEPT ![Loop] = u]
        /\ Continue(Loop, "shape")
        /\ UNCHANGED answer
  /\ UNCHANGED <<config, configLock, section, built, snapshot, last, since>>

(* The sections the document may have are those of get_current_config,     *)
(* which takes the lock for a moment.  An unknown section, or one that is  *)
(* no object: 400.                                                         *)
CheckShape ==
  /\ step[Loop] = "shape"
  /\ configLock = NoCaller
  /\ snapshot' = [snapshot EXCEPT ![Loop] = config]
  /\ \/ Answered("rejected")
     \/ Continue(Loop, IF mergesUnderLock THEN "lock" ELSE "merge") /\ UNCHANGED answer
  /\ UNCHANGED <<config, configLock, update, section, built, last, request, since>>

AdminDone ==
  /\ step[Loop] = "answered"
  /\ request' = "none"
  /\ answer' = "none"
  /\ since' = {}
  /\ Return(Loop)
  /\ UNCHANGED <<config, configLock, last>>

Admin == AdminDenied \/ AdminGet \/ AdminPost \/ CheckShape \/ AdminDone

SwapNext ==
  /\ \/ Admin
     \/ \E t \in Callers :
          \/ UpdateCall(t) \/ UpdateLock(t) \/ MergeSection(t) \/ Invalid(t)
          \/ MergeDone(t) \/ SwapSection(t) \/ SwapDone(t) \/ Release(t)
          \/ ReadLock(t) \/ ReadSection(t) \/ ReadDone(t) \/ Respond(t)
  /\ UNCHANGED mergesUnderLock

SwapSpec == SwapInit /\ [][SwapNext]_swapVars

-----------------------------------------------------------------------------
(* Properties. *)

SwapLabels == {"idle", "lock", "merge", "swap", "swapped", "read", "serve",
               "shape", "look", "answered"}

SwapTypeOK ==
  /\ mergesUnderLock \in BOOLEAN
  /\ config \in [Sections -> SectionConfig]
  /\ configLock \in Callers \cup {NoCaller}
  /\ step \in [Callers -> SwapLabels]
  /\ update \in [Callers -> Updates \cup {NoUpdate}]
  /\ section \in [Callers -> 1..(NumSections + 1)]
  /\ built \in [Callers -> [Sections -> SectionConfig]]
  /\ snapshot \in [Callers -> [Sections -> SectionConfig]]
  /\ last \in [Sections -> SectionConfig]
  /\ request \in {"none", "get", "post"}
  /\ answer \in {"none", "ok", "denied", "rejected", "invalid"}
  /\ since \subseteq [Sections -> SectionConfig]

(* "There is no intermediate state where some components are updated and   *)
(* others are not", and "if validation fails, no changes are applied":     *)
(* what can be read without waiting for the lock is the outcome of a       *)
(* completed update, also after an update that failed half way.            *)
NoHalfUpdate == configLock = NoCaller => config = last

(* The snapshot a handler will serve from is the configuration that the    *)
(* last completed update left, as a whole, and not sections of two.        *)
SnapshotIsPublished ==
  [][\A t \in Callers : ReadDone(t) => snapshot[t] = last]_swapVars

(* An update keeps what it does not mention: when a thread has swapped,    *)
(* the configuration is the one its predecessor left with exactly the      *)
(* document's fields changed.  No acknowledged update is undone by one     *)
(* that ran at the same time.                                              *)
NoLostUpdate ==
  \A t \in Callers : step[t] = "swapped" =>
    config = [s \in Sections |-> Merge(last[s], update[t][s])]

(* The answer to POST /admin/config tells what became of the document.  An *)
(* error means that no part of it was applied, now or later; a success     *)
(* shows the configuration that this update left, or one that a later      *)
(* update made of it, and not an earlier one.                              *)
AnswerTellsOutcome ==
  step[Loop] = "answered" /\ request = "post" =>
      IF answer = "ok" THEN snapshot[Loop] \in since ELSE since = {}

(* ChaosLLM and ChaosWeb, which merge under the lock, lose no update.      *)
NoLostUpdateUnderLock == mergesUnderLock => NoLostUpdate
=============================================================================
