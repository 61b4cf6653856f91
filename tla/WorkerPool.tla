----------------------------- MODULE WorkerPool -----------------------------
(***************************************************************************)
(* chaosllm, chaosweb and chaosblob serve with several workers: the parent *)
(* writes the configuration to a temporary file, puts the path into its    *)
(* environment and runs uvicorn, whose supervisor starts workers and       *)
(* starts them again when they die; each loads the configuration itself    *)
(* and then serves, and is administrated, on its own.  What the supervisor *)
(* does is external.                                                       *)
(***************************************************************************)
EXTENDS Integers

CONSTANTS Workers

(* The configuration of this start, one that a worker has been given by an *)
(* administrator, and one in the legacy variable that the environment of   *)
(* the command may hold.                                                   *)
PoolConfigs == {"start", "updated", "legacy"}
Unset == "unset"

VARIABLES
  parent,    \* the next step of serve()
  file,      \* the temporary file: absent, empty or the configuration
  fileVar,   \* whether _ERRORWORKS_..._CONFIG_FILE is set in the parent
  configVar, \* _ERRORWORKS_..._CONFIG in the parent: "legacy" or Unset
  worker,    \* of each: its state, its environment, its configuration
  cleaned    \* history: whether an outsider has removed the file

poolVars == <<parent, file, fileVar, configVar, worker, cleaned>>

NoWorker == [state |-> "none", fileVar |-> FALSE, configVar |-> Unset, config |-> Unset]

PoolInit ==
  /\ parent = "create"
  /\ file = "absent"
  /\ fileVar = FALSE
  /\ configVar \in {"legacy", Unset}
  /\ worker = [w \in Workers |-> NoWorker]
  /\ cleaned = FALSE

-----------------------------------------------------------------------------
(* The parent. *)

(* mkstemp, close, chmod. *)
CreateFile ==
  /\ parent = "create"
  /\ file' = "empty"
  /\ parent' = "write"
  /\ UNCHANGED <<fileVar, configVar, worker, cleaned>>

(* write_text creates the file anew when it is gone. *)
WriteFile ==
  /\ parent = "write"
  /\ file' = "start"
  /\ parent' = "export"
  /\ UNCHANGED <<fileVar, configVar, worker, cleaned>>

ExportPath ==
  /\ parent = "export"
  /\ fileVar' = TRUE
  /\ parent' = "run"
  /\ UNCHANGED <<file, configVar, worker, cleaned>>

(* uvicorn.run returns, or raises, when its workers have been joined. *)
StopPool ==
  /\ parent = "run"
  /\ worker' = [w \in Workers |-> NoWorker]
  /\ parent' = "finally"
  /\ UNCHANGED <<file, fileVar, configVar, cleaned>>

CleanUp ==
  /\ parent = "finally"
  /\ fileVar' = FALSE
  /\ configVar' = Unset
  /\ file' = "absent"
  /\ parent' = "done"
  /\ UNCHANGED <<worker, cleaned>>

(* An exception before the try statement, or SIGKILL: the file stays, and  *)
(* workers go on without a supervisor.                                     *)
ParentDies ==
  /\ parent \in {"write", "export", "run"}
  /\ parent' = "dead"
  /\ UNCHANGED <<file, fileVar, configVar, worker, cleaned>>

-----------------------------------------------------------------------------
(* The workers. *)

Is(w, state) == worker[w].state = state

(* The supervisor starts a process that is missing, with the environment   *)
(* that the parent has then.                                               *)
Spawn(w) ==
  /\ parent = "run"
  /\ worker[w].state \in {"none", "failed"}
  /\ worker' = [worker EXCEPT ![w] =
       [NoWorker EXCEPT !.state = "loading", !.fileVar = fileVar, !.configVar = configVar]]
  /\ UNCHANGED <<parent, file, fileVar, configVar, cleaned>>

(* What load_handoff_config_json returns; Unset where it raises.           *)
Handoff(w) ==
  IF worker[w].fileVar /\ file # "absent" THEN file ELSE worker[w].configVar

(* Seeded fault: the parent's file is removed by the last worker that has  *)
(* read it.                                                                *)
LoadAndUnlink(w) ==
  /\ Is(w, "loading")
  /\ Handoff(w) \in PoolConfigs
  /\ worker' = [worker EXCEPT ![w].state = "serving", ![w].config = Handoff(w)]
  /\ file' = IF \A v \in Workers \ {w} : Is(v, "serving") THEN "absent" ELSE file
  /\ UNCHANGED <<parent, fileVar, configVar, cleaned>>

Load(w) ==
  /\ Is(w, "loading")
  /\ Handoff(w) \in PoolConfigs
  /\ worker' = [worker EXCEPT ![w].state = "serving", ![w].config = Handoff(w)]
  /\ UNCHANGED <<parent, file, fileVar, configVar, cleaned>>

(* ConfigHandoffError, or the validation of an empty file: the process     *)
(* ends.                                                                   *)
LoadFailed(w) ==
  /\ Is(w, "loading")
  /\ Handoff(w) \notin PoolConfigs
  /\ worker' = [worker EXCEPT ![w].state = "failed"]
  /\ UNCHANGED <<parent, file, fileVar, configVar, cleaned>>

(* POST /admin/config reaches one worker. *)
AdminUpdate(w) ==
  /\ Is(w, "serving")
  /\ worker' = [worker EXCEPT ![w].config = "updated"]
  /\ UNCHANGED <<parent, file, fileVar, configVar, cleaned>>

Crash(w) ==
  /\ worker[w].state \in {"loading", "serving"}
  /\ worker' = [worker EXCEPT ![w] = NoWorker]
  /\ UNCHANGED <<parent, file, fileVar, configVar, cleaned>>

(* Something clears /tmp under the server. *)
ClearTmp ==
  /\ file # "absent"
  /\ file' = "absent"
  /\ cleaned' = TRUE
  /\ UNCHANGED <<parent, fileVar, configVar, worker>>

PoolNext ==
  \/ CreateFile \/ WriteFile \/ ExportPath \/ StopPool \/ CleanUp \/ ParentDies \/ ClearTmp
  \/ \E w \in Workers : Spawn(w) \/ Load(w) \/ LoadFailed(w) \/ AdminUpdate(w) \/ Crash(w)

PoolSpec == PoolInit /\ [][PoolNext]_poolVars

-----------------------------------------------------------------------------
(* Properties. *)

PoolTypeOK ==
  /\ parent \in {"create", "write", "export", "run", "finally", "done", "dead"}
  /\ file \in {"absent", "empty", "start"}
  /\ fileVar \in BOOLEAN /\ cleaned \in BOOLEAN
  /\ configVar \in {"legacy", Unset}
  /\ worker \in [Workers -> [state : {"none", "loading", "serving", "failed"}, fileVar : BOOLEAN,
                             configVar : {"legacy", Unset}, config : PoolConfigs \cup {Unset}]]

(* Workers, also those started again after a crash, start with the         *)
(* configuration of their parent.  Only when an outsider has removed the   *)
(* file may one fail, or start from a legacy variable instead.             *)
WorkersStartAsTold ==
  \A w \in Workers :
    Is(w, "failed") \/ worker[w].config = "legacy" => cleaned
=============================================================================
