---------------------------- MODULE MCComponents ----------------------------
(***************************************************************************)
(* The parts around a request handler: the injection engine, the preset    *)
(* banks, the worker processes and the analysis of the metrics.  They      *)
(* share no state, so each is checked with the others at rest.             *)
(***************************************************************************)
EXTENDS InjectionEngine, PresetBank, WorkerPool, BurstAnalysis, TLC

VARIABLE part   \* the part that moves in this behaviour

(* Full is 3, so that a unit stands for a third of the requests.  Bursts   *)
(* bring an error from nothing to 100%, or switch one off where weights    *)
(* are of more than everything; one configuration has no bursts.           *)
MCProfiles ==
  {Profile(mode, TRUE, <<1, 0, 1>>, 2 :> 3) : mode \in {"priority", "weighted"}}
  \cup {Profile(mode, TRUE, <<2, 1, 4>>, 2 :> 0) : mode \in {"priority", "weighted"}}
  \cup {Profile("weighted", FALSE, <<2, 1, 4>>, 2 :> 0)}

MCSettings ==
  {[mode |-> m, selection |-> s, overrides |-> o] :
     m \in {"preset", "text"}, s \in {"sequential", "random"}, o \in {TRUE}}

(* Buckets of ten requests, below, at and above the thresholds of a burst. *)
MCSeries == {[total |-> 10, limited |-> n, success |-> 10 - n] : n \in {0, 1, 3, 4}}

EngineRests == injector = [i \in Injectors |-> Fresh(CHOOSE p \in Profiles : TRUE)]
BankRests == generator = [g \in Generators |-> NewGenerator(CHOOSE s \in Settings : TRUE)]

Init ==
  /\ part \in {"injector", "generator", "workers", "analyzer"}
  /\ EngineInit /\ live = CHOOSE i \in Injectors : TRUE
  /\ BankInit /\ current = CHOOSE g \in Generators : TRUE
  /\ PoolInit
  /\ SeriesInit
  /\ part # "injector" => EngineRests
  /\ part # "generator" => BankRests
  /\ part # "workers" => configVar = Unset

(* A pool that was stopped, or a series at its bound, moves no more. *)
Stopped ==
  \/ part = "workers" /\ parent \in {"done", "dead"}
  \/ part = "analyzer" /\ Len(buckets) = SeriesLength

Next ==
  /\ \/ Stopped /\ UNCHANGED <<engineVars, bankVars, poolVars, buckets>>
     \/ part = "injector" /\ EngineNext /\ UNCHANGED <<bankVars, poolVars, buckets>>
     \/ part = "generator" /\ BankNext /\ UNCHANGED <<engineVars, poolVars, buckets>>
     \/ part = "workers" /\ PoolNext /\ UNCHANGED <<engineVars, bankVars, buckets>>
     \/ part = "analyzer" /\ GrowSeries /\ UNCHANGED <<engineVars, bankVars, poolVars>>
  /\ UNCHANGED part

Spec == Init /\ [][Next]_<<part, engineVars, bankVars, poolVars, buckets>>

(* Callers, banks and workers are interchangeable, and every property says so. *)
Interchangeable == Permutations(Callers) \cup Permutations(Banks) \cup Permutations(Workers)
=============================================================================
