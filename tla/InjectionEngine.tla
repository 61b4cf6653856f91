-------------------------- MODULE InjectionEngine --------------------------
(***************************************************************************)
(* The injection engine of a server's error injector: the burst clock,     *)
(* which the first question starts, and the selection among weighted       *)
(* errors.  An injector is replaced as a whole by update_config, while     *)
(* handlers that have taken the old one still decide with it.              *)
(*                                                                         *)
(* Weights and random draws are whole units of which Full make 100%; a     *)
(* draw random() * n is one of 0 .. n - 1, as comparing it with a whole    *)
(* number tells no more.                                                   *)
(***************************************************************************)
EXTENDS Integers, Sequences, FiniteSets

CONSTANTS
  Full,                  \* 100 percent
  Interval, Duration,    \* of a burst, in ticks
  Injectors,             \* identities of injector objects
  Handlers, NoInjector,
  Profiles               \* error_injection configurations

(* normal: the weight of each error in the order of _build_specs; burst:   *)
(* the weights that replace some of them while a burst lasts.  ErrorSpec   *)
(* refuses a negative one.                                                 *)
Profile(mode, bursts, normal, burst) ==
  [mode |-> mode, bursts |-> bursts, normal |-> normal, burst |-> burst]

ASSUME EngineAssumption ==
  /\ Full \in Nat \ {0}
  /\ Interval \in Nat /\ Duration \in Nat
  /\ 0 < Duration /\ Duration < Interval
  /\ NoInjector \notin Injectors
  /\ \A p \in Profiles :
       /\ p.mode \in {"priority", "weighted"} /\ p.bursts \in BOOLEAN
       /\ p.normal \in Seq(Nat)
       /\ DOMAIN p.burst \subseteq DOMAIN p.normal
       /\ \A e \in DOMAIN p.burst : p.burst[e] \in Nat

VARIABLES
  now,       \* time.monotonic, which matters modulo Interval
  live,      \* the server's injector
  injector,  \* of each: its configuration and when its clock was started
  held,      \* the injector in each handler's snapshot
  spent      \* history: how long each injector is in its present phase

engineVars == <<now, live, injector, held, spent>>

NotStarted == -1

Fresh(profile) == [profile |-> profile, start |-> NotStarted]

-----------------------------------------------------------------------------
(* Selection. *)

(* threshold += spec.weight: what a draw must be below for the errors up to *)
(* each to be passed over no more.                                         *)
Thresholds(weights) ==
  LET threshold[i \in 0..Len(weights)] ==
        IF i = 0 THEN 0 ELSE threshold[i - 1] + weights[i]
  IN  threshold

Total(weights) == Thresholds(weights)[Len(weights)]

Least(S) == CHOOSE x \in S : \A y \in S : x <= y

ShouldTrigger(weight, roll) == weight > 0 /\ roll < weight

(* The index of the error, 0 for none.  rolls holds one draw per error.    *)
SelectPriority(weights, rolls) ==
  LET triggered == {i \in DOMAIN weights : ShouldTrigger(weights[i], rolls[i])}
  IN  IF triggered = {} THEN 0 ELSE Least(triggered)

Wheel(weights) == IF Total(weights) > Full THEN Total(weights) ELSE Full

(* Seeded fault: thresholds are compared with <=. *)
SelectWeightedClosed(weights, roll) ==
  IF roll >= Total(weights) THEN 0
  ELSE Least({i \in DOMAIN weights : weights[i] > 0 /\ roll <= Thresholds(weights)[i]})

SelectWeighted(weights, roll) ==
  IF roll >= Total(weights) THEN 0
  ELSE Least({i \in DOMAIN weights : weights[i] > 0 /\ roll < Thresholds(weights)[i]})

-----------------------------------------------------------------------------
(* The burst clock. *)

CheckBurst(profile, elapsed) == profile.bursts /\ elapsed % Interval < Duration

Started(i) == IF injector[i].start = NotStarted THEN now ELSE injector[i].start

(* Seeded fault: an observation starts the clock anew. *)
RestartClock(i) ==
  /\ injector' = [injector EXCEPT ![i].start = now]
  /\ UNCHANGED spent

(* _get_elapsed. *)
StartClock(i) ==
  /\ injector' = [injector EXCEPT ![i].start = Started(i)]
  /\ UNCHANGED spent

InBurst(i) == CheckBurst(injector[i].profile, now - Started(i))

Weights(profile, inBurst) ==
  [e \in DOMAIN profile.normal |->
     IF inBurst /\ e \in DOMAIN profile.burst THEN profile.burst[e] ELSE profile.normal[e]]

-----------------------------------------------------------------------------
(* Behaviour. *)

EngineInit ==
  /\ now = 0
  /\ live \in Injectors
  /\ \E p \in Profiles : injector = [i \in Injectors |-> Fresh(p)]
  /\ held = [h \in Handlers |-> NoInjector]
  /\ spent = [i \in Injectors |-> 0]

Tick ==
  /\ now' = (now + 1) % Interval
  /\ UNCHANGED <<live, injector, held>>
  /\ spent' = [i \in Injectors |->
       IF injector[i].start = NotStarted \/ (InBurst(i) # InBurst(i)') THEN 0
       ELSE (spent[i] + 1) % Interval]

(* GET /health asks is_in_burst, "for observability". *)
Health ==
  /\ StartClock(live)
  /\ UNCHANGED <<now, live, held>>

TakeSnapshot(h) ==
  /\ held[h] = NoInjector
  /\ held' = [held EXCEPT ![h] = live]
  /\ UNCHANGED <<now, live, injector, spent>>

(* decide: the burst is looked up, which may start the clock, and an error *)
(* is selected; nothing of the engine depends on which.                    *)
Decide(h) ==
  /\ held[h] # NoInjector
  /\ StartClock(held[h])
  /\ held' = [held EXCEPT ![h] = NoInjector]
  /\ UNCHANGED <<now, live>>

(* update_config builds a new injector, whose clock has not started. *)
ReplaceInjector ==
  /\ \E i \in Injectors \ ({live} \cup {held[h] : h \in Handlers}), p \in Profiles :
       /\ live' = i
       /\ injector' = [injector EXCEPT ![i] = Fresh(p)]
       /\ spent' = [spent EXCEPT ![i] = 0]
  /\ UNCHANGED <<now, held>>

ResetClock ==
  /\ injector' = [injector EXCEPT ![live].start = NotStarted]
  /\ spent' = [spent EXCEPT ![live] = 0]
  /\ UNCHANGED <<now, live, held>>

EngineNext ==
  \/ Tick \/ Health \/ ReplaceInjector \/ ResetClock
  \/ \E h \in Handlers : TakeSnapshot(h) \/ Decide(h)

EngineSpec == EngineInit /\ [][EngineNext]_engineVars

-----------------------------------------------------------------------------
(* Properties. *)

EngineTypeOK ==
  /\ now \in 0..(Interval - 1)
  /\ live \in Injectors
  /\ injector \in [Injectors -> [profile : Profiles, start : {NotStarted} \cup 0..(Interval - 1)]]
  /\ held \in [Handlers -> Injectors \cup {NoInjector}]
  /\ spent \in [Injectors -> 0..(Interval - 1)]

PhaseLength(i) == IF InBurst(i) THEN Duration ELSE Interval - Duration

(* "Every burst.interval_sec seconds, a burst starts; each burst lasts for *)
(* burst.duration_sec seconds": once an injector's clock runs, bursts and  *)
(* the times between them alternate with exactly these lengths, whoever    *)
(* looks at the clock, whatever replaces the live injector.                *)
BurstsOnSchedule ==
  [][\A i \in Injectors :
       (Tick /\ injector[i].start # NotStarted /\ injector[i].profile.bursts) =>
         (InBurst(i)' # InBurst(i) <=> spent[i] + 1 = PhaseLength(i))]_engineVars

Clip(weight) == IF weight > Full THEN Full ELSE weight

(* In weighted mode an error is chosen in proportion to its weight, out of *)
(* 100% or, when the weights exceed that, out of their sum.  In priority   *)
(* mode it is chosen with its own percentage of the cases in which none    *)
(* before it was.  The rest succeed.                                       *)
ErrorsHaveTheirShare ==
  \A inBurst \in BOOLEAN :
    LET p == injector[live].profile
        w == Weights(p, inBurst)
        rolls == [DOMAIN w -> 0..(Full - 1)]
        pick == IF p.mode = "weighted"
                THEN [r \in 0..(Wheel(w) - 1) |-> SelectWeighted(w, r)]
                ELSE [r \in rolls |-> SelectPriority(w, r)]
        Cases(e) == Cardinality({r \in DOMAIN pick : pick[r] = e})
        NoneBefore(e) == Cardinality({r \in DOMAIN pick : pick[r] \notin 1..(e - 1)})
    IN  IF p.mode = "weighted"
        THEN /\ \A e \in DOMAIN w : Cases(e) = w[e]
             /\ Cases(0) = Wheel(w) - Total(w)
        ELSE /\ \A e \in DOMAIN w : Cases(e) * Full = Clip(w[e]) * NoneBefore(e)
             /\ Cases(0) = NoneBefore(Len(w) + 1)
=============================================================================
