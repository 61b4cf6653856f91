---------------------------- MODULE BurstProofs -----------------------------
(***************************************************************************)
(* Theorems of both ends of a burst: of the InjectionEngine that makes it  *)
(* and selects its errors, and of the BurstAnalysis that finds it again,   *)
(* for any configurations and time series.                                 *)
(*                                                                         *)
(* Sums of weights and scans of buckets are recursive functions.  What     *)
(* they compute is proved by induction over sets of numbers, which rests   *)
(* on the numbers being well-founded.                                      *)
(***************************************************************************)
EXTENDS InjectionEngine, BurstAnalysis, FiniteSetTheorems, FunctionTheorems,
        WellFoundedInduction, TLAPS

-----------------------------------------------------------------------------
(* Induction and recursion over numbers. *)

(* A set of numbers has a least one. *)
LEMMA LeastElement ==
  ASSUME NEW S \in SUBSET Nat, S # {}
  PROVE  \E x \in S : \A y \in S : x <= y
<1>1. PICK x \in S : \A y \in S : ~(<<y, x>> \in OpToRel(<, Nat))
  BY NatLessThanWellFounded, WFMin
<1>2. \A y \in S : ~ (y < x)
  BY <1>1 DEF OpToRel
<1>3. QED
  BY <1>2

(* Induction over a set, from the least number that would not be in it. *)
LEMMA SetInduction ==
  ASSUME NEW S, 0 \in S, \A n \in Nat : n \in S => n + 1 \in S
  PROVE  Nat \subseteq S
<1> SUFFICES ASSUME Nat \ S # {} PROVE FALSE
  OBVIOUS
<1>1. PICK n \in Nat \ S : \A y \in Nat \ S : n <= y
  BY LeastElement
<1>2. n # 0 /\ n - 1 \in Nat
  BY <1>1
<1>3. n - 1 \in S
  BY <1>1, <1>2
<1>4. QED
  BY <1>1, <1>2, <1>3

(* f holds what a loop of N turns has computed after each: in turn n the   *)
(* value x becomes F[n][x].                                                *)
Loop(f, N, S, base, F) ==
  f \in [0..N -> S] /\ f[0] = base /\ \A n \in 1..N : f[n] = F[n][f[n - 1]]

(* A recursion over the turns of a loop defines a function. *)
LEMMA Recursion ==
  ASSUME NEW N \in Nat, NEW S, NEW base \in S, NEW F \in [1..N -> [S -> S]]
  PROVE  \E f : Loop(f, N, S, base, F)
<1> DEFINE D == {m \in Nat : m <= N => \E f : Loop(f, m, S, base, F)}
<1>1. 0 \in D
  <2>1. [n \in 0..0 |-> base] \in [0..0 -> S] /\ [n \in 0..0 |-> base][0] = base /\ 1..0 = {}
    OBVIOUS
  <2>2. Loop([n \in 0..0 |-> base], 0, S, base, F)
    BY <2>1 DEF Loop
  <2>3. QED
    BY <2>2
<1>2. ASSUME NEW m \in Nat, m \in D
      PROVE  m + 1 \in D
  <2> SUFFICES ASSUME m + 1 <= N
               PROVE  \E f : Loop(f, m + 1, S, base, F)
    OBVIOUS
  <2>1. PICK f : Loop(f, m, S, base, F)
    BY <1>2
  <2> DEFINE g == [n \in 0..(m + 1) |-> IF n = m + 1 THEN F[m + 1][f[m]] ELSE f[n]]
  <2>2. m + 1 \in 1..N /\ f[m] \in S
    BY <2>1 DEF Loop
  <2>3. F[m + 1][f[m]] \in S
    BY <2>2
  <2>4. g \in [0..(m + 1) -> S] /\ g[0] = base
    BY <2>1, <2>3 DEF Loop
  <2>5. ASSUME NEW n \in 1..(m + 1)
        PROVE  g[n] = F[n][g[n - 1]]
    <3>1. CASE n = m + 1
      <4>1. g[n] = F[m + 1][f[m]] /\ g[n - 1] = f[m]
        BY <3>1
      <4>2. QED
        BY <3>1, <4>1
    <3>2. CASE n # m + 1
      <4>1. n \in 1..m /\ g[n] = f[n] /\ g[n - 1] = f[n - 1]
        BY <3>2
      <4>2. QED
        BY <2>1, <4>1 DEF Loop
    <3>3. QED
      BY <3>1, <3>2
  <2>6. Loop(g, m + 1, S, base, F)
    BY <2>4, <2>5 DEF Loop
  <2>7. QED
    BY <2>6
<1>3. Nat \subseteq D
  <2> HIDE DEF D
  <2>1. QED
    BY <1>1, <1>2, SetInduction
<1>4. QED
  BY <1>3

-----------------------------------------------------------------------------
(* The burst clock. *)

(* How far an injector's clock is into the interval.  A clock that has not *)
(* started would start now.                                                *)
Position(i) == (now - Started(i)) % Interval

Bursting(i) == injector[i].start # NotStarted /\ injector[i].profile.bursts

(* The history variable is the position, counted from the last change.     *)
SpentIsPosition ==
  \A i \in Injectors :
    /\ injector[i].start = NotStarted => spent[i] = 0
    /\ Bursting(i) =>
         spent[i] = IF Position(i) < Duration THEN Position(i) ELSE Position(i) - Duration

EngineInv == EngineTypeOK /\ SpentIsPosition

InjectorType == [profile : Profiles, start : {NotStarted} \cup 0..(Interval - 1)]

(* Positions in the interval, and just outside it. *)
LEMMA ModuloInterval ==
  ASSUME NEW x \in Int
  PROVE  /\ x \in 0..(Interval - 1) => x % Interval = x
         /\ -Interval <= x /\ x < 0 => x % Interval = x + Interval
         /\ x = Interval => x % Interval = 0
<1>1. Interval \in Nat \ {0}
  BY EngineAssumption DEF EngineAssumption
<1>2. QED
  BY <1>1

(* The next tick moves a position on by one, from the end of the interval  *)
(* to its beginning.                                                       *)
LEMMA PositionMoves ==
  ASSUME NEW a \in 0..(Interval - 1), NEW s \in 0..(Interval - 1)
  PROVE  /\ (a + 1) % Interval \in 0..(Interval - 1)
         /\ (a - s) % Interval \in 0..(Interval - 1)
         /\ (((a + 1) % Interval) - s) % Interval =
              IF ((a - s) % Interval) + 1 = Interval THEN 0 ELSE ((a - s) % Interval) + 1
<1>1. Interval \in Nat \ {0} /\ a \in Int /\ s \in Int
  BY EngineAssumption DEF EngineAssumption
<1>2. (a + 1) % Interval = IF a + 1 = Interval THEN 0 ELSE a + 1
  BY <1>1, ModuloInterval
<1>3. (a - s) % Interval = IF s <= a THEN a - s ELSE a - s + Interval
  BY <1>1, ModuloInterval
<1>4. CASE a + 1 = Interval
  <2>1. (0 - s) % Interval = IF s = 0 THEN 0 ELSE Interval - s
    BY <1>1, ModuloInterval
  <2>2. QED
    BY <1>1, <1>2, <1>3, <1>4, <2>1
<1>5. CASE a + 1 # Interval
  <2>1. (a + 1 - s) % Interval = IF s <= a + 1 THEN a + 1 - s ELSE a + 1 - s + Interval
    BY <1>1, <1>5, ModuloInterval
  <2>2. QED
    BY <1>1, <1>2, <1>3, <1>5, <2>1
<1>6. QED
  BY <1>4, <1>5

(* Before any clock has started no time was spent. *)
LEMMA EngineStarts == EngineInit => EngineInv
<1> SUFFICES ASSUME EngineInit
             PROVE  EngineInv
  OBVIOUS
<1>1. Interval \in Nat \ {0}
  BY EngineAssumption DEF EngineAssumption
<1>2. PICK p \in Profiles : injector = [i \in Injectors |-> Fresh(p)]
  BY DEF EngineInit
<1>3. injector \in [Injectors -> InjectorType]
  BY <1>2 DEF Fresh, InjectorType
<1>4. EngineTypeOK
  BY <1>1, <1>3 DEF EngineInit, EngineTypeOK, InjectorType
<1>5. SpentIsPosition
  BY <1>2 DEF EngineInit, SpentIsPosition, Bursting, Fresh
<1>6. QED
  BY <1>4, <1>5 DEF EngineInv

(* What a tick does to an injector whose bursts come. *)
LEMMA TickMoves ==
  ASSUME EngineInv, Tick, NEW i \in Injectors, injector[i].start # NotStarted
  PROVE  /\ Position(i) \in 0..(Interval - 1)
         /\ Position(i)' = IF Position(i) + 1 = Interval THEN 0 ELSE Position(i) + 1
         /\ injector[i].profile.bursts =>
              /\ InBurst(i) <=> Position(i) < Duration
              /\ InBurst(i)' <=> Position(i)' < Duration
              /\ (InBurst(i)' # InBurst(i)) <=>
                   ~(Position(i) < Duration <=> Position(i)' < Duration)
<1>1. now \in 0..(Interval - 1) /\ injector[i].start \in 0..(Interval - 1)
  BY DEF EngineInv, EngineTypeOK
<1>2. /\ Started(i) = injector[i].start /\ Started(i)' = injector[i].start
      /\ now' = (now + 1) % Interval /\ injector' = injector
  BY DEF Tick, Started
<1>3. /\ Position(i) \in 0..(Interval - 1)
      /\ Position(i)' = IF Position(i) + 1 = Interval THEN 0 ELSE Position(i) + 1
  <2>1. /\ Position(i) = (now - injector[i].start) % Interval
        /\ Position(i)' = (((now + 1) % Interval) - injector[i].start) % Interval
    BY <1>2 DEF Position
  <2>2. QED
    BY <1>1, <2>1, PositionMoves
<1>4. /\ InBurst(i) <=> injector[i].profile.bursts /\ Position(i) < Duration
      /\ InBurst(i)' <=> injector[i].profile.bursts /\ Position(i)' < Duration
  BY <1>2 DEF InBurst, CheckBurst, Position
<1>5. InBurst(i) \in BOOLEAN /\ InBurst(i)' \in BOOLEAN
  BY DEF InBurst, CheckBurst
<1>6. (InBurst(i)' # InBurst(i)) <=> ~(InBurst(i)' <=> InBurst(i))
  BY <1>5
<1>7. QED
  BY <1>3, <1>4, <1>6

(* A tick counts the time of a phase, from nothing where it changes it. *)
LEMMA SpentCounts ==
  ASSUME EngineInv, Tick
  PROVE  spent' \in [Injectors -> 0..(Interval - 1)] /\ SpentIsPosition'
<1>1. Interval \in Nat \ {0} /\ Duration \in Nat /\ 0 < Duration /\ Duration < Interval
  BY EngineAssumption DEF EngineAssumption
<1>2. injector' = injector /\ spent \in [Injectors -> 0..(Interval - 1)]
  BY DEF Tick, EngineInv, EngineTypeOK
<1>3. ASSUME NEW i \in Injectors
      PROVE  spent'[i] = IF injector[i].start = NotStarted \/ (InBurst(i)' # InBurst(i)) THEN 0
                         ELSE (spent[i] + 1) % Interval
  BY DEF Tick
<1>4. ASSUME NEW i \in Injectors
      PROVE  spent'[i] \in 0..(Interval - 1)
  <2>1. spent[i] \in 0..(Interval - 1)
    BY <1>2
  <2>2. 0 \in 0..(Interval - 1) /\ (spent[i] + 1) % Interval \in 0..(Interval - 1)
    BY <1>1, <2>1, PositionMoves
  <2>3. QED
    BY <1>3, <2>2
<1>5. spent' \in [Injectors -> 0..(Interval - 1)]
  BY <1>4 DEF Tick
<1>6. ASSUME NEW i \in Injectors, Bursting(i)
      PROVE  spent'[i] = IF Position(i)' < Duration THEN Position(i)' ELSE Position(i)' - Duration
  <2> DEFINE p == Position(i)
  <2>1. /\ p \in 0..(Interval - 1)
        /\ p' = IF p + 1 = Interval THEN 0 ELSE p + 1
        /\ (InBurst(i)' # InBurst(i)) <=> ~(p < Duration <=> p' < Duration)
    BY <1>6, TickMoves DEF Bursting
  <2>2. spent[i] = IF p < Duration THEN p ELSE p - Duration
    BY <1>6 DEF EngineInv, SpentIsPosition
  <2>3. spent'[i] = IF ~(p < Duration <=> p' < Duration) THEN 0 ELSE (spent[i] + 1) % Interval
    BY <1>3, <1>6, <2>1 DEF Bursting
  <2> HIDE DEF p
  <2>4. spent[i] + 1 # Interval => (spent[i] + 1) % Interval = spent[i] + 1
    BY <1>1, <2>1, <2>2, ModuloInterval
  <2>5. QED
    BY <1>1, <2>1, <2>2, <2>3, <2>4 DEF p
<1>7. QED
  BY <1>2, <1>3, <1>5, <1>6 DEF SpentIsPosition, Bursting

(* Whoever starts, resets or replaces a clock, each is where its history  *)
(* says.                                                                   *)
LEMMA EngineSteps == EngineInv /\ [EngineNext]_engineVars => EngineInv'
<1> SUFFICES ASSUME EngineInv, [EngineNext]_engineVars
             PROVE  EngineInv'
  OBVIOUS
<1>1. /\ Interval \in Nat \ {0} /\ Duration \in Nat /\ 0 < Duration /\ Duration < Interval
      /\ NotStarted \notin 0..(Interval - 1)
  BY EngineAssumption DEF EngineAssumption, NotStarted
<1>2. /\ now \in 0..(Interval - 1) /\ live \in Injectors /\ injector \in [Injectors -> InjectorType]
      /\ held \in [Handlers -> Injectors \cup {NoInjector}]
      /\ spent \in [Injectors -> 0..(Interval - 1)]
  BY DEF EngineInv, EngineTypeOK, InjectorType
<1>3. CASE Tick
  <2>1. now' \in 0..(Interval - 1)
    BY <1>1, <1>2, <1>3, PositionMoves DEF Tick
  <2>2. QED
    BY <1>2, <1>3, <2>1, SpentCounts DEF Tick, EngineInv, EngineTypeOK, InjectorType
<1>4. ASSUME NEW i \in Injectors, StartClock(i), now' = now
      PROVE  /\ injector' \in [Injectors -> InjectorType] /\ spent' = spent
             /\ SpentIsPosition'
  <2>1. injector' = [injector EXCEPT ![i].start = Started(i)] /\ spent' = spent
    BY <1>4 DEF StartClock
  <2>2. Started(i) \in 0..(Interval - 1)
    BY <1>2 DEF Started, InjectorType
  <2>3. injector' \in [Injectors -> InjectorType]
    BY <1>2, <2>1, <2>2 DEF InjectorType
  <2>4. \A j \in Injectors : /\ injector'[j].profile = injector[j].profile
                             /\ injector'[j].start = IF j = i THEN Started(i) ELSE injector[j].start
    BY <1>2, <2>1 DEF InjectorType
  <2>5. \A j \in Injectors : j = i \/ injector[j].start # NotStarted => Position(j)' = Position(j)
    BY <1>1, <1>4, <2>2, <2>4 DEF Position, Started
  <2>6. injector[i].start = NotStarted => Position(i) = 0
    BY <1>1, <1>2, ModuloInterval DEF Position, Started
  <2>7. SpentIsPosition'
    <3> SUFFICES ASSUME NEW j \in Injectors
                 PROVE  /\ injector'[j].start = NotStarted => spent'[j] = 0
                        /\ Bursting(j)' => spent'[j] = IF Position(j)' < Duration
                                                     THEN Position(j)' ELSE Position(j)' - Duration
      BY DEF SpentIsPosition
    <3>1. CASE j = i /\ injector[i].start = NotStarted
      BY <1>1, <2>1, <2>2, <2>4, <2>5, <2>6, <3>1 DEF EngineInv, SpentIsPosition
    <3>2. CASE injector[j].start # NotStarted
      BY <1>1, <2>1, <2>4, <2>5, <3>2 DEF EngineInv, SpentIsPosition, Bursting, Started
    <3>3. CASE j # i /\ injector[j].start = NotStarted
      BY <2>1, <2>4, <3>3 DEF EngineInv, SpentIsPosition, Bursting
    <3>4. QED
      BY <3>1, <3>2, <3>3
  <2>8. QED
    BY <2>1, <2>3, <2>7
<1>5. CASE Health
  BY <1>2, <1>4, <1>5 DEF Health, EngineInv, EngineTypeOK, InjectorType
<1>6. ASSUME NEW h \in Handlers, Decide(h)
      PROVE  EngineInv'
  <2>1. held[h] \in Injectors /\ now' = now
    BY <1>2, <1>6 DEF Decide
  <2>2. QED
    BY <1>2, <1>4, <1>6, <2>1 DEF Decide, EngineInv, EngineTypeOK, InjectorType
<1>7. ASSUME NEW h \in Handlers, TakeSnapshot(h)
      PROVE  EngineInv'
  <2>1. UNCHANGED <<now, live, injector, spent>> /\ held' = [held EXCEPT ![h] = live]
    BY <1>7 DEF TakeSnapshot
  <2>2. QED
    BY <1>2, <2>1
     DEF EngineInv, EngineTypeOK, InjectorType, SpentIsPosition, Bursting, Position, Started
<1>8. ASSUME NEW i \in Injectors, NEW new \in InjectorType, new.start = NotStarted,
             now' = now, injector' = [injector EXCEPT ![i] = new], spent' = [spent EXCEPT ![i] = 0]
      PROVE  /\ injector' \in [Injectors -> InjectorType]
             /\ spent' \in [Injectors -> 0..(Interval - 1)]
             /\ SpentIsPosition'
  <2>1. /\ injector' \in [Injectors -> InjectorType]
        /\ spent' \in [Injectors -> 0..(Interval - 1)]
    BY <1>1, <1>2, <1>8
  <2>2. /\ injector'[i].start = NotStarted /\ spent'[i] = 0
        /\ \A j \in Injectors : j # i => injector'[j] = injector[j] /\ spent'[j] = spent[j]
    BY <1>2, <1>8
  <2>3. \A j \in Injectors : j # i => Position(j)' = Position(j) /\ (Bursting(j)' <=> Bursting(j))
    BY <1>8, <2>2 DEF Position, Started, Bursting
  <2>4. SpentIsPosition'
    BY <2>2, <2>3 DEF EngineInv, SpentIsPosition, Bursting
  <2>5. QED
    BY <2>1, <2>4
<1>9. CASE ReplaceInjector
  <2>1. PICK i \in Injectors, p \in Profiles :
          /\ live' = i /\ injector' = [injector EXCEPT ![i] = Fresh(p)]
          /\ spent' = [spent EXCEPT ![i] = 0]
    BY <1>9 DEF ReplaceInjector
  <2>2. Fresh(p) \in InjectorType /\ Fresh(p).start = NotStarted
    BY DEF Fresh, InjectorType
  <2>3. /\ injector' \in [Injectors -> InjectorType]
        /\ spent' \in [Injectors -> 0..(Interval - 1)]
        /\ SpentIsPosition'
    BY <1>8, <1>9, <2>1, <2>2 DEF ReplaceInjector
  <2>4. QED
    BY <1>2, <1>9, <2>1, <2>3 DEF ReplaceInjector, EngineInv, EngineTypeOK, InjectorType
<1>10. CASE ResetClock
  <2>1. PICK new \in InjectorType :
          /\ new.start = NotStarted
          /\ injector' = [injector EXCEPT ![live] = new] /\ spent' = [spent EXCEPT ![live] = 0]
    <3>1. [injector[live] EXCEPT !.start = NotStarted] \in InjectorType
      BY <1>2 DEF InjectorType
    <3>2. [injector[live] EXCEPT !.start = NotStarted].start = NotStarted
      BY <1>2 DEF InjectorType
    <3>3. QED
      BY <1>2, <1>10, <3>1, <3>2 DEF ResetClock
  <2>2. QED
    BY <1>2, <1>8, <1>10, <2>1 DEF ResetClock, EngineInv, EngineTypeOK, InjectorType
<1>11. CASE UNCHANGED engineVars
  BY <1>2, <1>11
  DEF engineVars, EngineInv, EngineTypeOK, SpentIsPosition, Bursting, Position, Started
<1>12. QED
  BY <1>3, <1>5, <1>6, <1>7, <1>9, <1>10, <1>11 DEF EngineNext

(* The variables of the engine keep their types. *)
THEOREM EngineTypeCorrect == EngineSpec => []EngineTypeOK
<1>1. EngineInv => EngineTypeOK
  BY DEF EngineInv
<1>2. QED
  BY EngineStarts, EngineSteps, <1>1, PTL DEF EngineSpec

(* Whoever looks at the clock of an injector and whatever replaces the     *)
(* live one, bursts and the times between them alternate with the lengths  *)
(* they are configured with.                                               *)
THEOREM BurstsKeepSchedule == EngineSpec => BurstsOnSchedule
<1>1. ASSUME EngineInv, Tick, NEW i \in Injectors, Bursting(i)
      PROVE  InBurst(i)' # InBurst(i) <=> spent[i] + 1 = PhaseLength(i)
  <2> DEFINE p == Position(i)
  <2>1. Interval \in Nat \ {0} /\ Duration \in Nat /\ 0 < Duration /\ Duration < Interval
    BY EngineAssumption DEF EngineAssumption
  <2>2. /\ p \in 0..(Interval - 1)
        /\ p' = IF p + 1 = Interval THEN 0 ELSE p + 1
        /\ InBurst(i) <=> p < Duration
        /\ (InBurst(i)' # InBurst(i)) <=> ~(p < Duration <=> p' < Duration)
    BY <1>1, TickMoves DEF Bursting
  <2>3. spent[i] = IF p < Duration THEN p ELSE p - Duration
    BY <1>1 DEF EngineInv, SpentIsPosition
  <2>4. PhaseLength(i) = IF p < Duration THEN Duration ELSE Interval - Duration
    BY <2>2 DEF PhaseLength
  <2> HIDE DEF p
  <2>5. ~(p < Duration <=> p' < Duration) <=> spent[i] + 1 = PhaseLength(i)
    BY <2>1, <2>2, <2>3, <2>4
  <2>6. QED
    BY <2>2, <2>5
<1>2. EngineInv /\ [EngineNext]_engineVars =>
        [\A i \in Injectors :
           (Tick /\ injector[i].start # NotStarted /\ injector[i].profile.bursts) =>
             (InBurst(i)' # InBurst(i) <=> spent[i] + 1 = PhaseLength(i))]_engineVars
  BY <1>1 DEF Bursting
<1>3. QED
  BY <1>2, EngineStarts, EngineSteps, PTL DEF EngineSpec, BurstsOnSchedule

-----------------------------------------------------------------------------
(* Selection. *)

(* What Least chooses. *)
LEMMA LeastOf ==
  ASSUME NEW S \in SUBSET Nat, S # {}
  PROVE  Least(S) \in S /\ \A x \in S : Least(S) <= x
BY LeastElement DEF Least

(* The thresholds are the sums of the weights. *)
LEMMA ThresholdSteps ==
  ASSUME NEW n \in Nat, NEW w \in [1..n -> Nat]
  PROVE  /\ Thresholds(w) \in [0..n -> Nat]
         /\ Thresholds(w)[0] = 0
         /\ \A i \in 1..n : Thresholds(w)[i] = Thresholds(w)[i - 1] + w[i]
         /\ Total(w) = Thresholds(w)[n]
<1> DEFINE F == [i \in 1..n |-> [x \in Nat |-> x + w[i]]]
           t == Thresholds(w)
<1>1. Len(w) = n
  OBVIOUS
<1>2. F \in [1..n -> [Nat -> Nat]]
  OBVIOUS
<1>3. PICK f : Loop(f, n, Nat, 0, F)
  <2> HIDE DEF F
  <2>1. QED
    BY <1>2, Recursion
<1>4. ASSUME NEW i \in 1..n
      PROVE  f[i] = f[i - 1] + w[i]
  <2>1. f[i] = F[i][f[i - 1]] /\ f[i - 1] \in Nat
    <3> HIDE DEF F
    <3>1. QED
      BY <1>3 DEF Loop
  <2>2. QED
    BY <2>1
<1>5. f = [i \in 0..n |-> IF i = 0 THEN 0 ELSE f[i - 1] + w[i]]
  BY <1>3, <1>4 DEF Loop
<1>6. t = [i \in 0..n |-> IF i = 0 THEN 0 ELSE t[i - 1] + w[i]]
  BY <1>1, <1>5 DEF Thresholds
<1> HIDE DEF t
<1>7. \A i \in 0..n : t[i] = IF i = 0 THEN 0 ELSE t[i - 1] + w[i]
  BY <1>6
<1>8. \A i \in 0..n : t[i] \in Nat
  <2> DEFINE D == {i \in Nat : i <= n => t[i] \in Nat}
  <2>1. 0 \in D
    BY <1>7
  <2>2. ASSUME NEW i \in Nat, i \in D
        PROVE  i + 1 \in D
    <3>1. i + 1 <= n => t[i + 1] = t[i] + w[i + 1] /\ w[i + 1] \in Nat
      BY <1>7
    <3>2. QED
      BY <2>2, <3>1
  <2>3. Nat \subseteq D
    <3> HIDE DEF D
    <3>1. QED
      BY <2>1, <2>2, SetInduction
  <2>4. QED
    BY <2>3
<1>9. QED
  BY <1>1, <1>6, <1>7, <1>8 DEF t, Total

(* No threshold is below one before it. *)
LEMMA ThresholdsGrow ==
  ASSUME NEW n \in Nat, NEW w \in [1..n -> Nat], NEW i \in 0..n, NEW j \in 0..n, i <= j
  PROVE  Thresholds(w)[i] <= Thresholds(w)[j]
<1> DEFINE t == Thresholds(w)
           D == {k \in Nat : i + k <= n => t[i] <= t[i + k]}
<1>1. /\ \A k \in 0..n : t[k] \in Nat
      /\ \A k \in 1..n : t[k] = t[k - 1] + w[k] /\ w[k] \in Nat
  BY ThresholdSteps
<1> HIDE DEF t
<1>2. 0 \in D
  BY <1>1
<1>3. ASSUME NEW k \in Nat, k \in D
      PROVE  k + 1 \in D
  <2> SUFFICES ASSUME i + (k + 1) <= n
               PROVE  t[i] <= t[i + (k + 1)]
    OBVIOUS
  <2>1. t[i] <= t[i + k] /\ t[i + (k + 1)] = t[i + k] + w[i + (k + 1)]
    <3>1. i + (k + 1) \in 1..n /\ (i + (k + 1)) - 1 = i + k
      OBVIOUS
    <3>2. QED
      BY <1>1, <1>3, <3>1
  <2>2. t[i] \in Nat /\ t[i + k] \in Nat /\ w[i + (k + 1)] \in Nat
    BY <1>1
  <2>3. QED
    BY <2>1, <2>2
<1>4. Nat \subseteq D
  <2> HIDE DEF D
  <2>1. QED
    BY <1>2, <1>3, SetInduction
<1>5. j - i \in Nat /\ i + (j - i) = j
  OBVIOUS
<1>6. j - i \in D
  BY <1>4, <1>5
<1>7. QED
  BY <1>5, <1>6 DEF t

(* The draws that choose error e are those from the threshold before it to *)
(* its own.                                                                *)
LEMMA WeightedChoice ==
  ASSUME NEW n \in Nat, NEW w \in [1..n -> Nat], NEW roll \in Nat
  PROVE  /\ SelectWeighted(w, roll) = 0 <=> roll >= Total(w)
         /\ \A e \in 1..n : SelectWeighted(w, roll) = e <=>
              Thresholds(w)[e - 1] <= roll /\ roll < Thresholds(w)[e]
<1> DEFINE t == Thresholds(w)
           S == {i \in DOMAIN w : w[i] > 0 /\ roll < t[i]}
<1>1. /\ t \in [0..n -> Nat] /\ t[0] = 0 /\ Total(w) = t[n]
      /\ \A i \in 1..n : t[i] = t[i - 1] + w[i]
  BY ThresholdSteps
<1>2. \A i, j \in 0..n : i <= j => t[i] <= t[j]
  BY ThresholdsGrow
<1>3. SelectWeighted(w, roll) = IF roll >= Total(w) THEN 0 ELSE Least(S)
  BY DEF SelectWeighted
<1> HIDE DEF t
<1>4. ASSUME NEW e \in 1..n, t[e - 1] <= roll, roll < t[e]
      PROVE  ~(roll >= Total(w)) /\ e = Least(S)
  <2>1. t[e] <= t[n] /\ t[e] \in Nat /\ t[n] \in Nat /\ t[e - 1] \in Nat /\ w[e] \in Nat
    BY <1>1, <1>2
  <2>2. e \in S
    BY <1>1, <1>4, <2>1
  <2>3. ASSUME NEW j \in S
        PROVE  e <= j
    <3> SUFFICES ASSUME j < e
                 PROVE  FALSE
      OBVIOUS
    <3>1. j \in 0..n /\ e - 1 \in 0..n /\ j <= e - 1
      OBVIOUS
    <3>2. t[j] <= t[e - 1] /\ roll < t[j] /\ t[j] \in Nat
      BY <1>1, <1>2, <3>1
    <3>3. QED
      BY <1>4, <2>1, <3>2
  <2>4. S \in SUBSET Nat /\ S # {}
    BY <2>2
  <2> HIDE DEF S
  <2>5. Least(S) \in S /\ Least(S) <= e
    BY <2>2, <2>4, LeastOf
  <2>6. Least(S) \in Nat
    <3>1. \A x \in S : x \in Nat
      BY <2>4
    <3>2. QED
      BY <2>5, <3>1
  <2>7. e = Least(S)
    BY <2>3, <2>5, <2>6
  <2>8. QED
    BY <1>1, <1>4, <2>1, <2>7
<1>5. ASSUME roll < Total(w)
      PROVE  \E e \in 1..n : t[e - 1] <= roll /\ roll < t[e]
  <2> DEFINE P == {i \in 0..n : roll < t[i]}
  <2>1. n \in P /\ P \in SUBSET Nat
    BY <1>1, <1>5
  <2>2. PICK e \in P : \A i \in P : e <= i
    <3> HIDE DEF P
    <3>1. QED
      BY <2>1, LeastElement
  <2>3. e # 0
    BY <1>1, <2>2
  <2>4. e \in 1..n /\ e - 1 \in 0..n /\ e - 1 \notin P
    BY <2>2, <2>3
  <2>5. t[e - 1] \in Nat /\ roll < t[e] /\ ~(roll < t[e - 1])
    BY <1>1, <2>2, <2>4
  <2>6. t[e - 1] <= roll
    BY <2>5
  <2>7. QED
    BY <2>4, <2>5, <2>6
<1>6. Total(w) \in Nat
  BY <1>1
<1>7. CASE roll >= Total(w)
  <2>1. SelectWeighted(w, roll) = 0
    BY <1>3, <1>7
  <2>2. \A e \in 1..n : ~(t[e - 1] <= roll /\ roll < t[e])
    BY <1>4, <1>7
  <2>3. QED
    BY <1>7, <2>1, <2>2 DEF t
<1>8. CASE ~(roll >= Total(w))
  <2>1. PICK e \in 1..n : t[e - 1] <= roll /\ roll < t[e]
    BY <1>5, <1>6, <1>8
  <2>2. SelectWeighted(w, roll) = e
    BY <1>3, <1>4, <1>8, <2>1
  <2>3. \A j \in 1..n : t[j - 1] <= roll /\ roll < t[j] => j = e
    BY <1>3, <1>4, <2>2
  <2>4. QED
    BY <1>8, <2>1, <2>2, <2>3 DEF t
<1>9. QED
  BY <1>7, <1>8

(* A function is known by its graph. *)
LEMMA FiniteFunctions ==
  ASSUME NEW S, IsFiniteSet(S), NEW T, IsFiniteSet(T)
  PROVE  IsFiniteSet([S -> T])
<1> DEFINE Graph == [f \in [S -> T] |-> {p \in S \X T : f[p[1]] = p[2]}]
<1>1. IsFiniteSet(SUBSET (S \X T))
  BY FS_Product, FS_SUBSET
<1>2. Graph \in [[S -> T] -> SUBSET (S \X T)]
  OBVIOUS
<1>3. ASSUME NEW f \in [S -> T], NEW g \in [S -> T], Graph[f] = Graph[g]
      PROVE  f = g
  <2>1. ASSUME NEW s \in S
        PROVE  f[s] = g[s]
    <3>1. <<s, f[s]>> \in Graph[f]
      OBVIOUS
    <3>2. <<s, f[s]>> \in {p \in S \X T : g[p[1]] = p[2]}
      BY <1>3, <3>1
    <3>3. QED
      BY <3>2
  <2>2. QED
    BY <2>1
<1>4. Graph \in Injection([S -> T], SUBSET (S \X T))
  <2> HIDE DEF Graph
  <2>1. QED
    BY <1>2, <1>3, Fun_IsInj
<1>5. QED
  BY <1>1, <1>4, FS_Injection

-----------------------------------------------------------------------------

Draws(n) == [1..n -> 0..(Full - 1)]

(* The draws that none before e was chosen with. *)
NotBefore(n, w, e) == {r \in Draws(n) : \A j \in 1..(e - 1) : ~(r[j] < w[j])}

(* In priority mode the first error that triggers is chosen. *)
LEMMA PriorityChoice ==
  ASSUME NEW n \in Nat, NEW w \in [1..n -> Nat], NEW r \in Draws(n)
  PROVE  /\ SelectPriority(w, r) \in 0..n
         /\ \A e \in 1..n : SelectPriority(w, r) = e <=>
              r[e] < w[e] /\ \A j \in 1..(e - 1) : ~(r[j] < w[j])
         /\ \A e \in 1..(n + 1) : SelectPriority(w, r) \notin 1..(e - 1) <=>
              \A j \in 1..(e - 1) : ~(r[j] < w[j])
<1> DEFINE S == {i \in DOMAIN w : ShouldTrigger(w[i], r[i])}
           chosen == SelectPriority(w, r)
<1>1. Full \in Nat \ {0} /\ \A i \in 1..n : r[i] \in Nat /\ w[i] \in Nat
  BY EngineAssumption DEF EngineAssumption, Draws
<1>2. \A i : i \in S <=> i \in 1..n /\ r[i] < w[i]
  BY <1>1 DEF ShouldTrigger
<1>3. /\ S = {} => chosen = 0
      /\ S # {} => chosen = Least(S)
  BY DEF SelectPriority
<1> HIDE DEF S, chosen
<1>4. S # {} => Least(S) \in S /\ \A x \in S : Least(S) <= x
  <2>1. S \in SUBSET Nat
    BY <1>2
  <2>2. QED
    BY <2>1, LeastOf
<1>5. CASE S = {}
  BY <1>2, <1>3, <1>5 DEF chosen
<1>6. CASE S # {}
  <2>1. chosen \in 1..n /\ r[chosen] < w[chosen]
    BY <1>2, <1>3, <1>4, <1>6
  <2>2. \A j \in 1..n : r[j] < w[j] => chosen <= j
    BY <1>2, <1>3, <1>4, <1>6
  <2>3. ASSUME NEW e \in 1..n
        PROVE  chosen = e <=> r[e] < w[e] /\ \A j \in 1..(e - 1) : ~(r[j] < w[j])
    <3>1. ASSUME chosen = e
          PROVE  r[e] < w[e] /\ \A j \in 1..(e - 1) : ~(r[j] < w[j])
      BY <2>1, <2>2, <3>1
    <3>2. ASSUME r[e] < w[e], \A j \in 1..(e - 1) : ~(r[j] < w[j])
          PROVE  chosen = e
      <4>1. chosen <= e /\ ~(chosen \in 1..(e - 1))
        BY <2>1, <2>2, <3>2
      <4>2. QED
        BY <2>1, <4>1
    <3>3. QED
      BY <3>1, <3>2
  <2>4. ASSUME NEW e \in 1..(n + 1)
        PROVE  chosen \notin 1..(e - 1) <=> \A j \in 1..(e - 1) : ~(r[j] < w[j])
    <3>1. ASSUME chosen \notin 1..(e - 1), NEW j \in 1..(e - 1)
          PROVE  ~(r[j] < w[j])
      BY <2>1, <2>2, <3>1
    <3>2. ASSUME \A j \in 1..(e - 1) : ~(r[j] < w[j])
          PROVE  chosen \notin 1..(e - 1)
      BY <2>1, <3>2
    <3>3. QED
      BY <3>1, <3>2
  <2>5. QED
    BY <2>1, <2>3, <2>4 DEF chosen
<1>7. QED
  BY <1>5, <1>6

(* What precedes e says nothing of the draw of e. *)
DrawIsFree(n, w, e, c) ==
  /\ IsFiniteSet({r \in NotBefore(n, w, e) : r[e] = 0})
  /\ Cardinality({r \in NotBefore(n, w, e) : r[e] < c}) =
       Cardinality({r \in NotBefore(n, w, e) : r[e] = 0}) * c

LEMMA DrawsOfOne ==
  ASSUME NEW n \in Nat, NEW w, NEW e \in 1..n, NEW c \in 0..Full
  PROVE  DrawIsFree(n, w, e, c)
<1> DEFINE Others == {r \in NotBefore(n, w, e) : r[e] = 0}
           Chosen == {r \in NotBefore(n, w, e) : r[e] < c}
           B == [q \in Others \X (0..(c - 1)) |-> [q[1] EXCEPT ![e] = q[2]]]
<1>1. Full \in Nat \ {0} /\ c \in Nat /\ 0 \in 0..(Full - 1)
  BY EngineAssumption DEF EngineAssumption
<1>2. IsFiniteSet(Others)
  <2>1. IsFiniteSet(0..(Full - 1)) /\ IsFiniteSet(1..n)
    BY <1>1, FS_Interval
  <2>2. IsFiniteSet(Draws(n)) /\ Others \in SUBSET Draws(n)
    BY <2>1, FiniteFunctions DEF Draws, NotBefore
  <2> HIDE DEF Others
  <2>3. QED
    BY <2>2, FS_Subset
<1>3. ASSUME NEW r \in NotBefore(n, w, e), NEW d \in 0..(Full - 1)
      PROVE  /\ [r EXCEPT ![e] = d] \in NotBefore(n, w, e)
             /\ [r EXCEPT ![e] = d][e] = d
             /\ r[e] \in 0..(Full - 1)
  <2>1. r \in [1..n -> 0..(Full - 1)] /\ \A j \in 1..(e - 1) : ~(r[j] < w[j])
    BY DEF NotBefore, Draws
  <2>2. \A j \in 1..(e - 1) : j \in 1..n /\ j # e
    OBVIOUS
  <2>3. QED
    BY <2>1, <2>2 DEF NotBefore, Draws
<1>4. ASSUME NEW q \in Others \X (0..(c - 1))
      PROVE  B[q] \in Chosen /\ B[q][e] = q[2] /\ q[1] = [B[q] EXCEPT ![e] = 0]
  <2>1. q[1] \in NotBefore(n, w, e) /\ q[1][e] = 0 /\ q[2] \in 0..(Full - 1) /\ q[2] < c
    BY <1>1
  <2>2. B[q] = [q[1] EXCEPT ![e] = q[2]]
    OBVIOUS
  <2>3. q[1] \in [1..n -> 0..(Full - 1)]
    BY <2>1 DEF NotBefore, Draws
  <2>4. q[1] = [B[q] EXCEPT ![e] = 0]
    BY <2>1, <2>2, <2>3
  <2>5. QED
    BY <1>3, <2>1, <2>2, <2>4
<1>5. ASSUME NEW r \in Chosen
      PROVE  \E q \in Others \X (0..(c - 1)) : B[q] = r
  <2> DEFINE q == <<[r EXCEPT ![e] = 0], r[e]>>
  <2>1. r \in [1..n -> 0..(Full - 1)] /\ r[e] \in 0..(c - 1)
    BY <1>1 DEF NotBefore, Draws
  <2>2. q \in Others \X (0..(c - 1))
    BY <1>1, <1>3, <2>1
  <2>3. B[q] = r
    BY <2>1, <2>2
  <2>4. QED
    BY <2>2, <2>3
<1>6. B \in Bijection(Others \X (0..(c - 1)), Chosen)
  <2>1. B \in [Others \X (0..(c - 1)) -> Chosen]
    BY <1>4
  <2>2. ASSUME NEW q \in Others \X (0..(c - 1)), NEW p \in Others \X (0..(c - 1)), B[q] = B[p]
        PROVE  q = p
    <3> HIDE DEF B, Others, Chosen
    <3>1. q[2] = B[q][e] /\ q[1] = [B[q] EXCEPT ![e] = 0]
      BY <1>4
    <3>2. p[2] = B[p][e] /\ p[1] = [B[p] EXCEPT ![e] = 0]
      BY <1>4
    <3>3. q[1] = p[1] /\ q[2] = p[2]
      BY <2>2, <3>1, <3>2
    <3>4. QED
      BY <3>3
  <2> HIDE DEF B, Others, Chosen
  <2>3. QED
    BY <1>5, <2>1, <2>2, Fun_IsBij
<1>7. IsFiniteSet(0..(c - 1)) /\ Cardinality(0..(c - 1)) = c
  BY <1>1, FS_Interval
<1> HIDE DEF B, Others, Chosen
<1>8. /\ IsFiniteSet(Others \X (0..(c - 1)))
      /\ Cardinality(Others \X (0..(c - 1))) = Cardinality(Others) * Cardinality(0..(c - 1))
  BY <1>2, <1>7, FS_Product
<1>9. Cardinality(Chosen) = Cardinality(Others \X (0..(c - 1)))
  <2>1. ExistsBijection(Others \X (0..(c - 1)), Chosen)
    BY <1>6, Fun_ExistsBij
  <2>2. QED
    BY <1>8, <2>1, FS_Bijection
<1>10. QED
  BY <1>2, <1>7, <1>8, <1>9 DEF Others, Chosen, DrawIsFree

(* How often which error is chosen, of all the draws. *)
WeightedShares(n, w, pick) ==
  /\ \A e \in 1..n : Cardinality({r \in DOMAIN pick : pick[r] = e}) = w[e]
  /\ Cardinality({r \in DOMAIN pick : pick[r] = 0}) = Wheel(w) - Total(w)

PriorityShares(n, w, pick) ==
  /\ \A e \in 1..n :
       Cardinality({r \in DOMAIN pick : pick[r] = e}) * Full =
         Clip(w[e]) * Cardinality({r \in DOMAIN pick : pick[r] \notin 1..(e - 1)})
  /\ Cardinality({r \in DOMAIN pick : pick[r] = 0}) =
       Cardinality({r \in DOMAIN pick : pick[r] \notin 1..((n + 1) - 1)})

(* In weighted mode, the draws of each error are as many as its weight. *)
LEMMA WeightedShare ==
  ASSUME NEW n \in Nat, NEW w \in [1..n -> Nat],
         NEW pick, pick = [r \in 0..(Wheel(w) - 1) |-> SelectWeighted(w, r)]
  PROVE  WeightedShares(n, w, pick)
<1> DEFINE t == Thresholds(w)
<1>1. /\ t \in [0..n -> Nat] /\ t[0] = 0 /\ Total(w) = t[n]
      /\ \A i \in 1..n : t[i] = t[i - 1] + w[i]
  BY ThresholdSteps
<1>2. \A i \in 0..n : t[i] <= t[n]
  BY ThresholdsGrow
<1> HIDE DEF t
<1>3. Full \in Nat \ {0}
  BY EngineAssumption DEF EngineAssumption
<1>4. Wheel(w) \in Nat /\ Total(w) <= Wheel(w) /\ Total(w) \in Nat
  <2>1. Total(w) \in Nat
    BY <1>1
  <2>2. QED
    BY <1>3, <2>1 DEF Wheel
<1>5. ASSUME NEW e \in 1..n
      PROVE  Cardinality({r \in DOMAIN pick : pick[r] = e}) = w[e]
  <2>1. /\ t[e - 1] \in Nat /\ t[e] \in Nat /\ w[e] \in Nat /\ t[e] = t[e - 1] + w[e]
        /\ t[e] <= Wheel(w)
    BY <1>1, <1>2, <1>4
  <2>2. \A r \in 0..(Wheel(w) - 1) : pick[r] = e <=> t[e - 1] <= r /\ r < t[e]
    <3>1. \A r \in 0..(Wheel(w) - 1) : r \in Nat
      BY <1>4
    <3>2. QED
      BY <3>1, WeightedChoice DEF t
  <2>3. {r \in DOMAIN pick : pick[r] = e} = t[e - 1]..(t[e] - 1)
    BY <1>4, <2>1, <2>2
  <2>4. Cardinality(t[e - 1]..(t[e] - 1)) = w[e]
    <3>1. t[e - 1] \in Int /\ t[e] - 1 \in Int
      BY <2>1
    <3>2. Cardinality(t[e - 1]..(t[e] - 1)) =
            IF t[e - 1] > t[e] - 1 THEN 0 ELSE (t[e] - 1) - t[e - 1] + 1
      BY <3>1, FS_Interval
    <3>3. QED
      BY <2>1, <3>2
  <2>5. QED
    BY <2>3, <2>4
<1>6. Cardinality({r \in DOMAIN pick : pick[r] = 0}) = Wheel(w) - Total(w)
  <2>1. \A r \in 0..(Wheel(w) - 1) : pick[r] = 0 <=> r >= Total(w)
    BY WeightedChoice
  <2>2. {r \in DOMAIN pick : pick[r] = 0} = Total(w)..(Wheel(w) - 1)
    BY <1>4, <2>1
  <2>3. Cardinality(Total(w)..(Wheel(w) - 1)) = Wheel(w) - Total(w)
    BY <1>4, FS_Interval
  <2>4. QED
    BY <2>2, <2>3
<1>7. QED
  BY <1>5, <1>6 DEF WeightedShares

(* In priority mode, an error has its percentage of the draws that come to *)
(* it.                                                                     *)
LEMMA PriorityShare ==
  ASSUME NEW n \in Nat, NEW w \in [1..n -> Nat],
         NEW pick, pick = [r \in Draws(n) |-> SelectPriority(w, r)]
  PROVE  PriorityShares(n, w, pick)
<1>1. Full \in Nat \ {0}
  BY EngineAssumption DEF EngineAssumption
<1>2. ASSUME NEW e \in 1..n
      PROVE  Cardinality({r \in DOMAIN pick : pick[r] = e}) * Full =
               Clip(w[e]) * Cardinality({r \in DOMAIN pick : pick[r] \notin 1..(e - 1)})
  <2> DEFINE Others == {r \in NotBefore(n, w, e) : r[e] = 0}
             c == Clip(w[e])
  <2>1. c \in 0..Full /\ \A x \in 0..(Full - 1) : x < w[e] <=> x < c
    BY <1>1 DEF Clip
  <2>2. {r \in DOMAIN pick : pick[r] = e} = {r \in NotBefore(n, w, e) : r[e] < c}
    <3>1. \A r \in Draws(n) : pick[r] = e <=> r[e] < w[e] /\ \A j \in 1..(e - 1) : ~(r[j] < w[j])
      BY PriorityChoice
    <3>2. \A r \in Draws(n) : r[e] < w[e] <=> r[e] < c
      BY <2>1 DEF Draws
    <3> HIDE DEF c
    <3>3. QED
      BY <3>1, <3>2 DEF NotBefore
  <2>3. {r \in DOMAIN pick : pick[r] \notin 1..(e - 1)} = {r \in NotBefore(n, w, e) : r[e] < Full}
    <3>1. \A r \in Draws(n) : pick[r] \notin 1..(e - 1) <=> \A j \in 1..(e - 1) : ~(r[j] < w[j])
      BY PriorityChoice
    <3>2. \A r \in Draws(n) : r[e] < Full
      BY <1>1 DEF Draws
    <3>3. QED
      BY <3>1, <3>2 DEF NotBefore
  <2> HIDE DEF c
  <2>4. /\ Cardinality({r \in NotBefore(n, w, e) : r[e] < c}) = Cardinality(Others) * c
        /\ Cardinality({r \in NotBefore(n, w, e) : r[e] < Full}) = Cardinality(Others) * Full
        /\ IsFiniteSet(Others)
    <3>1. c \in 0..Full /\ Full \in 0..Full
      BY <1>1, <2>1
    <3>2. DrawIsFree(n, w, e, c)
      BY <3>1, DrawsOfOne
    <3>3. DrawIsFree(n, w, e, Full)
      BY <3>1, DrawsOfOne
    <3>4. QED
      BY <3>2, <3>3 DEF DrawIsFree
  <2> HIDE DEF Others
  <2>5. Cardinality(Others) \in Nat
    BY <2>4, FS_CardinalityType
  <2>6. \A k \in Nat : (k * c) * Full = c * (k * Full)
    BY <1>1, <2>1
  <2>7. QED
    BY <2>2, <2>3, <2>4, <2>5, <2>6 DEF c
<1>3. \A r \in DOMAIN pick : pick[r] = 0 <=> pick[r] \notin 1..((n + 1) - 1)
  BY PriorityChoice
<1>4. {r \in DOMAIN pick : pick[r] = 0} = {r \in DOMAIN pick : pick[r] \notin 1..((n + 1) - 1)}
  BY <1>3
<1>5. QED
  BY <1>2, <1>4 DEF PriorityShares

(* A burst leaves the weights as many as they were. *)
LEMMA WeightsType ==
  ASSUME NEW p \in Profiles, NEW inBurst \in BOOLEAN
  PROVE  /\ Len(p.normal) \in Nat /\ Weights(p, inBurst) \in [1..Len(p.normal) -> Nat]
         /\ DOMAIN Weights(p, inBurst) = 1..Len(p.normal)
         /\ Len(Weights(p, inBurst)) = Len(p.normal)
BY EngineAssumption DEF EngineAssumption, Weights

(* Whatever the weights, also where they add up to more than 100%, and     *)
(* whichever errors a burst replaces, an error is chosen with its share.   *)
LEMMA Shares == injector[live].profile \in Profiles => ErrorsHaveTheirShare
<1> SUFFICES ASSUME injector[live].profile \in Profiles, NEW inBurst \in BOOLEAN
             PROVE  LET p == injector[live].profile
                        w == Weights(p, inBurst)
                        rolls == [DOMAIN w -> 0..(Full - 1)]
                        pick == IF p.mode = "weighted"
                                THEN [r \in 0..(Wheel(w) - 1) |-> SelectWeighted(w, r)]
                                ELSE [r \in rolls |-> SelectPriority(w, r)]
                        Cases(e) == Cardinality({r \in DOMAIN pick : pick[r] = e})
                        NoneBefore(e) ==
                          Cardinality({r \in DOMAIN pick : pick[r] \notin 1..(e - 1)})
                    IN  IF p.mode = "weighted"
                        THEN /\ \A e \in DOMAIN w : Cases(e) = w[e]
                             /\ Cases(0) = Wheel(w) - Total(w)
                        ELSE /\ \A e \in DOMAIN w : Cases(e) * Full = Clip(w[e]) * NoneBefore(e)
                             /\ Cases(0) = NoneBefore(Len(w) + 1)
  BY DEF ErrorsHaveTheirShare
<1> DEFINE p == injector[live].profile
           w == Weights(p, inBurst)
           n == Len(p.normal)
           pick == IF p.mode = "weighted"
                   THEN [r \in 0..(Wheel(w) - 1) |-> SelectWeighted(w, r)]
                   ELSE [r \in [DOMAIN w -> 0..(Full - 1)] |-> SelectPriority(w, r)]
<1>1. n \in Nat /\ w \in [1..n -> Nat] /\ DOMAIN w = 1..n /\ Len(w) = n
  BY WeightsType
<1>2. CASE p.mode = "weighted"
  <2>1. pick = [r \in 0..(Wheel(w) - 1) |-> SelectWeighted(w, r)]
    BY <1>2
  <2> HIDE DEF p, w, n, pick
  <2>2. WeightedShares(n, w, pick)
    BY <1>1, <2>1, WeightedShare
  <2>3. QED
    BY <1>1, <1>2, <2>2 DEF p, w, pick, WeightedShares
<1>3. CASE p.mode # "weighted"
  <2>1. pick = [r \in Draws(n) |-> SelectPriority(w, r)]
    BY <1>1, <1>3 DEF Draws
  <2> HIDE DEF p, w, n, pick
  <2>2. PriorityShares(n, w, pick)
    BY <1>1, <2>1, PriorityShare
  <2>3. QED
    BY <1>1, <1>3, <2>2 DEF p, w, pick, PriorityShares
<1>4. QED
  BY <1>2, <1>3

(* The live injector has one of the configurations. *)
THEOREM SharesKept == EngineSpec => []ErrorsHaveTheirShare
<1>1. EngineInv => injector[live].profile \in Profiles
  BY DEF EngineInv, EngineTypeOK
<1>2. EngineInv => ErrorsHaveTheirShare
  BY <1>1, Shares
<1>3. QED
  BY EngineStarts, EngineSteps, <1>2, PTL DEF EngineSpec


-----------------------------------------------------------------------------
(* The analysis. *)

AimdScans == [inBurst : BOOLEAN, starts : Seq(Nat), ends : Seq(Nat)]

(* The scan is that of a loop over the buckets. *)
LEMMA AimdLoop ==
  ASSUME buckets \in Seq(Series)
  PROVE  /\ AimdPrefix \in [0..Len(buckets) -> AimdScans]
         /\ AimdPrefix[0] = NotStormy
         /\ \A i \in 1..Len(buckets) : AimdPrefix[i] = AimdStep(AimdPrefix[i - 1], i)
<1> DEFINE N == Len(buckets)
           F == [n \in 1..N |-> [x \in AimdScans |-> AimdStep(x, n)]]
<1>1. N \in Nat
  OBVIOUS
<1>2. NotStormy \in AimdScans
  BY DEF NotStormy, AimdScans
<1>3. ASSUME NEW i \in 1..N, NEW x \in AimdScans
      PROVE  AimdStep(x, i) \in AimdScans
  <2>1. i \in Nat /\ Append(x.starts, i) \in Seq(Nat) /\ Append(x.ends, i) \in Seq(Nat)
    BY DEF AimdScans
  <2>2. QED
    BY <2>1 DEF AimdStep, AimdScans
<1>4. F \in [1..N -> [AimdScans -> AimdScans]]
  BY <1>3
<1>5. PICK f : Loop(f, N, AimdScans, NotStormy, F)
  <2> HIDE DEF N, F
  <2>1. QED
    BY <1>1, <1>2, <1>4, Recursion
<1>6. \A n \in 1..N : f[n] = AimdStep(f[n - 1], n)
  BY <1>5 DEF Loop
<1>7. f = [i \in 0..N |-> IF i = 0 THEN NotStormy ELSE AimdStep(f[i - 1], i)]
  BY <1>1, <1>5, <1>6 DEF Loop
<1>8. AimdPrefix = [i \in 0..N |-> IF i = 0 THEN NotStormy ELSE AimdStep(AimdPrefix[i - 1], i)]
  BY <1>7 DEF AimdPrefix
<1>9. \A i \in 0..N : AimdPrefix[i] = IF i = 0 THEN NotStormy ELSE AimdStep(AimdPrefix[i - 1], i)
  BY <1>8
<1>10. \A i \in 0..N : AimdPrefix[i] \in AimdScans
  <2> DEFINE D == {i \in Nat : i <= N => AimdPrefix[i] \in AimdScans}
  <2>1. 0 \in D
    BY <1>1, <1>2, <1>9
  <2>2. ASSUME NEW i \in Nat, i \in D
        PROVE  i + 1 \in D
    BY <1>3, <1>9, <2>2
  <2>3. Nat \subseteq D
    <3> HIDE DEF D
    <3>1. QED
      BY <2>1, <2>2, SetInduction
  <2>4. QED
    BY <2>3
<1>11. QED
  BY <1>1, <1>8, <1>9, <1>10

(* The burst that bucket i is in started at s. *)
Opened(s, i) == s \in 1..i /\ (\A m \in s..i : Stormy(m)) /\ (s = 1 \/ ~Stormy(s - 1))

(* A burst from s that bucket e ended. *)
Closed(s, e) == Opened(s, e - 1) /\ ~Stormy(e)

(* The two thresholds of a burst leave a gap. *)
LEMMA HighOrLow ==
  ASSUME buckets \in Seq(Series), NEW i \in 1..Len(buckets)
  PROVE  ~(High(buckets[i]) /\ Low(buckets[i]))
<1>1. buckets[i].total \in Nat /\ buckets[i].limited \in Nat
  BY SeriesAssumption DEF SeriesAssumption
<1>2. QED
  BY <1>1 DEF High, Low

(* A bucket is in a burst by itself or by the one before it. *)
LEMMA StormyNext ==
  ASSUME buckets \in Seq(Series), NEW i \in 1..Len(buckets)
  PROVE  /\ ~Stormy(0)
         /\ Stormy(i) <=> High(buckets[i]) \/ (Stormy(i - 1) /\ ~Low(buckets[i]))
<1>1. ~Stormy(0)
  BY DEF Stormy
<1>2. ASSUME Stormy(i)
      PROVE  High(buckets[i]) \/ (Stormy(i - 1) /\ ~Low(buckets[i]))
  <2>1. PICK j \in 1..i : High(buckets[j]) /\ \A k \in (j + 1)..i : ~Low(buckets[k])
    BY <1>2 DEF Stormy
  <2>2. CASE j = i
    BY <2>1, <2>2
  <2>3. CASE j # i
    <3>1. j \in 1..(i - 1) /\ i \in (j + 1)..i /\ \A k \in (j + 1)..(i - 1) : k \in (j + 1)..i
      BY <2>3
    <3>2. QED
      BY <2>1, <3>1 DEF Stormy
  <2>4. QED
    BY <2>2, <2>3
<1>3. ASSUME High(buckets[i])
      PROVE  Stormy(i)
  <2>1. i \in 1..i /\ (i + 1)..i = {}
    OBVIOUS
  <2>2. QED
    BY <1>3, <2>1 DEF Stormy
<1>4. ASSUME Stormy(i - 1), ~Low(buckets[i])
      PROVE  Stormy(i)
  <2>1. PICK j \in 1..(i - 1) : High(buckets[j]) /\ \A k \in (j + 1)..(i - 1) : ~Low(buckets[k])
    BY <1>4 DEF Stormy
  <2>2. j \in 1..i /\ \A k \in (j + 1)..i : k = i \/ k \in (j + 1)..(i - 1)
    OBVIOUS
  <2>3. QED
    BY <1>4, <2>1, <2>2 DEF Stormy
<1>5. QED
  BY <1>1, <1>2, <1>3, <1>4

(* A burst opens, or goes on. *)
LEMMA OpenedNext ==
  ASSUME NEW i \in Nat \ {0}, ~Stormy(0)
  PROVE  /\ Stormy(i) /\ ~Stormy(i - 1) => Opened(i, i)
         /\ \A s : Stormy(i) /\ Opened(s, i - 1) => Opened(s, i)
<1>1. ASSUME Stormy(i), ~Stormy(i - 1)
      PROVE  Opened(i, i)
  BY <1>1 DEF Opened
<1>2. ASSUME NEW s, Stormy(i), Opened(s, i - 1)
      PROVE  Opened(s, i)
  <2>1. s \in 1..i /\ \A m \in s..i : m = i \/ m \in s..(i - 1)
    BY <1>2 DEF Opened
  <2>2. QED
    BY <1>2, <2>1 DEF Opened
<1>3. QED
  BY <1>1, <1>2

(* A bucket is in one burst. *)
LEMMA OpenedOnce ==
  ASSUME NEW i \in Nat, NEW s, NEW t, Opened(s, i), Opened(t, i)
  PROVE  s = t
<1>1. s \in 1..i /\ t \in 1..i
  BY DEF Opened
<1>2. ASSUME s < t
      PROVE  FALSE
  BY <1>1, <1>2 DEF Opened
<1>3. ASSUME t < s
      PROVE  FALSE
  BY <1>1, <1>3 DEF Opened
<1>4. QED
  BY <1>1, <1>2, <1>3

-----------------------------------------------------------------------------

(* What analyze_aimd_behavior has found in the first i buckets. *)
AimdFound(scan, i) ==
  /\ scan \in AimdScans
  /\ scan.inBurst <=> Stormy(i)
  /\ Len(scan.starts) = Len(scan.ends) + (IF scan.inBurst THEN 1 ELSE 0)
  /\ scan.inBurst => Opened(scan.starts[Len(scan.starts)], i)
  /\ \A k \in 1..Len(scan.ends) : Closed(scan.starts[k], scan.ends[k]) /\ scan.ends[k] \in 2..i
  /\ \A s, e : e \in 2..i /\ Closed(s, e) =>
       \E k \in 1..Len(scan.ends) : scan.starts[k] = s /\ scan.ends[k] = e
  /\ \A m \in 1..i : Stormy(m) =>
       \E k \in 1..Len(scan.starts) :
         scan.starts[k] <= m /\ (k <= Len(scan.ends) => m < scan.ends[k])

(* One bucket more. *)
LEMMA AimdFindsNext ==
  ASSUME buckets \in Seq(Series), NEW i \in 1..Len(buckets),
         NEW x, AimdFound(x, i - 1)
  PROVE  AimdFound(AimdStep(x, i), i)
<1> DEFINE y == AimdStep(x, i)
<1>1. x \in AimdScans /\ x.starts \in Seq(Nat) /\ x.ends \in Seq(Nat) /\ i \in Nat
  BY DEF AimdFound, AimdScans
<1>2. ~Stormy(0) /\ (Stormy(i) <=> High(buckets[i]) \/ (Stormy(i - 1) /\ ~Low(buckets[i])))
      /\ ~(High(buckets[i]) /\ Low(buckets[i]))
  BY StormyNext, HighOrLow
<1>3. x.inBurst <=> Stormy(i - 1)
  BY DEF AimdFound
<1>4. CASE Stormy(i) <=> Stormy(i - 1)
  <2>1. y = x
    BY <1>1, <1>2, <1>3, <1>4 DEF AimdStep
  <2>2. ASSUME NEW s, NEW e, e \in 2..i, Closed(s, e)
        PROVE  e \in 2..(i - 1)
    BY <1>4, <2>2 DEF Closed, Opened
  <2>3. ASSUME NEW m \in 1..i, Stormy(m)
        PROVE  \E k \in 1..Len(x.starts) : x.starts[k] <= m /\ (k <= Len(x.ends) => m < x.ends[k])
    <3>1. CASE m = i
      <4>1. /\ x.inBurst /\ Len(x.starts) = Len(x.ends) + 1
            /\ Opened(x.starts[Len(x.starts)], i - 1)
        BY <1>3, <1>4, <2>3, <3>1 DEF AimdFound
      <4>2. /\ Len(x.starts) \in 1..Len(x.starts) /\ ~(Len(x.starts) <= Len(x.ends))
            /\ x.starts[Len(x.starts)] <= m
        BY <1>1, <3>1, <4>1 DEF Opened
      <4>3. QED
        BY <4>2
    <3>2. CASE m # i
      <4>1. m \in 1..(i - 1)
        BY <3>2
      <4>2. QED
        BY <2>3, <4>1 DEF AimdFound
    <3>3. QED
      BY <3>1, <3>2
  <2>4. x.inBurst => Opened(x.starts[Len(x.starts)], i)
    BY <1>2, <1>3, <1>4, OpenedNext DEF AimdFound
  <2>5. \A k \in 1..Len(x.ends) : Closed(x.starts[k], x.ends[k]) /\ x.ends[k] \in 2..i
    BY DEF AimdFound
  <2>6. \A s, e : e \in 2..i /\ Closed(s, e) =>
          \E k \in 1..Len(x.ends) : x.starts[k] = s /\ x.ends[k] = e
    BY <2>2 DEF AimdFound
  <2>7. AimdFound(x, i)
    BY <1>3, <1>4, <2>3, <2>4, <2>5, <2>6 DEF AimdFound
  <2>8. QED
    BY <2>1, <2>7
<1>5. CASE Stormy(i) /\ ~Stormy(i - 1)
  <2>1. y = [x EXCEPT !.inBurst = TRUE, !.starts = Append(x.starts, i)]
    BY <1>1, <1>2, <1>3, <1>5 DEF AimdStep
  <2>2. /\ y \in AimdScans /\ y.inBurst /\ y.ends = x.ends
        /\ y.starts = Append(x.starts, i)
    <3>1. Append(x.starts, i) \in Seq(Nat)
      BY <1>1
    <3>2. y = [inBurst |-> TRUE, starts |-> Append(x.starts, i), ends |-> x.ends]
      BY <1>1, <2>1 DEF AimdScans
    <3> HIDE DEF y
    <3>3. QED
      BY <1>1, <3>1, <3>2 DEF AimdScans
  <2> HIDE DEF y
  <2>0. Len(x.starts) = Len(x.ends)
    <3>1. Len(x.starts) = Len(x.ends) + 0
      BY <1>3, <1>5 DEF AimdFound
    <3>2. Len(x.ends) \in Nat
      BY <1>1
    <3>3. QED
      BY <3>1, <3>2
  <2>3. /\ Len(x.starts) \in Nat /\ Len(x.starts) = Len(x.ends)
        /\ Len(y.starts) = Len(x.starts) + 1 /\ y.starts[Len(x.starts) + 1] = i
        /\ \A k \in 1..Len(x.starts) : y.starts[k] = x.starts[k]
    BY <1>1, <2>0, <2>2
  <2>4. Opened(y.starts[Len(y.starts)], i)
    BY <1>2, <1>5, <2>3, OpenedNext
  <2>5. \A k \in 1..Len(y.ends) : Closed(y.starts[k], y.ends[k]) /\ y.ends[k] \in 2..i
    BY <2>2, <2>3 DEF AimdFound
  <2>6. ASSUME NEW s, NEW e, e \in 2..i, Closed(s, e)
        PROVE  \E k \in 1..Len(y.ends) : y.starts[k] = s /\ y.ends[k] = e
    <3>1. e \in 2..(i - 1)
      BY <1>5, <2>6 DEF Closed, Opened
    <3>2. PICK k \in 1..Len(x.ends) : x.starts[k] = s /\ x.ends[k] = e
      BY <2>6, <3>1 DEF AimdFound
    <3>3. QED
      BY <2>2, <2>3, <3>2
  <2>7. ASSUME NEW m \in 1..i, Stormy(m)
        PROVE  \E k \in 1..Len(y.starts) : y.starts[k] <= m /\ (k <= Len(y.ends) => m < y.ends[k])
    <3>1. CASE m = i
      BY <2>2, <2>3, <3>1
    <3>2. CASE m # i
      <4>0. m \in 1..(i - 1)
        BY <3>2
      <4>1. PICK k \in 1..Len(x.starts) :
              x.starts[k] <= m /\ (k <= Len(x.ends) => m < x.ends[k])
        BY <2>7, <4>0 DEF AimdFound
      <4>2. QED
        BY <2>2, <2>3, <4>1
    <3>3. QED
      BY <3>1, <3>2
  <2>8. AimdFound(y, i)
    BY <1>5, <2>2, <2>3, <2>4, <2>5, <2>6, <2>7 DEF AimdFound
  <2>9. QED
    BY <2>8 DEF y
<1>6. CASE ~Stormy(i) /\ Stormy(i - 1)
  <2>1. y = [x EXCEPT !.inBurst = FALSE, !.ends = Append(x.ends, i)]
    BY <1>1, <1>2, <1>3, <1>6 DEF AimdStep
  <2>2. /\ y \in AimdScans /\ ~y.inBurst /\ y.starts = x.starts
        /\ y.ends = Append(x.ends, i)
    <3>1. Append(x.ends, i) \in Seq(Nat)
      BY <1>1
    <3>2. y = [inBurst |-> FALSE, starts |-> x.starts, ends |-> Append(x.ends, i)]
      BY <1>1, <2>1 DEF AimdScans
    <3> HIDE DEF y
    <3>3. QED
      BY <1>1, <3>1, <3>2 DEF AimdScans
  <2> HIDE DEF y
  <2>0. Len(x.starts) = Len(x.ends) + 1 /\ Opened(x.starts[Len(x.starts)], i - 1)
    BY <1>1, <1>3, <1>6 DEF AimdFound
  <2>3. /\ Len(x.ends) \in Nat /\ Len(x.starts) = Len(x.ends) + 1
        /\ Len(y.ends) = Len(x.ends) + 1 /\ y.ends[Len(x.ends) + 1] = i
        /\ \A k \in 1..Len(x.ends) : y.ends[k] = x.ends[k]
    BY <1>1, <2>0, <2>2
  <2>4. Opened(x.starts[Len(x.ends) + 1], i - 1) /\ i \in 2..i
    BY <1>2, <1>6, <2>0
  <2>5. ASSUME NEW k \in 1..Len(y.ends)
        PROVE  Closed(y.starts[k], y.ends[k]) /\ y.ends[k] \in 2..i
    <3>1. CASE k = Len(x.ends) + 1
      BY <1>6, <2>2, <2>3, <2>4, <3>1 DEF Closed
    <3>2. CASE k # Len(x.ends) + 1
      <4>1. k \in 1..Len(x.ends)
        BY <2>3, <3>2
      <4>2. QED
        BY <2>2, <2>3, <4>1 DEF AimdFound
    <3>3. QED
      BY <3>1, <3>2
  <2>6. ASSUME NEW s, NEW e, e \in 2..i, Closed(s, e)
        PROVE  \E k \in 1..Len(y.ends) : y.starts[k] = s /\ y.ends[k] = e
    <3>1. CASE e = i
      <4>1. s = x.starts[Len(x.ends) + 1]
        BY <2>4, <2>6, <3>1, OpenedOnce DEF Closed
      <4>2. QED
        BY <2>2, <2>3, <3>1, <4>1
    <3>2. CASE e # i
      <4>1. PICK k \in 1..Len(x.ends) : x.starts[k] = s /\ x.ends[k] = e
        BY <2>6, <3>2 DEF AimdFound
      <4>2. QED
        BY <2>2, <2>3, <4>1
    <3>3. QED
      BY <3>1, <3>2
  <2>7. ASSUME NEW m \in 1..i, Stormy(m)
        PROVE  \E k \in 1..Len(y.starts) : y.starts[k] <= m /\ (k <= Len(y.ends) => m < y.ends[k])
    <3>1. m \in 1..(i - 1)
      BY <1>6, <2>7
    <3>2. PICK k \in 1..Len(x.starts) :
            x.starts[k] <= m /\ (k <= Len(x.ends) => m < x.ends[k])
      BY <2>7, <3>1 DEF AimdFound
    <3>3. QED
      BY <2>2, <2>3, <3>1, <3>2
  <2>8. AimdFound(y, i)
    BY <1>6, <2>2, <2>3, <2>5, <2>6, <2>7 DEF AimdFound
  <2>9. QED
    BY <2>8 DEF y
<1>7. QED
  BY <1>4, <1>5, <1>6

(* analyze_aimd_behavior has found the bursts of every prefix. *)
LEMMA AimdFinds ==
  ASSUME buckets \in Seq(Series)
  PROVE  AimdFound(AimdScan, Len(buckets))
<1> DEFINE D == {i \in Nat : i <= Len(buckets) => AimdFound(AimdPrefix[i], i)}
<1>1. Len(buckets) \in Nat
  OBVIOUS
<1>2. 0 \in D
  <2>1. ~Stormy(0)
    BY DEF Stormy
  <2>2. AimdPrefix[0] = NotStormy /\ NotStormy \in AimdScans
    BY <1>1, AimdLoop
  <2>3. AimdFound(NotStormy, 0)
    BY <2>1, <2>2 DEF AimdFound, NotStormy
  <2>4. QED
    BY <2>2, <2>3
<1>3. ASSUME NEW n \in Nat, n \in D
      PROVE  n + 1 \in D
  <2> SUFFICES ASSUME n + 1 <= Len(buckets)
               PROVE  AimdFound(AimdPrefix[n + 1], n + 1)
    OBVIOUS
  <2>1. n + 1 \in 1..Len(buckets) /\ (n + 1) - 1 = n /\ AimdFound(AimdPrefix[n], n)
    BY <1>1, <1>3
  <2>2. AimdPrefix[n + 1] = AimdStep(AimdPrefix[n], n + 1)
    BY <2>1, AimdLoop
  <2>3. QED
    BY <2>1, <2>2, AimdFindsNext
<1>4. Nat \subseteq D
  <2> HIDE DEF D
  <2>1. QED
    BY <1>2, <1>3, SetInduction
<1>5. QED
  BY <1>1, <1>4 DEF AimdScan

-----------------------------------------------------------------------------

(* What get_burst_events has found in the first i buckets. *)
EventScans == [start : Nat, events : SUBSET [start : Nat, end : Nat, ended : BOOLEAN]]

EventFound(scan, i) ==
  /\ scan \in EventScans
  /\ scan.start # 0 <=> Stormy(i)
  /\ scan.start # 0 => Opened(scan.start, i)
  /\ \A b : b \in scan.events <=>
       \E s \in Nat, e \in 2..i : Closed(s, e) /\ b = Burst(s, e, TRUE)

(* The scan is that of a loop over the buckets. *)
LEMMA EventLoop ==
  ASSUME buckets \in Seq(Series)
  PROVE  /\ EventPrefix \in [0..Len(buckets) -> EventScans]
         /\ EventPrefix[0] = Quiet
         /\ \A i \in 1..Len(buckets) : EventPrefix[i] = EventStep(EventPrefix[i - 1], i)
<1> DEFINE N == Len(buckets)
           F == [n \in 1..N |-> [x \in EventScans |-> EventStep(x, n)]]
<1>1. N \in Nat
  OBVIOUS
<1>2. Quiet \in EventScans
  BY DEF Quiet, EventScans
<1>3. ASSUME NEW i \in 1..N, NEW x \in EventScans
      PROVE  EventStep(x, i) \in EventScans
  <2> DEFINE closed == Burst(x.start, i, TRUE)
  <2>1. x.events \cup {closed} \in SUBSET [start : Nat, end : Nat, ended : BOOLEAN]
    <3>1. closed \in [start : Nat, end : Nat, ended : BOOLEAN]
      BY DEF EventScans, Burst
    <3> HIDE DEF closed
    <3>2. QED
      BY <3>1 DEF EventScans
  <2>2. [x EXCEPT !.start = i] \in EventScans
    BY DEF EventScans
  <2>3. \A events \in SUBSET [start : Nat, end : Nat, ended : BOOLEAN] :
          [start |-> 0, events |-> events] \in EventScans
    BY DEF EventScans
  <2>4. QED
    BY <2>1, <2>2, <2>3 DEF EventStep
<1>4. F \in [1..N -> [EventScans -> EventScans]]
  BY <1>3
<1>5. PICK f : Loop(f, N, EventScans, Quiet, F)
  <2> HIDE DEF N, F
  <2>1. QED
    BY <1>1, <1>2, <1>4, Recursion
<1>6. \A n \in 1..N : f[n] = EventStep(f[n - 1], n)
  BY <1>5 DEF Loop
<1>7. f = [i \in 0..N |-> IF i = 0 THEN Quiet ELSE EventStep(f[i - 1], i)]
  BY <1>1, <1>5, <1>6 DEF Loop
<1>8. EventPrefix = [i \in 0..N |-> IF i = 0 THEN Quiet ELSE EventStep(EventPrefix[i - 1], i)]
  BY <1>7 DEF EventPrefix
<1>9. \A i \in 0..N : EventPrefix[i] = IF i = 0 THEN Quiet ELSE EventStep(EventPrefix[i - 1], i)
  BY <1>8
<1>10. \A i \in 0..N : EventPrefix[i] \in EventScans
  <2> DEFINE D == {i \in Nat : i <= N => EventPrefix[i] \in EventScans}
  <2>1. 0 \in D
    BY <1>1, <1>2, <1>9
  <2>2. ASSUME NEW i \in Nat, i \in D
        PROVE  i + 1 \in D
    BY <1>3, <1>9, <2>2
  <2>3. Nat \subseteq D
    <3> HIDE DEF D
    <3>1. QED
      BY <2>1, <2>2, SetInduction
  <2>4. QED
    BY <2>3
<1>11. QED
  BY <1>1, <1>8, <1>9, <1>10

(* One bucket more. *)
LEMMA EventFindsNext ==
  ASSUME buckets \in Seq(Series), NEW i \in 1..Len(buckets),
         NEW x, EventFound(x, i - 1)
  PROVE  EventFound(EventStep(x, i), i)
<1>1. x \in EventScans /\ x.start \in Nat /\ i \in Nat \ {0}
  BY DEF EventFound, EventScans
<1>2. ~Stormy(0) /\ (Stormy(i) <=> High(buckets[i]) \/ (Stormy(i - 1) /\ ~Low(buckets[i])))
      /\ ~(High(buckets[i]) /\ Low(buckets[i]))
  BY StormyNext, HighOrLow
<1>3. (x.start # 0 <=> Stormy(i - 1)) /\ (x.start # 0 => Opened(x.start, i - 1))
  BY DEF EventFound
<1>4. CASE Stormy(i) \/ ~Stormy(i - 1)
  <2>1. EventStep(x, i) = [start |-> IF Stormy(i) /\ ~Stormy(i - 1) THEN i ELSE x.start,
                           events |-> x.events]
    <3>1. CASE Stormy(i) /\ ~Stormy(i - 1)
      BY <1>1, <1>2, <1>3, <3>1 DEF EventStep, EventScans
    <3>2. CASE Stormy(i) <=> Stormy(i - 1)
      BY <1>1, <1>2, <1>3, <3>2 DEF EventStep, EventScans
    <3>3. QED
      BY <1>4, <3>1, <3>2
  <2>2. ASSUME NEW e \in 2..i, NEW s, Closed(s, e)
        PROVE  e \in 2..(i - 1)
    BY <1>4, <2>2 DEF Closed, Opened
  <2>3. \A b : b \in x.events <=>
           \E s \in Nat, e \in 2..i : Closed(s, e) /\ b = Burst(s, e, TRUE)
    <3>1. \A b : b \in x.events <=>
             \E s \in Nat, e \in 2..(i - 1) : Closed(s, e) /\ b = Burst(s, e, TRUE)
      BY DEF EventFound
    <3>2. \A e : e \in 2..(i - 1) => e \in 2..i
      OBVIOUS
    <3>3. QED
      BY <2>2, <3>1, <3>2
  <2>4. EventStep(x, i).start # 0 <=> Stormy(i)
    BY <1>1, <1>3, <1>4, <2>1
  <2>5. EventStep(x, i).start # 0 => Opened(EventStep(x, i).start, i)
    BY <1>1, <1>2, <1>3, <1>4, <2>1, OpenedNext
  <2>6. EventStep(x, i) \in EventScans /\ EventStep(x, i).events = x.events
    BY <1>1, <2>1 DEF EventScans
  <2>7. QED
    BY <2>3, <2>4, <2>5, <2>6 DEF EventFound
<1>5. CASE ~Stormy(i) /\ Stormy(i - 1)
  <2>1. /\ Opened(x.start, i - 1) /\ Closed(x.start, i) /\ i \in 2..i
        /\ EventStep(x, i) = [start |-> 0, events |-> x.events \cup {Burst(x.start, i, TRUE)}]
    BY <1>1, <1>2, <1>3, <1>5 DEF EventStep, Closed
  <2>2. Burst(x.start, i, TRUE) \in [start : Nat, end : Nat, ended : BOOLEAN]
    BY <1>1 DEF Burst
  <2>3. EventStep(x, i) \in EventScans /\ EventStep(x, i).start = 0
        /\ EventStep(x, i).events = x.events \cup {Burst(x.start, i, TRUE)}
    <3>1. x.events \cup {Burst(x.start, i, TRUE)} \in
            SUBSET [start : Nat, end : Nat, ended : BOOLEAN]
      BY <1>1, <2>2 DEF EventScans
    <3>2. \A events \in SUBSET [start : Nat, end : Nat, ended : BOOLEAN] :
            /\ [start |-> 0, events |-> events] \in EventScans
            /\ [start |-> 0, events |-> events].start = 0
            /\ [start |-> 0, events |-> events].events = events
      BY DEF EventScans
    <3>3. QED
      BY <2>1, <3>1, <3>2
  <2>4. ASSUME NEW b, b \in x.events \cup {Burst(x.start, i, TRUE)}
        PROVE  \E s \in Nat, e \in 2..i : Closed(s, e) /\ b = Burst(s, e, TRUE)
    <3>1. CASE b = Burst(x.start, i, TRUE)
      BY <1>1, <2>1, <3>1
    <3>2. CASE b \in x.events
      <4>1. PICK s \in Nat, e \in 2..(i - 1) : Closed(s, e) /\ b = Burst(s, e, TRUE)
        BY <3>2 DEF EventFound
      <4>2. e \in 2..i
        OBVIOUS
      <4>3. QED
        BY <4>1, <4>2
    <3>3. QED
      BY <2>4, <3>1, <3>2
  <2>5. ASSUME NEW s \in Nat, NEW e \in 2..i, Closed(s, e)
        PROVE  Burst(s, e, TRUE) \in x.events \cup {Burst(x.start, i, TRUE)}
    <3>1. CASE e = i
      <4>1. s = x.start
        BY <1>1, <2>1, <2>5, <3>1, OpenedOnce DEF Closed
      <4>2. QED
        BY <3>1, <4>1
    <3>2. CASE e # i
      <4>1. e \in 2..(i - 1)
        BY <3>2
      <4>2. QED
        BY <2>5, <4>1 DEF EventFound
    <3>3. QED
      BY <3>1, <3>2
  <2>6. QED
    BY <1>5, <2>3, <2>4, <2>5 DEF EventFound
<1>6. QED
  BY <1>4, <1>5

(* get_burst_events has reported the bursts of every prefix. *)
LEMMA EventsFind ==
  ASSUME buckets \in Seq(Series)
  PROVE  EventFound(EventScan, Len(buckets))
<1> DEFINE D == {i \in Nat : i <= Len(buckets) => EventFound(EventPrefix[i], i)}
<1>1. Len(buckets) \in Nat
  OBVIOUS
<1>2. 0 \in D
  <2>1. ~Stormy(0)
    BY DEF Stormy
  <2>2. EventPrefix[0] = Quiet /\ Quiet \in EventScans
    BY <1>1, EventLoop
  <2>3. EventFound(Quiet, 0)
    BY <2>1, <2>2 DEF EventFound, Quiet
  <2>4. QED
    BY <2>2, <2>3
<1>3. ASSUME NEW n \in Nat, n \in D
      PROVE  n + 1 \in D
  <2> SUFFICES ASSUME n + 1 <= Len(buckets)
               PROVE  EventFound(EventPrefix[n + 1], n + 1)
    OBVIOUS
  <2>1. n + 1 \in 1..Len(buckets) /\ (n + 1) - 1 = n /\ EventFound(EventPrefix[n], n)
    BY <1>1, <1>3
  <2>2. EventPrefix[n + 1] = EventStep(EventPrefix[n], n + 1)
    BY <2>1, EventLoop
  <2>3. QED
    BY <2>1, <2>2, EventFindsNext
<1>4. Nat \subseteq D
  <2> HIDE DEF D
  <2>1. QED
    BY <1>2, <1>3, SetInduction
<1>5. QED
  BY <1>1, <1>4 DEF EventScan

-----------------------------------------------------------------------------

(* A burst has ended in the series, or the series has ended in it. *)
IsBurst(b) ==
  \/ \E s \in Nat, e \in 2..Len(buckets) : Closed(s, e) /\ b = Burst(s, e, TRUE)
  \/ \E s \in Nat : Opened(s, Len(buckets)) /\ b = Burst(s, Len(buckets) + 1, FALSE)

(* The bursts of the definition are those that opened and closed. *)
LEMMA BurstsAre ==
  ASSUME buckets \in Seq(Series)
  PROVE  \A b : b \in Bursts <=> IsBurst(b)
<1> DEFINE N == Len(buckets)
           Runs == {p \in (1..N) \X (2..(N + 1)) :
                      /\ p[1] < p[2] /\ \A i \in p[1]..(p[2] - 1) : Stormy(i)
                      /\ p[1] = 1 \/ ~Stormy(p[1] - 1)
                      /\ p[2] = N + 1 \/ ~Stormy(p[2])}
<1>1. N \in Nat
  OBVIOUS
<1>2. Bursts = {Burst(p[1], p[2], p[2] <= N) : p \in Runs}
  BY DEF Bursts
<1>3. ASSUME NEW b, b \in Bursts
      PROVE  IsBurst(b)
  <2>1. PICK p \in Runs : b = Burst(p[1], p[2], p[2] <= N)
    BY <1>2, <1>3
  <2> DEFINE s == p[1]
             e == p[2]
  <2>2. /\ s \in 1..N /\ e \in 2..(N + 1) /\ s < e
        /\ Opened(s, e - 1) /\ (e = N + 1 \/ ~Stormy(e))
    BY <1>1, <2>1 DEF Opened
  <2>3. b = Burst(s, e, e <= N)
    BY <2>1
  <2> HIDE DEF s, e, Runs, N
  <2>4. s \in Nat
    BY <1>1, <2>2
  <2>5. CASE e = N + 1
    <3>1. Opened(s, N) /\ (e <= N) = FALSE
      BY <1>1, <2>2, <2>5
    <3>2. b = Burst(s, N + 1, FALSE)
      BY <2>3, <2>5, <3>1
    <3>3. QED
      BY <2>4, <3>1, <3>2 DEF IsBurst, N
  <2>6. CASE e # N + 1
    <3>1. e \in 2..N /\ (e <= N) = TRUE /\ Closed(s, e)
      BY <1>1, <2>2, <2>6 DEF Closed
    <3>2. b = Burst(s, e, TRUE)
      BY <2>3, <3>1
    <3>3. QED
      BY <2>4, <3>1, <3>2 DEF IsBurst, N
  <2>7. QED
    BY <2>5, <2>6
<1>4. ASSUME NEW b, NEW s \in Nat, NEW e \in 2..(N + 1), Opened(s, e - 1), e = N + 1 \/ ~Stormy(e),
             b = Burst(s, e, e <= N)
      PROVE  b \in Bursts
  <2>1. s \in 1..N /\ s < e /\ (\A i \in s..(e - 1) : Stormy(i)) /\ (s = 1 \/ ~Stormy(s - 1))
    BY <1>1, <1>4 DEF Opened
  <2>2. <<s, e>> \in Runs
    BY <1>4, <2>1
  <2> HIDE DEF Runs
  <2>3. QED
    BY <1>2, <1>4, <2>2
<1>5. ASSUME NEW b, IsBurst(b)
      PROVE  b \in Bursts
  <2>1. CASE \E s \in Nat, e \in 2..N : Closed(s, e) /\ b = Burst(s, e, TRUE)
    <3>1. PICK s \in Nat, e \in 2..N : Closed(s, e) /\ b = Burst(s, e, TRUE)
      BY <2>1
    <3>2. e \in 2..(N + 1) /\ (e <= N) = TRUE
      BY <1>1
    <3>3. QED
      BY <1>4, <3>1, <3>2 DEF Closed
  <2>2. CASE \E s \in Nat : Opened(s, N) /\ b = Burst(s, N + 1, FALSE)
    <3>1. PICK s \in Nat : Opened(s, N) /\ b = Burst(s, N + 1, FALSE)
      BY <2>2
    <3>2. N + 1 \in 2..(N + 1) /\ (N + 1 <= N) = FALSE /\ (N + 1) - 1 = N
      BY <1>1, <3>1 DEF Opened
    <3>3. QED
      BY <1>4, <3>1, <3>2
  <2>3. QED
    BY <1>5, <2>1, <2>2 DEF IsBurst
<1>6. QED
  BY <1>3, <1>5

(* get_burst_events reports the bursts of the definition. *)
LEMMA EventsAreBursts ==
  ASSUME buckets \in Seq(Series), Len(buckets) >= 3
  PROVE  BurstEvents = Bursts
<1>1. EventFound(EventScan, Len(buckets))
  BY EventsFind
<1>2. \A b : b \in EventScan.events <=>
         \E s \in Nat, e \in 2..Len(buckets) : Closed(s, e) /\ b = Burst(s, e, TRUE)
  BY <1>1 DEF EventFound
<1>3. \A b : b \in Unfinished <=>
         \E s \in Nat : Opened(s, Len(buckets)) /\ b = Burst(s, Len(buckets) + 1, FALSE)
  <2>1. /\ EventScan.start \in Nat /\ (EventScan.start # 0 <=> Stormy(Len(buckets)))
        /\ EventScan.start # 0 => Opened(EventScan.start, Len(buckets))
    BY <1>1 DEF EventFound, EventScans
  <2>2. ASSUME NEW s \in Nat, Opened(s, Len(buckets))
        PROVE  EventScan.start = s /\ EventScan.start # 0
    <3>1. Len(buckets) \in Nat /\ Stormy(Len(buckets))
      BY <2>2 DEF Opened
    <3>2. QED
      BY <2>1, <2>2, <3>1, OpenedOnce
  <2>3. CASE EventScan.start = 0
    <3>1. Unfinished = {}
      BY <2>3 DEF Unfinished
    <3>2. QED
      BY <2>2, <2>3, <3>1
  <2>4. CASE EventScan.start # 0
    <3>1. Unfinished = {Burst(EventScan.start, Len(buckets) + 1, FALSE)}
      BY <2>4 DEF Unfinished
    <3>2. Opened(EventScan.start, Len(buckets))
      BY <2>1, <2>4
    <3>3. QED
      BY <2>1, <2>2, <3>1, <3>2
  <2>5. QED
    BY <2>3, <2>4
<1>4. BurstEvents = EventScan.events \cup Unfinished
  BY DEF BurstEvents
<1>5. \A b : b \in BurstEvents <=> b \in Bursts
  BY <1>2, <1>3, <1>4, BurstsAre DEF IsBurst
<1>6. QED
  BY <1>5

(* analyze_aimd_behavior counts the bursts of the definition. *)
LEMMA AimdAreBursts ==
  ASSUME buckets \in Seq(Series), Len(buckets) >= 2
  PROVE  AimdBursts = Bursts
<1> DEFINE x == AimdScan
           N == Len(buckets)
<1>1. AimdFound(x, N) /\ N \in Nat
  BY AimdFinds
<1> HIDE DEF x, N
<1>2. /\ x.starts \in Seq(Nat) /\ x.ends \in Seq(Nat)
      /\ Len(x.starts) \in Nat /\ Len(x.ends) \in Nat
  BY <1>1 DEF AimdFound, AimdScans
<1>3. /\ x.inBurst => Len(x.starts) = Len(x.ends) + 1
      /\ ~x.inBurst => Len(x.starts) = Len(x.ends)
  <2>1. /\ x.inBurst => Len(x.starts) = Len(x.ends) + 1
        /\ ~x.inBurst => Len(x.starts) = Len(x.ends) + 0
    BY <1>1 DEF AimdFound
  <2>2. QED
    BY <1>2, <2>1
<1>4. /\ \A k \in 1..Len(x.ends) : AimdEnds[k] = x.ends[k]
      /\ x.inBurst => AimdEnds[Len(x.ends) + 1] = N + 1
  BY <1>1, <1>2 DEF AimdEnds, x, N
<1>5. \A k \in 1..Len(x.starts) : k \in Recoveries <=> k <= Len(x.ends)
  BY <1>2, <1>3 DEF Recoveries, x
<1>6. \A b : b \in AimdBursts <=>
         \E k \in 1..Len(x.starts) : b = Burst(x.starts[k], AimdEnds[k], k \in Recoveries)
  <2>1. AimdBursts = {Burst(x.starts[k], AimdEnds[k], k \in Recoveries) : k \in DOMAIN x.starts}
    BY DEF AimdBursts, x
  <2>2. DOMAIN x.starts = 1..Len(x.starts)
    BY <1>2
  <2>3. QED
    BY <2>1, <2>2
<1>7. ASSUME NEW b, b \in AimdBursts
      PROVE  IsBurst(b)
  <2>1. PICK k \in 1..Len(x.starts) : b = Burst(x.starts[k], AimdEnds[k], k \in Recoveries)
    BY <1>6, <1>7
  <2>2. x.starts[k] \in Nat
    BY <1>2
  <2>3. CASE k <= Len(x.ends)
    <3>1. k \in 1..Len(x.ends) /\ (k \in Recoveries) = TRUE
      BY <1>2, <1>5, <2>3
    <3>2. b = Burst(x.starts[k], x.ends[k], TRUE)
      BY <1>4, <2>1, <3>1
    <3>3. Closed(x.starts[k], x.ends[k]) /\ x.ends[k] \in 2..N
      BY <1>1, <3>1 DEF AimdFound
    <3>4. QED
      BY <2>2, <3>2, <3>3 DEF IsBurst, N
  <2>4. CASE ~(k <= Len(x.ends))
    <3>1. /\ x.inBurst /\ k = Len(x.ends) + 1 /\ k = Len(x.starts)
          /\ (k \in Recoveries) = FALSE
      BY <1>2, <1>3, <1>5, <2>4
    <3>2. b = Burst(x.starts[k], N + 1, FALSE)
      BY <1>4, <2>1, <3>1
    <3>3. Opened(x.starts[k], N)
      BY <1>1, <3>1 DEF AimdFound
    <3>4. QED
      BY <2>2, <3>2, <3>3 DEF IsBurst, N
  <2>5. QED
    BY <2>3, <2>4
<1>8. ASSUME NEW b, IsBurst(b)
      PROVE  b \in AimdBursts
  <2>1. CASE \E s \in Nat, e \in 2..N : Closed(s, e) /\ b = Burst(s, e, TRUE)
    <3>1. PICK s \in Nat, e \in 2..N : Closed(s, e) /\ b = Burst(s, e, TRUE)
      BY <2>1
    <3>2. PICK k \in 1..Len(x.ends) : x.starts[k] = s /\ x.ends[k] = e
      BY <1>1, <3>1 DEF AimdFound
    <3>3. k \in 1..Len(x.starts) /\ (k \in Recoveries) = TRUE
      BY <1>2, <1>3, <1>5
    <3>4. b = Burst(x.starts[k], AimdEnds[k], k \in Recoveries)
      BY <1>4, <3>1, <3>2, <3>3
    <3>5. QED
      BY <1>6, <3>3, <3>4
  <2>2. CASE \E s \in Nat : Opened(s, N) /\ b = Burst(s, N + 1, FALSE)
    <3>1. PICK s \in Nat : Opened(s, N) /\ b = Burst(s, N + 1, FALSE)
      BY <2>2
    <3>2. Stormy(N)
      BY <1>1, <3>1 DEF Opened
    <3>3. x.inBurst /\ Opened(x.starts[Len(x.starts)], N)
      BY <1>1, <3>2 DEF AimdFound
    <3>4. x.starts[Len(x.starts)] = s
      BY <1>1, <3>1, <3>3, OpenedOnce
    <3>5. /\ Len(x.starts) = Len(x.ends) + 1 /\ Len(x.starts) \in 1..Len(x.starts)
          /\ (Len(x.starts) \in Recoveries) = FALSE
      BY <1>2, <1>3, <1>5, <3>3
    <3>6. b = Burst(x.starts[Len(x.starts)], AimdEnds[Len(x.starts)],
                    Len(x.starts) \in Recoveries)
      BY <1>4, <3>1, <3>3, <3>4, <3>5
    <3>7. QED
      BY <1>6, <3>5, <3>6
  <2>3. QED
    BY <1>8, <2>1, <2>2 DEF IsBurst, N
<1>9. \A b : b \in AimdBursts <=> b \in Bursts
  BY <1>7, <1>8, BurstsAre
<1>10. QED
  BY <1>9

(* The starts and ends of the bursts enclose exactly their buckets. *)
LEMMA ThroughputOfBursts ==
  ASSUME buckets \in Seq(Series), NEW i \in DOMAIN buckets
  PROVE  Stormy(i) <=>
           \E k \in DOMAIN AimdScan.starts : AimdScan.starts[k] <= i /\ i < AimdEnds[k]
<1> DEFINE x == AimdScan
           N == Len(buckets)
<1>1. AimdFound(x, N) /\ N \in Nat /\ i \in 1..N
  BY AimdFinds
<1> HIDE DEF x, N
<1>2. /\ x.starts \in Seq(Nat) /\ x.ends \in Seq(Nat) /\ DOMAIN x.starts = 1..Len(x.starts)
      /\ Len(x.starts) \in Nat /\ Len(x.ends) \in Nat
  BY <1>1 DEF AimdFound, AimdScans
<1>3. /\ x.inBurst => Len(x.starts) = Len(x.ends) + 1
      /\ ~x.inBurst => Len(x.starts) = Len(x.ends)
  <2>1. /\ x.inBurst => Len(x.starts) = Len(x.ends) + 1
        /\ ~x.inBurst => Len(x.starts) = Len(x.ends) + 0
    BY <1>1 DEF AimdFound
  <2>2. QED
    BY <1>2, <2>1
<1>4. /\ \A k \in 1..Len(x.ends) : AimdEnds[k] = x.ends[k]
      /\ x.inBurst => AimdEnds[Len(x.ends) + 1] = N + 1
  BY <1>1, <1>2 DEF AimdEnds, x, N
<1>5. ASSUME Stormy(i)
      PROVE  \E k \in 1..Len(x.starts) : x.starts[k] <= i /\ i < AimdEnds[k]
  <2>1. PICK k \in 1..Len(x.starts) : x.starts[k] <= i /\ (k <= Len(x.ends) => i < x.ends[k])
    BY <1>1, <1>5 DEF AimdFound
  <2>2. CASE k <= Len(x.ends)
    <3>1. k \in 1..Len(x.ends)
      BY <1>2, <2>2
    <3>2. QED
      BY <1>4, <2>1, <2>2, <3>1
  <2>3. CASE ~(k <= Len(x.ends))
    <3>1. x.inBurst /\ k = Len(x.ends) + 1
      BY <1>2, <1>3, <2>3
    <3>2. QED
      BY <1>1, <1>4, <2>1, <3>1
  <2>4. QED
    BY <2>2, <2>3
<1>6. ASSUME NEW k \in 1..Len(x.starts), x.starts[k] <= i, i < AimdEnds[k]
      PROVE  Stormy(i)
  <2>1. CASE k <= Len(x.ends)
    <3>1. k \in 1..Len(x.ends)
      BY <1>2, <2>1
    <3>2. Closed(x.starts[k], x.ends[k]) /\ x.ends[k] \in 2..N /\ AimdEnds[k] = x.ends[k]
      BY <1>1, <1>4, <3>1 DEF AimdFound
    <3>3. QED
      BY <1>1, <1>6, <3>2 DEF Closed, Opened
  <2>2. CASE ~(k <= Len(x.ends))
    <3>1. x.inBurst /\ k = Len(x.starts)
      BY <1>2, <1>3, <2>2
    <3>2. Opened(x.starts[k], N)
      BY <1>1, <3>1 DEF AimdFound
    <3>3. QED
      BY <1>1, <1>6, <3>2 DEF Opened
  <2>3. QED
    BY <2>1, <2>2
<1>7. QED
  BY <1>2, <1>5, <1>6 DEF x

(* Whatever the time series, both tools find its bursts and only those. *)
THEOREM BurstsFound == SeriesSpec => []BurstsAreFound
<1> DEFINE Inv == buckets \in Seq(Series)
<1>1. SeriesInit => Inv
  BY DEF SeriesInit
<1>2. Inv /\ [GrowSeries]_buckets => Inv'
  BY DEF GrowSeries
<1>3. Inv => BurstsAreFound
  <2> SUFFICES ASSUME Inv
               PROVE  BurstsAreFound
    OBVIOUS
  <2>1. Len(buckets) >= 2 => AimdBursts = Bursts
    BY AimdAreBursts
  <2>2. Len(buckets) >= 3 => BurstEvents = Bursts
    BY EventsAreBursts
  <2>3. Throughput(TRUE) = {i \in DOMAIN buckets : Stormy(i)}
    BY ThroughputOfBursts DEF Throughput
  <2>4. Throughput(FALSE) = {i \in DOMAIN buckets : ~Stormy(i)}
    BY ThroughputOfBursts DEF Throughput
  <2>5. QED
    BY <2>1, <2>2, <2>3, <2>4 DEF BurstsAreFound
<1>4. QED
  BY <1>1, <1>2, <1>3, PTL DEF SeriesSpec
=============================================================================
