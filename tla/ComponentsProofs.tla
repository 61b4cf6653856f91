-------------------------- MODULE ComponentsProofs --------------------------
(***************************************************************************)
(* Theorems of two parts around a request handler, which share no state:   *)
(* PresetBank implements RoundRobin, for any callers, generators, banks,   *)
(* settings and any size of the file, and the processes of a WorkerPool    *)
(* are configured as they were told, for any number of workers.            *)
(***************************************************************************)
EXTENDS PresetBank, WorkerPool, TLAPS

-----------------------------------------------------------------------------
(* The invariant of a preset bank. *)

Labels == {"idle", "check", "lock", "load", "unlock", "next", "choose", "read",
           "advance", "release", "reset"}

Generator == [settings : Settings, bank : Banks \cup {NoBank}, lock : Callers \cup {NoCaller}]
Bank == [index : Responses, lock : Callers \cup {NoCaller}]
CallState == [pc : Labels, generator : Generators, bank : Banks \cup {NoBank},
              response : Responses]

Typed ==
  /\ current \in Generators
  /\ generator \in [Generators -> Generator]
  /\ bank \in [Banks -> Bank]
  /\ call \in [Callers -> CallState]
  /\ served \in [Callers -> Responses \cup {Nothing}]

(* Where a caller has taken the bank of its generator, and where it owns   *)
(* the lock of that bank.                                                  *)
HasBank(c) == call[c].pc \in {"next", "choose", "read", "advance", "release", "reset"}
OwnsBank(c) == call[c].pc \in {"choose", "read", "advance", "release"}

(* A bank belongs to one generator. *)
BanksAreOwn ==
  \A g, h \in Generators : g # h /\ generator[g].bank # NoBank =>
    generator[g].bank # generator[h].bank

(* Once loaded the bank stays, as long as a caller uses the generator:     *)
(* what a caller has read of it, with or without _preset_lock, stays true. *)
CallersHoldBank ==
  \A c \in Callers :
    /\ HasBank(c) => call[c].bank = Mine(c).bank
    /\ HasBank(c) \/ call[c].pc = "unlock" => Mine(c).bank # NoBank

(* The lock of a bank excludes, and what was read under it stays true. *)
BankIsLocked ==
  \A c \in Callers :
    /\ OwnsBank(c) => bank[call[c].bank].lock = c
    /\ call[c].pc = "choose" => Mine(c).settings.selection = "random"
    /\ call[c].pc \in {"read", "advance"} => Mine(c).settings.selection = "sequential"
    /\ call[c].pc = "advance" => call[c].response = bank[call[c].bank].index

BankInv == Typed /\ BanksAreOwn /\ CallersHoldBank /\ BankIsLocked

-----------------------------------------------------------------------------
(* What the steps of a caller change. *)

LEMMA NewTyped ==
  /\ NewBank \in Bank
  /\ \A s \in Settings : NewGenerator(s) \in Generator
  /\ Generators # {} => NoCall \in CallState
BY BankAssumption
   DEF BankAssumption, NewBank, NewGenerator, NoCall, Bank, Generator, CallState, Labels,
       Responses

LEMMA InitTyped == BankInit => Typed
BY NewTyped DEF BankInit, Typed

LEMMA ContinueTyped ==
  ASSUME Typed, NEW c \in Callers, NEW label \in Labels, Continue(c, label)
  PROVE  /\ call' \in [Callers -> CallState]
         /\ call'[c].pc = label
         /\ call'[c].generator = call[c].generator
         /\ call'[c].bank = call[c].bank
         /\ call'[c].response = call[c].response
         /\ \A d \in Callers : d # c => call'[d] = call[d]
BY DEF Continue, Typed, CallState

LEMMA EndTyped ==
  ASSUME Typed, NEW c \in Callers, EndCall(c)
  PROVE  /\ call' \in [Callers -> CallState]
         /\ call'[c].pc = "idle"
         /\ \A d \in Callers : d # c => call'[d] = call[d]
BY NewTyped DEF EndCall, Typed, NoCall

LEMMA BankTaken ==
  ASSUME BankInv, NEW c \in Callers, HasBank(c)
  PROVE  /\ call[c].generator \in Generators
         /\ call[c].bank \in Banks
         /\ generator[call[c].generator].bank = call[c].bank
BY DEF BankInv, Typed, CallersHoldBank, Mine, Generator, CallState

LEMMA NextTyped == BankInv /\ [BankNext]_bankVars => Typed'
<1> SUFFICES ASSUME BankInv, [BankNext]_bankVars
             PROVE  Typed'
  OBVIOUS
<1> USE DEF Typed, CallAt, Mine, BankInv
<1>1. ASSUME NEW c \in Callers, Generate(c)
      PROVE  Typed'
  BY <1>1 DEF Generate, CallState, Labels
<1>2. ASSUME NEW c \in Callers, CheckBank(c)
      PROVE  Typed'
  BY <1>2, ContinueTyped DEF CheckBank, CallState, Labels, Generator
<1>3. ASSUME NEW c \in Callers, LockPreset(c)
      PROVE  Typed'
  BY <1>3, ContinueTyped DEF LockPreset, CallState, Labels, Generator
<1>4. ASSUME NEW c \in Callers, LoadBank(c)
      PROVE  Typed'
  <2>1. call' \in [Callers -> CallState] /\ call[c].generator \in Generators
    BY <1>4, ContinueTyped DEF LoadBank, CallState, Labels
  <2>2. CASE UNCHANGED <<generator, bank>>
    BY <1>4, <2>1, <2>2 DEF LoadBank
  <2>3. CASE \E b \in Unused : /\ generator' = [generator EXCEPT ![call[c].generator].bank = b]
                               /\ bank' = [bank EXCEPT ![b] = NewBank]
    <3>1. PICK b \in Banks : /\ generator' = [generator EXCEPT ![call[c].generator].bank = b]
                             /\ bank' = [bank EXCEPT ![b] = NewBank]
      BY <2>3 DEF Unused
    <3>2. bank' \in [Banks -> Bank]
      BY <3>1, NewTyped
    <3>3. generator' \in [Generators -> Generator]
      BY <3>1, <2>1 DEF Generator
    <3>4. QED
      BY <1>4, <2>1, <3>2, <3>3 DEF LoadBank
  <2>4. QED
    BY <1>4, <2>2, <2>3 DEF LoadBank
<1>5. ASSUME NEW c \in Callers, LoadFails(c)
      PROVE  Typed'
  BY <1>5, EndTyped DEF LoadFails, CallState, Generator
<1>6. ASSUME NEW c \in Callers, UnlockPreset(c)
      PROVE  Typed'
  BY <1>6 DEF UnlockPreset, CallState, Labels, Generator
<1>7. ASSUME NEW c \in Callers, LockBank(c)
      PROVE  Typed'
  <2>1. call' \in [Callers -> CallState]
    <3>1. CASE Mine(c).settings.selection = "random"
      BY <1>7, <3>1, ContinueTyped DEF LockBank, Labels
    <3>2. CASE Mine(c).settings.selection # "random"
      BY <1>7, <3>2, ContinueTyped DEF LockBank, Labels
    <3>3. QED
      BY <3>1, <3>2
  <2>2. bank' \in [Banks -> Bank]
    BY <1>7, BankTaken DEF LockBank, HasBank, Bank
  <2>3. QED
    BY <1>7, <2>1, <2>2 DEF LockBank
<1>8. ASSUME NEW c \in Callers, Choose(c)
      PROVE  Typed'
  BY <1>8, ContinueTyped DEF Choose, Labels
<1>9. ASSUME NEW c \in Callers, Read(c)
      PROVE  Typed'
  <2>1. bank[call[c].bank].index \in Responses
    BY <1>9, BankTaken DEF Read, HasBank, Bank
  <2>2. QED
    BY <1>9, <2>1 DEF Read, CallState, Labels
<1>10. ASSUME NEW c \in Callers, Advance(c)
       PROVE  Typed'
  <2>1. /\ call[c].bank \in Banks /\ call[c].response \in Responses
        /\ (bank[call[c].bank].index + 1) % Size \in Responses
    BY <1>10, BankTaken, BankAssumption
       DEF Advance, HasBank, Bank, Responses, CallState, BankAssumption
  <2>2. bank' \in [Banks -> Bank]
    BY <1>10, <2>1 DEF Advance, Bank
  <2>3. QED
    BY <1>10, <2>1, <2>2, ContinueTyped DEF Advance, Labels
<1>11. ASSUME NEW c \in Callers, ReleaseBank(c)
       PROVE  Typed'
  BY <1>11, EndTyped DEF ReleaseBank, Bank
<1>12. ASSUME NEW c \in Callers, ResetCall(c)
       PROVE  Typed'
  BY <1>12 DEF ResetCall, CallState, Labels, Generator
<1>13. ASSUME NEW c \in Callers, ResetBank(c)
       PROVE  Typed'
  <2>1. call[c].bank \in Banks /\ 0 \in Responses
    BY <1>13, BankTaken, BankAssumption DEF ResetBank, HasBank, Responses, BankAssumption
  <2>2. bank' \in [Banks -> Bank]
    BY <1>13, <2>1 DEF ResetBank, Bank
  <2>3. QED
    BY <1>13, <2>2, EndTyped DEF ResetBank
<1>14. CASE ReplaceGenerator
  BY <1>14, NewTyped DEF ReplaceGenerator
<1>15. CASE UNCHANGED bankVars
  BY <1>15 DEF bankVars
<1>16. QED
  BY <1>1, <1>2, <1>3, <1>4, <1>5, <1>6, <1>7, <1>8, <1>9, <1>10, <1>11, <1>12, <1>13, <1>14,
     <1>15 DEF BankNext, CallerStep
-----------------------------------------------------------------------------
(* The invariant is inductive. *)

LEMMA InitInv == BankInit => BankInv
BY InitTyped, BankAssumption
   DEF BankInit, BankInv, BanksAreOwn, CallersHoldBank, BankIsLocked, NewGenerator, NoCall,
       HasBank, OwnsBank, Mine, BankAssumption

LEMMA BanksStayOwn == BankInv /\ [BankNext]_bankVars => BanksAreOwn'
<1> SUFFICES ASSUME BankInv, [BankNext]_bankVars
             PROVE  BanksAreOwn'
  OBVIOUS
<1> USE DEF BankInv, Typed, BanksAreOwn
<1>1. CASE \A g \in Generators : generator'[g].bank = generator[g].bank
  BY <1>1
<1>2. ASSUME NEW c \in Callers, LoadBank(c)
      PROVE  BanksAreOwn'
  <2>1. CASE UNCHANGED generator
    BY <1>1, <2>1
  <2>2. CASE \E b \in Unused : generator' = [generator EXCEPT ![call[c].generator].bank = b]
    <3>1. PICK b \in Banks : /\ generator' = [generator EXCEPT ![call[c].generator].bank = b]
                             /\ \A g \in Generators : generator[g].bank # b
      BY <2>2 DEF Unused
    <3>2. \A g \in Generators :
            generator'[g].bank = IF g = call[c].generator THEN b ELSE generator[g].bank
      BY <3>1 DEF Generator
    <3>3. QED
      BY <3>1, <3>2
  <2>3. QED
    BY <1>2, <2>1, <2>2 DEF LoadBank
<1>3. ASSUME NEW c \in Callers, CallerStep(c), ~LoadBank(c)
      PROVE  BanksAreOwn'
  <2>1. CASE UNCHANGED generator
    BY <1>1, <2>1
  <2>2. CASE \E o \in Callers \cup {NoCaller} :
               generator' = [generator EXCEPT ![call[c].generator].lock = o]
    BY <1>1, <2>2 DEF Generator
  <2>3. QED
    BY <1>3, <2>1, <2>2
       DEF CallerStep, Generate, CheckBank, LockPreset, LoadFails, UnlockPreset, LockBank, Choose,
           Read, Advance, ReleaseBank, ResetCall, ResetBank
<1>4. CASE ReplaceGenerator
  <2>1. PICK h \in Generators, s \in Settings : generator' = [generator EXCEPT ![h] = NewGenerator(s)]
    BY <1>4 DEF ReplaceGenerator
  <2>2. \A g \in Generators : generator'[g].bank = IF g = h THEN NoBank ELSE generator[g].bank
    BY <2>1 DEF NewGenerator
  <2>3. QED
    BY <2>2
<1>5. CASE UNCHANGED bankVars
  BY <1>1, <1>5 DEF bankVars
<1>6. QED
  BY <1>2, <1>3, <1>4, <1>5 DEF BankNext

(* A caller's step leaves the others' calls, the settings and the loaded   *)
(* banks alone.                                                            *)
LEMMA StepKeeps ==
  ASSUME BankInv, NEW c \in Callers, CallerStep(c)
  PROVE  /\ \A d \in Callers : d # c => call'[d] = call[d]
         /\ \A g \in Generators : /\ generator'[g].settings = generator[g].settings
                                  /\ generator[g].bank # NoBank => generator'[g].bank = generator[g].bank
<1> USE DEF BankInv, Typed
<1>1. \A d \in Callers : d # c => call'[d] = call[d]
  BY DEF CallerStep, Generate, CheckBank, LockPreset, LoadBank, LoadFails, UnlockPreset, LockBank,
         Choose, Read, Advance, ReleaseBank, ResetCall, ResetBank, Continue, EndCall
<1>2. \A g \in Generators : /\ generator'[g].settings = generator[g].settings
                            /\ generator[g].bank # NoBank => generator'[g].bank = generator[g].bank
  <2>1. CASE UNCHANGED generator
    BY <2>1
  <2>2. CASE \E o \in Callers \cup {NoCaller} :
               generator' = [generator EXCEPT ![call[c].generator].lock = o]
    BY <2>2 DEF Generator
  <2>3. CASE Mine(c).bank = NoBank /\ \E b \in Banks :
               generator' = [generator EXCEPT ![call[c].generator].bank = b]
    BY <2>3 DEF Generator, Mine
  <2>4. QED
    BY <2>1, <2>2, <2>3
       DEF CallerStep, Generate, CheckBank, LockPreset, LoadBank, LoadFails, UnlockPreset, LockBank,
           Choose, Read, Advance, ReleaseBank, ResetCall, ResetBank, Unused
<1>3. QED
  BY <1>1, <1>2

LEMMA ReplaceKeeps ==
  ASSUME BankInv, ReplaceGenerator, NEW c \in Callers, call[c].pc # "idle"
  PROVE  call'[c] = call[c] /\ generator'[call[c].generator] = generator[call[c].generator]
BY DEF BankInv, Typed, ReplaceGenerator, CallAt, CallState

LEMMA CallersKeepBank == BankInv /\ [BankNext]_bankVars => CallersHoldBank'
<1> SUFFICES ASSUME BankInv, [BankNext]_bankVars, NEW d \in Callers
             PROVE  /\ HasBank(d)' => call'[d].bank = Mine(d)'.bank
                    /\ HasBank(d)' \/ call'[d].pc = "unlock" => Mine(d)'.bank # NoBank
  BY DEF CallersHoldBank
<1> USE DEF BankInv, Typed, CallState, CallersHoldBank, HasBank, Mine
<1>1. ASSUME NEW c \in Callers, CallerStep(c), c # d
      PROVE  /\ HasBank(d)' => call'[d].bank = Mine(d)'.bank
             /\ HasBank(d)' \/ call'[d].pc = "unlock" => Mine(d)'.bank # NoBank
  BY <1>1, StepKeeps
<1>2. ASSUME CallerStep(d)
      PROVE  /\ HasBank(d)' => call'[d].bank = Mine(d)'.bank
             /\ HasBank(d)' \/ call'[d].pc = "unlock" => Mine(d)'.bank # NoBank
  <2>1. CASE LoadBank(d)
    <3>1. call'[d].pc = "unlock" /\ call'[d].generator = call[d].generator
      BY <2>1, ContinueTyped DEF LoadBank, Labels
    <3>2. generator'[call[d].generator].bank # NoBank
      <4>1. CASE Mine(d).bank # NoBank
        BY <2>1, <4>1 DEF LoadBank
      <4>2. CASE Mine(d).bank = NoBank
        <5>1. PICK b \in Banks : generator' = [generator EXCEPT ![call[d].generator].bank = b]
          BY <2>1, <4>2 DEF LoadBank, Unused
        <5>2. QED
          BY <5>1, BankAssumption DEF Generator, BankAssumption
      <4>3. QED
        BY <4>1, <4>2
    <3>3. QED
      BY <3>1, <3>2
  <2>2. CASE UnlockPreset(d)
    BY <2>2, StepKeeps, <1>2 DEF UnlockPreset, CallAt
  <2>3. CASE CheckBank(d)
    <3>1. CASE Mine(d).bank = NoBank
      BY <2>3, <3>1, ContinueTyped DEF CheckBank, Labels
    <3>2. CASE Mine(d).bank # NoBank
      BY <2>3, <3>2 DEF CheckBank
    <3>3. QED
      BY <3>1, <3>2
  <2>4. CASE ResetCall(d)
    BY <2>4 DEF ResetCall
  <2>5. CASE Generate(d)
    BY <2>5 DEF Generate
  <2>6. CASE LockPreset(d)
    BY <2>6, ContinueTyped DEF LockPreset, Labels
  <2>7. CASE LoadFails(d) \/ ReleaseBank(d) \/ ResetBank(d)
    BY <2>7, EndTyped DEF LoadFails, ReleaseBank, ResetBank
  <2>8. CASE LockBank(d)
    <3>1. PICK label \in {"choose", "read"} : Continue(d, label)
      BY <2>8 DEF LockBank
    <3>2. QED
      BY <2>8, <3>1, ContinueTyped DEF LockBank, Labels, CallAt
  <2>9. CASE Choose(d) \/ Advance(d)
    BY <2>9, ContinueTyped DEF Choose, Advance, Labels, CallAt
  <2>10. CASE Read(d)
    BY <2>10 DEF Read, CallAt
  <2>11. QED
    BY <1>2, <2>1, <2>2, <2>3, <2>4, <2>5, <2>6, <2>7, <2>8, <2>9, <2>10 DEF CallerStep
<1>3. CASE ReplaceGenerator
  <2>1. CASE call[d].pc = "idle"
    BY <1>3, <2>1 DEF ReplaceGenerator
  <2>2. CASE call[d].pc # "idle"
    BY <1>3, <2>2, ReplaceKeeps
  <2>3. QED
    BY <2>1, <2>2
<1>4. CASE UNCHANGED bankVars
  BY <1>4 DEF bankVars
<1>5. QED
  BY <1>1, <1>2, <1>3, <1>4 DEF BankNext

(* No other caller's step touches a bank that a caller has locked, nor     *)
(* takes it.                                                               *)
LEMMA LockedBankStays ==
  ASSUME BankInv, NEW c \in Callers, CallerStep(c), NEW d \in Callers, d # c, OwnsBank(d)
  PROVE  bank'[call[d].bank] = bank[call[d].bank]
<1> USE DEF BankInv, Typed
<1>1. call[d].bank \in Banks /\ bank[call[d].bank].lock = d /\ d # NoCaller
  BY BankTaken, BankAssumption DEF HasBank, OwnsBank, BankIsLocked, BankAssumption
<1>2. CASE UNCHANGED bank
  BY <1>2
<1>3. CASE LoadBank(c)
  BY <1>1, <1>3 DEF LoadBank, Unused
<1>4. CASE LockBank(c) \/ ResetBank(c)
  <2>1. HasBank(c) /\ bank[call[c].bank].lock = NoCaller
    BY <1>4 DEF LockBank, ResetBank, HasBank, CallAt
  <2>2. call[c].bank # call[d].bank
    BY <1>1, <2>1
  <2>3. QED
    BY <1>1, <1>4, <2>2 DEF LockBank, ResetBank
<1>5. CASE Advance(c) \/ ReleaseBank(c)
  <2>1. bank[call[c].bank].lock = c
    BY <1>5 DEF Advance, ReleaseBank, OwnsBank, CallAt, BankIsLocked
  <2>2. call[c].bank # call[d].bank
    BY <1>1, <2>1
  <2>3. QED
    BY <1>1, <1>5, <2>2 DEF Advance, ReleaseBank
<1>6. QED
  BY <1>2, <1>3, <1>4, <1>5
     DEF CallerStep, Generate, CheckBank, LockPreset, LoadFails, UnlockPreset, Choose, Read, ResetCall

(* What BankIsLocked says of one caller. *)
Owned(c) ==
  /\ OwnsBank(c) => bank[call[c].bank].lock = c
  /\ call[c].pc = "choose" => Mine(c).settings.selection = "random"
  /\ call[c].pc \in {"read", "advance"} => Mine(c).settings.selection = "sequential"
  /\ call[c].pc = "advance" => call[c].response = bank[call[c].bank].index

LEMMA BanksStayLocked == BankInv /\ [BankNext]_bankVars => BankIsLocked'
<1> SUFFICES ASSUME BankInv, [BankNext]_bankVars, NEW d \in Callers
             PROVE  Owned(d)'
  BY DEF BankIsLocked, Owned
<1> USE DEF BankInv, Typed, CallState, Owned, OwnsBank, Mine
<1>0. Owned(d)
  BY DEF BankIsLocked
<1>1. ASSUME NEW c \in Callers, CallerStep(c), c # d
      PROVE  Owned(d)'
  BY <1>0, <1>1, StepKeeps, LockedBankStays
<1>2. ASSUME CallerStep(d)
      PROVE  Owned(d)'
  <2>1. CASE ~OwnsBank(d)'
    BY <2>1
  <2>2. CASE LockBank(d)
    <3>1. /\ call[d].bank \in Banks
          /\ bank'[call[d].bank].lock = d
          /\ generator' = generator
      BY <2>2, BankTaken DEF LockBank, HasBank, CallAt, Bank
    <3>2. CASE Mine(d).settings.selection = "random"
      BY <2>2, <3>1, <3>2, ContinueTyped DEF LockBank, Labels
    <3>3. CASE Mine(d).settings.selection # "random"
      <4>1. Mine(d).settings.selection = "sequential"
        BY <3>3, BankAssumption DEF BankAssumption, Generator
      <4>2. QED
        BY <2>2, <3>1, <3>3, <4>1, ContinueTyped DEF LockBank, Labels
    <3>4. QED
      BY <3>2, <3>3
  <2>3. CASE Choose(d)
    BY <1>0, <2>3, ContinueTyped DEF Choose, Labels, CallAt
  <2>4. CASE Read(d)
    BY <1>0, <2>4 DEF Read, CallAt
  <2>5. CASE Advance(d)
    <3>1. call[d].bank \in Banks
      BY <2>5, BankTaken DEF Advance, CallAt, HasBank
    <3>2. bank'[call[d].bank].lock = bank[call[d].bank].lock
      BY <2>5, <3>1 DEF Advance, Bank
    <3>3. QED
      BY <1>0, <2>5, <3>2, ContinueTyped DEF Advance, Labels, CallAt
  <2>6. CASE Generate(d) \/ ResetCall(d) \/ UnlockPreset(d)
    BY <2>1, <2>6 DEF Generate, ResetCall, UnlockPreset
  <2>7. CASE CheckBank(d)
    <3>1. CASE Mine(d).bank = NoBank
      BY <2>1, <2>7, <3>1, ContinueTyped DEF CheckBank, Labels
    <3>2. CASE Mine(d).bank # NoBank
      BY <2>1, <2>7, <3>2 DEF CheckBank
    <3>3. QED
      BY <3>1, <3>2
  <2>8. CASE LockPreset(d) \/ LoadBank(d)
    BY <2>1, <2>8, ContinueTyped DEF LockPreset, LoadBank, Labels
  <2>9. CASE LoadFails(d) \/ ReleaseBank(d) \/ ResetBank(d)
    BY <2>1, <2>9, EndTyped DEF LoadFails, ReleaseBank, ResetBank
  <2>10. QED
    BY <1>2, <2>2, <2>3, <2>4, <2>5, <2>6, <2>7, <2>8, <2>9 DEF CallerStep
<1>3. CASE ReplaceGenerator
  <2>1. CASE call[d].pc = "idle"
    BY <1>3, <2>1 DEF ReplaceGenerator
  <2>2. CASE call[d].pc # "idle"
    BY <1>0, <1>3, <2>2, ReplaceKeeps DEF ReplaceGenerator
  <2>3. QED
    BY <2>1, <2>2
<1>4. CASE UNCHANGED bankVars
  BY <1>0, <1>4 DEF bankVars
<1>5. QED
  BY <1>1, <1>2, <1>3, <1>4 DEF BankNext

LEMMA InvHolds == BankSpec => []BankInv
<1>1. BankInv /\ [BankNext]_bankVars => BankInv'
  BY NextTyped, BanksStayOwn, CallersKeepBank, BanksStayLocked DEF BankInv
<1>2. QED
  BY InitInv, <1>1, PTL DEF BankSpec

-----------------------------------------------------------------------------
(* The refinement. *)

(* What the mapping makes of the state. *)
Kind == [g \in Generators |-> generator[g].settings.selection]
NextResponse == [g \in Generators |->
                   LET b == generator[g].bank IN IF b = NoBank THEN 0 ELSE bank[b].index]

LEMMA InitImplements == BankInit => Dispenser!Init
BY BankAssumption, NewTyped
   DEF BankInit, Dispenser!Init, NewGenerator, NewBank, Generator, BankAssumption

(* A step that leaves the settings, the banks of the generators and the    *)
(* indexes of loaded banks alone does not move the abstract state.         *)
LEMMA Stutters ==
  ASSUME BankInv, served' = served,
         \A g \in Generators :
           /\ generator'[g].settings = generator[g].settings
           /\ generator'[g].bank = generator[g].bank
           /\ generator[g].bank # NoBank =>
                bank'[generator[g].bank].index = bank[generator[g].bank].index
  PROVE  UNCHANGED Dispenser!vars
<1>1. Kind' = Kind
  BY DEF Kind
<1>2. NextResponse' = NextResponse
  BY DEF NextResponse
<1>3. QED
  BY <1>1, <1>2 DEF Dispenser!vars, Kind, NextResponse

LEMMA LoadStutters ==
  ASSUME BankInv, NEW c \in Callers, LoadBank(c)
  PROVE  UNCHANGED Dispenser!vars
<1> USE DEF BankInv, Typed
<1>1. CASE UNCHANGED <<generator, bank>>
  BY <1>1, Stutters DEF LoadBank
<1>2. CASE \E b \in Unused : /\ Mine(c).bank = NoBank
                             /\ generator' = [generator EXCEPT ![call[c].generator].bank = b]
                             /\ bank' = [bank EXCEPT ![b] = NewBank]
  <2>1. PICK b \in Unused : /\ Mine(c).bank = NoBank
                            /\ generator' = [generator EXCEPT ![call[c].generator].bank = b]
                            /\ bank' = [bank EXCEPT ![b] = NewBank]
    BY <1>2
  <2>2. b \in Banks /\ b # NoBank /\ \A g \in Generators : generator[g].bank # b
    BY BankAssumption DEF Unused, BankAssumption
  <2>3. /\ call[c].generator \in Generators
        /\ \A g \in Generators :
             /\ generator'[g].settings = generator[g].settings
             /\ generator'[g].bank = IF g = call[c].generator THEN b ELSE generator[g].bank
    BY <2>1 DEF Generator, CallState
  <2>4. \A a \in Banks : bank'[a].index = IF a = b THEN 0 ELSE bank[a].index
    BY <2>1 DEF NewBank
  <2>5. Kind' = Kind
    BY <2>3 DEF Kind
  <2>6. NextResponse' = NextResponse
    <3>1. ASSUME NEW g \in Generators
          PROVE  NextResponse'[g] = NextResponse[g]
      <4>1. CASE g = call[c].generator
        BY <2>1, <2>2, <2>3, <2>4, <4>1 DEF NextResponse, Mine
      <4>2. CASE g # call[c].generator
        BY <2>2, <2>3, <2>4, <4>2 DEF NextResponse, Generator
      <4>3. QED
        BY <4>1, <4>2
    <3>2. QED
      BY <3>1 DEF NextResponse
  <2>7. QED
    BY <1>2, <2>5, <2>6 DEF Dispenser!vars, Kind, NextResponse, LoadBank
<1>3. QED
  BY <1>1, <1>2 DEF LoadBank

(* Only the bank of this generator moves, since banks are their own.       *)
LEMMA IndexMoves ==
  ASSUME BankInv, NEW c \in Callers, HasBank(c), NEW n,
         bank' = [bank EXCEPT ![call[c].bank].index = n], generator' = generator
  PROVE  /\ Kind' = Kind
         /\ NextResponse' = [NextResponse EXCEPT ![call[c].generator] = n]
         /\ NextResponse[call[c].generator] = bank[call[c].bank].index
<1> USE DEF BankInv, Typed
<1> DEFINE h == call[c].generator
           b == call[c].bank
<1>1. h \in Generators /\ b \in Banks /\ generator[h].bank = b /\ b # NoBank
  BY BankTaken, BankAssumption DEF BankAssumption
<1>2. \A a \in Banks : bank'[a].index = IF a = b THEN n ELSE bank[a].index
  BY <1>1 DEF Bank
<1>3. Kind' = Kind
  BY DEF Kind
<1>4. ASSUME NEW g \in Generators
      PROVE  NextResponse'[g] = IF g = h THEN n ELSE NextResponse[g]
  <2>1. CASE g = h
    BY <1>1, <1>2, <2>1 DEF NextResponse
  <2>2. CASE g # h
    BY <1>1, <1>2, <2>2 DEF NextResponse, BanksAreOwn, Generator
  <2>3. QED
    BY <2>1, <2>2
<1>5. NextResponse' = [NextResponse EXCEPT ![h] = n]
  <2>1. /\ NextResponse' = [g \in Generators |-> NextResponse'[g]]
        /\ NextResponse = [g \in Generators |-> NextResponse[g]]
    BY DEF NextResponse
  <2>2. QED
    BY <1>1, <1>4, <2>1
<1>6. QED
  BY <1>1, <1>3, <1>5 DEF NextResponse

LEMMA AdvanceServes ==
  ASSUME BankInv, NEW c \in Callers, Advance(c)
  PROVE  Dispenser!Next
<1>1. /\ HasBank(c) /\ Mine(c).settings.selection = "sequential"
      /\ call[c].response = bank[call[c].bank].index
  BY DEF Advance, CallAt, HasBank, BankIsLocked, BankInv
<1>2. PICK g \in Generators : g = call[c].generator /\ call[c].bank \in Banks
  BY <1>1, BankTaken
<1> DEFINE n == (bank[call[c].bank].index + 1) % Size
<1>3. bank' = [bank EXCEPT ![call[c].bank].index = n] /\ generator' = generator
  BY <1>2 DEF Advance, BankInv, Typed
<1>4. /\ Kind' = Kind
      /\ NextResponse' = [NextResponse EXCEPT ![g] = n]
      /\ NextResponse[g] = bank[call[c].bank].index
  BY <1>1, <1>2, <1>3, IndexMoves
<1>5. /\ Kind[g] = "sequential"
      /\ served' = [served EXCEPT ![c] = NextResponse[g]]
      /\ NextResponse' = [NextResponse EXCEPT ![g] = (NextResponse[g] + 1) % Size]
  BY <1>1, <1>2, <1>4 DEF Advance, Kind, Mine, BankInv, Typed
<1>6. Dispenser!Serve(c, g)
  BY <1>4, <1>5 DEF Dispenser!Serve, Kind, NextResponse
<1>7. QED
  BY <1>6 DEF Dispenser!Next

LEMMA ResetRestarts ==
  ASSUME BankInv, NEW c \in Callers, ResetBank(c)
  PROVE  Dispenser!Next
<1>1. HasBank(c)
  BY DEF ResetBank, CallAt, HasBank
<1>2. PICK g \in Generators : g = call[c].generator
  BY <1>1, BankTaken
<1>3. Kind' = Kind /\ NextResponse' = [NextResponse EXCEPT ![g] = 0]
  BY <1>1, <1>2, IndexMoves DEF ResetBank
<1>4. Dispenser!Restart(g)
  BY <1>3 DEF Dispenser!Restart, Kind, NextResponse, ResetBank
<1>5. QED
  BY <1>4 DEF Dispenser!Next

LEMMA ChooseDraws ==
  ASSUME BankInv, NEW c \in Callers, Choose(c)
  PROVE  Dispenser!Next
<1>1. call[c].generator \in Generators /\ Mine(c).settings.selection = "random"
  BY DEF BankInv, Typed, CallState, Choose, CallAt, BankIsLocked
<1>2. Kind' = Kind /\ NextResponse' = NextResponse
  BY DEF Choose, Kind, NextResponse
<1>3. Dispenser!Draw(c, call[c].generator)
  BY <1>1, <1>2 DEF Dispenser!Draw, Kind, NextResponse, Choose, Mine, Responses, Dispenser!Responses
<1>4. QED
  BY <1>1, <1>3 DEF Dispenser!Next

LEMMA ReplaceReplaces ==
  ASSUME BankInv, ReplaceGenerator
  PROVE  Dispenser!Next
<1> USE DEF BankInv, Typed
<1>1. PICK h \in Generators, s \in Settings : generator' = [generator EXCEPT ![h] = NewGenerator(s)]
  BY DEF ReplaceGenerator
<1>2. \A g \in Generators : generator'[g] = IF g = h THEN NewGenerator(s) ELSE generator[g]
  BY <1>1
<1>3. /\ NewGenerator(s).settings = s /\ NewGenerator(s).bank = NoBank
      /\ s.selection \in {"sequential", "random"}
  BY BankAssumption DEF NewGenerator, BankAssumption
<1>4. Kind' = [Kind EXCEPT ![h] = s.selection]
  BY <1>2, <1>3 DEF Kind
<1>5. NextResponse' = [NextResponse EXCEPT ![h] = 0]
  <2>1. bank' = bank
    BY DEF ReplaceGenerator
  <2>2. QED
    BY <1>2, <1>3, <2>1 DEF NextResponse
<1>6. Dispenser!Replace(h)
  BY <1>3, <1>4, <1>5 DEF Dispenser!Replace, Kind, NextResponse, ReplaceGenerator
<1>7. QED
  BY <1>6 DEF Dispenser!Next

(* The first look, the lock and the load are invisible; the second look    *)
(* keeps the promise when two callers load.                                *)
LEMMA StepImplements == BankInv /\ [BankNext]_bankVars => [Dispenser!Next]_(Dispenser!vars)
<1> SUFFICES ASSUME BankInv, [BankNext]_bankVars
             PROVE  Dispenser!Next \/ UNCHANGED Dispenser!vars
  OBVIOUS
<1> USE DEF BankInv, Typed
<1>1. ASSUME NEW c \in Callers, \/ Generate(c) \/ CheckBank(c) \/ Read(c) \/ ResetCall(c)
      PROVE  UNCHANGED Dispenser!vars
  BY <1>1, Stutters DEF Generate, CheckBank, Read, ResetCall
<1>2. ASSUME NEW c \in Callers, LockPreset(c) \/ LoadFails(c) \/ UnlockPreset(c)
      PROVE  UNCHANGED Dispenser!vars
  <2>1. PICK o \in Callers \cup {NoCaller} :
          /\ generator' = [generator EXCEPT ![call[c].generator].lock = o]
          /\ UNCHANGED <<bank, served>>
    BY <1>2 DEF LockPreset, LoadFails, UnlockPreset
  <2>2. QED
    BY <2>1, Stutters DEF Generator
<1>3. ASSUME NEW c \in Callers, LockBank(c) \/ ReleaseBank(c)
      PROVE  UNCHANGED Dispenser!vars
  <2>1. PICK o \in Callers \cup {NoCaller} :
          /\ bank' = [bank EXCEPT ![call[c].bank].lock = o]
          /\ UNCHANGED <<generator, served>>
    BY <1>3 DEF LockBank, ReleaseBank
  <2>2. \A b \in Banks : bank'[b].index = bank[b].index
    BY <2>1 DEF Bank
  <2>3. QED
    BY <2>1, <2>2, Stutters DEF Generator
<1>4. QED
  BY <1>1, <1>2, <1>3, LoadStutters, AdvanceServes, ResetRestarts, ChooseDraws, ReplaceReplaces,
     Stutters DEF BankNext, CallerStep, bankVars

(* A sequential generator hands its responses out in the order of the      *)
(* file, none twice and none skipped, whatever loads, resets and updates   *)
(* come between: the locks of ContentGenerator and PresetBank implement    *)
(* RoundRobin.                                                             *)
THEOREM BankServesInTurn == BankSpec => ServesInTurn
<1>1. BankInv /\ [BankNext]_bankVars => [Dispenser!Next]_(Dispenser!vars)
  BY StepImplements
<1>2. QED
  BY InitImplements, InvHolds, <1>1, PTL DEF BankSpec, ServesInTurn, Dispenser!Spec

-----------------------------------------------------------------------------
(* The worker processes. *)

WorkerType == [state : {"none", "loading", "serving", "failed"}, fileVar : BOOLEAN,
               configVar : {"legacy", Unset}, config : PoolConfigs \cup {Unset}]

(* Where workers may be: between the start of the supervisor and the end   *)
(* of the pool, or behind a parent that died with its environment set.     *)
PoolRuns == parent = "run" \/ (parent = "dead" /\ fileVar)

(* The file is written before its path is exported and removed after the   *)
(* workers have been joined: while there are workers, only an outsider has *)
(* removed it.                                                             *)
FileOutlivesWorkers ==
  /\ parent = "export" \/ PoolRuns => file = "start" \/ cleaned
  /\ parent = "run" => fileVar
  /\ parent \in {"create", "write", "export"} => ~fileVar
  /\ ~PoolRuns => \A w \in Workers : worker[w] = NoWorker

(* Every worker was given the path. *)
WorkersKnowFile ==
  \A w \in Workers : worker[w].state = "loading" => worker[w].fileVar

PoolInv == PoolTypeOK /\ FileOutlivesWorkers /\ WorkersKnowFile /\ WorkersStartAsTold

LEMMA NoWorkerType == NoWorker \in WorkerType
BY DEF NoWorker, WorkerType

LEMMA PoolStarts == PoolInit => PoolInv
<1> SUFFICES ASSUME PoolInit
             PROVE  PoolInv
  OBVIOUS
<1>1. PoolTypeOK
  BY NoWorkerType DEF PoolInit, PoolTypeOK, WorkerType
<1>2. FileOutlivesWorkers
  BY DEF PoolInit, PoolRuns, FileOutlivesWorkers
<1>3. WorkersKnowFile /\ WorkersStartAsTold
  BY DEF PoolInit, WorkersKnowFile, WorkersStartAsTold, Is, NoWorker, Unset
<1>4. QED
  BY <1>1, <1>2, <1>3 DEF PoolInv

(* A worker that loads or serves belongs to a pool that runs. *)
LEMMA WorkerOfPool ==
  ASSUME PoolInv, NEW w \in Workers, worker[w].state # "none"
  PROVE  PoolRuns
BY DEF PoolInv, FileOutlivesWorkers, NoWorker

LEMMA PoolSteps == PoolInv /\ [PoolNext]_poolVars => PoolInv'
<1> SUFFICES ASSUME PoolInv, [PoolNext]_poolVars
             PROVE  PoolInv'
  OBVIOUS
<1> USE DEF PoolInv, PoolTypeOK, WorkerType
<1>1. CASE CreateFile
  <2>1. PoolTypeOK'
    BY <1>1 DEF CreateFile
  <2>2. FileOutlivesWorkers'
    BY <1>1 DEF CreateFile, PoolRuns, FileOutlivesWorkers
  <2>3. WorkersKnowFile'
    BY <1>1 DEF CreateFile, WorkersKnowFile
  <2>4. WorkersStartAsTold'
    BY <1>1 DEF CreateFile, PoolRuns, FileOutlivesWorkers, WorkersKnowFile, WorkersStartAsTold, Is
  <2>5. QED
    BY <2>1, <2>2, <2>3, <2>4
<1>2. CASE WriteFile
  <2>1. PoolTypeOK'
    BY <1>2 DEF WriteFile
  <2>2. FileOutlivesWorkers'
    BY <1>2 DEF WriteFile, PoolRuns, FileOutlivesWorkers
  <2>3. WorkersKnowFile'
    BY <1>2 DEF WriteFile, WorkersKnowFile
  <2>4. WorkersStartAsTold'
    BY <1>2 DEF WriteFile, PoolRuns, FileOutlivesWorkers, WorkersKnowFile, WorkersStartAsTold, Is
  <2>5. QED
    BY <2>1, <2>2, <2>3, <2>4
<1>3. CASE ExportPath
  <2>1. PoolTypeOK'
    BY <1>3 DEF ExportPath
  <2>2. FileOutlivesWorkers'
    BY <1>3 DEF ExportPath, PoolRuns, FileOutlivesWorkers
  <2>3. WorkersKnowFile'
    BY <1>3 DEF ExportPath, WorkersKnowFile
  <2>4. WorkersStartAsTold'
    BY <1>3 DEF ExportPath, PoolRuns, FileOutlivesWorkers, WorkersKnowFile, WorkersStartAsTold, Is
  <2>5. QED
    BY <2>1, <2>2, <2>3, <2>4
<1>4. CASE StopPool
  <2>1. PoolTypeOK'
    BY <1>4, NoWorkerType DEF StopPool
  <2>2. FileOutlivesWorkers'
    BY <1>4 DEF StopPool, PoolRuns, FileOutlivesWorkers
  <2>3. WorkersKnowFile'
    BY <1>4 DEF StopPool, WorkersKnowFile, NoWorker
  <2>4. WorkersStartAsTold'
    BY <1>4 DEF StopPool, PoolRuns, FileOutlivesWorkers, WorkersKnowFile, WorkersStartAsTold, Is, NoWorker, Unset
  <2>5. QED
    BY <2>1, <2>2, <2>3, <2>4
<1>5. CASE CleanUp
  <2>1. PoolTypeOK'
    BY <1>5 DEF CleanUp
  <2>2. FileOutlivesWorkers'
    BY <1>5 DEF CleanUp, PoolRuns, FileOutlivesWorkers
  <2>3. WorkersKnowFile'
    BY <1>5 DEF CleanUp, WorkersKnowFile
  <2>4. WorkersStartAsTold'
    BY <1>5 DEF CleanUp, PoolRuns, FileOutlivesWorkers, WorkersKnowFile, WorkersStartAsTold, Is
  <2>5. QED
    BY <2>1, <2>2, <2>3, <2>4
<1>6. CASE ParentDies
  <2>1. PoolTypeOK'
    BY <1>6 DEF ParentDies
  <2>2. FileOutlivesWorkers'
    BY <1>6 DEF ParentDies, PoolRuns, FileOutlivesWorkers
  <2>3. WorkersKnowFile'
    BY <1>6 DEF ParentDies, WorkersKnowFile
  <2>4. WorkersStartAsTold'
    BY <1>6 DEF ParentDies, PoolRuns, FileOutlivesWorkers, WorkersKnowFile, WorkersStartAsTold, Is
  <2>5. QED
    BY <2>1, <2>2, <2>3, <2>4
<1>7. CASE ClearTmp
  <2>1. PoolTypeOK'
    BY <1>7 DEF ClearTmp
  <2>2. FileOutlivesWorkers'
    BY <1>7 DEF ClearTmp, PoolRuns, FileOutlivesWorkers
  <2>3. WorkersKnowFile'
    BY <1>7 DEF ClearTmp, WorkersKnowFile
  <2>4. WorkersStartAsTold'
    BY <1>7 DEF ClearTmp, PoolRuns, FileOutlivesWorkers, WorkersKnowFile, WorkersStartAsTold, Is
  <2>5. QED
    BY <2>1, <2>2, <2>3, <2>4
<1>8. ASSUME NEW w \in Workers, Spawn(w)
      PROVE  PoolInv'
  <2>1. PoolTypeOK'
    BY <1>8 DEF Spawn, NoWorker, Unset
  <2>2. FileOutlivesWorkers'
    BY <1>8 DEF Spawn, NoWorker, Unset, PoolRuns, FileOutlivesWorkers
  <2>3. WorkersKnowFile'
    BY <1>8 DEF Spawn, NoWorker, Unset, WorkersKnowFile, FileOutlivesWorkers
  <2>4. WorkersStartAsTold'
    BY <1>8 DEF Spawn, NoWorker, Unset, PoolRuns, FileOutlivesWorkers, WorkersKnowFile, WorkersStartAsTold, Is
  <2>5. QED
    BY <2>1, <2>2, <2>3, <2>4
<1>9. ASSUME NEW w \in Workers, Load(w)
      PROVE  PoolInv'
  <2>0. PoolRuns
    BY <1>9, WorkerOfPool DEF Load, Is
  <2>1. PoolTypeOK'
    BY <1>9 DEF Load, Handoff, PoolConfigs, Unset
  <2>2. FileOutlivesWorkers'
    BY <1>9, <2>0 DEF Load, Handoff, PoolConfigs, Unset, PoolRuns, FileOutlivesWorkers, Is
  <2>3. WorkersKnowFile'
    BY <1>9 DEF Load, Handoff, PoolConfigs, Unset, WorkersKnowFile
  <2>4. WorkersStartAsTold'
    BY <1>9 DEF Load, Handoff, PoolConfigs, Unset, PoolRuns, FileOutlivesWorkers, WorkersKnowFile, WorkersStartAsTold, Is
  <2>5. QED
    BY <2>1, <2>2, <2>3, <2>4
<1>10. ASSUME NEW w \in Workers, LoadFailed(w)
      PROVE  PoolInv'
  <2>0. PoolRuns
    BY <1>10, WorkerOfPool DEF LoadFailed, Is
  <2>1. PoolTypeOK'
    BY <1>10 DEF LoadFailed, Handoff, PoolConfigs, Unset
  <2>2. FileOutlivesWorkers'
    BY <1>10, <2>0 DEF LoadFailed, Handoff, PoolConfigs, Unset, PoolRuns, FileOutlivesWorkers, Is
  <2>3. WorkersKnowFile'
    BY <1>10 DEF LoadFailed, Handoff, PoolConfigs, Unset, WorkersKnowFile
  <2>4. WorkersStartAsTold'
    BY <1>10, <2>0 DEF LoadFailed, Handoff, PoolConfigs, Unset, PoolRuns, FileOutlivesWorkers, WorkersKnowFile, WorkersStartAsTold, Is
  <2>5. QED
    BY <2>1, <2>2, <2>3, <2>4
<1>11. ASSUME NEW w \in Workers, AdminUpdate(w)
      PROVE  PoolInv'
  <2>0. PoolRuns
    BY <1>11, WorkerOfPool DEF AdminUpdate, Is
  <2>1. PoolTypeOK'
    BY <1>11 DEF AdminUpdate, PoolConfigs, Unset
  <2>2. FileOutlivesWorkers'
    BY <1>11, <2>0 DEF AdminUpdate, PoolConfigs, Unset, PoolRuns, FileOutlivesWorkers, Is
  <2>3. WorkersKnowFile'
    BY <1>11 DEF AdminUpdate, PoolConfigs, Unset, WorkersKnowFile
  <2>4. WorkersStartAsTold'
    BY <1>11 DEF AdminUpdate, PoolConfigs, Unset, PoolRuns, FileOutlivesWorkers, WorkersKnowFile, WorkersStartAsTold, Is
  <2>5. QED
    BY <2>1, <2>2, <2>3, <2>4
<1>12. ASSUME NEW w \in Workers, Crash(w)
      PROVE  PoolInv'
  <2>1. PoolTypeOK'
    BY <1>12, NoWorkerType DEF Crash, NoWorker, Unset
  <2>2. FileOutlivesWorkers'
    BY <1>12 DEF Crash, NoWorker, Unset, PoolRuns, FileOutlivesWorkers
  <2>3. WorkersKnowFile'
    BY <1>12 DEF Crash, NoWorker, Unset, WorkersKnowFile
  <2>4. WorkersStartAsTold'
    BY <1>12 DEF Crash, NoWorker, Unset, PoolRuns, FileOutlivesWorkers, WorkersKnowFile, WorkersStartAsTold, Is
  <2>5. QED
    BY <2>1, <2>2, <2>3, <2>4
<1>13. CASE UNCHANGED poolVars
  BY <1>13 DEF poolVars, PoolRuns, FileOutlivesWorkers, WorkersKnowFile, WorkersStartAsTold, Is
<1>14. QED
  BY <1>1, <1>2, <1>3, <1>4, <1>5, <1>6, <1>7, <1>8, <1>9, <1>10, <1>11, <1>12, <1>13 DEF PoolNext

(* Whatever crashes and is started again, also behind a parent that was    *)
(* killed, no worker fails to load its configuration and none falls back   *)
(* to the legacy variable, unless an outsider has removed the file.        *)
THEOREM StartAsTold == PoolSpec => []WorkersStartAsTold
<1>1. PoolInv => WorkersStartAsTold
  BY DEF PoolInv
<1>2. QED
  BY PoolStarts, PoolSteps, <1>1, PTL DEF PoolSpec
=============================================================================
