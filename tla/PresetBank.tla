----------------------------- MODULE PresetBank -----------------------------
(***************************************************************************)
(* The preset pages of ChaosWeb's ContentGenerator: the bank is loaded     *)
(* from its file by the first call that needs it, double-checked under     *)
(* _preset_lock, and hands out its pages under a lock of its own.  A       *)
(* configuration update replaces the generator under the callers that have *)
(* taken the old one, and a reset starts the bank anew, if there is one.   *)
(*                                                                         *)
(* ChaosLLM's ResponseGenerator loads its bank in its constructor when it  *)
(* is configured for presets, and never otherwise; its bank hands out and  *)
(* resets as this one does.                                                *)
(***************************************************************************)
EXTENDS Integers

CONSTANTS
  Callers, NoCaller,
  Generators,           \* identities of generator objects
  Banks, NoBank,        \* identities of bank objects
  Size,                 \* number of pages in the file
  Settings,             \* what an update may set: mode, selection, overrides
  Nothing

(* overrides: a header may ask for the preset mode although the generator  *)
(* is configured for another, when the preset file exists.                 *)
ASSUME BankAssumption ==
  /\ NoCaller \notin Callers /\ NoBank \notin Banks
  /\ Size \in Nat \ {0}
  /\ Settings \subseteq [mode : {"preset", "text"}, selection : {"sequential", "random"},
                         overrides : BOOLEAN]
  /\ Nothing \notin 0..(Size - 1)

VARIABLES
  current,      \* the server's generator
  generator,    \* of each: its settings, its bank and the owner of _preset_lock
  bank,         \* of each: _index and the owner of its _lock
  call,         \* of each caller: what is next and what it has read
  served        \* the response each caller was handed last

bankVars == <<current, generator, bank, call, served>>

NewGenerator(s) == [settings |-> s, bank |-> NoBank, lock |-> NoCaller]
NewBank == [index |-> 0, lock |-> NoCaller]

NoCall == [pc |-> "idle", generator |-> CHOOSE g \in Generators : TRUE, bank |-> NoBank, response |-> 0]

Responses == 0..(Size - 1)

BankInit ==
  /\ current \in Generators
  /\ \E s \in Settings : generator = [g \in Generators |-> NewGenerator(s)]
  /\ bank = [b \in Banks |-> NewBank]
  /\ call = [c \in Callers |-> NoCall]
  /\ served = [c \in Callers |-> Nothing]

CallAt(c, label) == call[c].pc = label
Continue(c, label) == call' = [call EXCEPT ![c].pc = label]
EndCall(c) == call' = [call EXCEPT ![c] = NoCall]

Mine(c) == generator[call[c].generator]

-----------------------------------------------------------------------------
(* generate. *)

(* The mode of the request decides; a text needs no bank. *)
Generate(c) ==
  /\ CallAt(c, "idle")
  /\ LET s == generator[current].settings
     IN  \E override \in BOOLEAN :
           /\ IF override THEN s.mode = "preset" \/ s.overrides ELSE s.mode = "preset"
           /\ call' = [call EXCEPT ![c].pc = "check", ![c].generator = current]
  /\ UNCHANGED <<current, generator, bank, served>>

(* The first look at _preset_bank, without a lock. *)
CheckBank(c) ==
  /\ CallAt(c, "check")
  /\ LET b == Mine(c).bank
     IN  IF b = NoBank THEN Continue(c, "lock")
         ELSE call' = [call EXCEPT ![c].pc = "next", ![c].bank = b]
  /\ UNCHANGED <<current, generator, bank, served>>

LockPreset(c) ==
  /\ CallAt(c, "lock")
  /\ Mine(c).lock = NoCaller
  /\ generator' = [generator EXCEPT ![call[c].generator].lock = c]
  /\ Continue(c, "load")
  /\ UNCHANGED <<current, bank, served>>

(* A bank that nobody refers to. *)
Unused == {b \in Banks : /\ \A g \in Generators : generator[g].bank # b
                         /\ \A c \in Callers : call[c].bank # b}

(* Seeded fault: no second look under the lock. *)
LoadWithoutCheck(c) ==
  /\ CallAt(c, "load")
  /\ \E b \in Unused :
       /\ generator' = [generator EXCEPT ![call[c].generator].bank = b]
       /\ bank' = [bank EXCEPT ![b] = NewBank]
  /\ Continue(c, "unlock")
  /\ UNCHANGED <<current, served>>

(* The second look; from_jsonl reads the file. *)
LoadBank(c) ==
  /\ CallAt(c, "load")
  /\ \/ /\ Mine(c).bank # NoBank
        /\ UNCHANGED <<generator, bank>>
     \/ /\ Mine(c).bank = NoBank
        /\ \E b \in Unused :
             /\ generator' = [generator EXCEPT ![call[c].generator].bank = b]
             /\ bank' = [bank EXCEPT ![b] = NewBank]
  /\ Continue(c, "unlock")
  /\ UNCHANGED <<current, served>>

(* No file, no valid line: the exception releases the lock. *)
LoadFails(c) ==
  /\ CallAt(c, "load")
  /\ Mine(c).bank = NoBank
  /\ generator' = [generator EXCEPT ![call[c].generator].lock = NoCaller]
  /\ EndCall(c)
  /\ UNCHANGED <<current, bank, served>>

UnlockPreset(c) ==
  /\ CallAt(c, "unlock")
  /\ generator' = [generator EXCEPT ![call[c].generator].lock = NoCaller]
  /\ call' = [call EXCEPT ![c].pc = "next", ![c].bank = Mine(c).bank]
  /\ UNCHANGED <<current, bank, served>>

-----------------------------------------------------------------------------
(* PresetBank.next: one hold of the bank's lock. *)

LockBank(c) ==
  /\ CallAt(c, "next")
  /\ bank[call[c].bank].lock = NoCaller
  /\ bank' = [bank EXCEPT ![call[c].bank].lock = c]
  /\ Continue(c, IF Mine(c).settings.selection = "random" THEN "choose" ELSE "read")
  /\ UNCHANGED <<current, generator, served>>

Choose(c) ==
  /\ CallAt(c, "choose")
  /\ \E r \in Responses : served' = [served EXCEPT ![c] = r]
  /\ Continue(c, "release")
  /\ UNCHANGED <<current, generator, bank>>

Read(c) ==
  /\ CallAt(c, "read")
  /\ call' = [call EXCEPT ![c].pc = "advance", ![c].response = bank[call[c].bank].index]
  /\ UNCHANGED <<current, generator, bank, served>>

Advance(c) ==
  /\ CallAt(c, "advance")
  /\ bank' = [bank EXCEPT ![call[c].bank].index = (@ + 1) % Size]
  /\ served' = [served EXCEPT ![c] = call[c].response]
  /\ Continue(c, "release")
  /\ UNCHANGED <<current, generator>>

ReleaseBank(c) ==
  /\ CallAt(c, "release")
  /\ bank' = [bank EXCEPT ![call[c].bank].lock = NoCaller]
  /\ EndCall(c)
  /\ UNCHANGED <<current, generator, served>>

-----------------------------------------------------------------------------
(* reset and update_config. *)

(* _preset_bank is read without a lock; what is not loaded needs no reset. *)
ResetCall(c) ==
  /\ CallAt(c, "idle")
  /\ generator[current].bank # NoBank
  /\ call' = [call EXCEPT ![c].pc = "reset", ![c].generator = current,
                          ![c].bank = generator[current].bank]
  /\ UNCHANGED <<current, generator, bank, served>>

(* Seeded fault: the index is reset without the bank's lock. *)
ResetBankUnlocked(c) ==
  /\ CallAt(c, "reset")
  /\ bank' = [bank EXCEPT ![call[c].bank].index = 0]
  /\ EndCall(c)
  /\ UNCHANGED <<current, generator, served>>

ResetBank(c) ==
  /\ CallAt(c, "reset")
  /\ bank[call[c].bank].lock = NoCaller
  /\ bank' = [bank EXCEPT ![call[c].bank].index = 0]
  /\ EndCall(c)
  /\ UNCHANGED <<current, generator, served>>

ReplaceGenerator ==
  /\ \E g \in Generators \ {current}, s \in Settings :
       /\ \A c \in Callers : call[c].generator = g => CallAt(c, "idle")
       /\ current' = g
       /\ generator' = [generator EXCEPT ![g] = NewGenerator(s)]
  /\ UNCHANGED <<bank, call, served>>

CallerStep(c) ==
  \/ Generate(c) \/ CheckBank(c) \/ LockPreset(c) \/ LoadBank(c) \/ LoadFails(c) \/ UnlockPreset(c)
  \/ LockBank(c) \/ Choose(c) \/ Read(c) \/ Advance(c) \/ ReleaseBank(c)
  \/ ResetCall(c) \/ ResetBank(c)

BankNext == ReplaceGenerator \/ \E c \in Callers : CallerStep(c)

BankSpec == BankInit /\ [][BankNext]_bankVars

-----------------------------------------------------------------------------
(* Properties. *)

BankTypeOK ==
  /\ current \in Generators
  /\ generator \in [Generators -> [settings : Settings, bank : Banks \cup {NoBank},
                                   lock : Callers \cup {NoCaller}]]
  /\ bank \in [Banks -> [index : Responses, lock : Callers \cup {NoCaller}]]
  /\ \A c \in Callers : /\ call[c].generator \in Generators
                        /\ call[c].bank \in Banks \cup {NoBank}
                        /\ call[c].response \in Responses
  /\ served \in [Callers -> Responses \cup {Nothing}]

Dispenser == INSTANCE RoundRobin WITH
  kind <- [g \in Generators |-> generator[g].settings.selection],
  next <- [g \in Generators |->
             LET b == generator[g].bank IN IF b = NoBank THEN 0 ELSE bank[b].index],
  out <- served

(* Every caller is handed the next response of its generator, none is      *)
(* skipped or handed out twice, although banks are loaded lazily, the      *)
(* index is read and advanced in two steps, and resets, failed loads and   *)
(* updates come in between.                                                *)
ServesInTurn == Dispenser!Spec
=============================================================================
