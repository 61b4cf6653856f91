----------------------------- MODULE RoundRobin -----------------------------
(***************************************************************************)
(* What a preset bank promises: a sequential generator hands out its       *)
(* responses in the order of the file, one each time, beginning again at   *)
(* the end and after a reset; a random one hands out any.                  *)
(***************************************************************************)
EXTENDS Integers

CONSTANTS Callers, Generators, Size, Nothing

VARIABLES
  kind,   \* "sequential" or "random", of each generator
  next,   \* the response that each generator hands out next
  out     \* the response that each caller was handed last

vars == <<kind, next, out>>

Responses == 0..(Size - 1)

Init ==
  /\ kind \in [Generators -> {"sequential", "random"}]
  /\ next = [g \in Generators |-> 0]
  /\ out = [c \in Callers |-> Nothing]

Serve(c, g) ==
  /\ kind[g] = "sequential"
  /\ out' = [out EXCEPT ![c] = next[g]]
  /\ next' = [next EXCEPT ![g] = (@ + 1) % Size]
  /\ UNCHANGED kind

Draw(c, g) ==
  /\ kind[g] = "random"
  /\ \E r \in Responses : out' = [out EXCEPT ![c] = r]
  /\ UNCHANGED <<kind, next>>

Restart(g) ==
  /\ next' = [next EXCEPT ![g] = 0]
  /\ UNCHANGED <<kind, out>>

(* A configuration update makes g a new generator. *)
Replace(g) ==
  /\ \E k \in {"sequential", "random"} : kind' = [kind EXCEPT ![g] = k]
  /\ next' = [next EXCEPT ![g] = 0]
  /\ UNCHANGED out

Next ==
  \E g \in Generators :
    \/ Restart(g) \/ Replace(g)
    \/ \E c \in Callers : Serve(c, g) \/ Draw(c, g)

Spec == Init /\ [][Next]_vars
=============================================================================
