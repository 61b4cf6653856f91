---------------------------- MODULE MCSmtpDelivery ----------------------------
(* Capture configurations for TLC: two bounds and the discard mode. *)
EXTENDS SmtpDelivery

Roomy   == [mode |-> "metadata", max |-> 2]
Tight   == [mode |-> "full", max |-> 1]
Discard == [mode |-> "discard", max |-> 2]

AllConfigs == {Roomy, Tight, Discard}
=============================================================================
