\* Two sessions, two messages, an error of every kind, resets and updates.
SPECIFICATION FairSpec
CONSTANTS
  Sessions = {s1, s2}
  Messages = {m1, m2}
  NoMessage = NoMessage
  Enabled = {"rcpt_to_tempfail", "data_reject", "connection_reset", "accept_then_drop"}
  Configs <- AllConfigs
  FirstConfig <- Roomy
  MaxRcpts = 1
INVARIANTS OldestDroppedFirst CaptureMatchesMetrics CountersTellTheTruth
PROPERTY CommandsEnd
