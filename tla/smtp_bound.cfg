\* The documented bound of the capture list against an update during a delivery.
SPECIFICATION Spec
CONSTANTS
  Sessions = {s1, s2}
  Messages = {m1, m2}
  NoMessage = NoMessage
  Enabled = {}
  Configs <- AllConfigs
  FirstConfig <- Roomy
  MaxRcpts = 1
INVARIANT CaptureBounded
