CONSTANTS
  Requests = {r1}
  Servers = {"web", "blob"}
  Configs <- MCConfigs
  HopParams <- MCHopParams
SPECIFICATION Spec
INVARIANT EveryRowClassified
