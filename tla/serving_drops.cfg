CONSTANTS
  Requests = {r1}
  Servers = {"llm"}
  Configs <- MCConfigs
  HopParams <- MCHopParams
SPECIFICATION Spec
INVARIANT ConnectionErrorsDrop
