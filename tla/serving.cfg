CONSTANTS
  Requests = {r1}
  Servers = {"llm", "web", "blob"}
  Configs <- MCConfigs
  HopParams <- MCHopParams
SPECIFICATION FairSpec
INVARIANTS RowsMatchReplies CountedOnce ChainAsAdvertised ChainWithinLimit
PROPERTY ChainEnds
