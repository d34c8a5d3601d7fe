SPECIFICATION FairSpec
CONSTANTS
  Configs <- MCConfigs
  LABEL = "phi3.5-mini"
  MaxRuns = 3
INVARIANTS LoadedServes
PROPERTIES LoadReturns
CHECK_DEADLOCK FALSE
