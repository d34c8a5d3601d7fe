SPECIFICATION Spec
CONSTANTS
  ReportCap = 4
  PromptCap = 2
  MaxDmesg = 7
  MaxLogs = 3
  MaxBundle = 6
INVARIANTS ReportsCover PromptTells ReadersAgree
CHECK_DEADLOCK FALSE
