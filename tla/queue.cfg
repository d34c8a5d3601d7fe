SPECIFICATION FairSpec
CONSTANTS
  Runs = {r1, r2, r3}
  Free = Free
  Attempts = 2
  WaitFails = {r3}
  Panics = TRUE
INVARIANTS OneCLI PageCatchesUp
PROPERTIES EveryRunReturns
