SPECIFICATION FairSpec
CONSTANTS
  Single = {}
  Compare = {c}
  WithModule = {c}
  SshPort = 1
  Ephemeral = {8, 9}
  None = None
  Unlucky = {c}
INVARIANTS NoGuestLeft VerdictIsPatched RunIsIntact
PROPERTIES RunEnds EndsUnlessWedged
CHECK_DEADLOCK FALSE
