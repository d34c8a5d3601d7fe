SPECIFICATION Spec
CONSTANTS
  Single = {}
  Compare = {c, d}
  WithModule = {}
  SshPort = 1
  Ephemeral = {8, 9}
  None = None
  Unlucky = {}
INVARIANTS OwnGuest
CHECK_DEADLOCK FALSE
