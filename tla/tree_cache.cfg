SPECIFICATION Spec
CONSTANTS
  Runs = {first, again, other, agent}
  Want <- OneRequest
  Unlucky = {first}
  None = None
  Head = Head
  Commits = {c}
  FetchTries = 3
  MaxEdits = 1
  first = first
  again = again
  other = other
  agent = agent
  c = c
  fix = fix
  series = series
  b1 = b1
  b2 = b2
INVARIANTS NoStaleBuild BootsItsRequest SharedRepoHarmless
CHECK_DEADLOCK FALSE
