SPECIFICATION Spec
CONSTANTS
  Jobs = {j1}
  StartFields = {title}
  EndFields = {result}
  Backends = {p}
  Primary = p
  NULL = NULL
  Flaky = {}
INVARIANTS NothingLeftBehind
