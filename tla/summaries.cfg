SPECIFICATION FairSpec
CONSTANTS
  Jobs = {j1}
  StartFields = {title}
  EndFields = {result}
  Backends = {p, q}
  Primary = p
  NULL = NULL
  Flaky = {title}
INVARIANTS PrimaryWins NeverBlank MetaTells SummarisedOnce
PROPERTIES ChannelCloses QueuedIsFlushed
