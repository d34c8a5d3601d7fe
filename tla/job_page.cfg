SPECIFICATION FairSpec
CONSTANTS
  Jobs <- MCJobs
  Capacity = 2
INVARIANTS FeedQuiet ShownIsTold LogIsWhole SamplesInOrder ClosedIsWhole
PROPERTIES EndIsShown
CHECK_DEADLOCK FALSE
