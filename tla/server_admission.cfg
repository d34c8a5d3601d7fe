SPECIFICATION Spec
CONSTANTS
  BundleJobs = {b1, b2, b3}
  ScaffoldJobs = {}
  NoJob = NoJob
  MaxJobs = 2
  RamReserve = 1
  DiskReserve = 1
  EstRam = 1
  EstDisk = 2
  TotalRam = 6
  RamPeaks = {1, 3}
  DiskPeaks = {1}
  DfReadings <- VaryingDf
  StaleDirs <- NoStale
  KeepWorktrees = FALSE
  RetentionDays = 30
  Faults = {}
SYMMETRY Symmetry
INVARIANTS ReservationsFit LiveWithinSlots QueuedIsKnown
CHECK_DEADLOCK FALSE
