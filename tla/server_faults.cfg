SPECIFICATION Spec
CONSTANTS
  BundleJobs = {b1}
  ScaffoldJobs = {s1}
  NoJob = NoJob
  MaxJobs = 1
  RamReserve = 1
  DiskReserve = 1
  EstRam = 1
  EstDisk = 2
  TotalRam = 4
  RamPeaks = {1}
  DiskPeaks = {1}
  DfReadings <- RoomyDf
  StaleDirs <- NoStale
  KeepWorktrees = FALSE
  RetentionDays = 30
  Faults = {"io", "db"}
INVARIANTS SlotHeld ScheduledOnce
PROPERTIES EndedIsFinal
CHECK_DEADLOCK FALSE
