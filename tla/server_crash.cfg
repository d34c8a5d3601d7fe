SPECIFICATION FairSpec
CONSTANTS
  BundleJobs = {b1}
  ScaffoldJobs = {s1}
  NoJob = NoJob
  MaxJobs = 2
  RamReserve = 1
  DiskReserve = 1
  EstRam = 1
  EstDisk = 2
  TotalRam = 4
  RamPeaks = {1}
  DiskPeaks = {1}
  DfReadings <- ShortDf
  StaleDirs <- Stale
  KeepWorktrees = FALSE
  RetentionDays = 0
  Faults = {"crash"}
INVARIANTS OwnBundle RunningIsLive KeyConsumed
PROPERTIES LiveDirKept LifecycleSpec SentEnds
CHECK_DEADLOCK FALSE
