\* Files of three levels ingested while the workload puts keys; every call of
\* the environment may fail.
CONSTANTS
  Keys = {1, 2, 3}
  NumLevels = 3
  ExtFile <- MCExtFile
  CfPaths <- MCCfPaths
  CallSets <- AllCalls
  TargetLevel = 1
  MayFail <- AllFailures
  MaySnapshot = {TRUE, FALSE}
  HasChecksums = TRUE
  MaxSequence = 3
  Workload = Workload
  pmem = pmem
  disk = disk
SPECIFICATION IngestSpec
INVARIANTS
  IngestTypeOK
  NothingLost
  NoLeftovers
  RunMeetsNoMemtable
  SeqnosDistinct
  OnlyLevelZeroHides
  SourceOrderKept
  PlacedByLevel
CHECK_DEADLOCK FALSE
