\* The calls of a migration, with no failure, beside Puts of the workload.
CONSTANTS
  Keys = {1, 2, 3}
  NumLevels = 3
  ExtFile <- MCExtFile
  CfPaths <- MCCfPaths
  CallSets <- MigrationCalls
  TargetLevel = 1
  MayFail = {}
  MaySnapshot = {FALSE}
  HasChecksums = FALSE
  MaxSequence = 3
  Workload = Workload
  pmem = pmem
  disk = disk
SPECIFICATION IngestSpec
INVARIANT ReadsNewest
CHECK_DEADLOCK FALSE
