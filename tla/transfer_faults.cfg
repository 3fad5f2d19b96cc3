SPECIFICATION Spec
CONSTANTS
  NumFiles = 3
  NumQueues = 2
  SstData <- PairedData
  NumEntries <- LastHasDeletion
  HeaderCap = 2
  PayloadCap = 1
  MayFail = {"open", "write", "ingest", "workload"}
  Uninit = {0, 1}
  Null = Null
  Garbage = Garbage
INVARIANTS
  SrcRing
  DstSlotsBelong
  CompletedFilesWhole
  OnlyDeletionsStarve
PROPERTIES
  FinishedFilesSealed
CHECK_DEADLOCK FALSE
