SPECIFICATION Spec
CONSTANTS
  NumFiles = 2
  NumQueues = 1
  SstData <- SingleData
  NumEntries <- AllLive
  HeaderCap = 1
  PayloadCap = 1
  MayFail = {"open"}
  Uninit = {0, 1}
  Null = Null
  Garbage = Garbage
INVARIANTS
  CompletedFilesWhole
CHECK_DEADLOCK FALSE
