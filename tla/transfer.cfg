SPECIFICATION FairSpec
CONSTANTS
  NumFiles = 3
  NumQueues = 2
  SstData <- MixedData
  NumEntries <- AllLive
  HeaderCap = 2
  PayloadCap = 1
  MayFail = {}
  Uninit = {1, 2}
  Null = Null
  Garbage = Garbage
INVARIANTS
  TypeOK
  SrcSlotsBelong
  StreamsInStep
  EndedMeansAll
PROPERTIES
  MovesFilesInTime
CHECK_DEADLOCK FALSE
