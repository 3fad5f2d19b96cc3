SPECIFICATION FairSpec
CONSTANTS
  NumFiles = 4
  NumQueues = 1
  SstData <- PairedData
  NumEntries <- AllLive
  HeaderCap = 2
  PayloadCap = 2
  MayFail = {"open", "write", "ingest", "workload"}
  Uninit = {0, 1}
  Null = Null
  Garbage = Garbage
INVARIANTS
  WriteOrder
  Backpressure
PROPERTIES
  MovesFiles
  SourceNotStranded
  DestinationTold
CHECK_DEADLOCK FALSE
