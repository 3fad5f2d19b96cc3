\* A token's sub-queue whose calls may fail after they have added a block.
SPECIFICATION Spec
CONSTANTS
  Parts = {"explicit"}
  None = None
  BLOCK_SIZE = 2
  PoolBlocks <- Pool
  HeapBlocks <- Heap
  RECYCLE_ALLOCATED_BLOCKS = FALSE
  Consumers = {t1, t2}
  MAX_SUBQUEUE_SIZE = 6
  MaxElements = 5
  CallSizes = {1, 3}
  MaxOvercommit = 1
  Uninit = Uninit
  IMPLICIT_INITIAL_INDEX_SIZE = 2
  EXPLICIT_INITIAL_INDEX_SIZE = 2
  MayUndo = TRUE
  Threads = {f1, f2}
  Nodes = {n1, n2, n3}
  Null = Null
  Writers = {t1, t2}
  HashOf <- SameHash
  INITIAL_IMPLICIT_PRODUCER_HASH_SIZE = 4
  MaxRestarts = 2
  MaxProducers = 3
  Absent = Absent
INVARIANT DequeuesRight
SYMMETRY Symmetry
CHECK_DEADLOCK FALSE
