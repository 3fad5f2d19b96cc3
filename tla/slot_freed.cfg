SPECIFICATION SlotSpec
CONSTANTS
  NumSlotFiles = 3
  NumPairs = 2
  NoQueue = NoQueue
INVARIANTS
  FreedQueuesAreSent
CHECK_DEADLOCK FALSE
