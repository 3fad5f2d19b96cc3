SPECIFICATION SlotSpec
CONSTANTS
  NumSlotFiles = 3
  NumPairs = 2
  NoQueue = NoQueue
INVARIANTS
  SlotTypeOK
  PointerIsFiles
CHECK_DEADLOCK FALSE
