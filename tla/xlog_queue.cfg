SPECIFICATION Spec
CONSTANTS
  Size = 4
  NumSlots = 3
  MaxBody = 1
  MaxInserters = 2
  Senders = {w1}
  KeepSize = 2
  KeepEvery = 2
  MaxRecords = 3
  Body <- MCBody
  MaxRefs = 3
  MaxPosition = 7
INVARIANTS TypeOK PacketsIntact StrongRefsStay
PROPERTIES SavedInOrder NothingSkipped SaverCatchesUp
