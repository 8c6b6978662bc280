SPECIFICATION FairSpec
CONSTANTS
  NumSlots = 2
  MaxFrame = 2
  MaxPackets = 4
  MaxTimeouts = 1
  Ordered = TRUE
INVARIANTS
  TypeOK
  NoSharedBuffer
  CorrectedByOwn
PROPERTIES
  DispatchesEach
CHECK_DEADLOCK FALSE
