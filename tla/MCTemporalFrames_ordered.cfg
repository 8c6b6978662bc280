SPECIFICATION Spec
CONSTANTS
  NumSlots = 2
  MaxFrame = 3
  MaxPackets = 8
  MaxTimeouts = 1
  MaxSpurious = 1
  Ordered = TRUE
  KeepsUp = FALSE
  SigintFatal = FALSE
INVARIANTS
  DeliveredInOrder
CHECK_DEADLOCK FALSE
