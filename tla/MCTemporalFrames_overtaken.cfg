SPECIFICATION Spec
CONSTANTS
  NumSlots = 2
  MaxFrame = 3
  MaxPackets = 6
  MaxTimeouts = 0
  MaxSpurious = 0
  Ordered = TRUE
  KeepsUp = FALSE
  SigintFatal = TRUE
PROPERTIES
  DeliversEachOnce
CHECK_DEADLOCK FALSE
