SPECIFICATION Spec
CONSTANTS
  NumSlots = 2
  MaxFrame = 1
  MaxPackets = 3
  MaxTimeouts = 1
  MaxSpurious = 0
  Ordered = FALSE
  KeepsUp = TRUE
  Spaced = FALSE
  SigintFatal = TRUE
PROPERTIES
  ResumedNotLate
CHECK_DEADLOCK FALSE
