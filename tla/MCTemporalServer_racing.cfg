SPECIFICATION Spec
CONSTANTS
  NumSlots = 2
  MaxFrame = 1
  MaxPackets = 3
  MaxTimeouts = 0
  MaxSpurious = 1
  Ordered = TRUE
  KeepsUp = FALSE
  Spaced = FALSE
  SigintFatal = FALSE
INVARIANTS
  TakenOncePerFiling
  ResetBanksApart
CHECK_DEADLOCK FALSE
