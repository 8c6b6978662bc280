SPECIFICATION FairSpec
CONSTANTS
  NumSlots = 2
  MaxFrame = 2
  MaxPackets = 6
  MaxTimeouts = 1
  MaxSpurious = 0
  Ordered = FALSE
  KeepsUp = TRUE
  SigintFatal = FALSE
INVARIANTS
  TypeOK
  CompleteIsOwn
  NoSharedBank
  PartialIsOwnUnlessTimedOut
PROPERTIES
  DeliversEachOnce
  DeliversEachEventually
CHECK_DEADLOCK FALSE
