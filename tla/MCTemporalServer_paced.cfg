SPECIFICATION FairSpec
CONSTANTS
  NumSlots = 2
  MaxFrame = 2
  MaxPackets = 6
  MaxTimeouts = 1
  MaxSpurious = 0
  Ordered = TRUE
  KeepsUp = TRUE
  Spaced = TRUE
  SigintFatal = TRUE
INVARIANTS
  TypeOK
  CorrectedByOwn
  CorrectedIfAhead
  NoSharedBank
PROPERTIES
  FilesEachOnce
  FilesEachEventually
CHECK_DEADLOCK FALSE
