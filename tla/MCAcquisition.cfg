SPECIFICATION FairSpec
CONSTANTS
  Settings <- MCSettings
  MaxStarts = 2
  MaxFrames = 2
  MaxSpurious = 1
INVARIANTS
  TypeOK
  OnlyLateWorkUsesReleased
  NoExtraImages
  NoReceiverLeft
PROPERTIES
  CallbackReturns
CHECK_DEADLOCK FALSE
