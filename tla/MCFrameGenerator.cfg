SPECIFICATION FairSpec
CONSTANTS
  Channels = 2
  Tiles = 2
  Stride = 2
  Settings <- MCSettings
  FileImages = {3}
  UnreadImages = 1
  MaxCounter = 4
INVARIANTS
  TypeOK
  SendsSafely
  RoundInOrder
PROPERTIES
  TaskObeys
