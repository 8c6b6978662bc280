SPECIFICATION Spec
CONSTANTS
  Settings <- MCSettingOfOneImage
  MaxStarts = 1
  MaxFrames = 1
  MaxSpurious = 0
INVARIANTS
  StopsLiveReceiver
CHECK_DEADLOCK FALSE
