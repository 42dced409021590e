SPECIFICATION Spec
CONSTANTS
  UPDATE_BACKUP = 4
  ResetFrames = 1
  MaxLate = 2
  MaxFrame = 5
INVARIANT CopyTellsDelta
CHECK_DEADLOCK FALSE
