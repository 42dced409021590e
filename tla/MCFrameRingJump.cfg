SPECIFICATION Spec
CONSTANTS
  UPDATE_BACKUP = 8
  ResetFrames = 2
  MaxLate = 4
  MaxFrame = 6
PROPERTY NoCatastrophe
CHECK_DEADLOCK FALSE
