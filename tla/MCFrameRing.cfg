SPECIFICATION FairSpec
CONSTANTS
  UPDATE_BACKUP = 4
  ResetFrames = 1
  MaxLate = 5
  MaxFrame = 6
INVARIANTS TypeOK PacketHasLastThree DeltaIsKept AcknowledgedFrameIsCopied
PROPERTY EveryFrameSent
CHECK_DEADLOCK FALSE
