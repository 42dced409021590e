SPECIFICATION Spec
CONSTANTS
  huffcontext <- hufftables_q3
  MAX_MSGLEN = 1450
  PLPACKETHISTORYCOUNT = 4
  Lags = {0, 2}
  Second = 1
  Bytes = {0, 1, 247}
  MaxLength = 4
  MaxPackets = 5
  MaxTime = 1
INVARIANTS
  SentInOrder
  SentIsReadable
PROPERTIES
  LossIsShare
CHECK_DEADLOCK FALSE
