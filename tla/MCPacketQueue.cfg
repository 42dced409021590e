SPECIFICATION FairSpec
CONSTANTS
  MaxSequence = 2
  MaxArrivals = 3
  MaxTime = 2
  Second = 1
  Delays = {0, 1, 2}
INVARIANTS TypeOK UsecountIsUses HeldPacketStays ReadInArrivalOrder
PROPERTIES EventuallyHandled EventuallyRead
CHECK_DEADLOCK FALSE
