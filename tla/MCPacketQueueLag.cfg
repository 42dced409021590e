SPECIFICATION Spec
CONSTANTS
  MaxSequence = 1
  MaxArrivals = 2
  MaxTime = 2
  Second = 1
  Delays = {0, 1}
PROPERTY HandledInOrder
CHECK_DEADLOCK FALSE
