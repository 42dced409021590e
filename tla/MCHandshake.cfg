SPECIFICATION FairSpec
CONSTANTS
  Challenge = {1, 2}
  RESEND = 3
  MaxForgets = 1
INVARIANTS OneNew ConnectedAsAccepted
PROPERTIES RepeatsAreSpaced EventuallyConnected
CHECK_DEADLOCK FALSE
