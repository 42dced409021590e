SPECIFICATION Spec
CONSTANTS
  Appenders = {say, parser}
  MaxCommands = 3
  PacketRoom = 2
INVARIANT NoCommandLost
CHECK_DEADLOCK FALSE
