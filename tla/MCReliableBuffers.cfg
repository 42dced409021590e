SPECIFICATION Spec
CONSTANTS
  Appenders = {say, parser}
  MaxCommands = 6
  PacketRoom = 2
INVARIANTS NetThreadSafe ReleasedInOrder HeadHasTail
CHECK_DEADLOCK FALSE
