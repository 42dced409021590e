SPECIFICATION Spec
CONSTANTS
  MaxFrames = 5
  MaxCommands = 2
  MaxMessages = 2
  PacketRoom = 2
INVARIANTS CommandsInOrder FreedOnlyIfRead MessagesInOrder ClearedOnlyIfRead IInv
PROPERTIES UpStream DownStream RetransmitOnlyAfterDrop
CHECK_DEADLOCK FALSE
