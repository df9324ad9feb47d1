SPECIFICATION Spec
CONSTANTS
  va = va
  PacketBackup = 4
  RewriteFrames = 0
  MaxReliableCommands = 4
  GamestateCommand = 6
  Worlds <- OneOrNone
  MaxSpan = 3
  MaxNewCommands = 3
  MaxMessages = 4
INVARIANTS TypeOK OutputExact CopiedBaseKnown
PROPERTIES LostOnlyInBulk
CHECK_DEADLOCK FALSE
VIEW View
