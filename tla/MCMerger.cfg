SPECIFICATION Spec
CONSTANTS
  A = A
  B = B
  va = va
  PacketBackup = 4
  MaxReliableCommands = 6
  FudgeFactor = 3
  CutDemos <- OneAfterTheOther
  TargetMaps <- OneOrTwoMaps
  NewTexts <- InfosAndMaps
  FirstNumber <- Numbers
  GamestateCommand <- Gamestates
  Worlds <- OneOrNone
  Strings = {"x", "y"}
  FirstString = "x"
  MaxSpan = 2
  MaxMaps = 1
  MaxMessages <- Lengths
  Times = {0, 1, 2}
INVARIANTS OutputExact TeamInfoExact
PROPERTIES CommandsFollow
CHECK_DEADLOCK FALSE
VIEW View
