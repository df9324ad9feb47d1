SPECIFICATION Spec
CONSTANTS
  Clients = {0, 1}
  Texts = {"a", "b"}
  Recipients <- Anyone
  Repeats = TRUE
  MaxReliable = 4
  Fudge = 1
  MaxPerFrame = 4
  MaxIssued = 4
  MaxFrames = 2
INVARIANTS TypeOK MergedInOrder BroadcastOnce
PROPERTIES RelaySpec
CHECK_DEADLOCK FALSE
