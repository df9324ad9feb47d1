SPECIFICATION Spec
CONSTANTS
  e1 = e1
  e2 = e2
  RingSize = 3
  PoolSize = 5
  RefreshAge = 2
  EntityStates <- States
  ZeroState = e1
  MaxParsed = 9
INVARIANTS TypeOK IInv VersionSound
PROPERTIES LiveStable RingSpec
CHECK_DEADLOCK FALSE
