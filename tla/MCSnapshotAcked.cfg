SPECIFICATION Spec
CONSTANTS
  va = va
  vb = vb
  PacketBackup = 3
  RingSize = 3
  ParseMargin = 1
  PoolSize = 6
  RefreshAge = 3
  Numbers = {1, 2}
  Values = {va, vb}
  Worlds <- SmallWorlds
  FromAcked = TRUE
  MaxMessages = 6
INVARIANTS TypeOK ValidExact DroppedForAge SlotsFresh
PROPERTIES PoolUsed
CHECK_DEADLOCK FALSE
