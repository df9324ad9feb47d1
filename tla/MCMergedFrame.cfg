SPECIFICATION Spec
CONSTANTS
  Clients = {0, 1}
  Entities = {1, 2}
  Mod = 2
  PacketBackup = 2
  Inputs <- Kinds
  MaxFrames = 3
INVARIANTS EntitiesExact PlayersExact CountersExact ContextsAgree
CHECK_DEADLOCK FALSE
