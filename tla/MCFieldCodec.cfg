SPECIFICATION CodecSpec
CONSTANTS
  EntityFields <- Entities
  PlayerFields <- Players
  PilotFields <- Pilots
  VehicleFields <- Vehicles
  ArrayFields <- Stats
  ServerPilot = 3
  FloatBias = 2
  NegZero = NegZero
  Other = Other
  NoDraw = {1}
  Truths <- Objects
  MaxSent = 3
INVARIANTS InStep SplitExact ReencodeExact
CHECK_DEADLOCK FALSE
