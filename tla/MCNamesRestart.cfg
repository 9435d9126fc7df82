SPECIFICATION Spec
CONSTANTS
  Names <- MCNames
  BeaconIds <- MCBeaconIds
  BEACON_SLOTS = 1
  NAME_SLOTS = 1
  ASSERT_REPEAT_LIMIT = 1
  Cap <- MCCap
  Ops <- NameOps
  MaxFrames = 2
  MaxFails <- FlowFails
  MaxQueries = 2
  MaxLogs = 2
  MaxLives = 2
INVARIANT NamesResolve
