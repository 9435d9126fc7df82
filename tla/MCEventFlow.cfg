SPECIFICATION Spec
CONSTANTS
  Names <- MCNames
  BeaconIds <- MCBeaconIds
  BEACON_SLOTS = 1
  NAME_SLOTS = 1
  ASSERT_REPEAT_LIMIT = 1
  Cap <- MCCap
  Ops <- FlowOps
  MaxFrames = 1
  MaxFails <- FlowFails
  MaxQueries = 1
  MaxLogs = 0
  MaxLives = 1
INVARIANTS
  NamesResolve
  HostViewComplete
PROPERTY CallsReturn
