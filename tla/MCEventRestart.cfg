SPECIFICATION Spec
CONSTANTS
  Names <- OneName
  BeaconIds <- MCBeaconIds
  BEACON_SLOTS = 1
  NAME_SLOTS = 1
  ASSERT_REPEAT_LIMIT = 1
  Cap <- MCCap
  Ops <- StreamOps
  MaxFrames = 1
  MaxFails <- NoFails
  MaxQueries = 2
  MaxLogs = 1
  MaxLives = 2
INVARIANTS
  DropsAccounted
  InjectMatched
PROPERTY FrameRecordFirst
CHECK_DEADLOCK FALSE
