SPECIFICATION MCSpec
CONSTANTS
  Regions <- MCRegions
  Documents <- MCDocuments
  GameDevices <- MCGameDevices
  WakeLimit = 6
  MaxPrints = 1
  MaxOdd = 1
  U16_MAX = 2
  U32_MAX = 3
  AbsolutePaths = {"/unit"}
  LongNames = {"long"}
  SECTORS_PER_PAGE = 8
  MAX_GAME_SECTORS = 16
  CHANNEL_SIZE = 256
  OFF_RING_C_DATA = 4
  ALIGN = 2
  RING_C_SIZE = 2
  RING_I_SIZE = 2
  RING_A_SIZE = 8
  RING_W_SIZE = 128
INVARIANTS
  
  ConfigIsText
  
  AttachAgrees
PROPERTIES
  ReadyIsEarned
  BootCompletes
  
CHECK_DEADLOCK FALSE
