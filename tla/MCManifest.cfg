SPECIFICATION MCSpec
CONSTANTS
  PAGE = 2
  VTop = 8
  EXTENT_CAPACITY = 3
  Names = {n1, n2, n0}
  EmptyName = n0
  NoName = NoName
  REGION_CAPACITY = 2
  MAX_CONNS = 1
  PageMaps <- MCPageMaps
  Gva = 0
  RegionLen = 4
  MaxGeneration = 6
  MaxPid = 2
  MaxLinks = 2
INVARIANTS
  ReadIsConsistent
  LedgerAgrees
  HandleIsTrue
  ResolveIsCurrent
  RegionReadsBack
  CodecAgrees
PROPERTIES
  BecomesReadable
CHECK_DEADLOCK FALSE
