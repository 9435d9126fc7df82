SPECIFICATION MCSpec
CONSTANTS
  Size = 3
  Laps = 2
  MinLen = 2
  MaxLen = 2
  Records = {r1}
  Pad = Pad
  MaxPushes = 3
  MaxRelays = 2
  HostWaits = FALSE
  KindMod = 4
  FirstWorkload = 2
  ArgMod = 4
  Point <- MCPoint
  Rules <- MCRules
  WCap = 1
  MaxQueries = 2
  MaxRestores = 1
INVARIANTS
  ReplayReproduces
  RestoreIsComplete
  
  
  ReplayIsVerbatim
CHECK_DEADLOCK FALSE
