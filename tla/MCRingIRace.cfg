SPECIFICATION Spec
CONSTANTS
  Size = 5
  Laps = 2
  MinLen = 2
  MaxLen = 2
  Records = {r1, r2}
  Pad = Pad
  MaxPushes = 6
  MaxRelays = 4
  HostWaits = FALSE
INVARIANT NoPushLost
