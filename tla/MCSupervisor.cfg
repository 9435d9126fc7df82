SPECIFICATION Spec
CONSTANTS
  Streams <- OneStream
  Tokens <- MCTokens
  Commands <- AllCommands
  CapC = 2
  CapI = 1
  MaxCommands = 3
  MaxWrites = 1
INVARIANTS
  AccountedFor
  
  NoLostWakeup
  StoppedViewIsTrue
PROPERTIES
  
  OutputComplete
  NoBusySpin
