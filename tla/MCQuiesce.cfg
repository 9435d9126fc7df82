SPECIFICATION QSpec
CONSTANTS
  Streams <- MCStreams
  Tokens <- MCTokens
  Commands = {}
  CapC = 3
  CapI = 6
  MaxCommands = 6
  MaxWrites = 0
  Paths <- Sound
INVARIANTS
  SnapshotIsQuiesced
 
