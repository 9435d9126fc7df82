\* A ring of six words, with records of two and three: tails of every length, a
\* ring that is filled to the last word, both wraps, and an encoder that may fail.
CONSTANTS
  Size = 6
  Laps = 2
  MinLen = 2
  MaxLen = 3
  SeqMod = 3
  EncodeMayFail = TRUE
SPECIFICATION Spec
INVARIANTS
  FramingNeverFails
  OwnershipDisjoint
  NeverWrapsTheEnd
  PadBelongs
  EmptyRingAccepts
PROPERTY ImplementsFifo
