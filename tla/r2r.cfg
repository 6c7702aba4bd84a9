\* Two chunks of three units, through a buffer of two.
CONSTANTS
  NumChunks = 2
  ChunkLen = 3
  MaxBuffer = 2
  SourceMayShrink = TRUE
SPECIFICATION FairSpec
INVARIANTS
  TypeOK
  RelayInPlace
  LastCreatedIsWhole
  OneWriteAfterCancel
PROPERTY
  EveryExecuteEnds
