\* The same transfer with a source that stays as it is.
CONSTANTS
  NumChunks = 2
  ChunkLen = 2
  MaxBuffer = 2
  SourceMayShrink = FALSE
SPECIFICATION Spec
INVARIANT
  OkIsThere
