CONSTANTS
  FileSize <- OneFile
  ChunkSizes = {2}
  MaxStarts = 1
SPECIFICATION ShrinkSpec
INVARIANT
  OkIsWhole
