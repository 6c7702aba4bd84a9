\* The resumed run may be given another chunk size.
CONSTANTS
  FileSize <- OneFile
  ChunkSizes = {1, 2}
  MaxStarts = 2
SPECIFICATION Spec
INVARIANT
  ExitZeroIsComplete
