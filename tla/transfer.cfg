\* Two files, one of them in two chunks, over three invocations that may crash,
\* be interrupted, resume, or fail to save.
CONSTANTS
  FileSize <- TwoFiles
  ChunkSizes = {2}
  MaxStarts = 3
SPECIFICATION FairSpec
INVARIANTS
  TypeOK
  DoneIsNotResent
  ExitMatchesCheckpoint
  ReportIsTrue
PROPERTIES
  ImplementsResumableCopy
  EveryRunEnds
