\* Three files, one of them empty, and two calls of Complete.
CONSTANTS
  Size <- ThreeFiles
  Completers <- TwoCompletes
SPECIFICATION FairSpec
INVARIANTS
  TypeOK
  OverallIsSum
PROPERTIES
  FailedIsNotDone
  CompleteReturns
