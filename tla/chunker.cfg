CONSTANTS
  Modulus = 64
  DefaultMin = 2
  DefaultMax = 8
  Sizes <- SmallSizes
  WorkerCounts <- SmallCounts
  Requests <- SmallRequests
SPECIFICATION FairSpec
INVARIANTS
  TypeOK
  Partition
  PlanIgnoresWorkers
  OneChunkPerWorker
PROPERTY
  Terminates
