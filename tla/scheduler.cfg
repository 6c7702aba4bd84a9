\* Two chunks over three workers and a pool of two pairs: setup failures,
\* waiting for a pair, throttling and cancellation all interleave.
CONSTANTS
  w1 = w1
  w2 = w2
  w3 = w3
  NumChunks = 2
  Workers <- ThreeWorkers
  HasPool = TRUE
  PoolSize = 2
  SetupMayFail = TRUE
  Throttled = TRUE
SPECIFICATION FairSpec
INVARIANTS
  TypeOK
  NoSendOnClosed
  UniqueResults
  NoSilentLoss
  HonestResults
  NoWorkAfterCancel
  PairsReturned
PROPERTIES
  ImplementsContract
  EventuallyReturned
