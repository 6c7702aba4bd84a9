\* Two calls of Dial through two jump hosts, and two of Close.
CONSTANTS
  Dials <- TwoDials
  Closes <- TwoCloses
  ProxyJumps <- TwoJumps
  Target <- TwoTargets
  SpareCapacity = FALSE
SPECIFICATION Spec
INVARIANTS
  TypeOK
  NoClientForgotten
  ClosedOnce
  OneHopAfterCancel
  ReachesTarget
