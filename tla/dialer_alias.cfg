\* The same calls with options whose slice of jumps has spare capacity.
CONSTANTS
  Dials <- TwoDials
  Closes <- TwoCloses
  ProxyJumps <- TwoJumps
  Target <- TwoTargets
  SpareCapacity = TRUE
SPECIFICATION Spec
INVARIANT
  ReachesTarget
