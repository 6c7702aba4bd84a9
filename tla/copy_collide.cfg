\* Two sources and a destination that is no directory.
CONSTANTS
  Dirs <- SomeDirs
  Length <- SomeFiles
  Vanishing = {}
  Commands <- TwoIntoOne
SPECIFICATION Spec
INVARIANT
  ZeroMeansAll
