\* Every argument list of MCCopy, with a file that may vanish at any moment.
CONSTANTS
  Dirs <- SomeDirs
  Length <- SomeFiles
  Vanishing <- SomeVanishing
  Commands <- SomeCommands
SPECIFICATION Spec
INVARIANTS
  TypeOK
  ZeroDelivers
  EverySourceCounts
  MeetOnlyByName
  DataInPlace
PROPERTY
  AllOrNothing
