SPECIFICATION Spec
CONSTANTS
  CmdQueueLen = 2
  MaxCommands = 4
  MaxNews = 1
  MaxLate = 2
  MaxBoots = 1
  MaxRestarts = 1
INVARIANTS
  TypeOK
  AnswerIsOwn
  PublishedWasSent
  KnownUnlessMissed
PROPERTIES
  ImplementsPort
CHECK_DEADLOCK FALSE
