SPECIFICATION Spec
CONSTANTS
  CmdQueueLen = 2
  MaxCommands = 4
  MaxNews = 1
  MaxLate = 1
  MaxBoots = 1
  MaxRestarts = 0
INVARIANTS
  OwnAnswer
CHECK_DEADLOCK FALSE
