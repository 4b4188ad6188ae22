SPECIFICATION Spec
CONSTANTS
  CmdQueueLen = 2
  MaxCommands = 4
  MaxNews = 1
  MaxLate = 0
  MaxBoots = 1
  MaxRestarts = 1
INVARIANTS
  PdpNewsKept
CHECK_DEADLOCK FALSE
