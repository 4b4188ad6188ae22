SPECIFICATION FairSpec
CONSTANTS
  EnterMv = 2
  RecoverMv = 3
  Volts = {1, 2, 3}
  MaxFaults = 1
  MaxResets = 0
PROPERTIES
  LeavesOnlyRecovered
