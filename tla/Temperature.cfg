SPECIFICATION TemperatureSpec
CONSTANTS
  ConversionTime = 3
  PollTimeout = 2
  MaxBoots = 3
  MaxFaults = 3
  Words = {0, 370, 64656, 65535}
INVARIANTS
  WrongHasCause
  WorkingIsRead
  CrcDecides
CHECK_DEADLOCK FALSE
