SPECIFICATION FairSpec
CONSTANTS
  EnterMv = 2
  RecoverMv = 3
  Volts = {1, 2, 3}
  MaxFaults = 2
  MaxResets = 1
INVARIANTS
  TypeOK
  ProtectedIsOff
  SamplingIsOn
  UlpPowered
  WindIsLive
  FastHasSession
PROPERTIES
  ImplementsGuard
  LowBatteryGuards
  RecoveredSamples
