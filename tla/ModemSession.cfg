SPECIFICATION FairSpec
CONSTANTS
  AtRetries = 1
  EchoRetries = 0
  InitPatience = 3
  PdpRetries = 2
  PublishRetries = 2
  MaxLost = 2
  MaxUpsets = 1
  MaxResets = 1
INVARIANTS TypeOK AwakeIsAwake SleepsForReal BoundedEffort GivesUpLast SentOnce
PROPERTIES Heals
