SPECIFICATION Spec
CONSTANTS
  AtRetries = 1
  EchoRetries = 0
  InitPatience = 3
  PdpRetries = 2
  PublishRetries = 2
  MaxLost = 0
  MaxUpsets = 0
  MaxResets = 0
INVARIANTS PdpBeforeCoap
