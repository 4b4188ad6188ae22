SPECIFICATION FairSpec
CONSTANTS
  BufLen = 3
  Retries = 2
  Requests = {0, 1, 2, 3}
  SeqMod = 8
  MaxOverlap = 3
  MaxPushes = 5
INVARIANTS
  TypeOK
  RingHoldsNewest
  AcceptedIsLatest
  EmptyOnlyWhenJustified
PROPERTIES
  ImplementsLog
  ReadReturns
