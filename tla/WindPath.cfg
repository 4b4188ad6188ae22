SPECIFICATION PathSpec
CONSTANTS
  SampleBufLen = 2
  Period = 4
  Costs = {1, 3}
  Word = 9
  MaxCycles = 3
  RxBufLen = 5
  Timeout = 6
  ByteTime = 3
  Blip = 1
  TimeWord = 32
  BitTicks = 240
  SensorBits = {235, 238, 239, 240, 241, 250}
  SentChars = {1, 10, 13, 43, 48, 57, 85, 126, 127}
  Pauses = {0, 4, 400}
  MaxBytes = 12
  Alphabet = {43, 46, 48, 57, 120}
  MaxLen = 7
  ValueWord = 4096
  DirectionWord = 64
  MaxSamples = 6
INVARIANTS
  PathTypeOK
  SampleIsTold
  ReportedHasSample
  BoundedReceive
  LineIsRead
  BytesSurvive
  ReadAsMeant
  ExtremesHold
  DirectionIsMean
PROPERTIES
  EverySecond
CHECK_DEADLOCK FALSE
