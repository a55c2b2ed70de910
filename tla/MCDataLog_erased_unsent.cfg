\* The measurement task stores a value between the last block and the erase.
SPECIFICATION Spec
CONSTANTS
  r1 = r1
  r2 = r2
  r3 = r3
  r4 = r4
  r5 = r5
  NoReading = NoReading
  Readings <- FiveReadings
  Word = 16
  Capacity = 4
  SendLastValues = 0
  Step = 2
  UseThreshold = TRUE
  Threshold = 1
  DeepSleep = TRUE
  ProtocolKnown = TRUE
  QueueSize = 2
  RtcErrorThreshold = 8
  Commands = {}
  LossyLink = FALSE
  Resets = FALSE
\* Without resets, maintenance mode waits for a client that need not come.
CHECK_DEADLOCK FALSE
PROPERTIES
  ErasedOnlyAfterSent
