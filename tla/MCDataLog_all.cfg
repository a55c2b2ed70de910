\* Everything is sent in blocks and erased every second wakeup; the maintenance
\* client erases, too.
SPECIFICATION Spec
CONSTANTS
  r1 = r1
  r2 = r2
  r3 = r3
  r4 = r4
  r5 = r5
  NoReading = NoReading
  Readings <- FourReadings
  Word = 10
  Capacity = 3
  SendLastValues = 0
  Step = 2
  UseThreshold = TRUE
  Threshold = 2
  DeepSleep = TRUE
  ProtocolKnown = TRUE
  QueueSize = 2
  RtcErrorThreshold = 5
  Commands = {"erase"}
  LossyLink = FALSE
  Resets = TRUE
INVARIANTS
  BlocksOffered
PROPERTIES
  EveryBootSleeps
