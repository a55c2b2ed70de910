\* A window of three values, a transmission every second wakeup, resets at any
\* point, a maintenance client that leaves that mode without a
\* restart, a link that may fail.
SPECIFICATION Spec
CONSTANTS
  r1 = r1
  r2 = r2
  r3 = r3
  r4 = r4
  r5 = r5
  NoReading = NoReading
  Readings <- FiveReadings
  Word = 16
  Capacity = 4
  SendLastValues = 3
  Step = 2
  UseThreshold = TRUE
  Threshold = 2
  DeepSleep = TRUE
  ProtocolKnown = TRUE
  QueueSize = 2
  RtcErrorThreshold = 8
  Commands = {"leave"}
  LossyLink = TRUE
  Resets = TRUE
INVARIANTS
  TypeOK
  LogContiguous
  CountAgrees
  NotOverdue
PROPERTIES
  StoredStays
  RecorderSpec
  TransmitsAgain
