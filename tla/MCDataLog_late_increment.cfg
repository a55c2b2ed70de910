\* An increment loaded before a transmission clears the counter is stored after
\* it: later values are counted behind a gap.
SPECIFICATION Spec
CONSTANTS
  r1 = r1
  r2 = r2
  r3 = r3
  r4 = r4
  r5 = r5
  NoReading = NoReading
  Readings <- FiveReadings
  Word = 16
  Capacity = 4
  SendLastValues = 0
  Step = 4
  UseThreshold = TRUE
  Threshold = 2
  DeepSleep = TRUE
  ProtocolKnown = TRUE
  QueueSize = 2
  RtcErrorThreshold = 8
  Commands = {}
  LossyLink = FALSE
  Resets = FALSE
\* Without resets, maintenance mode waits for a client that need not come.
CHECK_DEADLOCK FALSE
INVARIANTS
  AllOffered
