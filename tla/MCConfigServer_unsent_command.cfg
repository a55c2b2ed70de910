\* A short batch after a longer one, on one connection.
SPECIFICATION Spec
CONSTANTS
  Batches <- TwoBatches
  Others <- NoOthers
  BufSize = 9
  QueueSize = 1
  Garbage = {9}
  Faults = FALSE
INVARIANTS
  OnlySent
\* The server waits for clients that need not come.
CHECK_DEADLOCK FALSE
