\* Three kinds of batches and three other requests in any order, a queue of one
\* event, clients that leave, disappear and come back, accept failing.
SPECIFICATION Spec
CONSTANTS
  Batches <- SomeBatches
  Others <- SomeOthers
  BufSize = 9
  QueueSize = 1
  Garbage = {0, 5}
  Faults = TRUE
INVARIANTS
  TypeOK
  ExecutesSent
PROPERTIES
  ExecutesAll
  RequestAnswered
\* The server waits for clients that need not come.
CHECK_DEADLOCK FALSE
