\* A module that has its configuration in flash; a client changes the protocol
\* there and asks for the configuration.
SPECIFICATION Spec
CONSTANTS
  Word = 8
  Defaults <- Factory
  StoredConfigs <- Configured
  Batches <- OneBatch
  QueueSize = 2
  Queries = TRUE
  Outages = FALSE
  NvsFaults = FALSE
  Resets = FALSE
  Buttons = FALSE
  QuickRelease = FALSE
\* Maintenance mode waits for a client that need not come.
CHECK_DEADLOCK FALSE
PROPERTIES
  ChangeKept
