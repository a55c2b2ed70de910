\* A fresh or a deployed module, a client that reads and changes the configuration,
\* outages, resets, the button at any time.
SPECIFICATION Spec
CONSTANTS
  Word = 8
  Defaults <- Factory
  StoredConfigs <- FreshOrDeployed
  Batches <- SomeBatches
  QueueSize = 2
  Queries = TRUE
  Outages = TRUE
  NvsFaults = FALSE
  Resets = TRUE
  Buttons = TRUE
  QuickRelease = TRUE
INVARIANTS
  TypeOK
  SleepsAsStored
  SendsReady
  NotOverdue
PROPERTIES
  ModesSpec
  StartupSafety
