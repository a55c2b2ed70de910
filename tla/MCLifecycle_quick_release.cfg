\* The button is let go of while the module boots.
SPECIFICATION Spec
CONSTANTS
  Word = 8
  Defaults <- Factory
  StoredConfigs <- OnlyDeployed
  Batches <- NoBatches
  QueueSize = 2
  Queries = FALSE
  Outages = FALSE
  NvsFaults = FALSE
  Resets = FALSE
  Buttons = TRUE
  QuickRelease = TRUE
PROPERTIES
  MaintenanceReached
