\* An access point that comes and goes, the button held till maintenance mode is
\* up or the module sleeps; thresholds of one and two, deep sleep on and off.
SPECIFICATION Spec
CONSTANTS
  Word = 8
  Defaults <- Factory
  StoredConfigs <- AnyDeployed
  Batches <- SomeBatches
  QueueSize = 2
  Queries = TRUE
  Outages = TRUE
  NvsFaults = FALSE
  Resets = FALSE
  Buttons = TRUE
  QuickRelease = FALSE
\* Maintenance mode waits for a client that need not come.
CHECK_DEADLOCK FALSE
PROPERTIES
  ButtonObeyed
  CollectsAgain
