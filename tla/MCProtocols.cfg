\* Two retries, two waits, three sockets, four batches a boot; every protocol, an
\* unknown one, maintenance mode; sleep and restarts.
SPECIFICATION Spec
CONSTANTS
  MaxRetry = 2
  BleThreshold = 2
  MaxSockets = 3
  MaxProtocols = 4
  Active = {1, 2, 3, 7}
  Payloads <- Batches
  MaxSends = 4
INVARIANTS
  TypeOK
  RegistryWhole
  SignalsLiveGroup
  FrameWellFormed
PROPERTIES
  StartupSpec
