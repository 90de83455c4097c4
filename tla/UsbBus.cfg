SPECIFICATION Spec
CONSTANTS
  Endpoints <- MCEndpoints
  SplitEps <- MCSplitEps
  NChannels = 2
  StillEnabled = {0}
  KERNEL_TIMERS = 2
  MaxFaults = 1
  Plugged <- MCPlugged
  EpNumbers <- MCEpNumbers
  Strict = FALSE
  Named = {2}
  Sectors = {0, 1}
  MaxSpin = 1
  MaxCalls = 1
  MaxKeys = 2
INVARIANTS TablesAgree TransfersAreTrue
CHECK_DEADLOCK FALSE
PROPERTY TroubleIsOvercome
