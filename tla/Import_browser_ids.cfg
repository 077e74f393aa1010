CONSTANTS
  None = None
  RunLines = 4
  FanInByBytes = 3
  MaxOpenFiles = 3
  Sources <- MCSources
  Codes <- MCCodes
  Current <- MCCurrent
  GeneratedIds = {1, 2}
  Hosts = {"browser"}
  MaxCalls = 1
  MaxHostSteps = 0
  MaxFaults = 0
SPECIFICATION Spec
INVARIANT OneListingId
CHECK_DEADLOCK FALSE
