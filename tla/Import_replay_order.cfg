CONSTANTS
  None = None
  RunLines = 4
  FanInByBytes = 3
  MaxOpenFiles = 3
  Sources <- MCSources
  Codes <- MCCodes
  Current <- MCCurrent
  GeneratedIds = {1, 2}
  Hosts = {"file"}
  MaxCalls = 2
  MaxHostSteps = 0
  MaxFaults = 0
SPECIFICATION Spec
INVARIANT ConflictsAreExact
CHECK_DEADLOCK FALSE
