CONSTANTS
  None = None
  RunLines = 4
  FanInByBytes = 3
  MaxOpenFiles = 3
  Sources <- MCSources
  Codes <- MCCodes
  Current <- MCCurrent
  GeneratedIds = {1, 2}
  Hosts = {"file", "browser"}
  MaxCalls = 2
  MaxHostSteps = 1
  MaxFaults = 1
SPECIFICATION Spec
INVARIANTS
  SortedIsWhole
  DescriptorsAreBounded
  ManifestIsSource
  GeneratedIdsNameListings
  RefusedForCause
  OutcomeIsRight
  QuarantineIsTrue
  WorkspaceStays
  NothingLeftBehind
PROPERTY
  EveryCallReturns
CHECK_DEADLOCK FALSE
