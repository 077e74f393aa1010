CONSTANTS
  p1 = p1
  p2 = p2
  r1 = r1
  r2 = r2
  a = a
  b = b
  None = None
  Procs = {p1, p2}
  Inodes = {1, 2, 3, 4}
  Rows = {r1, r2}
  Replays = {a, b}
  Times = {1, 2}
  Requests <- HostRequests
  MaxCalls = 4
  MaxCrashes = 1
  MaxFaults = 1
SPECIFICATION Spec
INVARIANTS Exclusion RecordsHaveConflicts LogIsSound LoadIsOneVersion
PROPERTIES NoLostUpdate StoreIsVersioned
CHECK_DEADLOCK FALSE
