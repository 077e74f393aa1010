CONSTANTS
  p1 = p1
  p2 = p2
  s1 = s1
  s2 = s2
  f1 = f1
  f2 = f2
  l1 = l1
  None = None
  Procs = {p1, p2}
  Sellers = {s1, s2}
  Flows = {f1, f2}
  Listings = {l1}
  HsActive = s1
  MaxCommands = 3
  MaxFaults = 1
SPECIFICATION Spec
INVARIANTS
  ClaimedBearerIsKept
  SpentLoginIsForgotten
  ProofsAreTransient
  SyncedIsPublished
CHECK_DEADLOCK FALSE
