CONSTANTS
  w1 = w1
  w2 = w2
  e1 = e1
  e2 = e2
  e3 = e3
  i1 = i1
  i2 = i2
  v1 = v1
  v2 = v2
  None = None
  Workers = {w1}
  Events = {e1, e2}
  Items = {i1, i2}
  Versions = {v1, v2}
  Qty = {0, 1}
  Total <- SumOfQuantities
  Deliveries <- ProductAndLevel
  InitialLevels <- OneOfEach
  MaxDelta = 1
  QuietRelease = TRUE
  MaxCrashes = 1
  MaxFaults = 1
  MaxReleases = 1
  MaxMoves = 1
  MaxSales = 1
SPECIFICATION Spec
INVARIANTS RecordMatchesFingerprint CatalogReadable
PROPERTY LifecycleHolds
