CONSTANTS
  w1 = w1
  w2 = w2
  e1 = e1
  e2 = e2
  e3 = e3
  i1 = i1
  i2 = i2
  v1 = v1
  v2 = v2
  None = None
  Workers = {w1, w2}
  Events = {e1, e2}
  Items = {i1, i2}
  Versions = {v1, v2}
  Qty = {0, 1}
  Total <- SumOfQuantities
  Deliveries <- StockDeliveries
  InitialLevels <- OneOfEach
  MaxDelta = 3
  QuietRelease = TRUE
  MaxCrashes = 1
  MaxFaults = 0
  MaxReleases = 0
  MaxMoves = 1
  MaxSales = 0
SPECIFICATION FairSpec
INVARIANTS TypeOK CompleteMeansApplied ConflictMeansUnapplied KeyNamesOneRequest
PROPERTIES AdjustHitsTarget EveryReceiptSettles
