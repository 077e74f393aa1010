CONSTANTS
  w1 = w1
  w2 = w2
  None = None
  Workers = {w1, w2}
  Routes = {"pull"}
  MaxLevel = 2
  MaxRevision = 3
  MaxNotices = 3
  MaxSales = 1
  MaxMoves = 1
  MaxFaults = 1
SYMMETRY Symmetry
SPECIFICATION Spec
INVARIANTS
  SidesAgreeWhenQuiet
  EveryMoveCounts
  OwnWritesDoNotConflict
PROPERTY
  MerchantMovesSurvive
CHECK_DEADLOCK FALSE
