CONSTANTS
  p1 = p1
  p2 = p2
  i1 = i1
  w1 = w1
  w2 = w2
  e1 = e1
  None = None
  Unplanned = Unplanned
  Procs = {p1, p2}
  Items = {i1}
  Deliveries <- OneActionManyWebhooks
  InitialStock <- ThreeOfEach
  Scenarios <- TwoDisturbedOrThree
SPECIFICATION FairSpec
INVARIANTS
  CompleteMeansReached
  OneMoveForEachAction
  OneReceiptForAnAction
PROPERTY
  EveryDeliveryIsAnswered
CHECK_DEADLOCK FALSE
