SPECIFICATION Spec
CONSTANT MaxRequests = 2
INVARIANTS
  OneAnswer
  OwnAnswer
PROPERTY EveryRequestAnswered
CHECK_DEADLOCK FALSE
