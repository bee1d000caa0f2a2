SPECIFICATION Spec
CONSTANTS
  Clients = {c1, c2, c3}
  kMaxSessions = 2
  kMaxOutbox = 2
  MaxSignals = 3
SYMMETRY ClientSymmetry
INVARIANTS
  OneWrite
  DeliveredInOrder
  IdleMeansDrained
  SessionsCapped
CHECK_DEADLOCK FALSE
