SPECIFICATION Spec
CONSTANTS
  Venues = {"binance", "okx", "bybit"}
  MyVenue = "okx"
  Prices = {1, 2, 3}
  PositionLimit = 5
  MaxOrderNotional = 2
  Cooldown = 2
  TargetQty = 2
  MaxTs = 3
  MaxOrders = 2
INVARIANTS
  FillsCounted
  CooldownRespected
  TrackedUntilResolved
PROPERTY EveryOrderResolved
CHECK_DEADLOCK FALSE
