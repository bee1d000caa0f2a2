SPECIFICATION Spec
CONSTANTS
  Depth = 1
  Ticks = {2, 3}
  Lots = {0, 1}
  AllowSeqGap = TRUE
  ChecksumFn = FALSE
  ChecksumTopN = 0
  ValidatePeriod = 0
  HasChecksum = FALSE
  RequireChecksum = FALSE
  Venues = {v1, v2}
  Symbols = {s1}
  MaxVenues = 2
  FutureMax = 1
  MaxAge = 1
  RateLimit = 2
  MinBps = 1000
  MaxBps = 5000
  FeeBps = 10
  DevPct = 25
  v1 = v1
  v2 = v2
  Lead <- MCLead
  MaxNow = 3
  MaxEvents = 4
  BaseSeqs = {1}
  IncSeqs = {3}
INVARIANTS
  TypeOK
  CrossesUseBaselinedBooks
  CrossesRecentlyHeard
PROPERTIES
  ReportsSpacedAndActive
CHECK_DEADLOCK FALSE
