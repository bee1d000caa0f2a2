SPECIFICATION Spec
CONSTANTS
  Depth = 1
  Ticks = {1, 2}
  Lots = {0, 1}
  AllowSeqGap = FALSE
  ChecksumFn = FALSE
  ChecksumTopN = 1
  ValidatePeriod = 0
  HasChecksum = FALSE
  RequireChecksum = FALSE
  MaxBuffer = 2
  HasBrain = FALSE
  BookEvery = 0
  InitMs = 1
  MaxMs = 3
  MaxSeq = 5
  MaxCloses = 2
  MaxFaults = 3
  MaxDrops = 0
  MaxSteps = 1
INVARIANTS
  TypeOK
  SyncedMeansSynced
  StaleNeverCounts
  OneConnection
PROPERTY EventuallySynced
CHECK_DEADLOCK FALSE
