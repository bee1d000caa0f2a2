SPECIFICATION Spec
CONSTANTS
  Depth = 1
  Ticks = {1, 2}
  Lots = {0, 1}
  AllowSeqGap = FALSE
  ChecksumFn = FALSE
  ChecksumTopN = 1
  ValidatePeriod = 0
  HasChecksum = FALSE
  RequireChecksum = FALSE
  MaxBuffer = 2
  HasBrain = TRUE
  BookEvery = 2
  InitMs = 1
  MaxMs = 3
  MaxSeq = 4
  MaxCloses = 2
  MaxFaults = 2
  MaxDrops = 1
  MaxSteps = 0
INVARIANT BrainHoldsFeedsBook
CHECK_DEADLOCK FALSE
