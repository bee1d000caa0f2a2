SPECIFICATION MCSpec
CONSTANTS
  Depth = 3
  Ticks = {1, 2, 3}
  Lots = {0, 1, 2}
  AllowSeqGap = FALSE
  ChecksumFn = FALSE
  ChecksumTopN = 25
  ValidatePeriod = 2
  HasChecksum = FALSE
  RequireChecksum = FALSE
  Kind = "RestAnchored"
  SnapDepth = 3
  MaxSeq = 3
  Seqless = FALSE
  Corruption = FALSE
INVARIANTS
  TypeOK
  BookSound
  SyncedNotCrossed
  StrictBookExact
  StrictContiguousAccepted
  ChecksumsMatch
