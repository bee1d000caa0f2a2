------------------------------ MODULE MCBookSync ------------------------------
(***************************************************************************)
(* BookSync for TLC in the configurations the venues use.  The configuration *)
(* is chosen in the initial state; the constants are those of "strict":      *)
(*   strict    REST baseline and bridge, ids without gaps, C3 on             *)
(*   gaps      WebSocket baseline, gaps tolerated, a depth that truncates    *)
(*   checksum  WebSocket baseline, ids and checksums, damaged increments     *)
(*   seqless   WebSocket baseline, checksums but no ids                      *)
(***************************************************************************)
EXTENDS BookSync

VARIABLE venue

Gaps == INSTANCE BookSync WITH
  Kind <- "WsAuthoritative", AllowSeqGap <- TRUE, Depth <- Depth - 1, ValidatePeriod <- 0

Summed == INSTANCE BookSync WITH
  Kind <- "WsAuthoritative", ChecksumFn <- TRUE, HasChecksum <- TRUE, ValidatePeriod <- 0,
  Corruption <- TRUE

Seqlessly == INSTANCE BookSync WITH
  Kind <- "WsAuthoritative", ChecksumFn <- TRUE, HasChecksum <- TRUE, ValidatePeriod <- 0,
  Seqless <- TRUE, Lots <- {0, 1}

MCInit ==
  \/ venue \in {"strict", "gaps", "checksum"} /\ Init
  \/ venue = "seqless" /\ Seqlessly!Init

MCNext ==
  /\ UNCHANGED venue
  /\ \/ venue = "strict" /\ Next
     \/ venue = "gaps" /\ Gaps!Next
     \/ venue = "checksum" /\ Summed!Next
     \/ venue = "seqless" /\ Seqlessly!Next

MCSpec == MCInit /\ [][MCNext]_<<vars, venue>>

\* BookExact of a venue whose book is deep enough for every tick.
StrictBookExact == venue = "strict" => BookExact

\* ContiguousAccepted of a venue with ids: neither the sequence checks nor C1
\* and C3 of onIncrement refuse an intact increment that fits.
StrictContiguousAccepted == venue = "strict" => ContiguousAccepted

\* ChecksummedTextsMatch of the venues with a checksum validator.
ChecksumsMatch ==
  /\ venue = "checksum" => Summed!ChecksummedTextsMatch
  /\ venue = "seqless" => Seqlessly!ChecksummedTextsMatch

=============================================================================
