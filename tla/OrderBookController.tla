------------------------ MODULE OrderBookController --------------------------
(***************************************************************************)
(* md::OrderBookController (common/src/orderbook/OrderBookController.cpp):  *)
(* owns an OrderBook and decides, message by message, whether the book can  *)
(* still be trusted.  A controller is a record; each public method maps a   *)
(* controller and a message to the controller it leaves behind, whose field *)
(* action is the Action the method returned.                                *)
(*                                                                          *)
(* A message carries its levels as sequences.  A checksum is <<>> where the *)
(* code has 0 (absent) and <<v>> otherwise; v stands for the CRC-32 of the  *)
(* concatenated price and quantity texts, taken to be free of collisions.   *)
(***************************************************************************)
EXTENDS OrderBook, FiniteSets, Functions

CONSTANTS AllowSeqGap,     \* setAllowSequenceGap
          ChecksumFn,      \* configureChecksum was given a validator
          ChecksumTopN,    \* levels per side it covers
          ValidatePeriod,  \* setValidatePeriod (C3), 0 = off
          HasChecksum,     \* setHasChecksum
          RequireChecksum  \* setRequireChecksum (C5)

ASSUME ControllerAssumption ==
  /\ {AllowSeqGap, ChecksumFn, HasChecksum, RequireChecksum} \subseteq BOOLEAN
  /\ ChecksumTopN \in Nat
  /\ ValidatePeriod \in Nat

BookSyncState == {"WaitingSnapshot", "WaitingBridge", "Synced"}

Action == {"None", "NeedResync"}

BaselineKind == {"RestAnchored", "WsAuthoritative"}

Controller ==
  [state : BookSyncState, last_seq : Nat, expected_seq : Nat,
   validate_counter : Nat, bids : Seq(Level), asks : Seq(Level), action : Action]

NewController ==
  [state |-> "WaitingSnapshot", last_seq |-> 0, expected_seq |-> 0,
   validate_counter |-> 0, bids |-> <<>>, asks |-> <<>>, action |-> "None"]

-----------------------------------------------------------------------------
\* resetBook().  The validation counter survives it.
ResetBook(c) ==
  [c EXCEPT !.bids = <<>>, !.asks = <<>>, !.state = "WaitingSnapshot",
            !.last_seq = 0, !.expected_seq = 0]

\* need_resync_(reason)
NeedResync(c) == [ResetBook(c) EXCEPT !.action = "NeedResync"]

\* return Action::None
Done(c) == [c EXCEPT !.action = "None"]

\* The texts a checksum validator reads: price and quantity of the best levels.
Texts(vec) ==
  [i \in 1 .. (IF Len(vec) < ChecksumTopN THEN Len(vec) ELSE ChecksumTopN) |->
     <<vec[i].priceTick, vec[i].quantity>>]

ValidateChecksum(c, checksum) == checksum = << <<Texts(c.bids), Texts(c.asks)>> >>

\* With a validator configured, an increment without a checksum is as bad as a
\* wrong one.
ChecksumFails(c, m) ==
  ChecksumFn /\ (m.checksum = <<>> \/ ~ ValidateChecksum(c, m.checksum))

\* C1: both sides have a level and the best bid is not below the best ask.
Crossed(c) ==
  /\ BestTick(c.bids) > 0
  /\ BestTick(c.asks) > 0
  /\ BestTick(c.bids) >= BestTick(c.asks)

-----------------------------------------------------------------------------
\* The orders in which a message can list the elements of T.
Orderings(T) == Injection(1 .. Cardinality(T), T)

\* The orders std::erase_if and std::sort can leave a snapshot side in.
SortedLevels(S, levels) ==
  {t \in Orderings({l \in levels : ~ IsEmpty(l)}) : StrictlySorted(S, t)}

\* Mutant: the update right after the baseline is not waited for.
OnSnapshotSkipOne(c, m, kind) ==
  LET loaded == [ResetBook(c) EXCEPT
                   !.bids = UpdateAll("BID", <<>>, m.bids),
                   !.asks = UpdateAll("ASK", <<>>, m.asks),
                   !.last_seq = m.lastUpdateId,
                   !.expected_seq = m.lastUpdateId + 2]
  IN  Done([loaded EXCEPT
              !.state = IF kind = "WsAuthoritative" THEN "Synced" ELSE "WaitingBridge"])

\* onSnapshot(msg, kind); m.bids and m.asks are already stripped and sorted
\* (SortedLevels).
OnSnapshot(c, m, kind) ==
  LET loaded == [ResetBook(c) EXCEPT
                   !.bids = UpdateAll("BID", <<>>, m.bids),
                   !.asks = UpdateAll("ASK", <<>>, m.asks),
                   !.last_seq = m.lastUpdateId,
                   !.expected_seq = m.lastUpdateId + 1]
  IN  IF ChecksumFn /\ m.checksum # <<>> /\ ~ ValidateChecksum(loaded, m.checksum)
      THEN NeedResync(loaded)
      ELSE Done([loaded EXCEPT
                   !.state = IF kind = "WsAuthoritative" THEN "Synced" ELSE "WaitingBridge"])

-----------------------------------------------------------------------------
HasSeq(m) == m.last_seq # 0

\* Mutant: the increment's asks are not applied.
ApplyBidsOnly(c, m) ==
  [c EXCEPT !.bids = UpdateAll("BID", c.bids, m.bids),
            !.last_seq = IF HasSeq(m) THEN m.last_seq ELSE c.last_seq,
            !.expected_seq = IF HasSeq(m) THEN m.last_seq + 1 ELSE c.expected_seq]

\* applyIncrementUpdate(msg), then last_seq_ and expected_seq_ move on if the
\* message is numbered.
ApplyIncrement(c, m) ==
  [c EXCEPT !.bids = UpdateAll("BID", c.bids, m.bids),
            !.asks = UpdateAll("ASK", c.asks, m.asks),
            !.last_seq = IF HasSeq(m) THEN m.last_seq ELSE c.last_seq,
            !.expected_seq = IF HasSeq(m) THEN m.last_seq + 1 ELSE c.expected_seq]

\* onIncrement in WaitingBridge, once the message is known to cover expected_seq_
\* or the gap is tolerated.
Bridge(c, m) ==
  LET applied == [ApplyIncrement(c, m) EXCEPT !.state = "Synced"]
  IN  IF Crossed(applied) \/ ChecksumFails(applied, m)
      THEN NeedResync(applied)
      ELSE Done(applied)

\* Mutant: no crossed-book guard in steady state.
SteadyNoCrossedGuard(c, m) ==
  LET applied == ApplyIncrement(c, m)
  IN  IF ChecksumFails(applied, m) THEN NeedResync(applied) ELSE Done(applied)

\* Mutant: the checksum of a steady-state increment is not compared.
SteadyNoChecksum(c, m) ==
  LET applied == ApplyIncrement(c, m)
  IN  IF Crossed(applied) THEN NeedResync(applied) ELSE Done(applied)

\* onIncrement in Synced, likewise: C1, then the periodic C3, then checksum
\* and C5.  A book that fails C1 leaves the validation counter alone.
Steady(c, m) ==
  LET applied == ApplyIncrement(c, m)
      count   == applied.validate_counter + 1
      due     == ValidatePeriod > 0 /\ count >= ValidatePeriod
      counted == [applied EXCEPT !.validate_counter =
                    IF ValidatePeriod = 0 THEN @ ELSE IF due THEN 0 ELSE count]
      absent  == RequireChecksum /\ HasChecksum /\ ~ ChecksumFn /\ m.checksum = <<>>
  IN  IF Crossed(applied) THEN NeedResync(applied)
      ELSE IF \/ due /\ ~ Validate(applied.bids, applied.asks)
              \/ ChecksumFails(applied, m)
              \/ absent
           THEN NeedResync(counted)
      ELSE Done(counted)

\* Mutant: a single missing update id is let through.
OnIncrementMissOne(c, m) ==
  IF c.state = "WaitingSnapshot" THEN Done(c)
  ELSE IF ~ HasSeq(m) /\ ~ ChecksumFn THEN NeedResync(c)
  ELSE IF HasSeq(m) /\ m.last_seq < c.expected_seq THEN Done(c)
  ELSE IF HasSeq(m) /\ m.first_seq > c.expected_seq + 1 /\ ~ AllowSeqGap THEN NeedResync(c)
  ELSE IF c.state = "WaitingBridge" THEN Bridge(c, m)
  ELSE Steady(c, m)

\* onIncrement(msg): ignored before a baseline, refused if it has neither ids
\* nor a checksum to go by, ignored when outdated, a reason to resynchronise
\* when it leaves a gap, applied otherwise.
OnIncrement(c, m) ==
  IF c.state = "WaitingSnapshot" THEN Done(c)
  ELSE IF ~ HasSeq(m) /\ ~ ChecksumFn THEN NeedResync(c)
  ELSE IF HasSeq(m) /\ m.last_seq < c.expected_seq THEN Done(c)
  ELSE IF HasSeq(m) /\ m.first_seq > c.expected_seq /\ ~ AllowSeqGap THEN NeedResync(c)
  ELSE IF c.state = "WaitingBridge" THEN Bridge(c, m)
  ELSE Steady(c, m)

=============================================================================
