------------------------------ MODULE BookSync -------------------------------
(***************************************************************************)
(* One OrderBookController fed by an exchange over an unreliable path.      *)
(*                                                                          *)
(* The exchange (external) numbers its level changes: hist[n] is its book   *)
(* after update n, a map from side and tick to lots.  An increment covers a *)
(* range of updates first .. last and lists, in any order, the absolute     *)
(* quantity each tick touched in that range has after update last; that is  *)
(* what the adapters of feed/src/md/adapters make of a depth message.  Any  *)
(* increment and any snapshot of the history can arrive at any time, which  *)
(* covers losses, duplicates, delays and reordering, buffered replay and    *)
(* snapshots older or newer than the stream.                                *)
(***************************************************************************)
EXTENDS OrderBookController, FiniteSets

CONSTANTS Kind,        \* BaselineKind of the venue's snapshots
          SnapDepth,   \* levels per side in a snapshot
          MaxSeq,      \* bound: exchange updates
          Seqless,     \* increments carry no update ids
          Corruption   \* increments may arrive with a wrong quantity

ASSUME SyncAssumption ==
  /\ IsFiniteSet(Ticks)
  /\ Kind \in BaselineKind
  /\ SnapDepth \in Nat
  /\ MaxSeq \in Nat
  /\ {Seqless, Corruption} \subseteq BOOLEAN

VARIABLES hist,    \* the exchange's books, by update id
          ctl,     \* the controller
          tainted  \* since the last baseline a gap was tolerated, or an increment
                   \* without ids or with damage was applied

vars == <<hist, ctl, tainted>>

ExchangeBook == [Side -> [Ticks -> Lots]]

\* An exchange never rests a bid at or above an ask.
Uncrossed(b) ==
  \A p, q \in Ticks : b["BID"][p] > 0 /\ b["ASK"][q] > 0 => p < q

-----------------------------------------------------------------------------
(* Messages.                                                                *)

Touched(S, first, last) ==
  {t \in Ticks : \E n \in first .. last : hist[n][S][t] # hist[n - 1][S][t]}

\* The level lists an increment covering first .. last can have for side S.
IncrementLevels(S, first, last) ==
  {[i \in DOMAIN o |-> ParsedLevel(o[i], hist[last][S][o[i]])] :
     o \in Orderings(Touched(S, first, last))}

\* The best SnapDepth levels of side S after update n, and possibly the empty
\* ticks as levels of quantity 0.
SnapshotTicks(S, n) ==
  {t \in Ticks :
     /\ hist[n][S][t] > 0
     /\ Cardinality({u \in Ticks : hist[n][S][u] > 0 /\ Ahead(S, u, t)}) < SnapDepth}

SnapshotLevels(S, n, zeros) ==
  {ParsedLevel(t, hist[n][S][t]) :
     t \in SnapshotTicks(S, n) \cup {u \in Ticks : zeros /\ hist[n][S][u] = 0}}

\* The texts of the exchange's best levels, best first.
ExchangeTexts(S, n) ==
  LET resting == {t \in Ticks : hist[n][S][t] > 0}
      rank(t) == Cardinality({u \in resting : Ahead(S, u, t)}) + 1
      size    == Cardinality(resting)
      tick(i) == CHOOSE t \in resting : rank(t) = i
  IN  [i \in 1 .. (IF size < ChecksumTopN THEN size ELSE ChecksumTopN) |->
         <<tick(i), hist[n][S][tick(i)]>>]

Checksum(n) ==
  IF ChecksumFn \/ HasChecksum
  THEN << <<ExchangeTexts("BID", n), ExchangeTexts("ASK", n)>> >>
  ELSE <<>>

-----------------------------------------------------------------------------
Init ==
  /\ \E b \in ExchangeBook : Uncrossed(b) /\ hist = <<b>>
  /\ ctl = NewController
  /\ tainted = FALSE

\* The exchange changes one level (external).
ExchangeUpdate(S, t, q) ==
  LET b == [hist[Len(hist)] EXCEPT ![S][t] = q]
  IN  /\ Len(hist) < MaxSeq
      /\ b # hist[Len(hist)]
      /\ Uncrossed(b)
      /\ hist' = Append(hist, b)
      /\ UNCHANGED <<ctl, tainted>>

\* A snapshot of update n arrives; some venues leave its checksum out.
Snapshot(n, zeros, checksum) ==
  \E bs \in SortedLevels("BID", SnapshotLevels("BID", n, zeros)),
     as \in SortedLevels("ASK", SnapshotLevels("ASK", n, zeros)) :
    /\ ctl' = OnSnapshot(ctl, [lastUpdateId |-> n, checksum |-> checksum,
                               bids |-> bs, asks |-> as], Kind)
    /\ tainted' = FALSE
    /\ UNCHANGED hist

\* The controller handles the increment m.
Handle(m, damaged) ==
  /\ ctl' = OnIncrement(ctl, m)
  /\ tainted' = /\ ctl'.state # "WaitingSnapshot"
                /\ \/ tainted
                   \/ ~ HasSeq(m)
                   \/ AllowSeqGap /\ m.first_seq > ctl.expected_seq
                   \/ damaged /\ m.last_seq >= ctl.expected_seq
  /\ UNCHANGED hist

Increment(first, last, checksum) ==
  \E bs \in IncrementLevels("BID", first, last),
     as \in IncrementLevels("ASK", first, last) :
    Handle([first_seq |-> IF Seqless THEN 0 ELSE first,
            last_seq  |-> IF Seqless THEN 0 ELSE last,
            checksum  |-> checksum, bids |-> bs, asks |-> as], FALSE)

\* An increment whose bid side ends with a level the exchange does not have.
CorruptIncrement(first, last, t, q) ==
  /\ Corruption
  /\ hist[last]["BID"][t] # q
  /\ \E bs \in IncrementLevels("BID", first, last),
        as \in IncrementLevels("ASK", first, last) :
       Handle([first_seq |-> IF Seqless THEN 0 ELSE first,
               last_seq  |-> IF Seqless THEN 0 ELSE last,
               checksum  |-> Checksum(last),
               bids |-> Append(bs, ParsedLevel(t, q)), asks |-> as], TRUE)

\* The owner resets the book (restart, disconnect).
Reset ==
  /\ ctl' = Done(ResetBook(ctl))
  /\ tainted' = FALSE
  /\ UNCHANGED hist

Next ==
  \/ \E S \in Side, t \in Ticks, q \in Lots : ExchangeUpdate(S, t, q)
  \/ \E n \in 1 .. Len(hist), zeros \in BOOLEAN :
       \E checksum \in {<<>>, Checksum(n)} : Snapshot(n, zeros, checksum)
  \/ \E first, last \in 2 .. Len(hist) :
       /\ first <= last
       /\ \/ \E checksum \in {<<>>, Checksum(last)} : Increment(first, last, checksum)
          \/ \E t \in Ticks, q \in Lots : CorruptIncrement(first, last, t, q)
  \/ Reset

Spec == Init /\ [][Next]_vars

-----------------------------------------------------------------------------
(* Properties.                                                              *)

\* The controller is a controller, the history a history of uncrossed books.
TypeOK ==
  /\ hist \in Seq(ExchangeBook)
  /\ ctl \in Controller
  /\ tainted \in BOOLEAN

SideOf(c, S) == IF S = "BID" THEN c.bids ELSE c.asks

\* Every level of side S is the exchange's level after update n.
SideSound(S, vec, n) ==
  \A i \in 1 .. Len(vec) : vec[i].quantityLot = hist[n][S][vec[i].priceTick]

\* Once the controller has a baseline, and unless it tolerated a gap or applied
\* an increment without ids or with damage, every level it holds is exactly what
\* the exchange had at update getAppliedSeqID(): no phantom level survives a lost, repeated, delayed or
\* reordered increment, whatever depth truncation did.  This is what the
\* continuity checks of onIncrement are for.
BookSound ==
  ctl.state # "WaitingSnapshot" /\ ~ tainted =>
    /\ ctl.last_seq \in 1 .. Len(hist)
    /\ \A S \in Side : SideSound(S, SideOf(ctl, S), ctl.last_seq)

\* A book deep enough for every tick is the exchange's book at update
\* getAppliedSeqID(), level for level: nothing is missing either.
BookExact ==
  ctl.state # "WaitingSnapshot" /\ ~ tainted =>
    \A S \in Side : LotsOn(SideOf(ctl, S)) = hist[ctl.last_seq][S]

\* C1: a Synced book is never crossed, even if gaps are tolerated and levels
\* go stale.  ArbDetector reads best_bid and best_ask of Synced books only.
SyncedNotCrossed == ctl.state = "Synced" => ~ Crossed(ctl)

\* The other half of the continuity checks: while the book is not tainted, an
\* intact increment that covers expected_seq_ is accepted, whatever overlap it
\* has with what was applied.  The guards C1 and C3 cost no resynchronisation
\* on a healthy stream.
ContiguousAccepted ==
  ctl.state # "WaitingSnapshot" /\ ~ tainted =>
    \A first \in 2 .. ctl.expected_seq, last \in ctl.expected_seq .. Len(hist) :
      \A bs \in IncrementLevels("BID", first, last),
         as \in IncrementLevels("ASK", first, last) :
        OnIncrement(ctl, [first_seq |-> first, last_seq |-> last,
                          checksum |-> Checksum(last),
                          bids |-> bs, asks |-> as]).action = "None"

\* C3 never has anything to report: validate() holds in every state, so the
\* periodic check only ever costs time.
ControllerBookValid == Validate(ctl.bids, ctl.asks)

\* With a checksum validator, the texts of a Synced book are those of the
\* exchange at getAppliedSeqID(), even if increments arrive corrupted
\* (baselines without a checksum included).  Without ids they are those of some
\* update: lost and reordered increments cannot mix two books.
ChecksummedTextsMatch ==
  ctl.state # "WaitingSnapshot" =>
    \E n \in IF Seqless THEN 1 .. Len(hist) ELSE {ctl.last_seq} :
      /\ Texts(ctl.bids) = ExchangeTexts("BID", n)
      /\ Texts(ctl.asks) = ExchangeTexts("ASK", n)

=============================================================================
