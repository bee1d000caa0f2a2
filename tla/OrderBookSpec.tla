---------------------------- MODULE OrderBookSpec ----------------------------
(***************************************************************************)
(* An md::OrderBook object under any sequence of calls of its public        *)
(* methods.                                                                 *)
(***************************************************************************)
EXTENDS OrderBook

VARIABLES bids, asks

bookVars == <<bids, asks>>

Init == bids = <<>> /\ asks = <<>>

UpdateBid(level) == bids' = Update("BID", bids, level) /\ UNCHANGED asks

UpdateAsk(level) == asks' = Update("ASK", asks, level) /\ UNCHANGED bids

RemoveBid(tick) == bids' = RemoveTick("BID", bids, tick) /\ UNCHANGED asks

RemoveAsk(tick) == asks' = RemoveTick("ASK", asks, tick) /\ UNCHANGED bids

Clear == bids' = <<>> /\ asks' = <<>>

Next ==
  \/ \E tick \in Ticks, lot \in Lots :
       \/ UpdateBid(ParsedLevel(tick, lot))
       \/ UpdateAsk(ParsedLevel(tick, lot))
  \/ \E tick \in Ticks : RemoveBid(tick) \/ RemoveAsk(tick)
  \/ Clear

Spec == Init /\ [][Next]_bookVars

-----------------------------------------------------------------------------
(* Properties.                                                              *)

\* Both sides are sequences of levels.
TypeOK == bids \in Seq(Level) /\ asks \in Seq(Level)

\* OrderBook::validate() returns true after every sequence of update, remove
\* and clear calls: no side exceeds the depth, ticks stay strictly sorted (so
\* unique), and no level with quantity 0 lingers.  Guard C3 of the controller
\* resynchronises the feed whenever this fails.
BookValidates == Validate(bids, asks)

=============================================================================
