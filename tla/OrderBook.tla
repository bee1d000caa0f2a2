------------------------------ MODULE OrderBook ------------------------------
(***************************************************************************)
(* md::OrderBook (common/include/orderbook/OrderBook.hpp): a two-sided,     *)
(* depth-bounded price ladder.  A side is a vector of levels, bids sorted   *)
(* by descending tick and asks by ascending tick; index 0 of the C++ vector *)
(* is index 1 here.                                                         *)
(*                                                                          *)
(* A Level of the code carries the integers priceTick and quantityLot next  *)
(* to the decimal texts price and quantity they were parsed from.  The      *)
(* price text never changes while the tick does not, so it is left out; the *)
(* quantity text is kept, as the lot count it denotes.                      *)
(*                                                                          *)
(* This module has the operations as functions of a side; OrderBookSpec has *)
(* the object as a state machine.                                           *)
(***************************************************************************)
EXTENDS Integers, Sequences

CONSTANTS Depth,  \* capacity of a side (constructor argument)
          Ticks,  \* price ticks that occur
          Lots    \* quantities that occur, in lots; 0 asks for a removal

ASSUME DepthAssumption == Depth \in Nat \ {0}
ASSUME TicksAssumption == Ticks \subseteq Nat \ {0}
ASSUME LotsAssumption == Lots \subseteq Nat /\ 0 \in Lots

Side == {"BID", "ASK"}

Level == [priceTick : Ticks, quantityLot : Lots, quantity : Lots]

\* A level as an adapter parses it: both forms denote the same quantity.
ParsedLevel(tick, lot) == [priceTick |-> tick, quantityLot |-> lot, quantity |-> lot]

IsEmpty(level) == level.quantityLot = 0

-----------------------------------------------------------------------------
\* Tick p ranks strictly ahead of tick q on side S.
Ahead(S, p, q) == IF S = "BID" THEN p > q ELSE p < q

\* std::lower_bound with the side's comparator: the first position whose level
\* does not rank ahead of the tick, one past the end if there is none.
LowerBound(S, vec, tick) ==
  CHOOSE k \in 1 .. Len(vec) + 1 :
    /\ \A i \in 1 .. k - 1 : Ahead(S, vec[i].priceTick, tick)
    /\ k <= Len(vec) => ~ Ahead(S, vec[k].priceTick, tick)

\* The iterator returned by lower_bound points at a level with this very tick.
HitAt(vec, k, tick) == k <= Len(vec) /\ vec[k].priceTick = tick

\* insert, erase and pop_back of std::vector.
Inserted(vec, k, level) == SubSeq(vec, 1, k - 1) \o <<level>> \o SubSeq(vec, k, Len(vec))
Erased(vec, k) == SubSeq(vec, 1, k - 1) \o SubSeq(vec, k + 1, Len(vec))
PopBack(vec) == SubSeq(vec, 1, Len(vec) - 1)

\* Mutant: the level found is overwritten by a default-constructed Level
\* instead of being erased.
RemoveTickBlank(S, vec, tick) ==
  LET k == LowerBound(S, vec, tick)
  IN  IF HitAt(vec, k, tick)
      THEN [vec EXCEPT ![k] = [priceTick |-> 0, quantityLot |-> 0, quantity |-> 0]]
      ELSE vec

\* remove<S>(priceTick)
RemoveTick(S, vec, tick) ==
  LET k == LowerBound(S, vec, tick)
  IN  IF HitAt(vec, k, tick) THEN Erased(vec, k) ELSE vec

\* Mutant: a full side inserts without dropping its last level.
UpdateNoPop(S, vec, level) ==
  LET k == LowerBound(S, vec, level.priceTick)
  IN  IF IsEmpty(level) THEN RemoveTick(S, vec, level.priceTick)
      ELSE IF HitAt(vec, k, level.priceTick)
           THEN [vec EXCEPT ![k].quantityLot = level.quantityLot]
      ELSE Inserted(vec, k, level)

\* Mutant: a full side pops its best level instead of its worst.
UpdatePopBest(S, vec, level) ==
  LET k == LowerBound(S, vec, level.priceTick)
  IN  IF IsEmpty(level) THEN RemoveTick(S, vec, level.priceTick)
      ELSE IF HitAt(vec, k, level.priceTick)
           THEN [vec EXCEPT ![k].quantityLot = level.quantityLot]
      ELSE IF Len(vec) < Depth THEN Inserted(vec, k, level)
      ELSE IF k <= Len(vec) THEN Tail(Inserted(vec, k, level))
      ELSE vec

\* update<S>(level).  Option A overwrites quantityLot only: the quantity text
\* of the level stays what it was when the level was inserted.
Update(S, vec, level) ==
  LET k == LowerBound(S, vec, level.priceTick)
  IN  IF IsEmpty(level) THEN RemoveTick(S, vec, level.priceTick)
      ELSE IF HitAt(vec, k, level.priceTick)                       \* Option A
           THEN [vec EXCEPT ![k].quantityLot = level.quantityLot]
      ELSE IF Len(vec) < Depth THEN Inserted(vec, k, level)        \* Option B
      ELSE IF k <= Len(vec) THEN PopBack(Inserted(vec, k, level))    \* Option C
      ELSE vec

\* `for (const Level &lvl : levels) book_.update<S>(lvl);`
UpdateAll(S, vec, levels) ==
  LET after[n \in 0 .. Len(levels)] ==
        IF n = 0 THEN vec ELSE Update(S, after[n - 1], levels[n])
  IN  after[Len(levels)]

-----------------------------------------------------------------------------
\* The loops of validate(), one side at a time.
StrictlySorted(S, vec) ==
  \A i \in 1 .. Len(vec) : i > 1 => Ahead(S, vec[i - 1].priceTick, vec[i].priceTick)

ValidSide(S, vec) ==
  /\ Len(vec) <= Depth
  /\ StrictlySorted(S, vec)
  /\ \A i \in 1 .. Len(vec) : ~ IsEmpty(vec[i])

Validate(b, a) == ValidSide("BID", b) /\ ValidSide("ASK", a)

\* best_bid().priceTick, best_ask().priceTick: an empty side answers with a
\* sentinel level whose tick is 0.
BestTick(vec) == IF vec = <<>> THEN 0 ELSE vec[1].priceTick

\* The quantity a side holds at each tick, 0 where it has no level.
LotsOn(vec) ==
  [t \in Ticks |->
     IF \E i \in 1 .. Len(vec) : vec[i].priceTick = t
     THEN vec[CHOOSE i \in 1 .. Len(vec) : vec[i].priceTick = t].quantityLot
     ELSE 0]

=============================================================================
