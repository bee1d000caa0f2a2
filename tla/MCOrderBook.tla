----------------------------- MODULE MCOrderBook -----------------------------
(* Model-checking instance of OrderBookSpec and its refinement mapping.     *)
EXTENDS OrderBookSpec

TopN == INSTANCE TopNBook
          WITH lots <- [S \in Side |-> LotsOn(IF S = "BID" THEN bids ELSE asks)]

\* update(), remove() and clear() on sorted vectors behave as a map that keeps
\* the best Depth levels of each side: the position found by lower_bound, the
\* overwrite of a known tick, the insertion with room and the insert-then-pop
\* of a full side never lose, duplicate or misplace a level.
ImplementsTopN == TopN!Spec

=============================================================================
