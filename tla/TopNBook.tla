------------------------------ MODULE TopNBook -------------------------------
(***************************************************************************)
(* What md::OrderBook promises, without vectors or iterators: each side is  *)
(* a map from ticks to lots (0: no level) that forgets everything but its   *)
(* best Depth levels.                                                       *)
(***************************************************************************)
EXTENDS Integers, FiniteSets

CONSTANTS Depth, Ticks, Lots

VARIABLE lots

Side == {"BID", "ASK"}

Better(S, p, q) == IF S = "BID" THEN p > q ELSE p < q

\* The map m of side S without the levels that Depth better ones precede.
Best(S, m) ==
  [t \in Ticks |->
     IF Cardinality({u \in Ticks : m[u] > 0 /\ Better(S, u, t)}) < Depth
     THEN m[t] ELSE 0]

Init == lots = [S \in Side |-> [t \in Ticks |-> 0]]

SetLevel(S, t, q) == lots' = [lots EXCEPT ![S] = Best(S, [lots[S] EXCEPT ![t] = q])]

Clear == lots' = [S \in Side |-> [t \in Ticks |-> 0]]

Next == (\E S \in Side, t \in Ticks, q \in Lots : SetLevel(S, t, q)) \/ Clear

Spec == Init /\ [][Next]_lots

=============================================================================
