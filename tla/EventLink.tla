------------------------------ MODULE EventLink ------------------------------
(***************************************************************************)
(* What the link from a feed to the brain promises (WsPublishSink over      *)
(* WsClient), without its connections, queues and timers: events may get    *)
(* lost at any time, but those that arrive do so in the order they were     *)
(* published and once.  A message may arrive garbled in the place of one    *)
(* that was dropped while it was being written.                             *)
(***************************************************************************)
EXTENDS Integers, Sequences

CONSTANT MaxEvents

VARIABLES events,    \* events published, numbered from 1
          waiting,   \* accepted and not yet delivered
          got        \* what the brain received

vars == <<events, waiting, got>>

Garbage == 0    \* what a write sends whose buffer was freed

Init == events = 0 /\ waiting = {} /\ got = <<>>

\* One publish_... call: accepted or refused, and it may push out others.
Publish ==
  /\ events < MaxEvents
  /\ events' = events + 1
  /\ waiting' \subseteq waiting \cup {events'}
  /\ UNCHANGED got

\* The connection is closed or replaced.
Lose ==
  /\ waiting' \subseteq waiting
  /\ UNCHANGED <<events, got>>

\* A write completes: what was published before it is out of the race.
Deliver ==
  /\ \E n \in waiting :
       /\ got' \in {Append(got, n), Append(got, Garbage)}
       /\ waiting' \subseteq {m \in waiting : m > n}
  /\ UNCHANGED events

Next == Publish \/ Lose \/ Deliver

Spec == Init /\ [][Next]_vars

-----------------------------------------------------------------------------
\* The brain gets a feed's events in the order they were published and none
\* twice, across evictions, failed writes and reconnections.
DeliveredInOrder ==
  \A i, j \in DOMAIN got : i < j /\ got[i] # Garbage /\ got[j] # Garbage => got[i] < got[j]

=============================================================================
