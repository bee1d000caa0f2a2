---------------------------- MODULE SignalServer ----------------------------
(***************************************************************************)
(* brain::SignalServer and SignalSession (brain/src/brain/SignalServer.cpp): *)
(* the channel that pushes every reported cross to the exec processes.      *)
(*                                                                          *)
(* The server's handlers run one at a time on strand_, a session's on the   *)
(* session's own strand; the strands run in parallel on the I/O threads.    *)
(* A strand runs what was posted to it in order.  A session object lives as *)
(* long as something refers to it: a handshake or read in progress, a write *)
(* in flight, or a handler posted to its strand; sessions_ holds weak       *)
(* references only.  Crosses are numbered in the order they are broadcast.  *)
(***************************************************************************)
EXTENDS Integers, Sequences, FiniteSets, Functions, Subsequences

CONSTANTS Clients,        \* connection attempts of exec processes
          kMaxSessions, kMaxOutbox,
          MaxSignals      \* bound: crosses broadcast

ASSUME SignalAssumption ==
  /\ IsFiniteSet(Clients)
  /\ kMaxSessions \in Nat \ {0} /\ kMaxOutbox \in Nat \ {0} /\ MaxSignals \in Nat

VARIABLES tasks,         \* handlers waiting on strand_
          sessions,      \* sessions_
          live_count,    \* live_count_
          stopped,       \* stopped_
          accepting,     \* an async_accept is armed
          session,       \* the sessions, by client
          signals        \* crosses broadcast so far

vars == <<tasks, sessions, live_count, stopped, accepting, session, signals>>

Garbage == 0    \* what a write sends whose buffer was freed

\* link: the WebSocket.  op: a handshake or the read loop is pending.  posted:
\* the session strand's queue.  wire: the writes in flight, with the message,
\* whether the link was open when the write started, and whether the message
\* has left the outbox since.  early, got: observers, the last write failed
\* because it was started before the link was open, and what the client received.
NoSession ==
  [link |-> "none", op |-> FALSE, posted |-> <<>>, outbox |-> <<>>, writing |-> FALSE,
   wire |-> <<>>, early |-> FALSE, got |-> <<>>]

\* The weak reference to c's session is dead.
Expired(c) == ~ session[c].op /\ session[c].posted = <<>> /\ session[c].wire = <<>>

Init ==
  /\ tasks = <<>> /\ sessions = <<>> /\ live_count = 0
  /\ stopped = FALSE /\ accepting = TRUE
  /\ session = [c \in Clients |-> NoSession]
  /\ signals = 0

-----------------------------------------------------------------------------
(* Calls and completions that put a handler on strand_.                     *)

\* async_accept completes with a connection.
Connect(c) ==
  /\ accepting /\ session[c].link = "none" /\ \A i \in DOMAIN tasks : tasks[i] # <<"accept", c>>
  /\ accepting' = FALSE
  /\ tasks' = Append(tasks, <<"accept", c>>)
  /\ UNCHANGED <<sessions, live_count, stopped, session, signals>>

\* It completes with an error: on_accept_ returns without arming the next one.
AcceptFails ==
  /\ accepting /\ accepting' = FALSE
  /\ UNCHANGED <<tasks, sessions, live_count, stopped, session, signals>>

\* broadcast(text), called by the scan thread.
Broadcast ==
  /\ signals < MaxSignals /\ signals' = signals + 1
  /\ tasks' = Append(tasks, <<"broadcast", signals'>>)
  /\ UNCHANGED <<sessions, live_count, stopped, accepting, session>>

\* stop(), called by the signal handler; closing the acceptor aborts the accept.
Stop ==
  /\ ~ stopped /\ stopped' = TRUE /\ accepting' = FALSE
  /\ tasks' = Append(tasks, <<"stop">>)
  /\ UNCHANGED <<sessions, live_count, session, signals>>

-----------------------------------------------------------------------------
(* Handlers of strand_.                                                     *)

\* What the loops that prune sessions_ leave.
Alive == Keep(sessions, {c \in Clients : ~ Expired(c)})

\* Mutant: the cap is off by one.
AcceptOneMore(c) ==
  /\ IF Len(Alive) > kMaxSessions
     THEN /\ sessions' = Alive
          /\ session' = [session EXCEPT ![c].link = "closed"]
          /\ UNCHANGED live_count
     ELSE /\ sessions' = Append(Alive, c)
          /\ session' = [session EXCEPT ![c].link = "handshake", ![c].op = TRUE]
          /\ live_count' = live_count + 1
  /\ accepting' = ~ stopped

\* on_accept_ and do_accept_.  The sessions pruned here stay in live_count_.
Accept(c) ==
  /\ IF Len(Alive) >= kMaxSessions
     THEN /\ sessions' = Alive
          /\ session' = [session EXCEPT ![c].link = "closed"]
          /\ UNCHANGED live_count
     ELSE /\ sessions' = Append(Alive, c)
          /\ session' = [session EXCEPT ![c].link = "handshake", ![c].op = TRUE]
          /\ live_count' = live_count + 1
  /\ accepting' = ~ stopped

\* x is posted to the strand of every live session.
Post(x) ==
  session' = [c \in Clients |->
                IF c \in Range(Alive) THEN [session[c] EXCEPT !.posted = Append(@, x)]
                ELSE session[c]]

\* The handler of broadcast.
Forward(m) ==
  /\ sessions' = Alive
  /\ live_count' = live_count - (Len(sessions) - Len(Alive))
  /\ Post(<<"send", m>>)
  /\ UNCHANGED accepting

\* The handler of stop.
CloseAll ==
  /\ sessions' = <<>> /\ live_count' = 0
  /\ Post(<<"close">>)
  /\ UNCHANGED accepting

\* The next handler of strand_ runs.
RunTask ==
  /\ tasks # <<>> /\ tasks' = Tail(tasks)
  /\ \/ Head(tasks)[1] = "accept" /\ Accept(Head(tasks)[2])
     \/ Head(tasks)[1] = "broadcast" /\ Forward(Head(tasks)[2])
     \/ Head(tasks)[1] = "stop" /\ CloseAll
  /\ UNCHANGED <<stopped, signals>>

-----------------------------------------------------------------------------
(* Handlers of a session's strand.                                          *)

\* do_write_: the front of the outbox is written and stays where it is.
DoWrite(s) ==
  [s EXCEPT !.writing = TRUE,
            !.early = FALSE,
            !.wire = Append(@, [msg |-> Head(s.outbox), open |-> s.link = "open",
                                freed |-> FALSE])]

\* Drop-oldest: the front goes, also when it is the message being written.
Evicted(s) ==
  IF Len(s.outbox) < kMaxOutbox THEN s
  ELSE [s EXCEPT !.outbox = Tail(@),
                 !.wire = [i \in DOMAIN @ |-> [@[i] EXCEPT !.freed = TRUE]]]

Queued(s, m) == [Evicted(s) EXCEPT !.outbox = Append(@, m)]

\* Mutant: a write is started whether or not one is in flight.
SendAlways(s, m) == DoWrite(Queued(s, m))

\* The handler of send(m).
Send(s, m) ==
  IF s.writing THEN Queued(s, m) ELSE DoWrite(Queued(s, m))

\* Mutant: the outbox waits for the next send.
WrittenNoChain(s, sent) ==
  [s EXCEPT !.got = Append(@, sent), !.wire = Tail(@), !.outbox = Tail(@), !.writing = FALSE]

\* Mutant: what was sent stays in the outbox.
WrittenKeepFront(s, sent) ==
  LET done == [s EXCEPT !.got = Append(@, sent), !.wire = Tail(@)]
  IN  IF Len(done.outbox) > 1 THEN DoWrite(done) ELSE [done EXCEPT !.writing = FALSE]

\* on_write_ without an error.
Written(s, sent) ==
  LET done == [s EXCEPT !.got = Append(@, sent), !.wire = Tail(@), !.outbox = Tail(@)]
  IN  IF done.outbox # <<>> THEN DoWrite(done) ELSE [done EXCEPT !.writing = FALSE]

\* on_write_ with one: the front stays.
WriteFailed(s) ==
  LET w == Head(s.wire)
  IN  [s EXCEPT !.wire = Tail(@), !.writing = FALSE, !.early = ~ w.open,
                !.link = IF w.open THEN "closed" ELSE @]

Step(c, s) ==
  /\ session' = [session EXCEPT ![c] = s]
  /\ UNCHANGED <<tasks, sessions, live_count, stopped, accepting, signals>>

\* The next handler posted to the session runs.
RunPosted(c) ==
  /\ session[c].posted # <<>>
  /\ LET x == Head(session[c].posted)
         s == [session[c] EXCEPT !.posted = Tail(@)]
     IN  Step(c, IF x[1] = "close" THEN [s EXCEPT !.link = "closed"] ELSE Send(s, x[2]))

\* The handshakes succeed: do_tls_handshake_, do_ws_accept_, then do_read_.
Opens(c) ==
  /\ session[c].link = "handshake"
  /\ Step(c, [session[c] EXCEPT !.link = "open"])

\* A handshake or the read loop ends: an error, the client closing, close().
OpEnds(c) ==
  /\ session[c].op
  /\ Step(c, [session[c] EXCEPT !.op = FALSE, !.link = "closed"])

\* The write in flight completes.  One that was started before the link was
\* open, or whose link has closed, fails; any other may.
WriteEnds(c) ==
  /\ session[c].wire # <<>>
  /\ LET s == session[c]
         w == Head(s.wire)
     IN  \/ /\ w.open /\ s.link = "open"
            /\ \E sent \in {w.msg} \cup (IF w.freed THEN {Garbage} ELSE {}) :
                 Step(c, Written(s, sent))
         \/ Step(c, WriteFailed(s))

Next ==
  \/ \E c \in Clients : Connect(c) \/ RunPosted(c) \/ Opens(c) \/ OpEnds(c) \/ WriteEnds(c)
  \/ AcceptFails \/ Broadcast \/ Stop \/ RunTask

Spec == Init /\ [][Next]_vars

-----------------------------------------------------------------------------
\* A session never has two writes in flight, which the stream does not allow,
\* and writing_ says whether it has one: every send, completion and failure in
\* whatever order keeps the flag right.
OneWrite ==
  \A c \in Clients :
    /\ Len(session[c].wire) <= 1
    /\ session[c].writing <=> session[c].wire # <<>>

\* A client gets the crosses in the order they were found and none twice,
\* whatever is evicted or fails and however the strands interleave.
DeliveredInOrder ==
  \A c \in Clients :
    LET got == session[c].got
    IN  \A i, j \in DOMAIN got : i < j /\ got[i] # Garbage /\ got[j] # Garbage => got[i] < got[j]

\* The write loop does not stop with work left: messages wait on an open link
\* while nothing is being written only after a write that was started before the
\* link was open has failed (nothing but the next send starts another).
IdleMeansDrained ==
  \A c \in Clients :
    LET s == session[c]
    IN  s.link = "open" /\ ~ s.writing => s.outbox = <<>> \/ s.early

\* There are never more session objects than the cap, although the list the cap
\* is compared with holds weak references and is pruned lazily; nor more messages
\* in an outbox than its cap, although the front also counts while it is written.
SessionsCapped ==
  /\ ~ stopped => Cardinality({c \in Clients : ~ Expired(c)}) <= kMaxSessions
  /\ \A c \in Clients : Len(session[c].outbox) <= kMaxOutbox

=============================================================================
