----------------------------- MODULE PublishLink -----------------------------
(***************************************************************************)
(* md::WsPublishSink (feed/src/postprocess/WsPublishSink.cpp) over its      *)
(* md::WsClient (common/src/connection_handler/WsClient.cpp): the link that *)
(* carries a feed's events to the brain and reconnects when it drops.       *)
(*                                                                          *)
(* All handlers of a feed run on one I/O thread, one at a time, and a call  *)
(* from the sink runs the client's strand inline, so a handler is one step. *)
(* Aborted completions run before the reconnect timer, which waits at least *)
(* 750 ms, with one exception: cancelling a resolve does not interrupt it,  *)
(* and the resolver thread may report it, aborted or resolved, much later.  *)
(* Events are numbered in the order they are published.                     *)
(***************************************************************************)
EXTENDS Integers, Sequences, Functions

CONSTANTS max_outbox,                 \* set_max_outbox
          DelayMin, DelayMax,         \* kReconnectDelayMinMs, kReconnectDelayMaxMs
          MaxEvents, MaxFaults        \* bounds: events published, failures

ASSUME LinkAssumption ==
  /\ max_outbox \in Nat \ {0, 1}
  /\ DelayMin \in Nat \ {0} /\ DelayMax \in Nat /\ DelayMin <= DelayMax
  /\ MaxEvents \in Nat /\ MaxFaults \in Nat

VARIABLES link,     \* the sink and its client
          events,   \* events published
          faults,   \* failures so far
          got       \* what the brain received

vars == <<link, events, faults, got>>

Garbage == 0    \* what a write sends whose buffer was freed

Handshakes == <<"resolve", "tcp", "tls", "ws">>

\* op: the pending step of the connection, "read" once it is open.  sock: the
\* socket has not been closed.  late: cancelled resolves still in the resolver
\* thread.  deadline: connect_deadline_ ("fired" once its handler is queued).
\* timers: the generations captured by the reconnect waits that may still fire.
\* wire: the writes in flight.  newest: observer, the last event accepted on
\* this connection.
Idle ==
  [running |-> FALSE, scheduled |-> FALSE, gen |-> 0, delay |-> DelayMin, timers |-> {},
   op |-> "none", sock |-> FALSE, late |-> 0, deadline |-> "off", closeop |-> FALSE,
   closing |-> FALSE, opened |-> FALSE, notified |-> FALSE,
   outbox |-> <<>>, writing |-> FALSE, wire |-> <<>>, newest |-> 0]

Init == link = Idle /\ events = 0 /\ faults = 0 /\ got = <<>>

-----------------------------------------------------------------------------
(* The methods: each maps a link to the link it leaves behind.              *)

\* schedule_reconnect_()
ScheduleReconnect(s) ==
  IF ~ s.running \/ s.scheduled THEN s
  ELSE [s EXCEPT !.scheduled = TRUE, !.gen = @ + 1,
                 !.delay = IF 2 * @ < DelayMax THEN 2 * @ ELSE DelayMax,
                 !.timers = @ \cup {s.gen + 1}]

\* notify_close_once_(), and the sink's on_close
NotifyClose(s) ==
  IF s.notified THEN s ELSE ScheduleReconnect([s EXCEPT !.notified = TRUE])

\* close_socket_hard_()
CloseHard(s) ==
  IF s.op = "resolve" THEN [s EXCEPT !.sock = FALSE, !.op = "none", !.late = @ + 1]
  ELSE [s EXCEPT !.sock = FALSE]

\* A handler that is already queued cannot be cancelled any more.
Disarm(s) == IF s.deadline = "armed" THEN [s EXCEPT !.deadline = "off"] ELSE s

\* fail_(ec, where)
Fail(s) ==
  IF s.closing THEN NotifyClose(s)
  ELSE NotifyClose(CloseHard(Disarm([s EXCEPT !.closing = TRUE])))

\* Mutant: the deadline of the attempt is not set.
ConnectUntimed(s) ==
  [s EXCEPT !.closing = FALSE, !.opened = FALSE, !.notified = FALSE,
            !.outbox = <<>>, !.writing = FALSE, !.newest = 0,
            !.sock = TRUE, !.op = "resolve"]

\* connect(host, port, target)
Connect(s) ==
  [s EXCEPT !.closing = FALSE, !.opened = FALSE, !.notified = FALSE,
            !.outbox = <<>>, !.writing = FALSE, !.newest = 0,
            !.sock = TRUE, !.op = "resolve", !.deadline = "armed"]

\* start_write_() and do_write_()
StartWrite(s) ==
  IF s.writing \/ s.outbox = <<>> THEN s
  ELSE [s EXCEPT !.writing = TRUE, !.wire = Append(@, [msg |-> Head(s.outbox), freed |-> FALSE])]

\* Mutant: a full outbox refuses the new message.
QueuedDropNewest(s, n) ==
  IF Len(s.outbox) >= max_outbox THEN [s EXCEPT !.newest = n]
  ELSE [s EXCEPT !.outbox = Append(@, n), !.newest = n]

\* The oldest message makes room, also when it is the one being written.
Queued(s, n) ==
  IF Len(s.outbox) >= max_outbox
  THEN [s EXCEPT !.outbox = Append(Tail(@), n), !.newest = n,
                 !.wire = [i \in DOMAIN @ |-> [@[i] EXCEPT !.freed = TRUE]]]
  ELSE [s EXCEPT !.outbox = Append(@, n), !.newest = n]

\* send_binary(data)
SendBinary(s, n) ==
  IF s.closing THEN s
  ELSE IF s.opened THEN StartWrite(Queued(s, n)) ELSE Queued(s, n)

\* close()
Close(s) ==
  IF s.closing THEN s
  ELSE IF s.opened THEN [s EXCEPT !.closing = TRUE, !.closeop = TRUE]
  ELSE NotifyClose(CloseHard([s EXCEPT !.closing = TRUE]))

-----------------------------------------------------------------------------
(* Calls by the feed handler.                                               *)

\* start(): the client certificate may fail to load.
Start ==
  /\ link.gen = 0
  /\ link' \in {Connect([link EXCEPT !.running = TRUE, !.gen = 1]), [link EXCEPT !.gen = 1]}
  /\ UNCHANGED <<events, faults, got>>

\* stop(): a wait that has fired is not cancelled.
Stop ==
  /\ link.running
  /\ \E timers \in {{}, link.timers} :
       link' = Close([link EXCEPT !.running = FALSE, !.scheduled = FALSE, !.gen = @ + 1,
                                  !.timers = timers])
  /\ UNCHANGED <<events, faults, got>>

\* publish_status, publish_snapshot, publish_incremental, publish_book_state
Publish ==
  /\ link.running /\ events < MaxEvents
  /\ events' = events + 1
  /\ link' = SendBinary(link, events')
  /\ UNCHANGED <<faults, got>>

-----------------------------------------------------------------------------
(* Completions.                                                             *)

Fault == faults < MaxFaults /\ faults' = faults + 1

\* Mutant: the flag of a reconnect in progress is not cleared.
ReconnectKeepFlag(s) == Connect(s)

\* The part of the timer handler behind its checks.
Reconnect(s) == Connect([s EXCEPT !.scheduled = FALSE])

\* The reconnect timer's handler of generation g.  A resolve that outlives the
\* back-off counts as a failure.
ReconnectFires(g) ==
  /\ g \in link.timers /\ link.op = "none" /\ link.wire = <<>> /\ link.deadline # "fired"
  /\ LET s == [link EXCEPT !.timers = @ \ {g}]
     IN  link' = IF s.running /\ g = s.gen THEN Reconnect(s) ELSE s
  /\ IF link.late > 0 THEN Fault ELSE UNCHANGED faults
  /\ UNCHANGED <<events, got>>

\* do_ws_handshake_ succeeds: queued messages go out, on_open resets the
\* back-off, the read loop starts.
Opened(s) ==
  [StartWrite(Disarm([s EXCEPT !.opened = TRUE, !.op = "read"]))
     EXCEPT !.delay = DelayMin, !.scheduled = FALSE]

\* A step of the connection succeeds.  The resolver thread works in order.
StepOk ==
  /\ link.sock /\ link.op \in Range(Handshakes) /\ (link.op = "resolve" => link.late = 0)
  /\ link' = IF link.closing THEN [link EXCEPT !.op = "none"]
             ELSE IF link.op = "ws" THEN Opened(link)
             ELSE LET i == CHOOSE j \in DOMAIN Handshakes : Handshakes[j] = link.op
                  IN  [link EXCEPT !.op = Handshakes[i + 1]]
  /\ UNCHANGED <<events, faults, got>>

\* It fails, or the read loop meets an error.
StepFails ==
  /\ link.sock /\ link.op # "none" /\ (link.op = "resolve" => link.late = 0) /\ Fault
  /\ link' = Fail([link EXCEPT !.op = "none"])
  /\ UNCHANGED <<events, got>>

\* The brain closes the WebSocket.
ReadClosed ==
  /\ link.sock /\ link.op = "read" /\ Fault
  /\ link' = NotifyClose(CloseHard(Disarm([link EXCEPT !.op = "none", !.closing = TRUE])))
  /\ UNCHANGED <<events, got>>

\* The socket was closed under a pending step: a handshake's handler returns at
\* once, that of the read loop calls fail_.
StepAborted ==
  /\ ~ link.sock /\ link.op # "none"
  /\ LET s == [link EXCEPT !.op = "none"]
     IN  link' = IF link.op = "read" THEN Fail(s) ELSE s
  /\ UNCHANGED <<events, faults, got>>

\* The handler of a cancelled resolve, which a later attempt runs into.  If it
\* resolved after all it connects the socket of that attempt, whose own resolve
\* is now the late one; a socket in use is closed by that.
LateResolve ==
  /\ link.late > 0
  /\ LET s == [link EXCEPT !.late = @ - 1]
     IN  IF link.closing THEN link' = s
         ELSE \/ link' = Fail(s)
              \/ link.op = "resolve" /\ link' = [link EXCEPT !.op = "tcp"]
  /\ UNCHANGED <<events, faults, got>>

\* Mutant: what was sent stays in the outbox.
WrittenKeepFront(s) == StartWrite([s EXCEPT !.writing = FALSE, !.wire = Tail(@)])

\* Mutant: the flag stays set.
WrittenStillWriting(s) == StartWrite([s EXCEPT !.wire = Tail(@), !.outbox = Tail(@)])

\* The handler of do_write_ without an error.
Written(s) == StartWrite([s EXCEPT !.writing = FALSE, !.wire = Tail(@), !.outbox = Tail(@)])

WriteOk ==
  /\ link.sock /\ link.wire # <<>>
  /\ \E sent \in {Head(link.wire).msg} \cup (IF Head(link.wire).freed THEN {Garbage} ELSE {}) :
       got' = Append(got, sent)
  /\ link' = Written(link)
  /\ UNCHANGED <<events, faults>>

\* With an error; of a closed socket there is always one.
WriteFails ==
  /\ link.wire # <<>>
  /\ IF link.sock THEN Fault ELSE UNCHANGED faults
  /\ link' = Fail([link EXCEPT !.writing = FALSE, !.wire = Tail(@)])
  /\ UNCHANGED <<events, got>>

\* connect_deadline_ expires; its handler is queued behind others.
DeadlineExpires ==
  /\ link.deadline = "armed" /\ Fault
  /\ link' = [link EXCEPT !.deadline = "fired"]
  /\ UNCHANGED <<events, got>>

DeadlineRuns ==
  /\ link.deadline = "fired"
  /\ link' = Fail([link EXCEPT !.deadline = "off"])
  /\ UNCHANGED <<events, faults, got>>

\* async_close completes.
CloseDone ==
  /\ link.closeop
  /\ link' = NotifyClose(CloseHard([link EXCEPT !.closeop = FALSE]))
  /\ UNCHANGED <<events, faults, got>>

Completion ==
  \/ \E g \in link.timers : ReconnectFires(g)
  \/ StepOk \/ StepAborted \/ LateResolve \/ WriteOk \/ WriteFails \/ DeadlineRuns \/ CloseDone

Next == Start \/ Stop \/ Publish \/ StepFails \/ ReadClosed \/ DeadlineExpires \/ Completion

\* The I/O loop runs what is queued, and what is pending completes: a connection
\* attempt because of its deadline, a close because of the stream's timeout.
Spec == Init /\ [][Next]_vars /\ WF_vars(Completion)

-----------------------------------------------------------------------------
(* Properties.                                                              *)

\* Never two writes at a time on the stream, write_in_flight_ says whether there
\* is one, and the completion always finds a message to pop.
OneWrite ==
  /\ Len(link.wire) <= 1
  /\ link.writing <=> link.wire # <<>>
  /\ link.writing => link.outbox # <<>>

\* A running sink is connected, or connecting under a deadline, or has a
\* reconnect timer that will be honoured: no order of failures, late
\* completions and timers leaves the link dead with nothing to revive it.
LinkNeverStranded ==
  link.running =>
    IF link.closing THEN link.scheduled /\ link.gen \in link.timers
    ELSE link.op # "none" /\ (link.opened \/ link.deadline # "off")

\* What the outbox holds and what is being written.
Waiting == Range(link.outbox) \cup {link.wire[i].msg : i \in DOMAIN link.wire}

EL == INSTANCE EventLink WITH waiting <- Waiting

\* The link keeps EventLink's promise: the brain gets a feed's events in the
\* order they were published and none twice, across evictions, failed writes
\* and reconnections.
ImplementsEventLink == EL!Spec

\* "Prefer freshest updates": while the connection lives, the newest event it
\* accepted is waiting or was handed to the socket, however full the outbox is
\* and although eviction and completion pop the front independently.
NewestKept ==
  ~ link.closing /\ link.newest # 0 => link.newest \in Range(link.outbox) \cup Range(got)

\* Once failures cease, a running sink gets its connection.
Reconnects == link.running ~> (~ link.running \/ (link.opened /\ ~ link.closing))

=============================================================================
