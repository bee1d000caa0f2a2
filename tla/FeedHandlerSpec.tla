--------------------------- MODULE FeedHandlerSpec ---------------------------
(***************************************************************************)
(* One feed handler between its venue and a brain: the callbacks of         *)
(* FeedHandler in every order the io_context may run them, while the link   *)
(* to the brain goes down and comes up again.                               *)
(*                                                                          *)
(* Update ids are counted from the opening of the current connection: the   *)
(* controller is reset before a connection is replaced, so ids of two       *)
(* connections are never compared (StaleNeverCounts below checks that).     *)
(* The budgets bound what goes wrong, so that "eventually" means once it    *)
(* stops going wrong.                                                       *)
(***************************************************************************)
EXTENDS FeedHandler

CONSTANTS MaxSeq,      \* update ids per connection
          MaxCloses,   \* connections that fail or are closed by the peer
          MaxFaults,   \* silences, bad messages, REST failures, full buffers
          MaxDrops,    \* times the link to the brain goes down
          MaxSteps     \* steps back of the wall clock

ASSUME BudgetAssumption ==
  /\ MaxSeq \in Nat \ {0, 1, 2}
  /\ {MaxCloses, MaxFaults, MaxDrops, MaxSteps} \subseteq Nat

VARIABLES h,                        \* the handler
          pos,                      \* last update id the connection delivered
          closes, faults, drops, steps     \* what has gone wrong so far

vars == <<h, pos, closes, faults, drops, steps>>
budgets == <<closes, faults, drops, steps>>

\* The id the stream of a connection is at when it opens.
Base == 1

Init ==
  /\ h \in {NewHandler(v) : v \in Venues}
  /\ pos = Base
  /\ closes = 0 /\ faults = 0 /\ drops = 0 /\ steps = 0

-----------------------------------------------------------------------------
Fault == faults < MaxFaults /\ faults' = faults + 1 /\ UNCHANGED <<closes, drops, steps>>

\* A callback that leaves the handler as g is over once the brain has what it sent.
After(g) == h' = Arrive(g)

\* start()
Start ==
  /\ ~ h.running /\ h.ws = "idle"
  /\ LET started == [SetState([h EXCEPT !.running = TRUE], "CONNECTING") EXCEPT !.sinks = HasBrain]
     IN  After(IF h.caps.requires_ws_bootstrap
               THEN BootstrapWS(SetState(started, "BOOTSTRAPPING"))
               ELSE ConnectWS(started))
  /\ UNCHANGED <<pos, budgets>>

\* stop(), posted to the io_context by the signal handler.  The sinks are
\* stopped before set_state_, so "disconnected" is not published.  A request in
\* flight is cancelled and answered later.
Stop ==
  /\ h.running
  /\ LET off == [Closed(h) EXCEPT !.running = FALSE, !.sinks = FALSE, !.watchdog = FALSE]
     IN  After([SetState(off, "DISCONNECTED") EXCEPT !.buffer = <<>>, !.ctl = ResetBook(@)])
  /\ UNCHANGED <<pos, budgets>>

\* The handshake completes.
WsOpens ==
  /\ h.ws = "connecting"
  /\ After(OnWSOpen([h EXCEPT !.ws = "open"]))
  /\ pos' = Base
  /\ UNCHANGED budgets

\* WsClient::fail_ or a close frame: connect error or timeout, read, write or
\* ping error, peer close.
WsCloses ==
  /\ h.ws \in {"connecting", "open"}
  /\ closes < MaxCloses /\ closes' = closes + 1
  /\ After(OnWSClose(Closed(h)))
  /\ UNCHANGED <<pos, faults, drops, steps>>

\* reconnect_timer_ fires.
ReconnectFires ==
  /\ h.reconnect
  /\ LET fired == [h EXCEPT !.reconnect = FALSE]
     IN  After(IF ~ h.running THEN fired
               ELSE IF h.caps.requires_ws_bootstrap
                    THEN BootstrapWS(SetState(fired, "BOOTSTRAPPING"))
               ELSE ConnectWS(SetState(fired, "CONNECTING")))
  /\ UNCHANGED <<pos, budgets>>

\* ws_watchdog_timer_ fires after a silence.  The age of the last message is
\* taken from the wall clock: after a step back it is too small, and the
\* watchdog is not armed again.
WatchdogFires ==
  /\ h.watchdog
  /\ LET fired   == [h EXCEPT !.watchdog = FALSE]
         ignored == {"DISCONNECTED", "CONNECTING", "BOOTSTRAPPING"}
     IN  \/ Fault /\ After(IF h.state \in ignored THEN fired ELSE RestartSync(fired))
         \/ /\ steps < MaxSteps /\ steps' = steps + 1
            /\ h' = fired
            /\ UNCHANGED <<closes, faults, drops>>
  /\ UNCHANGED pos

-----------------------------------------------------------------------------
\* A depth message of the connection arrives.
Receive(m) ==
  /\ h.ws = "open"
  /\ m.last <= MaxSeq
  /\ pos' = m.last
  /\ After(OnIncrementMessage(h, m))

Waiting == h.state \in {"WAIT_REST_SNAPSHOT", "WAIT_WS_SNAPSHOT", "WAIT_BRIDGE"}
Full == Waiting /\ Len(h.buffer) >= MaxBuffer

\* The next update, alone or batched with the one after it.
Increment ==
  \E last \in {pos + 1, pos + 2} :
    /\ ~ Full
    /\ Receive(WsIncrement(pos + 1, last, TRUE, FALSE))
    /\ UNCHANGED budgets

\* An update that was lost before this one, that does not parse, that crosses
\* the book, or that finds the buffer full.
BadIncrements ==
  {m \in {WsIncrement(n, n, parses, crossed) :
            n \in {pos + 1, pos + 2}, parses \in BOOLEAN, crossed \in BOOLEAN} :
     \/ m.first = pos + 2 /\ m.parses /\ ~ m.crossed /\ pos + 2 < MaxSeq
     \/ m.first = pos + 1 /\ ~ m.parses /\ ~ m.crossed /\ pos + 1 < MaxSeq
     \/ m.first = pos + 1 /\ m.parses /\ (m.crossed \/ Full)}

BadIncrement == Fault /\ \E m \in BadIncrements : Receive(m)

\* A snapshot on the stream: the first message of a connection, or later.
WsSnapshot ==
  /\ h.ws = "open" /\ h.caps.ws_sends_snapshot
  /\ After(OnSnapshotMessage(h, pos))
  /\ UNCHANGED <<pos, budgets>>

\* The REST request completes: a snapshot taken since the request, or the
\* bootstrap answer.  The callback of the snapshot finds running_ cleared after
\* stop(); that of the bootstrap does not look, and connects.
RestAnswer ==
  /\ \/ /\ h.rest = "get" /\ h.running
        /\ \E seq \in Base .. pos + 1 :
             /\ seq < MaxSeq
             /\ After(OnSnapshotResponse([h EXCEPT !.rest = "idle"], seq))
     \/ /\ h.rest = "post"
        /\ h' = ConnectWS([h EXCEPT !.rest = "idle"])
     \/ /\ h.rest # "idle" /\ ~ h.running
        /\ h' = [h EXCEPT !.rest = "idle"]
  /\ UNCHANGED <<pos, budgets>>

\* It fails (transport, parse, or a status outside 2xx, which RestClient turns
\* into an error: the wait after 429 or 418 is never reached), or a cache answers with a snapshot
\* older than the connection.
RestFails ==
  /\ h.rest # "idle" /\ h.running
  /\ Fault
  /\ \/ After(RestartSync([h EXCEPT !.rest = "idle"]))
     \/ h.rest = "get" /\ After(OnSnapshotResponse([h EXCEPT !.rest = "idle"], Base - 1))
  /\ UNCHANGED pos

\* The link to the brain goes down, and a sink that is running gets it up again.
LinkFalls ==
  /\ h.sinks /\ h.link
  /\ drops < MaxDrops /\ drops' = drops + 1
  /\ h' = [h EXCEPT !.link = FALSE]
  /\ UNCHANGED <<pos, closes, faults, steps>>

LinkRises ==
  /\ h.sinks /\ ~ h.link
  /\ h' = [h EXCEPT !.link = TRUE]
  /\ UNCHANGED <<pos, budgets>>

Next == \/ Start \/ Stop \/ WsOpens \/ WsCloses \/ ReconnectFires \/ WatchdogFires
        \/ Increment \/ BadIncrement \/ WsSnapshot \/ RestAnswer \/ RestFails
        \/ LinkFalls \/ LinkRises

\* What the io_context, the venue and the network do when all is well.
Progress == Start \/ WsOpens \/ ReconnectFires \/ Increment \/ RestAnswer \/ WsSnapshot

\* Some such step is ready and changes something.
Ready ==
  \/ ~ h.running /\ h.ws = "idle"
  \/ h.ws = "connecting" \/ h.reconnect \/ h.rest # "idle"
  \/ h.ws = "open" /\ ((~ Full /\ pos < MaxSeq) \/ h.state = "WAIT_WS_SNAPSHOT")

\* WF_vars(Progress) and WF_vars(RestAnswer) with ENABLED spelled out: the
\* io_context thread runs some ready callback, timers expire, handshakes
\* complete and the venue sends while there is nothing else to do; and RestClient
\* arms a deadline, so a request does not stay in flight for ever.
Fairness ==
  /\ []<>(~ Ready) \/ []<><<Progress>>_vars
  /\ []<>(h.rest = "idle") \/ []<><<RestAnswer>>_vars

Spec == Init /\ [][Next]_vars /\ Fairness

-----------------------------------------------------------------------------
\* The handler's fields hold values of their types.
TypeOK ==
  /\ h.caps \in Venues /\ h.state \in FeedSyncState
  /\ h.ctl.state \in {"WaitingSnapshot", "WaitingBridge", "Synced"}
  /\ h.ws \in {"idle", "connecting", "open", "closed"} /\ h.rest \in {"idle", "get", "post"}
  /\ Len(h.buffer) <= MaxBuffer /\ h.delay \in InitMs .. MaxMs
  /\ pos \in Base .. MaxSeq

\* Between callbacks the handler calls the feed SYNCED exactly when the
\* controller holds a synchronised book: state_ is written in six places and
\* the controller resets itself on its own (need_resync_).  And the backoff
\* starts over with every synchronisation.
SyncedMeansSynced ==
  /\ h.state = "SYNCED" <=> h.ctl.state = "Synced"
  /\ h.state = "SYNCED" => h.delay = InitMs

\* A running handler without a connection and without anything pending that
\* would make one: no reconnect scheduled, no bootstrap request in flight.
Stranded == h.running /\ h.ws \in {"idle", "closed"} /\ ~ h.reconnect /\ h.rest # "post"

\* "On any trigger [such as] WS disconnect, restartSync() ... schedules a
\* reconnect" (docs/pop.md): a running handler is never stranded.
LossSchedulesReconnect == ~ Stranded

\* What is in the buffer came over the connection that is open, and a SYNCED
\* book started from a snapshot asked for or received on that connection: no
\* answer to an earlier connection's request is ever what the feed syncs on,
\* although requestSnapshot's callback does not check.  Only a stranded handler
\* keeps its old connection's data.
StaleNeverCounts ==
  \/ Stranded
  \/ /\ \A i \in DOMAIN h.buffer : h.buffer[i].fresh
     /\ h.state = "SYNCED" => h.ws = "open" /\ h.baseFresh

\* A connection that is open, or about to be, never has a reconnect pending
\* that would tear it down, and while the clock has not stepped back a silent
\* open connection is watched.
OneConnection ==
  /\ h.running /\ h.ws \in {"connecting", "open"} => ~ h.reconnect
  /\ h.running /\ h.ws = "open" /\ steps = 0 => h.watchdog

\* The brain's book of this feed and the feed's own.
SameBook ==
  /\ h.brain.ctl.last_seq = h.ctl.last_seq
  /\ h.brain.ctl.bids = h.ctl.bids /\ h.brain.ctl.asks = h.ctl.asks

\* A brain that lost nothing since its last baseline holds the book of a SYNCED
\* feed, and a book it would trade on is the one the feed has: every way the
\* feed drops its book is announced, after the data that would restore the
\* trust, although the brain skips the bridging, tolerates gaps and judges every
\* message by itself.  After a loss its book is wrong for fewer updates than lie
\* between two book_states.
BrainHoldsFeedsBook ==
  h.sinks =>
    IF h.missed THEN BookEvery > 0 => h.applied < BookEvery
    ELSE /\ h.state = "SYNCED" \/ B!Synced(h.brain) => SameBook
         /\ B!Synced(h.brain) => h.ctl.state # "WaitingSnapshot"

\* Once connections, messages and requests stop failing, the feed is SYNCED on
\* an open connection for good, or was stopped, or is stranded.
EventuallySynced ==
  \/ <>[](~ h.running \/ (h.state = "SYNCED" /\ h.ws = "open"))
  \/ <>[]Stranded

=============================================================================
