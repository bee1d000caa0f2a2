----------------------------- MODULE FeedHandler -----------------------------
(***************************************************************************)
(* md::GenericFeedHandler (feed/src/md/GenericFeedHandler.cpp) with the two *)
(* connections it owns: WsClient (common/src/connection_handler) as far as  *)
(* its open/close life cycle goes, and RestClient as one request in flight. *)
(* All of its callbacks run on the handler's own io_context thread, so each *)
(* callback is one step; calls made inside it (restartSync, cancel, the     *)
(* close notification) happen within that step.                             *)
(*                                                                          *)
(* At the far end of its WsPublishSink is a brain (UnifiedBook).  The link   *)
(* between them hands over what is published while it is up, in order, and   *)
(* loses what is published while it is down; a callback counts as done when  *)
(* what it published has arrived.  (PublishLink models the link itself.)     *)
(*                                                                          *)
(* A handler is a record; each method maps the handler to the one it leaves *)
(* behind.  The order book is the controller of OrderBookController; of a   *)
(* message only its update ids matter, and whether it parses and whether it *)
(* crosses the book.                                                        *)
(***************************************************************************)
EXTENDS OrderBookController, SequencesExt

CONSTANTS MaxBuffer,    \* max_buffer_
          HasBrain,     \* brain_sinks_ is not empty
          BookEvery,    \* persist_book_every_updates_, 0 = off; persist_book_top_ is the depth
          InitMs,       \* kReconnectInitMs
          MaxMs         \* kReconnectMaxMs

ASSUME HandlerAssumption ==
  /\ MaxBuffer \in Nat /\ HasBrain \in BOOLEAN /\ BookEvery \in Nat
  /\ InitMs \in Nat \ {0} /\ MaxMs \in Nat /\ InitMs <= MaxMs
  /\ {1, 2} \subseteq Ticks /\ 1 \in Lots

FeedSyncState == {"DISCONNECTED", "CONNECTING", "BOOTSTRAPPING", "WAIT_REST_SNAPSHOT",
                  "WAIT_WS_SNAPSHOT", "WAIT_BRIDGE", "SYNCED"}

\* VenueCaps of the adapters: Binance, KuCoin, and OKX, Bybit and Bitget.
Venues ==
  {[sync_mode |-> "RestAnchored", requires_ws_bootstrap |-> FALSE, ws_sends_snapshot |-> FALSE],
   [sync_mode |-> "RestAnchored", requires_ws_bootstrap |-> TRUE, ws_sends_snapshot |-> FALSE],
   [sync_mode |-> "WsAuthoritative", requires_ws_bootstrap |-> FALSE, ws_sends_snapshot |-> TRUE]}

\* The brain that listens: its controllers tolerate gaps and check nothing else.
B == INSTANCE UnifiedBook WITH
       AllowSeqGap <- TRUE, ChecksumFn <- FALSE, ValidatePeriod <- 0,
       HasChecksum <- FALSE, RequireChecksum <- FALSE, FutureMax <- 0

\* A depth message as it comes off the socket.  fresh is an observer: it turns
\* FALSE when the connection the message came from ends.
WsIncrement(first, last, parses, crossed) ==
  [first |-> first, last |-> last, parses |-> parses, crossed |-> crossed, fresh |-> TRUE]

\* What parseIncremental makes of it.
ParseIncremental(m) ==
  [first_seq |-> m.first, last_seq |-> m.last, checksum |-> <<>>,
   bids |-> IF m.crossed THEN <<ParsedLevel(2, 1)>> ELSE <<>>,
   asks |-> IF m.crossed THEN <<ParsedLevel(1, 1)>> ELSE <<>>]

ParseSnapshot(seq) == [lastUpdateId |-> seq, checksum |-> <<>>, bids |-> <<>>, asks |-> <<>>]

\* ws: "idle" before the first connect, "closed" once WsClient has closing_ set
\* and has notified.  watchdog and reconnect: the timer is pending with the
\* current generation.  rest: the request in flight.  sinks: the brain sinks
\* are running.  since: updates_since_book_persist_.  link: the link to the
\* brain is up; out: what the current callback has published over it; brain: the
\* brain's book of this feed.
\* reqFresh and baseFresh are observers: the connection open when the snapshot
\* was requested, or the baseline loaded, is still the current one.  So are
\* missed, that the brain lost something since its last baseline, and applied,
\* the updates of the synchronised book since that loss.
NewHandler(venue) ==
  [caps |-> venue, running |-> FALSE, state |-> "DISCONNECTED", ctl |-> NewController,
   buffer |-> <<>>, closing_for_restart |-> FALSE, watchdog |-> FALSE,
   reconnect |-> FALSE, delay |-> InitMs, ws |-> "idle", rest |-> "idle",
   sinks |-> FALSE, since |-> 0, link |-> TRUE, out |-> <<>>, brain |-> B!NewVenueBook("feed"),
   reqFresh |-> FALSE, baseFresh |-> FALSE, missed |-> FALSE, applied |-> 0]

-----------------------------------------------------------------------------
(* Publishing.                                                              *)

\* One publish_... call of every brain sink.
Publish(h, e) ==
  IF ~ h.sinks THEN h
  ELSE IF h.link
       THEN [h EXCEPT !.out = Append(@, e),
                      !.missed = @ /\ e.type \notin {"snapshot", "book_state"},
                      !.applied = IF e.type \in {"snapshot", "book_state"} THEN 0 ELSE @]
  ELSE [h EXCEPT !.missed = TRUE, !.applied = 0]

\* The brain handles the events the callback published, one after another.
Arrive(h) ==
  [h EXCEPT !.out = <<>>,
            !.brain = FoldLeft(LAMBDA vb, e : B!ApplyEvent(vb, e, 0), @, h.out)]

\* publish_snapshot, publish_incremental and publish_book_state
Snapshot(seq) == [type |-> "snapshot", ts |-> 0, seq |-> seq, bids |-> <<>>, asks |-> <<>>]
Incremental(inc) ==
  [type |-> "incremental", ts |-> 0, seq |-> inc.last_seq, bids |-> inc.bids, asks |-> inc.asks]
BookState(c) ==
  [type |-> "book_state", ts |-> 0, seq |-> c.last_seq, bids |-> c.bids, asks |-> c.asks]
Status(feed_state) == [type |-> "status", feed_state |-> feed_state]

\* maybe_persist_book_()
MaybePersistBook(h) ==
  IF ~ h.sinks \/ BookEvery = 0 \/ h.ctl.state # "Synced" THEN h
  ELSE LET counted == [h EXCEPT !.since = @ + 1, !.applied = IF h.missed THEN @ + 1 ELSE @]
       IN  IF counted.since < BookEvery THEN counted
           ELSE Publish([counted EXCEPT !.since = 0], BookState(h.ctl))

-----------------------------------------------------------------------------
FeedState(s) ==
  CASE s = "DISCONNECTED" -> "disconnected" [] s = "SYNCED" -> "synced" [] OTHER -> "resyncing"

\* set_state_(next): reaching SYNCED resets the reconnect backoff, and every
\* change is published.
SetState(h, next) ==
  IF h.state = next THEN h
  ELSE Publish([h EXCEPT !.state = next, !.delay = IF next = "SYNCED" THEN InitMs ELSE @],
               Status(FeedState(next)))

\* The connection is gone.
Closed(h) ==
  [h EXCEPT !.ws = "closed", !.reqFresh = FALSE, !.baseFresh = FALSE,
            !.buffer = [i \in DOMAIN @ |-> [@[i] EXCEPT !.fresh = FALSE]]]

\* WsClient::cancel() called by restartSync: if the client is not closing yet it
\* closes and notifies; onWSClose_ disarms the watchdog and, finding
\* closing_for_restart_ set, clears it.
CancelForRestart(h) ==
  IF h.ws = "closed" THEN h
  ELSE [Closed(h) EXCEPT !.watchdog = FALSE, !.closing_for_restart = FALSE]

\* schedule_ws_reconnect_(next_reconnect_delay_())
ScheduleReconnect(h) ==
  [h EXCEPT !.reconnect = TRUE, !.delay = IF 2 * @ < MaxMs THEN 2 * @ ELSE MaxMs]

\* Mutant: messages buffered before the restart are kept.
RestartSyncKeepBuffer(h) ==
  IF ~ h.running THEN h
  ELSE LET reset == [h EXCEPT !.watchdog = FALSE, !.ctl = ResetBook(@)]
           ready == [SetState(reset, "CONNECTING") EXCEPT !.closing_for_restart = TRUE]
       IN  ScheduleReconnect(CancelForRestart(ready))

\* Mutant: the book is left as it is.
RestartSyncKeepBook(h) ==
  IF ~ h.running THEN h
  ELSE LET reset == [h EXCEPT !.watchdog = FALSE, !.buffer = <<>>]
           ready == [SetState(reset, "CONNECTING") EXCEPT !.closing_for_restart = TRUE]
       IN  ScheduleReconnect(CancelForRestart(ready))

\* restartSync(reason)
RestartSync(h) ==
  IF ~ h.running THEN h
  ELSE LET reset == [h EXCEPT !.watchdog = FALSE, !.buffer = <<>>, !.ctl = ResetBook(@)]
           ready == [SetState(reset, "CONNECTING") EXCEPT !.closing_for_restart = TRUE]
       IN  ScheduleReconnect(CancelForRestart(ready))

\* on_close callback: onWSClose_() if running.
OnWSClose(h) ==
  LET disarmed == [h EXCEPT !.watchdog = FALSE]
  IN  IF ~ h.running THEN h
      ELSE IF h.closing_for_restart THEN [disarmed EXCEPT !.closing_for_restart = FALSE]
      ELSE RestartSync(disarmed)

-----------------------------------------------------------------------------
\* connectWS() -> WsClient::connect, always a fresh start.
ConnectWS(h) == [h EXCEPT !.ws = "connecting"]

\* bootstrapWS(): RestClient refuses a second request (operation_in_progress).
BootstrapWS(h) ==
  IF ~ h.running THEN h
  ELSE IF h.rest # "idle" THEN RestartSync(h)
  ELSE [h EXCEPT !.rest = "post"]

\* requestSnapshot(), likewise.
RequestSnapshot(h) ==
  LET waiting == SetState(h, "WAIT_REST_SNAPSHOT")
  IN  IF h.rest # "idle" THEN RestartSync(waiting)
      ELSE [waiting EXCEPT !.rest = "get", !.reqFresh = TRUE]

\* Mutant: the watchdog is armed by the first message only.
OnWSOpenNoWatchdog(h) ==
  IF ~ h.running THEN h
  ELSE IF h.caps.sync_mode = "RestAnchored"
       THEN RequestSnapshot(SetState(h, "WAIT_REST_SNAPSHOT"))
  ELSE SetState(h, "WAIT_WS_SNAPSHOT")

\* Mutant: no snapshot is requested.
OnWSOpenNoRequest(h) ==
  IF ~ h.running THEN h
  ELSE SetState([h EXCEPT !.watchdog = TRUE],
                IF h.caps.sync_mode = "RestAnchored" THEN "WAIT_REST_SNAPSHOT"
                ELSE "WAIT_WS_SNAPSHOT")

\* onWSOpen()
OnWSOpen(h) ==
  LET armed == [h EXCEPT !.watchdog = TRUE]
  IN  IF ~ h.running THEN h
      ELSE IF h.caps.sync_mode = "RestAnchored"
           THEN RequestSnapshot(SetState(armed, "WAIT_REST_SNAPSHOT"))
      ELSE SetState(armed, "WAIT_WS_SNAPSHOT")

\* What every caller of the controller does with its answer c.
Answered(h, c) ==
  IF c.action = "NeedResync" THEN RestartSync([h EXCEPT !.ctl = c])
  ELSE MaybePersistBook([h EXCEPT !.ctl = c])

\* An increment: the controller sees it, then the brain, then its answer counts.
ApplyInc(h, m) ==
  LET inc == ParseIncremental(m)
  IN  Answered(Publish(h, Incremental(inc)), OnIncrement(h.ctl, inc))

\* Mutant: an increment from the buffer is not published.
DrainOneUnpublished(h) ==
  LET m      == Head(h.buffer)
      popped == [h EXCEPT !.buffer = Tail(@)]
  IN  IF m.parses THEN Answered(popped, OnIncrement(h.ctl, ParseIncremental(m))) ELSE popped

\* One turn of the loop of drainBufferedIncrementals(); restartSync empties the
\* buffer, which ends the loop.
DrainOne(h) ==
  LET m      == Head(h.buffer)
      popped == [h EXCEPT !.buffer = Tail(@)]
  IN  IF m.parses THEN ApplyInc(popped, m) ELSE popped

\* drainBufferedIncrementals()
Drain(h) ==
  LET after[n \in 0 .. Len(h.buffer)] ==
        IF n = 0 THEN h
        ELSE IF after[n - 1].buffer = <<>> THEN after[n - 1]
        ELSE DrainOne(after[n - 1])
  IN  after[Len(h.buffer)]

\* `if (controller_->isSynced()) set_state_(SYNCED)`
SyncedIfReady(h) == IF h.ctl.state = "Synced" THEN SetState(h, "SYNCED") ELSE h

\* What follows a baseline that was accepted.
DrainAndSync(h, fresh) == SyncedIfReady(Drain([h EXCEPT !.baseFresh = fresh]))

\* A baseline goes to the brain before the controller judges it.
ApplySnapshot(h, seq, kind) ==
  Answered(Publish(h, Snapshot(seq)), OnSnapshot(h.ctl, ParseSnapshot(seq), kind))

\* onSnapshotResponse(body).  No check that the response is still wanted.
OnSnapshotResponse(h, seq) ==
  LET loaded == ApplySnapshot(h, seq, h.caps.sync_mode)
  IN  IF loaded.ctl.action = "NeedResync" THEN loaded
      ELSE DrainAndSync(SetState(loaded, "WAIT_BRIDGE"), h.reqFresh)

-----------------------------------------------------------------------------
\* Mutant: off by one.
BufferedOneMore(h, m) ==
  IF Len(h.buffer) <= MaxBuffer THEN [h EXCEPT !.buffer = Append(@, m)] ELSE RestartSync(h)

\* push_back, or restartSync (which leaves nothing to drain) when it is full.
Buffered(h, m) ==
  IF Len(h.buffer) < MaxBuffer THEN [h EXCEPT !.buffer = Append(@, m)] ELSE RestartSync(h)

\* onWSMessage for an incremental.
OnIncrementMessage(h, m) ==
  LET armed == [h EXCEPT !.watchdog = TRUE]
      anchored == h.state = "WAIT_BRIDGE" /\ h.caps.sync_mode = "RestAnchored"
  IN  IF ~ h.running THEN h
      ELSE IF h.state \in {"WAIT_REST_SNAPSHOT", "WAIT_WS_SNAPSHOT"} THEN Buffered(armed, m)
      ELSE IF anchored THEN SyncedIfReady(Drain(Buffered(armed, m)))
      ELSE IF h.state \in {"WAIT_BRIDGE", "SYNCED"} /\ m.parses
           THEN SyncedIfReady(ApplyInc(armed, m))
      ELSE armed

\* onWSMessage for a snapshot of a venue whose stream carries them: a baseline
\* at any time.  The first one writes state_ without publishing it.
OnSnapshotMessage(h, seq) ==
  LET armed  == [h EXCEPT !.watchdog = TRUE]
      loaded == ApplySnapshot(armed, seq, "WsAuthoritative")
  IN  IF ~ h.running THEN h
      ELSE IF h.state \notin {"WAIT_WS_SNAPSHOT", "WAIT_BRIDGE", "SYNCED"} THEN armed
      ELSE IF loaded.ctl.action = "NeedResync" THEN loaded
      ELSE IF h.state = "WAIT_WS_SNAPSHOT"
           THEN DrainAndSync([loaded EXCEPT !.state = "WAIT_BRIDGE"], TRUE)
      ELSE SetState([loaded EXCEPT !.baseFresh = TRUE, !.buffer = <<>>],
                    IF loaded.ctl.state = "Synced" THEN "SYNCED" ELSE "WAIT_BRIDGE")

=============================================================================
