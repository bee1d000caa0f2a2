----------------------------- MODULE UnifiedBook -----------------------------
(***************************************************************************)
(* The brain's book of one venue and symbol: VenueBook, and what            *)
(* UnifiedBook::on_event (brain/src/brain/UnifiedBook.cpp) does to it for   *)
(* each kind of event a feed publishes.  A VenueBook is a record; time is   *)
(* the brain's clock when the event is handled.                             *)
(***************************************************************************)
EXTENDS OrderBookController

CONSTANT FutureMax       \* kMaxFutureNs

Never == -1

\* recv and based are observers: when the last data event came in, and whether
\* a baseline came in since the book was last reset.
NewVenueBook(key) ==
  [key |-> key, ctl |-> NewController, ts |-> 0, feed_healthy |-> FALSE,
   recv |-> Never, based |-> FALSE]

\* synced()
Synced(vb) == vb.feed_healthy /\ vb.ctl.state = "Synced"

\* Mutant: a timestamp in the future is kept.
SanitizeKeep(ts, time) == ts

\* sanitize_ts: a timestamp too far ahead becomes the brain's time.
Sanitize(ts, time) == IF ts > time + FutureMax THEN time ELSE ts

\* snapshot and book_state: both are authoritative baselines.
ApplyBaseline(vb, e, time) ==
  LET c == OnSnapshot(vb.ctl, [lastUpdateId |-> e.seq, checksum |-> <<>>,
                               bids |-> e.bids, asks |-> e.asks], "WsAuthoritative")
  IN  [vb EXCEPT !.ctl = Done(c), !.ts = Sanitize(e.ts, time), !.recv = time,
                 !.feed_healthy = ~ (e.type = "snapshot" /\ c.action = "NeedResync"),
                 !.based = c.action # "NeedResync"]

\* incremental: the feed counts as healthy whatever the controller answers.
ApplyIncremental(vb, e, time) ==
  LET c == OnIncrement(vb.ctl, [first_seq |-> e.seq, last_seq |-> e.seq, checksum |-> <<>>,
                                bids |-> e.bids, asks |-> e.asks])
  IN  [vb EXCEPT !.ctl = Done(c), !.ts = Sanitize(e.ts, time), !.recv = time,
                 !.feed_healthy = TRUE, !.based = @ /\ c.action # "NeedResync"]

\* A book_state whose levels do not parse throws after the time and the health
\* of the book were set.
ApplyBadBookState(vb, e, time) ==
  [vb EXCEPT !.ts = Sanitize(e.ts, time), !.recv = time, !.feed_healthy = TRUE]

\* Mutant: a disconnected feed keeps its book.
ApplyStatusKeepBook(vb, e) ==
  IF e.feed_state = "disconnected"
  THEN [vb EXCEPT !.feed_healthy = FALSE, !.ts = 0, !.based = FALSE]
  ELSE [vb EXCEPT !.feed_healthy = FALSE]

\* status: anything but "disconnected" only suspends the book, "synced" included.
ApplyStatus(vb, e) ==
  IF e.feed_state = "disconnected"
  THEN [vb EXCEPT !.feed_healthy = FALSE, !.ctl = ResetBook(@), !.ts = 0, !.based = FALSE]
  ELSE [vb EXCEPT !.feed_healthy = FALSE]

\* on_event for the book the event is routed to.  An event that does not parse
\* otherwise leaves the book alone.
ApplyEvent(vb, e, time) ==
  CASE e.type = "status" -> ApplyStatus(vb, e)
    [] e.type = "bad_book_state" -> ApplyBadBookState(vb, e, time)
    [] e.type = "incremental" -> ApplyIncremental(vb, e, time)
    [] OTHER -> ApplyBaseline(vb, e, time)

=============================================================================
