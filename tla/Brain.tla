--------------------------------- MODULE Brain ---------------------------------
(***************************************************************************)
(* The brain's scan thread (brain/): UnifiedBook routes each event taken    *)
(* from the queue to the book of its venue and symbol, and ArbDetector then *)
(* compares all directed pairs of synchronised books.  Taking an event,     *)
(* applying it and scanning is one step of one thread; the only others that *)
(* touch this state are the clock and SIGUSR1.                              *)
(*                                                                          *)
(* BacktestEngine replays recorded events through the same two classes and  *)
(* can start over.                                                          *)
(*                                                                          *)
(* The queue and the links before it lose and delay events (WriterQueue,    *)
(* PublishLink), so any event may come next.  Times are whole units; a PoP's *)
(* clock may be ahead of or behind the brain's.                             *)
(***************************************************************************)
EXTENDS UnifiedBook, FiniteSets, TLC

CONSTANTS Venues, Symbols,
          MaxVenues,      \* kMaxVenues
          MaxAge,         \* max_age_diff_ns, 0 = off
          RateLimit,      \* rate_limit_ns, 0 = off
          MinBps, MaxBps, \* min_spread_bps, max_spread_bps (0 = no cap)
          FeeBps,         \* taker fee of every venue
          DevPct,         \* max_price_deviation_pct, 0 = off
          Lead,           \* how far the clock of a venue's PoP is ahead of the brain's
          BaseSeqs, IncSeqs,  \* update ids of baselines and of increments
          MaxNow, MaxEvents   \* bounds: clock, events handled

ASSUME BrainAssumption ==
  /\ AllowSeqGap /\ ~ ChecksumFn          \* VenueBook's constructor
  /\ 1 \in Lots                           \* the quantity of every level of a baseline
  /\ IsFiniteSet(Venues) /\ IsFiniteSet(Symbols)
  /\ {MaxVenues, FutureMax, MaxAge, RateLimit, MinBps, MaxBps, FeeBps, DevPct, MaxNow, MaxEvents}
       \subseteq Nat
  /\ BaseSeqs \subseteq Nat /\ IncSeqs \subseteq Nat
  /\ \A v \in Venues : Lead[v] \in Int

VARIABLES replay,     \* this is a BacktestEngine, not the brain process
          books,      \* books_: one VenueBook per key, in order of creation
          now,        \* the brain's clock
          active,     \* active_: FALSE in standby
          last_emit,  \* last_emit_ns_: time by <<sell_venue, buy_venue>>
          events,     \* number of events handled
          crosses,    \* observer: what the last step emitted
          sent        \* observer: when a pair was last emitted

vars == <<replay, books, now, active, last_emit, events, crosses, sent>>

Keys == Venues \X Symbols
Pairs == Venues \X Venues

Init ==
  /\ books = <<>> /\ now = 0 /\ active \in BOOLEAN
  /\ replay \in BOOLEAN /\ (replay => active)
  /\ last_emit = [p \in Pairs |-> Never] /\ sent = [p \in Pairs |-> Never]
  /\ events = 0 /\ crosses = <<>>

-----------------------------------------------------------------------------
\* The time in an event: that of the PoP's clock, or of a recording made before
\* the replay began.  The detector compares both with the clock.
Stamp(v) == IF replay THEN 0 ELSE now + Lead[v]

\* Events as WsPublishSink sends them; FilePersistSink records all but the
\* statuses.  Data carries one level per side; the levels of a bad book_state do
\* not parse.
Data(type) ==
  {[type |-> type, key |-> k, ts |-> Stamp(k[1]), seq |-> s, bids |-> b, asks |-> a] :
     k \in Keys, s \in BaseSeqs,
     b \in {<<ParsedLevel(t, 1)>> : t \in Ticks}, a \in {<<ParsedLevel(t, 1)>> : t \in Ticks}}

Snapshots == Data("snapshot")
BookStates == Data("book_state")
Incrementals ==
  {[type |-> "incremental", key |-> k, ts |-> Stamp(k[1]), seq |-> s,
    bids |-> IF side = "BID" THEN <<ParsedLevel(t, l)>> ELSE <<>>,
    asks |-> IF side = "ASK" THEN <<ParsedLevel(t, l)>> ELSE <<>>] :
     k \in Keys, s \in IncSeqs, side \in Side, t \in Ticks, l \in Lots}
BadBookStates == {[type |-> "bad_book_state", key |-> k, ts |-> Stamp(k[1])] : k \in Keys}
Statuses ==
  {[type |-> "status", key |-> k, feed_state |-> f] :
     k \in IF replay THEN {} ELSE Keys, f \in {"disconnected", "resyncing", "synced"}}

\* Mutant: a known key is registered once more.
FindOrCreateAlways(key) == Append(books, NewVenueBook(key))

\* find_or_create_
FindOrCreate(key) ==
  IF \E i \in DOMAIN books : books[i].key = key THEN books ELSE Append(books, NewVenueBook(key))

\* on_event
Routed(e) ==
  LET found == FindOrCreate(e.key)
  IN  [i \in DOMAIN found |->
         IF found[i].key = e.key THEN ApplyEvent(found[i], e, now) ELSE found[i]]

-----------------------------------------------------------------------------
\* The books scan looks at, and B5: the best bids it finds there, twice their
\* median, and the books within the allowed deviation of it.
Scanned(bs) == {i \in DOMAIN bs : i <= MaxVenues /\ Synced(bs[i])}

ScannedBids(bs) ==
  SelectSeq([i \in DOMAIN bs |-> IF i \in Scanned(bs) THEN BestTick(bs[i].ctl.bids) ELSE 0],
            LAMBDA t : t > 0)

Median2(bids) ==
  LET sorted == SortSeq(bids, <)
      half   == Len(bids) \div 2
  IN  IF Len(bids) % 2 = 0 THEN sorted[half] + sorted[half + 1] ELSE 2 * sorted[half + 1]

Usable(bs) ==
  LET bids == ScannedBids(bs)
  IN  IF DevPct = 0 \/ Len(bids) < 2 THEN Scanned(bs)
      ELSE {i \in Scanned(bs) :
              LET bid == BestTick(bs[i].ctl.bids)
                  off == 2 * bid - Median2(bids)
              IN  bid > 0 => /\ off * 100 <= Median2(bids) * DevPct
                             /\ - off * 100 <= Median2(bids) * DevPct}

\* The individual and the relative age guard.
Fresh(s, b) ==
  MaxAge > 0 => /\ now - s.ts <= MaxAge /\ now - b.ts <= MaxAge
                /\ s.ts - b.ts <= MaxAge /\ b.ts - s.ts <= MaxAge

\* All guards of the pair loop before the rate limit; spreads in bps, cleared of
\* the division by the mid price.
IsCross(s, b) ==
  LET bid == BestTick(s.ctl.bids)
      ask == BestTick(b.ctl.asks)
      spread == (bid - ask) * 20000
  IN  /\ bid # 0 /\ ask # 0 /\ bid > ask
      /\ Fresh(s, b)
      /\ MaxBps > 0 => spread <= MaxBps * (bid + ask)
      /\ spread >= (MinBps + 2 * FeeBps) * (bid + ask)

\* Mutant: the time of an emission is not recorded.
PassRateLimitForget(le, p) ==
  IF RateLimit > 0 /\ le[p] # Never /\ now - le[p] < RateLimit
  THEN [ok |-> FALSE, last_emit |-> le]
  ELSE [ok |-> TRUE, last_emit |-> le]

\* check_rate_limit_: keyed by the two venue names.
PassRateLimit(le, p) ==
  IF RateLimit = 0 THEN [ok |-> TRUE, last_emit |-> le]
  ELSE IF le[p] # Never /\ now - le[p] < RateLimit THEN [ok |-> FALSE, last_emit |-> le]
  ELSE [ok |-> TRUE, last_emit |-> [le EXCEPT ![p] = now]]

\* A pair that passes those guards, on acc = [last_emit, out].
ScanPair(acc, s, b) ==
  LET limit == PassRateLimit(acc.last_emit, <<s.key[1], b.key[1]>>)
  IN  [last_emit |-> limit.last_emit,
       out |-> IF limit.ok THEN Append(acc.out, [sell |-> s, buy |-> b]) ELSE acc.out]

\* Pass k of the pair loops, the sell side in the outer one.
ScanPass(bs, usable, acc, k) ==
  LET i == ((k - 1) \div Len(bs)) + 1
      j == ((k - 1) % Len(bs)) + 1
  IN  IF i # j /\ i \in usable /\ j \in usable /\ IsCross(bs[i], bs[j])
      THEN ScanPair(acc, bs[i], bs[j]) ELSE acc

\* scan: all ordered pairs.
Scan(bs) ==
  LET usable == Usable(bs)
      passes == Len(bs) * Len(bs)
      after[k \in 0 .. passes] ==
        IF k = 0 THEN [last_emit |-> last_emit, out |-> <<>>]
        ELSE ScanPass(bs, usable, after[k - 1], k)
  IN  after[passes]

\* emit_: suppressed in standby.
Emit(out) == IF active THEN out ELSE <<>>

\* scan runs after an event that was applied, if at least two books are synced.
ScanIfTwo(e, bs) ==
  IF e.type # "bad_book_state" /\ Cardinality({i \in DOMAIN bs : Synced(bs[i])}) >= 2
  THEN Scan(bs) ELSE [last_emit |-> last_emit, out |-> <<>>]

Report(scan) ==
  /\ last_emit' = scan.last_emit
  /\ crosses' = Emit(scan.out)
  /\ sent' = [p \in Pairs |->
                IF \E i \in DOMAIN crosses' :
                     p = <<crosses'[i].sell.key[1], crosses'[i].buy.key[1]>>
                THEN now ELSE sent[p]]

\* The body of the scan thread's loop for one event; feed_event of a replay.
OnEvent(e) ==
  /\ events < MaxEvents /\ events' = events + 1
  /\ books' = Routed(e)
  /\ Report(ScanIfTwo(e, books'))
  /\ UNCHANGED <<replay, now, active>>

\* The clock moves on (as long as an event can follow, as nothing else reads it).
Tick ==
  /\ now < MaxNow /\ events < MaxEvents
  /\ now' = now + 1 /\ crosses' = <<>>
  /\ UNCHANGED <<replay, books, active, last_emit, events, sent>>

\* SIGUSR1: set_active(true).  Between two pairs of a running scan it acts as
\* if it had come before or after the scan, pair by pair.
Promote ==
  /\ ~ replay /\ ~ active /\ events < MaxEvents
  /\ active' = TRUE /\ crosses' = <<>>
  /\ UNCHANGED <<replay, books, now, last_emit, events, sent>>

\* BacktestEngine::reset(): a new UnifiedBook and a new ArbDetector.
Reset ==
  /\ replay /\ events < MaxEvents
  /\ books' = <<>> /\ last_emit' = [p \in Pairs |-> Never]
  /\ crosses' = <<>> /\ sent' = [p \in Pairs |-> Never]
  /\ UNCHANGED <<replay, now, active, events>>

Next ==
  \/ \E e \in Snapshots \cup BookStates \cup Incrementals \cup BadBookStates \cup Statuses : OnEvent(e)
  \/ Tick \/ Promote \/ Reset

Spec == Init /\ [][Next]_vars

-----------------------------------------------------------------------------
\* Every book has its own key, and is a book a controller can hold.
TypeOK ==
  /\ now \in 0 .. MaxNow /\ events \in 0 .. MaxEvents /\ {replay, active} \subseteq BOOLEAN
  /\ {last_emit, sent} \subseteq [Pairs -> {Never} \cup 0 .. MaxNow]
  /\ \A i \in DOMAIN books :
       /\ books[i].key \in Keys /\ books[i].ctl \in Controller
       /\ books[i].feed_healthy \in BOOLEAN
       /\ \A j \in DOMAIN books : books[i].key = books[j].key => i = j

\* A cross is only ever reported between books that were rebuilt from a full
\* picture after their feed was last reported disconnected, or after the brain
\* itself last found them broken: no increment revives a book that was dropped
\* (UnifiedBook::on_event, VenueBook::synced).
CrossesUseBaselinedBooks ==
  \A i \in DOMAIN crosses : crosses[i].sell.based /\ crosses[i].buy.based

\* However wrong the PoPs' clocks are, the books of a reported cross were both
\* heard of no longer ago than the age limit plus the tolerated clock lead
\* (sanitize_ts together with scan's age guards).
CrossesRecentlyHeard ==
  MaxAge > 0 =>
    \A i \in DOMAIN crosses :
      /\ now - crosses[i].sell.recv <= MaxAge + FutureMax
      /\ now - crosses[i].buy.recv <= MaxAge + FutureMax

\* Two reports for the same pair of venues are at least the rate limit apart,
\* whether they come from two scans or, for two symbols, from one, and a standby
\* brain reports none (check_rate_limit_, emit_).
ReportsSpacedAndActive ==
  [][crosses' # <<>> =>
       /\ active
       /\ \A i \in DOMAIN crosses' :
            LET p == <<crosses'[i].sell.key[1], crosses'[i].buy.key[1]>>
            IN  /\ sent[p] = Never \/ now - sent[p] >= RateLimit
                /\ RateLimit > 0 =>
                     \A j \in DOMAIN crosses' :
                       p = <<crosses'[j].sell.key[1], crosses'[j].buy.key[1]>> => i = j]_vars

=============================================================================
