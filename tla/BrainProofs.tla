----------------------------- MODULE BrainProofs ------------------------------
(***************************************************************************)
(* Proofs about Brain, for every number of venues, symbols, ticks and        *)
(* events, every setting of the detector's guards and every error of the     *)
(* PoPs' clocks: which books a reported cross can come from, and how often a *)
(* pair can be reported.                                                     *)
(***************************************************************************)
EXTENDS Brain, OrderBookProofs

-----------------------------------------------------------------------------
(* One book.                                                                *)

VenueBook ==
  [key : Keys, ctl : Controller, ts : Int, feed_healthy : BOOLEAN, recv : Int, based : BOOLEAN]

\* A book that is not empty was rebuilt from a baseline since it was last
\* dropped, and the time of a healthy book is not further ahead of the last data
\* event than sanitize_ts lets pass.
GoodBook(vb) ==
  /\ vb \in VenueBook
  /\ GoodController(vb.ctl)
  /\ vb.ctl.state # "WaitingSnapshot" => vb.based
  /\ vb.feed_healthy => vb.ts <= vb.recv + FutureMax

\* What on_event relies on.
Event(e) ==
  /\ e.key \in Keys
  /\ e.type \in {"snapshot", "book_state", "incremental", "bad_book_state", "status"}
  /\ e.type # "status" => e.ts \in Int
  /\ e.type \in {"snapshot", "book_state", "incremental"} =>
       e.seq \in Nat /\ e.bids \in Seq(Level) /\ e.asks \in Seq(Level)

\* sanitize_ts bounds how far a timestamp can be ahead of the brain's clock.
LEMMA SanitizeFact ==
  ASSUME NEW ts \in Int, NEW time \in Nat
  PROVE  Sanitize(ts, time) \in Int /\ Sanitize(ts, time) <= time + FutureMax
BY BrainAssumption DEF Sanitize

\* A book a key is registered with.
LEMMA NewBookGood ==
  ASSUME NEW key \in Keys
  PROVE  GoodBook(NewVenueBook(key)) /\ NewVenueBook(key).key = key
<1>1. NewController \in Controller /\ GoodController(NewController) /\ NewController.state = "WaitingSnapshot"
  <2>1. NewController \in Controller
    BY EmptySeq DEF NewController, Controller, BookSyncState, Action
  <2> QED BY <2>1, EmptySideGood DEF GoodController, NewController
<1>2. /\ NewVenueBook(key) \in VenueBook /\ NewVenueBook(key).key = key
      /\ NewVenueBook(key).ctl = NewController /\ NewVenueBook(key).feed_healthy = FALSE
  <2>1. Never \in Int /\ 0 \in Int
    BY DEF Never
  <2> HIDE DEF NewController
  <2> QED BY ZenonT(30), <1>1, <2>1 DEF NewVenueBook, VenueBook
<1> QED BY ZenonT(30), <1>1, <1>2 DEF GoodBook

\* A snapshot or a book_state.
LEMMA BaselineGood ==
  ASSUME NEW vb, GoodBook(vb), NEW e, Event(e), NEW time \in Nat,
         e.type \in {"snapshot", "book_state"}
  PROVE  GoodBook(ApplyBaseline(vb, e, time)) /\ ApplyBaseline(vb, e, time).key = vb.key
<1> DEFINE m == [lastUpdateId |-> e.seq, checksum |-> <<>>, bids |-> e.bids, asks |-> e.asks]
           c == OnSnapshot(vb.ctl, m, "WsAuthoritative")
           ts == Sanitize(e.ts, time)
           healthy == ~ (e.type = "snapshot" /\ c.action = "NeedResync")
           based == c.action # "NeedResync"
           d == Done(c)
           new == ApplyBaseline(vb, e, time)
<1>1. new = [vb EXCEPT !.ctl = d, !.ts = ts, !.recv = time, !.feed_healthy = healthy, !.based = based]
  <2>1. new = [vb EXCEPT !.ctl = d, !.ts = ts, !.recv = time,
                         !.feed_healthy = healthy, !.based = based]
    BY ZenonT(30) DEF ApplyBaseline
  <2> QED BY <2>1
<1>2. e.seq \in Nat /\ e.bids \in Seq(Level) /\ e.asks \in Seq(Level) /\ e.ts \in Int
  BY DEF Event
<1>3. m.lastUpdateId \in Nat /\ m.bids \in Seq(Level) /\ m.asks \in Seq(Level)
  BY <1>2
<1>4. ts \in Int /\ ts <= time + FutureMax
  BY ZenonT(30), <1>2, SanitizeFact
<1>5. vb \in VenueBook /\ GoodController(vb.ctl)
  BY DEF GoodBook
<1> HIDE DEF m, ts, new
<1>6. GoodController(c) /\ (Blank(c) \/ Loaded(c, m, "WsAuthoritative"))
  BY ZenonT(30), <1>3, <1>5, OnSnapshotFact
<1> HIDE DEF c
<1>7. GoodController(d) /\ Kept(d, c)
  BY ZenonT(30), <1>6, DoneFact
<1> HIDE DEF d
<1>8. d.state # "WaitingSnapshot" => based
  BY <1>6, <1>7 DEF Blank, Kept, Loaded
<1>9. healthy \in BOOLEAN /\ based \in BOOLEAN /\ time \in Int
  OBVIOUS
<1> HIDE DEF healthy, based
<1>10. healthy => ts <= time + FutureMax
  BY <1>4
<1>11. d \in Controller
  BY <1>7 DEF GoodController
<1>12. /\ new \in VenueBook /\ new.key = vb.key /\ new.ctl = d /\ new.ts = ts /\ new.recv = time
       /\ new.feed_healthy = healthy /\ new.based = based
  BY ZenonT(60), <1>1, <1>4, <1>5, <1>9, <1>11 DEF VenueBook
<1>13. GoodBook(new) /\ new.key = vb.key
  BY ZenonT(30), <1>7, <1>8, <1>10, <1>12 DEF GoodBook
<1> QED BY <1>13 DEF new

\* An incremental.
LEMMA IncrementalGood ==
  ASSUME NEW vb, GoodBook(vb), NEW e, Event(e), NEW time \in Nat, e.type = "incremental"
  PROVE  GoodBook(ApplyIncremental(vb, e, time)) /\ ApplyIncremental(vb, e, time).key = vb.key
<1> DEFINE m == [first_seq |-> e.seq, last_seq |-> e.seq, checksum |-> <<>>,
                 bids |-> e.bids, asks |-> e.asks]
           c == OnIncrement(vb.ctl, m)
           ts == Sanitize(e.ts, time)
           based == vb.based /\ c.action # "NeedResync"
           d == Done(c)
           new == ApplyIncremental(vb, e, time)
<1>1. new = [vb EXCEPT !.ctl = d, !.ts = ts, !.recv = time, !.feed_healthy = TRUE, !.based = based]
  BY ZenonT(30) DEF ApplyIncremental
<1>2. e.seq \in Nat /\ e.bids \in Seq(Level) /\ e.asks \in Seq(Level) /\ e.ts \in Int
  BY DEF Event
<1>3. Message(m)
  BY <1>2 DEF Message
<1>4. ts \in Int /\ ts <= time + FutureMax
  BY ZenonT(30), <1>2, SanitizeFact
<1>5. /\ vb \in VenueBook /\ GoodController(vb.ctl)
      /\ vb.ctl.state # "WaitingSnapshot" => vb.based
  BY DEF GoodBook
<1> HIDE DEF m, ts, new
<1>6. /\ GoodController(c)
      /\ Blank(c) \/ (Kept(c, vb.ctl) /\ c.action = "None") \/ Applied(c, vb.ctl, m)
  BY <1>3, <1>5, OnIncrementFact
<1> HIDE DEF c
<1>7. GoodController(d) /\ Kept(d, c)
  BY ZenonT(30), <1>6, DoneFact
<1> HIDE DEF d
<1>8. d.state # "WaitingSnapshot" => based
  BY <1>5, <1>6, <1>7 DEF Blank, Kept, Applied
<1>9. based \in BOOLEAN /\ TRUE \in BOOLEAN /\ time \in Int
  <2>1. vb.based \in BOOLEAN
    BY <1>5 DEF VenueBook
  <2>2. time \in Int
    OBVIOUS
  <2> QED BY ZenonT(30), <2>1, <2>2
<1> HIDE DEF based
<1>10. d \in Controller
  BY <1>7 DEF GoodController
<1>11. /\ new \in VenueBook /\ new.key = vb.key /\ new.ctl = d /\ new.ts = ts /\ new.recv = time
       /\ new.based = based
  BY ZenonT(60), <1>1, <1>4, <1>5, <1>9, <1>10 DEF VenueBook
<1>12. GoodBook(new) /\ new.key = vb.key
  BY ZenonT(30), <1>4, <1>7, <1>8, <1>11 DEF GoodBook
<1> QED BY <1>12 DEF new

\* A book_state that does not parse, and a status.
LEMMA StatusGood ==
  ASSUME NEW vb, GoodBook(vb), NEW e, Event(e), NEW time \in Nat
  PROVE  /\ e.type = "status" => GoodBook(ApplyStatus(vb, e)) /\ ApplyStatus(vb, e).key = vb.key
         /\ e.type = "bad_book_state" => /\ GoodBook(ApplyBadBookState(vb, e, time))
                                         /\ ApplyBadBookState(vb, e, time).key = vb.key
<1>1. /\ vb \in VenueBook /\ GoodController(vb.ctl) /\ vb.ctl \in Controller
      /\ vb.ctl.state # "WaitingSnapshot" => vb.based
  BY DEF GoodBook, GoodController
<1>2. CASE e.type = "status"
  <2> DEFINE c == ResetBook(vb.ctl)
             new == ApplyStatus(vb, e)
  <2>1. GoodController(c) /\ c \in Controller /\ c.state = "WaitingSnapshot"
    BY ZenonT(30), <1>1, ResetFact DEF Blank, GoodController
  <2>2. new = IF e.feed_state = "disconnected"
              THEN [vb EXCEPT !.feed_healthy = FALSE, !.ctl = c, !.ts = 0, !.based = FALSE]
              ELSE [vb EXCEPT !.feed_healthy = FALSE]
    BY ZenonT(30) DEF ApplyStatus
  <2> HIDE DEF c, new
  <2>3. CASE e.feed_state = "disconnected"
    <3>1. /\ new \in VenueBook /\ new.key = vb.key /\ new.ctl = c /\ new.feed_healthy = FALSE
      <4>1. 0 \in Int
        OBVIOUS
      <4> QED BY ZenonT(60), <1>1, <2>1, <2>2, <2>3, <4>1 DEF VenueBook
    <3>2. GoodBook(new) /\ new.key = vb.key
      BY ZenonT(30), <2>1, <3>1 DEF GoodBook
    <3> QED BY <1>2, <3>2 DEF new
  <2>4. CASE e.feed_state # "disconnected"
    <3>1. /\ new \in VenueBook /\ new.key = vb.key /\ new.ctl = vb.ctl /\ new.feed_healthy = FALSE
          /\ new.based = vb.based
      BY ZenonT(60), <1>1, <2>2, <2>4 DEF VenueBook
    <3>2. GoodBook(new) /\ new.key = vb.key
      BY ZenonT(30), <1>1, <3>1 DEF GoodBook
    <3> QED BY <1>2, <3>2 DEF new
  <2> QED BY <2>3, <2>4
<1>3. CASE e.type = "bad_book_state"
  <2> DEFINE ts == Sanitize(e.ts, time)
             new == ApplyBadBookState(vb, e, time)
  <2>1. ts \in Int /\ ts <= time + FutureMax /\ time \in Int
    BY <1>3, SanitizeFact DEF Event
  <2>2. new = [vb EXCEPT !.ts = ts, !.recv = time, !.feed_healthy = TRUE]
    BY ZenonT(30) DEF ApplyBadBookState
  <2> HIDE DEF ts, new
  <2>3. /\ new \in VenueBook /\ new.key = vb.key /\ new.ctl = vb.ctl /\ new.ts = ts
        /\ new.recv = time /\ new.based = vb.based
    BY ZenonT(60), <1>1, <2>1, <2>2 DEF VenueBook
  <2>4. GoodBook(new) /\ new.key = vb.key
    BY ZenonT(30), <1>1, <2>1, <2>3 DEF GoodBook
  <2> QED BY <1>3, <2>4 DEF new
<1> QED BY <1>2, <1>3

\* on_event leaves a good book.
LEMMA EventGood ==
  ASSUME NEW vb, GoodBook(vb), NEW e, Event(e), NEW time \in Nat
  PROVE  GoodBook(ApplyEvent(vb, e, time)) /\ ApplyEvent(vb, e, time).key = vb.key
<1>1. \/ e.type = "status" /\ ApplyEvent(vb, e, time) = ApplyStatus(vb, e)
      \/ e.type = "bad_book_state" /\ ApplyEvent(vb, e, time) = ApplyBadBookState(vb, e, time)
      \/ e.type = "incremental" /\ ApplyEvent(vb, e, time) = ApplyIncremental(vb, e, time)
      \/ /\ e.type \in {"snapshot", "book_state"}
         /\ ApplyEvent(vb, e, time) = ApplyBaseline(vb, e, time)
  BY DEF Event, ApplyEvent
<1>2. CASE e.type = "status" /\ ApplyEvent(vb, e, time) = ApplyStatus(vb, e)
  BY <1>2, StatusGood
<1>3. CASE e.type = "bad_book_state" /\ ApplyEvent(vb, e, time) = ApplyBadBookState(vb, e, time)
  BY <1>3, StatusGood
<1>4. CASE e.type = "incremental" /\ ApplyEvent(vb, e, time) = ApplyIncremental(vb, e, time)
  BY <1>4, IncrementalGood
<1>5. CASE /\ e.type \in {"snapshot", "book_state"}
           /\ ApplyEvent(vb, e, time) = ApplyBaseline(vb, e, time)
  BY <1>5, BaselineGood
<1> QED BY ZenonT(30), <1>1, <1>2, <1>3, <1>4, <1>5

-----------------------------------------------------------------------------
(* All books.                                                               *)

\* Good books, one per key.
GoodBooks(bs) ==
  /\ bs \in Seq(VenueBook)
  /\ \A i \in 1 .. Len(bs) : GoodBook(bs[i])
  /\ \A i, j \in 1 .. Len(bs) : bs[i].key = bs[j].key => i = j

\* find_or_create_ registers a key once.
LEMMA FoundGood ==
  ASSUME GoodBooks(books), NEW key \in Keys
  PROVE  GoodBooks(FindOrCreate(key))
<1>1. /\ books \in Seq(VenueBook) /\ Len(books) \in Nat /\ DOMAIN books = 1 .. Len(books)
      /\ \A i \in 1 .. Len(books) : GoodBook(books[i])
      /\ \A i, j \in 1 .. Len(books) : books[i].key = books[j].key => i = j
  BY LenProperties DEF GoodBooks
<1>2. CASE \E i \in DOMAIN books : books[i].key = key
  BY ZenonT(30), <1>2 DEF FindOrCreate
<1>3. CASE ~ \E i \in DOMAIN books : books[i].key = key
  <2> DEFINE vb == NewVenueBook(key)
             new == Append(books, vb)
  <2>1. GoodBook(vb) /\ vb.key = key /\ vb \in VenueBook
    BY ZenonT(30), NewBookGood DEF GoodBook
  <2>2. FindOrCreate(key) = new
    BY ZenonT(30), <1>3 DEF FindOrCreate
  <2> HIDE DEF vb
  <2>3. /\ new \in Seq(VenueBook) /\ Len(new) = Len(books) + 1
        /\ \A i \in 1 .. Len(books) : new[i] = books[i]
        /\ new[Len(books) + 1] = vb
    BY <1>1, <2>1, AppendProperties
  <2> HIDE DEF new
  <2>4. \A i \in 1 .. Len(new) : (i \in 1 .. Len(books) /\ new[i] = books[i])
                                \/ (i = Len(books) + 1 /\ new[i] = vb)
    BY <1>1, <2>3
  <2>5. \A i \in 1 .. Len(new) : GoodBook(new[i])
    BY ZenonT(30), <1>1, <2>1, <2>4
  <2>6. \A i, j \in 1 .. Len(new) : new[i].key = new[j].key => i = j
    BY ZenonT(30), <1>1, <1>3, <2>1, <2>4
  <2> QED BY ZenonT(30), <2>2, <2>3, <2>5, <2>6 DEF GoodBooks
<1> QED BY <1>2, <1>3

\* on_event keeps the books good.
LEMMA RoutedGood ==
  ASSUME GoodBooks(books), NEW e, Event(e), now \in Nat
  PROVE  GoodBooks(Routed(e))
<1> DEFINE found == FindOrCreate(e.key)
           new == Routed(e)
<1>1. GoodBooks(found)
  BY ZenonT(30), FoundGood DEF Event
<1>2. new = [i \in DOMAIN found |->
               IF found[i].key = e.key THEN ApplyEvent(found[i], e, now) ELSE found[i]]
  BY ZenonT(30) DEF Routed
<1> HIDE DEF found, new
<1>3. PICK n \in Nat : n = Len(found) /\ DOMAIN found = 1 .. n
  BY <1>1, LenProperties DEF GoodBooks
<1>4. ASSUME NEW i \in 1 .. n
      PROVE  GoodBook(new[i]) /\ new[i].key = found[i].key /\ new[i] \in VenueBook
  <2>1. GoodBook(found[i])
    BY <1>1, <1>3 DEF GoodBooks
  <2>2. /\ GoodBook(ApplyEvent(found[i], e, now))
        /\ ApplyEvent(found[i], e, now).key = found[i].key
    BY ZenonT(30), <2>1, EventGood
  <2>3. new[i] = IF found[i].key = e.key THEN ApplyEvent(found[i], e, now) ELSE found[i]
    BY <1>2, <1>3
  <2>4. GoodBook(new[i]) /\ new[i].key = found[i].key
    BY ZenonT(30), <2>1, <2>2, <2>3
  <2> QED BY <2>4 DEF GoodBook
<1>5. new \in [1 .. n -> VenueBook]
  <2>1. new = [i \in 1 .. n |-> new[i]]
    BY <1>2, <1>3
  <2> QED BY <1>4, <2>1
<1>6. new \in Seq(VenueBook) /\ Len(new) = n
  BY <1>5
<1>7. \A i, j \in 1 .. n : new[i].key = new[j].key => i = j
  BY <1>1, <1>3, <1>4 DEF GoodBooks
<1>8. GoodBooks(new)
  BY <1>4, <1>6, <1>7 DEF GoodBooks
<1> QED BY <1>8 DEF new

-----------------------------------------------------------------------------
(* The scan.                                                                *)

Times == {Never} \cup 0 .. MaxNow
PairOf(x) == <<x.sell.key[1], x.buy.key[1]>>

\* What a scan of bs can report: two good books that are synchronised and pass
\* the age guards, for a pair that le has just noted and that was not reported
\* within the rate limit before.
Reported(x, le) ==
  /\ x \in [sell : VenueBook, buy : VenueBook]
  /\ GoodBook(x.sell) /\ Synced(x.sell) /\ GoodBook(x.buy) /\ Synced(x.buy)
  /\ Fresh(x.sell, x.buy)
  /\ RateLimit > 0 => /\ le[PairOf(x)] = now
                      /\ \/ last_emit[PairOf(x)] = Never
                         \/ now - last_emit[PairOf(x)] >= RateLimit

\* The rate limiter and the result after some passes of the pair loops.
ScanInv(acc) ==
  /\ acc.last_emit \in [Pairs -> Times]
  /\ \A p \in Pairs : acc.last_emit[p] = last_emit[p] \/ (RateLimit > 0 /\ acc.last_emit[p] = now)
  /\ acc.out \in Seq([sell : VenueBook, buy : VenueBook])
  /\ \A i \in 1 .. Len(acc.out) : Reported(acc.out[i], acc.last_emit)
  /\ RateLimit > 0 =>
       \A i, j \in 1 .. Len(acc.out) : PairOf(acc.out[i]) = PairOf(acc.out[j]) => i = j

\* The rate limiter lets a pair pass that was not noted within the limit.
LEMMA RateLimitFact ==
  ASSUME NEW le \in [Pairs -> Times], NEW p \in Pairs, now \in 0 .. MaxNow
  PROVE  LET r == PassRateLimit(le, p)
         IN  /\ r.last_emit \in [Pairs -> Times]
             /\ \A q \in Pairs : r.last_emit[q] = le[q] \/ (RateLimit > 0 /\ r.last_emit[q] = now)
             /\ r.ok /\ RateLimit > 0 => /\ r.last_emit[p] = now
                                         /\ le[p] = Never \/ now - le[p] >= RateLimit
<1> DEFINE r == PassRateLimit(le, p)
           new == [le EXCEPT ![p] = now]
<1>1. RateLimit \in Nat /\ now \in Times /\ now \in Nat /\ MaxNow \in Nat
  BY BrainAssumption DEF Times
<1>2. new \in [Pairs -> Times] /\ new[p] = now /\ \A q \in Pairs : q # p => new[q] = le[q]
  BY <1>1
<1> HIDE DEF new
<1>3. CASE RateLimit = 0
  <2>1. r.ok = TRUE /\ r.last_emit = le
    BY <1>3 DEF PassRateLimit
  <2> HIDE DEF r
  <2>2. ~ (RateLimit > 0)
    BY <1>3
  <2>3. /\ r.last_emit \in [Pairs -> Times] /\ \A q \in Pairs : r.last_emit[q] = le[q]
    BY ZenonT(30), <2>1
  <2>4. /\ r.last_emit \in [Pairs -> Times]
        /\ \A q \in Pairs : r.last_emit[q] = le[q] \/ (RateLimit > 0 /\ r.last_emit[q] = now)
        /\ r.ok /\ RateLimit > 0 => /\ r.last_emit[p] = now
                                    /\ le[p] = Never \/ now - le[p] >= RateLimit
    BY ZenonT(30), <2>2, <2>3
  <2> QED BY <2>4 DEF r
<1>4. CASE RateLimit # 0 /\ le[p] # Never /\ now - le[p] < RateLimit
  <2>1. r.ok = FALSE /\ r.last_emit = le
    BY <1>4 DEF PassRateLimit
  <2> HIDE DEF r
  <2>2. /\ r.last_emit \in [Pairs -> Times]
        /\ \A q \in Pairs : r.last_emit[q] = le[q] \/ (RateLimit > 0 /\ r.last_emit[q] = now)
        /\ r.ok /\ RateLimit > 0 => /\ r.last_emit[p] = now
                                    /\ le[p] = Never \/ now - le[p] >= RateLimit
    BY ZenonT(30), <2>1
  <2> QED BY <2>2 DEF r
<1>5. CASE RateLimit # 0 /\ ~ (le[p] # Never /\ now - le[p] < RateLimit)
  <2>1. r.last_emit = new
    BY ZenonT(30), <1>5 DEF PassRateLimit, new
  <2> HIDE DEF r
  <2>2. RateLimit > 0
    BY <1>1, <1>5
  <2>3. le[p] = Never \/ now - le[p] >= RateLimit
    <3>1. le[p] \in Int
      BY <1>1 DEF Times, Never
    <3> QED BY <1>1, <1>5, <3>1
  <2>4. /\ r.last_emit \in [Pairs -> Times]
        /\ \A q \in Pairs : r.last_emit[q] = le[q] \/ (RateLimit > 0 /\ r.last_emit[q] = now)
        /\ r.ok /\ RateLimit > 0 => /\ r.last_emit[p] = now
                                    /\ le[p] = Never \/ now - le[p] >= RateLimit
    BY ZenonT(30), <1>2, <2>1, <2>2, <2>3
  <2> QED BY <2>4 DEF r
<1> QED BY ZenonT(30), <1>3, <1>4, <1>5

\* A pair that passed all guards but the rate limit.
LEMMA PairKeeps ==
  ASSUME NEW acc, ScanInv(acc), now \in 0 .. MaxNow, last_emit \in [Pairs -> Times],
         NEW s, NEW b, GoodBook(s), GoodBook(b), Synced(s), Synced(b), Fresh(s, b)
  PROVE  ScanInv(ScanPair(acc, s, b))
<1> DEFINE x == [sell |-> s, buy |-> b]
           p == <<s.key[1], b.key[1]>>
           le == acc.last_emit
           r == PassRateLimit(le, p)
           new == ScanPair(acc, s, b)
           Cross == [sell : VenueBook, buy : VenueBook]
<1>1. s \in VenueBook /\ b \in VenueBook /\ s.key \in Keys /\ b.key \in Keys
  BY ZenonT(30) DEF GoodBook, VenueBook
<1>2. p \in Pairs
  BY <1>1 DEF Keys, Pairs
<1>3. x \in Cross /\ x.sell = s /\ x.buy = b /\ PairOf(x) = p
  BY <1>1 DEF PairOf
<1>4. new.last_emit = r.last_emit /\ new.out = IF r.ok THEN Append(acc.out, x) ELSE acc.out
  BY ZenonT(30) DEF ScanPair
<1>5. /\ le \in [Pairs -> Times] /\ acc.out \in Seq(Cross)
      /\ \A q \in Pairs : le[q] = last_emit[q] \/ (RateLimit > 0 /\ le[q] = now)
      /\ \A i \in 1 .. Len(acc.out) : Reported(acc.out[i], le)
      /\ RateLimit > 0 =>
           \A i, j \in 1 .. Len(acc.out) : PairOf(acc.out[i]) = PairOf(acc.out[j]) => i = j
  BY ZenonT(30) DEF ScanInv
<1> HIDE DEF p, x, new, Cross
<1>6. /\ r.last_emit \in [Pairs -> Times]
      /\ \A q \in Pairs : r.last_emit[q] = le[q] \/ (RateLimit > 0 /\ r.last_emit[q] = now)
      /\ r.ok /\ RateLimit > 0 => /\ r.last_emit[p] = now
                                  /\ le[p] = Never \/ now - le[p] >= RateLimit
  <2> HIDE DEF le
  <2> QED BY ZenonT(30), <1>2, <1>5, RateLimitFact
<1> HIDE DEF r, le
<1>7. /\ new.last_emit \in [Pairs -> Times]
      /\ \A q \in Pairs : new.last_emit[q] = last_emit[q] \/ (RateLimit > 0 /\ new.last_emit[q] = now)
  BY ZenonT(30), <1>4, <1>5, <1>6
<1>8. ASSUME NEW y \in Cross, Reported(y, le) PROVE Reported(y, new.last_emit)
  <2>1. PairOf(y) \in Pairs
    BY DEF Cross, VenueBook, PairOf, Keys, Pairs
  <2>2. RateLimit > 0 => new.last_emit[PairOf(y)] = now
    BY ZenonT(30), <1>4, <1>6, <1>8, <2>1 DEF Reported
  <2> QED BY ZenonT(30), <1>8, <2>2 DEF Reported
<1>9. Len(acc.out) \in Nat /\ \A i \in 1 .. Len(acc.out) : acc.out[i] \in Cross
  BY <1>5
<1>10. \A i \in 1 .. Len(acc.out) : Reported(acc.out[i], new.last_emit)
  BY ZenonT(30), <1>5, <1>8, <1>9
<1>11. ASSUME ~ r.ok PROVE ScanInv(new)
  <2>1. new.out = acc.out
    BY ZenonT(30), <1>4, <1>11
  <2> QED BY ZenonT(30), <1>5, <1>7, <1>10, <2>1 DEF ScanInv, Cross
<1>12. ASSUME r.ok PROVE ScanInv(new)
  <2>1. new.out = Append(acc.out, x)
    BY ZenonT(30), <1>4, <1>12
  <2>2. /\ new.out \in Seq(Cross) /\ Len(new.out) = Len(acc.out) + 1
        /\ \A i \in 1 .. Len(acc.out) : new.out[i] = acc.out[i]
        /\ new.out[Len(acc.out) + 1] = x
    BY <1>3, <1>5, <2>1, AppendProperties
  <2>3. ASSUME RateLimit > 0
        PROVE  /\ new.last_emit[p] = now
               /\ last_emit[p] = Never \/ now - last_emit[p] >= RateLimit
    <3>1. new.last_emit[p] = now /\ (le[p] = Never \/ now - le[p] >= RateLimit)
      BY ZenonT(30), <1>4, <1>6, <1>12, <2>3
    <3>2. le[p] = last_emit[p] \/ le[p] = now
      BY ZenonT(30), <1>2, <1>5
    <3>3. now \in Nat /\ RateLimit \in Nat /\ now # Never
      BY BrainAssumption DEF Never
    <3>4. CASE le[p] = last_emit[p]
      BY ZenonT(30), <3>1, <3>4
    <3>5. CASE le[p] = now
      BY <2>3, <3>1, <3>3, <3>5
    <3> QED BY <3>2, <3>4, <3>5
  <2>4. Reported(x, new.last_emit)
    BY ZenonT(30), <1>3, <2>3 DEF Reported, Cross
  <2>5. \A i \in 1 .. Len(new.out) : i \in 1 .. Len(acc.out) \/ i = Len(acc.out) + 1
    BY <1>9, <2>2
  <2>6. \A i \in 1 .. Len(new.out) : Reported(new.out[i], new.last_emit)
    BY ZenonT(30), <1>10, <2>2, <2>4, <2>5
  <2>7. ASSUME RateLimit > 0, NEW i \in 1 .. Len(new.out), NEW j \in 1 .. Len(new.out),
               PairOf(new.out[i]) = PairOf(new.out[j])
        PROVE  i = j
    <3>1. \A h \in 1 .. Len(acc.out) : PairOf(new.out[h]) # p
      <4>1. le[p] # now
        <5>1. le[p] = Never \/ now - le[p] >= RateLimit
          BY ZenonT(30), <1>6, <1>12, <2>7
        <5>2. now \in Nat /\ RateLimit \in Nat /\ now # Never
          BY BrainAssumption DEF Never
        <5> QED BY <2>7, <5>1, <5>2
      <4> QED BY ZenonT(30), <1>5, <2>2, <2>7, <4>1 DEF Reported
    <3>2. PairOf(new.out[Len(acc.out) + 1]) = p
      BY ZenonT(30), <1>3, <2>2
    <3> QED BY ZenonT(30), <1>5, <2>2, <2>5, <2>7, <3>1, <3>2
  <2> QED BY ZenonT(30), <1>7, <2>2, <2>6, <2>7 DEF ScanInv, Cross
<1> QED BY <1>11, <1>12 DEF new

\* One pass of the pair loops.
LEMMA PassKeeps ==
  ASSUME NEW bs, GoodBooks(bs), NEW acc, ScanInv(acc), NEW k,
         now \in 0 .. MaxNow, last_emit \in [Pairs -> Times]
  PROVE  ScanInv(ScanPass(bs, Usable(bs), acc, k))
<1>1. \A i \in Usable(bs) : GoodBook(bs[i]) /\ Synced(bs[i])
  <2>1. Usable(bs) \subseteq Scanned(bs)
    BY ZenonT(30) DEF Usable
  <2>2. DOMAIN bs = 1 .. Len(bs)
    BY DEF GoodBooks
  <2>3. \A i \in Scanned(bs) : i \in 1 .. Len(bs) /\ Synced(bs[i])
    BY ZenonT(30), <2>2 DEF Scanned
  <2> QED BY ZenonT(30), <2>1, <2>3 DEF GoodBooks
<1>2. PICK i, j : i = ((k - 1) \div Len(bs)) + 1 /\ j = ((k - 1) % Len(bs)) + 1
  OBVIOUS
<1>3. ScanPass(bs, Usable(bs), acc, k) =
        IF i # j /\ i \in Usable(bs) /\ j \in Usable(bs) /\ IsCross(bs[i], bs[j])
        THEN ScanPair(acc, bs[i], bs[j]) ELSE acc
  BY ZenonT(30), <1>2 DEF ScanPass
<1>4. CASE i \in Usable(bs) /\ j \in Usable(bs) /\ IsCross(bs[i], bs[j])
  <2>1. Fresh(bs[i], bs[j])
    <3>1. IsCross(bs[i], bs[j])
      BY <1>4
    <3> HIDE DEF Fresh
    <3> QED BY <3>1 DEF IsCross
  <2>2. GoodBook(bs[i]) /\ Synced(bs[i]) /\ GoodBook(bs[j]) /\ Synced(bs[j])
    BY ZenonT(30), <1>1, <1>4
  <2>3. PICK s, b : s = bs[i] /\ b = bs[j]
    OBVIOUS
  <2>4. ScanInv(ScanPair(acc, s, b))
    BY ZenonT(30), <2>1, <2>2, <2>3, PairKeeps
  <2> QED BY ZenonT(30), <1>3, <2>3, <2>4
<1>5. CASE ~ (i \in Usable(bs) /\ j \in Usable(bs) /\ IsCross(bs[i], bs[j]))
  BY ZenonT(30), <1>3, <1>5
<1> QED BY <1>4, <1>5

\* f is the recursive function of Scan, run for m passes.
IsScan(f, bs, m) ==
  f = [k \in 0 .. m |-> IF k = 0 THEN [last_emit |-> last_emit, out |-> <<>>]
                       ELSE ScanPass(bs, Usable(bs), f[k - 1], k)]

\* The pair loops are well defined.
LEMMA ScanExists ==
  ASSUME NEW bs, NEW N \in Nat
  PROVE  \E f : IsScan(f, bs, N)
<1> DEFINE start == [last_emit |-> last_emit, out |-> <<>>]
           Pass(acc, k) == ScanPass(bs, Usable(bs), acc, k)
           T == {m \in Nat : \E f : IsScan(f, bs, m)}
<1>0. \A f, m : IsScan(f, bs, m) <=>
               f = [k \in 0 .. m |-> IF k = 0 THEN start ELSE Pass(f[k - 1], k)]
  BY ZenonT(30) DEF IsScan
<1> HIDE DEF start, Pass
<1>1. 0 \in T
  <2> DEFINE g == [k \in 0 .. 0 |-> start]
  <2>1. g = [k \in 0 .. 0 |-> IF k = 0 THEN start ELSE Pass(g[k - 1], k)]
    OBVIOUS
  <2> HIDE DEF g
  <2>2. IsScan(g, bs, 0)
    BY ZenonT(30), <1>0, <2>1
  <2> QED BY <2>2
<1>2. ASSUME NEW m \in T PROVE m + 1 \in T
  <2>1. PICK f : IsScan(f, bs, m)
    OBVIOUS
  <2>2. f = [k \in 0 .. m |-> IF k = 0 THEN start ELSE Pass(f[k - 1], k)]
    BY ZenonT(30), <1>0, <2>1
  <2> DEFINE g == [k \in 0 .. m + 1 |-> IF k <= m THEN f[k] ELSE Pass(f[m], m + 1)]
  <2>3. ASSUME NEW k \in 0 .. m + 1
        PROVE  g[k] = IF k = 0 THEN start ELSE Pass(g[k - 1], k)
    <3>1. CASE k = 0
      BY <2>2, <3>1
    <3>2. CASE k # 0 /\ k <= m
      <4>1. k \in 0 .. m /\ k - 1 \in 0 .. m + 1 /\ k - 1 <= m
        BY <3>2
      <4>2. g[k] = f[k] /\ g[k - 1] = f[k - 1]
        BY <3>2, <4>1
      <4>3. f[k] = Pass(f[k - 1], k)
        BY <2>2, <3>2, <4>1
      <4> QED BY ZenonT(30), <3>2, <4>2, <4>3
    <3>3. CASE k = m + 1
      <4>1. g[k] = Pass(f[m], k) /\ g[k - 1] = f[m] /\ k # 0
        BY <3>3
      <4> QED BY ZenonT(30), <4>1
    <3> QED BY <3>1, <3>2, <3>3
  <2>4. IsScan(g, bs, m + 1)
    <3> DEFINE h == [k \in 0 .. m + 1 |-> IF k = 0 THEN start ELSE Pass(g[k - 1], k)]
    <3>1. g = h
      BY <2>3
    <3> QED BY ZenonT(30), <1>0, <3>1
  <2> HIDE DEF g
  <2> QED BY <2>4
<1>3. T = Nat
  <2>1. T \subseteq Nat
    OBVIOUS
  <2> HIDE DEF T
  <2> QED BY Zenon, <1>1, <1>2, <2>1, SetInduction
<1> QED BY <1>3

\* What scan reports, and what it leaves in the rate limiter.
LEMMA ScanFact ==
  ASSUME NEW bs, GoodBooks(bs), now \in 0 .. MaxNow, last_emit \in [Pairs -> Times]
  PROVE  ScanInv(Scan(bs))
<1> DEFINE N == Len(bs) * Len(bs)
           f == CHOOSE g : IsScan(g, bs, N)
<1>1. N \in Nat
  BY DEF GoodBooks
<1>2. IsScan(f, bs, N)
  <2> HIDE DEF N
  <2> QED BY Zenon, <1>1, ScanExists
<1>3. Scan(bs) = f[N]
  BY ZenonT(30) DEF Scan, IsScan
<1> HIDE DEF f, N
<1> DEFINE T == {k \in Nat : k <= N => ScanInv(f[k])}
<1>4. f = [k \in 0 .. N |-> IF k = 0 THEN [last_emit |-> last_emit, out |-> <<>>]
                           ELSE ScanPass(bs, Usable(bs), f[k - 1], k)]
  BY ZenonT(30), <1>2 DEF IsScan
<1>5. 0 \in T
  <2>1. f[0] = [last_emit |-> last_emit, out |-> <<>>]
    BY <1>1, <1>4
  <2>2. f[0].last_emit = last_emit /\ f[0].out = <<>>
    BY <2>1
  <2>3. ScanInv(f[0])
    <3>1. PICK acc : acc = f[0]
      OBVIOUS
    <3>2. acc.last_emit = last_emit /\ acc.out = <<>>
      BY ZenonT(30), <2>2, <3>1
    <3>3. acc.out \in Seq([sell : VenueBook, buy : VenueBook]) /\ \A i : i \notin 1 .. Len(acc.out)
      BY SMTT(30), <3>2
    <3>4. ScanInv(acc)
      BY ZenonT(30), <3>2, <3>3 DEF ScanInv
    <3> QED BY ZenonT(30), <3>1, <3>4
  <2> QED BY <2>3
<1>6. ASSUME NEW k \in T PROVE k + 1 \in T
  <2>1. k \in Nat /\ k + 1 \in Nat /\ (k <= N => ScanInv(f[k]))
    OBVIOUS
  <2>2. ASSUME k + 1 <= N PROVE ScanInv(f[k + 1])
    <3>1. k <= N /\ k + 1 \in 0 .. N /\ k + 1 # 0 /\ (k + 1) - 1 = k
      BY <1>1, <2>1, <2>2
    <3>2. f[k + 1] = ScanPass(bs, Usable(bs), f[k], k + 1)
      <4> DEFINE Pass(acc, n) == ScanPass(bs, Usable(bs), acc, n)
                 start == [last_emit |-> last_emit, out |-> <<>>]
      <4>1. f = [n \in 0 .. N |-> IF n = 0 THEN start ELSE Pass(f[n - 1], n)]
        BY ZenonT(30), <1>4
      <4> HIDE DEF Pass, start
      <4>2. f[k + 1] = Pass(f[k], k + 1)
        BY SMTT(30), <3>1, <4>1
      <4> QED BY SMTT(30), <4>2 DEF Pass
    <3>3. PICK acc, n : acc = f[k] /\ n = k + 1
      OBVIOUS
    <3>4. ScanInv(ScanPass(bs, Usable(bs), acc, n))
      BY ZenonT(30), <2>1, <3>1, <3>3, PassKeeps
    <3> QED BY ZenonT(30), <3>2, <3>3, <3>4
  <2> QED BY <2>1, <2>2
<1>7. T = Nat
  <2>1. T \subseteq Nat
    OBVIOUS
  <2> HIDE DEF T
  <2> QED BY Zenon, <1>5, <1>6, <2>1, SetInduction
<1>8. ScanInv(f[N])
  <2>1. N \in T
    BY <1>1, <1>7
  <2> QED BY <1>1, <2>1
<1> QED BY <1>3, <1>8

-----------------------------------------------------------------------------
(* The brain.                                                               *)

\* The inductive invariant.  What was sent is never newer than what the rate
\* limiter noted: it also notes what a standby brain suppressed.
BrainInv ==
  /\ now \in 0 .. MaxNow /\ events \in 0 .. MaxEvents
  /\ replay \in BOOLEAN /\ active \in BOOLEAN
  /\ last_emit \in [Pairs -> Times] /\ sent \in [Pairs -> Times]
  /\ \A p \in Pairs : sent[p] <= now /\ (RateLimit > 0 => sent[p] <= last_emit[p])
  /\ GoodBooks(books)
  /\ CrossesUseBaselinedBooks
  /\ CrossesRecentlyHeard

\* The parsed levels of one price.
LEMMA OneLevel ==
  ASSUME NEW t \in Ticks, NEW l \in Lots
  PROVE  <<ParsedLevel(t, l)>> \in Seq(Level) /\ <<>> \in Seq(Level)
<1>1. ParsedLevel(t, l) \in Level
  BY DEF ParsedLevel, Level
<1> QED BY <1>1

\* The events on_event is called with.
LEMMA EventsAreEvents ==
  ASSUME now \in 0 .. MaxNow,
         NEW e \in Snapshots \cup BookStates \cup Incrementals \cup BadBookStates \cup Statuses
  PROVE  Event(e)
<1>1. now \in Int /\ \A v \in Venues : Lead[v] \in Int
  BY BrainAssumption
<1>2. \A k \in Keys : Stamp(k[1]) \in Int
  <2>1. \A k \in Keys : k[1] \in Venues
    BY DEF Keys
  <2>2. \A v \in Venues : Stamp(v) \in Int
    BY <1>1 DEF Stamp
  <2> QED BY ZenonT(30), <2>1, <2>2
<1>3. BaseSeqs \subseteq Nat /\ IncSeqs \subseteq Nat /\ 1 \in Lots
  BY BrainAssumption
<1>4. ASSUME NEW type \in {"snapshot", "book_state"}, NEW d \in Data(type) PROVE Event(d)
  <2>1. PICK k \in Keys, q \in BaseSeqs,
             b \in {<<ParsedLevel(t, 1)>> : t \in Ticks}, a \in {<<ParsedLevel(t, 1)>> : t \in Ticks} :
          d = [type |-> type, key |-> k, ts |-> Stamp(k[1]), seq |-> q, bids |-> b, asks |-> a]
    BY <1>4 DEF Data
  <2>2. b \in Seq(Level) /\ a \in Seq(Level)
    BY ZenonT(30), <1>3, OneLevel
  <2>3. /\ d.type = type /\ d.key = k /\ d.ts = Stamp(k[1]) /\ d.seq = q
        /\ d.bids = b /\ d.asks = a
    BY SMTT(30), <2>1
  <2>4. d.type \in {"snapshot", "book_state", "incremental", "bad_book_state", "status"}
    BY <1>4, <2>3
  <2> QED BY ZenonT(30), <1>2, <1>3, <2>2, <2>3, <2>4 DEF Event
<1>5. CASE e \in Snapshots
  BY ZenonT(30), <1>4, <1>5 DEF Snapshots
<1>6. CASE e \in BookStates
  BY ZenonT(30), <1>4, <1>6 DEF BookStates
<1>7. CASE e \in Incrementals
  <2> DEFINE Inc(k, q, side, t, l) ==
               [type |-> "incremental", key |-> k, ts |-> Stamp(k[1]), seq |-> q,
                bids |-> IF side = "BID" THEN <<ParsedLevel(t, l)>> ELSE <<>>,
                asks |-> IF side = "ASK" THEN <<ParsedLevel(t, l)>> ELSE <<>>]
  <2>0. e \in {Inc(k, q, side, t, l) :
                k \in Keys, q \in IncSeqs, side \in Side, t \in Ticks, l \in Lots}
    BY SMTT(30), <1>7 DEF Incrementals
  <2> HIDE DEF Inc
  <2>1. PICK k \in Keys, q \in IncSeqs, side \in Side, t \in Ticks, l \in Lots :
          e = Inc(k, q, side, t, l)
    BY SMTT(30), <2>0
  <2>2. PICK one : one = <<ParsedLevel(t, l)>>
    BY ZenonT(30)
  <2>3. one \in Seq(Level) /\ <<>> \in Seq(Level)
    BY ZenonT(30), <2>2, OneLevel
  <2>4. e = [type |-> "incremental", key |-> k, ts |-> Stamp(k[1]), seq |-> q,
             bids |-> IF side = "BID" THEN one ELSE <<>>,
             asks |-> IF side = "ASK" THEN one ELSE <<>>]
    BY ZenonT(30), <2>1, <2>2 DEF Inc
  <2>5. /\ e.type = "incremental" /\ e.key = k /\ e.ts = Stamp(k[1]) /\ e.seq = q
        /\ e.bids \in {one, <<>>} /\ e.asks \in {one, <<>>}
    BY SMTT(30), <2>4
  <2>6. e.type \in {"snapshot", "book_state", "incremental", "bad_book_state", "status"}
    BY <2>5
  <2>7. e.bids \in Seq(Level) /\ e.asks \in Seq(Level)
    BY ZenonT(30), <2>3, <2>5
  <2> QED BY ZenonT(30), <1>2, <1>3, <2>5, <2>6, <2>7 DEF Event
<1>8. CASE e \in BadBookStates
  <2>1. PICK k \in Keys : e = [type |-> "bad_book_state", key |-> k, ts |-> Stamp(k[1])]
    BY ZenonT(30), <1>8 DEF BadBookStates
  <2>2. e.type = "bad_book_state" /\ e.key = k /\ e.ts = Stamp(k[1])
    BY <2>1
  <2>3. e.ts \in Int
    BY ZenonT(30), <1>2, <2>2
  <2> QED BY <2>2, <2>3 DEF Event
<1>9. CASE e \in Statuses
  <2>1. PICK k \in IF replay THEN {} ELSE Keys, f \in {"disconnected", "resyncing", "synced"} :
          e = [type |-> "status", key |-> k, feed_state |-> f]
    BY <1>9 DEF Statuses
  <2>2. k \in Keys
    BY ZenonT(30)
  <2>3. e.type = "status" /\ e.key = k
    BY <2>1
  <2> QED BY <2>2, <2>3 DEF Event
<1> QED BY ZenonT(30), <1>5, <1>6, <1>7, <1>8, <1>9

\* What a cross that scan reports promises.
LEMMA ReportedFact ==
  ASSUME NEW x, NEW le, Reported(x, le), now \in 0 .. MaxNow
  PROVE  /\ x.sell.based /\ x.buy.based
         /\ MaxAge > 0 => /\ now - x.sell.recv <= MaxAge + FutureMax
                          /\ now - x.buy.recv <= MaxAge + FutureMax
<1>1. PICK s, b : s = x.sell /\ b = x.buy
  OBVIOUS
<1>2. GoodBook(s) /\ Synced(s) /\ GoodBook(b) /\ Synced(b) /\ Fresh(s, b)
  BY ZenonT(30), <1>1 DEF Reported
<1>3. ASSUME NEW vb, GoodBook(vb), Synced(vb)
      PROVE  vb.based /\ vb.ts \in Int /\ vb.recv \in Int /\ vb.ts <= vb.recv + FutureMax
  <2>1. vb.ctl.state # "WaitingSnapshot"
    BY <1>3 DEF Synced
  <2>2. vb.ts \in Int /\ vb.recv \in Int
    BY ZenonT(30), <1>3 DEF GoodBook, VenueBook
  <2>3. vb.based /\ vb.ts <= vb.recv + FutureMax
    BY ZenonT(30), <1>3, <2>1 DEF GoodBook, Synced
  <2> QED BY <2>2, <2>3
<1>4. now \in Int /\ MaxAge \in Nat /\ FutureMax \in Nat
  BY BrainAssumption
<1>5. MaxAge > 0 => now - s.ts <= MaxAge /\ now - b.ts <= MaxAge
  BY ZenonT(30), <1>2 DEF Fresh
<1>6. MaxAge > 0 => /\ now - s.recv <= MaxAge + FutureMax
                   /\ now - b.recv <= MaxAge + FutureMax
  <2>1. /\ s.ts \in Int /\ s.recv \in Int /\ s.ts <= s.recv + FutureMax
        /\ b.ts \in Int /\ b.recv \in Int /\ b.ts <= b.recv + FutureMax
    BY ZenonT(30), <1>2, <1>3
  <2> QED BY <1>4, <1>5, <2>1
<1> QED BY ZenonT(30), <1>1, <1>2, <1>3, <1>6

\* emit_ and the rate limiter after a scan: what is reported is spaced by the
\* rate limit, only while active, and of good books.
LEMMA ReportKeeps ==
  ASSUME BrainInv, NEW scan, ScanInv(scan), Report(scan), now' = now
  PROVE  /\ last_emit' \in [Pairs -> Times] /\ sent' \in [Pairs -> Times]
         /\ \A p \in Pairs : sent'[p] <= now /\ (RateLimit > 0 => sent'[p] <= last_emit'[p])
         /\ CrossesUseBaselinedBooks' /\ CrossesRecentlyHeard'
         /\ crosses' # <<>> =>
              /\ active
              /\ \A i \in DOMAIN crosses' :
                   \/ sent[PairOf(crosses'[i])] = Never
                   \/ now - sent[PairOf(crosses'[i])] >= RateLimit
              /\ RateLimit > 0 =>
                   \A i, j \in DOMAIN crosses' : PairOf(crosses'[i]) = PairOf(crosses'[j]) => i = j
<1> DEFINE Cross == [sell : VenueBook, buy : VenueBook]
<1>1. /\ now \in 0 .. MaxNow /\ last_emit \in [Pairs -> Times] /\ sent \in [Pairs -> Times]
      /\ \A p \in Pairs : sent[p] <= now /\ (RateLimit > 0 => sent[p] <= last_emit[p])
  BY ZenonT(30) DEF BrainInv
<1>2. /\ scan.last_emit \in [Pairs -> Times] /\ scan.out \in Seq(Cross)
      /\ \A p \in Pairs : scan.last_emit[p] = last_emit[p] \/ (RateLimit > 0 /\ scan.last_emit[p] = now)
      /\ \A i \in 1 .. Len(scan.out) : Reported(scan.out[i], scan.last_emit)
      /\ RateLimit > 0 =>
           \A i, j \in 1 .. Len(scan.out) : PairOf(scan.out[i]) = PairOf(scan.out[j]) => i = j
  BY ZenonT(30) DEF ScanInv
<1> HIDE DEF Cross
<1>3. PICK out : out = crosses' /\ out = Emit(scan.out)
  BY ZenonT(30) DEF Report
<1>4. PICK le : le = last_emit' /\ le = scan.last_emit
  BY ZenonT(30) DEF Report
<1>5. /\ \A i \in DOMAIN out : Reported(out[i], le) /\ out[i] \in Cross
      /\ out # <<>> => active
      /\ RateLimit > 0 => \A i, j \in DOMAIN out : PairOf(out[i]) = PairOf(out[j]) => i = j
  <2>1. CASE active
    <3>1. out = scan.out
      BY ZenonT(30), <1>3, <2>1 DEF Emit
    <3>2. DOMAIN out = 1 .. Len(scan.out) /\ \A i \in DOMAIN out : out[i] \in Cross
      BY <1>2, <3>1
    <3> QED BY ZenonT(30), <1>2, <1>4, <2>1, <3>1, <3>2
  <2>2. CASE ~ active
    <3>1. out = <<>>
      BY ZenonT(30), <1>3, <2>2 DEF Emit
    <3>2. DOMAIN out = {}
      BY <3>1
    <3> QED BY ZenonT(30), <3>1, <3>2
  <2> QED BY <2>1, <2>2
<1>6. \A i \in DOMAIN out : PairOf(out[i]) \in Pairs
  <2>1. \A x \in Cross : PairOf(x) \in Pairs
    BY DEF Cross, VenueBook, PairOf, Keys, Pairs
  <2> QED BY ZenonT(30), <1>5, <2>1
<1>7. \A p \in Pairs : le[p] = last_emit[p] \/ (RateLimit > 0 /\ le[p] = now)
  BY ZenonT(30), <1>2, <1>4
<1>8. \A p \in Pairs : last_emit[p] \in Int /\ sent[p] \in Int /\ le[p] \in Int
  <2>1. Times \subseteq Int
    BY BrainAssumption DEF Times, Never
  <2>2. le \in [Pairs -> Times]
    BY ZenonT(30), <1>2, <1>4
  <2> QED BY ZenonT(30), <1>1, <2>1, <2>2
<1>9. now \in Nat /\ RateLimit \in Nat /\ now \in Times
  BY <1>1, BrainAssumption DEF Times
<1>10. sent' = [p \in Pairs |-> IF \E i \in DOMAIN out : p = PairOf(out[i]) THEN now ELSE sent[p]]
  BY ZenonT(30), <1>3 DEF Report, PairOf
<1>11. sent' \in [Pairs -> Times]
  <2>1. \A p \in Pairs : sent[p] \in Times
    BY ZenonT(30), <1>1
  <2> HIDE DEF PairOf
  <2> QED BY ZenonT(60), <1>9, <1>10, <2>1
<1>12. ASSUME NEW p \in Pairs
       PROVE  sent'[p] <= now /\ (RateLimit > 0 => sent'[p] <= le[p])
  <2>1. CASE \E i \in DOMAIN out : p = PairOf(out[i])
    <3>1. sent'[p] = now
      BY ZenonT(30), <1>10, <2>1
    <3>2. RateLimit > 0 => le[p] = now
      BY ZenonT(30), <1>5, <2>1 DEF Reported
    <3> QED BY <1>9, <3>1, <3>2
  <2>2. CASE ~ \E i \in DOMAIN out : p = PairOf(out[i])
    <3>1. sent'[p] = sent[p]
      BY ZenonT(30), <1>10, <2>2
    <3>2. sent[p] <= now /\ (RateLimit > 0 => sent[p] <= last_emit[p])
      BY ZenonT(30), <1>1
    <3>3. le[p] = last_emit[p] \/ le[p] = now
      BY ZenonT(30), <1>7
    <3>4. CASE le[p] = last_emit[p]
      BY ZenonT(30), <3>1, <3>2, <3>4
    <3>5. CASE le[p] = now
      BY ZenonT(30), <3>1, <3>2, <3>5
    <3> QED BY <3>3, <3>4, <3>5
  <2> QED BY <2>1, <2>2
<1>13. ASSUME NEW i \in DOMAIN out
       PROVE  sent[PairOf(out[i])] = Never \/ now - sent[PairOf(out[i])] >= RateLimit
  <2>1. PICK p \in Pairs : p = PairOf(out[i])
    BY <1>6
  <2>2. sent[p] <= now /\ (RateLimit > 0 => sent[p] <= last_emit[p])
    BY ZenonT(30), <1>1
  <2>3. RateLimit > 0 => last_emit[p] = Never \/ now - last_emit[p] >= RateLimit
    BY ZenonT(30), <1>5, <2>1 DEF Reported
  <2>4. sent[p] \in Times /\ sent[p] \in Int /\ last_emit[p] \in Int
    BY ZenonT(30), <1>1, <1>8
  <2>5. sent[p] = Never \/ sent[p] >= 0
    BY SMTT(30), <2>4 DEF Times
  <2>6. sent[p] = Never \/ now - sent[p] >= RateLimit
    BY <1>9, <2>2, <2>3, <2>4, <2>5 DEF Never
  <2> QED BY ZenonT(30), <2>1, <2>6
<1>14. \A i \in DOMAIN out :
         /\ out[i].sell.based /\ out[i].buy.based
         /\ MaxAge > 0 => /\ now - out[i].sell.recv <= MaxAge + FutureMax
                          /\ now - out[i].buy.recv <= MaxAge + FutureMax
  BY ZenonT(30), <1>1, <1>5, ReportedFact
<1>15. CrossesUseBaselinedBooks'
  BY ZenonT(30), <1>3, <1>14 DEF CrossesUseBaselinedBooks
<1>16. CrossesRecentlyHeard'
  BY ZenonT(30), <1>3, <1>14 DEF CrossesRecentlyHeard
<1>17. last_emit' \in [Pairs -> Times]
  BY ZenonT(30), <1>2, <1>4
<1> QED BY ZenonT(30), <1>3, <1>4, <1>5, <1>11, <1>12, <1>13, <1>15, <1>16, <1>17

\* The scan after an event, if there is one.
LEMMA ScanIfTwoFact ==
  ASSUME NEW bs, GoodBooks(bs), now \in 0 .. MaxNow, last_emit \in [Pairs -> Times], NEW e
  PROVE  ScanInv(ScanIfTwo(e, bs))
<1> DEFINE none == [last_emit |-> last_emit, out |-> <<>>]
<1>1. ScanInv(none)
  <2>1. none.last_emit = last_emit /\ none.out = <<>>
    OBVIOUS
  <2> HIDE DEF none
  <2>2. none.out \in Seq([sell : VenueBook, buy : VenueBook]) /\ \A i : i \notin 1 .. Len(none.out)
    BY SMTT(30), <2>1
  <2> QED BY ZenonT(30), <2>1, <2>2 DEF ScanInv
<1>2. ScanIfTwo(e, bs) \in {Scan(bs), none}
  BY ZenonT(30) DEF ScanIfTwo
<1> HIDE DEF none
<1> QED BY ZenonT(30), <1>1, <1>2, ScanFact

\* Spacing, as the step of an action property.
Spaced ==
  crosses' # <<>> =>
    /\ active
    /\ \A i \in DOMAIN crosses' :
         LET p == <<crosses'[i].sell.key[1], crosses'[i].buy.key[1]>>
         IN  /\ sent[p] = Never \/ now - sent[p] >= RateLimit
             /\ RateLimit > 0 =>
                  \A j \in DOMAIN crosses' :
                    p = <<crosses'[j].sell.key[1], crosses'[j].buy.key[1]>> => i = j

\* A step that reports nothing says nothing wrong.
LEMMA Silent ==
  ASSUME crosses' = <<>>
  PROVE  CrossesUseBaselinedBooks' /\ CrossesRecentlyHeard' /\ Spaced
<1>1. DOMAIN crosses' = {}
  OBVIOUS
<1> QED BY ZenonT(30), <1>1 DEF CrossesUseBaselinedBooks, CrossesRecentlyHeard, Spaced

\* The brain starts without books and with nothing sent.
LEMMA InitInv ==
  ASSUME Init
  PROVE  BrainInv
<1>1. MaxNow \in Nat /\ MaxEvents \in Nat /\ Never \in Times /\ Never <= 0 /\ Never <= Never
  BY BrainAssumption DEF Times, Never
<1>2. now \in 0 .. MaxNow /\ events \in 0 .. MaxEvents /\ now = 0
  BY <1>1 DEF Init
<1>3. replay \in BOOLEAN /\ active \in BOOLEAN
  BY ZenonT(30) DEF Init
<1>4. /\ last_emit = [p \in Pairs |-> Never] /\ sent = [p \in Pairs |-> Never]
  BY ZenonT(30) DEF Init
<1>5. /\ last_emit \in [Pairs -> Times] /\ sent \in [Pairs -> Times]
      /\ \A p \in Pairs : sent[p] <= now /\ (RateLimit > 0 => sent[p] <= last_emit[p])
  BY ZenonT(30), <1>1, <1>2, <1>4
<1>6. GoodBooks(books)
  <2>1. books = <<>>
    BY ZenonT(30) DEF Init
  <2> QED BY <2>1 DEF GoodBooks
<1>7. CrossesUseBaselinedBooks /\ CrossesRecentlyHeard
  <2>1. DOMAIN crosses = {}
    BY DEF Init
  <2> QED BY ZenonT(30), <2>1 DEF CrossesUseBaselinedBooks, CrossesRecentlyHeard
<1> QED BY ZenonT(30), <1>2, <1>3, <1>5, <1>6, <1>7 DEF BrainInv

\* Every event, clock tick, promotion and reset keeps the invariant and the
\* spacing of the reports.
LEMMA StepInv ==
  ASSUME BrainInv, [Next]_vars
  PROVE  BrainInv' /\ (Spaced \/ UNCHANGED vars)
<1>1. /\ now \in 0 .. MaxNow /\ events \in 0 .. MaxEvents
      /\ replay \in BOOLEAN /\ active \in BOOLEAN
      /\ last_emit \in [Pairs -> Times] /\ sent \in [Pairs -> Times]
      /\ \A p \in Pairs : sent[p] <= now /\ (RateLimit > 0 => sent[p] <= last_emit[p])
      /\ GoodBooks(books)
  BY ZenonT(30) DEF BrainInv
<1>2. now \in Nat /\ MaxNow \in Nat /\ MaxEvents \in Nat /\ events \in Nat
  BY <1>1, BrainAssumption
<1>3. ASSUME NEW e \in Snapshots \cup BookStates \cup Incrementals \cup BadBookStates \cup Statuses,
             OnEvent(e)
      PROVE  BrainInv' /\ Spaced
  <2>1. Event(e)
    BY ZenonT(30), <1>1, EventsAreEvents
  <2>2. PICK bs : bs = books' /\ bs = Routed(e)
    BY ZenonT(30), <1>3 DEF OnEvent
  <2>3. GoodBooks(bs)
    BY ZenonT(30), <1>1, <1>2, <2>1, <2>2, RoutedGood
  <2>4. PICK scan : scan = ScanIfTwo(e, bs)
    OBVIOUS
  <2>5. ScanInv(scan)
    BY ZenonT(30), <1>1, <2>3, <2>4, ScanIfTwoFact
  <2>6. Report(scan) /\ now' = now /\ replay' = replay /\ active' = active
        /\ events' = events + 1 /\ events < MaxEvents
    BY ZenonT(30), <1>3, <2>2, <2>4 DEF OnEvent
  <2>7. /\ last_emit' \in [Pairs -> Times] /\ sent' \in [Pairs -> Times]
        /\ \A p \in Pairs : sent'[p] <= now /\ (RateLimit > 0 => sent'[p] <= last_emit'[p])
        /\ CrossesUseBaselinedBooks' /\ CrossesRecentlyHeard'
        /\ crosses' # <<>> =>
             /\ active
             /\ \A i \in DOMAIN crosses' :
                  \/ sent[PairOf(crosses'[i])] = Never
                  \/ now - sent[PairOf(crosses'[i])] >= RateLimit
             /\ RateLimit > 0 =>
                  \A i, j \in DOMAIN crosses' : PairOf(crosses'[i]) = PairOf(crosses'[j]) => i = j
    BY ZenonT(30), <2>5, <2>6, ReportKeeps
  <2>8. Spaced
    BY ZenonT(30), <2>7 DEF Spaced, PairOf
  <2>9. events' \in 0 .. MaxEvents
    BY <1>1, <1>2, <2>6
  <2>10. GoodBooks(books')
    BY <2>2, <2>3
  <2> QED BY ZenonT(30), <1>1, <2>6, <2>7, <2>8, <2>9, <2>10 DEF BrainInv, GoodBooks
<1>4. ASSUME Tick
      PROVE  BrainInv' /\ Spaced
  <2>1. /\ now' = now + 1 /\ now < MaxNow /\ replay' = replay /\ active' = active
        /\ events' = events /\ last_emit' = last_emit /\ sent' = sent /\ books' = books
        /\ crosses' = <<>>
    BY ZenonT(30), <1>4 DEF Tick
  <2>2. CrossesUseBaselinedBooks' /\ CrossesRecentlyHeard' /\ Spaced
    BY <2>1, Silent
  <2>3. now' \in 0 .. MaxNow
    BY <1>2, <2>1
  <2>4. \A p \in Pairs : sent'[p] <= now' /\ (RateLimit > 0 => sent'[p] <= last_emit'[p])
    <3>1. \A p \in Pairs : sent[p] \in Int
      <4>1. Times \subseteq Int
        BY BrainAssumption DEF Times, Never
      <4> QED BY ZenonT(30), <1>1, <4>1
    <3>2. \A x \in Int : x <= now => x <= now + 1
      BY <1>2
    <3> QED BY ZenonT(30), <1>1, <2>1, <3>1, <3>2
  <2> QED BY ZenonT(30), <1>1, <2>1, <2>2, <2>3, <2>4 DEF BrainInv, GoodBooks
<1>5. ASSUME Promote
      PROVE  BrainInv' /\ Spaced
  <2>1. /\ now' = now /\ replay' = replay /\ active' = TRUE
        /\ events' = events /\ last_emit' = last_emit /\ sent' = sent /\ books' = books
        /\ crosses' = <<>>
    BY ZenonT(30), <1>5 DEF Promote
  <2>2. CrossesUseBaselinedBooks' /\ CrossesRecentlyHeard' /\ Spaced
    BY <2>1, Silent
  <2> QED BY ZenonT(30), <1>1, <2>1, <2>2 DEF BrainInv, GoodBooks
<1>6. ASSUME Reset
      PROVE  BrainInv' /\ Spaced
  <2>1. /\ now' = now /\ replay' = replay /\ active' = active
        /\ events' = events /\ books' = <<>> /\ crosses' = <<>>
        /\ last_emit' = [p \in Pairs |-> Never] /\ sent' = [p \in Pairs |-> Never]
    BY ZenonT(30), <1>6 DEF Reset
  <2>2. CrossesUseBaselinedBooks' /\ CrossesRecentlyHeard' /\ Spaced
    BY <2>1, Silent
  <2>3. Never \in Times /\ Never <= now /\ Never <= Never
    BY <1>2 DEF Times, Never
  <2>4. /\ last_emit' \in [Pairs -> Times] /\ sent' \in [Pairs -> Times]
        /\ \A p \in Pairs : sent'[p] <= now' /\ (RateLimit > 0 => sent'[p] <= last_emit'[p])
    BY ZenonT(30), <2>1, <2>3
  <2>5. GoodBooks(books)'
    BY <2>1 DEF GoodBooks
  <2> QED BY ZenonT(30), <1>1, <2>1, <2>2, <2>4, <2>5 DEF BrainInv
<1>7. ASSUME UNCHANGED vars
      PROVE  BrainInv'
  <2>1. /\ now' = now /\ replay' = replay /\ active' = active /\ events' = events
        /\ last_emit' = last_emit /\ sent' = sent /\ books' = books /\ crosses' = crosses
    BY <1>7 DEF vars
  <2> QED BY ZenonT(30), <2>1
        DEF BrainInv, GoodBooks, CrossesUseBaselinedBooks, CrossesRecentlyHeard
<1> QED BY ZenonT(30), <1>3, <1>4, <1>5, <1>6, <1>7 DEF Next

-----------------------------------------------------------------------------
\* The invariant holds throughout.
LEMMA InvHolds == Spec => []BrainInv
<1>1. BrainInv /\ [Next]_vars => BrainInv'
  BY ZenonT(30), StepInv
<1>2. Init => BrainInv
  BY ZenonT(30), InitInv
<1> QED BY <1>1, <1>2, PTL DEF Spec

\* Whatever events arrive, in any order, each venue and symbol has one book,
\* and each book holds what a controller can hold (UnifiedBook::find_or_create_,
\* on_event).
THEOREM BrainTypeCorrect == Spec => []TypeOK
<1>1. ASSUME BrainInv PROVE TypeOK
  <2>1. /\ now \in 0 .. MaxNow /\ events \in 0 .. MaxEvents
        /\ replay \in BOOLEAN /\ active \in BOOLEAN
        /\ last_emit \in [Pairs -> Times] /\ sent \in [Pairs -> Times] /\ GoodBooks(books)
    BY ZenonT(30), <1>1 DEF BrainInv
  <2>2. {replay, active} \subseteq BOOLEAN
    BY ZenonT(30), <2>1
  <2>3. {last_emit, sent} \subseteq [Pairs -> {Never} \cup 0 .. MaxNow]
    BY ZenonT(30), <2>1 DEF Times
  <2>4. /\ DOMAIN books = 1 .. Len(books)
        /\ \A i \in 1 .. Len(books) : books[i] \in VenueBook
        /\ \A i, j \in 1 .. Len(books) : books[i].key = books[j].key => i = j
    BY <2>1 DEF GoodBooks
  <2>5. \A vb \in VenueBook : vb.key \in Keys /\ vb.ctl \in Controller /\ vb.feed_healthy \in BOOLEAN
    BY ZenonT(30) DEF VenueBook
  <2> QED BY ZenonT(30), <2>1, <2>2, <2>3, <2>4, <2>5 DEF TypeOK
<1> QED BY <1>1, InvHolds, PTL

\* However events are lost, repeated or reordered on the way, a cross is only
\* reported between books rebuilt from a snapshot or a book_state since they were
\* last dropped (UnifiedBook::on_event, VenueBook::synced, ArbDetector::scan).
THEOREM CrossesAlwaysBaselined == Spec => []CrossesUseBaselinedBooks
<1>1. BrainInv => CrossesUseBaselinedBooks
  BY DEF BrainInv
<1> QED BY <1>1, InvHolds, PTL

\* However wrong the PoPs' clocks are, both books of a reported cross were heard
\* of within the age limit plus the tolerated lead (sanitize_ts, scan).
THEOREM CrossesAlwaysRecent == Spec => []CrossesRecentlyHeard
<1>1. BrainInv => CrossesRecentlyHeard
  BY DEF BrainInv
<1> QED BY <1>1, InvHolds, PTL

\* For any number of books that share a pair of venues, two reports of the pair
\* are at least the rate limit apart, so one scan reports it once, and a standby
\* brain reports nothing (check_rate_limit_, emit_).
THEOREM ReportsAlwaysSpaced == Spec => ReportsSpacedAndActive
<1>1. BrainInv /\ [Next]_vars => [Spaced]_vars
  BY ZenonT(30), StepInv
<1>2. [][Spaced]_vars => ReportsSpacedAndActive
  BY PTL DEF ReportsSpacedAndActive, Spaced
<1> QED BY <1>1, <1>2, InvHolds, PTL DEF Spec

=============================================================================
