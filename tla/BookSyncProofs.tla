--------------------------- MODULE BookSyncProofs ----------------------------
(***************************************************************************)
(* The controller's continuity checks are enough: for every configuration,  *)
(* depth, set of ticks, snapshot depth and length of history, a stream that *)
(* loses, repeats, delays or reorders numbered messages never leaves a      *)
(* level in the book that the exchange did not have, and a book deep enough *)
(* to hold every tick lacks none either.                                    *)
(***************************************************************************)
EXTENDS BookSync, OrderBookProofs, FiniteSetTheorems

-----------------------------------------------------------------------------
(* Messages.                                                                *)

\* A tick no update of first .. last touched still has its old quantity.
LEMMA Untouched ==
  ASSUME NEW S, NEW t \in Ticks, NEW first \in Nat, NEW last \in Nat, NEW l \in Nat,
         first <= l + 1, l <= last, t \notin Touched(S, first, last)
  PROVE  hist[last][S][t] = hist[l][S][t]
<1>1. \A n \in first .. last : hist[n][S][t] = hist[n - 1][S][t]
  BY DEF Touched
<1> DEFINE T == {n \in Nat : l + n <= last => hist[l + n][S][t] = hist[l][S][t]}
<1>2. 0 \in T
  OBVIOUS
<1>3. ASSUME NEW n \in T PROVE n + 1 \in T
  <2>1. SUFFICES ASSUME l + (n + 1) <= last
                 PROVE  hist[l + (n + 1)][S][t] = hist[l][S][t]
    OBVIOUS
  <2>2. l + (n + 1) \in first .. last /\ (l + (n + 1)) - 1 = l + n /\ l + n <= last
    BY <2>1
  <2>3. hist[l + (n + 1)][S][t] = hist[l + n][S][t]
    BY <1>1, <2>2
  <2> QED BY <2>2, <2>3
<1>4. T = Nat
  <2>1. T \subseteq Nat
    OBVIOUS
  <2> HIDE DEF T
  <2> QED BY ZenonT(30), <1>2, <1>3, <2>1, SetInduction
<1>5. last - l \in Nat /\ l + (last - l) = last
  OBVIOUS
<1>6. l + (last - l) <= last => hist[l + (last - l)][S][t] = hist[l][S][t]
  BY ZenonT(30), <1>4, <1>5
<1> QED BY <1>5, <1>6

\* An ordering of a finite set of ticks is a sequence that lists all of them.
LEMMA OrderingFact ==
  ASSUME NEW X, IsFiniteSet(X), NEW o \in Orderings(X)
  PROVE  /\ o \in Seq(X)
         /\ DOMAIN o = 1 .. Len(o)
         /\ \A x \in X : \E i \in 1 .. Len(o) : o[i] = x
<1>1. PICK c \in Nat : c = Cardinality(X)
  BY FS_CardinalityType
<1>2. /\ o \in [1 .. c -> X]
      /\ \A i, j \in 1 .. c : i # j => o[i] # o[j]
  BY <1>1 DEF Orderings, Injection, IsInjective
<1>3. o \in Seq(X) /\ Len(o) = c /\ DOMAIN o = 1 .. c
  BY <1>2
<1>4. o \in Injection(1 .. c, X)
  BY <1>2 DEF Injection, IsInjective
<1>5. Cardinality(1 .. c) = c
  BY FS_Interval
<1>6. o \in Surjection(1 .. c, X)
  BY <1>1, <1>4, <1>5, FS_Injection
<1> QED BY <1>3, <1>6 DEF Surjection

\* The levels of an increment: levels of the exchange after update last, every
\* touched tick among them.
LEMMA IncrementFact ==
  ASSUME hist \in Seq(ExchangeBook), NEW S \in Side, NEW first, NEW last \in 1 .. Len(hist),
         NEW levels \in IncrementLevels(S, first, last)
  PROVE  /\ levels \in Seq(Level)
         /\ \A n \in 1 .. Len(levels) : levels[n].quantityLot = hist[last][S][levels[n].priceTick]
         /\ \A t \in Touched(S, first, last) :
              \E n \in 1 .. Len(levels) : levels[n].priceTick = t
<1> DEFINE X == Touched(S, first, last)
<1>1. PICK o \in Orderings(X) :
        levels = [i \in DOMAIN o |-> ParsedLevel(o[i], hist[last][S][o[i]])]
  BY DEF IncrementLevels
<1>2. X \subseteq Ticks /\ IsFiniteSet(X)
  <2>1. X \subseteq Ticks
    BY DEF Touched
  <2>2. IsFiniteSet(Ticks)
    BY SyncAssumption
  <2> QED BY SMTT(30), <2>1, <2>2, FS_Subset
<1> HIDE DEF X
<1>3. /\ o \in Seq(X) /\ DOMAIN o = 1 .. Len(o)
      /\ \A x \in X : \E i \in 1 .. Len(o) : o[i] = x
  BY <1>2, OrderingFact
<1>4. PICK c \in Nat : c = Len(o)
  BY ZenonT(30), <1>3, LenProperties
<1>5. hist[last] \in ExchangeBook
  BY SMTT(30), ElementOfSeq
<1>6. ASSUME NEW i \in 1 .. c
      PROVE  /\ o[i] \in Ticks
             /\ ParsedLevel(o[i], hist[last][S][o[i]]) \in Level
             /\ ParsedLevel(o[i], hist[last][S][o[i]]).priceTick = o[i]
             /\ ParsedLevel(o[i], hist[last][S][o[i]]).quantityLot = hist[last][S][o[i]]
  <2>1. o[i] \in Ticks
    BY <1>2, <1>3, <1>4, ElementOfSeq
  <2>2. hist[last][S][o[i]] \in Lots
    BY <1>5, <2>1 DEF ExchangeBook
  <2> QED BY <2>1, <2>2, ParsedLevelFact
<1>7. levels = [i \in 1 .. c |-> ParsedLevel(o[i], hist[last][S][o[i]])]
  BY <1>1, <1>3, <1>4
<1>8. /\ levels \in [1 .. c -> Level]
      /\ \A i \in 1 .. c : /\ levels[i].priceTick = o[i]
                           /\ levels[i].quantityLot = hist[last][S][o[i]]
  BY <1>6, <1>7
<1>9. levels \in Seq(Level) /\ Len(levels) = c
  BY <1>8
<1> QED BY <1>3, <1>4, <1>8, <1>9 DEF X

\* A snapshot's levels are levels of the exchange after update n, the best
\* SnapDepth of each side among them.
LEMMA SnapshotFact ==
  ASSUME hist \in Seq(ExchangeBook), NEW S \in Side, NEW n \in 1 .. Len(hist), NEW zeros,
         NEW levels \in SortedLevels(S, SnapshotLevels(S, n, zeros))
  PROVE  /\ levels \in Seq(Level)
         /\ \A i \in 1 .. Len(levels) : levels[i].quantityLot = hist[n][S][levels[i].priceTick]
         /\ \A t \in SnapshotTicks(S, n) : \E i \in 1 .. Len(levels) : levels[i].priceTick = t
<1> DEFINE T == SnapshotTicks(S, n) \cup {u \in Ticks : zeros /\ hist[n][S][u] = 0}
           X == {l \in SnapshotLevels(S, n, zeros) : ~ IsEmpty(l)}
           f == [t \in T |-> ParsedLevel(t, hist[n][S][t])]
<1>1. levels \in Orderings(X)
  BY DEF SortedLevels
<1>2. SnapshotLevels(S, n, zeros) = {ParsedLevel(t, hist[n][S][t]) : t \in T}
  BY DEF SnapshotLevels
<1>3. T \subseteq Ticks
  BY DEF SnapshotTicks
<1>4. hist[n] \in ExchangeBook
  BY ElementOfSeq
<1>5. \A t \in T : hist[n][S][t] \in Lots
  BY <1>3, <1>4 DEF ExchangeBook
<1>6. IsFiniteSet(T)
  BY <1>3, FS_Subset, SyncAssumption
<1> HIDE DEF T
<1>7. f \in Surjection(T, SnapshotLevels(S, n, zeros))
  BY <1>2 DEF Surjection
<1> HIDE DEF f
<1>8. IsFiniteSet(X)
  <2>1. IsFiniteSet(SnapshotLevels(S, n, zeros))
    BY <1>6, <1>7, FS_Surjection
  <2>2. X \subseteq SnapshotLevels(S, n, zeros)
    BY SMTT(30)
  <2> QED BY <2>1, <2>2, FS_Subset
<1>9. \A l \in X : l \in Level /\ l.quantityLot = hist[n][S][l.priceTick]
  <2> SUFFICES ASSUME NEW l \in X PROVE l \in Level /\ l.quantityLot = hist[n][S][l.priceTick]
    OBVIOUS
  <2>1. PICK t \in T : l = ParsedLevel(t, hist[n][S][t])
    BY <1>2
  <2> QED BY <1>3, <1>5, <2>1, ParsedLevelFact
<1>10. ASSUME NEW t \in SnapshotTicks(S, n)
       PROVE  ParsedLevel(t, hist[n][S][t]) \in X /\ ParsedLevel(t, hist[n][S][t]).priceTick = t
  <2>1. t \in T /\ t \in Ticks /\ hist[n][S][t] > 0
    BY SMTT(30), <1>10 DEF T, SnapshotTicks
  <2>2. /\ ParsedLevel(t, hist[n][S][t]).priceTick = t
        /\ ParsedLevel(t, hist[n][S][t]).quantityLot = hist[n][S][t]
    BY <1>5, <2>1, ParsedLevelFact
  <2>3. hist[n][S][t] # 0
    BY <2>1
  <2>4. ~ IsEmpty(ParsedLevel(t, hist[n][S][t]))
    BY ZenonT(30), <2>2, <2>3 DEF IsEmpty
  <2>5. ParsedLevel(t, hist[n][S][t]) \in SnapshotLevels(S, n, zeros)
    BY <1>2, <2>1
  <2> QED BY ZenonT(30), <2>2, <2>4, <2>5
<1> HIDE DEF X
<1>11. \A x \in X : \E i \in 1 .. Len(levels) : levels[i] = x
  BY <1>1, <1>8, OrderingFact
<1>12. \A t \in SnapshotTicks(S, n) : \E i \in 1 .. Len(levels) : levels[i].priceTick = t
  BY ZenonT(30), <1>10, <1>11
<1>13. levels \in Seq(X)
  BY <1>1, <1>8, OrderingFact
<1>14. \A i \in 1 .. Len(levels) : levels[i] \in X
  BY <1>13, ElementOfSeq
<1>15. levels \in Seq(Level)
  <2>1. X \subseteq Level
    BY SMTT(30), <1>9
  <2> QED BY <1>13, <2>1
<1>16. \A i \in 1 .. Len(levels) : levels[i].quantityLot = hist[n][S][levels[i].priceTick]
  BY <1>9, <1>14
<1> QED BY ZenonT(30), <1>15, <1>12, <1>16

-----------------------------------------------------------------------------
(* The inductive invariant.                                                 *)

\* Ids: a controller with a baseline expects the id after the last it applied,
\* and the exchange has issued that one.
Numbered ==
  ctl.state # "WaitingSnapshot" =>
    /\ ctl.last_seq \in 1 .. Len(hist)
    /\ ctl.expected_seq = ctl.last_seq + 1

\* Holds in every configuration.
BaseInv ==
  /\ hist \in Seq(ExchangeBook)
  /\ Len(hist) > 0
  /\ \A n \in 1 .. Len(hist) : Uncrossed(hist[n])
  /\ tainted \in BOOLEAN
  /\ GoodController(ctl)
  /\ Numbered
  /\ SyncedNotCrossed

\* A message of the exchange, and the ids it may cover.
Delivered(m) ==
  /\ Message(m)
  /\ HasSeq(m) => m.last_seq \in 1 .. Len(hist)

\* Levels the exchange has are not crossed.
LEMMA SoundNotCrossed ==
  ASSUME NEW c, GoodController(c), NEW b \in ExchangeBook, Uncrossed(b),
         Shows(c.bids, b["BID"]), Shows(c.asks, b["ASK"])
  PROVE  ~ Crossed(c)
<1> SUFFICES ASSUME Crossed(c) PROVE FALSE
  OBVIOUS
<1>1. /\ c.bids \in Seq(Level) /\ ValidSide("BID", c.bids)
      /\ c.asks \in Seq(Level) /\ ValidSide("ASK", c.asks)
  BY DEF GoodController, GoodSide
<1>2. c.bids # <<>> /\ c.asks # <<>>
  BY DEF Crossed, BestTick
<1>3. 1 \in 1 .. Len(c.bids) /\ 1 \in 1 .. Len(c.asks)
  BY <1>1, <1>2
<1>4. /\ c.bids[1] \in Level /\ c.asks[1] \in Level
      /\ ~ IsEmpty(c.bids[1]) /\ ~ IsEmpty(c.asks[1])
  BY <1>1, <1>3, ElementOfSeq DEF ValidSide
<1>5. /\ b["BID"][c.bids[1].priceTick] = c.bids[1].quantityLot
      /\ b["ASK"][c.asks[1].priceTick] = c.asks[1].quantityLot
  BY <1>3 DEF Shows
<1> DEFINE p == c.bids[1].priceTick
           q == c.asks[1].priceTick
<1>6. /\ p \in Ticks /\ p \in Nat /\ c.bids[1].quantityLot \in Nat
      /\ q \in Ticks /\ q \in Nat /\ c.asks[1].quantityLot \in Nat
  BY SMTT(30), <1>1, <1>3, LevelFact
<1>7. b["BID"][p] > 0 /\ b["ASK"][q] > 0
  BY <1>4, <1>5, <1>6 DEF IsEmpty
<1>8. p >= q
  BY <1>2 DEF Crossed, BestTick
<1> HIDE DEF p, q
<1>9. p < q
  BY <1>6, <1>7 DEF Uncrossed
<1> QED BY <1>6, <1>8, <1>9

\* A baseline leaves exactly levels of the exchange after update n.
LEMMA SnapshotStep ==
  ASSUME BaseInv, NEW n \in 1 .. Len(hist), NEW zeros, NEW checksum,
         Snapshot(n, zeros, checksum)
  PROVE  /\ BaseInv'
         /\ hist' = hist
         /\ ctl'.state # "WaitingSnapshot" =>
              /\ ctl'.last_seq = n
              /\ \A S \in Side : SideSound(S, SideOf(ctl', S), n)
<1>1. PICK bs \in SortedLevels("BID", SnapshotLevels("BID", n, zeros)),
           as \in SortedLevels("ASK", SnapshotLevels("ASK", n, zeros)) :
        /\ ctl' = OnSnapshot(ctl, [lastUpdateId |-> n, checksum |-> checksum,
                                   bids |-> bs, asks |-> as], Kind)
        /\ tainted' = FALSE
        /\ UNCHANGED hist
  BY ZenonT(30) DEF Snapshot
<1>2. /\ hist \in Seq(ExchangeBook) /\ GoodController(ctl)
      /\ "BID" \in Side /\ "ASK" \in Side /\ n \in Nat
  BY LenProperties DEF BaseInv, Side
<1>3. \A S \in Side : \A l \in SortedLevels(S, SnapshotLevels(S, n, zeros)) :
        l \in Seq(Level) /\ Shows(UpdateAll(S, <<>>, l), hist[n][S])
  <2> SUFFICES ASSUME NEW S \in Side, NEW l \in SortedLevels(S, SnapshotLevels(S, n, zeros))
               PROVE  l \in Seq(Level) /\ Shows(UpdateAll(S, <<>>, l), hist[n][S])
    OBVIOUS
  <2>1. /\ l \in Seq(Level)
        /\ \A i \in 1 .. Len(l) : l[i].quantityLot = hist[n][S][l[i].priceTick]
    BY <1>2, SnapshotFact
  <2>2. GoodSide(S, <<>>) /\ \A i \in 1 .. Len(<<>>) : FALSE
    BY EmptySideGood
  <2> QED BY <2>1, <2>2, UpdateAllFact
<1>4. /\ bs \in Seq(Level) /\ Shows(UpdateAll("BID", <<>>, bs), hist[n]["BID"])
      /\ as \in Seq(Level) /\ Shows(UpdateAll("ASK", <<>>, as), hist[n]["ASK"])
  BY ZenonT(30), <1>2, <1>3
<1> DEFINE m == [lastUpdateId |-> n, checksum |-> checksum, bids |-> bs, asks |-> as]
<1>5. m.lastUpdateId = n /\ m.bids = bs /\ m.asks = as
  OBVIOUS
<1>6. ctl' = OnSnapshot(ctl, m, Kind)
  BY <1>1
<1> HIDE DEF m
<1>7. GoodController(ctl') /\ (Blank(ctl') \/ Loaded(ctl', m, Kind))
  BY ZenonT(30), <1>2, <1>4, <1>5, <1>6, OnSnapshotFact
<1>8. ASSUME ctl'.state # "WaitingSnapshot"
       PROVE  /\ ctl'.last_seq = n /\ ctl'.expected_seq = n + 1
              /\ Shows(ctl'.bids, hist[n]["BID"]) /\ Shows(ctl'.asks, hist[n]["ASK"])
              /\ ~ Crossed(ctl')
  <2>1. Loaded(ctl', m, Kind)
    BY <1>7, <1>8 DEF Blank
  <2>2. /\ ctl'.last_seq = n /\ ctl'.expected_seq = n + 1
        /\ Shows(ctl'.bids, hist[n]["BID"]) /\ Shows(ctl'.asks, hist[n]["ASK"])
    BY ZenonT(30), <1>4, <1>5, <2>1 DEF Loaded
  <2>3. hist[n] \in ExchangeBook /\ Uncrossed(hist[n])
    BY ElementOfSeq DEF BaseInv
  <2>4. ~ Crossed(ctl')
    BY <1>7, <2>2, <2>3, SoundNotCrossed
  <2> QED BY <2>2, <2>4
<1>9. BaseInv'
  <2>1. Numbered'
    BY <1>1, <1>8 DEF Numbered
  <2>2. SyncedNotCrossed'
    BY SMTT(30), <1>8 DEF SyncedNotCrossed, Crossed
  <2> QED BY ZenonT(30), <1>1, <1>7, <2>1, <2>2 DEF BaseInv, Uncrossed
<1>10. ctl'.state # "WaitingSnapshot" => \A S \in Side : SideSound(S, SideOf(ctl', S), n)
  BY <1>8 DEF SideSound, SideOf, Side, Shows
<1> QED BY ZenonT(30), <1>1, <1>8, <1>9, <1>10

\* Handling any message, corrupted or not, keeps the ids and the guards right.
LEMMA HandleStep ==
  ASSUME BaseInv, NEW m, NEW damaged, Delivered(m), Handle(m, damaged)
  PROVE  BaseInv'
<1>1. /\ ctl' = OnIncrement(ctl, m)
      /\ hist' = hist
      /\ tainted' \in BOOLEAN
  BY DEF Handle
<1>2. GoodController(ctl) /\ Message(m)
  BY DEF BaseInv, Delivered
<1>3. /\ GoodController(ctl')
      /\ Blank(ctl') \/ Kept(ctl', ctl) \/ Applied(ctl', ctl, m)
  BY <1>1, <1>2, OnIncrementFact
<1>4. Numbered' /\ SyncedNotCrossed'
  <2>1. CASE Blank(ctl')
    BY <2>1 DEF Blank, Numbered, SyncedNotCrossed
  <2>2. CASE Kept(ctl', ctl)
    BY <1>1, <2>2 DEF Kept, Numbered, SyncedNotCrossed, Crossed, BaseInv
  <2>3. CASE Applied(ctl', ctl, m)
    <3>1. SyncedNotCrossed'
      BY <2>3 DEF Applied, SyncedNotCrossed, Crossed
    <3>2. CASE HasSeq(m)
      BY <1>1, <2>3, <3>1, <3>2 DEF Applied, Delivered, Numbered
    <3>3. CASE ~ HasSeq(m)
      <4>1. ctl'.last_seq = ctl.last_seq /\ ctl'.expected_seq = ctl.expected_seq
        BY <2>3, <3>3 DEF Applied
      <4> QED BY <1>1, <2>3, <3>1, <4>1 DEF Applied, Numbered, BaseInv
    <3> QED BY <3>2, <3>3
  <2> QED BY <1>3, <2>1, <2>2, <2>3
<1> QED BY <1>1, <1>3, <1>4 DEF BaseInv, Uncrossed

\* An intact increment is a message of the exchange.
LEMMA IncrementDelivered ==
  ASSUME hist \in Seq(ExchangeBook), NEW first \in 2 .. Len(hist), NEW last \in 2 .. Len(hist),
         NEW checksum,
         NEW bs \in IncrementLevels("BID", first, last),
         NEW as \in IncrementLevels("ASK", first, last)
  PROVE  Delivered([first_seq |-> IF Seqless THEN 0 ELSE first,
                    last_seq  |-> IF Seqless THEN 0 ELSE last,
                    checksum  |-> checksum, bids |-> bs, asks |-> as])
<1>1. Len(hist) \in Nat /\ last \in 1 .. Len(hist) /\ last \in Nat /\ first \in Nat
  BY LenProperties
<1>2. \A S \in Side : \A l \in IncrementLevels(S, first, last) : l \in Seq(Level)
  BY <1>1, IncrementFact
<1>3. bs \in Seq(Level) /\ as \in Seq(Level)
  BY ZenonT(30), <1>2 DEF Side
<1> QED BY ZenonT(30), <1>1, <1>3 DEF Delivered, Message, HasSeq

\* A corrupted one too, apart from its quantities.
LEMMA CorruptDelivered ==
  ASSUME hist \in Seq(ExchangeBook), NEW first \in 2 .. Len(hist), NEW last \in 2 .. Len(hist),
         NEW checksum, NEW t \in Ticks, NEW q \in Lots,
         NEW bs \in IncrementLevels("BID", first, last),
         NEW as \in IncrementLevels("ASK", first, last)
  PROVE  Delivered([first_seq |-> IF Seqless THEN 0 ELSE first,
                    last_seq  |-> IF Seqless THEN 0 ELSE last,
                    checksum  |-> checksum,
                    bids |-> Append(bs, ParsedLevel(t, q)), asks |-> as])
<1>1. Len(hist) \in Nat /\ last \in 1 .. Len(hist) /\ last \in Nat /\ first \in Nat
  BY LenProperties
<1>2. \A S \in Side : \A l \in IncrementLevels(S, first, last) : l \in Seq(Level)
  BY <1>1, IncrementFact
<1>3. bs \in Seq(Level) /\ as \in Seq(Level) /\ ParsedLevel(t, q) \in Level
  BY ZenonT(30), <1>2, ParsedLevelFact DEF Side
<1> DEFINE b == Append(bs, ParsedLevel(t, q))
<1>4. b \in Seq(Level)
  BY <1>3
<1> HIDE DEF b
<1>5. Delivered([first_seq |-> IF Seqless THEN 0 ELSE first,
                 last_seq  |-> IF Seqless THEN 0 ELSE last,
                 checksum  |-> checksum, bids |-> b, asks |-> as])
  BY ZenonT(30), <1>1, <1>3, <1>4 DEF Delivered, Message, HasSeq
<1> QED BY <1>5 DEF b

\* The exchange's next book.
LEMMA ExchangeStep ==
  ASSUME BaseInv, NEW S \in Side, NEW t \in Ticks, NEW q \in Lots, ExchangeUpdate(S, t, q)
  PROVE  /\ BaseInv'
         /\ \A n \in 1 .. Len(hist) : hist'[n] = hist[n]
         /\ Len(hist') = Len(hist) + 1
         /\ UNCHANGED <<ctl, tainted>>
<1> DEFINE b == [hist[Len(hist)] EXCEPT ![S][t] = q]
<1>1. /\ hist \in Seq(ExchangeBook) /\ Len(hist) \in Nat /\ Len(hist) > 0
      /\ Uncrossed(b) /\ hist' = Append(hist, b) /\ UNCHANGED <<ctl, tainted>>
  BY LenProperties DEF BaseInv, ExchangeUpdate
<1>2. hist[Len(hist)] \in ExchangeBook
  BY <1>1, ElementOfSeq
<1>3. b \in ExchangeBook
  BY <1>2 DEF ExchangeBook
<1> HIDE DEF b
<1>4. /\ hist' \in Seq(ExchangeBook) /\ Len(hist') = Len(hist) + 1
      /\ \A n \in 1 .. Len(hist) : hist'[n] = hist[n]
      /\ hist'[Len(hist) + 1] = b
  BY <1>1, <1>3, AppendProperties
<1>5. \A n \in 1 .. Len(hist') : Uncrossed(hist'[n])
  BY <1>1, <1>4 DEF BaseInv
<1>6. Numbered' /\ SyncedNotCrossed'
  BY <1>1, <1>4 DEF BaseInv, Numbered, SyncedNotCrossed, Crossed
<1>7. GoodController(ctl')
  BY <1>1 DEF BaseInv
<1> QED BY <1>1, <1>4, <1>5, <1>6, <1>7 DEF BaseInv, Uncrossed

\* Every step keeps the base invariant.
LEMMA BaseStep ==
  ASSUME BaseInv, [Next]_vars
  PROVE  BaseInv'
<1>1. hist \in Seq(ExchangeBook) /\ GoodController(ctl) /\ tainted \in BOOLEAN
  BY DEF BaseInv
<1>2. ASSUME NEW S \in Side, NEW t \in Ticks, NEW q \in Lots, ExchangeUpdate(S, t, q)
      PROVE  BaseInv'
  BY <1>2, ExchangeStep
<1>3. ASSUME NEW n \in 1 .. Len(hist), NEW zeros, NEW checksum, Snapshot(n, zeros, checksum)
      PROVE  BaseInv'
  BY <1>3, SnapshotStep
<1>4. ASSUME NEW first \in 2 .. Len(hist), NEW last \in 2 .. Len(hist), NEW checksum,
             Increment(first, last, checksum)
      PROVE  BaseInv'
  BY ZenonT(30), <1>1, <1>4, IncrementDelivered, HandleStep DEF Increment
<1>5. ASSUME NEW first \in 2 .. Len(hist), NEW last \in 2 .. Len(hist),
             NEW t \in Ticks, NEW q \in Lots, CorruptIncrement(first, last, t, q)
      PROVE  BaseInv'
  BY ZenonT(30), <1>1, <1>5, CorruptDelivered, HandleStep DEF CorruptIncrement
<1>6. CASE Reset
  <2>1. GoodController(ResetBook(ctl)) /\ Blank(ResetBook(ctl))
    BY <1>1, ResetFact DEF GoodController
  <2>2. GoodController(ctl') /\ Kept(ctl', ResetBook(ctl)) /\ hist' = hist /\ tainted' = FALSE
    BY <1>6, <2>1, DoneFact DEF Reset
  <2>3. ctl'.state = "WaitingSnapshot"
    BY <2>1, <2>2 DEF Kept, Blank
  <2> QED BY ZenonT(30), <2>2, <2>3 DEF BaseInv, Numbered, SyncedNotCrossed, Uncrossed
<1>7. CASE UNCHANGED vars
  BY <1>7 DEF vars, BaseInv, Numbered, SyncedNotCrossed, Crossed, Uncrossed
<1> QED BY <1>2, <1>3, <1>4, <1>5, <1>6, <1>7 DEF Next

-----------------------------------------------------------------------------
(* Soundness of the book.                                                   *)

\* An increment that starts no later than the id after l turns levels of update
\* l into levels of update last.
LEMMA SoundApply ==
  ASSUME hist \in Seq(ExchangeBook), NEW S \in Side, NEW vec, GoodSide(S, vec),
         NEW l \in 1 .. Len(hist), SideSound(S, vec, l),
         NEW first \in Nat, NEW last \in l .. Len(hist), first <= l + 1,
         NEW levels \in IncrementLevels(S, first, last)
  PROVE  Shows(UpdateAll(S, vec, levels), hist[last][S])
<1>1. Len(hist) \in Nat /\ last \in 1 .. Len(hist) /\ last \in Nat /\ l \in Nat /\ l <= last
  BY SMTT(30), LenProperties
<1>2. /\ levels \in Seq(Level)
      /\ \A n \in 1 .. Len(levels) : levels[n].quantityLot = hist[last][S][levels[n].priceTick]
      /\ \A t \in Touched(S, first, last) : \E n \in 1 .. Len(levels) : levels[n].priceTick = t
  BY SMTT(30), <1>1, IncrementFact
<1>3. ASSUME NEW i \in 1 .. Len(vec)
      PROVE  \/ vec[i].quantityLot = hist[last][S][vec[i].priceTick]
             \/ \E n \in 1 .. Len(levels) : levels[n].priceTick = vec[i].priceTick
  <2>1. vec[i].priceTick \in Ticks
    BY LevelFact DEF GoodSide
  <2>2. vec[i].quantityLot = hist[l][S][vec[i].priceTick]
    BY DEF SideSound
  <2>3. CASE vec[i].priceTick \in Touched(S, first, last)
    BY SMTT(30), <1>2, <2>3
  <2>4. CASE vec[i].priceTick \notin Touched(S, first, last)
    <3>1. PICK t \in Ticks : t = vec[i].priceTick
      BY <2>1
    <3>2. t \notin Touched(S, first, last)
      BY <2>4, <3>1
    <3>3. hist[last][S][t] = hist[l][S][t]
      BY SMTT(30), <1>1, <3>2, Untouched
    <3> QED BY <2>2, <3>1, <3>3
  <2> QED BY <2>3, <2>4
<1> QED BY ZenonT(30), <1>2, <1>3, UpdateAllFact

\* The two sides of a sound controller.
LEMMA SoundSides ==
  ASSUME NEW c, NEW n
  PROVE  (\A S \in Side : SideSound(S, SideOf(c, S), n))
         <=> Shows(c.bids, hist[n]["BID"]) /\ Shows(c.asks, hist[n]["ASK"])
BY DEF Side, SideOf, SideSound, Shows

\* A step after which both sides show a book of the history, and the applied id
\* is that of this book, leaves a sound book.
LEMMA SoundNext ==
  ASSUME NEW n, ctl'.last_seq \in 1 .. Len(hist'), hist'[ctl'.last_seq] = hist[n],
         \A S \in Side : SideSound(S, SideOf(ctl', S), n)
  PROVE  BookSound'
<1>1. ASSUME NEW S \in Side PROVE SideSound(S, SideOf(ctl, S), ctl.last_seq)'
  <2>1. \A i \in 1 .. Len(SideOf(ctl', S)) :
          SideOf(ctl', S)[i].quantityLot = hist[n][S][SideOf(ctl', S)[i].priceTick]
    BY DEF SideSound
  <2>2. \A i \in 1 .. Len(SideOf(ctl', S)) :
          SideOf(ctl', S)[i].quantityLot = hist'[ctl'.last_seq][S][SideOf(ctl', S)[i].priceTick]
    BY <2>1
  <2> QED
    BY ZenonT(30), <2>2 DEF SideSound
<1> QED
  BY ZenonT(30), <1>1 DEF BookSound

\* Nothing is claimed of the book: it waits for a baseline or is tainted.
Dropped == ctl.state = "WaitingSnapshot" \/ tainted

\* An intact and numbered increment that starts no later than expected_seq_ was
\* applied to an untainted book.
InOrder(m, damaged) ==
  /\ Applied(ctl', ctl, m) /\ HasSeq(m) /\ ~ damaged /\ ~ tainted
  /\ ~ (m.first_seq > ctl.expected_seq)

\* What handling a message does to the book.
LEMMA HandleKinds ==
  ASSUME BaseInv, NEW m, NEW damaged, Delivered(m), Handle(m, damaged)
  PROVE  /\ hist' = hist
         /\ Dropped' \/ (Kept(ctl', ctl) /\ ~ tainted) \/ InOrder(m, damaged)
<1>1. GoodController(ctl) /\ Message(m)
  BY DEF BaseInv, Delivered
<1>2. ctl' = OnIncrement(ctl, m) /\ hist' = hist
  BY DEF Handle
<1>3. Blank(ctl') \/ Kept(ctl', ctl) \/ Applied(ctl', ctl, m)
  BY <1>1, <1>2, OnIncrementFact
<1>4. ASSUME ~ Dropped'
      PROVE  /\ ~ tainted /\ HasSeq(m) /\ ~ (AllowSeqGap /\ m.first_seq > ctl.expected_seq)
             /\ ~ (damaged /\ m.last_seq >= ctl.expected_seq)
  BY <1>4 DEF Handle, Dropped
<1>5. CASE Blank(ctl')
  BY <1>2, <1>5 DEF Blank, Dropped
<1>6. CASE Kept(ctl', ctl)
  BY ZenonT(30), <1>2, <1>4, <1>6
<1>7. CASE Applied(ctl', ctl, m)
  <2>1. HasSeq(m) => /\ m.last_seq >= ctl.expected_seq
                     /\ ~ (m.first_seq > ctl.expected_seq) \/ AllowSeqGap
    <3>1. m.first_seq \in Nat /\ m.last_seq \in Nat /\ ctl.expected_seq \in Nat
      BY <1>1 DEF Message, GoodController, Controller
    <3> QED BY <1>7, <3>1 DEF Applied
  <2> QED BY ZenonT(30), <1>2, <1>4, <1>7, <2>1 DEF InOrder
<1> QED BY ZenonT(30), <1>3, <1>5, <1>6, <1>7

\* Handling a message leaves a sound book sound, or it applies an intact and
\* numbered increment that starts no later than expected_seq_.
LEMMA SoundHandle ==
  ASSUME BaseInv, BookSound, NEW m, NEW damaged, Delivered(m), Handle(m, damaged)
  PROVE  \/ BookSound'
         \/ /\ Applied(ctl', ctl, m) /\ HasSeq(m) /\ ~ damaged /\ ~ tainted
            /\ ~ (m.first_seq > ctl.expected_seq)
            /\ hist' = hist
<1>1. /\ hist' = hist
      /\ Dropped' \/ (Kept(ctl', ctl) /\ ~ tainted) \/ InOrder(m, damaged)
  BY ZenonT(30), HandleKinds
<1>2. CASE Dropped'
  BY <1>2 DEF Dropped, BookSound
<1>3. CASE Kept(ctl', ctl) /\ ~ tainted
  <2>1. SUFFICES ASSUME ctl'.state # "WaitingSnapshot" PROVE BookSound'
    BY <2>1 DEF BookSound
  <2>2. ctl.last_seq \in 1 .. Len(hist) /\ \A S \in Side : SideSound(S, SideOf(ctl, S), ctl.last_seq)
    BY <1>3, <2>1 DEF Kept, BookSound
  <2>3. ctl'.last_seq = ctl.last_seq /\ \A S \in Side : SideOf(ctl', S) = SideOf(ctl, S)
    BY <1>3 DEF Kept, SideOf
  <2>4. /\ ctl'.last_seq \in 1 .. Len(hist') /\ hist'[ctl'.last_seq] = hist[ctl.last_seq]
        /\ \A S \in Side : SideSound(S, SideOf(ctl', S), ctl.last_seq)
    BY <1>1, <2>2, <2>3
  <2> QED
    BY ZenonT(30), <2>4, SoundNext
<1>4. CASE InOrder(m, damaged)
  BY ZenonT(30), <1>1, <1>4 DEF InOrder
<1> QED BY ZenonT(30), <1>1, <1>2, <1>3, <1>4

\* An intact increment leaves a sound book sound.
LEMMA SoundIncrement ==
  ASSUME BaseInv, BookSound,
         NEW first \in 2 .. Len(hist), NEW last \in 2 .. Len(hist), NEW checksum,
         Increment(first, last, checksum)
  PROVE  BookSound'
<1>1. PICK bs \in IncrementLevels("BID", first, last),
           as \in IncrementLevels("ASK", first, last) :
        Handle([first_seq |-> IF Seqless THEN 0 ELSE first,
                last_seq  |-> IF Seqless THEN 0 ELSE last,
                checksum  |-> checksum, bids |-> bs, asks |-> as], FALSE)
  BY ZenonT(30) DEF Increment
<1> DEFINE m == [first_seq |-> IF Seqless THEN 0 ELSE first,
                 last_seq  |-> IF Seqless THEN 0 ELSE last,
                 checksum  |-> checksum, bids |-> bs, asks |-> as]
<1>2. hist \in Seq(ExchangeBook) /\ GoodController(ctl) /\ Len(hist) \in Nat
  BY LenProperties DEF BaseInv
<1>3. Delivered(m)
  BY ZenonT(30), <1>2, IncrementDelivered
<1>4. /\ m.bids = bs /\ m.asks = as
      /\ HasSeq(m) => m.first_seq = first /\ m.last_seq = last
  BY DEF HasSeq
<1> HIDE DEF m
<1>5. SUFFICES ASSUME Applied(ctl', ctl, m), HasSeq(m), ~ tainted,
                      ~ (m.first_seq > ctl.expected_seq), hist' = hist
               PROVE  BookSound'
  BY ZenonT(30), <1>1, <1>3, SoundHandle DEF m
<1>6. /\ ctl.state # "WaitingSnapshot" /\ ctl'.last_seq = last
      /\ ctl.expected_seq <= last /\ ~ (first > ctl.expected_seq)
      /\ ctl'.bids = UpdateAll("BID", ctl.bids, bs)
      /\ ctl'.asks = UpdateAll("ASK", ctl.asks, as)
  BY <1>4, <1>5 DEF Applied
<1>7. ctl.last_seq \in 1 .. Len(hist) /\ ctl.expected_seq = ctl.last_seq + 1
  BY SMTT(30), <1>6 DEF BaseInv, Numbered
<1>8. /\ SideSound("BID", ctl.bids, ctl.last_seq) /\ GoodSide("BID", ctl.bids)
      /\ SideSound("ASK", ctl.asks, ctl.last_seq) /\ GoodSide("ASK", ctl.asks)
  BY <1>2, <1>5, <1>6 DEF BookSound, SideOf, Side, GoodController
<1>9. /\ first \in Nat /\ first <= ctl.last_seq + 1
      /\ last \in ctl.last_seq .. Len(hist) /\ last \in 1 .. Len(hist)
  BY <1>2, <1>6, <1>7
<1>10. "BID" \in Side /\ "ASK" \in Side
  BY DEF Side
<1>11. Shows(ctl'.bids, hist[last]["BID"])
  BY ZenonT(30), <1>2, <1>6, <1>7, <1>8, <1>9, <1>10, SoundApply
<1>12. Shows(ctl'.asks, hist[last]["ASK"])
  BY ZenonT(30), <1>2, <1>6, <1>7, <1>8, <1>9, <1>10, SoundApply
<1>13. \A S \in Side : SideSound(S, SideOf(ctl', S), last)
  BY <1>11, <1>12, SoundSides
<1>14. ctl'.last_seq \in 1 .. Len(hist') /\ hist'[ctl'.last_seq] = hist[last]
  BY <1>5, <1>6, <1>9
<1> QED BY ZenonT(30), <1>13, <1>14, SoundNext

\* A damaged one taints the book or is not applied.
LEMMA SoundCorrupt ==
  ASSUME BaseInv, BookSound,
         NEW first \in 2 .. Len(hist), NEW last \in 2 .. Len(hist),
         NEW t \in Ticks, NEW q \in Lots, CorruptIncrement(first, last, t, q)
  PROVE  BookSound'
<1>1. hist \in Seq(ExchangeBook)
  BY DEF BaseInv
<1> QED BY ZenonT(30), <1>1, CorruptDelivered, SoundHandle DEF CorruptIncrement

\* Every step leaves a sound book sound.
LEMMA SoundStep ==
  ASSUME BaseInv, BookSound, [Next]_vars
  PROVE  BookSound'
<1>1. hist \in Seq(ExchangeBook) /\ GoodController(ctl) /\ Len(hist) \in Nat
  BY LenProperties DEF BaseInv
<1>2. ASSUME NEW S \in Side, NEW t \in Ticks, NEW q \in Lots, ExchangeUpdate(S, t, q)
      PROVE  BookSound'
  <2>1. /\ \A n \in 1 .. Len(hist) : hist'[n] = hist[n]
        /\ Len(hist') = Len(hist) + 1
        /\ ctl' = ctl /\ tainted' = tainted
    BY <1>2, ExchangeStep
  <2>2. SUFFICES ASSUME ctl.state # "WaitingSnapshot", ~ tainted PROVE BookSound'
    BY <2>1 DEF BookSound
  <2>3. ctl.last_seq \in 1 .. Len(hist) /\ \A d \in Side : SideSound(d, SideOf(ctl, d), ctl.last_seq)
    BY <2>2 DEF BookSound
  <2>4. hist'[ctl'.last_seq] = hist[ctl.last_seq] /\ ctl'.last_seq \in 1 .. Len(hist')
    BY <1>1, <2>1, <2>3
  <2>5. \A d \in Side : SideSound(d, SideOf(ctl', d), ctl.last_seq)
    BY <2>1, <2>3
  <2> QED
    BY ZenonT(30), <2>4, <2>5, SoundNext
<1>3. ASSUME NEW n \in 1 .. Len(hist), NEW zeros, NEW checksum, Snapshot(n, zeros, checksum)
      PROVE  BookSound'
  <2>1. /\ hist' = hist
        /\ ctl'.state # "WaitingSnapshot" =>
             ctl'.last_seq = n /\ \A d \in Side : SideSound(d, SideOf(ctl', d), n)
    BY ZenonT(30), <1>3, SnapshotStep
  <2>2. CASE ctl'.state = "WaitingSnapshot"
    BY <2>2 DEF BookSound
  <2>3. CASE ctl'.state # "WaitingSnapshot"
    <3>1. ctl'.last_seq \in 1 .. Len(hist') /\ hist'[ctl'.last_seq] = hist[n]
      BY <1>3, <2>1, <2>3
    <3> QED
      BY ZenonT(30), <2>1, <2>3, <3>1, SoundNext
  <2> QED
    BY <2>2, <2>3
<1>4. ASSUME NEW first \in 2 .. Len(hist), NEW last \in 2 .. Len(hist), NEW checksum,
             Increment(first, last, checksum)
      PROVE  BookSound'
  BY <1>4, SoundIncrement
<1>5. ASSUME NEW first \in 2 .. Len(hist), NEW last \in 2 .. Len(hist),
             NEW t \in Ticks, NEW q \in Lots, CorruptIncrement(first, last, t, q)
      PROVE  BookSound'
  BY SMTT(30), <1>5, SoundCorrupt
<1>6. CASE Reset
  <2>1. GoodController(ResetBook(ctl)) /\ Blank(ResetBook(ctl))
    BY <1>1, ResetFact DEF GoodController
  <2>2. Kept(ctl', ResetBook(ctl))
    BY <1>6, <2>1, DoneFact DEF Reset
  <2> QED BY <2>1, <2>2 DEF Kept, Blank, BookSound
<1>7. CASE UNCHANGED vars
  BY <1>7 DEF vars, BookSound, SideSound
<1> QED BY <1>2, <1>3, <1>4, <1>5, <1>6, <1>7 DEF Next

-----------------------------------------------------------------------------
(* Completeness of a book deep enough for every tick.                       *)

\* No level has to be dropped, neither from the book nor from a snapshot.
DeepEnough == Cardinality(Ticks) <= Depth /\ Cardinality(Ticks) <= SnapDepth

\* The side has a level at every tick where truth has a quantity.
Lists(vec, truth) ==
  \A t \in Ticks : truth[t] > 0 => \E i \in 1 .. Len(vec) : vec[i].priceTick = t

\* With BookSound, BookExact says just this in addition.
BookComplete ==
  ctl.state # "WaitingSnapshot" /\ ~ tainted =>
    \A S \in Side : Lists(SideOf(ctl, S), hist[ctl.last_seq][S])

\* A ladder is no longer than there are ticks.
LEMMA LadderLength ==
  ASSUME NEW S, NEW t, Ladder(S, t)
  PROVE  Len(t) <= Cardinality(Ticks)
<1>1. /\ Len(t) \in Nat
      /\ \A i \in 1 .. Len(t) : t[i].priceTick \in Ticks
      /\ \A i, j \in 1 .. Len(t) : t[i].priceTick = t[j].priceTick => i = j
  BY ZenonT(30), LadderTicks
<1> DEFINE f == [i \in 1 .. Len(t) |-> t[i].priceTick]
<1>2. f \in Injection(1 .. Len(t), Ticks)
  <2>1. f \in [1 .. Len(t) -> Ticks]
    BY <1>1
  <2>2. \A i, j \in 1 .. Len(t) : f[i] = f[j] => i = j
    BY <1>1
  <2> HIDE DEF f
  <2> QED BY <2>1, <2>2 DEF Injection, IsInjective
<1> HIDE DEF f
<1>3. Cardinality(1 .. Len(t)) <= Cardinality(Ticks)
  BY <1>2, FS_Injection, SyncAssumption
<1>4. PICK c \in Nat : c = Len(t)
  BY <1>1
<1>5. Cardinality(1 .. c) = c
  BY FS_Interval
<1> QED BY <1>3, <1>4, <1>5

\* update() drops nothing from a book deep enough.
LEMMA DeepUpdate ==
  ASSUME DeepEnough, NEW S, NEW vec, GoodSide(S, vec), NEW level \in Level
  PROVE  Covers(Update(S, vec, level), vec, level.priceTick, level.quantityLot)
<1>1. PICK t : /\ Ladder(S, t)
               /\ Covers(t, vec, level.priceTick, level.quantityLot)
               /\ Update(S, vec, level) = IF Len(t) <= Depth THEN t ELSE PopBack(t)
  BY ZenonT(30), UpdateExact
<1>2. Len(t) \in Nat /\ Depth \in Nat /\ Cardinality(Ticks) \in Nat
  BY <1>1, LenProperties, DepthAssumption, SyncAssumption, FS_CardinalityType DEF Ladder
<1>3. Len(t) <= Cardinality(Ticks)
  BY ZenonT(30), <1>1, LadderLength
<1>4. Len(t) <= Depth
  BY SMTT(30), <1>2, <1>3 DEF DeepEnough
<1> QED BY ZenonT(30), <1>1, <1>4

\* Applying a list of levels of truth, which lists at least the ticks the side
\* lacks, leaves a side that lacks none.
LEMMA UpdateAllLists ==
  ASSUME DeepEnough, NEW S, NEW vec, GoodSide(S, vec), NEW levels \in Seq(Level), NEW truth,
         \A n \in 1 .. Len(levels) : levels[n].quantityLot = truth[levels[n].priceTick],
         \A t \in Ticks : truth[t] > 0 =>
           \/ \E i \in 1 .. Len(vec) : vec[i].priceTick = t
           \/ \E n \in 1 .. Len(levels) : levels[n].priceTick = t
  PROVE  Lists(UpdateAll(S, vec, levels), truth)
<1>0. PICK f : LoopSteps(f, S, vec, levels)
  BY LoopFact
<1>1. /\ UpdateAll(S, vec, levels) = f[Len(levels)]
      /\ f[0] = vec
      /\ \A n \in 1 .. Len(levels) : f[n] = Update(S, f[n - 1], levels[n])
  BY <1>0 DEF LoopSteps
<1>2. PICK N \in Nat : N = Len(levels)
  BY LenProperties
<1> DEFINE Inv(n) == /\ GoodSide(S, f[n])
                     /\ \A t \in Ticks : truth[t] > 0 =>
                          \/ \E i \in 1 .. Len(f[n]) : f[n][i].priceTick = t
                          \/ \E m \in n + 1 .. N : levels[m].priceTick = t
           T == {n \in Nat : n <= N => Inv(n)}
<1>3. 0 \in T
  BY SMTT(30), <1>1, <1>2
<1>4. ASSUME NEW n \in T PROVE n + 1 \in T
  <2>1. SUFFICES ASSUME n + 1 <= N PROVE Inv(n + 1)
    OBVIOUS
  <2>2. n + 1 \in 1 .. Len(levels) /\ n <= N /\ (n + 1) - 1 = n
    BY SMTT(30), <1>2, <2>1
  <2>3. Inv(n)
    BY <2>2
  <2>4. levels[n + 1] \in Level
    BY <2>2, ElementOfSeq
  <2>5. PICK level \in Level : level = levels[n + 1]
    BY <2>4
  <2>6. PICK old, new : old = f[n] /\ new = f[n + 1]
    OBVIOUS
  <2>7. new = Update(S, old, level)
    BY <1>1, <2>2, <2>5, <2>6
  <2>8. GoodSide(S, old)
    BY <2>3, <2>6
  <2>9. GoodSide(S, new) /\ Covers(new, old, level.priceTick, level.quantityLot)
    BY ZenonT(30), <2>7, <2>8, UpdateFact, DeepUpdate
  <2>10. level.quantityLot = truth[level.priceTick]
    BY <2>2, <2>5
  <2>11. ASSUME NEW t \in Ticks, truth[t] > 0
         PROVE  \/ \E i \in 1 .. Len(new) : new[i].priceTick = t
                \/ \E m \in (n + 1) + 1 .. N : levels[m].priceTick = t
    <3>1. CASE t = level.priceTick
      BY <2>9, <2>10, <2>11, <3>1 DEF Covers
    <3>2. ASSUME t # level.priceTick, NEW j \in 1 .. Len(old), old[j].priceTick = t
          PROVE  \E i \in 1 .. Len(new) : new[i].priceTick = t
      BY SMTT(30), <2>9, <3>2 DEF Covers
    <3>3. ASSUME t # level.priceTick, NEW m \in n + 1 .. N, levels[m].priceTick = t
          PROVE  \E p \in (n + 1) + 1 .. N : levels[p].priceTick = t
      <4>1. m # n + 1
        BY <2>5, <3>3
      <4>2. m \in (n + 1) + 1 .. N
        BY <4>1
      <4> QED BY <3>3, <4>2
    <3>4. \/ \E j \in 1 .. Len(old) : old[j].priceTick = t
          \/ \E m \in n + 1 .. N : levels[m].priceTick = t
      BY <2>3, <2>6, <2>11
    <3> QED BY ZenonT(30), <3>1, <3>2, <3>3, <3>4
  <2> QED BY <2>6, <2>9, <2>11
<1>5. T = Nat
  <2>1. T \subseteq Nat
    OBVIOUS
  <2> HIDE DEF T
  <2> QED BY ZenonT(30), <1>3, <1>4, <2>1, SetInduction
<1>6. Inv(N)
  BY <1>5
<1>7. Lists(f[N], truth)
  BY <1>6 DEF Lists
<1> QED BY <1>1, <1>2, <1>7

\* A snapshot deep enough has every level of the exchange.
LEMMA DeepSnapshot ==
  ASSUME DeepEnough, NEW S, NEW n, NEW t \in Ticks, hist[n][S][t] > 0
  PROVE  t \in SnapshotTicks(S, n)
<1> DEFINE U == {u \in Ticks : hist[n][S][u] > 0 /\ Ahead(S, u, t)}
<1>1. t \in Nat /\ ~ Ahead(S, t, t)
  BY TicksAssumption DEF Ahead
<1>2. U \subseteq Ticks \ {t}
  BY ZenonT(30), <1>1
<1>3. IsFiniteSet(Ticks \ {t}) /\ Cardinality(Ticks \ {t}) = Cardinality(Ticks) - 1
  BY FS_RemoveElement, SyncAssumption
<1> HIDE DEF U
<1>4. IsFiniteSet(U) /\ Cardinality(U) <= Cardinality(Ticks \ {t})
  BY <1>2, <1>3, FS_Subset
<1>5. Cardinality(U) \in Nat /\ Cardinality(Ticks) \in Nat /\ SnapDepth \in Nat
  BY <1>4, FS_CardinalityType, SyncAssumption
<1>6. Cardinality(U) < SnapDepth
  BY <1>3, <1>4, <1>5 DEF DeepEnough
<1> QED BY <1>6 DEF SnapshotTicks, U

\* A baseline deep enough leaves every level of the exchange after update n.
LEMMA CompleteSnapshot ==
  ASSUME DeepEnough, BaseInv, NEW n \in 1 .. Len(hist), NEW zeros, NEW checksum,
         Snapshot(n, zeros, checksum), ctl'.state # "WaitingSnapshot"
  PROVE  \A S \in Side : Lists(SideOf(ctl', S), hist[n][S])
<1>1. PICK bs \in SortedLevels("BID", SnapshotLevels("BID", n, zeros)),
           as \in SortedLevels("ASK", SnapshotLevels("ASK", n, zeros)) :
        ctl' = OnSnapshot(ctl, [lastUpdateId |-> n, checksum |-> checksum,
                                bids |-> bs, asks |-> as], Kind)
  BY ZenonT(30) DEF Snapshot
<1>2. /\ hist \in Seq(ExchangeBook) /\ GoodController(ctl)
      /\ "BID" \in Side /\ "ASK" \in Side /\ n \in Nat
  BY SMTT(30), LenProperties DEF BaseInv, Side
<1>3. ASSUME NEW S \in Side, NEW l \in SortedLevels(S, SnapshotLevels(S, n, zeros))
      PROVE  l \in Seq(Level) /\ Lists(UpdateAll(S, <<>>, l), hist[n][S])
  <2>1. /\ l \in Seq(Level)
        /\ \A i \in 1 .. Len(l) : l[i].quantityLot = hist[n][S][l[i].priceTick]
        /\ \A t \in SnapshotTicks(S, n) : \E i \in 1 .. Len(l) : l[i].priceTick = t
    BY <1>2, SnapshotFact
  <2>2. GoodSide(S, <<>>)
    BY EmptySideGood
  <2>3. \A t \in Ticks : hist[n][S][t] > 0 => \E i \in 1 .. Len(l) : l[i].priceTick = t
    BY ZenonT(30), <2>1, DeepSnapshot
  <2>4. PICK truth : truth = hist[n][S]
    OBVIOUS
  <2>5. /\ \A i \in 1 .. Len(l) : l[i].quantityLot = truth[l[i].priceTick]
        /\ \A t \in Ticks : truth[t] > 0 =>
             \/ \E i \in 1 .. Len(<<>>) : <<>>[i].priceTick = t
             \/ \E i \in 1 .. Len(l) : l[i].priceTick = t
    BY ZenonT(30), <2>1, <2>3, <2>4
  <2>6. PICK v : v = <<>>
    OBVIOUS
  <2>7. Lists(UpdateAll(S, v, l), truth)
    BY SMTT(30), <2>1, <2>2, <2>5, <2>6, UpdateAllLists
  <2> QED BY ZenonT(30), <2>1, <2>4, <2>6, <2>7
<1>4. /\ bs \in Seq(Level) /\ Lists(UpdateAll("BID", <<>>, bs), hist[n]["BID"])
      /\ as \in Seq(Level) /\ Lists(UpdateAll("ASK", <<>>, as), hist[n]["ASK"])
  BY ZenonT(30), <1>2, <1>3
<1> DEFINE m == [lastUpdateId |-> n, checksum |-> checksum, bids |-> bs, asks |-> as]
<1>5. m.lastUpdateId = n /\ m.bids = bs /\ m.asks = as
  OBVIOUS
<1>6. ctl' = OnSnapshot(ctl, m, Kind)
  BY <1>1
<1> HIDE DEF m
<1>7. Blank(ctl') \/ Loaded(ctl', m, Kind)
  BY ZenonT(30), <1>2, <1>4, <1>5, <1>6, OnSnapshotFact
<1>8. Loaded(ctl', m, Kind)
  BY <1>7 DEF Blank
<1>9. Lists(ctl'.bids, hist[n]["BID"]) /\ Lists(ctl'.asks, hist[n]["ASK"])
  BY ZenonT(30), <1>4, <1>5, <1>8 DEF Loaded
<1> QED BY <1>9 DEF SideOf, Side

\* An increment that starts no later than the id after l turns all levels of
\* update l into all levels of update last.
LEMMA CompleteApply ==
  ASSUME DeepEnough, hist \in Seq(ExchangeBook), NEW S \in Side, NEW vec, GoodSide(S, vec),
         NEW l \in 1 .. Len(hist), Lists(vec, hist[l][S]),
         NEW first \in Nat, NEW last \in l .. Len(hist), first <= l + 1,
         NEW levels \in IncrementLevels(S, first, last)
  PROVE  Lists(UpdateAll(S, vec, levels), hist[last][S])
<1>1. Len(hist) \in Nat /\ last \in 1 .. Len(hist) /\ last \in Nat /\ l \in Nat /\ l <= last
  BY SMTT(30), LenProperties
<1>2. /\ levels \in Seq(Level)
      /\ \A n \in 1 .. Len(levels) : levels[n].quantityLot = hist[last][S][levels[n].priceTick]
      /\ \A t \in Touched(S, first, last) : \E n \in 1 .. Len(levels) : levels[n].priceTick = t
  BY SMTT(30), <1>1, IncrementFact
<1>3. ASSUME NEW t \in Ticks, hist[last][S][t] > 0
      PROVE  \/ \E i \in 1 .. Len(vec) : vec[i].priceTick = t
             \/ \E n \in 1 .. Len(levels) : levels[n].priceTick = t
  <2>1. CASE t \in Touched(S, first, last)
    BY ZenonT(30), <1>2, <2>1
  <2>2. CASE t \notin Touched(S, first, last)
    <3>1. hist[last][S][t] = hist[l][S][t]
      BY <1>1, <2>2, Untouched
    <3>2. hist[l][S][t] > 0
      BY ZenonT(30), <1>3, <3>1
    <3> QED BY ZenonT(30), <3>2 DEF Lists
  <2> QED BY <2>1, <2>2
<1>4. PICK truth : truth = hist[last][S]
  OBVIOUS
<1>5. /\ \A n \in 1 .. Len(levels) : levels[n].quantityLot = truth[levels[n].priceTick]
      /\ \A t \in Ticks : truth[t] > 0 =>
           \/ \E i \in 1 .. Len(vec) : vec[i].priceTick = t
           \/ \E n \in 1 .. Len(levels) : levels[n].priceTick = t
  BY <1>2, <1>3, <1>4
<1> QED BY <1>2, <1>4, <1>5, UpdateAllLists

\* A step after which both sides list a book of the history, and the applied id
\* is that of this book, leaves a complete book.
LEMMA CompleteNext ==
  ASSUME NEW n, hist'[ctl'.last_seq] = hist[n],
         \A S \in Side : Lists(SideOf(ctl', S), hist[n][S])
  PROVE  BookComplete'
<1>1. \A S \in Side : Lists(SideOf(ctl', S), hist'[ctl'.last_seq][S])
  OBVIOUS
<1>2. \A S \in Side : Lists(SideOf(ctl, S), hist[ctl.last_seq][S])'
  BY ZenonT(30), <1>1 DEF Lists
<1> QED BY ZenonT(30), <1>2 DEF BookComplete

\* Handling a message leaves a complete book complete, or it applies an intact
\* and numbered increment in order.
LEMMA CompleteHandle ==
  ASSUME BaseInv, BookComplete, NEW m, NEW damaged, Delivered(m), Handle(m, damaged)
  PROVE  hist' = hist /\ (BookComplete' \/ InOrder(m, damaged))
<1>1. /\ hist' = hist
      /\ Dropped' \/ (Kept(ctl', ctl) /\ ~ tainted) \/ InOrder(m, damaged)
  BY ZenonT(30), HandleKinds
<1>2. CASE Dropped'
  BY <1>1, <1>2 DEF Dropped, BookComplete
<1>3. CASE Kept(ctl', ctl) /\ ~ tainted
  <2>1. SUFFICES ASSUME ctl'.state # "WaitingSnapshot" PROVE BookComplete'
    BY <1>1, <2>1 DEF BookComplete
  <2>2. \A S \in Side : Lists(SideOf(ctl, S), hist[ctl.last_seq][S])
    BY <1>3, <2>1 DEF Kept, BookComplete
  <2>3. ctl'.last_seq = ctl.last_seq /\ \A S \in Side : SideOf(ctl', S) = SideOf(ctl, S)
    BY SMTT(30), <1>3 DEF Kept, SideOf
  <2>4. /\ hist'[ctl'.last_seq] = hist[ctl.last_seq]
        /\ \A S \in Side : Lists(SideOf(ctl', S), hist[ctl.last_seq][S])
    BY <1>1, <2>2, <2>3
  <2> QED BY ZenonT(30), <2>4, CompleteNext
<1> QED BY ZenonT(30), <1>1, <1>2, <1>3

\* An intact increment leaves a complete book complete.
LEMMA CompleteIncrement ==
  ASSUME DeepEnough, BaseInv, BookComplete,
         NEW first \in 2 .. Len(hist), NEW last \in 2 .. Len(hist), NEW checksum,
         Increment(first, last, checksum)
  PROVE  BookComplete'
<1>1. PICK bs \in IncrementLevels("BID", first, last),
           as \in IncrementLevels("ASK", first, last) :
        Handle([first_seq |-> IF Seqless THEN 0 ELSE first,
                last_seq  |-> IF Seqless THEN 0 ELSE last,
                checksum  |-> checksum, bids |-> bs, asks |-> as], FALSE)
  BY ZenonT(30) DEF Increment
<1> DEFINE m == [first_seq |-> IF Seqless THEN 0 ELSE first,
                 last_seq  |-> IF Seqless THEN 0 ELSE last,
                 checksum  |-> checksum, bids |-> bs, asks |-> as]
<1>2. hist \in Seq(ExchangeBook) /\ GoodController(ctl) /\ Len(hist) \in Nat
  BY LenProperties DEF BaseInv
<1>3. Delivered(m)
  BY ZenonT(30), <1>2, IncrementDelivered
<1>4. /\ m.bids = bs /\ m.asks = as
      /\ HasSeq(m) => m.first_seq = first /\ m.last_seq = last
  BY DEF HasSeq
<1>5. Handle(m, FALSE)
  BY <1>1
<1> HIDE DEF m
<1>6. hist' = hist /\ (BookComplete' \/ InOrder(m, FALSE))
  BY ZenonT(30), <1>3, <1>5, CompleteHandle
<1>7. SUFFICES ASSUME InOrder(m, FALSE) PROVE BookComplete'
  BY <1>6
<1>8. /\ ctl.state # "WaitingSnapshot" /\ ~ tainted /\ ctl'.last_seq = last
      /\ ctl.expected_seq <= last /\ ~ (first > ctl.expected_seq)
      /\ ctl'.bids = UpdateAll("BID", ctl.bids, bs)
      /\ ctl'.asks = UpdateAll("ASK", ctl.asks, as)
  BY SMTT(30), <1>4, <1>7 DEF InOrder, Applied
<1>9. ctl.last_seq \in 1 .. Len(hist) /\ ctl.expected_seq = ctl.last_seq + 1
  BY SMTT(30), <1>8 DEF BaseInv, Numbered
<1>10. /\ Lists(ctl.bids, hist[ctl.last_seq]["BID"]) /\ GoodSide("BID", ctl.bids)
       /\ Lists(ctl.asks, hist[ctl.last_seq]["ASK"]) /\ GoodSide("ASK", ctl.asks)
  <2>1. \A S \in Side : Lists(SideOf(ctl, S), hist[ctl.last_seq][S])
    BY ZenonT(30), <1>8 DEF BookComplete
  <2>2. SideOf(ctl, "BID") = ctl.bids /\ SideOf(ctl, "ASK") = ctl.asks
    BY ZenonT(30) DEF SideOf
  <2>3. "BID" \in Side /\ "ASK" \in Side
    BY ZenonT(30) DEF Side
  <2>4. GoodSide("BID", ctl.bids) /\ GoodSide("ASK", ctl.asks)
    BY ZenonT(30), <1>2 DEF GoodController
  <2> QED BY ZenonT(30), <2>1, <2>2, <2>3, <2>4
<1>11. /\ first \in Nat /\ first <= ctl.last_seq + 1
       /\ last \in ctl.last_seq .. Len(hist)
  BY <1>2, <1>8, <1>9
<1>12. "BID" \in Side /\ "ASK" \in Side
  BY DEF Side
<1>13. Lists(ctl'.bids, hist[last]["BID"])
  BY ZenonT(30), <1>2, <1>8, <1>9, <1>10, <1>11, <1>12, CompleteApply
<1>14. Lists(ctl'.asks, hist[last]["ASK"])
  BY ZenonT(30), <1>2, <1>8, <1>9, <1>10, <1>11, <1>12, CompleteApply
<1>15. \A S \in Side : Lists(SideOf(ctl', S), hist[last][S])
  BY <1>13, <1>14 DEF SideOf, Side
<1>16. hist'[ctl'.last_seq] = hist[last]
  BY <1>6, <1>8
<1> QED BY ZenonT(30), <1>15, <1>16, CompleteNext

\* A damaged one taints the book or is not applied.
LEMMA CompleteCorrupt ==
  ASSUME BaseInv, BookComplete,
         NEW first \in 2 .. Len(hist), NEW last \in 2 .. Len(hist),
         NEW t \in Ticks, NEW q \in Lots, CorruptIncrement(first, last, t, q)
  PROVE  BookComplete'
<1>1. hist \in Seq(ExchangeBook)
  BY DEF BaseInv
<1>2. PICK m : Delivered(m) /\ Handle(m, TRUE)
  BY ZenonT(30), <1>1, CorruptDelivered DEF CorruptIncrement
<1>3. BookComplete' \/ InOrder(m, TRUE)
  BY ZenonT(30), <1>2, CompleteHandle
<1> QED BY ZenonT(30), <1>3 DEF InOrder

\* Every step leaves a complete book complete.
LEMMA CompleteStep ==
  ASSUME DeepEnough, BaseInv, BookComplete, [Next]_vars
  PROVE  BookComplete'
<1>1. hist \in Seq(ExchangeBook) /\ GoodController(ctl) /\ Len(hist) \in Nat
  BY LenProperties DEF BaseInv
<1>2. ASSUME NEW S \in Side, NEW t \in Ticks, NEW q \in Lots, ExchangeUpdate(S, t, q)
      PROVE  BookComplete'
  <2>1. /\ \A n \in 1 .. Len(hist) : hist'[n] = hist[n]
        /\ ctl' = ctl /\ tainted' = tainted
    BY SMTT(30), <1>2, ExchangeStep
  <2>2. SUFFICES ASSUME ctl.state # "WaitingSnapshot", ~ tainted PROVE BookComplete'
    BY <2>1 DEF BookComplete
  <2>3. /\ ctl.last_seq \in 1 .. Len(hist)
        /\ \A d \in Side : Lists(SideOf(ctl, d), hist[ctl.last_seq][d])
    BY SMTT(30), <2>2 DEF BookComplete, BaseInv, Numbered
  <2>4. hist'[ctl'.last_seq] = hist[ctl.last_seq]
    BY <2>1, <2>3
  <2>5. \A d \in Side : Lists(SideOf(ctl', d), hist[ctl.last_seq][d])
    BY <2>1, <2>3
  <2> QED BY ZenonT(30), <2>4, <2>5, CompleteNext
<1>3. ASSUME NEW n \in 1 .. Len(hist), NEW zeros, NEW checksum, Snapshot(n, zeros, checksum)
      PROVE  BookComplete'
  <2>1. SUFFICES ASSUME ctl'.state # "WaitingSnapshot" PROVE BookComplete'
    BY DEF BookComplete
  <2>2. hist' = hist /\ ctl'.last_seq = n
    BY ZenonT(30), <1>3, <2>1, SnapshotStep
  <2>3. \A d \in Side : Lists(SideOf(ctl', d), hist[n][d])
    BY ZenonT(30), <1>3, <2>1, CompleteSnapshot
  <2>4. hist'[ctl'.last_seq] = hist[n]
    BY <2>2
  <2> QED BY ZenonT(30), <2>3, <2>4, CompleteNext
<1>4. ASSUME NEW first \in 2 .. Len(hist), NEW last \in 2 .. Len(hist), NEW checksum,
             Increment(first, last, checksum)
      PROVE  BookComplete'
  BY ZenonT(30), <1>4, CompleteIncrement
<1>5. ASSUME NEW first \in 2 .. Len(hist), NEW last \in 2 .. Len(hist),
             NEW t \in Ticks, NEW q \in Lots, CorruptIncrement(first, last, t, q)
      PROVE  BookComplete'
  BY ZenonT(30), <1>5, CompleteCorrupt
<1>6. CASE Reset
  <2>1. GoodController(ResetBook(ctl)) /\ Blank(ResetBook(ctl))
    BY <1>1, ResetFact DEF GoodController
  <2>2. Kept(ctl', ResetBook(ctl))
    BY SMTT(30), <1>6, <2>1, DoneFact DEF Reset
  <2> QED BY SMTT(30), <2>1, <2>2 DEF Kept, Blank, BookComplete
<1>7. CASE UNCHANGED vars
  BY <1>7 DEF vars, BookComplete, Lists
<1> QED BY <1>2, <1>3, <1>4, <1>5, <1>6, <1>7 DEF Next

\* Sound and complete is exact.
LEMMA SoundCompleteExact ==
  ASSUME BaseInv, BookSound, BookComplete
  PROVE  BookExact
<1> SUFFICES ASSUME ctl.state # "WaitingSnapshot", ~ tainted, NEW S \in Side
             PROVE  LotsOn(SideOf(ctl, S)) = hist[ctl.last_seq][S]
  BY DEF BookExact
<1> DEFINE vec == SideOf(ctl, S)
<1>1. ctl.last_seq \in 1 .. Len(hist) /\ hist \in Seq(ExchangeBook) /\ GoodController(ctl)
  BY DEF BaseInv, Numbered
<1>2. GoodSide(S, vec)
  BY <1>1 DEF GoodController, SideOf, Side
<1>3. hist[ctl.last_seq] \in ExchangeBook
  BY <1>1, ElementOfSeq
<1>4. PICK m \in [Ticks -> Lots] : m = hist[ctl.last_seq][S]
  BY <1>3 DEF ExchangeBook
<1>5. SideSound(S, vec, ctl.last_seq) /\ Lists(vec, m)
  BY ZenonT(30), <1>4 DEF BookSound, BookComplete
<1> HIDE DEF vec
<1>6. Ladder(S, vec)
  BY SMTT(30), <1>2 DEF GoodSide, ValidSide, Ladder
<1>7. \A i \in 1 .. Len(vec) : m[vec[i].priceTick] = vec[i].quantityLot
  BY <1>4, <1>5 DEF SideSound
<1>8. ASSUME NEW x \in Ticks, \A i \in 1 .. Len(vec) : vec[i].priceTick # x PROVE m[x] = 0
  <2>1. ~ (m[x] > 0)
    BY ZenonT(30), <1>5, <1>8 DEF Lists
  <2>2. m[x] \in Nat
    BY ZenonT(30), LotsAssumption
  <2> QED BY <2>1, <2>2
<1>9. LotsOn(vec) = m
  BY ZenonT(30), <1>6, <1>7, <1>8, LotsOnIs
<1> QED BY <1>4, <1>9 DEF vec

-----------------------------------------------------------------------------
\* A new controller satisfies the invariant.
LEMMA InitInv ==
  ASSUME Init
  PROVE  BaseInv /\ BookSound
<1>1. PICK b \in ExchangeBook : Uncrossed(b) /\ hist = <<b>>
  BY DEF Init
<1>2. ctl = NewController /\ tainted = FALSE
  BY DEF Init
<1>3. GoodController(ctl) /\ ctl.state = "WaitingSnapshot"
  <2>1. NewController \in Controller
    BY EmptySeq DEF NewController, Controller, BookSyncState, Action
  <2> QED BY SMTT(30), <1>2, <2>1, EmptySideGood DEF GoodController, NewController
<1>4. hist \in Seq(ExchangeBook) /\ Len(hist) = 1 /\ hist[1] = b
  BY <1>1
<1>5. \A n \in 1 .. Len(hist) : Uncrossed(hist[n])
  BY <1>1, <1>4
<1>6. Numbered /\ SyncedNotCrossed /\ BookSound
  BY <1>3 DEF Numbered, SyncedNotCrossed, BookSound
<1>7. Len(hist) > 0
  BY <1>4
<1>8. tainted \in BOOLEAN
  BY ZenonT(30), <1>2
<1> QED BY <1>3, <1>4, <1>5, <1>6, <1>7, <1>8 DEF BaseInv

\* The invariant holds in every configuration.
LEMMA BaseAlways == Spec => []BaseInv
<1>1. Init => BaseInv
  BY InitInv
<1>2. BaseInv /\ [Next]_vars => BaseInv'
  BY BaseStep
<1> QED BY <1>1, <1>2, PTL DEF Spec

\* Type correctness of the controller and the exchange.
THEOREM SyncTypeCorrect == Spec => []TypeOK
<1>1. BaseInv => TypeOK
  BY DEF BaseInv, TypeOK, GoodController
<1> QED BY <1>1, BaseAlways, PTL

\* validate() holds whenever the controller returns from a method, for every
\* configuration, also of corrupted and unnumbered streams: guard C3 of
\* onIncrement never fires.
THEOREM ControllerAlwaysValid == Spec => []ControllerBookValid
<1>1. BaseInv => ControllerBookValid
  BY DEF BaseInv, ControllerBookValid, GoodController, GoodSide, Validate
<1> QED BY <1>1, BaseAlways, PTL

\* C1 with the exchange's own books: a Synced book is never crossed, in any
\* configuration.  Increments are guarded by onIncrement; a baseline is not
\* checked, it inherits the property from the exchange.
THEOREM SyncedNeverCrossed == Spec => []SyncedNotCrossed
<1>1. BaseInv => SyncedNotCrossed
  BY DEF BaseInv
<1> QED BY <1>1, BaseAlways, PTL

\* The continuity checks of onIncrement suffice, in every configuration: a book
\* that met no tolerated gap and no unnumbered or damaged increment since its
\* baseline holds only levels the exchange had at getAppliedSeqID(), whatever
\* was lost, repeated, delayed or reordered.
THEOREM BookAlwaysSound == Spec => []BookSound
<1>1. Init => BaseInv /\ BookSound
  BY InitInv
<1>2. BaseInv /\ BookSound /\ [Next]_vars => (BaseInv /\ BookSound)'
  BY BaseStep, SoundStep
<1> QED BY <1>1, <1>2, PTL DEF Spec

\* The continuity checks lose nothing either: in a configuration whose book and
\* snapshots have room for every tick, a book that met no tolerated gap and no
\* unnumbered or damaged increment since its baseline is the exchange's book at
\* getAppliedSeqID(), level for level.
THEOREM BookAlwaysExact ==
  ASSUME DeepEnough
  PROVE  Spec => []BookExact
<1>1. Init => BaseInv /\ BookComplete
  <2>1. Init => ctl.state = "WaitingSnapshot"
    BY DEF Init, NewController
  <2> QED BY ZenonT(30), <2>1, InitInv DEF BookComplete
<1>2. BaseInv /\ BookComplete /\ [Next]_vars => (BaseInv /\ BookComplete)'
  BY BaseStep, CompleteStep
<1>3. BaseInv /\ BookSound /\ BookComplete => BookExact
  BY SoundCompleteExact
<1> QED BY <1>1, <1>2, <1>3, BookAlwaysSound, PTL DEF Spec

\* The guards cost nothing on a healthy stream: without checksums, an intact
\* increment that covers expected_seq_ is accepted in every reachable state whose
\* book is not tainted.
THEOREM HealthyStreamAccepted ==
  ASSUME ~ ChecksumFn, ~ (RequireChecksum /\ HasChecksum)
  PROVE  Spec => []ContiguousAccepted
<1>1. BaseInv /\ BookSound => ContiguousAccepted
  <2> SUFFICES ASSUME BaseInv, BookSound,
                      ctl.state # "WaitingSnapshot", ~ tainted,
                      NEW first \in 2 .. ctl.expected_seq,
                      NEW last \in ctl.expected_seq .. Len(hist),
                      NEW bs \in IncrementLevels("BID", first, last),
                      NEW as \in IncrementLevels("ASK", first, last)
               PROVE  OnIncrement(ctl, [first_seq |-> first, last_seq |-> last,
                                        checksum |-> Checksum(last),
                                        bids |-> bs, asks |-> as]).action = "None"
    BY ZenonT(30) DEF ContiguousAccepted
  <2> DEFINE m == [first_seq |-> first, last_seq |-> last, checksum |-> Checksum(last),
                   bids |-> bs, asks |-> as]
             e == ApplyIncrement(ctl, m)
  <2>1. /\ hist \in Seq(ExchangeBook) /\ GoodController(ctl) /\ Len(hist) \in Nat
        /\ ctl.last_seq \in 1 .. Len(hist) /\ ctl.expected_seq = ctl.last_seq + 1
        /\ ctl.state \in {"WaitingBridge", "Synced"}
    BY LenProperties DEF BaseInv, Numbered, GoodController, Controller, BookSyncState
  <2>2. /\ first \in Nat /\ last \in Nat /\ last # 0
        /\ first <= ctl.last_seq + 1 /\ ctl.expected_seq <= last
        /\ last \in ctl.last_seq .. Len(hist) /\ last \in 1 .. Len(hist)
        /\ first \in 2 .. Len(hist) /\ last \in 2 .. Len(hist)
    BY <2>1
  <2>3. m.first_seq = first /\ m.last_seq = last /\ m.bids = bs /\ m.asks = as
    OBVIOUS
  <2>4. \A S \in Side : \A l \in IncrementLevels(S, first, last) : l \in Seq(Level)
    BY ZenonT(30), <2>1, <2>2, IncrementFact
  <2>5. Message(m)
    BY ZenonT(30), <2>2, <2>3, <2>4 DEF Message, Side
  <2> HIDE DEF m
  <2>6. /\ GoodController(e)
        /\ e.bids = UpdateAll("BID", ctl.bids, bs)
        /\ e.asks = UpdateAll("ASK", ctl.asks, as)
    BY ZenonT(30), <2>1, <2>3, <2>5, ApplyFact
  <2>7. /\ SideSound("BID", ctl.bids, ctl.last_seq) /\ GoodSide("BID", ctl.bids)
        /\ SideSound("ASK", ctl.asks, ctl.last_seq) /\ GoodSide("ASK", ctl.asks)
    BY <2>1 DEF BookSound, SideOf, Side, GoodController
  <2>8. "BID" \in Side /\ "ASK" \in Side
    BY DEF Side
  <2>9. Shows(e.bids, hist[last]["BID"])
    BY ZenonT(30), <2>1, <2>2, <2>6, <2>7, <2>8, SoundApply
  <2>10. Shows(e.asks, hist[last]["ASK"])
    BY ZenonT(30), <2>1, <2>2, <2>6, <2>7, <2>8, SoundApply
  <2>11. hist[last] \in ExchangeBook /\ Uncrossed(hist[last])
    BY <2>1, <2>2, ElementOfSeq DEF BaseInv
  <2>12. ~ Crossed(e) /\ ~ ChecksumFails(e, m)
    BY ZenonT(30), <2>6, <2>9, <2>10, <2>11, SoundNotCrossed DEF ChecksumFails
  <2>13. HasSeq(m) /\ ctl.expected_seq <= m.last_seq /\ m.first_seq <= ctl.expected_seq
    BY <2>1, <2>2, <2>3 DEF HasSeq
  <2>14. CASE ctl.state = "WaitingBridge"
    <3>1. Bridge(ctl, m).action = "None"
      BY <2>1, <2>5, <2>12, <2>13, <2>14, BridgeFact
    <3>2. OnIncrement(ctl, m) = Bridge(ctl, m)
      BY <2>1, <2>2, <2>3, <2>13, <2>14 DEF OnIncrement
    <3> QED BY <3>1, <3>2 DEF m
  <2>15. CASE ctl.state = "Synced"
    <3>1. Steady(ctl, m).action = "None"
      BY <2>1, <2>5, <2>12, <2>13, <2>15, SteadyFact
    <3>2. OnIncrement(ctl, m) = Steady(ctl, m)
      BY <2>1, <2>2, <2>3, <2>13, <2>15 DEF OnIncrement
    <3> QED BY <3>1, <3>2 DEF m
  <2> QED BY <2>1, <2>14, <2>15
<1> QED BY <1>1, BaseAlways, BookAlwaysSound, PTL

=============================================================================
