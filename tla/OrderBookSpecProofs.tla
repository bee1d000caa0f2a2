------------------------- MODULE OrderBookSpecProofs -------------------------
(***************************************************************************)
(* OrderBook::validate() can never fail: for every depth and every set of   *)
(* ticks and lots, every sequence of calls leaves a valid book.  And the    *)
(* book keeps TopNBook's promise, step by step.                             *)
(***************************************************************************)
EXTENDS MCOrderBook, OrderBookProofs, FiniteSetTheorems

\* Both sides are valid sequences of levels.
GoodBook == GoodSide("BID", bids) /\ GoodSide("ASK", asks)

\* Every call preserves validity.
LEMMA GoodBookStep == GoodBook /\ [Next]_bookVars => GoodBook'
<1> SUFFICES ASSUME GoodBook, [Next]_bookVars PROVE GoodBook'
  OBVIOUS
<1>1. GoodSide("BID", bids) /\ GoodSide("ASK", asks)
  BY DEF GoodBook
<1>2. ASSUME NEW tick \in Ticks, NEW lot \in Lots, UpdateBid(ParsedLevel(tick, lot))
      PROVE  GoodBook'
  <2>1. GoodSide("BID", Update("BID", bids, ParsedLevel(tick, lot)))
    BY <1>1, ParsedLevelFact, UpdateFact
  <2> QED BY <1>1, <1>2, <2>1 DEF UpdateBid, GoodBook
<1>3. ASSUME NEW tick \in Ticks, NEW lot \in Lots, UpdateAsk(ParsedLevel(tick, lot))
      PROVE  GoodBook'
  <2>1. GoodSide("ASK", Update("ASK", asks, ParsedLevel(tick, lot)))
    BY <1>1, ParsedLevelFact, UpdateFact
  <2> QED BY <1>1, <1>3, <2>1 DEF UpdateAsk, GoodBook
<1>4. ASSUME NEW tick \in Ticks, RemoveBid(tick) PROVE GoodBook'
  <2>1. tick \in Nat
    BY TicksAssumption
  <2>2. GoodSide("BID", RemoveTick("BID", bids, tick))
    BY <1>1, <2>1, RemoveTickFact
  <2> QED BY <1>1, <1>4, <2>2 DEF RemoveBid, GoodBook
<1>5. ASSUME NEW tick \in Ticks, RemoveAsk(tick) PROVE GoodBook'
  <2>1. tick \in Nat
    BY TicksAssumption
  <2>2. GoodSide("ASK", RemoveTick("ASK", asks, tick))
    BY <1>1, <2>1, RemoveTickFact
  <2> QED BY <1>1, <1>5, <2>2 DEF RemoveAsk, GoodBook
<1>6. CASE Clear
  BY <1>6, EmptySideGood DEF Clear, GoodBook
<1>7. CASE UNCHANGED bookVars
  BY <1>1, <1>7 DEF bookVars, GoodBook
<1> QED BY <1>2, <1>3, <1>4, <1>5, <1>6, <1>7 DEF Next

\* Both sides stay sequences of levels.
THEOREM BookTypeCorrect == Spec => []TypeOK
<1>1. Init => GoodBook
  BY EmptySideGood DEF Init, GoodBook
<1>2. GoodBook => TypeOK
  BY DEF GoodBook, GoodSide, TypeOK
<1> QED BY <1>1, <1>2, GoodBookStep, PTL DEF Spec

\* validate() returns true after every sequence of update, remove and clear
\* calls: guard C3 of the controller can never fire.
THEOREM BookAlwaysValidates == Spec => []BookValidates
<1>1. Init => GoodBook
  BY EmptySideGood DEF Init, GoodBook
<1>2. GoodBook => BookValidates
  BY DEF GoodBook, GoodSide, BookValidates, Validate
<1> QED BY <1>1, <1>2, GoodBookStep, PTL DEF Spec

-----------------------------------------------------------------------------
(* The top of the book.                                                     *)

\* As many levels precede the i-th of a ladder as its index says.
LEMMA Rank ==
  ASSUME NEW S, NEW t, Ladder(S, t), NEW i \in 1 .. Len(t)
  PROVE  Cardinality({u \in Ticks : LotsOn(t)[u] > 0 /\ Ahead(S, u, t[i].priceTick)}) = i - 1
<1> DEFINE B == {u \in Ticks : LotsOn(t)[u] > 0 /\ Ahead(S, u, t[i].priceTick)}
           I == 1 .. i - 1
           f == [j \in I |-> t[j].priceTick]
<1>1. /\ Len(t) \in Nat
      /\ \A j \in 1 .. Len(t) : /\ t[j].priceTick \in Ticks /\ t[j].priceTick \in Nat
                                /\ LotsOn(t)[t[j].priceTick] > 0
      /\ \A j, n \in 1 .. Len(t) : j < n => Ahead(S, t[j].priceTick, t[n].priceTick)
      /\ \A j, n \in 1 .. Len(t) : t[j].priceTick = t[n].priceTick => j = n
  <2>1. /\ Len(t) \in Nat
        /\ \A j \in 1 .. Len(t) : t[j].priceTick \in Ticks /\ t[j].quantityLot > 0
        /\ \A j, n \in 1 .. Len(t) : j < n => Ahead(S, t[j].priceTick, t[n].priceTick)
        /\ \A j, n \in 1 .. Len(t) : t[j].priceTick = t[n].priceTick => j = n
    BY Zenon, LadderTicks
  <2>2. \A j \in 1 .. Len(t) : LotsOn(t)[t[j].priceTick] = t[j].quantityLot
    BY Zenon, LotsOnFact
  <2>3. \A j \in 1 .. Len(t) : t[j].priceTick \in Nat
    BY ZenonT(30), <2>1, TicksAssumption
  <2>4. \A j \in 1 .. Len(t) : LotsOn(t)[t[j].priceTick] > 0
    BY <2>1, <2>2
  <2> QED BY Zenon, <2>1, <2>3, <2>4
<1>2. \A j \in I : j \in 1 .. Len(t) /\ j < i
  BY <1>1
<1>3. f \in [I -> B]
  BY <1>1, <1>2
<1>4. f \in Injection(I, B)
  BY <1>1, <1>2, <1>3 DEF Injection, IsInjective
<1>5. ASSUME NEW u \in B PROVE \E j \in I : f[j] = u
  <2>1. PICK j \in 1 .. Len(t) : t[j].priceTick = u
    BY LotsOnFact
  <2>2. Ahead(S, t[j].priceTick, t[i].priceTick)
    BY <2>1
  <2>3. ~ (i <= j)
    <3>1. SUFFICES ASSUME i <= j PROVE FALSE
      OBVIOUS
    <3>2. i = j \/ i < j
      BY <1>1, <3>1
    <3>3. i < j => Ahead(S, t[i].priceTick, t[j].priceTick)
      BY <1>1
    <3>4. PICK p, q \in Nat : p = t[i].priceTick /\ q = t[j].priceTick
      BY <1>1
    <3>5. Ahead(S, q, p) /\ (Ahead(S, p, q) \/ p = q)
      BY <2>2, <3>2, <3>3, <3>4
    <3> QED BY SMTT(30), <3>5 DEF Ahead
  <2>4. j \in I
    BY <1>1, <2>3
  <2> QED BY <2>1, <2>4
<1>6. f \in Surjection(I, B)
  BY <1>3, <1>5 DEF Surjection
<1>7. IsFiniteSet(I) /\ Cardinality(I) = i - 1
  <2>1. 1 \in Int /\ i - 1 \in Int /\ i >= 1
    BY <1>1
  <2>2. IsFiniteSet(I) /\ Cardinality(I) = IF 1 > i - 1 THEN 0 ELSE (i - 1) - 1 + 1
    BY <2>1, FS_Interval
  <2> HIDE DEF I
  <2> QED BY <2>1, <2>2
<1> HIDE DEF f, I, B
<1>8. ExistsBijection(I, B)
  BY <1>4, <1>6 DEF ExistsBijection, Bijection
<1>9. Cardinality(B) = i - 1
  BY <1>7, <1>8, FS_Bijection
<1> QED BY <1>9 DEF B

\* What TopNBook keeps of a ladder's map is the map of its first Depth levels.
LEMMA BestOfLadder ==
  ASSUME NEW S, NEW t, Ladder(S, t), NEW v, Ladder(S, v),
         \A i \in 1 .. Len(v) : i \in 1 .. Len(t) /\ v[i] = t[i] /\ i <= Depth,
         \A i \in 1 .. Len(t) : i <= Depth => i \in 1 .. Len(v)
  PROVE  TopN!Best(S, LotsOn(t)) = LotsOn(v)
<1> DEFINE m == LotsOn(t)
           B(x) == {u \in Ticks : m[u] > 0 /\ Ahead(S, u, x)}
           b == [x \in Ticks |-> IF Cardinality(B(x)) < Depth THEN m[x] ELSE 0]
<1>1. TopN!Best(S, m) = b
  <2>1. \A u, x : TopN!Better(S, u, x) <=> Ahead(S, u, x)
    BY DEF TopN!Better, Ahead
  <2>2. \A x : {u \in Ticks : m[u] > 0 /\ TopN!Better(S, u, x)} = B(x)
    BY <2>1
  <2>3. \A T : TopN!Cardinality(T) = Cardinality(T)
    BY Zenon DEF TopN!Cardinality, Cardinality, TopN!IsFiniteSet, IsFiniteSet
  <2> QED BY <2>2, <2>3 DEF TopN!Best
<1>2. /\ m \in [Ticks -> Lots]
      /\ \A i \in 1 .. Len(t) : m[t[i].priceTick] = t[i].quantityLot
      /\ \A x \in Ticks : (\A i \in 1 .. Len(t) : t[i].priceTick # x) => m[x] = 0
  BY LotsOnFact
<1>3. ASSUME NEW i \in 1 .. Len(t)
      PROVE  b[t[i].priceTick] = IF i <= Depth THEN t[i].quantityLot ELSE 0
  <2>1. t[i].priceTick \in Ticks /\ Len(t) \in Nat /\ Depth \in Nat
    BY LadderTicks, DepthAssumption
  <2>2. Cardinality(B(t[i].priceTick)) = i - 1
    BY Rank
  <2> HIDE DEF B
  <2> QED BY <1>2, <2>1, <2>2
<1>4. b \in [Ticks -> Lots]
  BY <1>2, LotsAssumption
<1>5. ASSUME NEW i \in 1 .. Len(v) PROVE b[v[i].priceTick] = v[i].quantityLot
  BY ZenonT(30), <1>3
<1>6. ASSUME NEW x \in Ticks, \A i \in 1 .. Len(v) : v[i].priceTick # x PROVE b[x] = 0
  <2>1. CASE \A i \in 1 .. Len(t) : t[i].priceTick # x
    BY <1>2, <2>1
  <2>2. ASSUME NEW i \in 1 .. Len(t), t[i].priceTick = x PROVE b[x] = 0
    BY ZenonT(30), <1>3, <1>6, <2>2
  <2> QED BY <2>1, <2>2
<1> HIDE DEF b
<1>7. LotsOn(v) = b
  BY <1>4, <1>5, <1>6, LotsOnIs
<1> QED BY <1>1, <1>7

\* update() sets the tick and keeps the best Depth levels.
LEMMA UpdateIsSetLevel ==
  ASSUME NEW S, NEW vec, GoodSide(S, vec), NEW tick \in Ticks, NEW lot \in Lots
  PROVE  LotsOn(Update(S, vec, ParsedLevel(tick, lot))) =
           TopN!Best(S, [LotsOn(vec) EXCEPT ![tick] = lot])
<1> DEFINE level == ParsedLevel(tick, lot)
           v == Update(S, vec, level)
<1>1. level \in Level /\ level.priceTick = tick /\ level.quantityLot = lot
  BY ParsedLevelFact
<1> HIDE DEF level
<1>2. PICK t : /\ Ladder(S, t) /\ Len(t) <= Depth + 1
               /\ Reflects(t, vec, tick, lot) /\ Covers(t, vec, tick, lot)
               /\ v = IF Len(t) <= Depth THEN t ELSE PopBack(t)
  BY <1>1, UpdateExact
<1>3. Ladder(S, vec)
  BY DEF GoodSide, ValidSide, Ladder
<1>4. LotsOn(t) = [LotsOn(vec) EXCEPT ![tick] = lot]
  BY <1>2, <1>3, UpdatedMap
<1>5. Ladder(S, v)
  BY <1>1, UpdateFact DEF GoodSide, ValidSide, Ladder
<1> HIDE DEF v
<1>6. Len(t) \in Nat /\ Depth \in Nat /\ t \in Seq(Level)
  BY <1>2, LadderTicks, DepthAssumption DEF Ladder
<1>7. /\ \A i \in 1 .. Len(v) : i \in 1 .. Len(t) /\ v[i] = t[i] /\ i <= Depth
      /\ \A i \in 1 .. Len(t) : i <= Depth => i \in 1 .. Len(v)
  <2>1. CASE Len(t) <= Depth
    BY <1>2, <1>6, <2>1
  <2>2. CASE ~ (Len(t) <= Depth)
    <3>1. v = PopBack(t) /\ Len(t) > 0 /\ Len(t) = Depth + 1
      BY <1>2, <1>6, <2>2
    <3>2. Len(v) = Len(t) - 1 /\ \A i \in 1 .. Len(t) - 1 : v[i] = t[i]
      BY <1>6, <3>1, PopBackFact
    <3> QED BY <1>6, <3>1, <3>2
  <2> QED BY <2>1, <2>2
<1>8. TopN!Best(S, LotsOn(t)) = LotsOn(v)
  BY <1>2, <1>5, <1>7, BestOfLadder
<1> QED BY <1>4, <1>8 DEF v, level

\* The book as TopNBook sees it.
Mapped == [S \in Side |-> LotsOn(IF S = "BID" THEN bids ELSE asks)]

\* Every call is a step of TopNBook.
LEMMA TopNStep == GoodBook /\ [Next]_bookVars => [TopN!Next]_Mapped
<1> SUFFICES ASSUME GoodBook, [Next]_bookVars PROVE [TopN!Next]_Mapped
  OBVIOUS
<1>1. GoodSide("BID", bids) /\ GoodSide("ASK", asks)
  BY DEF GoodBook
<1>2. Mapped["BID"] = LotsOn(bids) /\ Mapped["ASK"] = LotsOn(asks) /\ DOMAIN Mapped = Side
  BY DEF Mapped, Side
<1>3. Mapped' = [S \in Side |-> IF S = "BID" THEN LotsOn(bids') ELSE LotsOn(asks')]
  BY DEF Mapped
<1>4. ASSUME NEW tick \in Ticks, NEW lot \in Lots,
             bids' = Update("BID", bids, ParsedLevel(tick, lot)), asks' = asks
      PROVE  TopN!Next
  <2>1. LotsOn(bids') = TopN!Best("BID", [Mapped["BID"] EXCEPT ![tick] = lot])
    BY <1>1, <1>2, <1>4, UpdateIsSetLevel
  <2>2. Mapped' = [Mapped EXCEPT !["BID"] = TopN!Best("BID", [Mapped["BID"] EXCEPT ![tick] = lot])]
    BY ZenonT(30), <1>2, <1>3, <1>4, <2>1 DEF Side, Mapped
  <2>3. TopN!SetLevel("BID", tick, lot)
    BY <2>2 DEF TopN!SetLevel, Mapped
  <2> QED BY <2>3 DEF TopN!Next, TopN!Side
<1>5. ASSUME NEW tick \in Ticks, NEW lot \in Lots,
             asks' = Update("ASK", asks, ParsedLevel(tick, lot)), bids' = bids
      PROVE  TopN!Next
  <2>1. LotsOn(asks') = TopN!Best("ASK", [Mapped["ASK"] EXCEPT ![tick] = lot])
    BY <1>1, <1>2, <1>5, UpdateIsSetLevel
  <2>2. Mapped' = [Mapped EXCEPT !["ASK"] = TopN!Best("ASK", [Mapped["ASK"] EXCEPT ![tick] = lot])]
    BY ZenonT(30), <1>2, <1>3, <1>5, <2>1 DEF Side, Mapped
  <2>3. TopN!SetLevel("ASK", tick, lot)
    BY <2>2 DEF TopN!SetLevel, Mapped
  <2> QED BY <2>3 DEF TopN!Next, TopN!Side
<1>6. \A S, vec : \A tick \in Ticks :
        RemoveTick(S, vec, tick) = Update(S, vec, ParsedLevel(tick, 0))
  BY DEF Update, ParsedLevel, IsEmpty
<1>7. CASE Clear
  <2>1. bids' = <<>> /\ asks' = <<>> /\ LotsOn(<<>>) = [x \in Ticks |-> 0]
    BY <1>7 DEF Clear, LotsOn
  <2>2. Mapped' = [S \in Side |-> [x \in Ticks |-> 0]]
    BY <1>3, <2>1 DEF Side
  <2> QED BY <2>2 DEF TopN!Next, TopN!Clear, TopN!Side, Side, Mapped
<1>8. CASE UNCHANGED bookVars
  BY <1>8 DEF bookVars, Mapped
<1> QED
  BY <1>4, <1>5, <1>6, <1>7, <1>8, LotsAssumption
     DEF Next, UpdateBid, UpdateAsk, RemoveBid, RemoveAsk

\* update(), remove() and clear() on the sorted vectors behave as a map that
\* keeps the best Depth levels of each side: no level is lost, duplicated or
\* misplaced, whatever the depth and whatever is set.
THEOREM BookImplementsTopN == Spec => ImplementsTopN
<1>1. Init => GoodBook
  BY EmptySideGood DEF Init, GoodBook
<1>2. Init => TopN!Init
  <2> SUFFICES ASSUME Init PROVE TopN!Init
    OBVIOUS
  <2>1. bids = <<>> /\ asks = <<>> /\ LotsOn(<<>>) = [x \in Ticks |-> 0]
    BY DEF Init, LotsOn
  <2> QED BY <2>1 DEF TopN!Init, TopN!Side, Side
<1> QED BY <1>1, <1>2, GoodBookStep, TopNStep, PTL DEF Spec, ImplementsTopN, TopN!Spec, Mapped

=============================================================================
