--------------------------- MODULE OrderBookProofs ---------------------------
(***************************************************************************)
(* What the operations of md::OrderBook do to a side and what the methods of *)
(* OrderBookController can leave behind, for every depth, every set of ticks, *)
(* every vector and every configuration, for use by the proofs about the     *)
(* modules built on them.                                                    *)
(***************************************************************************)
EXTENDS OrderBookController, SequenceTheorems, WellFoundedInduction, TLAPS

-----------------------------------------------------------------------------
(* Induction over the naturals, stated for sets.                            *)

\* A non-empty set of naturals has a least element.
LEMMA LeastNat ==
  ASSUME NEW T, T \subseteq Nat, T # {}
  PROVE  \E x \in T : \A y \in T : x <= y
<1> DEFINE R == OpToRel(<, Nat)
<1>1. IsWellFoundedOn(R, Nat)
  BY Zenon, NatLessThanWellFounded
<1>2. \E x \in T : \A y \in T : ~ (<<y, x>> \in R)
  <2> HIDE DEF R
  <2> QED BY Zenon, <1>1, WFMin
<1>3. \A x, y \in Nat : y < x => <<y, x>> \in R
  BY DEF OpToRel
<1> HIDE DEF R
<1>4. PICK x \in T : \A y \in T : ~ (<<y, x>> \in R)
  BY <1>2
<1>5. \A y \in T : ~ (y < x)
  BY Zenon, <1>3, <1>4
<1> QED BY <1>5

\* A set that holds 0 and is closed under successor holds every natural.
LEMMA SetInduction ==
  ASSUME NEW T, T \subseteq Nat, 0 \in T, \A n \in T : n + 1 \in T
  PROVE  T = Nat
<1>1. SUFFICES ASSUME Nat \ T # {} PROVE FALSE
  BY Zenon
<1>2. PICK x \in Nat \ T : \A y \in Nat \ T : x <= y
  BY Zenon, <1>1, LeastNat
<1>3. x # 0 /\ x - 1 \in Nat /\ x - 1 \in T
  BY <1>2
<1> QED BY <1>2, <1>3

-----------------------------------------------------------------------------
(* Vector operations: insert, erase, pop_back.                              *)

\* vec.insert(it, e): what precedes the position stays, the rest moves up.
LEMMA InsertedFact ==
  ASSUME NEW E, NEW s \in Seq(E), NEW e \in E, NEW k \in 1 .. Len(s) + 1
  PROVE  /\ Inserted(s, k, e) \in Seq(E)
         /\ Len(Inserted(s, k, e)) = Len(s) + 1
         /\ \A i \in 1 .. Len(s) + 1 :
              Inserted(s, k, e)[i] =
                IF i < k THEN s[i] ELSE IF i = k THEN e ELSE s[i - 1]
<1>0. Len(s) \in Nat
  BY LenProperties
<1> USE <1>0
<1> DEFINE l == SubSeq(s, 1, k - 1)
           m == <<e>>
           r == SubSeq(s, k, Len(s))
<1>1. /\ l \in Seq(E) /\ Len(l) = k - 1
      /\ \A i \in 1 .. k - 1 : l[i] = s[i]
  <2>1. \A i \in 1 .. k - 1 : s[i] \in E
    OBVIOUS
  <2> QED BY <2>1, SubSeqProperties
<1>2. m \in Seq(E) /\ Len(m) = 1 /\ m[1] = e
  OBVIOUS
<1>3. /\ r \in Seq(E) /\ Len(r) = Len(s) - k + 1
      /\ \A i \in 1 .. Len(s) - k + 1 : r[i] = s[k + i - 1]
  <2>1. \A i \in k .. Len(s) : s[i] \in E
    OBVIOUS
  <2> QED BY <2>1, SubSeqProperties
<1> DEFINE lm == l \o m
           t == lm \o r
<1>4. Inserted(s, k, e) = t
  BY DEF Inserted
<1> HIDE DEF l, m, r
<1>5. /\ lm \in Seq(E) /\ Len(lm) = k
      /\ \A i \in 1 .. k : lm[i] = IF i <= k - 1 THEN l[i] ELSE m[i - (k - 1)]
  <2>1. /\ lm \in Seq(E) /\ Len(lm) = Len(l) + Len(m)
        /\ \A i \in 1 .. Len(l) + Len(m) :
             lm[i] = IF i <= Len(l) THEN l[i] ELSE m[i - Len(l)]
    BY Zenon, <1>1, <1>2, ConcatProperties
  <2> HIDE DEF lm
  <2> QED BY <1>1, <1>2, <2>1
<1> HIDE DEF lm
<1>6. /\ t \in Seq(E) /\ Len(t) = Len(s) + 1
      /\ \A i \in 1 .. Len(s) + 1 : t[i] = IF i <= k THEN lm[i] ELSE r[i - k]
  <2>1. /\ t \in Seq(E) /\ Len(t) = Len(lm) + Len(r)
        /\ \A i \in 1 .. Len(lm) + Len(r) :
             t[i] = IF i <= Len(lm) THEN lm[i] ELSE r[i - Len(lm)]
    BY ZenonT(30), <1>3, <1>5, ConcatProperties
  <2> HIDE DEF t
  <2>2. Len(lm) + Len(r) = Len(s) + 1
    BY <1>3, <1>5
  <2> QED BY SMTT(30), <1>5, <2>1, <2>2
<1> HIDE DEF t
<1> QED
  <2> SUFFICES ASSUME NEW i \in 1 .. Len(s) + 1
               PROVE  t[i] = IF i < k THEN s[i] ELSE IF i = k THEN e ELSE s[i - 1]
    BY <1>4, <1>6
  <2>1. CASE i < k
    BY <2>1, <1>1, <1>5, <1>6
  <2>2. CASE i = k
    BY <2>2, <1>2, <1>5, <1>6
  <2>3. CASE i > k
    <3>1. i - k \in 1 .. Len(s) - k + 1 /\ k + (i - k) - 1 = i - 1
      BY <2>3
    <3>2. r[i - k] = s[k + (i - k) - 1]
      BY <3>1, <1>3
    <3>3. t[i] = r[i - k]
      BY <2>3, <1>6
    <3> QED BY <2>3, <3>1, <3>2, <3>3
  <2> QED BY <2>1, <2>2, <2>3

\* vec.erase(it): what follows the position moves down.
LEMMA ErasedFact ==
  ASSUME NEW E, NEW s \in Seq(E), NEW k \in 1 .. Len(s)
  PROVE  /\ Erased(s, k) \in Seq(E)
         /\ Len(Erased(s, k)) = Len(s) - 1
         /\ \A i \in 1 .. Len(s) - 1 :
              Erased(s, k)[i] = IF i < k THEN s[i] ELSE s[i + 1]
<1>0. Len(s) \in Nat
  BY LenProperties
<1> USE <1>0
<1> DEFINE l == SubSeq(s, 1, k - 1)
           r == SubSeq(s, k + 1, Len(s))
<1>1. /\ l \in Seq(E) /\ Len(l) = k - 1
      /\ \A i \in 1 .. k - 1 : l[i] = s[i]
  <2>1. \A i \in 1 .. k - 1 : s[i] \in E
    OBVIOUS
  <2> QED BY <2>1, SubSeqProperties
<1>2. /\ r \in Seq(E) /\ Len(r) = Len(s) - k
      /\ \A i \in 1 .. Len(s) - k : r[i] = s[k + i]
  <2>1. \A i \in k + 1 .. Len(s) : s[i] \in E
    OBVIOUS
  <2> QED BY <2>1, SubSeqProperties
<1> DEFINE t == l \o r
<1>3. Erased(s, k) = t
  BY DEF Erased
<1> HIDE DEF l, r
<1>4. /\ t \in Seq(E) /\ Len(t) = Len(s) - 1
      /\ \A i \in 1 .. Len(s) - 1 : t[i] = IF i <= k - 1 THEN l[i] ELSE r[i - (k - 1)]
  <2>1. /\ t \in Seq(E) /\ Len(t) = Len(l) + Len(r)
        /\ \A i \in 1 .. Len(l) + Len(r) :
             t[i] = IF i <= Len(l) THEN l[i] ELSE r[i - Len(l)]
    BY Zenon, <1>1, <1>2, ConcatProperties
  <2> HIDE DEF t
  <2>2. Len(l) + Len(r) = Len(s) - 1
    BY <1>1, <1>2
  <2> QED BY <1>1, <2>1, <2>2
<1> HIDE DEF t
<1> QED
  <2> SUFFICES ASSUME NEW i \in 1 .. Len(s) - 1
               PROVE  t[i] = IF i < k THEN s[i] ELSE s[i + 1]
    BY <1>3, <1>4
  <2>1. CASE i < k
    BY <2>1, <1>1, <1>4
  <2>2. CASE i >= k
    <3>1. i - (k - 1) \in 1 .. Len(s) - k /\ k + (i - (k - 1)) = i + 1
      BY <2>2
    <3> QED BY <2>2, <3>1, <1>2, <1>4
  <2> QED BY <2>1, <2>2

\* vec.pop_back()
LEMMA PopBackFact ==
  ASSUME NEW E, NEW s \in Seq(E), Len(s) > 0
  PROVE  /\ PopBack(s) \in Seq(E)
         /\ Len(PopBack(s)) = Len(s) - 1
         /\ \A i \in 1 .. Len(s) - 1 : PopBack(s)[i] = s[i]
<1>1. PICK n \in Nat : Len(s) = n + 1
  <2>1. Len(s) \in Nat
    BY LenProperties
  <2> WITNESS Len(s) - 1 \in Nat
  <2> QED BY <2>1
<1>2. \A i \in 1 .. n : s[i] \in E
  BY <1>1
<1> DEFINE t == SubSeq(s, 1, n)
<1>3. /\ t \in Seq(E)
      /\ Len(t) = IF 1 <= n THEN n - 1 + 1 ELSE 0
      /\ \A i \in 1 .. n - 1 + 1 : t[i] = s[1 + i - 1]
  BY <1>2, SubSeqProperties
<1>4. PopBack(s) = t
  BY <1>1 DEF PopBack
<1> HIDE DEF t
<1>5. Len(t) = n
  BY <1>3
<1>6. ASSUME NEW i \in 1 .. n PROVE t[i] = s[i]
  <2>1. i \in 1 .. n - 1 + 1 /\ 1 + i - 1 = i
    OBVIOUS
  <2> QED BY <1>3, <2>1
<1> QED BY <1>1, <1>3, <1>4, <1>5, <1>6

-----------------------------------------------------------------------------
(* Sorted sides.                                                            *)

\* Ticks are totally ordered on either side.
LEMMA AheadFact ==
  ASSUME NEW S, NEW p \in Nat, NEW q \in Nat, NEW r \in Nat
  PROVE  /\ Ahead(S, p, q) /\ Ahead(S, q, r) => Ahead(S, p, r)
         /\ ~ Ahead(S, p, q) /\ p # q => Ahead(S, q, p)
         /\ Ahead(S, p, q) => p # q
BY DEF Ahead

\* Levels of a side have natural ticks and lots.
LEMMA LevelFact ==
  ASSUME NEW vec \in Seq(Level), NEW i \in 1 .. Len(vec)
  PROVE  /\ vec[i] \in Level
         /\ vec[i].priceTick \in Ticks /\ vec[i].priceTick \in Nat
         /\ vec[i].quantityLot \in Nat
<1>1. vec[i] \in Level
  BY ElementOfSeq
<1>2. \A l \in Level : l.priceTick \in Ticks /\ l.quantityLot \in Lots
  BY DEF Level
<1> QED BY Zenon, <1>1, <1>2, TicksAssumption, LotsAssumption

\* Neighbours in order are enough for any two levels to be in order.
LEMMA SortedPairwise ==
  ASSUME NEW S, NEW vec \in Seq(Level), StrictlySorted(S, vec),
         NEW i \in 1 .. Len(vec), NEW j \in 1 .. Len(vec), i < j
  PROVE  Ahead(S, vec[i].priceTick, vec[j].priceTick)
<1>1. \A m \in 1 .. Len(vec) : vec[m].priceTick \in Nat
  BY LevelFact
<1>2. Len(vec) \in Nat
  BY LenProperties
<1> DEFINE T == {n \in Nat : i + n + 1 <= Len(vec) =>
                               Ahead(S, vec[i].priceTick, vec[i + n + 1].priceTick)}
<1>3. \A m \in 1 .. Len(vec) : m > 1 => Ahead(S, vec[m - 1].priceTick, vec[m].priceTick)
  BY DEF StrictlySorted
<1>4. 0 \in T
  <2>1. SUFFICES ASSUME i + 1 <= Len(vec) PROVE Ahead(S, vec[i].priceTick, vec[i + 1].priceTick)
    OBVIOUS
  <2>2. i + 1 \in 1 .. Len(vec) /\ i + 1 > 1 /\ (i + 1) - 1 = i
    BY <1>2, <2>1
  <2> QED BY <1>3, <2>2
<1>5. ASSUME NEW n \in T PROVE n + 1 \in T
  <2>1. SUFFICES ASSUME i + (n + 1) + 1 <= Len(vec)
                 PROVE  Ahead(S, vec[i].priceTick, vec[i + (n + 1) + 1].priceTick)
    OBVIOUS
  <2>2. PICK a, b \in 1 .. Len(vec) : /\ a = i + n + 1 /\ b = i + (n + 1) + 1
                                     /\ b > 1 /\ b - 1 = a
    BY <1>2, <2>1
  <2>3. Ahead(S, vec[i].priceTick, vec[a].priceTick)
    BY <2>2
  <2>4. Ahead(S, vec[a].priceTick, vec[b].priceTick)
    BY <1>3, <2>2
  <2>5. Ahead(S, vec[i].priceTick, vec[b].priceTick)
    BY <1>1, <2>3, <2>4, AheadFact
  <2> QED BY <2>2, <2>5
<1>6. T = Nat
  <2> HIDE DEF T
  <2>1. T \subseteq Nat
    BY DEF T
  <2> QED BY Zenon, <1>4, <1>5, <2>1, SetInduction
<1>7. j - i - 1 \in Nat /\ i + (j - i - 1) + 1 = j
  OBVIOUS
<1>8. i + (j - i - 1) + 1 <= Len(vec) =>
        Ahead(S, vec[i].priceTick, vec[i + (j - i - 1) + 1].priceTick)
  BY Zenon, <1>6, <1>7
<1> QED BY <1>7, <1>8

\* lower_bound exists: the first level that does not rank ahead of the tick.
LEMMA LowerBoundFact ==
  ASSUME NEW S, NEW vec \in Seq(Level), NEW tick \in Nat
  PROVE  /\ LowerBound(S, vec, tick) \in 1 .. Len(vec) + 1
         /\ \A i \in 1 .. LowerBound(S, vec, tick) - 1 : Ahead(S, vec[i].priceTick, tick)
         /\ LowerBound(S, vec, tick) <= Len(vec) =>
              ~ Ahead(S, vec[LowerBound(S, vec, tick)].priceTick, tick)
<1>1. Len(vec) \in Nat
  BY LenProperties
<1> DEFINE T == {k \in 1 .. Len(vec) + 1 :
                   k <= Len(vec) => ~ Ahead(S, vec[k].priceTick, tick)}
<1>2. T \subseteq Nat /\ Len(vec) + 1 \in T
  BY <1>1
<1>3. PICK k \in T : \A y \in T : k <= y
  <2> HIDE DEF T
  <2> QED BY Zenon, <1>2, LeastNat
<1>4. k \in 1 .. Len(vec) + 1 /\ (k <= Len(vec) => ~ Ahead(S, vec[k].priceTick, tick))
  OBVIOUS
<1>5. ASSUME NEW i \in 1 .. k - 1 PROVE Ahead(S, vec[i].priceTick, tick)
  <2>1. i \in 1 .. Len(vec) + 1 /\ i <= Len(vec) /\ ~ (k <= i)
    BY <1>1, <1>4
  <2>2. i \notin T
    BY <1>3, <2>1
  <2> QED BY <2>1, <2>2
<1> HIDE DEF T
<1> QED BY Zenon, <1>4, <1>5 DEF LowerBound

-----------------------------------------------------------------------------
(* What one update does to a side.                                          *)

GoodSide(S, vec) == vec \in Seq(Level) /\ ValidSide(S, vec)

\* Every level of new at this tick has this (non-zero) quantity, and every
\* other level of new is a level of old.
Reflects(new, old, tick, lot) ==
  \A i \in 1 .. Len(new) :
    IF new[i].priceTick = tick
    THEN lot # 0 /\ new[i].quantityLot = lot
    ELSE \E j \in 1 .. Len(old) : new[i] = old[j]

\* Conversely new has a level at this tick if the quantity is not 0, and every
\* level of old at another tick.
Covers(new, old, tick, lot) ==
  /\ lot # 0 => \E i \in 1 .. Len(new) : new[i].priceTick = tick
  /\ \A j \in 1 .. Len(old) :
       old[j].priceTick # tick => \E i \in 1 .. Len(new) : new[i] = old[j]

\* Where lower_bound finds no level with the tick, no level has it, and the
\* levels from there on rank behind it.
LEMMA NoHitFact ==
  ASSUME NEW S, NEW vec, GoodSide(S, vec), NEW tick \in Nat,
         ~ HitAt(vec, LowerBound(S, vec, tick), tick)
  PROVE  /\ \A i \in 1 .. Len(vec) : vec[i].priceTick # tick
         /\ \A i \in 1 .. Len(vec) :
              i >= LowerBound(S, vec, tick) => Ahead(S, tick, vec[i].priceTick)
<1> DEFINE k == LowerBound(S, vec, tick)
<1>1. vec \in Seq(Level) /\ ValidSide(S, vec)
  BY DEF GoodSide
<1>2. Len(vec) \in Nat
  BY <1>1, LenProperties
<1>3. /\ k \in 1 .. Len(vec) + 1
      /\ \A i \in 1 .. k - 1 : Ahead(S, vec[i].priceTick, tick)
      /\ k <= Len(vec) => ~ Ahead(S, vec[k].priceTick, tick)
  BY <1>1, LowerBoundFact
<1>4. \A i \in 1 .. Len(vec) : vec[i].priceTick \in Nat
  BY <1>1, LevelFact
<1>5. \A i, j \in 1 .. Len(vec) : i < j => Ahead(S, vec[i].priceTick, vec[j].priceTick)
  BY <1>1, SortedPairwise DEF ValidSide
<1>6. ~ HitAt(vec, k, tick)
  OBVIOUS
<1> HIDE DEF k
<1>7. ASSUME NEW i \in 1 .. Len(vec), i >= k PROVE Ahead(S, tick, vec[i].priceTick)
  <2>1. k \in 1 .. Len(vec) /\ k <= Len(vec)
    BY <1>2, <1>3, <1>7
  <2>2. Ahead(S, tick, vec[k].priceTick)
    BY <1>3, <1>4, <1>6, <2>1, AheadFact DEF HitAt
  <2>3. CASE i = k
    BY <2>2, <2>3
  <2>4. CASE i > k
    <3>1. Ahead(S, vec[k].priceTick, vec[i].priceTick)
      BY <1>5, <2>1, <2>4
    <3> QED BY <1>4, <2>1, <2>2, <3>1, AheadFact
  <2> QED BY <1>2, <1>3, <1>7, <2>3, <2>4
<1>8. ASSUME NEW i \in 1 .. Len(vec) PROVE vec[i].priceTick # tick
  <2>1. CASE i < k
    <3>1. i \in 1 .. k - 1
      BY <1>2, <1>3, <2>1
    <3> QED BY <1>3, <1>4, <3>1, AheadFact
  <2>2. CASE i >= k
    <3>1. Ahead(S, tick, vec[i].priceTick)
      BY <1>7, <2>2
    <3> QED BY <1>4, <3>1, AheadFact
  <2> QED BY <1>2, <1>3, <2>1, <2>2
<1> QED BY <1>7, <1>8 DEF k

\* remove() keeps a side valid and leaves no level at the tick.
LEMMA RemoveTickFact ==
  ASSUME NEW S, NEW vec, GoodSide(S, vec), NEW tick \in Nat
  PROVE  /\ GoodSide(S, RemoveTick(S, vec, tick))
         /\ Reflects(RemoveTick(S, vec, tick), vec, tick, 0)
         /\ Covers(RemoveTick(S, vec, tick), vec, tick, 0)
<1> DEFINE k == LowerBound(S, vec, tick)
<1>1. vec \in Seq(Level) /\ ValidSide(S, vec)
  BY DEF GoodSide
<1>2. Len(vec) \in Nat
  BY <1>1, LenProperties
<1>3. /\ k \in 1 .. Len(vec) + 1
      /\ \A i \in 1 .. k - 1 : Ahead(S, vec[i].priceTick, tick)
      /\ k <= Len(vec) => ~ Ahead(S, vec[k].priceTick, tick)
  BY <1>1, LowerBoundFact
<1>4. \A i \in 1 .. Len(vec) : vec[i].priceTick \in Nat /\ vec[i] \in Level
  BY <1>1, LevelFact
<1>5. \A i, j \in 1 .. Len(vec) : i < j => Ahead(S, vec[i].priceTick, vec[j].priceTick)
  BY <1>1, SortedPairwise DEF ValidSide
<1> HIDE DEF k
<1>6. CASE HitAt(vec, k, tick)
  <2> DEFINE t == Erased(vec, k)
  <2>1. k \in 1 .. Len(vec) /\ vec[k].priceTick = tick
    BY <1>2, <1>3, <1>6 DEF HitAt
  <2>2. RemoveTick(S, vec, tick) = t
    BY <1>6 DEF RemoveTick, k
  <2>3. /\ t \in Seq(Level) /\ Len(t) = Len(vec) - 1
        /\ \A i \in 1 .. Len(vec) - 1 : t[i] = IF i < k THEN vec[i] ELSE vec[i + 1]
    BY <1>1, <2>1, ErasedFact
  <2> HIDE DEF t
  <2>4. ASSUME NEW i \in 1 .. Len(t)
        PROVE  \E j \in 1 .. Len(vec) : /\ j # k /\ t[i] = vec[j]
                                        /\ j = IF i < k THEN i ELSE i + 1
    <3>1. CASE i < k
      <4>1. i \in 1 .. Len(vec) /\ t[i] = vec[i] /\ i # k
        BY <1>2, <2>1, <2>3, <3>1
      <4> QED BY <3>1, <4>1
    <3>2. CASE ~ (i < k)
      <4>1. i + 1 \in 1 .. Len(vec) /\ t[i] = vec[i + 1] /\ i + 1 # k
        BY <1>2, <2>1, <2>3, <3>2
      <4> QED BY <3>2, <4>1
    <3> QED BY <3>1, <3>2
  <2>5. StrictlySorted(S, t)
    <3> SUFFICES ASSUME NEW i \in 1 .. Len(t), i > 1
                 PROVE  Ahead(S, t[i - 1].priceTick, t[i].priceTick)
      BY DEF StrictlySorted
    <3>1. PICK a \in 1 .. Len(vec) : t[i] = vec[a] /\ a = IF i < k THEN i ELSE i + 1
      BY <2>4
    <3>2. i - 1 \in 1 .. Len(t)
      BY <1>2, <2>3
    <3>3. PICK b \in 1 .. Len(vec) : /\ t[i - 1] = vec[b]
                                     /\ b = IF i - 1 < k THEN i - 1 ELSE (i - 1) + 1
      BY <2>4, <3>2
    <3>4. b < a
      BY <2>1, <3>1, <3>3
    <3> QED BY <1>5, <3>1, <3>3, <3>4
  <2>6. \A i \in 1 .. Len(t) : ~ IsEmpty(t[i])
    BY <1>1, <2>4 DEF ValidSide
  <2>7. Len(t) <= Depth
    BY <1>1, <1>2, <2>3, DepthAssumption DEF ValidSide
  <2>8. Reflects(t, vec, tick, 0)
    <3> SUFFICES ASSUME NEW i \in 1 .. Len(t)
                 PROVE  t[i].priceTick # tick /\ \E j \in 1 .. Len(vec) : t[i] = vec[j]
      BY DEF Reflects
    <3>1. PICK j \in 1 .. Len(vec) : j # k /\ t[i] = vec[j]
      BY <2>4
    <3>2. j < k \/ k < j
      BY <2>1, <3>1
    <3>3. vec[j].priceTick # vec[k].priceTick
      BY <1>4, <1>5, <2>1, <3>2, AheadFact
    <3> QED BY <2>1, <3>1, <3>3
  <2>9. Covers(t, vec, tick, 0)
    <3> SUFFICES ASSUME NEW j \in 1 .. Len(vec), j # k PROVE \E i \in 1 .. Len(t) : t[i] = vec[j]
      BY <2>1 DEF Covers
    <3>1. CASE j < k
      <4>1. j \in 1 .. Len(t) /\ t[j] = vec[j]
        BY <1>2, <2>1, <2>3, <3>1
      <4> QED BY <4>1
    <3>2. CASE j > k
      <4>1. j - 1 \in 1 .. Len(t) /\ ~ (j - 1 < k) /\ j - 1 + 1 = j
        BY <1>2, <2>1, <2>3, <3>2
      <4>2. t[j - 1] = vec[j]
        BY <2>3, <4>1
      <4> QED BY <4>1, <4>2
    <3> QED BY <1>2, <2>1, <3>1, <3>2
  <2>10. GoodSide(S, t)
    BY SMTT(30), <2>3, <2>5, <2>6, <2>7 DEF GoodSide, ValidSide
  <2> QED BY <2>2, <2>8, <2>9, <2>10
<1>7. CASE ~ HitAt(vec, k, tick)
  <2>1. RemoveTick(S, vec, tick) = vec
    BY <1>7 DEF RemoveTick, k
  <2>2. \A i \in 1 .. Len(vec) : vec[i].priceTick # tick
    BY <1>7, NoHitFact DEF k
  <2> QED BY <2>1, <2>2 DEF Reflects, Covers
<1> QED BY <1>6, <1>7

\* An insertion at the position of lower_bound keeps a side sorted.
LEMMA InsertFact ==
  ASSUME NEW S, NEW vec, GoodSide(S, vec), NEW level \in Level, ~ IsEmpty(level),
         ~ HitAt(vec, LowerBound(S, vec, level.priceTick), level.priceTick),
         NEW t, t = Inserted(vec, LowerBound(S, vec, level.priceTick), level)
  PROVE  /\ t \in Seq(Level) /\ Len(t) = Len(vec) + 1
         /\ StrictlySorted(S, t)
         /\ \A i \in 1 .. Len(t) : ~ IsEmpty(t[i])
         /\ Reflects(t, vec, level.priceTick, level.quantityLot)
         /\ Covers(t, vec, level.priceTick, level.quantityLot)
<1> DEFINE tick == level.priceTick
           k == LowerBound(S, vec, tick)
<1>1. vec \in Seq(Level) /\ ValidSide(S, vec)
  BY DEF GoodSide
<1>2. Len(vec) \in Nat
  BY <1>1, LenProperties
<1>3. tick \in Nat
  BY Zenon, TicksAssumption DEF Level
<1>4. k \in 1 .. Len(vec) + 1 /\ \A i \in 1 .. k - 1 : Ahead(S, vec[i].priceTick, tick)
  BY <1>1, <1>3, LowerBoundFact
<1>5. /\ \A i \in 1 .. Len(vec) : vec[i].priceTick # tick
      /\ \A i \in 1 .. Len(vec) : i >= k => Ahead(S, tick, vec[i].priceTick)
  BY <1>3, NoHitFact
<1>6. \A i \in 1 .. Len(vec) : i > 1 => Ahead(S, vec[i - 1].priceTick, vec[i].priceTick)
  BY <1>1 DEF ValidSide, StrictlySorted
<1>7. t = Inserted(vec, k, level)
  OBVIOUS
<1> HIDE DEF k
<1>8. /\ t \in Seq(Level) /\ Len(t) = Len(vec) + 1
      /\ \A i \in 1 .. Len(vec) + 1 :
           t[i] = IF i < k THEN vec[i] ELSE IF i = k THEN level ELSE vec[i - 1]
  <2> DEFINE ins == Inserted(vec, k, level)
  <2>1. /\ ins \in Seq(Level) /\ Len(ins) = Len(vec) + 1
        /\ \A i \in 1 .. Len(vec) + 1 :
             ins[i] = IF i < k THEN vec[i] ELSE IF i = k THEN level ELSE vec[i - 1]
    BY SMTT(60), <1>1, <1>4, InsertedFact
  <2> HIDE DEF ins
  <2>2. t = ins
    BY <1>7 DEF ins
  <2> QED BY <2>1, <2>2
<1>9. StrictlySorted(S, t)
  <2> SUFFICES ASSUME NEW i \in 1 .. Len(t), i > 1
               PROVE  Ahead(S, t[i - 1].priceTick, t[i].priceTick)
    BY DEF StrictlySorted
  <2>1. i \in 1 .. Len(vec) + 1 /\ i - 1 \in 1 .. Len(vec) + 1 /\ i - 1 \in 1 .. Len(vec)
    BY <1>2, <1>8
  <2>k. k \in Nat /\ i \in Nat /\ k <= Len(vec) + 1
    BY <1>2, <1>4, <2>1
  <2>t. /\ t[i] = IF i < k THEN vec[i] ELSE IF i = k THEN level ELSE vec[i - 1]
        /\ t[i - 1] = IF i - 1 < k THEN vec[i - 1]
                      ELSE IF i - 1 = k THEN level ELSE vec[(i - 1) - 1]
    BY ONLY <1>8, <2>1
  <2>2. CASE i < k
    <3>1. i - 1 < k /\ i \in 1 .. Len(vec)
      BY ONLY <1>2, <2>1, <2>k, <2>2
    <3>2. t[i] = vec[i] /\ t[i - 1] = vec[i - 1]
      BY ONLY <2>t, <2>2, <3>1
    <3> QED BY <1>6, <3>1, <3>2
  <2>3. CASE i = k
    <3>1. i - 1 < k /\ ~ (i < k) /\ i - 1 \in 1 .. k - 1
      BY ONLY <2>1, <2>k, <2>3
    <3>2. t[i] = level /\ t[i - 1] = vec[i - 1]
      BY ONLY <2>t, <2>3, <3>1
    <3> QED BY <1>4, <3>1, <3>2
  <2>4. CASE i = k + 1
    <3>1. i - 1 = k /\ ~ (i < k) /\ i # k /\ ~ (i - 1 < k) /\ i - 1 >= k
      BY ONLY <2>k, <2>4
    <3>2. t[i] = vec[i - 1] /\ t[i - 1] = level
      BY ONLY <2>t, <3>1
    <3> QED BY <1>5, <2>1, <3>1, <3>2
  <2>5. CASE i > k + 1
    <3>1. i - 1 > 1 /\ ~ (i < k) /\ i # k /\ ~ (i - 1 < k) /\ i - 1 # k
      BY ONLY <1>4, <2>1, <2>k, <2>5
    <3>2. t[i] = vec[i - 1] /\ t[i - 1] = vec[(i - 1) - 1]
      BY ONLY <2>t, <3>1
    <3> QED BY <1>6, <2>1, <3>1, <3>2
  <2> QED BY ONLY SMTT(30), <2>k, <2>2, <2>3, <2>4, <2>5
<1>10. ASSUME NEW i \in 1 .. Len(t)
       PROVE  t[i] = level \/ \E j \in 1 .. Len(vec) : t[i] = vec[j]
  <2>1. CASE i < k
    BY <1>2, <1>4, <1>8, <2>1
  <2>2. CASE i = k
    BY <1>8, <2>2
  <2>3. CASE i > k
    <3>1. i - 1 \in 1 .. Len(vec) /\ t[i] = vec[i - 1]
      BY <1>2, <1>4, <1>8, <2>3
    <3> QED BY <3>1
  <2> QED BY SMTT(30), <1>2, <1>4, <1>8, <2>1, <2>2, <2>3
<1>11. \A i \in 1 .. Len(t) : ~ IsEmpty(t[i])
  BY <1>1, <1>10 DEF ValidSide
<1>12. Reflects(t, vec, level.priceTick, level.quantityLot)
  BY <1>5, <1>10 DEF Reflects, IsEmpty
<1>13. Covers(t, vec, level.priceTick, level.quantityLot)
  <2>1. k \in 1 .. Len(t) /\ t[k] = level
    BY <1>2, <1>4, <1>8
  <2>2. ASSUME NEW j \in 1 .. Len(vec) PROVE \E i \in 1 .. Len(t) : t[i] = vec[j]
    <3>1. CASE j < k
      <4>1. j \in 1 .. Len(t) /\ t[j] = vec[j]
        BY <1>2, <1>4, <1>8, <3>1
      <4> QED BY <4>1
    <3>2. CASE ~ (j < k)
      <4>1. j + 1 \in 1 .. Len(vec) + 1 /\ ~ (j + 1 < k) /\ j + 1 # k /\ (j + 1) - 1 = j
        BY <1>2, <1>4, <3>2
      <4>2. t[j + 1] = vec[j]
        BY <1>8, <4>1
      <4> QED BY <1>8, <4>1, <4>2
    <3> QED BY <3>1, <3>2
  <2> QED BY ZenonT(30), <2>1, <2>2 DEF Covers
<1> QED BY <1>8, <1>9, <1>11, <1>12, <1>13

\* An overwrite at the position of lower_bound keeps a side valid.
LEMMA OverwriteFact ==
  ASSUME NEW S, NEW vec, GoodSide(S, vec), NEW level \in Level, ~ IsEmpty(level),
         NEW k, k = LowerBound(S, vec, level.priceTick), HitAt(vec, k, level.priceTick),
         NEW u, u = [vec EXCEPT ![k].quantityLot = level.quantityLot]
  PROVE  /\ GoodSide(S, u)
         /\ Reflects(u, vec, level.priceTick, level.quantityLot)
         /\ Covers(u, vec, level.priceTick, level.quantityLot)
<1> DEFINE tick == level.priceTick
<1>1. vec \in Seq(Level) /\ ValidSide(S, vec) /\ Len(vec) <= Depth
  BY DEF GoodSide, ValidSide
<1>2. Len(vec) \in Nat /\ Depth \in Nat
  BY <1>1, LenProperties, DepthAssumption
<1>3. tick \in Nat
  BY Zenon, TicksAssumption DEF Level
<1>4. k \in 1 .. Len(vec) + 1
  BY ZenonT(30), <1>1, <1>3, LowerBoundFact
<1>5. k \in 1 .. Len(vec) /\ vec[k].priceTick = tick
  BY <1>2, <1>4 DEF HitAt
<1>6. vec[k] \in Level /\ [vec[k] EXCEPT !.quantityLot = level.quantityLot] \in Level
  BY Zenon, <1>1, <1>5, LevelFact DEF Level
<1>7. u = [vec EXCEPT ![k] = [vec[k] EXCEPT !.quantityLot = level.quantityLot]]
  OBVIOUS
<1>8. /\ u \in Seq(Level) /\ Len(u) = Len(vec)
      /\ \A i \in 1 .. Len(vec) :
           u[i] = IF i = k THEN [vec[k] EXCEPT !.quantityLot = level.quantityLot] ELSE vec[i]
  BY <1>1, <1>5, <1>6, <1>7, ExceptSeq
<1>9. \A i \in 1 .. Len(vec) : u[i].priceTick = vec[i].priceTick
  BY <1>6, <1>8 DEF Level
<1>10. u[k].quantityLot = level.quantityLot
  BY <1>5, <1>6, <1>8 DEF Level
<1>11. StrictlySorted(S, u)
  <2> SUFFICES ASSUME NEW i \in 1 .. Len(vec), i > 1
               PROVE  Ahead(S, u[i - 1].priceTick, u[i].priceTick)
    BY <1>8 DEF StrictlySorted
  <2>1. i - 1 \in 1 .. Len(vec)
    BY <1>2
  <2> QED BY <1>1, <1>9, <2>1 DEF ValidSide, StrictlySorted
<1>12. \A i \in 1 .. Len(u) : ~ IsEmpty(u[i])
  BY <1>1, <1>8, <1>10 DEF ValidSide, IsEmpty
<1>13. \A i \in 1 .. Len(vec) : i # k => vec[i].priceTick # tick
  <2> SUFFICES ASSUME NEW i \in 1 .. Len(vec), i # k PROVE vec[i].priceTick # tick
    OBVIOUS
  <2>1. i < k \/ k < i
    BY <1>2, <1>5
  <2>2. Ahead(S, vec[i].priceTick, vec[k].priceTick) \/ Ahead(S, vec[k].priceTick, vec[i].priceTick)
    BY <1>1, <1>5, <2>1, SortedPairwise DEF ValidSide
  <2>3. vec[i].priceTick \in Nat /\ vec[k].priceTick \in Nat
    BY <1>1, <1>5, LevelFact
  <2> QED BY <1>5, <2>2, <2>3, AheadFact
<1>14. Reflects(u, vec, tick, level.quantityLot)
  BY SMTT(30), <1>5, <1>8, <1>9, <1>10, <1>13 DEF Reflects, IsEmpty
<1>15. Covers(u, vec, tick, level.quantityLot)
  BY <1>5, <1>8, <1>9 DEF Covers
<1>16. GoodSide(S, u)
  BY SMTT(30), <1>1, <1>8, <1>11, <1>12 DEF GoodSide, ValidSide
<1> QED BY <1>14, <1>15, <1>16

\* A side but for the depth: sorted, without empty levels.
Ladder(S, t) == t \in Seq(Level) /\ StrictlySorted(S, t) /\ \A i \in 1 .. Len(t) : ~ IsEmpty(t[i])

\* update() sets one tick of the ladder and drops the last level if the side was
\* full: also where it leaves the side alone because the new level is the last.
LEMMA UpdateExact ==
  ASSUME NEW S, NEW vec, GoodSide(S, vec), NEW level \in Level
  PROVE  \E t : /\ Ladder(S, t) /\ Len(t) <= Depth + 1
               /\ Reflects(t, vec, level.priceTick, level.quantityLot)
               /\ Covers(t, vec, level.priceTick, level.quantityLot)
               /\ Update(S, vec, level) = IF Len(t) <= Depth THEN t ELSE PopBack(t)
<1> DEFINE tick == level.priceTick
           k == LowerBound(S, vec, tick)
           t == Inserted(vec, k, level)
           Result(u) == /\ Ladder(S, u) /\ Len(u) <= Depth + 1
                        /\ Reflects(u, vec, tick, level.quantityLot)
                        /\ Covers(u, vec, tick, level.quantityLot)
                        /\ Update(S, vec, level) = IF Len(u) <= Depth THEN u ELSE PopBack(u)
<1>1. vec \in Seq(Level) /\ ValidSide(S, vec) /\ Len(vec) <= Depth
  BY DEF GoodSide, ValidSide
<1>2. Len(vec) \in Nat /\ Depth \in Nat
  BY <1>1, LenProperties, DepthAssumption
<1>3. tick \in Nat
  BY Zenon, TicksAssumption DEF Level
<1>4. k \in 1 .. Len(vec) + 1
  BY <1>1, <1>3, LowerBoundFact
<1>5. ASSUME NEW u, GoodSide(S, u), Update(S, vec, level) = u,
             Reflects(u, vec, tick, level.quantityLot), Covers(u, vec, tick, level.quantityLot)
      PROVE  Result(u)
  <2>1. Len(u) <= Depth /\ Len(u) \in Nat
    BY <1>5, LenProperties DEF GoodSide, ValidSide
  <2>2. Ladder(S, u) /\ Len(u) <= Depth + 1
    BY <1>2, <1>5, <2>1 DEF GoodSide, ValidSide, Ladder
  <2> QED BY <1>5, <2>1, <2>2
<1>6. CASE IsEmpty(level)
  <2> DEFINE u == RemoveTick(S, vec, tick)
  <2>1. Update(S, vec, level) = u /\ level.quantityLot = 0
    BY <1>6 DEF Update, IsEmpty
  <2>2. GoodSide(S, u) /\ Reflects(u, vec, tick, 0) /\ Covers(u, vec, tick, 0)
    BY <1>3, RemoveTickFact
  <2>3. Result(u)
    BY <1>5, <2>1, <2>2
  <2> HIDE DEF Result
  <2>4. \E x : Result(x)
    BY <2>3
  <2> QED BY <2>4 DEF Result
<1>7. CASE ~ IsEmpty(level) /\ HitAt(vec, k, tick)
  <2> DEFINE u == [vec EXCEPT ![k].quantityLot = level.quantityLot]
  <2>1. Update(S, vec, level) = u
    BY <1>7 DEF Update
  <2>2. /\ GoodSide(S, u) /\ Reflects(u, vec, tick, level.quantityLot)
        /\ Covers(u, vec, tick, level.quantityLot)
    BY <1>7, OverwriteFact
  <2> HIDE DEF u
  <2>3. Result(u)
    BY <1>5, <2>1, <2>2
  <2> HIDE DEF Result
  <2>4. \E x : Result(x)
    BY <2>3
  <2> QED BY <2>4 DEF Result
<1>8. CASE ~ IsEmpty(level) /\ ~ HitAt(vec, k, tick)
  <2>1. /\ t \in Seq(Level) /\ Len(t) = Len(vec) + 1
        /\ StrictlySorted(S, t)
        /\ \A i \in 1 .. Len(t) : ~ IsEmpty(t[i])
        /\ Reflects(t, vec, tick, level.quantityLot)
        /\ Covers(t, vec, tick, level.quantityLot)
    BY <1>8, InsertFact
  <2>2. Update(S, vec, level) = IF Len(vec) < Depth THEN t
                                ELSE IF k <= Len(vec) THEN PopBack(t) ELSE vec
    BY <1>8 DEF Update
  <2>3. CASE k <= Len(vec) \/ Len(vec) < Depth
    <3> HIDE DEF t
    <3>1. Update(S, vec, level) = IF Len(t) <= Depth THEN t ELSE PopBack(t)
      BY <1>2, <2>1, <2>2, <2>3
    <3>2. Len(t) <= Depth + 1
      BY <1>1, <1>2, <2>1
    <3>3. Result(t)
      BY <2>1, <3>1, <3>2 DEF Ladder
    <3> HIDE DEF Result
    <3>4. \E x : Result(x)
      BY <3>3
    <3> QED BY <3>4 DEF Result
  <2>4. CASE ~ (k <= Len(vec)) /\ ~ (Len(vec) < Depth)
    <3>1. k = Len(vec) + 1
      BY <1>2, <1>4, <2>4
    <3> HIDE DEF k
    <3>2. \A i \in 1 .. Len(vec) + 1 :
            t[i] = IF i < k THEN vec[i] ELSE IF i = k THEN level ELSE vec[i - 1]
      <4>1. vec \in Seq(Level) /\ level \in Level /\ k \in 1 .. Len(vec) + 1
        BY <1>1, <1>4
      <4> QED BY SMTT(60), <4>1, InsertedFact
    <3> HIDE DEF t
    <3>3. /\ PopBack(t) \in Seq(Level) /\ Len(PopBack(t)) = Len(t) - 1
          /\ \A i \in 1 .. Len(t) - 1 : PopBack(t)[i] = t[i]
      <4>1. Len(t) > 0
        BY <1>2, <2>1
      <4> QED BY <2>1, <4>1, PopBackFact
    <3>4. Len(PopBack(t)) = Len(vec) /\ \A i \in 1 .. Len(vec) : PopBack(t)[i] = vec[i]
      BY <1>2, <2>1, <3>1, <3>2, <3>3
    <3>5. PopBack(t) = vec
      BY <1>1, <3>3, <3>4, SeqEqual
    <3>6. Update(S, vec, level) = IF Len(t) <= Depth THEN t ELSE PopBack(t)
      BY <1>2, <2>1, <2>2, <2>4, <3>5
    <3>7. Len(t) <= Depth + 1
      BY <1>1, <1>2, <2>1
    <3>8. Result(t)
      BY <2>1, <3>6, <3>7 DEF Ladder
    <3> HIDE DEF Result
    <3>9. \E x : Result(x)
      BY <3>8
    <3> QED BY <3>9 DEF Result
  <2> QED BY SMTT(30), <2>3, <2>4
<1> QED BY <1>6, <1>7, <1>8

\* update() keeps a side valid, sets the tick to the level's quantity or leaves
\* no level there, and otherwise only keeps levels that were there.
LEMMA UpdateFact ==
  ASSUME NEW S, NEW vec, GoodSide(S, vec), NEW level \in Level
  PROVE  /\ GoodSide(S, Update(S, vec, level))
         /\ Reflects(Update(S, vec, level), vec, level.priceTick, level.quantityLot)
<1>1. PICK t : /\ Ladder(S, t) /\ Len(t) <= Depth + 1
               /\ Reflects(t, vec, level.priceTick, level.quantityLot)
               /\ Update(S, vec, level) = IF Len(t) <= Depth THEN t ELSE PopBack(t)
  BY UpdateExact
<1>2. /\ t \in Seq(Level) /\ StrictlySorted(S, t) /\ \A i \in 1 .. Len(t) : ~ IsEmpty(t[i])
      /\ Len(t) \in Nat /\ Depth \in Nat
  BY <1>1, LenProperties, DepthAssumption DEF Ladder
<1>3. CASE Len(t) <= Depth
  BY <1>1, <1>2, <1>3 DEF GoodSide, ValidSide
<1>4. CASE ~ (Len(t) <= Depth)
  <2> DEFINE f == PopBack(t)
  <2>1. Update(S, vec, level) = f
    BY <1>1, <1>4
  <2>2. /\ f \in Seq(Level) /\ Len(f) = Len(t) - 1
        /\ \A i \in 1 .. Len(t) - 1 : f[i] = t[i]
    <3>1. Len(t) > 0
      BY SMTT(30), <1>2, <1>4
    <3> QED BY <1>2, <3>1, PopBackFact
  <2> HIDE DEF f
  <2>3. Len(f) <= Depth /\ \A i \in 1 .. Len(f) : f[i] = t[i] /\ i \in 1 .. Len(t)
    BY <1>1, <1>2, <2>2
  <2>4. StrictlySorted(S, f)
    <3> SUFFICES ASSUME NEW i \in 1 .. Len(f), i > 1
                 PROVE  Ahead(S, f[i - 1].priceTick, f[i].priceTick)
      BY DEF StrictlySorted
    <3>1. i - 1 \in 1 .. Len(f)
      BY SMTT(30), <1>2, <2>2
    <3> QED BY SMTT(30), <1>2, <2>3, <3>1 DEF StrictlySorted
  <2>5. \A i \in 1 .. Len(f) : ~ IsEmpty(f[i])
    BY <1>2, <2>3
  <2>6. Reflects(f, vec, level.priceTick, level.quantityLot)
    BY <1>1, <2>3 DEF Reflects
  <2> QED BY SMTT(30), <2>1, <2>2, <2>3, <2>4, <2>5, <2>6 DEF GoodSide, ValidSide
<1> QED BY <1>3, <1>4

\* A freshly constructed or cleared side is valid.
LEMMA EmptySideGood ==
  ASSUME NEW S
  PROVE  GoodSide(S, <<>>)
BY DepthAssumption, EmptySeq DEF GoodSide, ValidSide, StrictlySorted

\* A parsed level is a level.
LEMMA ParsedLevelFact ==
  ASSUME NEW tick \in Ticks, NEW lot \in Lots
  PROVE  /\ ParsedLevel(tick, lot) \in Level
         /\ ParsedLevel(tick, lot).priceTick = tick
         /\ ParsedLevel(tick, lot).quantityLot = lot
BY DEF ParsedLevel, Level

-----------------------------------------------------------------------------
(* The map a side stands for.                                               *)

\* A ladder has one level per tick.
LEMMA LadderTicks ==
  ASSUME NEW S, NEW t, Ladder(S, t)
  PROVE  /\ Len(t) \in Nat
         /\ \A i \in 1 .. Len(t) : /\ t[i] \in Level /\ t[i].priceTick \in Ticks
                                   /\ t[i].quantityLot \in Lots /\ t[i].quantityLot > 0
         /\ \A i, j \in 1 .. Len(t) :
              i < j => Ahead(S, t[i].priceTick, t[j].priceTick)
         /\ \A i, j \in 1 .. Len(t) : t[i].priceTick = t[j].priceTick => i = j
<1>1. t \in Seq(Level) /\ StrictlySorted(S, t) /\ \A i \in 1 .. Len(t) : ~ IsEmpty(t[i])
  BY DEF Ladder
<1>2. Len(t) \in Nat
  BY <1>1, LenProperties
<1>3. ASSUME NEW i \in 1 .. Len(t)
      PROVE  /\ t[i] \in Level /\ t[i].priceTick \in Ticks /\ t[i].priceTick \in Nat
             /\ t[i].quantityLot \in Lots /\ t[i].quantityLot > 0
  <2>1. t[i] \in Level /\ t[i].priceTick \in Ticks /\ t[i].priceTick \in Nat /\ t[i].quantityLot \in Nat
    BY <1>1, LevelFact
  <2>2. t[i].quantityLot \in Lots
    BY <2>1 DEF Level
  <2> QED BY <1>1, <2>1, <2>2 DEF IsEmpty
<1>4. \A i, j \in 1 .. Len(t) : i < j => Ahead(S, t[i].priceTick, t[j].priceTick)
  BY SMTT(30), <1>1, SortedPairwise
<1>5. ASSUME NEW i \in 1 .. Len(t), NEW j \in 1 .. Len(t), t[i].priceTick = t[j].priceTick, i # j
      PROVE  FALSE
  <2>1. i < j \/ j < i
    BY <1>2, <1>5
  <2>2. Ahead(S, t[i].priceTick, t[j].priceTick) \/ Ahead(S, t[j].priceTick, t[i].priceTick)
    BY <1>4, <2>1
  <2> QED BY <1>3, <1>5, <2>2, AheadFact
<1> QED BY <1>2, <1>3, <1>4, <1>5

\* LotsOn has the quantity of every level, and 0 everywhere else.
LEMMA LotsOnFact ==
  ASSUME NEW S, NEW t, Ladder(S, t)
  PROVE  /\ \A i \in 1 .. Len(t) : LotsOn(t)[t[i].priceTick] = t[i].quantityLot
         /\ \A x \in Ticks : (\A i \in 1 .. Len(t) : t[i].priceTick # x) => LotsOn(t)[x] = 0
         /\ LotsOn(t) \in [Ticks -> Lots]
<1>1. ASSUME NEW i \in 1 .. Len(t) PROVE LotsOn(t)[t[i].priceTick] = t[i].quantityLot
  <2> DEFINE x == t[i].priceTick
             j == CHOOSE n \in 1 .. Len(t) : t[n].priceTick = x
  <2>1. j \in 1 .. Len(t) /\ t[j].priceTick = x
    OBVIOUS
  <2>2. j = i
    BY Zenon, <2>1, LadderTicks
  <2>3. x \in Ticks
    BY LadderTicks
  <2>4. LotsOn(t)[x] = t[j].quantityLot
    BY SMTT(30), <2>3 DEF LotsOn
  <2> QED BY ZenonT(30), <2>2, <2>4
<1>2. ASSUME NEW x \in Ticks, \A i \in 1 .. Len(t) : t[i].priceTick # x PROVE LotsOn(t)[x] = 0
  BY <1>2 DEF LotsOn
<1>3. ASSUME NEW x \in Ticks PROVE LotsOn(t)[x] \in Lots
  BY <1>1, <1>2, LadderTicks, LotsAssumption
<1>4. LotsOn(t) = [x \in Ticks |-> LotsOn(t)[x]]
  BY SMTT(30) DEF LotsOn
<1>5. LotsOn(t) \in [Ticks -> Lots]
  BY <1>3, <1>4
<1> QED BY <1>1, <1>2, <1>5

\* A ladder that shows every level of a map, and nothing else, is that map.
LEMMA LotsOnIs ==
  ASSUME NEW S, NEW t, Ladder(S, t), NEW m \in [Ticks -> Lots],
         \A i \in 1 .. Len(t) : m[t[i].priceTick] = t[i].quantityLot,
         \A x \in Ticks : (\A i \in 1 .. Len(t) : t[i].priceTick # x) => m[x] = 0
  PROVE  LotsOn(t) = m
<1>1. ASSUME NEW x \in Ticks PROVE LotsOn(t)[x] = m[x]
  <2>1. CASE \A i \in 1 .. Len(t) : t[i].priceTick # x
    BY <2>1, LotsOnFact
  <2>2. ASSUME NEW i \in 1 .. Len(t), t[i].priceTick = x PROVE LotsOn(t)[x] = m[x]
    BY SMTT(30), <2>2, LotsOnFact
  <2> QED BY <2>1, <2>2
<1>2. LotsOn(t) \in [Ticks -> Lots]
  BY LotsOnFact
<1> HIDE DEF LotsOn
<1> QED BY <1>1, <1>2

\* One tick set on the ladder is one tick set on the map.
LEMMA UpdatedMap ==
  ASSUME NEW S, NEW new, Ladder(S, new), NEW old, Ladder(S, old),
         NEW tick \in Ticks, NEW lot \in Lots,
         Reflects(new, old, tick, lot), Covers(new, old, tick, lot)
  PROVE  LotsOn(new) = [LotsOn(old) EXCEPT ![tick] = lot]
<1> DEFINE m == [LotsOn(old) EXCEPT ![tick] = lot]
<1>1. /\ \A i \in 1 .. Len(old) : LotsOn(old)[old[i].priceTick] = old[i].quantityLot
      /\ \A x \in Ticks : (\A i \in 1 .. Len(old) : old[i].priceTick # x) => LotsOn(old)[x] = 0
      /\ LotsOn(old) \in [Ticks -> Lots]
  BY SMTT(30), LotsOnFact
<1>2. m \in [Ticks -> Lots] /\ m[tick] = lot /\ \A x \in Ticks : x # tick => m[x] = LotsOn(old)[x]
  BY <1>1
<1> HIDE DEF m
<1>3. ASSUME NEW i \in 1 .. Len(new) PROVE m[new[i].priceTick] = new[i].quantityLot
  <2>1. CASE new[i].priceTick = tick
    BY SMTT(30), <1>2, <2>1 DEF Reflects
  <2>2. CASE new[i].priceTick # tick
    <3>1. PICK j \in 1 .. Len(old) : new[i] = old[j]
      BY <2>2 DEF Reflects
    <3>2. new[i].priceTick \in Ticks
      BY LadderTicks
    <3> QED BY <1>1, <1>2, <2>2, <3>1, <3>2
  <2> QED BY SMTT(30), <2>1, <2>2
<1>4. ASSUME NEW x \in Ticks, \A i \in 1 .. Len(new) : new[i].priceTick # x PROVE m[x] = 0
  <2>1. CASE x = tick
    BY <1>2, <1>4, <2>1 DEF Covers
  <2>2. CASE x # tick
    <3>1. \A j \in 1 .. Len(old) : old[j].priceTick # x
      BY <1>4, <2>2 DEF Covers
    <3> QED BY <1>1, <1>2, <2>2, <3>1
  <2> QED BY <2>1, <2>2
<1>5. LotsOn(new) = m
  BY <1>2, <1>3, <1>4, LotsOnIs
<1> QED BY SMTT(30), <1>5 DEF m

-----------------------------------------------------------------------------
(* What a whole list of updates does to a side.                             *)

\* f is the recursive function of UpdateAll, run for m steps.
IsLoop(f, S, vec, levels, m) ==
  f = [n \in 0 .. m |-> IF n = 0 THEN vec ELSE Update(S, f[n - 1], levels[n])]

\* The side after each step of the loop.
LoopSteps(f, S, vec, levels) ==
  /\ UpdateAll(S, vec, levels) = f[Len(levels)]
  /\ f[0] = vec
  /\ \A n \in 1 .. Len(levels) : f[n] = Update(S, f[n - 1], levels[n])

\* The loop over a level list is well defined: it has one result after each
\* of its steps.
LEMMA LoopExists ==
  ASSUME NEW S, NEW vec, NEW levels, NEW N \in Nat
  PROVE  \E f : IsLoop(f, S, vec, levels, N)
<1> DEFINE T == {m \in Nat : \E f : IsLoop(f, S, vec, levels, m)}
<1>1. 0 \in T
  <2> DEFINE g == [n \in 0 .. 0 |-> vec]
  <2>1. IsLoop(g, S, vec, levels, 0)
    BY DEF IsLoop
  <2> HIDE DEF g
  <2> QED BY <2>1
<1>2. ASSUME NEW m \in T PROVE m + 1 \in T
  <2>1. PICK f : IsLoop(f, S, vec, levels, m)
    BY SMTT(30)
  <2> DEFINE g == [n \in 0 .. m + 1 |->
                     IF n <= m THEN f[n] ELSE Update(S, f[m], levels[m + 1])]
  <2>2. ASSUME NEW n \in 0 .. m + 1
        PROVE  g[n] = IF n = 0 THEN vec ELSE Update(S, g[n - 1], levels[n])
    <3>1. CASE n = 0
      BY <2>1, <3>1 DEF IsLoop
    <3>2. CASE n # 0 /\ n <= m
      <4>1. n \in 0 .. m /\ n - 1 \in 0 .. m + 1 /\ n - 1 <= m
        BY <3>2
      <4>2. g[n] = f[n] /\ g[n - 1] = f[n - 1]
        BY <3>2, <4>1
      <4>3. f[n] = Update(S, f[n - 1], levels[n])
        BY <2>1, <3>2, <4>1 DEF IsLoop
      <4> QED BY <3>2, <4>2, <4>3
    <3>3. CASE n = m + 1
      <4>1. g[n] = Update(S, f[m], levels[n]) /\ g[n - 1] = f[m] /\ n # 0
        BY <3>3
      <4> QED BY <4>1
    <3> QED BY <3>1, <3>2, <3>3
  <2>3. IsLoop(g, S, vec, levels, m + 1)
    <3> DEFINE h == [n \in 0 .. m + 1 |->
                       IF n = 0 THEN vec ELSE Update(S, g[n - 1], levels[n])]
    <3>1. g = h
      BY <2>2
    <3> QED BY Zenon, <3>1 DEF IsLoop
  <2> HIDE DEF g
  <2> QED BY <2>3
<1>3. T = Nat
  <2>1. T \subseteq Nat
    OBVIOUS
  <2> HIDE DEF T
  <2> QED BY Zenon, <1>1, <1>2, <2>1, SetInduction
<1> QED BY <1>3

\* The loop, step by step.
LEMMA LoopFact ==
  ASSUME NEW S, NEW vec, NEW levels \in Seq(Level)
  PROVE  \E f : LoopSteps(f, S, vec, levels)
<1> DEFINE f == CHOOSE g : IsLoop(g, S, vec, levels, Len(levels))
<1>1. Len(levels) \in Nat
  BY LenProperties
<1>2. IsLoop(f, S, vec, levels, Len(levels))
  BY Zenon, <1>1, LoopExists
<1>3. UpdateAll(S, vec, levels) = f[Len(levels)]
  BY DEF UpdateAll, IsLoop
<1> HIDE DEF f
<1>4. f = [n \in 0 .. Len(levels) |->
             IF n = 0 THEN vec ELSE Update(S, f[n - 1], levels[n])]
  BY <1>2 DEF IsLoop
<1>5. f[0] = vec
  BY <1>1, <1>4
<1>6. ASSUME NEW n \in 1 .. Len(levels) PROVE f[n] = Update(S, f[n - 1], levels[n])
  <2>1. n \in 0 .. Len(levels) /\ n # 0
    BY <1>1
  <2> QED BY <1>4, <2>1
<1>7. LoopSteps(f, S, vec, levels)
  BY <1>3, <1>5, <1>6 DEF LoopSteps
<1> QED BY <1>7

\* Any list of levels leaves a valid side.
LEMMA UpdateAllGood ==
  ASSUME NEW S, NEW vec, GoodSide(S, vec), NEW levels \in Seq(Level)
  PROVE  GoodSide(S, UpdateAll(S, vec, levels))
<1>0. PICK f : LoopSteps(f, S, vec, levels)
  BY LoopFact
<1>1. /\ UpdateAll(S, vec, levels) = f[Len(levels)]
      /\ f[0] = vec
      /\ \A n \in 1 .. Len(levels) : f[n] = Update(S, f[n - 1], levels[n])
  BY <1>0 DEF LoopSteps
<1>2. PICK N \in Nat : N = Len(levels)
  BY LenProperties
<1> DEFINE T == {n \in Nat : n <= N => GoodSide(S, f[n])}
<1>3. 0 \in T
  BY <1>1
<1>4. ASSUME NEW n \in T PROVE n + 1 \in T
  <2>1. SUFFICES ASSUME n + 1 <= N PROVE GoodSide(S, f[n + 1])
    OBVIOUS
  <2>2. n + 1 \in 1 .. Len(levels) /\ n <= N /\ (n + 1) - 1 = n
    BY <1>2, <2>1
  <2>3. levels[n + 1] \in Level
    BY <2>2, ElementOfSeq
  <2>4. f[n + 1] = Update(S, f[n], levels[n + 1])
    BY <1>1, <2>2
  <2>5. GoodSide(S, f[n])
    BY <2>2
  <2>6. GoodSide(S, Update(S, f[n], levels[n + 1]))
    BY <2>3, <2>5, UpdateFact
  <2> QED BY <2>4, <2>6
<1>5. T = Nat
  <2>1. T \subseteq Nat
    OBVIOUS
  <2> HIDE DEF T
  <2> QED BY Zenon, <1>3, <1>4, <2>1, SetInduction
<1>6. GoodSide(S, f[N])
  BY SMTT(30), <1>5
<1> QED BY <1>1, <1>2, <1>6

\* Every level shows the quantity truth has at its tick.
Shows(vec, truth) ==
  \A i \in 1 .. Len(vec) : vec[i].quantityLot = truth[vec[i].priceTick]

\* Applying a list of levels taken from truth, which lists at least the ticks
\* where the side differs from truth, leaves a valid side of levels of truth.
LEMMA UpdateAllFact ==
  ASSUME NEW S, NEW vec, GoodSide(S, vec), NEW levels \in Seq(Level), NEW truth,
         \A n \in 1 .. Len(levels) : levels[n].quantityLot = truth[levels[n].priceTick],
         \A i \in 1 .. Len(vec) :
           \/ vec[i].quantityLot = truth[vec[i].priceTick]
           \/ \E n \in 1 .. Len(levels) : levels[n].priceTick = vec[i].priceTick
  PROVE  /\ GoodSide(S, UpdateAll(S, vec, levels))
         /\ Shows(UpdateAll(S, vec, levels), truth)
<1>0. PICK f : LoopSteps(f, S, vec, levels)
  BY LoopFact
<1>1. /\ UpdateAll(S, vec, levels) = f[Len(levels)]
      /\ f[0] = vec
      /\ \A n \in 1 .. Len(levels) : f[n] = Update(S, f[n - 1], levels[n])
  BY <1>0 DEF LoopSteps
<1>2. PICK N \in Nat : N = Len(levels)
  BY SMTT(30), LenProperties
<1> DEFINE Inv(n) == /\ GoodSide(S, f[n])
                     /\ \A i \in 1 .. Len(f[n]) :
                          \/ f[n][i].quantityLot = truth[f[n][i].priceTick]
                          \/ \E m \in n + 1 .. N : levels[m].priceTick = f[n][i].priceTick
           T == {n \in Nat : n <= N => Inv(n)}
<1>3. 0 \in T
  BY SMTT(30), <1>1, <1>2
<1>4. ASSUME NEW n \in T PROVE n + 1 \in T
  <2>1. SUFFICES ASSUME n + 1 <= N PROVE Inv(n + 1)
    BY SMTT(30)
  <2>2. n + 1 \in 1 .. Len(levels) /\ n <= N /\ (n + 1) - 1 = n
    BY SMTT(30), <1>2, <2>1
  <2>3. Inv(n)
    BY SMTT(30), <2>2
  <2>4. levels[n + 1] \in Level
    BY SMTT(30), <2>2, ElementOfSeq
  <2>5. PICK level \in Level : level = levels[n + 1]
    BY SMTT(30), <2>4
  <2>6. PICK old, new : old = f[n] /\ new = f[n + 1]
    BY SMTT(30)
  <2>7. new = Update(S, old, level)
    BY SMTT(30), <1>1, <2>2, <2>5, <2>6
  <2>8. GoodSide(S, new) /\ Reflects(new, old, level.priceTick, level.quantityLot)
    BY SMTT(30), <2>3, <2>6, <2>7, UpdateFact
  <2>9. level.quantityLot = truth[level.priceTick]
    BY SMTT(30), <2>2, <2>5
  <2>10. ASSUME NEW i \in 1 .. Len(new)
         PROVE  \/ new[i].quantityLot = truth[new[i].priceTick]
                \/ \E m \in (n + 1) + 1 .. N : levels[m].priceTick = new[i].priceTick
    <3>1. CASE new[i].priceTick = level.priceTick
      BY ZenonT(30), <2>8, <2>9, <3>1 DEF Reflects
    <3>2. CASE new[i].priceTick # level.priceTick
      <4>1. PICK j \in 1 .. Len(old) : new[i] = old[j]
        BY ZenonT(30), <2>8, <3>2 DEF Reflects
      <4>2. CASE old[j].quantityLot = truth[old[j].priceTick]
        BY SMTT(30), <4>1, <4>2
      <4>3. CASE \E m \in n + 1 .. N : levels[m].priceTick = old[j].priceTick
        <5>1. PICK m \in n + 1 .. N : levels[m].priceTick = old[j].priceTick
          BY SMTT(30), <4>3
        <5>2. m # n + 1
          BY SMTT(30), <2>5, <3>2, <4>1, <5>1
        <5>3. m \in (n + 1) + 1 .. N
          BY <5>1, <5>2
        <5> QED BY SMTT(30), <4>1, <5>1, <5>3
      <4>4. \/ old[j].quantityLot = truth[old[j].priceTick]
            \/ \E m \in n + 1 .. N : levels[m].priceTick = old[j].priceTick
        BY ZenonT(30), <2>3, <2>6
      <4> QED BY <4>2, <4>3, <4>4
    <3> QED BY <3>1, <3>2
  <2> QED BY SMTT(30), <2>6, <2>8, <2>10
<1>5. T = Nat
  <2>1. T \subseteq Nat
    BY SMTT(30)
  <2> HIDE DEF T
  <2> QED BY Zenon, <1>3, <1>4, <2>1, SetInduction
<1>6. Inv(N)
  BY <1>5
<1>7. Shows(f[N], truth)
  BY <1>6 DEF Shows
<1> QED BY <1>1, <1>2, <1>6, <1>7

-----------------------------------------------------------------------------
(* The controller.                                                          *)

\* Both sides of a controller's book are valid.
GoodController(c) ==
  /\ c \in Controller
  /\ GoodSide("BID", c.bids)
  /\ GoodSide("ASK", c.asks)

\* What a method can leave behind: an empty book waiting for a snapshot, the
\* book it found, or the book with the increment's levels applied.
Blank(d) == d.state = "WaitingSnapshot" /\ d.bids = <<>> /\ d.asks = <<>>

Kept(d, c) ==
  /\ d.state = c.state
  /\ d.last_seq = c.last_seq
  /\ d.expected_seq = c.expected_seq
  /\ d.bids = c.bids
  /\ d.asks = c.asks

Applied(d, c, m) ==
  /\ c.state # "WaitingSnapshot"
  /\ d.state = "Synced" /\ d.action = "None"
  /\ d.bids = UpdateAll("BID", c.bids, m.bids)
  /\ d.asks = UpdateAll("ASK", c.asks, m.asks)
  /\ HasSeq(m) => /\ d.last_seq = m.last_seq
                  /\ d.expected_seq = m.last_seq + 1
                  /\ c.expected_seq <= m.last_seq
                  /\ m.first_seq <= c.expected_seq \/ AllowSeqGap
  /\ ~ HasSeq(m) => /\ d.last_seq = c.last_seq
                    /\ d.expected_seq = c.expected_seq
  /\ ~ Crossed(d)

\* resetBook() empties the book.
LEMMA ResetFact ==
  ASSUME NEW c \in Controller
  PROVE  /\ GoodController(ResetBook(c)) /\ Blank(ResetBook(c))
         /\ GoodController(NeedResync(c)) /\ Blank(NeedResync(c))
         /\ NeedResync(c).action = "NeedResync"
<1>1. ResetBook(c) \in Controller /\ NeedResync(c) \in Controller
  BY Zenon, EmptySeq DEF ResetBook, NeedResync, Controller, BookSyncState, Action
<1>2. /\ ResetBook(c).bids = <<>> /\ ResetBook(c).asks = <<>>
      /\ ResetBook(c).state = "WaitingSnapshot"
      /\ NeedResync(c).bids = <<>> /\ NeedResync(c).asks = <<>>
      /\ NeedResync(c).state = "WaitingSnapshot"
      /\ NeedResync(c).action = "NeedResync"
  BY DEF ResetBook, NeedResync, Controller
<1>3. GoodSide("BID", <<>>) /\ GoodSide("ASK", <<>>)
  BY EmptySideGood
<1> QED BY <1>1, <1>2, <1>3 DEF GoodController, Blank

\* Returning Action::None changes nothing else.
LEMMA DoneFact ==
  ASSUME NEW c, GoodController(c)
  PROVE  GoodController(Done(c)) /\ Kept(Done(c), c) /\ Done(c).action = "None"
<1>1. c \in Controller
  BY DEF GoodController
<1>2. Done(c) \in Controller /\ Kept(Done(c), c) /\ Done(c).action = "None"
  BY SMTT(30), <1>1 DEF Done, Controller, Action, Kept
<1> QED BY <1>2 DEF GoodController, Kept

\* A message as onIncrement takes it.
Message(m) ==
  /\ m.first_seq \in Nat /\ m.last_seq \in Nat
  /\ m.bids \in Seq(Level) /\ m.asks \in Seq(Level)

\* applyIncrementUpdate keeps both sides valid.
LEMMA ApplyFact ==
  ASSUME NEW c, GoodController(c), NEW m, Message(m)
  PROVE  /\ GoodController(ApplyIncrement(c, m))
         /\ ApplyIncrement(c, m).state = c.state
         /\ ApplyIncrement(c, m).bids = UpdateAll("BID", c.bids, m.bids)
         /\ ApplyIncrement(c, m).asks = UpdateAll("ASK", c.asks, m.asks)
         /\ HasSeq(m) => /\ ApplyIncrement(c, m).last_seq = m.last_seq
                         /\ ApplyIncrement(c, m).expected_seq = m.last_seq + 1
         /\ ~ HasSeq(m) => /\ ApplyIncrement(c, m).last_seq = c.last_seq
                           /\ ApplyIncrement(c, m).expected_seq = c.expected_seq
<1> DEFINE b == UpdateAll("BID", c.bids, m.bids)
           a == UpdateAll("ASK", c.asks, m.asks)
           l == IF HasSeq(m) THEN m.last_seq ELSE c.last_seq
           x == IF HasSeq(m) THEN m.last_seq + 1 ELSE c.expected_seq
<1>1. GoodSide("BID", b) /\ GoodSide("ASK", a)
  BY UpdateAllGood DEF GoodController, Message
<1>2. b \in Seq(Level) /\ a \in Seq(Level)
  BY <1>1 DEF GoodSide
<1>3. c \in Controller /\ m.last_seq \in Nat
  BY DEF GoodController, Message
<1>4. ApplyIncrement(c, m) =
        [c EXCEPT !.bids = b, !.asks = a, !.last_seq = l, !.expected_seq = x]
  BY DEF ApplyIncrement
<1>5. l \in Nat /\ x \in Nat
  BY <1>3 DEF Controller
<1>6. /\ HasSeq(m) => l = m.last_seq /\ x = m.last_seq + 1
      /\ ~ HasSeq(m) => l = c.last_seq /\ x = c.expected_seq
  OBVIOUS
<1> HIDE DEF a, b, l, x
<1>7. /\ ApplyIncrement(c, m) \in Controller
      /\ ApplyIncrement(c, m).state = c.state
      /\ ApplyIncrement(c, m).bids = b
      /\ ApplyIncrement(c, m).asks = a
      /\ ApplyIncrement(c, m).last_seq = l
      /\ ApplyIncrement(c, m).expected_seq = x
  BY Zenon, <1>2, <1>3, <1>4, <1>5 DEF Controller
<1> QED BY <1>1, <1>7, <1>6 DEF a, b, GoodController

\* A controller whose state or validation counter changes keeps its book.
LEMMA RetagFact ==
  ASSUME NEW c, GoodController(c), NEW s \in BookSyncState, NEW k \in Nat
  PROVE  /\ GoodController([c EXCEPT !.state = s])
         /\ [c EXCEPT !.state = s].state = s
         /\ [c EXCEPT !.state = s].last_seq = c.last_seq
         /\ [c EXCEPT !.state = s].expected_seq = c.expected_seq
         /\ [c EXCEPT !.state = s].bids = c.bids
         /\ [c EXCEPT !.state = s].asks = c.asks
         /\ GoodController([c EXCEPT !.validate_counter = k])
         /\ Kept([c EXCEPT !.validate_counter = k], c)
<1>1. c \in Controller
  BY DEF GoodController
<1>2. /\ [c EXCEPT !.state = s] \in Controller
      /\ [c EXCEPT !.state = s].state = s
      /\ [c EXCEPT !.state = s].last_seq = c.last_seq
      /\ [c EXCEPT !.state = s].expected_seq = c.expected_seq
      /\ [c EXCEPT !.state = s].bids = c.bids
      /\ [c EXCEPT !.state = s].asks = c.asks
  BY <1>1 DEF Controller
<1>3. /\ [c EXCEPT !.validate_counter = k] \in Controller
      /\ Kept([c EXCEPT !.validate_counter = k], c)
  BY <1>1 DEF Controller, Kept
<1> QED BY <1>2, <1>3 DEF GoodController, Kept

\* The bridging step applies the increment or resynchronises.
LEMMA BridgeFact ==
  ASSUME NEW c, GoodController(c), c.state # "WaitingSnapshot", NEW m, Message(m),
         HasSeq(m) => c.expected_seq <= m.last_seq
                      /\ (m.first_seq <= c.expected_seq \/ AllowSeqGap)
  PROVE  /\ GoodController(Bridge(c, m))
         /\ Blank(Bridge(c, m)) \/ Applied(Bridge(c, m), c, m)
         /\ Bridge(c, m).action = "None" \/ Crossed(ApplyIncrement(c, m))
            \/ ChecksumFails(ApplyIncrement(c, m), m)
<1> DEFINE e == ApplyIncrement(c, m)
           d == [e EXCEPT !.state = "Synced"]
<1>1. /\ GoodController(e)
      /\ e.bids = UpdateAll("BID", c.bids, m.bids)
      /\ e.asks = UpdateAll("ASK", c.asks, m.asks)
      /\ HasSeq(m) => e.last_seq = m.last_seq /\ e.expected_seq = m.last_seq + 1
      /\ ~ HasSeq(m) => e.last_seq = c.last_seq /\ e.expected_seq = c.expected_seq
  BY ApplyFact
<1>2. Bridge(c, m) = IF Crossed(d) \/ ChecksumFails(d, m) THEN NeedResync(d) ELSE Done(d)
  BY DEF Bridge
<1> HIDE DEF e
<1>3. /\ GoodController(d) /\ d.state = "Synced"
      /\ d.last_seq = e.last_seq /\ d.expected_seq = e.expected_seq
      /\ d.bids = e.bids /\ d.asks = e.asks
  <2>1. "Synced" \in BookSyncState /\ 0 \in Nat
    BY SMTT(30) DEF BookSyncState
  <2> QED BY Zenon, <1>1, <2>1, RetagFact
<1> HIDE DEF d
<1>4. /\ Crossed(d) <=> Crossed(e)
      /\ ChecksumFails(d, m) <=> ChecksumFails(e, m)
      /\ Crossed(Done(d)) <=> Crossed(d)
  <2>1. Done(d).bids = d.bids /\ Done(d).asks = d.asks
    BY <1>3, DoneFact DEF Kept
  <2> QED BY <1>3, <2>1 DEF Crossed, ChecksumFails, ValidateChecksum
<1>5. CASE Crossed(d) \/ ChecksumFails(d, m)
  <2>1. GoodController(NeedResync(d)) /\ Blank(NeedResync(d))
    BY <1>3, ResetFact DEF GoodController
  <2> QED BY SMTT(30), <1>2, <1>4, <1>5, <2>1 DEF e
<1>6. CASE ~ (Crossed(d) \/ ChecksumFails(d, m))
  <2>1. GoodController(Done(d)) /\ Kept(Done(d), d) /\ Done(d).action = "None"
    BY <1>3, DoneFact
  <2>2. Bridge(c, m) = Done(d)
    BY SMTT(30), <1>2, <1>6
  <2>3. Applied(Done(d), c, m)
    BY SMTT(30), <1>1, <1>3, <1>4, <1>6, <2>1 DEF Kept, Applied
  <2> QED BY SMTT(30), <2>1, <2>2, <2>3
<1> QED BY SMTT(30), <1>5, <1>6

\* So does the steady-state step; on a valid book C3 is not a reason to
\* resynchronise.
LEMMA SteadyFact ==
  ASSUME NEW c, GoodController(c), c.state = "Synced", NEW m, Message(m),
         HasSeq(m) => c.expected_seq <= m.last_seq
                      /\ (m.first_seq <= c.expected_seq \/ AllowSeqGap)
  PROVE  /\ GoodController(Steady(c, m))
         /\ Blank(Steady(c, m)) \/ Applied(Steady(c, m), c, m)
         /\ \/ Steady(c, m).action = "None"
            \/ Crossed(ApplyIncrement(c, m))
            \/ ChecksumFails(ApplyIncrement(c, m), m)
            \/ RequireChecksum /\ HasChecksum /\ ~ ChecksumFn
<1> DEFINE e == ApplyIncrement(c, m)
           count == e.validate_counter + 1
           due == ValidatePeriod > 0 /\ count >= ValidatePeriod
           k == IF ValidatePeriod = 0 THEN e.validate_counter ELSE IF due THEN 0 ELSE count
           d == [e EXCEPT !.validate_counter = k]
           absent == RequireChecksum /\ HasChecksum /\ ~ ChecksumFn /\ m.checksum = <<>>
           fails == (due /\ ~ Validate(e.bids, e.asks)) \/ ChecksumFails(e, m) \/ absent
<1>1. /\ GoodController(e) /\ e.state = "Synced"
      /\ e.bids = UpdateAll("BID", c.bids, m.bids)
      /\ e.asks = UpdateAll("ASK", c.asks, m.asks)
      /\ HasSeq(m) => e.last_seq = m.last_seq /\ e.expected_seq = m.last_seq + 1
      /\ ~ HasSeq(m) => e.last_seq = c.last_seq /\ e.expected_seq = c.expected_seq
  BY ApplyFact
<1>2. Steady(c, m) = IF Crossed(e) THEN NeedResync(e)
                     ELSE IF fails THEN NeedResync(d) ELSE Done(d)
  BY SMTT(30) DEF Steady
<1>3. Validate(e.bids, e.asks)
  BY <1>1 DEF GoodController, GoodSide, Validate
<1> HIDE DEF e
<1>4. k \in Nat
  <2>1. e.validate_counter \in Nat
    BY <1>1 DEF GoodController, Controller
  <2> QED BY SMTT(30), <2>1
<1> HIDE DEF k
<1>5. GoodController(d) /\ Kept(d, e)
  BY Zenon, <1>1, <1>4, RetagFact DEF GoodController, Controller
<1> HIDE DEF d, due
<1>6. CASE Crossed(e)
  <2>1. GoodController(NeedResync(e)) /\ Blank(NeedResync(e))
    BY <1>1, ResetFact DEF GoodController
  <2> QED BY SMTT(30), <1>2, <1>6, <2>1 DEF e
<1>7. CASE ~ Crossed(e) /\ fails
  <2>1. GoodController(NeedResync(d)) /\ Blank(NeedResync(d))
    BY SMTT(30), <1>5, ResetFact DEF GoodController
  <2>2. \/ ChecksumFails(ApplyIncrement(c, m), m)
        \/ RequireChecksum /\ HasChecksum /\ ~ ChecksumFn
    BY <1>3, <1>7 DEF e
  <2>3. Steady(c, m) = NeedResync(d)
    BY <1>2, <1>7
  <2> HIDE DEF fails
  <2> QED BY SMTT(30), <2>1, <2>2, <2>3
<1>8. CASE ~ Crossed(e) /\ ~ fails
  <2>1. GoodController(Done(d)) /\ Kept(Done(d), d) /\ Done(d).action = "None"
    BY SMTT(30), <1>5, DoneFact
  <2>2. Steady(c, m) = Done(d)
    BY <1>2, <1>8
  <2> HIDE DEF fails
  <2>3. ~ Crossed(Done(d))
    BY SMTT(30), <1>5, <1>8, <2>1 DEF Kept, Crossed
  <2>4. Applied(Done(d), c, m)
    BY SMTT(30), <1>1, <1>5, <2>1, <2>3 DEF Kept, Applied
  <2> QED BY <2>1, <2>2, <2>4
<1> HIDE DEF fails
<1> QED BY ZenonT(30), <1>6, <1>7, <1>8

\* onIncrement ignores the message, resynchronises, or applies a message that
\* reaches expected_seq_ and, unless gaps are tolerated, starts no later.
LEMMA OnIncrementFact ==
  ASSUME NEW c, GoodController(c), NEW m, Message(m)
  PROVE  /\ GoodController(OnIncrement(c, m))
         /\ \/ Blank(OnIncrement(c, m))
            \/ /\ Kept(OnIncrement(c, m), c) /\ OnIncrement(c, m).action = "None"
               /\ c.state = "WaitingSnapshot" \/ (HasSeq(m) /\ m.last_seq < c.expected_seq)
            \/ Applied(OnIncrement(c, m), c, m)
<1>1. c \in Controller /\ c.expected_seq \in Nat /\ m.first_seq \in Nat /\ m.last_seq \in Nat
  BY SMTT(30) DEF GoodController, Controller, Message
<1>2. CASE c.state = "WaitingSnapshot"
  BY SMTT(30), <1>2, DoneFact DEF OnIncrement
<1>3. CASE c.state # "WaitingSnapshot" /\ ~ HasSeq(m) /\ ~ ChecksumFn
  BY SMTT(30), <1>1, <1>3, ResetFact DEF OnIncrement
<1>4. CASE c.state # "WaitingSnapshot" /\ HasSeq(m) /\ m.last_seq < c.expected_seq
  BY SMTT(30), <1>4, DoneFact DEF OnIncrement
<1>5. CASE /\ c.state # "WaitingSnapshot"
           /\ HasSeq(m) /\ ~ (m.last_seq < c.expected_seq)
           /\ m.first_seq > c.expected_seq /\ ~ AllowSeqGap
  BY SMTT(30), <1>1, <1>5, ResetFact DEF OnIncrement
<1>6. CASE /\ c.state # "WaitingSnapshot"
           /\ HasSeq(m) \/ ChecksumFn
           /\ HasSeq(m) => /\ ~ (m.last_seq < c.expected_seq)
                           /\ ~ (m.first_seq > c.expected_seq /\ ~ AllowSeqGap)
  <2>1. HasSeq(m) => /\ c.expected_seq <= m.last_seq
                     /\ m.first_seq <= c.expected_seq \/ AllowSeqGap
    BY SMTT(30), <1>1, <1>6, ControllerAssumption
  <2>2. OnIncrement(c, m) = IF c.state = "WaitingBridge" THEN Bridge(c, m) ELSE Steady(c, m)
    BY <1>6 DEF OnIncrement
  <2>3. c.state \in {"WaitingBridge", "Synced"}
    BY SMTT(30), <1>1, <1>6 DEF Controller, BookSyncState
  <2> QED BY SMTT(30), <1>6, <2>1, <2>2, <2>3, BridgeFact, SteadyFact
<1> QED BY SMTT(30), <1>2, <1>3, <1>4, <1>5, <1>6

\* The baseline m loaded into an empty book.
Loaded(d, m, kind) ==
  /\ d.state = (IF kind = "WsAuthoritative" THEN "Synced" ELSE "WaitingBridge")
  /\ d.action = "None"
  /\ d.last_seq = m.lastUpdateId
  /\ d.expected_seq = m.lastUpdateId + 1
  /\ d.bids = UpdateAll("BID", <<>>, m.bids)
  /\ d.asks = UpdateAll("ASK", <<>>, m.asks)

\* onSnapshot leaves a valid book: empty, or the baseline's.
LEMMA OnSnapshotFact ==
  ASSUME NEW c, GoodController(c), NEW kind, NEW m, m.lastUpdateId \in Nat,
         m.bids \in Seq(Level), m.asks \in Seq(Level)
  PROVE  /\ GoodController(OnSnapshot(c, m, kind))
         /\ Blank(OnSnapshot(c, m, kind)) \/ Loaded(OnSnapshot(c, m, kind), m, kind)
<1> DEFINE b == UpdateAll("BID", <<>>, m.bids)
           a == UpdateAll("ASK", <<>>, m.asks)
           r == ResetBook(c)
           l == m.lastUpdateId
           x == m.lastUpdateId + 1
           e == [r EXCEPT !.bids = b, !.asks = a, !.last_seq = l, !.expected_seq = x]
           st == IF kind = "WsAuthoritative" THEN "Synced" ELSE "WaitingBridge"
           d == [e EXCEPT !.state = st]
<1>1. GoodSide("BID", b) /\ GoodSide("ASK", a)
  BY Zenon, EmptySideGood, UpdateAllGood
<1>2. b \in Seq(Level) /\ a \in Seq(Level)
  BY <1>1 DEF GoodSide
<1>3. r \in Controller
  BY ResetFact DEF GoodController
<1>4. OnSnapshot(c, m, kind) =
        IF ChecksumFn /\ m.checksum # <<>> /\ ~ ValidateChecksum(e, m.checksum)
        THEN NeedResync(e) ELSE Done(d)
  BY DEF OnSnapshot
<1>5. l \in Nat /\ x \in Nat
  OBVIOUS
<1> HIDE DEF b, a, r, l, x
<1>6. /\ e \in Controller
      /\ e.bids = b /\ e.asks = a
      /\ e.last_seq = l /\ e.expected_seq = x
  BY Zenon, <1>2, <1>3, <1>5 DEF Controller
<1> HIDE DEF e
<1>7. GoodController(e)
  BY <1>1, <1>6 DEF GoodController
<1>8. st \in BookSyncState
  BY DEF BookSyncState
<1> HIDE DEF st
<1>9. /\ GoodController(d) /\ d.state = st
      /\ d.last_seq = e.last_seq /\ d.expected_seq = e.expected_seq
      /\ d.bids = e.bids /\ d.asks = e.asks
  <2>1. 0 \in Nat
    BY SMTT(30)
  <2> QED BY Zenon, <1>7, <1>8, <2>1, RetagFact
<1> HIDE DEF d
<1>10. GoodController(Done(d)) /\ Loaded(Done(d), m, kind)
  <2>1. GoodController(Done(d)) /\ Kept(Done(d), d) /\ Done(d).action = "None"
    BY <1>9, DoneFact
  <2> QED BY <1>6, <1>9, <2>1 DEF Kept, Loaded, b, a, l, x, st
<1>11. GoodController(NeedResync(e)) /\ Blank(NeedResync(e))
  BY <1>6, ResetFact
<1> QED BY SMTT(30), <1>4, <1>10, <1>11

=============================================================================
