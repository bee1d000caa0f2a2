------------------------------ MODULE Induction ------------------------------
(***************************************************************************)
(* Induction over the naturals, and what it shows of the loops of the model: *)
(* the recursive functions they are written as are well defined, and Keep    *)
(* returns what its name says.                                               *)
(***************************************************************************)
EXTENDS Subsequences, Functions, SequenceTheorems, FiniteSetTheorems, WellFoundedInduction, TLAPS

\* A non-empty set of naturals has a least element.
LEMMA LeastNat ==
  ASSUME NEW T, T \subseteq Nat, T # {}
  PROVE  \E x \in T : \A y \in T : x <= y
<1> DEFINE R == OpToRel(<, Nat)
<1>1. IsWellFoundedOn(R, Nat)
  BY Zenon, NatLessThanWellFounded
<1>2. \E x \in T : \A y \in T : ~ (<<y, x>> \in R)
  <2> HIDE DEF R
  <2> QED BY Zenon, <1>1, WFMin
<1>3. \A x, y \in Nat : y < x => <<y, x>> \in R
  BY DEF OpToRel
<1> HIDE DEF R
<1>4. PICK x \in T : \A y \in T : ~ (<<y, x>> \in R)
  BY <1>2
<1>5. \A y \in T : ~ (y < x)
  BY Zenon, <1>3, <1>4
<1> QED BY <1>5

\* A set that holds 0 and is closed under successor holds every natural.
LEMMA SetInduction ==
  ASSUME NEW T, T \subseteq Nat, 0 \in T, \A n \in T : n + 1 \in T
  PROVE  T = Nat
<1>1. SUFFICES ASSUME Nat \ T # {} PROVE FALSE
  BY Zenon
<1>2. PICK x \in Nat \ T : \A y \in Nat \ T : x <= y
  BY Zenon, <1>1, LeastNat
<1>3. x # 0 /\ x - 1 \in Nat /\ x - 1 \in T
  BY <1>2
<1> QED BY <1>2, <1>3

-----------------------------------------------------------------------------
(* Loops.                                                                   *)

LoopOf(f, D, base, N, step) ==
  /\ f \in [0 .. N -> D]
  /\ \A n \in 0 .. N : f[n] = IF n = 0 THEN base ELSE step[<<f[n - 1], n>>]

\* A loop of N passes over a state in D, each given by the function step, has
\* one state after each pass.
LEMMA LoopDefined ==
  ASSUME NEW D, NEW base \in D, NEW N \in Nat, NEW step \in [D \X (1 .. N) -> D]
  PROVE  \E f : LoopOf(f, D, base, N, step)
<1> DEFINE Good(f, m) == /\ f \in [0 .. m -> D]
                         /\ \A n \in 0 .. m : f[n] = IF n = 0 THEN base ELSE step[<<f[n - 1], n>>]
           T == {m \in Nat : m <= N => \E f : Good(f, m)}
<1>1. 0 \in T
  <2> DEFINE g == [n \in 0 .. 0 |-> base]
  <2>1. Good(g, 0)
    OBVIOUS
  <2> HIDE DEF Good, g
  <2> QED
    BY <2>1
<1>2. ASSUME NEW m \in T PROVE m + 1 \in T
  <2> SUFFICES ASSUME m + 1 <= N PROVE \E f : Good(f, m + 1)
    OBVIOUS
  <2>1. m \in Nat /\ m <= N /\ m + 1 \in 1 .. N
    OBVIOUS
  <2>2. PICK f : Good(f, m)
    BY <2>1
  <2> DEFINE g == [n \in 0 .. m + 1 |-> IF n <= m THEN f[n] ELSE step[<<f[m], m + 1>>]]
  <2>3. f[m] \in D /\ step[<<f[m], m + 1>>] \in D
    BY <2>1, <2>2
  <2>4. g \in [0 .. m + 1 -> D]
    BY <2>1, <2>2, <2>3
  <2>5. ASSUME NEW n \in 0 .. m + 1
        PROVE  g[n] = IF n = 0 THEN base ELSE step[<<g[n - 1], n>>]
    <3>1. CASE n = m + 1
      <4>1. g[n] = step[<<f[m], n>>] /\ n - 1 = m /\ g[n - 1] = f[m] /\ n # 0
        BY <2>1, <3>1
      <4> QED
        BY ZenonT(30), <4>1
    <3>2. CASE n = 0
      <4>1. 0 \in 0 .. m /\ g[n] = f[0]
        BY <2>1, <3>2
      <4> QED
        BY ZenonT(30), <2>2, <3>2, <4>1
    <3>3. CASE n # 0 /\ n # m + 1
      <4>1. n \in 0 .. m /\ n - 1 \in 0 .. m /\ g[n] = f[n] /\ g[n - 1] = f[n - 1]
        BY <2>1, <3>3
      <4> QED
        BY <2>2, <3>3, <4>1
    <3> QED
      BY <3>1, <3>2, <3>3
  <2> HIDE DEF g
  <2>6. Good(g, m + 1)
    BY <2>4, <2>5
  <2> HIDE DEF Good
  <2> QED
    BY <2>6
<1>3. T = Nat
  <2>1. T \subseteq Nat
    OBVIOUS
  <2> HIDE DEF T
  <2> QED
    BY Zenon, <1>1, <1>2, <2>1, SetInduction
<1> HIDE DEF Good
<1>4. PICK f : Good(f, N)
  BY <1>3
<1> QED
  BY <1>4 DEF Good, LoopOf

-----------------------------------------------------------------------------
(* Keep.                                                                    *)

\* s[1], ..., s[n] without what is not in T, by recursion on n.
KeepSteps(k, E, s, T) ==
  /\ k \in [0 .. Len(s) -> Seq(E)] /\ k[0] = <<>> /\ k[Len(s)] = Keep(s, T)
  /\ \A n \in 1 .. Len(s) : k[n] = IF s[n] \in T THEN Append(k[n - 1], s[n]) ELSE k[n - 1]

\* The loop of Keep is well defined.
LEMMA KeepLoop ==
  ASSUME NEW E, NEW s \in Seq(E), NEW T
  PROVE  \E k : KeepSteps(k, E, s, T)
<1> DEFINE D == Seq(E)
           N == Len(s)
           step == [x \in D \X (1 .. N) |-> IF s[x[2]] \in T THEN Append(x[1], s[x[2]]) ELSE x[1]]
           F(f) == [n \in 0 .. N |-> IF n = 0 THEN <<>>
                                     ELSE IF s[n] \in T THEN Append(f[n - 1], s[n])
                                     ELSE f[n - 1]]
           k == CHOOSE f : f = F(f)
<1>1. N \in Nat /\ <<>> \in D /\ step \in [D \X (1 .. N) -> D]
  OBVIOUS
<1>2. PICK g : LoopOf(g, D, <<>>, N, step)
  <2> HIDE DEF N, D, step
  <2> QED
    BY ZenonT(30), <1>1, LoopDefined
<1>3. \A n \in 0 .. N : n = 0 \/ (n - 1 \in 0 .. N /\ n \in 1 .. N)
  BY <1>1
<1>4. \A n \in 0 .. N : g[n] = IF n = 0 THEN <<>>
                              ELSE IF s[n] \in T THEN Append(g[n - 1], s[n])
                              ELSE g[n - 1]
  BY ZenonT(30), <1>2, <1>3 DEF LoopOf
<1>5. g = F(g)
  BY <1>2, <1>4 DEF LoopOf
<1>6. k = F(k)
  <2> HIDE DEF F
  <2> QED
    BY <1>5
<1>7. Keep(s, T) = k[N]
  BY DEF Keep
<1> HIDE DEF k
<1>8. /\ DOMAIN k = 0 .. N /\ k[0] = <<>> /\ k = [n \in 0 .. N |-> k[n]]
      /\ \A n \in 1 .. N : k[n] = IF s[n] \in T THEN Append(k[n - 1], s[n]) ELSE k[n - 1]
  <2> DEFINE h == F(k)
  <2>1. /\ DOMAIN h = 0 .. N /\ h[0] = <<>> /\ h = [n \in 0 .. N |-> h[n]]
        /\ \A n \in 1 .. N : h[n] = IF s[n] \in T THEN Append(k[n - 1], s[n]) ELSE k[n - 1]
    BY <1>1
  <2> HIDE DEF h
  <2> QED
    BY ZenonT(30), <1>6, <2>1 DEF h
<1>9. \A n \in 1 .. N : k[n] = IF s[n] \in T THEN Append(k[n - 1], s[n]) ELSE k[n - 1]
  BY Zenon, <1>8
<1> HIDE DEF F
<1> DEFINE Z == {n \in Nat : n <= N => k[n] \in D}
<1>10. Z = Nat
  <2>1. 0 \in Z
    BY ZenonT(30), <1>1, <1>8
  <2>2. ASSUME NEW n \in Z PROVE n + 1 \in Z
    <3> SUFFICES ASSUME n + 1 <= N PROVE k[n + 1] \in D
      OBVIOUS
    <3>1. n + 1 \in 1 .. N /\ k[n] \in D /\ n + 1 - 1 = n /\ s[n + 1] \in E
      BY <1>1
    <3>2. k[n + 1] = IF s[n + 1] \in T THEN Append(k[n], s[n + 1]) ELSE k[n]
      BY <1>9, <3>1
    <3> QED
      BY <3>1, <3>2
  <2>3. Z \subseteq Nat
    OBVIOUS
  <2> HIDE DEF Z
  <2> QED
    BY Zenon, <2>1, <2>2, <2>3, SetInduction
<1>11. k \in [0 .. N -> D]
  <2>1. \A n \in 0 .. N : k[n] \in D
    BY <1>1, <1>10
  <2> QED
    BY <1>8, <2>1
<1> QED
  BY ZenonT(30), <1>7, <1>8, <1>11 DEF KeepSteps

\* A sequence with one more element.
LEMMA RangeAppend ==
  ASSUME NEW E, NEW s \in Seq(E), NEW e \in E
  PROVE  Range(Append(s, e)) = Range(s) \cup {e}
<1> DEFINE t == Append(s, e)
<1>1. Len(s) \in Nat /\ DOMAIN s = 1 .. Len(s)
  OBVIOUS
<1>2. /\ DOMAIN t = 1 .. Len(s) + 1 /\ t[Len(s) + 1] = e
      /\ \A i \in 1 .. Len(s) : t[i] = s[i]
  BY <1>1
<1> HIDE DEF t
<1>3. \A i \in 1 .. Len(s) + 1 : i \in 1 .. Len(s) \/ i = Len(s) + 1
  BY <1>1
<1>4. Len(s) + 1 \in 1 .. Len(s) + 1 /\ \A i \in 1 .. Len(s) : i \in 1 .. Len(s) + 1
  BY <1>1
<1> QED
  BY <1>1, <1>2, <1>3, <1>4 DEF Range, t

\* Keep returns the elements that lie in T, and no more of them than there were.
LEMMA KeepFacts ==
  ASSUME NEW E, NEW s \in Seq(E), NEW T
  PROVE  /\ Keep(s, T) \in Seq(E)
         /\ Len(Keep(s, T)) <= Len(s)
         /\ Range(Keep(s, T)) = Range(s) \cap T
<1>1. PICK k : KeepSteps(k, E, s, T)
  BY KeepLoop
<1>2. /\ k \in [0 .. Len(s) -> Seq(E)] /\ k[0] = <<>> /\ k[Len(s)] = Keep(s, T)
      /\ \A n \in 1 .. Len(s) : k[n] = IF s[n] \in T THEN Append(k[n - 1], s[n]) ELSE k[n - 1]
  BY <1>1 DEF KeepSteps
<1>3. Len(s) \in Nat /\ DOMAIN s = 1 .. Len(s)
  OBVIOUS
<1> DEFINE P(n) == Len(k[n]) <= n /\ Range(k[n]) = {s[i] : i \in 1 .. n} \cap T
           Z == {n \in Nat : n <= Len(s) => P(n)}
<1>4. 0 \in Z
  BY <1>2 DEF Range
<1>5. ASSUME NEW n \in Z PROVE n + 1 \in Z
  <2> SUFFICES ASSUME n + 1 <= Len(s) PROVE P(n + 1)
    OBVIOUS
  <2>1. n \in Nat /\ n + 1 \in 1 .. Len(s) /\ n \in 0 .. Len(s) /\ n + 1 - 1 = n /\ P(n)
    BY <1>3
  <2>2. k[n] \in Seq(E) /\ s[n + 1] \in E
    <3>1. n \in 0 .. Len(s) /\ n + 1 \in 1 .. Len(s)
      BY <2>1
    <3> HIDE DEF Z, P
    <3> QED BY SMTT(30), <1>2, <3>1
  <2>3. k[n + 1] = IF s[n + 1] \in T THEN Append(k[n], s[n + 1]) ELSE k[n]
    <3>1. n \in Nat /\ n + 1 \in 1 .. Len(s) /\ n + 1 - 1 = n
      BY <2>1
    <3> HIDE DEF Z, P
    <3> QED BY SMTT(30), <1>2, <3>1
  <2>4. {s[i] : i \in 1 .. n + 1} = {s[i] : i \in 1 .. n} \cup {s[n + 1]}
    BY <2>1
  <2>5. CASE s[n + 1] \in T
    <3>1. k[n + 1] = Append(k[n], s[n + 1])
      BY <2>3, <2>5
    <3>2. Len(k[n + 1]) = Len(k[n]) + 1 /\ Len(k[n]) \in Nat
      BY <2>2, <3>1
    <3>3. Range(k[n + 1]) = Range(k[n]) \cup {s[n + 1]}
      <4> DEFINE a == k[n]
                 e == s[n + 1]
      <4> HIDE DEF Z, P, a, e
      <4>1. a \in Seq(E) /\ e \in E
        BY <2>2 DEF a, e
      <4>2. Range(Append(a, e)) = Range(a) \cup {e}
        BY <4>1, RangeAppend
      <4> QED
        BY <3>1, <4>2 DEF a, e
    <3> QED
      BY <2>1, <2>4, <2>5, <3>2, <3>3
  <2>6. CASE s[n + 1] \notin T
    <3>1. k[n + 1] = k[n] /\ Len(k[n]) \in Nat
      BY <2>2, <2>3, <2>6
    <3> QED
      BY <2>1, <2>4, <2>6, <3>1
  <2> QED
    BY <2>5, <2>6
<1>6. Z = Nat
  <2>1. Z \subseteq Nat
    OBVIOUS
  <2> HIDE DEF Z
  <2> QED
    BY Zenon, <1>4, <1>5, <2>1, SetInduction
<1>7. P(Len(s)) /\ Len(s) \in 0 .. Len(s)
  <2> HIDE DEF P
  <2> QED
    BY <1>3, <1>6
<1>8. {s[i] : i \in 1 .. Len(s)} = Range(s)
  BY <1>3 DEF Range
<1> QED
  BY <1>2, <1>7, <1>8

\* A sequence has at least as many places as elements.
LEMMA RangeCardinality ==
  ASSUME NEW E, NEW s \in Seq(E)
  PROVE  IsFiniteSet(Range(s)) /\ Cardinality(Range(s)) <= Len(s)
<1>1. Len(s) \in Nat /\ DOMAIN s = 1 .. Len(s) /\ s \in [1 .. Len(s) -> E]
  OBVIOUS
<1>2. IsFiniteSet(1 .. Len(s)) /\ Cardinality(1 .. Len(s)) = Len(s)
  <2>1. PICK n \in Nat : n = Len(s)
    BY ZenonT(30), <1>1
  <2>2. IsFiniteSet(1 .. n) /\ Cardinality(1 .. n) = n
    BY SMTT(30), FS_Interval
  <2> QED
    BY <2>1, <2>2
<1> DEFINE I == 1 .. Len(s)
           R == {s[i] : i \in I}
<1>3. s \in Surjection(I, R)
  BY <1>1 DEF Surjection
<1> HIDE DEF I, R
<1>4. IsFiniteSet(R) /\ Cardinality(R) <= Cardinality(I)
  BY ZenonT(30), <1>2, <1>3, FS_Surjection DEF ExistsSurjection, I
<1> QED
  BY ZenonT(30), <1>1, <1>2, <1>4 DEF Range, I, R

=============================================================================
