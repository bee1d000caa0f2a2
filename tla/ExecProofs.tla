------------------------------ MODULE ExecProofs ------------------------------
(***************************************************************************)
(* Proofs about Exec, for every number of venues, prices, orders and        *)
(* signals and every setting of the guards: the cooldown, the tracker, and  *)
(* the notional each fill adds to a venue's position.                       *)
(***************************************************************************)
EXTENDS Exec, Induction

Order ==
  [pair : Pairs, ts : Nat, price : Prices, answer : {"none", "fill", "error"},
   pending : BOOLEAN, timer : {"armed", "expired", "done"}, timeout : BOOLEAN]

\* While the process runs, an order is pending until it is filled or reported.
Tracked(o) ==
  /\ o.pending <=> o.answer # "fill" /\ ~ o.timeout
  /\ o.pending => o.timer # "done"

\* The last dispatch of a pair is not older than any order for it.
ExecInv ==
  /\ orders \in Seq(Order) /\ last_signal \in [Pairs -> Nat] /\ stopped \in BOOLEAN
  /\ Cooldown > 0 => \A i \in DOMAIN orders :
       orders[i].ts > 0 /\ orders[i].ts <= last_signal[orders[i].pair]
  /\ CooldownRespected
  /\ TrackedUntilResolved

-----------------------------------------------------------------------------
\* What happens to one order (a fill, an error, its deadline) leaves the pair and
\* the time of every order alone, so only the tracker's part is at stake.
LEMMA OneOrder ==
  ASSUME ExecInv, NEW i \in DOMAIN orders, NEW o \in Order,
         o.pair = orders[i].pair, o.ts = orders[i].ts, ~ stopped => Tracked(o),
         orders' = [orders EXCEPT ![i] = o], last_signal' = last_signal, stopped' = stopped
  PROVE  ExecInv'
<1>1. /\ orders' \in Seq(Order) /\ DOMAIN orders' = DOMAIN orders
      /\ \A j \in DOMAIN orders : orders'[j] = IF j = i THEN o ELSE orders[j]
  BY ExceptSeq, LenProperties DEF ExecInv
<1>2. \A j \in DOMAIN orders : orders'[j].pair = orders[j].pair /\ orders'[j].ts = orders[j].ts
  BY <1>1
<1>3. Cooldown > 0 => \A j \in DOMAIN orders' :
        orders'[j].ts > 0 /\ orders'[j].ts <= last_signal'[orders'[j].pair]
  BY <1>1, <1>2 DEF ExecInv
<1>4. CooldownRespected'
  BY <1>1, <1>2 DEF ExecInv, CooldownRespected
<1>5. TrackedUntilResolved'
  BY <1>1 DEF ExecInv, TrackedUntilResolved, Tracked
<1> QED
  BY <1>1, <1>3, <1>4, <1>5 DEF ExecInv

\* A signal: rejected, or dispatched after the cooldown of its pair.
LEMMA SignalStep == ASSUME ExecInv, NEW c \in Crosses, OnSignal(c) PROVE ExecInv'
<1>1. c.pair \in Pairs /\ c.ts \in Nat /\ c.ts > 0 /\ c.bid \in Prices /\ c.ask \in Prices
  BY ExecAssumption DEF Crosses
<1>2. stopped' = stopped /\ ~ stopped
  BY DEF OnSignal
<1>3. CASE UNCHANGED <<last_signal, orders>>
  BY <1>2, <1>3 DEF ExecInv, CooldownRespected, TrackedUntilResolved
<1>4. CASE OutOfCooldown(c) /\ Dispatch(c)
           /\ last_signal' = IF Cooldown > 0 THEN [last_signal EXCEPT ![c.pair] = c.ts]
                             ELSE last_signal
  <2>1. /\ last_signal' \in [Pairs -> Nat]
        /\ Cooldown > 0 => /\ last_signal'[c.pair] = c.ts
                           /\ \A p \in Pairs : last_signal'[p] >= last_signal[p]
    <3>1. last_signal \in [Pairs -> Nat] /\ Cooldown \in Nat
      BY ExecAssumption DEF ExecInv
    <3>2. Cooldown > 0 => c.ts >= last_signal[c.pair]
      BY <1>1, <1>4, <3>1 DEF OutOfCooldown
    <3> QED
      BY <1>1, <1>4, <3>1, <3>2
  <2>2. Cooldown > 0 => \A i \in DOMAIN orders :
          /\ orders[i].ts > 0 /\ orders[i].ts <= last_signal'[orders[i].pair]
          /\ orders[i].pair = c.pair => c.ts - orders[i].ts >= Cooldown
    <3> SUFFICES ASSUME Cooldown > 0, NEW i \in DOMAIN orders
                 PROVE  /\ orders[i].ts > 0 /\ orders[i].ts <= last_signal'[orders[i].pair]
                        /\ orders[i].pair = c.pair => c.ts - orders[i].ts >= Cooldown
      OBVIOUS
    <3>1. /\ orders[i].pair \in Pairs /\ orders[i].ts \in Nat /\ orders[i].ts > 0
          /\ orders[i].ts <= last_signal[orders[i].pair]
      <4>1. orders[i] \in Order
        BY ElementOfSeq, LenProperties DEF ExecInv
      <4> QED
        BY <4>1 DEF ExecInv, Order
    <3>2. /\ last_signal[orders[i].pair] \in Nat /\ last_signal[c.pair] \in Nat
          /\ last_signal'[orders[i].pair] \in Nat
          /\ last_signal'[orders[i].pair] >= last_signal[orders[i].pair] /\ Cooldown \in Nat
      BY <1>1, <2>1, <3>1, ExecAssumption DEF ExecInv
    <3>3. last_signal[c.pair] = 0 \/ c.ts - last_signal[c.pair] >= Cooldown
      BY <1>4, ExecAssumption DEF OutOfCooldown
    <3> QED
      BY <1>1, <3>1, <3>2, <3>3
  <2>3. CASE UNCHANGED orders
    BY <1>2, <2>1, <2>2, <2>3 DEF ExecInv, CooldownRespected, TrackedUntilResolved
  <2>4. CASE \E price \in Prices : orders' = Append(orders, NewOrder(c, price))
    <3>1. PICK price \in Prices : orders' = Append(orders, NewOrder(c, price))
      BY <2>4
    <3> DEFINE o == NewOrder(c, price)
               n == Len(orders)
    <3>2. o \in Order /\ o.pair = c.pair /\ o.ts = c.ts /\ Tracked(o)
      BY <1>1 DEF NewOrder, Order, Tracked
    <3>3. orders \in Seq(Order) /\ n \in Nat /\ DOMAIN orders = 1 .. n
      BY LenProperties DEF ExecInv
    <3>4. /\ orders' \in Seq(Order) /\ DOMAIN orders' = 1 .. n + 1
          /\ \A i \in 1 .. n : orders'[i] = orders[i]
          /\ orders'[n + 1] = o
      BY <3>1, <3>2, <3>3, AppendProperties, LenProperties
    <3> HIDE DEF o, n
    <3>5. \A i \in DOMAIN orders' : \/ i \in DOMAIN orders /\ orders'[i] = orders[i]
                                    \/ orders'[i] = o
      <4>1. \A i \in DOMAIN orders' : i \in 1 .. n \/ i = n + 1
        BY <3>3, <3>4
      <4> QED
        BY <3>3, <3>4, <4>1
    <3>6. Cooldown > 0 => \A i \in DOMAIN orders' :
            orders'[i].ts > 0 /\ orders'[i].ts <= last_signal'[orders'[i].pair]
      BY <1>1, <2>1, <2>2, <3>2, <3>5
    <3>7. CooldownRespected'
      <4> SUFFICES ASSUME Cooldown > 0, NEW i \in DOMAIN orders', NEW j \in DOMAIN orders',
                          i < j, orders'[i].pair = orders'[j].pair
                   PROVE  orders'[j].ts - orders'[i].ts >= Cooldown
        BY DEF CooldownRespected
      <4>1. i \in DOMAIN orders /\ orders'[i] = orders[i]
        BY <3>3, <3>4
      <4>2. CASE j \in DOMAIN orders /\ orders'[j] = orders[j]
        BY <4>1, <4>2 DEF ExecInv, CooldownRespected
      <4>3. CASE orders'[j] = o
        BY <2>2, <3>2, <4>1, <4>3
      <4> QED
        BY <3>5, <4>2, <4>3
    <3>8. TrackedUntilResolved'
      BY <1>2, <3>2, <3>5 DEF ExecInv, TrackedUntilResolved, Tracked
    <3> QED
      BY <1>2, <2>1, <3>4, <3>6, <3>7, <3>8 DEF ExecInv
  <2> QED
    BY <1>1, <1>4, <2>3, <2>4 DEF Dispatch
<1> QED
  BY <1>3, <1>4 DEF OnSignal

\* A fill, a client error, a deadline that expires and its handler.
LEMMA OrderStep ==
  ASSUME ExecInv, NEW i \in DOMAIN orders, OnFill(i) \/ OnError(i) \/ TimerExpires(i) \/ OnTimeout(i)
  PROVE  ExecInv'
<1> DEFINE o == orders[i]
<1>1. o \in Order
  BY ElementOfSeq, LenProperties DEF ExecInv
<1>2. ~ stopped /\ Tracked(o) /\ stopped' = stopped /\ last_signal' = last_signal
  BY DEF ExecInv, TrackedUntilResolved, Tracked, OnFill, OnError, TimerExpires, OnTimeout
<1>3. CASE OnFill(i)
  <2> DEFINE p == [o EXCEPT !.answer = "fill", !.pending = FALSE,
                            !.timer = IF @ = "armed" THEN "done" ELSE @]
  <2>1. orders' = [orders EXCEPT ![i] = p]
    BY ZenonT(30), <1>3 DEF OnFill
  <2>2. p \in Order /\ p.pair = o.pair /\ p.ts = o.ts /\ Tracked(p)
    BY ZenonT(30), <1>1 DEF Order, Tracked
  <2> QED
    BY ZenonT(30), <1>2, <2>1, <2>2, OneOrder
<1>4. CASE OnError(i)
  <2> DEFINE p == [o EXCEPT !.answer = "error"]
  <2>1. orders' = [orders EXCEPT ![i] = p] /\ o.answer = "none"
    BY <1>4 DEF OnError
  <2>2. p \in Order /\ p.pair = o.pair /\ p.ts = o.ts /\ Tracked(p)
    BY <1>1, <1>2, <2>1 DEF Order, Tracked
  <2> QED
    BY ZenonT(30), <1>2, <2>1, <2>2, OneOrder
<1>5. CASE TimerExpires(i)
  <2> DEFINE p == [o EXCEPT !.timer = "expired"]
  <2>1. orders' = [orders EXCEPT ![i] = p]
    BY <1>5 DEF TimerExpires
  <2>2. p \in Order /\ p.pair = o.pair /\ p.ts = o.ts /\ Tracked(p)
    BY <1>1, <1>2 DEF Order, Tracked
  <2> QED
    BY ZenonT(30), <1>2, <2>1, <2>2, OneOrder
<1>6. CASE OnTimeout(i)
  <2> DEFINE p == [o EXCEPT !.timer = "done", !.pending = FALSE, !.timeout = TRUE]
  <2>1. orders' = [orders EXCEPT ![i] = p]
    BY ZenonT(30), <1>6 DEF OnTimeout
  <2>2. p \in Order /\ p.pair = o.pair /\ p.ts = o.ts /\ Tracked(p)
    BY ZenonT(30), <1>1 DEF Order, Tracked
  <2> QED
    BY ZenonT(30), <1>2, <2>1, <2>2, OneOrder
<1> QED
  BY <1>3, <1>4, <1>5, <1>6

\* Shutdown: the tracker forgets every order, whose pair and time stay.
LEMMA ShutdownStep == ASSUME ExecInv, Shutdown PROVE ExecInv'
<1> DEFINE e(i) == [orders[i] EXCEPT !.pending = FALSE,
                                     !.timer = IF @ = "armed" THEN "done" ELSE @]
<1>1. orders \in Seq(Order) /\ Len(orders) \in Nat /\ DOMAIN orders = 1 .. Len(orders)
  BY LenProperties DEF ExecInv
<1>2. \A i \in DOMAIN orders : /\ e(i) \in Order
                               /\ e(i).pair = orders[i].pair /\ e(i).ts = orders[i].ts
  <2> TAKE i \in DOMAIN orders
  <2>1. orders[i] \in Order
    BY <1>1, ElementOfSeq
  <2> QED
    BY ZenonT(30), <2>1 DEF Order
<1>3. orders' = [i \in 1 .. Len(orders) |-> e(i)] /\ stopped' = TRUE /\ last_signal' = last_signal
  BY ZenonT(30), <1>1 DEF Shutdown
<1> HIDE DEF e
<1>4. orders' \in Seq(Order) /\ DOMAIN orders' = DOMAIN orders /\ \A i \in DOMAIN orders : orders'[i] = e(i)
  BY <1>1, <1>2, <1>3
<1>5. \A i \in DOMAIN orders : orders'[i].pair = orders[i].pair /\ orders'[i].ts = orders[i].ts
  BY <1>2, <1>4
<1>6. Cooldown > 0 => \A i \in DOMAIN orders' :
        orders'[i].ts > 0 /\ orders'[i].ts <= last_signal'[orders'[i].pair]
  BY ZenonT(30), <1>3, <1>4, <1>5 DEF ExecInv
<1>7. CooldownRespected'
  BY <1>4, <1>5 DEF ExecInv, CooldownRespected
<1>8. TrackedUntilResolved'
  BY <1>3 DEF TrackedUntilResolved
<1> QED
  BY <1>3, <1>4, <1>6, <1>7, <1>8 DEF ExecInv

-----------------------------------------------------------------------------
(* The position.                                                            *)

\* What order o adds is a natural number.
LEMMA DueNat == ASSUME NEW o \in Order PROVE Due(o) \in Nat
<1>1. o.price \in Nat /\ TargetQty \in Nat
  BY ZenonT(30), ExecAssumption DEF Order
<1>2. TargetQty * o.price \in Nat
  BY <1>1
<1> QED
  BY <1>2 DEF Due

\* What the first orders of os add up to, by their number.
SumSteps(k, os) ==
  /\ k \in [0 .. Len(os) -> Nat] /\ k[0] = 0 /\ k[Len(os)] = FilledNotional(os)
  /\ \A n \in 1 .. Len(os) : k[n] = k[n - 1] + Due(os[n])

\* The sum is well defined.
LEMMA SumLoop == ASSUME NEW os \in Seq(Order) PROVE \E k : SumSteps(k, os)
<1> DEFINE N == Len(os)
           step == [x \in Nat \X (1 .. N) |-> x[1] + Due(os[x[2]])]
           F(f) == [n \in 0 .. N |-> IF n = 0 THEN 0 ELSE f[n - 1] + Due(os[n])]
           k == CHOOSE f : f = F(f)
<1>1. N \in Nat /\ \A n \in 1 .. N : Due(os[n]) \in Nat
  BY DueNat
<1>2. 0 \in Nat /\ step \in [Nat \X (1 .. N) -> Nat]
  BY <1>1
<1>3. PICK g : LoopOf(g, Nat, 0, N, step)
  <2> HIDE DEF N, step
  <2> QED
    BY ZenonT(30), <1>1, <1>2, LoopDefined
<1>4. \A n \in 0 .. N : n = 0 \/ (n - 1 \in 0 .. N /\ n \in 1 .. N)
  BY <1>1
<1>5. \A n \in 0 .. N : g[n] = IF n = 0 THEN 0 ELSE g[n - 1] + Due(os[n])
  BY ZenonT(30), <1>3, <1>4 DEF LoopOf
<1>6. g = F(g)
  BY <1>3, <1>5 DEF LoopOf
<1>7. k = F(k)
  <2> HIDE DEF F
  <2> QED
    BY <1>6
<1>8. FilledNotional(os) = k[N]
  BY DEF FilledNotional
<1> HIDE DEF k
<1>9. /\ DOMAIN k = 0 .. N /\ k[0] = 0 /\ k = [n \in 0 .. N |-> k[n]]
      /\ \A n \in 1 .. N : k[n] = k[n - 1] + Due(os[n])
  <2> DEFINE h == F(k)
  <2>1. /\ DOMAIN h = 0 .. N /\ h[0] = 0 /\ h = [n \in 0 .. N |-> h[n]]
        /\ \A n \in 1 .. N : h[n] = k[n - 1] + Due(os[n])
    BY <1>1
  <2> HIDE DEF h
  <2> QED
    BY <1>7, <2>1 DEF h
<1>10. \A n \in 1 .. N : k[n] = k[n - 1] + Due(os[n])
  BY Zenon, <1>9
<1> HIDE DEF F
<1> DEFINE Z == {n \in Nat : n <= N => k[n] \in Nat}
<1>11. Z = Nat
  <2>1. 0 \in Z
    BY <1>1, <1>9
  <2>2. ASSUME NEW n \in Z PROVE n + 1 \in Z
    <3> SUFFICES ASSUME n + 1 <= N PROVE k[n + 1] \in Nat
      OBVIOUS
    <3>1. n + 1 \in 1 .. N /\ k[n] \in Nat /\ n + 1 - 1 = n
      BY <1>1
    <3>2. k[n + 1] = k[n] + Due(os[n + 1])
      BY <1>10, <3>1
    <3> QED
      BY <1>1, <3>1, <3>2
  <2>3. Z \subseteq Nat
    OBVIOUS
  <2> HIDE DEF Z
  <2> QED
    BY Zenon, <2>1, <2>2, <2>3, SetInduction
<1>12. k \in [0 .. N -> Nat]
  <2>1. \A n \in 0 .. N : k[n] \in Nat
    BY <1>1, <1>11
  <2> QED
    BY <1>9, <2>1
<1> QED
  BY ZenonT(30), <1>8, <1>9, <1>12 DEF SumSteps

\* Two lists whose first N orders add the same, order i apart.
LEMMA SumCompare ==
  ASSUME NEW os \in Seq(Order), NEW ps \in Seq(Order), NEW k, NEW l,
         SumSteps(k, os), SumSteps(l, ps),
         NEW N \in Nat, N <= Len(os), N <= Len(ps), NEW i \in Nat,
         \A j \in 1 .. N : j # i => Due(ps[j]) = Due(os[j])
  PROVE  l[N] = IF i \in 1 .. N THEN k[N] + Due(ps[i]) - Due(os[i]) ELSE k[N]
<1> DEFINE P(n) == l[n] = IF i \in 1 .. n THEN k[n] + Due(ps[i]) - Due(os[i]) ELSE k[n]
           Z == {n \in Nat : n <= N => P(n)}
<1>1. /\ k[0] = 0 /\ l[0] = 0
      /\ \A n \in 1 .. N : k[n] = k[n - 1] + Due(os[n]) /\ l[n] = l[n - 1] + Due(ps[n])
      /\ \A n \in 0 .. N : k[n] \in Nat /\ l[n] \in Nat
  <2>1. Len(os) \in Nat /\ Len(ps) \in Nat
    OBVIOUS
  <2>2. /\ \A n \in 1 .. N : n \in 1 .. Len(os) /\ n \in 1 .. Len(ps)
        /\ \A n \in 0 .. N : n \in 0 .. Len(os) /\ n \in 0 .. Len(ps)
    BY <2>1
  <2>3. /\ k[0] = 0 /\ l[0] = 0
        /\ \A n \in 1 .. Len(os) : k[n] = k[n - 1] + Due(os[n])
        /\ \A n \in 1 .. Len(ps) : l[n] = l[n - 1] + Due(ps[n])
        /\ \A n \in 0 .. Len(os) : k[n] \in Nat
        /\ \A n \in 0 .. Len(ps) : l[n] \in Nat
    BY ZenonT(30) DEF SumSteps
  <2> HIDE DEF P, Z
  <2> QED
    BY ZenonT(30), <2>2, <2>3
<1>2. \A n \in 1 .. N : Due(os[n]) \in Nat /\ Due(ps[n]) \in Nat
  <2>1. \A n \in 1 .. N : os[n] \in Order /\ ps[n] \in Order
    BY SMTT(30)
  <2> QED
    BY ZenonT(30), <2>1, DueNat
<1>3. 0 \in Z
  BY <1>1
<1>4. ASSUME NEW n \in Z PROVE n + 1 \in Z
  <2> SUFFICES ASSUME n + 1 <= N PROVE P(n + 1)
    OBVIOUS
  <2>1. n \in Nat /\ n + 1 \in 1 .. N /\ n \in 0 .. N /\ n + 1 - 1 = n /\ P(n)
    OBVIOUS
  <2>2. k[n + 1] = k[n] + Due(os[n + 1]) /\ l[n + 1] = l[n] + Due(ps[n + 1])
    BY <1>1, <2>1
  <2>3. /\ k[n] \in Nat /\ l[n] \in Nat /\ Due(os[n + 1]) \in Nat /\ Due(ps[n + 1]) \in Nat
        /\ i \in 1 .. n => Due(os[i]) \in Nat /\ Due(ps[i]) \in Nat
    <3>1. i \in 1 .. n => i \in 1 .. N
      BY <2>1
    <3> HIDE DEF Z
    <3> QED
      BY ZenonT(30), <1>1, <1>2, <2>1, <3>1
  <2>4. CASE i = n + 1
    BY SMTT(30), <2>1, <2>2, <2>3, <2>4
  <2>5. CASE i # n + 1
    <3>1. Due(ps[n + 1]) = Due(os[n + 1])
      BY <2>1, <2>5
    <3>2. i \in 1 .. n + 1 <=> i \in 1 .. n
      BY <2>1, <2>5
    <3> QED
      BY SMTT(30), <2>1, <2>2, <2>3, <3>1, <3>2
  <2> QED
    BY <2>4, <2>5
<1>5. Z = Nat
  <2>1. Z \subseteq Nat
    OBVIOUS
  <2> HIDE DEF Z
  <2> QED
    BY Zenon, <1>3, <1>4, <2>1, SetInduction
<1> QED
  BY <1>5

\* Every fill is counted: an order enters unfilled, a fill adds what its order is
\* worth, and nothing else touches either side.
LEMMA PositionStep == ASSUME ExecInv, FillsCounted, [Next]_vars PROVE FillsCounted'
<1> DEFINE os == orders
           ps == orders'
           N == Len(orders)
<1>1. os \in Seq(Order) /\ N \in Nat /\ DOMAIN os = 1 .. N
  BY LenProperties DEF ExecInv
<1>2. ASSUME ps \in Seq(Order), NEW i \in Nat, Len(ps) = N,
             \A j \in 1 .. N : j # i => Due(ps[j]) = Due(os[j]),
             open_notional' = IF i \in 1 .. N THEN open_notional + Due(ps[i]) - Due(os[i])
                              ELSE open_notional
      PROVE  FillsCounted'
  <2> HIDE DEF os, ps
  <2>1. PICK k : SumSteps(k, os)
    BY <1>1, SumLoop
  <2>2. PICK l : SumSteps(l, ps)
    BY <1>2, SumLoop
  <2>3. l[N] = IF i \in 1 .. N THEN k[N] + Due(ps[i]) - Due(os[i]) ELSE k[N]
    BY SMTT(30), <1>1, <1>2, <2>1, <2>2, SumCompare DEF os
  <2>4. k[N] = FilledNotional(os) /\ l[N] = FilledNotional(ps)
    BY <1>2, <2>1, <2>2 DEF SumSteps, os
  <2> QED
    BY <1>2, <2>3, <2>4 DEF FillsCounted, os, ps
<1>3. ASSUME NEW o \in Order, ps = Append(os, o), o.answer = "none",
             open_notional' = open_notional
      PROVE  FillsCounted'
  <2>1. /\ ps \in Seq(Order) /\ Len(ps) = N + 1 /\ ps[N + 1] = o
        /\ \A j \in 1 .. N : ps[j] = os[j]
    BY <1>1, <1>3
  <2> HIDE DEF os, ps
  <2>2. PICK k : SumSteps(k, os)
    BY <1>1, SumLoop
  <2>3. PICK l : SumSteps(l, ps)
    BY <2>1, SumLoop
  <2>4. l[N] = k[N]
    <3>1. \A j \in 1 .. N : j # 0 => Due(ps[j]) = Due(os[j])
      BY <2>1
    <3>2. 0 \notin 1 .. N /\ N <= Len(ps) /\ 0 \in Nat
      BY <1>1, <2>1
    <3> QED
      BY SMTT(30), <1>1, <2>1, <2>2, <2>3, <3>1, <3>2, SumCompare DEF os
  <2>5. l[N + 1] = l[N]
    <3>1. N + 1 \in 1 .. Len(ps) /\ N + 1 - 1 = N /\ N \in 0 .. Len(ps)
      BY <1>1, <2>1
    <3>2. l[N + 1] = l[N] + Due(o) /\ l[N] \in Nat
      BY <2>1, <2>3, <3>1 DEF SumSteps
    <3> QED
      BY <1>3, <3>2 DEF Due
  <2>6. k[N] = FilledNotional(os) /\ l[N + 1] = FilledNotional(ps)
    BY <2>1, <2>2, <2>3 DEF SumSteps, os
  <2> QED
    BY <1>3, <2>4, <2>5, <2>6 DEF FillsCounted, os, ps
<1>4. CASE UNCHANGED <<orders, open_notional>>
  BY <1>4 DEF FillsCounted
<1>5. ASSUME NEW c \in Crosses, OnSignal(c) PROVE FillsCounted'
  <2>1. CASE \E price \in Prices : ps = Append(os, NewOrder(c, price))
    <3>1. PICK price \in Prices : ps = Append(os, NewOrder(c, price))
      BY <2>1
    <3>2. NewOrder(c, price) \in Order /\ NewOrder(c, price).answer = "none"
      BY ExecAssumption DEF Crosses, NewOrder, Order
    <3> QED
      BY <1>3, <1>5, <3>1, <3>2 DEF OnSignal
  <2>2. c.bid \in Prices /\ c.ask \in Prices
    BY DEF Crosses
  <2> QED
    BY <1>4, <1>5, <2>1, <2>2 DEF OnSignal, Dispatch
<1>6. ASSUME NEW i \in DOMAIN orders, NEW o \in Order, ps = [os EXCEPT ![i] = o],
             open_notional' = open_notional + Due(o) - Due(os[i])
      PROVE  FillsCounted'
  <2>1. /\ ps \in Seq(Order) /\ Len(ps) = N /\ i \in 1 .. N /\ i \in Nat /\ ps[i] = o
        /\ \A j \in 1 .. N : j # i => ps[j] = os[j]
    BY <1>1, <1>6, ExceptSeq
  <2> QED
    BY <1>2, <1>6, <2>1
<1>7. open_notional \in Nat
  <2>1. PICK k : SumSteps(k, os)
    BY <1>1, SumLoop
  <2>2. k[N] \in Nat /\ k[N] = FilledNotional(orders)
    BY <1>1, <2>1 DEF SumSteps
  <2> QED
    BY <2>2 DEF FillsCounted
<1>8. ASSUME NEW i \in DOMAIN orders, OnFill(i) \/ OnError(i) \/ TimerExpires(i) \/ OnTimeout(i)
      PROVE  FillsCounted'
  <2> DEFINE o == orders[i]
  <2>1. o \in Order
    BY <1>1, ElementOfSeq
  <2>2. Due(o) \in Nat
    BY <2>1, DueNat
  <2>3. CASE OnFill(i)
    <3> DEFINE p == [o EXCEPT !.answer = "fill", !.pending = FALSE,
                              !.timer = IF @ = "armed" THEN "done" ELSE @]
    <3>1. ps = [os EXCEPT ![i] = p]
      BY ZenonT(30), <2>3 DEF OnFill
    <3>2. p \in Order /\ p.answer = "fill" /\ p.price = o.price
      BY ZenonT(30), <2>1 DEF Order
    <3>3. Due(p) = TargetQty * o.price /\ Due(o) = 0
      BY <2>3, <3>2 DEF Due, OnFill
    <3>4. Due(p) \in Nat
      BY <3>2, DueNat
    <3>5. open_notional' = open_notional + Due(p)
      BY <2>3, <3>3 DEF OnFill
    <3>6. open_notional' = open_notional + Due(p) - Due(o)
      <4> HIDE DEF o, p
      <4> QED
        BY <1>7, <3>3, <3>4, <3>5
    <3> QED
      BY ZenonT(30), <1>6, <3>1, <3>2, <3>6
  <2>4. ASSUME NEW p \in Order, ps = [os EXCEPT ![i] = p], Due(p) = Due(o),
               open_notional' = open_notional
        PROVE  FillsCounted'
    <3>1. open_notional' = open_notional + Due(p) - Due(o)
      <4> HIDE DEF o
      <4> QED
        BY <1>7, <2>2, <2>4
    <3> QED
      BY ZenonT(30), <1>6, <2>4, <3>1
  <2>5. CASE OnError(i)
    <3> DEFINE p == [o EXCEPT !.answer = "error"]
    <3>1. ps = [os EXCEPT ![i] = p] /\ o.answer = "none" /\ open_notional' = open_notional
      BY <2>5 DEF OnError
    <3>2. p \in Order /\ Due(p) = Due(o)
      BY <2>1, <3>1 DEF Order, Due
    <3> QED
      BY ZenonT(30), <2>4, <3>1, <3>2
  <2>6. CASE TimerExpires(i)
    <3> DEFINE p == [o EXCEPT !.timer = "expired"]
    <3>1. ps = [os EXCEPT ![i] = p] /\ open_notional' = open_notional
      BY <2>6 DEF TimerExpires
    <3>2. p \in Order /\ Due(p) = Due(o)
      BY <2>1 DEF Order, Due
    <3> QED
      BY ZenonT(30), <2>4, <3>1, <3>2
  <2>7. CASE OnTimeout(i)
    <3> DEFINE p == [o EXCEPT !.timer = "done", !.pending = FALSE, !.timeout = TRUE]
    <3>1. ps = [os EXCEPT ![i] = p] /\ open_notional' = open_notional
      BY ZenonT(30), <2>7 DEF OnTimeout
    <3>2. p \in Order /\ Due(p) = Due(o)
      BY ZenonT(30), <2>1 DEF Order, Due
    <3> QED
      BY ZenonT(30), <2>4, <3>1, <3>2
  <2> QED
    BY <1>8, <2>3, <2>5, <2>6, <2>7
<1>9. CASE Shutdown
  <2> DEFINE e(i) == [orders[i] EXCEPT !.pending = FALSE,
                                       !.timer = IF @ = "armed" THEN "done" ELSE @]
  <2>1. \A i \in 1 .. N : e(i) \in Order /\ Due(e(i)) = Due(os[i])
    <3> TAKE i \in 1 .. N
    <3>1. orders[i] \in Order
      BY <1>1, ElementOfSeq
    <3> QED
      BY ZenonT(30), <3>1 DEF Order, Due
  <2>2. ps = [i \in 1 .. N |-> e(i)] /\ open_notional' = open_notional
    BY ZenonT(30), <1>1, <1>9 DEF Shutdown
  <2> HIDE DEF e
  <2>3. /\ ps \in Seq(Order) /\ Len(ps) = N
        /\ \A j \in 1 .. N : Due(ps[j]) = Due(os[j])
    BY <1>1, <2>1, <2>2
  <2>4. 0 \in Nat /\ 0 \notin 1 .. N
    BY <1>1
  <2> QED
    BY <1>2, <2>2, <2>3, <2>4
<1> QED
  BY <1>4, <1>5, <1>8, <1>9 DEF Next, Pause, Resume, vars

-----------------------------------------------------------------------------
\* The invariant holds at first and every step keeps it.
LEMMA ExecInvariant == Spec => []ExecInv
<1>1. Init => ExecInv
  <2> SUFFICES ASSUME Init PROVE ExecInv
    OBVIOUS
  <2>1. orders = <<>> /\ orders \in Seq(Order) /\ DOMAIN orders = {}
    BY EmptySeq DEF Init
  <2>2. last_signal \in [Pairs -> Nat] /\ stopped \in BOOLEAN
    BY ZenonT(30) DEF Init
  <2> QED
    BY <2>1, <2>2 DEF ExecInv, CooldownRespected, TrackedUntilResolved
<1>2. ExecInv /\ [Next]_vars => ExecInv'
  <2> SUFFICES ASSUME ExecInv, [Next]_vars PROVE ExecInv'
    OBVIOUS
  <2>1. CASE UNCHANGED <<orders, last_signal, stopped>>
    BY <2>1 DEF ExecInv, CooldownRespected, TrackedUntilResolved
  <2>2. CASE \E c \in Crosses : OnSignal(c)
    BY <2>2, SignalStep
  <2>3. CASE \E i \in DOMAIN orders : OnFill(i) \/ OnError(i) \/ TimerExpires(i) \/ OnTimeout(i)
    BY <2>3, OrderStep
  <2>4. CASE Shutdown
    BY <2>4, ShutdownStep
  <2> QED
    BY <2>1, <2>2, <2>3, <2>4 DEF Next, Pause, Resume, vars
<1> QED
  BY <1>1, <1>2, PTL DEF Spec

\* Whatever signals come, in whatever order and with whatever time stamps, two
\* orders for a directed pair are at least the cooldown apart.
THEOREM CooldownAlwaysRespected == Spec => []CooldownRespected
<1>1. ExecInv => CooldownRespected
  BY DEF ExecInv
<1> QED
  BY <1>1, ExecInvariant, PTL

\* The tracker holds exactly the orders neither filled nor timed out, and each of
\* these has a deadline to come.
THEOREM TrackerExact == Spec => []TrackedUntilResolved
<1>1. ExecInv => TrackedUntilResolved
  BY DEF ExecInv
<1> QED
  BY <1>1, ExecInvariant, PTL

\* Every fill is counted against the position limit exactly once, in time or
\* after the order timed out and the tracker forgot it.
THEOREM EveryFillCounted == Spec => []FillsCounted
<1>1. Init => FillsCounted
  <2> SUFFICES ASSUME Init PROVE FillsCounted
    OBVIOUS
  <2>1. orders = <<>> /\ orders \in Seq(Order) /\ Len(orders) = 0 /\ open_notional = 0
    BY EmptySeq DEF Init
  <2>2. PICK k : SumSteps(k, orders)
    BY ZenonT(30), <2>1, SumLoop
  <2> QED
    BY <2>1, <2>2 DEF SumSteps, FillsCounted
<1> QED
  BY <1>1, ExecInvariant, PositionStep, PTL DEF Spec

=============================================================================
