--------------------------------- MODULE Exec ---------------------------------
(***************************************************************************)
(* The execution process (exec/): ExecEngine with its guards E1-E4,         *)
(* ImmediateStrategy, DeadlineOrderTracker and an order client behind the   *)
(* IOrderClient interface.  Everything runs on one strand, so each handler  *)
(* is one step; a deadline that has expired is a handler of its own, already *)
(* queued when a fill tries to cancel it.                                   *)
(*                                                                          *)
(* Money is counted in whole units of the tick prices; quantities are       *)
(* multiples of one unit of the base asset.                                 *)
(***************************************************************************)
EXTENDS Integers, Sequences, FiniteSets

CONSTANTS Venues, MyVenue,
          Prices,            \* prices a cross can quote
          PositionLimit,     \* E1, 0 = off
          MaxOrderNotional,  \* E4, 0 = off
          Cooldown,          \* E3, 0 = off
          TargetQty,         \* order size
          MaxTs, MaxOrders   \* bounds: detection times, orders

ASSUME ExecAssumption ==
  /\ IsFiniteSet(Venues) /\ MyVenue \in Venues
  /\ IsFiniteSet(Prices) /\ Prices \subseteq Nat \ {0}
  /\ PositionLimit \in Nat /\ MaxOrderNotional \in Nat /\ Cooldown \in Nat
  /\ TargetQty \in Nat /\ MaxTs \in Nat /\ MaxOrders \in Nat

VARIABLES open_notional,  \* E1 accumulator
          paused,         \* E2: the engine's flag and the strategy's, set together
          last_signal,    \* E3: last dispatch per directed pair
          orders,         \* every order submitted; client_order_id is the index
          stopped         \* the process shut down

vars == <<open_notional, paused, last_signal, orders, stopped>>

Pairs == {p \in Venues \X Venues : p[1] # p[2]}   \* <<sell_venue, buy_venue>>

\* What ArbDetector sends: sell_bid_tick exceeds buy_ask_tick.
Crosses ==
  {c \in [pair : Pairs, bid : Prices, ask : Prices, ts : 1 .. MaxTs] : c.bid > c.ask}

\* An order with its PendingEntry.  answer is what the client's callback said;
\* timer is the deadline: armed, expired (its handler is queued) or done;
\* timeout records that on_timeout_ ran.
NewOrder(c, price) ==
  [pair |-> c.pair, ts |-> c.ts, price |-> price, answer |-> "none",
   pending |-> TRUE, timer |-> "armed", timeout |-> FALSE]

Init ==
  /\ open_notional = 0 /\ paused = FALSE /\ stopped = FALSE
  /\ last_signal = [p \in Pairs |-> 0]     \* 0: no entry in last_signal_ns_
  /\ orders = <<>>

-----------------------------------------------------------------------------
\* E4, E1, E2 in the order ExecEngine::on_signal applies them.
PassesRisk(c) ==
  /\ MaxOrderNotional > 0 => c.bid <= MaxOrderNotional
  /\ PositionLimit > 0 => open_notional + c.bid <= PositionLimit
  /\ ~ paused

\* Mutant: a signal older than the last one passes.
OutOfCooldownAbs(c) ==
  \/ Cooldown = 0 \/ last_signal[c.pair] = 0
  \/ c.ts - last_signal[c.pair] >= Cooldown \/ c.ts < last_signal[c.pair]

\* E3
OutOfCooldown(c) ==
  \/ Cooldown = 0 \/ last_signal[c.pair] = 0
  \/ c.ts - last_signal[c.pair] >= Cooldown

\* ImmediateStrategy::on_signal: the leg of this venue, registered with the
\* tracker and submitted.
Dispatch(c) ==
  IF MyVenue \notin {c.pair[1], c.pair[2]} \/ TargetQty = 0 THEN UNCHANGED orders
  ELSE /\ Len(orders) < MaxOrders
       /\ orders' = Append(orders, NewOrder(c, IF c.pair[1] = MyVenue THEN c.bid ELSE c.ask))

\* A signal arrives: parse_cross, then ExecEngine::on_signal.
OnSignal(c) ==
  /\ ~ stopped
  /\ IF PassesRisk(c) /\ OutOfCooldown(c)
     THEN /\ last_signal' = IF Cooldown > 0 THEN [last_signal EXCEPT ![c.pair] = c.ts]
                            ELSE last_signal
          /\ Dispatch(c)
     ELSE UNCHANGED <<last_signal, orders>>
  /\ UNCHANGED <<open_notional, paused, stopped>>

\* Mutant: a fill the tracker does not know any more is not counted.
OnFillTrackedOnly(i) ==
  /\ ~ stopped /\ orders[i].answer = "none"
  /\ orders' = [orders EXCEPT ![i].answer = "fill", ![i].pending = FALSE,
                              ![i].timer = IF @ = "armed" THEN "done" ELSE @]
  /\ open_notional' = IF orders[i].pending THEN open_notional + TargetQty * orders[i].price
                      ELSE open_notional
  /\ UNCHANGED <<paused, last_signal, stopped>>

\* Mutant: the tracker is not told.
OnFillUntracked(i) ==
  /\ ~ stopped /\ orders[i].answer = "none"
  /\ orders' = [orders EXCEPT ![i].answer = "fill"]
  /\ open_notional' = open_notional + TargetQty * orders[i].price
  /\ UNCHANGED <<paused, last_signal, stopped>>

\* The client confirms order i, full quantity at the order's price: the tracker
\* cancels the deadline and forgets the order, and the engine counts the fill,
\* tracked or not.
OnFill(i) ==
  /\ ~ stopped /\ orders[i].answer = "none"
  /\ orders' = [orders EXCEPT ![i].answer = "fill", ![i].pending = FALSE,
                              ![i].timer = IF @ = "armed" THEN "done" ELSE @]
  /\ open_notional' = open_notional + TargetQty * orders[i].price
  /\ UNCHANGED <<paused, last_signal, stopped>>

\* The client reports an error: logged, nothing else.
OnError(i) ==
  /\ ~ stopped /\ orders[i].answer = "none"
  /\ orders' = [orders EXCEPT ![i].answer = "error"]
  /\ UNCHANGED <<open_notional, paused, last_signal, stopped>>

\* Mutant: once the client has answered, the deadline is not waited for.
TimerExpiresUnanswered(i) ==
  /\ ~ stopped /\ orders[i].timer = "armed" /\ orders[i].answer = "none"
  /\ orders' = [orders EXCEPT ![i].timer = "expired"]
  /\ UNCHANGED <<open_notional, paused, last_signal, stopped>>

\* The deadline expires: from now on cancel() comes too late.
TimerExpires(i) ==
  /\ ~ stopped /\ orders[i].timer = "armed"
  /\ orders' = [orders EXCEPT ![i].timer = "expired"]
  /\ UNCHANGED <<open_notional, paused, last_signal, stopped>>

\* Its handler runs.
OnTimeout(i) ==
  /\ ~ stopped /\ orders[i].timer = "expired"
  /\ orders' = [orders EXCEPT ![i].timer = "done", ![i].pending = FALSE, ![i].timeout = TRUE]
  /\ UNCHANGED <<open_notional, paused, last_signal, stopped>>

\* pause() and resume()
Pause == ~ stopped /\ paused' = TRUE /\ UNCHANGED <<open_notional, last_signal, orders, stopped>>
Resume == ~ stopped /\ paused' = FALSE /\ UNCHANGED <<open_notional, last_signal, orders, stopped>>

\* SIGINT/SIGTERM: cancel_all(), then ioc.stop().
Shutdown ==
  /\ ~ stopped /\ stopped' = TRUE
  /\ orders' = [i \in DOMAIN orders |->
                  [orders[i] EXCEPT !.pending = FALSE, !.timer = IF @ = "armed" THEN "done" ELSE @]]
  /\ UNCHANGED <<open_notional, paused, last_signal>>

Next ==
  \/ \E c \in Crosses : OnSignal(c)
  \/ \E i \in DOMAIN orders : OnFill(i) \/ OnError(i) \/ TimerExpires(i) \/ OnTimeout(i)
  \/ Pause \/ Resume \/ Shutdown

\* Timers expire and the strand runs their handlers.
Fairness ==
  \A i \in 1 .. MaxOrders :
    WF_vars(i \in DOMAIN orders /\ (TimerExpires(i) \/ OnTimeout(i)))

Spec == Init /\ [][Next]_vars /\ Fairness

-----------------------------------------------------------------------------
\* What order o adds to the position, and what the orders os add up to.
Due(o) == IF o.answer = "fill" THEN TargetQty * o.price ELSE 0

FilledNotional(os) ==
  LET sum[n \in 0 .. Len(os)] == IF n = 0 THEN 0 ELSE sum[n - 1] + Due(os[n])
  IN  sum[Len(os)]

\* Every fill is counted against the position limit exactly once, also one that
\* arrives after the order timed out and the tracker forgot it.
FillsCounted == open_notional = FilledNotional(orders)

\* Two orders for the same directed pair are at least Cooldown apart in
\* detection time, whatever order and with whatever clock the signals come, and
\* whatever was rejected in between.
CooldownRespected ==
  Cooldown > 0 => \A i, j \in DOMAIN orders :
    i < j /\ orders[i].pair = orders[j].pair => orders[j].ts - orders[i].ts >= Cooldown

\* The tracker holds exactly the orders that were neither filled nor reported
\* as timed out, whichever of the fill, the deadline and a client error comes
\* first; an order it holds has a deadline that will still report it.
TrackedUntilResolved ==
  ~ stopped =>
    \A i \in DOMAIN orders :
      /\ orders[i].pending <=> orders[i].answer # "fill" /\ ~ orders[i].timeout
      /\ orders[i].pending => orders[i].timer # "done"

\* Every order is filled, or reported by its deadline, unless the process stops.
EveryOrderResolved ==
  \A i \in 1 .. MaxOrders :
    i \in DOMAIN orders ~>
      (stopped \/ (i \in DOMAIN orders /\ (orders[i].answer = "fill" \/ orders[i].timeout)))

\* "E1: cumulative gross notional cap in USD" (ExecEngine.hpp): the filled
\* notional stays within the position limit.
PositionLimitHolds == PositionLimit > 0 => open_notional <= PositionLimit

=============================================================================
