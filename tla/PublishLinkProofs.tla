-------------------------- MODULE PublishLinkProofs --------------------------
(***************************************************************************)
(* Proofs about PublishLink, for every size of the outbox, every back-off   *)
(* and any number of events and failures: one write at a time, a link that  *)
(* is never left for dead, EventLink's promise and what it implies for the  *)
(* receiver, and an outbox that never gives up the newest event.            *)
(***************************************************************************)
EXTENDS PublishLink, SequenceTheorems, TLAPS

Fields ==
  {"running", "scheduled", "gen", "delay", "timers", "op", "sock", "late", "deadline", "closeop",
   "closing", "opened", "notified", "outbox", "writing", "wire", "newest"}

Write == [msg : Nat, freed : BOOLEAN]

\* The types the arguments below rest on.
Typed(s) ==
  /\ DOMAIN s = Fields
  /\ s.gen \in Nat /\ s.outbox \in Seq(Nat) /\ s.wire \in Seq(Write)

\* Event numbers up to n, oldest first.
Sorted(o, n) ==
  /\ \A i \in 1 .. Len(o) : o[i] \in 1 .. n
  /\ \A i, j \in 1 .. Len(o) : i < j => o[i] < o[j]

\* The write side of a link: what the outbox and the wire hold after n events.
\* The message being written is older than all that follow the front.
QueueInv(s, n) ==
  /\ Len(s.wire) <= 1
  /\ s.writing <=> s.wire # <<>>
  /\ s.writing => s.outbox # <<>>
  /\ Sorted(s.outbox, n)
  /\ s.wire # <<>> =>
       /\ s.wire[1].msg \in 1 .. n
       /\ \A i \in 2 .. Len(s.outbox) : s.wire[1].msg < s.outbox[i]

\* The reconnect bookkeeping: a link that is not closing has told nobody of a
\* close and has no reconnect under way; a running one that is closing has.
Calm(s) ==
  /\ s.closeop => ~ s.running /\ s.closing
  /\ ~ s.closing => ~ s.notified /\ (s.running => ~ s.scheduled)
  /\ s.closing /\ s.running => s.scheduled /\ s.gen \in s.timers

\* A running link that is not closing has its socket and a pending step.
Alive(s) ==
  s.running /\ ~ s.closing => s.sock /\ s.op # "none" /\ (s.opened \/ s.deadline # "off")

LifeInv(s) == (s.gen = 0 => s = Idle) /\ Calm(s) /\ Alive(s)

LinkInv == Typed(link) /\ events \in Nat /\ QueueInv(link, events) /\ LifeInv(link)

-----------------------------------------------------------------------------
SameQueue(s, t) == t.outbox = s.outbox /\ t.wire = s.wire /\ t.writing = s.writing

\* A closing link whose reconnect is scheduled or still to be: its close has not
\* been notified.
Down(s) ==
  /\ Typed(s) /\ s.gen # 0 /\ s.closing /\ (s.closeop => ~ s.running)
  /\ s.running => (s.scheduled /\ s.gen \in s.timers) \/ (~ s.scheduled /\ ~ s.notified)

\* Cancelling the deadline and closing the socket keep it so.
LEMMA DownKept ==
  ASSUME NEW s, Down(s)
  PROVE  /\ Down(Disarm(s)) /\ SameQueue(s, Disarm(s))
         /\ Down(CloseHard(s)) /\ SameQueue(s, CloseHard(s))
<1>1. Down(Disarm(s)) /\ SameQueue(s, Disarm(s))
  BY SMTT(30) DEF Down, Typed, Fields, SameQueue, Disarm
<1>2. Down(CloseHard(s)) /\ SameQueue(s, CloseHard(s))
  BY SMTT(30) DEF Down, Typed, Fields, SameQueue, CloseHard
<1> QED
  BY <1>1, <1>2

\* The close notification leaves such a link with a reconnect under way if it
\* runs, and its queue alone.
LEMMA ClosedNotify ==
  ASSUME NEW s, Down(s)
  PROVE  LET t == NotifyClose(s)
         IN  Typed(t) /\ SameQueue(s, t) /\ t.closing /\ t.gen # 0 /\ Calm(t)
<1> DEFINE n == [s EXCEPT !.notified = TRUE]
           r == [n EXCEPT !.scheduled = TRUE, !.gen = @ + 1,
                          !.delay = IF 2 * @ < DelayMax THEN 2 * @ ELSE DelayMax,
                          !.timers = @ \cup {n.gen + 1}]
<1>1. CASE s.notified
  BY SMTT(30), <1>1 DEF Down, Calm, SameQueue, NotifyClose
<1>2. CASE ~ s.notified
  <2>1. /\ Typed(n) /\ SameQueue(s, n) /\ n.closing /\ n.gen # 0 /\ n.gen = s.gen
        /\ n.closeop = s.closeop /\ n.running = s.running /\ n.scheduled = s.scheduled
        /\ n.timers = s.timers
    BY SMTT(30) DEF Down, Typed, Fields, SameQueue
  <2>2. NotifyClose(s) = IF ~ n.running \/ n.scheduled THEN n ELSE r
    BY ZenonT(30), <1>2 DEF NotifyClose, ScheduleReconnect
  <2> HIDE DEF n
  <2>3. CASE ~ n.running \/ n.scheduled
    BY SMTT(30), <2>1, <2>2, <2>3 DEF Down, Calm
  <2>4. CASE ~ (~ n.running \/ n.scheduled)
    <3>1. /\ Typed(r) /\ SameQueue(s, r) /\ r.closing /\ r.gen # 0
          /\ r.closeop = n.closeop /\ r.scheduled /\ r.gen \in r.timers
      BY SMTT(30), <2>1 DEF Typed, Fields, SameQueue
    <3> HIDE DEF r
    <3>2. ~ n.closeop
      BY <2>1, <2>4 DEF Down
    <3> QED
      BY SMTT(30), <2>2, <2>4, <3>1, <3>2 DEF Calm
  <2> QED
    BY <2>3, <2>4
<1> QED
  BY <1>1, <1>2

\* fail_() leaves the queue alone and a link that is closing, with a reconnect
\* under way if it runs.
LEMMA FailFacts ==
  ASSUME NEW s, Typed(s), Calm(s), s.gen # 0
  PROVE  LET t == Fail(s)
         IN  Typed(t) /\ SameQueue(s, t) /\ t.closing /\ t.gen # 0 /\ Calm(t)
<1>1. CASE s.closing
  <2>1. Down(s)
    BY SMTT(30), <1>1 DEF Down, Calm
  <2>2. Fail(s) = NotifyClose(s)
    BY ZenonT(30), <1>1 DEF Fail
  <2> QED
    BY ZenonT(30), <2>1, <2>2, ClosedNotify
<1>2. CASE ~ s.closing
  <2>1. PICK c : c = [s EXCEPT !.closing = TRUE]
    OBVIOUS
  <2>2. Down(c) /\ SameQueue(s, c)
    BY SMTT(30), <1>2, <2>1 DEF Down, Calm, Typed, Fields, SameQueue
  <2>3. PICK d, h : d = Disarm(c) /\ h = CloseHard(d)
    OBVIOUS
  <2>4. Down(d) /\ SameQueue(c, d) /\ Down(h) /\ SameQueue(d, h)
    BY ZenonT(30), <2>2, <2>3, DownKept
  <2>5. Fail(s) = NotifyClose(h)
    BY ZenonT(30), <1>2, <2>1, <2>3 DEF Fail
  <2>6. SameQueue(s, h)
    BY ZenonT(30), <2>2, <2>4 DEF SameQueue
  <2>7. PICK t : t = NotifyClose(h)
    OBVIOUS
  <2>8. Typed(t) /\ SameQueue(h, t) /\ t.closing /\ t.gen # 0 /\ Calm(t)
    BY ZenonT(30), <2>4, <2>7, ClosedNotify
  <2>9. SameQueue(s, t)
    BY ZenonT(30), <2>6, <2>8 DEF SameQueue
  <2> QED
    BY ZenonT(30), <2>5, <2>7, <2>8, <2>9
<1> QED
  BY <1>1, <1>2

\* So does a close notification of a link that is closed.
LEMMA NotifyFacts ==
  ASSUME NEW s, Typed(s), s.gen # 0, s.closing, s.closeop => ~ s.running,
         s.running => (s.scheduled /\ s.gen \in s.timers) \/ (~ s.scheduled /\ ~ s.notified)
  PROVE  LET t == NotifyClose(CloseHard(Disarm(s)))
             u == NotifyClose(CloseHard(s))
         IN  /\ Typed(t) /\ SameQueue(s, t) /\ t.closing /\ t.gen # 0 /\ Calm(t)
             /\ Typed(u) /\ SameQueue(s, u) /\ u.closing /\ u.gen # 0 /\ Calm(u)
<1>1. Down(s)
  BY ZenonT(30) DEF Down
<1>2. PICK d, h, g : d = Disarm(s) /\ h = CloseHard(d) /\ g = CloseHard(s)
  OBVIOUS
<1>3. /\ Down(d) /\ SameQueue(s, d) /\ Down(h) /\ SameQueue(d, h)
      /\ Down(g) /\ SameQueue(s, g)
  BY ZenonT(30), <1>1, <1>2, DownKept
<1>4. SameQueue(s, h)
  BY ZenonT(30), <1>3 DEF SameQueue
<1>5. ASSUME NEW x, Down(x), SameQueue(s, x)
      PROVE  LET t == NotifyClose(x)
             IN  Typed(t) /\ SameQueue(s, t) /\ t.closing /\ t.gen # 0 /\ Calm(t)
  <2>1. PICK t : t = NotifyClose(x)
    OBVIOUS
  <2>2. Typed(t) /\ SameQueue(x, t) /\ t.closing /\ t.gen # 0 /\ Calm(t)
    BY ZenonT(30), <1>5, <2>1, ClosedNotify
  <2>3. SameQueue(s, t)
    BY ZenonT(30), <1>5, <2>2 DEF SameQueue
  <2> QED
    BY ZenonT(30), <2>1, <2>2, <2>3
<1> QED
  BY ZenonT(30), <1>2, <1>3, <1>4, <1>5

\* connect() empties the queue and starts an attempt under its deadline.
LEMMA ConnectFacts ==
  ASSUME NEW s, Typed(s), s.gen # 0, s.wire = <<>>, ~ s.closeop, ~ s.scheduled
  PROVE  LET t == Connect(s)
         IN  /\ Typed(t) /\ t.outbox = <<>> /\ t.wire = <<>> /\ ~ t.writing
             /\ t.gen # 0 /\ Calm(t) /\ Alive(t)
<1>1. <<>> \in Seq(Nat)
  OBVIOUS
<1>2. /\ DOMAIN Connect(s) = Fields /\ Connect(s).outbox = <<>> /\ Connect(s).gen = s.gen
      /\ Connect(s).wire = s.wire /\ Connect(s).writing = FALSE
  BY ZenonT(30) DEF Typed, Fields, Connect
<1>3. Calm(Connect(s))
  BY DEF Typed, Fields, Connect, Calm
<1>4. Alive(Connect(s))
  BY DEF Typed, Fields, Connect, Alive
<1> QED
  BY <1>1, <1>2, <1>3, <1>4 DEF Typed

-----------------------------------------------------------------------------
\* The messages a link holds.
Held(s) == Range(s.outbox) \cup {s.wire[i].msg : i \in DOMAIN s.wire}

\* All that start_write_() leaves alone.
SameLife(s, t) ==
  /\ t.gen = s.gen /\ t.running = s.running /\ t.closing = s.closing /\ t.notified = s.notified
  /\ t.scheduled = s.scheduled /\ t.timers = s.timers /\ t.closeop = s.closeop
  /\ t.sock = s.sock /\ t.op = s.op /\ t.opened = s.opened /\ t.deadline = s.deadline

\* A link with the same life is as calm and as alive.
LEMMA SameLifeFacts ==
  ASSUME NEW s, NEW t, SameLife(s, t), Calm(s)
  PROVE  Calm(t) /\ (Alive(s) => Alive(t))
  BY DEF SameLife, Calm, Alive

\* A link with the same queue satisfies the same of it.
LEMMA SameQueueFacts ==
  ASSUME NEW s, NEW t, NEW n, SameQueue(s, t), QueueInv(s, n)
  PROVE  QueueInv(t, n) /\ Held(t) = Held(s)
  BY DEF SameQueue, QueueInv, Held

\* start_write_() puts the front of the outbox on an idle wire.
LEMMA StartWriteFacts ==
  ASSUME NEW s, NEW n \in Nat, Typed(s), QueueInv(s, n)
  PROVE  LET t == StartWrite(s)
         IN  Typed(t) /\ QueueInv(t, n) /\ SameLife(s, t) /\ Held(t) \subseteq Held(s)
<1>1. CASE s.writing \/ s.outbox = <<>>
  BY <1>1 DEF StartWrite, SameLife
<1>2. CASE ~ s.writing /\ s.outbox # <<>>
  <2> DEFINE t == StartWrite(s)
             w == [msg |-> Head(s.outbox), freed |-> FALSE]
  <2>1. s.wire = <<>> /\ s.outbox \in Seq(Nat) /\ Len(s.outbox) >= 1 /\ Head(s.outbox) = s.outbox[1]
    BY <1>2 DEF Typed, QueueInv
  <2>2. w \in Write /\ <<w>> \in Seq(Write) /\ Append(s.wire, w) = <<w>>
    BY <2>1 DEF Write
  <2>3. /\ DOMAIN t = Fields /\ t.gen = s.gen /\ t.outbox = s.outbox /\ t.wire = <<w>>
        /\ t.writing = TRUE
    BY <1>2, <2>2 DEF StartWrite, Typed, Fields
  <2>4. Typed(t)
    BY <2>2, <2>3 DEF Typed
  <2>5. SameLife(s, t)
    BY <1>2 DEF StartWrite, SameLife, Typed, Fields
  <2>6. Len(t.wire) = 1 /\ t.wire # <<>> /\ t.wire[1].msg = s.outbox[1] /\ DOMAIN t.wire = {1}
    BY <2>1, <2>3
  <2>7. QueueInv(t, n)
    BY <2>1, <2>3, <2>6 DEF QueueInv, Sorted
  <2>8. Held(t) \subseteq Held(s)
    <3>1. s.outbox[1] \in Range(s.outbox)
      BY <2>1 DEF Range
    <3> QED
      BY <2>3, <2>6, <3>1 DEF Held
  <2> QED
    BY <2>4, <2>5, <2>7, <2>8
<1> QED
  BY <1>1, <1>2

\* The next event goes to the end of a sorted outbox.
LEMMA AppendFacts ==
  ASSUME NEW o \in Seq(Nat), NEW n \in Nat, Sorted(o, n)
  PROVE  LET p == Append(o, n + 1)
         IN  /\ p \in Seq(Nat) /\ Len(p) = Len(o) + 1 /\ Sorted(p, n + 1) /\ p # <<>>
             /\ \A i \in 1 .. Len(o) : p[i] = o[i]
             /\ p[Len(o) + 1] = n + 1
             /\ Range(p) = Range(o) \cup {n + 1}
<1> DEFINE p == Append(o, n + 1)
<1>1. Len(o) \in Nat /\ DOMAIN o = 1 .. Len(o)
  OBVIOUS
<1>2. /\ p \in Seq(Nat) /\ Len(p) = Len(o) + 1 /\ p # <<>> /\ DOMAIN p = 1 .. Len(o) + 1
      /\ \A i \in 1 .. Len(o) : p[i] = o[i]
      /\ p[Len(o) + 1] = n + 1
  BY SMTT(30), n + 1 \in Nat, AppendProperties
<1> HIDE DEF p
<1>3. ASSUME NEW i \in 1 .. Len(p) PROVE p[i] \in 1 .. n + 1
  <2>1. CASE i = Len(o) + 1
    BY <1>2, <2>1, n + 1 \in 1 .. n + 1
  <2>2. CASE i \in 1 .. Len(o)
    <3>1. p[i] = o[i] /\ o[i] \in 1 .. n
      BY <1>2, <2>2 DEF Sorted
    <3> QED
      BY <3>1
  <2> QED
    BY <1>1, <1>2, <2>1, <2>2
<1>4. ASSUME NEW i \in 1 .. Len(p), NEW j \in 1 .. Len(p), i < j PROVE p[i] < p[j]
  <2>1. i \in 1 .. Len(o) /\ p[i] = o[i] /\ o[i] \in 1 .. n
    <3>1. i \in 1 .. Len(o)
      BY <1>1, <1>2, <1>4
    <3> QED
      BY SMTT(30), <1>2, <3>1 DEF Sorted
  <2>2. CASE j = Len(o) + 1
    BY SMTT(30), <1>2, <2>1, <2>2
  <2>3. CASE j \in 1 .. Len(o)
    BY SMTT(30), <1>2, <1>4, <2>1, <2>3 DEF Sorted
  <2> QED
    BY <1>1, <1>2, <2>2, <2>3
<1>5. Sorted(p, n + 1)
  BY <1>3, <1>4 DEF Sorted
<1>6. Range(p) = Range(o) \cup {n + 1}
  <2>1. 1 .. Len(o) + 1 = 1 .. Len(o) \cup {Len(o) + 1}
    BY <1>1
  <2> QED
    BY SMTT(30), <1>1, <1>2, <2>1 DEF Range
<1> QED
  BY <1>2, <1>5, <1>6 DEF p

\* Dropping the front leaves a sorted outbox of what was behind it.
LEMMA TailFacts ==
  ASSUME NEW o \in Seq(Nat), o # <<>>, NEW n \in Nat, Sorted(o, n)
  PROVE  /\ Tail(o) \in Seq(Nat) /\ Len(Tail(o)) = Len(o) - 1 /\ Sorted(Tail(o), n)
         /\ \A i \in 1 .. Len(o) - 1 : Tail(o)[i] = o[i + 1]
         /\ Range(Tail(o)) = {o[i] : i \in 2 .. Len(o)}
<1>1. Len(o) \in Nat /\ Len(o) >= 1
  OBVIOUS
<1>2. /\ Tail(o) \in Seq(Nat) /\ Len(Tail(o)) = Len(o) - 1 /\ DOMAIN Tail(o) = 1 .. Len(o) - 1
      /\ \A i \in 1 .. Len(o) - 1 : Tail(o)[i] = o[i + 1]
  OBVIOUS
<1>3. \A i \in 1 .. Len(o) - 1 : i + 1 \in 1 .. Len(o) /\ i + 1 \in 2 .. Len(o)
  BY <1>1
<1>4. Sorted(Tail(o), n)
  BY <1>1, <1>2, <1>3 DEF Sorted
<1>5. \A i \in 2 .. Len(o) : i - 1 \in 1 .. Len(o) - 1 /\ o[i] = Tail(o)[i - 1]
  BY <1>1, <1>2
<1>6. Range(Tail(o)) = {o[i] : i \in 2 .. Len(o)}
  <2>1. ASSUME NEW x \in Range(Tail(o)) PROVE x \in {o[i] : i \in 2 .. Len(o)}
    BY <1>2, <1>3 DEF Range
  <2>2. ASSUME NEW i \in 2 .. Len(o) PROVE o[i] \in Range(Tail(o))
    BY ZenonT(30), <1>2, <1>5 DEF Range
  <2> QED
    BY <2>1, <2>2
<1> QED
  BY <1>2, <1>4, <1>6

\* Appending event n + 1 keeps the queue in order, also when the oldest message,
\* which may be the one being written, makes room.
LEMMA QueuedFacts ==
  ASSUME NEW s, NEW n \in Nat, Typed(s), QueueInv(s, n)
  PROVE  LET t == Queued(s, n + 1)
         IN  /\ Typed(t) /\ QueueInv(t, n + 1) /\ SameLife(s, t)
             /\ Held(t) \subseteq Held(s) \cup {n + 1}
<1> DEFINE t == Queued(s, n + 1)
<1>1. s.outbox \in Seq(Nat) /\ Len(s.outbox) \in Nat /\ s.wire \in Seq(Write)
  BY DEF Typed
<1>2. SameLife(s, t) /\ DOMAIN t = Fields /\ t.writing = s.writing
  BY DEF Queued, SameLife, Typed, Fields
<1>3. CASE Len(s.outbox) >= max_outbox
  <2> DEFINE o == Append(Tail(s.outbox), n + 1)
             w == [i \in DOMAIN s.wire |-> [s.wire[i] EXCEPT !.freed = TRUE]]
  <2>1. t.outbox = o /\ t.wire = w
    BY <1>3 DEF Queued, Typed, Fields
  <2>2. Len(s.outbox) >= 2 /\ s.outbox # <<>> /\ Sorted(s.outbox, n)
    BY <1>3, <1>1, LinkAssumption DEF QueueInv
  <2>3. /\ Tail(s.outbox) \in Seq(Nat) /\ Len(Tail(s.outbox)) = Len(s.outbox) - 1
        /\ Sorted(Tail(s.outbox), n)
        /\ \A i \in 1 .. Len(s.outbox) - 1 : Tail(s.outbox)[i] = s.outbox[i + 1]
        /\ Range(Tail(s.outbox)) \subseteq Range(s.outbox)
    BY <1>1, <2>2, TailFacts DEF Range
  <2>4. /\ o \in Seq(Nat) /\ Len(o) = Len(s.outbox) /\ Sorted(o, n + 1) /\ o # <<>>
        /\ \A i \in 1 .. Len(s.outbox) - 1 : o[i] = s.outbox[i + 1]
        /\ o[Len(s.outbox)] = n + 1
        /\ Range(o) \subseteq Range(s.outbox) \cup {n + 1}
    <3> DEFINE q == Tail(s.outbox)
    <3> HIDE DEF q
    <3>1. q \in Seq(Nat) /\ Sorted(q, n) /\ Len(q) + 1 = Len(s.outbox) /\ Range(q) \subseteq Range(s.outbox)
      BY <1>1, <2>3 DEF q
    <3>2. /\ Append(q, n + 1) \in Seq(Nat) /\ Len(Append(q, n + 1)) = Len(q) + 1
          /\ Sorted(Append(q, n + 1), n + 1) /\ Append(q, n + 1) # <<>>
          /\ \A i \in 1 .. Len(q) : Append(q, n + 1)[i] = q[i]
          /\ Append(q, n + 1)[Len(q) + 1] = n + 1
          /\ Range(Append(q, n + 1)) = Range(q) \cup {n + 1}
      BY <3>1, AppendFacts
    <3>3. Len(q) = Len(s.outbox) - 1
      BY <1>1, <3>1
    <3> QED
      BY <2>3, <3>1, <3>2, <3>3 DEF q
  <2> HIDE DEF o
  <2>5. /\ w \in Seq(Write) /\ Len(w) = Len(s.wire) /\ DOMAIN w = DOMAIN s.wire
        /\ \A i \in DOMAIN w : w[i].msg = s.wire[i].msg
    <3>1. DOMAIN s.wire = 1 .. Len(s.wire) /\ Len(s.wire) \in Nat
      BY <1>1
    <3>2. ASSUME NEW i \in DOMAIN s.wire
          PROVE  /\ [s.wire[i] EXCEPT !.freed = TRUE] \in Write
                 /\ [s.wire[i] EXCEPT !.freed = TRUE].msg = s.wire[i].msg
      <4>1. s.wire[i] \in Write
        BY <1>1
      <4> QED
        BY ZenonT(30), <4>1 DEF Write
    <3>3. w \in [1 .. Len(s.wire) -> Write]
      BY <3>1, <3>2
    <3> QED
      BY <3>1, <3>2, <3>3
  <2> HIDE DEF w
  <2>6. s.wire # <<>> <=> w # <<>>
    BY <1>1, <2>5
  <2>7. ASSUME w # <<>>
        PROVE  w[1].msg \in 1 .. n + 1 /\ \A i \in 2 .. Len(o) : w[1].msg < o[i]
    <3>1. /\ w[1].msg = s.wire[1].msg /\ s.wire[1].msg \in 1 .. n
          /\ \A i \in 2 .. Len(s.outbox) : s.wire[1].msg < s.outbox[i]
      BY <1>1, <2>5, <2>6, <2>7 DEF QueueInv
    <3>2. ASSUME NEW i \in 2 .. Len(o) PROVE w[1].msg < o[i]
      <4>1. CASE i = Len(s.outbox)
        BY <2>4, <3>1, <4>1
      <4>2. CASE i # Len(s.outbox)
        <5>1. i \in 1 .. Len(s.outbox) - 1 /\ i + 1 \in 2 .. Len(s.outbox)
          BY SMTT(30), <1>1, <2>4, <4>2
        <5> QED
          BY SMTT(30), <2>4, <3>1, <5>1
      <4> QED
        BY <4>1, <4>2
    <3> QED
      BY <3>1, <3>2
  <2>8. Typed(t)
    BY SMTT(30), <1>2, <2>1, <2>4, <2>5 DEF Typed, SameLife
  <2>9. QueueInv(t, n + 1)
    BY SMTT(30), <1>2, <2>1, <2>4, <2>5, <2>6, <2>7 DEF QueueInv
  <2>10. Held(t) \subseteq Held(s) \cup {n + 1}
    BY ZenonT(30), <2>1, <2>4, <2>5 DEF Held
  <2> QED
    BY <1>2, <2>8, <2>9, <2>10
<1>4. CASE ~ (Len(s.outbox) >= max_outbox)
  <2> DEFINE o == Append(s.outbox, n + 1)
  <2>1. t.outbox = o /\ t.wire = s.wire
    BY <1>4 DEF Queued, Typed, Fields
  <2>2. /\ o \in Seq(Nat) /\ Len(o) = Len(s.outbox) + 1 /\ Sorted(o, n + 1) /\ o # <<>>
        /\ \A i \in 1 .. Len(s.outbox) : o[i] = s.outbox[i]
        /\ o[Len(s.outbox) + 1] = n + 1
        /\ Range(o) = Range(s.outbox) \cup {n + 1}
    <3>1. Sorted(s.outbox, n)
      BY DEF QueueInv
    <3> QED
      BY ZenonT(30), <1>1, <3>1, AppendFacts
  <2> HIDE DEF o
  <2>3. Typed(t)
    BY <1>2, <2>1, <2>2 DEF Typed, SameLife
  <2>4. s.wire # <<>> => /\ s.wire[1].msg \in 1 .. n + 1
                         /\ \A i \in 2 .. Len(o) : s.wire[1].msg < o[i]
    <3> SUFFICES ASSUME s.wire # <<>>, NEW i \in 2 .. Len(o)
                 PROVE  s.wire[1].msg \in 1 .. n /\ s.wire[1].msg < o[i]
      BY DEF QueueInv
    <3>1. /\ s.wire[1].msg \in 1 .. n
          /\ \A k \in 2 .. Len(s.outbox) : s.wire[1].msg < s.outbox[k]
      BY DEF QueueInv
    <3>2. CASE i = Len(s.outbox) + 1
      BY SMTT(30), <2>2, <3>1, <3>2
    <3>3. CASE i # Len(s.outbox) + 1
      <4>1. i \in 2 .. Len(s.outbox) /\ i \in 1 .. Len(s.outbox)
        BY SMTT(30), <1>1, <2>2, <3>3
      <4> QED
        BY <2>2, <3>1, <4>1
    <3> QED
      BY <3>2, <3>3
  <2>5. QueueInv(t, n + 1)
    BY SMTT(30), <1>2, <2>1, <2>2, <2>4 DEF QueueInv
  <2>6. Held(t) \subseteq Held(s) \cup {n + 1}
    BY SMTT(30), <2>1, <2>2 DEF Held
  <2> QED
    BY <1>2, <2>3, <2>5, <2>6
<1> QED
  BY <1>3, <1>4

\* A positive length of at most one.
LEMMA OnlyOne == \A k \in Nat \ {0} : k <= 1 => k = 1
OBVIOUS

\* A completed write: what stays is newer than what was written.
LEMMA WrittenFacts ==
  ASSUME NEW s, NEW n \in Nat, Typed(s), QueueInv(s, n), s.wire # <<>>
  PROVE  LET t == Written(s)
         IN  /\ Typed(t) /\ QueueInv(t, n) /\ SameLife(s, t)
             /\ Held(t) \subseteq {m \in Held(s) : m > Head(s.wire).msg}
             /\ Head(s.wire).msg \in Held(s)
<1> DEFINE r == [s EXCEPT !.writing = FALSE, !.wire = Tail(@), !.outbox = Tail(@)]
           x == s.wire[1].msg
<1>1. /\ s.outbox \in Seq(Nat) /\ s.outbox # <<>> /\ Sorted(s.outbox, n)
      /\ s.wire \in Seq(Write) /\ Len(s.wire) = 1 /\ Head(s.wire) = s.wire[1]
      /\ x \in 1 .. n /\ \A i \in 2 .. Len(s.outbox) : x < s.outbox[i]
  <2>1. s.wire \in Seq(Write) /\ Len(s.wire) \in Nat \ {0} /\ Len(s.wire) <= 1
    BY EmptySeq DEF Typed, QueueInv
  <2>2. Len(s.wire) = 1
    BY ZenonT(30), <2>1, OnlyOne
  <2>3. Head(s.wire) = s.wire[1]
    BY <2>1
  <2> QED
    BY <2>1, <2>2, <2>3 DEF Typed, QueueInv
<1>2. Tail(s.wire) = <<>> /\ <<>> \in Seq(Write)
  <2>1. Tail(s.wire) \in Seq(Write) /\ Len(Tail(s.wire)) = 0
    BY <1>1, HeadTailProperties
  <2> QED
    BY ZenonT(30), <2>1, EmptySeq
<1>3. /\ Tail(s.outbox) \in Seq(Nat) /\ Sorted(Tail(s.outbox), n)
      /\ Range(Tail(s.outbox)) = {s.outbox[i] : i \in 2 .. Len(s.outbox)}
  BY SMTT(30), <1>1, TailFacts
<1>4. r.outbox = Tail(s.outbox) /\ r.wire = <<>> /\ r.writing = FALSE /\ SameLife(s, r) /\ DOMAIN r = Fields
  BY <1>2 DEF Typed, Fields, SameLife
<1> HIDE DEF r
<1>5. Typed(r) /\ QueueInv(r, n)
  BY <1>2, <1>3, <1>4 DEF Typed, SameLife, QueueInv
<1>6. Held(r) = Range(Tail(s.outbox))
  BY <1>4 DEF Held
<1>7. Held(r) \subseteq {m \in Held(s) : m > x}
  <2>1. ASSUME NEW i \in 2 .. Len(s.outbox) PROVE s.outbox[i] \in Held(s) /\ s.outbox[i] > x
    <3>1. i \in DOMAIN s.outbox /\ s.outbox[i] \in Nat /\ x < s.outbox[i]
      BY <1>1
    <3> QED
      BY <1>1, <3>1 DEF Held, Range
  <2> QED
    BY <1>3, <1>6, <2>1
<1>8. x \in Held(s)
  BY <1>1 DEF Held
<1>9. Written(s) = StartWrite(r)
  BY DEF Written, r
<1>10. /\ Typed(StartWrite(r)) /\ QueueInv(StartWrite(r), n) /\ SameLife(r, StartWrite(r))
       /\ Held(StartWrite(r)) \subseteq Held(r)
  BY <1>5, StartWriteFacts
<1>11. SameLife(s, StartWrite(r))
  BY <1>4, <1>10 DEF SameLife
<1> QED
  BY <1>1, <1>7, <1>8, <1>9, <1>10, <1>11

\* send_binary() of event n + 1.
LEMMA SendFacts ==
  ASSUME NEW s, NEW n \in Nat, Typed(s), QueueInv(s, n)
  PROVE  LET t == SendBinary(s, n + 1)
         IN  /\ Typed(t) /\ QueueInv(t, n + 1) /\ SameLife(s, t)
             /\ Held(t) \subseteq Held(s) \cup {n + 1}
<1> DEFINE q == Queued(s, n + 1)
<1>1. CASE s.closing
  <2>1. QueueInv(s, n + 1)
    BY DEF QueueInv, Sorted
  <2> QED
    BY ZenonT(30), <1>1, <2>1 DEF SendBinary, SameLife
<1>2. /\ Typed(q) /\ QueueInv(q, n + 1) /\ SameLife(s, q) /\ Held(q) \subseteq Held(s) \cup {n + 1}
  BY QueuedFacts
<1> HIDE DEF q
<1>3. /\ Typed(StartWrite(q)) /\ QueueInv(StartWrite(q), n + 1) /\ SameLife(q, StartWrite(q))
      /\ Held(StartWrite(q)) \subseteq Held(q)
  BY <1>2, n + 1 \in Nat, StartWriteFacts
<1>4. SameLife(s, StartWrite(q))
  BY <1>2, <1>3 DEF SameLife
<1>5. CASE ~ s.closing
  BY <1>2, <1>3, <1>4, <1>5 DEF SendBinary, q
<1> QED
  BY <1>1, <1>5

-----------------------------------------------------------------------------
\* What a step does to the events: it keeps the invariant, and as far as the
\* events go it publishes, delivers or at most loses some.
StepOK == LinkInv' /\ EL!Next

\* A step that only loses.
Losing == UNCHANGED <<events, got>> /\ Held(link') \subseteq Held(link)

\* Losing messages, or none, is a step of the promise.
LEMMA LosingIsLose == Losing => EL!Next
  BY DEF Losing, Held, Waiting, EL!Next, EL!Lose

\* In a link that was started, all of the invariant but the parts about Idle.
Started ==
  /\ Typed(link) /\ events \in Nat /\ QueueInv(link, events)
  /\ Calm(link) /\ Alive(link) /\ link.gen # 0

\* A step that keeps the parts of the invariant and at most loses messages.
LEMMA StartedStep ==
  ASSUME NEW t, events \in Nat, link' = t, events' = events, got' = got,
         Typed(t), QueueInv(t, events), Calm(t), Alive(t), t.gen # 0, Held(t) \subseteq Held(link)
  PROVE  StepOK
<1>1. LinkInv'
  BY DEF LinkInv, LifeInv
<1> QED
  BY <1>1, LosingIsLose DEF StepOK, Losing

\* fail_() after a step of the connection ended.
LEMMA FailStep ==
  ASSUME Started, NEW s, Typed(s), SameQueue(link, s), Calm(s), s.gen # 0,
         link' = Fail(s), events' = events, got' = got
  PROVE  StepOK
<1> DEFINE t == Fail(s)
<1>1. Typed(t) /\ SameQueue(s, t) /\ t.closing /\ t.gen # 0 /\ Calm(t)
  BY FailFacts
<1> HIDE DEF t
<1>2. SameQueue(link, t)
  BY <1>1 DEF SameQueue
<1>3. QueueInv(t, events) /\ Held(t) = Held(link)
  BY <1>2, SameQueueFacts DEF Started
<1>4. Alive(t)
  BY <1>1 DEF Alive
<1> QED
  BY <1>1, <1>3, <1>4, StartedStep DEF Started, t

\* Nothing is pending in a link that was not started.
LEMMA PendingMeansStarted ==
  ASSUME LinkInv,
         \/ link.running \/ link.op # "none" \/ link.wire # <<>> \/ link.late > 0
         \/ link.deadline # "off" \/ link.closeop \/ link.timers # {}
  PROVE  Started
<1>1. link # Idle
  BY DEF Idle
<1> QED
  BY <1>1 DEF LinkInv, LifeInv, Started

-----------------------------------------------------------------------------
(* One lemma per action.                                                    *)

\* start(): an empty queue, connecting or, without its certificate, not running.
LEMMA StartStep == ASSUME LinkInv, Start PROVE StepOK
<1>1. link = Idle
  BY DEF LinkInv, LifeInv, Start
<1>2. events \in Nat /\ events' = events /\ got' = got
  BY DEF LinkInv, Start
<1>3. /\ Typed(link) /\ link.wire = <<>> /\ link.outbox = <<>> /\ ~ link.writing
      /\ ~ link.closeop /\ ~ link.scheduled /\ ~ link.running /\ ~ link.notified /\ ~ link.closing
  BY <1>1 DEF LinkInv, Idle
<1>4. CASE link' = Connect([link EXCEPT !.running = TRUE, !.gen = 1])
  <2> DEFINE r == [link EXCEPT !.running = TRUE, !.gen = 1]
             t == Connect(r)
  <2>1. Typed(r) /\ r.gen # 0 /\ r.wire = <<>> /\ ~ r.closeop /\ ~ r.scheduled
    <3>1. /\ Typed(r) /\ r.gen = 1 /\ r.wire = link.wire
          /\ r.closeop = link.closeop /\ r.scheduled = link.scheduled
      BY DEF LinkInv, Typed, Fields
    <3> QED
      BY <1>3, <3>1
  <2> HIDE DEF r
  <2>2. /\ Typed(t) /\ t.outbox = <<>> /\ t.wire = <<>> /\ ~ t.writing
        /\ t.gen # 0 /\ Calm(t) /\ Alive(t)
    BY <2>1, ConnectFacts
  <2> HIDE DEF t
  <2>3. QueueInv(t, events) /\ Held(t) = {}
    BY <1>2, <2>2 DEF QueueInv, Sorted, Held, Range
  <2>4. link' = t
    BY <1>4 DEF t, r
  <2> QED
    BY <1>2, <2>2, <2>3, <2>4, StartedStep
<1>5. CASE link' = [link EXCEPT !.gen = 1]
  <2> DEFINE t == [link EXCEPT !.gen = 1]
  <2>1. /\ Typed(t) /\ SameQueue(link, t) /\ t.gen # 0 /\ ~ t.closeop
        /\ ~ t.running /\ ~ t.closing /\ ~ t.notified
    <3>1. /\ Typed(t) /\ SameQueue(link, t) /\ t.gen = 1 /\ t.running = link.running
          /\ t.closeop = link.closeop
          /\ t.closing = link.closing /\ t.notified = link.notified
      BY DEF LinkInv, Typed, Fields, SameQueue
    <3> QED
      BY <1>3, <3>1
  <2> HIDE DEF t
  <2>2. QueueInv(t, events) /\ Held(t) = Held(link) /\ Calm(t) /\ Alive(t)
    BY <2>1, SameQueueFacts DEF LinkInv, Calm, Alive
  <2> QED
    BY ZenonT(30), <1>2, <1>5, <2>1, <2>2, StartedStep DEF t
<1> QED
  BY <1>4, <1>5 DEF Start

\* stop(): the queue stays, the link no longer runs.
LEMMA StopStep == ASSUME LinkInv, Stop PROVE StepOK
<1>1. Started /\ link.running /\ events' = events /\ got' = got
  BY PendingMeansStarted DEF Stop
<1>2. PICK timers \in {{}, link.timers} :
        link' = Close([link EXCEPT !.running = FALSE, !.scheduled = FALSE, !.gen = @ + 1,
                                   !.timers = timers])
  BY ZenonT(30) DEF Stop
<1> DEFINE r == [link EXCEPT !.running = FALSE, !.scheduled = FALSE, !.gen = @ + 1, !.timers = timers]
           t == Close(r)
<1>3. /\ Typed(r) /\ SameQueue(link, r) /\ ~ r.running /\ r.gen # 0
      /\ r.closing = link.closing /\ r.notified = link.notified
  BY <1>1 DEF Started, Typed, Fields, SameQueue
<1>4. Calm(r) /\ Alive(r)
  BY <1>1, <1>3 DEF Started, Calm, Alive
<1> HIDE DEF r
<1>5. /\ Typed(t) /\ SameQueue(r, t) /\ ~ t.running /\ t.gen # 0 /\ Calm(t)
  <2>1. CASE r.closing
    BY <1>3, <1>4, <2>1 DEF Close, SameQueue
  <2>2. CASE ~ r.closing /\ r.opened
    BY <1>3, <1>4, <2>2 DEF Close, Typed, Fields, SameQueue, Calm
  <2>3. CASE ~ r.closing /\ ~ r.opened
    <3>1. Typed(t) /\ SameQueue(r, t)
      BY <1>3, <2>3 DEF Close, Typed, Fields, SameQueue, NotifyClose, ScheduleReconnect, CloseHard
    <3>2. ~ t.running /\ t.closing /\ t.gen = r.gen
      BY <1>3, <2>3 DEF Close, Typed, Fields, NotifyClose, ScheduleReconnect, CloseHard
    <3> QED
      BY <1>3, <3>1, <3>2 DEF Calm
  <2> QED
    BY <2>1, <2>2, <2>3
<1>6. link' = t
  BY <1>2 DEF r
<1> HIDE DEF t
<1>7. SameQueue(link, t) /\ Alive(t)
  BY <1>3, <1>5 DEF SameQueue, Alive
<1>8. QueueInv(t, events) /\ Held(t) = Held(link)
  BY <1>1, <1>7, SameQueueFacts DEF Started
<1> QED
  BY <1>1, <1>5, <1>6, <1>7, <1>8, StartedStep DEF Started

\* The publish functions: one more event, queued or lost.
LEMMA PublishStep == ASSUME LinkInv, Publish PROVE StepOK
<1>1. Started /\ events' = events + 1 /\ link' = SendBinary(link, events + 1) /\ got' = got
  BY PendingMeansStarted DEF Publish
<1>2. /\ Typed(link') /\ QueueInv(link', events') /\ SameLife(link, link')
      /\ Held(link') \subseteq Held(link) \cup {events'}
  BY <1>1, SendFacts DEF Started
<1>3. Calm(link') /\ Alive(link') /\ link'.gen # 0 /\ events' \in Nat
  BY <1>1, <1>2, SameLifeFacts DEF Started, SameLife
<1>4. LinkInv'
  BY <1>2, <1>3 DEF LinkInv, LifeInv
<1>5. EL!Publish
  BY <1>1, <1>2 DEF Publish, EL!Publish, Waiting, Held
<1> QED
  BY <1>4, <1>5 DEF StepOK, EL!Next

\* The reconnect timer: a stale generation is ignored, the current one connects.
LEMMA ReconnectStep == ASSUME LinkInv, NEW g \in link.timers, ReconnectFires(g) PROVE StepOK
<1>1. Started /\ events' = events /\ got' = got /\ link.wire = <<>> /\ link.op = "none"
  BY PendingMeansStarted DEF ReconnectFires
<1> DEFINE s == [link EXCEPT !.timers = @ \ {g}]
<1>2. /\ Typed(s) /\ SameQueue(link, s) /\ s.gen = link.gen /\ s.running = link.running
      /\ s.closing = link.closing /\ s.notified = link.notified /\ s.scheduled = link.scheduled
      /\ s.closeop = link.closeop /\ s.timers = link.timers \ {g}
      /\ s.sock = link.sock /\ s.op = link.op /\ s.opened = link.opened /\ s.deadline = link.deadline
  BY ZenonT(30), <1>1 DEF Started, Typed, Fields, SameQueue
<1>3. link' = IF s.running /\ g = s.gen THEN Reconnect(s) ELSE s
  BY DEF ReconnectFires
<1> HIDE DEF s
<1>4. CASE s.running /\ g = s.gen
  <2> DEFINE r == [s EXCEPT !.scheduled = FALSE]
             t == Connect(r)
  <2>1. /\ Typed(r) /\ r.gen = s.gen /\ r.wire = s.wire /\ r.closeop = s.closeop /\ r.scheduled = FALSE
    BY <1>2 DEF Typed, Fields
  <2> HIDE DEF r
  <2>2. r.gen # 0 /\ r.wire = <<>> /\ ~ r.closeop /\ ~ r.scheduled
    BY <1>1, <1>2, <1>4, <2>1 DEF Started, Calm, SameQueue
  <2>3. /\ Typed(t) /\ t.outbox = <<>> /\ t.wire = <<>> /\ ~ t.writing
        /\ t.gen # 0 /\ Calm(t) /\ Alive(t)
    BY <2>1, <2>2, ConnectFacts
  <2> HIDE DEF t
  <2>4. QueueInv(t, events) /\ Held(t) = {}
    BY <1>1, <2>3 DEF QueueInv, Sorted, Held, Range, Started
  <2>5. link' = t
    BY <1>3, <1>4 DEF t, r, Reconnect
  <2> QED
    BY <1>1, <2>3, <2>4, <2>5, StartedStep DEF Started
<1>5. CASE ~ (s.running /\ g = s.gen)
  <2>1. Calm(s) /\ Alive(s) /\ s.gen # 0
    BY SMTT(30), <1>1, <1>2, <1>5 DEF Started, Calm, Alive
  <2>2. QueueInv(s, events) /\ Held(s) = Held(link)
    BY <1>1, <1>2, SameQueueFacts DEF Started
  <2> QED
    BY <1>1, <1>2, <1>3, <1>5, <2>1, <2>2, StartedStep DEF Started
<1> QED
  BY <1>4, <1>5

\* A step of the connection succeeds, the last one by opening it.
LEMMA StepOkStep == ASSUME LinkInv, StepOk PROVE StepOK
<1>1. Started /\ events' = events /\ got' = got /\ link.sock /\ link.op \in Range(Handshakes)
  <2>1. link.op # "none"
    BY DEF StepOk, Handshakes, Range
  <2> QED
    BY <2>1, PendingMeansStarted DEF StepOk
<1>2. CASE link.closing
  <2> DEFINE t == [link EXCEPT !.op = "none"]
  <2>1. link' = t
    BY <1>2 DEF StepOk
  <2>2. /\ Typed(t) /\ SameQueue(link, t) /\ t.gen = link.gen /\ t.closing /\ Calm(t)
    BY <1>1, <1>2 DEF Started, Typed, Fields, SameQueue, Calm
  <2> HIDE DEF t
  <2>3. QueueInv(t, events) /\ Held(t) = Held(link) /\ Alive(t) /\ t.gen # 0
    BY <1>1, <2>2, SameQueueFacts DEF Started, Alive
  <2> QED
    BY <1>1, <2>1, <2>2, <2>3, StartedStep DEF Started
<1>3. CASE ~ link.closing /\ link.op = "ws"
  <2> DEFINE r == Disarm([link EXCEPT !.opened = TRUE, !.op = "read"])
             q == StartWrite(r)
             t == [q EXCEPT !.delay = DelayMin, !.scheduled = FALSE]
  <2>1. link' = t
    BY <1>3 DEF StepOk, Opened
  <2>2. Typed(r) /\ SameQueue(link, r)
    BY <1>1 DEF Started, Typed, Fields, SameQueue, Disarm
  <2>3. /\ r.gen = link.gen /\ r.running = link.running /\ r.closing = link.closing
        /\ r.notified = link.notified /\ r.closeop = link.closeop
        /\ r.sock = link.sock /\ r.opened /\ r.op = "read"
    BY ZenonT(30), <1>1 DEF Started, Typed, Fields, Disarm
  <2> HIDE DEF r
  <2>4. QueueInv(r, events) /\ Held(r) = Held(link)
    BY <1>1, <2>2, SameQueueFacts DEF Started
  <2>5. /\ Typed(q) /\ QueueInv(q, events) /\ SameLife(r, q) /\ Held(q) \subseteq Held(r)
    BY <1>1, <2>2, <2>4, StartWriteFacts DEF Started
  <2> HIDE DEF q
  <2>6. Typed(t) /\ SameQueue(q, t)
    BY <2>5 DEF Typed, Fields, SameQueue
  <2>7. /\ t.gen = q.gen /\ t.running = q.running /\ t.closing = q.closing
        /\ t.notified = q.notified /\ t.closeop = q.closeop /\ t.sock = q.sock
        /\ t.opened = q.opened /\ t.op = q.op /\ t.scheduled = FALSE
    BY SMTT(30), <2>5 DEF Typed, Fields
  <2> HIDE DEF t
  <2>8. Calm(t) /\ Alive(t) /\ t.gen # 0
    BY <1>1, <1>3, <2>3, <2>5, <2>7 DEF Started, Calm, Alive, SameLife
  <2>9. QueueInv(t, events) /\ Held(t) \subseteq Held(link)
    BY <2>4, <2>5, <2>6, SameQueueFacts
  <2> QED
    BY <1>1, <2>1, <2>6, <2>8, <2>9, StartedStep DEF Started
<1>4. CASE ~ link.closing /\ link.op # "ws"
  <2>1. PICK o \in {"tcp", "tls", "ws"} : link' = [link EXCEPT !.op = o]
    <3>1. PICK j \in DOMAIN Handshakes : Handshakes[j] = link.op
      BY <1>1 DEF Range
    <3> DEFINE i == CHOOSE k \in DOMAIN Handshakes : Handshakes[k] = link.op
    <3>2. i \in DOMAIN Handshakes /\ Handshakes[i] = link.op
      BY <3>1
    <3>3. link' = [link EXCEPT !.op = Handshakes[i + 1]]
      BY <1>4 DEF StepOk
    <3> HIDE DEF i
    <3>4. i \in 1 .. 4
      BY <3>2 DEF Handshakes
    <3>5. i # 4
      BY <1>4, <3>2 DEF Handshakes
    <3>6. Handshakes[i + 1] \in {"tcp", "tls", "ws"}
      <4>1. i = 1 \/ i = 2 \/ i = 3
        BY <3>4, <3>5
      <4> QED
        BY <4>1 DEF Handshakes
    <3> QED
      BY <3>3, <3>6
  <2> DEFINE t == [link EXCEPT !.op = o]
  <2>2. Typed(t) /\ SameQueue(link, t) /\ t.gen = link.gen
    BY <1>1 DEF Started, Typed, Fields, SameQueue
  <2>3. Calm(t) /\ Alive(t)
    BY <1>1 DEF Started, Typed, Fields, Calm, Alive
  <2>4. link' = t
    BY <2>1
  <2> HIDE DEF t
  <2>5. QueueInv(t, events) /\ Held(t) = Held(link) /\ t.gen # 0
    BY <1>1, <2>2, SameQueueFacts DEF Started
  <2> QED
    BY <1>1, <2>2, <2>3, <2>4, <2>5, StartedStep DEF Started
<1> QED
  BY <1>2, <1>3, <1>4

\* A step of the connection fails.
LEMMA StepFailsStep == ASSUME LinkInv, StepFails PROVE StepOK
<1>1. Started /\ events' = events /\ got' = got
  BY PendingMeansStarted DEF StepFails
<1> DEFINE s == [link EXCEPT !.op = "none"]
<1>2. Typed(s) /\ SameQueue(link, s) /\ Calm(s) /\ s.gen # 0
  BY <1>1 DEF Started, Typed, Fields, SameQueue, Calm
<1>3. link' = Fail(s)
  BY DEF StepFails
<1> HIDE DEF s
<1> QED
  BY <1>1, <1>2, <1>3, FailStep

\* A close notification in a link that is closing.
LEMMA NotifyStep ==
  ASSUME Started, NEW s, NEW t, Typed(s), SameQueue(link, s), s.gen # 0, s.closing,
         s.closeop => ~ s.running,
         s.running => (s.scheduled /\ s.gen \in s.timers) \/ (~ s.scheduled /\ ~ s.notified),
         t = NotifyClose(CloseHard(Disarm(s))) \/ t = NotifyClose(CloseHard(s)),
         link' = t, events' = events, got' = got
  PROVE  StepOK
<1>1. Typed(t) /\ SameQueue(s, t) /\ t.closing /\ t.gen # 0 /\ Calm(t)
  BY SMTT(30), NotifyFacts
<1>2. SameQueue(link, t)
  BY SMTT(30), <1>1 DEF SameQueue
<1>3. QueueInv(t, events) /\ Held(t) = Held(link) /\ Alive(t)
  BY <1>1, <1>2, SameQueueFacts DEF Started, Alive
<1> QED
  BY SMTT(30), <1>1, <1>3, StartedStep DEF Started

\* The brain closes the connection.
LEMMA ReadClosedStep == ASSUME LinkInv, ReadClosed PROVE StepOK
<1>1. Started /\ events' = events /\ got' = got
  BY PendingMeansStarted DEF ReadClosed
<1> DEFINE s == [link EXCEPT !.op = "none", !.closing = TRUE]
<1>2. Typed(s) /\ SameQueue(link, s) /\ s.gen # 0 /\ s.closing
  BY <1>1 DEF Started, Typed, Fields, SameQueue
<1>3. /\ s.closeop = link.closeop /\ s.running = link.running /\ s.scheduled = link.scheduled
      /\ s.gen = link.gen /\ s.timers = link.timers /\ s.notified = link.notified
  BY <1>1 DEF Started, Typed, Fields
<1>4. link' = NotifyClose(CloseHard(Disarm(s)))
  BY DEF ReadClosed
<1> HIDE DEF s
<1>5. /\ s.closeop => ~ s.running
      /\ s.running => (s.scheduled /\ s.gen \in s.timers) \/ (~ s.scheduled /\ ~ s.notified)
  BY <1>1, <1>3 DEF Started, Calm
<1> QED
  BY <1>1, <1>2, <1>4, <1>5, NotifyStep

\* async_close completes in a link that was stopped.
LEMMA CloseDoneStep == ASSUME LinkInv, CloseDone PROVE StepOK
<1>1. Started /\ events' = events /\ got' = got /\ ~ link.running /\ link.closing
  BY PendingMeansStarted DEF CloseDone, Started, Calm
<1> DEFINE s == [link EXCEPT !.closeop = FALSE]
<1>2. Typed(s) /\ SameQueue(link, s) /\ s.gen # 0 /\ s.closing /\ ~ s.running
  BY <1>1 DEF Started, Typed, Fields, SameQueue
<1>3. link' = NotifyClose(CloseHard(s))
  BY DEF CloseDone
<1> HIDE DEF s
<1> QED
  BY <1>1, <1>2, <1>3, NotifyStep

\* A pending step whose socket was closed under it.
LEMMA StepAbortedStep == ASSUME LinkInv, StepAborted PROVE StepOK
<1>1. Started /\ events' = events /\ got' = got /\ ~ link.sock
  BY PendingMeansStarted DEF StepAborted
<1> DEFINE s == [link EXCEPT !.op = "none"]
<1>2. Typed(s) /\ SameQueue(link, s) /\ Calm(s) /\ s.gen # 0
  BY <1>1 DEF Started, Typed, Fields, SameQueue, Calm
<1>3. s.running = link.running /\ s.closing = link.closing
  BY <1>1 DEF Started, Typed, Fields
<1>4. link' = IF link.op = "read" THEN Fail(s) ELSE s
  BY DEF StepAborted
<1> HIDE DEF s
<1>5. Alive(s)
  BY <1>1, <1>3 DEF Started, Alive
<1>6. QueueInv(s, events) /\ Held(s) = Held(link)
  BY <1>1, <1>2, SameQueueFacts DEF Started
<1>7. CASE link' = Fail(s)
  BY <1>1, <1>2, <1>7, FailStep
<1>8. CASE link' = s
  BY <1>1, <1>2, <1>5, <1>6, <1>8, StartedStep DEF Started
<1> QED
  BY <1>4, <1>7, <1>8

\* A resolve that was cancelled reports after all.
LEMMA LateResolveStep == ASSUME LinkInv, LateResolve PROVE StepOK
<1>1. Started /\ events' = events /\ got' = got
  BY PendingMeansStarted DEF LateResolve
<1> DEFINE s == [link EXCEPT !.late = @ - 1]
           r == [link EXCEPT !.op = "tcp"]
<1>2. Typed(s) /\ SameQueue(link, s) /\ Calm(s) /\ Alive(s) /\ s.gen # 0
  BY <1>1 DEF Started, Typed, Fields, SameQueue, Calm, Alive
<1>3. Typed(r) /\ SameQueue(link, r) /\ Calm(r) /\ Alive(r) /\ r.gen # 0
  BY <1>1 DEF Started, Typed, Fields, SameQueue, Calm, Alive
<1>4. link' = s \/ link' = Fail(s) \/ link' = r
  BY DEF LateResolve
<1> HIDE DEF s, r
<1>5. QueueInv(s, events) /\ Held(s) = Held(link) /\ QueueInv(r, events) /\ Held(r) = Held(link)
  BY <1>1, <1>2, <1>3, SameQueueFacts DEF Started
<1>6. CASE link' = s
  BY <1>1, <1>2, <1>5, <1>6, StartedStep DEF Started
<1>7. CASE link' = Fail(s)
  BY <1>1, <1>2, <1>7, FailStep
<1>8. CASE link' = r
  BY <1>1, <1>3, <1>5, <1>8, StartedStep DEF Started
<1> QED
  BY <1>4, <1>6, <1>7, <1>8

\* A write completes: its message arrives, and all that waits is newer.
LEMMA WriteOkStep == ASSUME LinkInv, WriteOk PROVE StepOK
<1>1. Started /\ events' = events /\ link' = Written(link) /\ link.wire # <<>>
  BY PendingMeansStarted DEF WriteOk
<1> DEFINE n == Head(link.wire).msg
           t == Written(link)
<1>2. /\ Typed(t) /\ QueueInv(t, events) /\ SameLife(link, t)
      /\ Held(t) \subseteq {m \in Held(link) : m > n} /\ n \in Held(link)
  BY <1>1, WrittenFacts DEF Started
<1>3. got' \in {Append(got, n), Append(got, Garbage)}
  BY SMTT(30) DEF WriteOk
<1> HIDE DEF t, n
<1>4. Calm(t) /\ Alive(t) /\ t.gen # 0
  BY <1>1, <1>2, SameLifeFacts DEF Started, SameLife
<1>5. link' = t
  BY <1>1 DEF t
<1>6. LinkInv'
  BY SMTT(30), <1>1, <1>2, <1>4, <1>5 DEF LinkInv, LifeInv, Started
<1>7. EL!Deliver
  BY ZenonT(30), <1>1, <1>2, <1>3, <1>5 DEF EL!Deliver, EL!Garbage, Garbage, Waiting, Held
<1> QED
  BY <1>6, <1>7 DEF StepOK, EL!Next

\* A write fails: the wire is idle again, the outbox stays.
LEMMA WriteFailsStep == ASSUME LinkInv, WriteFails PROVE StepOK
<1>1. Started /\ events' = events /\ got' = got /\ link.wire # <<>>
  BY PendingMeansStarted DEF WriteFails
<1> DEFINE s == [link EXCEPT !.writing = FALSE, !.wire = Tail(@)]
           t == Fail(s)
<1>2. link.wire \in Seq(Write) /\ Len(link.wire) \in Nat \ {0} /\ Len(link.wire) <= 1
  BY <1>1, EmptySeq DEF Started, Typed, QueueInv
<1>3. Tail(link.wire) = <<>> /\ Tail(link.wire) \in Seq(Write)
  <2>1. Len(link.wire) = 1
    BY ZenonT(30), <1>2, OnlyOne
  <2>2. Tail(link.wire) \in Seq(Write) /\ Len(Tail(link.wire)) = 0
    BY <1>1, <1>2, <2>1, HeadTailProperties
  <2> QED
    BY ZenonT(30), <2>2, EmptySeq
<1>4. /\ DOMAIN s = Fields /\ s.wire = Tail(link.wire) /\ s.outbox = link.outbox
      /\ s.writing = FALSE /\ s.gen = link.gen /\ Calm(s)
  BY <1>1 DEF Started, Typed, Fields, Calm
<1> HIDE DEF s
<1>5. Typed(s)
  BY SMTT(30), <1>1, <1>3, <1>4 DEF Started, Typed
<1>6. QueueInv(s, events) /\ Held(s) \subseteq Held(link)
  BY <1>1, <1>3, <1>4 DEF Started, QueueInv, Held
<1>7. Typed(t) /\ SameQueue(s, t) /\ t.closing /\ t.gen # 0 /\ Calm(t)
  BY <1>1, <1>4, <1>5, FailFacts DEF Started
<1>8. link' = t
  BY DEF WriteFails, s
<1> HIDE DEF t
<1>9. QueueInv(t, events) /\ Held(t) \subseteq Held(link) /\ Alive(t)
  BY <1>6, <1>7, SameQueueFacts DEF Alive
<1> QED
  BY <1>1, <1>7, <1>8, <1>9, StartedStep DEF Started

\* The deadline of the attempt expires: its handler is queued.
LEMMA DeadlineExpiresStep == ASSUME LinkInv, DeadlineExpires PROVE StepOK
<1>1. Started /\ events' = events /\ got' = got
  BY PendingMeansStarted DEF DeadlineExpires
<1> DEFINE t == [link EXCEPT !.deadline = "fired"]
<1>2. Typed(t) /\ SameQueue(link, t) /\ Calm(t) /\ Alive(t) /\ t.gen # 0
  BY <1>1 DEF Started, Typed, Fields, SameQueue, Calm, Alive
<1>3. link' = t
  BY DEF DeadlineExpires
<1> HIDE DEF t
<1>4. QueueInv(t, events) /\ Held(t) = Held(link)
  BY <1>1, <1>2, SameQueueFacts DEF Started
<1> QED
  BY <1>1, <1>2, <1>3, <1>4, StartedStep DEF Started

\* Its handler runs, on this connection or on the one after it.
LEMMA DeadlineRunsStep == ASSUME LinkInv, DeadlineRuns PROVE StepOK
<1>1. Started /\ events' = events /\ got' = got
  BY PendingMeansStarted DEF DeadlineRuns
<1> DEFINE s == [link EXCEPT !.deadline = "off"]
<1>2. Typed(s) /\ SameQueue(link, s) /\ Calm(s) /\ s.gen # 0
  BY <1>1 DEF Started, Typed, Fields, SameQueue, Calm
<1>3. link' = Fail(s)
  BY DEF DeadlineRuns
<1> HIDE DEF s
<1> QED
  BY <1>1, <1>2, <1>3, FailStep

-----------------------------------------------------------------------------
\* Idle links satisfy the invariant.
LEMMA InitInv == Init => LinkInv
<1> SUFFICES ASSUME Init PROVE LinkInv
  OBVIOUS
<1>1. link = Idle /\ events = 0
  BY DEF Init
<1>2. Typed(Idle)
  <2>1. DOMAIN Idle = Fields /\ Idle.gen = 0 /\ Idle.outbox = <<>> /\ Idle.wire = <<>>
    BY DEF Idle, Fields
  <2>2. <<>> \in Seq(Nat) /\ <<>> \in Seq(Write)
    OBVIOUS
  <2> QED
    BY <2>1, <2>2 DEF Typed
<1>3. Idle.outbox = <<>> /\ Idle.wire = <<>> /\ ~ Idle.writing
  BY DEF Idle
<1>4. QueueInv(Idle, 0)
  BY SMTT(30), <1>3 DEF QueueInv, Sorted
<1>5. LifeInv(Idle)
  BY DEF LifeInv, Calm, Alive, Idle
<1> QED
  BY <1>1, <1>2, <1>4, <1>5 DEF LinkInv

\* Every step keeps the invariant and is a step of the promise.
LEMMA NextStep == LinkInv /\ [Next]_vars => LinkInv' /\ [EL!Next]_EL!vars
<1> SUFFICES ASSUME LinkInv, [Next]_vars PROVE LinkInv' /\ [EL!Next]_EL!vars
  OBVIOUS
<1>1. CASE Next
  <2>1. StepOK
    BY SMTT(30), <1>1, StartStep, StopStep, PublishStep, StepFailsStep, ReadClosedStep, DeadlineExpiresStep,
       ReconnectStep, StepOkStep, StepAbortedStep, LateResolveStep, WriteOkStep, WriteFailsStep,
       DeadlineRunsStep, CloseDoneStep DEF Next, Completion
  <2> QED
    BY <2>1 DEF StepOK
<1>2. CASE UNCHANGED vars
  BY <1>2 DEF vars, LinkInv, EL!vars, Waiting
<1> QED
  BY <1>1, <1>2

\* Never two writes at a time on a WebSocket, and write_in_flight_ tells.
THEOREM LinkOneWrite == Spec => []OneWrite
<1>1. LinkInv => OneWrite
  BY DEF LinkInv, QueueInv, OneWrite
<1> QED
  BY <1>1, InitInv, NextStep, PTL DEF Spec

\* Whatever fails, and in whatever order the completions and timers run, a
\* running sink is connected, connecting under a deadline, or has a reconnect
\* timer it will honour.
THEOREM LinkStaysAlive == Spec => []LinkNeverStranded
<1>1. LinkInv => LinkNeverStranded
  BY DEF LinkInv, LifeInv, Calm, Alive, LinkNeverStranded
<1> QED
  BY <1>1, InitInv, NextStep, PTL DEF Spec

\* The sink over its client keeps the promise of EventLink.
THEOREM LinkImplementsEventLink == Spec => ImplementsEventLink
<1>1. Init => EL!Init
  BY DEF Init, EL!Init, Idle, Waiting, Range
<1> QED
  BY <1>1, InitInv, NextStep, PTL DEF Spec, ImplementsEventLink, EL!Spec

\* What waits was published after all that was delivered.
OrderInv ==
  /\ events \in Nat /\ Waiting \subseteq 1 .. events /\ got \in Seq(0 .. events)
  /\ \A i \in DOMAIN got, m \in Waiting : got[i] < m
  /\ EL!DeliveredInOrder

\* Whatever is lost, pushed out or garbled on the way, a feed's events reach the
\* brain in the order they were published and none twice.
THEOREM OrderKept == EL!Spec => []EL!DeliveredInOrder
<1>1. EL!Init => OrderInv
  BY DEF EL!Init, OrderInv, EL!DeliveredInOrder
<1>2. OrderInv /\ [EL!Next]_EL!vars => OrderInv'
  <2> SUFFICES ASSUME OrderInv, [EL!Next]_EL!vars PROVE OrderInv'
    OBVIOUS
  <2>1. CASE EL!Publish
    BY <2>1 DEF OrderInv, EL!DeliveredInOrder, EL!Publish
  <2>2. CASE EL!Lose
    BY <2>2 DEF OrderInv, EL!DeliveredInOrder, EL!Lose
  <2>3. CASE EL!Deliver
    <3>1. PICK n \in Waiting : /\ got' \in {Append(got, n), Append(got, EL!Garbage)}
                               /\ Waiting' \subseteq {m \in Waiting : m > n}
      BY <2>3 DEF EL!Deliver
    <3>2. PICK x \in {n, EL!Garbage} : got' = Append(got, x)
      BY <3>1
    <3>3. x \in 0 .. events /\ events' = events /\ n \in 1 .. events
      BY <2>3, <3>2 DEF OrderInv, EL!Deliver, EL!Garbage
    <3>4. /\ got' \in Seq(0 .. events) /\ DOMAIN got' = 1 .. Len(got) + 1
          /\ DOMAIN got = 1 .. Len(got) /\ Len(got) \in Nat
          /\ \A i \in 1 .. Len(got) : got'[i] = got[i]
          /\ got'[Len(got) + 1] = x
      BY <3>2, <3>3 DEF OrderInv
    <3>5. \A i \in DOMAIN got', m \in Waiting' : got'[i] < m
      <4>1. \A m \in Waiting' : m \in Waiting /\ m \in 1 .. events /\ x < m
        BY <3>1, <3>2, <3>3 DEF OrderInv, EL!Garbage
      <4>2. \A i \in 1 .. Len(got), m \in Waiting' : got'[i] < m
        BY ZenonT(30), <3>4, <4>1 DEF OrderInv
      <4> QED
        BY <3>4, <4>1, <4>2
    <3>6. EL!DeliveredInOrder'
      BY SMTT(30), <3>1, <3>2, <3>3, <3>4 DEF OrderInv, EL!DeliveredInOrder, EL!Garbage
    <3> QED
      BY <3>1, <3>3, <3>4, <3>5, <3>6 DEF OrderInv
  <2>4. CASE UNCHANGED EL!vars
    BY <2>4 DEF OrderInv, EL!DeliveredInOrder, EL!vars
  <2> QED
    BY <2>1, <2>2, <2>3, <2>4 DEF EL!Next
<1>3. OrderInv => EL!DeliveredInOrder
  BY DEF OrderInv
<1> QED
  BY <1>1, <1>2, <1>3, PTL DEF EL!Spec

\* Hence the brain gets a feed's events in order and none twice.
THEOREM LinkDeliversInOrder == Spec => []EL!DeliveredInOrder
  BY LinkImplementsEventLink, OrderKept, PTL DEF ImplementsEventLink

-----------------------------------------------------------------------------
(* The newest event.                                                        *)

\* The newest event was sent or is the last in the outbox.  The completion of a
\* write pops the message it sent, unless that one was evicted meanwhile: then
\* the outbox was full, and has a message behind the one that is popped.
NewestInv(s, g) ==
  /\ g \in Seq(Nat)
  /\ s.newest # 0 =>
       s.newest \in Range(g) \/ (s.outbox # <<>> /\ s.newest = s.outbox[Len(s.outbox)])
  /\ s.wire # <<>> =>
       IF s.wire[1].freed THEN Len(s.outbox) >= 2 ELSE s.wire[1].msg = s.outbox[1]

\* Nothing the invariant speaks of has changed.
SameNewest(s, t) == SameQueue(s, t) /\ t.newest = s.newest

\* All that ends a connection leaves the outbox and its newest event alone.
LEMMA EndsFacts ==
  ASSUME NEW s, Typed(s)
  PROVE  /\ SameNewest(s, Fail(s)) /\ SameNewest(s, NotifyClose(CloseHard(s)))
         /\ SameNewest(s, NotifyClose(CloseHard(Disarm(s)))) /\ SameNewest(s, Close(s))
<1>1. SameNewest(s, Fail(s))
  BY SMTT(30) DEF Typed, Fields, SameNewest, SameQueue, Fail, NotifyClose, ScheduleReconnect,
     CloseHard, Disarm
<1>2. SameNewest(s, NotifyClose(CloseHard(s)))
  BY SMTT(30) DEF Typed, Fields, SameNewest, SameQueue, NotifyClose, ScheduleReconnect, CloseHard
<1>3. SameNewest(s, NotifyClose(CloseHard(Disarm(s))))
  BY SMTT(30) DEF Typed, Fields, SameNewest, SameQueue, NotifyClose, ScheduleReconnect, CloseHard,
     Disarm
<1>4. SameNewest(s, Close(s))
  BY SMTT(30) DEF Typed, Fields, SameNewest, SameQueue, Close, NotifyClose, ScheduleReconnect,
     CloseHard
<1> QED
  BY <1>1, <1>2, <1>3, <1>4

\* The steps that neither open a connection nor touch its messages.
LEMMA QuietStep ==
  ASSUME LinkInv,
         \/ Stop \/ StepFails \/ ReadClosed \/ StepAborted \/ LateResolve
         \/ DeadlineExpires \/ DeadlineRuns \/ CloseDone
  PROVE  SameNewest(link, link') /\ got' = got
<1>1. got' = got /\ Typed(link)
  BY SMTT(30) DEF LinkInv, Stop, StepFails, ReadClosed, StepAborted, LateResolve, DeadlineExpires,
     DeadlineRuns, CloseDone
<1>2. ASSUME NEW s, Typed(s), SameNewest(link, s),
             \/ link' = s \/ link' = Fail(s) \/ link' = Close(s)
             \/ link' = NotifyClose(CloseHard(s)) \/ link' = NotifyClose(CloseHard(Disarm(s)))
      PROVE  SameNewest(link, link')
  BY SMTT(30), <1>2, EndsFacts DEF SameNewest, SameQueue
<1>3. CASE Stop
  <2>1. PICK timers \in {{}, link.timers} :
          link' = Close([link EXCEPT !.running = FALSE, !.scheduled = FALSE, !.gen = @ + 1,
                                     !.timers = timers])
    BY <1>3, ZenonT(30) DEF Stop
  <2> DEFINE s == [link EXCEPT !.running = FALSE, !.scheduled = FALSE, !.gen = @ + 1,
                               !.timers = timers]
  <2>2. Typed(s) /\ SameNewest(link, s)
    BY <1>1 DEF Typed, Fields, SameNewest, SameQueue
  <2>3. link' = Close(s)
    BY <2>1
  <2> HIDE DEF s
  <2> QED
    BY <1>1, <1>2, <2>2, <2>3
<1>4. CASE StepFails \/ StepAborted
  <2> DEFINE s == [link EXCEPT !.op = "none"]
  <2>1. Typed(s) /\ SameNewest(link, s)
    BY <1>1 DEF Typed, Fields, SameNewest, SameQueue
  <2>2. link' = Fail(s) \/ link' = s
    BY <1>4 DEF StepFails, StepAborted
  <2> HIDE DEF s
  <2> QED
    BY <1>1, <1>2, <2>1, <2>2
<1>5. CASE ReadClosed
  <2> DEFINE s == [link EXCEPT !.op = "none", !.closing = TRUE]
  <2>1. Typed(s) /\ SameNewest(link, s)
    BY <1>1 DEF Typed, Fields, SameNewest, SameQueue
  <2>2. link' = NotifyClose(CloseHard(Disarm(s)))
    BY <1>5 DEF ReadClosed
  <2> HIDE DEF s
  <2> QED
    BY <1>1, <1>2, <2>1, <2>2
<1>6. CASE LateResolve
  <2> DEFINE s == [link EXCEPT !.late = @ - 1]
             r == [link EXCEPT !.op = "tcp"]
  <2>1. Typed(s) /\ SameNewest(link, s) /\ Typed(r) /\ SameNewest(link, r)
    BY <1>1 DEF Typed, Fields, SameNewest, SameQueue
  <2>2. link' = Fail(s) \/ link' = s \/ link' = r
    BY <1>6 DEF LateResolve
  <2> HIDE DEF s, r
  <2> QED
    BY <1>1, <1>2, <2>1, <2>2
<1>7. CASE DeadlineExpires \/ DeadlineRuns
  <2> DEFINE s == [link EXCEPT !.deadline = "fired"]
             r == [link EXCEPT !.deadline = "off"]
  <2>1. Typed(s) /\ SameNewest(link, s) /\ Typed(r) /\ SameNewest(link, r)
    BY <1>1 DEF Typed, Fields, SameNewest, SameQueue
  <2>2. link' = s \/ link' = Fail(r)
    BY <1>7 DEF DeadlineExpires, DeadlineRuns
  <2> HIDE DEF s, r
  <2> QED
    BY <1>1, <1>2, <2>1, <2>2
<1>8. CASE CloseDone
  <2> DEFINE s == [link EXCEPT !.closeop = FALSE]
  <2>1. Typed(s) /\ SameNewest(link, s)
    BY <1>1 DEF Typed, Fields, SameNewest, SameQueue
  <2>2. link' = NotifyClose(CloseHard(s))
    BY <1>8 DEF CloseDone
  <2> HIDE DEF s
  <2> QED
    BY <1>1, <1>2, <2>1, <2>2
<1> QED
  BY <1>3, <1>4, <1>5, <1>6, <1>7, <1>8

\* The invariant speaks of nothing else.
LEMMA SameNewestFacts ==
  ASSUME NEW s, NEW t, NEW g, SameNewest(s, t), NewestInv(s, g)
  PROVE  NewestInv(t, g)
  BY SMTT(30) DEF SameNewest, SameQueue, NewestInv

\* start_write_() sends the front of the outbox.
LEMMA StartWriteNewest ==
  ASSUME NEW s, NEW n \in Nat, NEW g, Typed(s), QueueInv(s, n), NewestInv(s, g)
  PROVE  NewestInv(StartWrite(s), g)
<1>1. CASE s.writing \/ s.outbox = <<>>
  BY SMTT(30), <1>1 DEF StartWrite
<1>2. CASE ~ s.writing /\ s.outbox # <<>>
  <2> DEFINE t == StartWrite(s)
             w == [msg |-> Head(s.outbox), freed |-> FALSE]
  <2>1. s.wire = <<>> /\ s.outbox \in Seq(Nat) /\ Head(s.outbox) = s.outbox[1]
    BY <1>2 DEF Typed, QueueInv
  <2>2. Append(s.wire, w) = <<w>>
    BY <2>1
  <2>3. t.outbox = s.outbox /\ t.wire = <<w>> /\ t.newest = s.newest
    BY SMTT(30), <1>2, <2>2 DEF StartWrite, Typed, Fields
  <2>4. t.wire[1].msg = s.outbox[1] /\ ~ t.wire[1].freed
    BY <2>1, <2>3
  <2> QED
    BY <2>3, <2>4 DEF NewestInv
<1> QED
  BY <1>1, <1>2

\* A new event is the last in the outbox, and evicts only from a full one.
LEMMA QueuedNewest ==
  ASSUME NEW s, NEW n \in Nat, NEW g, Typed(s), QueueInv(s, n), NewestInv(s, g)
  PROVE  NewestInv(Queued(s, n + 1), g)
<1> DEFINE t == Queued(s, n + 1)
<1>1. s.outbox \in Seq(Nat) /\ Len(s.outbox) \in Nat /\ s.wire \in Seq(Write)
  BY SMTT(30) DEF Typed
<1>2. CASE Len(s.outbox) >= max_outbox
  <2> DEFINE q == Tail(s.outbox)
  <2>1. /\ t.outbox = Append(q, n + 1) /\ t.newest = n + 1
        /\ t.wire = [i \in DOMAIN s.wire |-> [s.wire[i] EXCEPT !.freed = TRUE]]
    BY <1>2 DEF Queued, Typed, Fields
  <2>2. q \in Seq(Nat) /\ Len(q) + 1 = Len(s.outbox) /\ Len(s.outbox) >= 2
    <3>1. Len(s.outbox) >= 2
      BY <1>1, <1>2, LinkAssumption
    <3> QED
      BY <1>1, <3>1
  <2> HIDE DEF q
  <2>3. /\ Len(t.outbox) = Len(s.outbox) /\ t.outbox # <<>>
        /\ t.outbox[Len(t.outbox)] = t.newest
    BY <2>1, <2>2, AppendProperties, n + 1 \in Nat
  <2>4. t.wire # <<>> => t.wire[1].freed
    <3> SUFFICES ASSUME t.wire # <<>> PROVE t.wire[1].freed
      OBVIOUS
    <3>1. 1 \in DOMAIN s.wire
      BY <1>1, <2>1
    <3>2. s.wire[1] \in Write
      BY SMTT(30), <1>1, <3>1
    <3> QED
      BY <2>1, <3>1, <3>2 DEF Write
  <2> QED
    BY <2>2, <2>3, <2>4 DEF NewestInv
<1>3. CASE ~ (Len(s.outbox) >= max_outbox)
  <2>1. t.outbox = Append(s.outbox, n + 1) /\ t.newest = n + 1 /\ t.wire = s.wire
    BY SMTT(30), <1>3 DEF Queued, Typed, Fields
  <2>2. /\ Len(t.outbox) = Len(s.outbox) + 1 /\ t.outbox # <<>>
        /\ t.outbox[Len(t.outbox)] = t.newest
        /\ s.outbox # <<>> => t.outbox[1] = s.outbox[1]
    BY SMTT(30), <1>1, <2>1, AppendProperties, n + 1 \in Nat
  <2>3. s.wire # <<>> => s.outbox # <<>> /\ Len(s.outbox) # 0
    BY <1>1, EmptySeq DEF QueueInv
  <2> HIDE DEF t
  <2>4. t.wire # <<>> =>
          IF t.wire[1].freed THEN Len(t.outbox) >= 2 ELSE t.wire[1].msg = t.outbox[1]
    BY <1>1, <2>1, <2>2, <2>3 DEF NewestInv
  <2> QED
    BY <2>2, <2>4 DEF NewestInv, t
<1> QED
  BY <1>2, <1>3

\* send_binary() of event n + 1.
LEMMA SendNewest ==
  ASSUME NEW s, NEW n \in Nat, NEW g, Typed(s), QueueInv(s, n), NewestInv(s, g)
  PROVE  NewestInv(SendBinary(s, n + 1), g)
<1> DEFINE q == Queued(s, n + 1)
<1>1. Typed(q) /\ QueueInv(q, n + 1) /\ NewestInv(q, g)
  BY QueuedFacts, QueuedNewest
<1> HIDE DEF q
<1>2. NewestInv(StartWrite(q), g)
  BY <1>1, n + 1 \in Nat, StartWriteNewest
<1>3. SendBinary(s, n + 1) \in {s, q, StartWrite(q)}
  BY DEF SendBinary, q
<1> QED
  BY <1>1, <1>2, <1>3

\* A write completes: the newest event was sent, or there is one behind the
\* front of the outbox and it stays.
LEMMA WrittenNewest ==
  ASSUME NEW s, NEW n \in Nat, NEW g, NEW x \in Nat, Typed(s), QueueInv(s, n), NewestInv(s, g),
         s.wire # <<>>, x = Head(s.wire).msg \/ Head(s.wire).freed
  PROVE  NewestInv(Written(s), Append(g, x))
<1> DEFINE r == [s EXCEPT !.writing = FALSE, !.wire = Tail(@), !.outbox = Tail(@)]
           q == Tail(s.outbox)
<1>1. /\ s.outbox \in Seq(Nat) /\ s.outbox # <<>> /\ Len(s.outbox) \in Nat /\ Len(s.outbox) >= 1
      /\ Sorted(s.outbox, n)
      /\ s.wire \in Seq(Write) /\ Len(s.wire) = 1 /\ Head(s.wire) = s.wire[1]
  <2>1. s.wire \in Seq(Write) /\ Len(s.wire) \in Nat \ {0} /\ Len(s.wire) <= 1
    BY EmptySeq DEF Typed, QueueInv
  <2>2. Len(s.wire) = 1
    BY ZenonT(30), <2>1, OnlyOne
  <2>3. Head(s.wire) = s.wire[1]
    BY <2>1
  <2> QED
    BY <2>1, <2>2, <2>3 DEF Typed, QueueInv
<1>2. Tail(s.wire) = <<>> /\ <<>> \in Seq(Write)
  <2>1. Tail(s.wire) \in Seq(Write) /\ Len(Tail(s.wire)) = 0
    BY SMTT(30), <1>1, HeadTailProperties
  <2> QED
    BY ZenonT(30), <2>1, EmptySeq
<1>3. /\ q \in Seq(Nat) /\ Len(q) = Len(s.outbox) - 1 /\ Sorted(q, n)
      /\ \A i \in 1 .. Len(s.outbox) - 1 : q[i] = s.outbox[i + 1]
  BY SMTT(30), <1>1, TailFacts
<1>4. r.outbox = q /\ r.wire = <<>> /\ r.writing = FALSE /\ r.newest = s.newest
      /\ DOMAIN r = Fields /\ r.gen = s.gen
  BY SMTT(30), <1>2 DEF Typed, Fields
<1>5. Append(g, x) \in Seq(Nat) /\ Range(g) \subseteq Range(Append(g, x)) /\ x \in Range(Append(g, x))
  <2>1. g \in Seq(Nat) /\ Len(g) \in Nat /\ DOMAIN g = 1 .. Len(g)
    BY DEF NewestInv
  <2>2. /\ Append(g, x) \in Seq(Nat) /\ DOMAIN Append(g, x) = 1 .. Len(g) + 1
        /\ \A i \in 1 .. Len(g) : Append(g, x)[i] = g[i]
        /\ Append(g, x)[Len(g) + 1] = x
    BY SMTT(30), <2>1, AppendProperties
  <2> QED
    BY SMTT(30), <2>1, <2>2 DEF Range
<1> HIDE DEF r, q
<1>6. ASSUME s.newest # 0, s.newest \notin Range(g)
      PROVE  s.newest = x \/ (q # <<>> /\ s.newest = q[Len(q)])
  <2>1. s.newest = s.outbox[Len(s.outbox)]
    BY <1>6 DEF NewestInv
  <2>2. CASE Len(s.outbox) >= 2
    <3>1. Len(q) \in 1 .. Len(s.outbox) - 1 /\ Len(q) + 1 = Len(s.outbox)
      BY SMTT(30), <1>1, <1>3, <2>2
    <3>2. Len(q) # 0
      BY <3>1
    <3>3. q # <<>>
      BY ZenonT(30), <1>3, <3>2, EmptySeq
    <3> QED
      BY <1>3, <2>1, <3>1, <3>3
  <2>3. CASE Len(s.outbox) = 1
    <3>1. ~ s.wire[1].freed /\ s.wire[1].msg = s.outbox[1]
      BY SMTT(30), <1>1, <2>3 DEF NewestInv
    <3> QED
      BY SMTT(30), <1>1, <2>1, <2>3, <3>1
  <2> QED
    BY SMTT(30), <1>1, <2>2, <2>3
<1>7. NewestInv(r, Append(g, x))
  BY SMTT(30), <1>4, <1>5, <1>6 DEF NewestInv
<1>8. Typed(r) /\ QueueInv(r, n)
  BY <1>2, <1>3, <1>4 DEF Typed, QueueInv
<1>9. Written(s) = StartWrite(r)
  BY DEF Written, r
<1> QED
  BY SMTT(30), <1>7, <1>8, <1>9, StartWriteNewest

\* connect() starts with an empty outbox.
LEMMA ConnectNewest ==
  ASSUME NEW s, NEW g \in Seq(Nat), Typed(s), s.wire = <<>>
  PROVE  NewestInv(Connect(s), g)
<1>1. Connect(s).newest = 0 /\ Connect(s).wire = s.wire
  BY DEF Typed, Fields, Connect
<1> QED
  BY <1>1 DEF NewestInv

\* Every step keeps the newest event.
LEMMA NewestStep ==
  LinkInv /\ NewestInv(link, got) /\ [Next]_vars => NewestInv(link, got)'
<1> SUFFICES ASSUME LinkInv, NewestInv(link, got), [Next]_vars PROVE NewestInv(link', got')
  OBVIOUS
<1>1. /\ Typed(link) /\ events \in Nat /\ QueueInv(link, events) /\ got \in Seq(Nat)
      /\ link.wire \in Seq(Write)
  BY SMTT(30) DEF LinkInv, NewestInv, Typed
<1>2. CASE Start
  <2>1. link = Idle /\ got' = got
    BY SMTT(30), <1>2 DEF LinkInv, LifeInv, Start
  <2>2. link.wire = <<>>
    BY <2>1 DEF Idle
  <2> DEFINE s == [link EXCEPT !.running = TRUE, !.gen = 1]
             t == [link EXCEPT !.gen = 1]
  <2>3. Typed(s) /\ s.wire = link.wire /\ SameNewest(link, t)
    BY <1>1 DEF Typed, Fields, SameNewest, SameQueue
  <2>4. link' = Connect(s) \/ link' = t
    BY SMTT(30), <1>2 DEF Start
  <2> HIDE DEF s, t
  <2> QED
    BY <1>1, <2>1, <2>2, <2>3, <2>4, ConnectNewest, SameNewestFacts
<1>3. CASE \E g \in link.timers : ReconnectFires(g)
  <2>1. PICK g \in link.timers : ReconnectFires(g)
    BY <1>3
  <2> DEFINE s == [link EXCEPT !.timers = @ \ {g}]
             t == [s EXCEPT !.scheduled = FALSE]
  <2>2. link.wire = <<>> /\ got' = got /\ (link' = Connect(t) \/ link' = s)
    BY <2>1 DEF ReconnectFires, Reconnect
  <2>3. Typed(s) /\ SameNewest(link, s)
    BY <1>1 DEF Typed, Fields, SameNewest, SameQueue
  <2>4. Typed(t) /\ t.wire = s.wire
    BY <1>1 DEF Typed, Fields
  <2> HIDE DEF s, t
  <2>5. t.wire = <<>>
    BY <2>2, <2>3, <2>4 DEF SameNewest, SameQueue
  <2> QED
    BY SMTT(30), <1>1, <2>2, <2>3, <2>4, <2>5, ConnectNewest, SameNewestFacts
<1>4. CASE StepOk
  <2>1. got' = got
    BY <1>4 DEF StepOk
  <2>2. CASE link.closing \/ link.op # "ws"
    <3>1. \E o : link' = [link EXCEPT !.op = o]
      BY ZenonT(30), <1>4, <2>2 DEF StepOk
    <3>2. SameNewest(link, link')
      BY <1>1, <3>1 DEF Typed, Fields, SameNewest, SameQueue
    <3> QED
      BY <2>1, <3>2, SameNewestFacts
  <2>3. CASE ~ link.closing /\ link.op = "ws"
    <3> DEFINE r == Disarm([link EXCEPT !.opened = TRUE, !.op = "read"])
               q == StartWrite(r)
               t == [q EXCEPT !.delay = DelayMin, !.scheduled = FALSE]
    <3>1. link' = t
      BY <1>4, <2>3 DEF StepOk, Opened
    <3>2. Typed(r) /\ SameNewest(link, r) /\ SameQueue(link, r)
      BY <1>1 DEF Typed, Fields, SameNewest, SameQueue, Disarm
    <3> HIDE DEF r
    <3>3. QueueInv(r, events) /\ NewestInv(r, got)
      BY <1>1, <3>2, SameQueueFacts, SameNewestFacts
    <3>4. Typed(q) /\ NewestInv(q, got)
      BY <1>1, <3>2, <3>3, StartWriteFacts, StartWriteNewest
    <3> HIDE DEF q
    <3>5. SameNewest(q, t)
      BY <3>4 DEF Typed, Fields, SameNewest, SameQueue
    <3> HIDE DEF t
    <3> QED
      BY <2>1, <3>1, <3>4, <3>5, SameNewestFacts
  <2> QED
    BY <2>2, <2>3
<1>5. CASE Publish
  BY <1>1, <1>5, SendNewest DEF Publish
<1>6. CASE WriteOk
  <2> DEFINE w == Head(link.wire)
  <2>1. link.wire # <<>> /\ link' = Written(link)
    BY <1>6 DEF WriteOk
  <2>2. PICK x \in {w.msg} \cup (IF w.freed THEN {Garbage} ELSE {}) : got' = Append(got, x)
    BY <1>6 DEF WriteOk
  <2>3. w \in Write
    BY <1>1, <2>1
  <2>4. x \in Nat /\ (x = w.msg \/ w.freed)
    BY SMTT(30), <2>2, <2>3 DEF Write, Garbage
  <2> QED
    BY <1>1, <2>1, <2>2, <2>4, WrittenNewest
<1>7. CASE WriteFails
  <2> DEFINE s == [link EXCEPT !.writing = FALSE, !.wire = Tail(@)]
  <2>1. link.wire # <<>> /\ link' = Fail(s) /\ got' = got
    BY <1>7 DEF WriteFails
  <2>2. Tail(link.wire) = <<>> /\ Tail(link.wire) \in Seq(Write)
    <3>1. Len(link.wire) \in Nat \ {0} /\ Len(link.wire) <= 1
      BY <1>1, <2>1, EmptySeq DEF QueueInv
    <3>2. Len(link.wire) = 1
      BY ZenonT(30), <3>1, OnlyOne
    <3>3. Tail(link.wire) \in Seq(Write) /\ Len(Tail(link.wire)) = 0
      BY <1>1, <2>1, <3>2, HeadTailProperties
    <3> QED
      BY ZenonT(30), <3>3, EmptySeq
  <2>3. /\ DOMAIN s = Fields /\ s.gen = link.gen /\ s.outbox = link.outbox
        /\ s.newest = link.newest /\ s.wire = Tail(link.wire)
    BY SMTT(30), <1>1 DEF Typed, Fields
  <2> HIDE DEF s
  <2>4. Typed(s) /\ NewestInv(s, got)
    BY <1>1, <2>2, <2>3 DEF Typed, NewestInv
  <2> QED
    BY <2>1, <2>4, EndsFacts, SameNewestFacts
<1>8. CASE \/ Stop \/ StepFails \/ ReadClosed \/ StepAborted \/ LateResolve
           \/ DeadlineExpires \/ DeadlineRuns \/ CloseDone
  BY <1>8, QuietStep, SameNewestFacts
<1>9. CASE UNCHANGED vars
  BY <1>9 DEF vars
<1> QED
  BY <1>2, <1>3, <1>4, <1>5, <1>6, <1>7, <1>8, <1>9 DEF Next, Completion

\* "Prefer freshest updates": the newest event the connection accepted waits in
\* the outbox or was handed to the socket, for every size of the outbox from two.
THEOREM LinkKeepsNewest == Spec => []NewestKept
<1>1. Init => NewestInv(link, got)
  <2>1. <<>> \in Seq(Nat)
    OBVIOUS
  <2> QED
    BY SMTT(30), <2>1 DEF Init, Idle, NewestInv
<1>2. LinkInv /\ NewestInv(link, got) => NewestKept
  <2> SUFFICES ASSUME LinkInv, NewestInv(link, got), link.newest # 0
               PROVE  link.newest \in Range(link.outbox) \cup Range(got)
    BY DEF NewestKept
  <2>1. link.outbox \in Seq(Nat)
    BY DEF LinkInv, Typed
  <2>2. link.outbox # <<>> => Len(link.outbox) \in DOMAIN link.outbox
    BY <2>1
  <2> QED
    BY <2>2 DEF NewestInv, Range
<1> QED
  BY <1>1, <1>2, InitInv, NextStep, NewestStep, PTL DEF Spec

=============================================================================
