-------------------------- MODULE SignalServerProofs --------------------------
(***************************************************************************)
(* Proofs about SignalServer, for every number of clients, crosses and       *)
(* failures and every cap: one write at a time per session, crosses in order *)
(* to every client, no outbox left behind by the write loop, and the caps on *)
(* sessions.                                                                 *)
(***************************************************************************)
EXTENDS SignalServer, Induction

\* An outbox in rising order, and W, what is being written, older than all but
\* the front.
OutboxOK(o, W) ==
  /\ o \in Seq(Nat) /\ W \subseteq Nat
  /\ \A i, j \in 1 .. Len(o) : i < j => o[i] < o[j]
  /\ \A x \in W, i \in 2 .. Len(o) : x < o[i]

\* A message newer than all others goes to the end.
LEMMA PutLast ==
  ASSUME NEW o, NEW W, OutboxOK(o, W), NEW m \in Nat, \A k \in Range(o) \cup W : k < m
  PROVE  LET p == Append(o, m) IN OutboxOK(p, W) /\ p # <<>> /\ Range(p) = Range(o) \cup {m}
<1> DEFINE p == Append(o, m)
<1>1. Len(o) \in Nat /\ DOMAIN o = 1 .. Len(o) /\ \A i \in 1 .. Len(o) : o[i] \in Nat /\ o[i] \in Range(o)
  BY DEF OutboxOK, Range
<1>2. /\ p \in Seq(Nat) /\ Len(p) = Len(o) + 1 /\ p # <<>> /\ DOMAIN p = 1 .. Len(o) + 1
      /\ \A i \in 1 .. Len(o) : p[i] = o[i]
      /\ p[Len(o) + 1] = m
  BY AppendProperties DEF OutboxOK
<1> HIDE DEF p
<1>3. \A i \in 1 .. Len(p) : i \in 1 .. Len(o) \/ i = Len(o) + 1
  BY <1>1, <1>2
<1>4. ASSUME NEW i \in 1 .. Len(p), NEW j \in 1 .. Len(p), i < j PROVE p[i] < p[j]
  <2>1. i \in 1 .. Len(o) /\ p[i] = o[i]
    BY <1>1, <1>2, <1>4
  <2>2. CASE j \in 1 .. Len(o)
    BY <1>2, <1>4, <2>1, <2>2 DEF OutboxOK
  <2>3. CASE j = Len(o) + 1
    BY <1>1, <1>2, <2>1, <2>3
  <2> QED
    BY <1>3, <2>2, <2>3
<1>5. ASSUME NEW x \in W, NEW i \in 2 .. Len(p) PROVE x < p[i]
  <2>1. CASE i = Len(o) + 1
    BY <1>2, <2>1
  <2>2. CASE i # Len(o) + 1
    <3>1. i \in 2 .. Len(o) /\ i \in 1 .. Len(o)
      BY <1>1, <1>2, <2>2
    <3> QED
      BY ZenonT(30), <1>2, <3>1 DEF OutboxOK
  <2> QED
    BY <2>1, <2>2
<1>6. Range(p) = Range(o) \cup {m}
  <2>1. \A i \in DOMAIN p : p[i] \in Range(o) \cup {m}
    BY <1>1, <1>2, <1>3
  <2>2. \A i \in DOMAIN o : o[i] \in Range(p)
    BY <1>1, <1>2 DEF Range
  <2>3. m \in Range(p)
    BY SMTT(30), <1>1, <1>2 DEF Range
  <2> QED
    BY <2>1, <2>2, <2>3 DEF Range
<1> QED
  BY SMTT(30), <1>2, <1>4, <1>5, <1>6 DEF OutboxOK, p

\* The front goes: what stays is newer than what is being written.
LEMMA DropFront ==
  ASSUME NEW o, NEW W, OutboxOK(o, W), o # <<>>
  PROVE  /\ OutboxOK(Tail(o), W) /\ Range(Tail(o)) \subseteq Range(o)
         /\ \A x \in W, k \in Range(Tail(o)) : x < k
<1>1. Len(o) \in Nat /\ Len(o) >= 1 /\ DOMAIN o = 1 .. Len(o)
  BY DEF OutboxOK
<1>2. /\ Tail(o) \in Seq(Nat) /\ Len(Tail(o)) = Len(o) - 1 /\ DOMAIN Tail(o) = 1 .. Len(o) - 1
      /\ \A i \in 1 .. Len(o) - 1 : Tail(o)[i] = o[i + 1]
  BY DEF OutboxOK
<1>3. \A i \in 1 .. Len(o) - 1 : i + 1 \in 1 .. Len(o) /\ i + 1 \in 2 .. Len(o)
  BY <1>1
<1>4. \A i, j \in 1 .. Len(Tail(o)) : i < j => Tail(o)[i] < Tail(o)[j]
  BY <1>1, <1>2, <1>3 DEF OutboxOK
<1>5. \A x \in W, i \in 1 .. Len(o) - 1 : x < Tail(o)[i]
  BY <1>2, <1>3 DEF OutboxOK
<1>6. \A x \in W, i \in 2 .. Len(Tail(o)) : x < Tail(o)[i]
  BY <1>1, <1>2, <1>5
<1>7. Range(Tail(o)) \subseteq Range(o) /\ \A x \in W, k \in Range(Tail(o)) : x < k
  BY SMTT(30), <1>1, <1>2, <1>3, <1>5 DEF Range
<1> QED
  BY <1>2, <1>4, <1>6, <1>7 DEF OutboxOK

\* The front is older than the rest, so it can be written.
LEMMA FrontFirst ==
  ASSUME NEW o, NEW W, OutboxOK(o, W), o # <<>>
  PROVE  OutboxOK(o, {Head(o)}) /\ Head(o) \in Nat /\ Head(o) \in Range(o) /\ OutboxOK(o, {})
<1>1. /\ Len(o) \in Nat /\ Len(o) >= 1 /\ DOMAIN o = 1 .. Len(o) /\ Head(o) = o[1]
      /\ \A i \in 1 .. Len(o) : o[i] \in Nat
  BY DEF OutboxOK
<1>2. 1 \in 1 .. Len(o) /\ \A i \in 2 .. Len(o) : i \in 1 .. Len(o) /\ 1 < i
  BY <1>1
<1>3. \A i \in 2 .. Len(o) : o[1] < o[i]
  BY <1>1, <1>2 DEF OutboxOK
<1> QED
  BY <1>1, <1>2, <1>3 DEF OutboxOK, Range

-----------------------------------------------------------------------------
(* The handlers waiting on a strand: numbers that rise among those of a kind. *)

Marked(q, tag) == {q[i][2] : i \in {j \in DOMAIN q : q[j][1] = tag}}

Rising(q, tag) ==
  \A i, j \in DOMAIN q : i < j /\ q[i][1] = tag /\ q[j][1] = tag => q[i][2] < q[j][2]

\* One more handler, of another kind or with the highest number.
LEMMA MarkedAppend ==
  ASSUME NEW S, NEW q \in Seq(S), NEW x \in S, NEW tag, Rising(q, tag),
         x[1] = tag => \A m \in Marked(q, tag) : m < x[2]
  PROVE  LET p == Append(q, x)
         IN  /\ p \in Seq(S) /\ Rising(p, tag)
             /\ x[1] = tag => Marked(p, tag) = Marked(q, tag) \cup {x[2]}
             /\ x[1] # tag => Marked(p, tag) = Marked(q, tag)
<1> DEFINE p == Append(q, x)
<1>1. Len(q) \in Nat /\ DOMAIN q = 1 .. Len(q)
  BY LenProperties
<1>2. /\ p \in Seq(S) /\ DOMAIN p = 1 .. Len(q) + 1
      /\ \A i \in 1 .. Len(q) : p[i] = q[i]
      /\ p[Len(q) + 1] = x
  BY AppendProperties, LenProperties
<1> HIDE DEF p
<1>3. \A i \in DOMAIN p : i \in DOMAIN q \/ i = Len(q) + 1
  BY <1>1, <1>2
<1>4. ASSUME NEW i \in DOMAIN p, NEW j \in DOMAIN p, i < j, p[i][1] = tag, p[j][1] = tag
      PROVE  p[i][2] < p[j][2]
  <2>1. i \in DOMAIN q /\ p[i] = q[i]
    BY <1>1, <1>2, <1>4
  <2>2. CASE j \in DOMAIN q
    BY <1>1, <1>2, <1>4, <2>1, <2>2 DEF Rising
  <2>3. CASE j = Len(q) + 1
    BY <1>1, <1>2, <1>4, <2>1, <2>3 DEF Marked
  <2> QED
    BY <1>3, <2>2, <2>3
<1>5. x[1] = tag => Marked(p, tag) = Marked(q, tag) \cup {x[2]}
  BY <1>1, <1>2, <1>3 DEF Marked
<1>6. x[1] # tag => Marked(p, tag) = Marked(q, tag)
  BY <1>1, <1>2, <1>3 DEF Marked
<1> QED
  BY <1>2, <1>4, <1>5, <1>6 DEF Rising, p

\* The first handler runs: those left have higher numbers.
LEMMA MarkedTail ==
  ASSUME NEW S, NEW q \in Seq(S), q # <<>>, NEW tag, Rising(q, tag)
  PROVE  /\ Tail(q) \in Seq(S) /\ Head(q) \in S /\ Rising(Tail(q), tag)
         /\ Marked(Tail(q), tag) \subseteq Marked(q, tag)
         /\ Head(q)[1] = tag => /\ Head(q)[2] \in Marked(q, tag)
                                /\ \A m \in Marked(Tail(q), tag) : Head(q)[2] < m
<1>1. Len(q) \in Nat /\ Len(q) >= 1 /\ DOMAIN q = 1 .. Len(q) /\ Head(q) = q[1] /\ Head(q) \in S
  BY LenProperties, ElementOfSeq
<1>2. /\ Tail(q) \in Seq(S) /\ DOMAIN Tail(q) = 1 .. Len(q) - 1
      /\ \A i \in 1 .. Len(q) - 1 : Tail(q)[i] = q[i + 1]
  BY HeadTailProperties, LenProperties
<1>3. \A i \in 1 .. Len(q) - 1 : i + 1 \in DOMAIN q /\ 1 < i + 1 /\ 1 \in DOMAIN q
  BY <1>1
<1>4. Rising(Tail(q), tag)
  <2> SUFFICES ASSUME NEW i \in DOMAIN Tail(q), NEW j \in DOMAIN Tail(q), i < j,
                      Tail(q)[i][1] = tag, Tail(q)[j][1] = tag
               PROVE  Tail(q)[i][2] < Tail(q)[j][2]
    BY DEF Rising
  <2>1. /\ Tail(q)[i] = q[i + 1] /\ Tail(q)[j] = q[j + 1]
        /\ i + 1 \in DOMAIN q /\ j + 1 \in DOMAIN q /\ i + 1 < j + 1
    BY <1>2, <1>3
  <2> QED
    BY <2>1 DEF Rising
<1>5. Marked(Tail(q), tag) \subseteq Marked(q, tag)
  BY <1>2, <1>3 DEF Marked
<1>6. ASSUME q[1][1] = tag, NEW m \in Marked(Tail(q), tag) PROVE q[1][2] < m
  <2>1. PICK i \in DOMAIN Tail(q) : Tail(q)[i][1] = tag /\ m = Tail(q)[i][2]
    BY DEF Marked
  <2> QED
    BY <1>2, <1>3, <1>6, <2>1 DEF Rising
<1>7. q[1][1] = tag => q[1][2] \in Marked(q, tag)
  BY <1>1 DEF Marked
<1> QED
  BY <1>1, <1>2, <1>4, <1>5, <1>6, <1>7

-----------------------------------------------------------------------------
(* A session.                                                               *)

Fields == {"link", "op", "posted", "outbox", "writing", "wire", "early", "got"}
Write == [msg : Nat, open : BOOLEAN, freed : BOOLEAN]
Posts == {<<"close">>} \cup {<<"send", m>> : m \in Nat}

OnWire(s) == {s.wire[i].msg : i \in DOMAIN s.wire}
Held(s) == Range(s.outbox) \cup OnWire(s)

\* The write loop of a session.
QueueInv(s) ==
  /\ DOMAIN s = Fields /\ s.wire \in Seq(Write) /\ OutboxOK(s.outbox, OnWire(s))
  /\ Len(s.wire) <= 1
  /\ s.writing <=> s.wire # <<>>
  /\ s.writing => s.outbox # <<>>

\* do_write_ puts the front on an idle wire.
LEMMA DoWriteFacts ==
  ASSUME NEW s, DOMAIN s = Fields, NEW W, OutboxOK(s.outbox, W), s.outbox # <<>>, s.wire = <<>>
  PROVE  LET t == DoWrite(s)
         IN  QueueInv(t) /\ Held(t) = Range(s.outbox) /\ t.posted = s.posted /\ t.got = s.got
<1> DEFINE w == [msg |-> Head(s.outbox), open |-> s.link = "open", freed |-> FALSE]
           t == DoWrite(s)
<1>1. OutboxOK(s.outbox, {Head(s.outbox)}) /\ Head(s.outbox) \in Nat /\ Head(s.outbox) \in Range(s.outbox)
  BY ZenonT(30), FrontFirst
<1>2. w \in Write /\ w.msg = Head(s.outbox) /\ Append(s.wire, w) = <<w>> /\ <<w>> \in Seq(Write)
  BY <1>1 DEF Write
<1>3. /\ DOMAIN t = Fields /\ t.wire = Append(s.wire, w) /\ t.outbox = s.outbox
      /\ t.writing = TRUE /\ t.posted = s.posted /\ t.got = s.got
  BY ZenonT(30) DEF DoWrite, Fields
<1> HIDE DEF w, t
<1>4. t.wire = <<w>> /\ Len(t.wire) = 1 /\ t.wire # <<>> /\ DOMAIN t.wire = {1} /\ t.wire[1] = w
  BY <1>2, <1>3
<1>5. OnWire(t) = {Head(s.outbox)}
  BY <1>2, <1>4 DEF OnWire
<1>6. QueueInv(t)
  BY <1>1, <1>2, <1>3, <1>4, <1>5 DEF QueueInv
<1> QED
  BY <1>1, <1>3, <1>5, <1>6 DEF Held, t

\* A new message is queued; the oldest may make room for it.
LEMMA QueuedFacts ==
  ASSUME NEW s, QueueInv(s), NEW m \in Nat, \A k \in Held(s) : k < m
  PROVE  LET t == Queued(s, m)
         IN  /\ QueueInv(t) /\ Held(t) \subseteq Held(s) \cup {m} /\ t.outbox # <<>>
             /\ t.posted = s.posted /\ t.got = s.got /\ t.writing = s.writing
             /\ t.wire = <<>> <=> s.wire = <<>>
<1> DEFINE r == Evicted(s)
           t == Queued(s, m)
           v == [i \in DOMAIN s.wire |-> [s.wire[i] EXCEPT !.freed = TRUE]]
<1>1. /\ v \in Seq(Write) /\ Len(v) = Len(s.wire) /\ DOMAIN v = DOMAIN s.wire
      /\ \A i \in DOMAIN v : v[i].msg = s.wire[i].msg
  <2>1. s.wire \in Seq(Write) /\ DOMAIN s.wire = 1 .. Len(s.wire) /\ Len(s.wire) \in Nat
    BY DEF QueueInv
  <2>2. ASSUME NEW i \in DOMAIN s.wire
        PROVE  /\ [s.wire[i] EXCEPT !.freed = TRUE] \in Write
               /\ [s.wire[i] EXCEPT !.freed = TRUE].msg = s.wire[i].msg
    <3>1. s.wire[i] \in Write
      BY <2>1
    <3> QED
      BY ZenonT(30), <3>1 DEF Write
  <2>3. v \in [1 .. Len(s.wire) -> Write]
    BY <2>1, <2>2
  <2> QED
    BY <2>1, <2>2, <2>3
<1>3. /\ DOMAIN r = Fields /\ r.posted = s.posted /\ r.got = s.got /\ r.writing = s.writing
      /\ \/ r.outbox = s.outbox /\ r.wire = s.wire
         \/ s.outbox # <<>> /\ r.outbox = Tail(s.outbox) /\ r.wire = v
  <2>1. DOMAIN s = Fields /\ s.outbox \in Seq(Nat)
    BY DEF QueueInv, OutboxOK
  <2>2. CASE Len(s.outbox) < kMaxOutbox
    BY <2>1, <2>2 DEF Evicted
  <2>3. CASE ~ (Len(s.outbox) < kMaxOutbox)
    <3>1. s.outbox # <<>>
      BY <2>1, <2>3, SignalAssumption
    <3> HIDE DEF v
    <3>2. /\ r = [s EXCEPT !.outbox = Tail(s.outbox), !.wire = v]
      BY <2>3 DEF Evicted, v
    <3> QED
      BY <2>1, <3>1, <3>2 DEF Fields
  <2> QED
    BY <2>2, <2>3
<1> HIDE DEF v
<1>4. v = <<>> <=> s.wire = <<>>
  BY <1>1 DEF QueueInv
<1>5. {v[i].msg : i \in DOMAIN v} = OnWire(s)
  BY <1>1 DEF OnWire
<1>6. /\ r.wire \in Seq(Write) /\ Len(r.wire) <= 1 /\ (r.wire = <<>> <=> s.wire = <<>>)
      /\ OnWire(r) = OnWire(s)
  BY <1>1, <1>3, <1>4, <1>5 DEF QueueInv, OnWire
<1>7. OutboxOK(r.outbox, OnWire(s)) /\ Range(r.outbox) \subseteq Range(s.outbox)
  BY <1>3, DropFront DEF QueueInv
<1> HIDE DEF r
<1>8. /\ DOMAIN t = Fields /\ t.outbox = Append(r.outbox, m) /\ t.wire = r.wire
      /\ t.posted = r.posted /\ t.got = r.got /\ t.writing = r.writing
  BY <1>3 DEF Queued, Fields, r
<1> HIDE DEF t
<1>9. /\ OutboxOK(t.outbox, OnWire(s)) /\ t.outbox # <<>>
      /\ Range(t.outbox) = Range(r.outbox) \cup {m}
  <2>1. \A k \in Range(r.outbox) \cup OnWire(s) : k < m
    BY <1>7 DEF Held
  <2> QED
    BY <1>7, <1>8, <2>1, PutLast
<1>10. OnWire(t) = OnWire(s)
  BY ZenonT(30), <1>6, <1>8 DEF OnWire
<1>11. QueueInv(t)
  BY <1>3, <1>6, <1>8, <1>9, <1>10 DEF QueueInv
<1>12. Held(t) \subseteq Held(s) \cup {m}
  BY <1>7, <1>9, <1>10 DEF Held
<1> QED
  BY <1>3, <1>6, <1>8, <1>9, <1>11, <1>12 DEF t

\* send(m): queued, and written if nothing else is.
LEMMA SendFacts ==
  ASSUME NEW s, QueueInv(s), NEW m \in Nat, \A k \in Held(s) : k < m
  PROVE  LET t == Send(s, m)
         IN  QueueInv(t) /\ Held(t) \subseteq Held(s) \cup {m} /\ t.posted = s.posted /\ t.got = s.got
<1> DEFINE q == Queued(s, m)
<1>1. /\ QueueInv(q) /\ Held(q) \subseteq Held(s) \cup {m} /\ q.outbox # <<>>
      /\ q.posted = s.posted /\ q.got = s.got /\ (q.wire = <<>> <=> s.wire = <<>>)
  BY QueuedFacts
<1> HIDE DEF q
<1>2. CASE s.writing
  BY <1>1, <1>2 DEF Send, q
<1>3. CASE ~ s.writing
  <2>1. q.wire = <<>>
    BY <1>1, <1>3 DEF QueueInv
  <2>2. QueueInv(DoWrite(q)) /\ Held(DoWrite(q)) = Range(q.outbox) /\ DoWrite(q).posted = q.posted
        /\ DoWrite(q).got = q.got
    BY ZenonT(30), <1>1, <2>1, DoWriteFacts DEF QueueInv
  <2>3. Range(q.outbox) \subseteq Held(q)
    BY DEF Held
  <2> QED
    BY <1>1, <1>3, <2>2, <2>3 DEF Send, q
<1> QED
  BY <1>2, <1>3

\* A positive length of at most one.
LEMMA OnlyOne == \A k \in Nat \ {0} : k <= 1 => k = 1
OBVIOUS

\* The wire after its write has ended.
LEMMA WireIdle ==
  ASSUME NEW s, QueueInv(s), s.wire # <<>>
  PROVE  /\ Tail(s.wire) = <<>> /\ s.outbox # <<>>
         /\ Head(s.wire).msg \in OnWire(s) /\ Head(s.wire).msg \in Nat
<1>1. s.wire \in Seq(Write) /\ Len(s.wire) \in Nat \ {0} /\ Len(s.wire) <= 1
  BY EmptySeq DEF QueueInv
<1>2. Len(s.wire) = 1
  BY ZenonT(30), <1>1, OnlyOne
<1>3. Tail(s.wire) \in Seq(Write) /\ Len(Tail(s.wire)) = 0
  BY <1>1, <1>2, HeadTailProperties
<1>4. Tail(s.wire) = <<>>
  BY ZenonT(30), <1>3, EmptySeq
<1>5. Head(s.wire) = s.wire[1] /\ 1 \in DOMAIN s.wire
  BY <1>1, <1>2
<1>6. OnWire(s) \subseteq Nat
  BY DEF QueueInv, OutboxOK
<1> QED
  BY <1>4, <1>5, <1>6 DEF OnWire, QueueInv

\* A write that succeeds: what stays is newer than what was written.
LEMMA WrittenFacts ==
  ASSUME NEW s, QueueInv(s), s.wire # <<>>, NEW sent
  PROVE  LET t == Written(s, sent)
         IN  /\ QueueInv(t) /\ t.posted = s.posted /\ t.got = Append(s.got, sent)
             /\ Held(t) \subseteq {k \in Held(s) : k > Head(s.wire).msg}
<1> DEFINE d == [s EXCEPT !.got = Append(@, sent), !.wire = Tail(@), !.outbox = Tail(@)]
           t == Written(s, sent)
           n == Head(s.wire).msg
<1>1. Tail(s.wire) = <<>> /\ s.outbox # <<>> /\ n \in OnWire(s) /\ n \in Nat
  BY WireIdle
<1>2. /\ OutboxOK(Tail(s.outbox), OnWire(s)) /\ Range(Tail(s.outbox)) \subseteq Range(s.outbox)
      /\ \A k \in Range(Tail(s.outbox)) : n < k
  BY ZenonT(30), <1>1, DropFront DEF QueueInv
<1>3. /\ DOMAIN d = Fields /\ d.wire = Tail(s.wire) /\ d.outbox = Tail(s.outbox)
      /\ d.posted = s.posted /\ d.got = Append(s.got, sent)
  BY DEF QueueInv, Fields
<1>4. t = IF d.outbox # <<>> THEN DoWrite(d) ELSE [d EXCEPT !.writing = FALSE]
  BY DEF Written
<1> HIDE DEF d, t, n
<1>5. ASSUME NEW k \in Range(d.outbox) PROVE k \in Held(s) /\ k > n
  <2>1. k \in Range(Tail(s.outbox)) /\ k \in Range(s.outbox) /\ n < k
    BY <1>2, <1>3
  <2>2. k \in Nat
    BY SMTT(30), <1>2, <2>1 DEF OutboxOK, Range
  <2> QED
    BY <1>1, <2>1, <2>2 DEF Held
<1>6. CASE d.outbox # <<>>
  <2>1. /\ QueueInv(DoWrite(d)) /\ Held(DoWrite(d)) = Range(d.outbox)
        /\ DoWrite(d).posted = d.posted /\ DoWrite(d).got = d.got
    BY ZenonT(30), <1>1, <1>2, <1>3, <1>6, DoWriteFacts
  <2> QED
    BY <1>3, <1>4, <1>5, <1>6, <2>1 DEF t, n
<1>7. CASE d.outbox = <<>>
  <2>1. t = [d EXCEPT !.writing = FALSE]
    BY <1>4, <1>7
  <2>2. /\ DOMAIN t = Fields /\ t.wire = d.wire /\ t.outbox = d.outbox
        /\ t.writing = FALSE /\ t.posted = d.posted /\ t.got = d.got
    BY <1>3, <2>1 DEF Fields
  <2>3. t.wire = <<>> /\ t.outbox = <<>> /\ t.wire \in Seq(Write) /\ Len(t.wire) = 0
    <3>1. t.wire = <<>> /\ t.outbox = <<>>
      BY <1>1, <1>3, <1>7, <2>2
    <3> QED
      BY <3>1, EmptySeq
  <2>4. OnWire(t) = {} /\ Range(t.outbox) = {}
    BY <2>3 DEF OnWire, Range
  <2>5. OutboxOK(t.outbox, OnWire(t))
    BY <2>3, <2>4 DEF OutboxOK
  <2> QED
    BY <1>3, <2>2, <2>3, <2>4, <2>5 DEF QueueInv, Held, t, n
<1> QED
  BY <1>6, <1>7

\* A write that fails: the outbox stays.
LEMMA WriteFailedFacts ==
  ASSUME NEW s, QueueInv(s), s.wire # <<>>
  PROVE  LET t == WriteFailed(s)
         IN  QueueInv(t) /\ t.posted = s.posted /\ t.got = s.got /\ Held(t) \subseteq Held(s)
<1> DEFINE t == WriteFailed(s)
<1>1. Tail(s.wire) = <<>>
  BY WireIdle
<1>2. /\ DOMAIN t = Fields /\ t.wire = Tail(s.wire) /\ t.outbox = s.outbox
      /\ t.writing = FALSE /\ t.posted = s.posted /\ t.got = s.got
  BY DEF WriteFailed, QueueInv, Fields
<1> HIDE DEF t
<1>3. t.wire = <<>> /\ t.wire \in Seq(Write) /\ Len(t.wire) = 0
  <2>1. t.wire = <<>>
    BY <1>1, <1>2
  <2> QED
    BY <2>1, EmptySeq
<1>4. OnWire(t) = {}
  BY <1>3 DEF OnWire
<1>5. OutboxOK(t.outbox, OnWire(t))
  BY <1>2, <1>4 DEF QueueInv, OutboxOK
<1> QED
  BY <1>2, <1>3, <1>4, <1>5 DEF QueueInv, Held, t

-----------------------------------------------------------------------------
(* The server: what waits on strand_ is newer than what a session holds, and *)
(* that newer than what its client got.                                      *)

Tasks ==
  {<<"stop">>} \cup {<<"accept", c>> : c \in Clients} \cup {<<"broadcast", m>> : m \in Nat}

Ahead == Marked(tasks, "broadcast")

Pending(s) == Held(s) \cup Marked(s.posted, "send")

Ordered(g) ==
  \A i, j \in DOMAIN g : i < j /\ g[i] # Garbage /\ g[j] # Garbage => g[i] < g[j]

SessInv(s) ==
  /\ QueueInv(s) /\ s.posted \in Seq(Posts) /\ Rising(s.posted, "send")
  /\ \A k \in Held(s), m \in Marked(s.posted, "send") : k < m
  /\ s.got \in Seq(Nat) /\ Ordered(s.got) /\ \A g \in Range(s.got), k \in Pending(s) : g < k

\* s fits between what was broadcast and what is still to be forwarded.
Fits(s) ==
  /\ \A k \in Pending(s) : k \in 1 .. signals /\ \A m \in Ahead : k < m
  /\ \A g \in Range(s.got) : \A m \in Ahead : g < m

ServerInv ==
  /\ signals \in Nat /\ tasks \in Seq(Tasks) /\ Rising(tasks, "broadcast")
  /\ Ahead \subseteq 1 .. signals
  /\ DOMAIN session = Clients /\ \A c \in Clients : SessInv(session[c]) /\ Fits(session[c])
  /\ \A c \in Clients : \A g \in Range(session[c].got) : g <= signals

\* A handler that is no broadcast is put on strand_.
LEMMA TaskAdded ==
  ASSUME ServerInv, NEW x \in Tasks, x[1] # "broadcast",
         tasks' = Append(tasks, x) \/ tasks' = tasks, session' = session, signals' = signals
  PROVE  ServerInv'
<1>1. tasks' \in Seq(Tasks) /\ Rising(tasks', "broadcast") /\ Ahead' = Ahead
  <2>1. CASE tasks' = tasks
    BY <2>1 DEF ServerInv, Ahead
  <2>2. CASE tasks' = Append(tasks, x)
    <3>1. /\ Append(tasks, x) \in Seq(Tasks) /\ Rising(Append(tasks, x), "broadcast")
          /\ Marked(Append(tasks, x), "broadcast") = Marked(tasks, "broadcast")
      BY MarkedAppend DEF ServerInv
    <3> QED
      BY <2>2, <3>1 DEF Ahead
  <2> QED
    BY <2>1, <2>2
<1> QED
  BY <1>1 DEF ServerInv, Fits

\* broadcast(): a new cross, newer than all.
LEMMA BroadcastStep == ASSUME ServerInv, Broadcast PROVE ServerInv'
<1> DEFINE n == signals + 1
           x == <<"broadcast", n>>
<1>1. signals' = n /\ tasks' = Append(tasks, x) /\ session' = session /\ n \in Nat /\ signals \in Nat
  BY DEF Broadcast, ServerInv
<1>2. x \in Tasks /\ x[1] = "broadcast" /\ x[2] = n
  BY <1>1 DEF Tasks
<1>3. \A m \in Ahead : m < n
  BY <1>1 DEF ServerInv
<1> HIDE DEF x
<1>4. tasks' \in Seq(Tasks) /\ Rising(tasks', "broadcast") /\ Ahead' = Ahead \cup {n}
  <2>1. tasks \in Seq(Tasks) /\ Rising(tasks, "broadcast")
    BY DEF ServerInv
  <2>2. \A m \in Marked(tasks, "broadcast") : m < x[2]
    BY <1>2, <1>3 DEF Ahead
  <2>3. /\ Append(tasks, x) \in Seq(Tasks) /\ Rising(Append(tasks, x), "broadcast")
        /\ Marked(Append(tasks, x), "broadcast") = Marked(tasks, "broadcast") \cup {x[2]}
    BY <1>2, <2>1, <2>2, MarkedAppend
  <2> QED
    BY <1>1, <1>2, <2>3 DEF Ahead
<1>5. Ahead' \subseteq 1 .. n
  BY <1>1, <1>4 DEF ServerInv
<1>6. ASSUME NEW c \in Clients PROVE Fits(session[c])' /\ \A g \in Range(session'[c].got) : g <= n
  <2>1. /\ \A k \in Pending(session[c]) : k \in 1 .. n /\ k < n /\ \A m \in Ahead : k < m
        /\ \A g \in Range(session[c].got) : g \in Nat /\ g < n /\ \A m \in Ahead : g < m
    <3>1. \A g \in Range(session[c].got) : g \in Nat
      <4>1. session[c].got \in Seq(Nat)
        BY DEF ServerInv, SessInv
      <4> QED
        BY <4>1 DEF Range
    <3>2. /\ \A k \in Pending(session[c]) : k \in 1 .. signals /\ \A m \in Ahead : k < m
          /\ \A g \in Range(session[c].got) : g <= signals /\ \A m \in Ahead : g < m
      BY DEF ServerInv, Fits
    <3> QED
      BY <1>1, <3>1, <3>2
  <2> QED
    BY <1>1, <1>4, <2>1 DEF Fits
<1> QED
  BY <1>1, <1>4, <1>5, <1>6 DEF ServerInv

\* A session's own step, which takes in nothing that was not on its way.
LEMMA SessionStep ==
  ASSUME ServerInv, NEW c \in Clients, NEW t, Step(c, t), SessInv(t),
         Pending(t) \subseteq Pending(session[c]),
         Range(t.got) \subseteq Range(session[c].got) \cup Pending(session[c]) \cup {Garbage}
  PROVE  ServerInv'
<1>1. /\ tasks' = tasks /\ signals' = signals /\ DOMAIN session' = Clients /\ session'[c] = t
      /\ \A d \in Clients : d # c => session'[d] = session[d]
  BY DEF Step, ServerInv
<1>2. Ahead' = Ahead
  BY <1>1 DEF Ahead
<1>3. Fits(t) /\ \A g \in Range(t.got) : g <= signals
  BY DEF ServerInv, Fits, Garbage
<1>4. (\A d \in Clients : SessInv(session[d]) /\ Fits(session[d]))'
  BY <1>1, <1>2, <1>3 DEF ServerInv, Fits
<1>5. (\A d \in Clients : \A g \in Range(session[d].got) : g <= signals)'
  BY <1>1, <1>3 DEF ServerInv
<1> QED
  BY <1>1, <1>2, <1>4, <1>5 DEF ServerInv

\* Sessions that differ in their connection only.
SameQueue(s, t) ==
  /\ DOMAIN t = Fields /\ t.posted = s.posted /\ t.outbox = s.outbox /\ t.writing = s.writing
  /\ t.wire = s.wire /\ t.got = s.got

\* They hold the same messages and are as good as each other.
LEMMA SameQueueFacts ==
  ASSUME NEW s, NEW t, SessInv(s), SameQueue(s, t)
  PROVE  SessInv(t) /\ Pending(t) = Pending(s) /\ t.got = s.got
<1>1. OnWire(t) = OnWire(s) /\ Held(t) = Held(s) /\ Pending(t) = Pending(s)
  BY DEF SameQueue, OnWire, Held, Pending
<1> QED
  BY <1>1 DEF SameQueue, SessInv, QueueInv

\* A handshake succeeds; a handshake or the read loop ends.
LEMMA LinkStep == ASSUME ServerInv, NEW c \in Clients, Opens(c) \/ OpEnds(c) PROVE ServerInv'
<1> DEFINE s == session[c]
<1>1. SessInv(s) /\ DOMAIN s = Fields
  BY DEF ServerInv, SessInv, QueueInv
<1>2. PICK t : Step(c, t) /\ SameQueue(s, t)
  <2> DEFINE open == [s EXCEPT !.link = "open"]
             done == [s EXCEPT !.op = FALSE, !.link = "closed"]
  <2>1. SameQueue(s, open) /\ SameQueue(s, done)
    BY <1>1 DEF SameQueue, Fields
  <2>2. Step(c, open) \/ Step(c, done)
    BY DEF Opens, OpEnds
  <2> HIDE DEF open, done
  <2> QED
    BY <2>1, <2>2
<1> HIDE DEF s
<1>3. SessInv(t) /\ Pending(t) = Pending(s) /\ t.got = s.got
  BY <1>1, <1>2, SameQueueFacts
<1> QED
  BY SMTT(30), <1>2, <1>3, SessionStep DEF s

\* A handler posted to the session runs: close() or send(m).
LEMMA PostedStep == ASSUME ServerInv, NEW c \in Clients, RunPosted(c) PROVE ServerInv'
<1> DEFINE s == session[c]
           x == Head(s.posted)
           r == [s EXCEPT !.posted = Tail(@)]
<1>1. SessInv(s) /\ DOMAIN s = Fields /\ s.posted # <<>>
  BY SMTT(30) DEF ServerInv, SessInv, QueueInv, RunPosted
<1>2. /\ Tail(s.posted) \in Seq(Posts) /\ x \in Posts /\ Rising(Tail(s.posted), "send")
      /\ Marked(Tail(s.posted), "send") \subseteq Marked(s.posted, "send")
      /\ x[1] = "send" => /\ x[2] \in Marked(s.posted, "send")
                          /\ \A m \in Marked(Tail(s.posted), "send") : x[2] < m
  BY <1>1, MarkedTail DEF SessInv
<1>3. /\ DOMAIN r = Fields /\ r.posted = Tail(s.posted) /\ r.outbox = s.outbox
      /\ r.writing = s.writing /\ r.wire = s.wire /\ r.got = s.got
  BY <1>1 DEF Fields
<1>4. Step(c, IF x[1] = "close" THEN [r EXCEPT !.link = "closed"] ELSE Send(r, x[2]))
  BY DEF RunPosted
<1> HIDE DEF s, x, r
<1>5. OnWire(r) = OnWire(s) /\ Held(r) = Held(s) /\ QueueInv(r)
  BY <1>1, <1>3 DEF OnWire, Held, SessInv, QueueInv
<1>6. /\ SessInv(r) /\ Pending(r) \subseteq Pending(s)
  BY <1>1, <1>2, <1>3, <1>5 DEF SessInv, Pending
<1>7. CASE x[1] = "close"
  <2> DEFINE t == [r EXCEPT !.link = "closed"]
  <2>1. SameQueue(r, t)
    BY <1>3 DEF SameQueue, Fields
  <2>2. Step(c, t)
    BY <1>4, <1>7
  <2> HIDE DEF t
  <2>3. SessInv(t) /\ Pending(t) = Pending(r) /\ t.got = r.got
    BY <1>6, <2>1, SameQueueFacts
  <2> QED
    BY <1>3, <1>6, <2>2, <2>3, SessionStep DEF s
<1>8. CASE x[1] # "close"
  <2> DEFINE m == x[2]
             t == Send(r, m)
  <2>1. x[1] = "send" /\ m \in Nat
    BY <1>2, <1>8 DEF Posts
  <2> HIDE DEF m
  <2>2. m \in Marked(s.posted, "send") /\ m \in Pending(s)
        /\ \A k \in Marked(Tail(s.posted), "send") : m < k
    BY <1>2, <2>1 DEF m, Pending
  <2>3. \A k \in Held(r) : k < m
    BY <1>1, <1>5, <2>2 DEF SessInv
  <2>4. QueueInv(t) /\ Held(t) \subseteq Held(r) \cup {m} /\ t.posted = r.posted /\ t.got = r.got
    BY <1>5, <2>1, <2>3, SendFacts
  <2>5. Step(c, t)
    BY SMTT(30), <1>4, <1>8 DEF m
  <2> HIDE DEF t
  <2>6. Pending(t) \subseteq Pending(s)
    BY <1>2, <1>3, <1>5, <2>2, <2>4 DEF Pending
  <2>7. SessInv(t)
    <3>1. \A k \in Held(t), l \in Marked(t.posted, "send") : k < l
      BY <1>3, <1>6, <2>2, <2>4 DEF SessInv
    <3>2. \A g \in Range(t.got), k \in Pending(t) : g < k
      BY <1>1, <1>3, <2>4, <2>6 DEF SessInv
    <3> QED
      BY <1>6, <2>4, <3>1, <3>2 DEF SessInv
  <2> QED
    BY <1>3, <2>4, <2>5, <2>6, <2>7, SessionStep DEF s
<1> QED
  BY <1>7, <1>8

\* A write ends: its message is newer than all the client got, and older than
\* all that is on its way.
LEMMA WriteStep == ASSUME ServerInv, NEW c \in Clients, WriteEnds(c) PROVE ServerInv'
<1> DEFINE s == session[c]
           n == Head(s.wire).msg
<1>1. SessInv(s) /\ QueueInv(s) /\ s.wire # <<>>
  BY SMTT(30) DEF ServerInv, SessInv, WriteEnds
<1>2. n \in Nat /\ n \in OnWire(s) /\ n \in Held(s) /\ n \in Pending(s)
  BY <1>1, WireIdle DEF Held, Pending
<1>3. \/ \E sent \in {n, Garbage} : Step(c, Written(s, sent))
      \/ Step(c, WriteFailed(s))
  BY DEF WriteEnds
<1> HIDE DEF s, n
<1>4. CASE Step(c, WriteFailed(s))
  <2> DEFINE t == WriteFailed(s)
  <2>1. QueueInv(t) /\ t.posted = s.posted /\ t.got = s.got /\ Held(t) \subseteq Held(s)
    BY <1>1, WriteFailedFacts
  <2> HIDE DEF t
  <2>2. Pending(t) \subseteq Pending(s)
    BY <2>1 DEF Pending
  <2>3. SessInv(t)
    BY <1>1, <2>1, <2>2 DEF SessInv
  <2> QED
    BY <1>4, <2>1, <2>2, <2>3, SessionStep DEF s, t
<1>5. ASSUME NEW sent \in {n, Garbage}, Step(c, Written(s, sent)) PROVE ServerInv'
  <2> DEFINE t == Written(s, sent)
  <2>1. /\ QueueInv(t) /\ t.posted = s.posted /\ t.got = Append(s.got, sent)
        /\ Held(t) \subseteq {k \in Held(s) : k > n}
    BY <1>1, WrittenFacts DEF n
  <2>2. Step(c, t)
    BY <1>5
  <2> HIDE DEF t
  <2>3. Pending(t) \subseteq Pending(s) /\ \A k \in Pending(t) : n < k
    <3>1. \A k \in Marked(s.posted, "send") : n < k
      BY SMTT(30), <1>1, <1>2 DEF SessInv
    <3>2. \A k \in Held(t) : k \in Held(s) /\ k > n /\ k \in Nat
      BY <1>1, <2>1 DEF QueueInv, OutboxOK, Held, Range
    <3> QED
      BY <1>2, <2>1, <3>1, <3>2 DEF Pending
  <2>4. sent \in Nat /\ s.got \in Seq(Nat) /\ Len(s.got) \in Nat /\ DOMAIN s.got = 1 .. Len(s.got)
    BY <1>1, <1>2 DEF SessInv, Garbage
  <2>5. /\ t.got \in Seq(Nat) /\ DOMAIN t.got = 1 .. Len(s.got) + 1
        /\ \A i \in 1 .. Len(s.got) : t.got[i] = s.got[i]
        /\ t.got[Len(s.got) + 1] = sent
    BY <2>1, <2>4, AppendProperties, LenProperties
  <2>6. \A i \in DOMAIN t.got : i \in DOMAIN s.got \/ i = Len(s.got) + 1
    BY <2>4, <2>5
  <2>7. \A i \in DOMAIN s.got : s.got[i] \in Range(s.got) /\ s.got[i] < n /\ s.got[i] \in Nat
    BY <1>1, <1>2, <2>4 DEF SessInv, Range
  <2>8. Ordered(t.got)
    <3> SUFFICES ASSUME NEW i \in DOMAIN t.got, NEW j \in DOMAIN t.got, i < j,
                        t.got[i] # Garbage, t.got[j] # Garbage
                 PROVE  t.got[i] < t.got[j]
      BY DEF Ordered
    <3>1. i \in DOMAIN s.got /\ t.got[i] = s.got[i]
      <4>1. i \in 1 .. Len(s.got) + 1 /\ j \in 1 .. Len(s.got) + 1
        BY <2>5
      <4>2. i \in 1 .. Len(s.got)
        BY <2>4, <4>1
      <4> QED
        BY ZenonT(30), <2>4, <2>5, <4>2
    <3>2. CASE j \in DOMAIN s.got
      BY ZenonT(30), <1>1, <2>4, <2>5, <3>1, <3>2 DEF SessInv, Ordered
    <3>3. CASE j = Len(s.got) + 1
      BY SMTT(30), <2>5, <2>7, <3>1, <3>3
    <3> QED
      BY <2>6, <3>2, <3>3
  <2>9. Range(t.got) \subseteq Range(s.got) \cup {sent}
    BY ZenonT(30), <2>4, <2>5, <2>6 DEF Range
  <2>10. \A g \in Range(t.got), k \in Pending(t) : g < k
    <3>1. \A g \in Range(s.got), k \in Pending(t) : g < k
      BY <1>1, <2>3 DEF SessInv
    <3>2. \A k \in Pending(t) : sent < k
      <4>1. \A k \in Pending(t) : k \in Nat /\ n < k
        BY SMTT(30), <2>3 DEF ServerInv, Fits, s
      <4> QED
        BY <1>2, <4>1 DEF Garbage
    <3> QED
      BY <2>9, <3>1, <3>2
  <2>11. SessInv(t)
    <3>1. \A k \in Held(t), m \in Marked(t.posted, "send") : k < m
      BY <1>1, <2>1 DEF SessInv
    <3> QED
      BY <1>1, <2>1, <2>5, <2>8, <2>10, <3>1 DEF SessInv
  <2> QED
    BY SMTT(30), <1>2, <2>2, <2>3, <2>9, <2>11, SessionStep DEF s
<1> QED
  BY SMTT(30), <1>3, <1>4, <1>5

-----------------------------------------------------------------------------
(* strand_.                                                                 *)

\* The accept handler: the new session's connection, or a refusal.
LEMMA AcceptStep ==
  ASSUME ServerInv, NEW c \in Clients, tasks # <<>>, tasks' = Tail(tasks), signals' = signals, Accept(c)
  PROVE  ServerInv'
<1> DEFINE s == session[c]
           shut == [s EXCEPT !.link = "closed"]
           open == [s EXCEPT !.link = "handshake", !.op = TRUE]
<1>1. SessInv(s) /\ Fits(s) /\ DOMAIN s = Fields /\ DOMAIN session = Clients
  BY DEF ServerInv, SessInv, QueueInv
<1>2. SameQueue(s, shut) /\ SameQueue(s, open)
  BY <1>1 DEF SameQueue, Fields
<1>3. session' = [session EXCEPT ![c] = shut] \/ session' = [session EXCEPT ![c] = open]
  BY ZenonT(30) DEF Accept
<1> HIDE DEF shut, open
<1>4. PICK t : SameQueue(s, t) /\ session' = [session EXCEPT ![c] = t]
  BY <1>2, <1>3
<1> HIDE DEF s
<1>5. SessInv(t) /\ Pending(t) = Pending(s) /\ t.got = s.got
  BY <1>1, <1>4, SameQueueFacts
<1>6. /\ DOMAIN session' = Clients /\ session'[c] = t
      /\ \A d \in Clients : d # c => session'[d] = session[d]
  BY <1>1, <1>4
<1>7. tasks' \in Seq(Tasks) /\ Rising(tasks', "broadcast") /\ Ahead' \subseteq Ahead
  BY SMTT(30), MarkedTail DEF ServerInv, Ahead
<1>8. \A d \in Clients : /\ SessInv(session'[d]) /\ Pending(session'[d]) = Pending(session[d])
                        /\ session'[d].got = session[d].got
  BY <1>5, <1>6 DEF ServerInv, s
<1>9. (\A d \in Clients : Fits(session[d]))'
  BY <1>7, <1>8 DEF ServerInv, Fits
<1> QED
  BY SMTT(30), <1>6, <1>7, <1>8, <1>9 DEF ServerInv

\* A handler is posted to every live session, with the cross that was next if
\* it is a send.
LEMMA PostStep ==
  ASSUME ServerInv, tasks # <<>>, tasks' = Tail(tasks), signals' = signals,
         NEW x \in Posts, Post(x),
         x[1] = "send" => Head(tasks)[1] = "broadcast" /\ x[2] = Head(tasks)[2]
  PROVE  ServerInv'
<1>1. /\ tasks' \in Seq(Tasks) /\ Rising(tasks', "broadcast") /\ Ahead' \subseteq Ahead
      /\ x[1] = "send" => x[2] \in Ahead /\ \A m \in Ahead' : x[2] < m
  BY MarkedTail DEF ServerInv, Ahead
<1>2. /\ DOMAIN session' = Clients
      /\ \A c \in Clients : \/ session'[c] = session[c]
                            \/ session'[c] = [session[c] EXCEPT !.posted = Append(session[c].posted, x)]
  BY DEF Post
<1>3. ASSUME NEW c \in Clients
      PROVE  /\ SessInv(session'[c]) /\ session'[c].got = session[c].got
             /\ Pending(session'[c]) \subseteq
                  Pending(session[c]) \cup (IF x[1] = "send" THEN {x[2]} ELSE {})
  <2> DEFINE s == session[c]
             t == [s EXCEPT !.posted = Append(s.posted, x)]
  <2>1. SessInv(s) /\ Fits(s) /\ DOMAIN s = Fields
    BY DEF ServerInv, SessInv, QueueInv
  <2>2. /\ DOMAIN t = Fields /\ t.posted = Append(s.posted, x) /\ t.outbox = s.outbox
        /\ t.writing = s.writing /\ t.wire = s.wire /\ t.got = s.got
    BY SMTT(30), <2>1 DEF Fields
  <2>3. CASE session'[c] = s
    BY <2>1, <2>3
  <2>4. CASE session'[c] = t
    <3> HIDE DEF s, t
    <3>1. OnWire(t) = OnWire(s) /\ Held(t) = Held(s) /\ QueueInv(t)
      BY SMTT(30), <2>1, <2>2 DEF OnWire, Held, SessInv, QueueInv
    <3>2. x[1] = "send" => \A k \in Pending(s) : k < x[2]
      BY SMTT(30), <1>1, <2>1 DEF Fits
    <3>3. /\ t.posted \in Seq(Posts) /\ Rising(t.posted, "send")
          /\ Marked(t.posted, "send") =
               Marked(s.posted, "send") \cup (IF x[1] = "send" THEN {x[2]} ELSE {})
      <4>1. s.posted \in Seq(Posts) /\ Rising(s.posted, "send")
        BY <2>1 DEF SessInv
      <4>2. x[1] = "send" => \A m \in Marked(s.posted, "send") : m < x[2]
        BY <3>2 DEF Pending
      <4> QED
        BY <2>2, <4>1, <4>2, MarkedAppend
    <3>4. Pending(t) = Pending(s) \cup (IF x[1] = "send" THEN {x[2]} ELSE {})
      BY <3>1, <3>3 DEF Pending
    <3>5. \A k \in Held(t), m \in Marked(t.posted, "send") : k < m
      <4>1. \A k \in Held(s), m \in Marked(s.posted, "send") : k < m
        BY <2>1 DEF SessInv
      <4>2. x[1] = "send" => \A k \in Held(s) : k < x[2]
        BY SMTT(30), <3>2 DEF Pending
      <4> QED
        BY <3>1, <3>3, <4>1, <4>2
    <3>6. \A g \in Range(t.got), k \in Pending(t) : g < k
      <4>1. x[1] = "send" => \A g \in Range(s.got) : g < x[2]
        BY <1>1, <2>1 DEF Fits
      <4>2. \A g \in Range(s.got), k \in Pending(s) : g < k
        BY SMTT(30), <2>1 DEF SessInv
      <4> QED
        BY <2>2, <3>4, <4>1, <4>2
    <3>7. SessInv(t)
      BY SMTT(30), <2>1, <2>2, <3>1, <3>3, <3>5, <3>6 DEF SessInv
    <3> QED
      BY SMTT(30), <2>2, <2>4, <3>4, <3>7 DEF s
  <2> HIDE DEF t
  <2> QED
    <3>1. session'[c] = s \/ session'[c] = t
      BY ZenonT(30), <1>2 DEF t
    <3> QED
      BY ZenonT(30), <2>3, <2>4, <3>1
<1>4. (\A c \in Clients : Fits(session[c]))'
  <2>1. x[1] = "send" => x[2] \in 1 .. signals
    BY ZenonT(30), <1>1 DEF ServerInv
  <2> QED
    BY <1>1, <1>3, <2>1 DEF ServerInv, Fits
<1> QED
  BY <1>1, <1>2, <1>3, <1>4 DEF ServerInv

\* The next handler of strand_ runs.
LEMMA TaskStep == ASSUME ServerInv, RunTask PROVE ServerInv'
<1>1. tasks # <<>> /\ tasks' = Tail(tasks) /\ signals' = signals
  BY SMTT(30) DEF RunTask
<1>2. Head(tasks) \in Tasks
  BY <1>1, MarkedTail DEF ServerInv
<1>3. CASE Head(tasks)[1] = "accept" /\ Accept(Head(tasks)[2])
  <2>1. Head(tasks)[2] \in Clients
    BY <1>2, <1>3 DEF Tasks
  <2> QED
    BY <1>1, <1>3, <2>1, AcceptStep
<1>4. CASE Head(tasks)[1] = "broadcast" /\ Forward(Head(tasks)[2])
  <2> DEFINE x == <<"send", Head(tasks)[2]>>
  <2>1. Head(tasks)[2] \in Nat
    BY <1>2, <1>4 DEF Tasks
  <2>2. x \in Posts /\ x[1] = "send" /\ x[2] = Head(tasks)[2] /\ Post(x)
    BY <1>4, <2>1 DEF Posts, Forward
  <2> HIDE DEF x
  <2> QED
    BY <1>1, <1>4, <2>2, PostStep
<1>5. CASE CloseAll
  <2>1. <<"close">> \in Posts /\ <<"close">>[1] # "send" /\ Post(<<"close">>)
    BY <1>5 DEF Posts, CloseAll
  <2> QED
    BY <1>1, <2>1, PostStep
<1> QED
  BY <1>3, <1>4, <1>5 DEF RunTask

-----------------------------------------------------------------------------
\* The invariant holds at first and every step keeps it.
LEMMA ServerInvariant == Spec => []ServerInv
<1>1. Init => ServerInv
  <2> SUFFICES ASSUME Init PROVE ServerInv
    OBVIOUS
  <2>1. tasks = <<>> /\ tasks \in Seq(Tasks) /\ Ahead = {} /\ Rising(tasks, "broadcast") /\ signals = 0
    BY EmptySeq DEF Init, Ahead, Marked, Rising
  <2>2. DOMAIN session = Clients /\ \A c \in Clients : session[c] = NoSession
    BY SMTT(30) DEF Init
  <2> DEFINE s == NoSession
  <2>3. /\ DOMAIN s = Fields /\ s.posted = <<>> /\ s.outbox = <<>> /\ s.wire = <<>> /\ s.got = <<>>
        /\ s.writing = FALSE
    BY SMTT(30) DEF NoSession, Fields
  <2> HIDE DEF s
  <2>4. OnWire(s) = {} /\ Range(s.outbox) = {} /\ Held(s) = {} /\ Range(s.got) = {}
        /\ Marked(s.posted, "send") = {} /\ Pending(s) = {}
    BY SMTT(30), <2>3 DEF OnWire, Range, Held, Marked, Pending
  <2>5. QueueInv(s)
    BY SMTT(30), <2>3, <2>4, EmptySeq DEF QueueInv, OutboxOK
  <2>6. SessInv(s)
    BY <2>3, <2>4, <2>5, EmptySeq DEF SessInv, Rising, Ordered
  <2>7. Fits(s)
    BY <2>4 DEF Fits
  <2> QED
    BY <2>1, <2>2, <2>4, <2>6, <2>7 DEF ServerInv, s
<1>2. ServerInv /\ [Next]_vars => ServerInv'
  <2> SUFFICES ASSUME ServerInv, [Next]_vars PROVE ServerInv'
    OBVIOUS
  <2>1. ASSUME NEW c \in Clients, Connect(c) PROVE ServerInv'
    <3>1. <<"accept", c>> \in Tasks /\ <<"accept", c>>[1] # "broadcast"
      BY DEF Tasks
    <3> QED
      BY <2>1, <3>1, TaskAdded DEF Connect
  <2>2. CASE AcceptFails \/ Stop \/ UNCHANGED vars
    <3>1. <<"stop">> \in Tasks /\ <<"stop">>[1] # "broadcast"
      BY DEF Tasks
    <3> QED
      BY <2>2, <3>1, TaskAdded DEF AcceptFails, Stop, vars
  <2> QED
    BY <2>1, <2>2, LinkStep, PostedStep, WriteStep, TaskStep, BroadcastStep DEF Next
<1> QED
  BY <1>1, <1>2, PTL DEF Spec

\* No session ever has two writes in flight, whatever is sent, completes or fails
\* on whichever strand.
THEOREM SessionsWriteOneAtATime == Spec => []OneWrite
<1>1. ServerInv => OneWrite
  BY SMTT(30) DEF ServerInv, SessInv, QueueInv, OneWrite
<1> QED
  BY <1>1, ServerInvariant, PTL

\* Every exec process gets the crosses in the order they were found, none twice.
THEOREM CrossesInOrder == Spec => []DeliveredInOrder
<1>1. ServerInv => DeliveredInOrder
  BY SMTT(30) DEF ServerInv, SessInv, Ordered, DeliveredInOrder
<1> QED
  BY <1>1, ServerInvariant, PTL

-----------------------------------------------------------------------------
(* The write loop of a session does not stop with work left, and the caps.  *)

\* A session that has not been accepted is untouched.  Otherwise a write that
\* was started on an open link says the link has been open; messages that wait
\* while nothing is written wait after a write that was too early, or for a link
\* that has closed; and the outbox is within its cap.
IdleInv(s) ==
  /\ s.link \in {"none", "handshake", "open", "closed"}
  /\ s.link = "none" => ~ s.op /\ s.posted = <<>> /\ s.wire = <<>> /\ s.outbox = <<>>
  /\ \A i \in DOMAIN s.wire : s.wire[i].open => s.link \in {"open", "closed"}
  /\ ~ s.writing => s.outbox = <<>> \/ s.early \/ s.link = "closed"
  /\ Len(s.outbox) <= kMaxOutbox

\* An accept handler that waits is the only one of its client, which has no
\* session yet.
AcceptInv ==
  \A i \in DOMAIN tasks :
    tasks[i][1] = "accept" =>
      /\ session[tasks[i][2]].link = "none"
      /\ \A j \in DOMAIN tasks : tasks[j] = tasks[i] => j = i

\* sessions_ is within its cap and, until stop() has run, holds every session
\* that is alive.
CapInv ==
  /\ sessions \in Seq(Clients) /\ Len(sessions) <= kMaxSessions /\ stopped \in BOOLEAN
  /\ ~ stopped => /\ \A i \in DOMAIN tasks : tasks[i][1] # "stop"
                  /\ \A c \in Clients : ~ Expired(c) => c \in Range(sessions)

CapsInv == (\A c \in Clients : IdleInv(session[c])) /\ AcceptInv /\ CapInv

\* do_write_ after a message was queued.
LEMMA DoWriteIdle ==
  ASSUME NEW s, DOMAIN s = Fields, s.link \in {"handshake", "open", "closed"}, s.wire = <<>>,
         Len(s.outbox) <= kMaxOutbox
  PROVE  IdleInv(DoWrite(s)) /\ DoWrite(s).link = s.link
<1> DEFINE w == [msg |-> Head(s.outbox), open |-> s.link = "open", freed |-> FALSE]
           t == DoWrite(s)
<1>1. w.open <=> s.link = "open"
  BY ZenonT(30)
<1>2. /\ t.wire = Append(s.wire, w) /\ t.outbox = s.outbox /\ t.writing = TRUE /\ t.link = s.link
  BY ZenonT(30) DEF DoWrite, Fields
<1> HIDE DEF w, t
<1>3. Append(s.wire, w) = <<w>>
  OBVIOUS
<1>4. DOMAIN t.wire = {1} /\ t.wire[1] = w
  BY <1>2, <1>3
<1> QED
  BY <1>1, <1>2, <1>4 DEF IdleInv, t

\* Queueing a message keeps to the cap, and to which writes were started on an
\* open link.
LEMMA QueuedIdle ==
  ASSUME NEW s, QueueInv(s), IdleInv(s), NEW m \in Nat, s.link # "none"
  PROVE  LET t == Queued(s, m)
         IN  /\ t.link = s.link /\ t.writing = s.writing /\ Len(t.outbox) <= kMaxOutbox
             /\ \A i \in DOMAIN t.wire : t.wire[i].open => s.link \in {"open", "closed"}
<1> DEFINE r == Evicted(s)
           t == Queued(s, m)
           v == [i \in DOMAIN s.wire |-> [s.wire[i] EXCEPT !.freed = TRUE]]
<1>1. /\ DOMAIN s = Fields /\ s.outbox \in Seq(Nat) /\ s.wire \in Seq(Write)
      /\ Len(s.outbox) \in Nat /\ Len(s.outbox) <= kMaxOutbox /\ kMaxOutbox \in Nat \ {0}
  BY SignalAssumption DEF QueueInv, OutboxOK, IdleInv
<1>2. DOMAIN v = DOMAIN s.wire /\ \A i \in DOMAIN v : v[i].open = s.wire[i].open
  <2>1. ASSUME NEW i \in DOMAIN s.wire PROVE [s.wire[i] EXCEPT !.freed = TRUE].open = s.wire[i].open
    <3>1. s.wire[i] \in Write
      BY SMTT(30), <1>1
    <3> QED
      BY ZenonT(30), <3>1 DEF Write
  <2> QED
    BY <2>1
<1> HIDE DEF v
<1>3. /\ DOMAIN r = Fields /\ r.link = s.link /\ r.writing = s.writing
      /\ r.outbox \in Seq(Nat) /\ Len(r.outbox) + 1 <= kMaxOutbox
      /\ r.wire = s.wire \/ r.wire = v
  <2>1. CASE Len(s.outbox) < kMaxOutbox
    <3>1. r = s
      BY SMTT(30), <2>1 DEF Evicted
    <3> QED
      BY <1>1, <2>1, <3>1
  <2>2. CASE ~ (Len(s.outbox) < kMaxOutbox)
    <3>1. Len(s.outbox) = kMaxOutbox /\ s.outbox # <<>>
      BY <1>1, <2>2
    <3>2. Tail(s.outbox) \in Seq(Nat) /\ Len(Tail(s.outbox)) = Len(s.outbox) - 1
      BY <1>1, <3>1
    <3>3. r = [s EXCEPT !.outbox = Tail(s.outbox), !.wire = v]
      BY <2>2 DEF Evicted, v
    <3>4. /\ DOMAIN r = Fields /\ r.link = s.link /\ r.writing = s.writing
          /\ r.outbox = Tail(s.outbox) /\ r.wire = v
      BY <1>1, <3>3 DEF Fields
    <3> QED
      BY <1>1, <3>1, <3>2, <3>4
  <2> QED
    BY <2>1, <2>2
<1> HIDE DEF r
<1>4. /\ t.link = r.link /\ t.writing = r.writing /\ t.wire = r.wire
      /\ t.outbox = Append(r.outbox, m)
  BY <1>3 DEF Queued, Fields, r
<1>5. Len(t.outbox) = Len(r.outbox) + 1
  BY SMTT(30), <1>3, <1>4
<1> HIDE DEF t
<1>6. \A i \in DOMAIN t.wire : t.wire[i].open => s.link \in {"open", "closed"}
  BY <1>2, <1>3, <1>4 DEF IdleInv
<1> QED
  BY SMTT(30), <1>3, <1>4, <1>5, <1>6 DEF t

\* send(m).
LEMMA SendIdle ==
  ASSUME NEW s, QueueInv(s), IdleInv(s), NEW m \in Nat, s.link # "none", \A k \in Held(s) : k < m
  PROVE  IdleInv(Send(s, m)) /\ Send(s, m).link = s.link
<1> DEFINE q == Queued(s, m)
<1>1. /\ q.link = s.link /\ q.writing = s.writing /\ Len(q.outbox) <= kMaxOutbox
      /\ \A i \in DOMAIN q.wire : q.wire[i].open => s.link \in {"open", "closed"}
  BY QueuedIdle
<1>2. QueueInv(q) /\ (q.wire = <<>> <=> s.wire = <<>>)
  BY QueuedFacts
<1>3. s.link \in {"handshake", "open", "closed"}
  BY SMTT(30) DEF IdleInv
<1> HIDE DEF q
<1>4. CASE s.writing
  <2>1. Send(s, m) = q
    BY <1>4 DEF Send, q
  <2> QED
    BY ZenonT(30), <1>1, <1>3, <1>4, <2>1 DEF IdleInv
<1>5. CASE ~ s.writing
  <2>1. Send(s, m) = DoWrite(q) /\ q.wire = <<>>
    BY <1>2, <1>5 DEF Send, q, QueueInv
  <2> QED
    BY SMTT(30), <1>1, <1>2, <1>3, <2>1, DoWriteIdle DEF QueueInv
<1> QED
  BY SMTT(30), <1>4, <1>5

\* on_write_: the next message, or an empty outbox.
LEMMA WrittenIdle ==
  ASSUME NEW s, QueueInv(s), IdleInv(s), s.wire # <<>>, NEW sent
  PROVE  IdleInv(Written(s, sent)) /\ Written(s, sent).link = s.link
<1> DEFINE d == [s EXCEPT !.got = Append(@, sent), !.wire = Tail(@), !.outbox = Tail(@)]
           t == Written(s, sent)
<1>1. Tail(s.wire) = <<>> /\ s.outbox # <<>>
  BY WireIdle
<1>2. DOMAIN d = Fields /\ d.wire = Tail(s.wire) /\ d.outbox = Tail(s.outbox) /\ d.link = s.link
  BY DEF QueueInv, Fields
<1>3. t = IF d.outbox # <<>> THEN DoWrite(d) ELSE [d EXCEPT !.writing = FALSE]
  BY DEF Written
<1> HIDE DEF d, t
<1>4. Len(Tail(s.outbox)) <= kMaxOutbox
  <2>1. s.outbox \in Seq(Nat) /\ Len(s.outbox) \in Nat /\ Len(s.outbox) <= kMaxOutbox
    BY DEF QueueInv, OutboxOK, IdleInv
  <2>2. Len(Tail(s.outbox)) = Len(s.outbox) - 1
    BY <1>1, <2>1
  <2> QED
    BY SMTT(30), <2>1, <2>2, SignalAssumption
<1>5. d.link \in {"handshake", "open", "closed"} /\ d.wire = <<>> /\ Len(d.outbox) <= kMaxOutbox
  BY <1>1, <1>2, <1>4 DEF IdleInv
<1>6. CASE d.outbox # <<>>
  BY ZenonT(30), <1>2, <1>3, <1>5, <1>6, DoWriteIdle DEF t
<1>7. CASE d.outbox = <<>>
  <2>1. t.wire = d.wire /\ t.outbox = d.outbox /\ t.link = d.link
    BY ZenonT(30), <1>2, <1>3, <1>7 DEF Fields
  <2>2. DOMAIN t.wire = {}
    BY <1>5, <2>1
  <2> HIDE DEF t
  <2> QED
    BY ZenonT(30), <1>2, <1>5, <1>7, <2>1, <2>2 DEF IdleInv, t
<1> QED
  BY <1>6, <1>7

\* on_write_ with an error: too early, or the link is closed.
LEMMA WriteFailedIdle ==
  ASSUME NEW s, QueueInv(s), IdleInv(s), s.wire # <<>>
  PROVE  IdleInv(WriteFailed(s)) /\ WriteFailed(s).link # "none"
<1> DEFINE t == WriteFailed(s)
           w == Head(s.wire)
<1>1. Tail(s.wire) = <<>>
  BY WireIdle
<1>2. w.open \in BOOLEAN
  <2>1. w \in Write
    BY DEF QueueInv
  <2> QED
    BY <2>1 DEF Write
<1>3. /\ t.wire = Tail(s.wire) /\ t.outbox = s.outbox /\ t.early = ~ w.open
      /\ t.link = IF w.open THEN "closed" ELSE s.link
  BY DEF WriteFailed, QueueInv, Fields
<1>4. s.link \in {"handshake", "open", "closed"} /\ Len(s.outbox) <= kMaxOutbox
  BY DEF IdleInv
<1> HIDE DEF t, w
<1>5. DOMAIN t.wire = {}
  BY <1>1, <1>3
<1>6. t.link \in {"handshake", "open", "closed"} /\ (t.early \/ t.link = "closed")
  BY ZenonT(30), <1>2, <1>3, <1>4
<1>7. Len(t.outbox) <= kMaxOutbox
  BY <1>3, <1>4
<1>8. IdleInv(t) /\ t.link # "none"
  BY SMTT(30), <1>5, <1>6, <1>7 DEF IdleInv
<1> QED
  BY <1>8 DEF t

\* Nothing refers to the session object.
Dead(s) == ~ s.op /\ s.posted = <<>> /\ s.wire = <<>>

\* A session's own step: an object that nothing refers to stays so, and an
\* accepted client stays accepted.
LEMMA OwnStep ==
  ASSUME ServerInv, CapsInv, NEW c \in Clients, NEW t, Step(c, t), IdleInv(t),
         t.link = "none" <=> session[c].link = "none", Dead(session[c]) => Dead(t)
  PROVE  CapsInv'
<1>1. /\ tasks' = tasks /\ sessions' = sessions /\ stopped' = stopped
      /\ DOMAIN session' = Clients /\ session'[c] = t
      /\ \A d \in Clients : d # c => session'[d] = session[d]
  BY SMTT(30) DEF Step, ServerInv
<1>2. \A d \in Clients : /\ session'[d].link = "none" <=> session[d].link = "none"
                        /\ Dead(session[d]) => Dead(session'[d])
  BY <1>1
<1>3. (\A d \in Clients : IdleInv(session[d]))'
  BY SMTT(30), <1>1 DEF CapsInv
<1>4. AcceptInv'
  <2>1. \A i \in DOMAIN tasks : tasks[i][1] = "accept" => tasks[i][2] \in Clients
    BY SMTT(30) DEF ServerInv, Tasks
  <2> QED
    BY SMTT(30), <1>1, <1>2, <2>1 DEF CapsInv, AcceptInv
<1>5. CapInv'
  BY <1>1, <1>2 DEF CapsInv, CapInv, Expired, Dead
<1> QED
  BY <1>3, <1>4, <1>5 DEF CapsInv

\* A session that something refers to has been accepted.
LEMMA AliveAccepted ==
  ASSUME NEW s, IdleInv(s), ~ Dead(s)
  PROVE  s.link # "none"
BY DEF IdleInv, Dead

\* The link opens or the read loop ends.
LEMMA LinkCaps == ASSUME ServerInv, CapsInv, NEW c \in Clients, Opens(c) \/ OpEnds(c) PROVE CapsInv'
<1> DEFINE s == session[c]
           open == [s EXCEPT !.link = "open"]
           done == [s EXCEPT !.op = FALSE, !.link = "closed"]
<1>1. DOMAIN s = Fields /\ IdleInv(s) /\ s.wire \in Seq(Write)
  BY SMTT(30) DEF ServerInv, SessInv, QueueInv, CapsInv
<1>2. CASE Opens(c)
  <2>1. s.link = "handshake" /\ Step(c, open)
    BY <1>2 DEF Opens
  <2>2. /\ open.link = "open" /\ open.op = s.op /\ open.posted = s.posted /\ open.wire = s.wire
        /\ open.outbox = s.outbox /\ open.writing = s.writing /\ open.early = s.early
    BY SMTT(30), <1>1 DEF Fields
  <2> HIDE DEF s, open
  <2>3. IdleInv(open) /\ (Dead(s) => Dead(open))
    BY SMTT(30), <1>1, <2>1, <2>2 DEF IdleInv, Dead
  <2> QED
    BY <2>1, <2>2, <2>3, OwnStep DEF s
<1>3. CASE OpEnds(c)
  <2>1. s.op /\ Step(c, done)
    BY <1>3 DEF OpEnds
  <2>2. /\ done.link = "closed" /\ done.posted = s.posted /\ done.wire = s.wire
        /\ done.outbox = s.outbox
    BY SMTT(30), <1>1 DEF Fields
  <2> HIDE DEF s, done
  <2>3. IdleInv(done) /\ ~ Dead(s) /\ s.link # "none"
    BY <1>1, <2>1, <2>2 DEF IdleInv, Dead
  <2> QED
    BY <2>1, <2>2, <2>3, OwnStep DEF s
<1> QED
  BY SMTT(30), <1>2, <1>3

\* close() or send(m) runs.
LEMMA PostedCaps == ASSUME ServerInv, CapsInv, NEW c \in Clients, RunPosted(c) PROVE CapsInv'
<1> DEFINE s == session[c]
           x == Head(s.posted)
           r == [s EXCEPT !.posted = Tail(@)]
           shut == [r EXCEPT !.link = "closed"]
<1>1. SessInv(s) /\ IdleInv(s) /\ DOMAIN s = Fields /\ s.posted # <<>>
  BY DEF ServerInv, SessInv, QueueInv, RunPosted, CapsInv
<1>2. ~ Dead(s) /\ s.link # "none"
  BY SMTT(30), <1>1, AliveAccepted DEF Dead
<1>3. x[1] = "send" => x[2] \in Marked(s.posted, "send")
  BY SMTT(30), <1>1, MarkedTail DEF SessInv
<1>4. x \in Posts
  BY <1>1, MarkedTail DEF SessInv
<1>5. /\ DOMAIN r = Fields /\ r.posted = Tail(s.posted) /\ r.outbox = s.outbox /\ r.link = s.link
      /\ r.writing = s.writing /\ r.wire = s.wire /\ r.early = s.early /\ r.op = s.op
  BY <1>1 DEF Fields
<1>6. Step(c, IF x[1] = "close" THEN shut ELSE Send(r, x[2]))
  BY DEF RunPosted
<1>7. shut.link = "closed" /\ shut.wire = r.wire /\ shut.outbox = r.outbox
  BY SMTT(30), <1>5 DEF Fields
<1> HIDE DEF s, x, r, shut
<1>8. OnWire(r) = OnWire(s) /\ Held(r) = Held(s) /\ QueueInv(r)
  BY SMTT(30), <1>1, <1>5 DEF OnWire, Held, SessInv, QueueInv
<1>9. IdleInv(r)
  BY SMTT(30), <1>1, <1>2, <1>5 DEF IdleInv
<1>10. CASE x[1] = "close"
  <2>1. IdleInv(shut)
    BY SMTT(30), <1>7, <1>9 DEF IdleInv
  <2> QED
    BY SMTT(30), <1>2, <1>6, <1>7, <1>10, <2>1, OwnStep DEF s
<1>11. CASE x[1] # "close"
  <2>1. x[1] = "send" /\ x[2] \in Nat
    BY SMTT(30), <1>4, <1>11 DEF Posts
  <2>2. \A k \in Held(r) : k < x[2]
    BY <1>1, <1>3, <1>4, <1>8, <2>1 DEF SessInv
  <2>3. IdleInv(Send(r, x[2])) /\ Send(r, x[2]).link = r.link
    BY ZenonT(30), <1>2, <1>5, <1>8, <1>9, <2>1, <2>2, SendIdle
  <2> QED
    BY <1>2, <1>5, <1>6, <1>11, <2>3, OwnStep DEF s
<1> QED
  BY SMTT(30), <1>10, <1>11

\* A write ends.
LEMMA WriteCaps == ASSUME ServerInv, CapsInv, NEW c \in Clients, WriteEnds(c) PROVE CapsInv'
<1> DEFINE s == session[c]
<1>1. QueueInv(s) /\ IdleInv(s) /\ s.wire # <<>>
  BY SMTT(30) DEF ServerInv, SessInv, WriteEnds, CapsInv
<1>2. ~ Dead(s) /\ s.link # "none"
  BY SMTT(30), <1>1, AliveAccepted DEF Dead
<1>3. (\E sent : Step(c, Written(s, sent))) \/ Step(c, WriteFailed(s))
  BY SMTT(30) DEF WriteEnds
<1> HIDE DEF s
<1>4. CASE Step(c, WriteFailed(s))
  BY SMTT(30), <1>1, <1>2, <1>4, WriteFailedIdle, OwnStep DEF s
<1>5. ASSUME NEW sent, Step(c, Written(s, sent)) PROVE CapsInv'
  <2>1. IdleInv(Written(s, sent)) /\ Written(s, sent).link = s.link
    BY <1>1, WrittenIdle
  <2> QED
    BY SMTT(30), <1>2, <1>5, <2>1, OwnStep DEF s
<1> QED
  BY SMTT(30), <1>3, <1>4, <1>5

\* A handler is put on strand_: an accept for a client that has none yet, or
\* stop(), which sets stopped_.
LEMMA TaskCaps ==
  ASSUME ServerInv, CapsInv, NEW x \in Tasks, tasks' = Append(tasks, x) \/ tasks' = tasks,
         x[1] = "accept" => /\ session[x[2]].link = "none"
                            /\ \A i \in DOMAIN tasks : tasks[i] # x,
         stopped' = stopped \/ stopped', x[1] = "stop" => stopped', stopped' \in BOOLEAN,
         session' = session, sessions' = sessions
  PROVE  CapsInv'
<1>1. (\A c \in Clients : IdleInv(session[c]))'
  BY SMTT(30) DEF CapsInv
<1>2. CASE tasks' = tasks
  BY SMTT(30), <1>1, <1>2 DEF CapsInv, AcceptInv, CapInv, Expired
<1>3. CASE tasks' = Append(tasks, x)
  <2>1. tasks \in Seq(Tasks) /\ Len(tasks) \in Nat /\ DOMAIN tasks = 1 .. Len(tasks)
    BY DEF ServerInv
  <2>2. /\ DOMAIN tasks' = 1 .. Len(tasks) + 1 /\ tasks'[Len(tasks) + 1] = x
        /\ \A i \in 1 .. Len(tasks) : tasks'[i] = tasks[i]
    BY <1>3, <2>1, AppendProperties, LenProperties
  <2>3. \A i \in DOMAIN tasks' : (i \in DOMAIN tasks /\ tasks'[i] = tasks[i])
                                 \/ (i = Len(tasks) + 1 /\ tasks'[i] = x)
    BY SMTT(30), <2>1, <2>2
  <2>4. AcceptInv'
    <3> SUFFICES ASSUME NEW i \in DOMAIN tasks', tasks'[i][1] = "accept"
                 PROVE  /\ session[tasks'[i][2]].link = "none"
                        /\ \A j \in DOMAIN tasks' : tasks'[j] = tasks'[i] => j = i
      BY SMTT(30) DEF AcceptInv
    <3>1. CASE i \in DOMAIN tasks /\ tasks'[i] = tasks[i]
      BY <2>3, <3>1 DEF CapsInv, AcceptInv
    <3>2. CASE i = Len(tasks) + 1 /\ tasks'[i] = x
      BY SMTT(30), <2>3, <3>2
    <3> QED
      BY SMTT(30), <2>3, <3>1, <3>2
  <2>5. CapInv'
    <3>1. ~ stopped' => ~ stopped /\ x[1] # "stop"
      BY DEF CapsInv, CapInv
    <3> QED
      BY SMTT(30), <2>3, <3>1 DEF CapsInv, CapInv, Expired
  <2> QED
    BY <1>1, <2>4, <2>5 DEF CapsInv
<1> QED
  BY <1>2, <1>3

\* What the loops over sessions_ keep.
LEMMA AliveFacts ==
  ASSUME CapInv
  PROVE  /\ Alive \in Seq(Clients) /\ Len(Alive) \in Nat /\ Len(Alive) <= kMaxSessions
         /\ \A c \in Clients : c \in Range(Alive) <=> c \in Range(sessions) /\ ~ Expired(c)
<1> DEFINE T == {c \in Clients : ~ Expired(c)}
<1>1. sessions \in Seq(Clients) /\ Len(sessions) \in Nat /\ Len(sessions) <= kMaxSessions
  BY DEF CapInv
<1> HIDE DEF T
<1>2. /\ Keep(sessions, T) \in Seq(Clients) /\ Len(Keep(sessions, T)) <= Len(sessions)
      /\ Range(Keep(sessions, T)) = Range(sessions) \cap T
  BY ZenonT(30), <1>1, KeepFacts
<1>3. Alive = Keep(sessions, T)
  BY DEF Alive, T
<1>4. Len(Keep(sessions, T)) \in Nat
  BY <1>2
<1>5. \A c \in Clients : c \in T <=> ~ Expired(c)
  BY DEF T
<1> QED
  BY <1>1, <1>2, <1>3, <1>4, <1>5, SignalAssumption

\* The next handler of strand_ leaves the queue.
LEMMA TailCaps ==
  ASSUME ServerInv, CapsInv, tasks # <<>>, tasks' = Tail(tasks)
  PROVE  /\ Head(tasks) \in Tasks
         /\ \A i \in DOMAIN tasks' : i + 1 \in DOMAIN tasks /\ tasks'[i] = tasks[i + 1]
         /\ Head(tasks)[1] = "accept" =>
              /\ session[Head(tasks)[2]].link = "none"
              /\ \A i \in DOMAIN tasks' : tasks'[i] # Head(tasks)
         /\ ~ stopped => Head(tasks)[1] # "stop"
<1>1. /\ tasks \in Seq(Tasks) /\ Len(tasks) \in Nat /\ Len(tasks) >= 1 /\ DOMAIN tasks = 1 .. Len(tasks)
      /\ Head(tasks) = tasks[1] /\ Head(tasks) \in Tasks
  BY LenProperties, ElementOfSeq DEF ServerInv
<1>2. DOMAIN tasks' = 1 .. Len(tasks) - 1 /\ \A i \in 1 .. Len(tasks) - 1 : tasks'[i] = tasks[i + 1]
  BY <1>1, HeadTailProperties, LenProperties
<1>3. \A i \in DOMAIN tasks' : i + 1 \in DOMAIN tasks /\ tasks'[i] = tasks[i + 1] /\ i + 1 # 1
  BY <1>1, <1>2
<1>4. 1 \in DOMAIN tasks
  BY SMTT(30), <1>1
<1> QED
  BY <1>1, <1>3, <1>4 DEF CapsInv, AcceptInv, CapInv

\* The accept handler: one more session, within the cap, or a refusal.
LEMMA AcceptCaps ==
  ASSUME ServerInv, CapsInv, tasks # <<>>, tasks' = Tail(tasks), stopped' = stopped,
         NEW c \in Clients, Head(tasks) = <<"accept", c>>, Accept(c)
  PROVE  CapsInv'
<1> DEFINE s == session[c]
           shut == [s EXCEPT !.link = "closed"]
           open == [s EXCEPT !.link = "handshake", !.op = TRUE]
<1>1. IdleInv(s) /\ DOMAIN s = Fields /\ DOMAIN session = Clients /\ s.link = "none"
  <2>1. s.link = "none"
    BY SMTT(30), TailCaps
  <2> QED
    BY SMTT(30), <2>1 DEF ServerInv, SessInv, QueueInv, CapsInv
<1>2. s.wire = <<>> /\ s.outbox = <<>> /\ s.posted = <<>> /\ ~ s.op /\ Expired(c)
  BY <1>1 DEF IdleInv, Expired
<1>3. /\ shut.link = "closed" /\ shut.op = s.op /\ shut.posted = s.posted /\ shut.wire = s.wire
      /\ shut.outbox = s.outbox
      /\ open.link = "handshake" /\ open.posted = s.posted /\ open.wire = s.wire /\ open.outbox = s.outbox
  BY <1>1 DEF Fields
<1>4. \/ sessions' = Alive /\ session' = [session EXCEPT ![c] = shut]
      \/ /\ ~ (Len(Alive) >= kMaxSessions)
         /\ sessions' = Append(Alive, c) /\ session' = [session EXCEPT ![c] = open]
  BY ZenonT(30) DEF Accept
<1> HIDE DEF s, shut, open
<1>5. DOMAIN shut.wire = {} /\ DOMAIN open.wire = {} /\ Len(s.outbox) <= kMaxOutbox
  <2>1. Len(s.outbox) = 0
    BY SMTT(30), <1>2, EmptySeq
  <2> QED
    BY <1>2, <1>3, <2>1, SignalAssumption
<1>6. IdleInv(shut) /\ IdleInv(open) /\ Dead(shut)
  BY <1>2, <1>3, <1>5 DEF IdleInv, Dead
<1>7. /\ Alive \in Seq(Clients) /\ Len(Alive) \in Nat /\ Len(Alive) <= kMaxSessions
      /\ \A d \in Clients : d \in Range(Alive) <=> d \in Range(sessions) /\ ~ Expired(d)
  BY AliveFacts DEF CapsInv
<1>8. Append(Alive, c) \in Seq(Clients) /\ Len(Append(Alive, c)) = Len(Alive) + 1
      /\ Range(Append(Alive, c)) = Range(Alive) \cup {c}
  BY SMTT(30), <1>7, RangeAppend
<1>9. /\ session'[c] \in {shut, open} /\ \A d \in Clients : d # c => session'[d] = session[d]
      /\ sessions' \in Seq(Clients) /\ Len(sessions') <= kMaxSessions
      /\ Range(Alive) \subseteq Range(sessions')
      /\ c \in Range(sessions') \/ session'[c] = shut
  <2>1. CASE sessions' = Alive /\ session' = [session EXCEPT ![c] = shut]
    BY <1>1, <1>7, <2>1
  <2>2. CASE /\ ~ (Len(Alive) >= kMaxSessions)
             /\ sessions' = Append(Alive, c) /\ session' = [session EXCEPT ![c] = open]
    <3>1. Len(Append(Alive, c)) <= kMaxSessions
      BY <1>7, <1>8, <2>2, SignalAssumption
    <3> DEFINE a == Append(Alive, c)
    <3> HIDE DEF a
    <3>2. a \in Seq(Clients) /\ Len(a) <= kMaxSessions /\ Range(a) = Range(Alive) \cup {c}
      BY <1>8, <3>1 DEF a
    <3>3. sessions' = a
      BY SMTT(30), <2>2 DEF a
    <3> QED
      BY <1>1, <2>2, <3>2, <3>3
  <2> QED
    BY <1>4, <2>1, <2>2
<1>10. (\A d \in Clients : IdleInv(session[d]))'
  BY SMTT(30), <1>6, <1>9 DEF CapsInv
<1>11. /\ \A i \in DOMAIN tasks' : i + 1 \in DOMAIN tasks /\ tasks'[i] = tasks[i + 1]
       /\ \A i \in DOMAIN tasks' : tasks'[i] # <<"accept", c>>
  BY TailCaps
<1>12. AcceptInv'
  <2> SUFFICES ASSUME NEW i \in DOMAIN tasks', tasks'[i][1] = "accept"
               PROVE  /\ session'[tasks'[i][2]].link = "none"
                      /\ \A j \in DOMAIN tasks' : tasks'[j] = tasks'[i] => j = i
    BY SMTT(30) DEF AcceptInv
  <2>1. i + 1 \in DOMAIN tasks /\ tasks'[i] = tasks[i + 1] /\ tasks[i + 1] \in Tasks
    BY SMTT(30), <1>11 DEF ServerInv
  <2>2. tasks'[i] = <<"accept", tasks'[i][2]>> /\ tasks'[i][2] \in Clients /\ tasks'[i][2] # c
    BY SMTT(30), <1>11, <2>1 DEF Tasks
  <2>3. session[tasks'[i][2]].link = "none"
    BY SMTT(30), <2>1 DEF CapsInv, AcceptInv
  <2>4. ASSUME NEW j \in DOMAIN tasks', tasks'[j] = tasks'[i] PROVE j = i
    <3>1. j + 1 = i + 1
      BY SMTT(30), <1>11, <2>1, <2>4 DEF CapsInv, AcceptInv
    <3>2. i \in Nat /\ j \in Nat
      <4>1. tasks' \in Seq(Tasks)
        BY SMTT(30), HeadTailProperties DEF ServerInv
      <4> QED
        BY SMTT(30), <4>1
    <3> QED
      BY SMTT(30), <3>1, <3>2
  <2> QED
    BY SMTT(30), <1>9, <2>2, <2>3, <2>4
<1>13. CapInv'
  <2>1. ~ stopped => \A i \in DOMAIN tasks' : tasks'[i][1] # "stop"
    BY <1>11 DEF CapsInv, CapInv
  <2>2. ASSUME ~ stopped, NEW d \in Clients, ~ Dead(session'[d]) PROVE d \in Range(sessions')
    <3>1. CASE d = c
      BY SMTT(30), <1>6, <1>9, <2>2, <3>1
    <3>2. CASE d # c
      BY <1>7, <1>9, <2>2, <3>2 DEF CapsInv, CapInv, Expired, Dead
    <3> QED
      BY SMTT(30), <3>1, <3>2
  <2>3. stopped' \in BOOLEAN
    BY DEF CapsInv, CapInv
  <2> QED
    BY SMTT(30), <1>9, <2>1, <2>2, <2>3 DEF CapInv, Expired, Dead
<1> QED
  BY SMTT(30), <1>10, <1>12, <1>13 DEF CapsInv

\* A handler is posted to the sessions that are alive; the others leave sessions_,
\* and at stop() all do.
LEMMA PostCaps ==
  ASSUME ServerInv, CapsInv, tasks # <<>>, tasks' = Tail(tasks), stopped' = stopped,
         NEW x, Post(x), sessions' = Alive \/ (stopped /\ sessions' = <<>>)
  PROVE  CapsInv'
<1>1. /\ Alive \in Seq(Clients) /\ Len(Alive) \in Nat /\ Len(Alive) <= kMaxSessions
      /\ \A d \in Clients : d \in Range(Alive) <=> d \in Range(sessions) /\ ~ Expired(d)
  BY AliveFacts DEF CapsInv
<1>2. DOMAIN session' = Clients
  BY SMTT(30) DEF Post
<1>3. ASSUME NEW c \in Clients
      PROVE  /\ IdleInv(session'[c]) /\ session'[c].link = session[c].link
             /\ Dead(session'[c]) <=> Dead(session[c])
  <2> DEFINE s == session[c]
             t == [s EXCEPT !.posted = Append(s.posted, x)]
  <2>1. IdleInv(s) /\ DOMAIN s = Fields /\ s.posted \in Seq(Posts)
    BY DEF ServerInv, SessInv, QueueInv, CapsInv
  <2>2. CASE session'[c] = s
    BY SMTT(30), <2>1, <2>2
  <2>3. CASE c \in Range(Alive) /\ session'[c] = t
    <3>1. /\ t.posted = Append(s.posted, x) /\ t.outbox = s.outbox /\ t.link = s.link
          /\ t.writing = s.writing /\ t.wire = s.wire /\ t.early = s.early /\ t.op = s.op
      BY SMTT(30), <2>1 DEF Fields
    <3>2. ~ Dead(s)
      BY <1>1, <2>3 DEF Expired, Dead
    <3>3. Append(s.posted, x) # <<>>
      BY SMTT(30)
    <3> HIDE DEF s, t
    <3>4. s.link # "none" /\ t.posted # <<>>
      BY SMTT(30), <2>1, <3>1, <3>2, <3>3, AliveAccepted
    <3>5. IdleInv(t) /\ ~ Dead(t)
      BY <2>1, <3>1, <3>4 DEF IdleInv, Dead
    <3> QED
      BY <2>3, <3>1, <3>2, <3>5 DEF s
  <2>4. session'[c] = s \/ (c \in Range(Alive) /\ session'[c] = t)
    BY SMTT(30) DEF Post
  <2> HIDE DEF s, t
  <2> QED
    BY SMTT(30), <2>2, <2>3, <2>4
<1>4. \A i \in DOMAIN tasks' : i + 1 \in DOMAIN tasks /\ tasks'[i] = tasks[i + 1]
  BY SMTT(30), TailCaps
<1>5. AcceptInv'
  <2> SUFFICES ASSUME NEW i \in DOMAIN tasks', tasks'[i][1] = "accept"
               PROVE  /\ session'[tasks'[i][2]].link = "none"
                      /\ \A j \in DOMAIN tasks' : tasks'[j] = tasks'[i] => j = i
    BY SMTT(30) DEF AcceptInv
  <2>1. i + 1 \in DOMAIN tasks /\ tasks'[i] = tasks[i + 1] /\ tasks[i + 1] \in Tasks
    BY <1>4 DEF ServerInv
  <2>2. tasks'[i][2] \in Clients
    BY SMTT(30), <2>1 DEF Tasks
  <2>3. session[tasks'[i][2]].link = "none"
    BY <2>1 DEF CapsInv, AcceptInv
  <2>4. ASSUME NEW j \in DOMAIN tasks', tasks'[j] = tasks'[i] PROVE j = i
    <3>1. j + 1 = i + 1
      BY <1>4, <2>1, <2>4 DEF CapsInv, AcceptInv
    <3>2. i \in Nat /\ j \in Nat
      <4>1. tasks' \in Seq(Tasks)
        BY SMTT(30), HeadTailProperties DEF ServerInv
      <4> QED
        BY SMTT(30), <4>1
    <3> QED
      BY SMTT(30), <3>1, <3>2
  <2> QED
    BY SMTT(30), <1>3, <2>2, <2>3, <2>4
<1>6. CapInv'
  <2>1. sessions' \in Seq(Clients) /\ Len(sessions') <= kMaxSessions
    <3>1. <<>> \in Seq(Clients) /\ Len(<<>>) <= kMaxSessions
      BY SignalAssumption
    <3> QED
      BY ZenonT(30), <1>1, <3>1
  <2>2. ~ stopped => \A i \in DOMAIN tasks' : tasks'[i][1] # "stop"
    BY SMTT(30), <1>4 DEF CapsInv, CapInv
  <2>3. ASSUME ~ stopped, NEW d \in Clients, ~ Dead(session'[d]) PROVE d \in Range(sessions')
    BY SMTT(30), <1>1, <1>3, <2>3 DEF CapsInv, CapInv, Expired, Dead
  <2>4. stopped' \in BOOLEAN
    BY SMTT(30) DEF CapsInv, CapInv
  <2> QED
    BY <2>1, <2>2, <2>3, <2>4 DEF CapInv, Expired, Dead
<1> QED
  BY <1>3, <1>5, <1>6 DEF CapsInv

\* The next handler of strand_ runs.
LEMMA RunTaskCaps == ASSUME ServerInv, CapsInv, RunTask PROVE CapsInv'
<1>1. tasks # <<>> /\ tasks' = Tail(tasks) /\ stopped' = stopped
  BY SMTT(30) DEF RunTask
<1>2. Head(tasks) \in Tasks /\ (~ stopped => Head(tasks)[1] # "stop")
  BY <1>1, TailCaps
<1>3. CASE Head(tasks)[1] = "accept" /\ Accept(Head(tasks)[2])
  <2>1. Head(tasks)[2] \in Clients /\ Head(tasks) = <<"accept", Head(tasks)[2]>>
    BY <1>2, <1>3 DEF Tasks
  <2> QED
    BY <1>1, <1>3, <2>1, AcceptCaps
<1>4. CASE Head(tasks)[1] = "broadcast" /\ Forward(Head(tasks)[2])
  BY <1>1, <1>4, PostCaps DEF Forward
<1>5. CASE Head(tasks)[1] = "stop" /\ CloseAll
  <2>1. stopped
    BY <1>2, <1>5 DEF CapsInv, CapInv
  <2> QED
    BY SMTT(30), <1>1, <1>5, <2>1, PostCaps DEF CloseAll
<1> QED
  BY <1>3, <1>4, <1>5 DEF RunTask

\* Both invariants together are inductive.
LEMMA CapsInvariant == Spec => []CapsInv
<1>1. Init => CapsInv
  <2> SUFFICES ASSUME Init PROVE CapsInv
    OBVIOUS
  <2>1. tasks = <<>> /\ DOMAIN tasks = {} /\ sessions = <<>> /\ stopped = FALSE
        /\ \A c \in Clients : session[c] = NoSession
    BY SMTT(30) DEF Init
  <2> DEFINE s == NoSession
  <2>2. /\ s.link = "none" /\ ~ s.op /\ s.posted = <<>> /\ s.outbox = <<>> /\ s.wire = <<>>
    BY DEF NoSession
  <2> HIDE DEF s
  <2>3. DOMAIN s.wire = {} /\ Len(s.outbox) = 0
    BY SMTT(30), <2>2, EmptySeq
  <2>4. IdleInv(s) /\ Dead(s)
    BY <2>2, <2>3, SignalAssumption DEF IdleInv, Dead
  <2>5. sessions \in Seq(Clients) /\ Len(sessions) = 0
    BY <2>1, EmptySeq
  <2>6. \A c \in Clients : IdleInv(session[c]) /\ Expired(c)
    BY <2>1, <2>4 DEF Expired, Dead, s
  <2>7. AcceptInv
    BY <2>1 DEF AcceptInv
  <2>8. CapInv
    <3>1. Len(sessions) <= kMaxSessions
      BY <2>5, SignalAssumption
    <3>2. stopped \in BOOLEAN /\ DOMAIN tasks = {}
      BY Zenon, <2>1
    <3> QED
      BY Zenon, <2>5, <2>6, <3>1, <3>2 DEF CapInv
  <2> QED
    BY <2>6, <2>7, <2>8 DEF CapsInv
<1>2. ServerInv /\ CapsInv /\ [Next]_vars => CapsInv'
  <2> SUFFICES ASSUME ServerInv, CapsInv, [Next]_vars PROVE CapsInv'
    BY SMTT(30)
  <2>1. ASSUME NEW c \in Clients, Connect(c) PROVE CapsInv'
    <3>1. <<"accept", c>> \in Tasks /\ <<"accept", c>>[1] # "stop" /\ stopped \in BOOLEAN
      BY SMTT(30) DEF Tasks, CapsInv, CapInv
    <3> QED
      BY SMTT(30), <2>1, <3>1, TaskCaps DEF Connect
  <2>2. CASE Broadcast
    <3>1. signals + 1 \in Nat /\ stopped \in BOOLEAN
      BY DEF ServerInv, CapsInv, CapInv
    <3>2. <<"broadcast", signals + 1>> \in Tasks
      BY <3>1 DEF Tasks
    <3> QED
      BY SMTT(30), <2>2, <3>1, <3>2, TaskCaps DEF Broadcast
  <2>3. CASE AcceptFails \/ Stop \/ UNCHANGED vars
    <3>1. <<"stop">> \in Tasks /\ <<"stop">>[1] # "accept" /\ stopped \in BOOLEAN
      BY SMTT(30) DEF Tasks, CapsInv, CapInv
    <3>2. CASE Stop
      BY SMTT(30), <3>1, <3>2, TaskCaps DEF Stop
    <3>3. CASE AcceptFails \/ UNCHANGED vars
      BY SMTT(30), <3>3 DEF AcceptFails, vars, CapsInv, AcceptInv, CapInv, Expired
    <3> QED
      BY <2>3, <3>2, <3>3
  <2> QED
    BY <2>1, <2>2, <2>3, LinkCaps, PostedCaps, WriteCaps, RunTaskCaps DEF Next
<1> QED
  BY <1>1, <1>2, ServerInvariant, PTL DEF Spec

\* No session's write loop stops with messages left on an open link, except
\* after a write that was started before the link was open.
THEOREM WriteLoopDrains == Spec => []IdleMeansDrained
<1>1. CapsInv => IdleMeansDrained
  BY DEF CapsInv, IdleInv, IdleMeansDrained
<1> QED
  BY <1>1, CapsInvariant, PTL

\* There are never more session objects than kMaxSessions nor more messages in an
\* outbox than kMaxOutbox, for every number of clients and every value of the caps.
THEOREM CapsHold == Spec => []SessionsCapped
<1>1. CapsInv => SessionsCapped
  <2> SUFFICES ASSUME CapsInv PROVE SessionsCapped
    OBVIOUS
  <2> DEFINE A == {c \in Clients : ~ Expired(c)}
  <2>1. ~ stopped => Cardinality(A) <= kMaxSessions
    <3> SUFFICES ASSUME ~ stopped PROVE Cardinality(A) <= kMaxSessions
      BY SMTT(30)
    <3>1. sessions \in Seq(Clients) /\ Len(sessions) \in Nat /\ Len(sessions) <= kMaxSessions
      BY DEF CapsInv, CapInv
    <3>2. IsFiniteSet(Range(sessions)) /\ Cardinality(Range(sessions)) <= Len(sessions)
      BY SMTT(30), <3>1, RangeCardinality
    <3>3. A \subseteq Range(sessions)
      BY DEF CapsInv, CapInv
    <3>4. Cardinality(A) <= Cardinality(Range(sessions)) /\ IsFiniteSet(A)
      BY <3>2, <3>3, FS_Subset
    <3>5. Cardinality(A) \in Nat /\ Cardinality(Range(sessions)) \in Nat
      BY SMTT(30), <3>2, <3>4, FS_CardinalityType
    <3> HIDE DEF A
    <3> QED
      BY <3>1, <3>2, <3>4, <3>5, SignalAssumption
  <2>2. \A c \in Clients : Len(session[c].outbox) <= kMaxOutbox
    BY DEF CapsInv, IdleInv
  <2> QED
    BY <2>1, <2>2 DEF SessionsCapped
<1> QED
  BY <1>1, CapsInvariant, PTL

=============================================================================
