----------------------------- MODULE RestClient -----------------------------
(***************************************************************************)
(* md::RestClient (feed/src/connection_handler/RestClient.cpp): one HTTPS   *)
(* request at a time over a connection that is kept when the server agrees  *)
(* (GenericFeedHandler switches keep_alive_ on; it asks one host only).     *)
(*                                                                          *)
(* A feed's handlers run on one thread in the order in which they became    *)
(* ready: ready is that queue.  An operation is pending until it completes, *)
(* and then its handler is in the queue, out of reach of any cancel.  A     *)
(* cancel can also miss an operation that is still pending: a resolve the   *)
(* resolver thread is busy with, or a composed operation between two of its *)
(* reads.  Closing the socket ends all operations on it.                    *)
(*                                                                          *)
(* Of a request only its number matters, of a response the request it       *)
(* answers, whether its status is 2xx and whether it keeps the connection.  *)
(***************************************************************************)
EXTENDS Integers, Sequences, SequencesExt

CONSTANT MaxRequests    \* bound on the requests made

ASSUME RestAssumption == MaxRequests \in Nat

Requests == 1 .. MaxRequests

VARIABLES client,    \* the RestClient
          ready,     \* the handlers that are ready to run
          pending,   \* the operations in progress, each with the request it is for
          answers,   \* per request, what its callback was called with
          asked,     \* requests made so far
          stopped,   \* stop() has been called: the feed handler asks no more
          strayed    \* observer: a handler met a request that was not its own

vars == <<client, ready, pending, answers, asked, stopped, strayed>>

Steps == {"resolve", "tcp", "tls", "write", "read", "shutdown"}

Op(step, req) == [step |-> step, req |-> req]
Handler(step, req, result) == [step |-> step, req |-> req, result |-> result]

\* cur: the request whose host_, req_ and parser_ are in place.  cb: the one
\* whose callback is stored, 0 if none.  body: the request whose response it is.
Fresh ==
  [in_flight |-> FALSE, cur |-> 0, cb |-> 0, final_ec |-> "none", shutting_down |-> FALSE,
   tcp_connected |-> FALSE, tls_handshook |-> FALSE, open |-> FALSE,
   server_keep_alive |-> FALSE, body |-> 0, deadline |-> FALSE, shutdown_deadline |-> FALSE]

Init ==
  /\ client = Fresh /\ ready = <<>> /\ pending = {}
  /\ answers = [n \in Requests |-> <<>>] /\ asked = 0
  /\ stopped = FALSE /\ strayed = FALSE

-----------------------------------------------------------------------------
(* The methods.  Each maps the whole, [c, ready, pending, answers], to what  *)
(* it leaves behind.                                                         *)

\* The operations ops end without a result of their own.
Abort(w, ops) ==
  [w EXCEPT !.pending = @ \ ops,
            !.ready = @ \o SetToSeq({Handler(p.step, p.req, "error") : p \in ops})]

OnSocket(ops) == {p \in ops : p.step # "resolve"}

\* close_socket_hard_()
CloseHard(w) ==
  [Abort(w, OnSocket(w.pending)) EXCEPT !.c.open = FALSE, !.c.tcp_connected = FALSE,
                                        !.c.tls_handshook = FALSE]

\* An operation begins; on a closed socket it fails at once.
Begin(w, step, req) ==
  IF step = "resolve" \/ w.c.open THEN [w EXCEPT !.pending = @ \cup {Op(step, req)}]
  ELSE [w EXCEPT !.ready = Append(@, Handler(step, req, "error"))]

\* do_tcp_connect_: async_connect closes the socket and opens it again.
BeginConnect(w, req) ==
  Begin([Abort(w, OnSocket(w.pending)) EXCEPT !.c.open = TRUE], "tcp", req)

Call(w, n, ec, body) == [w EXCEPT !.answers[n] = Append(@, [ec |-> ec, body |-> body])]

\* Mutant: the guard against a second completion is gone, and the callback stays.
FinishAgain(w) ==
  IF w.c.cb = 0 THEN w
  ELSE LET kept == w.c.server_keep_alive /\ w.c.final_ec = "none"
           done == [w EXCEPT !.c.in_flight = FALSE, !.c.deadline = FALSE,
                             !.c.shutdown_deadline = FALSE, !.c.body = 0]
       IN  Call(IF kept THEN done ELSE CloseHard(done), w.c.cb, w.c.final_ec, w.c.body)

\* finish_()
Finish(w) ==
  IF ~ w.c.in_flight THEN w
  ELSE LET kept == w.c.server_keep_alive /\ w.c.final_ec = "none"
           done == [w EXCEPT !.c.in_flight = FALSE, !.c.deadline = FALSE,
                             !.c.shutdown_deadline = FALSE, !.c.cb = 0, !.c.body = 0]
       IN  Call(IF kept THEN done ELSE CloseHard(done), w.c.cb, w.c.final_ec, w.c.body)

\* Mutant: the shutdown is not timed.
TlsShutdownUntimed(w) ==
  IF ~ w.c.in_flight \/ w.c.shutting_down THEN w
  ELSE Begin([w EXCEPT !.c.shutting_down = TRUE], "shutdown", w.c.cur)

\* do_tls_shutdown_()
TlsShutdown(w) ==
  IF ~ w.c.in_flight \/ w.c.shutting_down THEN w
  ELSE Begin([w EXCEPT !.c.shutting_down = TRUE, !.c.shutdown_deadline = TRUE],
             "shutdown", w.c.cur)

\* Without a TLS session there is nothing to shut down.
EndRequest(w) ==
  IF w.c.tcp_connected /\ w.c.tls_handshook THEN TlsShutdown(w) ELSE Finish(CloseHard(w))

\* Mutant: the error is not recorded.
FailUnrecorded(w, ec) == IF ~ w.c.in_flight \/ w.c.final_ec # "none" THEN w ELSE EndRequest(w)

\* fail_(ec)
Fail(w, ec) ==
  IF ~ w.c.in_flight \/ w.c.final_ec # "none" THEN w
  ELSE EndRequest([w EXCEPT !.c.final_ec = ec])

CanReuse(w) == w.c.tcp_connected /\ w.c.tls_handshook /\ w.c.open

\* reset_per_request_state_(true)
Reset(w) ==
  LET reset == [w EXCEPT !.c.deadline = FALSE, !.c.shutdown_deadline = FALSE,
                         !.c.shutting_down = FALSE, !.c.final_ec = "none", !.c.body = 0,
                         !.c.server_keep_alive = FALSE]
  IN  IF CanReuse(w) THEN reset ELSE CloseHard(reset)

\* async_get and async_post; valid: the target begins with a slash.
AsyncRequest(w, n, valid) ==
  LET taken == [w EXCEPT !.c.in_flight = TRUE, !.c.cur = n, !.c.cb = n]
      timed == [Reset(taken) EXCEPT !.c.deadline = TRUE]
  IN  IF w.c.in_flight THEN Call(w, n, "operation_in_progress", 0)
      ELSE IF ~ valid THEN Finish([taken EXCEPT !.c.final_ec = "invalid_argument"])
      ELSE Begin(timed, IF CanReuse(timed) THEN "write" ELSE "resolve", n)

-----------------------------------------------------------------------------
(* The handlers.  None of them asks for which request it was set up.         *)

\* Handlers of do_resolve_, do_tcp_connect_, do_tls_handshake_, do_http_request_.
OnStep(w, h) ==
  IF h.result = "error" THEN Fail(w, "error")
  ELSE CASE h.step = "resolve" -> BeginConnect(w, h.req)
         [] h.step = "tcp" -> Begin([w EXCEPT !.c.tcp_connected = TRUE], "tls", h.req)
         [] h.step = "tls" -> Begin([w EXCEPT !.c.tls_handshook = TRUE], "write", h.req)
         [] h.step = "write" -> Begin(w, "read", h.req)

\* Handler of do_http_read_.  It reads the parser in place, which is empty if
\* the response went to the parser of an earlier request.
OnRead(w, h) ==
  LET read == [w EXCEPT !.c.deadline = FALSE,
                        !.c.server_keep_alive = h.result # "last",
                        !.c.body = IF h.req = w.c.cur THEN h.req ELSE 0,
                        !.c.final_ec = IF h.result = "non_2xx" THEN "non_2xx" ELSE "none"]
  IN  IF h.result = "error" THEN Fail(w, "error")
      ELSE IF h.result = "kept" THEN Finish(read)
      ELSE TlsShutdown(read)

\* Handler of do_tls_shutdown_.
OnShutdown(w, h) ==
  Finish([w EXCEPT !.c.shutdown_deadline = FALSE,
                   !.c.final_ec = IF h.result = "error" /\ @ = "none" THEN "error" ELSE @])

\* deadline_ expired: resolver and socket are cancelled, which misses the
\* operations in missed.
OnDeadline(w, missed) == Fail(Abort(w, w.pending \ missed), "timed_out")

\* shutdown_deadline_ expired.
OnShutdownDeadline(w) ==
  IF ~ w.c.in_flight THEN w
  ELSE Finish([w EXCEPT !.c.final_ec = IF @ = "none" THEN "timed_out" ELSE @])

\* cancel()
Cancel(w, missed) ==
  LET off == [w EXCEPT !.c.final_ec = IF @ = "none" THEN "operation_canceled" ELSE @,
                       !.c.deadline = FALSE, !.c.shutdown_deadline = FALSE]
  IN  IF ~ w.c.in_flight THEN w ELSE EndRequest(Abort(off, w.pending \ missed))

-----------------------------------------------------------------------------
(* The actions.                                                              *)

World == [c |-> client, ready |-> ready, pending |-> pending, answers |-> answers]

\* A handler of another request, an operation on the socket or a timer, is
\* about while this one is in flight.
Stray(w) ==
  LET about == OnSocket(w.pending) \cup
               {h \in Range(w.ready) : h.step \notin {"request", "cancel"}}
  IN  w.c.in_flight /\ \E a \in about : a.req # w.c.cur

Becomes(w) ==
  /\ client' = w.c /\ ready' = w.ready /\ pending' = w.pending /\ answers' = w.answers
  /\ strayed' = (strayed \/ Stray(w))

Queue(h) == ready' = Append(ready, h)

\* The feed handler makes a request from one of its own handlers.
Ask ==
  /\ ~ stopped /\ asked < MaxRequests /\ asked' = asked + 1
  /\ \E valid \in {"valid", "invalid"} : Queue(Handler("request", asked', valid))
  /\ UNCHANGED <<client, pending, answers, stopped, strayed>>

\* stop() is posted.
AskCancel ==
  /\ ~ stopped /\ stopped' = TRUE
  /\ Queue(Handler("cancel", 0, "ok"))
  /\ UNCHANGED <<client, pending, answers, asked, strayed>>

Results(step) == IF step = "read" THEN {"error", "kept", "last", "non_2xx"} ELSE {"error", "ok"}

\* The resolver, the network or the server completes an operation.
Complete ==
  \E p \in pending : \E result \in Results(p.step) :
    /\ Queue(Handler(p.step, p.req, result))
    /\ pending' = pending \ {p}
    /\ UNCHANGED <<client, answers, asked, stopped>>
    /\ strayed' = (strayed \/ Stray([World EXCEPT !.ready = ready', !.pending = pending']))

DeadlineExpires ==
  /\ client.deadline /\ client' = [client EXCEPT !.deadline = FALSE]
  /\ Queue(Handler("deadline", client.cur, "ok"))
  /\ UNCHANGED <<pending, answers, asked, stopped, strayed>>

ShutdownDeadlineExpires ==
  /\ client.shutdown_deadline /\ client' = [client EXCEPT !.shutdown_deadline = FALSE]
  /\ Queue(Handler("shutdown_deadline", client.cur, "ok"))
  /\ UNCHANGED <<pending, answers, asked, stopped, strayed>>

\* The thread runs the next handler.
Run ==
  /\ ready # <<>>
  /\ LET h == Head(ready)
         w == [World EXCEPT !.ready = Tail(@)]
     IN  CASE h.step = "request" -> Becomes(AsyncRequest(w, h.req, h.result = "valid"))
           [] h.step = "read" -> Becomes(OnRead(w, h))
           [] h.step = "shutdown" -> Becomes(OnShutdown(w, h))
           [] h.step = "shutdown_deadline" -> Becomes(OnShutdownDeadline(w))
           [] h.step = "deadline" -> \E m \in SUBSET pending : Becomes(OnDeadline(w, m))
           [] h.step = "cancel" -> \E m \in SUBSET pending : Becomes(Cancel(w, m))
           [] OTHER -> Becomes(OnStep(w, h))
  /\ UNCHANGED <<asked, stopped>>

Next == Ask \/ AskCancel \/ Complete \/ DeadlineExpires \/ ShutdownDeadlineExpires \/ Run

\* The thread runs ready handlers and timers expire.  Nothing is assumed of the
\* resolver, the network and the server.
Spec ==
  /\ Init /\ [][Next]_vars
  /\ WF_vars(Run) /\ WF_vars(DeadlineExpires) /\ WF_vars(ShutdownDeadlineExpires)

-----------------------------------------------------------------------------
Answered(n) == answers[n] # <<>>

\* The callback of a request is called once, however its completions, the two
\* deadlines and a cancel are ordered, and also when another request was
\* refused or a handler of an earlier request is still about.
OneAnswer == \A n \in Requests : Len(answers[n]) <= 1

\* As long as no operation outlives its request, a request that succeeds is
\* given the response to itself.
OwnAnswer ==
  \A n \in Requests : \A i \in DOMAIN answers[n] :
    answers[n][i].ec = "none" /\ ~ strayed => answers[n][i].body = n

\* stop() came while the TLS session was being shut down, which took away the
\* shutdown's deadline; if the cancel missed the shutdown, nothing ends it.
ShutdownUntimed == stopped /\ client.shutting_down /\ client.in_flight

\* Every request is answered, though the network may never be heard of again.
EveryRequestAnswered ==
  \A n \in Requests : asked >= n ~> (Answered(n) \/ ShutdownUntimed)

=============================================================================
