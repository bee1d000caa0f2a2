------------------------------ MODULE WriterQueue ------------------------------
(***************************************************************************)
(* The three hand-over queues of the system, each a deque under a mutex with *)
(* a condition variable, a capacity beyond which the oldest entry is         *)
(* dropped, one consumer thread and a stop request from another thread:      *)
(*   persist  FilePersistSink: lines to the persistence file;                *)
(*   arb      ArbDetector: crosses to the output file;                       *)
(*   scan     brain: events from the I/O threads to the scan thread.         *)
(* They differ in how the stop flag is set, in whether the consumer drains   *)
(* the queue before it ends, and in whether producers can outlive the stop.  *)
(*                                                                          *)
(* condition_variable::wait releases the mutex and blocks in one step, but   *)
(* the predicate is evaluated before that step: whoever does not need the    *)
(* mutex can act in between.                                                 *)
(*                                                                          *)
(* The two file writers rotate their file, and a restarted process finds the *)
(* files of the one before it: path in append mode, path.1, path.2, ...      *)
(***************************************************************************)
EXTENDS Integers, Sequences, SequencesExt

CONSTANTS Names,       \* which of the queues to check
          Cap,         \* kWriteQueueCap, kEventQueueCap
          MaxPuts,     \* bound on entries produced
          MaxRestarts, \* bound on restarts
          FileMax      \* lines per file before rotation, 0 = no rotation

ASSUME QueueAssumption ==
  /\ Names \subseteq {"persist", "arb", "scan"}
  /\ Cap \in Nat \ {0} /\ MaxPuts \in Nat /\ MaxRestarts \in Nat /\ FileMax \in Nat

VARIABLES name,      \* which queue this is
          queue,     \* entries, numbered in the order they were produced
          puts,      \* entries produced so far
          dropped,   \* entries pushed out
          pc,        \* the consumer: "loop", "check", "block", "asleep", "work", "rotate", "done"
          hand,      \* the entry taken from the queue, 0 if none
          disk,      \* path, the file being written, and rotated, path.1, path.2, ...
          out,       \* bytes_written_ (in lines) and rotate_seq_
          stop,      \* the stopper: "no", "set", "notified", "joined"
          start      \* observer: puts, the disk and the restarts when the process started

consumer == <<pc, hand, disk, out>>
vars == <<name, queue, puts, dropped, consumer, stop, start>>

StopUnderLock == name = "arb"              \* flush() locks write_mu_, the others do not
LoopChecksStop == name = "scan"            \* while (scan_running...)
ProducersOutliveStop == name = "scan"      \* I/O threads run until ioc.stop()

Stopping == stop # "no"

\* The mutex is free, except between the predicate and the wait.
LockFree == pc # "block"

NoFiles == [path |-> <<>>, rotated |-> <<>>]
NewOut == [bytes |-> 0, seq |-> 0]

Init ==
  /\ name \in Names
  /\ queue = <<>> /\ puts = 0 /\ dropped = {}
  /\ pc = "loop" /\ hand = 0 /\ disk = NoFiles /\ out = NewOut /\ stop = "no"
  /\ start = [puts |-> 0, disk |-> NoFiles, restarts |-> 0]

-----------------------------------------------------------------------------
\* notify_one / notify_all
Woken == IF pc = "asleep" THEN "check" ELSE pc


\* Mutant: the consumer is not notified.
PutNoNotify ==
  /\ puts < MaxPuts /\ LockFree
  /\ Stopping => ProducersOutliveStop
  /\ puts' = puts + 1
  /\ IF Len(queue) >= Cap
     THEN queue' = Append(Tail(queue), puts + 1) /\ dropped' = dropped \union {Head(queue)}
     ELSE queue' = Append(queue, puts + 1) /\ dropped' = dropped
  /\ UNCHANGED <<name, consumer, stop, start>>

\* enqueue_line_, the end of emit_, the end of on_message.
Put ==
  /\ puts < MaxPuts /\ LockFree
  /\ Stopping => ProducersOutliveStop
  /\ puts' = puts + 1
  /\ IF Len(queue) >= Cap
     THEN queue' = Append(Tail(queue), puts + 1) /\ dropped' = dropped \union {Head(queue)}
     ELSE queue' = Append(queue, puts + 1) /\ dropped' = dropped
  /\ pc' = Woken
  /\ UNCHANGED <<name, hand, disk, out, stop, start>>

\* The head of the consumer's loop: while (true), or while (scan_running).
Loop ==
  /\ pc = "loop"
  /\ pc' = IF LoopChecksStop /\ Stopping THEN "done" ELSE "check"
  /\ UNCHANGED <<name, queue, puts, dropped, hand, disk, out, stop, start>>

\* Mutant: the consumer ends as soon as it sees the stop flag.
CheckNoDrain ==
  /\ pc = "check"
  /\ IF Stopping THEN pc' = "done" /\ UNCHANGED <<queue, hand>>
     ELSE IF queue = <<>> THEN pc' = "block" /\ UNCHANGED <<queue, hand>>
     ELSE pc' = "work" /\ hand' = Head(queue) /\ queue' = Tail(queue)
  /\ UNCHANGED <<name, puts, dropped, disk, out, stop, start>>

\* The consumer locks the mutex and evaluates the wait predicate; when it holds,
\* an empty queue ends the loop and otherwise the front is taken.
Check ==
  /\ pc = "check"
  /\ IF queue = <<>> /\ ~ Stopping THEN pc' = "block" /\ UNCHANGED <<queue, hand>>
     ELSE IF queue = <<>> THEN pc' = "done" /\ UNCHANGED <<queue, hand>>
     ELSE pc' = "work" /\ hand' = Head(queue) /\ queue' = Tail(queue)
  /\ UNCHANGED <<name, puts, dropped, disk, out, stop, start>>

\* wait() releases the mutex and blocks.
Block ==
  /\ pc = "block" /\ pc' = "asleep"
  /\ UNCHANGED <<name, queue, puts, dropped, hand, disk, out, stop, start>>

\* A spurious wakeup evaluates the predicate again.
Spurious ==
  /\ pc = "asleep" /\ pc' = "check"
  /\ UNCHANGED <<name, queue, puts, dropped, hand, disk, out, stop, start>>

\* The entry is written and flushed, or handed to the book and the detector.
Work ==
  /\ pc = "work"
  /\ disk' = [disk EXCEPT !.path = Append(@, hand)]
  /\ out' = [out EXCEPT !.bytes = @ + 1]
  /\ hand' = 0
  /\ pc' = IF name # "scan" /\ FileMax > 0 /\ out'.bytes >= FileMax THEN "rotate" ELSE "loop"
  /\ UNCHANGED <<name, queue, puts, dropped, stop, start>>

\* rotate_(), rotate_output_(): path becomes path.<rotate_seq_>, whatever that
\* file held, and a new one is opened.
Rotate ==
  /\ pc = "rotate" /\ pc' = "loop"
  /\ out' = [bytes |-> 0, seq |-> out.seq + 1]
  /\ disk' = [path |-> <<>>, rotated |-> (out.seq + 1 :> disk.path) @@ disk.rotated]
  /\ UNCHANGED <<name, queue, puts, dropped, hand, stop, start>>

\* Mutant: the flag is set without the mutex.
SetStopUnlocked ==
  /\ stop = "no" /\ stop' = "set"
  /\ UNCHANGED <<name, queue, puts, dropped, consumer, start>>

\* write_stop_ = true; writer_running_ = false; scan_running = false.
SetStop ==
  /\ stop = "no" /\ stop' = "set"
  /\ StopUnderLock => LockFree
  /\ UNCHANGED <<name, queue, puts, dropped, consumer, start>>

Notify ==
  /\ stop = "set" /\ stop' = "notified" /\ pc' = Woken
  /\ UNCHANGED <<name, queue, puts, dropped, hand, disk, out, start>>

Join ==
  /\ stop = "notified" /\ pc = "done" /\ stop' = "joined"
  /\ UNCHANGED <<name, queue, puts, dropped, consumer, start>>


\* The process ends, in order or killed at any point, and is started again: the
\* file is appended to, the counters of the rotation begin at 0.
Restart ==
  /\ name # "scan" /\ start.restarts < MaxRestarts
  /\ queue' = <<>> /\ pc' = "loop" /\ hand' = 0 /\ out' = NewOut /\ stop' = "no"
  /\ start' = [puts |-> puts, disk |-> disk, restarts |-> start.restarts + 1]
  /\ UNCHANGED <<name, puts, dropped, disk>>

Next ==
  \/ Put \/ Loop \/ Check \/ Block \/ Spurious \/ Work \/ Rotate
  \/ SetStop \/ Notify \/ Join \/ Restart

\* The consumer and, once it has begun, the stopper keep running.  Nothing is
\* assumed of producers, spurious wakeups, restarts or whether a stop is requested.
Spec ==
  Init /\ [][Next]_vars /\ WF_vars(Loop \/ Check \/ Block \/ Work \/ Rotate) /\ WF_vars(Notify \/ Join)

-----------------------------------------------------------------------------
Ours(lines) == SelectSeq(lines, LAMBDA i : i > start.puts)   \* produced by this process

\* The files this process has written to, in order; what it has in hand.
Written == [k \in 1 .. out.seq |-> disk.rotated[k]] \o <<disk.path>>
InHand == IF hand = 0 THEN <<>> ELSE <<hand>>



\* A file writer ends only once everything it was given is on disk (the scan
\* thread makes no such promise in its loop).
DrainedAtExit == pc = "done" /\ name # "scan" => queue = <<>> /\ hand = 0

\* The stop has been signalled and the consumer is asleep for good.
LostWakeup == stop = "notified" /\ pc = "asleep" /\ queue = <<>>

\* Every stop request ends with the consumer joined or the process killed, except
\* that a queue whose flag is set outside the mutex can miss the one notification.
StopEnds == stop = "set" ~> (stop \in {"joined", "no"} \/ (name # "arb" /\ LostWakeup))

\* While nobody stops it, the consumer gets to every entry that is not dropped.
EntriesConsumed == (queue # <<>>) ~> (queue = <<>> \/ Stopping)

=============================================================================
