---------------------------- MODULE CallbackQueue ----------------------------
(***************************************************************************)
(* How libtego's events reach a frontend: callback_queue of signals.cpp,   *)
(* whose worker thread runs the callbacks, and the frontend's task queue   *)
(* (push_task, consume_tasks of libtego_callbacks.cpp), which brings them  *)
(* back to the main thread.  Both double-buffer: the reader swaps the      *)
(* shared vector with an empty one under the lock and works without it.    *)
(*                                                                         *)
(* An event is its number.  The worker also holds the context's mutex_     *)
(* while it runs a callback; nothing else in the program takes that one.   *)
(***************************************************************************)
EXTENDS Integers, Sequences

CONSTANT MaxCalls   \* events that are emitted
ASSUME MaxCallsAssumption == MaxCalls \in Nat

VARIABLES
  emitted,      \* number of events so far
  pending,      \* callback_queue::pending_callbacks_
  mutex,        \* who holds callback_queue::mutex_
  terminating,  \* callback_queue::terminating_
  worker,       \* where the worker thread is
  local,        \* its local_queue
  at,           \* the next callback of it to run
  tasks,        \* taskQueue
  taskLock,     \* who holds taskQueueLock
  main,         \* where the main thread is
  batch,        \* localTaskQueue
  next,         \* the next task of it to run
  ran           \* tasks that have run

shared == <<pending, mutex, terminating>>
working == <<worker, local, at>>
queued == <<tasks, taskLock>>
consuming == <<main, batch, next, ran>>
vars == <<emitted, shared, working, queued, consuming>>

Thread == {"main", "worker"}
Free == "none"

Init ==
  /\ emitted = 0 /\ pending = << >> /\ mutex = Free /\ terminating = FALSE
  /\ worker = "top" /\ local = << >> /\ at = 1
  /\ tasks = << >> /\ taskLock = Free
  /\ main = "idle" /\ batch = << >> /\ next = 1 /\ ran = << >>

-----------------------------------------------------------------------------
\* The main thread: emitting, between the tasks or from one of them.

\* The main thread is inside push_back.
Pushing == mutex = "main"

PushLock ==
  /\ main \in {"idle", "tasks"} /\ ~Pushing /\ taskLock # "main"
  /\ ~terminating /\ emitted < MaxCalls
  /\ mutex = Free
  /\ mutex' = "main"
  /\ UNCHANGED <<emitted, pending, terminating, working, queued, consuming>>

\* Bug: a new event is put before those that wait.
PushInFront ==
  /\ Pushing
  /\ emitted' = emitted + 1
  /\ pending' = <<emitted'>> \o pending
  /\ mutex' = Free
  /\ UNCHANGED <<terminating, working, queued, consuming>>

PushBack ==
  /\ Pushing
  /\ emitted' = emitted + 1
  /\ pending' = Append(pending, emitted')
  /\ mutex' = Free
  /\ UNCHANGED <<terminating, working, queued, consuming>>

\* consume_tasks, called by a timer that its last call has set.
ConsumeLock ==
  /\ main = "idle" /\ ~Pushing /\ taskLock = Free
  /\ taskLock' = "main"
  /\ UNCHANGED <<emitted, shared, working, tasks, consuming>>

ConsumeSwap ==
  /\ taskLock = "main"
  /\ tasks' = batch /\ batch' = tasks
  /\ taskLock' = Free
  /\ main' = "tasks" /\ next' = 1
  /\ UNCHANGED <<emitted, shared, working, ran>>

RunTask ==
  /\ main = "tasks" /\ ~Pushing /\ next <= Len(batch)
  /\ ran' = Append(ran, batch[next])
  /\ next' = next + 1
  /\ UNCHANGED <<emitted, shared, working, queued, main, batch>>

\* Bug: consume_tasks sets its timer again only after it has run something.
RearmIfBusy ==
  /\ main = "tasks" /\ ~Pushing /\ next > Len(batch) /\ batch # << >>
  /\ batch' = << >> /\ next' = 1
  /\ main' = "idle"
  /\ UNCHANGED <<emitted, shared, working, queued, ran>>

ConsumeEnd ==
  /\ main = "tasks" /\ ~Pushing /\ next > Len(batch)
  /\ batch' = << >> /\ next' = 1
  /\ main' = "idle"
  /\ UNCHANGED <<emitted, shared, working, queued, ran>>

\* The event loop ends and tego_uninitialize destroys the queue.
Terminate ==
  /\ main = "idle" /\ ~Pushing /\ taskLock # "main"
  /\ terminating' = TRUE
  /\ main' = "joining"
  /\ UNCHANGED <<emitted, pending, mutex, working, queued, batch, next, ran>>

Join ==
  /\ main = "joining" /\ worker = "ended"
  /\ main' = "ended"
  /\ UNCHANGED <<emitted, shared, working, queued, batch, next, ran>>

-----------------------------------------------------------------------------
\* The worker thread.

Check ==
  /\ worker = "top"
  /\ worker' = IF terminating THEN "ended" ELSE "swap"
  /\ UNCHANGED <<emitted, shared, local, at, queued, consuming>>

SwapLock ==
  /\ worker = "swap" /\ mutex = Free
  /\ mutex' = "worker"
  /\ UNCHANGED <<emitted, pending, terminating, working, queued, consuming>>

Swap ==
  /\ mutex = "worker"
  /\ pending' = local /\ local' = pending
  /\ mutex' = Free
  /\ worker' = "run" /\ at' = 1
  /\ UNCHANGED <<emitted, terminating, queued, consuming>>

\* A callback pushes one task.
TaskLock ==
  /\ worker = "run" /\ at <= Len(local) /\ taskLock = Free
  /\ taskLock' = "worker"
  /\ UNCHANGED <<emitted, shared, working, tasks, consuming>>

PushTask ==
  /\ taskLock = "worker"
  /\ tasks' = Append(tasks, local[at])
  /\ taskLock' = Free
  /\ at' = at + 1
  /\ UNCHANGED <<emitted, shared, worker, local, consuming>>

\* Bug: the batch that was run stays, and is swapped back into the queue.
KeepBatch ==
  /\ worker = "run" /\ taskLock # "worker" /\ at > Len(local)
  /\ UNCHANGED <<local, at>>
  /\ worker' = "top"
  /\ UNCHANGED <<emitted, shared, queued, consuming>>

\* Bug: the batch is cleared and the position in it kept.
ClearBatchOnly ==
  /\ worker = "run" /\ taskLock # "worker" /\ at > Len(local)
  /\ local' = << >> /\ UNCHANGED at
  /\ worker' = "top"
  /\ UNCHANGED <<emitted, shared, queued, consuming>>

Clear ==
  /\ worker = "run" /\ taskLock # "worker" /\ at > Len(local)
  /\ local' = << >> /\ at' = 1
  /\ worker' = "top"
  /\ UNCHANGED <<emitted, shared, queued, consuming>>

-----------------------------------------------------------------------------
Main ==
  \/ PushLock \/ PushBack
  \/ ConsumeLock \/ ConsumeSwap \/ RunTask \/ ConsumeEnd
  \/ Terminate \/ Join

Worker == Check \/ SwapLock \/ Swap \/ TaskLock \/ PushTask \/ Clear

\* Both threads are gone.
Ended == main = "ended" /\ worker = "ended" /\ UNCHANGED vars

Next == Main \/ Worker \/ Ended

Spec == Init /\ [][Next]_vars

\* Each thread runs.  The locks are strongly fair: whoever holds one does so for
\* a moment and then sleeps, the worker for 1 ms and the main thread for 10 ms.
Fairness ==
  /\ WF_vars(PushBack) /\ WF_vars(ConsumeSwap \/ RunTask \/ ConsumeEnd \/ Join)
  /\ WF_vars(Check \/ Swap \/ PushTask \/ Clear)
  /\ SF_vars(ConsumeLock) /\ SF_vars(SwapLock) /\ SF_vars(TaskLock)
FairSpec == Spec /\ Fairness

-----------------------------------------------------------------------------
\* What makes it correct.

Events == 1..MaxCalls

TypeOK ==
  /\ emitted \in 0..MaxCalls
  /\ pending \in Seq(Events) /\ local \in Seq(Events)
  /\ tasks \in Seq(Events) /\ batch \in Seq(Events) /\ ran \in Seq(Events)
  /\ mutex \in Thread \cup {Free} /\ taskLock \in Thread \cup {Free}
  /\ terminating \in BOOLEAN
  /\ worker \in {"top", "swap", "run", "ended"}
  /\ main \in {"idle", "tasks", "joining", "ended"}
  /\ at \in 1..(Len(local) + 1) /\ next \in 1..(Len(batch) + 1)

\* What is left of a buffer from position n on.
Rest(buffer, n) == SubSeq(buffer, n, Len(buffer))

\* No event is lost, repeated or overtaken on its way through the four buffers
\* of two threads: what has run and what is left of the buffers, from the last
\* one to the first, are the events emitted so far, in order.
NoneLost ==
  ran \o Rest(batch, next) \o tasks \o Rest(local, at) \o pending
    = [n \in 1..emitted |-> n]

\* The frontend sees what CallbackStream promises, whenever the threads swap
\* their buffers and whenever one of them is in the middle of a batch.
Stream == INSTANCE CallbackStream
InOrder == Stream!Spec

\* Every event is handled, unless the program ends first, and then it does end:
\* neither thread stops looking while events may come, and the worker, which
\* finishes its batch by way of the frontend's lock, can always be joined.
Handled ==
  \A n \in Events : (emitted >= n) ~> (Len(ran) >= n \/ main = "ended")

=============================================================================
