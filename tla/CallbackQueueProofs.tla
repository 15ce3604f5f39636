------------------------- MODULE CallbackQueueProofs -------------------------
(***************************************************************************)
(* That events cross the two queues complete and in order, for any number  *)
(* of them and every pace of the two threads.                              *)
(*                                                                         *)
(* NoneLost is not inductive: a swap loses nothing only if the reader's    *)
(* buffer is empty by then, and a lock says something only if its holder   *)
(* is where it is released.  IInv adds these two facts.                    *)
(***************************************************************************)
EXTENDS CallbackQueue, SequenceTheorems, TLAPS

\* A thread that holds a lock is where it will release it.
Holders ==
  /\ mutex = "worker" => worker = "swap"
  /\ taskLock = "worker" => worker = "run" /\ at <= Len(local)
  /\ mutex = "main" => main \in {"idle", "tasks"} /\ emitted < MaxCalls
  /\ taskLock = "main" => main = "idle"

\* A thread that is not in the middle of a batch has cleared its buffer.
Cleared ==
  /\ worker # "run" => local = << >> /\ at = 1
  /\ main # "tasks" => batch = << >> /\ next = 1

IInv == TypeOK /\ Holders /\ Cleared /\ NoneLost

-----------------------------------------------------------------------------
\* What is left of a buffer.

LEMMA RestType ==
  ASSUME NEW s \in Seq(Events), NEW n \in 1..(Len(s) + 1)
  PROVE  Rest(s, n) \in Seq(Events)
<1>1. \A i \in n..Len(s) : s[i] \in Events
  BY ElementOfSeq
<1>2. n \in Int /\ Len(s) \in Int
  BY LenProperties
<1> QED BY <1>1, <1>2, SubSeqProperties DEF Rest

LEMMA RestAll ==
  ASSUME NEW s \in Seq(Events)
  PROVE  Rest(s, 1) = s
BY SubSeqFull DEF Rest

LEMMA RestNone ==
  ASSUME NEW s \in Seq(Events), NEW n \in Int, n > Len(s)
  PROVE  Rest(s, n) = << >>
<1>1. Len(s) \in Int
  BY LenProperties
<1> QED BY <1>1, SubSeqEmpty DEF Rest

LEMMA RestStep ==
  ASSUME NEW s \in Seq(Events), NEW n \in 1..Len(s)
  PROVE  Rest(s, n) = <<s[n]>> \o Rest(s, n + 1)
<1>1. Len(s) \in n..Len(s)
  BY LenProperties
<1> QED BY <1>1, SubSeqRecursiveFirst DEF Rest

\* The first element of what is left may as well be the last of what precedes.
LEMMA Moved ==
  ASSUME NEW t \in Seq(Events), NEW e \in Events, NEW r \in Seq(Events)
  PROVE  Append(t, e) \o r = t \o (<<e>> \o r)
<1>1. <<e>> \in Seq(Events)
  OBVIOUS
<1>2. Append(t, e) = t \o <<e>>
  BY AppendIsConcat
<1> QED BY <1>1, <1>2, ConcatAssociative

LEMMA MovedBehind ==
  ASSUME NEW x \in Seq(Events), NEW t \in Seq(Events), NEW e \in Events, NEW r \in Seq(Events)
  PROVE  (x \o Append(t, e)) \o r = (x \o t) \o (<<e>> \o r)
<1>1. <<e>> \in Seq(Events) /\ <<e>> \o r \in Seq(Events) /\ Append(t, e) \in Seq(Events)
  BY ConcatProperties, AppendProperties
<1>2. \A u \in Seq(Events) : (x \o u) \o r = x \o (u \o r)
  BY ConcatAssociative
<1>3. (x \o t) \o (<<e>> \o r) = x \o (t \o (<<e>> \o r))
  BY <1>1, ConcatAssociative
<1> QED BY <1>1, <1>2, <1>3, Moved

LEMMA AppendedBehind ==
  ASSUME NEW x \in Seq(Events), NEW t \in Seq(Events), NEW e \in Events
  PROVE  x \o Append(t, e) = Append(x \o t, e)
<1>1. <<e>> \in Seq(Events) /\ x \o t \in Seq(Events)
  BY ConcatProperties
<1>2. Append(t, e) = t \o <<e>> /\ Append(x \o t, e) = (x \o t) \o <<e>>
  BY <1>1, AppendIsConcat
<1> QED BY <1>1, <1>2, ConcatAssociative

\* Counting on.
LEMMA NextNumber ==
  ASSUME NEW n \in Nat
  PROVE  Append([k \in 1..n |-> k], n + 1) = [k \in 1..(n + 1) |-> k]
OBVIOUS

-----------------------------------------------------------------------------
\* The steps.

LEMMA InitOK == Init => IInv
<1> SUFFICES ASSUME Init PROVE IInv
  OBVIOUS
<1>1. TypeOK
  <2>1. << >> \in Seq(Events) /\ Len(<< >>) = 0
    BY EmptySeq
  <2>2. emitted \in 0..MaxCalls
    BY MaxCallsAssumption DEF Init
  <2>3. at \in 1..(Len(local) + 1) /\ next \in 1..(Len(batch) + 1)
    BY <2>1 DEF Init
  <2> QED BY <2>1, <2>2, <2>3 DEF Init, TypeOK, Thread, Free
<1>2. Holders /\ Cleared
  BY DEF Init, Holders, Cleared, Free
<1>3. NoneLost
  <2>1. << >> \in Seq(Events) /\ Rest(<< >>, 1) = << >>
    BY EmptySeq, RestAll
  <2>2. << >> \o << >> = << >>
    BY <2>1, ConcatEmptySeq
  <2>3. [n \in 1..0 |-> n] = << >>
    OBVIOUS
  <2> QED BY <2>1, <2>2, <2>3 DEF Init, NoneLost
<1> QED BY <1>1, <1>2, <1>3 DEF IInv

\* The five parts of the stream are sequences of events.
LEMMA Parts ==
  ASSUME TypeOK
  PROVE  /\ Rest(batch, next) \in Seq(Events) /\ Rest(local, at) \in Seq(Events)
         /\ ran \o Rest(batch, next) \in Seq(Events)
         /\ (ran \o Rest(batch, next)) \o tasks \in Seq(Events)
         /\ ((ran \o Rest(batch, next)) \o tasks) \o Rest(local, at) \in Seq(Events)
<1>1. Rest(batch, next) \in Seq(Events) /\ Rest(local, at) \in Seq(Events)
  BY RestType DEF TypeOK
<1>2. ran \o Rest(batch, next) \in Seq(Events)
  BY <1>1, ConcatProperties DEF TypeOK
<1>3. (ran \o Rest(batch, next)) \o tasks \in Seq(Events)
  BY <1>2, ConcatProperties DEF TypeOK
<1> QED BY <1>1, <1>2, <1>3, ConcatProperties

LEMMA PushBackKeeps == IInv /\ PushBack => IInv'
<1> SUFFICES ASSUME IInv, PushBack PROVE IInv'
  OBVIOUS
<1> USE DEF PushBack, Pushing, shared, working, queued, consuming
<1>1. emitted + 1 \in Events /\ emitted \in Nat
  BY MaxCallsAssumption DEF IInv, TypeOK, Holders, Events
<1>2. TypeOK'
  BY <1>1, AppendProperties DEF IInv, TypeOK, Events, Thread, Free
<1>3. Holders' /\ Cleared'
  BY DEF IInv, Holders, Cleared, Free
<1>4. NoneLost'
  <2> DEFINE x == ((ran \o Rest(batch, next)) \o tasks) \o Rest(local, at)
  <2>1. x \in Seq(Events) /\ x \o pending = [n \in 1..emitted |-> n]
    BY Parts DEF IInv, NoneLost
  <2>2. NoneLost' <=> x \o Append(pending, emitted + 1) = [n \in 1..(emitted + 1) |-> n]
    BY DEF NoneLost
  <2> HIDE DEF x
  <2>3. x \o Append(pending, emitted + 1) = Append(x \o pending, emitted + 1)
    BY <1>1, <2>1, AppendedBehind DEF IInv, TypeOK
  <2> QED BY <1>1, <2>1, <2>2, <2>3, NextNumber
<1> QED BY <1>2, <1>3, <1>4 DEF IInv

LEMMA ConsumeSwapKeeps == IInv /\ ConsumeSwap => IInv'
<1> SUFFICES ASSUME IInv, ConsumeSwap PROVE IInv'
  OBVIOUS
<1> USE DEF ConsumeSwap, shared, working, queued, consuming
<1>1. batch = << >> /\ next = 1 /\ main = "idle"
  BY DEF IInv, Holders, Cleared
<1>2. TypeOK'
  BY LenProperties DEF IInv, TypeOK, Thread, Free
<1>3. Holders' /\ Cleared'
  BY <1>1 DEF IInv, Holders, Cleared, Free
<1>4. NoneLost'
  <2> DEFINE r == Rest(local, at)
             numbers == [n \in 1..emitted |-> n]
  <2>1. (((ran \o Rest(batch, next)) \o tasks) \o r) \o pending = numbers
    BY DEF IInv, NoneLost
  <2>2. NoneLost' <=> (((ran \o Rest(tasks, 1)) \o batch) \o r) \o pending = numbers
    BY DEF NoneLost
  <2> HIDE DEF r, numbers
  <2>3. << >> \in Seq(Events) /\ Rest(<< >>, 1) = << >>
    BY EmptySeq, RestAll
  <2>4. ran \in Seq(Events) /\ tasks \in Seq(Events) /\ ran \o tasks \in Seq(Events)
    BY ConcatProperties DEF IInv, TypeOK
  <2>5. ran \o << >> = ran /\ Rest(tasks, 1) = tasks /\ (ran \o tasks) \o << >> = ran \o tasks
    BY <2>4, ConcatEmptySeq, RestAll
  <2>6. (ran \o Rest(batch, next)) \o tasks = (ran \o Rest(tasks, 1)) \o batch
    BY ONLY <1>1, <2>3, <2>5
  <2> QED BY ONLY <2>1, <2>2, <2>6
<1> QED BY <1>2, <1>3, <1>4 DEF IInv

LEMMA RunTaskKeeps == IInv /\ RunTask => IInv'
<1> SUFFICES ASSUME IInv, RunTask PROVE IInv'
  OBVIOUS
<1> USE DEF RunTask, shared, working, queued, consuming
<1>1. next \in 1..Len(batch) /\ batch[next] \in Events
  BY LenProperties, ElementOfSeq DEF IInv, TypeOK
<1>2. TypeOK'
  BY <1>1, AppendProperties DEF IInv, TypeOK
<1>3. Holders' /\ Cleared'
  BY DEF IInv, Holders, Cleared, Free
<1>4. NoneLost'
  <2>1. Rest(batch, next + 1) \in Seq(Events)
    BY <1>1, RestType DEF IInv, TypeOK
  <2>2. ran \in Seq(Events) /\ batch \in Seq(Events)
    BY DEF IInv, TypeOK
  <2>3. Rest(batch, next) = <<batch[next]>> \o Rest(batch, next + 1)
    BY <1>1, <2>2, RestStep
  <2>4. Append(ran, batch[next]) \o Rest(batch, next + 1)
          = ran \o (<<batch[next]>> \o Rest(batch, next + 1))
    BY <1>1, <2>1, <2>2, Moved
  <2> QED BY <2>3, <2>4 DEF IInv, NoneLost
<1> QED BY <1>2, <1>3, <1>4 DEF IInv

LEMMA ConsumeEndKeeps == IInv /\ ConsumeEnd => IInv'
<1> SUFFICES ASSUME IInv, ConsumeEnd PROVE IInv'
  OBVIOUS
<1> USE DEF ConsumeEnd, shared, working, queued, consuming
<1>1. TypeOK'
  BY EmptySeq DEF IInv, TypeOK
<1>2. Holders' /\ Cleared'
  BY DEF IInv, Holders, Cleared, Free, Pushing
<1>3. NoneLost'
  <2>1. batch \in Seq(Events) /\ next \in Int /\ next > Len(batch)
    BY LenProperties DEF IInv, TypeOK
  <2>2. Rest(batch, next) = << >>
    BY <2>1, RestNone
  <2>3. Rest(<< >>, 1) = << >>
    BY RestAll, EmptySeq
  <2> QED BY <2>2, <2>3 DEF IInv, NoneLost
<1> QED BY <1>1, <1>2, <1>3 DEF IInv

LEMMA SwapKeeps == IInv /\ Swap => IInv'
<1> SUFFICES ASSUME IInv, Swap PROVE IInv'
  OBVIOUS
<1> USE DEF Swap, shared, working, queued, consuming
<1>1. local = << >> /\ at = 1 /\ worker = "swap"
  BY DEF IInv, Holders, Cleared
<1>2. TypeOK'
  BY LenProperties DEF IInv, TypeOK, Thread, Free
<1>3. Holders' /\ Cleared'
  BY <1>1 DEF IInv, Holders, Cleared, Free
<1>4. NoneLost'
  <2> DEFINE x == (ran \o Rest(batch, next)) \o tasks
  <2>1. x \in Seq(Events)
    BY Parts DEF IInv
  <2>2. (x \o Rest(local, at)) \o pending = [n \in 1..emitted |-> n]
    BY DEF IInv, NoneLost
  <2>3. NoneLost' <=> (x \o Rest(pending, 1)) \o local = [n \in 1..emitted |-> n]
    BY DEF NoneLost
  <2> HIDE DEF x
  <2>4. << >> \in Seq(Events) /\ Rest(<< >>, 1) = << >> /\ Rest(pending, 1) = pending
    BY EmptySeq, RestAll DEF IInv, TypeOK
  <2>5. x \o << >> = x /\ (x \o pending) \o << >> = x \o pending
    BY <2>1, ConcatEmptySeq, ConcatProperties DEF IInv, TypeOK
  <2> QED BY <1>1, <2>2, <2>3, <2>4, <2>5
<1> QED BY <1>2, <1>3, <1>4 DEF IInv

LEMMA PushTaskKeeps == IInv /\ PushTask => IInv'
<1> SUFFICES ASSUME IInv, PushTask PROVE IInv'
  OBVIOUS
<1> USE DEF PushTask, shared, working, queued, consuming
<1>1. at \in 1..Len(local) /\ local[at] \in Events /\ worker = "run"
  BY LenProperties, ElementOfSeq DEF IInv, TypeOK, Holders
<1>2. TypeOK'
  BY <1>1, AppendProperties DEF IInv, TypeOK, Thread, Free
<1>3. Holders' /\ Cleared'
  BY <1>1 DEF IInv, Holders, Cleared, Free
<1>4. NoneLost'
  <2> DEFINE x == ran \o Rest(batch, next)
  <2>1. x \in Seq(Events) /\ Rest(local, at + 1) \in Seq(Events)
    BY <1>1, Parts, RestType DEF IInv, TypeOK
  <2>2. ((x \o tasks) \o Rest(local, at)) \o pending = [n \in 1..emitted |-> n]
    BY DEF IInv, NoneLost
  <2>3. NoneLost' <=>
          ((x \o Append(tasks, local[at])) \o Rest(local, at + 1)) \o pending
            = [n \in 1..emitted |-> n]
    BY DEF NoneLost
  <2> HIDE DEF x
  <2>4. tasks \in Seq(Events) /\ local \in Seq(Events)
    BY DEF IInv, TypeOK
  <2>5. Rest(local, at) = <<local[at]>> \o Rest(local, at + 1)
    BY <1>1, <2>4, RestStep
  <2>6. (x \o Append(tasks, local[at])) \o Rest(local, at + 1)
          = (x \o tasks) \o (<<local[at]>> \o Rest(local, at + 1))
    BY <1>1, <2>1, <2>4, MovedBehind
  <2> QED BY <2>2, <2>3, <2>5, <2>6
<1> QED BY <1>2, <1>3, <1>4 DEF IInv

LEMMA ClearKeeps == IInv /\ Clear => IInv'
<1> SUFFICES ASSUME IInv, Clear PROVE IInv'
  OBVIOUS
<1> USE DEF Clear, shared, working, queued, consuming
<1>1. TypeOK'
  BY EmptySeq DEF IInv, TypeOK
<1>2. Holders' /\ Cleared'
  BY DEF IInv, Holders, Cleared, Free
<1>3. NoneLost'
  <2>1. local \in Seq(Events) /\ at \in Int /\ at > Len(local)
    BY LenProperties DEF IInv, TypeOK
  <2>2. Rest(local, at) = << >>
    BY <2>1, RestNone
  <2>3. Rest(<< >>, 1) = << >>
    BY RestAll, EmptySeq
  <2> QED BY <2>2, <2>3 DEF IInv, NoneLost
<1> QED BY <1>1, <1>2, <1>3 DEF IInv

\* The other steps of the threads touch no buffer.
LEMMA LocksKeep ==
  IInv /\ (PushLock \/ ConsumeLock \/ Terminate \/ Join \/ Check \/ SwapLock \/ TaskLock)
    => IInv'
<1> SUFFICES ASSUME IInv,
                    PushLock \/ ConsumeLock \/ Terminate \/ Join \/ Check \/ SwapLock \/ TaskLock
             PROVE  IInv'
  OBVIOUS
<1> USE DEF PushLock, ConsumeLock, Terminate, Join, Check, SwapLock, TaskLock, Pushing,
            shared, working, queued, consuming
<1>1. UNCHANGED <<emitted, pending, local, at, tasks, batch, next, ran>>
  OBVIOUS
<1>2. TypeOK'
  BY <1>1 DEF IInv, TypeOK, Thread, Free
<1>3. Holders'
  BY DEF IInv, Holders, Free
<1>4. Cleared'
  BY DEF IInv, Cleared
<1>5. NoneLost'
  BY <1>1 DEF IInv, NoneLost
<1> QED BY <1>2, <1>3, <1>4, <1>5 DEF IInv

LEMMA StepOK == IInv /\ [Next]_vars => IInv'
<1> SUFFICES ASSUME IInv, [Next]_vars PROVE IInv'
  OBVIOUS
<1>1. CASE UNCHANGED vars
  BY <1>1 DEF vars, shared, working, queued, consuming, IInv, TypeOK, Holders, Cleared, NoneLost
<1>2. CASE Main
  BY <1>2, PushBackKeeps, ConsumeSwapKeeps, RunTaskKeeps, ConsumeEndKeeps, LocksKeep DEF Main
<1>3. CASE Worker
  BY <1>3, SwapKeeps, PushTaskKeeps, ClearKeeps, LocksKeep DEF Worker
<1> QED BY <1>1, <1>2, <1>3 DEF Next, Ended

\* What stands before a part of the stream is not moved by it.
LEMMA Before ==
  ASSUME NEW x \in Seq(Events), NEW y \in Seq(Events), NEW n \in 1..Len(x)
  PROVE  n \in 1..Len(x \o y) /\ (x \o y)[n] = x[n]
BY LenProperties, ConcatProperties

\* The task that runs next is the event that follows those that have run.
LEMMA NextTask ==
  ASSUME IInv, RunTask
  PROVE  batch[next] = Len(ran) + 1 /\ Len(ran) < emitted
<1>1. /\ ran \in Seq(Events) /\ batch \in Seq(Events) /\ tasks \in Seq(Events)
      /\ pending \in Seq(Events) /\ emitted \in Nat /\ next \in 1..Len(batch)
  BY LenProperties, MaxCallsAssumption DEF IInv, TypeOK, RunTask
<1>2. Rest(batch, next) \in Seq(Events) /\ Rest(local, at) \in Seq(Events)
  BY Parts DEF IInv
<1>3. Rest(batch, next) # << >> /\ Rest(batch, next)[1] = batch[next]
  <2>1. <<batch[next]>> \in Seq(Events) /\ Rest(batch, next + 1) \in Seq(Events)
    BY <1>1, ElementOfSeq, RestType
  <2> DEFINE s == <<batch[next]>> \o Rest(batch, next + 1)
  <2>2. Len(s) = 1 + Len(Rest(batch, next + 1)) /\ s[1] = batch[next]
    BY <2>1, LenProperties, ConcatProperties
  <2>3. Rest(batch, next) = s
    BY <1>1, RestStep
  <2> HIDE DEF s
  <2> QED BY <2>1, <2>2, <2>3, LenProperties, EmptySeq
<1> DEFINE b == Rest(batch, next)
           x1 == ran \o b
           x2 == x1 \o tasks
           x3 == x2 \o Rest(local, at)
           n == Len(ran) + 1
<1>4. x1 \in Seq(Events) /\ x2 \in Seq(Events) /\ x3 \in Seq(Events)
  BY Parts DEF IInv
<1>5. x3 \o pending = [k \in 1..emitted |-> k]
  BY DEF IInv, NoneLost
<1>6. n \in 1..Len(x1) /\ x1[n] = batch[next]
  <2> HIDE DEF b
  <2> QED BY <1>1, <1>2, <1>3, LenProperties, EmptySeq, ConcatProperties DEF b
<1> HIDE DEF b, x1, n
<1>7. n \in 1..Len(x2) /\ x2[n] = batch[next]
  BY <1>1, <1>4, <1>6, Before
<1> HIDE DEF x2
<1>8. n \in 1..Len(x3) /\ x3[n] = batch[next]
  BY <1>2, <1>4, <1>7, Before
<1> HIDE DEF x3
<1>9. n \in 1..Len(x3 \o pending) /\ (x3 \o pending)[n] = batch[next]
  BY <1>1, <1>4, <1>8, Before
<1>10. n \in 1..emitted /\ n = batch[next]
  BY <1>1, <1>5, <1>9
<1>11. Len(ran) \in Nat
  BY <1>1, LenProperties
<1> QED BY <1>1, <1>10, <1>11 DEF n

-----------------------------------------------------------------------------
\* The buffers, positions and locks stay well formed: no position runs past the
\* buffer it is in, for any number of events.
THEOREM TypeCorrect == Spec => []TypeOK
<1>1. IInv => TypeOK
  BY DEF IInv
<1> QED BY InitOK, StepOK, <1>1, PTL DEF Spec

\* callback_queue's worker and consume_tasks lose, repeat and reorder nothing,
\* however many events are emitted and whenever the threads swap their buffers.
THEOREM NothingLost == Spec => []NoneLost
<1>1. IInv => NoneLost
  BY DEF IInv
<1> QED BY InitOK, StepOK, <1>1, PTL DEF Spec

\* The two queues implement the stream that a frontend relies on: each step of
\* either thread emits the next event, handles the next one, or does neither.
THEOREM ImplementsStream == Spec => InOrder
<1>1. Init => Stream!Init
  BY DEF Init, Stream!Init
<1>2. IInv /\ [Next]_vars => [Stream!Next]_<<emitted, ran>>
  <2> SUFFICES ASSUME IInv, [Next]_vars PROVE [Stream!Next]_<<emitted, ran>>
    OBVIOUS
  <2>1. CASE PushBack
    BY <2>1 DEF PushBack, consuming, Stream!Next, Stream!Emit
  <2>2. CASE RunTask
    BY <2>2, NextTask DEF RunTask, Stream!Next, Stream!Handle
  <2>3. CASE \/ UNCHANGED vars \/ PushLock \/ ConsumeLock \/ ConsumeSwap \/ ConsumeEnd
             \/ Terminate \/ Join \/ Worker \/ Ended
    BY <2>3 DEF vars, consuming, PushLock, ConsumeLock, ConsumeSwap, ConsumeEnd, Terminate,
       Join, Worker, Check, SwapLock, Swap, TaskLock, PushTask, Clear, Ended
  <2> QED BY <2>1, <2>2, <2>3 DEF Next, Main
<1> QED BY InitOK, StepOK, <1>1, <1>2, PTL DEF Spec, InOrder, Stream!Spec

=============================================================================
