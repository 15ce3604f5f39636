-------------------------- MODULE TorControlProofs --------------------------
(***************************************************************************)
(* Safety of the control connection, for every limit of the attempts, of   *)
(* the faults and of the logins.                                           *)
(*                                                                         *)
(* The inductive invariant IInv says what TorControl's status, its socket  *)
(* and its port have to do with each other (the code keeps the three apart *)
(* and sets them in different handlers), and that the commands it waits    *)
(* for are those that tor has answered or has yet to read.                 *)
(***************************************************************************)
EXTENDS TorControl, SequenceTheorems, FiniteSetTheorems, FunctionTheorems, TLAPS

\* Until the port file is read nothing has been dialled.
StartOK ==
  /\ daemon = "launching" => ~timer
  /\ timer \/ daemon = "launching" => ~address
  /\ ~address => sock = "closed" /\ status = "NotConnected" /\ ~retry

\* The status follows the socket.
StatusOK ==
  /\ sock = "closed" => status \in {"Error", "NotConnected"}
  /\ sock = "connecting" => status = "Connecting"
  /\ sock = "open" => status \in {"Authenticating", "Connected"}

\* A socket that is not open has read everything, and one that is closed has
\* nothing to write; what was written before it was open is read after that.
WiresOK ==
  /\ sock # "open" => fromTor = << >> /\ ~hup
  /\ sock = "closed" => toTor = << >>
  /\ sock # "open" /\ ~stray => queue = toTor

IInv ==
  /\ TypeOK /\ StartOK /\ StatusOK /\ WiresOK
  /\ RetryPending /\ ConnectivityIsTrue /\ RepliesMatch

Messages == Replies \cup Events

-----------------------------------------------------------------------------
\* Counting replies.

LEMMA AnswersType ==
  ASSUME NEW wire, NEW n \in Nat
  PROVE  /\ IsFiniteSet({m \in 1..n : wire[m].to # "event"})
         /\ Answers(wire, n) \in Nat
<1>1. IsFiniteSet(1..n)
  BY FS_Interval
<1>2. IsFiniteSet({m \in 1..n : wire[m].to # "event"})
  BY <1>1, FS_Subset
<1> QED BY <1>2, FS_CardinalityType DEF Answers

\* One message more counts one reply more, or none.
LEMMA AnswersStep ==
  ASSUME NEW wire, NEW n \in Nat
  PROVE  Answers(wire, n + 1) = Answers(wire, n) + IF wire[n + 1].to = "event" THEN 0 ELSE 1
<1> DEFINE Before == {m \in 1..n : wire[m].to # "event"}
           Upto == {m \in 1..(n + 1) : wire[m].to # "event"}
<1>1. IsFiniteSet(Before) /\ Cardinality(Before) \in Nat
  BY AnswersType, FS_CardinalityType
<1>4. Answers(wire, n) = Cardinality(Before) /\ Answers(wire, n + 1) = Cardinality(Upto)
  BY DEF Answers
<1>2. CASE wire[n + 1].to = "event"
  <2>1. Upto = Before
    BY <1>2
  <2>2. Cardinality(Upto) = Cardinality(Before)
    BY <2>1
  <2> HIDE DEF Upto, Before
  <2> QED BY <1>1, <1>2, <1>4, <2>2
<1>3. CASE wire[n + 1].to # "event"
  <2>1. Upto = Before \cup {n + 1}
    BY <1>3
  <2>2. n + 1 \notin Before
    OBVIOUS
  <2>3. Cardinality(Before \cup {n + 1}) = Cardinality(Before) + 1
    BY <1>1, <2>2, FS_AddElement
  <2>4. Cardinality(Upto) = Cardinality(Before) + 1
    BY <2>1, <2>3
  <2> HIDE DEF Upto, Before
  <2> QED BY <1>1, <1>3, <1>4, <2>4
<1> QED BY <1>2, <1>3

LEMMA AnswersMonotone ==
  ASSUME NEW wire, NEW m \in Nat, NEW n \in Nat, m <= n
  PROVE  Answers(wire, m) <= Answers(wire, n)
<1>1. {k \in 1..m : wire[k].to # "event"} \in SUBSET {k \in 1..n : wire[k].to # "event"}
  OBVIOUS
<1> QED BY <1>1, AnswersType, FS_Subset DEF Answers

\* The count is that of what is on the wire up to there.
LEMMA AnswersSame ==
  ASSUME NEW wire, NEW longer, NEW n \in Nat, \A m \in 1..n : wire[m] = longer[m]
  PROVE  Answers(wire, n) = Answers(longer, n)
<1>1. {m \in 1..n : wire[m].to # "event"} = {m \in 1..n : longer[m].to # "event"}
  OBVIOUS
<1> QED BY <1>1 DEF Answers

LEMMA AnswersNone == ASSUME NEW wire PROVE Answers(wire, 0) = 0
<1>1. {m \in 1..0 : wire[m].to # "event"} = {}
  OBVIOUS
<1> QED BY <1>1, FS_EmptySet DEF Answers

\* What is read leaves the count of what comes after it one behind.
LEMMA AnswersShift ==
  ASSUME NEW wire, NEW rest, NEW n \in Nat, \A m \in 1..n : rest[m] = wire[m + 1]
  PROVE  Answers(wire, n + 1) = Answers(rest, n) + IF wire[1].to = "event" THEN 0 ELSE 1
<1> DEFINE Rest == {m \in 1..n : rest[m].to # "event"}
           Later == {m \in 2..(n + 1) : wire[m].to # "event"}
           All == {m \in 1..(n + 1) : wire[m].to # "event"}
           shift == [m \in Rest |-> m + 1]
<1>1. IsFiniteSet(Rest) /\ Cardinality(Rest) \in Nat
  BY AnswersType, FS_CardinalityType
<1>2. shift \in Bijection(Rest, Later)
  <2>1. shift \in [Rest -> Later]
    OBVIOUS
  <2>2. \A a, b \in Rest : shift[a] = shift[b] => a = b
    OBVIOUS
  <2>3. ASSUME NEW b \in Later PROVE \E a \in Rest : shift[a] = b
    <3>1. b - 1 \in Rest
      OBVIOUS
    <3>2. shift[b - 1] = b
      BY <3>1
    <3> QED BY <3>1, <3>2
  <2> QED BY <2>1, <2>2, <2>3, Fun_IsBij
<1>3. IsFiniteSet(Later) /\ Cardinality(Later) = Cardinality(Rest)
  BY <1>1, <1>2, FS_Bijection DEF ExistsBijection
<1>4. CASE wire[1].to = "event"
  <2>1. All = Later
    BY <1>4
  <2> QED BY <1>1, <1>3, <1>4, <2>1 DEF Answers
<1>5. CASE wire[1].to # "event"
  <2>1. All = Later \cup {1}
    BY <1>5
  <2>2. 1 \notin Later
    OBVIOUS
  <2>3. Cardinality(Later \cup {1}) = Cardinality(Later) + 1
    BY <1>3, <2>2, FS_AddElement
  <2> QED BY <1>3, <1>5, <2>1, <2>3 DEF Answers
<1> QED BY <1>4, <1>5

-----------------------------------------------------------------------------
\* What keeps a wire matched with the queue of commands.

\* The lengths and counts that an index of the queue is made of.
LEMMA AnswersBounds ==
  ASSUME NEW wire \in Seq(Messages), NEW n \in DOMAIN wire, wire[n].to # "event"
  PROVE  Answers(wire, n) \in 1..Answers(wire, Len(wire))
<1>1. Len(wire) \in Nat /\ n \in Nat \ {0} /\ n - 1 \in Nat /\ n <= Len(wire)
  BY LenProperties
<1>2. Answers(wire, n) = Answers(wire, n - 1) + 1
  BY <1>1, AnswersStep
<1>3. Answers(wire, n - 1) \in Nat /\ Answers(wire, n) \in Nat /\ Answers(wire, Len(wire)) \in Nat
  BY <1>1, AnswersType
<1>4. Answers(wire, n) <= Answers(wire, Len(wire))
  BY <1>1, AnswersMonotone
<1> QED BY <1>2, <1>3, <1>4

\* Nothing is answered yet on a new connection.
LEMMA MatchedEmpty ==
  ASSUME NEW q \in Seq(Commands)
  PROVE  Matched(<< >>, q, q)
<1>1. Answers(<< >>, Len(<< >>)) = 0 /\ DOMAIN (<< >>) = {}
  BY AnswersNone
<1>2. Len(q) \in Nat /\ DOMAIN q = 1..Len(q)
  BY LenProperties
<1> QED BY <1>1, <1>2 DEF Matched

\* Commands that are queued and written together stay matched.
LEMMA MatchedWrites ==
  ASSUME NEW wire \in Seq(Messages), NEW unread \in Seq(Commands), NEW q \in Seq(Commands),
         NEW more \in Seq(Commands), Matched(wire, unread, q)
  PROVE  Matched(wire, unread \o more, q \o more)
<1> DEFINE a == Answers(wire, Len(wire))
           u == unread \o more
           v == q \o more
<1>1. a \in Nat
  BY LenProperties, AnswersType
<1>2. Len(q) = a + Len(unread) /\ Len(q) \in Nat /\ Len(unread) \in Nat /\ Len(more) \in Nat
  BY LenProperties DEF Matched
<1>3. /\ u \in Seq(Commands) /\ Len(u) = Len(unread) + Len(more)
      /\ \A i \in 1..Len(unread) + Len(more) :
           u[i] = IF i <= Len(unread) THEN unread[i] ELSE more[i - Len(unread)]
  BY ConcatProperties
<1>4. /\ v \in Seq(Commands) /\ Len(v) = Len(q) + Len(more)
      /\ \A i \in 1..Len(q) + Len(more) :
           v[i] = IF i <= Len(q) THEN q[i] ELSE more[i - Len(q)]
  BY ConcatProperties
<1>5. DOMAIN u = 1..Len(u) /\ DOMAIN unread = 1..Len(unread)
  BY <1>3, LenProperties
<1> HIDE DEF u, v
<1>6. Len(v) = a + Len(u)
  BY <1>1, <1>2, <1>3, <1>4
<1>7. ASSUME NEW n \in DOMAIN wire, wire[n].to # "event" PROVE v[Answers(wire, n)] = wire[n].to
  <2>1. Answers(wire, n) \in 1..a
    BY <1>7, AnswersBounds
  <2>2. q[Answers(wire, n)] = wire[n].to
    BY <1>7 DEF Matched
  <2>3. Answers(wire, n) \in 1..Len(q)
    BY <1>1, <1>2, <2>1
  <2> QED BY <1>2, <1>4, <2>2, <2>3
<1>8. ASSUME NEW n \in DOMAIN u PROVE v[a + n] = u[n]
  <2>1. n \in 1..(Len(unread) + Len(more))
    BY <1>3, <1>5
  <2>2. CASE n <= Len(unread)
    <3>1. q[a + n] = unread[n]
      BY <1>2, <1>5, <2>1, <2>2 DEF Matched
    <3>2. u[n] = unread[n]
      BY <1>2, <1>3, <2>1, <2>2
    <3>3. PICK j \in Int : j = a + n
      BY <1>1, <2>1
    <3>4. j \in 1..Len(q)
      BY <1>1, <1>2, <2>1, <2>2, <3>3
    <3>5. v[j] = q[j]
      BY <1>2, <1>4, <3>4
    <3> QED BY <1>1, <2>1, <3>1, <3>2, <3>3, <3>5
  <2>3. CASE ~(n <= Len(unread))
    <3>1. PICK j \in Int, k \in Int : j = a + n /\ k = n - Len(unread) /\ k = j - Len(q)
      BY <1>1, <1>2, <2>1
    <3>2. j \in 1..Len(q) + Len(more) /\ ~(j <= Len(q))
      <4>1. k \in 1..Len(more)
        BY <1>2, <2>1, <2>3, <3>1
      <4>2. Len(q) \in Nat /\ Len(more) \in Nat /\ k = j - Len(q)
        BY <1>2, <3>1
      <4> QED BY ONLY <3>1, <4>1, <4>2
    <3>3. u[n] = more[k]
      BY <1>2, <1>3, <2>1, <2>3, <3>1
    <3>4. v[j] = more[k]
      BY <1>2, <1>4, <3>1, <3>2
    <3> QED BY <1>1, <2>1, <3>1, <3>3, <3>4
  <2> QED BY <2>2, <2>3
<1> QED BY <1>6, <1>7, <1>8 DEF Matched, u, v

\* Tor answers the command that it reads.
LEMMA MatchedAnswer ==
  ASSUME NEW wire \in Seq(Messages), NEW unread \in Seq(Commands), NEW q \in Seq(Commands),
         NEW r \in Messages, unread # << >>, r.to = Head(unread), r.to # "event",
         Matched(wire, unread, q)
  PROVE  Matched(Append(wire, r), Tail(unread), q)
<1> DEFINE a == Answers(wire, Len(wire))
           w == Append(wire, r)
           t == Tail(unread)
<1>1. a \in Nat /\ Len(wire) \in Nat /\ DOMAIN wire = 1..Len(wire)
  BY LenProperties, AnswersType
<1>2. /\ w \in Seq(Messages) /\ Len(w) = Len(wire) + 1 /\ w[Len(wire) + 1] = r
      /\ \A i \in 1..Len(wire) : w[i] = wire[i]
  BY AppendProperties
<1>3. /\ t \in Seq(Commands) /\ Len(t) = Len(unread) - 1
      /\ \A i \in 1..Len(t) : t[i] = unread[i + 1]
  BY HeadTailProperties
<1>4. /\ Len(unread) \in Nat \ {0} /\ DOMAIN unread = 1..Len(unread) /\ unread[1] = r.to
  BY LenProperties, EmptySeq
<1>5. DOMAIN w = 1..Len(w) /\ DOMAIN t = 1..Len(t) /\ Len(t) \in Nat
  BY <1>2, <1>3, LenProperties
<1> HIDE DEF w, t
<1>6. \A n \in 1..Len(wire) : Answers(w, n) = Answers(wire, n)
  <2> TAKE n \in 1..Len(wire)
  <2>1. n \in Nat /\ \A m \in 1..n : w[m] = wire[m]
    BY <1>1, <1>2
  <2> QED BY <2>1, AnswersSame
<1>7. Answers(w, Len(w)) = a + 1
  <2>1. Answers(w, Len(wire)) = a
    BY <1>1, <1>2, AnswersSame
  <2> QED BY <1>1, <1>2, <2>1, AnswersStep
<1>8. Len(q) = a + Len(unread)
  BY DEF Matched
<1>9. ASSUME NEW n \in DOMAIN w, w[n].to # "event" PROVE q[Answers(w, n)] = w[n].to
  <2>1. CASE n \in 1..Len(wire)
    BY <1>1, <1>2, <1>6, <1>9, <2>1 DEF Matched
  <2>2. CASE n = Len(wire) + 1
    <3>1. q[a + 1] = unread[1]
      BY <1>4 DEF Matched
    <3> QED BY <1>2, <1>4, <1>7, <2>2, <3>1
  <2> QED BY <1>1, <1>2, <1>5, <2>1, <2>2
<1>10. ASSUME NEW n \in DOMAIN t PROVE q[Answers(w, Len(w)) + n] = t[n]
  <2>1. n \in Int /\ n + 1 \in DOMAIN unread
    BY <1>3, <1>4, <1>5
  <2>2. q[a + (n + 1)] = unread[n + 1]
    BY <2>1 DEF Matched
  <2>3. a + (n + 1) = (a + 1) + n
    BY <1>1, <2>1
  <2> QED BY <1>3, <1>5, <1>7, <2>2, <2>3
<1>11. Len(q) = Answers(w, Len(w)) + Len(t)
  BY <1>1, <1>3, <1>4, <1>7, <1>8
<1> QED BY <1>9, <1>10, <1>11 DEF Matched, w, t

\* An event answers nothing.
LEMMA MatchedEvent ==
  ASSUME NEW wire \in Seq(Messages), NEW unread \in Seq(Commands), NEW q \in Seq(Commands),
         NEW e \in Messages, e.to = "event", Matched(wire, unread, q)
  PROVE  Matched(Append(wire, e), unread, q)
<1> DEFINE w == Append(wire, e)
<1>1. Answers(wire, Len(wire)) \in Nat /\ Len(wire) \in Nat /\ DOMAIN wire = 1..Len(wire)
  BY LenProperties, AnswersType
<1>2. /\ w \in Seq(Messages) /\ Len(w) = Len(wire) + 1 /\ w[Len(wire) + 1] = e
      /\ \A i \in 1..Len(wire) : w[i] = wire[i]
  BY AppendProperties
<1>3. DOMAIN w = 1..Len(w)
  BY <1>2, LenProperties
<1> HIDE DEF w
<1>4. \A n \in 1..Len(wire) : Answers(w, n) = Answers(wire, n)
  <2> TAKE n \in 1..Len(wire)
  <2>1. n \in Nat /\ \A m \in 1..n : w[m] = wire[m]
    BY <1>1, <1>2
  <2> QED BY <2>1, AnswersSame
<1>5. Answers(w, Len(w)) = Answers(wire, Len(wire))
  <2>1. Answers(w, Len(wire)) = Answers(wire, Len(wire))
    BY <1>1, <1>2, AnswersSame
  <2>2. Answers(w, Len(wire) + 1) = Answers(w, Len(wire)) + 0
    BY <1>1, <1>2, AnswersStep
  <2> QED BY <1>1, <1>2, <2>1, <2>2
<1>6. ASSUME NEW n \in DOMAIN w, w[n].to # "event" PROVE q[Answers(w, n)] = w[n].to
  <2>1. n \in 1..Len(wire)
    BY <1>1, <1>2, <1>3, <1>6
  <2> QED BY <1>1, <1>2, <1>4, <1>6, <2>1 DEF Matched
<1> QED BY <1>5, <1>6 DEF Matched, w

\* The program reads a reply, which answers the first command of its queue.
LEMMA MatchedReply ==
  ASSUME NEW wire \in Seq(Messages), NEW unread \in Seq(Commands), NEW q \in Seq(Commands),
         wire # << >>, Head(wire).to # "event", Matched(wire, unread, q)
  PROVE  /\ q # << >> /\ Head(q) = Head(wire).to
         /\ Matched(Tail(wire), unread, Tail(q))
<1> DEFINE a == Answers(wire, Len(wire))
           w == Tail(wire)
           t == Tail(q)
<1>1. a \in Nat /\ Len(wire) \in Nat \ {0} /\ DOMAIN wire = 1..Len(wire)
  BY LenProperties, AnswersType, EmptySeq
<1>2. /\ w \in Seq(Messages) /\ Len(w) = Len(wire) - 1
      /\ \A i \in 1..Len(w) : w[i] = wire[i + 1]
  BY HeadTailProperties
<1>3. DOMAIN w = 1..Len(w) /\ Len(w) \in Nat /\ Head(wire) = wire[1]
  BY <1>2, LenProperties
<1> HIDE DEF w
<1>4. \A n \in 0..Len(w) : Answers(wire, n + 1) = Answers(w, n) + 1
  <2> TAKE n \in 0..Len(w)
  <2>1. n \in Nat /\ \A m \in 1..n : w[m] = wire[m + 1]
    BY <1>2, <1>3
  <2> QED BY <1>3, <2>1, AnswersShift
<1>5. a = Answers(w, Len(w)) + 1 /\ Answers(w, Len(w)) \in Nat
  <2>1. Answers(wire, Len(w) + 1) = Answers(w, Len(w)) + 1 /\ Len(w) + 1 = Len(wire)
    BY <1>1, <1>2, <1>3, <1>4
  <2>2. Answers(w, Len(w)) \in Nat
    BY <1>3, AnswersType
  <2> QED BY <2>1, <2>2
<1>6. Answers(wire, 1) = 1
  <2>1. Answers(wire, 0 + 1) = Answers(w, 0) + 1
    BY <1>3, <1>4
  <2> QED BY <2>1, AnswersNone
<1>7. q[1] = Head(wire).to
  BY <1>1, <1>3, <1>6 DEF Matched
<1>8. Len(q) = a + Len(unread) /\ Len(unread) \in Nat /\ Len(q) \in Nat \ {0}
      /\ DOMAIN unread = 1..Len(unread)
  BY <1>5, LenProperties DEF Matched
<1>9. q # << >> /\ Head(q) = q[1]
  BY <1>8, EmptySeq
<1>10. /\ t \in Seq(Commands) /\ Len(t) = Len(q) - 1
       /\ \A i \in 1..Len(t) : t[i] = q[i + 1]
  BY <1>9, HeadTailProperties
<1> HIDE DEF t
<1>11. ASSUME NEW n \in DOMAIN w, w[n].to # "event" PROVE t[Answers(w, n)] = w[n].to
  <2>1. Answers(w, n) \in 1..Answers(w, Len(w))
    BY <1>2, <1>11, AnswersBounds
  <2>2. Answers(w, n) \in 1..Len(t)
    BY <1>5, <1>8, <1>10, <2>1
  <2>3. Answers(wire, n + 1) = Answers(w, n) + 1
    BY <1>3, <1>4
  <2>4. n + 1 \in DOMAIN wire /\ wire[n + 1] = w[n]
    BY <1>1, <1>2, <1>3
  <2>5. q[Answers(wire, n + 1)] = w[n].to
    BY <1>11, <2>4 DEF Matched
  <2> QED BY <1>10, <2>2, <2>3, <2>5
<1>12. ASSUME NEW n \in DOMAIN unread PROVE t[Answers(w, Len(w)) + n] = unread[n]
  <2>1. q[a + n] = unread[n]
    BY DEF Matched
  <2>2. Answers(w, Len(w)) + n \in 1..Len(t) /\ a + n = (Answers(w, Len(w)) + n) + 1
    <3> DEFINE b == Answers(w, Len(w))
    <3> HIDE DEF a, b
    <3>1. Len(t) = Len(q) - 1
      BY <1>10
    <3>2. n \in 1..Len(unread)
      BY <1>8
    <3>3. a = b + 1 /\ b \in Nat /\ a \in Nat
      BY <1>1, <1>5 DEF b
    <3>4. Len(q) = a + Len(unread) /\ Len(unread) \in Nat
      BY <1>8
    <3>5. b + n \in 1..Len(t) /\ a + n = (b + n) + 1
      BY ONLY <3>1, <3>2, <3>3, <3>4
    <3> QED BY <3>5 DEF b
  <2> QED BY <1>10, <2>1, <2>2
<1>13. Len(t) = Answers(w, Len(w)) + Len(unread)
  BY <1>5, <1>8, <1>10
<1>14. Matched(w, unread, t)
  BY <1>11, <1>12, <1>13 DEF Matched
<1> QED BY <1>7, <1>9, <1>14 DEF w, t

\* The program reads an event.
LEMMA MatchedHeard ==
  ASSUME NEW wire \in Seq(Messages), NEW unread \in Seq(Commands), NEW q \in Seq(Commands),
         wire # << >>, Head(wire).to = "event", Matched(wire, unread, q)
  PROVE  Matched(Tail(wire), unread, q)
<1> DEFINE w == Tail(wire)
<1>1. Len(wire) \in Nat \ {0} /\ DOMAIN wire = 1..Len(wire)
  BY LenProperties, EmptySeq
<1>2. /\ w \in Seq(Messages) /\ Len(w) = Len(wire) - 1
      /\ \A i \in 1..Len(w) : w[i] = wire[i + 1]
  BY HeadTailProperties
<1>3. DOMAIN w = 1..Len(w) /\ Len(w) \in Nat /\ Head(wire) = wire[1]
  BY <1>2, LenProperties
<1> HIDE DEF w
<1>4. \A n \in 0..Len(w) : Answers(wire, n + 1) = Answers(w, n)
  <2> TAKE n \in 0..Len(w)
  <2>1. n \in Nat /\ \A m \in 1..n : w[m] = wire[m + 1]
    BY <1>2, <1>3
  <2>2. Answers(wire, n + 1) = Answers(w, n) + 0
    BY <1>3, <2>1, AnswersShift
  <2>3. Answers(w, n) \in Nat
    BY <2>1, AnswersType
  <2> QED BY <2>2, <2>3
<1>5. Answers(wire, Len(wire)) = Answers(w, Len(w))
  <2>1. Answers(wire, Len(w) + 1) = Answers(w, Len(w)) /\ Len(w) + 1 = Len(wire)
    BY <1>1, <1>2, <1>3, <1>4
  <2> QED BY <2>1
<1>6. ASSUME NEW n \in DOMAIN w, w[n].to # "event" PROVE q[Answers(w, n)] = w[n].to
  <2>1. Answers(wire, n + 1) = Answers(w, n)
    BY <1>3, <1>4
  <2>2. n + 1 \in DOMAIN wire /\ wire[n + 1] = w[n]
    BY <1>1, <1>2, <1>3
  <2> QED BY <1>6, <2>1, <2>2 DEF Matched
<1> QED BY <1>5, <1>6 DEF Matched, w

-----------------------------------------------------------------------------
\* Typing and the shape of the state.

TorStatus == {"Unknown", "Offline", "Ready"}
Calls == {"connected", "confirmed", "refused"}

LEMMA SendType ==
  ASSUME TypeOK, NEW q \in Seq(Commands), NEW cs \in Seq(Commands), SendCommands(q, cs)
  PROVE  queue' \in Seq(Commands) /\ toTor' \in Seq(Commands) /\ stray' \in BOOLEAN
<1>1. q \o cs \in Seq(Commands) /\ toTor \o cs \in Seq(Commands)
  BY ConcatProperties DEF TypeOK
<1> QED BY <1>1 DEF SendCommands, TypeOK

LEMMA ConnectableType ==
  ASSUME TypeOK, NEW known \in BOOLEAN, NEW s \in TorStatus, Connectable(known, s)
  PROVE  socks' = known /\ torStatus' = s /\ dial' \in {"idle", "dialling"} /\ redial' \in BOOLEAN
BY DEF Connectable, ConnectivityChanged, Connectivity, TypeOK, dialling

\* The literal sequences of commands.
LEMMA Literals ==
  /\ <<"events", "events", "info">> \in Seq(Commands)
  /\ <<Configured, "net", "onion">> \in Seq(Commands)
  /\ <<"default">> \in Seq(Commands)
  /\ \A s : Asks(s) \in Seq(Commands)
  /\ \A s, first : Asks(s) \o (IF first THEN <<"own", "owner">> ELSE << >>) \in Seq(Commands)
<1>1. {"events", "info", "user", "default", "net", "onion", "socks", "own", "owner"}
         \subseteq Commands
  BY DEF Commands, SetConf, GetInfo
<1>2. \A s : Asks(s) \in Seq(Commands)
  BY <1>1 DEF Asks
<1>3. ASSUME NEW s, NEW first
      PROVE  Asks(s) \o (IF first THEN <<"own", "owner">> ELSE << >>) \in Seq(Commands)
  <2> DEFINE more == IF first THEN <<"own", "owner">> ELSE << >>
  <2>1. more \in Seq(Commands)
    BY <1>1
  <2> HIDE DEF more
  <2>2. Asks(s) \o more \in Seq(Commands)
    BY <1>2, <2>1, ConcatProperties
  <2> QED BY <2>2 DEF more
<1> QED BY <1>1, <1>2, <1>3 DEF Configured

\* TypeOK, by the part of the system that a variable belongs to.
DaemonOK ==
  /\ proc \in {"Starting", "Connecting", "Ready", "Failed"}
  /\ timer \in BOOLEAN /\ ticks \in 0..(TickLimit + 1)
  /\ daemon \in {"launching", "running", "dead", "reaped"}
  /\ port \in BOOLEAN /\ net \in BOOLEAN /\ circuit \in BOOLEAN
  /\ session \in [authed : BOOLEAN, events : BOOLEAN, onion : BOOLEAN]
  /\ applied \subseteq {"user", "default"}
  /\ faults \in 0..MaxFaults /\ logins \in 0..MaxLogins
SocketOK ==
  /\ sock \in {"closed", "connecting", "open"} /\ hup \in BOOLEAN
  /\ toTor \in Seq(Commands) /\ fromTor \in Seq(Messages)
  /\ queue \in Seq(Commands) /\ stray \in BOOLEAN
ControlOK ==
  /\ address \in BOOLEAN
  /\ status \in {"Error", "NotConnected", "Connecting", "Authenticating", "Connected"}
  /\ torStatus \in TorStatus
  /\ socks \in BOOLEAN /\ retry \in BOOLEAN
  /\ dial \in {"idle", "dialling"} /\ redial \in BOOLEAN
FrontendOK ==
  /\ calls \in Seq(Calls)
  /\ confirm \in {"none", "net", "default"}
  /\ settings \in {"user", "saved", "removed"}

LEMMA TypeParts == TypeOK <=> DaemonOK /\ SocketOK /\ ControlOK /\ FrontendOK
BY DEF TypeOK, DaemonOK, SocketOK, ControlOK, FrontendOK, Messages, TorStatus, Calls

LEMMA TypePartsPrime == TypeOK' <=> DaemonOK' /\ SocketOK' /\ ControlOK' /\ FrontendOK'
BY DEF TypeOK, DaemonOK, SocketOK, ControlOK, FrontendOK, Messages, TorStatus, Calls

\* A step keeps each part typed, one case per action.
LEMMA DaemonTyped == ASSUME TypeOK, Next PROVE DaemonOK'
<1> USE DEF DaemonOK, process, tor, bounds, NoSession
<1>0. DaemonOK /\ toTor \in Seq(Commands)
  BY TypeParts DEF SocketOK
<1>1. ASSUME NEW ok \in BOOLEAN, LaunchDaemon(ok) PROVE DaemonOK'
  <2>0. UNCHANGED <<timer, ticks>> \/ (timer' = TRUE /\ ticks' = 0)
    BY <1>1 DEF LaunchDaemon
  <2>1. timer' \in BOOLEAN /\ ticks' \in 0..(TickLimit + 1)
    <3>1. CASE UNCHANGED <<timer, ticks>>
      BY <1>0, <3>1
    <3>2. CASE timer' = TRUE /\ ticks' = 0
      BY <3>2, BoundsAssumption
    <3> QED BY <2>0, <3>1, <3>2
  <2>2. /\ proc' \in {"Starting", "Connecting", "Ready", "Failed"}
        /\ daemon' \in {"launching", "running", "dead", "reaped"}
    BY <1>1 DEF LaunchDaemon
  <2> QED BY <1>0, <1>1, <2>1, <2>2 DEF LaunchDaemon
<1>2. CASE WritePortFile
  BY <1>0, <1>2 DEF WritePortFile
<1>3. CASE AnswerCommand
  <2> DEFINE c == Head(toTor)
  <2>1. c \in Commands
    BY <1>0, <1>3, HeadTailProperties DEF AnswerCommand
  <2>2. net' \in BOOLEAN /\ applied' \subseteq {"user", "default"}
    BY <1>0, <1>3 DEF AnswerCommand
  <2> HIDE DEF c
  <2>3. session' \in [authed : BOOLEAN, events : BOOLEAN, onion : BOOLEAN]
    BY <1>0, <1>3 DEF AnswerCommand, c
  <2> QED BY <1>0, <1>3, <2>2, <2>3 DEF AnswerCommand
<1>4. CASE ChangeCircuit
  <2>1. faults' \in 0..MaxFaults
    BY <1>0, <1>4, BoundsAssumption DEF ChangeCircuit
  <2> QED BY <1>0, <1>4, <2>1 DEF ChangeCircuit
<1>5. CASE Drop
  BY <1>0, <1>5, BoundsAssumption DEF Drop
<1>6. CASE Crash
  <2>1. faults' \in 0..MaxFaults
    BY <1>0, <1>6, BoundsAssumption DEF Crash
  <2>2. /\ net' \in BOOLEAN /\ circuit' \in BOOLEAN
        /\ session' \in [authed : BOOLEAN, events : BOOLEAN, onion : BOOLEAN]
    BY <1>6 DEF Crash
  <2> QED BY <1>0, <1>6, <2>1, <2>2 DEF Crash
<1>7. CASE ReadPort
  BY <1>0, <1>7 DEF ReadPort
<1>8. CASE MissPort
  BY <1>0, <1>8, BoundsAssumption DEF MissPort
<1>9. CASE ProcessFinished
  BY <1>0, <1>9 DEF ProcessFinished
<1>10. CASE SocketConnected
  BY <1>0, <1>10 DEF SocketConnected
<1>11. CASE Login
  BY <1>0, <1>11, BoundsAssumption DEF Login
<1>12. CASE \/ SocketRefused \/ SocketError \/ Reconnect \/ ReadReply \/ ReadEvent
            \/ RunConnected \/ RunConfigured \/ DialFails \/ Redial
  <2>1. UNCHANGED <<process, tor, bounds>>
    BY <1>12 DEF SocketRefused, SocketError, Reconnect, ReadReply, ReadEvent, RunConnected,
                 RunConfigured, DialFails, Redial
  <2> QED BY <1>0, <2>1
<1> QED BY <1>1, <1>2, <1>3, <1>4, <1>5, <1>6, <1>7, <1>8, <1>9, <1>10, <1>11, <1>12
           DEF Next, Daemon, Program

LEMMA SocketTyped == ASSUME TypeOK, Next PROVE SocketOK'
<1> USE DEF SocketOK, wires, commands
<1>0. SocketOK /\ DaemonOK
  BY TypeParts
<1>1. CASE AnswerCommand
  <2> DEFINE c == Head(toTor)
             ok == (session.authed \/ c = "auth") /\ ~(c = "onion" /\ session.onion)
             r == Reply(c, ok)
  <2>1. c \in Commands /\ Tail(toTor) \in Seq(Commands)
    BY <1>0, <1>1, HeadTailProperties DEF AnswerCommand
  <2>2. ok \in BOOLEAN /\ net \in BOOLEAN /\ circuit \in BOOLEAN
    BY <1>0 DEF DaemonOK
  <2> HIDE DEF c, ok
  <2>3. r \in Messages
    BY <2>1, <2>2 DEF Reply, Replies, Messages
  <2> HIDE DEF r
  <2>4. Append(fromTor, r) \in Seq(Messages)
    BY <1>0, <2>3, AppendProperties
  <2>5. fromTor' = Append(fromTor, r)
    BY <1>1 DEF AnswerCommand, c, ok, r
  <2>6. toTor' \in Seq(Commands) /\ hup' \in BOOLEAN
    BY <1>1, <2>1, EmptySeq DEF AnswerCommand
  <2> QED BY <1>0, <1>1, <2>4, <2>5, <2>6 DEF AnswerCommand
<1>2. CASE ChangeCircuit
  <2> DEFINE e == [to |-> "event", ok |-> TRUE, up |-> ~circuit]
  <2>1. e \in Messages
    BY DEF Events, Messages
  <2> HIDE DEF e
  <2>2. Append(fromTor, e) \in Seq(Messages)
    BY <1>0, <2>1, AppendProperties
  <2>3. fromTor' = IF session.events /\ sock = "open" THEN Append(fromTor, e) ELSE fromTor
    BY <1>2 DEF ChangeCircuit, e
  <2> QED BY <1>0, <1>2, <2>2, <2>3 DEF ChangeCircuit
<1>3. CASE Drop
  <2>1. fromTor' \in Seq(Messages) /\ toTor' \in Seq(Commands)
    BY <1>0, <1>3, EmptySeq DEF Drop
  <2> QED BY <1>0, <1>3, <2>1 DEF Drop
<1>4. CASE Crash
  BY <1>0, <1>4 DEF Crash
<1>5. CASE ReadPort
  BY <1>0, <1>5 DEF ReadPort
<1>6. CASE SocketConnected
  <2>1. "auth" \in Commands
    BY DEF Commands
  <2>2. queue' \in Seq(Commands) /\ toTor' \in Seq(Commands)
    BY <1>0, <1>6, <2>1, AppendProperties DEF SocketConnected
  <2> QED BY <1>0, <1>6, <2>2 DEF SocketConnected
<1>7. CASE SocketRefused
  BY <1>0, <1>7 DEF SocketRefused, SetErrorConnecting
<1>8. CASE SocketError
  BY <1>0, <1>8, EmptySeq DEF SocketError, SetErrorConnected
<1>9. CASE Reconnect
  BY <1>0, <1>9 DEF Reconnect
<1>10. CASE ReadReply
  <2> DEFINE r == Head(fromTor)
  <2>1. Tail(fromTor) \in Seq(Messages) /\ fromTor' \in Seq(Messages)
    BY <1>0, <1>10, HeadTailProperties, EmptySeq DEF ReadReply
  <2>2. CASE queue = << >> /\ UNCHANGED <<sock, hup, toTor, commands>>
    BY <1>0, <2>1, <2>2
  <2>3. CASE queue # << >>
    <3>1. Tail(queue) \in Seq(Commands)
      BY <1>0, <2>3, HeadTailProperties
    <3>2. CASE TakeAuthenticate(r)
      <4>1. CASE r.ok
        <5>1. SendCommands(Tail(queue), <<"events", "events", "info">>) /\ UNCHANGED <<sock, hup>>
          BY <3>2, <4>1 DEF TakeAuthenticate
        <5> QED BY <1>0, <2>1, <3>1, <5>1, SendType, Literals
      <4>2. CASE ~r.ok
        BY <2>1, <3>2, <4>2, EmptySeq DEF TakeAuthenticate, SetErrorConnected
      <4> QED BY <4>1, <4>2
    <3>3. CASE TakeInfo(r)
      <4>1. PICK s, first : 
              SendCommands(Tail(queue), Asks(s) \o IF first THEN <<"own", "owner">> ELSE << >>)
        BY <3>3 DEF TakeInfo
      <4> DEFINE cs == Asks(s) \o IF first THEN <<"own", "owner">> ELSE << >>
      <4>2. cs \in Seq(Commands)
        BY Literals
      <4> HIDE DEF cs
      <4>3. queue' \in Seq(Commands) /\ toTor' \in Seq(Commands) /\ stray' \in BOOLEAN
        BY <3>1, <4>1, <4>2, SendType DEF cs
      <4>4. UNCHANGED <<sock, hup>>
        BY <3>3 DEF TakeInfo
      <4> QED BY <1>0, <2>1, <4>3, <4>4
    <3>4. CASE TakeSetConf(r) \/ (queue' = Tail(queue) /\ UNCHANGED <<sock, hup, toTor, stray>>)
      BY <1>0, <2>1, <3>1, <3>4 DEF TakeSetConf
    <3> QED BY <1>10, <2>3, <3>2, <3>3, <3>4 DEF ReadReply
  <2> QED BY <1>10, <2>2, <2>3 DEF ReadReply
<1>11. CASE ReadEvent
  <2>1. fromTor' \in Seq(Messages)
    BY <1>0, <1>11, HeadTailProperties DEF ReadEvent
  <2>2. PICK s : SendCommands(queue, Asks(s))
    BY <1>11 DEF ReadEvent
  <2>3. queue' \in Seq(Commands) /\ toTor' \in Seq(Commands) /\ stray' \in BOOLEAN
    BY <1>0, <2>2, SendType, Literals
  <2> QED BY <1>0, <1>11, <2>1, <2>3 DEF ReadEvent
<1>12. CASE RunConnected
  <2>1. queue' \in Seq(Commands) /\ toTor' \in Seq(Commands) /\ stray' \in BOOLEAN
    BY <1>0, <1>12, SendType, Literals DEF RunConnected
  <2> QED BY <1>0, <1>12, <2>1 DEF RunConnected
<1>13. CASE Login
  <2>1. queue' \in Seq(Commands) /\ toTor' \in Seq(Commands) /\ stray' \in BOOLEAN
    BY <1>0, <1>13, SendType, Literals DEF Login
  <2> QED BY <1>0, <1>13, <2>1 DEF Login
<1>14. CASE \/ \E ok \in BOOLEAN : LaunchDaemon(ok)
            \/ WritePortFile \/ MissPort \/ ProcessFinished \/ RunConfigured
            \/ DialFails \/ Redial
  <2>1. UNCHANGED <<sock, wires, commands>>
    BY <1>14 DEF LaunchDaemon, WritePortFile, MissPort, ProcessFinished, RunConfigured,
                 DialFails, Redial
  <2> QED BY <1>0, <2>1
<1> QED BY <1>1, <1>2, <1>3, <1>4, <1>5, <1>6, <1>7, <1>8, <1>9, <1>10, <1>11, <1>12,
           <1>13, <1>14 DEF Next, Daemon, Program

LEMMA ControlTyped == ASSUME TypeOK, Next PROVE ControlOK'
<1> USE DEF ControlOK, control, dialling
<1>0. ControlOK /\ SocketOK
  BY TypeParts
<1>1. ASSUME NEW known \in BOOLEAN, NEW s \in TorStatus, Connectable(known, s)
      PROVE  /\ socks' \in BOOLEAN /\ torStatus' \in TorStatus
             /\ dial' \in {"idle", "dialling"} /\ redial' \in BOOLEAN
  BY <1>1, ConnectableType
<1>2. FALSE \in BOOLEAN /\ "Unknown" \in TorStatus /\ socks \in BOOLEAN
  BY <1>0 DEF TorStatus
<1>3. CASE ReadPort
  BY <1>0, <1>3 DEF ReadPort
<1>4. CASE SocketConnected
  BY <1>0, <1>4 DEF SocketConnected
<1>5. CASE SocketRefused
  BY <1>0, <1>5 DEF SocketRefused, SetErrorConnecting
<1>6. CASE SocketError
  <2>1. Connectable(FALSE, "Unknown") /\ status' = "NotConnected" /\ retry' = TRUE /\ UNCHANGED address
    BY <1>6 DEF SocketError, SetErrorConnected
  <2> QED BY <1>0, <1>1, <1>2, <2>1
<1>7. CASE Reconnect
  BY <1>0, <1>7 DEF Reconnect
<1>8. CASE ReadReply
  <2> DEFINE r == Head(fromTor)
  <2>0. UNCHANGED address
    BY <1>8 DEF ReadReply
  <2>1. CASE TakeAuthenticate(r)
    <3>1. CASE r.ok
      <4>1. Connectable(socks, "Unknown") /\ UNCHANGED <<status, retry>>
        BY <2>1, <3>1 DEF TakeAuthenticate
      <4> QED BY <1>0, <1>1, <1>2, <2>0, <4>1
    <3>2. CASE ~r.ok
      <4>1. Connectable(FALSE, "Unknown") /\ status' = "NotConnected" /\ retry' = TRUE
        BY <2>1, <3>2 DEF TakeAuthenticate, SetErrorConnected
      <4> QED BY <1>0, <1>1, <1>2, <2>0, <4>1
    <3> QED BY <3>1, <3>2
  <2>2. CASE TakeInfo(r)
    <3>1. r \in Messages
      BY <1>0, <1>8, HeadTailProperties DEF ReadReply, SocketOK
    <3> DEFINE known == socks \/ (r.to = "socks" /\ r.ok /\ r.up)
               s == IF r.to # "info" \/ ~r.ok THEN torStatus
                    ELSE IF r.up THEN "Ready" ELSE "Offline"
    <3>2. known \in BOOLEAN /\ s \in TorStatus
      BY <1>0, <3>1 DEF TorStatus, Messages, Replies, Events
    <3>3. Connectable(known, s) /\ status' = "Connected" /\ UNCHANGED retry
      BY <2>2 DEF TakeInfo
    <3> HIDE DEF known, s
    <3> QED BY <1>0, <1>1, <2>0, <3>2, <3>3
  <2>3. CASE UNCHANGED <<status, torStatus, socks, retry, dialling>>
    BY <1>0, <2>0, <2>3
  <2> QED BY <1>8, <2>1, <2>2, <2>3 DEF ReadReply, TakeSetConf
<1>9. CASE ReadEvent
  <2>1. PICK s \in TorStatus : Connectable(socks, s)
    BY <1>9 DEF ReadEvent, TorStatus
  <2> QED BY <1>0, <1>1, <1>2, <1>9, <2>1 DEF ReadEvent
<1>10. CASE DialFails
  BY <1>0, <1>10 DEF DialFails
<1>11. CASE Redial
  BY <1>0, <1>11 DEF Redial
<1>12. CASE Daemon \/ MissPort \/ ProcessFinished \/ RunConnected \/ RunConfigured \/ Login
  <2>1. UNCHANGED <<control, dialling>>
    BY <1>12 DEF Daemon, LaunchDaemon, WritePortFile, AnswerCommand, ChangeCircuit, Drop, Crash,
                 MissPort, ProcessFinished, RunConnected, RunConfigured, Login
  <2> QED BY <1>0, <2>1
<1> QED BY <1>3, <1>4, <1>5, <1>6, <1>7, <1>8, <1>9, <1>10, <1>11, <1>12 DEF Next, Program

LEMMA FrontendTyped == ASSUME TypeOK, Next PROVE FrontendOK'
<1> USE DEF FrontendOK, frontend
<1>0. FrontendOK
  BY TypeParts
<1>1. \A c \in Calls : Append(calls, c) \in Seq(Calls)
  BY <1>0, AppendProperties
<1>2. CASE ReadReply
  <2> DEFINE r == Head(fromTor)
  <2>1. calls' = calls \/ calls' = Append(calls, "connected")
        \/ calls' = Append(calls, "confirmed") \/ calls' = Append(calls, "refused")
    BY <1>2 DEF ReadReply, TakeAuthenticate, TakeInfo, TakeSetConf
  <2>2. UNCHANGED <<confirm, settings>>
    BY <1>2 DEF ReadReply
  <2> QED BY <1>0, <1>1, <2>1, <2>2 DEF Calls
<1>3. CASE RunConnected
  <2>1. calls' \in Seq(Calls)
    BY <1>0, <1>3, HeadTailProperties DEF RunConnected
  <2> QED BY <1>0, <1>3, <2>1 DEF RunConnected
<1>4. CASE RunConfigured
  <2>1. calls' \in Seq(Calls)
    BY <1>0, <1>4, HeadTailProperties DEF RunConfigured
  <2> QED BY <1>0, <1>4, <2>1 DEF RunConfigured
<1>5. CASE Login
  BY <1>0, <1>5 DEF Login
<1>6. CASE \/ Daemon \/ ReadPort \/ MissPort \/ ProcessFinished \/ SocketConnected
           \/ SocketRefused \/ SocketError \/ Reconnect \/ ReadEvent \/ DialFails \/ Redial
  <2>1. UNCHANGED frontend
    BY <1>6 DEF Daemon, LaunchDaemon, WritePortFile, AnswerCommand, ChangeCircuit, Drop, Crash,
                ReadPort, MissPort, ProcessFinished, SocketConnected, SocketRefused,
                SocketError, Reconnect, ReadEvent, DialFails, Redial
  <2> QED BY <1>0, <2>1
<1> QED BY <1>2, <1>3, <1>4, <1>5, <1>6 DEF Next, Program

-----------------------------------------------------------------------------
\* The shape of the state.

Shape == StartOK /\ StatusOK /\ WiresOK /\ RetryPending /\ ConnectivityIsTrue

\* No step of the daemon changes the status of the program's socket ...
LEMMA DaemonShape == ASSUME TypeOK, Shape, Daemon PROVE Shape'
<1> USE DEF StartOK, StatusOK, WiresOK, RetryPending, ConnectivityIsTrue, Shape,
            control, commands, wires
<1>1. ASSUME NEW ok \in BOOLEAN, LaunchDaemon(ok) PROVE Shape'
  <2>1. daemon = "launching" /\ daemon' # "launching"
    BY <1>1 DEF LaunchDaemon
  <2> QED BY <1>1, <2>1 DEF LaunchDaemon
<1>2. CASE WritePortFile
  BY <1>2 DEF WritePortFile, process
<1>3. CASE AnswerCommand
  BY <1>3 DEF AnswerCommand, process
<1>4. CASE ChangeCircuit
  BY <1>4 DEF ChangeCircuit, process
<1>5. CASE Drop
  BY <1>5 DEF Drop, process
<1>6. CASE Crash
  BY <1>6 DEF Crash, process
<1> QED BY <1>1, <1>2, <1>3, <1>4, <1>5, <1>6 DEF Daemon

\* ... TorProcess makes TorControl connect once ...
LEMMA ProcessShape ==
  ASSUME TypeOK, Shape,
         \/ ReadPort \/ MissPort \/ ProcessFinished \/ DialFails \/ Redial \/ RunConfigured
  PROVE  Shape'
<1> USE DEF StartOK, StatusOK, WiresOK, RetryPending, ConnectivityIsTrue, Shape,
            control, commands, wires, tor, process
<1>1. CASE ReadPort
  BY <1>1 DEF ReadPort
<1>2. CASE MissPort
  BY <1>2 DEF MissPort
<1>3. CASE ProcessFinished
  BY <1>3 DEF ProcessFinished
<1>4. CASE DialFails \/ Redial \/ RunConfigured
  BY <1>4 DEF DialFails, Redial, RunConfigured
<1> QED BY <1>1, <1>2, <1>3, <1>4

\* ... and TorControl keeps its status and its socket together.
LEMMA SocketShape ==
  ASSUME TypeOK, Shape,
         \/ SocketConnected \/ SocketRefused \/ SocketError \/ Reconnect
         \/ ReadReply \/ ReadEvent \/ RunConnected \/ Login
  PROVE  Shape'
<1> USE DEF StartOK, StatusOK, WiresOK, RetryPending, ConnectivityIsTrue, Shape,
            control, commands, wires, tor, process, Connectable
<1>1. CASE SocketConnected
  BY <1>1 DEF SocketConnected
<1>2. CASE SocketRefused
  BY <1>2 DEF SocketRefused, SetErrorConnecting
<1>3. CASE SocketError
  BY <1>3 DEF SocketError, SetErrorConnected
<1>4. CASE Reconnect
  <2>1. CASE status \in {"Error", "NotConnected"}
    <3>1. sock = "closed"
      BY <2>1 DEF TypeOK
    <3> QED BY <1>4, <2>1, <3>1 DEF Reconnect
  <2>2. CASE status \notin {"Error", "NotConnected"}
    BY <1>4, <2>2 DEF Reconnect
  <2> QED BY <2>1, <2>2
<1>5. CASE ReadReply
  <2> DEFINE r == Head(fromTor)
  <2>1. sock = "open" /\ UNCHANGED <<daemon, timer, address>>
    BY <1>5 DEF ReadReply
  <2>2. CASE TakeAuthenticate(r)
    BY <2>1, <2>2 DEF TakeAuthenticate, SetErrorConnected
  <2>3. CASE TakeInfo(r)
    BY <2>1, <2>3 DEF TakeInfo
  <2>4. CASE UNCHANGED <<sock, status, torStatus, socks, retry>>
    BY <2>1, <2>4
  <2> QED BY <1>5, <2>2, <2>3, <2>4 DEF ReadReply, TakeSetConf
<1>6. CASE ReadEvent
  BY <1>6 DEF ReadEvent
<1>7. CASE RunConnected \/ Login
  <2>1. PICK cs \in Seq(Commands) : SendCommands(queue, cs)
    BY <1>7, Literals DEF RunConnected, Login
  <2>2. UNCHANGED <<daemon, timer, address, sock, status, socks, torStatus, retry, hup, fromTor>>
    BY <1>7 DEF RunConnected, Login
  <2>3. sock = "closed" => toTor' = << >>
    BY <2>1 DEF SendCommands
  <2>4. sock # "open" /\ ~stray' => queue' = toTor'
    BY <2>1, ConcatEmptySeq, EmptySeq DEF SendCommands, TypeOK
  <2> QED BY <2>2, <2>3, <2>4
<1> QED BY <1>1, <1>2, <1>3, <1>4, <1>5, <1>6, <1>7

-----------------------------------------------------------------------------
\* The pairing of commands and replies.

LEMMA ReplyIsNoEvent == \A r \in Messages : r.to # "event" => r \in Replies
BY DEF Messages, Replies, Events

\* What tor does, then what the program reads, then what else it does.
LEMMA MatchDaemon ==
  ASSUME TypeOK, Shape, RepliesMatch, Daemon PROVE RepliesMatch'
<1> USE DEF RepliesMatch
<1>0. toTor \in Seq(Commands) /\ queue \in Seq(Commands) /\ fromTor \in Seq(Messages)
  BY TypeParts DEF SocketOK
<1>1. CASE AnswerCommand
  <2> DEFINE c == Head(toTor)
             allowed == session.authed \/ c = "auth"
             r == Reply(c, allowed /\ ~(c = "onion" /\ session.onion))
  <2> SUFFICES ASSUME ~hup', ~stray'
               PROVE  Matched(fromTor', toTor', queue')
    OBVIOUS
  <2>1. /\ sock = "open" /\ toTor # << >> /\ allowed /\ ~hup /\ ~stray
        /\ fromTor' = Append(fromTor, r) /\ toTor' = Tail(toTor) /\ queue' = queue
    BY <1>1 DEF AnswerCommand, commands
  <2>2. c \in Commands
    BY <1>0, <2>1, HeadTailProperties
  <2>3. r \in Messages /\ r.to = c /\ c # "event"
    <3>1. net \in BOOLEAN /\ circuit \in BOOLEAN
      BY DEF TypeOK
    <3> QED BY <2>2, <3>1 DEF Reply, Messages, Replies, Commands, SetConf, GetInfo
  <2>4. Matched(fromTor, toTor, queue)
    BY <2>1
  <2> HIDE DEF c, r, allowed
  <2>5. Matched(Append(fromTor, r), Tail(toTor), queue)
    BY <1>0, <2>1, <2>3, <2>4, MatchedAnswer DEF c
  <2> QED BY <2>1, <2>5
<1>2. CASE ChangeCircuit
  <2> DEFINE e == [to |-> "event", ok |-> TRUE, up |-> ~circuit]
  <2>1. UNCHANGED <<sock, hup, toTor, queue, stray>>
    BY <1>2 DEF ChangeCircuit, commands
  <2>2. fromTor' = fromTor \/ fromTor' = Append(fromTor, e)
    BY <1>2 DEF ChangeCircuit
  <2>3. e \in Messages /\ e.to = "event"
    BY DEF Events, Messages
  <2> HIDE DEF e
  <2>4. Matched(fromTor, toTor, queue) => Matched(Append(fromTor, e), toTor, queue)
    BY <1>0, <2>3, MatchedEvent
  <2> QED BY <2>1, <2>2, <2>4
<1>3. CASE Drop \/ Crash
  BY <1>3 DEF Drop, Crash
<1>4. CASE WritePortFile \/ \E ok \in BOOLEAN : LaunchDaemon(ok)
  <2>1. UNCHANGED <<sock, wires, commands>>
    BY <1>4 DEF WritePortFile, LaunchDaemon
  <2> QED BY <2>1 DEF wires, commands
<1> QED BY <1>1, <1>2, <1>3, <1>4 DEF Daemon

\* Commands are sent to an open connection in the order of the queue.
LEMMA MatchSend ==
  ASSUME TypeOK, NEW wire \in Seq(Messages), NEW q \in Seq(Commands), NEW cs \in Seq(Commands),
         sock = "open", Matched(wire, toTor, q), SendCommands(q, cs)
  PROVE  Matched(wire, toTor', queue')
<1>1. toTor' = toTor \o cs /\ queue' = q \o cs /\ toTor \in Seq(Commands)
  BY DEF SendCommands, TypeOK
<1> QED BY <1>1, MatchedWrites

LEMMA MatchReads ==
  ASSUME TypeOK, Shape, RepliesMatch, ReadReply \/ ReadEvent PROVE RepliesMatch'
<1> USE DEF RepliesMatch
<1>0. toTor \in Seq(Commands) /\ queue \in Seq(Commands) /\ fromTor \in Seq(Messages)
  BY TypeParts DEF SocketOK
<1> DEFINE r == Head(fromTor)
<1> SUFFICES ASSUME sock' = "open", ~hup', ~stray'
             PROVE  Matched(fromTor', toTor', queue')
  OBVIOUS
<1>1. CASE ReadReply
  <2>1. fromTor # << >> /\ r.to # "event" /\ sock = "open"
    BY <1>1 DEF ReadReply
  <2>2. ~hup /\ ~stray
    <3>1. CASE TakeAuthenticate(r) \/ TakeInfo(r)
      <4>1. UNCHANGED hup /\ \E cs : SendCommands(Tail(queue), cs)
        BY <3>1 DEF TakeAuthenticate, TakeInfo, SetErrorConnected
      <4> QED BY <2>1, <4>1 DEF SendCommands
    <3>2. CASE UNCHANGED <<hup, stray>>
      BY <3>2
    <3> QED BY <1>1, <3>1, <3>2 DEF ReadReply, TakeSetConf, commands
  <2>3. /\ queue # << >> /\ Head(queue) = r.to
        /\ Matched(Tail(fromTor), toTor, Tail(queue))
    BY <1>0, <2>1, <2>2, MatchedReply
  <2>4. Tail(fromTor) \in Seq(Messages) /\ Tail(queue) \in Seq(Commands)
    BY <1>0, <2>1, <2>3, HeadTailProperties
  <2>5. CASE Head(queue) = "auth" /\ TakeAuthenticate(r)
    <3>1. r.ok /\ SendCommands(Tail(queue), <<"events", "events", "info">>)
      BY <2>5 DEF TakeAuthenticate, SetErrorConnected
    <3>2. fromTor' = Tail(fromTor)
      BY <1>1, <3>1 DEF ReadReply
    <3>3. Matched(Tail(fromTor), toTor', queue')
      BY <2>1, <2>3, <2>4, <3>1, MatchSend, Literals
    <3> QED BY <3>2, <3>3
  <2>6. CASE Head(queue) \in GetInfo /\ TakeInfo(r)
    <3>1. PICK s, first :
            SendCommands(Tail(queue), Asks(s) \o IF first THEN <<"own", "owner">> ELSE << >>)
      BY <2>6 DEF TakeInfo
    <3>2. fromTor' = Tail(fromTor)
      BY <1>1, <2>6 DEF ReadReply, GetInfo
    <3> DEFINE cs == Asks(s) \o IF first THEN <<"own", "owner">> ELSE << >>
    <3>3. cs \in Seq(Commands)
      BY Literals
    <3> HIDE DEF cs
    <3>4. Matched(Tail(fromTor), toTor', queue')
      BY <2>1, <2>3, <2>4, <3>1, <3>3, MatchSend DEF cs
    <3> QED BY <3>2, <3>4
  <2>7. CASE /\ Head(queue) \notin GetInfo \cup {"auth"}
             /\ queue' = Tail(queue) /\ UNCHANGED toTor
    <3>1. fromTor' = Tail(fromTor)
      BY <1>1, <2>7 DEF ReadReply
    <3> QED BY <2>3, <2>7, <3>1
  <2> QED BY <1>1, <2>3, <2>5, <2>6, <2>7 DEF ReadReply, TakeSetConf, GetInfo, SetConf
<1>2. CASE ReadEvent
  <2>1. fromTor # << >> /\ r.to = "event" /\ sock = "open" /\ fromTor' = Tail(fromTor)
    BY <1>2 DEF ReadEvent
  <2>2. PICK s : SendCommands(queue, Asks(s))
    BY <1>2 DEF ReadEvent
  <2>3. ~hup /\ ~stray
    BY <1>2, <2>2 DEF ReadEvent, SendCommands
  <2>4. Matched(Tail(fromTor), toTor, queue)
    BY <1>0, <2>1, <2>3, MatchedHeard
  <2>5. Tail(fromTor) \in Seq(Messages)
    BY <1>0, <2>1, HeadTailProperties
  <2>6. Matched(Tail(fromTor), toTor', queue')
    BY <1>0, <2>1, <2>2, <2>4, <2>5, MatchSend, Literals
  <2> QED BY <2>1, <2>6
<1> QED BY <1>1, <1>2

LEMMA MatchProgram ==
  ASSUME TypeOK, Shape, RepliesMatch, Program, ~ReadReply, ~ReadEvent PROVE RepliesMatch'
<1> USE DEF RepliesMatch
<1>0. toTor \in Seq(Commands) /\ queue \in Seq(Commands) /\ fromTor \in Seq(Messages)
  BY TypeParts DEF SocketOK
<1>1. CASE SocketConnected
  <2> SUFFICES ASSUME ~stray' PROVE Matched(fromTor', toTor', queue')
    OBVIOUS
  <2>1. sock = "connecting" /\ ~stray /\ UNCHANGED fromTor
        /\ toTor' = Append(toTor, "auth") /\ queue' = Append(queue, "auth")
    BY <1>1 DEF SocketConnected
  <2>2. fromTor' = << >> /\ queue' = toTor'
    BY <2>1 DEF Shape, WiresOK
  <2>3. toTor' \in Seq(Commands)
    BY <1>1, SocketTyped DEF Next, Program, SocketOK
  <2> QED BY <2>2, <2>3, MatchedEmpty
<1>2. CASE ReadPort \/ SocketRefused \/ SocketError
  BY <1>2 DEF ReadPort, SocketRefused, SocketError, SetErrorConnecting, SetErrorConnected
<1>3. CASE Reconnect
  BY <1>3 DEF Reconnect, wires, commands
<1>4. CASE RunConnected \/ Login
  <2>1. PICK cs \in Seq(Commands) : SendCommands(queue, cs)
    BY <1>4, Literals DEF RunConnected, Login
  <2>2. UNCHANGED <<sock, hup, fromTor>>
    BY <1>4 DEF RunConnected, Login
  <2>3. sock = "open" /\ ~stray' => ~stray
    BY <2>1 DEF SendCommands
  <2>4. sock = "open" /\ Matched(fromTor, toTor, queue) => Matched(fromTor, toTor', queue')
    BY <1>0, <2>1, MatchSend
  <2> QED BY <2>2, <2>3, <2>4
<1>5. CASE MissPort \/ ProcessFinished \/ RunConfigured \/ DialFails \/ Redial
  <2>1. UNCHANGED <<sock, wires, commands>>
    BY <1>5 DEF MissPort, ProcessFinished, RunConfigured, DialFails, Redial
  <2> QED BY <2>1 DEF wires, commands
<1> QED BY <1>1, <1>2, <1>3, <1>4, <1>5 DEF Program

-----------------------------------------------------------------------------
\* The invariant, and what follows from it.

LEMMA InitOK == Init => IInv
<1> SUFFICES ASSUME Init PROVE IInv
  OBVIOUS
<1>1. DaemonOK
  <2>1. ticks \in 0..(TickLimit + 1) /\ faults \in 0..MaxFaults /\ logins \in 0..MaxLogins
    BY BoundsAssumption DEF Init
  <2> QED BY <2>1 DEF Init, DaemonOK, NoSession
<1>2. SocketOK /\ FrontendOK
  BY EmptySeq DEF Init, SocketOK, FrontendOK
<1>3. ControlOK
  BY DEF Init, ControlOK, TorStatus
<1>4. RepliesMatch
  BY DEF Init, RepliesMatch
<1>5. Shape
  BY DEF Init, Shape, StartOK, StatusOK, WiresOK, RetryPending, ConnectivityIsTrue
<1> QED BY <1>1, <1>2, <1>3, <1>4, <1>5, TypeParts DEF IInv, Shape

LEMMA StepOK == IInv /\ [Next]_vars => IInv'
<1> SUFFICES ASSUME IInv, [Next]_vars PROVE IInv'
  OBVIOUS
<1>1. TypeOK /\ Shape /\ RepliesMatch
  BY DEF IInv, Shape
<1>2. CASE Next
  <2>1. TypeOK'
    BY <1>1, <1>2, DaemonTyped, SocketTyped, ControlTyped, FrontendTyped, TypePartsPrime
  <2>2. Shape'
    BY <1>1, <1>2, DaemonShape, ProcessShape, SocketShape DEF Next, Program
  <2>3. RepliesMatch'
    BY <1>1, <1>2, MatchDaemon, MatchReads, MatchProgram DEF Next, Program
  <2> QED BY <2>1, <2>2, <2>3 DEF IInv, Shape
<1>3. CASE UNCHANGED vars
  <2>1. TypeOK'
    BY <1>1, <1>3 DEF TypeOK, vars, process, tor, wires, commands, control, frontend,
                      dialling, bounds
  <2>2. Shape' /\ RepliesMatch'
    BY <1>1, <1>3 DEF vars, process, tor, wires, commands, control, frontend, dialling, bounds,
         Shape, StartOK, StatusOK, WiresOK, RetryPending, ConnectivityIsTrue, RepliesMatch
  <2> QED BY <2>1, <2>2 DEF IInv, Shape
<1> QED BY <1>2, <1>3

\* What TorProcess, TorManager, TorControl, its socket and the frontend keep
\* stays well formed: statuses, commands, replies and counters are of the kinds
\* their handlers expect.
THEOREM TypeCorrect == Spec => []TypeOK
<1>1. IInv => TypeOK
  BY DEF IInv
<1> QED BY InitOK, StepOK, <1>1, PTL DEF Spec

\* TorControlSocket's pairing of replies and commands by position is right for
\* any number of commands, replies and asynchronous events in flight, and over
\* any number of lost, refused and rejected connections.
THEOREM RepliesFindTheirCommands == Spec => []RepliesMatch
<1>1. IInv => RepliesMatch
  BY DEF IInv
<1> QED BY InitOK, StepOK, <1>1, PTL DEF Spec

\* Once the control port is known, TorControl is never left in Error or
\* NotConnected without a retry pending, whatever handler put it there.
THEOREM AlwaysRetries == Spec => []RetryPending
<1>1. IInv => RetryPending
  BY DEF IInv
<1> QED BY InitOK, StepOK, <1>1, PTL DEF Spec

\* The address of tor's SOCKS listener and the state of its network are those of
\* the control connection that is up, over any number of reconnections.
THEOREM ConnectivityIsKnown == Spec => []ConnectivityIsTrue
<1>1. IInv => ConnectivityIsTrue
  BY DEF IInv
<1> QED BY InitOK, StepOK, <1>1, PTL DEF Spec

=============================================================================
