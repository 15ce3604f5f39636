------------------------ MODULE ChatDeliveryProofs ------------------------
(***************************************************************************)
(* The conversation keeps its promise, for any number of messages and of   *)
(* broken connections.                                                     *)
(***************************************************************************)
EXTENDS ChatDelivery, SequenceTheorems, FiniteSetTheorems, FunctionTheorems, TLAPS

Live(p) == link[p] \in {"up", "dialling"}

\* A user reads messages and the answer to his request for a channel only when
\* his ConversationModel listens: until then no more than what was there to read
\* before the call that makes it listen was posted.
Listens(p) ==
  /\ heard[p] => link[p] = "up"
  /\ out[p] # "none" => link[p] = "up"
  /\ out[p] = "open" => heard[p]
  /\ link[p] = "up" /\ ~heard[p] =>
       /\ \E n \in DOMAIN calls[p] : calls[p][n] = "onConnected"
       /\ \A n \in DOMAIN wire[p] : n <= batch[p] => wire[p][n].kind \notin {"opened", "message"}
  /\ ~Live(p) => wire[p] = << >> /\ batch[p] = 0
  /\ calls[p] # << >> => batch[p] <= Len(wire[p])

\* Until the dialler knows that he has a connection he writes nothing, and
\* cannot have been asked for a channel and answered.
Dials(p) ==
  link[p] = "dialling" =>
    /\ link[Other(p)] # "dialling"
    /\ wire[p] # << >> /\ wire[p][1].kind = "known"
    /\ \A n \in DOMAIN wire[p] : wire[p][n].kind \notin {"opened", "message"}
    /\ wire[Other(p)] = << >> /\ out[Other(p)] # "open"

Waits(p) ==
  /\ out[p] # "open" => pending[p] = {}
  /\ \A n \in DOMAIN messages[p] :
       /\ messages[p][n].status = "Sending" => messages[p][n].id \in pending[p]
       /\ messages[p][n].status = "Queued" => messages[p][n].attempts < 2

Heeded == \A p \in Peer : Listens(p) /\ Dials(p) /\ Waits(p)

-----------------------------------------------------------------------------
\* The messages to q: those shown to him and those still on the wire.

Ids(w) == [n \in DOMAIN w |-> IF w[n].kind = "message" THEN w[n].id ELSE 0]

Occurs(s, m) == \E k \in DOMAIN s : s[k] = m
Once(s, m) == \A i, j \in DOMAIN s : s[i] = m /\ s[j] = m => i = j
Twice(s, m) ==
  \A i, j, k \in DOMAIN s : s[i] = m /\ s[j] = m /\ s[k] = m => i = j \/ j = k \/ i = k

\* No message comes before an older one, unless that one has failed and never
\* comes at all.
Ordered(s, failed) ==
  \A k \in DOMAIN s : \A m \in 1..(s[k] - 1) :
    \/ \E j \in 1..(k - 1) : s[j] = m
    \/ m \in failed /\ ~Occurs(s, m)

\* A user's own rows, and those of them that failed.
Own(ms) == {n \in DOMAIN ms : ms[n].status # "Received"}
Mine(ms) == {ms[n] : n \in Own(ms)}
Failed(R) == {r.id : r \in {x \in R : x.status = "Error"}}

\* How the messages s come, when their sender has sent max, and has the rows R.
Stands(s, R, max) ==
  /\ \A k \in DOMAIN s : s[k] \in 0..max
  /\ Ordered(s, Failed(R))
  /\ \A r \in R : /\ r.attempts = 0 => ~Occurs(s, r.id)
                  /\ r.attempts = 1 => Once(s, r.id)
                  /\ r.attempts = 2 => Twice(s, r.id)

Holds(s, R, statuses) == \A r \in R : r.status \in statuses => Occurs(s, r.id)

Flow(ms, max, sh, w, statuses) ==
  /\ Stands(sh \o Ids(w), Mine(ms), max)
  /\ Holds(sh \o Ids(w), Mine(ms), statuses)

\* A user's own rows are those of the messages he has sent, the newest first.
Numbered(ms, max) ==
  /\ \A i, j \in Own(ms) : i < j => ms[i].id > ms[j].id
  /\ \A r \in Mine(ms) : r.id <= max
  /\ \A m \in 1..max : \E r \in Mine(ms) : r.id = m

\* The history has room for more.
OwnRows(p) ==
  /\ Numbered(messages[p], sent[p])
  /\ Len(messages[p]) <= sent[p] + Len(shown[p])
  /\ sent[p] <= IF p = "a" THEN MaxSent ELSE MaxReplies

\* The other end will still get what was sent, and what is to be sent again on a
\* channel that is open.
Awaited(p) ==
  IF ~Live(Other(p)) THEN {} ELSE IF out[p] = "open" THEN {"Sending", "Queued"} ELSE {"Sending"}

\* What comes to the other user.
Flows(p) == Flow(messages[p], sent[p], shown[Other(p)], wire[Other(p)], Awaited(p))

\* What a user or a packet takes for shown, was: the rows ms and packets w of one
\* to whom own was shown, and other to the other user.
Witnessed(ms, own, other, w) ==
  /\ \A r \in Mine(ms) : r.status = "Delivered" => Occurs(other, r.id)
  /\ \A n \in DOMAIN ms : ms[n].status = "Received" => Occurs(own, ms[n].id)
  /\ \A n \in DOMAIN w : w[n].kind = "ack" => Occurs(other, w[n].id)
Seen(p) == Witnessed(messages[p], shown[p], shown[Other(p)], wire[p])

Kept == \A p \in Peer : OwnRows(p) /\ Flows(p) /\ Seen(p)

-----------------------------------------------------------------------------
\* Peers and sequences.

LEMMA Peers ==
  ASSUME NEW p \in Peer
  PROVE  /\ Other(p) \in Peer /\ Other(p) # p /\ Other(Other(p)) = p
         /\ \A x \in Peer : x = p \/ x = Other(p)
BY DEF Peer, Other

LEMMA Shape ==
  ASSUME NEW S, NEW s \in Seq(S)
  PROVE  /\ Len(s) \in Nat /\ DOMAIN s = 1..Len(s)
         /\ \A n \in DOMAIN s : s[n] \in S
         /\ s = << >> <=> Len(s) = 0
BY LenProperties, EmptySeq

Joins(u, s, t) == u = s \o t

LEMMA Joined ==
  ASSUME NEW S, NEW s \in Seq(S), NEW t \in Seq(S), NEW u, u = s \o t
  PROVE  /\ u \in Seq(S) /\ Len(u) = Len(s) + Len(t) /\ DOMAIN u = 1..Len(u)
         /\ \A n \in 1..Len(u) : u[n] = IF n <= Len(s) THEN s[n] ELSE t[n - Len(s)]
         /\ \A n \in DOMAIN s : n \in DOMAIN u /\ u[n] = s[n]
         /\ \A n \in DOMAIN t : Len(s) + n \in DOMAIN u /\ u[Len(s) + n] = t[n]
<1>1. /\ s \o t \in Seq(S) /\ Len(s \o t) = Len(s) + Len(t)
      /\ \A n \in 1..(Len(s) + Len(t)) :
           (s \o t)[n] = IF n <= Len(s) THEN s[n] ELSE t[n - Len(s)]
  BY ONLY ConcatProperties
<1>2. /\ u \in Seq(S) /\ Len(u) = Len(s) + Len(t)
      /\ \A n \in 1..(Len(s) + Len(t)) : u[n] = IF n <= Len(s) THEN s[n] ELSE t[n - Len(s)]
  BY <1>1, Zenon
<1>3. /\ Len(s) \in Nat /\ DOMAIN s = 1..Len(s)
      /\ Len(t) \in Nat /\ DOMAIN t = 1..Len(t) /\ DOMAIN u = 1..Len(u)
  BY <1>2, Shape
<1>4. \A n \in 1..Len(u) : u[n] = IF n <= Len(s) THEN s[n] ELSE t[n - Len(s)]
  BY <1>2
<1>5. ASSUME NEW n \in DOMAIN t PROVE Len(s) + n \in DOMAIN u /\ u[Len(s) + n] = t[n]
  <2>1. Len(s) + n \in 1..Len(u) /\ ~(Len(s) + n <= Len(s)) /\ Len(s) + n - Len(s) = n
    BY <1>2, <1>3
  <2> QED BY <1>3, <1>4, <2>1
<1> QED BY <1>2, <1>3, <1>4, <1>5

LEMMA Added ==
  ASSUME NEW S, NEW s \in Seq(S), NEW x \in S, NEW u, u = Append(s, x)
  PROVE  /\ u \in Seq(S) /\ Len(u) = Len(s) + 1 /\ DOMAIN u = 1..Len(u)
         /\ \A n \in DOMAIN s : n \in DOMAIN u /\ u[n] = s[n]
         /\ u[Len(s) + 1] = x
BY AppendProperties, Shape

LEMMA Dropped ==
  ASSUME NEW S, NEW s \in Seq(S), s # << >>, NEW u, u = Tail(s)
  PROVE  /\ u \in Seq(S) /\ Len(u) = Len(s) - 1 /\ DOMAIN u = 1..Len(u)
         /\ \A n \in DOMAIN u : n + 1 \in DOMAIN s /\ u[n] = s[n + 1]
         /\ 1 \in DOMAIN s /\ Head(s) = s[1] /\ Head(s) \in S
BY HeadTailProperties, Shape

-----------------------------------------------------------------------------
\* Rows.

\* t has the rows ms and a new one in place i.
Shifted(t, ms, i, row) ==
  /\ Len(t) = Len(ms) + 1
  /\ \A n \in 1..Len(t) :
       t[n] = IF n < i THEN ms[n] ELSE IF n = i THEN row ELSE ms[n - 1]

\* A new row takes nothing from the others, as long as there is room.
LEMMA InsertedRow ==
  ASSUME NEW ms \in Seq(Row), NEW i \in 1..(Len(ms) + 1), NEW row \in Row,
         NEW t, t = Inserted(ms, i, row)
  PROVE  /\ t \in Seq(Row)
         /\ \A n \in DOMAIN t : t[n] = row \/ \E k \in DOMAIN ms : t[n] = ms[k]
         /\ Len(ms) < HistoryLimit => Shifted(t, ms, i, row)
<1>1. Len(ms) \in Nat /\ DOMAIN ms = 1..Len(ms) /\ HistoryLimit \in Nat
  BY Shape, BoundsAssumption
<1> DEFINE front == SubSeq(ms, 1, i - 1)
           back == SubSeq(ms, i, Len(ms))
           mid == front \o <<row>>
           all == mid \o back
<1>2. /\ front \in Seq(Row) /\ Len(front) = i - 1
      /\ \A n \in 1..(i - 1) : front[n] = ms[n]
  BY <1>1, SubSeqProperties
<1>3. /\ back \in Seq(Row) /\ Len(back) = Len(ms) - i + 1
      /\ \A n \in 1..(Len(ms) - i + 1) : back[n] = ms[i + n - 1]
  BY <1>1, SubSeqProperties
<1>4. <<row>> \in Seq(Row) /\ Len(<<row>>) = 1 /\ <<row>>[1] = row
  OBVIOUS
<1>5. all = InsertAt(ms, i, row)
  BY DEF InsertAt
<1> HIDE DEF front, back
<1>6. /\ mid \in Seq(Row) /\ Len(mid) = i
      /\ \A n \in 1..i : mid[n] = IF n < i THEN ms[n] ELSE row
  <2>1. /\ mid \in Seq(Row) /\ Len(mid) = Len(front) + Len(<<row>>)
        /\ \A n \in 1..Len(mid) :
             mid[n] = IF n <= Len(front) THEN front[n] ELSE <<row>>[n - Len(front)]
    BY <1>2, <1>4, Joined
  <2> HIDE DEF mid
  <2> QED BY <1>1, <1>2, <1>4, <2>1
<1> HIDE DEF mid
<1>7. /\ all \in Seq(Row) /\ Len(all) = Len(ms) + 1
      /\ \A n \in 1..Len(all) :
           all[n] = IF n < i THEN ms[n] ELSE IF n = i THEN row ELSE ms[n - 1]
  <2>1. /\ all \in Seq(Row) /\ Len(all) = Len(mid) + Len(back)
        /\ \A n \in 1..Len(all) :
             all[n] = IF n <= Len(mid) THEN mid[n] ELSE back[n - Len(mid)]
    BY <1>3, <1>6, Joined
  <2>2. Len(all) = Len(ms) + 1
    BY <1>1, <1>3, <1>6, <2>1
  <2>3. ASSUME NEW n \in 1..Len(all)
        PROVE  all[n] = IF n < i THEN ms[n] ELSE IF n = i THEN row ELSE ms[n - 1]
    <3>1. CASE n <= i
      BY <1>1, <1>6, <2>1, <2>2, <3>1
    <3>2. CASE n > i
      <4>1. n - i \in 1..(Len(ms) - i + 1) /\ i + (n - i) - 1 = n - 1
        BY <1>1, <2>2, <3>2
      <4>2. all[n] = back[n - i]
        BY <1>1, <1>6, <2>1, <2>2, <3>2
      <4>3. back[n - i] = ms[n - 1]
        BY <1>3, <4>1
      <4> QED BY <1>1, <3>2, <4>2, <4>3
    <3> QED BY <1>1, <2>2, <3>1, <3>2
  <2> QED BY <2>1, <2>2, <2>3
<1> HIDE DEF all
<1> DEFINE k == IF Len(all) > HistoryLimit THEN HistoryLimit ELSE Len(all)
<1>8. t = SubSeq(all, 1, k)
  BY <1>5 DEF Inserted
<1>9. k \in 0..Len(all)
  BY <1>1, <1>7
<1>10. /\ t \in Seq(Row) /\ Len(t) = k /\ \A n \in 1..k : t[n] = all[n]
  <2>1. /\ SubSeq(all, 1, k) \in Seq(Row)
        /\ Len(SubSeq(all, 1, k)) = IF 1 <= k THEN k - 1 + 1 ELSE 0
        /\ \A n \in 1..(k - 1 + 1) : SubSeq(all, 1, k)[n] = all[1 + n - 1]
    <3> HIDE DEF k
    <3>1. all \in Seq(Row) /\ 1 \in 1..(Len(all) + 1) /\ k \in 0..Len(all)
      BY <1>1, <1>7, <1>9
    <3> QED BY <3>1, SubSeqProperties
  <2> HIDE DEF k
  <2> QED BY <1>1, <1>7, <1>8, <1>9, <2>1
<1>11. ASSUME NEW n \in DOMAIN t PROVE t[n] = row \/ \E j \in DOMAIN ms : t[n] = ms[j]
  <2> HIDE DEF k
  <2>1. n \in 1..Len(all) /\ t[n] = all[n]
    BY <1>1, <1>7, <1>9, <1>10, Shape
  <2>2. CASE n < i
    BY <1>1, <1>7, <2>1, <2>2
  <2>3. CASE n > i
    <3>1. n - 1 \in DOMAIN ms
      BY <1>1, <1>7, <2>1, <2>3
    <3> QED BY <1>1, <1>7, <2>1, <2>3, <3>1
  <2> QED BY <1>1, <1>7, <2>1, <2>2, <2>3
<1>12. Len(ms) < HistoryLimit => k = Len(all)
  BY <1>1, <1>7
<1> HIDE DEF k
<1>13. Len(ms) < HistoryLimit => Shifted(t, ms, i, row)
  BY <1>7, <1>10, <1>12 DEF Shifted
<1> QED BY <1>10, <1>11, <1>13

LEMMA SentRows ==
  ASSUME NEW ms \in Seq(Row), \A n \in DOMAIN ms : ms[n].status = "Queued" => ms[n].attempts < 2
  PROVE  Sent(ms) \in Seq(Row) /\ DOMAIN Sent(ms) = DOMAIN ms /\ Len(Sent(ms)) = Len(ms)
<1>1. Len(ms) \in Nat /\ DOMAIN ms = 1..Len(ms) /\ \A n \in DOMAIN ms : ms[n] \in Row
  BY Shape
<1>2. Sent(ms) \in [1..Len(ms) -> Row]
  <2> SUFFICES ASSUME NEW n \in DOMAIN ms PROVE Sent(ms)[n] \in Row
    BY <1>1 DEF Sent
  <2>1. CASE ms[n].status = "Queued"
    <3>1. Sent(ms)[n] = [ms[n] EXCEPT !.status = "Sending", !.attempts = @ + 1]
      BY <2>1 DEF Sent
    <3>2. ms[n].attempts + 1 \in 0..2
      BY <1>1, <2>1 DEF Row
    <3> QED BY <1>1, <3>1, <3>2 DEF Row
  <2>2. CASE ms[n].status # "Queued"
    BY <1>1, <2>2 DEF Sent
  <2> QED BY <2>1, <2>2
<1> QED BY <1>1, <1>2, LenProperties

LEMMA RequeuedRows ==
  ASSUME NEW ms \in Seq(Row)
  PROVE  /\ Requeued(ms) \in Seq(Row) /\ DOMAIN Requeued(ms) = DOMAIN ms
         /\ Len(Requeued(ms)) = Len(ms)
<1>1. Len(ms) \in Nat /\ DOMAIN ms = 1..Len(ms) /\ \A n \in DOMAIN ms : ms[n] \in Row
  BY Shape
<1>2. Requeued(ms) \in [1..Len(ms) -> Row]
  <2> SUFFICES ASSUME NEW n \in DOMAIN ms PROVE Requeued(ms)[n] \in Row
    BY <1>1 DEF Requeued
  <2> QED BY <1>1 DEF Requeued, Row
<1> QED BY <1>1, <1>2, LenProperties

LEMMA AcknowledgedRows ==
  ASSUME NEW ms \in Seq(Row), NEW id
  PROVE  /\ Acknowledged(ms, id) \in Seq(Row) /\ DOMAIN Acknowledged(ms, id) = DOMAIN ms
         /\ Len(Acknowledged(ms, id)) = Len(ms)
<1>1. Len(ms) \in Nat /\ DOMAIN ms = 1..Len(ms) /\ \A n \in DOMAIN ms : ms[n] \in Row
  BY Shape
<1>2. Acknowledged(ms, id) \in [1..Len(ms) -> Row]
  <2> SUFFICES ASSUME NEW n \in DOMAIN ms PROVE Acknowledged(ms, id)[n] \in Row
    BY <1>1 DEF Acknowledged
  <2> QED BY <1>1 DEF Acknowledged, Row
<1> QED BY <1>1, <1>2, LenProperties

\* The place of a received row is one of the newest six.
LEMMA PlaceType ==
  ASSUME NEW ms \in Seq(Row)
  PROVE  RowFor(ms) \in 1..(Len(ms) + 1)
<1>1. Len(ms) \in Nat
  BY Shape
<1> DEFINE settled == {n \in Newest(ms) : ~Unsettled(ms[n])}
<1>2. settled \subseteq 1..5 /\ settled \subseteq 1..Len(ms)
  BY <1>1 DEF Newest
<1>3. CASE settled = {}
  BY <1>1, <1>3 DEF RowFor
<1>4. CASE settled # {}
  <2>1. RowFor(ms) = CHOOSE n \in settled : \A i \in settled : n <= i
    BY <1>4 DEF RowFor
  <2> HIDE DEF settled
  <2>2. \E n \in settled : \A i \in settled : n <= i
    <3>1. PICK n \in settled : TRUE
      BY <1>4
    <3>2. CASE 1 \in settled BY <1>2, <3>2
    <3>3. CASE 1 \notin settled /\ 2 \in settled BY <1>2, <3>3
    <3>4. CASE 1 \notin settled /\ 2 \notin settled /\ 3 \in settled BY <1>2, <3>4
    <3>5. CASE settled \subseteq {4, 5} /\ 4 \in settled BY <1>2, <3>5
    <3>6. CASE settled \subseteq {5} BY <1>2, <3>1, <3>6
    <3>7. settled \subseteq {1, 2, 3, 4, 5}
      BY <1>2
    <3> QED BY <3>2, <3>3, <3>4, <3>5, <3>6, <3>7
  <2>3. RowFor(ms) \in settled
    BY <2>1, <2>2
  <2>4. RowFor(ms) \in 1..Len(ms)
    BY <1>2, <2>3, Zenon
  <2> QED BY <1>1, <2>4
<1> QED BY <1>3, <1>4

\* What is queued, written to the wire.
LEMMA QueueType ==
  ASSUME NEW ms \in Seq(Row), NEW order \in OldestFirst(Queued(ms)),
         NEW t, t = [n \in DOMAIN order |-> [kind |-> "message", id |-> ms[order[n]].id]]
  PROVE  /\ t \in Seq(Packets) /\ DOMAIN t = DOMAIN order /\ DOMAIN order = 1..Len(t)
         /\ \A n \in DOMAIN order : order[n] \in Queued(ms) /\ order[n] \in DOMAIN ms
<1>1. Len(ms) \in Nat /\ DOMAIN ms = 1..Len(ms) /\ \A n \in DOMAIN ms : ms[n] \in Row
  BY Shape
<1>2. Queued(ms) \subseteq DOMAIN ms
  BY DEF Queued
<1>3. IsFiniteSet(Queued(ms)) /\ Cardinality(Queued(ms)) \in Nat
  <2>1. IsFiniteSet(DOMAIN ms)
    BY <1>1, FS_Interval
  <2>2. IsFiniteSet(Queued(ms))
    BY <1>2, <2>1, FS_Subset
  <2> QED BY <2>2, FS_CardinalityType
<1>4. order \in [1..Cardinality(Queued(ms)) -> Queued(ms)]
  BY DEF OldestFirst
<1>5. t \in [1..Cardinality(Queued(ms)) -> Packets]
  <2> SUFFICES ASSUME NEW n \in 1..Cardinality(Queued(ms)) PROVE t[n] \in Packets
    BY <1>4
  <2>1. ms[order[n]] \in Row
    BY <1>1, <1>2, <1>4
  <2>2. ms[order[n]].id \in 1..MaxSent
    BY <2>1 DEF Row
  <2>3. t[n] = [kind |-> "message", id |-> ms[order[n]].id]
    BY <1>4
  <2> QED BY <2>2, <2>3 DEF Packets
<1>6. t \in Seq(Packets) /\ DOMAIN t = 1..Cardinality(Queued(ms))
  BY <1>3, <1>5
<1>7. DOMAIN t = 1..Len(t)
  BY <1>6, LenProperties
<1>8. DOMAIN t = DOMAIN order
  BY <1>4, <1>6
<1>9. \A n \in DOMAIN order : order[n] \in Queued(ms)
  BY <1>4
<1> QED BY <1>2, <1>6, <1>7, <1>8, <1>9, Zenon

-----------------------------------------------------------------------------
\* The types survive every action.

Conversation ==
  /\ messages \in [Peer -> Seq(Row)] /\ sent \in [Peer -> 0..MaxSent]
  /\ pending \in [Peer -> SUBSET (1..MaxSent)] /\ shown \in [Peer -> Seq(1..MaxSent)]
Link ==
  /\ link \in [Peer -> {"none", "dialling", "up", "dead"}] /\ heard \in [Peer -> BOOLEAN]
  /\ out \in [Peer -> {"none", "opening", "open"}] /\ crashed \in [Peer -> BOOLEAN]
  /\ drops \in 0..MaxDrops /\ closes \in 0..MaxCloses
Reading ==
  wire \in [Peer -> Seq(Packets)] /\ calls \in [Peer -> Seq(Calls)] /\ batch \in [Peer -> Nat]

LEMMA TypeParts == TypeOK <=> Conversation /\ Link /\ Reading
BY DEF TypeOK, Conversation, Link, Reading
LEMMA TypePartsPrime == TypeOK' <=> Conversation' /\ Link' /\ Reading'
BY DEF TypeOK, Conversation, Link, Reading

LEMMA Written ==
  ASSUME TypeOK, NEW p \in Peer,
         NEW STATE unread, unread \in Seq(Packets), NEW STATE packets, packets \in Seq(Packets),
         Write(p, unread, packets)
  PROVE  /\ wire' \in [Peer -> Seq(Packets)] /\ wire'[p] = unread
         /\ wire'[Other(p)] = IF Live(Other(p)) THEN wire[Other(p)] \o packets ELSE << >>
<1>1. wire \in [Peer -> Seq(Packets)] /\ Other(p) \in Peer /\ Other(p) # p
  BY Peers DEF TypeOK
<1>2. wire[Other(p)] \o packets \in Seq(Packets)
  BY <1>1, Joined
<1>3. << >> \in Seq(Packets)
  OBVIOUS
<1> DEFINE other == IF Live(Other(p)) THEN wire[Other(p)] \o packets ELSE << >>
<1>4. wire' = [wire EXCEPT ![p] = unread, ![Other(p)] = other]
  BY <1>1 DEF Write, Live
<1>5. other \in Seq(Packets)
  BY <1>2, <1>3
<1> HIDE DEF other
<1>6. wire' \in [Peer -> Seq(Packets)] /\ wire'[p] = unread /\ wire'[Other(p)] = other
  BY <1>1, <1>4, <1>5
<1> QED BY <1>6 DEF other

LEMMA Single ==
  /\ << >> \in Seq(Packets)
  /\ << [kind |-> "open"] >> \in Seq(Packets) /\ << [kind |-> "opened"] >> \in Seq(Packets)
  /\ << [kind |-> "known"] >> \in Seq(Packets)
  /\ \A m \in 1..MaxSent : /\ << [kind |-> "message", id |-> m] >> \in Seq(Packets)
                           /\ << [kind |-> "ack", id |-> m] >> \in Seq(Packets)
BY DEF Packets

\* ConversationModel::sendQueuedMessages writes the queue, or asks for the
\* channel, or neither.
LEMMA Sends ==
  ASSUME TypeOK, Heeded, NEW p \in Peer, NEW STATE c, c \in {"none", "opening", "open"},
         NEW STATE unread, unread \in Seq(Packets), SendQueued(p, c, unread),
         link[p] = "up", c = "open"
  PROVE  \E order \in OldestFirst(Queued(messages[p])) :
           LET packets == [n \in DOMAIN order |->
                             [kind |-> "message", id |-> messages[p][order[n]].id]] IN
           /\ packets \in Seq(Packets) /\ Write(p, unread, packets)
           /\ out' = [out EXCEPT ![p] = "open"]
           /\ messages' = [messages EXCEPT ![p] = Sent(messages[p])]
           /\ Sent(messages[p]) \in Seq(Row)
           /\ pending' = [pending EXCEPT ![p] =
                            pending[p] \cup {messages[p][n].id : n \in Queued(messages[p])}]
           /\ {messages[p][n].id : n \in Queued(messages[p])} \in SUBSET (1..MaxSent)
<1>1. messages[p] \in Seq(Row) /\ pending[p] \in SUBSET (1..MaxSent)
      /\ \A n \in DOMAIN messages[p] :
           messages[p][n].status = "Queued" => messages[p][n].attempts < 2
  BY DEF TypeOK, Heeded, Waits
<1>2. PICK order \in OldestFirst(Queued(messages[p])) :
        Write(p, unread, [n \in DOMAIN order |->
                             [kind |-> "message", id |-> messages[p][order[n]].id]])
  BY DEF SendQueued
<1>3. /\ messages' = [messages EXCEPT ![p] = Sent(messages[p])]
      /\ pending' = [pending EXCEPT ![p] =
                       pending[p] \cup {messages[p][n].id : n \in Queued(messages[p])}]
      /\ out' = [out EXCEPT ![p] = "open"]
  BY DEF SendQueued, TypeOK
<1>4. [n \in DOMAIN order |-> [kind |-> "message", id |-> messages[p][order[n]].id]]
        \in Seq(Packets)
  BY <1>1, QueueType
<1>5. Sent(messages[p]) \in Seq(Row)
  BY <1>1, SentRows
<1>6. ASSUME NEW n \in Queued(messages[p]) PROVE messages[p][n].id \in 1..MaxSent
  <2>1. messages[p][n] \in Row
    BY <1>1, Shape DEF Queued
  <2> QED BY <2>1 DEF Row
<1>7. {messages[p][n].id : n \in Queued(messages[p])} \in SUBSET (1..MaxSent)
  BY <1>6
<1> QED BY <1>2, <1>3, <1>4, <1>5, <1>7, Zenon

LEMMA Asks ==
  ASSUME TypeOK, NEW p \in Peer, NEW STATE c, c \in {"none", "opening", "open"},
         NEW STATE unread, unread \in Seq(Packets), SendQueued(p, c, unread),
         ~(link[p] = "up" /\ c = "open")
  PROVE  /\ UNCHANGED <<messages, pending>>
         /\ \/ /\ link[p] = "up" /\ c = "none"
               /\ Write(p, unread, << [kind |-> "open"] >>)
               /\ out' = [out EXCEPT ![p] = "opening"]
            \/ /\ ~(link[p] = "up" /\ c = "none")
               /\ Write(p, unread, << >>)
               /\ out' = [out EXCEPT ![p] = c]
<1>1. CASE link[p] = "up" /\ c = "none"
  BY <1>1 DEF SendQueued
<1>2. CASE ~(link[p] = "up" /\ c = "none")
  BY <1>2 DEF SendQueued
<1> QED BY <1>1, <1>2

LEMMA SendQueuedType ==
  ASSUME TypeOK, Heeded, NEW p \in Peer, NEW STATE c, c \in {"none", "opening", "open"},
         NEW STATE unread, unread \in Seq(Packets), SendQueued(p, c, unread)
  PROVE  /\ out' \in [Peer -> {"none", "opening", "open"}] /\ crashed' \in [Peer -> BOOLEAN]
         /\ messages' \in [Peer -> Seq(Row)] /\ pending' \in [Peer -> SUBSET (1..MaxSent)]
         /\ wire' \in [Peer -> Seq(Packets)]
<1>1. crashed' \in [Peer -> BOOLEAN]
  BY DEF SendQueued, TypeOK
<1>2. /\ out \in [Peer -> {"none", "opening", "open"}] /\ messages \in [Peer -> Seq(Row)]
      /\ pending \in [Peer -> SUBSET (1..MaxSent)]
  BY DEF TypeOK
<1>3. CASE link[p] = "up" /\ c = "open"
  <2>1. PICK order \in OldestFirst(Queued(messages[p])) :
           LET packets == [n \in DOMAIN order |->
                             [kind |-> "message", id |-> messages[p][order[n]].id]] IN
           /\ packets \in Seq(Packets) /\ Write(p, unread, packets)
           /\ out' = [out EXCEPT ![p] = "open"]
           /\ messages' = [messages EXCEPT ![p] = Sent(messages[p])]
           /\ Sent(messages[p]) \in Seq(Row)
           /\ pending' = [pending EXCEPT ![p] =
                            pending[p] \cup {messages[p][n].id : n \in Queued(messages[p])}]
           /\ {messages[p][n].id : n \in Queued(messages[p])} \in SUBSET (1..MaxSent)
    BY <1>3, Sends
  <2> DEFINE packets == [n \in DOMAIN order |->
                             [kind |-> "message", id |-> messages[p][order[n]].id]]
             ids == {messages[p][n].id : n \in Queued(messages[p])}
  <2>2. packets \in Seq(Packets) /\ Write(p, unread, packets)
    BY <2>1
  <2> HIDE DEF packets
  <2>3. wire' \in [Peer -> Seq(Packets)]
    BY <2>2, Written
  <2>4. /\ ids \in SUBSET (1..MaxSent)
        /\ pending' = [pending EXCEPT ![p] = pending[p] \cup ids]
    BY <2>1
  <2> HIDE DEF ids
  <2>5. pending' \in [Peer -> SUBSET (1..MaxSent)]
    BY <1>2, <2>4
  <2>6. messages' \in [Peer -> Seq(Row)] /\ out' \in [Peer -> {"none", "opening", "open"}]
    BY <1>2, <2>1
  <2> QED BY <1>1, <2>3, <2>5, <2>6
<1>4. CASE ~(link[p] = "up" /\ c = "open")
  <2>1. messages' = messages /\ pending' = pending /\ wire' \in [Peer -> Seq(Packets)]
    BY <1>4, Asks, Written, Single
  <2>2. out' \in [Peer -> {"none", "opening", "open"}]
    BY <1>2, <1>4, Asks
  <2> QED BY <1>1, <1>2, <2>1, <2>2
<1> QED BY <1>3, <1>4

LEMMA Facts ==
  ASSUME TypeOK, NEW p \in Peer
  PROVE  /\ messages[p] \in Seq(Row) /\ wire[p] \in Seq(Packets) /\ calls[p] \in Seq(Calls)
         /\ Len(wire[p]) \in Nat /\ batch[p] \in Nat /\ Other(p) \in Peer /\ Other(p) # p
         /\ wire[p] # << >> => /\ Tail(wire[p]) \in Seq(Packets)
                               /\ Len(Tail(wire[p])) = Len(wire[p]) - 1
                               /\ Head(wire[p]) \in Packets
         /\ calls[p] # << >> => Tail(calls[p]) \in Seq(Calls)
         /\ Requeued(messages[p]) \in Seq(Row)
         /\ \A call \in Calls : Append(calls[p], call) \in Seq(Calls)
<1>1. /\ messages[p] \in Seq(Row) /\ wire[p] \in Seq(Packets) /\ calls[p] \in Seq(Calls)
      /\ batch[p] \in Nat /\ Other(p) \in Peer /\ Other(p) # p
  BY Peers DEF TypeOK
<1>2. \A call \in Calls : Append(calls[p], call) \in Seq(Calls)
  BY <1>1, Added
<1>3. wire[p] # << >> => /\ Tail(wire[p]) \in Seq(Packets)
                         /\ Len(Tail(wire[p])) = Len(wire[p]) - 1
                         /\ Head(wire[p]) \in Packets
  BY <1>1, Dropped
<1>4. calls[p] # << >> => Tail(calls[p]) \in Seq(Calls)
  BY <1>1, Dropped
<1> QED BY <1>1, <1>2, <1>3, <1>4, RequeuedRows, Shape

\* A packet about a message names one.
LEMMA Named ==
  ASSUME NEW packet \in Packets, packet.kind \in {"message", "ack"}
  PROVE  packet.id \in 1..MaxSent
BY DEF Packets

LEMMA ConnectType == ASSUME TypeOK, NEW p \in Peer, Connect(p) PROVE TypeOK'
<1> DEFINE q == Other(p)
<1>1. q \in Peer /\ q # p /\ Requeued(messages[q]) \in Seq(Row) /\ calls[q] \in Seq(Calls)
  BY Facts
<1> HIDE DEF q
<1>2. Append(calls[q], "onConnected") \in Seq(Calls)
  BY <1>1, Added DEF Calls
<1>3. calls[q] \o <<"onConnected", "sendQueuedMessages">> \in Seq(Calls)
  <2>1. <<"onConnected", "sendQueuedMessages">> \in Seq(Calls)
    BY DEF Calls
  <2> QED BY <1>1, <2>1, Joined
<1>4. Conversation /\ Link /\ Reading
  BY TypeParts
<1>5. Conversation'
  BY <1>1, <1>4 DEF Connect, Conversation, q
<1>6. Link'
  BY <1>1, <1>4 DEF Connect, Link, q, bounds
<1>7. Reading'
  <2>1. calls' \in [Peer -> Seq(Calls)]
    <3>1. \/ calls' = [calls EXCEPT ![q] = Append(calls[q], "onConnected")]
          \/ calls' = [calls EXCEPT ![q] = calls[q] \o <<"onConnected", "sendQueuedMessages">>]
      BY <1>1, <1>4 DEF Connect, q, Reading
    <3> QED BY <1>1, <1>2, <1>3, <1>4, <3>1 DEF Reading
  <2>2. wire' \in [Peer -> Seq(Packets)]
    <3>1. wire' = [wire EXCEPT ![p] = << [kind |-> "known"] >>, ![q] = << >>]
      BY DEF Connect, q
    <3> QED BY <1>1, <1>4, <3>1, Single DEF Reading
  <2>3. batch' \in [Peer -> Nat]
    BY <1>1, <1>4 DEF Connect, q, Reading
  <2> QED BY <2>1, <2>2, <2>3 DEF Reading
<1> QED BY <1>5, <1>6, <1>7, TypePartsPrime

LEMMA ReceiveKnownType == ASSUME TypeOK, NEW p \in Peer, ReceiveKnown(p) PROVE TypeOK'
<1>1. /\ Append(calls[p], "onConnected") \in Seq(Calls) /\ Tail(wire[p]) \in Seq(Packets)
      /\ Len(wire[p]) - 1 \in Nat
  BY Facts, Shape DEF ReceiveKnown, Reads, Calls
<1>2. wire' \in [Peer -> Seq(Packets)]
  BY <1>1, Single, Written DEF ReceiveKnown
<1>3. Conversation /\ Link /\ Reading
  BY TypeParts
<1>4. Conversation'
  BY <1>3 DEF ReceiveKnown, Conversation
<1>5. Link'
  BY <1>3 DEF ReceiveKnown, Link, bounds
<1>6. Reading'
  BY <1>1, <1>2, <1>3 DEF ReceiveKnown, Reading
<1> QED BY <1>4, <1>5, <1>6, TypePartsPrime

LEMMA ClosedType ==
  ASSUME TypeOK, NEW p \in Peer, Closed(p), drops' \in 0..MaxDrops
  PROVE  TypeOK'
<1>1. Append(calls[p], "onDisconnected") \in Seq(Calls) /\ Requeued(messages[p]) \in Seq(Row)
  BY Facts DEF Calls
<1>2. Conversation /\ Link /\ Reading
  BY TypeParts
<1>3. Conversation'
  BY <1>1, <1>2 DEF Closed, Conversation
<1>4. Link'
  BY <1>2 DEF Closed, Link
<1>5. Reading'
  <2>1. wire' \in [Peer -> Seq(Packets)] /\ batch' \in [Peer -> Nat]
    BY <1>2, Single DEF Closed, Reading
  <2>2. calls' \in [Peer -> Seq(Calls)]
    BY <1>1, <1>2 DEF Closed, Reading
  <2> QED BY <2>1, <2>2 DEF Reading
<1> QED BY <1>3, <1>4, <1>5, TypePartsPrime

LEMMA FileChannelClosedType ==
  ASSUME TypeOK, NEW p \in Peer, FileChannelClosed(p)
  PROVE  TypeOK'
<1>1. Append(calls[p], "sendQueuedMessages") \in Seq(Calls) /\ Requeued(messages[p]) \in Seq(Row)
      /\ Len(wire[p]) \in Nat
  BY Facts DEF Calls
<1>2. Conversation /\ Link /\ Reading
  BY TypeParts
<1>3. Conversation'
  BY <1>1, <1>2 DEF FileChannelClosed, Conversation
<1>4. Link'
  BY <1>2, BoundsAssumption DEF FileChannelClosed, Link
<1>5. Reading'
  BY <1>1, <1>2 DEF FileChannelClosed, Post, Reading
<1> QED BY <1>3, <1>4, <1>5, TypePartsPrime

LEMMA CountedType ==
  ASSUME TypeOK, NEW p \in Peer, Counted(p)
  PROVE  calls' = calls /\ batch' \in [Peer -> Nat]
<1>1. batch \in [Peer -> Nat]
  BY DEF TypeOK
<1>2. (IF batch[p] > 0 THEN batch[p] - 1 ELSE 0) \in Nat
  BY <1>1
<1> QED BY <1>1, <1>2 DEF Counted

LEMMA ReceiveOpenType == ASSUME TypeOK, NEW p \in Peer, ReceiveOpen(p) PROVE TypeOK'
<1>1. Tail(wire[p]) \in Seq(Packets)
  BY Facts DEF ReceiveOpen, Reads
<1>2. wire' \in [Peer -> Seq(Packets)]
  BY <1>1, Single, Written DEF ReceiveOpen
<1>3. calls' = calls /\ batch' \in [Peer -> Nat]
  BY CountedType DEF ReceiveOpen
<1>4. Conversation /\ Link /\ Reading
  BY TypeParts
<1>5. Conversation' /\ Link'
  BY <1>4 DEF ReceiveOpen, Conversation, Link, bounds
<1>6. Reading'
  BY <1>2, <1>3, <1>4 DEF Reading
<1> QED BY <1>5, <1>6, TypePartsPrime

LEMMA ReceiveOpenedType ==
  ASSUME TypeOK, Heeded, NEW p \in Peer, ReceiveOpened(p)
  PROVE  TypeOK'
<1>1. Tail(wire[p]) \in Seq(Packets)
  BY Facts DEF ReceiveOpened, Reads
<1>2. calls' = calls /\ batch' \in [Peer -> Nat]
  BY CountedType DEF ReceiveOpened
<1>3. Conversation /\ Link /\ Reading
  BY TypeParts
<1>4. /\ out' \in [Peer -> {"none", "opening", "open"}] /\ crashed' \in [Peer -> BOOLEAN]
      /\ messages' \in [Peer -> Seq(Row)] /\ pending' \in [Peer -> SUBSET (1..MaxSent)]
      /\ wire' \in [Peer -> Seq(Packets)]
  <2>1. CASE heard[p]
    BY <1>1, <2>1, SendQueuedType DEF ReceiveOpened
  <2>2. CASE ~heard[p]
    <3>1. wire' \in [Peer -> Seq(Packets)]
      BY <1>1, <2>2, Single, Written DEF ReceiveOpened
    <3> QED BY <1>3, <2>2, <3>1 DEF ReceiveOpened, Conversation, Link
  <2> QED BY <2>1, <2>2
<1>5. Conversation' /\ Link'
  BY <1>3, <1>4 DEF ReceiveOpened, Conversation, Link, bounds
<1>6. Reading'
  BY <1>2, <1>3, <1>4 DEF Reading
<1> QED BY <1>5, <1>6, TypePartsPrime

LEMMA NewRow ==
  ASSUME TypeOK, NEW p \in Peer, SendMessage(p)
  PROVE  /\ sent[p] + 1 \in 1..MaxSent
         /\ [id |-> sent[p] + 1,
             status |-> IF out[p] = "open" THEN "Sending" ELSE "Queued",
             attempts |-> IF out[p] = "open" THEN 1 ELSE 0] \in Row
<1>1. sent[p] \in 0..MaxSent /\ sent[p] < MaxSent /\ MaxSent \in Nat
  BY BoundsAssumption, HistoryAssumption DEF SendMessage, TypeOK
<1>2. sent[p] + 1 \in 1..MaxSent
  BY <1>1
<1> QED BY <1>2 DEF Row

LEMMA SendMessageType == ASSUME TypeOK, NEW p \in Peer, SendMessage(p) PROVE TypeOK'
<1> DEFINE row == [id |-> sent[p] + 1,
                   status |-> IF out[p] = "open" THEN "Sending" ELSE "Queued",
                   attempts |-> IF out[p] = "open" THEN 1 ELSE 0]
<1>1. row \in Row /\ sent[p] + 1 \in 1..MaxSent /\ messages[p] \in Seq(Row)
      /\ wire[p] \in Seq(Packets)
  BY NewRow, Facts
<1>2. Inserted(messages[p], 1, row) \in Seq(Row)
  <2>1. 1 \in 1..(Len(messages[p]) + 1)
    BY <1>1, Shape
  <2> QED BY <1>1, <2>1, InsertedRow
<1>3. Conversation /\ Link /\ Reading
  BY TypeParts
<1>4. messages' = [messages EXCEPT ![p] = Inserted(messages[p], 1, row)]
  BY <1>3 DEF SendMessage, Conversation
<1> HIDE DEF row
<1>5. Conversation'
  BY <1>1, <1>2, <1>3, <1>4 DEF SendMessage, Conversation
<1>6. Link'
  BY <1>3 DEF SendMessage, Link, bounds
<1>7. wire' \in [Peer -> Seq(Packets)]
  <2>1. \/ UNCHANGED wire
        \/ Write(p, wire[p], << [kind |-> "message", id |-> sent[p] + 1] >>)
        \/ Write(p, wire[p], << [kind |-> "open"] >>)
    BY DEF SendMessage
  <2>2. << [kind |-> "message", id |-> sent[p] + 1] >> \in Seq(Packets)
    BY <1>1, Single
  <2> QED BY <1>1, <1>3, <2>1, <2>2, Single, Written DEF Reading
<1>8. Reading'
  BY <1>3, <1>7 DEF SendMessage, Reading
<1> QED BY <1>5, <1>6, <1>8, TypePartsPrime

LEMMA ReceivedRows ==
  ASSUME NEW ms \in Seq(Row), NEW id \in 1..MaxSent
  PROVE  Received(ms, id) \in Seq(Row)
<1>1. [id |-> id, status |-> "Received", attempts |-> 0] \in Row
  BY DEF Row
<1> QED BY <1>1, PlaceType, InsertedRow DEF Received

LEMMA ReceiveMessageType == ASSUME TypeOK, NEW p \in Peer, ReceiveMessage(p) PROVE TypeOK'
<1> DEFINE id == Head(wire[p]).id
<1>1. Tail(wire[p]) \in Seq(Packets) /\ messages[p] \in Seq(Row)
  BY Facts DEF ReceiveMessage, Reads
<1>2. id \in 1..MaxSent
  BY Facts, Named DEF ReceiveMessage, Reads
<1>3. Conversation /\ Link /\ Reading
  BY TypeParts
<1>4. wire' \in [Peer -> Seq(Packets)]
  <2>1. << [kind |-> "ack", id |-> id] >> \in Seq(Packets)
    BY <1>2, Single
  <2>2. Write(p, Tail(wire[p]), << [kind |-> "ack", id |-> id] >>)
    BY DEF ReceiveMessage
  <2> HIDE DEF id
  <2> QED BY <1>1, <2>1, <2>2, Written
<1>5. \/ UNCHANGED <<messages, shown>>
      \/ /\ messages' = [messages EXCEPT ![p] = Received(messages[p], id)]
         /\ shown' = [shown EXCEPT ![p] = Append(shown[p], id)]
  BY <1>3 DEF ReceiveMessage, Conversation
<1>6. calls' = calls /\ batch' \in [Peer -> Nat]
  BY CountedType DEF ReceiveMessage
<1> HIDE DEF id
<1>7. Conversation'
  <2>1. Received(messages[p], id) \in Seq(Row)
    BY <1>1, <1>2, ReceivedRows
  <2>2. Append(shown[p], id) \in Seq(1..MaxSent)
    BY <1>2, <1>3, Added DEF Conversation
  <2>3. UNCHANGED <<sent, pending>>
    BY DEF ReceiveMessage
  <2> QED BY <1>3, <1>5, <2>1, <2>2, <2>3 DEF Conversation
<1>8. Link'
  BY <1>3 DEF ReceiveMessage, Link, bounds
<1>9. Reading'
  BY <1>3, <1>4, <1>6 DEF Reading
<1> QED BY <1>7, <1>8, <1>9, TypePartsPrime

LEMMA ReceiveAckType == ASSUME TypeOK, NEW p \in Peer, ReceiveAck(p) PROVE TypeOK'
<1>1. Tail(wire[p]) \in Seq(Packets)
      /\ Acknowledged(messages[p], Head(wire[p]).id) \in Seq(Row)
  BY Facts, AcknowledgedRows DEF ReceiveAck, Reads
<1>2. wire' \in [Peer -> Seq(Packets)]
  BY <1>1, Single, Written DEF ReceiveAck
<1>3. calls' = calls /\ batch' \in [Peer -> Nat]
  BY CountedType DEF ReceiveAck
<1>4. Conversation /\ Link /\ Reading
  BY TypeParts
<1>5. Conversation'
  BY <1>1, <1>4 DEF ReceiveAck, Conversation
<1>6. Link'
  BY <1>4 DEF ReceiveAck, Link, bounds
<1>7. Reading'
  BY <1>2, <1>3, <1>4 DEF Reading
<1> QED BY <1>5, <1>6, <1>7, TypePartsPrime

LEMMA MadeType ==
  ASSUME TypeOK, NEW p \in Peer, NEW call, Made(p, call)
  PROVE  calls' \in [Peer -> Seq(Calls)] /\ UNCHANGED <<batch, sent, shown, drops, closes>>
<1>1. Tail(calls[p]) \in Seq(Calls)
  BY Facts DEF Made
<1> QED BY <1>1 DEF Made, TypeOK, bounds

LEMMA OnConnectedType == ASSUME TypeOK, Heeded, NEW p \in Peer, OnConnected(p) PROVE TypeOK'
<1>1. calls' \in [Peer -> Seq(Calls)] /\ UNCHANGED <<batch, sent, shown, drops, closes, link>>
  BY MadeType DEF OnConnected
<1>2. Conversation /\ Link /\ Reading
  BY TypeParts
<1>3. /\ out' \in [Peer -> {"none", "opening", "open"}] /\ crashed' \in [Peer -> BOOLEAN]
      /\ messages' \in [Peer -> Seq(Row)] /\ pending' \in [Peer -> SUBSET (1..MaxSent)]
      /\ wire' \in [Peer -> Seq(Packets)] /\ heard' \in [Peer -> BOOLEAN]
  <2>1. CASE link[p] = "up"
    <3>1. out[p] \in {"none", "opening", "open"} /\ wire[p] \in Seq(Packets)
      BY <1>2 DEF Link, Reading
    <3>2. SendQueued(p, out[p], wire[p]) /\ heard' = [heard EXCEPT ![p] = TRUE]
      BY <2>1 DEF OnConnected
    <3> QED BY <1>2, <3>1, <3>2, SendQueuedType DEF Link
  <2>2. CASE link[p] # "up"
    BY <1>2, <2>2 DEF OnConnected, Conversation, Link, Reading
  <2> QED BY <2>1, <2>2
<1>4. Conversation' /\ Link' /\ Reading'
  BY <1>1, <1>2, <1>3 DEF Conversation, Link, Reading
<1> QED BY <1>4, TypePartsPrime

LEMMA OnDisconnectedType == ASSUME TypeOK, NEW p \in Peer, OnDisconnected(p) PROVE TypeOK'
<1>1. calls' \in [Peer -> Seq(Calls)] /\ UNCHANGED <<batch, sent, shown, drops, closes>>
  BY MadeType DEF OnDisconnected
<1>2. Conversation /\ Link /\ Reading
  BY TypeParts
<1>3. Conversation' /\ Link' /\ Reading'
  BY <1>1, <1>2 DEF OnDisconnected, Conversation, Link, Reading
<1> QED BY <1>3, TypePartsPrime

LEMMA SendQueuedMessagesType ==
  ASSUME TypeOK, Heeded, NEW p \in Peer, SendQueuedMessages(p)
  PROVE  TypeOK'
<1>1. calls' \in [Peer -> Seq(Calls)] /\ UNCHANGED <<batch, sent, shown, drops, closes>>
  BY MadeType DEF SendQueuedMessages
<1>2. Conversation /\ Link /\ Reading
  BY TypeParts
<1>3. out[p] \in {"none", "opening", "open"} /\ wire[p] \in Seq(Packets)
  BY <1>2 DEF Link, Reading
<1>4. /\ out' \in [Peer -> {"none", "opening", "open"}] /\ crashed' \in [Peer -> BOOLEAN]
      /\ messages' \in [Peer -> Seq(Row)] /\ pending' \in [Peer -> SUBSET (1..MaxSent)]
      /\ wire' \in [Peer -> Seq(Packets)]
  BY <1>3, SendQueuedType DEF SendQueuedMessages
<1>5. Conversation' /\ Link' /\ Reading'
  BY <1>1, <1>2, <1>4 DEF SendQueuedMessages, Conversation, Link, Reading
<1> QED BY <1>5, TypePartsPrime

LEMMA TypeStep ==
  ASSUME TypeOK, Heeded, [Next]_vars
  PROVE  TypeOK'
<1>1. ASSUME NEW p \in Peer, Drop(p) PROVE TypeOK'
  <2>1. drops' \in 0..MaxDrops
    BY <1>1, BoundsAssumption DEF Drop, TypeOK
  <2> QED BY <1>1, <2>1, ClosedType DEF Drop
<1>2. ASSUME NEW p \in Peer, PeerGone(p) PROVE TypeOK'
  <2>1. drops' \in 0..MaxDrops
    BY <1>2 DEF PeerGone, TypeOK
  <2> QED BY <1>2, <2>1, ClosedType DEF PeerGone
<1>3. CASE UNCHANGED vars
  BY <1>3 DEF TypeOK, vars, bounds
<1> QED BY <1>1, <1>2, <1>3, ConnectType, ReceiveKnownType, FileChannelClosedType, ReceiveOpenType,
        ReceiveOpenedType, SendMessageType, ReceiveMessageType, ReceiveAckType, OnConnectedType,
        OnDisconnectedType, SendQueuedMessagesType DEF Next, Receive, Call

-----------------------------------------------------------------------------
\* Who reads, listens.

Untouched(q) ==
  /\ link'[q] = link[q] /\ heard'[q] = heard[q] /\ out'[q] = out[q] /\ calls'[q] = calls[q]
  /\ batch'[q] = batch[q] /\ messages'[q] = messages[q] /\ pending'[q] = pending[q]

\* What the other user writes changes nothing for q.
LEMMA Apart ==
  ASSUME TypeOK, Heeded, NEW q \in Peer, Untouched(q), NEW STATE packets, packets \in Seq(Packets),
         wire'[q] = IF Live(q) THEN wire[q] \o packets ELSE << >>
  PROVE  Listens(q)' /\ Waits(q)'
<1>1. Listens(q) /\ Waits(q)
  BY DEF Heeded
<1>2. Waits(q)'
  BY <1>1 DEF Untouched, Waits
<1>3. wire[q] \in Seq(Packets) /\ batch[q] \in Nat /\ calls[q] \in Seq(Calls) /\ Len(wire[q]) \in Nat
  BY Facts
<1>4. Live(q)' <=> Live(q)
  BY DEF Untouched, Live
<1>5. CASE ~Live(q)
  <2>1. wire'[q] = wire[q] /\ link[q] # "up"
    BY <1>1, <1>5 DEF Listens, Live
  <2>2. link'[q] # "up" /\ heard'[q] = FALSE /\ out'[q] = "none"
    BY <1>1, <1>5, <2>1 DEF Listens, Untouched, TypeOK
  <2>3. wire'[q] = << >> /\ batch'[q] = 0 /\ (calls'[q] # << >> => batch'[q] <= Len(wire'[q]))
    BY <1>1, <1>3, <1>5, <2>1 DEF Listens, Untouched
  <2> QED BY <1>2, <2>2, <2>3 DEF Listens
<1>6. CASE Live(q)
  <2>1. /\ wire'[q] \in Seq(Packets) /\ Len(wire'[q]) = Len(wire[q]) + Len(packets)
        /\ DOMAIN wire[q] = 1..Len(wire[q]) /\ DOMAIN wire'[q] = 1..Len(wire'[q])
        /\ Len(packets) \in Nat
        /\ \A n \in DOMAIN wire[q] : wire'[q][n] = wire[q][n]
    BY <1>3, <1>6, Joined, Shape
  <2>2. calls[q] # << >> => batch[q] <= Len(wire'[q])
    BY <1>1, <1>3, <2>1 DEF Listens
  <2>3. ASSUME link[q] = "up", ~heard[q], NEW n \in DOMAIN wire'[q], n <= batch[q]
        PROVE  wire'[q][n].kind \notin {"opened", "message"}
    <3>1. calls[q] # << >>
      BY <1>1, <1>3, <2>3, Shape DEF Listens
    <3>2. n \in DOMAIN wire[q]
      BY <1>1, <1>3, <2>1, <2>3, <3>1 DEF Listens
    <3> QED BY <1>1, <2>1, <2>3, <3>2 DEF Listens
  <2>4. Live(q)'
    BY <1>4, <1>6
  <2>5. /\ heard'[q] => link'[q] = "up"
        /\ out'[q] # "none" => link'[q] = "up"
        /\ out'[q] = "open" => heard'[q]
        /\ link'[q] = "up" /\ ~heard'[q] =>
             \E n \in DOMAIN calls'[q] : calls'[q][n] = "onConnected"
    BY <1>1 DEF Listens, Untouched
  <2>6. link'[q] = "up" /\ ~heard'[q] =>
          \A n \in DOMAIN wire'[q] : n <= batch'[q] => wire'[q][n].kind \notin {"opened", "message"}
    BY <2>3 DEF Untouched
  <2>7. calls'[q] # << >> => batch'[q] <= Len(wire'[q])
    BY <2>2 DEF Untouched
  <2> QED BY <1>2, <2>4, <2>5, <2>6, <2>7 DEF Listens
<1> QED BY <1>2, <1>5, <1>6

LEMMA DialsOn ==
  ASSUME TypeOK, Heeded, NEW q \in Peer, link'[q] = link[q],
         NEW STATE packets, packets \in Seq(Packets),
         link[q] = "dialling" =>
           /\ wire'[q] = wire[q] \o packets
           /\ \A n \in DOMAIN packets : packets[n].kind \notin {"opened", "message"}
           /\ link'[Other(q)] # "dialling" /\ out'[Other(q)] # "open" /\ wire'[Other(q)] = << >>
  PROVE  Dials(q)'
<1> SUFFICES ASSUME link[q] = "dialling" PROVE Dials(q)'
  BY DEF Dials
<1>1. Dials(q) /\ wire[q] \in Seq(Packets)
  BY Facts DEF Heeded
<1>2. wire[q] # << >> /\ 1 \in DOMAIN wire[q]
  BY <1>1, Shape DEF Dials
<1> DEFINE w == wire'[q]
<1>0. w = wire[q] \o packets
  OBVIOUS
<1> HIDE DEF w
<1>3. /\ w \in Seq(Packets) /\ Len(w) = Len(wire[q]) + Len(packets)
      /\ Len(packets) \in Nat /\ Len(wire[q]) \in Nat
      /\ \A n \in DOMAIN wire[q] : n \in DOMAIN w /\ w[n] = wire[q][n]
      /\ DOMAIN w = 1..Len(w) /\ DOMAIN wire[q] = 1..Len(wire[q])
      /\ \A n \in 1..Len(w) :
           w[n] = IF n <= Len(wire[q]) THEN wire[q][n] ELSE packets[n - Len(wire[q])]
  BY <1>0, <1>1, Joined, Shape
<1>4. w # << >> /\ w[1].kind = "known"
  BY <1>1, <1>2, <1>3 DEF Dials
<1>5. ASSUME NEW n \in DOMAIN w PROVE w[n].kind \notin {"opened", "message"}
  <2>1. CASE n <= Len(wire[q])
    <3>1. n \in DOMAIN wire[q]
      BY <1>3, <2>1
    <3> QED BY <1>1, <1>3, <3>1 DEF Dials
  <2>2. CASE n > Len(wire[q])
    <3>1. n - Len(wire[q]) \in 1..Len(packets)
      BY <1>3, <2>2
    <3>2. n - Len(wire[q]) \in DOMAIN packets
      BY <3>1, Shape
    <3>3. w[n] = packets[n - Len(wire[q])]
      BY <1>3, <2>2
    <3> QED BY <3>2, <3>3
  <2> QED BY <1>3, <2>1, <2>2
<1> QED BY <1>4, <1>5 DEF Dials, w

\* A dialler reads first that he is known, and his peer has nothing to read
\* until then.
LEMMA Hears ==
  ASSUME TypeOK, Heeded, NEW p \in Peer, NEW kind, kind # "known", Reads(p, kind)
  PROVE  /\ link[p] = "up" /\ link[Other(p)] # "dialling"
         /\ kind \in {"opened", "message"} => heard[p]
<1>1. /\ Listens(p) /\ Dials(p) /\ Dials(Other(p)) /\ Other(Other(p)) = p
      /\ wire[p] \in Seq(Packets) /\ calls[p] \in Seq(Calls) /\ batch[p] \in Nat
  BY Facts, Peers DEF Heeded
<1>2. wire[p] # << >> /\ 1 \in DOMAIN wire[p] /\ wire[p][1].kind = kind
  BY <1>1, Dropped DEF Reads
<1>3. link[p] = "up" /\ link[Other(p)] # "dialling"
  BY <1>1, <1>2 DEF Reads, Dials
<1>4. ASSUME kind \in {"opened", "message"}, ~heard[p] PROVE FALSE
  <2>1. calls[p] # << >>
    BY <1>1, <1>3, <1>4, Shape DEF Listens
  <2>2. 1 <= batch[p]
    BY <1>1, <2>1 DEF Reads
  <2> QED BY <1>1, <1>2, <1>3, <1>4, <2>2 DEF Listens
<1> QED BY <1>3, <1>4

\* He goes on to listen when he has read something.
LEMMA ReadsOn ==
  ASSUME TypeOK, Heeded, NEW p \in Peer, NEW kind, Reads(p, kind), link[p] = "up", Counted(p),
         wire'[p] = Tail(wire[p]), link'[p] = link[p], heard'[p] = heard[p],
         out'[p] = "open" => heard[p]
  PROVE  Listens(p)' /\ Dials(p)'
<1>1. /\ Listens(p) /\ wire[p] \in Seq(Packets) /\ calls[p] \in Seq(Calls) /\ batch[p] \in Nat
      /\ Len(wire[p]) \in Nat /\ wire[p] # << >>
  BY Facts DEF Heeded, Reads
<1>2. /\ Len(wire'[p]) = Len(wire[p]) - 1
      /\ \A n \in DOMAIN wire'[p] : n + 1 \in DOMAIN wire[p] /\ wire'[p][n] = wire[p][n + 1]
      /\ DOMAIN wire'[p] = 1..Len(wire'[p])
  BY <1>1, Dropped
<1>3. /\ calls'[p] = calls[p] /\ batch'[p] = IF batch[p] > 0 THEN batch[p] - 1 ELSE 0
      /\ calls[p] # << >> => batch[p] > 0
  BY DEF Counted, TypeOK, Reads
<1>4. calls'[p] # << >> => batch'[p] <= Len(wire'[p])
  BY <1>1, <1>2, <1>3 DEF Listens
<1>5. ASSUME ~heard[p], NEW n \in DOMAIN wire'[p], n <= batch'[p]
      PROVE  wire'[p][n].kind \notin {"opened", "message"}
  <2>1. calls[p] # << >>
    BY <1>1, <1>5, Shape DEF Listens
  <2>2. n + 1 \in DOMAIN wire[p] /\ wire'[p][n] = wire[p][n + 1] /\ n + 1 <= batch[p]
    BY <1>1, <1>2, <1>3, <1>5, <2>1
  <2> QED BY <1>1, <1>5, <2>2 DEF Listens
<1>6. Live(p)'
  BY DEF Live
<1>7. Dials(p)'
  BY DEF Dials
<1> QED BY <1>1, <1>3, <1>4, <1>5, <1>6, <1>7 DEF Listens

LEMMA RequeuedWaits ==
  ASSUME NEW ms \in Seq(Row)
  PROVE  \A n \in DOMAIN Requeued(ms) :
           /\ Requeued(ms)[n].status # "Sending"
           /\ Requeued(ms)[n].status = "Queued" /\ ms[n].status # "Queued"
                => Requeued(ms)[n].attempts < 2
           /\ ms[n].status = "Queued" => Requeued(ms)[n] = ms[n]
<1> SUFFICES ASSUME NEW n \in DOMAIN Requeued(ms)
             PROVE  /\ Requeued(ms)[n].status # "Sending"
                    /\ Requeued(ms)[n].status = "Queued" /\ ms[n].status # "Queued"
                         => Requeued(ms)[n].attempts < 2
                    /\ ms[n].status = "Queued" => Requeued(ms)[n] = ms[n]
  OBVIOUS
<1>1. n \in DOMAIN ms /\ ms[n] \in Row
  BY RequeuedRows, Shape
<1>2. CASE ms[n].status # "Sending"
  BY <1>1, <1>2 DEF Requeued
<1>3. CASE ms[n].status = "Sending"
  <2>1. Requeued(ms)[n] = [ms[n] EXCEPT !.status = IF ms[n].attempts >= 2 THEN "Error" ELSE "Queued"]
    BY <1>1, <1>3 DEF Requeued
  <2>2. Requeued(ms)[n].status = (IF ms[n].attempts >= 2 THEN "Error" ELSE "Queued")
        /\ Requeued(ms)[n].attempts = ms[n].attempts /\ ms[n].attempts \in 0..2
    BY <1>1, <2>1 DEF Row
  <2> QED BY <1>3, <2>2
<1> QED BY <1>2, <1>3

LEMMA BothHeed ==
  ASSUME NEW p \in Peer, Listens(p)', Dials(p)', Waits(p)',
         Listens(Other(p))', Dials(Other(p))', Waits(Other(p))'
  PROVE  Heeded'
BY Peers DEF Heeded

LEMMA Quiet ==
  ASSUME TypeOK, Heeded, NEW q \in Peer
  PROVE  /\ wire[q] \o << >> = wire[q]
         /\ wire[q] = IF Live(q) THEN wire[q] \o << >> ELSE << >>
<1>1. wire[q] \in Seq(Packets) /\ Listens(q)
  BY Facts DEF Heeded
<1>2. wire[q] \o << >> = wire[q]
  BY <1>1, ConcatEmptySeq
<1> QED BY <1>1, <1>2 DEF Listens

LEMMA ConnectHeeds == ASSUME TypeOK, Heeded, NEW p \in Peer, Connect(p) PROVE Heeded'
<1> DEFINE q == Other(p)
<1>1. /\ q \in Peer /\ q # p /\ Other(q) = p /\ Listens(p) /\ Waits(p) /\ Listens(q) /\ Waits(q)
      /\ messages[q] \in Seq(Row) /\ calls[q] \in Seq(Calls)
  BY Facts, Peers DEF Heeded
<1> HIDE DEF q
<1>2. TypeOK
  OBVIOUS
<1>3. /\ link'[p] = "dialling" /\ link'[q] = "up"
      /\ wire'[p] = << [kind |-> "known"] >> /\ wire'[q] = << >>
      /\ heard'[p] = heard[p] /\ heard'[q] = FALSE /\ out'[p] = out[p] /\ out'[q] = "none"
      /\ pending'[p] = pending[p] /\ pending'[q] = {} /\ messages'[p] = messages[p]
      /\ batch'[p] = 0 /\ batch'[q] = 0
      /\ link[p] = "none"
  BY <1>1 DEF Connect, q, TypeOK
<1>4. Listens(p)'
  <2>1. ~heard[p] /\ out[p] = "none"
    BY <1>1, <1>3 DEF Listens, TypeOK
  <2>2. 0 <= Len(wire'[p])
    BY <1>3
  <2> QED BY <1>3, <2>1, <2>2 DEF Listens, Live
<1>5. Waits(p)'
  BY <1>1, <1>3 DEF Waits
<1>6. Dials(p)'
  BY <1>3 DEF Dials, q
<1>7. Dials(q)'
  BY <1>3 DEF Dials
<1>8. Waits(q)'
  <2>1. CASE heard[q]
    <3>1. messages'[q] = Requeued(messages[q])
      BY <1>1, <2>1 DEF Connect, q, TypeOK
    <3>2. \A n \in DOMAIN messages'[q] : n \in DOMAIN messages[q]
      BY <1>1, <3>1, RequeuedRows
    <3> QED BY <1>1, <1>3, <3>1, <3>2, RequeuedWaits DEF Waits
  <2>2. CASE ~heard[q]
    <3>1. messages'[q] = messages[q]
      BY <2>2 DEF Connect, q
    <3>2. pending[q] = {}
      BY <1>1, <2>2 DEF Listens, Waits
    <3> QED BY <1>1, <1>3, <3>1, <3>2 DEF Waits
  <2> QED BY <2>1, <2>2
<1>9. Listens(q)'
  <2>1. \/ calls'[q] = Append(calls[q], "onConnected")
        \/ calls'[q] = calls[q] \o <<"onConnected", "sendQueuedMessages">>
    BY <1>1 DEF Connect, q, TypeOK
  <2>2. Len(calls[q]) + 1 \in DOMAIN calls'[q] /\ calls'[q][Len(calls[q]) + 1] = "onConnected"
    <3>1. CASE calls'[q] = Append(calls[q], "onConnected")
      <4>1. "onConnected" \in Calls /\ Len(calls[q]) \in Nat
        BY <1>1, Shape DEF Calls
      <4> QED BY <1>1, <3>1, <4>1, Added
    <3>2. CASE calls'[q] = calls[q] \o <<"onConnected", "sendQueuedMessages">>
      <4> DEFINE two == <<"onConnected", "sendQueuedMessages">>
      <4>1. two \in Seq(Calls) /\ two[1] = "onConnected" /\ 1 \in DOMAIN two
        BY DEF Calls
      <4> HIDE DEF two
      <4> QED BY <1>1, <3>2, <4>1, Joined DEF two
    <3> QED BY <2>1, <3>1, <3>2
  <2>3. 0 <= Len(wire'[q]) /\ DOMAIN wire'[q] = {}
    BY <1>3
  <2> QED BY <1>3, <2>2, <2>3 DEF Listens, Live
<1> QED BY <1>4, <1>5, <1>6, <1>7, <1>8, <1>9, BothHeed DEF q

LEMMA ReceiveKnownHeeds == ASSUME TypeOK, Heeded, NEW p \in Peer, ReceiveKnown(p) PROVE Heeded'
<1> DEFINE q == Other(p)
<1>1. /\ q \in Peer /\ q # p /\ Other(q) = p /\ Listens(p) /\ Waits(p) /\ Dials(p)
      /\ wire[p] \in Seq(Packets) /\ calls[p] \in Seq(Calls) /\ Tail(wire[p]) \in Seq(Packets)
      /\ wire[p] # << >>
  BY Facts, Peers DEF Heeded, ReceiveKnown, Reads
<1> HIDE DEF q
<1>2. /\ wire'[p] = Tail(wire[p])
      /\ wire'[q] = IF Live(q) THEN wire[q] \o << >> ELSE << >>
  BY <1>1, Single, Written DEF ReceiveKnown, q
<1>3. /\ link'[p] = "up" /\ link[p] = "dialling" /\ heard'[p] = heard[p] /\ out'[p] = out[p]
      /\ pending'[p] = pending[p] /\ messages'[p] = messages[p]
      /\ batch'[p] = Len(wire[p]) - 1 /\ calls'[p] = Append(calls[p], "onConnected")
      /\ Untouched(q)
  BY <1>1 DEF ReceiveKnown, TypeOK, Untouched
<1>4. Listens(q)' /\ Waits(q)'
  BY <1>1, <1>2, <1>3, Single, Apart
<1>5. Dials(q)' /\ Dials(p)'
  BY <1>1, <1>3 DEF Dials, Untouched, q
<1>6. Waits(p)'
  BY <1>1, <1>3 DEF Waits
<1>7. Listens(p)'
  <2>1. /\ Len(wire'[p]) = Len(wire[p]) - 1 /\ Len(wire'[p]) \in Nat
        /\ \A n \in DOMAIN wire'[p] : n + 1 \in DOMAIN wire[p] /\ wire'[p][n] = wire[p][n + 1]
    BY <1>1, <1>2, Dropped, Shape
  <2>2. Len(calls[p]) + 1 \in DOMAIN calls'[p] /\ calls'[p][Len(calls[p]) + 1] = "onConnected"
    <3>1. "onConnected" \in Calls /\ Len(calls[p]) \in Nat
      BY <1>1, Shape DEF Calls
    <3> QED BY <1>1, <1>3, <3>1, Added
  <2>3. \A n \in DOMAIN wire'[p] : wire'[p][n].kind \notin {"opened", "message"}
    BY <1>1, <1>3, <2>1 DEF Dials
  <2>4. ~heard[p] /\ out[p] = "none" /\ batch'[p] <= Len(wire'[p])
    BY <1>1, <1>3, <2>1 DEF Listens, TypeOK
  <2> QED BY <1>3, <2>2, <2>3, <2>4 DEF Listens, Live
<1> QED BY <1>4, <1>5, <1>6, <1>7, BothHeed DEF q

LEMMA ClosedHeeds == ASSUME TypeOK, Heeded, NEW p \in Peer, Closed(p) PROVE Heeded'
<1> DEFINE q == Other(p)
<1>1. /\ q \in Peer /\ q # p /\ Other(q) = p /\ Listens(p) /\ Waits(p)
      /\ messages[p] \in Seq(Row) /\ wire[q] \o << >> = wire[q]
      /\ wire[q] = IF Live(q) THEN wire[q] \o << >> ELSE << >>
  BY Facts, Peers, Quiet DEF Heeded
<1> HIDE DEF q
<1>2. /\ link'[p] \in {"dead", "none"} /\ wire'[p] = << >> /\ wire'[q] = wire[q]
      /\ heard'[p] = FALSE /\ out'[p] = "none" /\ pending'[p] = {} /\ batch'[p] = 0
      /\ Untouched(q)
  BY <1>1 DEF Closed, TypeOK, Untouched
<1>3. Listens(q)' /\ Waits(q)'
  BY <1>1, <1>2, Single, Apart
<1>4. Dials(q)'
  <2>1. << >> \in Seq(Packets) /\ DOMAIN << >> = {}
    BY Single
  <2> QED BY <1>1, <1>2, <2>1, DialsOn DEF Untouched
<1>5. Dials(p)'
  BY <1>2 DEF Dials
<1>6. Listens(p)'
  BY <1>2 DEF Listens, Live
<1>7. Waits(p)'
  <2>1. CASE heard[p]
    <3>1. messages'[p] = Requeued(messages[p])
      BY <2>1 DEF Closed, TypeOK
    <3>2. \A n \in DOMAIN messages'[p] : n \in DOMAIN messages[p]
      BY <1>1, <3>1, RequeuedRows
    <3> QED BY <1>1, <1>2, <3>1, <3>2, RequeuedWaits DEF Waits
  <2>2. CASE ~heard[p]
    <3>1. messages'[p] = messages[p]
      BY <2>2 DEF Closed
    <3>2. pending[p] = {}
      BY <1>1, <2>2 DEF Listens, Waits
    <3> QED BY <1>1, <1>2, <3>1, <3>2 DEF Waits
  <2> QED BY <2>1, <2>2
<1> QED BY <1>3, <1>4, <1>5, <1>6, <1>7, BothHeed DEF q

LEMMA FileChannelClosedHeeds ==
  ASSUME TypeOK, Heeded, NEW p \in Peer, FileChannelClosed(p)
  PROVE  Heeded'
<1> DEFINE q == Other(p)
<1>1. /\ q \in Peer /\ q # p /\ Other(q) = p /\ Listens(p) /\ Waits(p) /\ Dials(q)
      /\ messages[p] \in Seq(Row) /\ calls[p] \in Seq(Calls) /\ wire[q] \o << >> = wire[q]
      /\ Len(wire[p]) \in Nat
      /\ wire[q] = IF Live(q) THEN wire[q] \o << >> ELSE << >>
  BY Facts, Peers, Quiet DEF Heeded
<1> HIDE DEF q
<1>2. /\ link'[p] = "up" /\ link[p] = "up" /\ wire' = wire /\ wire'[q] = wire[q] /\ heard[p] /\ heard'[p] = heard[p]
      /\ out' = out /\ pending'[p] = pending[p]
      /\ calls'[p] = Append(calls[p], "sendQueuedMessages")
      /\ batch'[p] = IF calls[p] = << >> THEN Len(wire[p]) ELSE batch[p]
      /\ messages'[p] = Requeued(messages[p])
      /\ Untouched(q)
  BY <1>1 DEF FileChannelClosed, Post, TypeOK, Untouched
<1>3. Listens(q)' /\ Waits(q)'
  BY <1>1, <1>2, Single, Apart
<1>4. Dials(q)'
  BY <1>1, <1>2 DEF Dials, Untouched
<1>5. Dials(p)'
  BY <1>2 DEF Dials
<1>6. Listens(p)'
  <2>1. batch'[p] <= Len(wire'[p])
    BY <1>1, <1>2 DEF Listens
  <2> QED BY <1>2, <2>1 DEF Listens, Live
<1>7. Waits(p)'
  <2>1. \A n \in DOMAIN messages'[p] : n \in DOMAIN messages[p]
    BY <1>1, <1>2, RequeuedRows
  <2> QED BY <1>1, <1>2, <2>1, RequeuedWaits DEF Waits
<1> QED BY <1>3, <1>4, <1>5, <1>6, <1>7, BothHeed DEF q

LEMMA SentWaits ==
  ASSUME NEW ms \in Seq(Row), NEW n \in DOMAIN Sent(ms)
  PROVE  /\ n \in DOMAIN ms /\ Sent(ms)[n].id = ms[n].id
         /\ Sent(ms)[n].status # "Queued"
         /\ Sent(ms)[n].status = "Sending" <=> ms[n].status \in {"Sending", "Queued"}
<1>1. n \in DOMAIN ms /\ ms[n] \in Row
  BY Shape DEF Sent
<1>2. CASE ms[n].status = "Queued"
  <2>1. Sent(ms)[n] = [ms[n] EXCEPT !.status = "Sending", !.attempts = @ + 1]
    BY <1>1, <1>2 DEF Sent
  <2> QED BY <1>1, <1>2, <2>1 DEF Row
<1>3. CASE ms[n].status # "Queued"
  BY <1>1, <1>3 DEF Sent
<1> QED BY <1>2, <1>3

LEMMA SendsOn ==
  ASSUME TypeOK, Heeded, NEW p \in Peer, NEW STATE c, c \in {"none", "opening", "open"},
         NEW STATE unread, unread \in Seq(Packets), SendQueued(p, c, unread),
         c = out[p] \/ (c = "open" /\ link[p] = "up")
  PROVE  /\ Waits(p)' /\ (out'[p] = "open" <=> c = "open")
         /\ out'[p] # "none" => c # "none" \/ link[p] = "up"
         /\ LET q == Other(p) IN
            /\ out'[q] = out[q] /\ messages'[q] = messages[q] /\ pending'[q] = pending[q]
            /\ wire'[p] = unread
            /\ \E packets \in Seq(Packets) :
                 /\ wire'[q] = IF Live(q) THEN wire[q] \o packets ELSE << >>
                 /\ c # "open" => \A n \in DOMAIN packets : packets[n].kind = "open"
                 /\ link[p] # "up" => packets = << >>
<1> DEFINE q == Other(p)
<1>1. /\ q \in Peer /\ q # p /\ Waits(p) /\ Listens(p) /\ messages[p] \in Seq(Row)
      /\ out \in [Peer -> {"none", "opening", "open"}] /\ messages \in [Peer -> Seq(Row)]
      /\ pending \in [Peer -> SUBSET (1..MaxSent)]
  BY Facts DEF Heeded, TypeOK
<1> HIDE DEF q
<1>2. CASE link[p] = "up" /\ c = "open"
  <2>1. PICK order \in OldestFirst(Queued(messages[p])) :
           LET packets == [n \in DOMAIN order |->
                             [kind |-> "message", id |-> messages[p][order[n]].id]] IN
           /\ packets \in Seq(Packets) /\ Write(p, unread, packets)
           /\ out' = [out EXCEPT ![p] = "open"]
           /\ messages' = [messages EXCEPT ![p] = Sent(messages[p])]
           /\ Sent(messages[p]) \in Seq(Row)
           /\ pending' = [pending EXCEPT ![p] =
                            pending[p] \cup {messages[p][n].id : n \in Queued(messages[p])}]
           /\ {messages[p][n].id : n \in Queued(messages[p])} \in SUBSET (1..MaxSent)
    BY <1>2, Sends
  <2> DEFINE packets == [n \in DOMAIN order |->
                             [kind |-> "message", id |-> messages[p][order[n]].id]]
  <2>2. packets \in Seq(Packets) /\ Write(p, unread, packets)
    BY <2>1
  <2>3. /\ out'[p] = "open" /\ messages'[p] = Sent(messages[p])
        /\ pending'[p] = pending[p] \cup {messages[p][n].id : n \in Queued(messages[p])}
        /\ out'[q] = out[q] /\ messages'[q] = messages[q] /\ pending'[q] = pending[q]
    BY <1>1, <2>1
  <2> HIDE DEF packets
  <2>4. wire'[p] = unread /\ wire'[q] = IF Live(q) THEN wire[q] \o packets ELSE << >>
    BY <2>2, Written DEF q
  <2>5. ASSUME NEW n \in DOMAIN messages'[p]
        PROVE  /\ messages'[p][n].status = "Sending" => messages'[p][n].id \in pending'[p]
               /\ messages'[p][n].status # "Queued"
    <3>1. /\ n \in DOMAIN messages[p] /\ messages'[p][n].id = messages[p][n].id
          /\ messages'[p][n].status # "Queued"
          /\ messages'[p][n].status = "Sending" <=> messages[p][n].status \in {"Sending", "Queued"}
      BY <1>1, <2>3, <2>5, SentWaits
    <3>2. CASE messages[p][n].status = "Sending"
      BY <1>1, <2>3, <3>1, <3>2 DEF Waits
    <3>3. CASE messages[p][n].status = "Queued"
      <4>1. n \in Queued(messages[p])
        BY <3>1, <3>3 DEF Queued
      <4> QED BY <2>3, <3>1, <4>1
    <3> QED BY <3>1, <3>2, <3>3
  <2>6. Waits(p)'
    BY <2>3, <2>5 DEF Waits
  <2> QED BY <1>2, <2>2, <2>3, <2>4, <2>6 DEF q
<1>3. CASE ~(link[p] = "up" /\ c = "open")
  <2>1. messages' = messages /\ pending' = pending
    BY <1>3, Asks
  <2>2. c = out[p]
    BY <1>3
  <2>3. CASE link[p] = "up" /\ c = "none"
    <3> DEFINE packets == << [kind |-> "open"] >>
    <3>1. /\ Write(p, unread, packets) /\ packets \in Seq(Packets)
          /\ out' = [out EXCEPT ![p] = "opening"]
      BY <1>3, <2>3, Asks, Single
    <3>2. \A n \in DOMAIN packets : packets[n].kind = "open"
      OBVIOUS
    <3> HIDE DEF packets
    <3>3. wire'[p] = unread /\ wire'[q] = IF Live(q) THEN wire[q] \o packets ELSE << >>
      BY <3>1, Written DEF q
    <3>4. out'[p] = "opening" /\ out'[q] = out[q]
      BY <1>1, <3>1
    <3>5. Waits(p)'
      BY <1>1, <2>1, <2>2, <2>3, <3>4 DEF Waits
    <3> QED BY <2>1, <2>3, <3>1, <3>2, <3>3, <3>4, <3>5 DEF q
  <2>4. CASE ~(link[p] = "up" /\ c = "none")
    <3> DEFINE packets == << >>
    <3>1. Write(p, unread, packets) /\ packets \in Seq(Packets) /\ out' = [out EXCEPT ![p] = c]
      BY <1>3, <2>4, Asks, Single
    <3>2. DOMAIN packets = {}
      OBVIOUS
    <3>3. wire'[p] = unread /\ wire'[q] = IF Live(q) THEN wire[q] \o packets ELSE << >>
      BY <3>1, Written DEF q
    <3> HIDE DEF packets
    <3>4. out'[p] = c /\ out'[q] = out[q]
      BY <1>1, <3>1
    <3>5. Waits(p)'
      BY <1>1, <2>1, <2>2, <3>4 DEF Waits
    <3>6. packets = << >>
      BY DEF packets
    <3> QED BY <2>1, <2>4, <3>1, <3>2, <3>3, <3>4, <3>5, <3>6 DEF q
  <2> QED BY <2>3, <2>4
<1> QED BY <1>2, <1>3

LEMMA ReceiveOpenHeeds == ASSUME TypeOK, Heeded, NEW p \in Peer, ReceiveOpen(p) PROVE Heeded'
<1> DEFINE q == Other(p)
<1>1. /\ q \in Peer /\ q # p /\ Listens(p) /\ Waits(p) /\ Tail(wire[p]) \in Seq(Packets)
  BY Facts DEF Heeded, ReceiveOpen, Reads
<1>2. Reads(p, "open") /\ link[p] = "up" /\ link[q] # "dialling"
  BY Hears DEF ReceiveOpen
<1> HIDE DEF q
<1>3. /\ wire'[p] = Tail(wire[p])
      /\ wire'[q] = IF Live(q) THEN wire[q] \o << [kind |-> "opened"] >> ELSE << >>
  BY <1>1, Single, Written DEF ReceiveOpen, q
<1>4. /\ link' = link /\ heard' = heard /\ out' = out /\ pending' = pending /\ messages' = messages
      /\ Counted(p) /\ Untouched(q)
  BY <1>1 DEF ReceiveOpen, Counted, TypeOK, Untouched
<1>5. Listens(q)' /\ Waits(q)'
  BY <1>1, <1>3, <1>4, Single, Apart
<1>6. Dials(q)'
  BY <1>2, <1>4 DEF Dials
<1>7. Listens(p)' /\ Dials(p)'
  BY <1>1, <1>2, <1>3, <1>4, ReadsOn DEF Listens
<1>8. Waits(p)'
  BY <1>1, <1>4 DEF Waits
<1> QED BY <1>5, <1>6, <1>7, <1>8, BothHeed DEF q

LEMMA ReceiveOpenedHeeds == ASSUME TypeOK, Heeded, NEW p \in Peer, ReceiveOpened(p) PROVE Heeded'
<1> DEFINE q == Other(p)
<1>1. /\ q \in Peer /\ q # p /\ Listens(p) /\ Waits(p) /\ Tail(wire[p]) \in Seq(Packets)
  BY Facts DEF Heeded, ReceiveOpened, Reads
<1>2. Reads(p, "opened") /\ link[p] = "up" /\ link[q] # "dialling" /\ heard[p]
  BY Hears DEF ReceiveOpened
<1>3. SendQueued(p, "open", Tail(wire[p]))
  BY <1>2 DEF ReceiveOpened
<1>4. /\ Waits(p)' /\ wire'[p] = Tail(wire[p])
      /\ out'[q] = out[q] /\ messages'[q] = messages[q] /\ pending'[q] = pending[q]
      /\ \E packets \in Seq(Packets) :
           wire'[q] = IF Live(q) THEN wire[q] \o packets ELSE << >>
  BY <1>1, <1>2, <1>3, SendsOn
<1> HIDE DEF q
<1>5. /\ link' = link /\ heard' = heard /\ Counted(p) /\ Untouched(q)
  BY <1>1, <1>4 DEF ReceiveOpened, Counted, TypeOK, Untouched
<1>6. Listens(q)' /\ Waits(q)'
  <2>1. PICK packets \in Seq(Packets) :
           wire'[q] = IF Live(q) THEN wire[q] \o packets ELSE << >>
    BY <1>4
  <2> QED BY <1>1, <1>5, <2>1, Apart
<1>7. Dials(q)'
  BY <1>2, <1>5 DEF Dials
<1>8. Listens(p)' /\ Dials(p)'
  BY <1>2, <1>4, <1>5, ReadsOn
<1> QED BY <1>4, <1>6, <1>7, <1>8, BothHeed DEF q

LEMMA ReceiveMessageHeeds == ASSUME TypeOK, Heeded, NEW p \in Peer, ReceiveMessage(p) PROVE Heeded'
<1> DEFINE q == Other(p)
           id == Head(wire[p]).id
           packets == << [kind |-> "ack", id |-> id] >>
<1>1. /\ q \in Peer /\ q # p /\ Listens(p) /\ Waits(p) /\ Tail(wire[p]) \in Seq(Packets)
      /\ messages[p] \in Seq(Row) /\ id \in 1..MaxSent
  BY Facts, Named DEF Heeded, ReceiveMessage, Reads
<1>2. Reads(p, "message") /\ link[p] = "up" /\ link[q] # "dialling" /\ heard[p]
  BY Hears DEF ReceiveMessage
<1>3. packets \in Seq(Packets)
  BY <1>1, Single
<1>4. Write(p, Tail(wire[p]), packets)
  BY DEF ReceiveMessage
<1>5. /\ link' = link /\ heard' = heard /\ out' = out /\ pending' = pending
      /\ messages'[p] \in {messages[p], Received(messages[p], id)}
      /\ Counted(p) /\ Untouched(q)
  BY <1>1 DEF ReceiveMessage, Counted, TypeOK, Untouched
<1> HIDE DEF q, packets, id
<1>6. /\ wire'[p] = Tail(wire[p])
      /\ wire'[q] = IF Live(q) THEN wire[q] \o packets ELSE << >>
  BY <1>1, <1>3, <1>4, Written DEF q
<1>7. Listens(q)' /\ Waits(q)'
  BY <1>1, <1>3, <1>5, <1>6, Apart
<1>8. Dials(q)'
  BY <1>2, <1>5 DEF Dials
<1>9. Listens(p)' /\ Dials(p)'
  BY <1>1, <1>2, <1>5, <1>6, ReadsOn DEF Listens
<1>10. Waits(p)'
  <2> DEFINE row == [id |-> id, status |-> "Received", attempts |-> 0]
  <2>1. row \in Row /\ row.status = "Received"
    BY <1>1 DEF Row
  <2> HIDE DEF row
  <2>2. \A n \in DOMAIN messages'[p] :
          \/ messages'[p][n] = row
          \/ \E k \in DOMAIN messages[p] : messages'[p][n] = messages[p][k]
    <3>1. CASE messages'[p] = messages[p]
      BY <3>1
    <3>2. CASE messages'[p] = Received(messages[p], id)
      BY <1>1, <2>1, <3>2, PlaceType, InsertedRow DEF Received, row
    <3> QED BY <1>5, <3>1, <3>2
  <2> QED BY <1>1, <1>5, <2>1, <2>2 DEF Waits
<1> QED BY <1>7, <1>8, <1>9, <1>10, BothHeed DEF q

LEMMA ReceiveAckHeeds == ASSUME TypeOK, Heeded, NEW p \in Peer, ReceiveAck(p) PROVE Heeded'
<1> DEFINE q == Other(p)
           id == Head(wire[p]).id
<1>1. /\ q \in Peer /\ q # p /\ Listens(p) /\ Waits(p) /\ Tail(wire[p]) \in Seq(Packets)
      /\ messages[p] \in Seq(Row)
  BY Facts DEF Heeded, ReceiveAck, Reads
<1>2. Reads(p, "ack") /\ link[p] = "up" /\ link[q] # "dialling"
  BY Hears DEF ReceiveAck
<1>3. Write(p, Tail(wire[p]), << >>)
  BY DEF ReceiveAck
<1>4. /\ link' = link /\ heard' = heard /\ out' = out /\ pending'[p] = pending[p] \ {id}
      /\ messages'[p] = IF heard[p] /\ id \in pending[p]
                        THEN Acknowledged(messages[p], id) ELSE messages[p]
      /\ Counted(p) /\ Untouched(q)
  BY <1>1 DEF ReceiveAck, Counted, TypeOK, Untouched
<1> HIDE DEF q, id
<1>5. /\ wire'[p] = Tail(wire[p])
      /\ wire'[q] = IF Live(q) THEN wire[q] \o << >> ELSE << >>
  BY <1>1, <1>3, Single, Written DEF q
<1>6. Listens(q)' /\ Waits(q)'
  BY <1>1, <1>4, <1>5, Single, Apart
<1>7. Dials(q)'
  BY <1>2, <1>4 DEF Dials
<1>8. Listens(p)' /\ Dials(p)'
  BY <1>1, <1>2, <1>4, <1>5, ReadsOn DEF Listens
<1>9. Waits(p)'
  <2>1. CASE heard[p] /\ id \in pending[p]
    <3>1. messages'[p] = Acknowledged(messages[p], id) /\ out'[p] = "open"
      BY <1>1, <1>4, <2>1 DEF Waits
    <3>2. ASSUME NEW n \in DOMAIN messages'[p]
          PROVE  /\ messages'[p][n].status = "Sending" => messages'[p][n].id \in pending'[p]
                 /\ messages'[p][n].status = "Queued" => messages'[p][n].attempts < 2
      <4>1. n \in DOMAIN messages[p] /\ messages[p][n] \in Row
        BY <1>1, <3>1, AcknowledgedRows, Shape
      <4>2. CASE messages[p][n].id = id /\ messages[p][n].status # "Received"
        <5>1. messages'[p][n] = [messages[p][n] EXCEPT !.status = "Delivered"]
          BY <3>1, <4>1, <4>2 DEF Acknowledged
        <5> QED BY <4>1, <5>1 DEF Row
      <4>3. CASE ~(messages[p][n].id = id /\ messages[p][n].status # "Received")
        <5>1. messages'[p][n] = messages[p][n]
          BY <3>1, <4>1, <4>3 DEF Acknowledged
        <5> QED BY <1>1, <1>4, <4>1, <4>3, <5>1 DEF Waits
      <4> QED BY <4>2, <4>3
    <3> QED BY <3>1, <3>2 DEF Waits
  <2>2. CASE ~(heard[p] /\ id \in pending[p])
    <3>1. id \notin pending[p]
      BY <1>1, <2>2 DEF Listens, Waits
    <3>2. messages'[p] = messages[p] /\ pending'[p] = pending[p]
      BY <1>4, <2>2, <3>1
    <3> QED BY <1>1, <1>4, <3>2 DEF Waits
  <2> QED BY <2>1, <2>2
<1> QED BY <1>6, <1>7, <1>8, <1>9, BothHeed DEF q

LEMMA SendMessageHeeds == ASSUME TypeOK, Heeded, NEW p \in Peer, SendMessage(p) PROVE Heeded'
<1> DEFINE q == Other(p)
           id == sent[p] + 1
           row == [id |-> id, status |-> IF out[p] = "open" THEN "Sending" ELSE "Queued",
                   attempts |-> IF out[p] = "open" THEN 1 ELSE 0]
<1>1. /\ q \in Peer /\ q # p /\ Other(q) = p /\ Listens(p) /\ Waits(p) /\ Dials(p) /\ Dials(q)
      /\ messages[p] \in Seq(Row) /\ wire[p] \in Seq(Packets) /\ wire[q] \o << >> = wire[q]
      /\ wire[q] = IF Live(q) THEN wire[q] \o << >> ELSE << >>
  BY Facts, Peers, Quiet DEF Heeded
<1>2. row \in Row /\ id \in 1..MaxSent
  BY NewRow
<1>3. /\ link' = link /\ heard' = heard /\ calls' = calls /\ batch' = batch
      /\ out'[p] = (IF link[p] = "up" /\ out[p] = "none" THEN "opening" ELSE out[p])
      /\ messages'[p] = Inserted(messages[p], 1, row)
      /\ pending'[p] = (IF out[p] = "open" THEN pending[p] \cup {id} ELSE pending[p])
      /\ Untouched(q)
  BY <1>1 DEF SendMessage, TypeOK, Untouched
<1>4. \E packets \in Seq(Packets) :
        /\ wire'[p] = wire[p]
        /\ wire'[q] = IF Live(q) THEN wire[q] \o packets ELSE << >>
        /\ out[p] # "open" => \A n \in DOMAIN packets : packets[n].kind = "open"
        /\ link[p] # "up" => wire'[q] = wire[q]
  <2>1. CASE ~(link[p] = "up" /\ out[p] # "opening")
    <3>1. wire' = wire
      BY <2>1 DEF SendMessage
    <3>2. << >> \in Seq(Packets) /\ DOMAIN << >> = {}
      BY Single
    <3> QED BY <1>1, <3>1, <3>2
  <2>2. CASE link[p] = "up" /\ out[p] = "open"
    <3> DEFINE packets == << [kind |-> "message", id |-> id] >>
    <3>1. packets \in Seq(Packets) /\ Write(p, wire[p], packets)
      BY <1>2, <2>2, Single DEF SendMessage
    <3> HIDE DEF packets
    <3> QED BY <1>1, <2>2, <3>1, Written
  <2>3. CASE link[p] = "up" /\ out[p] \notin {"opening", "open"}
    <3> DEFINE packets == << [kind |-> "open"] >>
    <3>1. /\ packets \in Seq(Packets) /\ Write(p, wire[p], packets)
          /\ \A n \in DOMAIN packets : packets[n].kind = "open"
      BY <2>3, Single DEF SendMessage
    <3> HIDE DEF packets
    <3> QED BY <1>1, <2>3, <3>1, Written
  <2> QED BY <2>1, <2>2, <2>3
<1>5. PICK packets \in Seq(Packets) :
        /\ wire'[p] = wire[p]
        /\ wire'[q] = IF Live(q) THEN wire[q] \o packets ELSE << >>
        /\ out[p] # "open" => \A n \in DOMAIN packets : packets[n].kind = "open"
        /\ link[p] # "up" => wire'[q] = wire[q]
  BY <1>4
<1> HIDE DEF q, row, id
<1>6. Listens(q)' /\ Waits(q)'
  BY <1>1, <1>3, <1>5, Apart
<1>7. Dials(q)'
  <2>1. link[q] = "dialling" =>
          /\ wire'[q] = wire[q] \o packets
          /\ \A n \in DOMAIN packets : packets[n].kind \notin {"opened", "message"}
          /\ link'[p] # "dialling" /\ out'[p] # "open" /\ wire'[p] = << >>
    BY <1>1, <1>3, <1>5 DEF Dials, Live
  <2> QED BY <1>1, <1>3, <2>1, DialsOn
<1>8. Dials(p)'
  BY <1>1, <1>3, <1>5 DEF Dials, Untouched, q
<1>9. Listens(p)'
  BY <1>1, <1>3, <1>5 DEF Listens, Live
<1>10. Waits(p)'
  <2>1. \A n \in DOMAIN messages'[p] :
          messages'[p][n] = row \/ \E k \in DOMAIN messages[p] : messages'[p][n] = messages[p][k]
    <3>1. 1 \in 1..(Len(messages[p]) + 1)
      BY <1>1, Shape
    <3> QED BY <1>1, <1>2, <1>3, <3>1, InsertedRow
  <2>2. CASE out[p] = "open"
    <3>1. row.status = "Sending" /\ row.id = id
      BY <2>2 DEF row
    <3>2. out'[p] = "open" /\ pending'[p] = pending[p] \cup {id}
      BY <1>3, <2>2
    <3> QED BY <1>1, <2>1, <3>1, <3>2 DEF Waits
  <2>3. CASE out[p] # "open"
    <3>1. row.status = "Queued" /\ row.attempts < 2
      BY <2>3 DEF row
    <3>2. pending'[p] = pending[p]
      BY <1>3, <2>3
    <3> QED BY <1>1, <2>1, <2>3, <3>1, <3>2 DEF Waits
  <2> QED BY <2>2, <2>3
<1> QED BY <1>6, <1>7, <1>8, <1>9, <1>10, BothHeed DEF q

\* What stands behind the call that is made.
LEMMA MadeCall ==
  ASSUME TypeOK, Heeded, NEW p \in Peer, NEW call, Made(p, call)
  PROVE  /\ calls[p] # << >> /\ batch' = batch /\ calls'[p] = Tail(calls[p])
         /\ calls'[Other(p)] = calls[Other(p)]
         /\ call # "onConnected" /\ (\E n \in DOMAIN calls[p] : calls[p][n] = "onConnected")
              => \E n \in DOMAIN calls'[p] : calls'[p][n] = "onConnected"
<1>1. calls \in [Peer -> Seq(Calls)] /\ Other(p) \in Peer /\ Other(p) # p
  BY Facts DEF TypeOK
<1>2. /\ calls[p] # << >> /\ batch' = batch /\ calls'[p] = Tail(calls[p])
      /\ calls'[Other(p)] = calls[Other(p)] /\ Head(calls[p]) = call
  BY <1>1 DEF Made
<1> DEFINE s == calls[p]
           t == Tail(s)
<1>3. /\ s \in Seq(Calls) /\ s # << >> /\ Head(s) = call
  BY <1>1, <1>2
<1> HIDE DEF s
<1>4. /\ Len(t) = Len(s) - 1 /\ Head(s) = s[1] /\ DOMAIN t = 1..Len(t) /\ DOMAIN s = 1..Len(s)
      /\ Len(s) \in Nat /\ \A n \in DOMAIN t : t[n] = s[n + 1]
  BY <1>3, Dropped, Shape
<1>5. ASSUME NEW n \in DOMAIN s, s[n] = "onConnected", call # "onConnected"
      PROVE  n - 1 \in DOMAIN t /\ t[n - 1] = "onConnected"
  <2>1. n # 1
    BY <1>3, <1>4, <1>5
  <2>2. n - 1 \in 1..Len(t) /\ n - 1 + 1 = n
    BY <1>4, <2>1
  <2> QED BY <1>4, <1>5, <2>2
<1>6. calls'[p] = t
  BY <1>2 DEF s
<1> HIDE DEF t
<1> QED BY <1>2, <1>5, <1>6 DEF s

LEMMA SendsQueue ==
  ASSUME TypeOK, Heeded, NEW p \in Peer, SendQueued(p, out[p], wire[p])
  PROVE  /\ Waits(p)' /\ (out'[p] = "open" <=> out[p] = "open")
         /\ out'[p] # "none" => out[p] # "none" \/ link[p] = "up"
         /\ LET q == Other(p) IN
            /\ out'[q] = out[q] /\ messages'[q] = messages[q] /\ pending'[q] = pending[q]
            /\ wire'[p] = wire[p]
            /\ \E packets \in Seq(Packets) :
                 /\ wire'[q] = IF Live(q) THEN wire[q] \o packets ELSE << >>
                 /\ out[p] # "open" => \A n \in DOMAIN packets : packets[n].kind = "open"
                 /\ link[p] # "up" => packets = << >>
<1> DEFINE c == out[p]
           unread == wire[p]
<1>1. /\ c \in {"none", "opening", "open"} /\ unread \in Seq(Packets)
      /\ SendQueued(p, c, unread) /\ c = out[p]
  BY Facts DEF TypeOK
<1> HIDE DEF c, unread
<1>2. /\ Waits(p)' /\ (out'[p] = "open" <=> c = "open")
      /\ out'[p] # "none" => c # "none" \/ link[p] = "up"
      /\ LET q == Other(p) IN
         /\ out'[q] = out[q] /\ messages'[q] = messages[q] /\ pending'[q] = pending[q]
         /\ wire'[p] = unread
         /\ \E packets \in Seq(Packets) :
              /\ wire'[q] = IF Live(q) THEN wire[q] \o packets ELSE << >>
              /\ c # "open" => \A n \in DOMAIN packets : packets[n].kind = "open"
              /\ link[p] # "up" => packets = << >>
  BY <1>1, SendsOn
<1> QED BY <1>2 DEF c, unread

LEMMA OnConnectedHeeds == ASSUME TypeOK, Heeded, NEW p \in Peer, OnConnected(p) PROVE Heeded'
<1> DEFINE q == Other(p)
<1>1. /\ q \in Peer /\ q # p /\ Other(q) = p /\ Listens(p) /\ Waits(p) /\ Dials(p) /\ Dials(q)
      /\ wire[q] \o << >> = wire[q] /\ wire[p] \in Seq(Packets)
      /\ wire[q] = IF Live(q) THEN wire[q] \o << >> ELSE << >>
  BY Facts, Peers, Quiet DEF Heeded
<1>2. /\ link' = link /\ calls[p] # << >> /\ batch' = batch /\ calls'[q] = calls[q]
      /\ calls'[p] = Tail(calls[p])
  BY MadeCall DEF OnConnected
<1>3. CASE link[p] = "up"
  <2>1. SendQueued(p, out[p], wire[p]) /\ heard' = [heard EXCEPT ![p] = TRUE]
    BY <1>3 DEF OnConnected
  <2>2. heard'[p] = TRUE /\ heard'[q] = heard[q] /\ out[p] \in {"none", "opening", "open"}
    BY <1>1, <2>1 DEF TypeOK
  <2>3. /\ Waits(p)' /\ (out'[p] = "open" <=> out[p] = "open")
        /\ out'[p] # "none" => out[p] # "none" \/ link[p] = "up"
        /\ out'[q] = out[q] /\ messages'[q] = messages[q] /\ pending'[q] = pending[q]
        /\ wire'[p] = wire[p]
        /\ \E packets \in Seq(Packets) :
             /\ wire'[q] = IF Live(q) THEN wire[q] \o packets ELSE << >>
             /\ out[p] # "open" => \A n \in DOMAIN packets : packets[n].kind = "open"
             /\ link[p] # "up" => packets = << >>
    BY <2>1, SendsQueue
  <2>4. PICK packets \in Seq(Packets) :
             /\ wire'[q] = IF Live(q) THEN wire[q] \o packets ELSE << >>
             /\ out[p] # "open" => \A n \in DOMAIN packets : packets[n].kind = "open"
             /\ link[p] # "up" => packets = << >>
    BY <2>3
  <2> HIDE DEF q
  <2>5. Untouched(q)
    BY <1>2, <2>2, <2>3 DEF Untouched
  <2>6. Listens(q)' /\ Waits(q)'
    BY <1>1, <2>4, <2>5, Apart
  <2>7. Dials(q)'
    <3>1. link[q] = "dialling" =>
            /\ wire'[q] = wire[q] \o packets
            /\ \A n \in DOMAIN packets : packets[n].kind \notin {"opened", "message"}
            /\ link'[p] # "dialling" /\ out'[p] # "open" /\ wire'[p] = << >>
      BY <1>1, <1>2, <2>3, <2>4 DEF Dials, Live
    <3> QED BY <1>1, <1>2, <3>1, DialsOn
  <2>8. Dials(p)'
    BY <1>2, <1>3 DEF Dials
  <2>9. Listens(p)'
    BY <1>1, <1>2, <1>3, <2>2, <2>3 DEF Listens, Live
  <2> QED BY <2>3, <2>6, <2>7, <2>8, <2>9, BothHeed DEF q
<1>4. CASE link[p] # "up"
  <2>1. UNCHANGED <<heard, messages, out, pending, wire>>
    BY <1>4 DEF OnConnected
  <2> HIDE DEF q
  <2>2. Untouched(q) /\ wire'[q] = IF Live(q) THEN wire[q] \o << >> ELSE << >>
    BY <1>1, <1>2, <2>1 DEF Untouched
  <2>3. Listens(q)' /\ Waits(q)'
    BY <1>1, <2>2, Single, Apart
  <2>4. Dials(q)' /\ Dials(p)' /\ Waits(p)'
    BY <1>1, <1>2, <2>1 DEF Dials, Waits, q
  <2>5. Listens(p)'
    BY <1>1, <1>2, <1>4, <2>1 DEF Listens, Live
  <2> QED BY <2>3, <2>4, <2>5, BothHeed DEF q
<1> QED BY <1>3, <1>4

LEMMA OnDisconnectedHeeds ==
  ASSUME TypeOK, Heeded, NEW p \in Peer, OnDisconnected(p)
  PROVE  Heeded'
<1> DEFINE q == Other(p)
<1>1. /\ q \in Peer /\ q # p /\ Other(q) = p /\ Listens(p) /\ Waits(p) /\ Dials(p) /\ Dials(q)
      /\ wire[q] \o << >> = wire[q]
      /\ wire[q] = IF Live(q) THEN wire[q] \o << >> ELSE << >>
  BY Facts, Peers, Quiet DEF Heeded
<1>2. /\ calls[p] # << >> /\ batch' = batch /\ calls'[q] = calls[q]
      /\ (\E n \in DOMAIN calls[p] : calls[p][n] = "onConnected")
              => \E n \in DOMAIN calls'[p] : calls'[p][n] = "onConnected"
  <2>1. Made(p, "onDisconnected") /\ "onDisconnected" # "onConnected"
    BY DEF OnDisconnected
  <2> QED BY <2>1, MadeCall
<1> HIDE DEF q
<1>3. /\ UNCHANGED <<heard, messages, out, pending, wire>> /\ link'[q] = link[q]
      /\ link'[p] = IF link[p] = "dead" THEN "none" ELSE link[p]
  BY <1>1 DEF OnDisconnected, TypeOK
<1>4. Untouched(q) /\ wire'[q] = IF Live(q) THEN wire[q] \o << >> ELSE << >>
  BY <1>1, <1>2, <1>3 DEF Untouched
<1>5. Listens(q)' /\ Waits(q)'
  BY <1>1, <1>4, Single, Apart
<1>6. Dials(q)' /\ Dials(p)' /\ Waits(p)'
  BY <1>1, <1>3 DEF Dials, Waits, q
<1>7. Listens(p)'
  BY <1>1, <1>2, <1>3 DEF Listens, Live
<1> QED BY <1>5, <1>6, <1>7, BothHeed DEF q

LEMMA SendQueuedMessagesHeeds ==
  ASSUME TypeOK, Heeded, NEW p \in Peer, SendQueuedMessages(p)
  PROVE  Heeded'
<1> DEFINE q == Other(p)
<1>1. /\ q \in Peer /\ q # p /\ Other(q) = p /\ Listens(p) /\ Waits(p) /\ Dials(p) /\ Dials(q)
      /\ wire[p] \in Seq(Packets) /\ out[p] \in {"none", "opening", "open"}
      /\ wire[q] \o << >> = wire[q]
  BY Facts, Peers, Quiet DEF Heeded, TypeOK
<1>2. /\ calls[p] # << >> /\ batch' = batch /\ calls'[q] = calls[q]
      /\ (\E n \in DOMAIN calls[p] : calls[p][n] = "onConnected")
              => \E n \in DOMAIN calls'[p] : calls'[p][n] = "onConnected"
  <2>1. Made(p, "sendQueuedMessages") /\ "sendQueuedMessages" # "onConnected"
    BY DEF SendQueuedMessages
  <2> QED BY <2>1, MadeCall
<1>3. SendQueued(p, out[p], wire[p]) /\ heard' = heard /\ link' = link
  BY DEF SendQueuedMessages
<1>4. /\ Waits(p)' /\ (out'[p] = "open" <=> out[p] = "open")
      /\ out'[p] # "none" => out[p] # "none" \/ link[p] = "up"
      /\ out'[q] = out[q] /\ messages'[q] = messages[q] /\ pending'[q] = pending[q]
      /\ wire'[p] = wire[p]
      /\ \E packets \in Seq(Packets) :
           /\ wire'[q] = IF Live(q) THEN wire[q] \o packets ELSE << >>
           /\ out[p] # "open" => \A n \in DOMAIN packets : packets[n].kind = "open"
           /\ link[p] # "up" => packets = << >>
  BY <1>3, SendsQueue
<1>5. PICK packets \in Seq(Packets) :
           /\ wire'[q] = IF Live(q) THEN wire[q] \o packets ELSE << >>
           /\ out[p] # "open" => \A n \in DOMAIN packets : packets[n].kind = "open"
           /\ link[p] # "up" => packets = << >>
  BY <1>4
<1> HIDE DEF q
<1>6. Untouched(q)
  BY <1>2, <1>3, <1>4 DEF Untouched
<1>7. Listens(q)' /\ Waits(q)'
  BY <1>1, <1>5, <1>6, Apart
<1>8. Dials(q)'
  <2>1. link[q] = "dialling" =>
          /\ wire'[q] = wire[q] \o packets
          /\ \A n \in DOMAIN packets : packets[n].kind \notin {"opened", "message"}
          /\ link'[p] # "dialling" /\ out'[p] # "open" /\ wire'[p] = << >>
    BY <1>1, <1>3, <1>4, <1>5 DEF Dials, Live
  <2> QED BY <1>1, <1>3, <2>1, DialsOn
<1>9. Dials(p)'
  <2> SUFFICES ASSUME link[p] = "dialling" PROVE Dials(p)'
    BY <1>3 DEF Dials
  <2>1. packets = << >> /\ wire[q] = << >>
    BY <1>1, <1>5 DEF Dials, q
  <2>2. wire'[q] = << >>
    BY <1>1, <1>5, <2>1
  <2> QED BY <1>1, <1>3, <1>4, <2>2 DEF Dials, q
<1>10. Listens(p)'
  BY <1>1, <1>2, <1>3, <1>4 DEF Listens, Live
<1> QED BY <1>4, <1>7, <1>8, <1>9, <1>10, BothHeed DEF q

LEMMA HeededStep ==
  ASSUME TypeOK, Heeded, [Next]_vars
  PROVE  Heeded'
<1>1. CASE UNCHANGED vars
  BY <1>1 DEF Heeded, Listens, Dials, Waits, Live, vars, bounds
<1> QED BY <1>1, ConnectHeeds, ReceiveKnownHeeds, ClosedHeeds, FileChannelClosedHeeds,
        ReceiveOpenHeeds, ReceiveOpenedHeeds, SendMessageHeeds, ReceiveMessageHeeds,
        ReceiveAckHeeds, OnConnectedHeeds, OnDisconnectedHeeds, SendQueuedMessagesHeeds
    DEF Next, Receive, Call, Drop, PeerGone

LEMMA InitHeeded == Init => TypeOK /\ Heeded
<1> SUFFICES ASSUME Init PROVE TypeOK /\ Heeded
  OBVIOUS
<1>1. TypeOK
  BY BoundsAssumption DEF Init, TypeOK
<1>2. Heeded
  BY DEF Init, Heeded, Listens, Dials, Waits, Live
<1> QED BY <1>1, <1>2

-----------------------------------------------------------------------------
\* Streams of messages.

\* What is read without being shown again was no message, or a second copy.
LeftOut(s, k, t) ==
  /\ k \in 1..Len(s) /\ Len(s) = Len(t) + 1
  /\ \A n \in 1..Len(t) : t[n] = IF n < k THEN s[n] ELSE s[n + 1]
  /\ s[k] = 0 \/ \E j \in 1..(k - 1) : s[j] = s[k]

LEMMA Skipped ==
  ASSUME NEW s \in Seq(Nat), NEW t \in Seq(Nat), NEW k, LeftOut(s, k, t),
         NEW R \in SUBSET Row, NEW max \in Nat, NEW statuses,
         Stands(s, R, max), Holds(s, R, statuses)
  PROVE  Stands(t, R, max) /\ Holds(t, R, statuses)
<1>1. /\ Len(t) \in Nat /\ DOMAIN s = 1..(Len(t) + 1) /\ DOMAIN t = 1..Len(t)
      /\ \A n \in DOMAIN s : s[n] \in Nat
      /\ k \in DOMAIN s /\ k \in Nat
  BY Shape DEF LeftOut
<1> DEFINE at == [n \in 1..Len(t) |-> IF n < k THEN n ELSE n + 1]
<1>2. \A n \in DOMAIN t : at[n] \in DOMAIN s /\ at[n] \in Nat /\ n \in Nat /\ t[n] = s[at[n]]
  BY <1>1, SMTT(40) DEF LeftOut
<1>3. ASSUME NEW m \in DOMAIN t, NEW n \in DOMAIN t
      PROVE  (at[m] = at[n] => m = n) /\ (at[m] < at[n] => m < n)
  <2>1. m \in Int /\ n \in Int /\ k \in Int
    BY <1>1
  <2>2. at[m] = (IF m < k THEN m ELSE m + 1) /\ at[n] = (IF n < k THEN n ELSE n + 1)
    BY <1>1
  <2> HIDE DEF at
  <2> QED BY <2>1, <2>2
<1>4. ASSUME NEW n \in DOMAIN s, n # k
      PROVE  \E i \in DOMAIN t : at[i] = n
  <2>1. CASE n < k
    BY <1>1, <2>1
  <2>2. CASE n > k
    <3>1. n - 1 \in DOMAIN t /\ at[n - 1] = n
      BY <1>1, <2>2, SMTT(40)
    <3> QED BY <3>1
  <2> QED BY <1>1, <1>4, <2>1, <2>2
<1> HIDE DEF at
<1>5. ASSUME NEW m \in Nat, m # 0, NEW n \in DOMAIN s, s[n] = m
      PROVE  \E i \in DOMAIN t : t[i] = m /\ at[i] <= n
  <2>1. CASE n # k
    <3>1. PICK i \in DOMAIN t : at[i] = n
      BY <1>4, <1>5, <2>1
    <3>2. t[i] = m /\ n \in Nat
      BY <1>1, <1>2, <1>5, <3>1
    <3> QED BY <3>1, <3>2
  <2>2. CASE n = k
    <3>1. PICK j \in 1..(k - 1) : s[j] = m
      BY <1>5, <2>2 DEF LeftOut
    <3>2. j \in DOMAIN s /\ j # k
      BY <1>1, <3>1, SMTT(40)
    <3>3. PICK i \in DOMAIN t : at[i] = j
      BY <1>4, <3>2
    <3>4. t[i] = m
      BY <1>2, <3>1, <3>3
    <3>5. n \in Nat /\ j \in Nat /\ j < n
      BY <1>1, <2>2, <3>1
    <3> QED BY <3>3, <3>4, <3>5
  <2> QED BY <2>1, <2>2
<1>6. ASSUME NEW m \in Nat, m # 0 PROVE Occurs(s, m) <=> Occurs(t, m)
  <2>1. Occurs(s, m) => Occurs(t, m)
    BY <1>5, <1>6 DEF Occurs
  <2>2. Occurs(t, m) => Occurs(s, m)
    BY <1>2 DEF Occurs
  <2> QED BY <2>1, <2>2
<1>7. Ordered(t, Failed(R))
  <2> SUFFICES ASSUME NEW n \in DOMAIN t, NEW m \in 1..(t[n] - 1)
               PROVE  \/ \E j \in 1..(n - 1) : t[j] = m
                      \/ m \in Failed(R) /\ ~Occurs(t, m)
    BY DEF Ordered
  <2>1. at[n] \in DOMAIN s /\ at[n] \in Int /\ t[n] = s[at[n]] /\ m \in Nat /\ m # 0
    BY <1>1, <1>2
  <2>2. \/ \E j \in 1..(at[n] - 1) : s[j] = m
        \/ m \in Failed(R) /\ ~Occurs(s, m)
    BY <2>1 DEF Stands, Ordered
  <2>3. CASE \E j \in 1..(at[n] - 1) : s[j] = m
    <3>1. PICK j \in 1..(at[n] - 1) : s[j] = m
      BY <2>3
    <3>2. j \in DOMAIN s /\ j < at[n]
      <4>1. \A c \in 1..(Len(t) + 1) : j \in 1..(c - 1) => j \in 1..(Len(t) + 1) /\ j < c
        BY <1>1
      <4> QED BY <1>1, <2>1, <4>1
    <3>3. PICK i \in DOMAIN t : t[i] = m /\ at[i] <= j
      BY <1>5, <2>1, <3>1, <3>2
    <3>4. at[i] < at[n]
      <4>1. at[i] \in Nat /\ at[i] <= j
        BY <1>2, <3>3
      <4>2. j \in Int /\ at[n] \in Int /\ at[i] \in Int
        BY <2>1, <3>1, <4>1
      <4>3. \A a, b, c \in Int : a <= b /\ b < c => a < c
        OBVIOUS
      <4> HIDE DEF at
      <4> QED BY <3>2, <4>1, <4>2, <4>3, Zenon
    <3>5. i < n
      BY <1>3, <3>3, <3>4
    <3> QED BY <1>1, <3>3, <3>5
  <2>4. CASE m \in Failed(R) /\ ~Occurs(s, m)
    BY <1>6, <2>1, <2>4
  <2> QED BY <2>2, <2>3, <2>4
<1>8. ASSUME NEW m PROVE (Once(s, m) => Once(t, m)) /\ (Twice(s, m) => Twice(t, m))
  <2>1. Once(s, m) => Once(t, m)
    <3> SUFFICES ASSUME Once(s, m), NEW a \in DOMAIN t, NEW b \in DOMAIN t, t[a] = m, t[b] = m
                 PROVE  a = b
      BY DEF Once
    <3>1. at[a] = at[b]
      BY <1>2 DEF Once
    <3> QED BY <1>3, <3>1
  <2>2. ASSUME Twice(s, m), NEW a \in DOMAIN t, NEW b \in DOMAIN t, NEW c \in DOMAIN t,
               t[a] = m, t[b] = m, t[c] = m
        PROVE  a = b \/ b = c \/ a = c
    <3>1. at[a] = at[b] \/ at[b] = at[c] \/ at[a] = at[c]
      BY <1>2, <2>2 DEF Twice
    <3> QED BY <1>3, <3>1
  <2> QED BY <2>1, <2>2 DEF Twice
<1>9. \A r \in R : r.id \in Nat /\ r.id # 0
  BY BoundsAssumption DEF Row
<1>10. \A n \in DOMAIN t : t[n] \in 0..max
  BY <1>2 DEF Stands
<1>11. ASSUME NEW r \in R
       PROVE  /\ r.attempts = 0 => ~Occurs(t, r.id)
              /\ r.attempts = 1 => Once(t, r.id)
              /\ r.attempts = 2 => Twice(t, r.id)
  BY <1>6, <1>8, <1>9 DEF Stands
<1>12. Stands(t, R, max)
  BY <1>7, <1>10, <1>11 DEF Stands
<1>13. Holds(t, R, statuses)
  BY <1>6, <1>9 DEF Holds
<1> QED BY <1>12, <1>13

\* What is on the wire of a connection that fails is never shown.
LEMMA CutOff ==
  ASSUME NEW s \in Seq(Nat), NEW t \in Seq(Nat), Len(t) <= Len(s),
         \A n \in DOMAIN t : t[n] = s[n],
         NEW R \in SUBSET Row, NEW max \in Nat, Stands(s, R, max)
  PROVE  Stands(t, R, max)
<1>1. DOMAIN t \subseteq DOMAIN s /\ DOMAIN t = 1..Len(t) /\ Len(t) \in Nat
  BY Shape
<1>2. \A m : Occurs(t, m) => Occurs(s, m)
  BY <1>1 DEF Occurs
<1>3. \A m : Once(s, m) => Once(t, m)
  BY <1>1 DEF Once
<1>4. \A m : Twice(s, m) => Twice(t, m)
  BY <1>1 DEF Twice
<1>5. Ordered(t, Failed(R))
  <2> SUFFICES ASSUME NEW n \in DOMAIN t, NEW m \in 1..(t[n] - 1)
               PROVE  \/ \E j \in 1..(n - 1) : t[j] = m
                      \/ m \in Failed(R) /\ ~Occurs(t, m)
    BY DEF Ordered
  <2>1. \/ \E j \in 1..(n - 1) : s[j] = m
        \/ m \in Failed(R) /\ ~Occurs(s, m)
    BY <1>1 DEF Stands, Ordered
  <2>2. \A j \in 1..(n - 1) : j \in DOMAIN t
    BY <1>1
  <2> QED BY <1>2, <2>1, <2>2
<1>6. \A n \in DOMAIN t : t[n] \in 0..max
  BY <1>1 DEF Stands
<1>7. ASSUME NEW r \in R
      PROVE  /\ r.attempts = 0 => ~Occurs(t, r.id)
             /\ r.attempts = 1 => Once(t, r.id)
             /\ r.attempts = 2 => Twice(t, r.id)
  BY <1>2, <1>3, <1>4 DEF Stands
<1> QED BY <1>5, <1>6, <1>7 DEF Stands

\* Rows that fail leave the order as it is, and so does an acknowledgement of a
\* message that came.
LEMMA OtherRows ==
  ASSUME NEW s, NEW R, NEW T, NEW max, Stands(s, R, max),
         \A t \in T : \E r \in R : r.id = t.id /\ r.attempts = t.attempts,
         \A m \in Failed(R) : m \in Failed(T) \/ Occurs(s, m)
  PROVE  Stands(s, T, max)
<1>1. Ordered(s, Failed(T))
  BY DEF Stands, Ordered
<1>2. ASSUME NEW t \in T
      PROVE  /\ t.attempts = 0 => ~Occurs(s, t.id)
             /\ t.attempts = 1 => Once(s, t.id)
             /\ t.attempts = 2 => Twice(s, t.id)
  BY DEF Stands
<1> QED BY <1>1, <1>2 DEF Stands

LEMMA FewerTimes ==
  ASSUME NEW s, NEW t, NEW m, \A n \in DOMAIN t : t[n] = m => n \in DOMAIN s /\ s[n] = m
  PROVE  (Once(s, m) => Once(t, m)) /\ (Twice(s, m) => Twice(t, m))
<1>1. Once(s, m) => Once(t, m)
  BY DEF Once
<1>2. ASSUME Twice(s, m), NEW i \in DOMAIN t, NEW j \in DOMAIN t, NEW k \in DOMAIN t,
             t[i] = m, t[j] = m, t[k] = m
      PROVE  i = j \/ j = k \/ i = k
  <2>1. /\ i \in DOMAIN s /\ j \in DOMAIN s /\ k \in DOMAIN s
        /\ s[i] = m /\ s[j] = m /\ s[k] = m
    BY <1>2
  <2> QED BY <1>2, <2>1 DEF Twice
<1> QED BY <1>1, <1>2 DEF Twice

\* A packet that is no message adds nothing to the order.
LEMMA Padded ==
  ASSUME NEW s \in Seq(Nat), NEW u \in Seq(Nat), NEW t, t = s \o u, \A n \in DOMAIN u : u[n] = 0,
         NEW R \in SUBSET Row, NEW max \in Nat, NEW statuses,
         Stands(s, R, max), Holds(s, R, statuses)
  PROVE  Stands(t, R, max) /\ Holds(t, R, statuses)
<1>1. /\ Len(s) \in Nat /\ Len(u) \in Nat /\ DOMAIN s = 1..Len(s) /\ DOMAIN u = 1..Len(u)
      /\ Len(t) = Len(s) + Len(u) /\ DOMAIN t = 1..Len(t)
      /\ \A n \in 1..Len(t) : t[n] = IF n <= Len(s) THEN s[n] ELSE u[n - Len(s)]
      /\ \A n \in DOMAIN s : n \in DOMAIN t /\ t[n] = s[n] /\ s[n] \in Nat
  BY Joined, Shape
<1>2. ASSUME NEW n \in DOMAIN t, n \notin DOMAIN s PROVE t[n] = 0
  <2>1. ~(n <= Len(s)) /\ n - Len(s) \in DOMAIN u
    BY <1>1, <1>2
  <2> QED BY <1>1, <2>1
<1>3. ASSUME NEW m \in Nat, m # 0, NEW n \in DOMAIN t, t[n] = m PROVE n \in DOMAIN s /\ s[n] = m
  BY <1>1, <1>2, <1>3
<1>4. \A m \in Nat : m # 0 => (Occurs(s, m) <=> Occurs(t, m))
  BY <1>1, <1>3 DEF Occurs
<1>5. ASSUME NEW m \in Nat, m # 0 PROVE (Once(s, m) => Once(t, m)) /\ (Twice(s, m) => Twice(t, m))
  <2>1. \A n \in DOMAIN t : t[n] = m => n \in DOMAIN s /\ s[n] = m
    BY <1>3, <1>5
  <2> QED BY <2>1, FewerTimes
<1>6. \A r \in R : r.id \in Nat /\ r.id # 0
  BY BoundsAssumption DEF Row
<1>7. Ordered(t, Failed(R))
  <2> SUFFICES ASSUME NEW n \in DOMAIN t, NEW m \in 1..(t[n] - 1)
               PROVE  \/ \E j \in 1..(n - 1) : t[j] = m
                      \/ m \in Failed(R) /\ ~Occurs(t, m)
    BY DEF Ordered
  <2>1. n \in DOMAIN s /\ s[n] = t[n] /\ m \in Nat /\ m # 0
    <3>1. t[n] # 0
      OBVIOUS
    <3> QED BY <1>1, <1>2, <3>1
  <2>2. \/ \E j \in 1..(n - 1) : s[j] = m
        \/ m \in Failed(R) /\ ~Occurs(s, m)
    BY <2>1 DEF Stands, Ordered
  <2>3. \A j \in 1..(n - 1) : j \in DOMAIN s
    BY <1>1, <2>1
  <2> QED BY <1>1, <1>4, <2>1, <2>2, <2>3
<1>8. \A n \in DOMAIN t : t[n] \in 0..max
  BY <1>1, <1>2 DEF Stands
<1>9. ASSUME NEW r \in R
      PROVE  /\ r.attempts = 0 => ~Occurs(t, r.id)
             /\ r.attempts = 1 => Once(t, r.id)
             /\ r.attempts = 2 => Twice(t, r.id)
  BY <1>4, <1>5, <1>6 DEF Stands
<1> QED BY <1>4, <1>6, <1>7, <1>8, <1>9 DEF Stands, Holds

\* The rows R become T when the messages u are sent, the oldest first, to the end
\* of s: all others have failed, or been sent before.
Goes(s, u, R, T, max) ==
  /\ \A r \in R : r.id <= max
  /\ \A m \in 1..max : \E r \in R : r.id = m
  /\ \A x, y \in R : x.id = y.id => x = y
  /\ \A i, j \in DOMAIN u : i < j => u[i] < u[j]
  /\ \A i \in DOMAIN u : \E r \in R : r.id = u[i] /\ r.status = "Queued" /\ r.attempts < 2
  /\ \A r \in R : r.status = "Error" \/ Occurs(s, r.id) \/ Occurs(u, r.id)
  /\ \A x \in T : \E r \in R :
       /\ r.id = x.id
       /\ IF Occurs(u, r.id) THEN x.attempts = r.attempts + 1
          ELSE x.attempts = r.attempts /\ x.status = r.status
  /\ Failed(R) \subseteq Failed(T)


LEMMA SentStands ==
  ASSUME NEW s \in Seq(Nat), NEW u \in Seq(Nat), NEW t, t = s \o u,
         NEW R \in SUBSET Row, NEW T \in SUBSET Row, NEW max \in Nat,
         Stands(s, R, max), Goes(s, u, R, T, max)
  PROVE  /\ Stands(t, T, max)
         /\ Holds(t, T, {"Sending", "Queued"})
<1>1. /\ Len(s) \in Nat /\ Len(u) \in Nat /\ DOMAIN s = 1..Len(s) /\ DOMAIN u = 1..Len(u)
      /\ Len(t) = Len(s) + Len(u) /\ DOMAIN t = 1..Len(t)
      /\ \A n \in 1..Len(t) : t[n] = IF n <= Len(s) THEN s[n] ELSE u[n - Len(s)]
      /\ \A n \in DOMAIN s : n \in DOMAIN t /\ t[n] = s[n]
      /\ \A n \in DOMAIN u : Len(s) + n \in DOMAIN t /\ t[Len(s) + n] = u[n]
  BY Joined, Shape, SMTT(40)
<1>2. ASSUME NEW n \in DOMAIN t, n \notin DOMAIN s
      PROVE  n - Len(s) \in DOMAIN u /\ t[n] = u[n - Len(s)]
  <2>1. ~(n <= Len(s)) /\ n - Len(s) \in DOMAIN u
    BY <1>1, <1>2
  <2> QED BY <1>1, <2>1
<1>3. ASSUME NEW m PROVE Occurs(t, m) <=> Occurs(s, m) \/ Occurs(u, m)
  <2>1. Occurs(t, m) => Occurs(s, m) \/ Occurs(u, m)
    BY <1>1, <1>2 DEF Occurs
  <2>2. Occurs(s, m) => Occurs(t, m)
    BY <1>1 DEF Occurs
  <2>3. Occurs(u, m) => Occurs(t, m)
    BY <1>1 DEF Occurs
  <2> QED BY <2>1, <2>2, <2>3
\* What is sent was queued.
<1>4. ASSUME NEW m, Occurs(u, m)
      PROVE  \E r \in R : r.id = m /\ r.status = "Queued" /\ r.attempts < 2
  BY <1>4 DEF Occurs, Goes
<1>5. \A m \in Failed(R) : ~Occurs(u, m)
  <2> SUFFICES ASSUME NEW x \in R, x.status = "Error", Occurs(u, x.id) PROVE FALSE
    BY DEF Failed
  <2> QED BY <1>4 DEF Goes
<1>6. \A n \in DOMAIN t : t[n] \in 0..max
  <2> SUFFICES ASSUME NEW n \in DOMAIN t, n \notin DOMAIN s PROVE t[n] \in 0..max
    BY <1>1 DEF Stands
  <2>1. PICK r \in R : r.id = t[n]
    <3>1. n - Len(s) \in DOMAIN u /\ t[n] = u[n - Len(s)]
      BY <1>2
    <3> QED BY <3>1 DEF Goes
  <2>2. t[n] \in Nat /\ t[n] <= max
    BY <1>2, <2>1 DEF Goes
  <2> QED BY <2>2
<1>7. ASSUME NEW n \in DOMAIN t, NEW m, Occurs(s, m), n \notin DOMAIN s
      PROVE  \E j \in 1..(n - 1) : t[j] = m
  <2>1. PICK j \in DOMAIN s : s[j] = m
    BY <1>7 DEF Occurs
  <2>2. j \in 1..(n - 1)
    BY <1>1, <1>7
  <2> QED BY <1>1, <2>1, <2>2
<1>8. Ordered(t, Failed(T))
  <2> SUFFICES ASSUME NEW n \in DOMAIN t, NEW m \in 1..(t[n] - 1)
               PROVE  \/ \E j \in 1..(n - 1) : t[j] = m
                      \/ m \in Failed(T) /\ ~Occurs(t, m)
    BY DEF Ordered
  <2>1. Failed(R) \subseteq Failed(T)
    BY DEF Goes
  <2>2. CASE n \in DOMAIN s
    <3>1. \/ \E j \in 1..(n - 1) : s[j] = m
          \/ m \in Failed(R) /\ ~Occurs(s, m)
      BY <1>1, <2>2 DEF Stands, Ordered
    <3>2. \A j \in 1..(n - 1) : j \in DOMAIN s
      BY <1>1, <2>2
    <3> QED BY <1>1, <1>3, <1>5, <2>1, <3>1, <3>2
  <2>3. CASE n \notin DOMAIN s
    <3>1. m \in 1..max /\ m \in Nat /\ t[n] \in Nat /\ m < t[n]
      BY <1>6, SMTT(40)
    <3>2. PICK r \in R : r.id = m
      BY <3>1 DEF Goes
    <3>3. CASE Occurs(s, m)
      BY <1>7, <2>3, <3>3
    <3>4. CASE r.status = "Error" /\ ~Occurs(s, m)
      <4>1. m \in Failed(R)
        BY <3>2, <3>4 DEF Failed
      <4> QED BY <1>3, <1>5, <2>1, <3>4, <4>1
    <3>5. CASE Occurs(u, m)
      <4>1. PICK i \in DOMAIN u : u[i] = m
        BY <3>5 DEF Occurs
      <4> DEFINE k == n - Len(s)
      <4>2. k \in DOMAIN u /\ u[k] = t[n]
        BY <1>2, <2>3
      <4>3. k < i => u[k] < u[i]
        BY <4>2 DEF Goes
      <4>4. i < k
        <5>1. i \in Nat /\ k \in Nat /\ ~(k < i) /\ i # k
          BY <1>1, <3>1, <4>1, <4>2, <4>3, SMTT(40)
        <5> QED BY <5>1
      <4>5. Len(s) + i \in 1..(n - 1)
        BY <1>1, <4>4, SMTT(40)
      <4> QED BY <1>1, <4>1, <4>5
    <3>6. r.status = "Error" \/ Occurs(s, m) \/ Occurs(u, m)
      BY <3>2 DEF Goes
    <3> QED BY <3>3, <3>4, <3>5, <3>6
  <2> QED BY <2>2, <2>3
<1>9. \A i, j \in DOMAIN u : u[i] = u[j] => i = j
  <2> SUFFICES ASSUME NEW i \in DOMAIN u, NEW j \in DOMAIN u, u[i] = u[j], i # j PROVE FALSE
    OBVIOUS
  <2>1. i < j \/ j < i
    BY <1>1
  <2>2. u[i] < u[j] \/ u[j] < u[i]
    BY <2>1 DEF Goes
  <2>3. u[i] \in Nat
    BY Shape
  <2> QED BY <2>2, <2>3
<1>10. ASSUME NEW i \in DOMAIN t, NEW j \in DOMAIN t, i \notin DOMAIN s, j \notin DOMAIN s, t[i] = t[j]
       PROVE  i = j
  <2>1. i - Len(s) = j - Len(s)
    BY <1>2, <1>9, <1>10
  <2> QED BY <1>1, <2>1
<1>11. ASSUME NEW x \in T
       PROVE  /\ x.attempts = 0 => ~Occurs(t, x.id)
              /\ x.attempts = 1 => Once(t, x.id)
              /\ x.attempts = 2 => Twice(t, x.id)
              /\ x.status \in {"Sending", "Queued"} => Occurs(t, x.id)
  <2>1. PICK r \in R :
          /\ r.id = x.id
          /\ IF Occurs(u, r.id) THEN x.attempts = r.attempts + 1
             ELSE x.attempts = r.attempts /\ x.status = r.status
    BY DEF Goes
  <2> DEFINE m == x.id
  <2>2. /\ r.attempts = 0 => ~Occurs(s, m)
        /\ r.attempts = 1 => Once(s, m)
        /\ r.attempts = 2 => Twice(s, m)
        /\ r.attempts \in 0..2
    BY <2>1 DEF Stands, Row
  <2>3. CASE Occurs(u, m)
    <3>1. PICK y \in R : y.id = m /\ y.attempts < 2
      BY <1>4, <2>3
    <3>2. y = r
      BY <2>1, <3>1 DEF Goes
    <3>3. x.attempts = r.attempts + 1 /\ r.attempts \in {0, 1}
      BY <2>1, <2>2, <2>3, <3>1, <3>2
    <3> HIDE DEF m
    <3>4. r.attempts = 0 => Once(t, m)
      BY <1>1, <1>10, <2>2 DEF Once, Occurs
    <3>5. ASSUME r.attempts = 1, NEW i \in DOMAIN t, NEW j \in DOMAIN t, NEW k \in DOMAIN t,
                 t[i] = m, t[j] = m, t[k] = m
          PROVE  i = j \/ j = k \/ i = k
      <4>1. ASSUME NEW a \in DOMAIN t, NEW b \in DOMAIN t, t[a] = m, t[b] = m,
                   a \in DOMAIN s <=> b \in DOMAIN s
            PROVE  a = b
        <5>1. CASE a \in DOMAIN s
          BY <1>1, <2>2, <3>5, <4>1, <5>1 DEF Once
        <5>2. CASE a \notin DOMAIN s
          BY <1>10, <4>1, <5>2
        <5> QED BY <5>1, <5>2
      <4> QED BY <3>5, <4>1
    <3>6. r.attempts = 1 => Twice(t, m)
      BY <3>5 DEF Twice
    <3> QED BY <1>3, <2>3, <3>3, <3>4, <3>6 DEF m
  <2>4. CASE ~Occurs(u, m)
    <3> HIDE DEF m
    <3>1. \A n \in DOMAIN t : t[n] = m => n \in DOMAIN s /\ s[n] = m
      BY <1>1, <1>2, <2>4 DEF Occurs
    <3>2. (Once(s, m) => Once(t, m)) /\ (Twice(s, m) => Twice(t, m))
      BY <3>1, FewerTimes
    <3>4. r.attempts = x.attempts /\ r.status = x.status
      BY <2>1, <2>4 DEF m
    <3>5. r.status = "Error" \/ Occurs(s, m)
      BY <2>1, <2>4 DEF Goes, m
    <3> QED BY <1>3, <2>2, <2>4, <3>2, <3>4, <3>5 DEF m
  <2> QED BY <2>3, <2>4
<1>12. Stands(t, T, max)
  BY <1>6, <1>8, <1>11 DEF Stands
<1> QED BY <1>11, <1>12 DEF Holds


\* Nothing is longer that holds max messages at most twice each.
LEMMA AtMostTwice ==
  ASSUME NEW max \in Nat, NEW s \in Seq(Nat), \A n \in DOMAIN s : s[n] \in 1..max,
         \A m \in 1..max : Twice(s, m)
  PROVE  Len(s) <= 2 * max
<1> DEFINE S == 1..Len(s)
           T == (1..max) \X (1..2)
           again == [n \in S |-> IF \E j \in 1..(n - 1) : s[j] = s[n] THEN 2 ELSE 1]
           f == [n \in S |-> << s[n], again[n] >>]
<1>1. Len(s) \in Nat /\ DOMAIN s = S
  BY Shape
<1>2. IsFiniteSet(S) /\ Cardinality(S) = Len(s)
  BY <1>1, FS_Interval
<1>3. IsFiniteSet(T) /\ Cardinality(T) = 2 * max
  <2>1. \A n \in Nat : IsFiniteSet(1..n) /\ Cardinality(1..n) = n
    <3> SUFFICES ASSUME NEW n \in Nat PROVE IsFiniteSet(1..n) /\ Cardinality(1..n) = n
      OBVIOUS
    <3>1. IsFiniteSet(1..n) /\ Cardinality(1..n) = IF 1 > n THEN 0 ELSE n - 1 + 1
      BY FS_Interval
    <3> QED BY <3>1
  <2>2. IsFiniteSet(T) /\ Cardinality(T) = Cardinality(1..max) * Cardinality(1..2)
    BY <2>1, FS_Product
  <2> HIDE DEF T
  <2>3. Cardinality(1..max) = max /\ Cardinality(1..2) = 2
    BY <2>1
  <2> QED BY <2>2, <2>3
<1>4. \A n \in S : s[n] \in 1..max /\ again[n] \in 1..2
  BY <1>1
<1>5. f \in [S -> T]
  BY <1>4
<1>6. ASSUME NEW a \in S, NEW b \in S, f[a] = f[b], a < b PROVE FALSE
  <2>1. s[a] = s[b] /\ again[a] = again[b] /\ s[a] \in 1..max
    BY <1>4, <1>6
  <2>2. a \in 1..(b - 1)
    BY <1>1, <1>6
  <2>3. again[b] = 2
    BY <2>1, <2>2
  <2>4. PICK j \in 1..(a - 1) : s[j] = s[a]
    BY <2>1, <2>3
  <2>5. j \in S /\ j < a /\ a \in Nat /\ b \in Nat /\ j \in Nat
    BY <1>1, <2>4
  <2>6. j = a \/ a = b \/ j = b
    BY <1>1, <2>1, <2>4, <2>5 DEF Twice
  <2> QED BY <1>6, <2>5, <2>6
<1>7. ASSUME NEW a \in S, NEW b \in S, f[a] = f[b] PROVE a = b
  <2>1. a \in Nat /\ b \in Nat
    BY <1>1
  <2>2. ~(a < b) /\ ~(b < a)
    BY <1>6, <1>7
  <2> QED BY <2>1, <2>2
<1> HIDE DEF f, again
<1>8. f \in Injection(S, T)
  BY <1>5, <1>7 DEF Injection, IsInjective
<1> HIDE DEF S, T
<1>9. Cardinality(S) <= Cardinality(T)
  BY <1>3, <1>8, FS_Injection
<1> QED BY <1>2, <1>3, <1>9

-----------------------------------------------------------------------------
\* The rows of a user, when one is added or their statuses change.

Alike(ms, t) ==
  /\ DOMAIN t = DOMAIN ms
  /\ \A n \in DOMAIN ms :
       t[n].id = ms[n].id /\ (t[n].status = "Received" <=> ms[n].status = "Received")

LEMMA AlikeNumbered ==
  ASSUME NEW ms, NEW t, NEW max, Alike(ms, t), Numbered(ms, max)
  PROVE  /\ Own(t) = Own(ms) /\ Numbered(t, max)
<1>1. Own(t) = Own(ms) /\ \A n \in Own(ms) : t[n].id = ms[n].id
  BY DEF Own, Alike
<1>2. \A i, j \in Own(t) : i < j => t[i].id > t[j].id
  BY <1>1 DEF Numbered
<1>3. \A r \in Mine(t) : \E x \in Mine(ms) : x.id = r.id
  BY <1>1 DEF Mine
<1>4. \A x \in Mine(ms) : \E r \in Mine(t) : x.id = r.id
  BY <1>1 DEF Mine
<1>5. \A r \in Mine(t) : r.id <= max
  BY <1>3 DEF Numbered
<1>6. \A m \in 1..max : \E r \in Mine(t) : r.id = m
  BY <1>4 DEF Numbered
<1> QED BY <1>1, <1>2, <1>5, <1>6 DEF Numbered

LEMMA MineRows ==
  ASSUME NEW ms \in Seq(Row)
  PROVE  /\ Mine(ms) \in SUBSET Row /\ Own(ms) \subseteq DOMAIN ms
         /\ \A r \in Mine(ms) : r.id \in 1..MaxSent /\ r.id \in Nat /\ r.attempts \in 0..2
                                /\ r.status \in {"Queued", "Sending", "Delivered", "Error"}
<1>1. \A n \in DOMAIN ms : ms[n] \in Row
  BY Shape
<1> QED BY <1>1, BoundsAssumption DEF Mine, Own, Row

LEMMA Distinct ==
  ASSUME NEW ms \in Seq(Row), NEW max, Numbered(ms, max)
  PROVE  /\ \A i, j \in Own(ms) : ms[i].id = ms[j].id => i = j
         /\ \A x, y \in Mine(ms) : x.id = y.id => x = y
<1>1. ASSUME NEW i \in Own(ms), NEW j \in Own(ms), ms[i].id = ms[j].id PROVE i = j
  <2>1. i \in Int /\ j \in Int /\ ms[i].id \in Int
    <3>1. i \in DOMAIN ms /\ j \in DOMAIN ms
      BY DEF Own
    <3>2. ms[i] \in Row
      BY <3>1, Shape
    <3> QED BY <3>1, <3>2, Shape, BoundsAssumption DEF Row
  <2>2. i < j \/ j < i => ms[i].id > ms[j].id \/ ms[j].id > ms[i].id
    BY DEF Numbered
  <2> QED BY <1>1, <2>1, <2>2
<1> QED BY <1>1 DEF Mine


LEMMA SentAlike ==
  ASSUME NEW ms \in Seq(Row), \A n \in DOMAIN ms : ms[n].status = "Queued" => ms[n].attempts < 2
  PROVE  /\ Sent(ms) \in Seq(Row) /\ Len(Sent(ms)) = Len(ms) /\ Alike(ms, Sent(ms))
         /\ \A n \in DOMAIN ms :
              IF ms[n].status = "Queued"
              THEN Sent(ms)[n].status = "Sending" /\ Sent(ms)[n].attempts = ms[n].attempts + 1
              ELSE Sent(ms)[n] = ms[n]
<1>1. Sent(ms) \in Seq(Row) /\ DOMAIN Sent(ms) = DOMAIN ms /\ Len(Sent(ms)) = Len(ms)
      /\ \A n \in DOMAIN ms : ms[n] \in Row
  BY SentRows, Shape
<1>2. ASSUME NEW n \in DOMAIN ms
      PROVE  /\ Sent(ms)[n].id = ms[n].id
             /\ Sent(ms)[n].status = "Received" <=> ms[n].status = "Received"
             /\ IF ms[n].status = "Queued"
                THEN Sent(ms)[n].status = "Sending" /\ Sent(ms)[n].attempts = ms[n].attempts + 1
                ELSE Sent(ms)[n] = ms[n]
  <2>1. CASE ms[n].status = "Queued"
    <3>1. Sent(ms)[n] = [ms[n] EXCEPT !.status = "Sending", !.attempts = @ + 1]
      BY <2>1 DEF Sent
    <3> QED BY <1>1, <2>1, <3>1 DEF Row
  <2>2. CASE ms[n].status # "Queued"
    BY <2>2 DEF Sent
  <2> QED BY <2>1, <2>2
<1> QED BY <1>1, <1>2 DEF Alike

LEMMA RequeuedAlike ==
  ASSUME NEW ms \in Seq(Row)
  PROVE  /\ Requeued(ms) \in Seq(Row) /\ Len(Requeued(ms)) = Len(ms) /\ Alike(ms, Requeued(ms))
         /\ \A n \in DOMAIN ms :
              IF ms[n].status = "Sending"
              THEN /\ Requeued(ms)[n].status \in {"Queued", "Error"}
                   /\ Requeued(ms)[n].attempts = ms[n].attempts
              ELSE Requeued(ms)[n] = ms[n]
<1>1. Requeued(ms) \in Seq(Row) /\ DOMAIN Requeued(ms) = DOMAIN ms /\ Len(Requeued(ms)) = Len(ms)
      /\ \A n \in DOMAIN ms : ms[n] \in Row
  BY RequeuedRows, Shape
<1>2. ASSUME NEW n \in DOMAIN ms
      PROVE  /\ Requeued(ms)[n].id = ms[n].id
             /\ Requeued(ms)[n].status = "Received" <=> ms[n].status = "Received"
             /\ IF ms[n].status = "Sending"
                THEN /\ Requeued(ms)[n].status \in {"Queued", "Error"}
                     /\ Requeued(ms)[n].attempts = ms[n].attempts
                ELSE Requeued(ms)[n] = ms[n]
  <2>1. CASE ms[n].status = "Sending"
    <3>1. Requeued(ms)[n] =
            [ms[n] EXCEPT !.status = IF ms[n].attempts >= 2 THEN "Error" ELSE "Queued"]
      BY <2>1 DEF Requeued
    <3> QED BY <1>1, <2>1, <3>1 DEF Row
  <2>2. CASE ms[n].status # "Sending"
    BY <2>2 DEF Requeued
  <2> QED BY <2>1, <2>2
<1> QED BY <1>1, <1>2 DEF Alike

LEMMA AcknowledgedAlike ==
  ASSUME NEW ms \in Seq(Row), NEW id
  PROVE  LET t == Acknowledged(ms, id) IN
         /\ t \in Seq(Row) /\ Len(t) = Len(ms) /\ Alike(ms, t)
         /\ \A n \in DOMAIN ms :
              IF n \in Own(ms) /\ ms[n].id = id
              THEN t[n].status = "Delivered" /\ t[n].attempts = ms[n].attempts
              ELSE t[n] = ms[n]
<1> DEFINE t == Acknowledged(ms, id)
<1>1. t \in Seq(Row) /\ DOMAIN t = DOMAIN ms /\ Len(t) = Len(ms)
      /\ \A n \in DOMAIN ms : ms[n] \in Row
  BY AcknowledgedRows, Shape
<1>2. ASSUME NEW n \in DOMAIN ms
      PROVE  /\ t[n].id = ms[n].id
             /\ t[n].status = "Received" <=> ms[n].status = "Received"
             /\ IF n \in Own(ms) /\ ms[n].id = id
                THEN t[n].status = "Delivered" /\ t[n].attempts = ms[n].attempts
                ELSE t[n] = ms[n]
  <2>1. CASE ms[n].id = id /\ ms[n].status # "Received"
    <3>1. t[n] = [ms[n] EXCEPT !.status = "Delivered"]
      BY <2>1 DEF Acknowledged
    <3> HIDE DEF t
    <3> QED BY <1>1, <2>1, <3>1 DEF Row, Own
  <2>2. CASE ~(ms[n].id = id /\ ms[n].status # "Received")
    BY <2>2 DEF Acknowledged, Own
  <2> QED BY <2>1, <2>2
<1> HIDE DEF t
<1>3. Alike(ms, t)
  BY <1>1, <1>2 DEF Alike
<1> QED BY <1>1, <1>2, <1>3 DEF t

\* Everything queued is sent, the oldest first.
LEMMA QueueGoes ==
  ASSUME NEW ms \in Seq(Row), NEW max \in Nat, Numbered(ms, max),
         \A n \in DOMAIN ms : ms[n].status = "Queued" => ms[n].attempts < 2,
         NEW order \in OldestFirst(Queued(ms)),
         NEW u, u = [n \in DOMAIN order |-> ms[order[n]].id],
         NEW s, Stands(s, Mine(ms), max),
         \A r \in Mine(ms) : r.status \in {"Sending", "Delivered"} => Occurs(s, r.id)
  PROVE  u \in Seq(Nat) /\ Goes(s, u, Mine(ms), Mine(Sent(ms)), max)
<1> DEFINE S == Queued(ms)
<1>1. Len(ms) \in Nat /\ DOMAIN ms = 1..Len(ms) /\ \A n \in DOMAIN ms : ms[n] \in Row
  BY Shape
<1>2. S \subseteq Own(ms) /\ Own(ms) \subseteq DOMAIN ms
  BY DEF Queued, Own
<1>3. IsFiniteSet(S) /\ Cardinality(S) \in Nat
  <2>1. IsFiniteSet(DOMAIN ms)
    BY <1>1, FS_Interval
  <2>2. IsFiniteSet(S)
    BY <1>2, <2>1, FS_Subset
  <2> QED BY <2>2, FS_CardinalityType
<1> DEFINE N == Cardinality(S)
<1>4. order \in [1..N -> S] /\ \A m, n \in 1..N : m < n => order[m] > order[n]
  BY DEF OldestFirst
<1>5. order \in Injection(1..N, S)
  <2> HIDE DEF N, S
  <2>1. ASSUME NEW m \in 1..N, NEW n \in 1..N, order[m] = order[n] PROVE m = n
    <3>1. m \in Nat /\ n \in Nat /\ order[m] \in Nat
      BY <1>1, <1>2, <1>4
    <3>2. m < n \/ n < m => order[m] > order[n] \/ order[n] > order[m]
      BY <1>4
    <3> QED BY <2>1, <3>1, <3>2
  <2> QED BY <1>4, <2>1 DEF Injection, IsInjective
<1>6. \A k \in S : \E n \in 1..N : order[n] = k
  <2>1. Cardinality(1..N) = Cardinality(S)
    BY <1>3, FS_Interval
  <2> HIDE DEF N, S
  <2>2. order \in Surjection(1..N, S)
    BY <1>3, <1>5, <2>1, FS_Injection
  <2> QED BY <2>2 DEF Surjection
<1> HIDE DEF S
<1>7. \A n \in 1..N : order[n] \in Own(ms) /\ order[n] \in DOMAIN ms /\ u[n] = ms[order[n]].id
                      /\ ms[order[n]].status = "Queued"
  BY <1>2, <1>4 DEF S, Queued
<1>8. DOMAIN u = 1..N /\ \A n \in 1..N : u[n] \in Nat
  <2>1. \A n \in DOMAIN ms : ms[n].id \in Nat
    BY <1>1, BoundsAssumption DEF Row
  <2> QED BY <1>4, <1>7, <2>1
<1>9. u \in Seq(Nat)
  <2>1. u \in [1..N -> Nat]
    BY <1>8
  <2> HIDE DEF N
  <2> QED BY <1>3, <2>1 DEF N
<1>10. ASSUME NEW i \in DOMAIN u, NEW j \in DOMAIN u, i < j PROVE u[i] < u[j]
  <2>1. order[i] > order[j] /\ order[i] \in Nat /\ order[j] \in Nat
    BY <1>1, <1>4, <1>7, <1>8, <1>10
  <2>2. ms[order[j]].id > ms[order[i]].id
    BY <1>7, <1>8, <2>1 DEF Numbered
  <2> QED BY <1>7, <1>8, <2>2
<1>11. \A k \in S : Occurs(u, ms[k].id)
  BY <1>6, <1>7, <1>8 DEF Occurs
<1>12. \A i \in DOMAIN u : \E r \in Mine(ms) : r.id = u[i] /\ r.status = "Queued" /\ r.attempts < 2
  BY <1>7, <1>8 DEF Mine
<1>13. ASSUME NEW r \in Mine(ms)
       PROVE  r.status = "Error" \/ Occurs(s, r.id) \/ Occurs(u, r.id)
  <2>1. PICK k \in Own(ms) : r = ms[k]
    BY DEF Mine
  <2>2. CASE r.status = "Queued"
    <3>1. k \in S
      BY <1>2, <2>1, <2>2 DEF S, Queued
    <3> QED BY <1>11, <2>1, <3>1
  <2> QED BY <2>2, MineRows
\* A row whose message goes was queued.
<1>14. ASSUME NEW k \in Own(ms) PROVE Occurs(u, ms[k].id) <=> k \in S
  <2>1. ASSUME Occurs(u, ms[k].id) PROVE k \in S
    <3>1. PICK i \in 1..N : u[i] = ms[k].id
      BY <1>8, <2>1 DEF Occurs
    <3>2. \A x, y \in Own(ms) : ms[x].id = ms[y].id => x = y
      BY Distinct
    <3>3. order[i] \in Own(ms) /\ ms[order[i]].id = ms[k].id
      BY <1>7, <1>8, <3>1
    <3>4. order[i] = k
      BY <3>2, <3>3, Zenon
    <3> QED BY <1>4, <3>1, <3>4 DEF S
  <2> QED BY <1>11, <2>1
<1>15. Own(Sent(ms)) = Own(ms)
  BY SentAlike, AlikeNumbered
<1>16. ASSUME NEW x \in Mine(Sent(ms))
       PROVE  \E r \in Mine(ms) :
                /\ r.id = x.id
                /\ IF Occurs(u, r.id) THEN x.attempts = r.attempts + 1
                   ELSE x.attempts = r.attempts /\ x.status = r.status
  <2>1. PICK k \in Own(ms) : x = Sent(ms)[k]
    BY <1>15 DEF Mine
  <2>2. /\ ms[k] \in Mine(ms) /\ x.id = ms[k].id
        /\ IF ms[k].status = "Queued" THEN x.attempts = ms[k].attempts + 1 ELSE x = ms[k]
    BY <1>2, <2>1, SentAlike DEF Mine, Alike
  <2>3. k \in S <=> ms[k].status = "Queued"
    BY <1>2 DEF S, Queued
  <2> QED BY <1>14, <2>2, <2>3
<1>17. Failed(Mine(ms)) \subseteq Failed(Mine(Sent(ms)))
  <2> SUFFICES ASSUME NEW k \in Own(ms), ms[k].status = "Error"
               PROVE  ms[k].id \in Failed(Mine(Sent(ms)))
    BY DEF Failed, Mine
  <2>1. Sent(ms)[k] = ms[k]
    BY <1>2, SentAlike
  <2> QED BY <1>15, <2>1 DEF Failed, Mine
<1>18. \A r \in Mine(ms) : r.id <= max
  BY DEF Numbered
<1>19. \A m \in 1..max : \E r \in Mine(ms) : r.id = m
  BY DEF Numbered
<1>20. \A x, y \in Mine(ms) : x.id = y.id => x = y
  BY Distinct
<1>21. \A i, j \in DOMAIN u : i < j => u[i] < u[j]
  BY <1>10
<1> QED BY <1>9, <1>12, <1>13, <1>16, <1>17, <1>18, <1>19, <1>20, <1>21, Zenon DEF Goes


\* The end of a channel leaves the order as it is.
LEMMA RequeuedStands ==
  ASSUME NEW ms \in Seq(Row), NEW max \in Nat, Numbered(ms, max),
         NEW s, Stands(s, Mine(ms), max)
  PROVE  LET T == Mine(Requeued(ms)) IN
         /\ Numbered(Requeued(ms), max) /\ Stands(s, T, max)
         /\ \A x \in T : x.status # "Sending"
         /\ \A x \in T : x.status = "Delivered" => x \in Mine(ms)
         /\ \A x \in T : x.status = "Queued" =>
              \E r \in Mine(ms) : r.id = x.id /\ r.status \in {"Queued", "Sending"}
<1> DEFINE t == Requeued(ms)
           T == Mine(t)
<1>1. /\ Own(t) = Own(ms) /\ Numbered(t, max) /\ Own(ms) \subseteq DOMAIN ms
      /\ \A n \in DOMAIN ms :
           /\ t[n].id = ms[n].id
           /\ IF ms[n].status = "Sending"
              THEN t[n].status \in {"Queued", "Error"} /\ t[n].attempts = ms[n].attempts
              ELSE t[n] = ms[n]
  BY RequeuedAlike, AlikeNumbered, MineRows DEF Alike
<1> HIDE DEF t
<1>2. ASSUME NEW x \in T
      PROVE  \E n \in Own(ms) : /\ x.id = ms[n].id /\ ms[n] \in Mine(ms)
                                /\ IF ms[n].status = "Sending"
                                   THEN x.status \in {"Queued", "Error"} /\ x.attempts = ms[n].attempts
                                   ELSE x = ms[n]
  BY <1>1 DEF Mine
<1>3. \A x \in T : \E r \in Mine(ms) : r.id = x.id /\ r.attempts = x.attempts
  BY <1>2
<1>4. \A m \in Failed(Mine(ms)) : m \in Failed(T)
  <2> SUFFICES ASSUME NEW n \in Own(ms), ms[n].status = "Error" PROVE ms[n].id \in Failed(T)
    BY DEF Failed, Mine
  <2>1. t[n] = ms[n]
    BY <1>1
  <2> QED BY <1>1, <2>1 DEF Failed, Mine
<1>5. Stands(s, T, max)
  BY <1>3, <1>4, OtherRows
<1>6. /\ \A x \in T : x.status # "Sending"
      /\ \A x \in T : x.status = "Delivered" => x \in Mine(ms)
      /\ \A x \in T : x.status = "Queued" =>
           \E r \in Mine(ms) : r.id = x.id /\ r.status \in {"Queued", "Sending"}
  BY <1>2
<1> QED BY <1>1, <1>5, <1>6 DEF t

LEMMA AcknowledgedStands ==
  ASSUME NEW ms \in Seq(Row), NEW max \in Nat, Numbered(ms, max),
         NEW s, Stands(s, Mine(ms), max), NEW id, Occurs(s, id)
  PROVE  LET T == Mine(Acknowledged(ms, id)) IN
         /\ Numbered(Acknowledged(ms, id), max) /\ Stands(s, T, max)
         /\ \A x \in T : x.status \in {"Sending", "Queued"} => x \in Mine(ms)
         /\ \A x \in T : x.status = "Delivered" => x \in Mine(ms) \/ x.id = id
<1> DEFINE t == Acknowledged(ms, id)
           T == Mine(t)
<1>1. /\ Own(t) = Own(ms) /\ Numbered(t, max) /\ Own(ms) \subseteq DOMAIN ms
      /\ \A n \in Own(ms) :
           /\ t[n].id = ms[n].id
           /\ IF ms[n].id = id
              THEN t[n].status = "Delivered" /\ t[n].attempts = ms[n].attempts
              ELSE t[n] = ms[n]
  <2>1. /\ Alike(ms, t)
        /\ \A n \in DOMAIN ms :
              IF n \in Own(ms) /\ ms[n].id = id
              THEN t[n].status = "Delivered" /\ t[n].attempts = ms[n].attempts
              ELSE t[n] = ms[n]
    BY AcknowledgedAlike
  <2> HIDE DEF t
  <2>2. Own(t) = Own(ms) /\ Numbered(t, max) /\ Own(ms) \subseteq DOMAIN ms
    BY <2>1, AlikeNumbered, MineRows
  <2> QED BY <2>1, <2>2 DEF Alike
<1> HIDE DEF t
<1>2. ASSUME NEW x \in T
      PROVE  \E n \in Own(ms) : /\ x.id = ms[n].id /\ ms[n] \in Mine(ms)
                                /\ IF ms[n].id = id
                                   THEN x.status = "Delivered" /\ x.attempts = ms[n].attempts
                                   ELSE x = ms[n]
  BY <1>1 DEF Mine
<1>3. \A x \in T : \E r \in Mine(ms) : r.id = x.id /\ r.attempts = x.attempts
  BY <1>2
<1>4. \A m \in Failed(Mine(ms)) : m \in Failed(T) \/ Occurs(s, m)
  <2> SUFFICES ASSUME NEW n \in Own(ms), ms[n].status = "Error", ms[n].id # id
               PROVE  ms[n].id \in Failed(T)
    BY DEF Failed, Mine
  <2>1. t[n] = ms[n]
    BY <1>1
  <2> QED BY <1>1, <2>1 DEF Failed, Mine
<1>5. Stands(s, T, max)
  BY <1>3, <1>4, OtherRows
<1>6. /\ \A x \in T : x.status \in {"Sending", "Queued"} => x \in Mine(ms)
      /\ \A x \in T : x.status = "Delivered" => x \in Mine(ms) \/ x.id = id
  BY <1>2
<1> QED BY <1>1, <1>5, <1>6 DEF t

\* A new row of one's own is the newest.
LEMMA OwnInserted ==
  ASSUME NEW ms \in Seq(Row), NEW max \in Nat, Numbered(ms, max), Len(ms) < HistoryLimit,
         NEW row \in Row, row.status # "Received", row.id = max + 1,
         NEW t, t = Inserted(ms, 1, row)
  PROVE  /\ t \in Seq(Row) /\ Len(t) = Len(ms) + 1
         /\ Mine(t) = Mine(ms) \cup {row} /\ Numbered(t, max + 1)
         /\ \A n \in DOMAIN t : t[n].status = "Received" => \E k \in DOMAIN ms : t[n] = ms[k]
<1>1. /\ Len(ms) \in Nat /\ DOMAIN ms = 1..Len(ms) /\ 1 \in 1..(Len(ms) + 1)
      /\ Own(ms) \subseteq DOMAIN ms
  BY Shape, MineRows
<1>2. /\ t \in Seq(Row) /\ Len(t) = Len(ms) + 1
      /\ \A n \in 1..Len(t) : t[n] = IF n < 1 THEN ms[n] ELSE IF n = 1 THEN row ELSE ms[n - 1]
  <2>1. t \in Seq(Row) /\ Shifted(t, ms, 1, row)
    BY <1>1, InsertedRow
  <2> QED BY <2>1 DEF Shifted
<1>3. DOMAIN t = 1..Len(t)
  BY <1>2, Shape
<1>4. t[1] = row /\ 1 \in DOMAIN t /\ \A n \in DOMAIN ms : n + 1 \in DOMAIN t /\ t[n + 1] = ms[n]
  BY <1>1, <1>2, <1>3
<1>5. ASSUME NEW n \in DOMAIN t, n # 1
      PROVE  n - 1 \in DOMAIN ms /\ t[n] = ms[n - 1]
  BY <1>1, <1>2, <1>3, <1>5
<1>6. ASSUME NEW n \in Own(t), n # 1 PROVE n - 1 \in Own(ms) /\ t[n] = ms[n - 1]
  BY <1>5, <1>6 DEF Own
<1>7. Mine(t) = Mine(ms) \cup {row}
  <2>1. ASSUME NEW x \in Mine(t) PROVE x \in Mine(ms) \cup {row}
    <3>1. PICK n \in Own(t) : x = t[n]
      BY DEF Mine
    <3> QED BY <1>4, <1>6, <3>1 DEF Mine
  <2>2. ASSUME NEW x \in Mine(ms) PROVE x \in Mine(t)
    <3>1. PICK n \in Own(ms) : x = ms[n]
      BY DEF Mine
    <3>2. n + 1 \in Own(t) /\ t[n + 1] = x
      BY <1>1, <1>4, <3>1 DEF Own
    <3> QED BY <3>2 DEF Mine
  <2>3. 1 \in Own(t)
    BY <1>4 DEF Own
  <2>4. row \in Mine(t)
    BY <1>4, <2>3 DEF Mine
  <2> QED BY <2>1, <2>2, <2>4
<1>8. \A r \in Mine(ms) : r.id \in Nat /\ r.id <= max
  BY MineRows DEF Numbered
<1>9. ASSUME NEW i \in Own(t), NEW j \in Own(t), i < j PROVE t[i].id > t[j].id
  <2>1. i \in DOMAIN t /\ j \in DOMAIN t /\ i \in Nat /\ j \in Nat /\ j # 1
    BY <1>1, <1>2, <1>3, <1>9 DEF Own
  <2>2. j - 1 \in Own(ms) /\ t[j] = ms[j - 1]
    BY <1>6, <2>1
  <2>3. CASE i = 1
    <3>1. ms[j - 1] \in Mine(ms)
      BY <2>2 DEF Mine
    <3> QED BY <1>4, <1>8, <2>2, <2>3, <3>1
  <2>4. CASE i # 1
    <3>1. i - 1 \in Own(ms) /\ t[i] = ms[i - 1] /\ i - 1 < j - 1
      BY <1>6, <1>9, <2>1, <2>4
    <3> QED BY <2>2, <3>1 DEF Numbered
  <2> QED BY <2>3, <2>4
<1>10. \A r \in Mine(t) : r.id <= max + 1
  BY <1>7, <1>8
<1>11. \A m \in 1..(max + 1) : \E r \in Mine(t) : r.id = m
  <2> SUFFICES ASSUME NEW m \in 1..(max + 1) PROVE \E r \in Mine(t) : r.id = m
    OBVIOUS
  <2>1. CASE m = max + 1
    BY <1>7, <2>1
  <2>2. CASE m # max + 1
    <3>1. m \in 1..max
      BY <2>2
    <3> QED BY <1>7, <3>1 DEF Numbered
  <2> QED BY <2>1, <2>2
<1>12. \A n \in DOMAIN t : t[n].status = "Received" => \E k \in DOMAIN ms : t[n] = ms[k]
  BY <1>4, <1>5
<1>13. Numbered(t, max + 1)
  BY <1>9, <1>10, <1>11 DEF Numbered
<1> QED BY <1>2, <1>7, <1>12, <1>13

\* One of the other's leaves one's own as they are.
LEMMA OtherInserted ==
  ASSUME NEW ms \in Seq(Row), NEW max \in Nat, Numbered(ms, max), Len(ms) < HistoryLimit,
         NEW id \in 1..MaxSent, NEW t, t = Received(ms, id)
  PROVE  /\ t \in Seq(Row) /\ Len(t) = Len(ms) + 1
         /\ Mine(t) = Mine(ms) /\ Numbered(t, max)
         /\ \A n \in DOMAIN t : t[n].status = "Received" =>
              t[n].id = id \/ \E k \in DOMAIN ms : t[n] = ms[k]
<1> DEFINE row == [id |-> id, status |-> "Received", attempts |-> 0]
           place == RowFor(ms)
<1>1. Len(ms) \in Nat /\ DOMAIN ms = 1..Len(ms) /\ Own(ms) \subseteq DOMAIN ms
  BY Shape, MineRows
<1>2. row \in Row /\ row.status = "Received" /\ row.id = id /\ place \in 1..(Len(ms) + 1)
  <2>1. row \in Row /\ row.status = "Received" /\ row.id = id
    BY DEF Row
  <2> QED BY <2>1, PlaceType
<1>3. t = Inserted(ms, place, row)
  BY DEF Received
<1> HIDE DEF row, place
<1>4. /\ t \in Seq(Row) /\ Len(t) = Len(ms) + 1
      /\ \A n \in 1..Len(t) :
           t[n] = IF n < place THEN ms[n] ELSE IF n = place THEN row ELSE ms[n - 1]
  <2>1. t \in Seq(Row) /\ Shifted(t, ms, place, row)
    BY <1>2, <1>3, InsertedRow
  <2> QED BY <2>1 DEF Shifted
<1>5. DOMAIN t = 1..Len(t)
  BY <1>4, Shape
<1> DEFINE back == [n \in 1..Len(t) |-> IF n < place THEN n ELSE n - 1]
<1>6. ASSUME NEW n \in DOMAIN t, n # place
      PROVE  back[n] \in DOMAIN ms /\ t[n] = ms[back[n]]
  BY <1>1, <1>2, <1>4, <1>5, <1>6
<1>7. ASSUME NEW m \in DOMAIN t, NEW n \in DOMAIN t, m # place, n # place, m < n
      PROVE  back[m] < back[n]
  BY <1>1, <1>2, <1>4, <1>5, <1>7
<1>8. ASSUME NEW k \in DOMAIN ms
      PROVE  \E n \in DOMAIN t : n # place /\ back[n] = k
  <2>1. CASE k < place
    BY <1>1, <1>2, <1>4, <1>5, <2>1
  <2>2. CASE ~(k < place)
    <3>1. k + 1 \in DOMAIN t /\ k + 1 # place /\ back[k + 1] = k
      BY <1>1, <1>2, <1>4, <1>5, <2>2
    <3> QED BY <3>1
  <2> QED BY <2>1, <2>2
<1>9. t[place] = row
  BY <1>1, <1>2, <1>4
<1> HIDE DEF back
<1>10. ASSUME NEW n \in Own(t)
       PROVE  n \in DOMAIN t /\ n # place /\ back[n] \in Own(ms) /\ t[n] = ms[back[n]]
  BY <1>2, <1>6, <1>9 DEF Own
<1>11. ASSUME NEW k \in Own(ms) PROVE \E n \in Own(t) : t[n] = ms[k]
  <2>1. PICK n \in DOMAIN t : n # place /\ back[n] = k
    BY <1>1, <1>8
  <2> QED BY <1>6, <2>1 DEF Own
<1>12. Mine(t) = Mine(ms)
  BY <1>10, <1>11 DEF Mine
<1>13. \A i, j \in Own(t) : i < j => t[i].id > t[j].id
  <2> SUFFICES ASSUME NEW i \in Own(t), NEW j \in Own(t), i < j PROVE t[i].id > t[j].id
    OBVIOUS
  <2>1. back[i] < back[j]
    BY <1>7, <1>10
  <2> QED BY <1>10, <2>1 DEF Numbered
<1>14. Numbered(t, max)
  BY <1>12, <1>13 DEF Numbered
<1>15. \A n \in DOMAIN t : t[n].status = "Received" =>
         t[n].id = id \/ \E k \in DOMAIN ms : t[n] = ms[k]
  BY <1>2, <1>6, <1>9
<1> QED BY <1>4, <1>12, <1>14, <1>15

-----------------------------------------------------------------------------
\* A new message.

LEMMA NewStands ==
  ASSUME NEW s \in Seq(Nat), NEW R, NEW max \in Nat, Stands(s, R, max),
         NEW row, row.id = max + 1, NEW T, T = R \cup {row}
  PROVE  Stands(s, T, max + 1) /\ ~Occurs(s, max + 1)
<1>1. \A n \in DOMAIN s : s[n] \in Nat /\ s[n] <= max
  BY Shape DEF Stands
<1>2. ~Occurs(s, max + 1) /\ \A n \in DOMAIN s : s[n] \in 0..(max + 1)
  BY <1>1 DEF Occurs
<1>3. Failed(R) \subseteq Failed(T)
  BY DEF Failed
<1>4. Ordered(s, Failed(T))
  BY <1>3 DEF Stands, Ordered
<1>5. Once(s, max + 1) /\ Twice(s, max + 1)
  BY <1>2 DEF Occurs, Once, Twice
<1>6. ASSUME NEW r \in T
      PROVE  /\ r.attempts = 0 => ~Occurs(s, r.id)
             /\ r.attempts = 1 => Once(s, r.id)
             /\ r.attempts = 2 => Twice(s, r.id)
  <2>1. CASE r = row
    BY <1>2, <1>5, <2>1
  <2>2. CASE r \in R
    BY <2>2 DEF Stands
  <2> QED BY <2>1, <2>2
<1> QED BY <1>2, <1>4, <1>6 DEF Stands


LEMMA NewGoes ==
  ASSUME NEW ms \in Seq(Row), NEW max \in Nat, Numbered(ms, max),
         NEW s \in Seq(Nat), Stands(s, Mine(ms), max),
         \A r \in Mine(ms) : r.status # "Error" => Occurs(s, r.id),
         NEW row \in Row, row.id = max + 1, row.status = "Sending", row.attempts = 1,
         NEW T, T = Mine(ms) \cup {row}, NEW u, u = << max + 1 >>, NEW t, t = s \o u
  PROVE  Stands(t, T, max + 1) /\ Holds(t, T, {"Sending", "Queued"})
<1> DEFINE queued == [id |-> max + 1, status |-> "Queued", attempts |-> 0]
           R == Mine(ms) \cup {queued}
           top == max + 1
<1>1. /\ queued \in Row /\ queued.id = top /\ queued.status = "Queued" /\ queued.attempts = 0
  BY DEF Row
<1> HIDE DEF queued
<1>2. /\ u \in Seq(Nat) /\ DOMAIN u = {1} /\ u[1] = top /\ top \in Nat
  OBVIOUS
<1>3. /\ Mine(ms) \in SUBSET Row /\ \A r \in Mine(ms) : r.id \in Nat /\ r.id <= max
  BY MineRows DEF Numbered
<1>4. R \in SUBSET Row /\ T \in SUBSET Row
  BY <1>1, <1>3
<1>5. Stands(s, R, top) /\ ~Occurs(s, top)
  BY <1>1, NewStands
<1>6. Occurs(u, top) /\ \A m : Occurs(u, m) => m = top
  BY <1>2 DEF Occurs
<1>7. Goes(s, u, R, T, top)
  <2>1. \A r \in R : r.id <= top
    BY <1>1, <1>2, <1>3
  <2>2. ASSUME NEW m \in 1..top PROVE \E r \in R : r.id = m
    <3>1. CASE m = top
      BY <1>1, <3>1
    <3>2. CASE m # top
      <4>1. m \in 1..max
        BY <3>2
      <4> QED BY <4>1 DEF Numbered
    <3> QED BY <3>1, <3>2
  <2>3. \A r \in Mine(ms) : r.id # top
    BY <1>2, <1>3
  <2>4. \A x, y \in R : x.id = y.id => x = y
    BY <1>1, <2>3, Distinct
  <2>5. \A i, j \in DOMAIN u : i < j => u[i] < u[j]
    BY <1>2
  <2>6. \A i \in DOMAIN u : \E r \in R : r.id = u[i] /\ r.status = "Queued" /\ r.attempts < 2
    BY <1>1, <1>2
  <2>7. \A r \in R : r.status = "Error" \/ Occurs(s, r.id) \/ Occurs(u, r.id)
    BY <1>1, <1>6
  <2>8. ASSUME NEW x \in T
        PROVE  \E r \in R :
                 /\ r.id = x.id
                 /\ IF Occurs(u, r.id) THEN x.attempts = r.attempts + 1
                    ELSE x.attempts = r.attempts /\ x.status = r.status
    <3>1. CASE x = row
      BY <1>1, <1>6, <3>1
    <3>2. CASE x \in Mine(ms)
      BY <1>6, <2>3, <3>2
    <3> QED BY <3>1, <3>2
  <2>9. Failed(R) \subseteq Failed(T)
    BY <1>1 DEF Failed
  <2> HIDE DEF R, top
  <2> QED BY <2>1, <2>2, <2>4, <2>5, <2>6, <2>7, <2>8, <2>9, Zenon DEF Goes
<1>8. Stands(t, T, top) /\ Holds(t, T, {"Sending", "Queued"})
  <2> HIDE DEF top
  <2>1. s \in Seq(Nat) /\ u \in Seq(Nat) /\ t = s \o u /\ top \in Nat
    BY <1>2
  <2>2. R \in SUBSET Row /\ T \in SUBSET Row /\ Stands(s, R, top)
    BY <1>4, <1>5
  <2> HIDE DEF R
  <2>3. Goes(s, u, R, T, top)
    BY <1>7
  <2> QED BY ONLY <2>1, <2>2, <2>3, SentStands
<1> QED BY <1>8

-----------------------------------------------------------------------------
\* What is written and read changes the streams.

LEMMA IdsType ==
  ASSUME NEW w \in Seq(Packets)
  PROVE  /\ Ids(w) \in Seq(Nat) /\ Len(Ids(w)) = Len(w) /\ DOMAIN Ids(w) = DOMAIN w
         /\ \A n \in DOMAIN w :
              Ids(w)[n] = IF w[n].kind = "message" THEN w[n].id ELSE 0
<1>1. Len(w) \in Nat /\ DOMAIN w = 1..Len(w) /\ \A n \in DOMAIN w : w[n] \in Packets
  BY Shape
<1>2. ASSUME NEW n \in DOMAIN w PROVE (IF w[n].kind = "message" THEN w[n].id ELSE 0) \in Nat
  <2>1. w[n].kind = "message" => w[n].id \in 1..MaxSent
    BY <1>1, Named
  <2> QED BY <2>1, BoundsAssumption
<1>3. Ids(w) \in [1..Len(w) -> Nat]
  BY <1>1, <1>2 DEF Ids
<1>4. Ids(w) \in Seq(Nat)
  BY <1>1, <1>3
<1> QED BY <1>1, <1>3, <1>4, Shape DEF Ids

IsStream(s, sh, w) ==
  /\ s \in Seq(Nat) /\ Len(s) = Len(sh) + Len(w)
  /\ \A n \in DOMAIN sh : n \in DOMAIN s /\ s[n] = sh[n]
  /\ \A n \in DOMAIN w :
       /\ Len(sh) + n \in DOMAIN s
       /\ s[Len(sh) + n] = IF w[n].kind = "message" THEN w[n].id ELSE 0

LEMMA StreamType ==
  ASSUME NEW sh \in Seq(1..MaxSent), NEW w \in Seq(Packets), NEW s, s = sh \o Ids(w)
  PROVE  sh \in Seq(Nat) /\ IsStream(s, sh, w)
<1>1. sh \in Seq(Nat)
  <2>1. /\ Len(sh) \in Nat /\ DOMAIN sh = 1..Len(sh) /\ \A n \in DOMAIN sh : sh[n] \in Nat
    BY Shape, BoundsAssumption
  <2>2. sh \in [1..Len(sh) -> Nat]
    BY <2>1, LenProperties
  <2> QED BY <2>1, <2>2, SMTT(40)
<1>2. Ids(w) \in Seq(Nat) /\ Len(Ids(w)) = Len(w) /\ DOMAIN Ids(w) = DOMAIN w
  BY IdsType
<1> DEFINE u == Ids(w)
<1> HIDE DEF u
<1>3. u \in Seq(Nat) /\ s = sh \o u
  BY <1>2 DEF u
<1>4. /\ s \in Seq(Nat) /\ Len(s) = Len(sh) + Len(u)
      /\ \A n \in 1..Len(s) : s[n] = IF n <= Len(sh) THEN sh[n] ELSE u[n - Len(sh)]
      /\ \A n \in DOMAIN sh : n \in DOMAIN s /\ s[n] = sh[n]
      /\ \A n \in DOMAIN u : Len(sh) + n \in DOMAIN s /\ s[Len(sh) + n] = u[n]
  BY <1>1, <1>3, Joined
<1> QED BY <1>1, <1>2, <1>4, IdsType DEF u, IsStream


\* What was read leaves the wire; unless it was a message, or one shown before,
\* it is shown.
LEMMA StreamRead ==
  ASSUME NEW sh \in Seq(1..MaxSent), NEW w \in Seq(Packets), w # << >>, NEW v, v = Tail(w),
         Head(w).kind = "message" => Occurs(sh, Head(w).id),
         NEW s, s = sh \o Ids(w), NEW t, t = sh \o Ids(v)
  PROVE  s \in Seq(Nat) /\ t \in Seq(Nat) /\ LeftOut(s, Len(sh) + 1, t)
<1>1. /\ v \in Seq(Packets) /\ Len(v) = Len(w) - 1 /\ Len(w) \in Nat /\ Len(sh) \in Nat
      /\ \A n \in DOMAIN v : n + 1 \in DOMAIN w /\ v[n] = w[n + 1]
      /\ DOMAIN v = 1..Len(v) /\ DOMAIN w = 1..Len(w) /\ DOMAIN sh = 1..Len(sh)
      /\ 1 \in DOMAIN w /\ Head(w) = w[1]
  BY Dropped, Shape
<1>2. /\ s \in Seq(Nat) /\ Len(s) = Len(sh) + Len(w)
      /\ \A n \in DOMAIN sh : n \in DOMAIN s /\ s[n] = sh[n]
      /\ \A n \in DOMAIN w :
           s[Len(sh) + n] = IF w[n].kind = "message" THEN w[n].id ELSE 0
  <2>1. IsStream(s, sh, w)
    BY StreamType
  <2> QED BY <2>1 DEF IsStream
<1>3. /\ t \in Seq(Nat) /\ Len(t) = Len(sh) + Len(v)
      /\ \A n \in DOMAIN sh : t[n] = sh[n]
      /\ \A n \in DOMAIN v :
           t[Len(sh) + n] = IF v[n].kind = "message" THEN v[n].id ELSE 0
  <2>1. IsStream(t, sh, v)
    BY <1>1, StreamType
  <2> QED BY <2>1 DEF IsStream
<1> DEFINE k == Len(sh) + 1
<1>4. k \in 1..Len(s) /\ Len(s) = Len(t) + 1 /\ k \in Nat
  BY <1>1, <1>2, <1>3
<1>5. ASSUME NEW n \in 1..Len(t) PROVE t[n] = IF n < k THEN s[n] ELSE s[n + 1]
  <2>1. CASE n < k
    <3>1. n \in DOMAIN sh
      BY <1>1, <2>1
    <3> QED BY <1>2, <1>3, <2>1, <3>1
  <2>2. CASE ~(n < k)
    <3> DEFINE m == n - Len(sh)
    <3>1. m \in DOMAIN v /\ Len(sh) + m = n /\ Len(sh) + (m + 1) = n + 1
      BY <1>1, <1>3, <2>2
    <3> HIDE DEF m
    <3>2. m + 1 \in DOMAIN w /\ v[m] = w[m + 1]
      BY <1>1, <3>1
    <3>3. t[Len(sh) + m] = IF v[m].kind = "message" THEN v[m].id ELSE 0
      BY <1>3, <3>1
    <3>4. s[Len(sh) + (m + 1)] = IF w[m + 1].kind = "message" THEN w[m + 1].id ELSE 0
      BY <1>2, <3>2
    <3> QED BY <2>2, <3>1, <3>2, <3>3, <3>4
  <2> QED BY <2>1, <2>2
<1>6. s[k] = 0 \/ \E j \in 1..(k - 1) : s[j] = s[k]
  <2>1. s[k] = IF w[1].kind = "message" THEN w[1].id ELSE 0
    BY <1>1, <1>2
  <2>2. CASE w[1].kind = "message"
    <3>1. PICK j \in DOMAIN sh : sh[j] = w[1].id
      BY <1>1, <2>2 DEF Occurs
    <3>2. j \in 1..(k - 1)
      BY <1>1
    <3> QED BY <1>2, <2>1, <2>2, <3>1, <3>2
  <2> QED BY <2>1, <2>2
<1> QED BY <1>2, <1>3, <1>4, <1>5, <1>6 DEF LeftOut

LEMMA Grouped ==
  \A d, e, f \in Seq(Nat) : (d \o e) \o f = d \o (e \o f)
BY ConcatAssociative, SMTT(40)

LEMMA SameNumbers ==
  \A s, t \in Seq(Nat) : Len(s) = Len(t) /\ (\A n \in 1..Len(s) : t[n] = s[n]) => s = t
BY SeqEqual

Shows(sh, w, sx, v) ==
  w # << >> /\ Head(w).kind = "message" /\ sx = Append(sh, Head(w).id) /\ v = Tail(w)

LEMMA StreamShown ==
  ASSUME NEW sh \in Seq(1..MaxSent), NEW w \in Seq(Packets), NEW sx, NEW v, Shows(sh, w, sx, v),
         NEW s, Joins(s, sh, Ids(w)), NEW t, Joins(t, sx, Ids(v))
  PROVE  /\ sx \in Seq(1..MaxSent) /\ s = t
         /\ Occurs(sx, Head(w).id) /\ \A m : Occurs(sh, m) => Occurs(sx, m)
<1>0. w # << >> /\ Head(w).kind = "message" /\ sx = Append(sh, Head(w).id) /\ v = Tail(w)
  BY DEF Shows
<1>1. /\ v \in Seq(Packets) /\ Len(v) = Len(w) - 1 /\ Len(w) \in Nat /\ Len(sh) \in Nat
      /\ \A n \in DOMAIN v : n + 1 \in DOMAIN w /\ v[n] = w[n + 1]
      /\ DOMAIN v = 1..Len(v) /\ DOMAIN w = 1..Len(w) /\ DOMAIN sh = 1..Len(sh)
      /\ 1 \in DOMAIN w /\ Head(w) = w[1] /\ Head(w) \in Packets
  BY <1>0, Dropped, Shape
<1>2. Head(w).id \in 1..MaxSent
  BY <1>0, <1>1, Named
<1>3. /\ sx \in Seq(1..MaxSent) /\ Len(sx) = Len(sh) + 1 /\ DOMAIN sx = 1..Len(sx)
      /\ \A n \in DOMAIN sh : n \in DOMAIN sx /\ sx[n] = sh[n]
      /\ sx[Len(sh) + 1] = w[1].id
  BY <1>0, <1>1, <1>2, Added
<1>4. /\ s \in Seq(Nat) /\ Len(s) = Len(sh) + Len(w)
      /\ \A n \in DOMAIN sh : n \in DOMAIN s /\ s[n] = sh[n]
      /\ \A n \in DOMAIN w :
           s[Len(sh) + n] = IF w[n].kind = "message" THEN w[n].id ELSE 0
  <2>1. IsStream(s, sh, w)
    BY StreamType DEF Joins
  <2> QED BY <2>1 DEF IsStream
<1>5. /\ t \in Seq(Nat) /\ Len(t) = Len(sx) + Len(v)
      /\ \A n \in DOMAIN sx : t[n] = sx[n]
      /\ \A n \in DOMAIN v :
           t[Len(sx) + n] = IF v[n].kind = "message" THEN v[n].id ELSE 0
  <2>1. IsStream(t, sx, v)
    BY <1>1, <1>3, StreamType DEF Joins
  <2> QED BY <2>1 DEF IsStream
<1>6. Len(s) = Len(t)
  BY <1>1, <1>3, <1>4, <1>5
<1>7. ASSUME NEW n \in 1..Len(s) PROVE t[n] = s[n]
  <2>1. CASE n < Len(sh) + 1
    <3>1. n \in DOMAIN sh
      BY <1>1, <2>1
    <3> QED BY <1>3, <1>4, <1>5, <3>1
  <2>2. CASE n = Len(sh) + 1
    <3>1. s[Len(sh) + 1] = w[1].id
      BY <1>0, <1>1, <1>4
    <3>2. Len(sh) + 1 \in DOMAIN sx
      BY <1>1, <1>3
    <3>3. t[Len(sh) + 1] = w[1].id
      BY <1>3, <1>5, <3>2
    <3> QED BY <2>2, <3>1, <3>3
  <2>3. CASE n > Len(sh) + 1
    <3> DEFINE m == n - Len(sx)
    <3>1. m \in DOMAIN v /\ Len(sx) + m = n /\ Len(sh) + (m + 1) = n
      <4>1. /\ Len(sh) \in Int /\ Len(w) \in Int /\ n \in Int /\ n <= Len(sh) + Len(w)
            /\ m = n - (Len(sh) + 1) /\ DOMAIN v = 1..(Len(w) - 1) /\ Len(sx) = Len(sh) + 1
        BY <1>1, <1>3, <1>4
      <4>2. \A a, b, k \in Int : k > a + 1 /\ k <= a + b =>
              /\ k - (a + 1) \in 1..(b - 1) /\ (a + 1) + (k - (a + 1)) = k
              /\ a + ((k - (a + 1)) + 1) = k
        OBVIOUS
      <4> HIDE DEF m
      <4> QED BY <2>3, <4>1, <4>2
    <3> HIDE DEF m
    <3>2. m + 1 \in DOMAIN w /\ v[m] = w[m + 1]
      BY <1>1, <3>1
    <3>3. t[Len(sx) + m] = IF v[m].kind = "message" THEN v[m].id ELSE 0
      BY <1>5, <3>1
    <3>4. s[Len(sh) + (m + 1)] = IF w[m + 1].kind = "message" THEN w[m + 1].id ELSE 0
      BY <1>4, <3>2
    <3> QED BY <3>1, <3>2, <3>3, <3>4
  <2> QED BY <1>1, <1>4, <2>1, <2>2, <2>3
<1>8. s = t
  BY <1>4, <1>5, <1>6, <1>7, SameNumbers
<1>9. Occurs(sx, Head(w).id)
  BY <1>1, <1>3 DEF Occurs
<1>10. \A m : Occurs(sh, m) => Occurs(sx, m)
  BY <1>3 DEF Occurs
<1> QED BY <1>3, <1>8, <1>9, <1>10

LEMMA StreamWritten ==
  ASSUME NEW sh \in Seq(1..MaxSent), NEW w \in Seq(Packets), NEW v \in Seq(Packets),
         NEW x, Joins(x, w, v), NEW s, Joins(s, sh, Ids(w)), NEW t, Joins(t, sh, Ids(x))
  PROVE  x \in Seq(Packets) /\ s \in Seq(Nat) /\ Ids(v) \in Seq(Nat) /\ Joins(t, s, Ids(v))
<1>1. /\ x \in Seq(Packets) /\ Len(x) = Len(w) + Len(v) /\ DOMAIN x = 1..Len(x)
      /\ \A n \in 1..Len(x) : x[n] = IF n <= Len(w) THEN w[n] ELSE v[n - Len(w)]
      /\ Len(w) \in Nat /\ Len(v) \in Nat /\ DOMAIN w = 1..Len(w) /\ DOMAIN v = 1..Len(v)
  BY Joined, Shape DEF Joins
<1>2. sh \in Seq(Nat) /\ s \in Seq(Nat)
  BY StreamType DEF Joins, IsStream
<1>3. /\ Ids(w) \in Seq(Nat) /\ Len(Ids(w)) = Len(w)
      /\ \A n \in DOMAIN w : Ids(w)[n] = IF w[n].kind = "message" THEN w[n].id ELSE 0
  BY IdsType
<1>4. /\ Ids(v) \in Seq(Nat) /\ Len(Ids(v)) = Len(v)
      /\ \A n \in DOMAIN v : Ids(v)[n] = IF v[n].kind = "message" THEN v[n].id ELSE 0
  BY IdsType
<1>5. /\ Ids(x) \in Seq(Nat) /\ Len(Ids(x)) = Len(x)
      /\ \A n \in DOMAIN x : Ids(x)[n] = IF x[n].kind = "message" THEN x[n].id ELSE 0
  BY <1>1, IdsType
<1> DEFINE a == Ids(w)
           b == Ids(v)
           c == Ids(x)
           ab == a \o b
<1> HIDE DEF a, b, c, ab
<1>6. /\ ab \in Seq(Nat) /\ Len(ab) = Len(a) + Len(b)
      /\ \A n \in 1..Len(ab) : ab[n] = IF n <= Len(a) THEN a[n] ELSE b[n - Len(a)]
  <2>1. a \in Seq(Nat) /\ b \in Seq(Nat) /\ ab = a \o b
    BY <1>3, <1>4 DEF a, b, ab
  <2> QED BY <2>1, Joined
<1>7. ASSUME NEW n \in 1..Len(c) PROVE c[n] = ab[n]
  <2>1. n \in DOMAIN x /\ n \in 1..Len(ab) /\ n \in Nat
    BY <1>1, <1>3, <1>4, <1>5, <1>6 DEF a, b, c
  <2>2. CASE n <= Len(w)
    <3>1. n \in DOMAIN w
      BY <1>1, <2>1, <2>2
    <3> QED BY <1>1, <1>3, <1>5, <1>6, <2>1, <2>2, <3>1 DEF a, c
  <2>3. CASE ~(n <= Len(w))
    <3> DEFINE m == n - Len(w)
    <3>1. m \in DOMAIN v
      BY <1>1, <2>1, <2>3
    <3>2. x[n] = v[m] /\ ab[n] = b[m]
      BY <1>1, <1>3, <1>6, <2>1, <2>3 DEF a
    <3> HIDE DEF m
    <3> QED BY <1>4, <1>5, <2>1, <3>1, <3>2 DEF b, c
  <2> QED BY <2>2, <2>3
<1>8. c = ab
  <2>1. c \in Seq(Nat) /\ Len(c) = Len(ab)
    BY <1>1, <1>3, <1>4, <1>5, <1>6 DEF a, b, c
  <2> QED BY <1>6, <1>7, <2>1, SameNumbers
<1>9. sh \o (a \o b) = (sh \o a) \o b
  <2>1. a \in Seq(Nat) /\ b \in Seq(Nat) /\ sh \in Seq(Nat)
    BY <1>2, <1>3, <1>4 DEF a, b
  <2> QED BY <2>1, Grouped, Zenon
<1>10. t = sh \o c /\ s = sh \o a /\ ab = a \o b
  BY DEF Joins, a, c, ab
<1>11. t = s \o b
  BY <1>8, <1>9, <1>10, Zenon
<1> QED BY <1>1, <1>2, <1>4, <1>11 DEF Joins, b


-----------------------------------------------------------------------------
\* What becomes of the flow of messages from one user to the other.

LEMMA FlowParts ==
  ASSUME NEW sh \in Seq(1..MaxSent), NEW w \in Seq(Packets), NEW s, s = sh \o Ids(w)
  PROVE  /\ s \in Seq(Nat) /\ sh \in Seq(Nat) /\ \A m : Occurs(sh, m) => Occurs(s, m)
         /\ Len(sh) <= Len(s) /\ \A n \in DOMAIN sh : sh[n] = s[n]
<1>1. sh \in Seq(Nat) /\ IsStream(s, sh, w)
  BY StreamType
<1>2. s \in Seq(Nat) /\ \A n \in DOMAIN sh : n \in DOMAIN s /\ s[n] = sh[n]
  BY <1>1 DEF IsStream
<1>3. Len(sh) <= Len(s)
  BY <1>1, Shape DEF IsStream
<1> QED BY <1>1, <1>2, <1>3 DEF Occurs

LEMMA FlowRead ==
  ASSUME NEW ms \in Seq(Row), NEW max \in Nat, NEW sh \in Seq(1..MaxSent), NEW w \in Seq(Packets),
         NEW statuses, Flow(ms, max, sh, w, statuses), w # << >>, NEW v, v = Tail(w),
         Head(w).kind = "message" => Occurs(sh, Head(w).id)
  PROVE  Flow(ms, max, sh, v, statuses)
<1> DEFINE s == sh \o Ids(w)
           t == sh \o Ids(v)
<1>1. Stands(s, Mine(ms), max) /\ Holds(s, Mine(ms), statuses)
  BY DEF Flow
<1>2. s \in Seq(Nat) /\ t \in Seq(Nat) /\ LeftOut(s, Len(sh) + 1, t)
  BY StreamRead
<1>3. Mine(ms) \in SUBSET Row
  BY MineRows
<1> HIDE DEF s, t
<1>4. Stands(t, Mine(ms), max) /\ Holds(t, Mine(ms), statuses)
  BY <1>1, <1>2, <1>3, Skipped
<1> QED BY <1>4 DEF Flow, t

LEMMA FlowShown ==
  ASSUME NEW ms, NEW max, NEW sh \in Seq(1..MaxSent), NEW w \in Seq(Packets), NEW statuses,
         Flow(ms, max, sh, w, statuses), NEW sx, NEW v, Shows(sh, w, sx, v)
  PROVE  Flow(ms, max, sx, v, statuses)
<1> DEFINE s == sh \o Ids(w)
           t == sx \o Ids(v)
<1>0. Joins(s, sh, Ids(w)) /\ Joins(t, sx, Ids(v))
  BY DEF Joins
<1> HIDE DEF s, t
<1>1. s = t
  BY <1>0, StreamShown
<1> QED BY <1>1 DEF Flow, s, t

\* Packets that are no messages, or those that are lost, change nothing.
LEMMA FlowWritten ==
  ASSUME NEW ms \in Seq(Row), NEW max \in Nat, NEW sh \in Seq(1..MaxSent), NEW w \in Seq(Packets),
         NEW statuses, Flow(ms, max, sh, w, statuses), NEW v \in Seq(Packets),
         \A n \in DOMAIN v : v[n].kind # "message", NEW x, x = w \o v
  PROVE  Flow(ms, max, sh, x, statuses)
<1> DEFINE s == sh \o Ids(w)
           u == Ids(v)
           t == sh \o Ids(x)
<1>1. Stands(s, Mine(ms), max) /\ Holds(s, Mine(ms), statuses)
  BY DEF Flow
<1>3. \A n \in DOMAIN u : u[n] = 0
  BY IdsType
<1>0. Joins(x, w, v) /\ Joins(s, sh, Ids(w)) /\ Joins(t, sh, Ids(x))
  BY DEF Joins
<1> HIDE DEF s, t, u
<1>2. s \in Seq(Nat) /\ u \in Seq(Nat) /\ t = s \o u
  <2>1. s \in Seq(Nat) /\ Ids(v) \in Seq(Nat) /\ Joins(t, s, Ids(v))
    BY <1>0, StreamWritten
  <2> QED BY <2>1 DEF Joins, u
<1>4. Mine(ms) \in SUBSET Row
  BY MineRows
<1>5. Stands(t, Mine(ms), max) /\ Holds(t, Mine(ms), statuses)
  BY <1>1, <1>2, <1>3, <1>4, Padded
<1> QED BY <1>5 DEF Flow, t

LEMMA FlowCut ==
  ASSUME NEW ms \in Seq(Row), NEW max \in Nat, NEW sh \in Seq(1..MaxSent), NEW w \in Seq(Packets),
         Stands(sh \o Ids(w), Mine(ms), max), NEW v, v = << >>
  PROVE  sh \o Ids(v) = sh /\ Stands(sh, Mine(ms), max) /\ Flow(ms, max, sh, v, {})
<1> DEFINE s == sh \o Ids(w)
<1>1. /\ s \in Seq(Nat) /\ sh \in Seq(Nat)
      /\ Len(sh) <= Len(s) /\ \A n \in DOMAIN sh : sh[n] = s[n]
  BY FlowParts
<1>2. Stands(s, Mine(ms), max) /\ Mine(ms) \in SUBSET Row
  BY MineRows
<1> HIDE DEF s
<1>3. Stands(sh, Mine(ms), max)
  BY <1>1, <1>2, CutOff
<1>4. sh \o Ids(v) = sh
  <2>1. v \in Seq(Packets) /\ Len(v) = 0
    OBVIOUS
  <2>2. Ids(v) \in Seq(Nat) /\ Len(Ids(v)) = 0
    BY <2>1, IdsType
  <2>3. Ids(v) = << >>
    BY <2>2, Shape
  <2>4. sh \o << >> = sh
    BY <1>1, ConcatEmptySeq
  <2> QED BY <2>3, <2>4
<1>5. Holds(sh, Mine(ms), {})
  BY DEF Holds
<1> QED BY <1>3, <1>4, <1>5 DEF Flow

LEMMA FlowLess ==
  ASSUME NEW ms, NEW max, NEW sh, NEW w, NEW statuses, Flow(ms, max, sh, w, statuses),
         NEW fewer, fewer \subseteq statuses \/ \A r \in Mine(ms) : r.status \notin fewer
  PROVE  Flow(ms, max, sh, w, fewer)
BY DEF Flow, Holds


LEMMA FlowRequeued ==
  ASSUME NEW ms \in Seq(Row), NEW max \in Nat, Numbered(ms, max), NEW sh, NEW w, NEW statuses,
         Flow(ms, max, sh, w, statuses), NEW t, t = Requeued(ms),
         NEW others, others \subseteq {"Sending"} \/
                     (others = {"Sending", "Queued"} /\ statuses = {"Sending", "Queued"})
  PROVE  Numbered(t, max) /\ Flow(t, max, sh, w, others)
<1> DEFINE s == sh \o Ids(w)
<1>1. Stands(s, Mine(ms), max) /\ Holds(s, Mine(ms), statuses)
  BY DEF Flow
<1> HIDE DEF s
<1>2. /\ Numbered(t, max) /\ Stands(s, Mine(t), max)
      /\ \A x \in Mine(t) : x.status # "Sending"
      /\ \A x \in Mine(t) : x.status = "Queued" =>
           \E r \in Mine(ms) : r.id = x.id /\ r.status \in {"Queued", "Sending"}
  BY <1>1, RequeuedStands
<1>3. Holds(s, Mine(t), others)
  <2>1. CASE others \subseteq {"Sending"}
    BY <1>2, <2>1 DEF Holds
  <2>2. CASE others = {"Sending", "Queued"} /\ statuses = {"Sending", "Queued"}
    BY <1>1, <1>2, <2>2 DEF Holds
  <2> QED BY <2>1, <2>2
<1> QED BY <1>2, <1>3 DEF Flow, s

LEMMA FlowAcknowledged ==
  ASSUME NEW ms \in Seq(Row), NEW max \in Nat, Numbered(ms, max),
         NEW sh \in Seq(1..MaxSent), NEW w \in Seq(Packets),
         NEW statuses, statuses \subseteq {"Sending", "Queued"}, Flow(ms, max, sh, w, statuses),
         NEW id, Occurs(sh, id), NEW t, t = Acknowledged(ms, id)
  PROVE  Numbered(t, max) /\ Flow(t, max, sh, w, statuses)
<1> DEFINE s == sh \o Ids(w)
<1>1. Stands(s, Mine(ms), max) /\ Holds(s, Mine(ms), statuses)
  BY DEF Flow
<1>2. Occurs(s, id)
  BY FlowParts
<1> HIDE DEF s
<1>3. /\ Numbered(t, max) /\ Stands(s, Mine(t), max)
      /\ \A x \in Mine(t) : x.status \in {"Sending", "Queued"} => x \in Mine(ms)
  BY <1>1, <1>2, AcknowledgedStands
<1>4. Holds(s, Mine(t), statuses)
  BY <1>1, <1>3 DEF Holds
<1> QED BY <1>3, <1>4 DEF Flow, s

\* The queue is sent.
LEMMA FlowQueue ==
  ASSUME NEW ms \in Seq(Row), NEW max \in Nat, Numbered(ms, max),
         NEW sh \in Seq(1..MaxSent), NEW w \in Seq(Packets),
         \A n \in DOMAIN ms : ms[n].status = "Queued" => ms[n].attempts < 2,
         NEW statuses, "Sending" \in statuses, Flow(ms, max, sh, w, statuses),
         \A r \in Mine(ms) : r.status = "Delivered" => Occurs(sh, r.id),
         NEW order \in OldestFirst(Queued(ms)), NEW v \in Seq(Packets),
         v = [n \in DOMAIN order |-> [kind |-> "message", id |-> ms[order[n]].id]],
         NEW x, x = w \o v, NEW t, t = Sent(ms)
  PROVE  Flow(t, max, sh, x, {"Sending", "Queued"})
<1> DEFINE s == sh \o Ids(w)
           u == Ids(v)
           st == sh \o Ids(x)
<1>1. Stands(s, Mine(ms), max) /\ Holds(s, Mine(ms), statuses)
  BY DEF Flow
<1>2. \A m : Occurs(sh, m) => Occurs(s, m)
  BY FlowParts
<1>4. u = [n \in DOMAIN order |-> ms[order[n]].id]
  BY DEF Ids
<1>0. Joins(x, w, v) /\ Joins(s, sh, Ids(w)) /\ Joins(st, sh, Ids(x))
  BY DEF Joins
<1> HIDE DEF s, u, st
<1>3. s \in Seq(Nat) /\ st = s \o u
  <2>1. s \in Seq(Nat) /\ Joins(st, s, Ids(v))
    BY <1>0, StreamWritten
  <2> QED BY <2>1 DEF Joins, u
<1>5. \A r \in Mine(ms) : r.status \in {"Sending", "Delivered"} => Occurs(s, r.id)
  BY <1>1, <1>2 DEF Holds
<1>6. u \in Seq(Nat) /\ Goes(s, u, Mine(ms), Mine(t), max)
  BY <1>1, <1>4, <1>5, QueueGoes
<1>7. Mine(ms) \in SUBSET Row /\ Mine(t) \in SUBSET Row
  BY SentAlike, MineRows
<1>8. Stands(st, Mine(t), max) /\ Holds(st, Mine(t), {"Sending", "Queued"})
  BY <1>1, <1>3, <1>6, <1>7, SentStands
<1> QED BY <1>8 DEF Flow, st

\* Or it is lost: the other end has failed already.
LEMMA FlowLost ==
  ASSUME NEW ms \in Seq(Row), NEW max \in Nat, Numbered(ms, max),
         NEW sh \in Seq(1..MaxSent), NEW w \in Seq(Packets),
         \A n \in DOMAIN ms : ms[n].status = "Queued" => ms[n].attempts < 2,
         Stands(sh \o Ids(w), Mine(ms), max), NEW t, t = Sent(ms), NEW v, v = << >>
  PROVE  Flow(t, max, sh, v, {})
<1>1. Stands(sh, Mine(ms), max)
  BY FlowCut
<1>2. /\ t \in Seq(Row) /\ Alike(ms, t) /\ Own(t) = Own(ms) /\ Own(ms) \subseteq DOMAIN ms
      /\ \A n \in DOMAIN ms :
           IF ms[n].status = "Queued"
           THEN t[n].status = "Sending" /\ t[n].attempts = ms[n].attempts + 1
           ELSE t[n] = ms[n]
  BY SentAlike, AlikeNumbered, MineRows
<1>3. ASSUME NEW x \in Mine(t)
      PROVE  /\ x.attempts = 0 => ~Occurs(sh, x.id)
             /\ x.attempts = 1 => Once(sh, x.id)
             /\ x.attempts = 2 => Twice(sh, x.id)
  <2>1. PICK n \in Own(t) : x = t[n]
    BY DEF Mine
  <2>2. /\ ms[n] \in Mine(ms) /\ x.id = ms[n].id
        /\ x.attempts = ms[n].attempts \/ x.attempts = ms[n].attempts + 1
        /\ ms[n].attempts \in 0..2
    BY <1>2, <2>1, MineRows DEF Mine, Alike
  <2>3. /\ ms[n].attempts = 0 => ~Occurs(sh, x.id)
        /\ ms[n].attempts = 1 => Once(sh, x.id)
        /\ ms[n].attempts = 2 => Twice(sh, x.id)
    BY <1>1, <2>2 DEF Stands
  <2>4. ~Occurs(sh, x.id) => Once(sh, x.id)
    BY DEF Occurs, Once
  <2>5. Once(sh, x.id) => Twice(sh, x.id)
    BY DEF Once, Twice
  <2> QED BY <2>2, <2>3, <2>4, <2>5
<1>4. Failed(Mine(ms)) \subseteq Failed(Mine(t))
  <2> SUFFICES ASSUME NEW n \in Own(ms), ms[n].status = "Error" PROVE ms[n].id \in Failed(Mine(t))
    BY DEF Failed, Mine
  <2>1. t[n] = ms[n]
    BY <1>2
  <2> QED BY <1>2, <2>1 DEF Failed, Mine
<1>5. Ordered(sh, Failed(Mine(t)))
  BY <1>1, <1>4 DEF Stands, Ordered
<1>6. \A k \in DOMAIN sh : sh[k] \in 0..max
  BY <1>1 DEF Stands
<1>7. Stands(sh, Mine(t), max)
  BY <1>3, <1>5, <1>6 DEF Stands
<1>8. v \in Seq(Packets) /\ sh \o Ids(v) = sh
  BY FlowCut
<1>9. Holds(sh, Mine(t), {})
  BY DEF Holds
<1> QED BY <1>7, <1>8, <1>9 DEF Flow

\* A message is sent later, or is lost, or goes at once.
LEMMA FlowNew ==
  ASSUME NEW ms, NEW max \in Nat, NEW sh \in Seq(1..MaxSent), NEW w \in Seq(Packets),
         NEW statuses, Flow(ms, max, sh, w, statuses), NEW row, row.id = max + 1,
         NEW t, Mine(t) = Mine(ms) \cup {row},
         NEW fewer, fewer \subseteq statuses, row.status \notin fewer
  PROVE  Flow(t, max + 1, sh, w, fewer)
<1> DEFINE s == sh \o Ids(w)
<1>1. Stands(s, Mine(ms), max) /\ Holds(s, Mine(ms), statuses)
  BY DEF Flow
<1>2. s \in Seq(Nat)
  BY FlowParts
<1> HIDE DEF s
<1>3. Stands(s, Mine(t), max + 1)
  BY <1>1, <1>2, NewStands
<1>4. Holds(s, Mine(t), fewer)
  BY <1>1 DEF Holds
<1> QED BY <1>3, <1>4 DEF Flow, s

LEMMA FlowAtOnce ==
  ASSUME NEW ms \in Seq(Row), NEW max \in Nat, Numbered(ms, max),
         NEW sh \in Seq(1..MaxSent), NEW w \in Seq(Packets),
         Flow(ms, max, sh, w, {"Sending", "Queued"}),
         \A r \in Mine(ms) : r.status = "Delivered" => Occurs(sh, r.id),
         NEW row \in Row, row.id = max + 1, row.status = "Sending", row.attempts = 1,
         NEW t, Mine(t) = Mine(ms) \cup {row},
         NEW v \in Seq(Packets), v = << [kind |-> "message", id |-> max + 1] >>, NEW x, x = w \o v
  PROVE  Flow(t, max + 1, sh, x, {"Sending", "Queued"})
<1> DEFINE s == sh \o Ids(w)
           u == Ids(v)
           st == sh \o Ids(x)
<1>1. Stands(s, Mine(ms), max) /\ Holds(s, Mine(ms), {"Sending", "Queued"})
  BY DEF Flow
<1>2. \A m : Occurs(sh, m) => Occurs(s, m)
  BY FlowParts
<1>4. u = << max + 1 >>
  <2>1. u \in Seq(Nat) /\ Len(u) = 1 /\ u[1] = max + 1
    <3>1. Len(v) = 1 /\ 1 \in DOMAIN v /\ v[1].kind = "message" /\ v[1].id = max + 1
      OBVIOUS
    <3>2. Ids(v)[1] = v[1].id
      BY <3>1 DEF Ids
    <3>3. Ids(v) \in Seq(Nat) /\ Len(Ids(v)) = Len(v)
      BY IdsType
    <3> QED BY <3>1, <3>2, <3>3
  <2>2. << max + 1 >> \in Seq(Nat) /\ Len(<< max + 1 >>) = 1 /\ << max + 1 >>[1] = max + 1
    OBVIOUS
  <2> HIDE DEF u
  <2> QED BY ONLY <2>1, <2>2, SameNumbers
<1>0. Joins(x, w, v) /\ Joins(s, sh, Ids(w)) /\ Joins(st, sh, Ids(x))
  BY DEF Joins
<1> HIDE DEF s, u, st
<1>a. sh \in Seq(1..MaxSent) /\ w \in Seq(Packets) /\ v \in Seq(Packets)
  OBVIOUS
<1>3. s \in Seq(Nat) /\ st = s \o u
  <2>1. s \in Seq(Nat) /\ Joins(st, s, Ids(v))
    BY ONLY <1>0, <1>a, StreamWritten
  <2> QED BY <2>1 DEF Joins, u
<1>5. \A r \in Mine(ms) : r.status # "Error" => Occurs(s, r.id)
  BY <1>1, <1>2, MineRows DEF Holds
<1>6. Stands(st, Mine(t), max + 1) /\ Holds(st, Mine(t), {"Sending", "Queued"})
  BY <1>1, <1>3, <1>4, <1>5, NewGoes
<1> QED BY <1>6 DEF Flow, st

\* No more was shown than the messages that were sent, twice each.
LEMMA ShownTwice ==
  ASSUME NEW ms \in Seq(Row), NEW max \in Nat, Numbered(ms, max),
         NEW sh \in Seq(1..MaxSent), NEW w \in Seq(Packets), Stands(sh \o Ids(w), Mine(ms), max)
  PROVE  /\ Len(sh) <= 2 * max /\ \A n \in DOMAIN sh : sh[n] \in 1..max
         /\ \A m \in 1..max : Twice(sh \o Ids(w), m)
<1> DEFINE s == sh \o Ids(w)
<1>1. Stands(s, Mine(ms), max) /\ Stands(sh, Mine(ms), max)
  BY FlowCut
<1> HIDE DEF s
<1>2. \A n \in DOMAIN sh : sh[n] \in 1..MaxSent /\ sh[n] \in 0..max
  BY <1>1, Shape DEF Stands
<1>3. \A n \in DOMAIN sh : sh[n] \in 1..max
  BY <1>2, BoundsAssumption
<1>4. ASSUME NEW c, Stands(c, Mine(ms), max), NEW m \in 1..max PROVE Twice(c, m)
  <2>1. PICK r \in Mine(ms) : r.id = m
    BY DEF Numbered
  <2>2. r.attempts \in 0..2
    BY MineRows
  <2>3. ~Occurs(c, m) => Once(c, m)
    BY DEF Occurs, Once
  <2>4. Once(c, m) => Twice(c, m)
    BY DEF Once, Twice
  <2> QED BY <1>4, <2>1, <2>2, <2>3, <2>4 DEF Stands
<1>5. sh \in Seq(Nat)
  BY FlowParts
<1>6. Len(sh) <= 2 * max
  BY <1>1, <1>3, <1>4, <1>5, AtMostTwice
<1> QED BY <1>1, <1>3, <1>4, <1>6 DEF s


-----------------------------------------------------------------------------
\* The conversation, step by step.

LEMMA WitnessedOn ==
  ASSUME NEW ms, NEW own, NEW other, NEW w, Witnessed(ms, own, other, w),
         NEW t, NEW ownMore, NEW otherMore, NEW v,
         \A r \in Mine(t) : r.status = "Delivered" => r \in Mine(ms) \/ Occurs(otherMore, r.id),
         \A n \in DOMAIN t : t[n].status = "Received" =>
           \/ Occurs(ownMore, t[n].id)
           \/ \E k \in DOMAIN ms : ms[k].status = "Received" /\ ms[k].id = t[n].id,
         \A m : Occurs(own, m) => Occurs(ownMore, m),
         \A m : Occurs(other, m) => Occurs(otherMore, m),
         \A n \in DOMAIN v : v[n].kind = "ack" =>
           Occurs(otherMore, v[n].id) \/ \E k \in DOMAIN w : w[k] = v[n]
  PROVE  Witnessed(t, ownMore, otherMore, v)
<1>1. \A r \in Mine(t) : r.status = "Delivered" => Occurs(otherMore, r.id)
  BY DEF Witnessed
<1>2. \A n \in DOMAIN t : t[n].status = "Received" => Occurs(ownMore, t[n].id)
  BY DEF Witnessed
<1>3. \A n \in DOMAIN v : v[n].kind = "ack" => Occurs(otherMore, v[n].id)
  BY DEF Witnessed
<1> QED BY <1>1, <1>2, <1>3 DEF Witnessed

LEMMA BothKept ==
  ASSUME NEW p \in Peer, OwnRows(p)', Flows(p)', Seen(p)',
         OwnRows(Other(p))', Flows(Other(p))', Seen(Other(p))'
  PROVE  Kept'
BY Peers DEF Kept

\* What p has read, if anything, was no message, or has been shown before.
ReadOn(p) ==
  \/ wire'[p] = wire[p]
  \/ /\ wire[p] # << >> /\ wire'[p] = Tail(wire[p])
     /\ Head(wire[p]).kind = "message" => Occurs(shown[p], Head(wire[p]).id)

\* Packets v come to q.
Comes(q, v) == wire'[q] = IF Live(q) THEN wire[q] \o v ELSE << >>

LEMMA ReadOnPackets ==
  ASSUME TypeOK, NEW p \in Peer, ReadOn(p)
  PROVE  \A n \in DOMAIN wire'[p] : \E k \in DOMAIN wire[p] : wire[p][k] = wire'[p][n]
<1>1. wire[p] \in Seq(Packets)
  BY Facts
<1>2. CASE wire'[p] = wire[p]
  BY <1>2
<1>3. CASE wire[p] # << >> /\ wire'[p] = Tail(wire[p])
  <2>1. \A n \in DOMAIN wire'[p] : n + 1 \in DOMAIN wire[p] /\ wire'[p][n] = wire[p][n + 1]
    BY <1>1, <1>3, Dropped
  <2> QED BY <2>1
<1> QED BY <1>2, <1>3 DEF ReadOn

LEMMA ComesPackets ==
  ASSUME TypeOK, NEW q \in Peer, NEW STATE v, v \in Seq(Packets), Comes(q, v)
  PROVE  /\ wire'[q] \in Seq(Packets)
         /\ \A n \in DOMAIN wire'[q] :
              \/ \E k \in DOMAIN wire[q] : wire[q][k] = wire'[q][n]
              \/ \E k \in DOMAIN v : v[k] = wire'[q][n]
<1>1. wire[q] \in Seq(Packets)
  BY Facts
<1>2. CASE ~Live(q)
  BY <1>2, Single DEF Comes
<1>3. CASE Live(q)
  <2> DEFINE w == wire[q]
             x == wire'[q]
  <2>1. w \in Seq(Packets) /\ x = w \o v
    BY <1>1, <1>3 DEF Comes
  <2> HIDE DEF w, x
  <2>2. /\ x \in Seq(Packets) /\ DOMAIN x = 1..Len(x) /\ Len(x) = Len(w) + Len(v)
        /\ \A n \in 1..Len(x) : x[n] = IF n <= Len(w) THEN w[n] ELSE v[n - Len(w)]
        /\ Len(w) \in Nat /\ Len(v) \in Nat /\ DOMAIN w = 1..Len(w) /\ DOMAIN v = 1..Len(v)
    BY <2>1, Joined, Shape
  <2>3. ASSUME NEW n \in DOMAIN x
        PROVE  (\E k \in DOMAIN w : w[k] = x[n]) \/ (\E k \in DOMAIN v : v[k] = x[n])
    <3>1. CASE n <= Len(w)
      <4>1. n \in DOMAIN w
        BY <2>2, <3>1
      <4> QED BY <2>2, <3>1, <4>1
    <3>2. CASE ~(n <= Len(w))
      <4>1. n - Len(w) \in DOMAIN v
        BY <2>2, <3>2
      <4> QED BY <2>2, <3>2, <4>1
    <3> QED BY <3>1, <3>2
  <2> QED BY <2>2, <2>3 DEF w, x
<1> QED BY <1>2, <1>3

LEMMA ConversationFacts ==
  ASSUME TypeOK, Kept, NEW p \in Peer
  PROVE  /\ messages[p] \in Seq(Row) /\ sent[p] \in Nat /\ shown[p] \in Seq(1..MaxSent)
         /\ wire[p] \in Seq(Packets) /\ Other(p) \in Peer /\ Other(Other(p)) = p /\ Other(p) # p
         /\ OwnRows(p) /\ Flows(p) /\ Seen(p) /\ Numbered(messages[p], sent[p])
         /\ Stands(shown[Other(p)] \o Ids(wire[Other(p)]), Mine(messages[p]), sent[p])
         /\ Awaited(p) \subseteq {"Sending", "Queued"}
BY Peers, BoundsAssumption DEF TypeOK, Kept, OwnRows, Flows, Flow, Awaited

\* Who reads hears the other user no less.
LEMMA ReadFlows ==
  ASSUME TypeOK, Kept, NEW p \in Peer, ReadOn(p), NEW q, q = Other(p),
         messages'[q] = messages[q], sent'[q] = sent[q], shown'[p] = shown[p],
         Awaited(q)' \subseteq Awaited(q)
  PROVE  Flows(q)'
<1>1. /\ messages[q] \in Seq(Row) /\ sent[q] \in Nat /\ shown[p] \in Seq(1..MaxSent)
      /\ wire[p] \in Seq(Packets) /\ Other(q) = p
      /\ Flow(messages[q], sent[q], shown[p], wire[p], Awaited(q))
  BY ConversationFacts DEF Flows
<1> DEFINE ms == messages[q]
           max == sent[q]
           sh == shown[p]
           w == wire[p]
           v == wire'[p]
           statuses == Awaited(q)
           fewer == Awaited(q)'
<1>2. /\ ms \in Seq(Row) /\ max \in Nat /\ sh \in Seq(1..MaxSent) /\ w \in Seq(Packets)
      /\ Flow(ms, max, sh, w, statuses) /\ fewer \subseteq statuses
  BY <1>1
<1>3. \/ v = w
      \/ w # << >> /\ v = Tail(w) /\ (Head(w).kind = "message" => Occurs(sh, Head(w).id))
  BY DEF ReadOn
<1> HIDE DEF ms, max, sh, w, v, statuses, fewer
<1>4. Flow(ms, max, sh, v, statuses)
  BY <1>2, <1>3, FlowRead
<1>5. Flow(ms, max, sh, v, fewer)
  BY <1>2, <1>4, FlowLess
<1> QED BY <1>1, <1>5 DEF Flows, ms, max, sh, v, fewer

\* Who writes no messages sends none.
LEMMA WroteFlows ==
  ASSUME TypeOK, Heeded, Kept, NEW p \in Peer, NEW q, q = Other(p),
         NEW STATE v, v \in Seq(Packets), \A n \in DOMAIN v : v[n].kind # "message", Comes(q, v),
         Mine(messages'[p]) = Mine(messages[p]), sent'[p] = sent[p], shown'[q] = shown[q],
         Awaited(p)' \subseteq Awaited(p)
  PROVE  Flows(p)'
<1>1. /\ messages[p] \in Seq(Row) /\ sent[p] \in Nat /\ q \in Peer
      /\ Flow(messages[p], sent[p], shown[q], wire[q], Awaited(p))
  BY ConversationFacts DEF Flows
<1>2. shown[q] \in Seq(1..MaxSent) /\ wire[q] \in Seq(Packets) /\ Listens(q)
  BY <1>1, ConversationFacts DEF Heeded
<1> DEFINE ms == messages[p]
           max == sent[p]
           sh == shown[q]
           w == wire[q]
           x == wire'[q]
           statuses == Awaited(p)
           fewer == Awaited(p)'
<1>3. /\ ms \in Seq(Row) /\ max \in Nat /\ sh \in Seq(1..MaxSent) /\ w \in Seq(Packets)
      /\ Flow(ms, max, sh, w, statuses) /\ fewer \subseteq statuses
  BY <1>1, <1>2
<1>4. x = w \o v \/ x = w
  BY <1>2 DEF Comes, Listens
<1> HIDE DEF ms, max, sh, w, x, statuses, fewer
<1>5. Flow(ms, max, sh, x, statuses)
  BY <1>3, <1>4, FlowWritten
<1>6. Flow(ms, max, sh, x, fewer)
  BY <1>3, <1>5, FlowLess
<1> QED BY <1>6 DEF Flows, Flow, ms, max, sh, x, fewer


\* What p knows of the other's messages when his rows get other statuses.
LEMMA ReadSeen ==
  ASSUME TypeOK, Kept, NEW p \in Peer, UNCHANGED shown,
         \A n \in DOMAIN wire'[p] :
           wire'[p][n].kind = "ack" => \E k \in DOMAIN wire[p] : wire[p][k] = wire'[p][n],
         Alike(messages[p], messages'[p]),
         \A r \in Mine(messages'[p]) :
           r.status = "Delivered" => r \in Mine(messages[p]) \/ Occurs(shown[Other(p)], r.id)
  PROVE  Seen(p)'
<1>1. Witnessed(messages[p], shown[p], shown[Other(p)], wire[p])
  BY DEF Kept, Seen
<1>3. \A n \in DOMAIN messages'[p] : messages'[p][n].status = "Received" =>
        \E k \in DOMAIN messages[p] :
          messages[p][k].status = "Received" /\ messages[p][k].id = messages'[p][n].id
  BY DEF Alike
<1> DEFINE ms == messages[p]
           t == messages'[p]
           own == shown[p]
           other == shown[Other(p)]
           w == wire[p]
           v == wire'[p]
<1>4. Witnessed(ms, own, other, w)
  BY <1>1
<1>5. \A r \in Mine(t) : r.status = "Delivered" => r \in Mine(ms) \/ Occurs(other, r.id)
  OBVIOUS
<1>6. \A n \in DOMAIN t : t[n].status = "Received" =>
           \/ Occurs(own, t[n].id)
           \/ \E k \in DOMAIN ms : ms[k].status = "Received" /\ ms[k].id = t[n].id
  BY <1>3
<1>7. \A n \in DOMAIN v : v[n].kind = "ack" =>
           Occurs(other, v[n].id) \/ \E k \in DOMAIN w : w[k] = v[n]
  OBVIOUS
<1> HIDE DEF ms, t, own, other, w, v
<1>8. Witnessed(t, own, other, v)
  BY <1>4, <1>5, <1>6, <1>7, WitnessedOn
<1>9. shown' = shown
  OBVIOUS
<1> QED BY <1>8, <1>9 DEF Seen, t, own, other, v

\* What q knows when packets come to him.
LEMMA WroteSeen ==
  ASSUME TypeOK, Kept, NEW q \in Peer, NEW STATE v, v \in Seq(Packets), Comes(q, v),
         messages'[q] = messages[q], shown'[q] = shown[q],
         \A m : Occurs(shown[Other(q)], m) => Occurs(shown'[Other(q)], m),
         \A n \in DOMAIN v : v[n].kind = "ack" => Occurs(shown'[Other(q)], v[n].id)
  PROVE  Seen(q)'
<1>1. Witnessed(messages[q], shown[q], shown[Other(q)], wire[q])
  BY DEF Kept, Seen
<1> DEFINE ms == messages[q]
           own == shown[q]
           other == shown[Other(q)]
           more == shown'[Other(q)]
           w == wire[q]
           x == wire'[q]
<1>2. \A n \in DOMAIN x : (\E k \in DOMAIN w : w[k] = x[n]) \/ (\E k \in DOMAIN v : v[k] = x[n])
  BY ComesPackets
<1>3. Witnessed(ms, own, other, w)
  BY <1>1
<1>4. \A m : Occurs(other, m) => Occurs(more, m)
  OBVIOUS
<1>5. \A n \in DOMAIN v : v[n].kind = "ack" => Occurs(more, v[n].id)
  OBVIOUS
<1> HIDE DEF ms, own, other, more, w, x
<1>6. Witnessed(ms, own, more, x)
  <2>1. \A r \in Mine(ms) : r.status = "Delivered" => r \in Mine(ms) \/ Occurs(more, r.id)
    OBVIOUS
  <2>2. \A n \in DOMAIN ms : ms[n].status = "Received" =>
           \/ Occurs(own, ms[n].id)
           \/ \E k \in DOMAIN ms : ms[k].status = "Received" /\ ms[k].id = ms[n].id
    OBVIOUS
  <2>3. \A m : Occurs(own, m) => Occurs(own, m)
    OBVIOUS
  <2>4. \A n \in DOMAIN x : x[n].kind = "ack" =>
           Occurs(more, x[n].id) \/ \E k \in DOMAIN w : w[k] = x[n]
    BY <1>2, <1>5
  <2> QED BY <1>3, <1>4, <2>1, <2>2, <2>3, <2>4, WitnessedOn
<1> QED BY <1>6 DEF Seen, ms, own, more, x

LEMMA AlikeItself == ASSUME NEW ms PROVE Alike(ms, ms)
BY DEF Alike

\* Nothing that is said about messages.
LEMMA QuietStep ==
  ASSUME TypeOK, Heeded, Kept, NEW p \in Peer, NEW q, q = Other(p),
         messages' = messages, sent' = sent, shown' = shown, ReadOn(p),
         NEW STATE v, v \in Seq(Packets), \A n \in DOMAIN v : v[n].kind \notin {"message", "ack"},
         Comes(q, v), Live(p)' <=> Live(p), Live(q)' <=> Live(q), out'[q] = out[q],
         out'[p] = "open" => out[p] = "open"
  PROVE  Kept'
<1>1. q \in Peer /\ Other(q) = p /\ q # p
  BY Peers
<1>2. OwnRows(p)' /\ OwnRows(q)'
  BY <1>1 DEF Kept, OwnRows
<1>3. Awaited(q)' \subseteq Awaited(q) /\ Awaited(p)' \subseteq Awaited(p)
  BY <1>1 DEF Awaited
<1>4. Flows(q)'
  BY <1>3, ReadFlows
<1>5. Flows(p)'
  BY <1>3, WroteFlows
<1>6. Seen(p)'
  BY AlikeItself, ReadOnPackets, ReadSeen
<1>7. Seen(q)'
  BY <1>1, WroteSeen
<1> QED BY <1>2, <1>4, <1>5, <1>6, <1>7, BothKept


LEMMA SentFlows ==
  ASSUME TypeOK, Heeded, Kept, NEW p \in Peer, NEW q, q = Other(p),
         messages'[p] = Sent(messages[p]), sent'[p] = sent[p], shown'[q] = shown[q],
         NEW order \in OldestFirst(Queued(messages[p])), NEW STATE v, v \in Seq(Packets),
         v = [n \in DOMAIN order |-> [kind |-> "message", id |-> messages[p][order[n]].id]],
         Comes(q, v), Awaited(p)' = IF Live(q) THEN {"Sending", "Queued"} ELSE {}
  PROVE  Flows(p)'
<1>1. /\ messages[p] \in Seq(Row) /\ sent[p] \in Nat /\ q \in Peer /\ Numbered(messages[p], sent[p])
      /\ Flow(messages[p], sent[p], shown[q], wire[q], Awaited(p))
      /\ Witnessed(messages[p], shown[p], shown[q], wire[p])
  BY ConversationFacts DEF Flows, Seen
<1>2. shown[q] \in Seq(1..MaxSent) /\ wire[q] \in Seq(Packets)
  BY <1>1, ConversationFacts
<1>3. \A n \in DOMAIN messages[p] :
        messages[p][n].status = "Queued" => messages[p][n].attempts < 2
  BY DEF Heeded, Waits
<1> DEFINE ms == messages[p]
           t == messages'[p]
           max == sent[p]
           sh == shown[q]
           w == wire[q]
           x == wire'[q]
           statuses == Awaited(p)
           later == Awaited(p)'
<1>4. /\ ms \in Seq(Row) /\ max \in Nat /\ sh \in Seq(1..MaxSent) /\ w \in Seq(Packets)
      /\ Flow(ms, max, sh, w, statuses) /\ Numbered(ms, max) /\ t = Sent(ms)
      /\ \A n \in DOMAIN ms : ms[n].status = "Queued" => ms[n].attempts < 2
      /\ \A r \in Mine(ms) : r.status = "Delivered" => Occurs(sh, r.id)
  BY <1>1, <1>2, <1>3 DEF Witnessed
<1>5. /\ order \in OldestFirst(Queued(ms))
      /\ v = [n \in DOMAIN order |-> [kind |-> "message", id |-> ms[order[n]].id]]
  OBVIOUS
<1>6. /\ Live(q) => x = w \o v /\ "Sending" \in statuses /\ later = {"Sending", "Queued"}
      /\ ~Live(q) => x = << >> /\ later = {}
  BY <1>1 DEF Comes, Awaited
<1> HIDE DEF ms, t, max, sh, w, x, statuses, later
<1>7. CASE Live(q)
  <2>1. Flow(t, max, sh, x, {"Sending", "Queued"})
    BY <1>4, <1>5, <1>6, <1>7, FlowQueue
  <2> QED BY <1>6, <1>7, <2>1 DEF Flows, t, max, sh, x, later
<1>8. CASE ~Live(q)
  <2>1. Stands(sh \o Ids(w), Mine(ms), max)
    BY <1>4 DEF Flow
  <2>2. Flow(t, max, sh, x, {})
    BY <1>4, <1>6, <1>8, <2>1, FlowLost
  <2> QED BY <1>6, <1>8, <2>2 DEF Flows, t, max, sh, x, later
<1> QED BY <1>7, <1>8

LEMMA SendQueuedKeeps ==
  ASSUME TypeOK, Heeded, Kept, NEW p \in Peer, NEW STATE c, c \in {"none", "opening", "open"},
         NEW STATE unread, unread \in Seq(Packets), SendQueued(p, c, unread),
         c = out[p] \/ (c = "open" /\ link[p] = "up"),
         \/ unread = wire[p]
         \/ /\ wire[p] # << >> /\ unread = Tail(wire[p])
            /\ Head(wire[p]).kind = "message" => Occurs(shown[p], Head(wire[p]).id),
         UNCHANGED <<sent, shown, link>>
  PROVE  Kept'
<1> DEFINE q == Other(p)
<1>1. /\ q \in Peer /\ Other(q) = p /\ q # p /\ Heeded
      /\ messages \in [Peer -> Seq(Row)] /\ out \in [Peer -> {"none", "opening", "open"}]
  BY Peers DEF TypeOK
<1>2. sent' = sent /\ shown' = shown /\ (Live(p)' <=> Live(p)) /\ (Live(q)' <=> Live(q))
  BY DEF Live
<1>3. CASE link[p] = "up" /\ c = "open"
  <2>1. PICK order \in OldestFirst(Queued(messages[p])) :
           LET packets == [n \in DOMAIN order |->
                             [kind |-> "message", id |-> messages[p][order[n]].id]] IN
           /\ packets \in Seq(Packets) /\ Write(p, unread, packets)
           /\ out' = [out EXCEPT ![p] = "open"]
           /\ messages' = [messages EXCEPT ![p] = Sent(messages[p])]
           /\ Sent(messages[p]) \in Seq(Row)
           /\ pending' = [pending EXCEPT ![p] =
                            pending[p] \cup {messages[p][n].id : n \in Queued(messages[p])}]
           /\ {messages[p][n].id : n \in Queued(messages[p])} \in SUBSET (1..MaxSent)
    BY <1>3, Sends
  <2> DEFINE v == [n \in DOMAIN order |->
                     [kind |-> "message", id |-> messages[p][order[n]].id]]
  <2>2. /\ v \in Seq(Packets) /\ Write(p, unread, v)
        /\ out'[p] = "open" /\ out'[q] = out[q]
        /\ messages'[p] = Sent(messages[p]) /\ messages'[q] = messages[q]
    BY <1>1, <2>1
  <2>3. \A n \in DOMAIN v : v[n].kind = "message"
    OBVIOUS
  <2>4. v = [n \in DOMAIN order |-> [kind |-> "message", id |-> messages[p][order[n]].id]]
    OBVIOUS
  <2> HIDE DEF q, v
  <2>5. wire'[p] = unread /\ Comes(q, v)
    BY <2>2, Written DEF Comes, q
  <2>6. ReadOn(p)
    BY <2>5 DEF ReadOn
  <2>7. /\ Awaited(q)' \subseteq Awaited(q)
        /\ Awaited(p)' = IF Live(q) THEN {"Sending", "Queued"} ELSE {}
    BY <1>1, <1>2, <2>2 DEF Awaited, q
  <2>8. Flows(q)'
    BY <1>2, <2>2, <2>6, <2>7, ReadFlows DEF q
  <2>9. Flows(p)'
    BY <1>2, <2>2, <2>4, <2>5, <2>7, SentFlows DEF q
  <2>10. /\ messages[p] \in Seq(Row) /\ Numbered(messages[p], sent[p]) /\ OwnRows(p) /\ OwnRows(q)
         /\ \A n \in DOMAIN messages[p] :
              messages[p][n].status = "Queued" => messages[p][n].attempts < 2
    BY <1>1, ConversationFacts DEF Heeded, Waits
  <2>11. /\ Len(messages'[p]) = Len(messages[p]) /\ Alike(messages[p], messages'[p])
         /\ \A n \in DOMAIN messages[p] :
              IF messages[p][n].status = "Queued" THEN messages'[p][n].status = "Sending"
              ELSE messages'[p][n] = messages[p][n]
    BY <2>2, <2>10, SentAlike
  <2>12. Numbered(messages'[p], sent[p]) /\ Own(messages'[p]) = Own(messages[p])
    BY <2>10, <2>11, AlikeNumbered
  <2>13. OwnRows(p)' /\ OwnRows(q)'
    BY <1>2, <2>2, <2>10, <2>11, <2>12 DEF OwnRows
  <2>14. \A r \in Mine(messages'[p]) : r.status = "Delivered" => r \in Mine(messages[p])
    BY <2>11, <2>12 DEF Mine, Own
  <2>15. Seen(p)'
    BY <1>2, <2>6, <2>11, <2>14, ReadOnPackets, ReadSeen
  <2>16. Seen(q)'
    BY <1>1, <1>2, <2>2, <2>3, <2>5, WroteSeen
  <2> QED BY <2>8, <2>9, <2>13, <2>15, <2>16, BothKept DEF q
<1>4. CASE ~(link[p] = "up" /\ c = "open")
  <2>1. /\ UNCHANGED <<messages, pending>>
        /\ \/ /\ Write(p, unread, << [kind |-> "open"] >>) /\ out' = [out EXCEPT ![p] = "opening"]
           \/ /\ Write(p, unread, << >>) /\ out' = [out EXCEPT ![p] = c]
    BY <1>4, Asks
  <2>2. PICK v \in { << >>, << [kind |-> "open"] >> } : Write(p, unread, v)
    BY <2>1
  <2>3. v \in Seq(Packets) /\ \A n \in DOMAIN v : v[n].kind \notin {"message", "ack"}
    <3>1. CASE v = << >>
      BY <3>1, Single
    <3>2. CASE v = << [kind |-> "open"] >>
      <4>1. v \in Seq(Packets)
        BY <3>2, Single
      <4>2. \A n \in DOMAIN v : v[n].kind = "open"
        BY <3>2
      <4> QED BY <4>1, <4>2
    <3> QED BY <3>1, <3>2
  <2>4. messages' = messages /\ out'[q] = out[q] /\ (out'[p] = "open" => out[p] = "open")
    BY <1>1, <1>4, <2>1
  <2> HIDE DEF q
  <2>5. wire'[p] = unread /\ Comes(q, v)
    BY <2>2, <2>3, Written DEF Comes, q
  <2>6. ReadOn(p)
    BY <2>5 DEF ReadOn
  <2> QED BY <1>2, <2>3, <2>4, <2>5, <2>6, QuietStep DEF q
<1> QED BY <1>3, <1>4


LEMMA ReceiveKnownKeeps ==
  ASSUME TypeOK, Heeded, Kept, NEW p \in Peer, ReceiveKnown(p) PROVE Kept'
<1> DEFINE q == Other(p)
<1>1. /\ wire[p] # << >> /\ Head(wire[p]).kind = "known" /\ Tail(wire[p]) \in Seq(Packets)
      /\ q \in Peer /\ q # p /\ link \in [Peer -> {"none", "dialling", "up", "dead"}]
  BY Facts DEF ReceiveKnown, Reads, TypeOK
<1>2. Write(p, Tail(wire[p]), << >>) /\ << >> \in Seq(Packets)
  BY DEF ReceiveKnown
<1>3. messages' = messages /\ sent' = sent /\ shown' = shown /\ out' = out
      /\ link[p] = "dialling" /\ link' = [link EXCEPT ![p] = "up"]
  BY DEF ReceiveKnown
<1> HIDE DEF q
<1>4. wire'[p] = Tail(wire[p]) /\ Comes(q, << >>)
  BY <1>1, <1>2, Written DEF Comes, q
<1>5. ReadOn(p)
  BY <1>1, <1>4 DEF ReadOn
<1>6. (Live(p)' <=> Live(p)) /\ (Live(q)' <=> Live(q))
  BY <1>1, <1>3 DEF Live
<1>7. \A n \in DOMAIN << >> : << >>[n].kind \notin {"message", "ack"}
  OBVIOUS
<1> QED BY <1>2, <1>3, <1>4, <1>5, <1>6, <1>7, QuietStep DEF q

LEMMA ReceiveOpenKeeps ==
  ASSUME TypeOK, Heeded, Kept, NEW p \in Peer, ReceiveOpen(p) PROVE Kept'
<1> DEFINE q == Other(p)
<1>1. wire[p] # << >> /\ Head(wire[p]).kind = "open" /\ Tail(wire[p]) \in Seq(Packets)
  BY Facts DEF ReceiveOpen, Reads
<1>2. messages' = messages /\ sent' = sent /\ shown' = shown /\ out' = out /\ link' = link
  BY DEF ReceiveOpen
<1> HIDE DEF q
<1>3. PICK v \in { << [kind |-> "opened"] >> } : Write(p, Tail(wire[p]), v)
  BY DEF ReceiveOpen
<1>4. v \in Seq(Packets) /\ \A n \in DOMAIN v : v[n].kind \notin {"message", "ack"}
  <2>1. v \in Seq(Packets) /\ v = << [kind |-> "opened"] >>
    BY Single
  <2> QED BY <2>1
<1>5. wire'[p] = Tail(wire[p]) /\ Comes(q, v)
  BY <1>1, <1>3, <1>4, Written DEF Comes, q
<1>6. ReadOn(p)
  BY <1>1, <1>5 DEF ReadOn
<1>7. (Live(p)' <=> Live(p)) /\ (Live(q)' <=> Live(q))
  BY <1>2 DEF Live
<1> QED BY <1>2, <1>4, <1>5, <1>6, <1>7, QuietStep DEF q

LEMMA ReceiveOpenedKeeps ==
  ASSUME TypeOK, Heeded, Kept, NEW p \in Peer, ReceiveOpened(p) PROVE Kept'
<1>1. /\ wire[p] # << >> /\ Head(wire[p]).kind = "opened" /\ Tail(wire[p]) \in Seq(Packets)
      /\ Reads(p, "opened")
  BY Facts DEF ReceiveOpened, Reads
<1>2. link[p] = "up" /\ heard[p]
  BY <1>1, Hears
<1>3. SendQueued(p, "open", Tail(wire[p])) /\ UNCHANGED <<sent, shown, link>>
  BY <1>2 DEF ReceiveOpened
<1> QED BY <1>1, <1>2, <1>3, SendQueuedKeeps

LEMMA QueueKeeps ==
  ASSUME TypeOK, Heeded, Kept, NEW p \in Peer, SendQueued(p, out[p], wire[p]),
         UNCHANGED <<sent, shown, link>>
  PROVE  Kept'
<1>1. out[p] \in {"none", "opening", "open"} /\ wire[p] \in Seq(Packets)
  BY DEF TypeOK
<1> QED BY <1>1, SendQueuedKeeps

\* A step that leaves rows, packets and connections as they are.
LEMMA SameKept ==
  ASSUME TypeOK, Heeded, Kept, UNCHANGED <<messages, sent, shown, wire, out>>,
         \A x \in Peer : Live(x)' <=> Live(x)
  PROVE  Kept'
<1> DEFINE p == "a"
           q == "b"
<1>1. p \in Peer /\ q = Other(p) /\ q \in Peer
  BY DEF Peer, Other
<1> HIDE DEF p, q
<1>2. messages' = messages /\ sent' = sent /\ shown' = shown /\ ReadOn(p) /\ out' = out
  BY DEF ReadOn
<1>3. Comes(q, << >>)
  BY <1>1, Quiet DEF Comes
<1>4. << >> \in Seq(Packets) /\ \A n \in DOMAIN << >> : << >>[n].kind \notin {"message", "ack"}
  OBVIOUS
<1>5. (Live(p)' <=> Live(p)) /\ (Live(q)' <=> Live(q))
  BY <1>1
<1> QED BY <1>1, <1>2, <1>3, <1>4, <1>5, QuietStep

LEMMA OnConnectedKeeps ==
  ASSUME TypeOK, Heeded, Kept, NEW p \in Peer, OnConnected(p) PROVE Kept'
<1>1. UNCHANGED <<sent, shown, link>>
  BY DEF OnConnected, Made
<1>2. CASE link[p] = "up"
  BY <1>1, <1>2, QueueKeeps DEF OnConnected
<1>3. CASE link[p] # "up"
  <2>1. UNCHANGED <<messages, sent, shown, wire, out>>
    BY <1>1, <1>3 DEF OnConnected
  <2>2. \A x \in Peer : Live(x)' <=> Live(x)
    BY <1>1 DEF Live
  <2> QED BY <2>1, <2>2, SameKept
<1> QED BY <1>2, <1>3

LEMMA OnDisconnectedKeeps ==
  ASSUME TypeOK, Heeded, Kept, NEW p \in Peer, OnDisconnected(p) PROVE Kept'
<1>1. UNCHANGED <<messages, sent, shown, wire, out>>
  BY DEF OnDisconnected, Made
<1>2. \A x \in Peer : Live(x)' <=> Live(x)
  BY DEF OnDisconnected, TypeOK, Live
<1> QED BY <1>1, <1>2, SameKept

LEMMA SendQueuedMessagesKeeps ==
  ASSUME TypeOK, Heeded, Kept, NEW p \in Peer, SendQueuedMessages(p) PROVE Kept'
<1>1. UNCHANGED <<sent, shown, link>>
  BY DEF SendQueuedMessages, Made
<1> QED BY <1>1, QueueKeeps DEF SendQueuedMessages


\* A channel's end sends back to the queue what was sent on it, if anything was.
Quieted(p) ==
  messages'[p] = Requeued(messages[p]) \/ (messages'[p] = messages[p] /\ out[p] # "open")

LEMMA QuietedRows ==
  ASSUME TypeOK, Heeded, Kept, NEW p \in Peer, Quieted(p)
  PROVE  /\ messages'[p] \in Seq(Row) /\ Len(messages'[p]) = Len(messages[p])
         /\ Alike(messages[p], messages'[p]) /\ Numbered(messages'[p], sent[p])
         /\ \A r \in Mine(messages'[p]) :
              r.status # "Sending" /\ (r.status = "Delivered" => r \in Mine(messages[p]))
         /\ Flow(messages'[p], sent[p], shown[Other(p)], wire[Other(p)], {"Sending"})
<1>1. /\ messages[p] \in Seq(Row) /\ sent[p] \in Nat /\ Numbered(messages[p], sent[p])
      /\ Flow(messages[p], sent[p], shown[Other(p)], wire[Other(p)], Awaited(p)) /\ Waits(p)
  BY ConversationFacts DEF Flows, Heeded
<1> DEFINE ms == messages[p]
           t == messages'[p]
           max == sent[p]
           sh == shown[Other(p)]
           w == wire[Other(p)]
           statuses == Awaited(p)
<1>2. CASE t = Requeued(ms)
  <2>1. /\ ms \in Seq(Row) /\ max \in Nat /\ Numbered(ms, max) /\ Flow(ms, max, sh, w, statuses)
    BY <1>1
  <2>2. t = Requeued(ms)
    BY <1>2
  <2> HIDE DEF ms, t, max, sh, w, statuses
  <2>3. Numbered(t, max) /\ Flow(t, max, sh, w, {"Sending"})
    BY <2>1, <2>2, FlowRequeued
  <2>4. t \in Seq(Row) /\ Len(t) = Len(ms) /\ Alike(ms, t)
    BY <2>1, <2>2, RequeuedAlike
  <2>5. /\ \A x \in Mine(t) : x.status # "Sending"
        /\ \A x \in Mine(t) : x.status = "Delivered" => x \in Mine(ms)
    BY <2>1, <2>2, RequeuedStands DEF Flow
  <2> QED BY <2>3, <2>4, <2>5 DEF ms, t, max, sh, w
<1>3. CASE t = ms /\ out[p] # "open"
  <2>1. \A r \in Mine(ms) : r.status # "Sending"
    BY <1>1, <1>3 DEF Waits, Mine, Own
  <2>2. /\ ms \in Seq(Row) /\ max \in Nat /\ Numbered(ms, max) /\ Flow(ms, max, sh, w, statuses)
        /\ t = ms
    BY <1>1, <1>3
  <2> HIDE DEF ms, t, max, sh, w, statuses
  <2>3. Flow(ms, max, sh, w, {"Sending"})
    BY <2>1, <2>2, FlowLess
  <2> QED BY <2>1, <2>2, <2>3, AlikeItself DEF ms, t, max, sh, w
<1> QED BY <1>2, <1>3 DEF Quieted

LEMMA QuietedKeeps ==
  ASSUME TypeOK, Heeded, Kept, NEW p \in Peer, Quieted(p), sent'[p] = sent[p], shown' = shown,
         \A n \in DOMAIN wire'[p] :
           wire'[p][n].kind = "ack" => \E k \in DOMAIN wire[p] : wire[p][k] = wire'[p][n]
  PROVE  OwnRows(p)' /\ Seen(p)'
<1>1. OwnRows(p)
  BY DEF Kept
<1>2. OwnRows(p)'
  BY <1>1, QuietedRows DEF OwnRows
<1>3. \A r \in Mine(messages'[p]) :
        r.status = "Delivered" => r \in Mine(messages[p]) \/ Occurs(shown[Other(p)], r.id)
  BY QuietedRows
<1>4. Seen(p)'
  BY <1>3, QuietedRows, ReadSeen
<1> QED BY <1>2, <1>4

LEMMA FileChannelClosedKeeps ==
  ASSUME TypeOK, Heeded, Kept, NEW p \in Peer, FileChannelClosed(p) PROVE Kept'
<1> DEFINE q == Other(p)
<1>1. /\ q \in Peer /\ q # p /\ Other(q) = p /\ messages \in [Peer -> Seq(Row)]
      /\ OwnRows(q) /\ Flows(q) /\ Seen(q)
  BY ConversationFacts DEF TypeOK
<1>2. /\ UNCHANGED <<sent, shown, wire, link, out>> /\ messages'[p] = Requeued(messages[p])
      /\ messages'[q] = messages[q]
  BY <1>1 DEF FileChannelClosed
<1>3. OwnRows(p)' /\ Seen(p)'
  BY <1>2, QuietedKeeps DEF Quieted
<1>4. OwnRows(q)' /\ Flows(q)' /\ Seen(q)'
  BY <1>1, <1>2 DEF OwnRows, Flows, Seen, Awaited, Live
<1>5. Flows(p)'
  <2>1. /\ messages[p] \in Seq(Row) /\ sent[p] \in Nat /\ Numbered(messages[p], sent[p])
        /\ Flow(messages[p], sent[p], shown[q], wire[q], Awaited(p))
        /\ Awaited(p) \subseteq {"Sending"} \/ Awaited(p) = {"Sending", "Queued"}
    BY ConversationFacts DEF Flows, Awaited
  <2> DEFINE ms == messages[p]
             t == messages'[p]
             max == sent[p]
             sh == shown[q]
             w == wire[q]
             statuses == Awaited(p)
  <2>2. /\ ms \in Seq(Row) /\ max \in Nat /\ Numbered(ms, max) /\ Flow(ms, max, sh, w, statuses)
        /\ statuses \subseteq {"Sending"} \/ statuses = {"Sending", "Queued"}
        /\ t = Requeued(ms)
    BY <1>2, <2>1
  <2>3. Awaited(p)' = statuses
    BY <1>2 DEF Awaited, Live
  <2> HIDE DEF ms, t, max, sh, w, statuses
  <2>4. Flow(t, max, sh, w, statuses)
    BY <2>2, FlowRequeued
  <2> QED BY <1>2, <2>3, <2>4 DEF Flows, t, max, sh, w
<1> QED BY <1>3, <1>4, <1>5, BothKept


LEMMA ClosedKeeps ==
  ASSUME TypeOK, Heeded, Kept, NEW p \in Peer, Closed(p) PROVE Kept'
<1> DEFINE q == Other(p)
<1>1. /\ q \in Peer /\ q # p /\ Other(q) = p /\ messages \in [Peer -> Seq(Row)]
      /\ wire \in [Peer -> Seq(Packets)] /\ link \in [Peer -> {"none", "dialling", "up", "dead"}]
      /\ out \in [Peer -> {"none", "opening", "open"}]
      /\ OwnRows(q) /\ Flows(q) /\ Seen(q) /\ Listens(p)
  BY ConversationFacts DEF TypeOK, Heeded
<1>2. /\ sent' = sent /\ shown' = shown /\ messages'[q] = messages[q]
      /\ wire'[p] = << >> /\ wire'[q] = wire[q] /\ link'[p] \in {"none", "dead"} /\ link'[q] = link[q]
      /\ out'[p] = "none"
  BY <1>1 DEF Closed
<1>3. Quieted(p)
  BY <1>1 DEF Closed, Quieted, Listens
<1> HIDE DEF q
<1>4. OwnRows(p)' /\ Seen(p)'
  BY <1>2, <1>3, QuietedKeeps
<1>5. OwnRows(q)' /\ Seen(q)'
  BY <1>1, <1>2 DEF OwnRows, Seen
<1>6. Flows(p)'
  <2>1. Flow(messages'[p], sent[p], shown[q], wire[q], {"Sending"})
    BY <1>3, QuietedRows DEF q
  <2>2. Awaited(p)' \subseteq {"Sending"}
    BY <1>2 DEF Awaited
  <2> DEFINE t == messages'[p]
             max == sent[p]
             sh == shown[q]
             w == wire[q]
             later == Awaited(p)'
  <2>3. Flow(t, max, sh, w, {"Sending"}) /\ later \subseteq {"Sending"}
    BY <2>1, <2>2
  <2> HIDE DEF t, max, sh, w, later
  <2>4. Flow(t, max, sh, w, later)
    BY <2>3, FlowLess
  <2> QED BY <1>2, <2>4 DEF Flows, t, max, sh, w, later, q
<1>7. Flows(q)'
  <2> DEFINE ms == messages[q]
             max == sent[q]
             sh == shown[p]
             w == wire[p]
             v == wire'[p]
  <2>1. /\ ms \in Seq(Row) /\ max \in Nat /\ Stands(sh \o Ids(w), Mine(ms), max)
    BY <1>1, ConversationFacts
  <2>2. sh \in Seq(1..MaxSent) /\ w \in Seq(Packets) /\ v = << >>
    BY <1>2, ConversationFacts
  <2>3. Awaited(q)' = {}
    BY <1>1, <1>2 DEF Awaited, Live
  <2> HIDE DEF ms, max, sh, w, v
  <2>4. Flow(ms, max, sh, v, {})
    BY <2>1, <2>2, FlowCut
  <2> QED BY <1>1, <1>2, <2>3, <2>4 DEF Flows, ms, max, sh, v
<1> QED BY <1>4, <1>5, <1>6, <1>7, BothKept DEF q

LEMMA ConnectKeeps ==
  ASSUME TypeOK, Heeded, Kept, NEW p \in Peer, Connect(p) PROVE Kept'
<1> DEFINE q == Other(p)
<1>1. /\ q \in Peer /\ q # p /\ Other(q) = p /\ messages \in [Peer -> Seq(Row)]
      /\ wire \in [Peer -> Seq(Packets)] /\ link \in [Peer -> {"none", "dialling", "up", "dead"}]
      /\ out \in [Peer -> {"none", "opening", "open"}] /\ Listens(p) /\ Listens(q)
  BY ConversationFacts DEF TypeOK, Heeded
<1> HIDE DEF q
<1>2. /\ sent' = sent /\ shown' = shown /\ messages'[p] = messages[p]
      /\ wire'[p] = << [kind |-> "known"] >> /\ wire'[q] = << >>
      /\ link'[p] = "dialling" /\ link'[q] = "up" /\ out'[p] = out[p] /\ out'[q] = "none"
      /\ link[p] = "none"
      /\ messages'[q] = IF heard[q] THEN Requeued(messages[q]) ELSE messages[q]
  BY <1>1 DEF Connect, q
<1>3. out[p] = "none" /\ wire[p] = << >>
  BY <1>1, <1>2 DEF Listens, Live
<1>4. Quieted(p) /\ Quieted(q)
  BY <1>1, <1>2, <1>3 DEF Quieted, Listens
<1>5. OwnRows(p)' /\ Seen(p)' /\ OwnRows(q)' /\ Seen(q)'
  <2>1. \A n \in DOMAIN wire'[p] : wire'[p][n].kind # "ack"
    BY <1>2
  <2>2. \A n \in DOMAIN wire'[q] : wire'[q][n].kind # "ack"
    BY <1>2
  <2>3. OwnRows(p)' /\ Seen(p)'
    BY <1>2, <1>4, <2>1, QuietedKeeps
  <2>4. OwnRows(q)' /\ Seen(q)'
    BY <1>1, <1>2, <1>4, <2>2, QuietedKeeps
  <2> QED BY <2>3, <2>4
<1>6. Awaited(p)' = {"Sending"} /\ Awaited(q)' = {"Sending"}
  BY <1>1, <1>2, <1>3 DEF Awaited, Live, q
<1>7. Flows(p)'
  <2>1. /\ messages'[p] \in Seq(Row) /\ \A r \in Mine(messages'[p]) : r.status # "Sending"
        /\ Flow(messages'[p], sent[p], shown[q], wire[q], {"Sending"})
    BY <1>4, QuietedRows DEF q
  <2> DEFINE t == messages'[p]
             max == sent[p]
             sh == shown[q]
             w == wire[q]
             v == wire'[q]
  <2>2. /\ t \in Seq(Row) /\ Stands(sh \o Ids(w), Mine(t), max)
        /\ \A r \in Mine(t) : r.status \notin {"Sending"}
    BY <2>1 DEF Flow
  <2>3. max \in Nat /\ sh \in Seq(1..MaxSent) /\ w \in Seq(Packets) /\ v = << >>
    BY <1>1, <1>2, ConversationFacts
  <2> HIDE DEF t, max, sh, w, v
  <2>4. Flow(t, max, sh, v, {})
    BY <2>2, <2>3, FlowCut
  <2>5. Flow(t, max, sh, v, {"Sending"})
    BY <2>2, <2>4, FlowLess
  <2> QED BY <1>2, <1>6, <2>5 DEF Flows, t, max, sh, v, q
<1>8. Flows(q)'
  <2>1. /\ messages'[q] \in Seq(Row)
        /\ Flow(messages'[q], sent[q], shown[p], wire[p], {"Sending"})
    BY <1>1, <1>4, QuietedRows
  <2> DEFINE t == messages'[q]
             max == sent[q]
             sh == shown[p]
             w == wire[p]
             x == wire'[p]
  <2>2. t \in Seq(Row) /\ Flow(t, max, sh, w, {"Sending"})
    BY <2>1
  <2>3. /\ max \in Nat /\ sh \in Seq(1..MaxSent) /\ w \in Seq(Packets) /\ w = << >>
        /\ x = << [kind |-> "known"] >>
    BY <1>1, <1>2, <1>3, ConversationFacts
  <2> HIDE DEF t, max, sh, w, x
  <2>4. x \in Seq(Packets) /\ (\A n \in DOMAIN x : x[n].kind # "message")
    <3>1. x \in Seq(Packets)
      BY <2>3, Single
    <3> QED BY <2>3, <3>1
  <2>5. x = w \o x
    BY <2>3, <2>4, ConcatEmptySeq
  <2>6. Flow(t, max, sh, x, {"Sending"})
    BY <2>2, <2>3, <2>4, <2>5, FlowWritten
  <2> QED BY <1>1, <1>2, <1>6, <2>6 DEF Flows, t, max, sh, x
<1> QED BY <1>5, <1>7, <1>8, BothKept DEF q


LEMMA ReceiveAckKeeps ==
  ASSUME TypeOK, Heeded, Kept, NEW p \in Peer, ReceiveAck(p) PROVE Kept'
<1> DEFINE q == Other(p)
           id == Head(wire[p]).id
<1>1. /\ q \in Peer /\ q # p /\ Other(q) = p /\ messages \in [Peer -> Seq(Row)]
      /\ OwnRows(p) /\ OwnRows(q) /\ Seen(p) /\ Seen(q) /\ Flows(p)
  BY ConversationFacts DEF TypeOK
<1>2. /\ wire[p] # << >> /\ Head(wire[p]).kind = "ack" /\ Tail(wire[p]) \in Seq(Packets)
      /\ 1 \in DOMAIN wire[p] /\ Head(wire[p]) = wire[p][1]
  BY Facts, Dropped DEF ReceiveAck, Reads
<1>3. Write(p, Tail(wire[p]), << >>) /\ << >> \in Seq(Packets)
  BY DEF ReceiveAck
<1>4. /\ sent' = sent /\ shown' = shown /\ out' = out /\ link' = link
      /\ messages'[q] = messages[q]
      /\ messages'[p] = Acknowledged(messages[p], id) \/ messages'[p] = messages[p]
  BY <1>1 DEF ReceiveAck
<1>5. Occurs(shown[q], id)
  BY <1>1, <1>2 DEF Seen, Witnessed
<1> HIDE DEF q, id
<1>6. wire'[p] = Tail(wire[p]) /\ wire'[q] = wire[q]
  <2>1. wire'[p] = Tail(wire[p]) /\ Comes(q, << >>)
    BY <1>2, <1>3, Written DEF Comes, q
  <2> QED BY <1>1, <2>1, Quiet DEF Comes
<1>7. ReadOn(p)
  BY <1>2, <1>6 DEF ReadOn
<1>8. Awaited(p)' = Awaited(p) /\ Awaited(q)' = Awaited(q)
  BY <1>4 DEF Awaited, Live
<1>9. Flows(q)'
  BY <1>4, <1>7, <1>8, ReadFlows DEF q
<1> DEFINE ms == messages[p]
           t == messages'[p]
           max == sent[p]
           sh == shown[q]
           w == wire[q]
           statuses == Awaited(p)
<1>10. /\ ms \in Seq(Row) /\ max \in Nat /\ Numbered(ms, max) /\ Flow(ms, max, sh, w, statuses)
       /\ statuses \subseteq {"Sending", "Queued"}
  BY <1>1, ConversationFacts DEF Flows, q
<1>11. sh \in Seq(1..MaxSent) /\ w \in Seq(Packets) /\ Occurs(sh, id)
  BY <1>1, <1>5, ConversationFacts
<1>12. t = Acknowledged(ms, id) \/ t = ms
  BY <1>4
<1> HIDE DEF ms, t, max, sh, w, statuses
<1>13. /\ Len(t) = Len(ms) /\ Alike(ms, t) /\ Numbered(t, max) /\ Flow(t, max, sh, w, statuses)
       /\ \A x \in Mine(t) : x.status = "Delivered" => x \in Mine(ms) \/ Occurs(sh, x.id)
  <2>1. CASE t = ms
    BY <1>10, <2>1, AlikeItself
  <2>2. CASE t = Acknowledged(ms, id)
    <3>1. Numbered(t, max) /\ Flow(t, max, sh, w, statuses)
      BY <1>10, <1>11, <2>2, FlowAcknowledged
    <3>2. Len(t) = Len(ms) /\ Alike(ms, t)
      BY <1>10, <2>2, AcknowledgedAlike
    <3> DEFINE s == sh \o Ids(w)
    <3>3. Stands(s, Mine(ms), max) /\ Occurs(s, id)
      BY <1>10, <1>11, FlowParts DEF Flow
    <3> HIDE DEF s
    <3>4. \A x \in Mine(t) : x.status = "Delivered" => x \in Mine(ms) \/ x.id = id
      BY <1>10, <2>2, <3>3, AcknowledgedStands
    <3> QED BY <1>11, <3>1, <3>2, <3>4
  <2> QED BY <1>12, <2>1, <2>2
<1>14. OwnRows(p)' /\ OwnRows(q)'
  BY <1>1, <1>4, <1>13 DEF OwnRows, ms, t, max
<1>15. Flows(p)'
  BY <1>4, <1>6, <1>8, <1>13 DEF Flows, t, max, sh, w, statuses, q
<1>16. Seen(p)'
  <2>1. /\ Alike(messages[p], messages'[p])
        /\ \A r \in Mine(messages'[p]) :
             r.status = "Delivered" => r \in Mine(messages[p]) \/ Occurs(shown[Other(p)], r.id)
    BY <1>13 DEF ms, t, sh, q
  <2> QED BY <1>4, <1>7, <2>1, ReadOnPackets, ReadSeen
<1>17. Seen(q)'
  BY <1>1, <1>4, <1>6 DEF Seen
<1> QED BY <1>9, <1>14, <1>15, <1>16, <1>17, BothKept DEF q

\* The history has room for what comes.
LEMMA Room ==
  ASSUME TypeOK, Kept, NEW p \in Peer, NEW q, q = Other(p), NEW n \in Nat, NEW m \in Nat,
         n <= IF p = "a" THEN MaxSent ELSE MaxReplies, m <= 2 * sent[q]
  PROVE  n + m <= HistoryLimit
<1>1. /\ MaxSent \in Nat /\ MaxReplies \in Nat /\ HistoryLimit \in Nat
      /\ MaxReplies <= MaxSent /\ HistoryLimit >= 3 * MaxSent
  BY BoundsAssumption, HistoryAssumption
<1>2. q \in Peer /\ OwnRows(q) /\ sent[q] \in Nat
  BY ConversationFacts
<1>3. sent[q] <= MaxSent
  BY <1>1, <1>2 DEF OwnRows
<1>4. n <= MaxSent
  BY <1>1
<1> QED BY <1>1, <1>2, <1>3, <1>4

LEMMA ShowsMore ==
  ASSUME NEW sh \in Seq(1..MaxSent), NEW id \in 1..MaxSent, NEW sx, sx = Append(sh, id)
  PROVE  /\ sx \in Seq(1..MaxSent) /\ Len(sx) = Len(sh) + 1 /\ Occurs(sx, id)
         /\ \A m : Occurs(sh, m) => Occurs(sx, m)
<1>1. /\ sx \in Seq(1..MaxSent) /\ Len(sx) = Len(sh) + 1 /\ DOMAIN sx = 1..Len(sx)
      /\ \A n \in DOMAIN sh : n \in DOMAIN sx /\ sx[n] = sh[n]
      /\ sx[Len(sh) + 1] = id
  BY Added
<1>2. Len(sh) + 1 \in DOMAIN sx
  BY <1>1, Shape
<1> QED BY <1>1, <1>2 DEF Occurs


\* What a step that shows a message to p does, for the other user.
LEMMA ShownFlows ==
  ASSUME TypeOK, Kept, NEW p \in Peer, NEW q, q = Other(p), messages'[q] = messages[q],
         sent'[q] = sent[q], Shows(shown[p], wire[p], shown'[p], wire'[p]),
         shown'[p] \in Seq(1..MaxSent), wire'[p] \in Seq(Packets), Awaited(q)' = Awaited(q)
  PROVE  Flows(q)' /\ Len(shown'[p]) <= 2 * sent[q]
<1> DEFINE ms == messages[q]
           max == sent[q]
           sh == shown[p]
           w == wire[p]
           sx == shown'[p]
           v == wire'[p]
           statuses == Awaited(q)
<1>1. q \in Peer /\ Other(q) = p
  BY Peers
<1>2. /\ ms \in Seq(Row) /\ max \in Nat /\ Numbered(ms, max) /\ Flow(ms, max, sh, w, statuses)
  BY <1>1, ConversationFacts DEF Flows
<1>3. /\ sh \in Seq(1..MaxSent) /\ w \in Seq(Packets) /\ Shows(sh, w, sx, v)
      /\ sx \in Seq(1..MaxSent) /\ v \in Seq(Packets)
  BY ConversationFacts
<1> HIDE DEF ms, max, sh, w, sx, v, statuses
<1>4. Flow(ms, max, sx, v, statuses)
  BY <1>2, <1>3, FlowShown
<1>5. Len(sx) <= 2 * max
  BY <1>2, <1>3, <1>4, ShownTwice DEF Flow
<1> QED BY <1>1, <1>4, <1>5 DEF Flows, ms, max, sx, v, statuses

\* A message that is read, and acknowledged whatever becomes of it.
LEMMA MessageRead ==
  ASSUME TypeOK, Heeded, NEW p \in Peer, NEW q, q = Other(p), NEW id, id = Head(wire[p]).id,
         ReceiveMessage(p)
  PROVE  /\ heard[p] /\ id \in 1..MaxSent /\ UNCHANGED <<sent, out, link>>
         /\ wire[p] # << >> /\ Head(wire[p]).kind = "message"
         /\ wire'[p] = Tail(wire[p]) /\ wire'[p] \in Seq(Packets)
         /\ Comes(q, << [kind |-> "ack", id |-> id] >>)
         /\ messages'[q] = messages[q] /\ shown'[q] = shown[q]
         /\ IF IsDuplicate(messages[p], id) THEN messages' = messages /\ shown' = shown
            ELSE /\ messages'[p] = Received(messages[p], id)
                 /\ shown'[p] = Append(shown[p], id)
<1>1. /\ q \in Peer /\ q # p /\ messages \in [Peer -> Seq(Row)] /\ shown \in [Peer -> Seq(1..MaxSent)]
      /\ wire[p] # << >> /\ Head(wire[p]).kind = "message" /\ Tail(wire[p]) \in Seq(Packets)
      /\ Head(wire[p]) \in Packets /\ Reads(p, "message")
  BY Facts DEF ReceiveMessage, Reads, TypeOK
<1>2. heard[p] /\ id \in 1..MaxSent
  BY <1>1, Hears, Named
<1>3. /\ UNCHANGED <<sent, out, link>>
      /\ Write(p, Tail(wire[p]), << [kind |-> "ack", id |-> id] >>)
      /\ IF IsDuplicate(messages[p], id) THEN messages' = messages /\ shown' = shown
         ELSE /\ messages' = [messages EXCEPT ![p] = Received(messages[p], id)]
              /\ shown' = [shown EXCEPT ![p] = Append(shown[p], id)]
  BY <1>2 DEF ReceiveMessage
<1>4. wire'[p] = Tail(wire[p]) /\ Comes(q, << [kind |-> "ack", id |-> id] >>)
  <2>1. PICK v \in { << [kind |-> "ack", id |-> id] >> } : Write(p, Tail(wire[p]), v)
    BY <1>3
  <2>2. v \in Seq(Packets) /\ v = << [kind |-> "ack", id |-> id] >>
    BY <1>2, <2>1, Single
  <2>3. wire'[p] = Tail(wire[p]) /\ Comes(q, v)
    BY <1>1, <2>1, <2>2, Written DEF Comes
  <2> QED BY <2>2, <2>3
<1> QED BY <1>1, <1>2, <1>3, <1>4

\* The rows of p after that, when it is none he has.
RowReceived(p, id) ==
  /\ messages'[p] \in Seq(Row) /\ Len(messages'[p]) = Len(messages[p]) + 1
  /\ Mine(messages'[p]) = Mine(messages[p]) /\ Numbered(messages'[p], sent[p])
  /\ \A n \in DOMAIN messages'[p] : messages'[p][n].status = "Received" =>
       messages'[p][n].id = id \/ \E k \in DOMAIN messages[p] : messages'[p][n] = messages[p][k]

LEMMA RowsReceived ==
  ASSUME TypeOK, Heeded, Kept, NEW p \in Peer, NEW q, q = Other(p), NEW id, id = Head(wire[p]).id,
         ReceiveMessage(p), messages'[p] = Received(messages[p], id),
         shown'[p] = Append(shown[p], id)
  PROVE  /\ RowReceived(p, id) /\ Flows(q)'
         /\ shown'[p] \in Seq(1..MaxSent) /\ Len(shown'[p]) = Len(shown[p]) + 1
         /\ Occurs(shown'[p], id) /\ \A m : Occurs(shown[p], m) => Occurs(shown'[p], m)
<1>1. /\ id \in 1..MaxSent /\ UNCHANGED <<sent, out, link>>
      /\ wire[p] # << >> /\ Head(wire[p]).kind = "message"
      /\ wire'[p] = Tail(wire[p]) /\ wire'[p] \in Seq(Packets)
      /\ messages'[q] = messages[q]
  BY MessageRead
<1>2. /\ q \in Peer /\ messages[p] \in Seq(Row) /\ sent[p] \in Nat
      /\ OwnRows(p) /\ Numbered(messages[p], sent[p]) /\ shown[p] \in Seq(1..MaxSent)
  BY ConversationFacts
<1>3. Awaited(q)' = Awaited(q)
  BY <1>1 DEF Awaited, Live
<1>4. /\ shown'[p] \in Seq(1..MaxSent) /\ Len(shown'[p]) = Len(shown[p]) + 1
      /\ Occurs(shown'[p], id) /\ \A m : Occurs(shown[p], m) => Occurs(shown'[p], m)
      /\ Len(shown[p]) \in Nat
  <2>1. Len(shown[p]) \in Nat
    BY <1>2, Shape
  <2> QED BY <1>1, <1>2, <2>1, ShowsMore
<1>5. Shows(shown[p], wire[p], shown'[p], wire'[p])
  BY <1>1 DEF Shows
<1>6. Flows(q)' /\ Len(shown'[p]) <= 2 * sent[q]
  BY <1>1, <1>3, <1>4, <1>5, ShownFlows
<1>7. Len(messages[p]) < HistoryLimit
  <2>1. sent[p] + Len(shown'[p]) <= HistoryLimit
    <3>1. Len(shown'[p]) \in Nat
      BY <1>4, Shape
    <3> QED BY <1>2, <1>6, <3>1, Room DEF OwnRows
  <2>2. Len(messages[p]) <= sent[p] + Len(shown[p]) /\ Len(messages[p]) \in Nat
    BY <1>2, Shape DEF OwnRows
  <2>3. \A m, n, k, h \in Nat : m <= n + k /\ n + (k + 1) <= h => m < h
    OBVIOUS
  <2>4. HistoryLimit \in Nat
    BY BoundsAssumption
  <2> QED BY <1>2, <1>4, <2>1, <2>2, <2>3, <2>4
<1> DEFINE ms == messages[p]
           t == messages'[p]
           max == sent[p]
<1>8. ms \in Seq(Row) /\ max \in Nat /\ Numbered(ms, max) /\ Len(ms) < HistoryLimit /\ t = Received(ms, id)
  BY <1>2, <1>7
<1> HIDE DEF ms, t, max
<1>9. /\ t \in Seq(Row) /\ Len(t) = Len(ms) + 1
      /\ Mine(t) = Mine(ms) /\ Numbered(t, max)
      /\ \A n \in DOMAIN t : t[n].status = "Received" =>
           t[n].id = id \/ \E k \in DOMAIN ms : t[n] = ms[k]
  BY <1>1, <1>8, OtherInserted
<1>10. RowReceived(p, id)
  BY <1>9 DEF RowReceived, ms, t, max
<1> QED BY <1>4, <1>6, <1>10

LEMMA ReceiveMessageKeeps ==
  ASSUME TypeOK, Heeded, Kept, NEW p \in Peer, ReceiveMessage(p) PROVE Kept'
<1> DEFINE q == Other(p)
           id == Head(wire[p]).id
           v == << [kind |-> "ack", id |-> id] >>
<1>1. /\ heard[p] /\ id \in 1..MaxSent /\ UNCHANGED <<sent, out, link>>
      /\ wire[p] # << >> /\ Head(wire[p]).kind = "message"
      /\ wire'[p] = Tail(wire[p]) /\ wire'[p] \in Seq(Packets) /\ Comes(q, v)
      /\ messages'[q] = messages[q] /\ shown'[q] = shown[q]
      /\ IF IsDuplicate(messages[p], id) THEN messages' = messages /\ shown' = shown
         ELSE /\ messages'[p] = Received(messages[p], id)
              /\ shown'[p] = Append(shown[p], id)
  <2> HIDE DEF q, id
  <2>1. q = Other(p) /\ id = Head(wire[p]).id
    BY DEF q, id
  <2> QED BY <2>1, MessageRead
<1>2. v \in Seq(Packets) /\ \A n \in DOMAIN v : v[n].kind = "ack" /\ v[n].id = id
  <2>1. v \in Seq(Packets)
    BY <1>1, Single
  <2> QED BY <2>1
<1>3. /\ q \in Peer /\ q # p /\ Other(q) = p /\ messages[p] \in Seq(Row) /\ sent[p] \in Nat
      /\ OwnRows(p) /\ OwnRows(q) /\ Seen(p) /\ Numbered(messages[p], sent[p])
      /\ shown[p] \in Seq(1..MaxSent) /\ wire[p] \in Seq(Packets)
  BY ConversationFacts
<1> HIDE DEF q, id, v
<1>4. Awaited(p)' = Awaited(p) /\ Awaited(q)' = Awaited(q)
  BY <1>1 DEF Awaited, Live
<1>5. CASE IsDuplicate(messages[p], id)
  <2>1. messages' = messages /\ shown' = shown
    BY <1>1, <1>5
  <2>2. Occurs(shown[p], id)
    <3>1. PICK n \in DOMAIN messages[p] :
            messages[p][n].status = "Received" /\ messages[p][n].id = id
      <4>1. Newest(messages[p]) \subseteq DOMAIN messages[p]
        BY <1>3, Shape DEF Newest
      <4> QED BY <1>5, <4>1 DEF IsDuplicate
    <3> QED BY <1>3, <3>1 DEF Seen, Witnessed
  <2>3. ReadOn(p)
    BY <1>1, <2>2 DEF ReadOn, id
  <2>4. OwnRows(p)' /\ OwnRows(q)'
    BY <1>1, <1>3, <2>1 DEF OwnRows
  <2>5. Flows(q)'
    BY <1>1, <1>4, <2>1, <2>3, ReadFlows DEF q
  <2>6. Flows(p)'
    BY <1>1, <1>2, <1>4, <2>1, WroteFlows DEF q
  <2>7. Seen(p)'
    BY <2>1, <2>3, AlikeItself, ReadOnPackets, ReadSeen
  <2>8. Seen(q)'
    BY <1>1, <1>2, <1>3, <2>1, <2>2, WroteSeen
  <2> QED BY <2>4, <2>5, <2>6, <2>7, <2>8, BothKept DEF q
<1>6. CASE ~IsDuplicate(messages[p], id)
  <2>1. /\ messages'[p] = Received(messages[p], id) /\ shown'[p] = Append(shown[p], id)
    BY <1>1, <1>6
  <2>2. /\ RowReceived(p, id) /\ Flows(q)'
        /\ shown'[p] \in Seq(1..MaxSent) /\ Len(shown'[p]) = Len(shown[p]) + 1
        /\ Occurs(shown'[p], id) /\ \A m : Occurs(shown[p], m) => Occurs(shown'[p], m)
    <3>1. q = Other(p) /\ id = Head(wire[p]).id
      BY DEF q, id
    <3> QED BY <2>1, <3>1, RowsReceived
  <2>3. Len(shown[p]) \in Nat
    BY <1>3, Shape
  <2>6. /\ Len(messages'[p]) = Len(messages[p]) + 1
        /\ Mine(messages'[p]) = Mine(messages[p]) /\ Numbered(messages'[p], sent[p])
        /\ \A n \in DOMAIN messages'[p] : messages'[p][n].status = "Received" =>
             messages'[p][n].id = id \/ \E k \in DOMAIN messages[p] : messages'[p][n] = messages[p][k]
    BY <2>2 DEF RowReceived
  <2>7. OwnRows(p)' /\ OwnRows(q)'
    <3>1. Len(messages'[p]) <= sent[p] + Len(shown'[p])
      <4>1. Len(messages[p]) \in Nat /\ Len(messages[p]) <= sent[p] + Len(shown[p])
        BY <1>3, Shape DEF OwnRows
      <4> QED BY <1>3, <2>2, <2>3, <2>6, <4>1
    <3> QED BY <1>1, <1>3, <2>6, <3>1 DEF OwnRows
  <2>8. Flows(p)'
    BY <1>1, <1>2, <1>4, <2>6, WroteFlows DEF q
  <2>9. Seen(p)'
    <3> DEFINE ms == messages[p]
               t == messages'[p]
               own == shown[p]
               more == shown'[p]
               other == shown[q]
               w == wire[p]
               x == wire'[p]
    <3>1. Witnessed(ms, own, other, w)
      BY <1>3 DEF Seen, q
    <3>2. \A r \in Mine(t) : r.status = "Delivered" => r \in Mine(ms) \/ Occurs(other, r.id)
      BY <2>6
    <3>3. \A n \in DOMAIN t : t[n].status = "Received" =>
            \/ Occurs(more, t[n].id)
            \/ \E k \in DOMAIN ms : ms[k].status = "Received" /\ ms[k].id = t[n].id
      BY <2>2, <2>6
    <3>4. \A m : Occurs(own, m) => Occurs(more, m)
      BY <2>2
    <3>5. \A n \in DOMAIN x : x[n].kind = "ack" =>
            Occurs(other, x[n].id) \/ \E k \in DOMAIN w : w[k] = x[n]
      <4>1. \A n \in DOMAIN x : n + 1 \in DOMAIN w /\ x[n] = w[n + 1]
        BY <1>1, <1>3, Dropped
      <4> QED BY <4>1
    <3> HIDE DEF ms, t, own, more, other, w, x
    <3>6. \A m : Occurs(other, m) => Occurs(other, m)
      OBVIOUS
    <3>7. Witnessed(t, more, other, x)
      BY <3>1, <3>2, <3>3, <3>4, <3>5, <3>6, WitnessedOn
    <3> QED BY <1>1, <3>7 DEF Seen, t, more, other, x, q
  <2>10. Seen(q)'
    BY <1>1, <1>2, <1>3, <2>2, WroteSeen
  <2> QED BY <2>2, <2>7, <2>8, <2>9, <2>10, BothKept DEF q
<1> QED BY <1>5, <1>6

\* The row of p's new message, and what is written to q.
Speaks(p, q, id, row) ==
  /\ row.id = id /\ row.status \in {"Sending", "Queued"}
  /\ messages'[p] = Inserted(messages[p], 1, row)
  /\ IF out[p] = "open"
     THEN /\ row.status = "Sending" /\ row.attempts = 1 /\ out'[p] = "open"
          /\ Comes(q, << [kind |-> "message", id |-> id] >>)
     ELSE /\ row.status = "Queued" /\ row.attempts = 0 /\ out'[p] # "open"
          /\ \E v \in Seq(Packets) :
               /\ \A n \in DOMAIN v : v[n].kind \notin {"message", "ack"}
               /\ Comes(q, v)

LEMMA MessageSent ==
  ASSUME TypeOK, Heeded, NEW p \in Peer, NEW q, q = Other(p), NEW id, id = sent[p] + 1,
         SendMessage(p)
  PROVE  /\ id \in 1..MaxSent /\ id <= (IF p = "a" THEN MaxSent ELSE MaxReplies)
         /\ link' = link /\ shown' = shown
         /\ sent'[p] = id /\ sent'[q] = sent[q] /\ messages'[q] = messages[q]
         /\ out'[q] = out[q] /\ wire'[p] = wire[p]
         /\ \E row \in Row : Speaks(p, q, id, row)
<1>1. /\ q \in Peer /\ q # p /\ messages \in [Peer -> Seq(Row)] /\ sent \in [Peer -> 0..MaxSent]
      /\ out \in [Peer -> {"none", "opening", "open"}] /\ wire[p] \in Seq(Packets) /\ Listens(p)
  BY Facts DEF TypeOK, Heeded
<1>2. MaxSent \in Nat /\ MaxReplies \in Nat /\ MaxReplies <= MaxSent
  BY BoundsAssumption, HistoryAssumption
<1>3. sent[p] < (IF p = "a" THEN MaxSent ELSE MaxReplies) /\ sent[p] \in Nat
  BY <1>1, <1>2 DEF SendMessage
<1>4. id \in 1..MaxSent /\ id <= (IF p = "a" THEN MaxSent ELSE MaxReplies)
  BY <1>2, <1>3
<1>5. /\ link' = link /\ shown' = shown /\ sent' = [sent EXCEPT ![p] = id]
      /\ out' = [out EXCEPT ![p] = IF link[p] = "up" /\ @ = "none" THEN "opening" ELSE @]
  BY DEF SendMessage
<1>6. /\ sent'[p] = id /\ sent'[q] = sent[q] /\ out'[q] = out[q]
      /\ out'[p] = IF link[p] = "up" /\ out[p] = "none" THEN "opening" ELSE out[p]
  BY <1>1, <1>5
<1> DEFINE now == out[p] = "open"
           row == [id |-> id, status |-> IF now THEN "Sending" ELSE "Queued",
                   attempts |-> IF now THEN 1 ELSE 0]
<1>7. messages' = [messages EXCEPT ![p] = Inserted(@, 1, row)]
  BY DEF SendMessage
<1>8. row \in Row
  BY <1>4 DEF Row
<1>9. messages'[q] = messages[q] /\ messages'[p] = Inserted(messages[p], 1, row)
  BY <1>1, <1>7
<1>10. CASE out[p] = "open"
  <2>1. PICK v \in { << [kind |-> "message", id |-> id] >> } : Write(p, wire[p], v)
    BY <1>1, <1>10 DEF SendMessage, Listens
  <2>2. v \in Seq(Packets) /\ v = << [kind |-> "message", id |-> id] >>
    BY <1>4, <2>1, Single
  <2>3. wire'[p] = wire[p] /\ Comes(q, v)
    BY <1>1, <2>1, <2>2, Written DEF Comes
  <2>4. row.id = id /\ row.status = "Sending" /\ row.attempts = 1 /\ out'[p] = "open"
    BY <1>6, <1>10
  <2> HIDE DEF row
  <2> QED BY <1>4, <1>5, <1>6, <1>8, <1>9, <1>10, <2>2, <2>3, <2>4 DEF Speaks
<1>11. CASE out[p] # "open"
  <2>1. wire'[p] = wire[p] /\ \E v \in Seq(Packets) :
          (\A n \in DOMAIN v : v[n].kind \notin {"message", "ack"}) /\ Comes(q, v)
    <3>1. CASE link[p] = "up" /\ out[p] # "opening"
      <4>1. PICK v \in { << [kind |-> "open"] >> } : Write(p, wire[p], v)
        BY <1>11, <3>1 DEF SendMessage
      <4>2. v \in Seq(Packets) /\ v = << [kind |-> "open"] >>
        BY <4>1, Single
      <4>3. wire'[p] = wire[p] /\ Comes(q, v)
        BY <1>1, <4>1, <4>2, Written DEF Comes
      <4>4. \A n \in DOMAIN v : v[n].kind \notin {"message", "ack"}
        BY <4>2
      <4> QED BY <4>2, <4>3, <4>4
    <3>2. CASE ~(link[p] = "up" /\ out[p] # "opening")
      <4>1. wire' = wire
        BY <3>2 DEF SendMessage
      <4>2. Comes(q, << >>)
        BY <1>1, <4>1, Quiet DEF Comes
      <4>3. << >> \in Seq(Packets) /\ \A n \in DOMAIN << >> : << >>[n].kind \notin {"message", "ack"}
        OBVIOUS
      <4> QED BY <4>1, <4>2, <4>3
    <3> QED BY <3>1, <3>2
  <2>2. row.id = id /\ row.status = "Queued" /\ row.attempts = 0 /\ out'[p] # "open"
    BY <1>6, <1>11
  <2> HIDE DEF row
  <2> QED BY <1>4, <1>5, <1>6, <1>8, <1>9, <1>11, <2>1, <2>2 DEF Speaks
<1> QED BY <1>10, <1>11

\* The rows of p after that.
RowAdded(p, id, row) ==
  /\ messages'[p] \in Seq(Row) /\ Len(messages'[p]) = Len(messages[p]) + 1
  /\ Mine(messages'[p]) = Mine(messages[p]) \cup {row} /\ Numbered(messages'[p], id)
  /\ \A n \in DOMAIN messages'[p] : messages'[p][n].status = "Received" =>
       \E k \in DOMAIN messages[p] : messages'[p][n] = messages[p][k]

\* There is room for it, so that it takes nothing from the others.
LEMMA RowsAfter ==
  ASSUME TypeOK, Heeded, Kept, NEW p \in Peer, NEW q, q = Other(p), NEW id, id = sent[p] + 1,
         SendMessage(p), NEW row \in Row, Speaks(p, q, id, row)
  PROVE  RowAdded(p, id, row)
<1>0. q \in Peer /\ Other(q) = p
  BY Peers
<1>1. /\ messages[p] \in Seq(Row) /\ sent[p] \in Nat /\ sent[q] \in Nat
      /\ OwnRows(p) /\ Numbered(messages[p], sent[p]) /\ shown[p] \in Seq(1..MaxSent)
      /\ Stands(shown[p] \o Ids(wire[p]), Mine(messages[q]), sent[q])
      /\ messages[q] \in Seq(Row) /\ Numbered(messages[q], sent[q]) /\ wire[p] \in Seq(Packets)
  BY <1>0, ConversationFacts
<1>2. id \in Nat /\ id <= (IF p = "a" THEN MaxSent ELSE MaxReplies)
  BY MessageSent
<1>3. Len(messages[p]) < HistoryLimit
  <2>1. Len(shown[p]) <= 2 * sent[q]
    BY <1>1, ShownTwice
  <2>2. Len(shown[p]) \in Nat /\ Len(messages[p]) \in Nat
        /\ Len(messages[p]) <= sent[p] + Len(shown[p])
    BY <1>1, Shape DEF OwnRows
  <2>3. id + Len(shown[p]) <= HistoryLimit
    BY <1>2, <2>1, <2>2, Room
  <2>4. \A m, n, k, h \in Nat : m <= n + k /\ (n + 1) + k <= h => m < h
    OBVIOUS
  <2>5. HistoryLimit \in Nat
    BY BoundsAssumption
  <2> QED BY <1>1, <2>2, <2>3, <2>4, <2>5
<1>4. row.status # "Received" /\ row.id = sent[p] + 1 /\ messages'[p] = Inserted(messages[p], 1, row)
  BY DEF Speaks
<1> DEFINE ms == messages[p]
           t == messages'[p]
           max == sent[p]
<1>5. /\ ms \in Seq(Row) /\ max \in Nat /\ Numbered(ms, max) /\ Len(ms) < HistoryLimit
      /\ row.id = max + 1 /\ t = Inserted(ms, 1, row) /\ id = max + 1
  BY <1>1, <1>3, <1>4
<1> HIDE DEF ms, t, max
<1>6. /\ t \in Seq(Row) /\ Len(t) = Len(ms) + 1
      /\ Mine(t) = Mine(ms) \cup {row} /\ Numbered(t, id)
      /\ \A n \in DOMAIN t : t[n].status = "Received" => \E k \in DOMAIN ms : t[n] = ms[k]
  BY <1>4, <1>5, OwnInserted
<1> QED BY <1>6 DEF ms, t, RowAdded

LEMMA SendMessageKeeps ==
  ASSUME TypeOK, Heeded, Kept, NEW p \in Peer, SendMessage(p) PROVE Kept'
<1>1. PICK q \in Peer : q = Other(p)
  BY Peers
<1>2. PICK id \in {sent[p] + 1} : TRUE
  OBVIOUS
<1>3. /\ id \in 1..MaxSent /\ id <= (IF p = "a" THEN MaxSent ELSE MaxReplies)
      /\ link' = link /\ shown' = shown
      /\ sent'[p] = id /\ sent'[q] = sent[q] /\ messages'[q] = messages[q]
      /\ out'[q] = out[q] /\ wire'[p] = wire[p]
  BY <1>1, <1>2, MessageSent
<1>4. PICK row \in Row : Speaks(p, q, id, row)
  BY <1>1, <1>2, MessageSent
<1>5. /\ q # p /\ Other(q) = p /\ messages[p] \in Seq(Row) /\ sent[p] \in Nat /\ sent[q] \in Nat
      /\ OwnRows(p) /\ OwnRows(q) /\ Numbered(messages[p], sent[p])
      /\ shown[p] \in Seq(1..MaxSent) /\ shown[q] \in Seq(1..MaxSent)
      /\ wire[p] \in Seq(Packets) /\ wire[q] \in Seq(Packets)
      /\ Flow(messages[p], sent[p], shown[q], wire[q], Awaited(p))
      /\ Witnessed(messages[p], shown[p], shown[q], wire[p])
  BY <1>1, ConversationFacts DEF Flows, Seen
<1>6. id = sent[p] + 1
  BY <1>2
<1>8. /\ messages'[p] \in Seq(Row) /\ Len(messages'[p]) = Len(messages[p]) + 1
      /\ Mine(messages'[p]) = Mine(messages[p]) \cup {row} /\ Numbered(messages'[p], id)
      /\ \A n \in DOMAIN messages'[p] : messages'[p][n].status = "Received" =>
           \E k \in DOMAIN messages[p] : messages'[p][n] = messages[p][k]
  BY <1>1, <1>4, <1>6, RowsAfter DEF RowAdded
<1>9. OwnRows(p)' /\ OwnRows(q)'
  <2>1. Len(messages[p]) \in Nat /\ Len(shown[p]) \in Nat /\ Len(messages[p]) <= sent[p] + Len(shown[p])
    BY <1>5, Shape DEF OwnRows
  <2>2. Len(messages'[p]) <= id + Len(shown[p])
    BY <1>5, <1>6, <1>8, <2>1
  <2> QED BY <1>3, <1>5, <1>8, <2>2 DEF OwnRows
<1>10. Awaited(q)' = Awaited(q)
  BY <1>3, <1>5 DEF Awaited, Live
<1>11. Flows(q)'
  BY <1>3, <1>5, <1>10, ConversationFacts DEF Flows
<1>12. Seen(p)'
  <2>1. \A r \in Mine(messages'[p]) : r.status = "Delivered" => r \in Mine(messages[p])
    BY <1>4, <1>8 DEF Speaks
  <2> DEFINE ms == messages[p]
             t == messages'[p]
             own == shown[p]
             other == shown[q]
             w == wire[p]
  <2>2. Witnessed(ms, own, other, w)
    BY <1>5
  <2>3. \A n \in DOMAIN t : t[n].status = "Received" =>
          \E k \in DOMAIN ms : ms[k].status = "Received" /\ ms[k].id = t[n].id
    BY <1>8
  <2>4. \A r \in Mine(t) : r.status = "Delivered" => r \in Mine(ms)
    BY <2>1
  <2> HIDE DEF ms, t, own, other, w
  <2>5. Witnessed(t, own, other, w)
    BY <2>2, <2>3, <2>4 DEF Witnessed
  <2> QED BY <1>1, <1>3, <2>5 DEF Seen, t, own, other, w
<1>13. Seen(q)' /\ Flows(p)'
  <2> DEFINE ms == messages[p]
             t == messages'[p]
             max == sent[p]
             sh == shown[q]
             w == wire[q]
             x == wire'[q]
             statuses == Awaited(p)
             fewer == Awaited(p)'
  <2>1. /\ ms \in Seq(Row) /\ max \in Nat /\ Numbered(ms, max) /\ sh \in Seq(1..MaxSent)
        /\ w \in Seq(Packets) /\ Flow(ms, max, sh, w, statuses) /\ Mine(t) = Mine(ms) \cup {row}
        /\ row.id = max + 1 /\ id = max + 1
    BY <1>4, <1>5, <1>6, <1>8 DEF Speaks
  <2>2. \A r \in Mine(ms) : r.status = "Delivered" => Occurs(sh, r.id)
    BY <1>5 DEF Witnessed
  <2>3. Live(q)' <=> Live(q)
    BY <1>3 DEF Live
  <2>4. ~Live(q) => w = << >>
    BY <1>1 DEF Heeded, Listens
  <2>5. statuses = (IF ~Live(q) THEN {} ELSE IF out[p] = "open" THEN {"Sending", "Queued"} ELSE {"Sending"})
        /\ fewer = (IF ~Live(q) THEN {} ELSE IF out'[p] = "open" THEN {"Sending", "Queued"} ELSE {"Sending"})
    BY <1>1, <2>3 DEF Awaited
  <2>6. shown'[q] = shown[q] /\ \A m : Occurs(shown[p], m) => Occurs(shown'[p], m)
    BY <1>3
  <2>7. (messages[p])' = t /\ sent'[p] = id /\ shown'[q] = sh /\ wire'[q] = x
    BY <1>3
  <2>10. t \in Seq(Row)
    BY <1>8
  <2>8. CASE out[p] = "open"
    <3>1. PICK v \in { << [kind |-> "message", id |-> id] >> } : TRUE
      OBVIOUS
    <3>2. v \in Seq(Packets) /\ \A n \in DOMAIN v : v[n].kind # "ack"
      <4>1. v \in Seq(Packets) /\ v = << [kind |-> "message", id |-> id] >>
        BY <1>3, <3>1, Single
      <4> QED BY <4>1
    <3>3. Comes(q, v)
      BY <1>4, <2>8, <3>1 DEF Speaks
    <3>4. x = IF Live(q) THEN w \o v ELSE << >>
      BY <3>3 DEF Comes
    <3>5. Seen(q)'
      BY <1>3, <1>5, <2>6, <3>2, <3>3, WroteSeen
    <3>6. row.status = "Sending" /\ row.attempts = 1 /\ out'[p] = "open"
      BY <1>4, <2>8 DEF Speaks
    <3> HIDE DEF ms, t, max, sh, w, x, statuses, fewer
    <3>7. Flow(t, max + 1, sh, x, fewer)
      <4>1. CASE Live(q)
        <5>1. statuses = {"Sending", "Queued"} /\ fewer = {"Sending", "Queued"} /\ x = w \o v
          BY <2>5, <2>8, <3>4, <3>6, <4>1
        <5>2. v = << [kind |-> "message", id |-> max + 1] >>
          BY <2>1, <3>1
        <5> QED BY <2>1, <2>2, <3>2, <3>6, <5>1, <5>2, FlowAtOnce
      <4>2. CASE ~Live(q)
        <5>1. fewer = {} /\ x = w
          BY <2>4, <2>5, <3>4, <4>2
        <5>2. fewer \subseteq statuses /\ row.status \notin fewer
          BY <5>1
        <5>3. Flow(t, max + 1, sh, w, fewer)
          BY <2>1, <5>2, FlowNew
        <5> QED BY <5>1, <5>3
      <4> QED BY <4>1, <4>2
    <3> QED BY <1>1, <2>1, <2>7, <3>5, <3>7 DEF Flows, t, sh, x, fewer
  <2>9. CASE out[p] # "open"
    <3>1. PICK v \in Seq(Packets) :
            (\A n \in DOMAIN v : v[n].kind \notin {"message", "ack"}) /\ Comes(q, v)
      BY <1>4, <2>9 DEF Speaks
    <3>2. x = IF Live(q) THEN w \o v ELSE << >>
      BY <3>1 DEF Comes
    <3>3. Seen(q)'
      BY <1>3, <1>5, <2>6, <3>1, WroteSeen
    <3>4. row.status = "Queued" /\ out'[p] # "open"
      BY <1>4, <2>9 DEF Speaks
    <3> HIDE DEF ms, t, max, sh, w, x, statuses, fewer
    <3>5. fewer \subseteq statuses /\ row.status \notin fewer
      BY <2>5, <2>9, <3>4
    <3>6. Flow(t, max + 1, sh, w, fewer)
      BY <2>1, <3>5, FlowNew
    <3>7. Flow(t, max + 1, sh, x, fewer)
      <4>1. CASE Live(q)
        <5>1. x = w \o v /\ max + 1 \in Nat
          BY <2>1, <3>2, <4>1
        <5>2. \A n \in DOMAIN v : v[n].kind # "message"
          BY <3>1
        <5> QED BY <2>1, <3>6, <2>10, <5>1, <5>2, FlowWritten
      <4>2. CASE ~Live(q)
        <5>1. x = w
          BY <2>4, <3>2, <4>2
        <5> QED BY <3>6, <5>1
      <4> QED BY <4>1, <4>2
    <3> QED BY <1>1, <2>1, <2>7, <3>3, <3>7 DEF Flows, t, sh, x, fewer
  <2> QED BY <2>8, <2>9
<1> QED BY <1>1, <1>9, <1>11, <1>12, <1>13, BothKept

LEMMA KeptStep ==
  ASSUME TypeOK, Heeded, Kept, [Next]_vars
  PROVE  Kept'
<1>1. CASE UNCHANGED vars
  <2>1. \A x \in Peer : Live(x)' <=> Live(x)
    BY <1>1 DEF Live, vars
  <2> QED BY <1>1, <2>1, SameKept DEF vars
<1> QED BY <1>1, ConnectKeeps, ReceiveKnownKeeps, ClosedKeeps, FileChannelClosedKeeps,
        ReceiveOpenKeeps, ReceiveOpenedKeeps, SendMessageKeeps, ReceiveMessageKeeps,
        ReceiveAckKeeps, OnConnectedKeeps, OnDisconnectedKeeps, SendQueuedMessagesKeeps
    DEF Next, Receive, Call, Drop, PeerGone

LEMMA InitKept == Init => Kept
<1> SUFFICES ASSUME Init, NEW p \in Peer PROVE OwnRows(p) /\ Flows(p) /\ Seen(p)
  BY DEF Kept
<1>1. /\ messages[p] = << >> /\ sent[p] = 0 /\ shown[p] = << >> /\ wire[p] = << >>
      /\ shown[Other(p)] = << >> /\ wire[Other(p)] = << >> /\ Live(Other(p)) = FALSE
  BY Peers DEF Init, Live
<1>2. Own(<< >>) = {} /\ Mine(<< >>) = {}
  BY DEF Own, Mine
<1>3. DOMAIN << >> = {} /\ Len(<< >>) = 0
  OBVIOUS
<1>4. OwnRows(p)
  <2>1. MaxSent \in Nat /\ MaxReplies \in Nat
    BY BoundsAssumption
  <2> QED BY <1>1, <1>2, <1>3, <2>1 DEF OwnRows, Numbered
<1>5. Flows(p)
  <2>1. PICK s \in { << >> } : TRUE
    OBVIOUS
  <2>2. DOMAIN s = {} /\ s \in Seq(Packets) /\ s \in Seq(Nat)
    BY <1>3, <2>1
  <2>3. PICK u : u = Ids(s)
    OBVIOUS
  <2>4. u = << >>
    BY <2>1, <2>3, EmptySeq DEF Ids
  <2>5. << >> \o << >> = << >>
    OBVIOUS
  <2>6. << >> \o Ids(<< >>) = << >>
    BY <2>1, <2>3, <2>4, <2>5
  <2>7. Stands(<< >>, {}, 0) /\ Holds(<< >>, {}, {})
    BY <1>3 DEF Stands, Holds, Ordered
  <2> QED BY <1>1, <1>2, <2>6, <2>7 DEF Flows, Flow, Awaited
<1>6. Seen(p)
  BY <1>1, <1>2, <1>3 DEF Seen, Witnessed
<1> QED BY <1>4, <1>5, <1>6

-----------------------------------------------------------------------------
\* What a user is told of his messages.

Place(ms, m) == CHOOSE n \in DOMAIN ms : ms[n].id = m /\ ms[n].status # "Received"
Outcome(r) ==
  CASE r.status = "Delivered" -> "delivered"
    [] r.status = "Error" -> "failed"
    [] OTHER -> "pending"
Outcomes(ms, max) == [m \in 1..max |-> Outcome(ms[Place(ms, m)])]

LEMMA OutcomeOf ==
  ASSUME NEW ms \in Seq(Row), NEW max \in Nat, Numbered(ms, max)
  PROVE  /\ \A r \in Mine(ms) : r.id \in 1..max /\ Outcomes(ms, max)[r.id] = Outcome(r)
         /\ \A m \in 1..max : \E r \in Mine(ms) : r.id = m
         /\ DOMAIN Outcomes(ms, max) = 1..max
<1>1. ASSUME NEW n \in Own(ms) PROVE Place(ms, ms[n].id) = n
  <2>1. n \in DOMAIN ms /\ ms[n].status # "Received"
    BY DEF Own
  <2>2. Place(ms, ms[n].id) \in Own(ms) /\ ms[Place(ms, ms[n].id)].id = ms[n].id
    BY <2>1 DEF Place, Own
  <2> QED BY <2>2, Distinct
<1>2. ASSUME NEW r \in Mine(ms) PROVE r.id \in 1..max /\ Outcomes(ms, max)[r.id] = Outcome(r)
  <2>1. r.id \in 1..max
    <3>1. r.id \in 1..MaxSent /\ MaxSent \in Nat
      BY MineRows, BoundsAssumption
    <3> QED BY <3>1 DEF Numbered
  <2>2. PICK n \in Own(ms) : r = ms[n]
    BY DEF Mine
  <2> QED BY <1>1, <2>1, <2>2 DEF Outcomes
<1> QED BY <1>2 DEF Numbered, Outcomes

\* Rows in another state than before, but with the same outcome.
LEMMA SameOutcomes ==
  ASSUME NEW ms \in Seq(Row), NEW t \in Seq(Row), NEW max \in Nat,
         Numbered(ms, max), Numbered(t, max),
         \A x \in Mine(t) : \E r \in Mine(ms) : r.id = x.id /\ Outcome(r) = Outcome(x)
  PROVE  Outcomes(t, max) = Outcomes(ms, max)
<1>1. ASSUME NEW m \in 1..max PROVE Outcomes(t, max)[m] = Outcomes(ms, max)[m]
  <2>1. PICK x \in Mine(t) : x.id = m
    BY OutcomeOf
  <2>2. PICK r \in Mine(ms) : r.id = x.id /\ Outcome(r) = Outcome(x)
    OBVIOUS
  <2> QED BY <2>1, <2>2, OutcomeOf
<1> QED BY <1>1 DEF Outcomes

LEMMA SentOutcomes ==
  ASSUME NEW ms \in Seq(Row), NEW max \in Nat, Numbered(ms, max),
         \A n \in DOMAIN ms : ms[n].status = "Queued" => ms[n].attempts < 2
  PROVE  Outcomes(Sent(ms), max) = Outcomes(ms, max)
<1> DEFINE t == Sent(ms)
<1>1. /\ t \in Seq(Row) /\ Alike(ms, t)
      /\ \A n \in DOMAIN ms : IF ms[n].status = "Queued" THEN t[n].status = "Sending" ELSE t[n] = ms[n]
  BY SentAlike
<1> HIDE DEF t
<1>2. Own(t) = Own(ms) /\ Numbered(t, max) /\ Own(ms) \subseteq DOMAIN ms
  BY <1>1, AlikeNumbered, MineRows
<1>3. ASSUME NEW n \in Own(ms) PROVE ms[n].id = t[n].id /\ Outcome(ms[n]) = Outcome(t[n])
  BY <1>1, <1>2 DEF Alike, Outcome
<1>4. \A x \in Mine(t) : \E r \in Mine(ms) : r.id = x.id /\ Outcome(r) = Outcome(x)
  BY <1>2, <1>3 DEF Mine
<1>5. Outcomes(t, max) = Outcomes(ms, max)
  BY <1>1, <1>2, <1>4, SameOutcomes
<1> QED BY <1>5 DEF t

\* The messages of S, all pending, are given up.
Fails(old, new, S, max) ==
  /\ S \subseteq 1..max /\ \A m \in S : old[m] = "pending"
  /\ new = [m \in 1..max |-> IF m \in S THEN "failed" ELSE old[m]]

LEMMA RequeuedOutcomes ==
  ASSUME NEW ms \in Seq(Row), NEW max \in Nat, Numbered(ms, max)
  PROVE  \E S : Fails(Outcomes(ms, max), Outcomes(Requeued(ms), max), S, max)
<1> DEFINE t == Requeued(ms)
           old == Outcomes(ms, max)
           new == Outcomes(t, max)
           S == {m \in 1..max : new[m] # old[m]}
<1>1. /\ t \in Seq(Row) /\ Alike(ms, t)
      /\ \A n \in DOMAIN ms : IF ms[n].status = "Sending"
                              THEN t[n].status \in {"Queued", "Error"} ELSE t[n] = ms[n]
  BY RequeuedAlike
<1> HIDE DEF t
<1>2. Own(t) = Own(ms) /\ Numbered(t, max) /\ Own(ms) \subseteq DOMAIN ms
  BY <1>1, AlikeNumbered, MineRows
<1>3. ASSUME NEW n \in Own(ms)
      PROVE  /\ ms[n].id = t[n].id
             /\ \/ Outcome(ms[n]) = Outcome(t[n])
                \/ Outcome(ms[n]) = "pending" /\ Outcome(t[n]) = "failed"
  BY <1>1, <1>2 DEF Alike, Outcome
<1>4. ASSUME NEW m \in 1..max
      PROVE  new[m] = old[m] \/ (old[m] = "pending" /\ new[m] = "failed")
  <2>1. PICK x \in Mine(t) : x.id = m
    BY <1>1, <1>2, OutcomeOf
  <2>2. PICK n \in Own(ms) : x = t[n]
    BY <1>2 DEF Mine
  <2>3. ms[n] \in Mine(ms)
    BY DEF Mine
  <2> QED BY <1>1, <1>2, <1>3, <2>1, <2>2, <2>3, OutcomeOf
<1>5. new = [m \in 1..max |-> new[m]]
  BY DEF Outcomes
<1> HIDE DEF old, new
<1>6. S \subseteq 1..max /\ \A m \in S : old[m] = "pending"
  BY <1>4
<1>7. \A m \in 1..max : new[m] = IF m \in S THEN "failed" ELSE old[m]
  BY <1>4
<1> HIDE DEF S
<1>8. Fails(old, new, S, max)
  BY <1>5, <1>6, <1>7 DEF Fails
<1> QED BY <1>8 DEF old, new, t

LEMMA AcknowledgedOutcomes ==
  ASSUME NEW ms \in Seq(Row), NEW max \in Nat, Numbered(ms, max), NEW id \in 1..max
  PROVE  Outcomes(Acknowledged(ms, id), max) = [Outcomes(ms, max) EXCEPT ![id] = "delivered"]
<1> DEFINE t == Acknowledged(ms, id)
           old == Outcomes(ms, max)
           new == Outcomes(t, max)
<1>1. /\ t \in Seq(Row) /\ Alike(ms, t)
      /\ \A n \in DOMAIN ms : IF n \in Own(ms) /\ ms[n].id = id
                              THEN t[n].status = "Delivered" ELSE t[n] = ms[n]
  BY AcknowledgedAlike
<1> HIDE DEF t
<1>2. Own(t) = Own(ms) /\ Numbered(t, max) /\ Own(ms) \subseteq DOMAIN ms
  BY <1>1, AlikeNumbered, MineRows
<1>3. ASSUME NEW n \in Own(ms)
      PROVE  /\ ms[n].id = t[n].id
             /\ Outcome(t[n]) = IF ms[n].id = id THEN "delivered" ELSE Outcome(ms[n])
  BY <1>1, <1>2 DEF Alike, Outcome
<1>4. ASSUME NEW m \in 1..max PROVE new[m] = IF m = id THEN "delivered" ELSE old[m]
  <2>1. PICK x \in Mine(t) : x.id = m
    BY <1>1, <1>2, OutcomeOf
  <2>2. PICK n \in Own(ms) : x = t[n]
    BY <1>2 DEF Mine
  <2>3. ms[n] \in Mine(ms)
    BY DEF Mine
  <2> QED BY <1>1, <1>2, <1>3, <2>1, <2>2, <2>3, OutcomeOf
<1>5. new = [m \in 1..max |-> new[m]] /\ old = [m \in 1..max |-> old[m]]
  BY DEF Outcomes
<1> HIDE DEF old, new
<1>6. new = [old EXCEPT ![id] = "delivered"]
  BY <1>4, <1>5
<1> QED BY <1>6 DEF old, new, t

LEMMA NewOutcomes ==
  ASSUME NEW ms \in Seq(Row), NEW t \in Seq(Row), NEW max \in Nat,
         Numbered(ms, max), Numbered(t, max + 1),
         NEW row, row.id = max + 1, row.status \in {"Sending", "Queued"},
         Mine(t) = Mine(ms) \cup {row}
  PROVE  /\ Len(Outcomes(ms, max)) = max
         /\ Outcomes(t, max + 1) = Append(Outcomes(ms, max), "pending")
<1> DEFINE old == Outcomes(ms, max)
           new == Outcomes(t, max + 1)
           Words == {"delivered", "failed", "pending"}
<1>1. old \in [1..max -> Words] /\ new \in [1..(max + 1) -> Words]
  BY DEF Outcomes, Outcome
<1>2. ASSUME NEW m \in 1..(max + 1) PROVE new[m] = IF m = max + 1 THEN "pending" ELSE old[m]
  <2>1. CASE m = max + 1
    <3>1. row \in Mine(t) /\ Outcome(row) = "pending"
      BY DEF Outcome
    <3> QED BY <2>1, <3>1, OutcomeOf
  <2>2. CASE m # max + 1
    <3>1. m \in 1..max
      BY <2>2
    <3>2. PICK r \in Mine(ms) : r.id = m
      BY <3>1, OutcomeOf
    <3> QED BY <2>2, <3>2, OutcomeOf
  <2> QED BY <2>1, <2>2
<1> HIDE DEF old, new, Words
<1>3. old \in Seq(Words) /\ Len(old) = max /\ new \in Seq(Words) /\ Len(new) = max + 1
  BY <1>1, LenProperties
<1>4. "pending" \in Words
  BY DEF Words
<1>5. PICK u \in Seq(Words) : u = Append(old, "pending")
  BY <1>3, <1>4, Added
<1>6. Len(u) = max + 1 /\ (\A n \in 1..max : u[n] = old[n]) /\ u[max + 1] = "pending"
  BY <1>3, <1>4, <1>5, Added, Shape
<1>7. \A n \in 1..(max + 1) : new[n] = u[n]
  BY <1>2, <1>6
<1>8. new = u
  BY <1>3, <1>6, <1>7, SeqEqual
<1> QED BY <1>3, <1>5, <1>8 DEF old, new

\* How often a message was shown.
LEMMA Copies ==
  ASSUME NEW S, NEW sh \in Seq(S), NEW m,
         NEW times, times = Cardinality({n \in DOMAIN sh : sh[n] = m})
  PROVE  /\ times \in Nat /\ (times = 0 <=> ~Occurs(sh, m))
         /\ Once(sh, m) => times < 2
<1> DEFINE C == {n \in DOMAIN sh : sh[n] = m}
<1>1. IsFiniteSet(C)
  <2>1. Len(sh) \in Nat /\ DOMAIN sh = 1..Len(sh)
    BY Shape
  <2>2. IsFiniteSet(1..Len(sh))
    BY <2>1, FS_Interval
  <2> QED BY <2>1, <2>2, FS_Subset
<1>2. times \in Nat /\ (times = 0 <=> C = {})
  BY <1>1, FS_CardinalityType, FS_EmptySet
<1>3. times = 0 <=> ~Occurs(sh, m)
  BY <1>2 DEF Occurs
<1>4. ASSUME Once(sh, m) PROVE times < 2
  <2>1. CASE C = {}
    BY <1>2, <2>1
  <2>2. CASE C # {}
    <3>1. PICK k \in C : TRUE
      BY <2>2
    <3>2. C = {k}
      BY <1>4, <3>1 DEF Once
    <3> HIDE DEF C
    <3>3. Cardinality({k}) = 1
      BY FS_Singleton
    <3>4. Cardinality(C) = 1
      BY <3>2, <3>3
    <3> QED BY <3>4 DEF C
  <2> QED BY <2>1, <2>2
<1> QED BY <1>2, <1>3, <1>4

\* The message that is shown next, when its sender has sent max and has the rows ms.
LEMMA ShownNext ==
  ASSUME NEW ms \in Seq(Row), NEW max \in Nat, Numbered(ms, max),
         NEW sh \in Seq(1..MaxSent), NEW w \in Seq(Packets),
         Stands(sh \o Ids(w), Mine(ms), max),
         w # << >>, Head(w).kind = "message", NEW id \in 1..MaxSent, id = Head(w).id
  PROVE  /\ id \in 1..max /\ Once(sh, id)
         /\ ~Occurs(sh, id) =>
              \A n \in 1..max : IF n < id THEN Occurs(sh, n) \/ Outcomes(ms, max)[n] = "failed"
                                ELSE ~Occurs(sh, n)
<1> DEFINE s == sh \o Ids(w)
           k == Len(sh) + 1
<1>1. Stands(s, Mine(ms), max) /\ IsStream(s, sh, w)
  BY StreamType
<1>2. id \in Nat /\ Len(sh) \in Nat /\ DOMAIN sh = 1..Len(sh) /\ 1 \in DOMAIN w /\ w[1] = Head(w)
  BY Shape, Dropped
<1>3. \A m \in 1..max : Twice(s, m)
  BY ShownTwice
<1> HIDE DEF s
<1>4. k \in DOMAIN s /\ s[k] = id /\ \A n \in DOMAIN sh : n \in DOMAIN s /\ s[n] = sh[n]
  BY <1>1, <1>2 DEF IsStream
<1>5. id \in 1..max /\ Ordered(s, Failed(Mine(ms)))
  BY <1>1, <1>2, <1>4 DEF Stands
<1>6. Once(sh, id)
  <2>1. Twice(s, id)
    BY <1>3, <1>5
  <2>2. SUFFICES ASSUME NEW i \in DOMAIN sh, NEW j \in DOMAIN sh, sh[i] = id, sh[j] = id PROVE i = j
    BY DEF Once
  <2>3. i # k /\ j # k
    BY <1>2
  <2>4. s[i] = id /\ s[j] = id /\ i \in DOMAIN s /\ j \in DOMAIN s
    BY <1>4, <2>2
  <2> HIDE DEF k
  <2> QED BY <1>4, <2>1, <2>3, <2>4 DEF Twice
<1>7. 1..(k - 1) = DOMAIN sh
  BY <1>2
<1>8. ASSUME NEW n \in 1..max, n < id PROVE Occurs(sh, n) \/ Outcomes(ms, max)[n] = "failed"
  <2>1. n \in 1..(s[k] - 1)
    BY <1>2, <1>4, <1>8
  <2>2. (\E j \in 1..(k - 1) : s[j] = n) \/ n \in Failed(Mine(ms))
    BY <1>4, <1>5, <2>1 DEF Ordered
  <2>3. CASE \E j \in 1..(k - 1) : s[j] = n
    BY <1>4, <1>7, <2>3 DEF Occurs
  <2>4. CASE n \in Failed(Mine(ms))
    <3>1. PICK r \in Mine(ms) : r.status = "Error" /\ r.id = n
      BY <2>4 DEF Failed
    <3>2. Outcome(r) = "failed"
      BY <3>1 DEF Outcome
    <3> QED BY <3>1, <3>2, OutcomeOf
  <2> QED BY <2>2, <2>3, <2>4
<1>9. ASSUME ~Occurs(sh, id), NEW n \in 1..max, ~(n < id) PROVE ~Occurs(sh, n)
  <2>1. CASE n = id
    BY <1>9, <2>1
  <2>2. CASE n # id
    <3> SUFFICES ASSUME Occurs(sh, n) PROVE FALSE
      OBVIOUS
    <3>1. PICK j \in DOMAIN sh : sh[j] = n
      BY DEF Occurs
    <3>2. j \in DOMAIN s /\ s[j] = n /\ id \in 1..(s[j] - 1)
      BY <1>4, <1>5, <1>9, <2>2, <3>1
    <3>3. (\E i \in 1..(j - 1) : s[i] = id) \/ ~Occurs(s, id)
      BY <1>5, <3>2 DEF Ordered
    <3>4. Occurs(s, id)
      BY <1>4 DEF Occurs
    <3>5. PICK i \in 1..(j - 1) : s[i] = id
      BY <3>3, <3>4
    <3>6. i \in DOMAIN sh
      BY <1>2, <3>1, <3>5
    <3> QED BY <1>4, <1>9, <3>5, <3>6 DEF Occurs
  <2> QED BY <2>1, <2>2
<1> QED BY <1>5, <1>6, <1>8, <1>9

-----------------------------------------------------------------------------
\* The steps of the conversation as steps of its promise.

told == [p \in Peer |-> [m \in 1..sent[p] |-> Fate(p, m)]]

LEMMA ToldOutcomes ==
  /\ told = [p \in Peer |-> Outcomes(messages[p], sent[p])]
  /\ told' = [p \in Peer |-> Outcomes(messages'[p], sent'[p])]
BY DEF told, Outcomes, Fate, RowOf, Place, Outcome

\* A step that changes what one user knows of his messages, at most.
LEMMA ToldOne ==
  ASSUME NEW p \in Peer, NEW q, q = Other(p), messages'[q] = messages[q], sent'[q] = sent[q]
  PROVE  told' = [told EXCEPT ![p] = Outcomes(messages'[p], sent'[p])]
<1>1. q \in Peer /\ q # p /\ \A x \in Peer : x = p \/ x = q
  BY Peers
<1>2. \A x \in Peer : told'[x] = IF x = p THEN Outcomes(messages'[p], sent'[p]) ELSE told[x]
  BY <1>1, ToldOutcomes
<1>3. told' = [x \in Peer |-> told'[x]] /\ told = [x \in Peer |-> told[x]]
  BY DEF told
<1> HIDE DEF told
<1> QED BY <1>2, <1>3

LEMMA ToldNone ==
  ASSUME NEW p \in Peer, NEW q, q = Other(p), messages'[q] = messages[q], sent'[q] = sent[q],
         Outcomes(messages'[p], sent'[p]) = Outcomes(messages[p], sent[p])
  PROVE  told' = told
<1>1. \A x \in Peer : x = p \/ x = q
  BY Peers
<1> QED BY <1>1, ToldOutcomes

LEMMA TimesShown ==
  ASSUME TypeOK, NEW p \in Peer, NEW m
  PROVE  /\ Promise!Times(p, m) \in Nat
         /\ Promise!Times(p, m) = 0 <=> ~Occurs(shown[p], m)
         /\ Once(shown[p], m) => Promise!Times(p, m) < 2
<1> DEFINE sh == shown[p]
           times == Cardinality({n \in DOMAIN sh : sh[n] = m})
<1>1. Promise!Times(p, m) = times
  BY DEF Promise!Times, Promise!Cardinality, Cardinality, Promise!IsFiniteSet, IsFiniteSet
<1>2. sh \in Seq(1..MaxSent)
  BY DEF TypeOK
<1> HIDE DEF sh
<1>3. /\ times \in Nat /\ (times = 0 <=> ~Occurs(sh, m))
      /\ Once(sh, m) => times < 2
  BY <1>2, Copies
<1> HIDE DEF times
<1> QED BY <1>1, <1>3 DEF sh

LEMMA Submits ==
  ASSUME TypeOK, Heeded, Kept, NEW p \in Peer, SendMessage(p) PROVE Promise!Submit(p)
<1>1. PICK q \in Peer : q = Other(p)
  BY Peers
<1>2. PICK id \in {sent[p] + 1} : TRUE
  OBVIOUS
<1>3. /\ id = sent[p] + 1 /\ id \in 1..MaxSent /\ shown' = shown
      /\ sent'[p] = id /\ sent'[q] = sent[q] /\ messages'[q] = messages[q]
  BY <1>1, <1>2, MessageSent
<1>4. PICK row \in Row : Speaks(p, q, id, row)
  BY <1>1, <1>2, MessageSent
<1>5. /\ messages'[p] \in Seq(Row) /\ Mine(messages'[p]) = Mine(messages[p]) \cup {row}
      /\ Numbered(messages'[p], id)
  BY <1>1, <1>3, <1>4, RowsAfter DEF RowAdded
<1>6. row.id = id /\ row.status \in {"Sending", "Queued"}
  BY <1>4 DEF Speaks
<1> DEFINE ms == messages[p]
           t == messages'[p]
           max == sent[p]
<1>7. /\ ms \in Seq(Row) /\ t \in Seq(Row) /\ max \in Nat /\ Numbered(ms, max)
      /\ Numbered(t, max + 1) /\ row.id = max + 1 /\ Mine(t) = Mine(ms) \cup {row}
  BY <1>3, <1>5, <1>6, ConversationFacts
<1>8. told' = [told EXCEPT ![p] = Outcomes(t, max + 1)] /\ told[p] = Outcomes(ms, max)
  BY <1>1, <1>3, ToldOne, ToldOutcomes
<1> HIDE DEF ms, t, max
<1>9. Len(Outcomes(ms, max)) = max /\ Outcomes(t, max + 1) = Append(Outcomes(ms, max), "pending")
  BY <1>6, <1>7, NewOutcomes
<1>10. Len(told[p]) < MaxSent
  <2>1. max + 1 <= MaxSent /\ MaxSent \in Nat
    BY <1>3, BoundsAssumption DEF max
  <2> QED BY <1>7, <1>8, <1>9, <2>1
<1>11. told' = [told EXCEPT ![p] = Append(told[p], "pending")]
  BY <1>8, <1>9
<1> QED BY <1>3, <1>10, <1>11 DEF Promise!Submit, told

\* What is sent again or given up when channels close.
LEMMA GivesUp ==
  ASSUME TypeOK, Kept, NEW p \in Peer, NEW q, q = Other(p), messages'[q] = messages[q],
         sent' = sent, shown' = shown,
         messages'[p] = messages[p] \/ messages'[p] = Requeued(messages[p])
  PROVE  Promise!GiveUp(p) \/ UNCHANGED <<told, shown>>
<1>1. CASE messages'[p] = messages[p]
  BY <1>1, ToldNone
<1>2. CASE messages'[p] = Requeued(messages[p])
  <2> DEFINE ms == messages[p]
             max == sent[p]
             old == Outcomes(ms, max)
             new == Outcomes(Requeued(ms), max)
  <2>1. ms \in Seq(Row) /\ max \in Nat /\ Numbered(ms, max)
    BY ConversationFacts
  <2>2. told' = [told EXCEPT ![p] = new] /\ told[p] = old
    BY <1>2, ToldOne, ToldOutcomes
  <2>3. DOMAIN old = 1..max
    BY DEF Outcomes
  <2>4. PICK S : Fails(old, new, S, max)
    <3> HIDE DEF ms, max
    <3> QED BY <2>1, RequeuedOutcomes
  <2> HIDE DEF ms, max, old, new
  <2>5. /\ S \in SUBSET DOMAIN told[p] /\ \A m \in S : told[p][m] = "pending"
        /\ new = [m \in DOMAIN told[p] |-> IF m \in S THEN "failed" ELSE told[p][m]]
    BY <2>2, <2>3, <2>4 DEF Fails
  <2>6. told' = [told EXCEPT ![p] = [m \in DOMAIN told[p] |-> IF m \in S THEN "failed" ELSE told[p][m]]]
    BY <2>2, <2>5
  <2> QED BY <2>5, <2>6 DEF Promise!GiveUp, told
<1> QED BY <1>1, <1>2

\* Nothing that is sent from the queue is reported.
LEMMA QueueTells ==
  ASSUME TypeOK, Heeded, Kept, NEW p \in Peer, NEW STATE c, NEW STATE unread,
         SendQueued(p, c, unread), sent' = sent
  PROVE  told' = told
<1> DEFINE q == Other(p)
<1>1. /\ q # p /\ messages \in [Peer -> Seq(Row)] /\ messages[p] \in Seq(Row) /\ sent[p] \in Nat
      /\ Numbered(messages[p], sent[p]) /\ Waits(p)
  BY ConversationFacts DEF TypeOK, Heeded
<1>2. messages' = messages \/ messages' = [messages EXCEPT ![p] = Sent(@)]
  BY DEF SendQueued
<1>3. messages'[q] = messages[q] /\ messages'[p] \in {messages[p], Sent(messages[p])}
  BY <1>1, <1>2, Peers
<1>4. Outcomes(Sent(messages[p]), sent[p]) = Outcomes(messages[p], sent[p])
  BY <1>1, SentOutcomes DEF Waits
<1>5. Outcomes(messages'[p], sent'[p]) = Outcomes(messages[p], sent[p])
  BY <1>3, <1>4
<1> QED BY <1>3, <1>5, ToldNone

\* An acknowledgement is of a message that was shown.
LEMMA Delivers ==
  ASSUME TypeOK, Heeded, Kept, NEW p \in Peer, ReceiveAck(p)
  PROVE  UNCHANGED <<told, shown>> \/ \E m \in 1..MaxSent : Promise!Deliver(p, m)
<1>1. PICK q \in Peer : q = Other(p)
  BY Peers
<1>2. PICK id \in {Head(wire[p]).id} : TRUE
  OBVIOUS
<1>3. /\ sent' = sent /\ shown' = shown /\ messages'[q] = messages[q]
      /\ messages'[p] \in {messages[p], Acknowledged(messages[p], id)}
  BY <1>1, <1>2, ConversationFacts DEF ReceiveAck, TypeOK
<1>4. CASE messages'[p] = messages[p]
  BY <1>1, <1>3, <1>4, ToldNone
<1>5. CASE messages'[p] = Acknowledged(messages[p], id)
  <2>1. /\ wire[p] # << >> /\ Head(wire[p]).kind = "ack" /\ wire[p] \in Seq(Packets)
        /\ 1 \in DOMAIN wire[p] /\ Head(wire[p]) = wire[p][1]
    BY Facts, Dropped DEF ReceiveAck, Reads
  <2>2. Occurs(shown[q], id)
    BY <1>1, <1>2, <2>1, ConversationFacts DEF Seen, Witnessed
  <2> DEFINE ms == messages[p]
             max == sent[p]
             sh == shown[q]
             w == wire[q]
  <2>3. /\ ms \in Seq(Row) /\ max \in Nat /\ Numbered(ms, max) /\ sh \in Seq(1..MaxSent)
        /\ w \in Seq(Packets) /\ Stands(sh \o Ids(w), Mine(ms), max) /\ max <= MaxSent
    <3>1. max <= MaxSent
      BY BoundsAssumption DEF TypeOK
    <3> QED BY <1>1, <3>1, ConversationFacts
  <2>4. told' = [told EXCEPT ![p] = Outcomes(Acknowledged(ms, id), max)]
        /\ told[p] = Outcomes(ms, max)
    BY <1>1, <1>3, <1>5, ToldOne, ToldOutcomes
  <2> HIDE DEF ms, max, w
  <2>5. id \in 1..max
    BY <2>2, <2>3, ShownTwice DEF Occurs
  <2>6. Outcomes(Acknowledged(ms, id), max) = [Outcomes(ms, max) EXCEPT ![id] = "delivered"]
    BY <2>3, <2>5, AcknowledgedOutcomes
  <2>7. DOMAIN told[p] = 1..max
    BY <2>4 DEF Outcomes
  <2>8. told' = [told EXCEPT ![p] = [told[p] EXCEPT ![id] = "delivered"]]
    BY <2>4, <2>6
  <2>9. Promise!Times(q, id) > 0
    <3>1. Promise!Times(q, id) \in Nat /\ Promise!Times(q, id) # 0
      BY <1>1, <2>2, TimesShown
    <3> QED BY <3>1
  <2>10. q = Promise!Other(p)
    BY <1>1 DEF Promise!Other, Other
  <2>11. Promise!Deliver(p, id)
    BY <1>3, <2>5, <2>7, <2>8, <2>9, <2>10 DEF Promise!Deliver, told
  <2>12. id \in 1..MaxSent
    BY <2>3, <2>5, BoundsAssumption
  <2> QED BY <2>11, <2>12
<1> QED BY <1>3, <1>4, <1>5

\* A message that is shown is the next one, or a second copy.
LEMMA Shown ==
  ASSUME TypeOK, Heeded, Kept, NEW p \in Peer, ReceiveMessage(p)
  PROVE  UNCHANGED <<told, shown>> \/ \E m \in 1..MaxSent : Promise!Show(p, m) /\ UNCHANGED told
<1>1. PICK q \in Peer : q = Other(p) /\ Other(q) = p
  BY Peers
<1>2. PICK id \in {Head(wire[p]).id} : TRUE
  OBVIOUS
<1>3. /\ id \in 1..MaxSent /\ sent' = sent /\ wire[p] # << >> /\ Head(wire[p]).kind = "message"
      /\ messages'[q] = messages[q] /\ shown'[q] = shown[q]
      /\ \/ messages' = messages /\ shown' = shown
         \/ messages'[p] = Received(messages[p], id) /\ shown'[p] = Append(shown[p], id)
  BY <1>1, <1>2, MessageRead
<1>4. CASE messages' = messages /\ shown' = shown
  BY <1>1, <1>3, <1>4, ToldNone
<1>5. CASE messages'[p] = Received(messages[p], id) /\ shown'[p] = Append(shown[p], id)
  <2>1. told' = told
    <3>1. RowReceived(p, id)
      BY <1>1, <1>2, <1>5, RowsReceived
    <3> DEFINE t == messages'[p]
               was == messages[p]
               own == sent[p]
    <3>2. was \in Seq(Row) /\ own \in Nat /\ Numbered(was, own)
      BY ConversationFacts
    <3>3. t \in Seq(Row) /\ Mine(t) = Mine(was) /\ Numbered(t, own)
      BY <3>1 DEF RowReceived
    <3> HIDE DEF t, was, own
    <3>4. Outcomes(t, own) = Outcomes(was, own)
      BY <3>2, <3>3, SameOutcomes
    <3>5. sent'[p] = sent[p]
      BY <1>3
    <3> QED BY <1>1, <1>3, <3>4, <3>5, ToldNone DEF t, was, own
  <2> DEFINE ms == messages[q]
             max == sent[q]
             sh == shown[p]
             w == wire[p]
  <2>2. /\ ms \in Seq(Row) /\ max \in Nat /\ Numbered(ms, max) /\ sh \in Seq(1..MaxSent)
        /\ w \in Seq(Packets) /\ Stands(sh \o Ids(w), Mine(ms), max)
        /\ w # << >> /\ Head(w).kind = "message" /\ id = Head(w).id
    BY <1>1, <1>2, <1>3, ConversationFacts
  <2>3. told[q] = Outcomes(ms, max)
    BY ToldOutcomes
  <2> HIDE DEF ms, max, sh, w
  <2>4. /\ id \in 1..max /\ Once(sh, id)
        /\ ~Occurs(sh, id) =>
             \A n \in 1..max : IF n < id THEN Occurs(sh, n) \/ Outcomes(ms, max)[n] = "failed"
                               ELSE ~Occurs(sh, n)
    BY <1>3, <2>2, ShownNext
  <2>5. DOMAIN told[q] = 1..max
    BY <2>3 DEF Outcomes
  <2>6. \A m : /\ Promise!Times(p, m) \in Nat
               /\ Promise!Times(p, m) = 0 <=> ~Occurs(sh, m)
               /\ Once(sh, m) => Promise!Times(p, m) < 2
    BY TimesShown DEF sh
  <2>7. Promise!Times(p, id) < 2
    BY <2>4, <2>6
  <2>8. Promise!Times(p, id) = 0 =>
          \A n \in DOMAIN told[q] :
            IF n < id THEN Promise!Times(p, n) > 0 \/ told[q][n] = "failed"
            ELSE Promise!Times(p, n) = 0
    <3>1. \A n : Occurs(sh, n) => Promise!Times(p, n) > 0
      BY <2>6
    <3> QED BY <2>3, <2>4, <2>5, <2>6, <3>1
  <2>9. shown' = [shown EXCEPT ![p] = Append(shown[p], id)]
    BY <1>3, <1>5 DEF ReceiveMessage
  <2>10. q = Promise!Other(p)
    BY <1>1 DEF Promise!Other, Other
  <2>11. Promise!Show(p, id)
    BY <2>4, <2>5, <2>7, <2>8, <2>9, <2>10 DEF Promise!Show, told
  <2> QED BY <1>3, <2>1, <2>11
<1> QED BY <1>3, <1>4, <1>5

LEMMA PromisedStep ==
  ASSUME TypeOK, Heeded, Kept, [Next]_vars PROVE [Promise!Next]_<<told, shown>>
<1>1. CASE UNCHANGED vars
  <2>1. sent' = sent /\ messages' = messages /\ shown' = shown
    BY <1>1 DEF vars
  <2>2. told' = told
    BY <2>1, ToldOutcomes
  <2> QED BY <2>1, <2>2
<1>2. CASE Next
  <2>1. PICK p \in Peer :
          \/ Receive(p) \/ Call(p) \/ PeerGone(p)
          \/ SendMessage(p) \/ Connect(p) \/ Drop(p) \/ FileChannelClosed(p)
    BY <1>2 DEF Next
  <2>2. Promise!Peer = Peer
    BY DEF Promise!Peer, Peer
  <2>3. PICK q \in Peer : q = Other(p) /\ p = Other(q) /\ q # p
    BY Peers
  <2>4. messages \in [Peer -> Seq(Row)]
    BY DEF TypeOK
  <2>5. CASE SendMessage(p)
    BY <2>2, <2>5, Submits DEF Promise!Next
  <2>6. CASE ReceiveAck(p)
    BY <2>2, <2>6, Delivers DEF Promise!Next
  <2>7. CASE ReceiveMessage(p)
    BY <2>2, <2>7, Shown DEF Promise!Next, told
  <2>8. CASE ReceiveKnown(p) \/ ReceiveOpen(p) \/ OnDisconnected(p)
    <3>1. sent' = sent /\ messages' = messages /\ shown' = shown
      BY <2>8 DEF ReceiveKnown, ReceiveOpen, OnDisconnected, Made
    <3> QED BY <3>1, ToldOutcomes
  <2>9. CASE ReceiveOpened(p)
    <3>1. sent' = sent /\ shown' = shown
          /\ (messages' = messages \/ SendQueued(p, "open", Tail(wire[p])))
      BY <2>9 DEF ReceiveOpened
    <3>2. told' = told
      BY <3>1, QueueTells, ToldOutcomes
    <3> QED BY <3>1, <3>2
  <2>10. CASE OnConnected(p) \/ SendQueuedMessages(p)
    <3>1. sent' = sent /\ shown' = shown
          /\ (messages' = messages \/ SendQueued(p, out[p], wire[p]))
      BY <2>10 DEF OnConnected, SendQueuedMessages, Made
    <3>2. told' = told
      BY <3>1, QueueTells, ToldOutcomes
    <3> QED BY <3>1, <3>2
  <2>11. CASE Connect(p)
    <3>1. /\ sent' = sent /\ shown' = shown /\ messages'[p] = messages[p]
          /\ messages'[q] = messages[q] \/ messages'[q] = Requeued(messages[q])
      BY <2>3, <2>4, <2>11 DEF Connect
    <3> QED BY <2>2, <2>3, <3>1, GivesUp DEF Promise!Next
  <2>12. CASE PeerGone(p) \/ Drop(p) \/ FileChannelClosed(p)
    <3>1. /\ sent' = sent /\ shown' = shown /\ messages'[q] = messages[q]
          /\ messages'[p] = messages[p] \/ messages'[p] = Requeued(messages[p])
      BY <2>3, <2>4, <2>12 DEF PeerGone, Drop, Closed, FileChannelClosed
    <3> QED BY <2>2, <2>3, <3>1, GivesUp DEF Promise!Next
  <2> QED BY <2>1, <2>5, <2>6, <2>7, <2>8, <2>9, <2>10, <2>11, <2>12 DEF Receive, Call
<1> QED BY <1>1, <1>2

LEMMA InitPromised == Init => Promise!Init
<1> SUFFICES ASSUME Init PROVE Promise!Init
  OBVIOUS
<1>1. \A p \in Peer : sent[p] = 0 /\ shown = [x \in Peer |-> << >>]
  BY DEF Init
<1>2. Outcomes(<< >>, 0) = << >>
  BY EmptySeq DEF Outcomes
<1>3. \A p \in Peer : messages[p] = << >>
  BY DEF Init
<1>4. told = [p \in Peer |-> << >>]
  BY <1>1, <1>2, <1>3, ToldOutcomes
<1>5. shown = [p \in Peer |-> << >>] /\ Promise!Peer = Peer
  BY DEF Init, Promise!Peer, Peer
<1> QED BY <1>4, <1>5 DEF Promise!Init, told

-----------------------------------------------------------------------------
\* Rows, identifiers and packets stay well formed: no row is ever sent a third
\* time, however many connections fail.
THEOREM TypeCorrect == Spec => []TypeOK
BY InitHeeded, TypeStep, HeededStep, PTL DEF Spec

\* A message that ConversationModel takes for sent is one whose acknowledgement
\* its ChatChannel still waits for: none is left behind when a channel closes.
THEOREM NoneLeftBehind == Spec => []SendingIsPending
<1>1. Heeded => SendingIsPending
  BY DEF Heeded, Waits, SendingIsPending
<1> QED BY InitHeeded, TypeStep, HeededStep, <1>1, PTL DEF Spec

\* The two ConversationModels and their channels implement the promise of a
\* conversation, for any number of messages, broken connections and file channels
\* that close: each step submits a message, shows the next one or one a second
\* time, reports one delivered that was shown, reports some as failed, or does
\* none of that.
THEOREM PromiseIsKept == Spec => KeepsPromise
<1> DEFINE I == TypeOK /\ Heeded /\ Kept
<1>1. Init => I
  BY InitHeeded, InitKept
<1>2. I /\ [Next]_vars => I'
  BY TypeStep, HeededStep, KeptStep
<1>3. I /\ [Next]_vars => [Promise!Next]_<<told, shown>>
  BY PromisedStep
<1> HIDE DEF I
<1> QED BY <1>1, <1>2, <1>3, InitPromised, PTL DEF Spec, KeepsPromise, Promise!Spec, told

=============================================================================
