------------------------- MODULE FileTransferProofs -------------------------
(***************************************************************************)
(* Safety of file transfers for any number of files and chunks and any     *)
(* number of broken connections, cancellations and errors.                 *)
(***************************************************************************)
EXTENDS FileTransfer, SequenceTheorems, FiniteSetTheorems, FunctionTheorems, TLAPS

Packets(wire) == {wire[n] : n \in DOMAIN wire}

\* A packet about f is on the wire; no more than one is.
Has(wire, kind, f) == \E p \in Packets(wire) : p.kind = kind /\ p.file = f
Once(wire, kind, f) ==
  \A m, n \in DOMAIN wire :
    /\ wire[m].kind = kind /\ wire[m].file = f
    /\ wire[n].kind = kind /\ wire[n].file = f
    => m = n

\* No packet of the second kind about f comes before one of the first.
InOrder(wire, kind, later, f) ==
  \A m, n \in DOMAIN wire :
    wire[m].kind = kind /\ wire[m].file = f /\ wire[n].kind = later /\ wire[n].file = f
      => m < n

\* Only a new channel is opened after a close.
ClosedOnce(wire) ==
  \A m, n \in DOMAIN wire : wire[m].kind = "close" /\ m < n => wire[n].kind = "open"

\* Both ends speak of the same channel, as far as the sender can tell.
Talking == link = "up" /\ "close" \notin Kinds(toReceiver)

Fresh(f) == row[f] \in {"none", "Queued"}

ChannelOK ==
  /\ ~Talking => toSender = << >> /\ channel # "open"
  /\ \A f \in Files : Sent(f) => channel = "open" /\ ~Fresh(f)
  /\ \A f \in Files : Fresh(f) => attempts[f] < 2
  /\ ~peerUp => toReceiver = << >> /\ \A f \in Files : ~Known(f)
  /\ ClosedOnce(toReceiver)

\* The sender was told of success last.
SuccessOK ==
  \A f \in Files :
    told[f] = "success" =>
      saw[f] \in {"success", "spoilt"} /\ ~Known(f) /\ ~Has(toReceiver, "header", f)

Answered(f) == Has(toSender, "reject", f) \/ Has(toSender, "complete", f)

\* Who has the turn in the transfer of f.
Turn(f) ==
  /\ Fresh(f) =>
       /\ ~Known(f) /\ ~Answered(f)
       /\ \A k \in {"header", "chunk", "cancelled"} : ~Has(toReceiver, k, f)
       /\ \A k \in {"accept", "written"} : ~Has(toSender, k, f)
  /\ Has(toReceiver, "header", f) \/ f \in asked =>
       /\ ~Accepted(f) /\ ~Has(toReceiver, "chunk", f)
       /\ ~Has(toSender, "accept", f) /\ ~Has(toSender, "written", f)
       /\ ~Answered(f)
       /\ Sent(f) => outgoing[f] = 0
  /\ ~(Has(toReceiver, "header", f) /\ f \in asked)
  /\ Has(toSender, "accept", f) =>
       /\ ~Has(toReceiver, "chunk", f) /\ ~Has(toSender, "written", f)
       /\ Sent(f) => outgoing[f] = 0
       /\ Accepted(f) => incoming[f] = 0
  /\ Has(toReceiver, "chunk", f) =>
       /\ ~Has(toSender, "written", f)
       /\ Sent(f) /\ Accepted(f) => outgoing[f] = incoming[f] + 1
  /\ \A p \in Packets(toSender) :
       p.kind = "written" /\ p.file = f =>
         /\ Sent(f) => outgoing[f] = p.bytes
         /\ Accepted(f) => incoming[f] = p.bytes
  /\ Answered(f) => ~Known(f)
  /\ \A p \in Packets(toSender) :
       p.kind = "complete" /\ p.file = f /\ p.result = "success"
         => saw[f] \in {"success", "spoilt"}
  /\ Has(toReceiver, "cancelled", f) => ~Sent(f)

OneEach(f) ==
  /\ Once(toReceiver, "header", f) /\ Once(toReceiver, "chunk", f)
  /\ Once(toSender, "accept", f) /\ Once(toSender, "written", f)
  /\ InOrder(toReceiver, "header", "cancelled", f)

\* What one end remembers of f is on its way to the other.
Remembered(f) ==
  /\ Sent(f) /\ ~Known(f) =>
       Has(toReceiver, "header", f) \/ Answered(f) \/ "unnamed" \in Kinds(toSender)
  /\ (Known(f) \/ Has(toReceiver, "header", f)) /\ ~Sent(f) => Has(toReceiver, "cancelled", f)

Agreed ==
  Talking => \A f \in Files : Turn(f) /\ OneEach(f) /\ (peerUp => Remembered(f))

IInv == TypeOK /\ ChannelOK /\ SuccessOK /\ Agreed

-----------------------------------------------------------------------------
\* Wires.

LEMMA ConcatPackets ==
  ASSUME NEW S, NEW w \in Seq(S), NEW v \in Seq(S)
  PROVE  Packets(w \o v) = Packets(w) \cup Packets(v)
<1> DEFINE c == w \o v
<1>1. /\ c \in Seq(S) /\ Len(c) = Len(w) + Len(v)
      /\ \A i \in 1..Len(w) + Len(v) : c[i] = IF i <= Len(w) THEN w[i] ELSE v[i - Len(w)]
  BY ConcatProperties
<1>2. /\ DOMAIN c = 1..Len(c) /\ DOMAIN w = 1..Len(w) /\ DOMAIN v = 1..Len(v)
      /\ Len(w) \in Nat /\ Len(v) \in Nat
  BY <1>1, LenProperties
<1> HIDE DEF c
<1>3. ASSUME NEW i \in DOMAIN c PROVE c[i] \in Packets(w) \cup Packets(v)
  <2>1. CASE i <= Len(w)
    BY <1>1, <1>2, <2>1 DEF Packets
  <2>2. CASE ~(i <= Len(w))
    <3>1. c[i] = v[i - Len(w)] /\ i - Len(w) \in DOMAIN v
      BY <1>1, <1>2, <2>2
    <3> QED BY <3>1 DEF Packets
  <2> QED BY <2>1, <2>2
<1>4. ASSUME NEW i \in DOMAIN w PROVE w[i] \in Packets(c)
  <2>1. i \in DOMAIN c /\ c[i] = w[i]
    BY <1>1, <1>2
  <2> QED BY <2>1 DEF Packets
<1>5. ASSUME NEW i \in DOMAIN v PROVE v[i] \in Packets(c)
  <2>1. PICK j \in Int : j = i + Len(w)
    BY <1>2
  <2>2. j \in DOMAIN c /\ ~(j <= Len(w)) /\ j - Len(w) = i
    BY <1>1, <1>2, <2>1
  <2>3. c[j] = v[i]
    BY <1>1, <1>2, <2>2
  <2> QED BY <2>2, <2>3 DEF Packets
<1> QED BY <1>3, <1>4, <1>5 DEF Packets, c

LEMMA TailPackets ==
  ASSUME NEW S, NEW w \in Seq(S), w # << >>
  PROVE  Packets(w) = {Head(w)} \cup Packets(Tail(w)) /\ Head(w) \in S /\ Tail(w) \in Seq(S)
<1> DEFINE t == Tail(w)
<1>1. /\ t \in Seq(S) /\ Len(t) = Len(w) - 1 /\ Head(w) \in S
      /\ \A i \in 1..Len(t) : t[i] = w[i + 1]
  BY HeadTailProperties
<1>2. /\ DOMAIN t = 1..Len(t) /\ DOMAIN w = 1..Len(w)
      /\ Len(w) \in Nat \ {0} /\ Len(t) \in Nat /\ Head(w) = w[1]
  BY <1>1, LenProperties, EmptySeq
<1> HIDE DEF t
<1>3. ASSUME NEW i \in DOMAIN w PROVE w[i] \in {Head(w)} \cup Packets(t)
  <2>1. CASE i = 1
    BY <1>2, <2>1
  <2>2. CASE i # 1
    <3>1. i - 1 \in DOMAIN t /\ t[i - 1] = w[i]
      BY <1>1, <1>2, <2>2
    <3> QED BY <3>1 DEF Packets
  <2> QED BY <2>1, <2>2
<1>4. ASSUME NEW i \in DOMAIN t PROVE t[i] \in Packets(w)
  <2>1. i + 1 \in DOMAIN w /\ t[i] = w[i + 1]
    BY <1>1, <1>2
  <2> QED BY <2>1 DEF Packets
<1>5. Head(w) \in Packets(w)
  BY <1>2 DEF Packets
<1> QED BY <1>1, <1>3, <1>4, <1>5 DEF Packets, t

LEMMA NoPackets == Packets(<< >>) = {}
BY DEF Packets

LEMMA OnePacket == ASSUME NEW p PROVE Packets(<<p>>) = {p}
BY DEF Packets

LEMMA KindsOfPackets == ASSUME NEW w PROVE Kinds(w) = {p.kind : p \in Packets(w)}
BY DEF Kinds, Packets

LEMMA AboutHas ==
  ASSUME NEW w, NEW kinds, NEW f
  PROVE  About(w, kinds, f) <=> \E k \in kinds : Has(w, k, f)
BY DEF About, Has, Packets

\* What holds of the places of packets holds of those that are left.
LEMMA OnceTail ==
  ASSUME NEW S, NEW w \in Seq(S), w # << >>, NEW k, NEW f, Once(w, k, f)
  PROVE  /\ Once(Tail(w), k, f)
         /\ Head(w).kind = k /\ Head(w).file = f => ~Has(Tail(w), k, f)
<1> DEFINE t == Tail(w)
<1>1. /\ t \in Seq(S) /\ Len(t) = Len(w) - 1
      /\ \A i \in 1..Len(t) : t[i] = w[i + 1]
  BY HeadTailProperties
<1>2. /\ DOMAIN t = 1..Len(t) /\ DOMAIN w = 1..Len(w)
      /\ Len(w) \in Nat \ {0} /\ Len(t) \in Nat /\ Head(w) = w[1]
  BY <1>1, LenProperties, EmptySeq
<1> HIDE DEF t
<1>3. \A i \in DOMAIN t : i \in Nat \ {0} /\ i + 1 \in DOMAIN w /\ t[i] = w[i + 1]
  BY <1>1, <1>2
<1>4. Once(t, k, f)
  <2> SUFFICES ASSUME NEW m \in DOMAIN t, NEW n \in DOMAIN t,
                      t[m].kind = k, t[m].file = f, t[n].kind = k, t[n].file = f
               PROVE  m = n
    BY DEF Once
  <2>1. m + 1 = n + 1
    BY <1>3 DEF Once
  <2> QED BY <1>3, <2>1
<1>5. ASSUME Head(w).kind = k, Head(w).file = f, Has(t, k, f) PROVE FALSE
  <2>1. PICK n \in DOMAIN t : t[n].kind = k /\ t[n].file = f
    BY <1>5 DEF Has, Packets
  <2>2. 1 \in DOMAIN w /\ w[1].kind = k /\ w[1].file = f
    BY <1>2, <1>5
  <2>3. 1 = n + 1
    BY <1>3, <2>1, <2>2 DEF Once
  <2> QED BY <1>3, <2>3
<1> QED BY <1>4, <1>5 DEF t

LEMMA InOrderTail ==
  ASSUME NEW S, NEW w \in Seq(S), w # << >>, NEW k, NEW l, NEW f, InOrder(w, k, l, f)
  PROVE  /\ InOrder(Tail(w), k, l, f)
         /\ Head(w).kind = l /\ Head(w).file = f => ~Has(Tail(w), k, f)
<1> DEFINE t == Tail(w)
<1>1. /\ t \in Seq(S) /\ Len(t) = Len(w) - 1
      /\ \A i \in 1..Len(t) : t[i] = w[i + 1]
  BY HeadTailProperties
<1>2. /\ DOMAIN t = 1..Len(t) /\ DOMAIN w = 1..Len(w)
      /\ Len(w) \in Nat \ {0} /\ Len(t) \in Nat /\ Head(w) = w[1]
  BY <1>1, LenProperties, EmptySeq
<1> HIDE DEF t
<1>3. \A i \in DOMAIN t : i \in Nat \ {0} /\ i + 1 \in DOMAIN w /\ t[i] = w[i + 1]
  BY <1>1, <1>2
<1>4. InOrder(t, k, l, f)
  <2> SUFFICES ASSUME NEW m \in DOMAIN t, NEW n \in DOMAIN t,
                      t[m].kind = k, t[m].file = f, t[n].kind = l, t[n].file = f
               PROVE  m < n
    BY DEF InOrder
  <2>1. m + 1 < n + 1
    BY <1>3 DEF InOrder
  <2> QED BY <1>3, <2>1
<1>5. ASSUME Head(w).kind = l, Head(w).file = f, Has(t, k, f) PROVE FALSE
  <2>1. PICK n \in DOMAIN t : t[n].kind = k /\ t[n].file = f
    BY <1>5 DEF Has, Packets
  <2>2. 1 \in DOMAIN w /\ w[1].kind = l /\ w[1].file = f
    BY <1>2, <1>5
  <2>3. n + 1 < 1
    BY <1>3, <2>1, <2>2 DEF InOrder
  <2> QED BY <1>3, <2>3
<1> QED BY <1>4, <1>5 DEF t

\* ... and of those that more are written after.
LEMMA Places ==
  ASSUME NEW S, NEW w \in Seq(S), NEW v \in Seq(S), NEW i \in DOMAIN (w \o v)
  PROVE  /\ i \in Nat
         /\ \/ i \in DOMAIN w /\ (w \o v)[i] = w[i]
            \/ \E j \in DOMAIN v : j \in Nat /\ i = Len(w) + j /\ (w \o v)[i] = v[j]
<1> DEFINE c == w \o v
<1>1. /\ c \in Seq(S) /\ Len(c) = Len(w) + Len(v)
      /\ \A n \in 1..Len(w) + Len(v) : c[n] = IF n <= Len(w) THEN w[n] ELSE v[n - Len(w)]
  BY ConcatProperties
<1>2. /\ DOMAIN c = 1..Len(c) /\ DOMAIN w = 1..Len(w) /\ DOMAIN v = 1..Len(v)
      /\ Len(w) \in Nat /\ Len(v) \in Nat
  BY <1>1, LenProperties
<1> HIDE DEF c
<1>3. i \in DOMAIN c
  BY DEF c
<1>4. CASE i <= Len(w)
  <2>1. i \in Nat /\ i \in DOMAIN w /\ c[i] = w[i]
    BY <1>1, <1>2, <1>3, <1>4
  <2> QED BY <2>1 DEF c
<1>5. CASE ~(i <= Len(w))
  <2>1. i \in Nat /\ i - Len(w) \in DOMAIN v /\ i - Len(w) \in Nat
        /\ c[i] = v[i - Len(w)] /\ i = Len(w) + (i - Len(w))
    BY <1>1, <1>2, <1>3, <1>5
  <2> QED BY <2>1 DEF c
<1> QED BY <1>4, <1>5

LEMMA OnceConcat ==
  ASSUME NEW S, NEW w \in Seq(S), NEW v \in Seq(S), NEW k, NEW f,
         Once(w, k, f), Once(v, k, f), ~(Has(w, k, f) /\ Has(v, k, f))
  PROVE  Once(w \o v, k, f)
<1> DEFINE c == w \o v
<1> SUFFICES ASSUME NEW m \in DOMAIN c, NEW n \in DOMAIN c,
                    c[m].kind = k, c[m].file = f, c[n].kind = k, c[n].file = f
             PROVE  m = n
  BY DEF Once
<1>1. \/ m \in DOMAIN w /\ c[m] = w[m]
      \/ \E j \in DOMAIN v : j \in Nat /\ m = Len(w) + j /\ c[m] = v[j]
  BY Places
<1>2. \/ n \in DOMAIN w /\ c[n] = w[n]
      \/ \E j \in DOMAIN v : j \in Nat /\ n = Len(w) + j /\ c[n] = v[j]
  BY Places
<1> HIDE DEF c
<1>3. \A i \in DOMAIN w : w[i].kind = k /\ w[i].file = f => Has(w, k, f)
  BY DEF Has, Packets
<1>4. \A i \in DOMAIN v : v[i].kind = k /\ v[i].file = f => Has(v, k, f)
  BY DEF Has, Packets
<1> QED BY <1>1, <1>2, <1>3, <1>4 DEF Once

LEMMA InOrderConcat ==
  ASSUME NEW S, NEW w \in Seq(S), NEW v \in Seq(S), NEW k, NEW l, NEW f,
         InOrder(w, k, l, f), InOrder(v, k, l, f), ~(Has(w, l, f) /\ Has(v, k, f))
  PROVE  InOrder(w \o v, k, l, f)
<1> DEFINE c == w \o v
<1> SUFFICES ASSUME NEW m \in DOMAIN c, NEW n \in DOMAIN c,
                    c[m].kind = k, c[m].file = f, c[n].kind = l, c[n].file = f
             PROVE  m < n
  BY DEF InOrder
<1>1. \/ m \in DOMAIN w /\ c[m] = w[m]
      \/ \E j \in DOMAIN v : j \in Nat /\ m = Len(w) + j /\ c[m] = v[j]
  BY Places
<1>2. \/ n \in DOMAIN w /\ c[n] = w[n]
      \/ \E j \in DOMAIN v : j \in Nat /\ n = Len(w) + j /\ c[n] = v[j]
  BY Places
<1> HIDE DEF c
<1>3. \A i \in DOMAIN w : w[i].kind = l /\ w[i].file = f => Has(w, l, f)
  BY DEF Has, Packets
<1>4. \A i \in DOMAIN v : v[i].kind = k /\ v[i].file = f => Has(v, k, f)
  BY DEF Has, Packets
<1>5. DOMAIN w = 1..Len(w) /\ Len(w) \in Nat /\ \A j \in DOMAIN v : j \in Nat \ {0}
  BY LenProperties
<1>6. CASE m \in DOMAIN w /\ c[m] = w[m]
  BY <1>2, <1>3, <1>5, <1>6 DEF InOrder
<1>7. CASE \E j \in DOMAIN v : j \in Nat /\ m = Len(w) + j /\ c[m] = v[j]
  <2>1. PICK j \in DOMAIN v : j \in Nat /\ m = Len(w) + j /\ c[m] = v[j]
    BY <1>7
  <2>2. ~Has(w, l, f)
    BY <1>4, <2>1
  <2>3. PICK i \in DOMAIN v : i \in Nat /\ n = Len(w) + i /\ c[n] = v[i]
    BY <1>2, <1>3, <2>2
  <2>4. j < i
    BY <2>1, <2>3 DEF InOrder
  <2> QED BY <1>5, <2>1, <2>3, <2>4
<1> QED BY <1>1, <1>6, <1>7

LEMMA ClosedOnceTail ==
  ASSUME NEW S, NEW w \in Seq(S), w # << >>, ClosedOnce(w)
  PROVE  /\ ClosedOnce(Tail(w))
         /\ Head(w).kind = "close" => \A p \in Packets(Tail(w)) : p.kind = "open"
<1> DEFINE t == Tail(w)
<1>1. /\ t \in Seq(S) /\ Len(t) = Len(w) - 1
      /\ \A i \in 1..Len(t) : t[i] = w[i + 1]
  BY HeadTailProperties
<1>2. /\ DOMAIN t = 1..Len(t) /\ DOMAIN w = 1..Len(w)
      /\ Len(w) \in Nat \ {0} /\ Len(t) \in Nat /\ Head(w) = w[1]
  BY <1>1, LenProperties, EmptySeq
<1> HIDE DEF t
<1>3. \A i \in DOMAIN t : i \in Nat \ {0} /\ i + 1 \in DOMAIN w /\ t[i] = w[i + 1]
  BY <1>1, <1>2
<1>4. ClosedOnce(t)
  <2> SUFFICES ASSUME NEW m \in DOMAIN t, NEW n \in DOMAIN t, t[m].kind = "close", m < n
               PROVE  t[n].kind = "open"
    BY DEF ClosedOnce
  <2>1. m + 1 < n + 1 /\ w[m + 1].kind = "close"
    BY <1>3
  <2>2. w[n + 1].kind = "open"
    BY <1>3, <2>1 DEF ClosedOnce
  <2> QED BY <1>3, <2>2
<1>5. ASSUME Head(w).kind = "close", NEW n \in DOMAIN t PROVE t[n].kind = "open"
  <2>1. 1 \in DOMAIN w /\ 1 < n + 1 /\ w[1].kind = "close"
    BY <1>2, <1>3, <1>5
  <2>2. w[n + 1].kind = "open"
    BY <1>3, <2>1 DEF ClosedOnce
  <2> QED BY <1>3, <2>2
<1> QED BY <1>4, <1>5 DEF Packets, t

LEMMA ClosedOnceConcat ==
  ASSUME NEW S, NEW w \in Seq(S), NEW v \in Seq(S), ClosedOnce(w), ClosedOnce(v),
         "close" \notin Kinds(w) \/ \A p \in Packets(v) : p.kind = "open"
  PROVE  ClosedOnce(w \o v)
<1> DEFINE c == w \o v
<1> SUFFICES ASSUME NEW m \in DOMAIN c, NEW n \in DOMAIN c, c[m].kind = "close", m < n
             PROVE  c[n].kind = "open"
  BY DEF ClosedOnce
<1>1. \/ m \in DOMAIN w /\ c[m] = w[m]
      \/ \E j \in DOMAIN v : j \in Nat /\ m = Len(w) + j /\ c[m] = v[j]
  BY Places
<1>2. \/ n \in DOMAIN w /\ c[n] = w[n]
      \/ \E j \in DOMAIN v : j \in Nat /\ n = Len(w) + j /\ c[n] = v[j]
  BY Places
<1> HIDE DEF c
<1>3. \A i \in DOMAIN w : w[i].kind = "close" => "close" \in Kinds(w)
  BY DEF Kinds
<1>4. \A i \in DOMAIN v : v[i] \in Packets(v)
  BY DEF Packets
<1>5. DOMAIN w = 1..Len(w) /\ Len(w) \in Nat /\ \A j \in DOMAIN v : j \in Nat \ {0}
  BY LenProperties
<1>6. CASE m \in DOMAIN w /\ c[m] = w[m]
  BY <1>2, <1>3, <1>4, <1>6 DEF ClosedOnce
<1>7. CASE \E j \in DOMAIN v : j \in Nat /\ m = Len(w) + j /\ c[m] = v[j]
  <2>1. PICK j \in DOMAIN v : j \in Nat /\ m = Len(w) + j /\ c[m] = v[j]
    BY <1>7
  <2>2. n \notin DOMAIN w
    BY <1>5, <2>1
  <2>3. PICK i \in DOMAIN v : i \in Nat /\ n = Len(w) + i /\ c[n] = v[i]
    BY <1>2, <2>2
  <2>4. j < i
    BY <1>5, <2>1, <2>3
  <2> QED BY <2>1, <2>3, <2>4 DEF ClosedOnce
<1> QED BY <1>1, <1>6, <1>7

\* The headers of some files are one for each of them.
LEMMA HeadersOfFiles ==
  ASSUME NEW P \in SUBSET Files, NEW order \in OldestFirst(P)
  PROVE  /\ Headers(order) \in Seq(ToReceiver)
         /\ Packets(Headers(order)) = {[kind |-> "header", file |-> f] : f \in P}
         /\ \A f \in Files : Once(Headers(order), "header", f)
<1> DEFINE h == Headers(order)
           k == Cardinality(P)
<1>1. IsFiniteSet(P) /\ k \in Nat
  <2>1. IsFiniteSet(Files)
    BY FilesAssumption, FS_Interval DEF Files
  <2> QED BY <2>1, FS_Subset, FS_CardinalityType
<1>2. order \in [1..k -> P]
  BY DEF OldestFirst
<1>3. \A m, n \in 1..k : order[m] = order[n] => m = n
  <2> SUFFICES ASSUME NEW m \in 1..k, NEW n \in 1..k, order[m] = order[n], m # n
               PROVE  FALSE
    OBVIOUS
  <2>1. order[m] \in Int /\ order[n] \in Int
    <3>1. order[m] \in Files /\ order[n] \in Files
      BY <1>2
    <3>2. \A f \in Files : f \in Int
      BY FilesAssumption DEF Files
    <3> QED BY <3>1, <3>2
  <2>2. m < n \/ n < m
    BY <1>1, <2>1
  <2>3. order[m] < order[n] \/ order[n] < order[m]
    BY <1>2, <2>2 DEF OldestFirst
  <2> QED BY <2>1, <2>3
<1>4. \A f \in P : \E n \in 1..k : order[n] = f
  <2>1. order \in Injection(1..k, P)
    BY <1>2, <1>3, Fun_IsInj
  <2>2. Cardinality(1..k) = k
    BY <1>1, FS_Interval
  <2>3. order \in Surjection(1..k, P)
    BY <1>1, <2>1, <2>2, FS_Injection
  <2> QED BY <2>3 DEF Surjection
<1>5. /\ h = [n \in 1..k |-> [kind |-> "header", file |-> order[n]]]
  BY <1>2 DEF Headers
<1>6. \A n \in 1..k : [kind |-> "header", file |-> order[n]] \in ToReceiver
  BY <1>2 DEF ToReceiver
<1>7. h \in Seq(ToReceiver)
  <2>1. h \in [1..k -> ToReceiver]
    BY <1>5, <1>6
  <2> QED BY <1>1, <2>1
<1>8. Packets(h) = {[kind |-> "header", file |-> f] : f \in P}
  BY <1>2, <1>4, <1>5 DEF Packets
<1>9. \A f \in Files : Once(h, "header", f)
  BY <1>3, <1>5 DEF Once
<1> QED BY <1>7, <1>8, <1>9

-----------------------------------------------------------------------------
\* Typing, by the part of the system that a variable belongs to.

SenderOK ==
  /\ row \in [Files -> {"none", "Queued", "Sending", "Delivered", "Error", "erased"}]
  /\ attempts \in [Files -> 0..2]
  /\ link \in {"none", "up", "dead"}
  /\ channel \in {"none", "opening", "open"}
  /\ outgoing \in [Files -> Offsets \cup {None}]
  /\ calls \in Seq({"sendQueuedMessages", "onDisconnected"})
  /\ crashed \in BOOLEAN
  /\ told \in [Files -> Results \cup {"none"}]
ReceiverOK ==
  /\ peerUp \in BOOLEAN /\ inbound \in BOOLEAN
  /\ asked \in SUBSET Files
  /\ incoming \in [Files -> Offsets \cup {None}]
  /\ saw \in [Files -> Results \cup {"none", "asked", "running"}]
WiresOK == toReceiver \in Seq(ToReceiver) /\ toSender \in Seq(ToSender)
BoundsOK ==
  drops \in 0..MaxDrops /\ cancels \in 0..MaxCancels /\ errors \in 0..MaxErrors

LEMMA TypeParts == TypeOK <=> SenderOK /\ ReceiverOK /\ WiresOK /\ BoundsOK
BY DEF TypeOK, SenderOK, ReceiverOK, WiresOK, BoundsOK

LEMMA TypePartsPrime == TypeOK' <=> SenderOK' /\ ReceiverOK' /\ WiresOK' /\ BoundsOK'
BY DEF TypeOK, SenderOK, ReceiverOK, WiresOK, BoundsOK

\* What can be written.
LEMMA Written ==
  ASSUME WiresOK, NEW unread \in Seq(ToSender), NEW packets \in Seq(ToReceiver),
         SenderWrites(unread, packets)
  PROVE  WiresOK'
<1>1. toReceiver \o packets \in Seq(ToReceiver)
  BY ConcatProperties DEF WiresOK
<1> QED BY <1>1, EmptySeq DEF SenderWrites, WiresOK

LEMMA Answers ==
  ASSUME WiresOK, NEW unread \in Seq(ToReceiver), NEW packets \in Seq(ToSender),
         ReceiverWrites(unread, packets)
  PROVE  WiresOK'
<1>1. toSender \o packets \in Seq(ToSender)
  BY ConcatProperties DEF WiresOK
<1> QED BY <1>1 DEF ReceiverWrites, WiresOK

LEMMA FilePackets ==
  /\ << >> \in Seq(ToReceiver) /\ << >> \in Seq(ToSender)
  /\ << [kind |-> "open"] >> \in Seq(ToReceiver)
  /\ << [kind |-> "close"] >> \in Seq(ToReceiver)
  /\ << [kind |-> "opened"] >> \in Seq(ToSender)
  /\ << [kind |-> "unnamed"] >> \in Seq(ToSender)
  /\ \A f \in Files :
       /\ << [kind |-> "chunk", file |-> f] >> \in Seq(ToReceiver)
       /\ << [kind |-> "cancelled", file |-> f] >> \in Seq(ToReceiver)
       /\ << [kind |-> "ack", file |-> f] >> \in Seq(ToSender)
       /\ << [kind |-> "accept", file |-> f] >> \in Seq(ToSender)
       /\ << [kind |-> "reject", file |-> f] >> \in Seq(ToSender)
       /\ << [kind |-> "complete", file |-> f, result |-> "cancelled"] >> \in Seq(ToSender)
<1>1. [kind |-> "open"] \in ToReceiver /\ [kind |-> "close"] \in ToReceiver
  BY DEF ToReceiver
<1>2. [kind |-> "opened"] \in ToSender /\ [kind |-> "unnamed"] \in ToSender
  BY DEF ToSender
<1>3. ASSUME NEW f \in Files
      PROVE  /\ [kind |-> "chunk", file |-> f] \in ToReceiver
             /\ [kind |-> "cancelled", file |-> f] \in ToReceiver
  BY DEF ToReceiver
<1>4. ASSUME NEW f \in Files
      PROVE  /\ [kind |-> "ack", file |-> f] \in ToSender
             /\ [kind |-> "accept", file |-> f] \in ToSender
             /\ [kind |-> "reject", file |-> f] \in ToSender
             /\ [kind |-> "complete", file |-> f, result |-> "cancelled"] \in ToSender
  BY DEF ToSender
<1>5. \A S : \A x \in S : <<x>> \in Seq(S)
  OBVIOUS
<1> QED BY <1>1, <1>2, <1>3, <1>4, <1>5, EmptySeq

\* What a head names.
LEMMA Heads ==
  ASSUME WiresOK
  PROVE  /\ toSender # << >> =>
              /\ Head(toSender) \in ToSender /\ Tail(toSender) \in Seq(ToSender)
              /\ Head(toSender).kind \notin {"opened", "unnamed"} => Head(toSender).file \in Files
              /\ Head(toSender).kind = "written" => Head(toSender).bytes \in Offsets
              /\ Head(toSender).kind = "complete" => Head(toSender).result \in Results
         /\ toReceiver # << >> =>
              /\ Head(toReceiver) \in ToReceiver /\ Tail(toReceiver) \in Seq(ToReceiver)
              /\ Head(toReceiver).kind \notin {"open", "close"} => Head(toReceiver).file \in Files
<1>1. ASSUME NEW p \in ToSender
      PROVE  /\ p.kind \notin {"opened", "unnamed"} => p.file \in Files
             /\ p.kind = "written" => p.bytes \in Offsets
             /\ p.kind = "complete" => p.result \in Results
  BY DEF ToSender, Results
<1>2. ASSUME NEW p \in ToReceiver
      PROVE  p.kind \notin {"open", "close"} => p.file \in Files
  BY DEF ToReceiver
<1>3. ASSUME toSender # << >>
      PROVE  Head(toSender) \in ToSender /\ Tail(toSender) \in Seq(ToSender)
  BY <1>3, HeadTailProperties DEF WiresOK
<1>4. ASSUME toReceiver # << >>
      PROVE  Head(toReceiver) \in ToReceiver /\ Tail(toReceiver) \in Seq(ToReceiver)
  BY <1>4, HeadTailProperties DEF WiresOK
<1> QED BY <1>1, <1>2, <1>3, <1>4

LEMMA OfferTyped ==
  ASSUME TypeOK, ChannelOK, NEW S \in SUBSET Files, \A f \in S : Fresh(f),
         NEW missing \in SUBSET S, NEW unread \in Seq(ToSender), Offers(S, missing, unread)
  PROVE  /\ WiresOK' /\ errors' \in 0..MaxErrors
         /\ row' \in [Files -> {"none", "Queued", "Sending", "Delivered", "Error", "erased"}]
         /\ attempts' \in [Files -> 0..2] /\ outgoing' \in [Files -> Offsets \cup {None}]
         /\ told' \in [Files -> Results \cup {"none"}]
<1>1. row' \in [Files -> {"none", "Queued", "Sending", "Delivered", "Error", "erased"}]
  BY DEF Offers, TypeOK
<1>2. attempts' \in [Files -> 0..2]
  <2>1. ASSUME NEW f \in Files PROVE (IF f \in S THEN attempts[f] + 1 ELSE attempts[f]) \in 0..2
    <3>1. attempts[f] \in 0..2 /\ (f \in S => attempts[f] < 2)
      BY DEF TypeOK, ChannelOK
    <3> QED BY <3>1
  <2> QED BY <2>1 DEF Offers
<1>3. outgoing' \in [Files -> Offsets \cup {None}]
  <2>1. 0 \in Offsets
    BY FilesAssumption DEF Offsets
  <2> QED BY <2>1 DEF Offers, TypeOK
<1>4. told' \in [Files -> Results \cup {"none"}]
  BY DEF Offers, TypeOK
<1>5. errors' \in 0..MaxErrors
  <2>1. Cardinality(missing) \in Nat
    <3>1. IsFiniteSet(Files)
      BY FilesAssumption, FS_Interval DEF Files
    <3> QED BY <3>1, FS_Subset, FS_CardinalityType
  <2> QED BY <2>1, BoundsAssumption DEF Offers, TypeOK
<1>6. WiresOK'
  <2>1. PICK order \in OldestFirst(S \ missing) : SenderWrites(unread, Headers(order))
    BY DEF Offers
  <2>2. Headers(order) \in Seq(ToReceiver)
    BY HeadersOfFiles
  <2> QED BY <2>1, <2>2, Written, TypeParts
<1> QED BY <1>1, <1>2, <1>3, <1>4, <1>5, <1>6

LEMMA SendQueuedTyped ==
  ASSUME TypeOK, ChannelOK, NEW c \in {"none", "opening", "open"}, NEW unread \in Seq(ToSender),
         SendQueued(c, unread)
  PROVE  /\ WiresOK' /\ errors' \in 0..MaxErrors
         /\ row' \in [Files -> {"none", "Queued", "Sending", "Delivered", "Error", "erased"}]
         /\ attempts' \in [Files -> 0..2] /\ outgoing' \in [Files -> Offsets \cup {None}]
         /\ told' \in [Files -> Results \cup {"none"}]
         /\ crashed' \in BOOLEAN /\ channel' \in {"none", "opening", "open"}
<1>1. crashed' \in BOOLEAN /\ channel' \in {"none", "opening", "open"}
  BY DEF SendQueued
<1>2. CASE link = "up" /\ c = "open"
  <2>1. PICK missing \in SUBSET Queued : Offers(Queued, missing, unread)
    BY <1>2 DEF SendQueued
  <2>2. Queued \in SUBSET Files /\ \A f \in Queued : Fresh(f)
    BY DEF Queued, Fresh
  <2> QED BY <1>1, <2>1, <2>2, OfferTyped
<1>3. CASE ~(link = "up" /\ c = "open")
  <2>1. UNCHANGED <<row, attempts, outgoing, told, errors>>
    BY <1>3 DEF SendQueued
  <2>2. SenderWrites(unread, << >>) \/ SenderWrites(unread, << [kind |-> "open"] >>)
    BY <1>3 DEF SendQueued
  <2>3. WiresOK'
    BY <2>2, Written, FilePackets, TypeParts
  <2> QED BY <1>1, <2>1, <2>3 DEF TypeOK
<1> QED BY <1>2, <1>3

LEMMA FatalTyped ==
  ASSUME TypeOK, FatalError PROVE TypeOK'
<1>1. WiresOK'
  BY Written, FilePackets, TypeParts DEF FatalError
<1>2. SenderOK'
  <2>1. calls' \in Seq({"sendQueuedMessages", "onDisconnected"})
    BY AppendProperties DEF FatalError, TypeOK
  <2>2. told' \in [Files -> Results \cup {"none"}]
    BY DEF FatalError, AllTold, Results, TypeOK
  <2>3. outgoing' \in [Files -> Offsets \cup {None}]
    BY DEF FatalError, NoTransfers
  <2>4. row' \in [Files -> {"none", "Queued", "Sending", "Delivered", "Error", "erased"}]
    BY DEF FatalError, Requeued, TypeOK
  <2> QED BY <2>1, <2>2, <2>3, <2>4 DEF FatalError, SenderOK, TypeOK
<1> QED BY <1>1, <1>2, TypeParts, TypePartsPrime
        DEF FatalError, ReceiverOK, BoundsOK, receiver, bounds

LEMMA NextChunkTyped ==
  ASSUME TypeOK, toSender # << >>, NEW f \in Files, outgoing[f] \in 0..(Chunks - 1),
         SendNextChunk(f)
  PROVE  WiresOK' /\ outgoing' \in [Files -> Offsets \cup {None}]
<1>1. Tail(toSender) \in Seq(ToSender)
  BY Heads, TypeParts
<1>2. WiresOK'
  BY <1>1, Written, FilePackets, TypeParts DEF SendNextChunk
<1>3. outgoing[f] + 1 \in Offsets
  BY FilesAssumption DEF Offsets
<1> QED BY <1>2, <1>3 DEF SendNextChunk, TypeOK

LEMMA SenderReadsTyped == ASSUME IInv, SenderReads PROVE TypeOK'
<1>0. TypeOK /\ WiresOK /\ ChannelOK /\ toSender # << >>
  BY TypeParts DEF IInv, SenderReads, ReceiveOpened, ReceiveAck, ReceiveUnnamed, ReceiveResponse,
     ReceiveWritten, ReceiveComplete, FromReceiver
<1>1. Head(toSender) \in ToSender /\ Tail(toSender) \in Seq(ToSender)
  BY <1>0, Heads
<1>2. SenderWrites(Tail(toSender), << >>) => WiresOK'
  BY <1>0, <1>1, Written, FilePackets
<1> DEFINE f == Head(toSender).file
<1>3. CASE ReceiveOpened
  <2>1. SendQueued("open", Tail(toSender))
    BY <1>3 DEF ReceiveOpened
  <2> QED BY <1>0, <1>1, <1>3, <2>1, SendQueuedTyped, TypePartsPrime
          DEF ReceiveOpened, TypeOK, SenderOK, ReceiverOK, BoundsOK, receiver
<1>4. CASE ReceiveAck
  <2>1. row' \in [Files -> {"none", "Queued", "Sending", "Delivered", "Error", "erased"}]
    BY <1>0, <1>4 DEF ReceiveAck, TypeOK
  <2> QED BY <1>0, <1>2, <1>4, <2>1, TypeParts, TypePartsPrime
          DEF ReceiveAck, SenderOK, ReceiverOK, BoundsOK, receiver, bounds
<1>5. CASE ReceiveUnnamed
  BY <1>0, <1>5, FatalTyped DEF ReceiveUnnamed
<1>6. CASE ReceiveResponse
  <2>1. f \in Files
    BY <1>0, <1>6, Heads DEF ReceiveResponse, FromReceiver
  <2>2. WiresOK' /\ outgoing' \in [Files -> Offsets \cup {None}]
        /\ told' \in [Files -> Results \cup {"none"}]
    <3>1. CASE ~Sent(f)
      BY <1>0, <1>2, <1>6, <3>1 DEF ReceiveResponse, TypeOK
    <3>2. CASE Sent(f) /\ Head(toSender).kind = "accept"
      <4>1. Has(toSender, "accept", f)
        BY <1>0, <3>2, TailPackets DEF Has, WiresOK
      <4>2. Talking
        BY <1>0 DEF ChannelOK
      <4>3. outgoing[f] = 0
        BY <2>1, <3>2, <4>1, <4>2 DEF IInv, Agreed, Turn
      <4>4. outgoing[f] \in 0..(Chunks - 1)
        BY <4>3, FilesAssumption
      <4> QED BY <1>0, <1>6, <2>1, <3>2, <4>4, NextChunkTyped DEF ReceiveResponse, TypeOK
    <3>3. CASE Sent(f) /\ Head(toSender).kind # "accept"
      <4>1. outgoing' \in [Files -> Offsets \cup {None}] /\ told' \in [Files -> Results \cup {"none"}]
        BY <1>0, <1>6, <3>3 DEF ReceiveResponse, TypeOK, Results
      <4> QED BY <1>2, <1>6, <3>3, <4>1 DEF ReceiveResponse
    <3> QED BY <3>1, <3>2, <3>3
  <2> QED BY <1>0, <1>6, <2>2, TypeParts, TypePartsPrime
          DEF ReceiveResponse, SenderOK, ReceiverOK, BoundsOK, receiver, bounds
<1>7. CASE ReceiveWritten
  <2>1. f \in Files
    BY <1>0, <1>7, Heads DEF ReceiveWritten, FromReceiver
  <2>2. CASE Sent(f) /\ Head(toSender).bytes # outgoing[f]
    BY <1>0, <1>7, <2>2, FatalTyped DEF ReceiveWritten
  <2>3. CASE ~(Sent(f) /\ Head(toSender).bytes # outgoing[f])
    <3>1. WiresOK' /\ outgoing' \in [Files -> Offsets \cup {None}]
      <4>1. CASE Sent(f) /\ outgoing[f] < Chunks
        <5>1. outgoing[f] \in 0..(Chunks - 1)
          <6>1. outgoing[f] \in 0..Chunks
            BY <1>0, <2>1, <4>1 DEF TypeOK, Sent, Offsets
          <6> QED BY <4>1, <6>1, FilesAssumption
        <5>2. SendNextChunk(f)
          BY <1>7, <2>3, <4>1 DEF ReceiveWritten
        <5> QED BY <1>0, <2>1, <5>1, <5>2, NextChunkTyped
      <4>2. CASE ~(Sent(f) /\ outgoing[f] < Chunks)
        BY <1>0, <1>2, <1>7, <2>3, <4>2 DEF ReceiveWritten, TypeOK
      <4> QED BY <4>1, <4>2
    <3> QED BY <1>0, <1>7, <2>3, <3>1, TypeParts, TypePartsPrime
            DEF ReceiveWritten, SenderOK, ReceiverOK, BoundsOK, receiver, bounds
  <2> QED BY <2>2, <2>3
<1>8. CASE ReceiveComplete
  <2>1. f \in Files /\ Head(toSender).result \in Results
    BY <1>0, <1>8, Heads DEF ReceiveComplete, FromReceiver
  <2>2. outgoing' \in [Files -> Offsets \cup {None}] /\ told' \in [Files -> Results \cup {"none"}]
    BY <1>0, <1>8, <2>1 DEF ReceiveComplete, TypeOK
  <2> QED BY <1>0, <1>2, <1>8, <2>2, TypeParts, TypePartsPrime
          DEF ReceiveComplete, SenderOK, ReceiverOK, BoundsOK, receiver, bounds
<1> QED BY <1>3, <1>4, <1>5, <1>6, <1>7, <1>8 DEF SenderReads

LEMMA ReceiverReadsTyped == ASSUME IInv, ReceiverReads PROVE TypeOK'
<1>0. TypeOK /\ WiresOK /\ toReceiver # << >>
  BY TypeParts DEF IInv, ReceiverReads, ReceiveOpen, ReceiveClose, ReceiveHeader, ReceiveChunk,
     ReceiveCancelled, FromSender
<1>1. Head(toReceiver) \in ToReceiver /\ Tail(toReceiver) \in Seq(ToReceiver)
  BY <1>0, Heads
<1>2. ReceiverWrites(Tail(toReceiver), << >>) => WiresOK'
  BY <1>0, <1>1, Answers, FilePackets
<1> DEFINE f == Head(toReceiver).file
<1> USE DEF SenderOK, ReceiverOK, BoundsOK, sender, bounds
<1>3. CASE ReceiveOpen
  <2>1. WiresOK'
    BY <1>0, <1>1, <1>3, Answers, FilePackets DEF ReceiveOpen
  <2> QED BY <1>0, <1>3, <2>1, TypeParts, TypePartsPrime DEF ReceiveOpen
<1>4. CASE ReceiveClose
  <2>1. incoming' \in [Files -> Offsets \cup {None}] /\ asked' \in SUBSET Files
    BY <1>4 DEF ReceiveClose, NoTransfers
  <2> QED BY <1>0, <1>2, <1>4, <2>1, TypeParts, TypePartsPrime DEF ReceiveClose
<1>5. CASE ReceiveHeader
  <2>1. f \in Files
    BY <1>0, <1>5, Heads DEF ReceiveHeader, FromSender
  <2>2. WiresOK'
    BY <1>0, <1>1, <1>5, <2>1, Answers, FilePackets DEF ReceiveHeader
  <2>3. asked' \in SUBSET Files /\ saw' \in [Files -> Results \cup {"none", "asked", "running"}]
    BY <1>0, <1>5, <2>1 DEF ReceiveHeader, TypeOK
  <2> QED BY <1>0, <1>5, <2>2, <2>3, TypeParts, TypePartsPrime DEF ReceiveHeader
<1>6. CASE ReceiveChunk
  <2>1. f \in Files
    BY <1>0, <1>6, Heads DEF ReceiveChunk, FromSender
  <2> DEFINE answer == ChunkAnswer(f)
  <2>2. CASE ~Accepted(f) /\ ReceiverWrites(Tail(toReceiver), << >>) /\ UNCHANGED <<incoming, saw, errors>>
    BY <1>0, <1>2, <1>6, <2>2, TypeParts, TypePartsPrime DEF ReceiveChunk
  <2>3. CASE /\ Accepted(f) /\ ReceiverWrites(Tail(toReceiver), answer)
             /\ \/ /\ incoming[f] + 1 < Chunks /\ UNCHANGED <<saw, errors>>
                   /\ incoming' = [incoming EXCEPT ![f] = @ + 1]
                \/ /\ incoming[f] + 1 = Chunks
                   /\ incoming' = [incoming EXCEPT ![f] = None]
                   /\ \/ saw' = [saw EXCEPT ![f] = "success"] /\ UNCHANGED errors
                      \/ /\ errors < MaxErrors /\ errors' = errors + 1
                         /\ saw' = [saw EXCEPT ![f] = "spoilt"]
    <3>1. incoming[f] \in 0..Chunks /\ incoming[f] + 1 \in Offsets
      <4>1. incoming[f] \in 0..Chunks
        BY <1>0, <2>1, <2>3 DEF TypeOK, Accepted, Offsets
      <4> QED BY <2>3, <4>1, FilesAssumption DEF Offsets
    <3>2. answer \in Seq(ToSender)
      <4> DEFINE w == [kind |-> "written", file |-> f, bytes |-> incoming[f] + 1]
                 c == [kind |-> "complete", file |-> f, result |-> "success"]
      <4>1. w \in ToSender /\ c \in ToSender
        BY <2>1, <3>1 DEF ToSender
      <4> HIDE DEF w, c
      <4>2. <<w>> \in Seq(ToSender) /\ (IF incoming[f] + 1 = Chunks THEN <<c>> ELSE << >>) \in Seq(ToSender)
        BY <4>1, EmptySeq
      <4> DEFINE rest == IF incoming[f] + 1 = Chunks THEN <<c>> ELSE << >>
      <4> HIDE DEF rest
      <4>3. <<w>> \o rest \in Seq(ToSender)
        BY <4>2, ConcatProperties DEF rest
      <4> QED BY <4>3 DEF ChunkAnswer, w, c, rest
    <3> HIDE DEF answer
    <3>3. WiresOK'
      BY <1>0, <1>1, <2>3, <3>2, Answers
    <3>4. incoming' \in [Files -> Offsets \cup {None}]
      BY <1>0, <2>1, <2>3, <3>1 DEF TypeOK
    <3>5. saw' \in [Files -> Results \cup {"none", "asked", "running"}]
      BY <1>0, <2>1, <2>3 DEF TypeOK, Results
    <3>6. errors' \in 0..MaxErrors
      BY <1>0, <2>3, BoundsAssumption DEF TypeOK
    <3> QED BY <1>0, <1>6, <3>3, <3>4, <3>5, <3>6, TypeParts, TypePartsPrime DEF ReceiveChunk
  <2>4. CASE /\ Accepted(f) /\ errors < MaxErrors /\ errors' = errors + 1
             /\ incoming' = [incoming EXCEPT ![f] = None]
             /\ saw' = [saw EXCEPT ![f] = "filesystem_error"]
             /\ ReceiverWrites(Tail(toReceiver), GaveUp(f))
    <3>1. WiresOK'
      BY <1>0, <1>1, <2>1, <2>4, Answers, FilePackets DEF GaveUp
    <3>2. incoming' \in [Files -> Offsets \cup {None}]
      BY <1>0, <2>4 DEF TypeOK
    <3>3. saw' \in [Files -> Results \cup {"none", "asked", "running"}]
      BY <1>0, <2>4 DEF TypeOK, Results
    <3>4. errors' \in 0..MaxErrors
      BY <1>0, <2>4, BoundsAssumption DEF TypeOK
    <3> QED BY <1>0, <1>6, <3>1, <3>2, <3>3, <3>4, TypeParts, TypePartsPrime DEF ReceiveChunk
  <2> QED BY <1>6, <2>2, <2>3, <2>4 DEF ReceiveChunk
<1>7. CASE ReceiveCancelled
  <2>1. /\ incoming' \in [Files -> Offsets \cup {None}] /\ asked' \in SUBSET Files
        /\ saw' \in [Files -> Results \cup {"none", "asked", "running"}]
    BY <1>0, <1>7 DEF ReceiveCancelled, TypeOK, Results
  <2> QED BY <1>0, <1>2, <1>7, <2>1, TypeParts, TypePartsPrime DEF ReceiveCancelled
<1> QED BY <1>3, <1>4, <1>5, <1>6, <1>7 DEF ReceiverReads

LEMMA UsersTyped ==
  ASSUME IInv, NEW f \in Files,
         SendFile(f) \/ CancelOutgoing(f) \/ AcceptFile(f) \/ RejectFile(f) \/ CancelIncoming(f)
  PROVE  TypeOK'
<1>0. TypeOK /\ WiresOK /\ ChannelOK /\ toSender \in Seq(ToSender) /\ toReceiver \in Seq(ToReceiver)
  BY TypeParts DEF IInv, WiresOK
<1> USE DEF SenderOK, ReceiverOK, BoundsOK, sender, receiver
<1>1. CASE SendFile(f)
  <2>1. Fresh(f)
    BY <1>1 DEF SendFile, Fresh
  <2>2. /\ WiresOK' /\ errors' \in 0..MaxErrors
        /\ row' \in [Files -> {"none", "Queued", "Sending", "Delivered", "Error", "erased"}]
        /\ attempts' \in [Files -> 0..2] /\ outgoing' \in [Files -> Offsets \cup {None}]
        /\ told' \in [Files -> Results \cup {"none"}]
    <3>1. CASE channel = "open"
      <4>1. PICK missing \in SUBSET {f} : Offers({f}, missing, toSender)
        BY <1>1, <3>1 DEF SendFile
      <4>2. {f} \in SUBSET Files /\ \A g \in {f} : Fresh(g)
        BY <2>1
      <4> QED BY <1>0, <4>1, <4>2, OfferTyped
    <3>2. CASE channel # "open"
      <4>1. SenderWrites(toSender, << >>) \/ SenderWrites(toSender, << [kind |-> "open"] >>)
        BY <1>1, <3>2 DEF SendFile
      <4>2. WiresOK'
        BY <1>0, <4>1, Written, FilePackets
      <4> QED BY <1>0, <1>1, <3>2, <4>2 DEF SendFile, TypeOK
    <3> QED BY <3>1, <3>2
  <2>3. channel' \in {"none", "opening", "open"}
    BY <1>0, <1>1 DEF SendFile, TypeOK
  <2> QED BY <1>0, <1>1, <2>2, <2>3, TypeParts, TypePartsPrime DEF SendFile
<1>2. CASE CancelOutgoing(f)
  <2>1. cancels' \in 0..MaxCancels
    BY <1>0, <1>2, BoundsAssumption DEF CancelOutgoing, TypeOK
  <2>2. WiresOK'
    BY <1>0, <1>2, Written, FilePackets DEF CancelOutgoing, wires, WiresOK
  <2>3. /\ row' \in [Files -> {"none", "Queued", "Sending", "Delivered", "Error", "erased"}]
        /\ channel' \in {"none", "opening", "open"}
        /\ outgoing' \in [Files -> Offsets \cup {None}]
        /\ told' \in [Files -> Results \cup {"none"}]
    BY <1>0, <1>2 DEF CancelOutgoing, TypeOK, Results
  <2> QED BY <1>0, <1>2, <2>1, <2>2, <2>3, TypeParts, TypePartsPrime DEF CancelOutgoing
<1>3. CASE AcceptFile(f)
  <2>1. WiresOK'
    BY <1>0, <1>3, Answers, FilePackets DEF AcceptFile
  <2>2. /\ incoming' \in [Files -> Offsets \cup {None}] /\ asked' \in SUBSET Files
        /\ saw' \in [Files -> Results \cup {"none", "asked", "running"}]
    <3>1. 0 \in Offsets
      BY FilesAssumption DEF Offsets
    <3> QED BY <1>0, <1>3, <3>1 DEF AcceptFile, TypeOK
  <2> QED BY <1>0, <1>3, <2>1, <2>2, TypeParts, TypePartsPrime DEF AcceptFile, bounds
<1>4. CASE RejectFile(f)
  <2>1. WiresOK'
    BY <1>0, <1>4, Answers, FilePackets DEF RejectFile
  <2>2. asked' \in SUBSET Files /\ saw' \in [Files -> Results \cup {"none", "asked", "running"}]
    BY <1>0, <1>4 DEF RejectFile, TypeOK, Results
  <2> QED BY <1>0, <1>4, <2>1, <2>2, TypeParts, TypePartsPrime DEF RejectFile, bounds
<1>5. CASE CancelIncoming(f)
  <2>1. WiresOK'
    BY <1>0, <1>5, Answers, FilePackets DEF CancelIncoming
  <2>2. /\ incoming' \in [Files -> Offsets \cup {None}] /\ asked' \in SUBSET Files
        /\ saw' \in [Files -> Results \cup {"none", "asked", "running"}]
    BY <1>0, <1>5 DEF CancelIncoming, TypeOK, Results
  <2>3. cancels' \in 0..MaxCancels
    BY <1>0, <1>5, BoundsAssumption DEF CancelIncoming, TypeOK
  <2> QED BY <1>0, <1>5, <2>1, <2>2, <2>3, TypeParts, TypePartsPrime DEF CancelIncoming
<1> QED BY <1>1, <1>2, <1>3, <1>4, <1>5

LEMMA ConnectionTyped ==
  ASSUME IInv, Connect \/ Drop \/ PeerGone \/ SenderCall PROVE TypeOK'
<1>0. TypeOK /\ WiresOK /\ ChannelOK /\ toSender \in Seq(ToSender)
  BY TypeParts DEF IInv, WiresOK
<1> USE DEF SenderOK, ReceiverOK, BoundsOK, sender, receiver, bounds
<1>1. ReceiverClosed => /\ incoming' \in [Files -> Offsets \cup {None}] /\ asked' \in SUBSET Files
                        /\ saw' \in [Files -> Results \cup {"none", "asked", "running"}]
                        /\ inbound' \in BOOLEAN
  BY <1>0 DEF ReceiverClosed, TypeOK, Results, NoTransfers
<1>2. SenderLoses => /\ told' \in [Files -> Results \cup {"none"}]
                     /\ outgoing' \in [Files -> Offsets \cup {None}]
                     /\ row' \in [Files -> {"none", "Queued", "Sending", "Delivered", "Error", "erased"}]
  <2>1. SenderLoses => told' \in [Files -> Results \cup {"none"}]
    BY <1>0 DEF SenderLoses, AllTold, Results, TypeOK
  <2>2. SenderLoses => outgoing' \in [Files -> Offsets \cup {None}]
    BY DEF SenderLoses, NoTransfers
  <2>3. SenderLoses =>
          row' \in [Files -> {"none", "Queued", "Sending", "Delivered", "Error", "erased"}]
    BY <1>0 DEF SenderLoses, Requeued, TypeOK
  <2> QED BY <2>1, <2>2, <2>3
<1>3. ASSUME SenderClosed, drops' \in 0..MaxDrops PROVE TypeOK'
  <2>1. WiresOK'
    BY <1>0, <1>3, FilePackets DEF SenderClosed, WiresOK
  <2>2. calls' \in Seq({"sendQueuedMessages", "onDisconnected"})
    BY <1>0, <1>3, AppendProperties DEF SenderClosed, TypeOK
  <2> QED BY <1>0, <1>2, <1>3, <2>1, <2>2, TypeParts, TypePartsPrime DEF SenderClosed
<1>8. CASE Connect
  <2>1. WiresOK'
    BY <1>8, FilePackets DEF Connect, WiresOK
  <2>0. calls' = calls \/ calls' = Append(calls, "sendQueuedMessages")
    BY <1>8 DEF Connect
  <2>2. calls' \in Seq({"sendQueuedMessages", "onDisconnected"})
    <3>1. calls \in Seq({"sendQueuedMessages", "onDisconnected"})
      BY <1>0 DEF TypeOK
    <3>2. Append(calls, "sendQueuedMessages") \in Seq({"sendQueuedMessages", "onDisconnected"})
      BY <3>1, AppendProperties
    <3> QED BY <2>0, <3>1, <3>2
  <2> QED BY <1>0, <1>1, <1>2, <1>8, <2>1, <2>2, TypeParts, TypePartsPrime DEF Connect
<1>4. ASSUME ReceiverGone, drops' \in 0..MaxDrops PROVE TypeOK'
  <2>1. WiresOK'
    BY <1>0, <1>4, FilePackets DEF ReceiverGone, WiresOK
  <2> QED BY <1>0, <1>1, <1>4, <2>1, TypeParts, TypePartsPrime DEF ReceiverGone
<1>5. CASE Drop \/ PeerGone
  <2>1. drops' \in 0..MaxDrops
    BY <1>0, <1>5, BoundsAssumption DEF Drop, PeerGone, TypeOK
  <2> QED BY <1>3, <1>4, <1>5, <2>1 DEF Drop, PeerGone
<1>6. CASE SendQueuedMessages
  <2>1. calls' \in Seq({"sendQueuedMessages", "onDisconnected"})
    BY <1>0, <1>6, HeadTailProperties DEF SendQueuedMessages, TypeOK
  <2>2. SendQueued(channel, toSender) /\ channel \in {"none", "opening", "open"}
    BY <1>0, <1>6 DEF SendQueuedMessages, TypeOK
  <2> QED BY <1>0, <1>6, <2>1, <2>2, SendQueuedTyped, TypeParts, TypePartsPrime
          DEF SendQueuedMessages
<1>7. CASE OnDisconnected
  <2>1. calls' \in Seq({"sendQueuedMessages", "onDisconnected"})
    BY <1>0, <1>7, HeadTailProperties DEF OnDisconnected, TypeOK
  <2> QED BY <1>0, <1>7, <2>1, TypeParts, TypePartsPrime DEF OnDisconnected, wires, WiresOK
<1> QED BY <1>5, <1>6, <1>7, <1>8 DEF SenderCall

LEMMA TypeKeeps == IInv /\ Next => TypeOK'
BY SenderReadsTyped, ReceiverReadsTyped, UsersTyped, ConnectionTyped DEF Next

-----------------------------------------------------------------------------
\* What reading and writing do to a wire.

LEMMA Taken ==
  ASSUME NEW S, NEW w \in Seq(S), w # << >>
  PROVE  /\ Head(w) \in Packets(w) /\ Packets(Tail(w)) \subseteq Packets(w)
         /\ Kinds(w) = {Head(w).kind} \cup Kinds(Tail(w))
         /\ Has(w, Head(w).kind, Head(w).file)
         /\ \A k, f : Has(Tail(w), k, f) => Has(w, k, f)
         /\ \A k, f : Has(w, k, f) => Has(Tail(w), k, f) \/ (Head(w).kind = k /\ Head(w).file = f)
<1>1. Packets(w) = {Head(w)} \cup Packets(Tail(w))
  BY TailPackets
<1>2. Kinds(w) = {p.kind : p \in Packets(w)} /\ Kinds(Tail(w)) = {p.kind : p \in Packets(Tail(w))}
  BY KindsOfPackets
<1> QED BY <1>1, <1>2 DEF Has

LEMMA Said ==
  ASSUME NEW S, NEW w \in Seq(S), NEW v \in Seq(S)
  PROVE  /\ Packets(w \o v) = Packets(w) \cup Packets(v)
         /\ Kinds(w \o v) = Kinds(w) \cup Kinds(v)
         /\ \A k, f : Has(w \o v, k, f) <=> Has(w, k, f) \/ Has(v, k, f)
<1>1. Packets(w \o v) = Packets(w) \cup Packets(v)
  BY ConcatPackets
<1>2. /\ Kinds(w) = {p.kind : p \in Packets(w)} /\ Kinds(v) = {p.kind : p \in Packets(v)}
      /\ Kinds(w \o v) = {p.kind : p \in Packets(w \o v)}
  BY KindsOfPackets
<1> QED BY <1>1, <1>2 DEF Has

\* A wire with no packet, or with one.
LEMMA Silence ==
  /\ Packets(<< >>) = {} /\ Kinds(<< >>) = {} /\ ClosedOnce(<< >>)
  /\ \A k, f : ~Has(<< >>, k, f) /\ Once(<< >>, k, f)
  /\ \A k, l, f : InOrder(<< >>, k, l, f)
BY NoPackets DEF Kinds, Has, ClosedOnce, Once, InOrder

LEMMA Single ==
  ASSUME NEW p
  PROVE  /\ Packets(<<p>>) = {p} /\ Kinds(<<p>>) = {p.kind} /\ ClosedOnce(<<p>>)
         /\ \A k, f : Has(<<p>>, k, f) <=> p.kind = k /\ p.file = f
         /\ \A k, f : Once(<<p>>, k, f)
         /\ \A k, l, f : k # l => InOrder(<<p>>, k, l, f)
<1>1. \A n \in DOMAIN <<p>> : n = 1 /\ <<p>>[n] = p
  OBVIOUS
<1>2. Packets(<<p>>) = {p} /\ Kinds(<<p>>) = {p.kind}
  BY OnePacket, KindsOfPackets
<1>3. \A k, f : Has(<<p>>, k, f) <=> p.kind = k /\ p.file = f
  BY <1>2 DEF Has
<1>4. ClosedOnce(<<p>>) /\ \A k, f : Once(<<p>>, k, f)
  BY <1>1 DEF ClosedOnce, Once
<1>5. ASSUME NEW k, NEW l, NEW f, k # l PROVE InOrder(<<p>>, k, l, f)
  BY <1>1, <1>5 DEF InOrder
<1> QED BY <1>2, <1>3, <1>4, <1>5

\* The sender's wire after it has written.
LEMMA SenderWrote ==
  ASSUME WiresOK, ~peerUp => toReceiver = << >>, NEW packets \in Seq(ToReceiver), NEW unread,
         SenderWrites(unread, packets)
  PROVE  /\ \A k, f : Has(toReceiver', k, f) <=> peerUp /\ (Has(toReceiver, k, f) \/ Has(packets, k, f))
         /\ Kinds(toReceiver') = IF peerUp THEN Kinds(toReceiver) \cup Kinds(packets) ELSE {}
         /\ \A k, f : /\ Once(toReceiver, k, f) /\ Once(packets, k, f)
                      /\ ~Has(toReceiver, k, f) \/ ~Has(packets, k, f)
                      => Once(toReceiver', k, f)
         /\ \A k, l, f : /\ InOrder(toReceiver, k, l, f) /\ InOrder(packets, k, l, f)
                         /\ ~Has(toReceiver, l, f) \/ ~Has(packets, k, f)
                         => InOrder(toReceiver', k, l, f)
         /\ /\ ClosedOnce(toReceiver) /\ ClosedOnce(packets)
            /\ "close" \notin Kinds(toReceiver) \/ Kinds(packets) \subseteq {"open"}
            => ClosedOnce(toReceiver')
<1>1. CASE peerUp
  <2>1. toReceiver' = toReceiver \o packets /\ toReceiver \in Seq(ToReceiver)
    BY <1>1 DEF SenderWrites, WiresOK
  <2>2. /\ Kinds(toReceiver') = Kinds(toReceiver) \cup Kinds(packets)
        /\ \A k, f : Has(toReceiver', k, f) <=> Has(toReceiver, k, f) \/ Has(packets, k, f)
    BY <2>1, Said
  <2>3. ASSUME NEW k, NEW f, Once(toReceiver, k, f), Once(packets, k, f),
               ~Has(toReceiver, k, f) \/ ~Has(packets, k, f)
        PROVE  Once(toReceiver', k, f)
    BY <2>1, <2>3, OnceConcat
  <2>4. ASSUME NEW k, NEW l, NEW f, InOrder(toReceiver, k, l, f), InOrder(packets, k, l, f),
               ~Has(toReceiver, l, f) \/ ~Has(packets, k, f)
        PROVE  InOrder(toReceiver', k, l, f)
    BY <2>1, <2>4, InOrderConcat
  <2>5. ASSUME ClosedOnce(toReceiver), ClosedOnce(packets),
               "close" \notin Kinds(toReceiver) \/ Kinds(packets) \subseteq {"open"}
        PROVE  ClosedOnce(toReceiver')
    <3>1. "close" \notin Kinds(toReceiver) \/ \A p \in Packets(packets) : p.kind = "open"
      <4>1. Kinds(packets) = {p.kind : p \in Packets(packets)}
        BY KindsOfPackets
      <4> QED BY <2>5, <4>1
    <3> QED BY <2>1, <2>5, <3>1, ClosedOnceConcat
  <2> QED BY <1>1, <2>2, <2>3, <2>4, <2>5
<1>2. CASE ~peerUp
  BY <1>2, Silence DEF SenderWrites
<1> QED BY <1>1, <1>2

\* The receiver's wire after it has written, while the sender listens.
LEMMA ReceiverWrote ==
  ASSUME WiresOK, NEW packets \in Seq(ToSender), NEW unread, Talking',  UNCHANGED link,
         ReceiverWrites(unread, packets)
  PROVE  /\ \A k, f : Has(toSender', k, f) <=> Has(toSender, k, f) \/ Has(packets, k, f)
         /\ Kinds(toSender') = Kinds(toSender) \cup Kinds(packets)
         /\ Packets(toSender') = Packets(toSender) \cup Packets(packets)
         /\ \A k, f : /\ Once(toSender, k, f) /\ Once(packets, k, f)
                      /\ ~Has(toSender, k, f) \/ ~Has(packets, k, f)
                      => Once(toSender', k, f)
<1>1. toSender' = toSender \o packets /\ toSender \in Seq(ToSender)
  BY DEF ReceiverWrites, WiresOK, Talking
<1>2. ASSUME NEW k, NEW f, Once(toSender, k, f), Once(packets, k, f),
             ~Has(toSender, k, f) \/ ~Has(packets, k, f)
      PROVE  Once(toSender', k, f)
  BY <1>1, <1>2, OnceConcat
<1> QED BY <1>1, <1>2, Said

LEMMA SenderTakes ==
  ASSUME WiresOK, toSender # << >>, toSender' = Tail(toSender)
  PROVE  /\ Packets(toSender') \subseteq Packets(toSender) /\ Head(toSender) \in Packets(toSender)
         /\ Kinds(toSender) = {Head(toSender).kind} \cup Kinds(toSender')
         /\ Has(toSender, Head(toSender).kind, Head(toSender).file)
         /\ \A k, f : Has(toSender', k, f) => Has(toSender, k, f)
         /\ \A k, f : Has(toSender, k, f) =>
              Has(toSender', k, f) \/ (Head(toSender).kind = k /\ Head(toSender).file = f)
         /\ \A k, f : Once(toSender, k, f) =>
              /\ Once(toSender', k, f)
              /\ Head(toSender).kind = k /\ Head(toSender).file = f => ~Has(toSender', k, f)
<1>1. toSender \in Seq(ToSender)
  BY DEF WiresOK
<1>2. ASSUME NEW k, NEW f, Once(toSender, k, f)
      PROVE  /\ Once(toSender', k, f)
             /\ Head(toSender).kind = k /\ Head(toSender).file = f => ~Has(toSender', k, f)
  BY <1>1, <1>2, OnceTail
<1> QED BY <1>1, <1>2, Taken

LEMMA ReceiverTakes ==
  ASSUME WiresOK, toReceiver # << >>, toReceiver' = Tail(toReceiver)
  PROVE  /\ Kinds(toReceiver) = {Head(toReceiver).kind} \cup Kinds(toReceiver')
         /\ Has(toReceiver, Head(toReceiver).kind, Head(toReceiver).file)
         /\ \A k, f : Has(toReceiver', k, f) => Has(toReceiver, k, f)
         /\ \A k, f : Has(toReceiver, k, f) =>
              Has(toReceiver', k, f) \/ (Head(toReceiver).kind = k /\ Head(toReceiver).file = f)
         /\ \A k, f : Once(toReceiver, k, f) =>
              /\ Once(toReceiver', k, f)
              /\ Head(toReceiver).kind = k /\ Head(toReceiver).file = f => ~Has(toReceiver', k, f)
         /\ \A k, l, f : InOrder(toReceiver, k, l, f) =>
              /\ InOrder(toReceiver', k, l, f)
              /\ Head(toReceiver).kind = l /\ Head(toReceiver).file = f => ~Has(toReceiver', k, f)
         /\ ClosedOnce(toReceiver) =>
              /\ ClosedOnce(toReceiver')
              /\ Head(toReceiver).kind = "close" => \A p \in Packets(toReceiver') : p.kind = "open"
<1>1. toReceiver \in Seq(ToReceiver)
  BY DEF WiresOK
<1>2. ASSUME NEW k, NEW f, Once(toReceiver, k, f)
      PROVE  /\ Once(toReceiver', k, f)
             /\ Head(toReceiver).kind = k /\ Head(toReceiver).file = f => ~Has(toReceiver', k, f)
  BY <1>1, <1>2, OnceTail
<1>3. ASSUME NEW k, NEW l, NEW f, InOrder(toReceiver, k, l, f)
      PROVE  /\ InOrder(toReceiver', k, l, f)
             /\ Head(toReceiver).kind = l /\ Head(toReceiver).file = f => ~Has(toReceiver', k, f)
  BY <1>1, <1>3, InOrderTail
<1>4. ClosedOnce(toReceiver) =>
        /\ ClosedOnce(toReceiver')
        /\ Head(toReceiver).kind = "close" => \A p \in Packets(toReceiver') : p.kind = "open"
  BY <1>1, ClosedOnceTail
<1> QED BY <1>1, <1>2, <1>3, <1>4, Taken

-----------------------------------------------------------------------------
\* The two ends agree about each file.

\* They agree about one of which there are fewer packets and records than before.
LEMMA TurnShrinks ==
  ASSUME NEW f \in Files, Turn(f),
         Fresh(f)' => Fresh(f),
         f \in asked' => f \in asked,
         Accepted(f)' => Accepted(f) /\ incoming'[f] = incoming[f],
         Sent(f)' => Sent(f) /\ outgoing'[f] = outgoing[f],
         \A k \in {"header", "chunk", "cancelled"} : Has(toReceiver', k, f) => Has(toReceiver, k, f),
         \A k \in {"accept", "written", "reject", "complete"} :
           Has(toSender', k, f) => Has(toSender, k, f),
         \A p \in Packets(toSender') :
           p.kind \in {"written", "complete"} /\ p.file = f => p \in Packets(toSender),
         saw'[f] = saw[f] \/ ~Has(toSender', "complete", f)
  PROVE  Turn(f)'
<1>1. \A p \in Packets(toSender') : p.kind = "complete" /\ p.file = f => Has(toSender', "complete", f)
  BY DEF Has
<1> QED BY <1>1 DEF Turn, Known, Answered

\* They remember one of which nothing has changed but what is no record of it.
LEMMA RememberedStill ==
  ASSUME NEW f \in Files, Remembered(f),
         Sent(f)' <=> Sent(f), Known(f)' <=> Known(f),
         \A k \in {"header", "cancelled"} : Has(toReceiver', k, f) <=> Has(toReceiver, k, f),
         Answered(f) => Answered(f)',
         "unnamed" \in Kinds(toSender) => "unnamed" \in Kinds(toSender')
  PROVE  Remembered(f)'
BY DEF Remembered

\* They agree when neither has a record and nothing is on its way.
LEMMA NothingToSay ==
  ASSUME NEW f \in Files, ~Known(f)', ~Sent(f)', toSender' = << >>,
         \A p \in Packets(toReceiver') : p.kind \in {"open", "close"}
  PROVE  Turn(f)' /\ OneEach(f)' /\ Remembered(f)'
<1>1. \A k \in {"header", "chunk", "cancelled"} : ~Has(toReceiver', k, f)
  BY DEF Has
<1>2. Packets(toSender') = {} /\ \A k : ~Has(toSender', k, f) /\ Once(toSender', k, f)
  BY Silence
<1>3. \A n \in DOMAIN toReceiver' : toReceiver'[n].kind \notin {"header", "chunk", "cancelled"}
  BY DEF Packets
<1>4. OneEach(f)'
  BY <1>2, <1>3 DEF OneEach, Once, InOrder
<1>5. Turn(f)'
  BY <1>1, <1>2 DEF Turn, Answered, Known
<1> QED BY <1>1, <1>4, <1>5 DEF Remembered

\* The sender reads a packet and writes some.
LEMMA SenderSteps ==
  ASSUME IInv, NEW g \in Files, toSender # << >>, NEW packets \in Seq(ToReceiver),
         SenderWrites(Tail(toSender), packets),
         \A k \in {"header", "chunk"} :
           Once(packets, k, g) /\ (~Has(toReceiver, k, g) \/ ~Has(packets, k, g)),
         InOrder(packets, "header", "cancelled", g),
         ~Has(toReceiver, "cancelled", g) \/ ~Has(packets, "header", g)
  PROVE  /\ WiresOK /\ Talking /\ link = "up"
         /\ Turn(g) /\ (peerUp => Remembered(g)) /\ OneEach(g)'
         /\ \A k : Has(toReceiver', k, g) <=> peerUp /\ (Has(toReceiver, k, g) \/ Has(packets, k, g))
         /\ ~peerUp => ~Known(g) /\ \A k : ~Has(toReceiver, k, g)
         /\ Packets(toSender') \subseteq Packets(toSender) /\ Head(toSender) \in Packets(toSender)
         /\ Kinds(toSender) = {Head(toSender).kind} \cup Kinds(toSender')
         /\ Has(toSender, Head(toSender).kind, Head(toSender).file)
         /\ \A k : Has(toSender', k, g) => Has(toSender, k, g)
         /\ \A k : Has(toSender, k, g) =>
              Has(toSender', k, g) \/ (Head(toSender).kind = k /\ Head(toSender).file = g)
         /\ \A k \in {"accept", "written"} :
              Head(toSender).kind = k /\ Head(toSender).file = g => ~Has(toSender', k, g)
<1>1. /\ WiresOK /\ ChannelOK /\ Talking
      /\ Turn(g) /\ OneEach(g) /\ (peerUp => Remembered(g))
      /\ ~peerUp => toReceiver = << >> /\ ~Known(g)
  BY TypeParts DEF IInv, Agreed, ChannelOK
<1>2. toSender' = Tail(toSender) /\ link = "up"
  BY <1>1 DEF SenderWrites, Talking
<1>3. /\ \A k, f : Has(toReceiver', k, f) <=> peerUp /\ (Has(toReceiver, k, f) \/ Has(packets, k, f))
      /\ \A k, f : /\ Once(toReceiver, k, f) /\ Once(packets, k, f)
                   /\ ~Has(toReceiver, k, f) \/ ~Has(packets, k, f)
                   => Once(toReceiver', k, f)
      /\ \A k, l, f : /\ InOrder(toReceiver, k, l, f) /\ InOrder(packets, k, l, f)
                      /\ ~Has(toReceiver, l, f) \/ ~Has(packets, k, f)
                      => InOrder(toReceiver', k, l, f)
  BY <1>1, SenderWrote
<1>4. OneEach(g)'
  BY <1>1, <1>2, <1>3, SenderTakes DEF OneEach
<1>5. ~peerUp => \A k : ~Has(toReceiver, k, g)
  BY <1>1, Silence
<1>6. /\ Packets(toSender') \subseteq Packets(toSender) /\ Head(toSender) \in Packets(toSender)
      /\ Kinds(toSender) = {Head(toSender).kind} \cup Kinds(toSender')
      /\ Has(toSender, Head(toSender).kind, Head(toSender).file)
      /\ \A k : Has(toSender', k, g) => Has(toSender, k, g)
      /\ \A k : Has(toSender, k, g) =>
           Has(toSender', k, g) \/ (Head(toSender).kind = k /\ Head(toSender).file = g)
      /\ \A k \in {"accept", "written"} :
           Head(toSender).kind = k /\ Head(toSender).file = g => ~Has(toSender', k, g)
  BY <1>1, <1>2, SenderTakes DEF OneEach
<1> QED BY <1>1, <1>2, <1>3, <1>4, <1>5, <1>6

\* It only reads one that it has no use for, or that ends a transfer.
LEMMA SenderListens ==
  ASSUME IInv, NEW g \in Files, toSender # << >>, SenderWrites(Tail(toSender), << >>),
         UNCHANGED receiver, Fresh(g)' => Fresh(g), Head(toSender).kind # "unnamed",
         outgoing'[g] = outgoing[g] \/ ~Sent(g)',
         Head(toSender).kind \in {"reject", "complete"} /\ Head(toSender).file = g => ~Sent(g)',
         ~Sent(g)' => \/ ~Sent(g)
                      \/ Head(toSender).kind \in {"reject", "complete"} /\ Head(toSender).file = g
  PROVE  Turn(g)' /\ OneEach(g)' /\ (peerUp' => Remembered(g)')
<1>0. /\ << >> \in Seq(ToReceiver)
      /\ \A k : Once(<< >>, k, g) /\ ~Has(<< >>, k, g)
      /\ InOrder(<< >>, "header", "cancelled", g)
  BY FilePackets, Silence
<1>1. /\ WiresOK /\ Talking /\ link = "up"
      /\ Turn(g) /\ (peerUp => Remembered(g)) /\ OneEach(g)'
      /\ \A k : Has(toReceiver', k, g) <=> peerUp /\ (Has(toReceiver, k, g) \/ Has(<< >>, k, g))
      /\ ~peerUp => ~Known(g) /\ \A k : ~Has(toReceiver, k, g)
      /\ Packets(toSender') \subseteq Packets(toSender) /\ Head(toSender) \in Packets(toSender)
      /\ Kinds(toSender) = {Head(toSender).kind} \cup Kinds(toSender')
      /\ Has(toSender, Head(toSender).kind, Head(toSender).file)
      /\ \A k : Has(toSender', k, g) => Has(toSender, k, g)
      /\ \A k : Has(toSender, k, g) =>
           Has(toSender', k, g) \/ (Head(toSender).kind = k /\ Head(toSender).file = g)
  BY <1>0, SenderSteps
<1>2. /\ \A k : Has(toReceiver', k, g) <=> Has(toReceiver, k, g)
      /\ peerUp' = peerUp /\ asked' = asked /\ incoming' = incoming /\ saw' = saw
  BY <1>0, <1>1 DEF receiver
<1>3. Turn(g)'
  BY <1>1, <1>2, TurnShrinks DEF Accepted, Sent
<1>4. CASE ~(Head(toSender).kind \in {"reject", "complete"} /\ Head(toSender).file = g)
  <2>1. Answered(g) => Answered(g)'
    BY <1>1, <1>4 DEF Answered
  <2>2. Sent(g)' <=> Sent(g)
    BY <1>4 DEF Sent
  <2>3. Known(g)' <=> Known(g)
    BY <1>2 DEF Known, Accepted
  <2> QED BY <1>1, <1>2, <1>3, <2>1, <2>2, <2>3, RememberedStill
<1>5. CASE Head(toSender).kind \in {"reject", "complete"} /\ Head(toSender).file = g
  <2>1. Answered(g)
    BY <1>1, <1>5 DEF Answered
  <2>2. ~Known(g) /\ ~Has(toReceiver, "header", g)
    BY <1>1, <2>1 DEF Turn
  <2> QED BY <1>1, <1>2, <1>3, <1>5, <2>2 DEF Remembered, Known, Accepted
<1> QED BY <1>4, <1>5

LEMMA AckAgrees == ASSUME IInv, ReceiveAck PROVE Agreed'
<1>1. /\ toSender # << >> /\ SenderWrites(Tail(toSender), << >>) /\ Head(toSender).kind = "ack"
      /\ UNCHANGED <<outgoing, receiver>>
  BY DEF ReceiveAck, FromReceiver
<1>2. ASSUME NEW g \in Files PROVE Fresh(g)' => Fresh(g)
  BY DEF ReceiveAck, IInv, TypeOK, Fresh
<1>3. ASSUME NEW g \in Files PROVE Turn(g)' /\ OneEach(g)' /\ (peerUp' => Remembered(g)')
  BY <1>1, <1>2, SenderListens DEF Sent
<1> QED BY <1>3 DEF Agreed

LEMMA CompleteAgrees == ASSUME IInv, ReceiveComplete PROVE Agreed'
<1>1. /\ toSender # << >> /\ SenderWrites(Tail(toSender), << >>) /\ Head(toSender).kind = "complete"
      /\ UNCHANGED <<row, receiver>>
  BY DEF ReceiveComplete, FromReceiver
<1>2. ASSUME NEW g \in Files
      PROVE  /\ Head(toSender).file = g => ~Sent(g)'
             /\ Head(toSender).file # g => outgoing'[g] = outgoing[g]
  BY DEF ReceiveComplete, IInv, TypeOK, Sent
<1>3. ASSUME NEW g \in Files PROVE Turn(g)' /\ OneEach(g)' /\ (peerUp' => Remembered(g)')
  BY <1>1, <1>2, SenderListens DEF Sent, Fresh
<1> QED BY <1>3 DEF Agreed

\* It sends the next chunk to one that has accepted, or written, all before.
LEMMA NextChunkAgrees ==
  ASSUME IInv, toSender # << >>, NEW f \in Files, Head(toSender).kind \in {"accept", "written"},
         Head(toSender).file = f, Head(toSender).kind = "written" => Head(toSender).bytes = outgoing[f],
         Sent(f), SendNextChunk(f), UNCHANGED <<row, link, receiver>>
  PROVE  Agreed'
<1> DEFINE p == [kind |-> "chunk", file |-> f]
           h == Head(toSender)
<1>1. /\ <<p>> \in Seq(ToReceiver) /\ SenderWrites(Tail(toSender), <<p>>)
      /\ \A k, g : Once(<<p>>, k, g) /\ (Has(<<p>>, k, g) <=> k = "chunk" /\ g = f)
      /\ \A g : InOrder(<<p>>, "header", "cancelled", g)
  <2>1. <<p>> \in Seq(ToReceiver) /\ SenderWrites(Tail(toSender), <<p>>)
    BY FilePackets DEF SendNextChunk
  <2>2. p.kind = "chunk" /\ p.file = f
    OBVIOUS
  <2> HIDE DEF p
  <2>3. /\ \A k, g : Has(<<p>>, k, g) <=> p.kind = k /\ p.file = g
        /\ \A k, g : Once(<<p>>, k, g)
        /\ \A k, l, g : k # l => InOrder(<<p>>, k, l, g)
    BY Single
  <2> QED BY <2>1, <2>2, <2>3
<1>2. /\ outgoing'[f] = outgoing[f] + 1 /\ \A g \in Files : g # f => outgoing'[g] = outgoing[g]
      /\ outgoing[f] \in Offsets /\ WiresOK /\ ~Fresh(f)
  BY TypeParts DEF SendNextChunk, IInv, TypeOK, Sent, ChannelOK
<1>3. Talking /\ Turn(f) /\ h \in Packets(toSender) /\ Has(toSender, h.kind, f)
  BY <1>2, Taken DEF IInv, ChannelOK, Agreed, WiresOK
<1>4. ~Has(toReceiver, "chunk", f)
  BY <1>3 DEF Turn
<1> HIDE DEF p
<1>5. ASSUME NEW g \in Files
      PROVE  /\ Turn(g) /\ (peerUp => Remembered(g)) /\ OneEach(g)'
             /\ \A k : Has(toReceiver', k, g) <=> peerUp /\ (Has(toReceiver, k, g) \/ Has(<<p>>, k, g))
             /\ ~peerUp => ~Known(g) /\ \A k : ~Has(toReceiver, k, g)
             /\ Packets(toSender') \subseteq Packets(toSender)
             /\ Kinds(toSender) = {h.kind} \cup Kinds(toSender')
             /\ \A k : Has(toSender', k, g) => Has(toSender, k, g)
             /\ \A k : Has(toSender, k, g) => Has(toSender', k, g) \/ (h.kind = k /\ h.file = g)
             /\ \A k \in {"accept", "written"} : h.kind = k /\ h.file = g => ~Has(toSender', k, g)
  <2>1. /\ \A k \in {"header", "chunk"} :
             Once(<<p>>, k, g) /\ (~Has(toReceiver, k, g) \/ ~Has(<<p>>, k, g))
        /\ InOrder(<<p>>, "header", "cancelled", g)
        /\ ~Has(toReceiver, "cancelled", g) \/ ~Has(<<p>>, "header", g)
    BY <1>1, <1>4
  <2> DEFINE packets == <<p>>
  <2> HIDE DEF packets
  <2>2. packets \in Seq(ToReceiver) /\ SenderWrites(Tail(toSender), packets)
    BY <1>1 DEF packets
  <2> QED BY <2>1, <2>2, SenderSteps DEF packets
<1>6. peerUp' = peerUp /\ asked' = asked /\ incoming' = incoming /\ saw' = saw
  BY DEF receiver
<1>7. ASSUME NEW g \in Files
      PROVE  /\ \A k \in {"header", "cancelled"} : Has(toReceiver', k, g) <=> Has(toReceiver, k, g)
             /\ Answered(g)' <=> Answered(g)
             /\ Sent(g)' <=> Sent(g)
             /\ Known(g)' <=> Known(g)
  <2>1. Sent(g)' <=> Sent(g)
    <3>1. outgoing[f] + 1 # None
      BY <1>2, FilesAssumption DEF Offsets, None
    <3> QED BY <1>2, <3>1 DEF Sent
  <2> QED BY <1>1, <1>5, <1>6, <2>1 DEF Answered, Known, Accepted
<1>8. ASSUME NEW g \in Files PROVE peerUp' => Remembered(g)'
  BY <1>5, <1>6, <1>7, RememberedStill
<1>9. ASSUME NEW g \in Files, g # f PROVE Turn(g)'
  BY <1>1, <1>2, <1>5, <1>6, <1>9, TurnShrinks DEF Sent, Accepted, Fresh
<1>10. Turn(f)'
  <2>1. /\ ~Has(toReceiver, "header", f) /\ f \notin asked /\ ~Has(toReceiver, "cancelled", f)
        /\ ~Has(toSender', "accept", f) /\ ~Has(toSender', "written", f)
        /\ Accepted(f) => outgoing[f] = incoming[f]
    BY <1>3, <1>5 DEF Turn
  <2>2. \A q \in Packets(toSender') : q.kind = "written" => q.file # f
    BY <2>1 DEF Has
  <2>3. /\ Answered(f) => ~Known(f)
        /\ \A q \in Packets(toSender) :
             q.kind = "complete" /\ q.file = f /\ q.result = "success"
               => saw[f] \in {"success", "spoilt"}
    BY <1>3 DEF Turn
  <2> QED BY <1>2, <1>5, <1>6, <1>7, <2>1, <2>2, <2>3 DEF Turn, Fresh, Known, Accepted
<1> QED BY <1>5, <1>8, <1>9, <1>10 DEF Agreed


\* A channel that the sender closes has nothing to agree about.
LEMMA FatalAgrees == ASSUME IInv, toSender # << >>, FatalError PROVE Agreed'
<1>1. /\ WiresOK /\ ChannelOK /\ SenderWrites(<< >>, << [kind |-> "close"] >>)
      /\ ~peerUp => toReceiver = << >> /\ \A g \in Files : ~Known(g)
      /\ UNCHANGED receiver /\ toSender' = << >>
  BY TypeParts DEF IInv, FatalError, ChannelOK, SenderWrites
<1>2. CASE peerUp
  <2>1. Kinds(toReceiver') = Kinds(toReceiver) \cup Kinds(<< [kind |-> "close"] >>)
    BY <1>1, <1>2, SenderWrote, FilePackets
  <2>2. "close" \in Kinds(<< [kind |-> "close"] >>)
    BY Single
  <2> QED BY <2>1, <2>2 DEF Agreed, Talking
<1>3. CASE ~peerUp
  <2>1. Packets(toReceiver') = {}
    BY <1>1, <1>3, Silence DEF SenderWrites
  <2>2. ASSUME NEW g \in Files PROVE ~Known(g)' /\ ~Sent(g)'
    BY <1>1, <1>3 DEF FatalError, NoTransfers, receiver, Known, Accepted, Sent
  <2>3. ASSUME NEW g \in Files PROVE Turn(g)' /\ OneEach(g)' /\ Remembered(g)'
    BY <1>1, <2>1, <2>2, NothingToSay
  <2> QED BY <2>3 DEF Agreed
<1> QED BY <1>2, <1>3

LEMMA ResponseAgrees == ASSUME IInv, ReceiveResponse PROVE Agreed'
<1> DEFINE f == Head(toSender).file
<1>1. /\ toSender # << >> /\ Head(toSender).kind \in {"accept", "reject"}
      /\ UNCHANGED <<row, link, receiver>> /\ f \in Files
      /\ outgoing \in [Files -> Offsets \cup {None}]
  BY Heads, TypeParts DEF ReceiveResponse, FromReceiver, IInv, SenderOK
<1>2. CASE Sent(f) /\ Head(toSender).kind = "accept"
  <2>1. SendNextChunk(f)
    BY <1>2 DEF ReceiveResponse
  <2> QED BY <1>1, <1>2, <2>1, NextChunkAgrees
<1>3. CASE ~(Sent(f) /\ Head(toSender).kind = "accept")
  <2>1. /\ SenderWrites(Tail(toSender), << >>)
        /\ outgoing' = outgoing \/ outgoing' = [outgoing EXCEPT ![f] = None]
        /\ Head(toSender).kind = "accept" => outgoing' = outgoing
        /\ Sent(f) => outgoing' = [outgoing EXCEPT ![f] = None]
    BY <1>1, <1>3 DEF ReceiveResponse
  <2>2. ASSUME NEW g \in Files
        PROVE  /\ outgoing'[g] = outgoing[g] \/ ~Sent(g)'
               /\ Head(toSender).kind = "reject" /\ f = g => ~Sent(g)'
               /\ ~Sent(g)' => ~Sent(g) \/ (Head(toSender).kind = "reject" /\ f = g)
    BY <1>1, <2>1 DEF Sent
  <2>3. ASSUME NEW g \in Files PROVE Turn(g)' /\ OneEach(g)' /\ (peerUp' => Remembered(g)')
    BY <1>1, <2>1, <2>2, SenderListens DEF Fresh
  <2> QED BY <2>3 DEF Agreed
<1> QED BY <1>2, <1>3

LEMMA WrittenAgrees == ASSUME IInv, ReceiveWritten PROVE Agreed'
<1> DEFINE f == Head(toSender).file
<1>1. /\ toSender # << >> /\ Head(toSender).kind = "written" /\ f \in Files
  BY Heads, TypeParts DEF ReceiveWritten, FromReceiver, IInv
<1>2. CASE Sent(f) /\ Head(toSender).bytes # outgoing[f]
  BY <1>1, <1>2, FatalAgrees DEF ReceiveWritten
<1>3. CASE ~(Sent(f) /\ Head(toSender).bytes # outgoing[f])
  <2>1. UNCHANGED <<row, link, receiver>>
    BY <1>3 DEF ReceiveWritten
  <2>2. CASE Sent(f) /\ outgoing[f] < Chunks
    <3>1. SendNextChunk(f)
      BY <1>3, <2>2 DEF ReceiveWritten
    <3> QED BY <1>1, <1>3, <2>1, <2>2, <3>1, NextChunkAgrees
  <2>3. CASE ~(Sent(f) /\ outgoing[f] < Chunks)
    <3>1. SenderWrites(Tail(toSender), << >>) /\ outgoing' = outgoing
      BY <1>3, <2>3 DEF ReceiveWritten
    <3>2. ASSUME NEW g \in Files PROVE Turn(g)' /\ OneEach(g)' /\ (peerUp' => Remembered(g)')
      BY <1>1, <2>1, <3>1, SenderListens DEF Fresh, Sent
    <3> QED BY <3>2 DEF Agreed
  <2> QED BY <2>2, <2>3
<1> QED BY <1>2, <1>3

\* Files are offered once nothing is left of an earlier attempt.
LEMMA OffersAgree ==
  ASSUME IInv, Talking, NEW S \in SUBSET Files, \A f \in S : Fresh(f), NEW missing \in SUBSET S,
         NEW unread, Offers(S, missing, unread), UNCHANGED <<link, receiver>>,
         \/ unread = toSender
         \/ toSender # << >> /\ unread = Tail(toSender) /\ Head(toSender).kind = "opened"
  PROVE  Agreed'
<1>1. /\ WiresOK /\ ChannelOK /\ toReceiver \in Seq(ToReceiver)
      /\ \A g \in Files : Turn(g) /\ OneEach(g) /\ (peerUp => Remembered(g))
      /\ ~peerUp => toReceiver = << >> /\ \A g \in Files : ~Known(g)
      /\ peerUp' = peerUp /\ asked' = asked /\ incoming' = incoming /\ saw' = saw
  BY TypeParts DEF IInv, Agreed, ChannelOK, receiver, WiresOK
<1>2. PICK order \in OldestFirst(S \ missing) : SenderWrites(unread, Headers(order))
  BY DEF Offers
<1> DEFINE packets == Headers(order)
<1>3. /\ packets \in Seq(ToReceiver) /\ Packets(packets) = {[kind |-> "header", file |-> f] : f \in S \ missing}
      /\ \A g \in Files : Once(packets, "header", g)
  BY HeadersOfFiles
<1> HIDE DEF packets
<1>4. ASSUME NEW g \in Files
      PROVE  /\ \A k : Has(packets, k, g) <=> k = "header" /\ g \in S \ missing
             /\ Once(packets, "header", g) /\ Once(packets, "chunk", g)
             /\ InOrder(packets, "header", "cancelled", g)
  <2>1. \A k : Has(packets, k, g) <=> k = "header" /\ g \in S \ missing
    <3>1. ASSUME NEW k, Has(packets, k, g) PROVE k = "header" /\ g \in S \ missing
      BY <1>3, <3>1 DEF Has
    <3>2. ASSUME g \in S \ missing PROVE Has(packets, "header", g)
      <4> DEFINE p == [kind |-> "header", file |-> g]
      <4>1. p \in Packets(packets) /\ p.kind = "header" /\ p.file = g
        BY <1>3, <3>2
      <4> QED BY <4>1 DEF Has
    <3> QED BY <3>1, <3>2
  <2>2. \A n \in DOMAIN packets : packets[n].kind = "header"
    BY <1>3 DEF Packets
  <2> QED BY <1>3, <2>1, <2>2 DEF Once, InOrder
<1>5. /\ \A k, f : Has(toReceiver', k, f) <=> peerUp /\ (Has(toReceiver, k, f) \/ Has(packets, k, f))
      /\ \A k, f : /\ Once(toReceiver, k, f) /\ Once(packets, k, f)
                   /\ ~Has(toReceiver, k, f) \/ ~Has(packets, k, f)
                   => Once(toReceiver', k, f)
      /\ \A k, l, f : /\ InOrder(toReceiver, k, l, f) /\ InOrder(packets, k, l, f)
                      /\ ~Has(toReceiver, l, f) \/ ~Has(packets, k, f)
                      => InOrder(toReceiver', k, l, f)
  <2>1. SenderWrites(unread, packets)
    BY <1>2 DEF packets
  <2>2. ~peerUp => toReceiver = << >>
    BY <1>1
  <2> QED BY <1>1, <1>3, <2>1, <2>2, SenderWrote
<1>6. ~peerUp => \A g \in Files : \A k : ~Has(toReceiver, k, g)
  BY <1>1, Silence
<1>7. /\ \A g \in Files : \A k : k # "opened" => (Has(toSender', k, g) <=> Has(toSender, k, g))
      /\ Packets(toSender') \subseteq Packets(toSender)
      /\ "unnamed" \in Kinds(toSender) => "unnamed" \in Kinds(toSender')
      /\ \A g \in Files : \A k : Once(toSender, k, g) => Once(toSender', k, g)
  <2>1. toSender' = unread
    BY <1>2 DEF SenderWrites
  <2> QED BY <1>1, <2>1, SenderTakes
<1>8. /\ \A g \in S : ~Fresh(g)'
      /\ \A g \in S \ missing : Sent(g)' /\ outgoing'[g] = 0
      /\ \A g \in missing : ~Sent(g)'
      /\ \A g \in Files \ S : outgoing'[g] = outgoing[g] /\ row'[g] = row[g]
  BY <1>1 DEF Offers, ChannelOK, Fresh, Sent, None
<1>9. ASSUME NEW g \in Files \ S PROVE Turn(g)' /\ OneEach(g)' /\ (peerUp' => Remembered(g)')
  <2>1. OneEach(g)'
    BY <1>1, <1>4, <1>5, <1>7 DEF OneEach
  <2>2. \A k : Has(toReceiver', k, g) <=> Has(toReceiver, k, g)
    BY <1>4, <1>5, <1>6
  <2>3. Turn(g)'
    BY <1>1, <1>7, <1>8, <2>2, TurnShrinks DEF Fresh, Sent, Accepted
  <2>4. Answered(g)' <=> Answered(g)
    BY <1>7 DEF Answered
  <2>5. peerUp' => Remembered(g)'
    BY <1>1, <1>7, <1>8, <2>2, <2>4, RememberedStill DEF Sent, Known, Accepted
  <2> QED BY <2>1, <2>3, <2>5
<1>10. ASSUME NEW g \in S PROVE Turn(g)' /\ OneEach(g)' /\ (peerUp' => Remembered(g)')
  <2>1. /\ ~Known(g) /\ ~Answered(g) /\ ~Known(g)' /\ ~Answered(g)'
        /\ \A k \in {"header", "chunk", "cancelled"} : ~Has(toReceiver, k, g)
        /\ \A k \in {"accept", "written"} : ~Has(toSender', k, g)
    BY <1>1, <1>7 DEF Turn, Answered, Known, Accepted
  <2>2. \A k \in {"header", "chunk", "cancelled"} :
          Has(toReceiver', k, g) <=> peerUp /\ k = "header" /\ g \in S \ missing
    BY <1>4, <1>5, <2>1
  <2>3. OneEach(g)'
    BY <1>1, <1>4, <1>5, <1>7, <2>1 DEF OneEach
  <2>4. \A q \in Packets(toSender') : q.file = g => q.kind \notin {"written", "complete"}
    BY <2>1 DEF Answered, Has
  <2>5. Turn(g)'
    BY <1>1, <1>8, <2>1, <2>2, <2>4 DEF Turn, Known, Accepted
  <2>6. peerUp' => Remembered(g)'
    BY <1>1, <1>8, <2>1, <2>2 DEF Remembered
  <2> QED BY <2>3, <2>5, <2>6
<1> QED BY <1>9, <1>10 DEF Agreed


\* The sender writes nothing that is about a file.
LEMMA NothingOffered ==
  ASSUME IInv, NEW packets \in {<< >>, << [kind |-> "open"] >>}, SenderWrites(toSender, packets),
         UNCHANGED <<link, outgoing, receiver>>, \A g \in Files : Fresh(g)' => Fresh(g)
  PROVE  Agreed'
<1>1. packets \in Seq(ToReceiver) /\ \A k, g : Once(packets, k, g)
  <2>1. packets \in Seq(ToReceiver)
    BY FilePackets
  <2>2. \A k, g : Once(<< >>, k, g) /\ Once(<< [kind |-> "open"] >>, k, g)
    BY Silence, Single
  <2> QED BY <2>1, <2>2
<1>2. ASSUME NEW g \in Files
      PROVE  /\ InOrder(packets, "header", "cancelled", g)
             /\ \A k : k # "open" => ~Has(packets, k, g)
  BY Silence, Single
<1>3. /\ WiresOK /\ ChannelOK /\ (~peerUp => toReceiver = << >>) /\ toSender' = toSender
      /\ peerUp' = peerUp /\ asked' = asked /\ incoming' = incoming /\ saw' = saw
  BY TypeParts DEF IInv, ChannelOK, SenderWrites, receiver
<1>4. /\ \A k, f : Has(toReceiver', k, f) <=> peerUp /\ (Has(toReceiver, k, f) \/ Has(packets, k, f))
      /\ Kinds(toReceiver') = IF peerUp THEN Kinds(toReceiver) \cup Kinds(packets) ELSE {}
      /\ \A k, f : /\ Once(toReceiver, k, f) /\ Once(packets, k, f)
                   /\ ~Has(toReceiver, k, f) \/ ~Has(packets, k, f)
                   => Once(toReceiver', k, f)
      /\ \A k, l, f : /\ InOrder(toReceiver, k, l, f) /\ InOrder(packets, k, l, f)
                      /\ ~Has(toReceiver, l, f) \/ ~Has(packets, k, f)
                      => InOrder(toReceiver', k, l, f)
  BY <1>1, <1>3, SenderWrote
<1>5. ASSUME Talking', NEW g \in Files
      PROVE  Turn(g)' /\ OneEach(g)' /\ (peerUp' => Remembered(g)')
  <2>1. Talking /\ Turn(g) /\ OneEach(g) /\ (peerUp => Remembered(g))
    <3>1. Talking
      BY <1>3, <1>4, <1>5, Silence DEF Talking
    <3> QED BY <3>1 DEF IInv, Agreed
  <2>2. \A k : k # "open" => (Has(toReceiver', k, g) <=> Has(toReceiver, k, g))
    BY <1>2, <1>3, <1>4, Silence
  <2>3. OneEach(g)'
    BY <1>1, <1>2, <1>3, <1>4, <2>1 DEF OneEach
  <2>4. Turn(g)'
    BY <1>3, <2>1, <2>2, TurnShrinks DEF Sent, Accepted
  <2>5. peerUp' => Remembered(g)'
    BY <1>3, <2>1, <2>2, RememberedStill DEF Sent, Known, Accepted, Answered
  <2> QED BY <2>3, <2>4, <2>5
<1> QED BY <1>5 DEF Agreed

LEMMA QueueAgrees ==
  ASSUME IInv, ReceiveOpened \/ SendQueuedMessages PROVE Agreed'
<1>0. Queued \in SUBSET Files /\ \A g \in Queued : Fresh(g)
  BY DEF Queued, Fresh
<1>1. CASE ReceiveOpened
  <2>1. Talking /\ link = "up" /\ toSender # << >> /\ Head(toSender).kind = "opened"
        /\ UNCHANGED <<link, receiver>>
    BY <1>1 DEF ReceiveOpened, FromReceiver, IInv, ChannelOK
  <2>2. PICK missing \in SUBSET Queued : Offers(Queued, missing, Tail(toSender))
    BY <1>1, <2>1 DEF ReceiveOpened, SendQueued
  <2> QED BY <1>0, <2>1, <2>2, OffersAgree
<1>2. CASE SendQueuedMessages
  <2>1. SendQueued(channel, toSender) /\ UNCHANGED <<link, receiver>>
    BY <1>2 DEF SendQueuedMessages
  <2>2. CASE link = "up" /\ channel = "open"
    <3>1. Talking
      BY <2>2 DEF IInv, ChannelOK
    <3>2. PICK missing \in SUBSET Queued : Offers(Queued, missing, toSender)
      BY <2>1, <2>2 DEF SendQueued
    <3> QED BY <1>0, <2>1, <3>1, <3>2, OffersAgree
  <2>3. CASE ~(link = "up" /\ channel = "open")
    <3>1. PICK packets \in {<< >>, << [kind |-> "open"] >>} : SenderWrites(toSender, packets)
      BY <2>1, <2>3 DEF SendQueued
    <3>2. UNCHANGED <<row, outgoing>>
      BY <2>1, <2>3 DEF SendQueued
    <3> QED BY <2>1, <3>1, <3>2, NothingOffered DEF Fresh
  <2> QED BY <2>2, <2>3
<1> QED BY <1>1, <1>2

LEMMA SendFileAgrees == ASSUME IInv, NEW f \in Files, SendFile(f) PROVE Agreed'
<1>0. Fresh(f) /\ UNCHANGED <<link, receiver>>
  BY DEF SendFile, Fresh
<1>1. CASE channel = "open"
  <2>1. Talking
    BY <1>1 DEF IInv, ChannelOK
  <2>2. PICK missing \in SUBSET {f} : Offers({f}, missing, toSender)
    BY <1>1 DEF SendFile
  <2>3. {f} \in SUBSET Files /\ \A g \in {f} : Fresh(g)
    BY <1>0
  <2> QED BY <1>0, <2>1, <2>2, <2>3, OffersAgree
<1>2. CASE channel # "open"
  <2>1. PICK packets \in {<< >>, << [kind |-> "open"] >>} : SenderWrites(toSender, packets)
    BY <1>2 DEF SendFile
  <2>2. UNCHANGED outgoing /\ \A g \in Files : Fresh(g)' => Fresh(g)
    BY <1>0, <1>2 DEF SendFile, Fresh, IInv, TypeOK
  <2> QED BY <1>0, <2>1, <2>2, NothingOffered
<1> QED BY <1>1, <1>2

\* A file that is cancelled is one of which the sender has no record from then on.
LEMMA CancelAgrees == ASSUME IInv, NEW f \in Files, CancelOutgoing(f) PROVE Agreed'
<1>0. /\ UNCHANGED <<link, receiver>> /\ WiresOK /\ ChannelOK /\ (~peerUp => toReceiver = << >>)
      /\ outgoing \in [Files -> Offsets \cup {None}]
  BY TypeParts DEF CancelOutgoing, IInv, ChannelOK, SenderOK
<1>1. CASE link = "none"
  BY <1>0, <1>1 DEF Agreed, Talking
<1>2. CASE SenderWrites(toSender, << [kind |-> "open"] >>) /\ UNCHANGED <<row, outgoing>>
  <2>1. << [kind |-> "open"] >> \in {<< >>, << [kind |-> "open"] >>}
    OBVIOUS
  <2> QED BY <1>0, <1>2, <2>1, NothingOffered DEF Fresh
<1>3. CASE /\ channel = "open" /\ Sent(f) /\ outgoing' = [outgoing EXCEPT ![f] = None]
           /\ SenderWrites(toSender, << [kind |-> "cancelled", file |-> f] >>) /\ UNCHANGED row
  <2> DEFINE p == [kind |-> "cancelled", file |-> f]
             packets == <<p>>
  <2>1. packets \in Seq(ToReceiver) /\ SenderWrites(toSender, packets)
    BY <1>3, FilePackets
  <2>2. p.kind = "cancelled" /\ p.file = f
    OBVIOUS
  <2> HIDE DEF p
  <2>3. /\ \A k, g : Has(packets, k, g) <=> k = "cancelled" /\ g = f
        /\ \A k, g : Once(packets, k, g)
        /\ \A g : InOrder(packets, "header", "cancelled", g)
    BY <2>2, Single
  <2> HIDE DEF packets
  <2>4. /\ \A k, g : Has(toReceiver', k, g) <=> peerUp /\ (Has(toReceiver, k, g) \/ Has(packets, k, g))
        /\ \A k, g : /\ Once(toReceiver, k, g) /\ Once(packets, k, g)
                     /\ ~Has(toReceiver, k, g) \/ ~Has(packets, k, g)
                     => Once(toReceiver', k, g)
        /\ \A k, l, g : /\ InOrder(toReceiver, k, l, g) /\ InOrder(packets, k, l, g)
                        /\ ~Has(toReceiver, l, g) \/ ~Has(packets, k, g)
                        => InOrder(toReceiver', k, l, g)
    BY <1>0, <2>1, SenderWrote
  <2>5. /\ Talking /\ ~Fresh(f) /\ toSender' = toSender
        /\ peerUp' = peerUp /\ asked' = asked /\ incoming' = incoming /\ saw' = saw
    BY <1>0, <1>3 DEF ChannelOK, SenderWrites, receiver
  <2>6. \A g \in Files : Turn(g) /\ OneEach(g) /\ (peerUp => Remembered(g))
    BY <2>5 DEF IInv, Agreed
  <2>7. ASSUME NEW g \in Files
        PROVE  \A k : Has(toReceiver', k, g) =>
                         Has(toReceiver, k, g) \/ (k = "cancelled" /\ g = f)
    BY <2>3, <2>4
  <2>8. ~peerUp => \A g \in Files : \A k : ~Has(toReceiver, k, g)
    BY <1>0, Silence
  <2>9. \A g \in Files : OneEach(g)'
    BY <2>3, <2>4, <2>5, <2>6 DEF OneEach
  <2>10. ~Sent(f)' /\ \A g \in Files : g # f => outgoing'[g] = outgoing[g]
    BY <1>0, <1>3 DEF Sent
  <2>11. ASSUME NEW g \in Files, g # f PROVE Turn(g)' /\ (peerUp' => Remembered(g)')
    <3>1. \A k : Has(toReceiver', k, g) <=> Has(toReceiver, k, g)
      BY <2>3, <2>4, <2>8, <2>11
    <3>2. Turn(g)'
      BY <1>3, <2>5, <2>6, <2>10, <2>11, <3>1, TurnShrinks DEF Sent, Accepted, Fresh
    <3>3. peerUp' => Remembered(g)'
      BY <2>5, <2>6, <2>10, <2>11, <3>1, RememberedStill DEF Sent, Known, Accepted, Answered
    <3> QED BY <3>2, <3>3
  <2>12. Turn(f)'
    <3>1. /\ Turn(f) /\ ~Fresh(f)'
          /\ \A k : k # "cancelled" /\ Has(toReceiver', k, f) => Has(toReceiver, k, f)
      BY <1>3, <2>5, <2>6, <2>7 DEF Fresh
    <3> QED BY <2>5, <2>10, <3>1 DEF Turn, Known, Accepted, Answered
  <2>13. peerUp' => Remembered(f)'
    <3>1. Has(packets, "cancelled", f)
      BY <2>3
    <3> QED BY <2>4, <2>5, <2>10, <3>1 DEF Remembered
  <2> QED BY <2>9, <2>11, <2>12, <2>13 DEF Agreed
<1> QED BY <1>1, <1>2, <1>3 DEF CancelOutgoing


\* The receiver writes packets, after it has read one or none.
LEMMA ReceiverSteps ==
  ASSUME IInv, Talking', peerUp, UNCHANGED <<sender, peerUp>>, NEW g \in Files,
         NEW packets \in Seq(ToSender), NEW unread, ReceiverWrites(unread, packets),
         \/ unread = toReceiver
         \/ /\ toReceiver # << >> /\ unread = Tail(toReceiver)
            /\ Head(toReceiver).kind # "close",
         \A k \in {"accept", "written"} :
           Once(packets, k, g) /\ (~Has(toSender, k, g) \/ ~Has(packets, k, g))
  PROVE  /\ Turn(g) /\ Remembered(g) /\ OneEach(g)'
         /\ \A k : Has(toSender', k, g) <=> Has(toSender, k, g) \/ Has(packets, k, g)
         /\ Packets(toSender') = Packets(toSender) \cup Packets(packets)
         /\ Kinds(toSender') = Kinds(toSender) \cup Kinds(packets)
         /\ \A k : Has(toReceiver', k, g) => Has(toReceiver, k, g)
         /\ (Fresh(g)' <=> Fresh(g)) /\ outgoing'[g] = outgoing[g] /\ (Sent(g)' <=> Sent(g))
         /\ peerUp'
<1>1. WiresOK /\ toReceiver' = unread /\ UNCHANGED <<link, row, outgoing>>
  BY TypeParts DEF IInv, sender, ReceiverWrites
<1>2. CASE unread = toReceiver
  <2>1. Talking /\ toReceiver' = toReceiver
    BY <1>1, <1>2 DEF Talking
  <2>2. Turn(g) /\ OneEach(g) /\ Remembered(g)
    BY <2>1 DEF IInv, Agreed
  <2>3. OneEach(g)'
    BY <1>1, <2>1, <2>2, ReceiverWrote DEF OneEach
  <2> QED BY <1>1, <2>1, <2>2, <2>3, ReceiverWrote DEF Fresh, Sent
<1>3. CASE /\ toReceiver # << >> /\ unread = Tail(toReceiver)
           /\ Head(toReceiver).kind # "close"
  <2>1. toReceiver' = Tail(toReceiver)
    BY <1>1, <1>3
  <2>2. Talking
    BY <1>1, <1>3, <2>1, ReceiverTakes DEF Talking
  <2>3. Turn(g) /\ OneEach(g) /\ Remembered(g)
    BY <2>2 DEF IInv, Agreed
  <2>4. OneEach(g)'
    BY <1>1, <1>3, <2>1, <2>3, ReceiverWrote, ReceiverTakes DEF OneEach
  <2>5. \A k : Has(toReceiver', k, g) => Has(toReceiver, k, g)
    BY <1>1, <1>3, <2>1, ReceiverTakes
  <2> QED BY <1>1, <2>3, <2>4, <2>5, ReceiverWrote DEF Fresh, Sent
<1> QED BY <1>2, <1>3

\* What is left on the wire.
LEMMA ReceiverReadOne ==
  ASSUME IInv, toReceiver # << >>, toReceiver' = Tail(toReceiver), NEW g \in Files, OneEach(g)
  PROVE  /\ Has(toReceiver, Head(toReceiver).kind, Head(toReceiver).file)
         /\ \A k : Has(toReceiver, k, g) <=>
              Has(toReceiver', k, g) \/ (Head(toReceiver).kind = k /\ Head(toReceiver).file = g)
         /\ Head(toReceiver).kind \in {"header", "chunk"} /\ Head(toReceiver).file = g =>
              ~Has(toReceiver', Head(toReceiver).kind, g)
         /\ Head(toReceiver).kind = "cancelled" /\ Head(toReceiver).file = g =>
              ~Has(toReceiver', "header", g)
<1>1. WiresOK
  BY TypeParts DEF IInv
<1> QED BY <1>1, ReceiverTakes DEF OneEach

LEMMA OpenAgrees == ASSUME IInv, ReceiveOpen PROVE Agreed'
<1> DEFINE packets == << [kind |-> "opened"] >>
<1>1. /\ packets \in Seq(ToSender) /\ Packets(packets) = {[kind |-> "opened"]}
      /\ \A k, g : Once(packets, k, g) /\ (k # "opened" => ~Has(packets, k, g))
  <2>1. packets \in Seq(ToSender)
    BY FilePackets
  <2>2. [kind |-> "opened"].kind = "opened"
    OBVIOUS
  <2> QED BY <2>1, <2>2, Single
<1>2. /\ peerUp /\ UNCHANGED <<sender, peerUp>> /\ ReceiverWrites(Tail(toReceiver), packets)
      /\ toReceiver # << >> /\ Head(toReceiver).kind = "open" /\ toReceiver' = Tail(toReceiver)
      /\ asked' = asked /\ incoming' = incoming /\ saw' = saw /\ WiresOK
  BY TypeParts DEF ReceiveOpen, FromSender, ReceiverWrites, IInv
<1> HIDE DEF packets
<1>3. ASSUME Talking', NEW g \in Files PROVE Turn(g)' /\ OneEach(g)' /\ Remembered(g)'
  <2>1. /\ Turn(g) /\ Remembered(g) /\ OneEach(g)'
        /\ \A k : Has(toSender', k, g) <=> Has(toSender, k, g) \/ Has(packets, k, g)
        /\ Packets(toSender') = Packets(toSender) \cup Packets(packets)
        /\ Kinds(toSender') = Kinds(toSender) \cup Kinds(packets)
        /\ \A k : Has(toReceiver', k, g) => Has(toReceiver, k, g)
        /\ (Fresh(g)' <=> Fresh(g)) /\ outgoing'[g] = outgoing[g] /\ (Sent(g)' <=> Sent(g))
    BY <1>1, <1>2, <1>3, ReceiverSteps
  <2>2. \A k \in {"header", "cancelled"} : Has(toReceiver', k, g) <=> Has(toReceiver, k, g)
    BY <1>2, ReceiverTakes
  <2>3. Turn(g)'
    BY <1>1, <1>2, <2>1, TurnShrinks DEF Accepted
  <2>4. Remembered(g)'
    BY <1>2, <2>1, <2>2, RememberedStill DEF Known, Accepted, Answered
  <2> QED BY <2>1, <2>3, <2>4
<1> QED BY <1>3 DEF Agreed

\* After a close there is only a new channel.
LEMMA CloseAgrees == ASSUME IInv, ReceiveClose PROVE Agreed'
<1>1. /\ toReceiver # << >> /\ Head(toReceiver).kind = "close" /\ toReceiver' = Tail(toReceiver)
      /\ WiresOK /\ ChannelOK /\ UNCHANGED sender /\ ReceiverWrites(Tail(toReceiver), << >>)
  BY TypeParts DEF ReceiveClose, FromSender, ReceiverWrites, IInv
<1>2. "close" \in Kinds(toReceiver) /\ \A p \in Packets(toReceiver') : p.kind = "open"
  BY <1>1, ReceiverTakes DEF ChannelOK
<1>3. toSender = << >> /\ \A g \in Files : ~Sent(g)
  BY <1>1, <1>2 DEF ChannelOK, Talking
<1>4. toSender' = << >>
  <2>1. << >> \o << >> = << >>
    OBVIOUS
  <2> QED BY <1>1, <1>3, <2>1 DEF ReceiverWrites
<1>5. ASSUME NEW g \in Files PROVE Turn(g)' /\ OneEach(g)' /\ Remembered(g)'
  <2>1. ~Known(g)' /\ ~Sent(g)'
    BY <1>1, <1>3 DEF ReceiveClose, NoTransfers, Known, Accepted, Sent, sender
  <2> QED BY <1>2, <1>4, <2>1, NothingToSay
<1> QED BY <1>5 DEF Agreed


LEMMA HeaderAgrees == ASSUME IInv, ReceiveHeader PROVE Agreed'
<1>f. PICK f \in Files : f = Head(toReceiver).file
  BY Heads, TypeParts DEF ReceiveHeader, FromSender, IInv
<1>0. /\ peerUp /\ UNCHANGED <<sender, peerUp, incoming>> /\ WiresOK
      /\ toReceiver # << >> /\ Head(toReceiver).kind = "header" /\ toReceiver' = Tail(toReceiver)
      /\ saw \in [Files -> Results \cup {"none", "asked", "running"}]
  BY TypeParts DEF ReceiveHeader, FromSender, ReceiverWrites, IInv, ReceiverOK
<1>1. Talking' => Talking /\ \A g \in Files : OneEach(g)
  BY <1>0, ReceiverTakes DEF Talking, sender, IInv, Agreed
<1>2. PICK p \in {[kind |-> "unnamed"], [kind |-> "ack", file |-> f]} :
        /\ ReceiverWrites(Tail(toReceiver), <<p>>)
        /\ p.kind = "unnamed" => UNCHANGED <<asked, saw>>
        /\ p.kind = "ack" => /\ asked' = IF Accepted(f) THEN asked ELSE asked \cup {f}
                             /\ saw' = [saw EXCEPT ![f] = "asked"]
  BY <1>f DEF ReceiveHeader
<1> DEFINE packets == <<p>>
<1>3. /\ packets \in Seq(ToSender) /\ Packets(packets) = {p} /\ Kinds(packets) = {p.kind}
      /\ p.kind \in {"unnamed", "ack"}
      /\ \A k, g : Once(packets, k, g) /\ (k \notin {"unnamed", "ack"} => ~Has(packets, k, g))
  <2>1. packets \in Seq(ToSender)
    BY <1>0, FilePackets
  <2>2. p.kind \in {"unnamed", "ack"}
    OBVIOUS
  <2> QED BY <2>1, <2>2, Single
<1>4. ReceiverWrites(Tail(toReceiver), packets)
  BY <1>2
<1> HIDE DEF packets
<1>5. ASSUME Talking', NEW g \in Files
      PROVE  /\ Turn(g) /\ Remembered(g) /\ OneEach(g)'
             /\ \A k : Has(toSender', k, g) <=> Has(toSender, k, g) \/ Has(packets, k, g)
             /\ Packets(toSender') = Packets(toSender) \cup Packets(packets)
             /\ Kinds(toSender') = Kinds(toSender) \cup Kinds(packets)
             /\ (Fresh(g)' <=> Fresh(g)) /\ outgoing'[g] = outgoing[g] /\ (Sent(g)' <=> Sent(g))
             /\ \A k : Has(toReceiver, k, g) <=> Has(toReceiver', k, g) \/ (k = "header" /\ f = g)
             /\ f = g => ~Has(toReceiver', "header", g)
             /\ Answered(g)' <=> Answered(g)
  <2>1. /\ Turn(g) /\ Remembered(g) /\ OneEach(g)'
        /\ \A k : Has(toSender', k, g) <=> Has(toSender, k, g) \/ Has(packets, k, g)
        /\ Packets(toSender') = Packets(toSender) \cup Packets(packets)
        /\ Kinds(toSender') = Kinds(toSender) \cup Kinds(packets)
        /\ (Fresh(g)' <=> Fresh(g)) /\ outgoing'[g] = outgoing[g] /\ (Sent(g)' <=> Sent(g))
    BY <1>0, <1>3, <1>4, <1>5, ReceiverSteps
  <2> QED BY <1>0, <1>1, <1>3, <1>5, <2>1, <1>f, ReceiverReadOne DEF Answered
<1>6. ASSUME Talking', NEW g \in Files, g # f PROVE Turn(g)' /\ Remembered(g)'
  <2>1. (g \in asked' <=> g \in asked) /\ incoming'[g] = incoming[g] /\ saw'[g] = saw[g]
    BY <1>0, <1>2, <1>3, <1>6
  <2> QED BY <1>3, <1>5, <1>6, <2>1, TurnShrinks, RememberedStill DEF Accepted, Known
<1>7. ASSUME Talking' PROVE Turn(f)' /\ Remembered(f)'
  <2>1. Has(toReceiver, "header", f) /\ ~Has(toReceiver', "header", f)
    BY <1>0, <1>5, <1>7
  <2>2. Turn(f) /\ Remembered(f) /\ ~Fresh(f) /\ ~Fresh(f)'
    BY <1>5, <1>7, <2>1 DEF Turn
  <2>3. /\ f \notin asked /\ ~Accepted(f) /\ ~Answered(f) /\ ~Answered(f)' /\ ~Accepted(f)'
        /\ ~Has(toSender', "accept", f) /\ ~Has(toSender', "written", f)
        /\ ~Has(toReceiver', "chunk", f) /\ (Sent(f)' => outgoing'[f] = 0)
        /\ Has(toReceiver', "cancelled", f) => ~Sent(f)'
    BY <1>0, <1>3, <1>5, <1>7, <2>1, <2>2 DEF Turn, Accepted
  <2>4. \A q \in Packets(toSender') : q.file = f => q.kind \notin {"written", "complete"}
    BY <2>3 DEF Has, Answered
  <2>5. Turn(f)'
    BY <2>1, <2>2, <2>3, <2>4 DEF Turn, Known
  <2>6. ~Sent(f)' => Has(toReceiver', "cancelled", f)
    BY <1>5, <1>7, <2>1, <2>2 DEF Remembered
  <2>7. CASE p.kind = "unnamed"
    <3>1. ~Known(f)' /\ "unnamed" \in Kinds(toSender')
      BY <1>2, <1>3, <1>5, <1>7, <2>1, <2>3, <2>7 DEF Known
    <3> QED BY <2>5, <2>6, <3>1 DEF Remembered
  <2>8. CASE p.kind = "ack"
    <3>1. Known(f)'
      BY <1>2, <2>3, <2>8 DEF Known
    <3> QED BY <2>5, <2>6, <3>1 DEF Remembered
  <2> QED BY <1>3, <2>5, <2>7, <2>8
<1> QED BY <1>5, <1>6, <1>7 DEF Agreed

LEMMA CancelledAgrees == ASSUME IInv, ReceiveCancelled PROVE Agreed'
<1>f. PICK f \in Files : f = Head(toReceiver).file
  BY Heads, TypeParts DEF ReceiveCancelled, FromSender, IInv
<1>0. /\ peerUp /\ UNCHANGED <<sender, peerUp>> /\ WiresOK
      /\ toReceiver # << >> /\ Head(toReceiver).kind = "cancelled" /\ toReceiver' = Tail(toReceiver)
      /\ saw \in [Files -> Results \cup {"none", "asked", "running"}]
      /\ incoming \in [Files -> Offsets \cup {None}] /\ ReceiverWrites(Tail(toReceiver), << >>)
  BY Heads, TypeParts DEF ReceiveCancelled, FromSender, ReceiverWrites, IInv, ReceiverOK
<1>1. Talking' => Talking /\ \A g \in Files : OneEach(g)
  BY <1>0, ReceiverTakes DEF Talking, sender, IInv, Agreed
<1>2. /\ asked' = asked \ {f} /\ incoming' = [incoming EXCEPT ![f] = None]
      /\ saw' = IF Known(f) THEN [saw EXCEPT ![f] = "cancelled"] ELSE saw
  BY <1>f DEF ReceiveCancelled
<1>3. ASSUME Talking', NEW g \in Files
      PROVE  /\ Turn(g) /\ Remembered(g) /\ OneEach(g)'
             /\ \A k : Has(toSender', k, g) <=> Has(toSender, k, g)
             /\ Packets(toSender') = Packets(toSender)
             /\ Kinds(toSender') = Kinds(toSender)
             /\ (Fresh(g)' <=> Fresh(g)) /\ outgoing'[g] = outgoing[g] /\ (Sent(g)' <=> Sent(g))
             /\ \A k : Has(toReceiver, k, g) <=> Has(toReceiver', k, g) \/ (k = "cancelled" /\ f = g)
             /\ f = g => ~Has(toReceiver', "header", g)
             /\ Answered(g)' <=> Answered(g)
  <2>0. << >> \in Seq(ToSender) /\ \A k : Once(<< >>, k, g) /\ ~Has(<< >>, k, g)
    BY FilePackets, Silence
  <2>1. /\ Turn(g) /\ Remembered(g) /\ OneEach(g)'
        /\ \A k : Has(toSender', k, g) <=> Has(toSender, k, g) \/ Has(<< >>, k, g)
        /\ Packets(toSender') = Packets(toSender) \cup Packets(<< >>)
        /\ Kinds(toSender') = Kinds(toSender) \cup Kinds(<< >>)
        /\ (Fresh(g)' <=> Fresh(g)) /\ outgoing'[g] = outgoing[g] /\ (Sent(g)' <=> Sent(g))
    BY <1>0, <1>3, <2>0, ReceiverSteps
  <2>2. \A k : Has(toSender', k, g) <=> Has(toSender, k, g)
    BY <2>0, <2>1
  <2>3. Packets(toSender') = Packets(toSender) /\ Kinds(toSender') = Kinds(toSender)
    BY <2>1, Silence
  <2> QED BY <1>0, <1>1, <1>3, <2>1, <2>2, <2>3, <1>f, ReceiverReadOne DEF Answered
<1>4. ASSUME Talking', NEW g \in Files, g # f PROVE Turn(g)' /\ Remembered(g)'
  <2>1. (g \in asked' <=> g \in asked) /\ incoming'[g] = incoming[g] /\ saw'[g] = saw[g]
    BY <1>0, <1>2, <1>4
  <2> QED BY <1>3, <1>4, <2>1, TurnShrinks, RememberedStill DEF Accepted, Known
<1>5. ASSUME Talking' PROVE Turn(f)' /\ Remembered(f)'
  <2>1. Has(toReceiver, "cancelled", f) /\ Turn(f)
    BY <1>0, <1>3, <1>5
  <2>2. f \notin asked' /\ ~Accepted(f)' /\ ~Sent(f)'
    BY <1>0, <1>2, <1>3, <1>5, <2>1 DEF Turn, Accepted
  <2>3. Known(f) => ~Answered(f)'
    BY <1>3, <1>5, <2>1 DEF Turn
  <2>4. saw'[f] = saw[f] \/ ~Has(toSender', "complete", f)
    BY <1>2, <2>3 DEF Answered
  <2>5. Turn(f)'
    BY <1>3, <1>5, <2>1, <2>2, <2>4, TurnShrinks
  <2> QED BY <1>3, <1>5, <2>1, <2>2, <2>5 DEF Remembered, Known
<1> QED BY <1>3, <1>4, <1>5 DEF Agreed


\* The user answers, or cancels, one that he knows of.
LEMMA AnswerAgrees ==
  ASSUME IInv, NEW f \in Files, AcceptFile(f) \/ RejectFile(f) \/ CancelIncoming(f) PROVE Agreed'
<1>0. /\ UNCHANGED <<sender, peerUp>> /\ Known(f) /\ peerUp
      /\ incoming \in [Files -> Offsets \cup {None}] /\ asked' = asked \ {f}
      /\ saw \in [Files -> Results \cup {"none", "asked", "running"}]
      /\ \A g \in Files : g # f => incoming'[g] = incoming[g] /\ saw'[g] = saw[g]
  BY DEF AcceptFile, RejectFile, CancelIncoming, IInv, TypeOK, ChannelOK, Known, Accepted
<1>1. PICK p \in {[kind |-> "accept", file |-> f], [kind |-> "reject", file |-> f],
                  [kind |-> "complete", file |-> f, result |-> "cancelled"]} :
        /\ ReceiverWrites(toReceiver, <<p>>)
        /\ p.kind = "accept" => f \in asked /\ incoming'[f] = 0
        /\ p.kind # "accept" => ~Accepted(f)' \/ (f \in asked /\ incoming' = incoming)
  <2>1. /\ [kind |-> "accept", file |-> f].kind = "accept"
        /\ [kind |-> "reject", file |-> f].kind # "accept"
        /\ [kind |-> "complete", file |-> f, result |-> "cancelled"].kind # "accept"
    OBVIOUS
  <2>2. CASE AcceptFile(f)
    <3>1. f \in asked /\ incoming'[f] = 0 /\ ReceiverWrites(toReceiver, << [kind |-> "accept", file |-> f] >>)
      BY <1>0, <2>2 DEF AcceptFile
    <3> QED BY <2>1, <3>1
  <2>3. CASE RejectFile(f)
    <3>1. f \in asked /\ incoming' = incoming
      BY <2>3 DEF RejectFile
    <3>2. ReceiverWrites(toReceiver, << [kind |-> "reject", file |-> f] >>)
      BY <2>3 DEF RejectFile
    <3> QED BY <2>1, <3>1, <3>2
  <2>4. CASE CancelIncoming(f)
    <3>1. /\ ~Accepted(f)'
          /\ ReceiverWrites(toReceiver, << [kind |-> "complete", file |-> f, result |-> "cancelled"] >>)
      BY <1>0, <2>4 DEF CancelIncoming, Accepted
    <3> QED BY <2>1, <3>1
  <2> QED BY <2>2, <2>3, <2>4
<1> DEFINE packets == <<p>>
<1>2. /\ packets \in Seq(ToSender) /\ Packets(packets) = {p} /\ ReceiverWrites(toReceiver, packets)
      /\ p.kind \in {"accept", "reject", "complete"}
      /\ p.kind = "complete" => p.result = "cancelled"
      /\ \A k, g : Once(packets, k, g) /\ (Has(packets, k, g) <=> k = p.kind /\ g = f)
  <2>1. packets \in Seq(ToSender)
    BY FilePackets
  <2>2. /\ p.kind \in {"accept", "reject", "complete"} /\ p.file = f
        /\ p.kind = "complete" => p.result = "cancelled"
    OBVIOUS
  <2> QED BY <1>1, <2>1, <2>2, Single
<1> HIDE DEF packets
<1>3. toReceiver' = toReceiver
  BY <1>2 DEF ReceiverWrites
<1>4. ASSUME Talking' PROVE p.kind = "accept" => ~Has(toSender, "accept", f)
  <2>1. Talking
    BY <1>0, <1>3, <1>4 DEF Talking, sender
  <2> QED BY <1>1, <2>1 DEF IInv, Agreed, Turn
<1>5. ASSUME Talking', NEW g \in Files
      PROVE  /\ Turn(g) /\ Remembered(g) /\ OneEach(g)'
             /\ \A k : Has(toSender', k, g) <=> Has(toSender, k, g) \/ Has(packets, k, g)
             /\ Packets(toSender') = Packets(toSender) \cup Packets(packets)
             /\ Kinds(toSender') = Kinds(toSender) \cup Kinds(packets)
             /\ (Fresh(g)' <=> Fresh(g)) /\ outgoing'[g] = outgoing[g] /\ (Sent(g)' <=> Sent(g))
  <2>1. \A k \in {"accept", "written"} :
          Once(packets, k, g) /\ (~Has(toSender, k, g) \/ ~Has(packets, k, g))
    BY <1>2, <1>4, <1>5
  <2> QED BY <1>0, <1>2, <1>5, <2>1, ReceiverSteps
<1>6. ASSUME Talking', NEW g \in Files, g # f PROVE Turn(g)' /\ Remembered(g)'
  <2>1. g \in asked' <=> g \in asked
    BY <1>0, <1>6
  <2>2. \A k : Has(toSender', k, g) <=> Has(toSender, k, g)
    BY <1>2, <1>5, <1>6
  <2>3. \A q \in Packets(toSender') : q.file = g => q \in Packets(toSender)
    <3>1. p.file = f
      OBVIOUS
    <3> QED BY <1>2, <1>5, <1>6, <3>1
  <2>4. Turn(g)'
    BY <1>0, <1>3, <1>5, <1>6, <2>1, <2>2, <2>3, TurnShrinks DEF Accepted
  <2>5. Remembered(g)'
    BY <1>0, <1>3, <1>5, <1>6, <2>1, <2>2, RememberedStill DEF Accepted, Known, Answered
  <2> QED BY <2>4, <2>5
<1>7. ASSUME Talking' PROVE Turn(f)' /\ Remembered(f)'
  <2>1. /\ Turn(f) /\ Remembered(f) /\ ~Fresh(f) /\ ~Fresh(f)'
        /\ ~Has(toReceiver', "header", f) /\ f \notin asked' /\ ~Answered(f)
        /\ \A k \in {"chunk", "cancelled"} : Has(toReceiver', k, f) => Has(toReceiver, k, f)
        /\ \A k : Has(toSender', k, f) <=> Has(toSender, k, f) \/ k = p.kind
    BY <1>0, <1>2, <1>3, <1>5, <1>7 DEF Turn, Known
  <2>2. \A q \in Packets(toSender') :
          /\ q.kind = "written" /\ q.file = f => q \in Packets(toSender)
          /\ q.kind = "complete" /\ q.file = f => q.result = "cancelled"
    <3>1. \A q \in Packets(toSender) : ~(q.kind = "complete" /\ q.file = f)
      BY <2>1 DEF Answered, Has
    <3> QED BY <1>2, <1>5, <1>7, <3>1
  <2>3. CASE p.kind = "accept"
    <3>1. /\ ~Answered(f)' /\ ~Has(toReceiver, "chunk", f) /\ ~Has(toSender, "written", f)
          /\ (Sent(f) => outgoing[f] = 0) /\ incoming'[f] = 0 /\ Known(f)'
      BY <1>1, <2>1, <2>3 DEF Answered, Turn, Known, Accepted, None
    <3>2. ~Has(toSender', "written", f) /\ ~Has(toReceiver', "chunk", f)
      BY <2>1, <2>3, <3>1
    <3>3. \A q \in Packets(toSender') : ~(q.kind = "written" /\ q.file = f)
      BY <3>2 DEF Has
    <3>4. Turn(f)'
      BY <1>5, <1>7, <2>1, <2>2, <3>1, <3>2, <3>3 DEF Turn, Known
    <3>5. Remembered(f)'
      BY <1>0, <1>3, <1>5, <1>7, <2>1, <3>1 DEF Remembered
    <3> QED BY <3>4, <3>5
  <2>4. CASE p.kind # "accept"
    <3>1. ~Accepted(f)' /\ ~Known(f)' /\ Answered(f)'
      <4>1. f \in asked => ~Accepted(f)
        BY <2>1 DEF Turn
      <4> QED BY <1>1, <1>2, <2>1, <2>4, <4>1 DEF Answered, Known, Accepted
    <3>2. Turn(f)'
      BY <1>2, <1>5, <1>7, <2>1, <2>2, <2>4, <3>1 DEF Turn
    <3>3. Remembered(f)'
      BY <2>1, <3>1 DEF Remembered
    <3> QED BY <3>2, <3>3
  <2> QED BY <2>3, <2>4
<1> QED BY <1>5, <1>6, <1>7 DEF Agreed


\* What comes of a chunk, whatever the file system makes of it.
ChunkResult(f, packets) ==
  /\ ReceiverWrites(Tail(toReceiver), packets)
  /\ \A q \in Packets(packets) :
       /\ q.file = f /\ q.kind \in {"written", "complete"}
       /\ q.kind = "written" => Accepted(f) /\ q.bytes = incoming[f] + 1
       /\ q.kind = "complete" /\ q.result = "success" => saw'[f] \in {"success", "spoilt"}
  /\ \A g : Once(packets, "written", g)
  /\ Has(packets, "complete", f) <=> Accepted(f) /\ ~Accepted(f)'
  /\ Accepted(f)' => Accepted(f) /\ incoming'[f] = incoming[f] + 1
  /\ ~Accepted(f) => saw' = saw
  /\ \A g \in Files : g # f => incoming'[g] = incoming[g] /\ saw'[g] = saw[g]

LEMMA ChunkAnswered ==
  ASSUME TypeOK, ReceiveChunk, NEW f \in Files, f = Head(toReceiver).file
  PROVE  \E packets \in Seq(ToSender) : ChunkResult(f, packets)
<1>1. /\ incoming \in [Files -> Offsets \cup {None}]
      /\ saw \in [Files -> Results \cup {"none", "asked", "running"}]
  BY DEF TypeOK
<1>2. CASE ~Accepted(f) /\ ReceiverWrites(Tail(toReceiver), << >>) /\ UNCHANGED <<incoming, saw>>
  <2>1. << >> \in Seq(ToSender)
    BY FilePackets
  <2>2. /\ Packets(<< >>) = {} /\ \A g : Once(<< >>, "written", g) /\ ~Has(<< >>, "complete", g)
    BY Silence
  <2>3. ChunkResult(f, << >>)
    BY <1>2, <2>2 DEF ChunkResult, Accepted
  <2> QED BY <2>1, <2>3
<1>3. CASE /\ Accepted(f) /\ incoming' = [incoming EXCEPT ![f] = None]
           /\ saw' = [saw EXCEPT ![f] = "filesystem_error"]
           /\ ReceiverWrites(Tail(toReceiver), GaveUp(f))
  <2> DEFINE c == [kind |-> "complete", file |-> f, result |-> "cancelled"]
  <2>1. <<c>> \in Seq(ToSender) /\ GaveUp(f) = <<c>>
    BY FilePackets DEF GaveUp
  <2>2. c.kind = "complete" /\ c.file = f /\ c.result = "cancelled"
    OBVIOUS
  <2> HIDE DEF c
  <2>3. /\ Packets(<<c>>) = {c} /\ Has(<<c>>, "complete", f) /\ \A g : Once(<<c>>, "written", g)
    BY <2>2, Single
  <2>4. ~Accepted(f)'
    BY <1>1, <1>3 DEF Accepted
  <2>5. ChunkResult(f, <<c>>)
    BY <1>1, <1>3, <2>1, <2>2, <2>3, <2>4 DEF ChunkResult
  <2> QED BY <2>1, <2>5
<1>4. CASE /\ Accepted(f) /\ ReceiverWrites(Tail(toReceiver), ChunkAnswer(f))
           /\ \/ /\ incoming[f] + 1 < Chunks /\ UNCHANGED saw
                 /\ incoming' = [incoming EXCEPT ![f] = @ + 1]
              \/ /\ incoming[f] + 1 = Chunks /\ incoming' = [incoming EXCEPT ![f] = None]
                 /\ \/ saw' = [saw EXCEPT ![f] = "success"]
                    \/ saw' = [saw EXCEPT ![f] = "spoilt"]
  <2> DEFINE w == [kind |-> "written", file |-> f, bytes |-> incoming[f] + 1]
             c == [kind |-> "complete", file |-> f, result |-> "success"]
             rest == IF incoming[f] + 1 = Chunks THEN <<c>> ELSE << >>
             packets == <<w>> \o rest
  <2>1. incoming[f] \in 0..Chunks /\ incoming[f] + 1 \in Offsets /\ incoming[f] + 1 # None
    <3>1. incoming[f] \in 0..Chunks
      BY <1>1, <1>4 DEF Accepted, Offsets
    <3> QED BY <1>4, <3>1, FilesAssumption DEF Offsets, None
  <2>2. /\ w \in ToSender /\ w.kind = "written" /\ w.file = f /\ w.bytes = incoming[f] + 1
        /\ c \in ToSender /\ c.kind = "complete" /\ c.file = f /\ c.result = "success"
    BY <2>1 DEF ToSender
  <2>3. packets = ChunkAnswer(f)
    BY DEF ChunkAnswer
  <2> HIDE DEF w, c
  <2>4. <<w>> \in Seq(ToSender) /\ rest \in Seq(ToSender)
    BY <2>2, EmptySeq
  <2>5. /\ Packets(rest) = IF incoming[f] + 1 = Chunks THEN {c} ELSE {}
        /\ \A k, g : Once(rest, k, g)
        /\ \A k : Has(rest, k, f) <=> incoming[f] + 1 = Chunks /\ k = "complete"
    BY <2>2, Single, Silence
  <2>6. /\ Packets(<<w>>) = {w} /\ \A k, g : Once(<<w>>, k, g)
        /\ \A k, g : Has(<<w>>, k, g) <=> k = "written" /\ g = f
    BY <2>2, Single
  <2> HIDE DEF rest
  <2>7. /\ packets \in Seq(ToSender) /\ Packets(packets) = {w} \cup Packets(rest)
        /\ \A k : Has(packets, k, f) <=> Has(<<w>>, k, f) \/ Has(rest, k, f)
    <3>1. packets \in Seq(ToSender)
      BY <2>4, ConcatProperties
    <3>2. /\ Packets(packets) = Packets(<<w>>) \cup Packets(rest)
          /\ \A k, g : Has(packets, k, g) <=> Has(<<w>>, k, g) \/ Has(rest, k, g)
      <4> DEFINE first == <<w>>
      <4>1. first \in Seq(ToSender)
        BY <2>4
      <4> HIDE DEF first
      <4>2. /\ Packets(first \o rest) = Packets(first) \cup Packets(rest)
            /\ \A k, g : Has(first \o rest, k, g) <=> Has(first, k, g) \/ Has(rest, k, g)
        BY <2>4, <4>1, Said
      <4> QED BY <4>2 DEF first
    <3> QED BY <2>6, <3>1, <3>2
  <2>8. \A g : ~Has(rest, "written", g)
    BY <2>2, <2>5 DEF Has
  <2>9. ASSUME NEW g PROVE Once(packets, "written", g)
    BY <2>4, <2>5, <2>6, <2>8, OnceConcat
  <2> HIDE DEF packets
  <2>10. /\ Accepted(f)' <=> incoming[f] + 1 # Chunks
         /\ Accepted(f)' => incoming'[f] = incoming[f] + 1
    BY <1>1, <1>4, <2>1 DEF Accepted
  <2>11. Has(packets, "complete", f) <=> Accepted(f) /\ ~Accepted(f)'
    BY <1>4, <2>5, <2>6, <2>7, <2>10
  <2>12. ASSUME NEW q \in Packets(packets)
         PROVE  /\ q.file = f /\ q.kind \in {"written", "complete"}
                /\ q.kind = "written" => Accepted(f) /\ q.bytes = incoming[f] + 1
                /\ q.kind = "complete" /\ q.result = "success" => saw'[f] \in {"success", "spoilt"}
    <3>1. CASE q = w
      BY <1>4, <2>2, <3>1
    <3>2. CASE q = c /\ incoming[f] + 1 = Chunks
      <4>1. saw'[f] \in {"success", "spoilt"}
        BY <1>1, <1>4, <3>2, <2>1, FilesAssumption
      <4> QED BY <2>2, <3>2, <4>1
    <3> QED BY <2>5, <2>7, <2>12, <3>1, <3>2
  <2>13. \A g \in Files : g # f => incoming'[g] = incoming[g] /\ saw'[g] = saw[g]
    BY <1>1, <1>4
  <2>14. ChunkResult(f, packets)
    BY <1>4, <2>3, <2>9, <2>10, <2>11, <2>12, <2>13 DEF ChunkResult
  <2> QED BY <2>7, <2>14
<1> QED BY <1>2, <1>3, <1>4 DEF ReceiveChunk

LEMMA ChunkAgrees == ASSUME IInv, ReceiveChunk PROVE Agreed'
<1>f. PICK f \in Files : f = Head(toReceiver).file
  BY Heads, TypeParts DEF ReceiveChunk, FromSender, IInv
<1>0. /\ peerUp /\ UNCHANGED <<sender, peerUp, asked>> /\ WiresOK
      /\ toReceiver # << >> /\ Head(toReceiver).kind = "chunk" /\ toReceiver' = Tail(toReceiver)
  BY TypeParts DEF ReceiveChunk, FromSender, ReceiverWrites, IInv
<1>1. Talking' => Talking /\ \A g \in Files : OneEach(g)
  BY <1>0, ReceiverTakes DEF Talking, sender, IInv, Agreed
<1>2. PICK packets \in Seq(ToSender) : ChunkResult(f, packets)
  BY <1>f, ChunkAnswered DEF IInv
<1>3. ASSUME Talking' PROVE ~Has(toSender, "written", f)
  <2>1. Has(toReceiver, "chunk", f) /\ Turn(f)
    BY <1>f, <1>0, <1>1, <1>3, ReceiverTakes DEF IInv, Agreed
  <2> QED BY <2>1 DEF Turn
<1>4. ASSUME NEW g \in Files
      PROVE  /\ \A k : Has(packets, k, g) => g = f /\ k \in {"written", "complete"}
             /\ Once(packets, "accept", g) /\ Once(packets, "written", g)
  <2>1. \A k : Has(packets, k, g) => g = f /\ k \in {"written", "complete"}
    BY <1>2 DEF ChunkResult, Has
  <2>2. Once(packets, "accept", g)
    BY <1>2 DEF ChunkResult, Packets, Once
  <2> QED BY <1>2, <2>1, <2>2 DEF ChunkResult
<1>5. ASSUME Talking', NEW g \in Files
      PROVE  /\ Turn(g) /\ Remembered(g) /\ OneEach(g)'
             /\ \A k : Has(toSender', k, g) <=> Has(toSender, k, g) \/ Has(packets, k, g)
             /\ Packets(toSender') = Packets(toSender) \cup Packets(packets)
             /\ Kinds(toSender') = Kinds(toSender) \cup Kinds(packets)
             /\ (Fresh(g)' <=> Fresh(g)) /\ outgoing'[g] = outgoing[g] /\ (Sent(g)' <=> Sent(g))
             /\ \A k : Has(toReceiver, k, g) <=> Has(toReceiver', k, g) \/ (k = "chunk" /\ f = g)
             /\ f = g => ~Has(toReceiver', "chunk", g)
             /\ Answered(g) => Answered(g)'
  <2>0. ReceiverWrites(Tail(toReceiver), packets)
    BY <1>2 DEF ChunkResult
  <2>1. /\ Turn(g) /\ Remembered(g) /\ OneEach(g)'
        /\ \A k : Has(toSender', k, g) <=> Has(toSender, k, g) \/ Has(packets, k, g)
        /\ Packets(toSender') = Packets(toSender) \cup Packets(packets)
        /\ Kinds(toSender') = Kinds(toSender) \cup Kinds(packets)
        /\ (Fresh(g)' <=> Fresh(g)) /\ outgoing'[g] = outgoing[g] /\ (Sent(g)' <=> Sent(g))
    <3>1. \A k \in {"accept", "written"} :
            Once(packets, k, g) /\ (~Has(toSender, k, g) \/ ~Has(packets, k, g))
      BY <1>3, <1>4, <1>5
    <3> QED BY <1>0, <1>5, <2>0, <3>1, ReceiverSteps
  <2> QED BY <1>f, <1>0, <1>1, <1>5, <2>1, ReceiverReadOne DEF Answered
<1>6. ASSUME Talking', NEW g \in Files, g # f PROVE Turn(g)' /\ Remembered(g)'
  <2>1. (g \in asked' <=> g \in asked) /\ incoming'[g] = incoming[g] /\ saw'[g] = saw[g]
    BY <1>0, <1>2, <1>6 DEF ChunkResult
  <2>2. \A k : Has(toSender', k, g) <=> Has(toSender, k, g)
    BY <1>4, <1>5, <1>6
  <2>3. \A q \in Packets(toSender') : q.file = g => q \in Packets(toSender)
    BY <1>2, <1>5, <1>6 DEF ChunkResult
  <2>4. Turn(g)'
    BY <1>5, <1>6, <2>1, <2>2, <2>3, TurnShrinks DEF Accepted
  <2>5. Remembered(g)'
    BY <1>5, <1>6, <2>1, RememberedStill DEF Accepted, Known
  <2> QED BY <2>4, <2>5
<1>7. ASSUME Talking' PROVE Turn(f)' /\ Remembered(f)'
  <2>1. Has(toReceiver, "chunk", f) /\ ~Has(toReceiver', "chunk", f) /\ Turn(f) /\ Remembered(f)
    BY <1>5, <1>7
  <2>2. /\ ~Fresh(f) /\ ~Fresh(f)' /\ f \notin asked /\ f \notin asked'
        /\ ~Has(toSender, "written", f) /\ ~Has(toSender', "accept", f)
        /\ ~Has(toReceiver, "header", f) /\ ~Has(toReceiver', "header", f)
        /\ Has(toReceiver', "cancelled", f) <=> Has(toReceiver, "cancelled", f)
        /\ Sent(f) /\ Accepted(f) => outgoing[f] = incoming[f] + 1
        /\ Answered(f) => ~Accepted(f)
        /\ Has(toReceiver', "cancelled", f) => ~Sent(f)'
    BY <1>0, <1>4, <1>5, <1>7, <2>1 DEF Turn, Known
  <2>3. ASSUME NEW q \in Packets(toSender'), q.kind = "written", q.file = f
        PROVE  /\ Sent(f)' => outgoing'[f] = q.bytes
               /\ Accepted(f)' => incoming'[f] = q.bytes
    <3>1. q \in Packets(packets)
      BY <1>5, <1>7, <2>2, <2>3 DEF Has
    <3> QED BY <1>2, <1>5, <1>7, <2>2, <2>3, <3>1 DEF ChunkResult
  <2>4. Answered(f)' => ~Accepted(f)'
    BY <1>2, <1>4, <1>5, <1>7, <2>2 DEF ChunkResult, Answered
  <2>5. ASSUME NEW q \in Packets(toSender'), q.kind = "complete", q.file = f, q.result = "success"
        PROVE  saw'[f] \in {"success", "spoilt"}
    <3>1. CASE q \in Packets(packets)
      BY <1>2, <2>5, <3>1 DEF ChunkResult
    <3>2. CASE q \in Packets(toSender)
      <4>1. Answered(f)
        BY <2>5, <3>2 DEF Has, Answered
      <4>2. saw' = saw
        BY <1>2, <2>2, <4>1 DEF ChunkResult
      <4> QED BY <2>1, <2>5, <3>2, <4>2 DEF Turn
    <3> QED BY <1>5, <1>7, <2>5, <3>1, <3>2
  <2>6. Turn(f)'
    BY <2>1, <2>2, <2>3, <2>4, <2>5 DEF Turn, Known
  <2>7. Accepted(f) => Accepted(f)' \/ Answered(f)'
    BY <1>2, <1>5, <1>7 DEF ChunkResult, Answered
  <2>8. Accepted(f)' => Accepted(f)
    BY <1>2 DEF ChunkResult
  <2>9. Remembered(f)'
    BY <1>5, <1>7, <2>1, <2>2, <2>7, <2>8 DEF Remembered, Known
  <2> QED BY <2>6, <2>9
<1> QED BY <1>5, <1>6, <1>7 DEF Agreed


LEMMA ConnectionAgrees ==
  ASSUME IInv, Connect \/ SenderClosed \/ ReceiverGone \/ OnDisconnected PROVE Agreed'
<1>0. WiresOK /\ ChannelOK
  BY TypeParts DEF IInv
<1>1. CASE SenderClosed \/ OnDisconnected
  <2>1. CASE Talking /\ OnDisconnected
    BY <1>1, <2>1 DEF OnDisconnected, Agreed, Talking, IInv, receiver, wires, Turn, OneEach,
       Remembered, Answered, Fresh, Sent, Known, Accepted
  <2>2. CASE SenderClosed \/ ~Talking
    BY <1>1, <2>2 DEF SenderClosed, OnDisconnected, Agreed, Talking, wires
  <2> QED BY <1>1, <2>1, <2>2
<1>2. CASE Connect
  <2>1. toSender' = << >> /\ \A p \in Packets(toReceiver') : p.kind \in {"open", "close"}
    BY <1>2, Single DEF Connect
  <2>2. ASSUME NEW g \in Files PROVE Turn(g)' /\ OneEach(g)' /\ Remembered(g)'
    <3>1. ~Known(g)' /\ ~Sent(g)'
      BY <1>2 DEF Connect, SenderLoses, ReceiverClosed, NoTransfers, Known, Accepted, Sent
    <3> QED BY <2>1, <3>1, NothingToSay
  <2> QED BY <2>2 DEF Agreed
<1>3. CASE ReceiverGone
  <2>1. /\ ~peerUp' /\ toSender' = toSender /\ toReceiver' = << >> /\ UNCHANGED sender
        /\ \A g \in Files : ~Known(g)' /\ ~Accepted(g)' /\ g \notin asked'
        /\ \A g \in Files : saw'[g] = saw[g] \/ Known(g)
    BY <1>3 DEF ReceiverGone, ReceiverClosed, NoTransfers, Known, Accepted
  <2>2. Packets(toReceiver') = {} /\ \A k, g : ~Has(toReceiver', k, g) /\ Once(toReceiver', k, g)
    BY <2>1, Silence
  <2>3. CASE Talking
    <3>1. ASSUME NEW g \in Files PROVE Turn(g)' /\ OneEach(g)'
      <4>1. Turn(g) /\ OneEach(g)
        BY <2>3 DEF IInv, Agreed
      <4>2. OneEach(g)'
        BY <2>1, <2>2, <4>1, Silence DEF OneEach
      <4>3. saw'[g] = saw[g] \/ ~Has(toSender', "complete", g)
        BY <2>1, <4>1 DEF Turn, Answered
      <4>4. Turn(g)'
        BY <2>1, <2>2, <4>1, <4>3, TurnShrinks DEF sender, Sent, Fresh
      <4> QED BY <4>2, <4>4
    <3> QED BY <2>1, <3>1 DEF Agreed
  <2>4. CASE ~Talking
    <3>1. toSender' = << >> /\ \A g \in Files : ~Sent(g)'
      BY <1>0, <2>1, <2>4 DEF ChannelOK, sender, Sent
    <3>2. ASSUME NEW g \in Files PROVE Turn(g)' /\ OneEach(g)' /\ Remembered(g)'
      BY <2>1, <2>2, <3>1, NothingToSay
    <3> QED BY <3>2 DEF Agreed
  <2> QED BY <2>3, <2>4
<1> QED BY <1>1, <1>2, <1>3

LEMMA AgreedKeeps == IInv /\ Next => Agreed'
<1> SUFFICES ASSUME IInv, Next PROVE Agreed'
  OBVIOUS
<1>1. CASE SenderReads
  <2>1. ReceiveUnnamed => toSender # << >> /\ FatalError
    BY DEF ReceiveUnnamed, FromReceiver
  <2> QED BY <1>1, <2>1, AckAgrees, CompleteAgrees, ResponseAgrees, WrittenAgrees, FatalAgrees, QueueAgrees
          DEF SenderReads
<1>2. CASE ReceiverReads
  BY <1>2, OpenAgrees, CloseAgrees, HeaderAgrees, ChunkAgrees, CancelledAgrees DEF ReceiverReads
<1>3. CASE SenderCall \/ Connect \/ Drop \/ PeerGone
  BY <1>3, QueueAgrees, ConnectionAgrees DEF SenderCall, Drop, PeerGone
<1>4. CASE \E f \in Files : SendFile(f) \/ CancelOutgoing(f)
  BY <1>4, SendFileAgrees, CancelAgrees
<1>5. CASE \E f \in Files : AcceptFile(f) \/ RejectFile(f) \/ CancelIncoming(f)
  BY <1>5, AnswerAgrees
<1> QED BY <1>1, <1>2, <1>3, <1>4, <1>5 DEF Next


-----------------------------------------------------------------------------
\* The channel and the calls are what the wires say.

LEMMA SenderModes ==
  ASSUME IInv, NEW packets \in Seq(ToReceiver), NEW unread,
         SenderWrites(unread, packets), UNCHANGED <<link, receiver>>, "close" \notin Kinds(packets),
         \/ Talking
         \/ Kinds(packets) \subseteq {"open"} /\ toSender' = toSender /\ channel' # "open",
         \A f \in Files : Sent(f)' => channel' = "open" /\ ~Fresh(f)',
         \A f \in Files : Fresh(f)' => attempts'[f] < 2
  PROVE  ChannelOK'
<1>1. /\ WiresOK /\ ChannelOK /\ (~peerUp => toReceiver = << >> /\ \A g \in Files : ~Known(g))
      /\ ClosedOnce(toReceiver) /\ UNCHANGED <<peerUp, asked, incoming>>
  BY TypeParts DEF IInv, ChannelOK, receiver
<1>2. ClosedOnce(packets)
  BY DEF ClosedOnce, Kinds
<1>3. /\ Kinds(toReceiver') = IF peerUp THEN Kinds(toReceiver) \cup Kinds(packets) ELSE {}
      /\ /\ ClosedOnce(toReceiver) /\ ClosedOnce(packets)
         /\ "close" \notin Kinds(toReceiver) \/ Kinds(packets) \subseteq {"open"}
         => ClosedOnce(toReceiver')
  BY <1>1, SenderWrote
<1>4. ClosedOnce(toReceiver')
  BY <1>1, <1>2, <1>3 DEF Talking
<1>5. ~Talking' => toSender' = << >> /\ channel' # "open"
  <2>1. Talking => Talking'
    BY <1>3 DEF Talking
  <2> QED BY <1>1, <2>1 DEF ChannelOK
<1>6. ~peerUp' => toReceiver' = << >> /\ \A f \in Files : ~Known(f)'
  BY <1>1 DEF SenderWrites, Known, Accepted
<1> QED BY <1>4, <1>5, <1>6 DEF ChannelOK


LEMMA OffersModes ==
  ASSUME IInv, Talking, NEW S \in SUBSET Files, \A f \in S : Fresh(f),
         NEW missing \in SUBSET S, NEW unread, Offers(S, missing, unread),
         UNCHANGED <<link, receiver>>, channel' = "open"
  PROVE  ChannelOK'
<1>1. ChannelOK /\ row \in [Files -> {"none", "Queued", "Sending", "Delivered", "Error", "erased"}]
  BY DEF IInv, TypeOK
<1>2. PICK order \in OldestFirst(S \ missing) : SenderWrites(unread, Headers(order))
  BY DEF Offers
<1> DEFINE packets == Headers(order)
<1>3. /\ packets \in Seq(ToReceiver)
      /\ Packets(packets) = {[kind |-> "header", file |-> f] : f \in S \ missing}
  BY HeadersOfFiles
<1>4. "close" \notin Kinds(packets)
  <2>1. \A q \in Packets(packets) : q.kind = "header"
    BY <1>3
  <2> QED BY <2>1, KindsOfPackets
<1>5. SenderWrites(unread, packets)
  BY <1>2
<1> HIDE DEF packets
<1>6. ASSUME NEW f \in Files
      PROVE  /\ Sent(f)' => channel' = "open" /\ ~Fresh(f)'
             /\ Fresh(f)' => attempts'[f] < 2
  <2>1. CASE f \in S
    BY <1>1, <2>1 DEF Offers, ChannelOK, Fresh, Sent
  <2>2. CASE f \notin S
    BY <1>1, <2>2 DEF Offers, ChannelOK, Fresh, Sent
  <2> QED BY <2>1, <2>2
<1> QED BY <1>3, <1>4, <1>5, <1>6, SenderModes

LEMMA FatalModes ==
  ASSUME IInv, toSender # << >>, FatalError PROVE ChannelOK'
<1> DEFINE packets == << [kind |-> "close"] >>
<1>1. /\ WiresOK /\ ChannelOK /\ Talking /\ (~peerUp => toReceiver = << >> /\ \A g \in Files : ~Known(g))
      /\ ClosedOnce(toReceiver) /\ UNCHANGED <<peerUp, asked, incoming>>
      /\ SenderWrites(<< >>, packets)
  BY TypeParts DEF IInv, ChannelOK, receiver, FatalError
<1>2. packets \in Seq(ToReceiver) /\ ClosedOnce(packets)
  BY FilePackets, Single
<1> HIDE DEF packets
<1>3. ClosedOnce(toReceiver')
  BY <1>1, <1>2, SenderWrote DEF Talking
<1>4. ASSUME NEW f \in Files
      PROVE  ~Sent(f)' /\ (Fresh(f)' => attempts'[f] < 2) /\ (~peerUp' => ~Known(f)')
  <2>1. row \in [Files -> {"none", "Queued", "Sending", "Delivered", "Error", "erased"}]
        /\ attempts[f] \in 0..2
    BY DEF IInv, TypeOK
  <2>2. Fresh(f) => attempts[f] < 2
    BY <1>1 DEF ChannelOK
  <2>3. ~Sent(f)' /\ (~peerUp' => ~Known(f)')
    BY <1>1 DEF FatalError, NoTransfers, Sent, Known, Accepted
  <2>4. Fresh(f)' => attempts'[f] < 2
    BY <2>1, <2>2 DEF FatalError, Requeued, Fresh
  <2> QED BY <2>3, <2>4
<1>5. toSender' = << >> /\ channel' = "none" /\ (~peerUp' => toReceiver' = << >>)
  BY <1>1 DEF FatalError, SenderWrites
<1> QED BY <1>3, <1>4, <1>5 DEF ChannelOK

\* The sender reads, and writes what is not the end of the channel.
LEMMA ReadModes ==
  ASSUME IInv, toSender # << >>, NEW unread,
         \/ SenderWrites(unread, << >>)
         \/ \E f \in Files : SenderWrites(unread, << [kind |-> "chunk", file |-> f] >>),
         UNCHANGED <<attempts, channel, link, receiver>>,
         \A f \in Files : Sent(f)' => Sent(f), \A f \in Files : Fresh(f)' => Fresh(f)
  PROVE  ChannelOK'
<1>1. ChannelOK /\ Talking
  BY DEF IInv, ChannelOK
<1>2. ASSUME NEW f \in Files
      PROVE  /\ Sent(f)' => channel' = "open" /\ ~Fresh(f)'
             /\ Fresh(f)' => attempts'[f] < 2
  BY <1>1 DEF ChannelOK
<1>3. CASE SenderWrites(unread, << >>)
  <2>1. << >> \in Seq(ToReceiver) /\ "close" \notin Kinds(<< >>)
    BY FilePackets, Silence
  <2> QED BY <1>1, <1>2, <1>3, <2>1, SenderModes
<1>4. ASSUME NEW f \in Files, SenderWrites(unread, << [kind |-> "chunk", file |-> f] >>)
      PROVE  ChannelOK'
  <2> DEFINE p == [kind |-> "chunk", file |-> f]
             packets == <<p>>
  <2>1. packets \in Seq(ToReceiver) /\ p.kind = "chunk" /\ SenderWrites(unread, packets)
    BY <1>4, FilePackets
  <2> HIDE DEF p
  <2>2. "close" \notin Kinds(packets)
    BY <2>1, Single
  <2> HIDE DEF packets
  <2> QED BY <1>1, <1>2, <2>1, <2>2, SenderModes
<1> QED BY <1>3, <1>4

LEMMA ReadsKeepChannel == ASSUME IInv, SenderReads PROVE ChannelOK'
<1>1. /\ toSender # << >> /\ outgoing \in [Files -> Offsets \cup {None}]
      /\ row \in [Files -> {"none", "Queued", "Sending", "Delivered", "Error", "erased"}]
      /\ Talking /\ link = "up"
  BY DEF IInv, TypeOK, SenderReads, ReceiveOpened, ReceiveAck, ReceiveUnnamed, ReceiveResponse,
     ReceiveWritten, ReceiveComplete, FromReceiver, ChannelOK
<1>f. Head(toSender).kind \notin {"opened", "unnamed"} => \E f \in Files : f = Head(toSender).file
  BY <1>1, Heads, TypeParts DEF IInv
<1>2. CASE ReceiveOpened
  <2>1. /\ UNCHANGED <<link, receiver>> /\ channel' = "open"
        /\ \E missing \in SUBSET Queued : Offers(Queued, missing, Tail(toSender))
    BY <1>1, <1>2 DEF ReceiveOpened, SendQueued
  <2>2. Queued \in SUBSET Files /\ \A f \in Queued : Fresh(f)
    BY DEF Queued, Fresh
  <2> QED BY <1>1, <2>1, <2>2, OffersModes
<1>3. CASE ReceiveAck
  <2>1. \A f \in Files : Fresh(f)' => Fresh(f)
    BY <1>1, <1>3 DEF ReceiveAck, Fresh
  <2> QED BY <1>1, <1>3, <2>1, ReadModes DEF ReceiveAck, Sent
<1>4. CASE FatalError
  BY <1>1, <1>4, FatalModes
<1>5. CASE ReceiveResponse
  <2>1. PICK f \in Files : f = Head(toSender).file
    BY <1>5, <1>f DEF ReceiveResponse, FromReceiver
  <2>2. UNCHANGED <<row, attempts, channel, link, receiver>>
    BY <1>5 DEF ReceiveResponse
  <2>3. \A g \in Files : Sent(g)' => Sent(g)
    BY <1>1, <1>5, <2>1 DEF ReceiveResponse, SendNextChunk, Sent
  <2>4. \/ SenderWrites(Tail(toSender), << >>)
        \/ \E g \in Files : SenderWrites(Tail(toSender), << [kind |-> "chunk", file |-> g] >>)
    BY <1>5, <2>1 DEF ReceiveResponse, SendNextChunk
  <2> QED BY <1>1, <2>2, <2>3, <2>4, ReadModes DEF Fresh
<1>6. CASE ReceiveWritten /\ ~FatalError
  <2>1. PICK f \in Files : f = Head(toSender).file
    BY <1>6, <1>f DEF ReceiveWritten, FromReceiver
  <2>2. UNCHANGED <<row, attempts, channel, link, receiver>>
    BY <1>6 DEF ReceiveWritten
  <2>3. \A g \in Files : Sent(g)' => Sent(g)
    BY <1>1, <1>6, <2>1 DEF ReceiveWritten, SendNextChunk, Sent
  <2>4. \/ SenderWrites(Tail(toSender), << >>)
        \/ \E g \in Files : SenderWrites(Tail(toSender), << [kind |-> "chunk", file |-> g] >>)
    BY <1>6, <2>1 DEF ReceiveWritten, SendNextChunk
  <2> QED BY <1>1, <2>2, <2>3, <2>4, ReadModes DEF Fresh
<1>7. CASE ReceiveComplete
  <2>1. /\ SenderWrites(Tail(toSender), << >>) /\ UNCHANGED <<row, attempts, channel, link, receiver>>
        /\ \A g \in Files : Sent(g)' => Sent(g)
    BY <1>1, <1>7 DEF ReceiveComplete, Sent
  <2> QED BY <1>1, <2>1, ReadModes DEF Fresh
<1> QED BY <1>2, <1>3, <1>4, <1>5, <1>6, <1>7 DEF SenderReads, ReceiveUnnamed


\* The sender opens a channel, or does nothing about it, as long as he has none.
LEMMA OpeningModes ==
  ASSUME IInv, NEW packets \in {<< >>, << [kind |-> "open"] >>},
         SenderWrites(toSender, packets), UNCHANGED <<attempts, outgoing, link, receiver>>,
         channel # "open", channel' # "open", \A f \in Files : Fresh(f)' => Fresh(f)
  PROVE  ChannelOK'
<1>1. ChannelOK
  BY DEF IInv
<1>2. /\ packets \in Seq(ToReceiver) /\ Kinds(packets) \subseteq {"open"} /\ "close" \notin Kinds(packets)
  <2>1. packets \in Seq(ToReceiver)
    BY FilePackets
  <2>2. Kinds(<< >>) = {} /\ Kinds(<< [kind |-> "open"] >>) = {"open"}
    BY Silence, Single
  <2> QED BY <2>1, <2>2
<1>3. \A f \in Files : ~Sent(f)' /\ (Fresh(f)' => attempts'[f] < 2)
  BY <1>1 DEF ChannelOK, Sent
<1>4. toSender' = toSender
  BY DEF SenderWrites
<1> QED BY <1>2, <1>3, <1>4, SenderModes

LEMMA CallsKeepChannel ==
  ASSUME IInv, SendQueuedMessages \/ OnDisconnected PROVE ChannelOK'
<1>0. ChannelOK /\ channel \in {"none", "opening", "open"}
  BY DEF IInv, TypeOK
<1>1. CASE SendQueuedMessages
  <2>1. SendQueued(channel, toSender) /\ UNCHANGED <<link, receiver>>
    BY <1>1 DEF SendQueuedMessages
  <2>2. CASE link = "up" /\ channel = "open"
    <3>1. Talking /\ channel' = "open"
      BY <1>0, <2>1, <2>2 DEF ChannelOK, SendQueued
    <3>2. Queued \in SUBSET Files /\ \A f \in Queued : Fresh(f)
      BY DEF Queued, Fresh
    <3>3. PICK missing \in SUBSET Queued : Offers(Queued, missing, toSender)
      BY <2>1, <2>2 DEF SendQueued
    <3> QED BY <2>1, <3>1, <3>2, <3>3, OffersModes
  <2>3. CASE ~(link = "up" /\ channel = "open")
    <3>1. PICK packets \in {<< >>, << [kind |-> "open"] >>} : SenderWrites(toSender, packets)
      BY <2>1, <2>3 DEF SendQueued
    <3>2. UNCHANGED <<row, attempts, outgoing>>
      BY <2>1, <2>3 DEF SendQueued
    <3>3. channel # "open" /\ channel' # "open"
      BY <1>0, <2>1, <2>3 DEF ChannelOK, Talking, SendQueued
    <3> QED BY <2>1, <3>1, <3>2, <3>3, OpeningModes DEF Fresh
  <2> QED BY <2>2, <2>3
<1>2. CASE OnDisconnected
  <2>1. Talking' <=> Talking
    BY <1>2 DEF OnDisconnected, Talking, wires
  <2> QED BY <1>0, <1>2, <2>1 DEF OnDisconnected, ChannelOK, receiver, wires, Sent, Fresh, Known, Accepted
<1> QED BY <1>1, <1>2

LEMMA UsersKeepChannel ==
  ASSUME IInv, NEW f \in Files, SendFile(f) \/ CancelOutgoing(f) PROVE ChannelOK'
<1>0. /\ ChannelOK /\ WiresOK /\ channel \in {"none", "opening", "open"}
      /\ row \in [Files -> {"none", "Queued", "Sending", "Delivered", "Error", "erased"}]
      /\ outgoing \in [Files -> Offsets \cup {None}] /\ UNCHANGED <<link, receiver>>
  BY TypeParts DEF IInv, TypeOK, SendFile, CancelOutgoing
<1>1. CASE SendFile(f)
  <2>0. Fresh(f)
    BY <1>1 DEF SendFile, Fresh
  <2>1. CASE channel = "open"
    <3>1. Talking /\ channel' = "open"
      BY <1>0, <1>1, <2>1 DEF ChannelOK, SendFile
    <3>2. {f} \in SUBSET Files /\ \A g \in {f} : Fresh(g)
      BY <2>0
    <3>3. PICK missing \in SUBSET {f} : Offers({f}, missing, toSender)
      BY <1>1, <2>1 DEF SendFile
    <3> QED BY <1>0, <3>1, <3>2, <3>3, OffersModes
  <2>2. CASE channel # "open"
    <3>1. PICK packets \in {<< >>, << [kind |-> "open"] >>} : SenderWrites(toSender, packets)
      BY <1>1, <2>2 DEF SendFile
    <3>2. /\ UNCHANGED <<attempts, outgoing>> /\ channel' # "open"
          /\ \A g \in Files : Fresh(g)' => Fresh(g)
      BY <1>0, <1>1, <2>0, <2>2 DEF SendFile, Fresh
    <3> QED BY <1>0, <2>2, <3>1, <3>2, OpeningModes
  <2> QED BY <2>1, <2>2
<1>2. CASE CancelOutgoing(f) /\ link = "none"
  <2>1. /\ UNCHANGED <<attempts, channel, outgoing, toReceiver, toSender, peerUp, asked, incoming>>
        /\ \A g \in Files : Fresh(g)' => Fresh(g)
    BY <1>0, <1>2 DEF CancelOutgoing, ChannelOK, Talking, wires, receiver, Fresh
  <2>2. channel # "open" /\ toSender = << >>
    BY <1>0, <1>2 DEF ChannelOK, Talking
  <2> QED BY <1>0, <2>1, <2>2 DEF ChannelOK, Sent, Known, Accepted
<1>3. CASE /\ link = "up" /\ channel = "none" /\ channel' = "opening" /\ UNCHANGED <<row, attempts, outgoing>>
           /\ SenderWrites(toSender, << [kind |-> "open"] >>)
  <2>1. << [kind |-> "open"] >> \in {<< >>, << [kind |-> "open"] >>}
    OBVIOUS
  <2>2. channel # "open" /\ channel' # "open"
    BY <1>3
  <2> QED BY <1>0, <1>3, <2>1, <2>2, OpeningModes DEF Fresh
<1>4. CASE /\ channel = "open" /\ UNCHANGED <<row, attempts, channel>>
           /\ outgoing' = [outgoing EXCEPT ![f] = None]
           /\ SenderWrites(toSender, << [kind |-> "cancelled", file |-> f] >>)
  <2> DEFINE p == [kind |-> "cancelled", file |-> f]
             packets == <<p>>
  <2>1. packets \in Seq(ToReceiver) /\ p.kind = "cancelled" /\ SenderWrites(toSender, packets)
    BY <1>4, FilePackets
  <2> HIDE DEF p
  <2>2. "close" \notin Kinds(packets)
    BY <2>1, Single
  <2> HIDE DEF packets
  <2>3. Talking /\ channel' = "open"
    BY <1>0, <1>4 DEF ChannelOK
  <2>4. ASSUME NEW g \in Files
        PROVE  /\ Sent(g)' => channel' = "open" /\ ~Fresh(g)'
               /\ Fresh(g)' => attempts'[g] < 2
    BY <1>0, <1>4 DEF ChannelOK, Sent, Fresh
  <2> QED BY <1>0, <2>1, <2>2, <2>3, <2>4, SenderModes
<1> QED BY <1>1, <1>2, <1>3, <1>4 DEF CancelOutgoing

\* The receiver reads a packet or none, and is still there.
LEMMA ReceiverModes ==
  ASSUME IInv, peerUp, UNCHANGED <<sender, peerUp>>, NEW packets, NEW unread,
         ReceiverWrites(unread, packets),
         unread = toReceiver \/ (toReceiver # << >> /\ unread = Tail(toReceiver))
  PROVE  ChannelOK'
<1>1. ChannelOK /\ WiresOK /\ UNCHANGED <<link, channel, outgoing, row, attempts>>
  BY TypeParts DEF IInv, sender
<1>2. toReceiver' = unread /\ (~Talking' => toSender' = toSender)
  BY <1>1 DEF ReceiverWrites, Talking
<1>3. ClosedOnce(toReceiver') /\ (~Talking' => ~Talking)
  BY <1>1, <1>2, ReceiverTakes DEF ChannelOK, Talking
<1> QED BY <1>1, <1>2, <1>3 DEF ChannelOK, Sent, Fresh

LEMMA ChannelKeeps == IInv /\ Next => ChannelOK'
<1> SUFFICES ASSUME IInv, Next PROVE ChannelOK'
  OBVIOUS
<1>0. ChannelOK
  BY DEF IInv
<1>1. CASE SenderReads
  BY <1>0, <1>1, ReadsKeepChannel
<1>2. CASE SenderCall
  BY <1>0, <1>2, CallsKeepChannel DEF SenderCall
<1>3. CASE ReceiverReads
  <2>1. /\ peerUp /\ UNCHANGED <<sender, peerUp>> /\ toReceiver # << >>
        /\ \E packets : ReceiverWrites(Tail(toReceiver), packets)
    <3>1. CASE ReceiveOpen \/ ReceiveClose \/ ReceiveCancelled
      BY <3>1 DEF ReceiveOpen, ReceiveClose, ReceiveCancelled, FromSender
    <3>2. CASE ReceiveHeader
      BY <3>2 DEF ReceiveHeader, FromSender
    <3>3. CASE ReceiveChunk
      BY <3>3 DEF ReceiveChunk, FromSender
    <3> QED BY <1>3, <3>1, <3>2, <3>3 DEF ReceiverReads
  <2> QED BY <1>0, <2>1, ReceiverModes
<1>4. ASSUME NEW f \in Files, SendFile(f) \/ CancelOutgoing(f) PROVE ChannelOK'
  BY <1>0, <1>4, UsersKeepChannel
<1>5. ASSUME NEW f \in Files, AcceptFile(f) \/ RejectFile(f) \/ CancelIncoming(f) PROVE ChannelOK'
  <2>1. /\ Known(f) /\ UNCHANGED <<sender, peerUp>>
        /\ \E packets : ReceiverWrites(toReceiver, packets)
    BY <1>5 DEF AcceptFile, RejectFile, CancelIncoming, Known
  <2>2. peerUp
    BY <1>0, <2>1 DEF ChannelOK
  <2> QED BY <1>0, <2>1, <2>2, ReceiverModes
<1>9. ASSUME SenderLoses, UNCHANGED attempts, NEW f \in Files
      PROVE  ~Sent(f)' /\ (Fresh(f)' => attempts'[f] < 2)
  <2>1. row \in [Files -> {"none", "Queued", "Sending", "Delivered", "Error", "erased"}]
        /\ attempts[f] \in 0..2 /\ (Fresh(f) => attempts[f] < 2)
    BY <1>0 DEF IInv, TypeOK, ChannelOK
  <2>2. Fresh(f)' => attempts'[f] < 2
    BY <1>9, <2>1 DEF SenderLoses, Requeued, Fresh
  <2> QED BY <1>9, <2>2 DEF SenderLoses, NoTransfers, Sent
<1>6. CASE Connect
  <2>1. \A f \in Files : ~Sent(f)' /\ ~Known(f)' /\ (Fresh(f)' => attempts'[f] < 2)
    BY <1>6, <1>9 DEF Connect, ReceiverClosed, NoTransfers, Known, Accepted
  <2>2. ClosedOnce(toReceiver') /\ toSender' = << >> /\ channel' # "open" /\ peerUp'
    BY <1>6, Single DEF Connect
  <2> QED BY <1>0, <2>1, <2>2 DEF ChannelOK
<1>7. CASE SenderClosed
  <2>1. ASSUME NEW f \in Files
        PROVE  ~Sent(f)' /\ (Fresh(f)' => attempts'[f] < 2) /\ (Known(f)' <=> Known(f))
    BY <1>7, <1>9 DEF SenderClosed, receiver, Known, Accepted
  <2> QED BY <1>0, <1>7, <2>1 DEF SenderClosed, receiver, ChannelOK
<1>8. CASE ReceiverGone
  <2>1. \A f \in Files : ~Known(f)' /\ (Sent(f)' <=> Sent(f)) /\ (Fresh(f)' <=> Fresh(f))
    BY <1>8 DEF ReceiverGone, ReceiverClosed, NoTransfers, sender, Sent, Known, Accepted, Fresh
  <2>2. toReceiver' = << >> /\ ClosedOnce(toReceiver') /\ Kinds(toReceiver') = {}
    BY <1>8, Silence DEF ReceiverGone
  <2> QED BY <1>0, <1>8, <2>1, <2>2 DEF ReceiverGone, sender, ChannelOK, Talking
<1> QED BY <1>1, <1>2, <1>3, <1>4, <1>5, <1>6, <1>7, <1>8 DEF Next, Drop, PeerGone


-----------------------------------------------------------------------------
\* A sender who was told of success was told the truth.

LEMMA SuccessStays ==
  ASSUME IInv,
         \A f \in Files : told'[f] = "success" => told[f] = "success",
         \A f \in Files :
           \/ Known(f) \/ Has(toReceiver, "header", f) \/ told'[f] # "success"
           \/ /\ saw'[f] = saw[f] /\ ~Known(f)'
              /\ Has(toReceiver', "header", f) => Has(toReceiver, "header", f)
  PROVE  SuccessOK'
BY DEF IInv, SuccessOK

\* Only the headers of files that are offered again are new.
LEMMA SuccessWritten ==
  ASSUME IInv, UNCHANGED receiver, NEW packets \in Seq(ToReceiver), NEW unread,
         SenderWrites(unread, packets),
         \A f \in Files : told'[f] = "success" => told[f] = "success" /\ ~Has(packets, "header", f)
  PROVE  SuccessOK'
<1>1. WiresOK /\ (~peerUp => toReceiver = << >>)
  BY TypeParts DEF IInv, ChannelOK
<1>2. \A f \in Files : Has(toReceiver', "header", f) =>
                         Has(toReceiver, "header", f) \/ Has(packets, "header", f)
  BY <1>1, SenderWrote
<1> QED BY <1>2, SuccessStays DEF receiver, Known, Accepted

LEMMA SuccessOffered ==
  ASSUME IInv, UNCHANGED receiver, NEW S \in SUBSET Files, NEW missing \in SUBSET S, NEW unread,
         Offers(S, missing, unread)
  PROVE  SuccessOK'
<1>1. PICK order \in OldestFirst(S \ missing) : SenderWrites(unread, Headers(order))
  BY DEF Offers
<1> DEFINE packets == Headers(order)
<1>2. packets \in Seq(ToReceiver) /\ SenderWrites(unread, packets)
      /\ Packets(packets) = {[kind |-> "header", file |-> f] : f \in S \ missing}
  BY <1>1, HeadersOfFiles
<1> HIDE DEF packets
<1>3. \A f \in Files : Has(packets, "header", f) => f \in S
  BY <1>2 DEF Has
<1>4. \A f \in Files : told'[f] = "success" => told[f] = "success" /\ f \notin S
  BY DEF Offers
<1> QED BY <1>2, <1>3, <1>4, SuccessWritten

\* One packet, or none, that is no header.
LEMMA SuccessSpoken ==
  ASSUME IInv, UNCHANGED receiver, NEW unread,
         \A f \in Files : told'[f] = "success" => told[f] = "success",
         \/ SenderWrites(unread, << >>)
         \/ \E p \in ToReceiver : p.kind # "header" /\ SenderWrites(unread, <<p>>)
  PROVE  SuccessOK'
<1>1. CASE SenderWrites(unread, << >>)
  <2>1. << >> \in Seq(ToReceiver) /\ \A f \in Files : ~Has(<< >>, "header", f)
    BY Silence, FilePackets
  <2> QED BY <1>1, <2>1, SuccessWritten
<1>2. ASSUME NEW p \in ToReceiver, p.kind # "header", SenderWrites(unread, <<p>>)
      PROVE  SuccessOK'
  <2> DEFINE packets == <<p>>
  <2>1. packets \in Seq(ToReceiver) /\ SenderWrites(unread, packets)
    BY <1>2
  <2>2. \A f \in Files : ~Has(packets, "header", f)
    BY <1>2, Single
  <2> HIDE DEF packets
  <2> QED BY <2>1, <2>2, SuccessWritten
<1> QED BY <1>1, <1>2

LEMMA FilePacket ==
  /\ [kind |-> "open"] \in ToReceiver /\ [kind |-> "open"].kind # "header"
  /\ [kind |-> "close"] \in ToReceiver /\ [kind |-> "close"].kind # "header"
  /\ \A f \in Files :
       /\ [kind |-> "chunk", file |-> f] \in ToReceiver /\ [kind |-> "chunk", file |-> f].kind # "header"
       /\ [kind |-> "cancelled", file |-> f] \in ToReceiver
       /\ [kind |-> "cancelled", file |-> f].kind # "header"
BY DEF ToReceiver

LEMMA SuccessQueued ==
  ASSUME IInv, NEW c, NEW unread, SendQueued(c, unread), UNCHANGED receiver PROVE SuccessOK'
<1>1. CASE link = "up" /\ c = "open"
  <2>1. PICK missing \in SUBSET Queued : Offers(Queued, missing, unread)
    BY <1>1 DEF SendQueued
  <2>2. Queued \in SUBSET Files
    BY DEF Queued
  <2> QED BY <2>1, <2>2, SuccessOffered
<1>2. CASE ~(link = "up" /\ c = "open")
  <2>1. told' = told /\ (SenderWrites(unread, << >>) \/ SenderWrites(unread, << [kind |-> "open"] >>))
    BY <1>2 DEF SendQueued
  <2> QED BY <2>1, FilePacket, SuccessSpoken
<1> QED BY <1>1, <1>2

LEMMA SuccessRead == ASSUME IInv, SenderReads PROVE SuccessOK'
<1>1. /\ toSender # << >> /\ told \in [Files -> Results \cup {"none"}] /\ UNCHANGED receiver
  BY DEF IInv, TypeOK, SenderReads, ReceiveOpened, ReceiveAck, ReceiveUnnamed, ReceiveResponse,
     ReceiveWritten, ReceiveComplete, FromReceiver, FatalError
<1>f. Head(toSender).kind \notin {"opened", "unnamed"} => \E f \in Files : f = Head(toSender).file
  BY <1>1, Heads, TypeParts DEF IInv
<1>2. CASE ReceiveOpened
  BY <1>1, <1>2, SuccessQueued DEF ReceiveOpened
<1>3. CASE ReceiveAck
  BY <1>1, <1>3, SuccessSpoken DEF ReceiveAck
<1>4. CASE FatalError
  <2>1. \A f \in Files : told'[f] = "success" => told[f] = "success"
    BY <1>1, <1>4 DEF FatalError, AllTold
  <2>2. SenderWrites(<< >>, << [kind |-> "close"] >>)
    BY <1>4 DEF FatalError
  <2> QED BY <1>1, <2>1, <2>2, FilePacket, SuccessSpoken
<1>5. CASE ReceiveResponse
  <2>1. PICK f \in Files : f = Head(toSender).file
    BY <1>5, <1>f DEF ReceiveResponse, FromReceiver
  <2>2. \A g \in Files : told'[g] = "success" => told[g] = "success"
    BY <1>1, <1>5, <2>1 DEF ReceiveResponse
  <2>3. \/ SenderWrites(Tail(toSender), << >>)
        \/ SenderWrites(Tail(toSender), << [kind |-> "chunk", file |-> f] >>)
    BY <1>5, <2>1 DEF ReceiveResponse, SendNextChunk
  <2> QED BY <1>1, <2>2, <2>3, FilePacket, SuccessSpoken
<1>6. CASE ReceiveWritten /\ ~FatalError
  <2>1. PICK f \in Files : f = Head(toSender).file
    BY <1>6, <1>f DEF ReceiveWritten, FromReceiver
  <2>2. told' = told
    BY <1>6 DEF ReceiveWritten
  <2>3. \/ SenderWrites(Tail(toSender), << >>)
        \/ SenderWrites(Tail(toSender), << [kind |-> "chunk", file |-> f] >>)
    BY <1>6, <2>1 DEF ReceiveWritten, SendNextChunk
  <2> QED BY <1>1, <2>2, <2>3, FilePacket, SuccessSpoken
<1>7. CASE ReceiveComplete
  <2>1. PICK f \in Files : f = Head(toSender).file
    BY <1>7, <1>f DEF ReceiveComplete, FromReceiver
  <2>2. /\ told' = IF Sent(f) THEN [told EXCEPT ![f] = Head(toSender).result] ELSE told
        /\ SenderWrites(Tail(toSender), << >>) /\ Head(toSender).kind = "complete"
    BY <1>7, <2>1 DEF ReceiveComplete, FromReceiver
  <2>3. CASE told'[f] = "success" /\ told[f] # "success"
    <3>1. WiresOK /\ ChannelOK /\ Talking /\ Head(toSender).result = "success"
      BY <1>1, <2>2, <2>3, TypeParts DEF IInv, ChannelOK
    <3>2. Turn(f) /\ Head(toSender) \in Packets(toSender) /\ Has(toSender, "complete", f)
      BY <1>1, <2>1, <2>2, <3>1, Taken DEF IInv, Agreed, WiresOK
    <3>3. saw[f] \in {"success", "spoilt"} /\ ~Known(f) /\ ~Has(toReceiver, "header", f)
      BY <2>1, <2>2, <3>1, <3>2 DEF Turn, Answered
    <3>4. \A g \in Files : ~Has(toReceiver', "header", g) \/ Has(toReceiver, "header", g)
      <4>1. << >> \in Seq(ToReceiver) /\ (~peerUp => toReceiver = << >>)
        BY <3>1, FilePackets DEF ChannelOK
      <4> QED BY <2>2, <3>1, <4>1, SenderWrote, Silence
    <3>5. \A g \in Files : g # f => told'[g] = told[g]
      BY <1>1, <2>2
    <3> QED BY <1>1, <3>3, <3>4, <3>5 DEF IInv, SuccessOK, receiver, Known, Accepted
  <2>4. CASE ~(told'[f] = "success" /\ told[f] # "success")
    <3>1. \A g \in Files : told'[g] = "success" => told[g] = "success"
      BY <1>1, <2>2, <2>4
    <3> QED BY <1>1, <2>2, <3>1, SuccessSpoken
  <2> QED BY <2>3, <2>4
<1> QED BY <1>2, <1>3, <1>4, <1>5, <1>6, <1>7 DEF SenderReads, ReceiveUnnamed

LEMMA SuccessHeard == ASSUME IInv, ReceiverReads PROVE SuccessOK'
<1>1. /\ WiresOK /\ toReceiver # << >> /\ toReceiver' = Tail(toReceiver) /\ told' = told
  BY TypeParts DEF IInv, ReceiverReads, ReceiveOpen, ReceiveClose, ReceiveHeader, ReceiveChunk,
     ReceiveCancelled, FromSender, ReceiverWrites, sender
<1>2. /\ \A f \in Files : Has(toReceiver', "header", f) => Has(toReceiver, "header", f)
      /\ Has(toReceiver, Head(toReceiver).kind, Head(toReceiver).file)
  BY <1>1, ReceiverTakes
<1>3. /\ saw \in [Files -> Results \cup {"none", "asked", "running"}]
      /\ incoming \in [Files -> Offsets \cup {None}]
      /\ Head(toReceiver).kind \notin {"open", "close"} => \E f \in Files : f = Head(toReceiver).file
  BY <1>1, Heads DEF IInv, TypeOK
<1>4. ASSUME NEW f \in Files
      PROVE  \/ Known(f) \/ Has(toReceiver, "header", f)
             \/ saw'[f] = saw[f] /\ ~Known(f)'
  <2>1. CASE ReceiveOpen \/ ReceiveClose
    BY <2>1 DEF ReceiveOpen, ReceiveClose, NoTransfers, Known, Accepted
  <2>2. CASE ReceiveHeader
    <3>1. PICK g \in Files : g = Head(toReceiver).file
      BY <1>3, <2>2 DEF ReceiveHeader, FromSender
    <3>2. Has(toReceiver, "header", g)
      BY <1>2, <2>2, <3>1 DEF ReceiveHeader, FromSender
    <3>3. f # g => saw'[f] = saw[f] /\ (Known(f)' => Known(f))
      BY <1>3, <2>2, <3>1 DEF ReceiveHeader, Known, Accepted
    <3> QED BY <3>2, <3>3
  <2>3. CASE ReceiveChunk
    <3>1. PICK g \in Files : g = Head(toReceiver).file
      BY <1>3, <2>3 DEF ReceiveChunk, FromSender
    <3>2. PICK packets \in Seq(ToSender) : ChunkResult(g, packets)
      BY <2>3, <3>1, ChunkAnswered DEF IInv
    <3>3. ~Known(f) => saw'[f] = saw[f] /\ ~Known(f)'
      BY <2>3, <3>2 DEF ChunkResult, Known, Accepted, ReceiveChunk
    <3> QED BY <3>3
  <2>4. CASE ReceiveCancelled
    <3>1. PICK g \in Files : g = Head(toReceiver).file
      BY <1>3, <2>4 DEF ReceiveCancelled, FromSender
    <3> QED BY <1>3, <2>4, <3>1 DEF ReceiveCancelled, Known, Accepted
  <2> QED BY <2>1, <2>2, <2>3, <2>4 DEF ReceiverReads
<1> QED BY <1>1, <1>2, <1>4, SuccessStays

LEMMA SuccessKeeps == IInv /\ Next => SuccessOK'
<1> SUFFICES ASSUME IInv, Next PROVE SuccessOK'
  OBVIOUS
<1>1. /\ WiresOK /\ told \in [Files -> Results \cup {"none"}]
      /\ saw \in [Files -> Results \cup {"none", "asked", "running"}]
      /\ incoming \in [Files -> Offsets \cup {None}]
  BY TypeParts DEF IInv, TypeOK
<1>2. CASE SendQueuedMessages
  BY <1>2, SuccessQueued DEF SendQueuedMessages
<1>3. CASE OnDisconnected
  BY <1>3, SuccessStays DEF OnDisconnected, receiver, wires, Known, Accepted
<1>4. ASSUME NEW f \in Files, SendFile(f) PROVE SuccessOK'
  <2>1. CASE channel = "open"
    <3>1. PICK missing \in SUBSET {f} : Offers({f}, missing, toSender)
      BY <1>4, <2>1 DEF SendFile
    <3> QED BY <1>4, <3>1, SuccessOffered DEF SendFile
  <2>2. CASE channel # "open"
    <3>1. told' = told /\ (SenderWrites(toSender, << >>) \/ SenderWrites(toSender, << [kind |-> "open"] >>))
      BY <1>4, <2>2 DEF SendFile
    <3> QED BY <1>4, <3>1, FilePacket, SuccessSpoken DEF SendFile
  <2> QED BY <2>1, <2>2
<1>5. ASSUME NEW f \in Files, CancelOutgoing(f) PROVE SuccessOK'
  <2>1. UNCHANGED receiver /\ \A g \in Files : told'[g] = "success" => told[g] = "success"
    BY <1>1, <1>5 DEF CancelOutgoing
  <2>2. CASE UNCHANGED wires
    BY <2>1, <2>2, SuccessStays DEF receiver, wires, Known, Accepted
  <2>3. CASE SenderWrites(toSender, << [kind |-> "cancelled", file |-> f] >>)
             \/ SenderWrites(toSender, << [kind |-> "open"] >>)
    BY <2>1, <2>3, FilePacket, SuccessSpoken
  <2> QED BY <1>5, <2>2, <2>3 DEF CancelOutgoing
<1>6. ASSUME NEW f \in Files, AcceptFile(f) \/ RejectFile(f) \/ CancelIncoming(f) PROVE SuccessOK'
  <2>1. /\ Known(f) /\ told' = told /\ toReceiver' = toReceiver
        /\ \A g \in Files : g # f => saw'[g] = saw[g] /\ (Known(g)' => Known(g))
    BY <1>1, <1>6 DEF AcceptFile, RejectFile, CancelIncoming, sender, ReceiverWrites, Known, Accepted
  <2> QED BY <2>1, SuccessStays
<1>9. SenderLoses => \A f \in Files : told'[f] = "success" => told[f] = "success"
  BY DEF SenderLoses, AllTold
<1>7. CASE Connect \/ ReceiverGone
  <2>1. /\ \A f \in Files : told'[f] = "success" => told[f] = "success"
        /\ \A f \in Files : ~Known(f)' /\ (Known(f) \/ saw'[f] = saw[f])
    BY <1>7, <1>9 DEF Connect, ReceiverGone, ReceiverClosed, NoTransfers, sender, Known, Accepted
  <2>2. \A f \in Files : ~Has(toReceiver', "header", f)
    <3>1. [kind |-> "open"].kind = "open"
      OBVIOUS
    <3> QED BY <1>7, <3>1, Silence, Single DEF Connect, ReceiverGone
  <2> QED BY <2>1, <2>2, SuccessStays
<1>8. CASE SenderClosed
  BY <1>8, <1>9, SuccessStays DEF SenderClosed, receiver, Known, Accepted
<1> QED BY <1>2, <1>3, <1>4, <1>5, <1>6, <1>7, <1>8, SuccessRead, SuccessHeard
        DEF Next, SenderCall, Drop, PeerGone

-----------------------------------------------------------------------------
LEMMA InitOK == Init => IInv
<1> SUFFICES ASSUME Init PROVE IInv
  OBVIOUS
<1>1. TypeOK
  <2>1. SenderOK
    <3>1. calls \in Seq({"sendQueuedMessages", "onDisconnected"})
      BY EmptySeq DEF Init
    <3>2. attempts \in [Files -> 0..2]
      BY DEF Init
    <3> QED BY <3>1, <3>2 DEF Init, SenderOK, NoTransfers
  <2>2. ReceiverOK /\ WiresOK
    BY EmptySeq DEF Init, ReceiverOK, WiresOK, NoTransfers
  <2>3. BoundsOK
    BY BoundsAssumption DEF Init, BoundsOK
  <2> QED BY <2>1, <2>2, <2>3, TypeParts
<1>2. ChannelOK
  BY Silence DEF Init, ChannelOK, Talking, Sent, NoTransfers, Known, Accepted
<1>3. SuccessOK /\ Agreed
  BY DEF Init, SuccessOK, Agreed, Talking
<1> QED BY <1>1, <1>2, <1>3 DEF IInv

LEMMA StepOK == IInv /\ [Next]_vars => IInv'
<1>1. ASSUME IInv, Next PROVE IInv'
  BY <1>1, TypeKeeps, ChannelKeeps, SuccessKeeps, AgreedKeeps DEF IInv
<1>2. ASSUME IInv, UNCHANGED vars PROVE IInv'
  <2>1. UNCHANGED <<row, attempts, link, channel, outgoing, calls, crashed, told, peerUp, inbound,
                    asked, incoming, saw, toReceiver, toSender, drops, cancels, errors>>
    BY <1>2 DEF vars, sender, receiver, wires, bounds
  <2>2. TypeOK'
    BY <1>2, <2>1 DEF IInv, TypeOK
  <2>3. ChannelOK' /\ SuccessOK'
    BY <1>2, <2>1 DEF IInv, ChannelOK, SuccessOK, Talking, Sent, Fresh, Known, Accepted
  <2>4. Agreed'
    BY <1>2, <2>1 DEF IInv, Agreed, Turn, OneEach, Remembered, Talking, Sent, Fresh, Known, Accepted,
       Answered
  <2> QED BY <2>2, <2>3, <2>4 DEF IInv
<1> QED BY <1>1, <1>2

LEMMA Invariance == Spec => []IInv
BY InitOK, StepOK, PTL DEF Spec

\* Every variable keeps its type: no offset passes the end of its file, and no file
\* is attempted a third time.
THEOREM TypeCorrect == Spec => []TypeOK
<1>1. IInv => TypeOK
  BY DEF IInv
<1> QED BY <1>1, Invariance, PTL

\* Whatever is cancelled, rejected, cut off or offered again, a sender is told of
\* success only of a file that the receiver has had all of.
THEOREM SuccessIsTrue == Spec => []SuccessIsShared
<1>1. IInv => SuccessIsShared
  BY DEF IInv, SuccessOK, SuccessIsShared
<1> QED BY <1>1, Invariance, PTL

\* The bytes that the receiver acknowledges are those that the sender counts, so the
\* channel is never closed because they diverge.
THEOREM AcksAreInStep == Spec => []InStep
<1>1. ASSUME IInv PROVE InStep
  <2> SUFFICES ASSUME NEW n \in DOMAIN toSender, toSender[n].kind = "written",
                      Sent(toSender[n].file)
               PROVE  toSender[n].bytes = outgoing[toSender[n].file]
    BY DEF InStep
  <2>1. WiresOK /\ ChannelOK
    BY <1>1, TypeParts DEF IInv
  <2>2. toSender[n] \in ToSender /\ toSender # << >> /\ toSender[n] \in Packets(toSender)
    BY <2>1, ElementOfSeq, EmptySeq DEF WiresOK, Packets
  <2>3. PICK f \in Files : f = toSender[n].file
    BY <2>2 DEF ToSender
  <2>4. Talking /\ Turn(f)
    BY <1>1, <2>1, <2>2 DEF ChannelOK, IInv, Agreed
  <2> QED BY <2>2, <2>3, <2>4 DEF Turn
<1> QED BY <1>1, Invariance, PTL

\* While both ends have the channel open, neither has a record of a transfer that the
\* other has forgotten, unless word of it is on its way.
THEOREM RecordsAlwaysMeet == Spec => []RecordsMeet
<1>1. ASSUME IInv PROVE RecordsMeet
  <2> SUFFICES ASSUME Live, NEW f \in Files
               PROVE  /\ Sent(f) /\ ~Known(f) =>
                           \/ About(toReceiver, {"header"}, f)
                           \/ About(toSender, {"reject", "complete"}, f)
                           \/ "unnamed" \in Kinds(toSender)
                      /\ Known(f) /\ ~Sent(f) => About(toReceiver, {"cancelled"}, f)
    BY DEF RecordsMeet
  <2>1. Remembered(f)
    BY <1>1 DEF Live, Talking, IInv, Agreed
  <2>2. /\ About(toReceiver, {"header"}, f) <=> Has(toReceiver, "header", f)
        /\ About(toReceiver, {"cancelled"}, f) <=> Has(toReceiver, "cancelled", f)
        /\ About(toSender, {"reject", "complete"}, f) <=> Answered(f)
    BY AboutHas DEF Answered
  <2> QED BY <2>1, <2>2 DEF Remembered
<1> QED BY <1>1, Invariance, PTL


=============================================================================
