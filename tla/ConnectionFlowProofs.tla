------------------------ MODULE ConnectionFlowProofs ------------------------
(***************************************************************************)
(* The two ends of one connection agree, for every number of channel       *)
(* identifiers, every use of the channel types, every state of the two     *)
(* contact lists and every bound on the wires: what EndsAgree,             *)
(* NoOrphanChannel, NeverRefused and NoProtocolError say of the tables and *)
(* the packets.                                                            *)
(*                                                                         *)
(* The typing IInv of ConnectionProofs looks at one packet or one entry at *)
(* a time.  Deep adds how they stand to each other:                        *)
(*   FlowsOK     every OpenChannel on its way, and every inbound channel,  *)
(*               is still the opener's, or its ChannelClosed comes behind, *)
(*               and no OpenChannel meets a channel that is in its way;    *)
(*   MirrorsOK   every outbound channel is, or will be, the reader's, or   *)
(*               its ChannelClosed is on the way back;                     *)
(*   Stages      until authentication ends the two ends take turns;        *)
(*   RequestOK   there is at most one contact request, and it is in one    *)
(*               place: to be sent, asked, judged or answered;             *)
(*   TrustComes  where a chat or file channel meets a client that does not *)
(*               trust yet, what makes him trust is before it on the wire. *)
(* Nearly every step reads at most one packet, writes some and changes one *)
(* entry of one table (Acts); five kinds of such steps (Shape) keep the     *)
(* flows and the mirrors, so that each handler's lemma has only to say     *)
(* which kind it is and what it does to the stage and the request.         *)
(***************************************************************************)
EXTENDS ConnectionProofs

C == "client"
S == "server"
Chats == {"chat", "file"}
Up(s) == sock[s] = "connected"
Known == purpose[C] = "KnownContact"

-----------------------------------------------------------------------------
\* What can be on a wire, and in the two tables.

\* A packet that peers running this code send to s, where k says that the
\* client takes the connection for its contact's.
Fit(s, p, k) ==
  /\ p.kind = "open" =>
       OwnParity(Peer(s), p.id) /\ (s = "server" /\ p.type \in Chats => k)
  /\ p.kind = "result" => OwnParity(s, p.id) /\ p.opened = TRUE /\ p.response # "Accepted"
  /\ p.kind = "close" => p.id # Control
  /\ p.kind = "data" =>
       /\ p.body \in {"message", "proof"} => OwnParity(Peer(s), p.id)
       /\ p.body \notin {"message", "proof"} => OwnParity(s, p.id)
       /\ p.body \notin {"Pending", "Error"}
       /\ s = "server" /\ p.body = "message" => k
       /\ s = "client" /\ p.body = "ack" => k
PacketsFit == \A s \in Side : \A n \in DOMAIN wire[s] : Fit(s, wire[s][n], Known)

ClosedOK == \A s \in Side : sock[s] = "closed" => chan[s] = NoChannels /\ wire[s] = << >>

StrangersTables ==
  ~Known => \A i \in Ids : /\ chan[C][i].dir = "out" => chan[C][i].type \notin Chats
                           /\ chan[S][i].dir = "in" => chan[S][i].type \notin Chats

-----------------------------------------------------------------------------
\* The flow of channels from an opener with table O to a reader with table R
\* and unread packets w; "up" says that the opener's socket is connected.

\* The reader's inbound channel, as position 0, or an OpenChannel on its way.
InTable(c, u) == c.dir = "in" /\ c.type = u
Opening(R, w, k, j, u) ==
  \/ k = 0 /\ InTable(R[j], u)
  \/ k \in DOMAIN w /\ w[k] = OpenPacket(j, u)
ClosedAfter(w, j, k) == \E m \in DOMAIN w : k < m /\ w[m] = ClosePacket(j)
ClosedBetween(w, j, k, n) == \E m \in DOMAIN w : k < m /\ m < n /\ w[m] = ClosePacket(j)
Match(c, u, up) == (c.dir = "out" /\ c.type = u) \/ (~up /\ c = NoChannel)

\* What the reader has or will have is what the opener has, or is closed later.
Follows(O, R, w, up) ==
  \A k \in Nat, j \in Ids, u \in Types :
    Opening(R, w, k, j, u) => ClosedAfter(w, j, k) \/ Match(O[j], u, up)
\* An OpenChannel finds no earlier channel with its identifier or its type.
Orderly(R, w) ==
  \A n \in DOMAIN w, i \in Ids, t \in Types : w[n] = OpenPacket(i, t) =>
    \A k \in Nat, j \in Ids, u \in Types :
      k < n /\ Opening(R, w, k, j, u) /\ (j = i \/ u = t) => ClosedBetween(w, j, k, n)
Flow(O, R, w, up) == Follows(O, R, w, up) /\ Orderly(R, w)
FlowsOK == \A s \in Side : Flow(chan[s], chan[Peer(s)], wire[Peer(s)], Up(s))

\* The way back: what the opener has the reader has or will have, or its close
\* is among the packets v to the opener; so is every channel that was opened.
Answered(R, v, n) ==
  R[v[n].id].dir = "in" \/ ClosedAfter(v, v[n].id, n)
Backed(O, R, w, v, j) ==
  \/ R[j].dir = "in"
  \/ \E n \in DOMAIN v : v[n] = ClosePacket(j)
  \/ ~O[j].opened /\ \E n \in DOMAIN w : w[n] = OpenPacket(j, O[j].type)
Mirror(O, R, w, v) ==
  /\ \A j \in Ids : O[j].dir = "out" => Backed(O, R, w, v, j)
  /\ \A n \in DOMAIN v : v[n].kind = "result" => Answered(R, v, n)
MirrorsOK ==
  \A s \in Side : Up(Peer(s)) => Mirror(chan[s], chan[Peer(s)], wire[Peer(s)], wire[s])

-----------------------------------------------------------------------------
\* The stages of a connection up to the end of its authentication.

Unproved == /\ "HiddenServiceAuth" \notin auth[S]
            /\ purpose[S] = "Unknown" /\ queued[S] = {}
Undecided == purpose[C] = "Unknown" /\ queued[C] = {}
OnlyAuth(s, i) == \A j \in Ids : chan[s][j] # NoChannel => j = i /\ chan[s][j].type = "auth"
Waiting(i) == sock[C] = "closed" \/ chan[C][i].type = "auth"
OpensOrCloses(p, i) == p = ClosePacket(i) \/ p.kind = "open"

Greeting ==
  /\ Undecided /\ Unproved
  /\ chan[C] = NoChannels /\ chan[S] = NoChannels
  /\ \/ wire[C] = << >> /\ wire[S] = << >>
     \/ wire[C] = << >> /\ \E p \in Packet : p.kind = "intro" /\ wire[S] = <<p>>
     \/ wire[S] = << >> /\ \E p \in Packet : p.kind = "version" /\ wire[C] = <<p>>
Proving(i) ==
  /\ Undecided /\ Unproved
  /\ OnlyAuth(C, i) /\ OnlyAuth(S, i)
  /\ \/ wire[C] = << >> /\ wire[S] = << >>
     \/ /\ wire[C] = << >> /\ wire[S] = <<OpenPacket(i, "auth")>>
        /\ Waiting(i) /\ chan[S][i] = NoChannel
     \/ /\ wire[S] = << >> /\ wire[C] = <<ResultPacket(i, TRUE, "none")>>
        /\ chan[C][i].type = "auth" /\ (sock[S] = "closed" \/ chan[S][i].type = "auth")
     \/ /\ wire[C] = << >> /\ wire[S] = <<DataPacket(i, "proof")>>
        /\ Waiting(i) /\ chan[S][i].type = "auth"
Proved(i) ==
  /\ Undecided /\ OnlyAuth(C, i)
  /\ "HiddenServiceAuth" \in auth[S] /\ wire[S] = << >>
  /\ \A j \in Ids : chan[S][j].type \notin {"auth", "request"} /\ ~chan[S][j].opened
  /\ "closeRequest" \notin queued[S] /\ purpose[S] \in {"Unknown", "KnownContact"}
  /\ \/ wire[C] = << >> /\ (sock[C] = "closed" \/ ~Up(S))
     \/ /\ wire[C] # << >> /\ wire[C][1] = DataPacket(i, "known")
        /\ purpose[S] = "KnownContact" /\ chan[C][i].type = "auth"
        /\ \A n \in DOMAIN wire[C] : n # 1 => OpensOrCloses(wire[C][n], i)
     \/ /\ wire[C] = <<DataPacket(i, "unknown"), ClosePacket(i)>>
        /\ purpose[S] = "Unknown" /\ chan[S] = NoChannels /\ queued[S] = {}
        /\ chan[C][i].type = "auth"
Late(p) ==
  /\ p.kind \notin {"intro", "version"}
  /\ p.kind = "open" => p.type # "auth"
  /\ p.kind = "data" => p.body \notin {"proof", "known", "unknown"}
Serving ==
  /\ "HiddenServiceAuth" \in auth[S]
  /\ \A s \in Side : /\ \A n \in DOMAIN wire[s] : Late(wire[s][n])
                     /\ \A j \in Ids : chan[s][j].type # "auth"
Stages == Greeting \/ (\E i \in Ids : Proving(i)) \/ (\E i \in Ids : Proved(i)) \/ Serving

-----------------------------------------------------------------------------
\* The one contact request.

RequestOpens == {OpenPacket(i, "request") : i \in Ids}
Answers == [kind : {"data"}, id : Ids, body : Responses]
At(w, A) == {n \in DOMAIN w : w[n] \in A}
One(X) == \A x, y \in X : x = y
Asked == "onConnected" \in queued[C] /\ purpose[C] = "OutboundRequest"
Asking == At(wire[S], RequestOpens)
Judged == {q \in Ids : chan[S][q].type = "request"}
Answering == At(wire[C], Answers)
Requested(T, up, q) == T[q].type = "request" \/ (~up /\ T[q] = NoChannel)
OnceOnly ==
  /\ One(Asking) /\ One(Judged) /\ One(Answering)
  /\ Asked => Asking = {} /\ Judged = {} /\ Answering = {}
  /\ Asking # {} => Judged = {} /\ Answering = {}
  /\ Judged # {} => Answering = {}
RequestOK ==
  /\ OnceOnly
  /\ Asked => purpose[S] = "Unknown" /\ ~HasChannel(C, "request")
  /\ \A n \in Asking : purpose[S] = "Unknown" /\ Requested(chan[C], Up(C), wire[S][n].id)
  /\ \A q \in Judged : purpose[S] # "KnownContact" /\ Requested(chan[C], Up(C), q)
  /\ \A n \in Answering : Requested(chan[C], Up(C), wire[C][n].id)
  /\ \A q \in Ids : chan[C][q].type = "request" =>
       /\ purpose[C] = "OutboundRequest"
       /\ \A r \in Ids : chan[C][r].type = "request" => r = q

\* A packet that will make the client take the connection for its contact's.
Trusting(T, p) ==
  p.kind = "data" /\ \/ p.body = "Accepted" /\ T[p.id].type = "request"
                     \/ p.body = "known" /\ T[p.id].type = "auth"
TrustComes ==
  Up(C) /\ ~Known =>
    /\ Trusted => \E m \in DOMAIN wire[C] : Trusting(chan[C], wire[C][m])
    /\ \A n \in DOMAIN wire[C] : wire[C][n].kind = "open" =>
         \E m \in DOMAIN wire[C] : m < n /\ Trusting(chan[C], wire[C][m])

Deep ==
  /\ PacketsFit /\ ClosedOK /\ StrangersTables /\ FlowsOK /\ MirrorsOK
  /\ Stages /\ RequestOK /\ TrustComes

-----------------------------------------------------------------------------
\* Wires that grow and shrink.

LEMMA Grown ==
  ASSUME NEW T, NEW w \in Seq(T), NEW ps \in Seq(T)
  PROVE  /\ w \o ps \in Seq(T) /\ Len(w) \in Nat
         /\ DOMAIN w \subseteq Nat /\ DOMAIN (w \o ps) \subseteq Nat /\ DOMAIN ps \subseteq Nat
         /\ \A n \in DOMAIN w : /\ n \in DOMAIN (w \o ps) /\ (w \o ps)[n] = w[n]
                                /\ 0 < n /\ n <= Len(w)
         /\ \A n \in DOMAIN ps : /\ Len(w) + n \in DOMAIN (w \o ps)
                                 /\ (w \o ps)[Len(w) + n] = ps[n] /\ 0 < n
         /\ \A n \in DOMAIN (w \o ps) :
              \/ n \in DOMAIN w
              \/ /\ n - Len(w) \in DOMAIN ps /\ (w \o ps)[n] = ps[n - Len(w)]
                 /\ Len(w) < n
OBVIOUS

LEMMA Shrunk ==
  ASSUME NEW T, NEW w \in Seq(T), w # << >>
  PROVE  /\ Tail(w) \in Seq(T) /\ Head(w) = w[1] /\ 1 \in DOMAIN w
         /\ DOMAIN w \subseteq Nat /\ DOMAIN Tail(w) \subseteq Nat
         /\ \A n \in DOMAIN w : 0 < n
         /\ \A n \in DOMAIN Tail(w) : n + 1 \in DOMAIN w /\ Tail(w)[n] = w[n + 1] /\ 0 < n
         /\ \A n \in DOMAIN w : n # 1 => n - 1 \in DOMAIN Tail(w) /\ Tail(w)[n - 1] = w[n]
<1>1. /\ Tail(w) \in Seq(T) /\ Head(w) = w[1] /\ Len(w) \in Nat /\ Len(w) # 0
      /\ Len(Tail(w)) = Len(w) - 1
      /\ \A n \in 1..Len(Tail(w)) : Tail(w)[n] = w[n + 1]
  BY HeadTailProperties, EmptySeq
<1>2. DOMAIN w = 1..Len(w) /\ DOMAIN Tail(w) = 1..Len(Tail(w))
  BY <1>1
<1> QED BY <1>1, <1>2

LEMMA PacketKinds ==
  /\ \A i, t : OpenPacket(i, t).kind = "open" /\ OpenPacket(i, t).id = i /\ OpenPacket(i, t).type = t
  /\ \A i : ClosePacket(i).kind = "close" /\ ClosePacket(i).id = i
  /\ \A i, ok, r : /\ ResultPacket(i, ok, r).kind = "result" /\ ResultPacket(i, ok, r).id = i
                   /\ ResultPacket(i, ok, r).opened = ok /\ ResultPacket(i, ok, r).response = r
  /\ \A i, b : /\ DataPacket(i, b).kind = "data" /\ DataPacket(i, b).id = i
               /\ DataPacket(i, b).body = b
BY DEF OpenPacket, ClosePacket, ResultPacket, DataPacket

-----------------------------------------------------------------------------
\* What keeps a flow.

NoOpens(ps) == \A n \in DOMAIN ps : ps[n].kind # "open"
Closes(ps, j) == \E n \in DOMAIN ps : ps[n] = ClosePacket(j)
OpensOf(R, w, j) == \E k \in Nat, u \in Types : Opening(R, w, k, j, u)

\* The opener writes packets that open nothing; what it drops is closed.
LEMMA FlowWrite ==
  ASSUME NEW O, NEW P, NEW R, NEW w \in Seq(Packet), NEW ps \in Seq(Packet),
         NEW up \in BOOLEAN, NEW vp \in BOOLEAN,
         Flow(O, R, w, up), NoOpens(ps),
         \A j \in Ids, u \in Types : Match(O[j], u, up) =>
           Match(P[j], u, vp) \/ Closes(ps, j) \/ ~OpensOf(R, w, j)
  PROVE  Flow(P, R, w \o ps, vp)
<1> DEFINE x == w \o ps
<1>0. /\ x \in Seq(Packet) /\ Len(w) \in Nat
      /\ DOMAIN w \subseteq Nat /\ DOMAIN x \subseteq Nat /\ DOMAIN ps \subseteq Nat
      /\ \A n \in DOMAIN w : n \in DOMAIN x /\ x[n] = w[n] /\ 0 < n /\ n <= Len(w)
      /\ \A n \in DOMAIN ps : Len(w) + n \in DOMAIN x /\ x[Len(w) + n] = ps[n] /\ 0 < n
      /\ \A n \in DOMAIN x : \/ n \in DOMAIN w
                             \/ /\ n - Len(w) \in DOMAIN ps /\ x[n] = ps[n - Len(w)]
                                /\ Len(w) < n
  OBVIOUS
<1> HIDE DEF x
<1>1. \A n \in DOMAIN x : x[n].kind = "open" => n \in DOMAIN w /\ x[n] = w[n]
  BY <1>0 DEF NoOpens
<1>2. \A k, j, u : Opening(R, x, k, j, u) => Opening(R, w, k, j, u) /\ (k = 0 \/ k \in DOMAIN w)
  BY <1>1, PacketKinds DEF Opening
<1>3. Follows(P, R, x, vp)
  <2> SUFFICES ASSUME NEW k \in Nat, NEW j \in Ids, NEW u \in Types, Opening(R, x, k, j, u)
               PROVE  ClosedAfter(x, j, k) \/ Match(P[j], u, vp)
    BY DEF Follows
  <2>1. Opening(R, w, k, j, u) /\ (k = 0 \/ k \in DOMAIN w)
    BY <1>2
  <2>2. ClosedAfter(w, j, k) \/ Match(O[j], u, up)
    BY <2>1 DEF Flow, Follows
  <2>3. ClosedAfter(w, j, k) => ClosedAfter(x, j, k)
    BY <1>0 DEF ClosedAfter
  <2>4. OpensOf(R, w, j)
    BY <2>1 DEF OpensOf
  <2>5. Closes(ps, j) => ClosedAfter(x, j, k)
    <3> SUFFICES ASSUME NEW n \in DOMAIN ps, ps[n] = ClosePacket(j)
                 PROVE  ClosedAfter(x, j, k)
      BY DEF Closes
    <3>1. k < Len(w) + n
      BY <2>1, <1>0
    <3> QED BY <1>0, <3>1 DEF ClosedAfter
  <2> QED BY <2>2, <2>3, <2>4, <2>5
<1>4. Orderly(R, x)
  <2> SUFFICES ASSUME NEW n \in DOMAIN x, NEW i \in Ids, NEW t \in Types, x[n] = OpenPacket(i, t),
                      NEW k \in Nat, NEW j \in Ids, NEW u \in Types,
                      k < n, Opening(R, x, k, j, u), j = i \/ u = t
               PROVE  ClosedBetween(x, j, k, n)
    BY DEF Orderly
  <2>1. n \in DOMAIN w /\ w[n] = OpenPacket(i, t)
    BY <1>1, PacketKinds
  <2>2. ClosedBetween(w, j, k, n)
    BY <1>2, <2>1 DEF Flow, Orderly
  <2> QED BY <1>0, <2>2 DEF ClosedBetween
<1> QED BY <1>3, <1>4 DEF Flow, x

\* The opener opens a channel of an identifier and a type it does not use.
LEMMA FlowOpen ==
  ASSUME NEW O, NEW P, NEW R, NEW w \in Seq(Packet), NEW i \in Ids, NEW t \in Types,
         OpenPacket(i, t) \in Packet,
         Flow(O, R, w, TRUE), O[i] = NoChannel,
         \A j \in Ids : ~(O[j].dir = "out" /\ O[j].type = t),
         P[i].dir = "out" /\ P[i].type = t,
         \A j \in Ids : j # i => P[j] = O[j]
  PROVE  Flow(P, R, w \o <<OpenPacket(i, t)>>, TRUE)
<1> DEFINE ps == <<OpenPacket(i, t)>>
           x == w \o ps
           z == Len(w) + 1
<1>0. /\ x \in Seq(Packet) /\ Len(w) \in Nat
      /\ DOMAIN w \subseteq Nat /\ DOMAIN x \subseteq Nat
      /\ \A n \in DOMAIN w : n \in DOMAIN x /\ x[n] = w[n] /\ 0 < n /\ n <= Len(w)
      /\ z \in DOMAIN x /\ x[z] = OpenPacket(i, t)
      /\ \A n \in DOMAIN x : n \in DOMAIN w \/ n = z
  <2>1. ps \in Seq(Packet) /\ ps # << >> /\ DOMAIN ps = {1} /\ ps[1] = OpenPacket(i, t)
    OBVIOUS
  <2> HIDE DEF ps
  <2> QED BY <2>1, Grown
<1> HIDE DEF x, ps
<1>1. \A k, j, u : Opening(R, x, k, j, u) =>
        \/ Opening(R, w, k, j, u) /\ (k = 0 \/ k \in DOMAIN w)
        \/ k = z /\ j = i /\ u = t
  <2> SUFFICES ASSUME NEW k, NEW j, NEW u, Opening(R, x, k, j, u), k # z
               PROVE  Opening(R, w, k, j, u) /\ (k = 0 \/ k \in DOMAIN w)
    BY <1>0, PacketKinds DEF Opening
  <2> QED BY <1>0 DEF Opening
<1>2. \A k \in Nat, j \in Ids, u \in Types : Opening(R, w, k, j, u) =>
        ClosedAfter(w, j, k) \/ (O[j].dir = "out" /\ O[j].type = u)
  BY DEF Flow, Follows, Match
<1>3. Follows(P, R, x, TRUE)
  <2> SUFFICES ASSUME NEW k \in Nat, NEW j \in Ids, NEW u \in Types, Opening(R, x, k, j, u)
               PROVE  ClosedAfter(x, j, k) \/ (P[j].dir = "out" /\ P[j].type = u)
    BY DEF Follows, Match
  <2>1. CASE k = z /\ j = i /\ u = t
    BY <2>1
  <2>2. CASE Opening(R, w, k, j, u)
    <3>1. CASE ClosedAfter(w, j, k)
      BY <1>0, <3>1 DEF ClosedAfter
    <3>2. CASE O[j].dir = "out" /\ O[j].type = u
      BY <3>2 DEF NoChannel
    <3> QED BY <1>2, <2>2, <3>1, <3>2
  <2> QED BY <1>1, <2>1, <2>2
<1>4. Orderly(R, x)
  <2> SUFFICES ASSUME NEW n \in DOMAIN x, NEW a \in Ids, NEW b \in Types, x[n] = OpenPacket(a, b),
                      NEW k \in Nat, NEW j \in Ids, NEW u \in Types,
                      k < n, Opening(R, x, k, j, u), j = a \/ u = b
               PROVE  ClosedBetween(x, j, k, n)
    BY DEF Orderly
  <2>0. Opening(R, w, k, j, u) /\ (k = 0 \/ k \in DOMAIN w)
    <3>1. n <= z
      BY <1>0
    <3> QED BY <1>0, <1>1, <3>1
  <2>1. CASE n \in DOMAIN w
    <3>1. ClosedBetween(w, j, k, n)
      BY <1>0, <2>0, <2>1 DEF Flow, Orderly
    <3> QED BY <1>0, <3>1 DEF ClosedBetween
  <2>2. CASE n = z
    <3>1. a = i /\ b = t
      BY <1>0, <2>2, PacketKinds
    <3>2. ~(O[j].dir = "out" /\ O[j].type = u)
      BY <3>1 DEF NoChannel
    <3>3. ClosedAfter(w, j, k)
      BY <1>2, <2>0, <3>2
    <3> QED BY <1>0, <2>2, <3>3 DEF ClosedAfter, ClosedBetween
  <2> QED BY <1>0, <2>1, <2>2
<1> QED BY <1>3, <1>4 DEF Flow, x, ps

\* The reader takes a packet from the wire.
LEMMA FlowRead ==
  ASSUME NEW O, NEW R, NEW Q, NEW w \in Seq(Packet), w # << >>,
         NEW up \in BOOLEAN, Flow(O, R, w, up),
         \A j \in Ids, u \in Types : InTable(Q[j], u) =>
           \/ InTable(R[j], u) /\ Head(w) # ClosePacket(j)
           \/ Head(w) = OpenPacket(j, u)
  PROVE  Flow(O, Q, Tail(w), up)
<1> DEFINE x == Tail(w)
<1>0. /\ x \in Seq(Packet) /\ Head(w) = w[1] /\ 1 \in DOMAIN w
      /\ DOMAIN w \subseteq Nat /\ DOMAIN x \subseteq Nat
      /\ \A n \in DOMAIN w : 0 < n
      /\ \A n \in DOMAIN x : n + 1 \in DOMAIN w /\ x[n] = w[n + 1] /\ 0 < n
      /\ \A n \in DOMAIN w : n # 1 => n - 1 \in DOMAIN x /\ x[n - 1] = w[n]
  BY Shrunk
<1> HIDE DEF x
<1>1. ASSUME NEW k \in Nat, NEW j \in Ids, NEW u \in Types, Opening(Q, x, k, j, u)
      PROVE  \/ k = 0 /\ Opening(R, w, 0, j, u) /\ Head(w) # ClosePacket(j)
             \/ Opening(R, w, k + 1, j, u)
  <2>1. CASE k = 0 /\ InTable(Q[j], u)
    BY <1>0, <2>1 DEF Opening
  <2>2. CASE k \in DOMAIN x /\ x[k] = OpenPacket(j, u)
    BY <1>0, <2>2 DEF Opening
  <2> QED BY <1>1, <2>1, <2>2 DEF Opening
<1>2. ASSUME NEW k \in Nat, NEW j \in Ids, k = 0 /\ Head(w) # ClosePacket(j)
      PROVE  /\ ClosedAfter(w, j, 0) => ClosedAfter(x, j, k)
             /\ \A n \in DOMAIN x : ClosedBetween(w, j, 0, n + 1) => ClosedBetween(x, j, k, n)
  <2>1. \A m \in DOMAIN w : w[m] = ClosePacket(j) => m # 1
    BY <1>0, <1>2
  <2>2. \A m \in DOMAIN w : w[m] = ClosePacket(j) => m - 1 \in DOMAIN x /\ x[m - 1] = ClosePacket(j) /\ k < m - 1
    BY <1>0, <1>2, <2>1
  <2>3. \A n \in DOMAIN x, m \in DOMAIN w : m < n + 1 => m - 1 < n
    BY <1>0
  <2> QED BY <2>2, <2>3 DEF ClosedAfter, ClosedBetween
<1>3. ASSUME NEW k \in Nat, NEW j \in Ids
      PROVE  /\ ClosedAfter(w, j, k + 1) => ClosedAfter(x, j, k)
             /\ \A n \in DOMAIN x : ClosedBetween(w, j, k + 1, n + 1) => ClosedBetween(x, j, k, n)
  <2>1. \A m \in DOMAIN w : k + 1 < m => m # 1 /\ k < m - 1
    BY <1>0
  <2>2. \A m \in DOMAIN w : k + 1 < m => m - 1 \in DOMAIN x /\ x[m - 1] = w[m] /\ k < m - 1
    BY <1>0, <2>1
  <2>3. \A n \in DOMAIN x, m \in DOMAIN w : m < n + 1 => m - 1 < n
    BY <1>0
  <2> QED BY <2>2, <2>3 DEF ClosedAfter, ClosedBetween
<1>4. Follows(O, Q, x, up)
  <2> SUFFICES ASSUME NEW k \in Nat, NEW j \in Ids, NEW u \in Types, Opening(Q, x, k, j, u)
               PROVE  ClosedAfter(x, j, k) \/ Match(O[j], u, up)
    BY DEF Follows
  <2>1. CASE k = 0 /\ Opening(R, w, 0, j, u) /\ Head(w) # ClosePacket(j)
    <3>1. ClosedAfter(w, j, 0) \/ Match(O[j], u, up)
      BY <2>1 DEF Flow, Follows
    <3> QED BY <1>2, <2>1, <3>1
  <2>2. CASE Opening(R, w, k + 1, j, u)
    <3>1. ClosedAfter(w, j, k + 1) \/ Match(O[j], u, up)
      BY <2>2 DEF Flow, Follows
    <3> QED BY <1>3, <3>1
  <2> QED BY <1>1, <2>1, <2>2
<1>5. Orderly(Q, x)
  <2> SUFFICES ASSUME NEW n \in DOMAIN x, NEW i \in Ids, NEW t \in Types, x[n] = OpenPacket(i, t),
                      NEW k \in Nat, NEW j \in Ids, NEW u \in Types,
                      k < n, Opening(Q, x, k, j, u), j = i \/ u = t
               PROVE  ClosedBetween(x, j, k, n)
    BY DEF Orderly
  <2>0. /\ n + 1 \in DOMAIN w /\ w[n + 1] = OpenPacket(i, t) /\ 0 < n + 1 /\ k + 1 < n + 1
        /\ k + 1 \in Nat /\ n + 1 \in Nat
    BY <1>0
  <2>1. CASE k = 0 /\ Opening(R, w, 0, j, u) /\ Head(w) # ClosePacket(j)
    <3>1. ClosedBetween(w, j, 0, n + 1)
      BY <2>0, <2>1 DEF Flow, Orderly
    <3> QED BY <1>2, <2>1, <3>1
  <2>2. CASE Opening(R, w, k + 1, j, u)
    <3>1. ClosedBetween(w, j, k + 1, n + 1)
      BY <2>0, <2>2 DEF Flow, Orderly
    <3> QED BY <1>3, <3>1
  <2> QED BY <1>1, <2>1, <2>2
<1> QED BY <1>4, <1>5 DEF Flow, x

\* The reader drops channels without reading.
LEMMA FlowIn ==
  ASSUME NEW O, NEW R, NEW Q, NEW w \in Seq(Packet), NEW up \in BOOLEAN, Flow(O, R, w, up),
         \A j \in Ids, u \in Types : InTable(Q[j], u) => InTable(R[j], u)
  PROVE  Flow(O, Q, w, up)
<1>1. \A k \in Nat, j \in Ids, u \in Types : Opening(Q, w, k, j, u) => Opening(R, w, k, j, u)
  BY DEF Opening
<1>2. Follows(O, Q, w, up)
  BY <1>1 DEF Flow, Follows
<1>3. Orderly(Q, w)
  BY <1>1 DEF Flow, Orderly
<1> QED BY <1>2, <1>3 DEF Flow

\* A reader that has nothing.
LEMMA FlowEmpty ==
  ASSUME NEW O, NEW R, NEW up, \A j \in Ids : R[j].dir # "in"
  PROVE  Flow(O, R, << >>, up)
BY DEF Flow, Follows, Orderly, Opening, InTable


-----------------------------------------------------------------------------
\* What keeps a mirror.

Rest(v, rd) == IF rd THEN Tail(v) ELSE v

LEMMA Unread ==
  ASSUME NEW T, NEW v \in Seq(T), NEW rd \in BOOLEAN, rd => v # << >>
  PROVE  /\ Rest(v, rd) \in Seq(T)
         /\ rd => 1 \in DOMAIN v /\ Head(v) = v[1]
         /\ \A m \in DOMAIN v : (rd /\ v[m] = Head(v)) \/ \E n \in DOMAIN Rest(v, rd) : Rest(v, rd)[n] = v[m]
         /\ \A n \in DOMAIN Rest(v, rd) : \E m \in DOMAIN v :
              /\ Rest(v, rd)[n] = v[m]
              /\ \A j \in Ids : ClosedAfter(v, j, m) => ClosedAfter(Rest(v, rd), j, n)
<1>1. CASE ~rd
  BY <1>1 DEF Rest
<1>2. CASE rd
  <2> DEFINE x == Tail(v)
  <2>1. Rest(v, rd) = x
    BY <1>2 DEF Rest
  <2>2. /\ x \in Seq(T) /\ Head(v) = v[1] /\ 1 \in DOMAIN v
        /\ DOMAIN v \subseteq Nat /\ DOMAIN x \subseteq Nat
        /\ \A n \in DOMAIN x : n + 1 \in DOMAIN v /\ x[n] = v[n + 1] /\ 0 < n
        /\ \A n \in DOMAIN v : n # 1 => n - 1 \in DOMAIN x /\ x[n - 1] = v[n]
    BY <1>2, Shrunk
  <2> HIDE DEF x
  <2>3. \A m \in DOMAIN v : v[m] = Head(v) \/ \E n \in DOMAIN x : x[n] = v[m]
    BY <2>2
  <2>4. ASSUME NEW n \in DOMAIN x, NEW j \in Ids, ClosedAfter(v, j, n + 1)
        PROVE  ClosedAfter(x, j, n)
    <3>1. PICK m \in DOMAIN v : n + 1 < m /\ v[m] = ClosePacket(j)
      BY <2>4 DEF ClosedAfter
    <3>2. m # 1 /\ n < m - 1
      BY <2>2, <3>1
    <3> QED BY <2>2, <3>1, <3>2 DEF ClosedAfter
  <2>5. \A n \in DOMAIN x : \E m \in DOMAIN v :
          /\ x[n] = v[m]
          /\ \A j \in Ids : ClosedAfter(v, j, m) => ClosedAfter(x, j, n)
    BY <2>2, <2>4
  <2> QED BY <1>2, <2>1, <2>2, <2>3, <2>5
<1> QED BY <1>1, <1>2

\* The opener takes a packet from its wire and writes some.
LEMMA MirrorOpener ==
  ASSUME NEW O, NEW P, NEW R, NEW w \in Seq(Packet), NEW ps \in Seq(Packet),
         NEW v \in Seq(Packet), NEW rd \in BOOLEAN, rd => v # << >>,
         \A n \in DOMAIN v : v[n].kind = "result" => v[n].id \in Ids,
         Mirror(O, R, w, v),
         \A j \in Ids : P[j].dir = "out" =>
           \/ /\ O[j].dir = "out" /\ O[j].type = P[j].type
              /\ P[j].opened => O[j].opened \/ (rd /\ Head(v).kind = "result" /\ Head(v).id = j)
              /\ ~(rd /\ Head(v) = ClosePacket(j))
           \/ ~P[j].opened /\ \E n \in DOMAIN ps : ps[n] = OpenPacket(j, P[j].type)
  PROVE  Mirror(P, R, w \o ps, Rest(v, rd))
<1> DEFINE x == Rest(v, rd)
           y == w \o ps
<1>0. /\ rd => 1 \in DOMAIN v /\ Head(v) = v[1]
      /\ \A m \in DOMAIN v : (rd /\ v[m] = Head(v)) \/ \E n \in DOMAIN x : x[n] = v[m]
      /\ \A n \in DOMAIN x : \E m \in DOMAIN v :
           /\ x[n] = v[m]
           /\ \A j \in Ids : ClosedAfter(v, j, m) => ClosedAfter(x, j, n)
  BY Unread
<1>1. /\ \A n \in DOMAIN w : n \in DOMAIN y /\ y[n] = w[n]
      /\ \A n \in DOMAIN ps : Len(w) + n \in DOMAIN y /\ y[Len(w) + n] = ps[n]
  BY Grown
<1> HIDE DEF x, y
<1>2. ASSUME NEW j \in Ids, P[j].dir = "out"
      PROVE  Backed(P, R, y, x, j)
  <2>1. CASE ~P[j].opened /\ \E n \in DOMAIN ps : ps[n] = OpenPacket(j, P[j].type)
    BY <1>1, <2>1 DEF Backed
  <2>2. CASE /\ O[j].dir = "out" /\ O[j].type = P[j].type
             /\ P[j].opened => O[j].opened \/ (rd /\ Head(v).kind = "result" /\ Head(v).id = j)
             /\ ~(rd /\ Head(v) = ClosePacket(j))
    <3>1. Backed(O, R, w, v, j)
      BY <2>2 DEF Mirror
    <3>2. CASE R[j].dir = "in"
      BY <3>2 DEF Backed
    <3>3. (\E n \in DOMAIN v : v[n] = ClosePacket(j)) => \E n \in DOMAIN x : x[n] = ClosePacket(j)
      BY <1>0, <2>2
    <3>4. CASE \E n \in DOMAIN v : v[n] = ClosePacket(j)
      BY <3>3, <3>4 DEF Backed
    <3>5. CASE ~O[j].opened /\ \E n \in DOMAIN w : w[n] = OpenPacket(j, O[j].type)
      <4>1. CASE ~P[j].opened
        BY <1>1, <2>2, <3>5, <4>1 DEF Backed
      <4>2. CASE P[j].opened
        <5>1. rd /\ Head(v).kind = "result" /\ Head(v).id = j
          BY <2>2, <3>5, <4>2
        <5>2. Answered(R, v, 1) /\ v[1].id = j
          BY <1>0, <5>1 DEF Mirror
        <5> QED BY <3>3, <5>2 DEF Answered, ClosedAfter, Backed
      <4> QED BY <4>1, <4>2
    <3> QED BY <3>1, <3>2, <3>4, <3>5 DEF Backed
  <2> QED BY <1>2, <2>1, <2>2
<1>3. ASSUME NEW n \in DOMAIN x, x[n].kind = "result"
      PROVE  Answered(R, x, n)
  <2>1. PICK m \in DOMAIN v : /\ x[n] = v[m]
                              /\ \A j \in Ids : ClosedAfter(v, j, m) => ClosedAfter(x, j, n)
    BY <1>0
  <2>2. Answered(R, v, m) /\ v[m].id \in Ids
    BY <1>3, <2>1 DEF Mirror
  <2> QED BY <2>1, <2>2 DEF Answered
<1> QED BY <1>2, <1>3 DEF Mirror, x, y

\* The reader takes a packet from its wire and writes some.
LEMMA MirrorReader ==
  ASSUME NEW O, NEW R, NEW Q, NEW w \in Seq(Packet), NEW rd \in BOOLEAN, rd => w # << >>,
         NEW v \in Seq(Packet), NEW ps \in Seq(Packet),
         \A n \in DOMAIN v : v[n].kind = "result" => v[n].id \in Ids,
         Mirror(O, R, w, v),
         \A j \in Ids : R[j].dir = "in" => Q[j].dir = "in" \/ Closes(ps, j),
         \A j \in Ids, t \in Types : rd /\ Head(w) = OpenPacket(j, t) => Q[j].dir = "in",
         \A j \in Ids : O[j].dir = "out" => O[j].type \in Types,
         \A n \in DOMAIN ps : ps[n].kind = "result" => Q[ps[n].id].dir = "in"
  PROVE  Mirror(O, Q, Rest(w, rd), v \o ps)
<1> DEFINE x == Rest(w, rd)
           y == v \o ps
<1>0. \A m \in DOMAIN w : (rd /\ w[m] = Head(w)) \/ \E n \in DOMAIN x : x[n] = w[m]
  BY Unread
<1>1. /\ Len(v) \in Nat /\ DOMAIN v \subseteq Nat /\ DOMAIN ps \subseteq Nat
      /\ \A n \in DOMAIN v : n \in DOMAIN y /\ y[n] = v[n] /\ n <= Len(v)
      /\ \A n \in DOMAIN ps : Len(v) + n \in DOMAIN y /\ y[Len(v) + n] = ps[n] /\ 0 < n
      /\ \A n \in DOMAIN y :
              \/ n \in DOMAIN v
              \/ n - Len(v) \in DOMAIN ps /\ y[n] = ps[n - Len(v)]
  BY Grown, SMTT(60)
<1> HIDE DEF x, y
<1>2. \A j \in Ids : Closes(ps, j) => \E n \in DOMAIN y : y[n] = ClosePacket(j)
  BY <1>1 DEF Closes
<1>3. ASSUME NEW j \in Ids, NEW n \in DOMAIN v, Closes(ps, j)
      PROVE  ClosedAfter(y, j, n)
  <2>1. PICK m \in DOMAIN ps : ps[m] = ClosePacket(j)
    BY <1>3 DEF Closes
  <2>2. n < Len(v) + m
    BY <1>1
  <2> QED BY <1>1, <2>1, <2>2 DEF ClosedAfter
<1>4. ASSUME NEW j \in Ids, O[j].dir = "out"
      PROVE  Backed(O, Q, x, y, j)
  <2>1. Backed(O, R, w, v, j)
    BY <1>4 DEF Mirror
  <2>2. CASE R[j].dir = "in"
    BY <1>2, <2>2 DEF Backed
  <2>3. CASE \E n \in DOMAIN v : v[n] = ClosePacket(j)
    BY <1>1, <2>3 DEF Backed
  <2>4. CASE ~O[j].opened /\ \E n \in DOMAIN w : w[n] = OpenPacket(j, O[j].type)
    BY <1>0, <1>4, <2>4 DEF Backed
  <2> QED BY <2>1, <2>2, <2>3, <2>4 DEF Backed
<1>5. ASSUME NEW n \in DOMAIN y, y[n].kind = "result"
      PROVE  Answered(Q, y, n)
  <2>1. CASE n \in DOMAIN v
    <3>1. v[n].kind = "result" /\ y[n] = v[n]
      BY <1>1, <1>5, <2>1
    <3>2. Answered(R, v, n) /\ v[n].id \in Ids
      BY <2>1, <3>1 DEF Mirror
    <3>3. CASE R[v[n].id].dir = "in"
      BY <1>3, <2>1, <3>1, <3>2, <3>3 DEF Answered
    <3>4. CASE ClosedAfter(v, v[n].id, n)
      BY <1>1, <3>1, <3>4 DEF Answered, ClosedAfter
    <3> QED BY <3>2, <3>3, <3>4 DEF Answered
  <2>2. CASE n - Len(v) \in DOMAIN ps /\ y[n] = ps[n - Len(v)]
    BY <1>5, <2>2 DEF Answered
  <2> QED BY <1>1, <2>1, <2>2
<1> QED BY <1>4, <1>5 DEF Mirror, x, y

LEMMA MirrorEmpty ==
  ASSUME NEW O, NEW R, NEW w, \A j \in Ids : O[j].dir # "out"
  PROVE  Mirror(O, R, w, << >>)
BY DEF Mirror


-----------------------------------------------------------------------------
\* A step of side s: it may take a packet (rd), writes ps to its peer, and
\* changes entry i of its table to c.

Acts(s, rd, ps, i, c) ==
  /\ sock[s] # "closed" /\ (rd => wire[s] # << >>)
  /\ wire' = [wire EXCEPT ![s] = Rest(wire[s], rd), ![Peer(s)] = @ \o Written(s, ps)]
  /\ chan' = [chan EXCEPT ![s][i] = c]
  /\ sock' = sock \/ (Up(s) /\ sock' = [sock EXCEPT ![s] = "closing"])

\* The shapes of such a step, by what happens to the entry.
Plain(ps) == \A n \in DOMAIN ps : ps[n].kind \notin {"open", "result"}
Takes(s, rd, p) == rd /\ Head(wire[s]) = p
Stays(s, rd, ps, i, c) ==
  /\ c = chan[s][i] /\ Plain(ps)
  /\ \A j \in Ids : Takes(s, rd, ClosePacket(j)) => chan[s][j] = NoChannel
  /\ \A j \in Ids, t \in Types : Takes(s, rd, OpenPacket(j, t)) => ~Up(s)
IsOpened(s, rd, ps, i, c) ==
  /\ chan[s][i].dir = "out" /\ c = [chan[s][i] EXCEPT !.opened = TRUE] /\ Plain(ps)
  /\ rd /\ Head(wire[s]).kind = "result" /\ Head(wire[s]).id = i
Drops(s, rd, ps, i, c) ==
  /\ c = NoChannel /\ Plain(ps)
  /\ Closes(ps, i) \/ (chan[s][i].dir # "out" /\ ~Up(s)')
  /\ \A j \in Ids : Takes(s, rd, ClosePacket(j)) => j = i
  /\ \A j \in Ids, t \in Types : ~Takes(s, rd, OpenPacket(j, t))
Admits(s, rd, ps, i, c) ==
  \E t \in Types, r \in Responses \cup {"none"} :
    /\ Takes(s, rd, OpenPacket(i, t)) /\ chan[s][i] = NoChannel
    /\ c = [type |-> t, dir |-> "in", opened |-> TRUE]
    /\ ps = <<ResultPacket(i, TRUE, r)>>
Opens(s, rd, ps, i, c) ==
  \E t \in Types :
    /\ c = [type |-> t, dir |-> "out", opened |-> FALSE]
    /\ chan[s][i] = NoChannel /\ Up(s) /\ sock' = sock
    /\ \A j \in Ids : ~(chan[s][j].dir = "out" /\ chan[s][j].type = t)
    /\ ps = <<OpenPacket(i, t)>>
    /\ rd => Head(wire[s]).kind = "version"
    /\ s = C /\ t \in Chats => Known
Shape(s, rd, ps, i, c) ==
  \/ Stays(s, rd, ps, i, c) \/ IsOpened(s, rd, ps, i, c) \/ Drops(s, rd, ps, i, c)
  \/ Admits(s, rd, ps, i, c) \/ Opens(s, rd, ps, i, c)

Writes(s, ps, k) == \A n \in DOMAIN ps : Fit(Peer(s), ps[n], k)

LEMMA ActFacts ==
  ASSUME IInv, NEW s \in Side, NEW rd \in BOOLEAN, NEW ps \in Seq(Packet), NEW i \in Ids, NEW c,
         Acts(s, rd, ps, i, c)
  PROVE  /\ Peer(s) \in Side /\ Peer(s) # s /\ Peer(Peer(s)) = s /\ Side = {s, Peer(s)}
         /\ wire[s] \in Seq(Packet) /\ wire[Peer(s)] \in Seq(Packet)
         /\ wire'[s] = Rest(wire[s], rd) /\ wire'[Peer(s)] = wire[Peer(s)] \o Written(s, ps)
         /\ Written(s, ps) = IF Up(s) /\ sock[Peer(s)] # "closed" THEN ps ELSE << >>
         /\ Written(s, ps) \in Seq(Packet)
         /\ \A j \in Ids : chan'[s][j] = IF j = i THEN c ELSE chan[s][j]
         /\ chan'[Peer(s)] = chan[Peer(s)]
         /\ sock'[Peer(s)] = sock[Peer(s)] /\ Up(Peer(s))' = Up(Peer(s))
         /\ Up(s)' => Up(s)
         /\ Up(s) \in BOOLEAN /\ Up(s)' \in BOOLEAN /\ Up(Peer(s)) \in BOOLEAN
<1>1. Peer(s) \in Side /\ Peer(s) # s /\ Peer(Peer(s)) = s /\ Side = {s, Peer(s)}
  BY DEF Side, Peer
<1>2. /\ wire \in [Side -> Seq(Packet)] /\ chan \in [Side -> [Ids -> Channel \cup {NoChannel}]]
      /\ sock \in [Side -> {"connected", "closing", "closed"}]
  BY DEF IInv, WiresOK, TablesOK, PlainOK
<1>3. Written(s, ps) = (IF Up(s) /\ sock[Peer(s)] # "closed" THEN ps ELSE << >>) /\ Written(s, ps) \in Seq(Packet)
  BY EmptySeq DEF Written, Up
<1>4. /\ wire'[s] = Rest(wire[s], rd) /\ wire'[Peer(s)] = wire[Peer(s)] \o Written(s, ps)
  BY <1>1, <1>2 DEF Acts
<1>5. /\ \A j \in Ids : chan'[s][j] = IF j = i THEN c ELSE chan[s][j]
      /\ chan'[Peer(s)] = chan[Peer(s)]
  BY <1>1, <1>2 DEF Acts
<1>6. sock'[Peer(s)] = sock[Peer(s)] /\ (sock'[s] = sock[s] \/ (sock[s] = "connected" /\ sock'[s] = "closing"))
  BY <1>1, <1>2 DEF Acts, Up
<1>7. Up(Peer(s))' = Up(Peer(s)) /\ (Up(s)' => Up(s)) /\ Up(s) \in BOOLEAN /\ Up(s)' \in BOOLEAN /\ Up(Peer(s)) \in BOOLEAN
  BY <1>6 DEF Up
<1> QED BY <1>1, <1>2, <1>3, <1>4, <1>5, <1>6, <1>7

\* An identifier that the peer may open was not opened by s.
LEMMA NotOurs ==
  ASSUME IInv, PacketsFit, NEW s \in Side, NEW i \in Ids, OwnParity(Peer(s), i)
  PROVE  ~OpensOf(chan[Peer(s)], wire[Peer(s)], i)
<1>1. Peer(s) \in Side /\ Peer(Peer(s)) = s
  BY DEF Side, Peer
<1>2. ~OwnParity(s, i)
  BY DEF OwnParity, Peer, Side
<1>3. SUFFICES ASSUME NEW k \in Nat, NEW u \in Types, Opening(chan[Peer(s)], wire[Peer(s)], k, i, u)
               PROVE  FALSE
  BY DEF OpensOf
<1>4. CASE InTable(chan[Peer(s)][i], u)
  <2>1. chan[Peer(s)][i] # NoChannel
    BY <1>4 DEF InTable, NoChannel
  <2>2. chan[Peer(s)][i] \in ChannelOf(Peer(s), i)
    BY <1>1, <2>1, ChannelFields DEF IInv
  <2> QED BY <1>4, <2>2 DEF InTable, ChannelOf
<1>5. CASE k \in DOMAIN wire[Peer(s)] /\ wire[Peer(s)][k] = OpenPacket(i, u)
  <2>1. Fit(Peer(s), OpenPacket(i, u), Known)
    BY <1>1, <1>5 DEF PacketsFit
  <2>2. OwnParity(s, i)
    BY <1>1, <2>1, PacketKinds DEF Fit
  <2> QED BY <1>2, <2>2
<1> QED BY <1>3, <1>4, <1>5 DEF Opening

LEMMA HeadFits ==
  ASSUME IInv, PacketsFit, NEW s \in Side, wire[s] # << >>
  PROVE  Fit(s, Head(wire[s]), Known) /\ Head(wire[s]) \in Packet
<1>1. wire[s] \in Seq(Packet)
  BY DEF IInv, WiresOK
<1>2. Head(wire[s]) = wire[s][1] /\ 1 \in DOMAIN wire[s]
  BY <1>1, Shrunk
<1>3. Head(wire[s]) \in Packet
  BY <1>1, HeadTailProperties
<1> QED BY <1>2, <1>3 DEF PacketsFit

LEMMA ResultIds ==
  ASSUME IInv, NEW s \in Side
  PROVE  \A n \in DOMAIN wire[s] : wire[s][n].kind = "result" => wire[s][n].id \in Ids
<1>1. wire[s] \in Seq(Packet)
  BY DEF IInv, WiresOK
<1>2. \A n \in DOMAIN wire[s] : wire[s][n] \in Packet
  BY <1>1
<1> QED BY <1>2 DEF Packet

LEMMA SentFlow ==
  ASSUME IInv, PacketsFit, ClosedOK, FlowsOK,
         NEW s \in Side, NEW rd \in BOOLEAN, NEW ps \in Seq(Packet), NEW i \in Ids, NEW c,
         Acts(s, rd, ps, i, c), Shape(s, rd, ps, i, c)
  PROVE  Flow(chan'[s], chan'[Peer(s)], wire'[Peer(s)], Up(s)')
<1> DEFINE q == Peer(s)
<1>1. /\ q \in Side /\ q # s /\ Peer(q) = s
      /\ wire[s] \in Seq(Packet) /\ wire[q] \in Seq(Packet)
      /\ wire'[q] = wire[q] \o Written(s, ps)
      /\ Written(s, ps) = IF Up(s) /\ sock[q] # "closed" THEN ps ELSE << >>
      /\ Written(s, ps) \in Seq(Packet)
      /\ \A j \in Ids : chan'[s][j] = IF j = i THEN c ELSE chan[s][j]
      /\ chan'[q] = chan[q]
      /\ (Up(s)' => Up(s)) /\ Up(s) \in BOOLEAN /\ Up(s)' \in BOOLEAN
  BY ActFacts
<1>2. Flow(chan[s], chan[q], wire[q], Up(s))
  BY DEF FlowsOK
<1> HIDE DEF q
<1>3. CASE sock[q] = "closed"
  <2>1. chan[q] = NoChannels /\ wire[q] = << >> /\ Written(s, ps) = << >>
    BY <1>1, <1>3 DEF ClosedOK
  <2>2. wire'[q] = << >>
    BY <1>1, <2>1
  <2>3. \A j \in Ids : chan'[q][j].dir # "in"
    BY <1>1, <2>1 DEF NoChannels, NoChannel
  <2> QED BY <2>2, <2>3, FlowEmpty DEF q
<1>4. CASE Opens(s, rd, ps, i, c) /\ sock[q] # "closed"
  <2>1. PICK t \in Types :
            /\ c = [type |-> t, dir |-> "out", opened |-> FALSE]
            /\ chan[s][i] = NoChannel /\ Up(s) /\ sock' = sock
            /\ \A j \in Ids : ~(chan[s][j].dir = "out" /\ chan[s][j].type = t)
            /\ ps = <<OpenPacket(i, t)>>
    BY <1>4 DEF Opens
  <2>2. Up(s)' = TRUE /\ Up(s) = TRUE /\ wire'[q] = wire[q] \o <<OpenPacket(i, t)>>
    BY <1>1, <1>4, <2>1 DEF Up
  <2>3. chan'[s][i].dir = "out" /\ chan'[s][i].type = t /\ \A j \in Ids : j # i => chan'[s][j] = chan[s][j]
    BY <1>1, <2>1
  <2>4. OpenPacket(i, t) \in Packet
    BY DEF OpenPacket, Packet
  <2>5. Flow(chan'[s], chan[q], wire[q] \o <<OpenPacket(i, t)>>, TRUE)
    <3> DEFINE O == chan[s]
               P == chan'[s]
               R == chan[q]
               w == wire[q]
    <3>1. w \in Seq(Packet) /\ Flow(O, R, w, TRUE) /\ O[i] = NoChannel
      BY <1>1, <1>2, <2>1, <2>2
    <3>2. \A j \in Ids : ~(O[j].dir = "out" /\ O[j].type = t)
      BY <2>1
    <3>3. P[i].dir = "out" /\ P[i].type = t /\ \A j \in Ids : j # i => P[j] = O[j]
      BY <2>3
    <3> HIDE DEF O, P, R, w
    <3>4. Flow(P, R, w \o <<OpenPacket(i, t)>>, TRUE)
      BY <2>4, <3>1, <3>2, <3>3, FlowOpen
    <3> QED BY <3>4 DEF O, P, R, w
  <2> QED BY <1>1, <2>2, <2>5 DEF q
<1>5. CASE ~Opens(s, rd, ps, i, c)
  <2>1. NoOpens(ps)
    <3>1. CASE Plain(ps)
      BY <3>1 DEF Plain, NoOpens
    <3>2. CASE Admits(s, rd, ps, i, c)
      <4>1. PICK r : ps = <<ResultPacket(i, TRUE, r)>>
        BY <3>2 DEF Admits
      <4>2. DOMAIN ps = {1} /\ ps[1] = ResultPacket(i, TRUE, r)
        BY <4>1
      <4>3. ResultPacket(i, TRUE, r).kind = "result"
        BY DEF ResultPacket
      <4> QED BY <4>2, <4>3 DEF NoOpens
    <3>3. /\ Stays(s, rd, ps, i, c) => Plain(ps)
          /\ IsOpened(s, rd, ps, i, c) => Plain(ps)
          /\ Drops(s, rd, ps, i, c) => Plain(ps)
      BY DEF Stays, IsOpened, Drops
    <3> QED BY <1>5, <3>1, <3>2, <3>3 DEF Shape
  <2>2. NoOpens(Written(s, ps))
    BY <1>1, <2>1 DEF NoOpens
  <2>3. ASSUME Admits(s, rd, ps, i, c) PROVE ~OpensOf(chan[q], wire[q], i)
    <3>1. PICK t \in Types : rd /\ Head(wire[s]) = OpenPacket(i, t)
      BY <2>3 DEF Admits, Takes
    <3>2. wire[s] # << >>
      BY <3>1 DEF Acts
    <3>3. Fit(s, OpenPacket(i, t), Known)
      BY <3>1, <3>2, HeadFits
    <3>4. OwnParity(Peer(s), i)
      BY <3>3, PacketKinds DEF Fit
    <3> QED BY <3>4, NotOurs DEF q
  <2>4. ASSUME NEW u \in Types, Match(chan[s][i], u, Up(s)), sock[q] # "closed"
        PROVE  Match(c, u, Up(s)') \/ Closes(Written(s, ps), i) \/ ~OpensOf(chan[q], wire[q], i)
    <3>1. CASE Stays(s, rd, ps, i, c)
      BY <1>1, <2>4, <3>1 DEF Stays, Match
    <3>2. CASE IsOpened(s, rd, ps, i, c)
      <4>1. chan[s][i].dir = "out" /\ chan[s][i] # NoChannel
        BY <3>2 DEF IsOpened, NoChannel
      <4>2. chan[s][i] \in Channel
        BY <4>1 DEF IInv, TablesOK
      <4>3. c.dir = chan[s][i].dir /\ c.type = chan[s][i].type
        BY <3>2, <4>2 DEF IsOpened, Channel
      <4> QED BY <2>4, <4>1, <4>3 DEF Match
    <3>3. CASE Drops(s, rd, ps, i, c)
      <4>1. CASE ~Up(s)'
        BY <3>3, <4>1 DEF Drops, Match
      <4>2. CASE Up(s)'
        <5>1. Written(s, ps) = ps /\ Closes(ps, i)
          BY <1>1, <2>4, <3>3, <4>2 DEF Drops
        <5> QED BY <5>1
      <4> QED BY <4>1, <4>2
    <3>4. CASE Admits(s, rd, ps, i, c)
      BY <2>3, <3>4
    <3> QED BY <1>5, <3>1, <3>2, <3>3, <3>4 DEF Shape
  <2>5. ASSUME NEW j \in Ids, NEW u \in Types, j # i, Match(chan[s][j], u, Up(s))
        PROVE  Match(chan'[s][j], u, Up(s)')
    BY <1>1, <2>5 DEF Match
  <2>6. CASE sock[q] # "closed"
    <3>1. \A j \in Ids, u \in Types : Match(chan[s][j], u, Up(s)) =>
            Match(chan'[s][j], u, Up(s)') \/ Closes(Written(s, ps), j) \/ ~OpensOf(chan[q], wire[q], j)
      BY <1>1, <2>4, <2>5, <2>6
    <3> DEFINE O == chan[s]
               P == chan'[s]
               R == chan[q]
               w == wire[q]
               x == Written(s, ps)
               up == Up(s)
               vp == Up(s)'
    <3>2. /\ w \in Seq(Packet) /\ x \in Seq(Packet) /\ up \in BOOLEAN /\ vp \in BOOLEAN
          /\ Flow(O, R, w, up) /\ NoOpens(x)
      BY <1>1, <1>2, <2>2
    <3>3. \A j \in Ids, u \in Types : Match(O[j], u, up) =>
            Match(P[j], u, vp) \/ Closes(x, j) \/ ~OpensOf(R, w, j)
      BY <3>1
    <3> HIDE DEF O, P, R, w, x, up, vp
    <3>4. Flow(P, R, w \o x, vp)
      BY <3>2, <3>3, FlowWrite
    <3>5. Flow(chan'[s], chan[q], wire[q] \o Written(s, ps), Up(s)')
      BY <3>4 DEF O, P, R, w, x, up, vp
    <3> QED BY <1>1, <3>5 DEF q
  <2> QED BY <1>3, <2>6
<1> QED BY <1>3, <1>4, <1>5

LEMMA ReadFlow ==
  ASSUME IInv, FlowsOK,
         NEW s \in Side, NEW rd \in BOOLEAN, NEW ps \in Seq(Packet), NEW i \in Ids, NEW c,
         Acts(s, rd, ps, i, c), Shape(s, rd, ps, i, c)
  PROVE  Flow(chan'[Peer(s)], chan'[s], wire'[s], Up(Peer(s))')
<1> DEFINE q == Peer(s)
<1>1. /\ q \in Side /\ q # s /\ Peer(q) = s
      /\ wire[s] \in Seq(Packet)
      /\ wire'[s] = Rest(wire[s], rd)
      /\ \A j \in Ids : chan'[s][j] = IF j = i THEN c ELSE chan[s][j]
      /\ chan'[q] = chan[q] /\ Up(q) \in BOOLEAN
  <2>1. /\ Peer(s) \in Side /\ Peer(s) # s /\ Peer(Peer(s)) = s /\ Side = {s, Peer(s)}
        /\ wire[s] \in Seq(Packet) /\ wire[Peer(s)] \in Seq(Packet)
        /\ wire'[s] = Rest(wire[s], rd) /\ wire'[Peer(s)] = wire[Peer(s)] \o Written(s, ps)
        /\ Written(s, ps) = IF Up(s) /\ sock[Peer(s)] # "closed" THEN ps ELSE << >>
        /\ Written(s, ps) \in Seq(Packet)
        /\ \A j \in Ids : chan'[s][j] = IF j = i THEN c ELSE chan[s][j]
        /\ chan'[Peer(s)] = chan[Peer(s)]
        /\ sock'[Peer(s)] = sock[Peer(s)] /\ Up(Peer(s))' = Up(Peer(s))
        /\ Up(s)' => Up(s)
        /\ Up(s) \in BOOLEAN /\ Up(s)' \in BOOLEAN /\ Up(Peer(s)) \in BOOLEAN
    BY ActFacts
  <2> QED BY <2>1
<1>6. Up(Peer(s))' = Up(Peer(s))
  BY ActFacts
<1>2. Flow(chan[q], chan[s], wire[s], Up(q))
  BY <1>1 DEF FlowsOK
<1> HIDE DEF q
<1>3. ASSUME NEW j \in Ids, NEW u \in Types, InTable(chan'[s][j], u)
      PROVE  \/ InTable(chan[s][j], u) /\ ~Takes(s, rd, ClosePacket(j))
             \/ Takes(s, rd, OpenPacket(j, u))
  <2>1. CASE Stays(s, rd, ps, i, c)
    BY <1>1, <1>3, <2>1 DEF Stays, InTable, NoChannel
  <2>2. CASE IsOpened(s, rd, ps, i, c)
    <3>1. chan[s][i] # NoChannel /\ chan[s][i] \in Channel \cup {NoChannel}
      BY <2>2 DEF IsOpened, NoChannel, IInv, TablesOK
    <3>2. c.dir = chan[s][i].dir /\ c.type = chan[s][i].type
      BY <2>2, <3>1 DEF IsOpened, Channel
    <3>3. ~Takes(s, rd, ClosePacket(j))
      BY <2>2, PacketKinds DEF IsOpened, Takes
    <3> QED BY <1>1, <1>3, <3>2, <3>3 DEF InTable
  <2>3. CASE Drops(s, rd, ps, i, c)
    BY <1>1, <1>3, <2>3 DEF Drops, InTable, NoChannel
  <2>4. CASE Admits(s, rd, ps, i, c)
    <3>1. PICK t \in Types : /\ Takes(s, rd, OpenPacket(i, t))
                             /\ c = [type |-> t, dir |-> "in", opened |-> TRUE]
      BY <2>4 DEF Admits
    <3>2. ~Takes(s, rd, ClosePacket(j))
      BY <3>1, PacketKinds DEF Takes
    <3> QED BY <1>1, <1>3, <3>1, <3>2 DEF InTable
  <2>5. CASE Opens(s, rd, ps, i, c)
    <3>1. c.dir = "out" /\ (rd => Head(wire[s]).kind = "version")
      BY <2>5 DEF Opens
    <3>2. ~Takes(s, rd, ClosePacket(j))
      BY <3>1, PacketKinds DEF Takes
    <3> QED BY <1>1, <1>3, <3>1, <3>2 DEF InTable
  <2> QED BY <2>1, <2>2, <2>3, <2>4, <2>5 DEF Shape
<1>4. CASE rd
  <2>1. wire[s] # << >> /\ wire'[s] = Tail(wire[s])
    BY <1>1, <1>4 DEF Acts, Rest
  <2>2. \A j \in Ids, u \in Types : InTable(chan'[s][j], u) =>
           \/ InTable(chan[s][j], u) /\ Head(wire[s]) # ClosePacket(j)
           \/ Head(wire[s]) = OpenPacket(j, u)
    BY <1>3, <1>4 DEF Takes
  <2>3. Flow(chan[q], chan'[s], Tail(wire[s]), Up(q))
    BY <1>1, <1>2, <2>1, <2>2, FlowRead
  <2> QED BY <1>1, <1>6, <2>1, <2>3 DEF q
<1>5. CASE ~rd
  <2>1. wire'[s] = wire[s]
    BY <1>1, <1>5 DEF Rest
  <2>2. \A j \in Ids, u \in Types : InTable(chan'[s][j], u) => InTable(chan[s][j], u)
    BY <1>3, <1>5 DEF Takes
  <2>3. Flow(chan[q], chan'[s], wire[s], Up(q))
    BY <1>1, <1>2, <2>2, FlowIn
  <2> QED BY <1>1, <1>6, <2>1, <2>3 DEF q
<1> QED BY <1>4, <1>5


LEMMA SentMirror ==
  ASSUME IInv, MirrorsOK,
         NEW s \in Side, NEW rd \in BOOLEAN, NEW ps \in Seq(Packet), NEW i \in Ids, NEW c,
         Acts(s, rd, ps, i, c), Shape(s, rd, ps, i, c), Up(Peer(s))
  PROVE  Mirror(chan'[s], chan'[Peer(s)], wire'[Peer(s)], wire'[s])
<1> DEFINE q == Peer(s)
           W == Written(s, ps)
<1>1. /\ q \in Side /\ q # s /\ Peer(q) = s
      /\ wire[s] \in Seq(Packet) /\ wire[q] \in Seq(Packet)
      /\ wire'[s] = Rest(wire[s], rd) /\ wire'[q] = wire[q] \o W
      /\ W = IF Up(s) /\ sock[q] # "closed" THEN ps ELSE << >>
      /\ W \in Seq(Packet)
      /\ \A j \in Ids : chan'[s][j] = IF j = i THEN c ELSE chan[s][j]
      /\ chan'[q] = chan[q]
  BY ActFacts
<1>2. Mirror(chan[s], chan[q], wire[q], wire[s]) /\ sock[q] # "closed"
  BY DEF MirrorsOK, Up
<1>3. \A n \in DOMAIN wire[s] : wire[s][n].kind = "result" => wire[s][n].id \in Ids
  BY ResultIds
<1>4. rd => wire[s] # << >>
  BY DEF Acts
<1> HIDE DEF q, W
<1>5. ASSUME NEW j \in Ids, chan'[s][j].dir = "out"
      PROVE  \/ /\ chan[s][j].dir = "out" /\ chan[s][j].type = chan'[s][j].type
                /\ chan'[s][j].opened => chan[s][j].opened \/ (rd /\ Head(wire[s]).kind = "result" /\ Head(wire[s]).id = j)
                /\ ~(rd /\ Head(wire[s]) = ClosePacket(j))
             \/ ~chan'[s][j].opened /\ \E n \in DOMAIN W : W[n] = OpenPacket(j, chan'[s][j].type)
  <2>1. CASE Stays(s, rd, ps, i, c)
    <3>1. chan'[s][j] = chan[s][j]
      BY <1>1, <2>1 DEF Stays
    <3>2. chan[s][j] # NoChannel
      BY <1>5, <3>1 DEF NoChannel
    <3> QED BY <1>5, <2>1, <3>1, <3>2 DEF Stays, Takes
  <2>2. CASE IsOpened(s, rd, ps, i, c)
    <3>1. chan[s][i] # NoChannel /\ chan[s][i] \in Channel \cup {NoChannel}
      BY <2>2 DEF IsOpened, NoChannel, IInv, TablesOK
    <3>2. c.dir = chan[s][i].dir /\ c.type = chan[s][i].type
      BY <2>2, <3>1 DEF IsOpened, Channel
    <3>3. ~(rd /\ Head(wire[s]) = ClosePacket(j))
      BY <2>2, PacketKinds DEF IsOpened
    <3>4. CASE j = i
      BY <1>1, <1>5, <2>2, <3>2, <3>3, <3>4 DEF IsOpened
    <3>5. CASE j # i
      BY <1>1, <1>5, <3>3, <3>5
    <3> QED BY <3>4, <3>5
  <2>3. CASE Drops(s, rd, ps, i, c)
    <3>1. j # i
      BY <1>1, <1>5, <2>3 DEF Drops, NoChannel
    <3> QED BY <1>1, <1>5, <2>3, <3>1 DEF Drops, Takes
  <2>4. CASE Admits(s, rd, ps, i, c)
    <3>1. PICK t \in Types : /\ Takes(s, rd, OpenPacket(i, t))
                             /\ c = [type |-> t, dir |-> "in", opened |-> TRUE]
      BY <2>4 DEF Admits
    <3>2. ~(rd /\ Head(wire[s]) = ClosePacket(j))
      BY <3>1, PacketKinds DEF Takes
    <3>3. j # i
      BY <1>1, <1>5, <3>1
    <3> QED BY <1>1, <1>5, <3>2, <3>3
  <2>5. CASE Opens(s, rd, ps, i, c)
    <3>1. PICK t \in Types : /\ c = [type |-> t, dir |-> "out", opened |-> FALSE]
                             /\ Up(s) /\ ps = <<OpenPacket(i, t)>>
      BY <2>5 DEF Opens
    <3>2. (rd => Head(wire[s]).kind = "version")
      BY <2>5 DEF Opens
    <3>3. ~(rd /\ Head(wire[s]) = ClosePacket(j))
      BY <3>2, PacketKinds
    <3>4. W = <<OpenPacket(i, t)>>
      BY <1>1, <1>2, <3>1
    <3>5. 1 \in DOMAIN W /\ W[1] = OpenPacket(i, t)
      BY <3>4
    <3>6. CASE j = i
      BY <1>1, <3>1, <3>5, <3>6
    <3>7. CASE j # i
      BY <1>1, <1>5, <3>3, <3>7
    <3> QED BY <3>6, <3>7
  <2> QED BY <2>1, <2>2, <2>3, <2>4, <2>5 DEF Shape
<1> DEFINE O == chan[s]
           P == chan'[s]
           R == chan[q]
           w == wire[q]
           v == wire[s]
<1>6. /\ w \in Seq(Packet) /\ W \in Seq(Packet) /\ v \in Seq(Packet) /\ (rd => v # << >>)
      /\ Mirror(O, R, w, v)
      /\ \A n \in DOMAIN v : v[n].kind = "result" => v[n].id \in Ids
  BY <1>1, <1>2, <1>3, <1>4
<1>7. \A j \in Ids : P[j].dir = "out" =>
        \/ /\ O[j].dir = "out" /\ O[j].type = P[j].type
           /\ P[j].opened => O[j].opened \/ (rd /\ Head(v).kind = "result" /\ Head(v).id = j)
           /\ ~(rd /\ Head(v) = ClosePacket(j))
        \/ ~P[j].opened /\ \E n \in DOMAIN W : W[n] = OpenPacket(j, P[j].type)
  BY <1>5
<1> HIDE DEF O, P, R, w, v
<1>8. Mirror(P, R, w \o W, Rest(v, rd))
  BY <1>6, <1>7, MirrorOpener
<1>9. Mirror(chan'[s], chan[q], wire[q] \o W, Rest(wire[s], rd))
  BY <1>8 DEF O, P, R, w, v
<1> QED BY <1>1, <1>9 DEF q

LEMMA ReadMirror ==
  ASSUME IInv, ClosedOK, MirrorsOK,
         NEW s \in Side, NEW rd \in BOOLEAN, NEW ps \in Seq(Packet), NEW i \in Ids, NEW c,
         Acts(s, rd, ps, i, c), Shape(s, rd, ps, i, c), Up(s)'
  PROVE  Mirror(chan'[Peer(s)], chan'[s], wire'[s], wire'[Peer(s)])
<1> DEFINE q == Peer(s)
           W == Written(s, ps)
<1>1. /\ q \in Side /\ q # s /\ Peer(q) = s
      /\ wire[s] \in Seq(Packet) /\ wire[q] \in Seq(Packet)
      /\ wire'[s] = Rest(wire[s], rd) /\ wire'[q] = wire[q] \o W
      /\ W = IF Up(s) /\ sock[q] # "closed" THEN ps ELSE << >>
      /\ \A j \in Ids : chan'[s][j] = IF j = i THEN c ELSE chan[s][j]
      /\ chan'[q] = chan[q]
      /\ Up(s)
  BY ActFacts
<1>2. Mirror(chan[q], chan[s], wire[s], wire[q])
  BY <1>1 DEF MirrorsOK
<1>3. \A n \in DOMAIN wire[q] : wire[q][n].kind = "result" => wire[q][n].id \in Ids
  BY <1>1, ResultIds
<1>4. rd => wire[s] # << >>
  BY DEF Acts
<1>5. \A j \in Ids : chan[q][j].dir = "out" => chan[q][j].type \in Types
  <2>1. \A j \in Ids : chan[q][j] \in Channel \cup {NoChannel}
    BY <1>1 DEF IInv, TablesOK
  <2> QED BY <2>1 DEF Channel, NoChannel
<1> HIDE DEF q, W
<1>6. CASE sock[q] = "closed"
  <2>1. chan[q] = NoChannels /\ wire[q] = << >> /\ W = << >>
    BY <1>1, <1>6 DEF ClosedOK
  <2>2. wire'[q] = << >> /\ \A j \in Ids : chan'[q][j].dir # "out"
    BY <1>1, <2>1 DEF NoChannels, NoChannel
  <2> QED BY <2>2, MirrorEmpty DEF q
<1>7. CASE sock[q] # "closed"
  <2>0. W = ps
    BY <1>1, <1>7
  <2>1. /\ \A j \in Ids : chan[s][j].dir = "in" => chan'[s][j].dir = "in" \/ Closes(ps, j)
        /\ \A j \in Ids, t \in Types : rd /\ Head(wire[s]) = OpenPacket(j, t) => chan'[s][j].dir = "in"
        /\ \A n \in DOMAIN ps : ps[n].kind = "result" => chan'[s][ps[n].id].dir = "in"
    <3>1. CASE Stays(s, rd, ps, i, c)
      BY <1>1, <3>1 DEF Stays, Takes, Plain
    <3>2. CASE IsOpened(s, rd, ps, i, c)
      <4>1. \A j \in Ids, t \in Types : ~(rd /\ Head(wire[s]) = OpenPacket(j, t))
        BY <3>2, PacketKinds DEF IsOpened
      <4> QED BY <1>1, <3>2, <4>1 DEF IsOpened, Plain
    <3>3. CASE Drops(s, rd, ps, i, c)
      BY <1>1, <3>3 DEF Drops, Takes, Plain
    <3>4. CASE Admits(s, rd, ps, i, c)
      <4>1. PICK t \in Types, r \in Responses \cup {"none"} :
               /\ Takes(s, rd, OpenPacket(i, t)) /\ chan[s][i] = NoChannel
               /\ c = [type |-> t, dir |-> "in", opened |-> TRUE]
               /\ ps = <<ResultPacket(i, TRUE, r)>>
        BY <3>4 DEF Admits
      <4>2. \A j \in Ids : chan[s][j].dir = "in" => chan'[s][j].dir = "in"
        BY <1>1, <4>1 DEF NoChannel
      <4>3. \A j, u : Head(wire[s]) = OpenPacket(j, u) => j = i
        BY <4>1, PacketKinds DEF Takes
      <4>4. DOMAIN ps = {1} /\ ps[1].id = i
        BY <4>1 DEF ResultPacket
      <4>5. chan'[s][i].dir = "in"
        BY <1>1, <4>1
      <4> QED BY <4>2, <4>3, <4>4, <4>5
    <3>5. CASE Opens(s, rd, ps, i, c)
      <4>1. PICK t \in Types : /\ c = [type |-> t, dir |-> "out", opened |-> FALSE]
                               /\ chan[s][i] = NoChannel /\ ps = <<OpenPacket(i, t)>>
        BY <3>5 DEF Opens
      <4>2. rd => Head(wire[s]).kind = "version"
        BY <3>5 DEF Opens
      <4>3. \A j \in Ids : chan[s][j].dir = "in" => chan'[s][j].dir = "in"
        BY <1>1, <4>1 DEF NoChannel
      <4>4. \A j, u : rd => Head(wire[s]) # OpenPacket(j, u)
        BY <4>2, PacketKinds
      <4>5. DOMAIN ps = {1} /\ ps[1] = OpenPacket(i, t)
        BY <4>1
      <4>6. OpenPacket(i, t).kind = "open"
        BY PacketKinds
      <4> QED BY <4>3, <4>4, <4>5, <4>6
    <3> QED BY <3>1, <3>2, <3>3, <3>4, <3>5 DEF Shape
  <2> DEFINE O == chan[q]
             R == chan[s]
             Q == chan'[s]
             w == wire[s]
             v == wire[q]
  <2>2. /\ w \in Seq(Packet) /\ v \in Seq(Packet) /\ (rd => w # << >>)
        /\ Mirror(O, R, w, v)
        /\ \A n \in DOMAIN v : v[n].kind = "result" => v[n].id \in Ids
        /\ \A j \in Ids : O[j].dir = "out" => O[j].type \in Types
    BY <1>1, <1>2, <1>3, <1>4, <1>5
  <2>3. /\ \A j \in Ids : R[j].dir = "in" => Q[j].dir = "in" \/ Closes(ps, j)
        /\ \A j \in Ids, t \in Types : rd /\ Head(w) = OpenPacket(j, t) => Q[j].dir = "in"
        /\ \A n \in DOMAIN ps : ps[n].kind = "result" => Q[ps[n].id].dir = "in"
    BY <2>1
  <2> HIDE DEF O, R, Q, w, v
  <2>4. Mirror(O, Q, Rest(w, rd), v \o ps)
    BY <2>2, <2>3, MirrorReader
  <2>5. Mirror(chan[q], chan'[s], Rest(wire[s], rd), wire[q] \o ps)
    BY <2>4 DEF O, R, Q, w, v
  <2> QED BY <1>1, <2>0, <2>5 DEF q
<1> QED BY <1>6, <1>7

\* The first five parts of the invariant hold after every such step.
LEMMA ActKeeps ==
  ASSUME IInv, PacketsFit, ClosedOK, StrangersTables, FlowsOK, MirrorsOK,
         NEW s \in Side, NEW rd \in BOOLEAN, NEW ps \in Seq(Packet), NEW i \in Ids, NEW c,
         Acts(s, rd, ps, i, c), Shape(s, rd, ps, i, c), Writes(s, ps, Known'), Known => Known'
  PROVE  PacketsFit' /\ ClosedOK' /\ StrangersTables' /\ FlowsOK' /\ MirrorsOK'
<1> DEFINE q == Peer(s)
           W == Written(s, ps)
<1>1. /\ q \in Side /\ q # s /\ Peer(q) = s /\ Side = {s, q}
      /\ wire[s] \in Seq(Packet) /\ wire[q] \in Seq(Packet)
      /\ wire'[s] = Rest(wire[s], rd) /\ wire'[q] = wire[q] \o W
      /\ W = IF Up(s) /\ sock[q] # "closed" THEN ps ELSE << >>
      /\ \A j \in Ids : chan'[s][j] = IF j = i THEN c ELSE chan[s][j]
      /\ chan'[q] = chan[q] /\ sock'[q] = sock[q]
  BY ActFacts
<1>2. sock[s] # "closed" /\ sock'[s] # "closed" /\ (rd => wire[s] # << >>)
  BY DEF Acts, IInv, PlainOK
<1>3. FlowsOK'
  <2>1. Flow(chan'[s], chan'[Peer(s)], wire'[Peer(s)], Up(s)')
    BY SentFlow
  <2>2. Flow(chan'[Peer(s)], chan'[s], wire'[s], Up(Peer(s))')
    BY ReadFlow
  <2>3. Side = {s, Peer(s)} /\ Peer(Peer(s)) = s
    BY <1>1
  <2> QED BY <2>1, <2>2, <2>3 DEF FlowsOK
<1>4. MirrorsOK'
  <2>1. Up(Peer(s))' => Mirror(chan'[s], chan'[Peer(s)], wire'[Peer(s)], wire'[s])
    BY SentMirror, ActFacts
  <2>2. Up(s)' => Mirror(chan'[Peer(s)], chan'[s], wire'[s], wire'[Peer(s)])
    BY ReadMirror
  <2>3. Side = {s, Peer(s)} /\ Peer(Peer(s)) = s
    BY <1>1
  <2> QED BY <2>1, <2>2, <2>3 DEF MirrorsOK
<1>5. ClosedOK'
  <2>1. ASSUME sock[q] = "closed" PROVE chan'[q] = NoChannels /\ wire'[q] = << >>
    <3>1. chan[q] = NoChannels /\ wire[q] = << >> /\ W = << >>
      BY <1>1, <2>1 DEF ClosedOK
    <3> HIDE DEF q, W
    <3> QED BY <1>1, <3>1
  <2> QED BY <1>1, <1>2, <2>1 DEF ClosedOK
<1>6. PacketsFit'
  <2>1. ASSUME NEW x \in Side, NEW p, Fit(x, p, Known) PROVE Fit(x, p, Known')
    BY <2>1 DEF Fit
  <2>2. ASSUME NEW n \in DOMAIN wire'[s] PROVE Fit(s, wire'[s][n], Known')
    <3>1. \E m \in DOMAIN wire[s] : Rest(wire[s], rd)[n] = wire[s][m]
      BY <1>1, <1>2, <2>2, Unread
    <3>2. PICK m \in DOMAIN wire[s] : wire'[s][n] = wire[s][m]
      BY <1>1, <3>1
    <3>3. Fit(s, wire[s][m], Known)
      BY DEF PacketsFit
    <3> QED BY <2>1, <3>2, <3>3
  <2>3. ASSUME NEW n \in DOMAIN wire'[q] PROVE Fit(q, wire'[q][n], Known')
    <3>1. W \in Seq(Packet) /\ \A m \in DOMAIN W : Fit(q, W[m], Known')
      BY <1>1, EmptySeq DEF Writes
    <3>2. \/ n \in DOMAIN wire[q] /\ wire'[q][n] = wire[q][n]
          \/ \E m \in DOMAIN W : wire'[q][n] = W[m]
      <4> DEFINE w == wire[q]
      <4>0. w \in Seq(Packet) /\ W \in Seq(Packet) /\ wire'[q] = w \o W /\ n \in DOMAIN (w \o W)
        BY <1>1, <2>3, <3>1
      <4> HIDE DEF w, W
      <4>1. \/ n \in DOMAIN w /\ (w \o W)[n] = w[n]
            \/ n - Len(w) \in DOMAIN W /\ (w \o W)[n] = W[n - Len(w)]
        BY <4>0, Grown
      <4> QED BY <4>0, <4>1 DEF w
    <3>3. \A m \in DOMAIN wire[q] : Fit(q, wire[q][m], Known)
      BY <1>1 DEF PacketsFit
    <3> HIDE DEF q, W
    <3> QED BY <1>1, <2>1, <3>1, <3>2, <3>3
  <2> QED BY <1>1, <2>2, <2>3 DEF PacketsFit
<1>7. StrangersTables'
  <2> SUFFICES ASSUME ~Known', NEW j \in Ids
               PROVE  /\ chan'[C][j].dir = "out" => chan'[C][j].type \notin Chats
                      /\ chan'[S][j].dir = "in" => chan'[S][j].type \notin Chats
    BY DEF StrangersTables
  <2>1. /\ chan[C][j].dir = "out" => chan[C][j].type \notin Chats
        /\ chan[S][j].dir = "in" => chan[S][j].type \notin Chats
    BY DEF StrangersTables
  <2>2. /\ s = C \/ s = S
        /\ s = C => chan'[S] = chan[S]
        /\ s = S => chan'[C] = chan[C]
    BY <1>1 DEF Side, C, S
  <2>3. s = C /\ chan'[s][j].dir = "out" => chan'[s][j].type \notin Chats
    <3> SUFFICES ASSUME s = C, chan'[s][j].dir = "out", j = i PROVE chan'[s][j].type \notin Chats
      BY <1>1, <2>1
    <3>0. chan[s][i] \in Channel \cup {NoChannel} /\ chan'[s][j] = c
      BY <1>1 DEF IInv, TablesOK
    <3>1. CASE Stays(s, rd, ps, i, c)
      BY <2>1, <3>0, <3>1 DEF Stays
    <3>2. CASE IsOpened(s, rd, ps, i, c)
      <4>1. chan[s][i] # NoChannel
        BY <3>2 DEF IsOpened, NoChannel
      <4> QED BY <2>1, <3>0, <3>2, <4>1 DEF IsOpened, Channel
    <3>3. CASE Drops(s, rd, ps, i, c)
      BY <3>0, <3>3 DEF Drops, NoChannel
    <3>4. CASE Admits(s, rd, ps, i, c)
      BY <3>0, <3>4 DEF Admits
    <3>5. CASE Opens(s, rd, ps, i, c)
      BY <3>0, <3>5 DEF Opens
    <3> QED BY <3>1, <3>2, <3>3, <3>4, <3>5 DEF Shape
  <2>4. s = S /\ chan'[s][j].dir = "in" => chan'[s][j].type \notin Chats
    <3> SUFFICES ASSUME s = S, chan'[s][j].dir = "in", j = i PROVE chan'[s][j].type \notin Chats
      BY <1>1, <2>1
    <3>0. chan[s][i] \in Channel \cup {NoChannel} /\ chan'[s][j] = c
      BY <1>1 DEF IInv, TablesOK
    <3>1. CASE Stays(s, rd, ps, i, c)
      BY <2>1, <3>0, <3>1 DEF Stays
    <3>2. CASE IsOpened(s, rd, ps, i, c)
      <4>1. chan[s][i] # NoChannel
        BY <3>2 DEF IsOpened, NoChannel
      <4> QED BY <2>1, <3>0, <3>2, <4>1 DEF IsOpened, Channel
    <3>3. CASE Drops(s, rd, ps, i, c)
      BY <3>0, <3>3 DEF Drops, NoChannel
    <3>4. CASE Admits(s, rd, ps, i, c)
      <4>1. PICK t \in Types : /\ rd /\ Head(wire[s]) = OpenPacket(i, t)
                               /\ c = [type |-> t, dir |-> "in", opened |-> TRUE]
        BY <3>4 DEF Admits, Takes
      <4>2. Fit(s, OpenPacket(i, t), Known)
        BY <1>2, <4>1, HeadFits
      <4>3. t \in Chats => Known
        BY <4>2, PacketKinds DEF Fit, S
      <4> QED BY <3>0, <4>1, <4>3
    <3>5. CASE Opens(s, rd, ps, i, c)
      BY <3>0, <3>5 DEF Opens
    <3> QED BY <3>1, <3>2, <3>3, <3>4, <3>5 DEF Shape
  <2> QED BY <2>1, <2>2, <2>3, <2>4
<1> QED BY <1>3, <1>4, <1>5, <1>6, <1>7


-----------------------------------------------------------------------------
\* Sides and identifiers.

LEMMA Ends ==
  /\ C \in Side /\ S \in Side /\ C # S /\ Peer(C) = S /\ Peer(S) = C
  /\ \A x \in Side : x = C \/ x = S
  /\ C = "client" /\ S = "server"
BY DEF C, S, Side, Peer

\* Which half an identifier belongs to, and so which way its channel goes.
LEMMA Parity ==
  ASSUME IInv, NEW s \in Side, NEW i \in Ids
  PROVE  /\ OwnParity(Peer(s), i) <=> ~OwnParity(s, i)
         /\ chan[s][i] # NoChannel =>
              /\ chan[s][i].type \in Types /\ chan[s][i].dir \in {"in", "out"}
              /\ chan[s][i].dir = "out" <=> OwnParity(s, i)
              /\ chan[s][i].type \in {"auth", "request"} => (chan[s][i].dir = "out" <=> s = C)
         /\ chan[s][i].type = "none" <=> chan[s][i] = NoChannel
<1>1. OwnParity(Peer(s), i) <=> ~OwnParity(s, i)
  BY DEF OwnParity, Peer, Side
<1>2. NoChannel.type = "none" /\ "none" \notin Types
  BY DEF NoChannel, Types
<1>3. chan[s][i] # NoChannel => chan[s][i] \in ChannelOf(s, i) /\ chan[s][i].type \in Types
  BY ChannelFields DEF IInv
<1>4. chan[s][i] # NoChannel =>
              /\ chan[s][i].dir \in {"in", "out"}
              /\ chan[s][i].dir = "out" <=> OwnParity(s, i)
              /\ chan[s][i].type \in {"auth", "request"} => (chan[s][i].dir = "out" <=> s = C)
  BY <1>3, Ends DEF ChannelOf, Channel
<1> QED BY <1>1, <1>2, <1>3, <1>4

-----------------------------------------------------------------------------
\* The request after a step that asks and answers nothing.

\* Of the packets A there are no more in x than in w.
Fewer(x, w, A) ==
  /\ One(At(w, A)) => One(At(x, A))
  /\ \A n \in At(x, A) : \E m \in At(w, A) : x[n] = w[m]

LEMMA FewerRest ==
  ASSUME NEW w \in Seq(Packet), NEW A, NEW rd \in BOOLEAN, rd => w # << >>
  PROVE  Fewer(Rest(w, rd), w, A)
<1>1. CASE ~rd
  BY <1>1 DEF Rest, Fewer
<1>2. CASE rd
  <2> DEFINE x == Tail(w)
  <2>1. Rest(w, rd) = x
    BY <1>2 DEF Rest
  <2>2. /\ DOMAIN x \subseteq Nat
        /\ \A n \in DOMAIN x : n + 1 \in DOMAIN w /\ x[n] = w[n + 1]
    BY <1>2, Shrunk
  <2> HIDE DEF x
  <2>3. \A n \in At(x, A) : n + 1 \in At(w, A) /\ x[n] = w[n + 1]
    BY <2>2 DEF At
  <2>4. One(At(w, A)) => One(At(x, A))
    <3> SUFFICES ASSUME One(At(w, A)), NEW m \in At(x, A), NEW n \in At(x, A)
                 PROVE  m = n
      BY DEF One
    <3>1. m + 1 = n + 1
      BY <2>3 DEF One
    <3>2. m \in Nat /\ n \in Nat
      BY <2>2 DEF At
    <3> QED BY <3>1, <3>2
  <2> QED BY <2>1, <2>3, <2>4 DEF Fewer
<1> QED BY <1>1, <1>2

LEMMA FewerGrown ==
  ASSUME NEW w \in Seq(Packet), NEW ps \in Seq(Packet), NEW A,
         \A n \in DOMAIN ps : ps[n] \notin A
  PROVE  /\ Fewer(w \o ps, w, A)
         /\ At(w \o ps, A) = At(w, A)
<1> DEFINE x == w \o ps
<1>1. /\ \A n \in DOMAIN w : n \in DOMAIN x /\ x[n] = w[n]
      /\ \A n \in DOMAIN x : \/ n \in DOMAIN w
                             \/ n - Len(w) \in DOMAIN ps /\ x[n] = ps[n - Len(w)]
  BY Grown
<1> HIDE DEF x
<1>2. At(x, A) = At(w, A) /\ \A n \in At(x, A) : x[n] = w[n]
  BY <1>1 DEF At
<1> QED BY <1>2 DEF Fewer, One, x

LEMMA FewerSame ==
  ASSUME NEW w, NEW A
  PROVE  Fewer(w, w, A)
BY DEF Fewer

LEMMA FewerEmpty ==
  ASSUME NEW w, NEW A
  PROVE  Fewer(<< >>, w, A) /\ At(<< >>, A) = {}
BY DEF Fewer, One, At

LEMMA RequestFewer ==
  ASSUME IInv, PacketsFit, RequestOK,
         Fewer(wire'[S], wire[S], RequestOpens), Fewer(wire'[C], wire[C], Answers),
         Judged' \subseteq Judged, Asked' => Asked,
         \A q \in Ids : OwnParity(C, q) /\ Requested(chan[C], Up(C), q) => Requested(chan'[C], Up(C)', q),
         purpose'[S] = purpose[S],
         \A q \in Ids : chan'[C][q].type = "request" =>
           chan[C][q].type = "request" /\ purpose'[C] = "OutboundRequest"
  PROVE  RequestOK'
<1>1. /\ \A n \in Asking' : \E m \in Asking : wire'[S][n] = wire[S][m]
      /\ \A n \in Answering' : \E m \in Answering : wire'[C][n] = wire[C][m]
      /\ One(Asking) => One(Asking')
      /\ One(Answering) => One(Answering')
  BY DEF Fewer, Asking, Answering
<1>1a. One(Answering) => One(Answering')
  BY DEF Fewer, Answering
<1>1b. One(Asking) => One(Asking')
  BY DEF Fewer, Asking
<1>2. /\ One(Asking) /\ One(Judged) /\ One(Answering)
      /\ Asked => Asking = {} /\ Judged = {} /\ Answering = {}
      /\ Asking # {} => Judged = {} /\ Answering = {}
      /\ Judged # {} => Answering = {}
  BY DEF RequestOK, OnceOnly
<1>3. One(Judged')
  BY <1>2 DEF One
<1>4. OnceOnly'
  <2> HIDE DEF Asking, Answering, Judged, Asked
  <2>1. (Asking = {} => Asking' = {}) /\ (Answering = {} => Answering' = {}) /\ (Judged = {} => Judged' = {})
    BY <1>1
  <2>2. One(Asking') /\ One(Judged') /\ One(Answering')
    BY <1>1a, <1>1b, <1>2, <1>3
  <2>3. Asked' => Asking' = {} /\ Judged' = {} /\ Answering' = {}
    BY <1>2, <2>1
  <2>4. Asking' # {} => Judged' = {} /\ Answering' = {}
    BY <1>2, <2>1
  <2>5. Judged' # {} => Answering' = {}
    BY <1>2, <2>1
  <2> QED BY <2>2, <2>3, <2>4, <2>5 DEF OnceOnly
<1>5. Asked' => purpose'[S] = "Unknown" /\ ~HasChannel(C, "request")'
  BY DEF RequestOK, HasChannel
<1>6. ASSUME NEW n \in Asking' PROVE purpose'[S] = "Unknown" /\ Requested(chan'[C], Up(C)', wire'[S][n].id)
  <2>1. PICK m \in Asking : wire'[S][n] = wire[S][m]
    BY <1>1
  <2>2. purpose[S] = "Unknown" /\ Requested(chan[C], Up(C), wire[S][m].id)
    BY DEF RequestOK
  <2>3. wire[S][m].id \in Ids /\ wire[S][m].kind = "open" /\ m \in DOMAIN wire[S]
    BY PacketKinds DEF Asking, At, RequestOpens
  <2>4. OwnParity(C, wire[S][m].id)
    BY <2>3, Ends DEF PacketsFit, Fit
  <2> QED BY <2>1, <2>2, <2>3, <2>4
<1>7. ASSUME NEW n \in Answering' PROVE Requested(chan'[C], Up(C)', wire'[C][n].id)
  <2>1. PICK m \in Answering : wire'[C][n] = wire[C][m]
    BY <1>1
  <2>2. Requested(chan[C], Up(C), wire[C][m].id)
    BY DEF RequestOK
  <2>3. /\ wire[C][m].id \in Ids /\ wire[C][m].kind = "data" /\ m \in DOMAIN wire[C]
        /\ wire[C][m].body \in Responses
    BY DEF Answering, At, Answers
  <2>4. OwnParity(C, wire[C][m].id)
    BY <2>3, Ends DEF PacketsFit, Fit, Responses
  <2> QED BY <2>1, <2>2, <2>3, <2>4
<1>8. ASSUME NEW q \in Judged' PROVE purpose'[S] # "KnownContact" /\ Requested(chan'[C], Up(C)', q)
  <2>1. q \in Judged /\ q \in Ids /\ chan[S][q].type = "request"
    BY DEF Judged
  <2>2. OwnParity(C, q)
    BY <2>1, Parity, Ends DEF NoChannel
  <2>3. purpose[S] # "KnownContact" /\ Requested(chan[C], Up(C), q)
    BY <2>1 DEF RequestOK
  <2> QED BY <2>1, <2>2, <2>3
<1>9. \A q \in Ids : chan'[C][q].type = "request" =>
        /\ purpose'[C] = "OutboundRequest"
        /\ \A r \in Ids : chan'[C][r].type = "request" => r = q
  BY DEF RequestOK
<1> QED BY <1>4, <1>5, <1>6, <1>7, <1>8, <1>9 DEF RequestOK

\* A step after which nothing of a request is on its way.
LEMMA RequestNone ==
  ASSUME Asking' = {}, Judged' = {}, Answering' = {},
         Asked' => purpose'[S] = "Unknown",
         \A q \in Ids : chan'[C][q].type # "request"
  PROVE  RequestOK'
<1>1. OnceOnly'
  BY DEF OnceOnly, One
<1>2. ~HasChannel(C, "request")'
  BY DEF HasChannel
<1> QED BY <1>1, <1>2 DEF RequestOK

-----------------------------------------------------------------------------
\* Trust after a step of either side.

\* A client that stays open to trust has not read it away.
StillOpen(rd) ==
  Up(C)' /\ ~Known' => /\ Up(C) /\ ~Known
                       /\ rd => ~Trusting(chan[C], Head(wire[C]))
                       /\ \A j \in Ids : chan[C][j].type \in {"auth", "request"} =>
                                           chan'[C][j].type = chan[C][j].type

LEMMA TrustAtClient ==
  ASSUME IInv, TrustComes, NEW rd \in BOOLEAN, rd => wire[C] # << >>,
         wire'[C] = Rest(wire[C], rd), Trusted' => Trusted, StillOpen(rd)
  PROVE  TrustComes'
<1> USE DEF StillOpen
<1> SUFFICES ASSUME Up(C)', ~Known'
             PROVE  /\ Trusted' => \E m \in DOMAIN wire'[C] : Trusting(chan'[C], wire'[C][m])
                    /\ \A n \in DOMAIN wire'[C] : wire'[C][n].kind = "open" =>
                         \E m \in DOMAIN wire'[C] : m < n /\ Trusting(chan'[C], wire'[C][m])
  BY DEF TrustComes
<1>1. wire[C] \in Seq(Packet)
  BY DEF IInv, WiresOK, C, Side
<1>2. \A m \in DOMAIN wire[C] : wire[C][m] \in Packet
  BY <1>1
<1>3. ASSUME NEW m \in DOMAIN wire[C], NEW n \in DOMAIN wire'[C], wire'[C][n] = wire[C][m], Trusting(chan[C], wire[C][m])
      PROVE  Trusting(chan'[C], wire'[C][n])
  <2>1. wire[C][m].kind = "data" /\ wire[C][m].id \in Ids
    BY <1>2, <1>3 DEF Trusting, Packet
  <2> QED BY <1>3, <2>1 DEF Trusting
<1>4. /\ Trusted => \E m \in DOMAIN wire[C] : Trusting(chan[C], wire[C][m])
      /\ \A n \in DOMAIN wire[C] : wire[C][n].kind = "open" =>
            \E m \in DOMAIN wire[C] : m < n /\ Trusting(chan[C], wire[C][m])
  BY DEF TrustComes
<1>5. CASE ~rd
  <2>1. wire'[C] = wire[C]
    BY <1>5 DEF Rest
  <2>2. \A m \in DOMAIN wire[C] : Trusting(chan[C], wire[C][m]) => m \in DOMAIN wire'[C] /\ Trusting(chan'[C], wire'[C][m])
    BY <1>3, <2>1
  <2> QED BY <1>4, <2>1, <2>2
<1>6. CASE rd
  <2> DEFINE w == wire[C]
             x == wire'[C]
  <2>1. /\ Head(w) = w[1] /\ 1 \in DOMAIN w
        /\ DOMAIN w \subseteq Nat /\ DOMAIN x \subseteq Nat
        /\ \A n \in DOMAIN x : n + 1 \in DOMAIN w /\ x[n] = w[n + 1]
        /\ \A n \in DOMAIN w : n # 1 => n - 1 \in DOMAIN x /\ x[n - 1] = w[n]
    BY <1>1, <1>6, Shrunk DEF Rest
  <2>2. ASSUME NEW m \in DOMAIN w, Trusting(chan[C], w[m])
        PROVE  m - 1 \in DOMAIN x /\ Trusting(chan'[C], x[m - 1])
    <3>1. m # 1
      BY <1>6, <2>1, <2>2
    <3>2. m - 1 \in DOMAIN x /\ x[m - 1] = w[m]
      BY <2>1, <3>1
    <3> QED BY <1>3, <2>2, <3>2
  <2>3. Trusted' => \E m \in DOMAIN x : Trusting(chan'[C], x[m])
    BY <1>4, <2>2
  <2>4. ASSUME NEW n \in DOMAIN x, x[n].kind = "open"
        PROVE  \E m \in DOMAIN x : m < n /\ Trusting(chan'[C], x[m])
    <3>1. n + 1 \in DOMAIN w /\ w[n + 1].kind = "open" /\ n \in Nat
      BY <2>1, <2>4
    <3>2. PICK m \in DOMAIN w : m < n + 1 /\ Trusting(chan[C], w[m])
      BY <1>4, <3>1
    <3>3. m - 1 < n
      BY <2>1, <3>1, <3>2
    <3> QED BY <2>2, <3>2, <3>3
  <2> QED BY <2>3, <2>4
<1> QED BY <1>5, <1>6

LEMMA TrustAtServer ==
  ASSUME IInv, TrustComes, NEW W \in Seq(Packet), wire'[C] = wire[C] \o W,
         chan'[C] = chan[C], Up(C)' = Up(C), Known' <=> Known,
         Up(C) /\ ~Known => /\ \A n \in DOMAIN W : W[n].kind = "open" => Trusted
                            /\ Trusted' => Trusted \/ \E n \in DOMAIN W : Trusting(chan[C], W[n])
  PROVE  TrustComes'
<1> SUFFICES ASSUME Up(C), ~Known
             PROVE  /\ Trusted' => \E m \in DOMAIN wire'[C] : Trusting(chan'[C], wire'[C][m])
                    /\ \A n \in DOMAIN wire'[C] : wire'[C][n].kind = "open" =>
                         \E m \in DOMAIN wire'[C] : m < n /\ Trusting(chan'[C], wire'[C][m])
  BY DEF TrustComes
<1> DEFINE w == wire[C]
           x == wire'[C]
<1>1. w \in Seq(Packet)
  BY DEF IInv, WiresOK, C, Side
<1>2. /\ Len(w) \in Nat /\ DOMAIN w \subseteq Nat /\ DOMAIN x \subseteq Nat /\ DOMAIN W \subseteq Nat
      /\ \A n \in DOMAIN w : n \in DOMAIN x /\ x[n] = w[n] /\ n <= Len(w)
      /\ \A n \in DOMAIN W : Len(w) + n \in DOMAIN x /\ x[Len(w) + n] = W[n]
      /\ \A n \in DOMAIN x :
           n \in DOMAIN w \/ (n - Len(w) \in DOMAIN W /\ x[n] = W[n - Len(w)] /\ Len(w) < n)
  <2>1. x = w \o W
    OBVIOUS
  <2> HIDE DEF w, x
  <2>2. Len(w) \in Nat /\ DOMAIN w \subseteq Nat /\ DOMAIN x \subseteq Nat /\ DOMAIN W \subseteq Nat
    BY <1>1, <2>1, Grown
  <2>3. \A n \in DOMAIN w : n \in DOMAIN x /\ x[n] = w[n] /\ n <= Len(w)
    BY <1>1, <2>1, Grown
  <2>4. \A n \in DOMAIN W : Len(w) + n \in DOMAIN x /\ x[Len(w) + n] = W[n]
    BY <1>1, <2>1, Grown
  <2>5. \A n \in DOMAIN x :
          n \in DOMAIN w \/ (n - Len(w) \in DOMAIN W /\ x[n] = W[n - Len(w)] /\ Len(w) < n)
    BY <1>1, <2>1, Grown
  <2> QED BY <2>2, <2>3, <2>4, <2>5
<1>3. chan'[C] = chan[C]
  OBVIOUS
<1>4. /\ Trusted => \E m \in DOMAIN w : Trusting(chan[C], w[m])
      /\ \A n \in DOMAIN w : w[n].kind = "open" =>
            \E m \in DOMAIN w : m < n /\ Trusting(chan[C], w[m])
  BY DEF TrustComes
<1> HIDE DEF w, x
<1>5. Trusted' => \E m \in DOMAIN x : Trusting(chan[C], x[m])
  BY <1>2, <1>4
<1>6. ASSUME NEW n \in DOMAIN x, x[n].kind = "open"
      PROVE  \E m \in DOMAIN x : m < n /\ Trusting(chan[C], x[m])
  <2>1. CASE n \in DOMAIN w
    BY <1>2, <1>4, <1>6, <2>1
  <2>2. CASE n - Len(w) \in DOMAIN W /\ x[n] = W[n - Len(w)] /\ Len(w) < n
    <3>1. PICK m \in DOMAIN w : Trusting(chan[C], w[m])
      BY <1>4, <1>6, <2>2
    <3>2. m < n
      BY <1>2, <2>2, <3>1
    <3> QED BY <1>2, <3>1, <3>2
  <2> QED BY <1>2, <2>1, <2>2
<1> QED BY <1>3, <1>5, <1>6 DEF x


-----------------------------------------------------------------------------
\* The stages.

\* Before the authentication has ended there is nothing but its channel, and
\* the chat and file channels that the server is opening.
LEMMA Early ==
  ASSUME IInv, ClosedOK, Stages, ~Serving
  PROVE  /\ purpose[C] = "Unknown" /\ queued[C] = {}
         /\ purpose[S] \in {"Unknown", "KnownContact"} /\ "closeRequest" \notin queued[S]
         /\ \A i \in Ids : /\ chan[C][i].type \in {"none", "auth"}
                           /\ chan[S][i].type # "request"
                           /\ chan[S][i].type \in Chats => ~chan[S][i].opened
<1>0. /\ \A i \in Ids : NoChannels[i] = NoChannel
      /\ NoChannel.type = "none"
  BY DEF NoChannels, NoChannel
<1>1. CASE Greeting
  BY <1>0, <1>1 DEF Greeting, Undecided, Unproved, Chats
<1>2. ASSUME NEW i \in Ids, Proving(i) 
      PROVE  /\ purpose[C] = "Unknown" /\ queued[C] = {}
             /\ purpose[S] = "Unknown" /\ queued[S] = {}
             /\ OnlyAuth(C, i) /\ OnlyAuth(S, i)
  BY <1>2 DEF Proving, Undecided, Unproved
<1>3. ASSUME NEW i \in Ids, Proved(i) 
      PROVE  /\ purpose[C] = "Unknown" /\ queued[C] = {}
             /\ purpose[S] \in {"Unknown", "KnownContact"} /\ "closeRequest" \notin queued[S]
             /\ OnlyAuth(C, i)
             /\ \A j \in Ids : chan[S][j].type \notin {"auth", "request"} /\ ~chan[S][j].opened
  BY <1>3 DEF Proved, Undecided
<1>4. ASSUME NEW i \in Ids, NEW s \in Side, OnlyAuth(s, i)
      PROVE  \A j \in Ids : chan[s][j].type \in {"none", "auth"}
  BY <1>0, <1>4 DEF OnlyAuth
<1>5. C \in Side /\ S \in Side
  BY DEF C, S, Side
<1>6. CASE \E i \in Ids : Proving(i)
  BY <1>2, <1>4, <1>5, <1>6 DEF Chats
<1>7. CASE \E i \in Ids : Proved(i)
  BY <1>3, <1>4, <1>5, <1>7 DEF Chats
<1> QED BY <1>1, <1>6, <1>7 DEF Stages

LEMMA OnePacket ==
  ASSUME NEW p
  PROVE  /\ <<p>> # << >> /\ Head(<<p>>) = p /\ Tail(<<p>>) = << >>
         /\ DOMAIN <<p>> = {1} /\ <<p>>[1] = p
OBVIOUS

\* The packets that are read then.
LEMMA EarlyHeads ==
  ASSUME IInv, ClosedOK, Stages, ~Serving, NEW s \in Side, wire[s] # << >>
  PROVE  LET p == Head(wire[s]) IN
         \/ s = S /\ p.kind = "intro"
         \/ s = C /\ p.kind = "version"
         \/ s = S /\ \E i \in Ids : p = OpenPacket(i, "auth") /\ chan[S][i] = NoChannel
         \/ s = C /\ \E i \in Ids : p = ResultPacket(i, TRUE, "none") /\ chan[C][i].type = "auth"
         \/ s = S /\ \E i \in Ids : p = DataPacket(i, "proof") /\ chan[S][i].type = "auth"
         \/ s = C /\ \E i \in Ids : /\ p = DataPacket(i, "known") \/ p = DataPacket(i, "unknown")
                                    /\ chan[C][i].type = "auth"
<1>0. (s = C \/ s = S) /\ C # S
  BY DEF C, S, Side
<1>1. CASE Greeting
  <2>1. \E p \in Packet : /\ wire[s] = <<p>>
                          /\ (s = S /\ p.kind = "intro") \/ (s = C /\ p.kind = "version")
    BY <1>0, <1>1 DEF Greeting
  <2> QED BY <2>1, OnePacket
<1>2. CASE \E i \in Ids : Proving(i)
  <2>1. PICK i \in Ids : Proving(i)
    BY <1>2
  <2>2. \/ s = S /\ wire[s] = <<OpenPacket(i, "auth")>> /\ chan[S][i] = NoChannel
        \/ s = C /\ wire[s] = <<ResultPacket(i, TRUE, "none")>> /\ chan[C][i].type = "auth"
        \/ s = S /\ wire[s] = <<DataPacket(i, "proof")>> /\ chan[S][i].type = "auth"
    BY <1>0, <2>1 DEF Proving
  <2> QED BY <2>2, OnePacket
<1>3. CASE \E i \in Ids : Proved(i)
  <2>1. PICK i \in Ids : Proved(i)
    BY <1>3
  <2>2. s = C /\ chan[C][i].type = "auth" /\ 
        \/ wire[C][1] = DataPacket(i, "known")
        \/ wire[C] = <<DataPacket(i, "unknown"), ClosePacket(i)>>
    BY <1>0, <2>1 DEF Proved
  <2>3. wire[C] \in Seq(Packet)
    BY <2>2 DEF IInv, WiresOK
  <2>4. Head(wire[C]) = wire[C][1]
    BY <2>2, <2>3, Shrunk
  <2>5. wire[C][1] = DataPacket(i, "known") \/ wire[C][1] = DataPacket(i, "unknown")
    BY <2>2
  <2> QED BY <2>2, <2>4, <2>5
<1> QED BY <1>1, <1>2, <1>3 DEF Stages

\* Once the authentication is over, it stays so.
LEMMA ServingKept ==
  ASSUME IInv, Serving,
         NEW s \in Side, NEW rd \in BOOLEAN, NEW ps \in Seq(Packet), NEW i \in Ids, NEW c,
         Acts(s, rd, ps, i, c), c.type # "auth", \A n \in DOMAIN ps : Late(ps[n]),
         auth[S] \subseteq auth'[S]
  PROVE  Serving' /\ Stages'
<1> DEFINE q == Peer(s)
           W == Written(s, ps)
<1>1. /\ q \in Side /\ q # s /\ Side = {s, q}
      /\ wire[s] \in Seq(Packet) /\ wire[q] \in Seq(Packet)
      /\ wire'[s] = Rest(wire[s], rd) /\ wire'[q] = wire[q] \o W
      /\ W = IF Up(s) /\ sock[q] # "closed" THEN ps ELSE << >>
      /\ W \in Seq(Packet)
      /\ \A j \in Ids : chan'[s][j] = IF j = i THEN c ELSE chan[s][j]
      /\ chan'[q] = chan[q]
  BY ActFacts
<1> HIDE DEF q, W
<1>2. rd => wire[s] # << >>
  BY DEF Acts
<1>3. \A n \in DOMAIN wire'[s] : Late(wire'[s][n])
  <2>1. \A n \in DOMAIN Rest(wire[s], rd) : \E m \in DOMAIN wire[s] : Rest(wire[s], rd)[n] = wire[s][m]
    BY <1>1, <1>2, Unread
  <2> QED BY <1>1, <2>1 DEF Serving
<1>4. \A n \in DOMAIN wire'[q] : Late(wire'[q][n])
  <2> DEFINE w == wire[q]
  <2>1. w \in Seq(Packet) /\ wire'[q] = w \o W /\ (\A n \in DOMAIN w : Late(w[n])) /\ \A n \in DOMAIN W : Late(W[n])
    BY <1>1 DEF Serving
  <2> HIDE DEF w
  <2>2. ASSUME NEW n \in DOMAIN (w \o W) PROVE Late((w \o W)[n])
    <3>1. \/ n \in DOMAIN w /\ (w \o W)[n] = w[n]
          \/ n - Len(w) \in DOMAIN W /\ (w \o W)[n] = W[n - Len(w)]
      <4>1. w \in Seq(Packet) /\ W \in Seq(Packet)
        BY <1>1, <2>1
      <4> QED BY ONLY <4>1, <2>2, Grown
    <3> QED BY <2>1, <3>1
  <2> QED BY <2>1, <2>2
<1>5. \A x \in Side : \A j \in Ids : chan'[x][j].type # "auth"
  BY <1>1 DEF Serving
<1>6. Serving'
  BY <1>1, <1>3, <1>4, <1>5 DEF Serving
<1> QED BY <1>6 DEF Stages

-----------------------------------------------------------------------------
\* Steps that lose a side's end, and steps that change neither a table nor a
\* wire.

Gone(s) ==
  /\ sock' = [sock EXCEPT ![s] = "closed"]
  /\ chan' = [chan EXCEPT ![s] = NoChannels]
  /\ wire' = [wire EXCEPT ![s] = << >>]
  /\ UNCHANGED <<purpose, auth>>
  /\ \A x \in Side : queued'[x] \subseteq queued[x]

LEMMA GoneFacts ==
  ASSUME IInv, NEW s \in Side, Gone(s)
  PROVE  /\ sock'[s] = "closed" /\ chan'[s] = NoChannels /\ wire'[s] = << >>
         /\ sock'[Peer(s)] = sock[Peer(s)] /\ chan'[Peer(s)] = chan[Peer(s)]
         /\ wire'[Peer(s)] = wire[Peer(s)] /\ wire[Peer(s)] \in Seq(Packet)
         /\ Side = {s, Peer(s)} /\ Peer(Peer(s)) = s /\ Peer(s) \in Side /\ Peer(s) # s
         /\ UNCHANGED <<purpose, auth>>
BY Sides DEF IInv, WiresOK, TablesOK, PlainOK, Gone, Peer, Side

LEMMA GoneBasics ==
  ASSUME IInv, PacketsFit, ClosedOK, StrangersTables, FlowsOK, MirrorsOK, NEW s \in Side, Gone(s)
  PROVE  PacketsFit' /\ ClosedOK' /\ StrangersTables' /\ FlowsOK' /\ MirrorsOK'
<1> DEFINE q == Peer(s)
<1>1. /\ sock'[s] = "closed" /\ chan'[s] = NoChannels /\ wire'[s] = << >>
      /\ sock'[q] = sock[q] /\ chan'[q] = chan[q]
      /\ wire'[q] = wire[q] /\ wire[q] \in Seq(Packet)
      /\ Side = {s, q} /\ Peer(q) = s /\ q \in Side /\ q # s
      /\ UNCHANGED <<purpose, auth>>
  BY GoneFacts
<1>2. Known' = Known
  BY <1>1 DEF Known
<1> HIDE DEF q
<1>3. \A j \in Ids : NoChannels[j] = NoChannel /\ NoChannel.dir = "none" /\ NoChannel.type = "none"
  BY DEF NoChannels, NoChannel
<1>4. PacketsFit'
  BY <1>1, <1>2 DEF PacketsFit
<1>5. ClosedOK'
  BY <1>1 DEF ClosedOK
<1>6. StrangersTables'
  <2>1. \A x \in Side : chan'[x] = chan[x] \/ chan'[x] = NoChannels
    BY <1>1
  <2>2. chan'[C] = chan[C] \/ chan'[C] = NoChannels
    BY <2>1 DEF C, Side
  <2>3. chan'[S] = chan[S] \/ chan'[S] = NoChannels
    BY <2>1 DEF S, Side
  <2> QED BY <1>2, <1>3, <2>2, <2>3 DEF StrangersTables
<1>7. Flow(chan'[s], chan'[q], wire'[q], Up(s)')
  <2> DEFINE O == chan[s]
             P == chan'[s]
             R == chan[q]
             w == wire[q]
             up == Up(s)
  <2>1. w \in Seq(Packet) /\ up \in BOOLEAN /\ Flow(O, R, w, up)
    BY <1>1 DEF FlowsOK, q, Up
  <2>2. \A j \in Ids, u \in Types : Match(P[j], u, FALSE)
    BY <1>1, <1>3 DEF Match
  <2>3. << >> \in Seq(Packet) /\ NoOpens(<< >>) /\ FALSE \in BOOLEAN
    BY EmptySeq DEF NoOpens
  <2>4. w \o << >> = w
    BY <2>1
  <2> HIDE DEF O, P, R, w, up
  <2>5. Flow(P, R, w \o << >>, FALSE)
    BY <2>1, <2>2, <2>3, FlowWrite
  <2>6. Up(s)' = FALSE
    BY <1>1 DEF Up
  <2> QED BY <1>1, <2>4, <2>5, <2>6 DEF P, R, w
<1>8. Flow(chan'[q], chan'[s], wire'[s], Up(q)')
  <2>1. \A j \in Ids : chan'[s][j].dir # "in"
    BY <1>1, <1>3
  <2>2. Flow(chan'[q], chan'[s], << >>, Up(q)')
    BY <2>1, FlowEmpty
  <2> QED BY <1>1, <2>2
<1>9. FlowsOK'
  BY <1>1, <1>7, <1>8 DEF FlowsOK, q
<1>10. Mirror(chan'[s], chan'[q], wire'[q], wire'[s])
  <2>1. \A j \in Ids : chan'[s][j].dir # "out"
    BY <1>1, <1>3
  <2>2. Mirror(chan'[s], chan'[q], wire'[q], << >>)
    BY <2>1, MirrorEmpty
  <2> QED BY <1>1, <2>2
<1>11. ~Up(s)'
  BY <1>1 DEF Up
<1>12. MirrorsOK'
  BY <1>1, <1>10, <1>11 DEF MirrorsOK, q
<1> QED BY <1>4, <1>5, <1>6, <1>9, <1>12

\* What is at either end after a side's end is lost.
LEMMA GoneEnds ==
  ASSUME IInv, NEW s \in Side, Gone(s)
  PROVE  /\ C \in Side /\ S \in Side /\ C # S /\ (s = C \/ s = S)
         /\ s = C => /\ sock'[C] = "closed" /\ chan'[C] = NoChannels /\ wire'[C] = << >>
                     /\ sock'[S] = sock[S] /\ chan'[S] = chan[S] /\ wire'[S] = wire[S]
         /\ s = S => /\ sock'[S] = "closed" /\ chan'[S] = NoChannels /\ wire'[S] = << >>
                     /\ sock'[C] = sock[C] /\ chan'[C] = chan[C] /\ wire'[C] = wire[C]
         /\ purpose' = purpose /\ auth' = auth
         /\ queued'[C] \subseteq queued[C] /\ queued'[S] \subseteq queued[S]
         /\ \A i \in Ids : NoChannels[i] = NoChannel
         /\ NoChannel.type = "none" /\ NoChannel.dir = "none" /\ NoChannel.opened = FALSE
<1>1. C \in Side /\ S \in Side /\ C # S /\ (s = C \/ s = S)
  BY DEF C, S, Side
<1>2. (s = C => Peer(s) = S) /\ (s = S => Peer(s) = C)
  BY DEF C, S, Peer
<1>3. \A i \in Ids : NoChannels[i] = NoChannel
  BY DEF NoChannels
<1>4. NoChannel.type = "none" /\ NoChannel.dir = "none" /\ NoChannel.opened = FALSE
  BY DEF NoChannel
<1>5. queued'[C] \subseteq queued[C] /\ queued'[S] \subseteq queued[S]
  BY <1>1 DEF Gone
<1> QED BY <1>1, <1>2, <1>3, <1>4, <1>5, GoneFacts

LEMMA GoneStages ==
  ASSUME IInv, Stages, NEW s \in Side, Gone(s)
  PROVE  Stages'
<1> USE GoneEnds
<1>1. CASE Serving
  <2>1. \A x \in Side : x = C \/ x = S
    BY DEF Side, C, S
  <2>2. \A x \in Side : (wire'[x] = wire[x] \/ wire'[x] = << >>) /\ (chan'[x] = chan[x] \/ chan'[x] = NoChannels)
    BY <2>1
  <2>3. \A x \in Side : \A n \in DOMAIN wire'[x] : Late(wire'[x][n])
    BY <1>1, <2>2 DEF Serving
  <2>4. \A x \in Side : \A j \in Ids : chan'[x][j].type # "auth"
    BY <1>1, <2>2 DEF Serving
  <2> QED BY <1>1, <2>3, <2>4 DEF Serving, Stages
<1>2. CASE Greeting
  <2>1. Undecided' /\ Unproved'
    BY <1>2 DEF Greeting, Undecided, Unproved
  <2>2. chan'[C] = NoChannels /\ chan'[S] = NoChannels
    BY <1>2 DEF Greeting
  <2>3. \/ wire'[C] = << >> /\ wire'[S] = << >>
        \/ wire'[C] = << >> /\ \E p \in Packet : p.kind = "intro" /\ wire'[S] = <<p>>
        \/ wire'[S] = << >> /\ \E p \in Packet : p.kind = "version" /\ wire'[C] = <<p>>
    <3>1. CASE s = C
      BY <1>2, <3>1 DEF Greeting
    <3>2. CASE s = S
      BY <1>2, <3>2 DEF Greeting
    <3> QED BY <3>1, <3>2
  <2> QED BY <2>1, <2>2, <2>3 DEF Greeting, Stages
<1>3. CASE \E i \in Ids : Proving(i)
  <2>1. PICK i \in Ids : Proving(i)
    BY <1>3
  <2>2. Undecided' /\ Unproved'
    BY <2>1 DEF Proving, Undecided, Unproved
  <2>3. OnlyAuth(C, i)' /\ OnlyAuth(S, i)'
    BY <2>1 DEF Proving, OnlyAuth
  <2>4. CASE s = C
    BY <2>1, <2>2, <2>3, <2>4 DEF Proving, Stages, Waiting
  <2>5. CASE s = S
    BY <2>1, <2>2, <2>3, <2>5 DEF Proving, Stages, Waiting
  <2> QED BY <2>4, <2>5
<1>4. CASE \E i \in Ids : Proved(i)
  <2>1. PICK i \in Ids : Proved(i)
    BY <1>4
  <2>2. Undecided' /\ OnlyAuth(C, i)'
    BY <2>1 DEF Proved, Undecided, OnlyAuth
  <2>3. /\ "HiddenServiceAuth" \in auth'[S] /\ wire'[S] = << >>
        /\ \A j \in Ids : chan'[S][j].type \notin {"auth", "request"} /\ ~chan'[S][j].opened
        /\ "closeRequest" \notin queued'[S] /\ purpose'[S] \in {"Unknown", "KnownContact"}
    BY <2>1 DEF Proved
  <2>4. CASE s = C
    BY <2>2, <2>3, <2>4 DEF Proved, Stages
  <2>5. CASE s = S
    <3>1. ~Up(S)'
      BY <2>5 DEF Up
    <3>2. CASE wire[C] = << >>
      BY <2>2, <2>3, <2>5, <3>1, <3>2 DEF Proved, Stages
    <3>3. CASE /\ wire[C] # << >> /\ wire[C][1] = DataPacket(i, "known")
               /\ purpose[S] = "KnownContact" /\ chan[C][i].type = "auth"
               /\ \A n \in DOMAIN wire[C] : n # 1 => OpensOrCloses(wire[C][n], i)
      BY <2>2, <2>3, <2>5, <3>3 DEF Proved, Stages
    <3>4. CASE /\ wire[C] = <<DataPacket(i, "unknown"), ClosePacket(i)>>
               /\ purpose[S] = "Unknown" /\ chan[S] = NoChannels /\ queued[S] = {}
               /\ chan[C][i].type = "auth"
      BY <2>2, <2>3, <2>5, <3>4 DEF Proved, Stages
    <3> QED BY <2>1, <3>2, <3>3, <3>4 DEF Proved
  <2> QED BY <2>4, <2>5
<1> QED BY <1>1, <1>2, <1>3, <1>4 DEF Stages

LEMMA GoneKeeps ==
  ASSUME IInv, Deep, NEW s \in Side, Gone(s)
  PROVE  Deep'
<1> USE GoneEnds
<1>1. PacketsFit' /\ ClosedOK' /\ StrangersTables' /\ FlowsOK' /\ MirrorsOK'
  BY GoneBasics DEF Deep
<1>2. Stages'
  BY GoneStages DEF Deep
<1>3. RequestOK'
  <2>1. Fewer(wire'[S], wire[S], RequestOpens)
    BY FewerEmpty, FewerSame
  <2>2. Fewer(wire'[C], wire[C], Answers)
    BY FewerEmpty, FewerSame
  <2>3. Judged' \subseteq Judged
    BY DEF Judged
  <2>4. Asked' => Asked
    BY DEF Asked
  <2>5. \A q \in Ids : Requested(chan[C], Up(C), q) => Requested(chan'[C], Up(C)', q)
    BY DEF Requested, Up
  <2>6. \A q \in Ids : chan'[C][q].type = "request" =>
           chan[C][q].type = "request" /\ purpose'[C] = "OutboundRequest"
    BY DEF Deep, RequestOK
  <2>7. RequestOK /\ purpose'[S] = purpose[S]
    BY DEF Deep
  <2>8. PacketsFit
    BY DEF Deep
  <2> QED BY ONLY IInv, <2>1, <2>2, <2>3, <2>4, <2>5, <2>6, <2>7, <2>8, RequestFewer
<1>4. TrustComes'
  <2>1. CASE s = C
    BY <2>1 DEF TrustComes, Up
  <2>2. CASE s = S
    BY <2>2 DEF Deep, TrustComes, Up, Known, Trusted, S
  <2> QED BY <2>1, <2>2
<1> QED BY <1>1, <1>2, <1>3, <1>4 DEF Deep

\* A step that at most drops posted calls or begins to close the socket.
Quiet(s) ==
  /\ UNCHANGED <<chan, wire, purpose, auth>>
  /\ \A x \in Side : queued'[x] \subseteq queued[x]
  /\ sock' = sock \/ (Up(s) /\ sock' = [sock EXCEPT ![s] = "closing"])

LEMMA QuietKeepsDeep ==
  ASSUME IInv, Deep, NEW s \in Side, Quiet(s)
  PROVE  Deep'
<1>0. /\ C \in Side /\ S \in Side /\ \A x \in Side : x = C \/ x = S
      /\ chan' = chan /\ wire' = wire /\ purpose' = purpose /\ auth' = auth
      /\ queued'[C] \subseteq queued[C] /\ queued'[S] \subseteq queued[S]
  BY DEF C, S, Side, Quiet
<1>1. \A x \in Side : (sock[x] = "closed" => sock'[x] = "closed") /\ (Up(x)' => Up(x))
  BY DEF IInv, PlainOK, Quiet, Up
<1>2. PacketsFit' /\ ClosedOK' /\ StrangersTables' /\ FlowsOK' /\ MirrorsOK'
  <2>1. CASE sock' = sock
    BY <1>0, <2>1 DEF Deep, PacketsFit, ClosedOK, StrangersTables, FlowsOK, MirrorsOK, Up, Known
  <2>2. CASE Up(s) /\ sock' = [sock EXCEPT ![s] = "closing"]
    <3> DEFINE c == chan[s][1]
    <3>1. 1 \in Ids /\ << >> \in Seq(Packet) /\ FALSE \in BOOLEAN
      BY MaxIdAssumption, EmptySeq DEF Ids
    <3>2. Acts(s, FALSE, << >>, 1, c)
      <4>1. /\ sock[s] # "closed"
            /\ sock' = sock \/ (Up(s) /\ sock' = [sock EXCEPT ![s] = "closing"])
        BY <2>2 DEF Up
      <4>2. chan' = [chan EXCEPT ![s][1] = c]
        BY <1>0, <3>1 DEF IInv, TablesOK
      <4>3. Peer(s) \in Side /\ wire \in [Side -> Seq(Packet)]
        BY Sides DEF IInv, WiresOK
      <4>4. Written(s, << >>) = << >> /\ wire[Peer(s)] \o << >> = wire[Peer(s)]
        BY <4>3 DEF Written
      <4>5. wire' = [wire EXCEPT ![s] = Rest(wire[s], FALSE), ![Peer(s)] = @ \o Written(s, << >>)]
        BY <1>0, <4>3, <4>4 DEF Rest
      <4> QED BY <4>1, <4>2, <4>5 DEF Acts
    <3>3. Shape(s, FALSE, << >>, 1, c)
      BY DEF Shape, Stays, Plain, Takes
    <3>4. Writes(s, << >>, Known') /\ (Known => Known')
      BY <1>0 DEF Writes, Known
    <3> HIDE DEF c
    <3>5. PacketsFit /\ ClosedOK /\ StrangersTables /\ FlowsOK /\ MirrorsOK
      BY DEF Deep
    <3> QED BY ONLY IInv, s \in Side, <3>1, <3>2, <3>3, <3>4, <3>5, ActKeeps
  <2> QED BY <2>1, <2>2 DEF Quiet
<1>3. Stages'
  <2>1. CASE Serving
    BY <1>0, <2>1 DEF Serving, Stages
  <2>2. CASE Greeting
    BY <1>0, <2>2 DEF Greeting, Stages, Undecided, Unproved
  <2>3. ASSUME NEW i \in Ids, Proving(i) PROVE Proving(i)'
    <3>1. Undecided' /\ Unproved' /\ OnlyAuth(C, i)' /\ OnlyAuth(S, i)'
      BY <1>0, <2>3 DEF Proving, Undecided, Unproved, OnlyAuth
    <3> QED BY <1>0, <1>1, <2>3, <3>1 DEF Proving, Waiting
  <2>4. ASSUME NEW i \in Ids, Proved(i) PROVE Proved(i)'
    <3>1. Undecided' /\ OnlyAuth(C, i)'
      BY <1>0, <2>4 DEF Proved, Undecided, OnlyAuth
    <3> QED BY <1>0, <1>1, <2>4, <3>1 DEF Proved
  <2> QED BY <2>1, <2>2, <2>3, <2>4 DEF Deep, Stages
<1>4. RequestOK'
  <2>1. Fewer(wire'[S], wire[S], RequestOpens) /\ Fewer(wire'[C], wire[C], Answers)
    BY <1>0, FewerSame
  <2>2. Judged' \subseteq Judged /\ (Asked' => Asked)
    BY <1>0 DEF Judged, Asked
  <2>3. \A q \in Ids : Requested(chan[C], Up(C), q) => Requested(chan'[C], Up(C)', q)
    BY <1>0, <1>1 DEF Requested
  <2>4. \A q \in Ids : chan'[C][q].type = "request" =>
           chan[C][q].type = "request" /\ purpose'[C] = "OutboundRequest"
    BY <1>0 DEF Deep, RequestOK
  <2>5. PacketsFit /\ RequestOK /\ purpose'[S] = purpose[S]
    BY <1>0 DEF Deep
  <2> QED BY ONLY IInv, <2>1, <2>2, <2>3, <2>4, <2>5, RequestFewer
<1>5. TrustComes'
  BY <1>0, <1>1 DEF Deep, TrustComes, Known, Trusted
<1> QED BY <1>2, <1>3, <1>4, <1>5 DEF Deep

-----------------------------------------------------------------------------
\* The packet that is read next.

LEMMA PacketForm ==
  ASSUME NEW p \in Packet
  PROVE  /\ p.kind = "open" => p = OpenPacket(p.id, p.type) /\ p.id \in Ids /\ p.type \in Types
         /\ p.kind = "close" => p = ClosePacket(p.id)
         /\ p.kind = "data" => p = DataPacket(p.id, p.body) /\ p.id \in Ids /\ p.body \in Bodies
BY DEF Packet, OpenPacket, ClosePacket, DataPacket

\* An OpenChannel finds its identifier free, and no inbound channel of its type.
LEMMA NoneBefore ==
  ASSUME IInv, FlowsOK, NEW s \in Side, NEW i \in Ids, NEW t \in Types,
         wire[s] # << >>, Head(wire[s]) = OpenPacket(i, t), NEW j \in Ids,
         chan[s][j].dir = "in", chan[s][j].type \in Types
  PROVE  j # i /\ chan[s][j].type # t
<1>1. Peer(s) \in Side /\ Peer(Peer(s)) = s
  BY DEF Side, Peer
<1>2. Orderly(chan[s], wire[s])
  BY <1>1 DEF FlowsOK, Flow
<1>3. wire[s] \in Seq(Packet)
  BY DEF IInv, WiresOK
<1>4. 1 \in DOMAIN wire[s] /\ wire[s][1] = OpenPacket(i, t) /\ DOMAIN wire[s] \subseteq Nat
  BY <1>3, Shrunk
<1>5. Opening(chan[s], wire[s], 0, j, chan[s][j].type)
  BY DEF Opening, InTable
<1>6. ~ClosedBetween(wire[s], j, 0, 1)
  BY <1>4 DEF ClosedBetween
<1>7. 0 \in Nat /\ 0 < 1
  OBVIOUS
<1> QED BY <1>2, <1>4, <1>5, <1>6, <1>7 DEF Orderly

LEMMA EarlyUnproved ==
  ASSUME Stages, ~Serving, wire[S] # << >>
  PROVE  Unproved
BY DEF Stages, Greeting, Proving, Proved

LEMMA OpenAtHead ==
  ASSUME IInv, Deep, NEW s \in Side, Reads(s, "open")
  PROVE  LET p == Head(wire[s]) IN
         /\ wire[s] # << >> /\ p.id \in Ids /\ p.type \in Types
         /\ p = OpenPacket(p.id, p.type)
         /\ ValidInboundId(s, p.id)
         /\ Up(s) => AllowInbound(s, p.type)
         /\ s = C => p.type \in Chats
         /\ ~Serving => s = S /\ p.type = "auth"
         /\ Serving => p.type # "auth"
<1> DEFINE p == Head(wire[s])
           i == p.id
           t == p.type
<1>1. wire[s] # << >> /\ p.kind = "open" /\ sock[s] # "closed"
  BY DEF Reads
<1>2. Fit(s, p, Known) /\ p \in Packet
  BY <1>1, HeadFits DEF Deep
<1>3. i \in Ids /\ t \in Types /\ p = OpenPacket(i, t)
  BY <1>1, <1>2, PacketForm
<1>4. p \in To(s, Trusted) /\ Trusted \in BOOLEAN
  BY <1>1, HeadFacts DEF IInv
<1>5. s = C => t \in Chats
  BY <1>1, <1>4, PacketFields, Ends DEF Chats
<1>6. wire[s] \in Seq(Packet)
  BY DEF IInv, WiresOK
<1>7. 1 \in DOMAIN wire[s] /\ wire[s][1] = p /\ \A n \in DOMAIN wire[s] : n \in Nat /\ 0 < n
  BY <1>1, <1>6, Shrunk
<1> HIDE DEF p, i, t
<1>8. OwnParity(Peer(s), i)
  BY <1>1, <1>2 DEF Fit, i
<1>9. \A j \in Ids : chan[s][j].dir = "in" /\ chan[s][j].type \in Types => j # i /\ chan[s][j].type # t
  BY <1>1, <1>3, NoneBefore DEF Deep, p
<1>10. chan[s][i] = NoChannel
  BY <1>3, <1>8, <1>9, Parity
<1>11. ValidInboundId(s, i)
  BY <1>8, <1>10 DEF ValidInboundId
<1>12. Serving => t # "auth"
  BY <1>1, <1>7 DEF Serving, Late, t
<1>13. ~Serving => s = S /\ t = "auth"
  <2> SUFFICES ASSUME ~Serving PROVE s = S /\ t = "auth"
    OBVIOUS
  <2>0. \A b, x : ResultPacket(x, TRUE, b).kind = "result" /\ DataPacket(x, b).kind = "data" /\ OpenPacket(x, b).type = b
    BY DEF ResultPacket, DataPacket, OpenPacket
  <2>1. \/ s = S /\ p.kind = "intro"
        \/ s = C /\ p.kind = "version"
        \/ s = S /\ \E x \in Ids : p = OpenPacket(x, "auth") /\ chan[S][x] = NoChannel
        \/ s = C /\ \E x \in Ids : p = ResultPacket(x, TRUE, "none") /\ chan[C][x].type = "auth"
        \/ s = S /\ \E x \in Ids : p = DataPacket(x, "proof") /\ chan[S][x].type = "auth"
        \/ s = C /\ \E x \in Ids : /\ p = DataPacket(x, "known") \/ p = DataPacket(x, "unknown")
                                   /\ chan[C][x].type = "auth"
    BY <1>1, EarlyHeads DEF Deep, p
  <2>2. s = S /\ \E x \in Ids : p = OpenPacket(x, "auth") /\ chan[S][x] = NoChannel
    BY <1>1, <2>0, <2>1
  <2> QED BY <2>0, <2>2 DEF t
<1>14. ASSUME Up(s) PROVE AllowInbound(s, t)
  <2>1. \A j \in Ids : chan[s][j].type = t => chan[s][j].dir # "in"
    BY <1>3, <1>9
  <2>2. CASE t = "auth"
    <3>1. s = S /\ ~Serving
      BY <1>5, <1>12, <2>2, Ends DEF Chats
    <3>2. "HiddenServiceAuth" \notin auth[s]
      BY <1>1, <3>1, EarlyUnproved DEF Deep, Unproved
    <3>3. \A j \in Ids : chan[s][j].type # "auth"
      BY <2>1, <2>2, <3>1, Parity, Ends
    <3> QED BY <2>2, <3>1, <3>2, <3>3, Ends DEF AllowInbound, HasChannel
  <2>3. CASE t = "request"
    <3>1. s = S /\ Serving
      BY <1>5, <1>13, <2>3, Ends DEF Chats
    <3>2. 1 \in Asking
      BY <1>3, <1>7, <2>3, <3>1 DEF Asking, At, RequestOpens
    <3>3. purpose[s] = "Unknown"
      BY <3>1, <3>2 DEF Deep, RequestOK
    <3>4. \A j \in Ids : chan[s][j].type # "request"
      BY <2>1, <2>3, <3>1, Parity, Ends
    <3> QED BY <2>3, <3>1, <3>3, <3>4, Ends DEF AllowInbound, HasChannel, Serving
  <2>4. CASE t \in Chats
    <3>1. purpose[s] = "KnownContact"
      <4>1. CASE s = S
        <5>1. Known
          BY <1>1, <1>2, <2>4, <4>1, Ends DEF Fit, t
        <5> QED BY <4>1, <5>1, Ends DEF Known, IInv, TrustOK, TrustIsMutual
      <4>2. CASE s = C
        <5>1. ~ \E m \in DOMAIN wire[C] : m < 1
          BY <1>7, <4>2
        <5>2. Known
          BY <1>1, <1>7, <1>14, <4>2, <5>1 DEF Deep, TrustComes
        <5> QED BY <4>2, <5>2 DEF Known
      <4> QED BY <4>1, <4>2, Ends
    <3>2. ~HasChannelDir(s, t, "in")
      BY <2>1 DEF HasChannelDir
    <3> QED BY <2>4, <3>1, <3>2 DEF AllowInbound, Chats
  <2> QED BY <1>3, <2>2, <2>3, <2>4 DEF Types, Chats
<1> QED BY <1>1, <1>3, <1>5, <1>11, <1>12, <1>13, <1>14 DEF p, i, t

LEMMA DataAtHead ==
  ASSUME IInv, Deep, NEW s \in Side, Reads(s, "data")
  PROVE  LET p == Head(wire[s])
             c == chan[s][p.id] IN
         /\ wire[s] # << >> /\ p.id \in Ids /\ p = DataPacket(p.id, p.body)
         /\ c.type = "auth" =>
              /\ ~Serving /\ (s = S <=> c.dir = "in")
              /\ p.body \in IF s = S THEN {"proof"} ELSE {"known", "unknown"}
         /\ c.type = "request" => /\ Serving /\ s = C /\ c.dir = "out"
                                  /\ p.body \in {"Accepted", "Rejected"}
         /\ c.type \in Chats =>
              Serving /\ p.body = IF c.dir = "in" THEN "message" ELSE "ack"
         /\ c.type = "none" => Serving
<1> DEFINE p == Head(wire[s])
           i == p.id
           c == chan[s][i]
<1>1. wire[s] # << >> /\ p.kind = "data" /\ sock[s] # "closed"
  BY DEF Reads
<1>2. Fit(s, p, Known) /\ p \in Packet
  BY <1>1, HeadFits DEF Deep
<1>3. i \in Ids /\ p = DataPacket(i, p.body) /\ p.body \in Bodies
  BY <1>1, <1>2, PacketForm
<1>4. p \in To(s, Trusted) /\ Trusted \in BOOLEAN
  BY <1>1, HeadFacts DEF IInv
<1>5. s = S => p.body \in {"proof", "message", "ack"}
  BY <1>1, <1>4, PacketFields, Ends
<1>5a. s = C => p.body # "proof"
  BY <1>1, <1>4, PacketFields, Ends
<1>6. wire[s] \in Seq(Packet)
  BY DEF IInv, WiresOK
<1>7. 1 \in DOMAIN wire[s] /\ wire[s][1] = p
  BY <1>1, <1>6, Shrunk
<1> HIDE DEF p, i
<1>8. /\ p.body \in {"message", "proof"} => OwnParity(Peer(s), i)
      /\ p.body \notin {"message", "proof"} => OwnParity(s, i)
      /\ p.body \notin {"Pending", "Error"}
      /\ s = S /\ p.body = "message" => Known
      /\ s = C /\ p.body = "ack" => Known
  BY <1>1, <1>2, Ends DEF Fit, i
<1>9. Serving => p.body \notin {"proof", "known", "unknown"} /\ c.type # "auth"
  BY <1>1, <1>3, <1>7 DEF Serving, Late
<1>10. ~Serving =>
         /\ c.type = "auth"
         /\ p.body \in IF s = S THEN {"proof"} ELSE {"known", "unknown"}
  <2> SUFFICES ASSUME ~Serving
               PROVE  c.type = "auth" /\ p.body \in IF s = S THEN {"proof"} ELSE {"known", "unknown"}
    OBVIOUS
  <2>0. \A b, x : /\ ResultPacket(x, TRUE, b).kind = "result" /\ OpenPacket(x, b).kind = "open"
                  /\ DataPacket(x, b).id = x /\ DataPacket(x, b).body = b
    BY DEF ResultPacket, DataPacket, OpenPacket
  <2>1. \/ s = S /\ p.kind = "intro"
        \/ s = C /\ p.kind = "version"
        \/ s = S /\ \E x \in Ids : p = OpenPacket(x, "auth") /\ chan[S][x] = NoChannel
        \/ s = C /\ \E x \in Ids : p = ResultPacket(x, TRUE, "none") /\ chan[C][x].type = "auth"
        \/ s = S /\ \E x \in Ids : p = DataPacket(x, "proof") /\ chan[S][x].type = "auth"
        \/ s = C /\ \E x \in Ids : /\ p = DataPacket(x, "known") \/ p = DataPacket(x, "unknown")
                                   /\ chan[C][x].type = "auth"
    BY <1>1, EarlyHeads DEF Deep, p
  <2>2. \/ s = S /\ \E x \in Ids : p = DataPacket(x, "proof") /\ chan[S][x].type = "auth"
        \/ s = C /\ \E x \in Ids : /\ p = DataPacket(x, "known") \/ p = DataPacket(x, "unknown")
                                   /\ chan[C][x].type = "auth"
    BY <1>1, <2>0, <2>1
  <2> QED BY <2>0, <2>2, Ends DEF i
<1>11. c.type = "auth" => (s = S <=> c.dir = "in")
  BY <1>3, Parity, Ends DEF NoChannel
<1>12. ASSUME c.type = "request"
       PROVE  Serving /\ s = C /\ c.dir = "out" /\ p.body \in {"Accepted", "Rejected"}
  <2>1. Serving
    BY <1>10, <1>12
  <2>2. c # NoChannel /\ (c.dir = "out" <=> s = C) /\ (c.dir = "out" <=> OwnParity(s, i))
    BY <1>3, <1>12, Parity DEF NoChannel
  <2>3. CASE s = S
    <3>1. p.body = "message"
      BY <1>3, <1>5, <1>8, <1>9, <2>1, <2>2, <2>3, Ends
    <3>2. i \in Judged /\ Known
      BY <1>3, <1>8, <1>12, <2>3, <3>1 DEF Judged
    <3>3. purpose[S] # "KnownContact"
      BY <3>2 DEF Deep, RequestOK
    <3> QED BY <3>2, <3>3, Ends DEF Known, IInv, TrustOK, TrustIsMutual
  <2>4. CASE s = C
    <3>1. ~Known
      BY <1>3, <1>12, <2>4 DEF Deep, RequestOK, Known
    <3>2. p.body \notin {"message", "proof"}
      BY <1>3, <1>8, <2>2, <2>4, Parity
    <3> QED BY <1>3, <1>8, <1>9, <2>1, <2>2, <2>4, <3>1, <3>2 DEF Bodies, Responses
  <2> QED BY <2>3, <2>4, Ends
<1>13. ASSUME c.type \in Chats
       PROVE  Serving /\ p.body = IF c.dir = "in" THEN "message" ELSE "ack"
  <2>1. Serving
    BY <1>10, <1>13 DEF Chats
  <2>2. c # NoChannel /\ c.dir \in {"in", "out"} /\ (c.dir = "out" <=> OwnParity(s, i))
    BY <1>3, <1>13, Parity DEF NoChannel, Chats
  <2>3. CASE c.dir = "in"
    <3>1. p.body \in {"message", "proof"}
      BY <1>8, <2>2, <2>3
    <3> QED BY <1>9, <2>1, <2>3, <3>1
  <2>4. CASE c.dir = "out"
    <3>1. p.body \notin {"message", "proof"}
      BY <1>3, <1>8, <2>2, <2>4, Parity
    <3>2. CASE s = S
      BY <1>5, <2>1, <2>4, <3>1, <3>2
    <3>3. CASE s = C
      <4>1. p.body # "Accepted" /\ p.body # "Rejected"
        <5> SUFFICES ASSUME p.body \in {"Accepted", "Rejected"} PROVE FALSE
          OBVIOUS
        <5>1. 1 \in Answering
          BY <1>3, <1>7, <3>3 DEF Answering, At, Answers, Responses, DataPacket
        <5>2. Requested(chan[C], Up(C), wire[C][1].id)
          BY <5>1 DEF Deep, RequestOK
        <5> QED BY <1>7, <1>13, <2>2, <3>3, <5>2 DEF Requested, i, Chats
      <4> QED BY <1>3, <1>8, <1>9, <2>1, <2>4, <3>1, <4>1 DEF Bodies, Responses
    <3> QED BY <3>2, <3>3, Ends
  <2> QED BY <2>1, <2>2, <2>3, <2>4
<1>14. c.type = "none" => Serving
  BY <1>10
<1> QED BY <1>1, <1>3, <1>9, <1>10, <1>11, <1>12, <1>13, <1>14 DEF p, i

-----------------------------------------------------------------------------
\* The actions as such steps.

LEMMA Deeper ==
  ASSUME IInv, Deep,
         NEW s \in Side, NEW rd \in BOOLEAN, NEW ps \in Seq(Packet), NEW i \in Ids, NEW c,
         Acts(s, rd, ps, i, c), Shape(s, rd, ps, i, c), Writes(s, ps, Known'), Known => Known',
         Stages', RequestOK', TrustComes'
  PROVE  Deep'
<1>1. PacketsFit /\ ClosedOK /\ StrangersTables /\ FlowsOK /\ MirrorsOK
  BY DEF Deep
<1>2. PacketsFit' /\ ClosedOK' /\ StrangersTables' /\ FlowsOK' /\ MirrorsOK'
  BY <1>1, ActKeeps
<1> QED BY <1>2 DEF Deep

LEMMA ReplyActs ==
  ASSUME IInv, NEW s \in Side, NEW ps, NEW i \in Ids, NEW c,
         sock[s] # "closed", wire[s] # << >>, Reply(s, ps),
         chan' = [chan EXCEPT ![s][i] = c],
         sock' = sock \/ (Up(s) /\ sock' = [sock EXCEPT ![s] = "closing"])
  PROVE  Acts(s, TRUE, ps, i, c)
<1>1. wire' = [wire EXCEPT ![s] = Rest(wire[s], TRUE), ![Peer(s)] = @ \o Written(s, ps)]
  BY DEF Reply, Rest
<1> QED BY <1>1 DEF Acts

LEMMA SendActs ==
  ASSUME IInv, NEW s \in Side, NEW ps, NEW i \in Ids, NEW c,
         sock[s] # "closed", Send(s, ps),
         chan' = [chan EXCEPT ![s][i] = c],
         sock' = sock \/ (Up(s) /\ sock' = [sock EXCEPT ![s] = "closing"])
  PROVE  Acts(s, FALSE, ps, i, c)
<1>1. wire \in [Side -> Seq(Packet)] /\ Peer(s) \in Side /\ Peer(s) # s
  BY Sides DEF IInv, WiresOK
<1>2. wire' = [wire EXCEPT ![s] = Rest(wire[s], FALSE), ![Peer(s)] = @ \o Written(s, ps)]
  BY <1>1 DEF Send, Rest
<1> QED BY <1>2 DEF Acts

LEMMA ClosingIf ==
  ASSUME NEW s \in Side, NEW b \in BOOLEAN, CloseIf(s, b)
  PROVE  /\ sock' = sock \/ (Up(s) /\ sock' = [sock EXCEPT ![s] = "closing"])
         /\ ~b => sock' = sock
BY DEF CloseIf, Up

LEMMA ClosedIf ==
  ASSUME IInv, NEW s \in Side, CloseIf(s, TRUE)
  PROVE  ~Up(s)'
BY DEF CloseIf, Up, IInv, PlainOK

\* Opening a channel, after reading a packet or not.
LEMMA OpenActs ==
  ASSUME IInv, NEW s \in Side, NEW rd \in BOOLEAN, NEW t \in Types,
         sock[s] # "closed", rd => wire[s] # << >>,
         OpenChannel(s, t, Rest(wire[s], rd)),
         UNCHANGED <<purpose, auth>>, \A x \in Side : queued'[x] \subseteq queued[x]
  PROVE  \/ Gone(s)
         \/ /\ Acts(s, rd, << >>, 1, chan[s][1]) /\ sock' = sock /\ chan' = chan
         \/ \E i \in Ids :
              /\ OwnParity(s, i) /\ AllowOutbound(s, t) /\ Up(s) /\ chan[s][i] = NoChannel
              /\ Acts(s, rd, <<OpenPacket(i, t)>>, i, [type |-> t, dir |-> "out", opened |-> FALSE])
              /\ sock' = sock
<1>1. CASE SearchEnds(s) = {}
  BY <1>1 DEF OpenChannel, Gone
<1>2. CASE SearchEnds(s) # {}
  <2>1. PICK i \in SearchEnds(s) :
          LET mine == OwnParity(s, i)
              good == mine /\ AllowOutbound(s, t) /\ sock[s] = "connected"
          IN
          /\ chan' = IF good
                     THEN [chan EXCEPT ![s][i] = [type |-> t, dir |-> "out", opened |-> FALSE]]
                     ELSE chan
          /\ wire' = [wire EXCEPT
                        ![s] = Rest(wire[s], rd),
                        ![Peer(s)] = IF good THEN @ \o Written(s, <<OpenPacket(i, t)>>) ELSE @]
          /\ UNCHANGED sock
    BY <1>2 DEF OpenChannel
  <2>2. i \in Ids
    BY SearchInIds DEF IInv, PlainOK
  <2>3. i \notin Used(s)
    <3>1. SearchEnds(s) \cap Used(s) = {}
      BY DEF SearchEnds
    <3> QED BY <3>1
  <2>4. chan[s][i] = NoChannel
    BY <2>2, <2>3 DEF Used
  <2>5. wire \in [Side -> Seq(Packet)] /\ Peer(s) \in Side /\ Peer(s) # s
    BY Sides DEF IInv, WiresOK
  <2>6. CASE OwnParity(s, i) /\ AllowOutbound(s, t) /\ sock[s] = "connected"
    <3>1. wire' = [wire EXCEPT ![s] = Rest(wire[s], rd), ![Peer(s)] = @ \o Written(s, <<OpenPacket(i, t)>>)]
      BY <2>1, <2>6
    <3>2. chan' = [chan EXCEPT ![s][i] = [type |-> t, dir |-> "out", opened |-> FALSE]] /\ sock' = sock
      BY <2>1, <2>6
    <3> QED BY <2>2, <2>4, <2>6, <3>1, <3>2 DEF Acts, Up
  <2>7. CASE ~(OwnParity(s, i) /\ AllowOutbound(s, t) /\ sock[s] = "connected")
    <3>1. wire' = [wire EXCEPT ![s] = Rest(wire[s], rd), ![Peer(s)] = @] /\ chan' = chan /\ sock' = sock
      BY <2>1, <2>7
    <3>2. Written(s, << >>) = << >> /\ wire[Peer(s)] \o << >> = wire[Peer(s)]
      BY <2>5 DEF Written
    <3>3. wire' = [wire EXCEPT ![s] = Rest(wire[s], rd), ![Peer(s)] = @ \o Written(s, << >>)]
      BY <2>5, <3>1, <3>2
    <3>4. 1 \in Ids
      BY MaxIdAssumption DEF Ids
    <3>5. chan' = [chan EXCEPT ![s][1] = chan[s][1]]
      BY <3>1, <3>4 DEF IInv, TablesOK
    <3> QED BY <3>1, <3>3, <3>5 DEF Acts
  <2> QED BY <2>6, <2>7
<1> QED BY <1>1, <1>2

\* Packets that neither ask nor answer a contact request.
Unasking(s, ps) ==
  \A n \in DOMAIN ps : ps[n] \notin IF s = C THEN RequestOpens ELSE Answers

\* A step that neither asks nor answers, in which the client drops its request
\* only as it closes.
LEMMA MildRequest ==
  ASSUME IInv, Deep,
         NEW s \in Side, NEW rd \in BOOLEAN, NEW ps \in Seq(Packet), NEW i \in Ids, NEW c,
         Acts(s, rd, ps, i, c), Unasking(s, ps), purpose' = purpose, Asked' => Asked,
         c.type = "request" => chan[s][i].type = "request",
         s = C /\ chan[C][i].type = "request" => c.type = "request" \/ (c = NoChannel /\ ~Up(C)'),
         s = C /\ chan[C][i] = NoChannel => c = NoChannel \/ Up(C) \/ ~OwnParity(C, i)
  PROVE  RequestOK'
<1>1. /\ wire[s] \in Seq(Packet) /\ wire[Peer(s)] \in Seq(Packet)
      /\ wire'[s] = Rest(wire[s], rd) /\ wire'[Peer(s)] = wire[Peer(s)] \o Written(s, ps)
      /\ Written(s, ps) = IF Up(s) /\ sock[Peer(s)] # "closed" THEN ps ELSE << >>
      /\ Written(s, ps) \in Seq(Packet)
      /\ \A j \in Ids : chan'[s][j] = IF j = i THEN c ELSE chan[s][j]
      /\ chan'[Peer(s)] = chan[Peer(s)]
      /\ (Up(s)' => Up(s))
  BY ONLY IInv, s \in Side, rd \in BOOLEAN, ps \in Seq(Packet), i \in Ids, Acts(s, rd, ps, i, c), ActFacts
<1>2. rd => wire[s] # << >>
  BY DEF Acts
<1>3. PacketsFit /\ RequestOK
  BY DEF Deep
<1>4. ASSUME NEW A PROVE Fewer(wire'[s], wire[s], A)
  BY <1>1, <1>2, FewerRest
<1>5. ASSUME NEW A, \A n \in DOMAIN ps : ps[n] \notin A
      PROVE  Fewer(wire'[Peer(s)], wire[Peer(s)], A)
  <2>1. \A n \in DOMAIN Written(s, ps) : Written(s, ps)[n] \notin A
    BY <1>1, <1>5
  <2> QED BY <1>1, <2>1, FewerGrown
<1>6. \A n \in DOMAIN ps : ps[n] \notin IF s = C THEN RequestOpens ELSE Answers
  BY DEF Unasking
<1>7. CASE s = C
  <2>1. Fewer(wire'[C], wire[C], Answers) /\ Fewer(wire'[S], wire[S], RequestOpens)
    BY <1>4, <1>5, <1>6, <1>7, Ends
  <2>2. Judged' \subseteq Judged
    BY <1>1, <1>7, Ends DEF Judged
  <2>3. ASSUME NEW q \in Ids, OwnParity(C, q), Requested(chan[C], Up(C), q)
        PROVE  Requested(chan'[C], Up(C)', q)
    <3>1. (Up(C)' => Up(C)) /\ chan'[C][q] = IF q = i THEN c ELSE chan[C][q]
      BY <1>1, <1>7
    <3>2. CASE q = i
      BY <1>7, <2>3, <3>1, <3>2 DEF Requested, NoChannel
    <3>3. CASE q # i
      BY <2>3, <3>1, <3>3 DEF Requested
    <3> QED BY <3>2, <3>3
  <2>4. ASSUME NEW q \in Ids, chan'[C][q].type = "request"
        PROVE  chan[C][q].type = "request" /\ purpose'[C] = "OutboundRequest"
    <3>1. chan[C][q].type = "request"
      BY <1>1, <1>7, <2>4
    <3> QED BY <1>3, <3>1 DEF RequestOK
  <2>5. purpose'[S] = purpose[S]
    OBVIOUS
  <2>6. \A q \in Ids : OwnParity(C, q) /\ Requested(chan[C], Up(C), q) => Requested(chan'[C], Up(C)', q)
    BY <2>3
  <2>7. \A q \in Ids : chan'[C][q].type = "request" =>
           chan[C][q].type = "request" /\ purpose'[C] = "OutboundRequest"
    BY <2>4
  <2> QED BY ONLY IInv, Asked' => Asked, <1>3, <2>1, <2>2, <2>5, <2>6, <2>7, RequestFewer
<1>8. CASE s = S
  <2>1. Fewer(wire'[C], wire[C], Answers) /\ Fewer(wire'[S], wire[S], RequestOpens)
    BY <1>4, <1>5, <1>6, <1>8, Ends
  <2>2. Judged' \subseteq Judged
    BY <1>1, <1>8 DEF Judged
  <2>3. chan'[C] = chan[C] /\ Up(C)' = Up(C)
    <3>1. Peer(s) = C
      BY <1>8, Ends
    <3>2. sock'[Peer(s)] = sock[Peer(s)]
      BY ActFacts
    <3> QED BY <1>1, <3>1, <3>2 DEF Up
  <2>4. \A q \in Ids : OwnParity(C, q) /\ Requested(chan[C], Up(C), q) => Requested(chan'[C], Up(C)', q)
    BY <2>3 DEF Requested
  <2>5. \A q \in Ids : chan'[C][q].type = "request" =>
           chan[C][q].type = "request" /\ purpose'[C] = "OutboundRequest"
    BY <1>3, <2>3 DEF RequestOK
  <2>6. purpose'[S] = purpose[S]
    OBVIOUS
  <2> QED BY ONLY IInv, Asked' => Asked, <1>3, <2>1, <2>2, <2>4, <2>5, <2>6, RequestFewer
<1> QED BY <1>7, <1>8, Ends

\* A step that changes nobody's regard for the connection.
LEMMA MildTrust ==
  ASSUME IInv, Deep,
         NEW s \in Side, NEW rd \in BOOLEAN, NEW ps \in Seq(Packet), NEW i \in Ids, NEW c,
         Acts(s, rd, ps, i, c), purpose' = purpose,
         s = C /\ Up(C)' /\ ~Known => /\ rd => ~Trusting(chan[C], Head(wire[C]))
                                      /\ chan[C][i].type \in {"auth", "request"} =>
                                           c.type = chan[C][i].type,
         s = S => \A n \in DOMAIN ps : ps[n].kind = "open" => Trusted
  PROVE  TrustComes'
<1>1. /\ wire'[s] = Rest(wire[s], rd) /\ wire'[Peer(s)] = wire[Peer(s)] \o Written(s, ps)
      /\ Written(s, ps) = IF Up(s) /\ sock[Peer(s)] # "closed" THEN ps ELSE << >>
      /\ Written(s, ps) \in Seq(Packet)
      /\ \A j \in Ids : chan'[s][j] = IF j = i THEN c ELSE chan[s][j]
      /\ chan'[Peer(s)] = chan[Peer(s)] /\ sock'[Peer(s)] = sock[Peer(s)]
      /\ (Up(s)' => Up(s))
  BY ActFacts
<1>2. TrustComes /\ (rd => wire[s] # << >>) /\ Known' = Known /\ Trusted' = Trusted
  BY DEF Deep, Acts, Known, Trusted
<1>3. CASE s = C
  <2>1. wire'[C] = Rest(wire[C], rd) /\ (rd => wire[C] # << >>)
    BY <1>1, <1>2, <1>3
  <2>2. StillOpen(rd)
    BY <1>1, <1>2, <1>3 DEF StillOpen
  <2>3. TrustComes /\ (Trusted' => Trusted)
    BY <1>2
  <2>4. IInv /\ rd \in BOOLEAN
    OBVIOUS
  <2> QED BY ONLY <2>1, <2>2, <2>3, <2>4, TrustAtClient
<1>4. CASE s = S
  <2> DEFINE W == Written(s, ps)
  <2>1. W \in Seq(Packet) /\ wire'[C] = wire[C] \o W /\ chan'[C] = chan[C] /\ Up(C)' = Up(C)
    BY <1>1, <1>4, Ends DEF Up
  <2>2. \A n \in DOMAIN W : W[n].kind = "open" => Trusted
    BY <1>1, <1>4
  <2> HIDE DEF W
  <2> QED BY <1>2, <2>1, <2>2, TrustAtServer
<1> QED BY <1>3, <1>4, Ends

\* Such a step after the authentication.
LEMMA ServingStep ==
  ASSUME IInv, Deep, Serving,
         NEW s \in Side, NEW rd \in BOOLEAN, NEW ps \in Seq(Packet), NEW i \in Ids, NEW c,
         Acts(s, rd, ps, i, c), Shape(s, rd, ps, i, c), Writes(s, ps, Known),
         purpose' = purpose, auth' = auth, Asked' => Asked,
         Unasking(s, ps), \A n \in DOMAIN ps : Late(ps[n]),
         c.type # "auth", c.type = "request" => chan[s][i].type = "request",
         s = C /\ chan[C][i].type = "request" => c.type = "request" \/ (c = NoChannel /\ ~Up(C)'),
         s = C /\ chan[C][i] = NoChannel => c = NoChannel \/ Up(C) \/ ~OwnParity(C, i),
         s = C /\ rd => ~Trusting(chan[C], Head(wire[C])),
         s = S => \A n \in DOMAIN ps : ps[n].kind = "open" => Trusted
  PROVE  Deep'
<1>1. Known' = Known
  BY DEF Known
<1>2. Stages'
  BY ServingKept
<1>3. RequestOK'
  BY MildRequest
<1>4. s = C /\ Up(C)' /\ ~Known => /\ rd => ~Trusting(chan[C], Head(wire[C]))
                                   /\ chan[C][i].type \in {"auth", "request"} =>
                                        c.type = chan[C][i].type
  BY DEF Serving
<1>5. TrustComes'
  BY <1>4, MildTrust
<1> QED BY <1>1, <1>2, <1>3, <1>5, Deeper

\* Packets that go on a wire without a consequence for the invariant.
Harmless(s, ps) ==
  /\ ps \in Seq(Packet) /\ Plain(ps) /\ Unasking(s, ps)
  /\ \A n \in DOMAIN ps : Late(ps[n]) /\ ps[n].kind # "open"

LEMMA NothingWritten ==
  ASSUME NEW s, NEW k
  PROVE  Harmless(s, << >>) /\ Writes(s, << >>, k)
BY EmptySeq DEF Harmless, Plain, Unasking, Writes

LEMMA CloseWritten ==
  ASSUME NEW s, NEW k, NEW i \in Ids
  PROVE  /\ Harmless(s, <<ClosePacket(i)>>) /\ Writes(s, <<ClosePacket(i)>>, k)
         /\ Closes(<<ClosePacket(i)>>, i)
<1> DEFINE p == ClosePacket(i)
           ps == <<p>>
<1>1. p.kind = "close" /\ p.id = i /\ p \in Packet
  BY DEF ClosePacket, Packet
<1>2. ps \in Seq(Packet) /\ DOMAIN ps = {1} /\ ps[1] = p
  BY <1>1
<1>3. i # Control
  BY IdsAreIntegers
<1>4. p \notin RequestOpens /\ p \notin Answers
  BY <1>1, PacketKinds DEF RequestOpens, Answers
<1>5. Fit(Peer(s), p, k) /\ Late(p)
  BY <1>1, <1>3 DEF Fit, Late
<1>6. Closes(ps, i)
  BY <1>2 DEF Closes
<1> HIDE DEF ps, p
<1>7. Harmless(s, ps) /\ Writes(s, ps, k)
  BY <1>1, <1>2, <1>4, <1>5 DEF Harmless, Plain, Unasking, Writes
<1> QED BY <1>6, <1>7 DEF ps, p

LEMMA EarlyKinds ==
  ASSUME IInv, Deep, ~Serving, NEW s \in Side, wire[s] # << >>
  PROVE  LET p == Head(wire[s]) IN
         /\ p.kind # "close"
         /\ p.kind = "result" =>
              s = C /\ \E i \in Ids : p = ResultPacket(i, TRUE, "none") /\ chan[C][i].type = "auth"
<1> DEFINE p == Head(wire[s])
<1>0. \A b, x : OpenPacket(x, b).kind = "open" /\ DataPacket(x, b).kind = "data"
  BY DEF DataPacket, OpenPacket
<1>1. \/ s = S /\ p.kind = "intro"
      \/ s = C /\ p.kind = "version"
      \/ s = S /\ \E x \in Ids : p = OpenPacket(x, "auth") /\ chan[S][x] = NoChannel
      \/ s = C /\ \E x \in Ids : p = ResultPacket(x, TRUE, "none") /\ chan[C][x].type = "auth"
      \/ s = S /\ \E x \in Ids : p = DataPacket(x, "proof") /\ chan[S][x].type = "auth"
      \/ s = C /\ \E x \in Ids : /\ p = DataPacket(x, "known") \/ p = DataPacket(x, "unknown")
                                 /\ chan[C][x].type = "auth"
  BY EarlyHeads DEF Deep
<1>2. \A x : ResultPacket(x, TRUE, "none").kind = "result"
  BY DEF ResultPacket
<1> HIDE DEF p
<1> QED BY <1>0, <1>1, <1>2 DEF p

LEMMA CloseDeep ==
  ASSUME IInv, Deep, NEW s \in Side, ReceiveClose(s)
  PROVE  Deep'
<1> DEFINE p == Head(wire[s])
           i == p.id
           ps == IF i \in Used(s) THEN <<ClosePacket(i)>> ELSE << >>
<1>1. wire[s] # << >> /\ sock[s] # "closed" /\ p.kind = "close"
  BY DEF ReceiveClose, Reads
<1>2. Fit(s, p, Known) /\ p \in Packet
  BY <1>1, HeadFits DEF Deep
<1>3. p = ClosePacket(i)
  BY <1>1, <1>2, PacketForm
<1>4. i # Control /\ i \in Ids
  <2>1. p \in To(s, Trusted) /\ Trusted \in BOOLEAN
    BY <1>1, HeadFacts DEF IInv
  <2>2. i \in Ids \cup {Control}
    BY <1>1, <2>1, PacketFields
  <2> QED BY <1>1, <1>2, <2>2 DEF Fit
<1>5. Serving
  BY <1>1, EarlyKinds
<1>6. /\ Reply(s, ps) /\ Remove(s, i)
      /\ CloseIf(s, i \in Used(s) /\ OwnerCloses(s, chan[s][i].type))
      /\ UNCHANGED <<purpose, auth, queued>>
  BY <1>4 DEF ReceiveClose
<1>7. Acts(s, TRUE, ps, i, NoChannel)
  <2>1. sock' = sock \/ (Up(s) /\ sock' = [sock EXCEPT ![s] = "closing"])
    BY <1>6, ClosingIf
  <2>2. chan' = [chan EXCEPT ![s][i] = NoChannel]
    BY <1>6 DEF Remove
  <2> QED BY <1>1, <1>4, <1>6, <2>1, <2>2, ReplyActs
<1>8. Harmless(s, ps) /\ Writes(s, ps, Known)
  BY <1>4, NothingWritten, CloseWritten
<1>9. /\ \A j \in Ids : Takes(s, TRUE, ClosePacket(j)) => j = i
      /\ \A j \in Ids, t \in Types : ~Takes(s, TRUE, OpenPacket(j, t))
  BY <1>1, PacketKinds DEF Takes
<1>10. Shape(s, TRUE, ps, i, NoChannel)
  <2>1. CASE i \in Used(s)
    <3>1. Closes(ps, i)
      BY <1>4, <2>1, CloseWritten
    <3> QED BY <1>8, <1>9, <3>1 DEF Shape, Drops, Harmless
  <2>2. CASE i \notin Used(s)
    <3>1. chan[s][i] = NoChannel
      BY <1>4, <2>2 DEF Used
    <3> QED BY <1>8, <1>9, <3>1 DEF Shape, Stays, Harmless
  <2> QED BY <2>1, <2>2
<1>11. s = C /\ chan[C][i].type = "request" => ~Up(C)'
  <2> SUFFICES ASSUME s = C, chan[C][i].type = "request" PROVE ~Up(C)'
    OBVIOUS
  <2>1. purpose[C] = "OutboundRequest" /\ chan[C][i] # NoChannel
    BY <1>4 DEF Deep, RequestOK, NoChannel
  <2>2. CloseIf(s, TRUE)
    BY <1>4, <1>6, <2>1 DEF OwnerCloses, Used
  <2> QED BY <2>2, ClosedIf
<1>12. ~Trusting(chan[C], Head(wire[C])) \/ s # C
  BY <1>1 DEF Trusting
<1>13. Asked' => Asked
  BY <1>6 DEF Asked
<1>14. NoChannel.type = "none"
  BY DEF NoChannel
<1> HIDE DEF ps, p, i
<1> QED BY <1>4, <1>5, <1>6, <1>7, <1>8, <1>10, <1>11, <1>12, <1>13, <1>14, ServingStep DEF Harmless

LEMMA StrayDeep ==
  ASSUME IInv, Deep, NEW s \in Side, ReceiveStray(s)
  PROVE  Deep'
<1> DEFINE p == Head(wire[s])
           i == p.id
           ps == <<ClosePacket(i)>>
<1>1. sock[s] # "closed" /\ Reads(s, "data") /\ chan[s][i].type = "none" /\ p.kind = "data"
  BY DEF ReceiveStray, Reads, ReadsData
<1>2. wire[s] # << >> /\ i \in Ids /\ Serving
  BY <1>1, DataAtHead
<1>3. chan[s][i] = NoChannel
  BY <1>1, <1>2, Parity
<1>4. Reply(s, ps) /\ UNCHANGED <<sock, purpose, auth, chan, queued>>
  BY DEF ReceiveStray, link
<1>5. Acts(s, TRUE, ps, i, NoChannel)
  <2>1. chan' = [chan EXCEPT ![s][i] = NoChannel]
    BY <1>2, <1>3, <1>4 DEF IInv, TablesOK
  <2> QED BY <1>1, <1>2, <1>4, <2>1, ReplyActs
<1>6. Harmless(s, ps) /\ Writes(s, ps, Known)
  BY <1>2, CloseWritten
<1>7. Shape(s, TRUE, ps, i, NoChannel)
  <2>1. /\ \A j \in Ids : ~Takes(s, TRUE, ClosePacket(j))
        /\ \A j \in Ids, t \in Types : ~Takes(s, TRUE, OpenPacket(j, t))
    BY <1>1, PacketKinds DEF Takes
  <2> QED BY <1>3, <1>6, <2>1 DEF Shape, Stays, Harmless
<1>8. ~Trusting(chan[C], Head(wire[C])) \/ s # C
  BY <1>1 DEF Trusting
<1>9. Asked' => Asked
  BY <1>4 DEF Asked
<1>10. NoChannel.type = "none"
  BY DEF NoChannel
<1> HIDE DEF ps, p, i
<1> QED BY <1>2, <1>3, <1>4, <1>5, <1>6, <1>7, <1>8, <1>9, <1>10, ServingStep DEF Harmless

LEMMA DataWritten ==
  ASSUME NEW s \in Side, NEW k \in BOOLEAN, NEW i \in Ids, NEW b \in {"message", "ack"},
         Fit(Peer(s), DataPacket(i, b), k)
  PROVE  Harmless(s, <<DataPacket(i, b)>>) /\ Writes(s, <<DataPacket(i, b)>>, k)
<1> DEFINE p == DataPacket(i, b)
           ps == <<p>>
<1>1. p.kind = "data" /\ p.id = i /\ p.body = b /\ p \in Packet
  BY DEF DataPacket, Packet, Bodies
<1>2. ps \in Seq(Packet) /\ DOMAIN ps = {1} /\ ps[1] = p
  BY <1>1
<1>3. p \notin RequestOpens /\ p \notin Answers
  <2>1. p \notin RequestOpens
    BY <1>1, PacketKinds DEF RequestOpens
  <2>2. p \notin Answers
    BY <1>1 DEF Answers, Responses
  <2> QED BY <2>1, <2>2
<1>4. Late(p)
  BY <1>1 DEF Late
<1> HIDE DEF ps, p
<1>5. Harmless(s, ps)
  BY <1>1, <1>2, <1>3, <1>4 DEF Harmless, Plain, Unasking
<1>6. Writes(s, ps, k)
  BY <1>2 DEF Writes, p
<1> QED BY <1>5, <1>6 DEF ps, p

LEMMA MessageDeep ==
  ASSUME IInv, Deep, NEW s \in Side, ReceiveMessage(s)
  PROVE  Deep'
<1> DEFINE p == Head(wire[s])
           i == p.id
           c == chan[s][i]
           ps == IF c.dir = "in" THEN <<DataPacket(i, "ack")>> ELSE << >>
<1>1. sock[s] # "closed" /\ Reads(s, "data") /\ c.type \in Chats /\ p.kind = "data"
  BY DEF ReceiveMessage, Reads, ReadsData, Chats
<1>2. wire[s] # << >> /\ i \in Ids /\ Serving /\ p.body = IF c.dir = "in" THEN "message" ELSE "ack"
  BY <1>1, DataAtHead
<1>3. c # NoChannel /\ c.dir \in {"in", "out"} /\ (c.dir = "out" <=> OwnParity(s, i))
  BY <1>1, <1>2, Parity DEF NoChannel, Chats
<1>4. Reply(s, ps) /\ UNCHANGED <<sock, purpose, auth, chan, queued>>
  BY <1>2, <1>3 DEF ReceiveMessage, link
<1>5. Acts(s, TRUE, ps, i, c)
  <2>1. chan' = [chan EXCEPT ![s][i] = c]
    BY <1>2, <1>3, <1>4 DEF IInv, TablesOK
  <2> QED BY <1>1, <1>2, <1>4, <2>1, ReplyActs
<1>6. Harmless(s, ps) /\ Writes(s, ps, Known)
  <2>1. CASE c.dir = "in"
    <3>1. Fit(s, p, Known)
      BY <1>2, HeadFits DEF Deep
    <3>2. Peer(s) = C => Known
      BY <1>1, <1>2, <2>1, <3>1, Ends DEF Fit
    <3>3. OwnParity(Peer(s), i)
      BY <1>2, <1>3, <2>1, Parity
    <3>4. Fit(Peer(s), DataPacket(i, "ack"), Known)
      BY <3>2, <3>3, PacketKinds, Ends DEF Fit
    <3>5. Known \in BOOLEAN
      BY DEF Known
    <3> QED BY <1>2, <2>1, <3>4, <3>5, DataWritten
  <2>2. CASE c.dir # "in"
    BY <2>2, NothingWritten
  <2> QED BY <2>1, <2>2
<1>7. Shape(s, TRUE, ps, i, c)
  <2>1. /\ \A j \in Ids : ~Takes(s, TRUE, ClosePacket(j))
        /\ \A j \in Ids, t \in Types : ~Takes(s, TRUE, OpenPacket(j, t))
    BY <1>1, PacketKinds DEF Takes
  <2> QED BY <1>6, <2>1 DEF Shape, Stays, Harmless
<1>8. ~Trusting(chan[C], Head(wire[C])) \/ s # C
  BY <1>1 DEF Trusting, Chats
<1>9. Asked' => Asked
  BY <1>4 DEF Asked
<1>10. c = chan[s][i] /\ c.type \notin {"auth", "request"}
  BY <1>1 DEF Chats
<1> HIDE DEF ps, p, i, c
<1> QED BY <1>2, <1>3, <1>4, <1>5, <1>6, <1>7, <1>8, <1>9, <1>10, ServingStep DEF Harmless

\* An open chat or file channel is one of the time after the authentication.
LEMMA ChatServing ==
  ASSUME IInv, Deep, NEW s \in Side, NEW i \in Ids, chan[s][i].type \in Chats, chan[s][i].opened
  PROVE  Serving
BY Early, Ends DEF Deep, Chats

LEMMA SendDeep ==
  ASSUME IInv, Deep, NEW s \in Side, NEW i \in Ids, SendMessage(s, i)
  PROVE  Deep'
<1> DEFINE c == chan[s][i]
           ps == <<DataPacket(i, "message")>>
<1>1. /\ Up(s) /\ sock[s] # "closed" /\ c.type \in Chats /\ c.dir = "out" /\ c.opened
      /\ Send(s, ps) /\ UNCHANGED <<sock, purpose, auth, chan, queued>>
  BY DEF SendMessage, Chats, Up, link
<1>2. Serving
  BY <1>1, ChatServing
<1>3. c # NoChannel /\ OwnParity(s, i)
  BY <1>1, Parity DEF NoChannel
<1>4. Acts(s, FALSE, ps, i, c)
  <2>1. chan' = [chan EXCEPT ![s][i] = c]
    BY <1>1 DEF IInv, TablesOK
  <2> QED BY <1>1, <2>1, SendActs
<1>5. Harmless(s, ps) /\ Writes(s, ps, Known)
  <2>1. s = C => Known
    BY <1>1 DEF Deep, StrangersTables
  <2>2. Peer(s) = S => s = C
    BY Ends
  <2>3. Peer(Peer(s)) = s
    BY Ends
  <2>4. Fit(Peer(s), DataPacket(i, "message"), Known)
    BY <1>3, <2>1, <2>2, <2>3, PacketKinds, Ends DEF Fit
  <2>5. Known \in BOOLEAN
    BY DEF Known
  <2> QED BY <2>4, <2>5, DataWritten
<1>6. Shape(s, FALSE, ps, i, c)
  BY <1>5 DEF Shape, Stays, Harmless, Takes
<1>7. Asked' => Asked
  BY <1>1 DEF Asked
<1>8. c = chan[s][i] /\ c.type \notin {"auth", "request"}
  BY <1>1 DEF Chats
<1> HIDE DEF ps, c
<1> QED BY <1>1, <1>2, <1>3, <1>4, <1>5, <1>6, <1>7, <1>8, ServingStep DEF Harmless

LEMMA CloseFileDeep ==
  ASSUME IInv, Deep, NEW s \in Side, NEW i \in Ids, CloseFileChannel(s, i)
  PROVE  Deep'
<1> DEFINE ps == <<ClosePacket(i)>>
<1>1. /\ Up(s) /\ sock[s] # "closed" /\ chan[s][i].type \in Chats /\ chan[s][i].opened
      /\ Send(s, ps) /\ Remove(s, i) /\ UNCHANGED <<sock, purpose, auth, queued>>
  BY DEF CloseFileChannel, Chats, Up, link
<1>2. Serving
  BY <1>1, ChatServing
<1>3. Acts(s, FALSE, ps, i, NoChannel)
  BY <1>1, SendActs DEF Remove
<1>4. Harmless(s, ps) /\ Writes(s, ps, Known) /\ Closes(ps, i)
  BY CloseWritten
<1>5. Shape(s, FALSE, ps, i, NoChannel)
  BY <1>4 DEF Shape, Drops, Harmless, Takes
<1>6. Asked' => Asked
  BY <1>1 DEF Asked
<1>7. chan[s][i].type \notin {"auth", "request"} /\ NoChannel.type = "none"
  BY <1>1 DEF Chats, NoChannel
<1> HIDE DEF ps
<1> QED BY <1>1, <1>2, <1>3, <1>4, <1>5, <1>6, <1>7, ServingStep DEF Harmless

LEMMA CloseAnsweredDeep ==
  ASSUME IInv, Deep, NEW s \in Side, CloseAnsweredRequest(s)
  PROVE  Deep'
<1>1. /\ "closeRequest" \in queued[s]
      /\ queued' = [queued EXCEPT ![s] = @ \ {"closeRequest"}]
      /\ UNCHANGED <<purpose, auth>>
  BY DEF CloseAnsweredRequest
<1>2. \A x \in Side : queued'[x] \subseteq queued[x]
  BY <1>1 DEF IInv, PlainOK
<1>3. CASE ~HasChannel(s, "request") /\ UNCHANGED <<sock, chan, wire>>
  BY <1>1, <1>2, <1>3, QuietKeepsDeep DEF Quiet
<1>4. CASE \E i \in Ids : /\ chan[s][i].type = "request" /\ Remove(s, i)
                          /\ Send(s, <<ClosePacket(i)>>)
                          /\ CloseIf(s, OwnerCloses(s, "request"))
  <2>1. PICK i \in Ids : /\ chan[s][i].type = "request" /\ Remove(s, i)
                         /\ Send(s, <<ClosePacket(i)>>)
                         /\ CloseIf(s, OwnerCloses(s, "request"))
    BY <1>4
  <2> DEFINE ps == <<ClosePacket(i)>>
  <2>2. Serving
    BY <1>1, Early, Ends DEF Deep
  <2>3. chan[s][i] # NoChannel /\ sock[s] # "closed"
    BY <2>1 DEF NoChannel, NoChannels, Deep, ClosedOK
  <2>4. Acts(s, FALSE, ps, i, NoChannel)
    <3>1. sock' = sock \/ (Up(s) /\ sock' = [sock EXCEPT ![s] = "closing"])
      <4>1. OwnerCloses(s, "request") \in BOOLEAN
        BY DEF OwnerCloses
      <4> QED BY <2>1, <4>1, ClosingIf
    <3> QED BY <2>1, <2>3, <3>1, SendActs DEF Remove
  <2>5. Harmless(s, ps) /\ Writes(s, ps, Known) /\ Closes(ps, i)
    BY CloseWritten
  <2>6. Shape(s, FALSE, ps, i, NoChannel)
    BY <2>5 DEF Shape, Drops, Harmless, Takes
  <2>7. Asked' => Asked
    BY <1>1, <1>2, Ends DEF Asked
  <2>8. NoChannel.type = "none"
    BY DEF NoChannel
  <2>9. s = C => ~Up(C)'
    <3> SUFFICES ASSUME s = C PROVE ~Up(C)'
      OBVIOUS
    <3>1. purpose[C] = "OutboundRequest"
      BY <2>1 DEF Deep, RequestOK
    <3>2. CloseIf(s, TRUE)
      BY <2>1, <3>1 DEF OwnerCloses
    <3> QED BY <3>2, ClosedIf
  <2> HIDE DEF ps
  <2> QED BY <1>1, <2>2, <2>3, <2>4, <2>5, <2>6, <2>7, <2>8, <2>9, ServingStep DEF Harmless
<1> QED BY <1>3, <1>4 DEF CloseAnsweredRequest

-----------------------------------------------------------------------------
\* The answer to a contact request.

Verdict(i, b) == <<DataPacket(i, b), ClosePacket(i)>>

LEMMA VerdictWritten ==
  ASSUME NEW i \in Ids, NEW b \in {"Accepted", "Rejected"}, OwnParity(C, i), NEW k
  PROVE  LET ps == Verdict(i, b) IN
         /\ ps \in Seq(Packet) /\ Plain(ps) /\ Writes(S, ps, k) /\ Closes(ps, i)
         /\ DOMAIN ps = {1, 2} /\ ps[1] = DataPacket(i, b) /\ ps[2] = ClosePacket(i)
         /\ \A n \in DOMAIN ps : Late(ps[n]) /\ ps[n].kind # "open"
<1> DEFINE p == DataPacket(i, b)
           q == ClosePacket(i)
           ps == <<p, q>>
<1>1. p.kind = "data" /\ p.id = i /\ p.body = b /\ p \in Packet
  BY DEF DataPacket, Packet, Bodies, Responses
<1>2. q.kind = "close" /\ q.id = i /\ q \in Packet
  BY DEF ClosePacket, Packet
<1>3. ps \in Seq(Packet) /\ DOMAIN ps = {1, 2} /\ ps[1] = p /\ ps[2] = q
  BY <1>1, <1>2
<1>4. i # Control
  BY IdsAreIntegers
<1>5. Fit(C, p, k) /\ Late(p)
  BY <1>1, Ends DEF Fit, Late
<1>6. Fit(C, q, k) /\ Late(q)
  BY <1>2, <1>4 DEF Fit, Late
<1>7. ps = Verdict(i, b) /\ q = ClosePacket(i) /\ p = DataPacket(i, b) /\ Peer(S) = C
  BY Ends DEF Verdict
<1> HIDE DEF ps, p, q
<1>8. Plain(ps)
  BY <1>1, <1>2, <1>3 DEF Plain
<1>9. Writes(S, ps, k)
  BY <1>3, <1>5, <1>6, <1>7 DEF Writes
<1>10. Closes(ps, i)
  BY <1>3, <1>7 DEF Closes
<1>11. \A n \in DOMAIN ps : Late(ps[n]) /\ ps[n].kind # "open"
  BY <1>1, <1>2, <1>3, <1>5, <1>6
<1> QED BY <1>3, <1>7, <1>8, <1>9, <1>10, <1>11

\* The server's answer is the only one, and nothing else of the request is left.
LEMMA VerdictRequest ==
  ASSUME IInv, Deep, NEW i \in Judged, NEW b \in {"Accepted", "Rejected"},
         NEW W, W = << >> \/ W = Verdict(i, b),
         wire'[C] = wire[C] \o W, wire'[S] = wire[S],
         chan'[C] = chan[C], \A j \in Ids : chan'[S][j] = IF j = i THEN NoChannel ELSE chan[S][j],
         sock'[C] = sock[C], purpose'[C] = purpose[C], queued'[C] = queued[C]
  PROVE  RequestOK'
<1>1. /\ i \in Ids /\ chan[S][i].type = "request" /\ chan[S][i] # NoChannel
  BY DEF Judged, NoChannel
<1>2. OwnParity(C, i)
  BY <1>1, Parity, Ends
<1>3. RequestOK /\ OnceOnly
  BY DEF Deep, RequestOK
<1>4. Asking = {} /\ Answering = {} /\ ~Asked /\ Requested(chan[C], Up(C), i)
  BY <1>3 DEF RequestOK, OnceOnly
<1>5. Judged' = {}
  <2> SUFFICES ASSUME NEW q \in Ids, chan'[S][q].type = "request" PROVE FALSE
    BY DEF Judged
  <2>1. q # i /\ q \in Judged
    BY DEF Judged, NoChannel
  <2> QED BY <1>3, <2>1 DEF OnceOnly, One
<1>6. Asking' = {} /\ ~Asked'
  BY <1>4 DEF Asking, Asked
<1>7. Up(C)' = Up(C)
  BY DEF Up
<1> DEFINE w == wire[C]
           x == wire'[C]
<1>8. w \in Seq(Packet) /\ W \in Seq(Packet) /\ x = w \o W /\ At(w, Answers) = {} /\ Len(w) \in Nat
  <2>1. w \in Seq(Packet)
    BY Ends DEF IInv, WiresOK
  <2>2. W \in Seq(Packet)
    BY <1>1, <1>2, VerdictWritten, EmptySeq
  <2> QED BY <1>4, <2>1, <2>2 DEF Answering
<1>9. \A n \in DOMAIN W : W[n] \in Answers => n = 1 /\ W[n].id = i
  <2>1. CASE W = << >>
    BY <2>1
  <2>2. CASE W = Verdict(i, b)
    <3>1. DOMAIN W = {1, 2} /\ W[1] = DataPacket(i, b) /\ W[2] = ClosePacket(i)
      BY <1>1, <1>2, <2>2, VerdictWritten
    <3>2. ClosePacket(i) \notin Answers /\ DataPacket(i, b).id = i
      BY DEF ClosePacket, Answers, DataPacket
    <3> QED BY <3>1, <3>2
  <2> QED BY <2>1, <2>2
<1> HIDE DEF w, x
<1>10. \A n \in At(x, Answers) : n = Len(w) + 1 /\ x[n].id = i
  <2> SUFFICES ASSUME NEW n \in DOMAIN x, x[n] \in Answers PROVE n = Len(w) + 1 /\ x[n].id = i
    BY DEF At
  <2>1. n \in DOMAIN w => (w \o W)[n] = w[n]
    BY <1>8
  <2>2. n \notin DOMAIN w
    BY <1>8, <2>1 DEF At
  <2>3. n - Len(w) \in DOMAIN W /\ x[n] = W[n - Len(w)]
    BY <1>8, <2>2, Grown
  <2>4. n - Len(w) = 1 /\ x[n].id = i
    BY <1>9, <2>3
  <2>5. n \in Nat
    BY <1>8, Grown
  <2> QED BY <1>8, <2>4, <2>5
<1>11. \A n \in Answering' : n = Len(w) + 1 /\ wire'[C][n].id = i
  BY <1>10 DEF Answering, x
<1>12. OnceOnly'
  BY <1>5, <1>6, <1>11 DEF OnceOnly, One
<1>13. \A n \in Answering' : Requested(chan'[C], Up(C)', wire'[C][n].id)
  BY <1>4, <1>7, <1>11
<1>14. \A q \in Ids : chan'[C][q].type = "request" =>
         /\ purpose'[C] = "OutboundRequest"
         /\ \A r \in Ids : chan'[C][r].type = "request" => r = q
  BY <1>3 DEF RequestOK
<1> QED BY <1>5, <1>6, <1>12, <1>13, <1>14 DEF RequestOK

\* Where the server may answer.
LEMMA Judging ==
  ASSUME IInv, Deep, NEW s \in Side, purpose[s] = "InboundRequest",
         NEW i \in Ids, chan[s][i].type = "request"
  PROVE  s = S /\ Serving /\ i \in Judged /\ OwnParity(C, i) /\ chan[s][i].dir # "out"
<1>1. s = S
  BY Ends DEF IInv, TrustOK
<1>2. Serving
  BY <1>1, Early DEF Deep
<1>3. chan[s][i] # NoChannel
  BY DEF NoChannel
<1>4. chan[s][i].dir # "out" /\ OwnParity(C, i)
  BY <1>1, <1>3, Parity, Ends
<1> QED BY <1>1, <1>2, <1>4 DEF Judged

\* What a step with, and one without, a packet read does to the wires.
LEMMA SendFacts ==
  ASSUME IInv, NEW s \in Side, NEW ps \in Seq(Packet), NEW i \in Ids, NEW c,
         Acts(s, FALSE, ps, i, c)
  PROVE  /\ wire'[s] = wire[s] /\ wire'[Peer(s)] = wire[Peer(s)] \o Written(s, ps)
         /\ Up(s) /\ sock[Peer(s)] # "closed" => Written(s, ps) = ps
         /\ ~Up(s) \/ sock[Peer(s)] = "closed" => Written(s, ps) = << >>
         /\ Written(s, ps) \in Seq(Packet)
         /\ chan'[s][i] = c /\ \A j \in Ids : j # i => chan'[s][j] = chan[s][j]
         /\ chan'[Peer(s)] = chan[Peer(s)] /\ sock'[Peer(s)] = sock[Peer(s)]
<1> DEFINE rd == FALSE
<1>1. rd \in BOOLEAN /\ Acts(s, rd, ps, i, c) /\ Rest(wire[s], rd) = wire[s]
  BY DEF Rest
<1> HIDE DEF rd
<1> QED BY <1>1, ActFacts

LEMMA ReplyFacts ==
  ASSUME IInv, NEW s \in Side, NEW ps \in Seq(Packet), NEW i \in Ids, NEW c,
         Acts(s, TRUE, ps, i, c)
  PROVE  /\ wire'[s] = Tail(wire[s]) /\ wire'[Peer(s)] = wire[Peer(s)] \o Written(s, ps)
         /\ Up(s) /\ sock[Peer(s)] # "closed" => Written(s, ps) = ps
         /\ ~Up(s) \/ sock[Peer(s)] = "closed" => Written(s, ps) = << >>
         /\ Written(s, ps) \in Seq(Packet)
         /\ chan'[s][i] = c /\ \A j \in Ids : j # i => chan'[s][j] = chan[s][j]
         /\ chan'[Peer(s)] = chan[Peer(s)] /\ sock'[Peer(s)] = sock[Peer(s)]
<1> DEFINE rd == TRUE
<1>1. rd \in BOOLEAN /\ Acts(s, rd, ps, i, c) /\ Rest(wire[s], rd) = Tail(wire[s])
  BY DEF Rest
<1> HIDE DEF rd
<1> QED BY <1>1, ActFacts

LEMMA AcceptDeep ==
  ASSUME IInv, Deep, NEW s \in Side, AcceptIncoming(s)
  PROVE  Deep'
<1>1. PICK i \in Ids, wins \in BOOLEAN :
        /\ chan[s][i].type = "request"
        /\ Assigned(s, wins)
        /\ Send(s, IF wins THEN <<DataPacket(i, "Accepted"), ClosePacket(i)>> ELSE << >>)
        /\ Remove(s, i)
  BY DEF AcceptIncoming
<1>2. Up(s) /\ sock[s] # "closed" /\ purpose[s] = "InboundRequest" /\ auth' = auth
  BY DEF AcceptIncoming, Up
<1>3. s = S /\ Serving /\ i \in Judged /\ OwnParity(C, i) /\ chan[s][i].dir # "out"
  BY <1>1, <1>2, Judging
<1> DEFINE ps == IF wins THEN Verdict(i, "Accepted") ELSE << >>
<1>4. /\ Send(s, ps)
      /\ sock' = sock \/ (Up(s) /\ sock' = [sock EXCEPT ![s] = "closing"])
      /\ wins => sock' = sock
      /\ purpose' = IF wins THEN [purpose EXCEPT ![S] = "KnownContact"] ELSE purpose
      /\ queued' = IF wins THEN [queued EXCEPT ![S] = @ \cup {"onConnected"}] ELSE queued
  BY <1>1, <1>3, ClosingIf DEF Assigned, Verdict
<1>5. ~wins => ~Up(s)'
  BY <1>1, ClosedIf DEF Assigned
<1>6. Acts(s, FALSE, ps, i, NoChannel)
  BY <1>1, <1>2, <1>4, SendActs DEF Remove
<1>7. NoChannel.type = "none"
  BY DEF NoChannel
<1>8. CASE ~wins
  <2>1. Harmless(s, ps) /\ Writes(s, ps, Known)
    BY <1>8, NothingWritten
  <2>2. Shape(s, FALSE, ps, i, NoChannel)
    BY <1>3, <1>5, <1>8, <2>1 DEF Shape, Drops, Harmless, Takes
  <2>3. Asked' => Asked
    BY <1>4, <1>8 DEF Asked
  <2>4. s # C /\ purpose' = purpose
    BY <1>3, <1>4, <1>8, Ends
  <2> HIDE DEF ps
  <2> QED BY <1>2, <1>3, <1>6, <1>7, <2>1, <2>2, <2>3, <2>4, ServingStep DEF Harmless
<1>9. CASE wins
  <2>1. ps = Verdict(i, "Accepted")
    BY <1>9
  <2>2. /\ ps \in Seq(Packet) /\ Plain(ps) /\ Closes(ps, i)
        /\ DOMAIN ps = {1, 2} /\ ps[1] = DataPacket(i, "Accepted") /\ ps[2] = ClosePacket(i)
        /\ \A n \in DOMAIN ps : Late(ps[n]) /\ ps[n].kind # "open"
    BY <1>3, <2>1, VerdictWritten
  <2>3. Writes(s, ps, Known)
    BY <1>3, <2>1, VerdictWritten
  <2>4. purpose'[C] = purpose[C] /\ purpose'[S] = "KnownContact" /\ queued'[C] = queued[C]
    BY <1>4, <1>9, Ends DEF IInv, PlainOK
  <2>5. Known' = Known /\ Trusted'
    BY <2>4, Ends DEF Known, Trusted
  <2> HIDE DEF ps
  <2>6. Shape(s, FALSE, ps, i, NoChannel)
    BY <2>2 DEF Shape, Drops, Takes
  <2>7. Stages'
    BY <1>2, <1>3, <1>6, <1>7, <2>2, ServingKept
  <2> DEFINE W == Written(s, ps)
  <2>8. /\ wire'[C] = wire[C] \o W /\ wire'[S] = wire[S] /\ chan'[C] = chan[C]
        /\ \A j \in Ids : chan'[S][j] = IF j = i THEN NoChannel ELSE chan[S][j]
        /\ sock'[C] = sock[C] /\ (W = << >> \/ W = Verdict(i, "Accepted")) /\ W \in Seq(Packet)
        /\ sock[C] # "closed" => W = ps
    <3>1. /\ wire'[s] = wire[s] /\ wire'[Peer(s)] = wire[Peer(s)] \o W
          /\ Up(s) /\ sock[Peer(s)] # "closed" => W = ps
          /\ ~Up(s) \/ sock[Peer(s)] = "closed" => W = << >>
          /\ W \in Seq(Packet)
          /\ chan'[s][i] = NoChannel /\ \A j \in Ids : j # i => chan'[s][j] = chan[s][j]
          /\ chan'[Peer(s)] = chan[Peer(s)] /\ sock'[Peer(s)] = sock[Peer(s)]
      BY <1>6, <2>2, SendFacts
    <3>2. Peer(s) = C /\ s = S
      BY <1>3, Ends
    <3> HIDE DEF W
    <3> QED BY <1>2, <2>1, <3>1, <3>2
  <2> HIDE DEF W
  <2>9. RequestOK'
    BY <1>3, <2>4, <2>8, VerdictRequest
  <2>10. TrustComes'
    <3>1. ASSUME Up(C), ~Known
          PROVE  /\ \A n \in DOMAIN W : W[n].kind = "open" => Trusted
                 /\ Trusted' => Trusted \/ \E n \in DOMAIN W : Trusting(chan[C], W[n])
      <4>1. W = ps
        BY <2>8, <3>1 DEF Up
      <4>2. chan[C][i].type = "request"
        BY <1>3, <3>1 DEF Deep, RequestOK, Requested
      <4>3. Trusting(chan[C], DataPacket(i, "Accepted"))
        BY <4>2, PacketKinds DEF Trusting
      <4> QED BY <2>2, <4>1, <4>3
    <3>2. TrustComes /\ Up(C)' = Up(C)
      BY <2>8 DEF Deep, Up
    <3> QED BY <2>5, <2>8, <3>1, <3>2, TrustAtServer
  <2> QED BY <1>6, <2>2, <2>3, <2>5, <2>6, <2>7, <2>9, <2>10, Deeper
<1> QED BY <1>8, <1>9

LEMMA RejectDeep ==
  ASSUME IInv, Deep, NEW s \in Side, NEW block \in BOOLEAN, RejectIncoming(s, block)
  PROVE  Deep'
<1>1. PICK i \in Ids :
        /\ chan[s][i].type = "request"
        /\ Send(s, Verdict(i, "Rejected"))
        /\ Remove(s, i)
  BY DEF RejectIncoming, Verdict
<1>2. /\ Up(s) /\ sock[s] # "closed" /\ purpose[s] = "InboundRequest" /\ CloseIf(s, TRUE)
      /\ UNCHANGED <<purpose, auth, queued>>
  BY DEF RejectIncoming, Up
<1>3. s = S /\ Serving /\ i \in Judged /\ OwnParity(C, i)
  BY <1>1, <1>2, Judging
<1> DEFINE ps == Verdict(i, "Rejected")
<1>4. Acts(s, FALSE, ps, i, NoChannel)
  BY <1>1, <1>2, ClosingIf, SendActs DEF Remove
<1>5. /\ ps \in Seq(Packet) /\ Plain(ps) /\ Closes(ps, i)
      /\ \A n \in DOMAIN ps : Late(ps[n]) /\ ps[n].kind # "open"
      /\ Writes(s, ps, Known)
  BY <1>3, VerdictWritten
<1>6. NoChannel.type = "none"
  BY DEF NoChannel
<1>6a. ps = Verdict(i, "Rejected")
  OBVIOUS
<1> HIDE DEF ps
<1>7. Shape(s, FALSE, ps, i, NoChannel)
  BY <1>5 DEF Shape, Drops, Takes
<1>8. Stages'
  BY <1>2, <1>3, <1>4, <1>5, <1>6, ServingKept
<1>9. RequestOK'
  <2> DEFINE W == Written(s, ps)
  <2>1. /\ wire'[s] = wire[s] /\ wire'[Peer(s)] = wire[Peer(s)] \o W
        /\ Up(s) /\ sock[Peer(s)] # "closed" => W = ps
        /\ ~Up(s) \/ sock[Peer(s)] = "closed" => W = << >>
        /\ W \in Seq(Packet)
        /\ chan'[s][i] = NoChannel /\ \A j \in Ids : j # i => chan'[s][j] = chan[s][j]
        /\ chan'[Peer(s)] = chan[Peer(s)] /\ sock'[Peer(s)] = sock[Peer(s)]
    <3>1. ps \in Seq(Packet)
      BY <1>5
    <3> QED BY <1>4, <3>1, SendFacts
  <2>2. Peer(s) = C /\ s = S
    BY <1>3, Ends
  <2> HIDE DEF W
  <2>3. W = << >> \/ W = Verdict(i, "Rejected")
    BY <1>6a, <2>1
  <2> QED BY <1>2, <1>3, <2>1, <2>2, <2>3, VerdictRequest
<1>10. TrustComes'
  <2>1. s # C /\ purpose' = purpose
    BY <1>2, <1>3, Ends
  <2> QED BY <1>4, <1>5, <2>1, MildTrust
<1>11. Known' = Known
  BY <1>2 DEF Known
<1> QED BY <1>4, <1>5, <1>7, <1>8, <1>9, <1>10, <1>11, Deeper

LEMMA ResponseDeep ==
  ASSUME IInv, Deep, NEW s \in Side, ReceiveResponse(s)
  PROVE  Deep'
<1> DEFINE p == Head(wire[s])
           i == p.id
           ps == <<ClosePacket(i)>>
<1>1. /\ Reads(s, "data") /\ p.kind = "data" /\ sock[s] # "closed" /\ chan[s][i].type = "request"
      /\ RequestAnswered(s, i, p.body) /\ UNCHANGED <<auth, queued>>
  BY DEF ReceiveResponse, ReadsData, Reads
<1>2. /\ wire[s] # << >> /\ i \in Ids /\ p = DataPacket(i, p.body)
      /\ Serving /\ s = C /\ p.body \in {"Accepted", "Rejected"}
  BY <1>1, DataAtHead
<1>3. /\ Reply(s, ps) /\ chan' = [chan EXCEPT ![s][i] = NoChannel]
      /\ purpose' = IF p.body = "Accepted" THEN [purpose EXCEPT ![s] = "KnownContact"] ELSE purpose
      /\ CloseIf(s, p.body \in {"Rejected", "Error"})
  BY <1>1, <1>2 DEF RequestAnswered
<1>3a. sock' = sock \/ (Up(s) /\ sock' = [sock EXCEPT ![s] = "closing"])
  BY <1>3 DEF CloseIf, Up
<1>3b. ASSUME p.body = "Rejected" PROVE CloseIf(s, TRUE)
  BY <1>3, <1>3b DEF CloseIf
<1>4. Acts(s, TRUE, ps, i, NoChannel)
  BY <1>1, <1>2, <1>3, <1>3a, ReplyActs
<1>5. Harmless(s, ps) /\ Writes(s, ps, Known') /\ Writes(s, ps, Known) /\ Closes(ps, i)
  BY <1>2, CloseWritten
<1>6. Shape(s, TRUE, ps, i, NoChannel)
  <2>1. /\ \A j \in Ids : ~Takes(s, TRUE, ClosePacket(j))
        /\ \A j \in Ids, t \in Types : ~Takes(s, TRUE, OpenPacket(j, t))
    BY <1>1, PacketKinds DEF Takes
  <2> QED BY <1>5, <2>1 DEF Shape, Drops, Harmless
<1>7. NoChannel.type = "none"
  BY DEF NoChannel
<1>8. CASE p.body = "Rejected"
  <2>1. ~Up(s)' /\ purpose' = purpose
    BY <1>3, <1>3b, <1>8, ClosedIf
  <2>2. ~Trusting(chan[C], Head(wire[C]))
    BY <1>2, <1>8 DEF Trusting
  <2>3. Asked' => Asked
    BY <1>1, <2>1 DEF Asked
  <2> HIDE DEF ps, p, i
  <2> QED BY <1>1, <1>2, <1>4, <1>5, <1>6, <1>7, <2>1, <2>2, <2>3, ServingStep DEF Harmless
<1>9. CASE p.body = "Accepted"
  <2>1. purpose'[C] = "KnownContact"
    BY <1>2, <1>3, <1>9 DEF IInv, PlainOK
  <2>2. Known' /\ TrustComes'
    BY <2>1 DEF Known, TrustComes
  <2>3. Stages'
    <3> HIDE DEF ps, p, i
    <3> QED BY <1>1, <1>2, <1>4, <1>5, <1>7, ServingKept DEF Harmless
  <2>4. RequestOK'
    <3> DEFINE w == wire[C]
    <3>1. w \in Seq(Packet) /\ w # << >> /\ Head(w) = p /\ wire[S] \in Seq(Packet)
      BY <1>2, Ends DEF IInv, WiresOK
    <3>2. /\ 1 \in DOMAIN w /\ w[1] = p
          /\ \A n \in DOMAIN Tail(w) : n + 1 \in DOMAIN w /\ Tail(w)[n] = w[n + 1] /\ 0 < n
          /\ DOMAIN Tail(w) \subseteq Nat
      <4> HIDE DEF w
      <4> QED BY <3>1, Shrunk
    <3>3. p \in Answers
      BY <1>2, <1>9 DEF Answers, DataPacket, Responses
    <3>4. 1 \in Answering
      BY <3>2, <3>3 DEF Answering, At
    <3>5. RequestOK /\ OnceOnly
      BY DEF Deep, RequestOK
    <3>6. Asking = {} /\ Judged = {} /\ One(Answering)
      BY <3>4, <3>5 DEF OnceOnly
    <3>7. /\ wire'[C] = Tail(w) /\ wire'[S] = wire[S] \o Written(C, ps)
          /\ Written(C, ps) \in Seq(Packet) /\ (Written(C, ps) = ps \/ Written(C, ps) = << >>)
          /\ chan'[S] = chan[S]
          /\ \A j \in Ids : chan'[C][j] = IF j = i THEN NoChannel ELSE chan[C][j]
      <4>1. /\ wire'[s] = Tail(wire[s]) /\ wire'[Peer(s)] = wire[Peer(s)] \o Written(s, ps)
            /\ Up(s) /\ sock[Peer(s)] # "closed" => Written(s, ps) = ps
            /\ ~Up(s) \/ sock[Peer(s)] = "closed" => Written(s, ps) = << >>
            /\ Written(s, ps) \in Seq(Packet)
            /\ chan'[s][i] = NoChannel /\ \A j \in Ids : j # i => chan'[s][j] = chan[s][j]
            /\ chan'[Peer(s)] = chan[Peer(s)] /\ sock'[Peer(s)] = sock[Peer(s)]
        <5> HIDE DEF ps, p, i
        <5>1. ps \in Seq(Packet) /\ i \in Ids
          BY <1>2, <1>5 DEF Harmless
        <5> QED BY <1>4, <5>1, ReplyFacts
      <4> HIDE DEF ps, p, i
      <4> QED BY <1>2, <4>1, Ends
    <3>8. Answering' = {}
      <4> SUFFICES ASSUME NEW n \in Answering' PROVE FALSE
        OBVIOUS
      <4>1. n \in DOMAIN Tail(w) /\ Tail(w)[n] \in Answers
        BY <3>7 DEF Answering, At
      <4>2. n + 1 \in Answering /\ n \in Nat /\ 0 < n
        BY <3>2, <4>1 DEF Answering, At
      <4>3. n + 1 = 1
        BY <3>4, <3>6, <4>2 DEF One
      <4> QED BY <4>2, <4>3
    <3>9. Asking' = {}
      <4>1. \A n \in DOMAIN Written(C, ps) : Written(C, ps)[n] \notin RequestOpens
        BY <1>2, <1>5, <3>7 DEF Harmless, Unasking
      <4>2. At(wire'[S], RequestOpens) = At(wire[S], RequestOpens)
        <5> HIDE DEF ps, w
        <5> QED BY <3>1, <3>7, <4>1, FewerGrown
      <4> QED BY <3>6, <4>2 DEF Asking
    <3>10. Judged' = {}
      BY <3>6, <3>7 DEF Judged
    <3>11. ~Asked'
      BY <2>1 DEF Asked
    <3>12. ASSUME NEW q \in Ids PROVE chan'[C][q].type # "request"
      <4>1. chan[C][q].type = "request" => q = i
        BY <1>1, <1>2, <3>5 DEF RequestOK
      <4> QED BY <1>7, <3>7, <4>1
    <3> QED BY <3>8, <3>9, <3>10, <3>11, <3>12, RequestNone
  <2> HIDE DEF ps, p, i
  <2> QED BY <1>2, <1>4, <1>5, <1>6, <2>2, <2>3, <2>4, Deeper DEF Harmless
<1> QED BY <1>2, <1>8, <1>9

-----------------------------------------------------------------------------
\* The answer to an OpenChannel.

\* What ReceiveResult may do, since no channel is refused and no request is
\* accepted with its result.
LEMMA ResultCases ==
  ASSUME IInv, Deep, NEW s \in Side, ReceiveResult(s)
  PROVE  LET i == Head(wire[s]).id
             c == chan[s][i]
             d == [c EXCEPT !.opened = TRUE] IN
         /\ wire[s] # << >> /\ Head(wire[s]).kind = "result" /\ i \in Ids
         /\ purpose' = purpose /\ auth' = auth /\ queued' = queued
         /\ \/ Acts(s, TRUE, << >>, i, c)
            \/ c.dir = "out" /\ c.type # "auth" /\ Acts(s, TRUE, << >>, i, d)
            \/ c.dir = "out" /\ c.type = "auth" /\ Acts(s, TRUE, <<DataPacket(i, "proof")>>, i, d)
            \/ /\ c.dir = "out" /\ c.type = "request" /\ ~Up(s)'
               /\ Acts(s, TRUE, <<ClosePacket(i)>>, i, NoChannel)
<1> DEFINE p == Head(wire[s])
           i == p.id
           c == chan[s][i]
           d == [c EXCEPT !.opened = TRUE]
           ok == p.opened /\ (c.type = "request" => p.response # "none")
<1>1. wire[s] # << >> /\ sock[s] # "closed" /\ p.kind = "result"
  BY DEF ReceiveResult, Reads
<1>2. Fit(s, p, Known) /\ p \in Packet
  BY <1>1, HeadFits DEF Deep
<1>3. i \in Ids /\ p.opened = TRUE /\ p.response # "Accepted" /\ p.response \in Responses \cup {"none"}
  BY <1>1, <1>2 DEF Fit, Packet
<1>4. c \in Channel \cup {NoChannel}
  BY <1>3 DEF IInv, TablesOK
<1>5. CASE c.dir # "out" \/ c.opened
  <2>1. Reply(s, << >>) /\ UNCHANGED <<sock, chan, purpose, auth, queued>>
    BY <1>5 DEF ReceiveResult
  <2>2. chan' = [chan EXCEPT ![s][i] = c]
    BY <1>3, <2>1 DEF IInv, TablesOK
  <2>3. Acts(s, TRUE, << >>, i, c)
    BY <1>1, <1>3, <2>1, <2>2, ReplyActs
  <2> QED BY <1>1, <1>3, <2>1, <2>3
<1>6. CASE c.dir = "out" /\ ~c.opened /\ c.type = "request" /\ p.response # "none"
  <2>1. RequestAnswered(s, i, p.response) /\ auth' = auth /\ queued' = queued
    BY <1>6 DEF ReceiveResult
  <2>2. purpose' = purpose
    BY <1>3, <2>1 DEF RequestAnswered
  <2>3. sock' = sock \/ (Up(s) /\ sock' = [sock EXCEPT ![s] = "closing"])
    BY <2>1 DEF RequestAnswered, CloseIf, Up
  <2>4. CASE p.response = "Pending"
    <3>1. Reply(s, << >>)
      BY <2>1, <2>4 DEF RequestAnswered
    <3>2. chan' = [chan EXCEPT ![s][i] = [@ EXCEPT !.opened = TRUE]]
      BY <2>1, <2>4 DEF RequestAnswered
    <3>3. chan' = [chan EXCEPT ![s][i] = d]
      BY <1>3, <3>2 DEF IInv, TablesOK
    <3>4. Acts(s, TRUE, << >>, i, d)
      BY <1>1, <1>3, <2>3, <3>1, <3>3, ReplyActs
    <3> QED BY <1>1, <1>3, <1>6, <2>1, <2>2, <3>4
  <2>5. CASE p.response # "Pending"
    <3>1. Reply(s, <<ClosePacket(i)>>) /\ chan' = [chan EXCEPT ![s][i] = NoChannel]
      BY <2>1, <2>5 DEF RequestAnswered
    <3>2. CloseIf(s, TRUE)
      BY <1>3, <1>6, <2>1, <2>5 DEF RequestAnswered, Responses, CloseIf
    <3>3. Acts(s, TRUE, <<ClosePacket(i)>>, i, NoChannel)
      BY <1>1, <1>3, <2>3, <3>1, ReplyActs
    <3> QED BY <1>1, <1>3, <1>6, <2>1, <2>2, <3>2, <3>3, ClosedIf
  <2> QED BY <2>4, <2>5
<1>7. CASE c.dir = "out" /\ ~c.opened /\ ~(c.type = "request" /\ p.response # "none")
  <2>1. /\ Reply(s, IF ok /\ c.type = "auth" THEN <<DataPacket(i, "proof")>>
                    ELSE IF p.opened /\ ~ok THEN <<ClosePacket(i)>> ELSE << >>)
        /\ chan' = [chan EXCEPT ![s][i] = IF ok THEN [@ EXCEPT !.opened = TRUE] ELSE NoChannel]
        /\ CloseIf(s, ~ok /\ OwnerCloses(s, c.type))
        /\ UNCHANGED <<purpose, auth, queued>>
    BY <1>7 DEF ReceiveResult
  <2>2. sock' = sock \/ (Up(s) /\ sock' = [sock EXCEPT ![s] = "closing"])
    BY <2>1 DEF CloseIf, Up
  <2>3. CASE c.type = "request"
    <3>1. ~ok
      BY <1>7, <2>3
    <3>2. Reply(s, <<ClosePacket(i)>>) /\ chan' = [chan EXCEPT ![s][i] = NoChannel]
      BY <1>3, <2>1, <2>3, <3>1
    <3>3. OwnerCloses(s, c.type)
      <4>1. c # NoChannel
        BY <2>3 DEF NoChannel
      <4>2. s = C
        BY <1>3, <1>7, <2>3, <4>1, Parity
      <4>3. purpose[C] = "OutboundRequest"
        BY <1>3, <2>3, <4>2 DEF Deep, RequestOK
      <4> QED BY <2>3, <4>2, <4>3 DEF OwnerCloses
    <3>4. CloseIf(s, TRUE)
      BY <2>1, <3>1, <3>3 DEF CloseIf
    <3>5. Acts(s, TRUE, <<ClosePacket(i)>>, i, NoChannel)
      BY <1>1, <1>3, <2>2, <3>2, ReplyActs
    <3> QED BY <1>1, <1>3, <1>7, <2>1, <2>3, <3>4, <3>5, ClosedIf
  <2>4. CASE c.type # "request"
    <3>1. ok
      BY <1>3, <2>4
    <3>2. chan' = [chan EXCEPT ![s][i] = [@ EXCEPT !.opened = TRUE]]
      BY <2>1, <3>1
    <3>3. chan' = [chan EXCEPT ![s][i] = d]
      BY <1>3, <3>2 DEF IInv, TablesOK
    <3>4. CASE c.type = "auth"
      <4>1. Reply(s, <<DataPacket(i, "proof")>>)
        BY <2>1, <3>1, <3>4
      <4>2. Acts(s, TRUE, <<DataPacket(i, "proof")>>, i, d)
        BY <1>1, <1>3, <2>2, <3>3, <4>1, ReplyActs
      <4> QED BY <1>1, <1>3, <1>7, <2>1, <3>4, <4>2
    <3>5. CASE c.type # "auth"
      <4>1. Reply(s, << >>)
        BY <2>1, <3>1, <3>5
      <4>2. Acts(s, TRUE, << >>, i, d)
        BY <1>1, <1>3, <2>2, <3>3, <4>1, ReplyActs
      <4> QED BY <1>1, <1>3, <1>7, <2>1, <3>5, <4>2
    <3> QED BY <3>4, <3>5
  <2> QED BY <2>3, <2>4
<1> QED BY <1>5, <1>6, <1>7

\* The result of the authentication channel's OpenChannel.
LEMMA ResultStages ==
  ASSUME IInv, Deep, ~Serving, wire[C] # << >>, Head(wire[C]).kind = "result",
         NEW i \in Ids, i = Head(wire[C]).id,
         NEW W \in {<< >>, <<DataPacket(i, "proof")>>}, W # << >> => sock[S] # "closed",
         wire'[C] = Tail(wire[C]), wire'[S] = wire[S] \o W,
         chan'[S] = chan[S], chan'[C][i].type = chan[C][i].type,
         \A j \in Ids : j # i => chan'[C][j] = chan[C][j],
         purpose' = purpose, auth' = auth, queued' = queued
  PROVE  Stages' /\ chan[C][i].type = "auth"
<1>0. \A x, b : /\ OpenPacket(x, b).kind = "open" /\ DataPacket(x, b).kind = "data"
                /\ ResultPacket(x, TRUE, b).id = x
  BY DEF OpenPacket, DataPacket, ResultPacket
<1>1. ~Greeting
  BY OnePacket DEF Greeting
<1>2. ASSUME NEW j \in Ids, Proved(j) PROVE FALSE
  <2>1. wire[C] \in Seq(Packet)
    BY Ends DEF IInv, WiresOK
  <2>2. Head(wire[C]) = wire[C][1]
    BY <2>1, Shrunk
  <2>3. wire[C][1] = DataPacket(j, "known") \/ wire[C][1] = DataPacket(j, "unknown")
    BY <1>2 DEF Proved
  <2> QED BY <1>0, <2>2, <2>3
<1>3. PICK j \in Ids : Proving(j)
  BY <1>1, <1>2 DEF Deep, Stages
<1>4. /\ wire[S] = << >> /\ wire[C] = <<ResultPacket(j, TRUE, "none")>>
      /\ chan[C][j].type = "auth" /\ (sock[S] = "closed" \/ chan[S][j].type = "auth")
  BY <1>3 DEF Proving
<1>5. i = j /\ wire'[C] = << >>
  <2>1. Head(wire[C]) = ResultPacket(j, TRUE, "none") /\ Tail(wire[C]) = << >>
    BY <1>4, OnePacket
  <2>2. ResultPacket(j, TRUE, "none").id = j
    BY DEF ResultPacket
  <2> QED BY <2>1, <2>2
<1>6. wire'[S] = W
  BY <1>4
<1>7. Undecided' /\ Unproved' /\ OnlyAuth(S, i)'
  BY <1>3, <1>5 DEF Proving, Undecided, Unproved, OnlyAuth
<1>8. OnlyAuth(C, i)'
  BY <1>3, <1>4, <1>5 DEF Proving, OnlyAuth
<1>9. Proving(i)'
  BY <1>4, <1>5, <1>6, <1>7, <1>8 DEF Proving, Waiting
<1> QED BY <1>4, <1>5, <1>9 DEF Stages


LEMMA ProofWritten ==
  ASSUME NEW i \in Ids, OwnParity(C, i), NEW k
  PROVE  LET ps == <<DataPacket(i, "proof")>> IN
         ps \in Seq(Packet) /\ Plain(ps) /\ Writes(C, ps, k) /\ Unasking(C, ps)
<1> DEFINE p == DataPacket(i, "proof")
           ps == <<p>>
<1>1. p \in Packet /\ p.kind = "data" /\ p.id = i /\ p.body = "proof"
  BY DEF DataPacket, Packet, Bodies
<1>2. p \notin RequestOpens
  BY <1>1, PacketKinds DEF RequestOpens
<1>3. Fit(Peer(C), p, k)
  BY <1>1, Ends DEF Fit
<1> HIDE DEF p
<1>4. DOMAIN ps = {1} /\ ps[1] = p /\ ps \in Seq(Packet)
  BY <1>1
<1> HIDE DEF ps
<1>5. Plain(ps) /\ Writes(C, ps, k) /\ Unasking(C, ps)
  BY <1>1, <1>2, <1>3, <1>4 DEF Plain, Writes, Unasking
<1> QED BY <1>4, <1>5 DEF ps, p

LEMMA EarlyResult ==
  ASSUME IInv, Deep, ~Serving, wire[C] # << >>, Head(wire[C]).kind = "result",
         NEW i \in Ids, i = Head(wire[C]).id,
         NEW ps \in {<< >>, <<DataPacket(i, "proof")>>}, ps \in Seq(Packet),
         NEW c, c.type = chan[C][i].type, Acts(C, TRUE, ps, i, c), Shape(C, TRUE, ps, i, c),
         purpose' = purpose, auth' = auth, queued' = queued
  PROVE  Deep'
<1>1. /\ wire'[C] = Tail(wire[C]) /\ wire'[S] = wire[S] \o Written(C, ps)
      /\ Up(C) /\ sock[S] # "closed" => Written(C, ps) = ps
      /\ ~Up(C) \/ sock[S] = "closed" => Written(C, ps) = << >>
      /\ Written(C, ps) \in Seq(Packet)
      /\ chan'[C][i] = c /\ \A j \in Ids : j # i => chan'[C][j] = chan[C][j]
      /\ chan'[S] = chan[S] /\ sock'[S] = sock[S]
  <2>1. C \in Side /\ Peer(C) = S
    BY Ends
  <2>2. /\ wire'[C] = Tail(wire[C]) /\ wire'[Peer(C)] = wire[Peer(C)] \o Written(C, ps)
        /\ Up(C) /\ sock[Peer(C)] # "closed" => Written(C, ps) = ps
        /\ ~Up(C) \/ sock[Peer(C)] = "closed" => Written(C, ps) = << >>
        /\ Written(C, ps) \in Seq(Packet)
        /\ chan'[C][i] = c /\ \A j \in Ids : j # i => chan'[C][j] = chan[C][j]
        /\ chan'[Peer(C)] = chan[Peer(C)] /\ sock'[Peer(C)] = sock[Peer(C)]
    BY <2>1, ReplyFacts
  <2> QED BY <2>1, <2>2
<1> DEFINE W == Written(C, ps)
<1>2. W \in {<< >>, <<DataPacket(i, "proof")>>} /\ (W # << >> => sock[S] # "closed")
  BY <1>1
<1>3. wire'[S] = wire[S] \o W
  BY <1>1
<1>4. Stages' /\ chan[C][i].type = "auth"
  <2> HIDE DEF W
  <2> QED BY <1>1, <1>2, <1>3, ResultStages
<1>5. OwnParity(C, i) /\ chan[C][i] # NoChannel
  BY <1>4, Ends, Parity DEF NoChannel
<1>6. Unasking(C, ps) /\ Writes(C, ps, Known') /\ \A n \in DOMAIN ps : ps[n].kind # "open"
  <2>1. CASE ps = << >>
    BY <2>1 DEF Unasking, Writes
  <2>2. CASE ps = <<DataPacket(i, "proof")>>
    <3>1. Plain(ps) /\ Writes(C, ps, Known') /\ Unasking(C, ps)
      BY <1>5, <2>2, ProofWritten
    <3> QED BY <3>1 DEF Plain
  <2> QED BY <2>1, <2>2
<1>7. ~Trusting(chan[C], Head(wire[C]))
  BY DEF Trusting
<1>8. Asked' => Asked
  BY DEF Asked
<1>9. RequestOK'
  BY <1>4, <1>5, <1>6, <1>8, Ends, MildRequest
<1>10. TrustComes'
  BY <1>4, <1>7, Ends, MildTrust
<1>11. Known => Known'
  BY DEF Known
<1> QED BY <1>4, <1>6, <1>9, <1>10, <1>11, Ends, Deeper

LEMMA ResultDeep ==
  ASSUME IInv, Deep, NEW s \in Side, ReceiveResult(s)
  PROVE  Deep'
<1> DEFINE i == Head(wire[s]).id
           c == chan[s][i]
           d == [c EXCEPT !.opened = TRUE]
           pr == <<DataPacket(i, "proof")>>
           cl == <<ClosePacket(i)>>
<1>1. /\ wire[s] # << >> /\ Head(wire[s]).kind = "result" /\ i \in Ids
      /\ purpose' = purpose /\ auth' = auth /\ queued' = queued
      /\ \/ Acts(s, TRUE, << >>, i, c)
         \/ c.dir = "out" /\ c.type # "auth" /\ Acts(s, TRUE, << >>, i, d)
         \/ c.dir = "out" /\ c.type = "auth" /\ Acts(s, TRUE, pr, i, d)
         \/ /\ c.dir = "out" /\ c.type = "request" /\ ~Up(s)'
            /\ Acts(s, TRUE, cl, i, NoChannel)
  BY ResultCases
<1>2. /\ \A j \in Ids : ~Takes(s, TRUE, ClosePacket(j))
      /\ \A j \in Ids, t \in Types : ~Takes(s, TRUE, OpenPacket(j, t))
  <2>1. Head(wire[s]).kind = "result"
    BY <1>1
  <2>2. /\ \A j : ClosePacket(j).kind = "close"
        /\ \A j, t : OpenPacket(j, t).kind = "open"
    BY DEF ClosePacket, OpenPacket
  <2> QED BY <2>1, <2>2 DEF Takes
<1>3. /\ s = C => ~Trusting(chan[C], Head(wire[C]))
      /\ Asked' => Asked
  BY <1>1 DEF Trusting, Asked
<1>4. c.dir = "out" => d.type = c.type /\ d # NoChannel /\ c # NoChannel
  <2>1. c \in Channel \cup {NoChannel}
    BY <1>1 DEF IInv, TablesOK
  <2> QED BY <2>1 DEF Channel, NoChannel
<1>5. ~Serving => s = C /\ c.type = "auth"
  <2>1. \A j : ResultPacket(j, TRUE, "none").id = j
    BY DEF ResultPacket
  <2> QED BY <1>1, <2>1, EarlyKinds
<1>6. Serving => c.type # "auth"
  BY <1>1 DEF Serving
<1>7. /\ Harmless(s, << >>) /\ Writes(s, << >>, Known)
      /\ Harmless(s, cl) /\ Writes(s, cl, Known) /\ Closes(cl, i)
  BY <1>1, NothingWritten, CloseWritten
<1>8. /\ Shape(s, TRUE, << >>, i, c)
      /\ c.dir = "out" => Shape(s, TRUE, << >>, i, d) /\ Shape(s, TRUE, cl, i, NoChannel)
  BY <1>1, <1>2, <1>7 DEF Shape, Stays, IsOpened, Drops, Harmless
<1>9. s = C => c.type = chan[C][i].type /\ c = chan[C][i]
  OBVIOUS
<1>10. NoChannel.type = "none"
  BY DEF NoChannel
<1>11. << >> \in Seq(Packet)
  OBVIOUS
<1>12. c = chan[s][i]
  OBVIOUS
<1>13. CASE Acts(s, TRUE, << >>, i, c)
  <2>1. CASE Serving
    <3> HIDE DEF i, c, d, pr, cl
    <3> QED BY <1>1, <1>3, <1>6, <1>7, <1>8, <1>9, <1>12, <1>13, <2>1, ServingStep DEF Harmless
  <2>2. CASE ~Serving
    <3>1. s = C /\ i = Head(wire[C]).id
      BY <1>5, <2>2
    <3> HIDE DEF i, c, d, pr, cl
    <3> QED BY <1>1, <1>8, <1>9, <1>11, <1>13, <2>2, <3>1, EarlyResult
  <2> QED BY <2>1, <2>2
<1>14. CASE c.dir = "out" /\ c.type # "auth" /\ Acts(s, TRUE, << >>, i, d)
  <2>1. Serving
    BY <1>5, <1>14
  <2> HIDE DEF i, c, d, pr, cl
  <2> QED BY <1>1, <1>3, <1>4, <1>7, <1>8, <1>9, <1>12, <1>14, <2>1, ServingStep DEF Harmless
<1>15. CASE c.dir = "out" /\ c.type = "auth" /\ Acts(s, TRUE, pr, i, d)
  <2>1. ~Serving /\ s = C /\ i = Head(wire[C]).id
    BY <1>5, <1>6, <1>15
  <2>2. OwnParity(C, i)
    <3>1. c # NoChannel /\ c.dir = "out"
      BY <1>4, <1>15
    <3>2. i \in Ids /\ s = C
      BY <1>1, <2>1
    <3>3. chan[s][i].dir = "out" <=> OwnParity(s, i)
      <4> HIDE DEF i
      <4> QED BY <3>1, <3>2, Parity
    <3> QED BY <3>1, <3>2, <3>3
  <2>3. pr \in Seq(Packet) /\ Plain(pr)
    BY <1>1, <2>2, ProofWritten
  <2>4. Shape(s, TRUE, pr, i, d)
    BY <1>1, <1>15, <2>3 DEF Shape, IsOpened
  <2>5. pr \in {<< >>, <<DataPacket(i, "proof")>>}
    OBVIOUS
  <2> HIDE DEF i, c, d, pr, cl
  <2> QED BY <1>1, <1>4, <1>9, <1>15, <2>1, <2>3, <2>4, <2>5, EarlyResult
<1>16. CASE c.dir = "out" /\ c.type = "request" /\ ~Up(s)' /\ Acts(s, TRUE, cl, i, NoChannel)
  <2>1. Serving
    BY <1>5, <1>16
  <2>2. ~Up(C)' \/ s # C
    BY <1>16
  <2> HIDE DEF i, c, d, pr, cl
  <2> QED BY <1>1, <1>3, <1>4, <1>7, <1>8, <1>9, <1>10, <1>12, <1>16, <2>1, <2>2, ServingStep DEF Harmless
<1> QED BY <1>1, <1>13, <1>14, <1>15, <1>16

-----------------------------------------------------------------------------
\* An OpenChannel is read.

\* What ReceiveOpen may do, since the identifier is always a valid one and the
\* channel is only refused by a socket that takes no packets any more.
LEMMA OpenCases ==
  ASSUME IInv, Deep, NEW s \in Side, ReceiveOpen(s)
  PROVE  LET i == Head(wire[s]).id
             t == Head(wire[s]).type
             c == [type |-> t, dir |-> "in", opened |-> TRUE] IN
         /\ auth' = auth
         /\ \/ /\ ~Up(s) /\ Acts(s, TRUE, << >>, i, chan[s][i])
               /\ purpose' = purpose /\ queued' = queued
            \/ \E r \in {"none", "Pending", "Rejected", "Error"} :
                 /\ Acts(s, TRUE, <<ResultPacket(i, TRUE, r)>>, i, c)
                 /\ t # "request" => r = "none" /\ purpose' = purpose /\ queued' = queued
                 /\ t = "request" =>
                      /\ purpose'[S] # "KnownContact" /\ purpose'[C] = purpose[C]
                      /\ queued'[C] = queued[C]
<1> DEFINE p == Head(wire[s])
           i == p.id
           t == p.type
           c == [type |-> t, dir |-> "in", opened |-> TRUE]
           ok == AllowInbound(s, t)
           r == IF t # "request" THEN "none"
                ELSE IF purpose[s] = "KnownContact" THEN "Accepted"
                ELSE IF ~ok THEN "none"
                ELSE IF contact[s] = "blocked" THEN "Rejected"
                ELSE IF contact[s] = "none" THEN "Pending" ELSE "Error"
<1>1. /\ wire[s] # << >> /\ i \in Ids /\ t \in Types /\ ValidInboundId(s, i)
      /\ Up(s) => ok
      /\ s = C => t \in Chats
      /\ sock[s] # "closed"
  BY OpenAtHead DEF ReceiveOpen, Reads
<1>2. /\ Reply(s, <<ResultPacket(i, ok, r)>>)
      /\ chan' = IF ok THEN [chan EXCEPT ![s][i] = c] ELSE chan
      /\ purpose' = IF t = "request" /\ ok /\ r # "Rejected"
                    THEN [purpose EXCEPT ![s] = "InboundRequest"] ELSE purpose
      /\ queued' = IF ok /\ r \in {"Rejected", "Error"}
                   THEN [queued EXCEPT ![s] = @ \cup {"closeRequest"}] ELSE queued
      /\ UNCHANGED <<sock, auth>>
  BY <1>1 DEF ReceiveOpen
<1>3. CASE ~ok
  <2>1. ~Up(s)
    BY <1>1, <1>3
  <2>2. Reply(s, << >>)
    BY <1>2, <2>1 DEF Reply, Written, Up
  <2>3. chan' = [chan EXCEPT ![s][i] = chan[s][i]]
    BY <1>1, <1>2, <1>3 DEF IInv, TablesOK
  <2>4. Acts(s, TRUE, << >>, i, chan[s][i])
    BY <1>1, <1>2, <2>2, <2>3, ReplyActs
  <2>5. purpose' = purpose /\ queued' = queued /\ auth' = auth
    BY <1>2, <1>3
  <2> QED BY <2>1, <2>4, <2>5
<1>4. CASE ok
  <2>1. ResultPacket(i, ok, r) = ResultPacket(i, TRUE, r)
    BY <1>4 DEF ResultPacket
  <2>2. t = "request" => purpose[s] = "Unknown" /\ s = S
    BY <1>4, Ends DEF AllowInbound
  <2>3. r \in {"none", "Pending", "Rejected", "Error"} /\ (t # "request" => r = "none")
    BY <1>4, <2>2
  <2>4. chan' = [chan EXCEPT ![s][i] = c]
    BY <1>2, <1>4
  <2>5. Reply(s, <<ResultPacket(i, TRUE, r)>>)
    BY <1>2, <2>1
  <2>6. sock' = sock \/ (Up(s) /\ sock' = [sock EXCEPT ![s] = "closing"])
    BY <1>2
  <2>7. t # "request" => purpose' = purpose /\ queued' = queued
    BY <1>2, <2>3
  <2>8. t = "request" => /\ purpose'[S] # "KnownContact" /\ purpose'[C] = purpose[C]
                         /\ queued'[C] = queued[C]
    <3> HIDE DEF r, ok
    <3> QED BY <1>2, <2>2, Ends DEF IInv, PlainOK
  <2> HIDE DEF r, c
  <2>9. Acts(s, TRUE, <<ResultPacket(i, TRUE, r)>>, i, c)
    BY <1>1, <2>4, <2>5, <2>6, ReplyActs
  <2> QED BY <1>2, <2>3, <2>7, <2>8, <2>9 DEF c
<1> QED BY <1>3, <1>4

LEMMA ResultWritten ==
  ASSUME NEW s \in Side, NEW i \in Ids, NEW r \in {"none", "Pending", "Rejected", "Error"},
         OwnParity(Peer(s), i), NEW k
  PROVE  LET ps == <<ResultPacket(i, TRUE, r)>> IN
         /\ ps \in Seq(Packet) /\ Writes(s, ps, k) /\ Unasking(s, ps)
         /\ \A n \in DOMAIN ps : Late(ps[n]) /\ ps[n].kind # "open"
<1> DEFINE p == ResultPacket(i, TRUE, r)
           ps == <<p>>
<1>1. p \in Packet /\ p.kind = "result" /\ p.id = i /\ p.opened = TRUE /\ p.response = r
  BY DEF ResultPacket, Packet, Responses
<1>2. p \notin RequestOpens /\ p \notin Answers
  <2>1. \A x, b : OpenPacket(x, b).kind = "open"
    BY DEF OpenPacket
  <2>2. p \notin RequestOpens
    BY <1>1, <2>1 DEF RequestOpens
  <2> HIDE DEF p
  <2>3. p \notin Answers
    BY <1>1 DEF Answers
  <2> QED BY <2>2, <2>3
<1>3. Fit(Peer(s), p, k) /\ Late(p)
  BY <1>1 DEF Fit, Late
<1> HIDE DEF p
<1>4. DOMAIN ps = {1} /\ ps[1] = p /\ ps \in Seq(Packet)
  BY <1>1
<1> HIDE DEF ps
<1>5. Writes(s, ps, k) /\ Unasking(s, ps)
  BY <1>2, <1>3, <1>4 DEF Writes, Unasking
<1>6. \A n \in DOMAIN ps : Late(ps[n]) /\ ps[n].kind # "open"
  BY <1>1, <1>3, <1>4
<1> QED BY <1>4, <1>5, <1>6 DEF ps, p

\* The authentication channel is admitted, or its opener is no longer there.
LEMMA OpenStages ==
  ASSUME IInv, Deep, ~Serving, NEW i \in Ids, wire[S] # << >>, Head(wire[S]) = OpenPacket(i, "auth"),
         NEW W, W = << >> \/ (W = <<ResultPacket(i, TRUE, "none")>> /\ sock[C] # "closed"),
         wire'[S] = Tail(wire[S]), wire'[C] = wire[C] \o W,
         chan'[C] = chan[C], sock'[C] = sock[C],
         \A j \in Ids : j # i => chan'[S][j] = chan[S][j],
         W = << >> => chan'[S][i] = chan[S][i] \/ chan'[S][i].type = "auth",
         W # << >> => chan'[S][i].type = "auth",
         purpose' = purpose, auth' = auth, queued' = queued
  PROVE  Stages'
<1>0. \A x, b : /\ OpenPacket(x, b).kind = "open" /\ DataPacket(x, b).kind = "data"
                /\ OpenPacket(x, b).id = x
  BY DEF OpenPacket, DataPacket
<1>1. ~Greeting
  BY <1>0, OnePacket DEF Greeting
<1>2. \A j \in Ids : ~Proved(j)
  BY DEF Proved
<1>3. PICK j \in Ids : Proving(j)
  BY <1>1, <1>2 DEF Deep, Stages
<1>4. wire[C] = << >> /\ wire[S] = <<OpenPacket(j, "auth")>> /\ Waiting(j) /\ chan[S][j] = NoChannel
  <2>1. wire[S] # <<DataPacket(j, "proof")>>
    <3>1. Head(<<DataPacket(j, "proof")>>) = DataPacket(j, "proof")
      BY OnePacket
    <3> QED BY <1>0, <3>1
  <2> QED BY <1>3, <2>1 DEF Proving
<1>5. i = j /\ wire'[S] = << >>
  <2>1. Head(wire[S]) = OpenPacket(j, "auth") /\ Tail(wire[S]) = << >>
    BY <1>4, OnePacket
  <2> QED BY <1>0, <2>1
<1>6. wire'[C] = W
  <2> DEFINE x == ResultPacket(i, TRUE, "none")
  <2>1. W = << >> \/ W = <<x>>
    OBVIOUS
  <2> HIDE DEF x
  <2>2. << >> \o << >> = << >> /\ << >> \o <<x>> = <<x>>
    OBVIOUS
  <2> QED BY <1>4, <2>1, <2>2
<1>7. Undecided' /\ Unproved' /\ OnlyAuth(C, i)'
  BY <1>3, <1>5 DEF Proving, Undecided, Unproved, OnlyAuth
<1>8. OnlyAuth(S, i)'
  BY <1>3, <1>4, <1>5 DEF Proving, OnlyAuth
<1>9. Proving(i)'
  BY <1>4, <1>5, <1>6, <1>7, <1>8 DEF Proving, Waiting
<1> QED BY <1>9 DEF Stages


LEMMA EarlyOpen ==
  ASSUME IInv, Deep, ~Serving, NEW i \in Ids, wire[S] # << >>,
         Head(wire[S]) = OpenPacket(i, "auth"), chan[S][i] = NoChannel,
         NEW ps \in {<< >>, <<ResultPacket(i, TRUE, "none")>>}, ps \in Seq(Packet),
         NEW c, Acts(S, TRUE, ps, i, c), Shape(S, TRUE, ps, i, c),
         c = chan[S][i] \/ c.type = "auth", ps # << >> => c.type = "auth",
         Writes(S, ps, Known'), Unasking(S, ps), \A n \in DOMAIN ps : ps[n].kind # "open",
         purpose' = purpose, auth' = auth, queued' = queued
  PROVE  Deep'
<1>1. /\ wire'[S] = Tail(wire[S]) /\ wire'[C] = wire[C] \o Written(S, ps)
      /\ Up(S) /\ sock[C] # "closed" => Written(S, ps) = ps
      /\ ~Up(S) \/ sock[C] = "closed" => Written(S, ps) = << >>
      /\ Written(S, ps) \in Seq(Packet)
      /\ chan'[S][i] = c /\ \A j \in Ids : j # i => chan'[S][j] = chan[S][j]
      /\ chan'[C] = chan[C] /\ sock'[C] = sock[C]
  <2>1. S \in Side /\ Peer(S) = C
    BY Ends
  <2>2. /\ wire'[S] = Tail(wire[S]) /\ wire'[Peer(S)] = wire[Peer(S)] \o Written(S, ps)
        /\ Up(S) /\ sock[Peer(S)] # "closed" => Written(S, ps) = ps
        /\ ~Up(S) \/ sock[Peer(S)] = "closed" => Written(S, ps) = << >>
        /\ Written(S, ps) \in Seq(Packet)
        /\ chan'[S][i] = c /\ \A j \in Ids : j # i => chan'[S][j] = chan[S][j]
        /\ chan'[Peer(S)] = chan[Peer(S)] /\ sock'[Peer(S)] = sock[Peer(S)]
    BY <2>1, ReplyFacts
  <2> QED BY <2>1, <2>2
<1> DEFINE W == Written(S, ps)
<1>2. W = << >> \/ (W = <<ResultPacket(i, TRUE, "none")>> /\ sock[C] # "closed")
  BY <1>1
<1>3. wire'[C] = wire[C] \o W
  BY <1>1
<1>4. W # << >> => chan'[S][i].type = "auth"
  <2>1. W # << >> => ps # << >>
    BY <1>1
  <2> QED BY <1>1, <2>1
<1>5. chan'[S][i] = chan[S][i] \/ chan'[S][i].type = "auth"
  BY <1>1
<1>6. Stages'
  <2> HIDE DEF W
  <2> QED BY <1>1, <1>2, <1>3, <1>4, <1>5, OpenStages
<1>7. c.type # "request" /\ S # C
  BY Ends DEF NoChannel
<1>8. Asked' => Asked
  BY DEF Asked
<1>9. RequestOK'
  BY <1>7, <1>8, Ends, MildRequest
<1>10. TrustComes'
  BY <1>7, Ends, MildTrust
<1>11. Known => Known'
  BY DEF Known
<1> QED BY <1>6, <1>9, <1>10, <1>11, Ends, Deeper

\* The contact request is admitted: it is no longer asked, but judged.
LEMMA RequestAdmitted ==
  ASSUME IInv, Deep, NEW i \in Ids, wire[S] # << >>, Head(wire[S]) = OpenPacket(i, "request"),
         NEW W \in Seq(Packet), \A n \in DOMAIN W : W[n] \notin Answers,
         wire'[S] = Tail(wire[S]), wire'[C] = wire[C] \o W,
         chan'[C] = chan[C], sock'[C] = sock[C],
         \A j \in Ids : j # i => chan'[S][j] = chan[S][j],
         purpose'[S] # "KnownContact", purpose'[C] = purpose[C], queued'[C] = queued[C]
  PROVE  RequestOK'
<1> DEFINE w == wire[S]
           p == OpenPacket(i, "request")
<1>1. w \in Seq(Packet) /\ w # << >> /\ Head(w) = p /\ wire[C] \in Seq(Packet)
  BY Ends DEF IInv, WiresOK
<1>2. /\ 1 \in DOMAIN w /\ w[1] = p
      /\ \A n \in DOMAIN Tail(w) : n + 1 \in DOMAIN w /\ Tail(w)[n] = w[n + 1] /\ 0 < n
      /\ DOMAIN Tail(w) \subseteq Nat
  <2> HIDE DEF w, p
  <2> QED BY <1>1, Shrunk
<1>3. 1 \in Asking /\ p.id = i
  BY <1>2 DEF Asking, At, RequestOpens, OpenPacket
<1>4. RequestOK /\ OnceOnly
  BY DEF Deep, RequestOK
<1>5. One(Asking) /\ Judged = {} /\ Answering = {} /\ ~Asked
  BY <1>3, <1>4 DEF OnceOnly
<1>6. Requested(chan[C], Up(C), i)
  <2>1. Requested(chan[C], Up(C), wire[S][1].id)
    BY <1>3, <1>4 DEF RequestOK
  <2> QED BY <1>2, <1>3, <2>1
<1>7. Asking' = {}
  <2> SUFFICES ASSUME NEW n \in Asking' PROVE FALSE
    OBVIOUS
  <2>1. n \in DOMAIN Tail(w) /\ Tail(w)[n] \in RequestOpens
    BY DEF Asking, At
  <2>2. n + 1 \in Asking /\ n \in Nat /\ 0 < n
    BY <1>2, <2>1 DEF Asking, At
  <2>3. n + 1 = 1
    BY <1>3, <1>5, <2>2 DEF One
  <2> QED BY <2>2, <2>3
<1>8. Answering' = {}
  <2>1. At(wire[C] \o W, Answers) = At(wire[C], Answers)
    BY <1>1, FewerGrown
  <2> QED BY <1>5, <2>1 DEF Answering
<1>9. \A q \in Judged' : q \in Ids /\ q = i
  BY <1>5 DEF Judged
<1>10. ~Asked'
  BY <1>5 DEF Asked
<1>11. OnceOnly'
  <2>1. One(Judged') /\ One(Asking') /\ One(Answering')
    BY <1>7, <1>8, <1>9 DEF One
  <2> QED BY <1>7, <1>8, <1>10, <2>1 DEF OnceOnly, One
<1>12. \A q \in Judged' : purpose'[S] # "KnownContact" /\ Requested(chan'[C], Up(C)', q)
  <2>1. Requested(chan'[C], Up(C)', i)
    BY <1>6 DEF Up, Requested
  <2> QED BY <1>9, <2>1
<1>13. \A q \in Ids : chan'[C][q].type = "request" =>
         /\ purpose'[C] = "OutboundRequest"
         /\ \A r \in Ids : chan'[C][r].type = "request" => r = q
  BY <1>4 DEF RequestOK
<1> HIDE DEF w, p
<1> QED BY <1>7, <1>8, <1>10, <1>11, <1>12, <1>13 DEF RequestOK

LEMMA OpenDeep ==
  ASSUME IInv, Deep, NEW s \in Side, ReceiveOpen(s)
  PROVE  Deep'
<1> DEFINE p == Head(wire[s])
           i == p.id
           t == p.type
           c == [type |-> t, dir |-> "in", opened |-> TRUE]
           n == chan[s][i]
<1>1. /\ wire[s] # << >> /\ i \in Ids /\ t \in Types /\ p = OpenPacket(i, t) /\ ValidInboundId(s, i)
      /\ s = C => t \in Chats
      /\ ~Serving => s = S /\ t = "auth"
      /\ Serving => t # "auth"
      /\ p.kind = "open"
  BY OpenAtHead DEF ReceiveOpen, Reads
<1>2. /\ auth' = auth
      /\ \/ /\ ~Up(s) /\ Acts(s, TRUE, << >>, i, n)
            /\ purpose' = purpose /\ queued' = queued
         \/ \E r \in {"none", "Pending", "Rejected", "Error"} :
              /\ Acts(s, TRUE, <<ResultPacket(i, TRUE, r)>>, i, c)
              /\ t # "request" => r = "none" /\ purpose' = purpose /\ queued' = queued
              /\ t = "request" =>
                   /\ purpose'[S] # "KnownContact" /\ purpose'[C] = purpose[C]
                   /\ queued'[C] = queued[C]
  BY OpenCases
<1>3. OwnParity(Peer(s), i) /\ ~OwnParity(s, i) /\ n = NoChannel /\ chan[s][i] = NoChannel
  BY <1>1, Parity DEF ValidInboundId
<1>4. \A j \in Ids : ~Takes(s, TRUE, ClosePacket(j))
  BY <1>1, PacketKinds DEF Takes
<1>5. s = C => ~Trusting(chan[C], Head(wire[C]))
  BY <1>1 DEF Trusting
<1>6. n.type = "none" /\ c.type = t
  BY <1>3 DEF NoChannel
<1>7. s = C => chan[C][i].type = "none" /\ ~OwnParity(C, i)
  BY <1>3, <1>6
<1>8. CASE ~Up(s) /\ Acts(s, TRUE, << >>, i, n) /\ purpose' = purpose /\ queued' = queued
  <2>1. Harmless(s, << >>) /\ Writes(s, << >>, Known) /\ Writes(s, << >>, Known')
    BY NothingWritten
  <2>2. Shape(s, TRUE, << >>, i, n)
    BY <1>4, <1>8, <2>1 DEF Shape, Stays, Harmless
  <2>3. Asked' => Asked
    BY <1>8 DEF Asked
  <2>4. CASE Serving
    <3> HIDE DEF p, i, t, c, n
    <3> QED BY <1>1, <1>2, <1>3, <1>5, <1>6, <1>7, <1>8, <2>1, <2>2, <2>3, <2>4, ServingStep DEF Harmless
  <2>5. CASE ~Serving
    <3>1. s = S /\ t = "auth"
      BY <1>1, <2>5
    <3>2. << >> \in {<< >>, <<ResultPacket(i, TRUE, "none")>>}
      OBVIOUS
    <3>3. n = chan[S][i]
      BY <3>1
    <3>4. /\ wire[S] # << >> /\ Head(wire[S]) = OpenPacket(i, "auth")
          /\ chan[S][i] = NoChannel
      BY <1>1, <1>3, <3>1
    <3> HIDE DEF p, i, t, c, n
    <3>5. \A m \in DOMAIN << >> : << >>[m].kind # "open"
      OBVIOUS
    <3> QED BY <1>1, <1>2, <1>8, <2>1, <2>2, <2>5, <3>1, <3>2, <3>3, <3>4, <3>5, EarlyOpen DEF Harmless
  <2> QED BY <2>4, <2>5
<1>9. ASSUME NEW r \in {"none", "Pending", "Rejected", "Error"},
             Acts(s, TRUE, <<ResultPacket(i, TRUE, r)>>, i, c),
             t # "request" => r = "none" /\ purpose' = purpose /\ queued' = queued,
             t = "request" => /\ purpose'[S] # "KnownContact" /\ purpose'[C] = purpose[C]
                              /\ queued'[C] = queued[C]
      PROVE  Deep'
  <2> DEFINE ps == <<ResultPacket(i, TRUE, r)>>
  <2>1. /\ ps \in Seq(Packet) /\ Writes(s, ps, Known) /\ Unasking(s, ps)
        /\ \A m \in DOMAIN ps : Late(ps[m]) /\ ps[m].kind # "open"
    BY <1>1, <1>3, ResultWritten
  <2>2. Writes(s, ps, Known')
    BY <1>1, <1>3, ResultWritten
  <2>3. Shape(s, TRUE, ps, i, c)
    <3>1. Takes(s, TRUE, OpenPacket(i, t)) /\ r \in Responses \cup {"none"}
      BY <1>1 DEF Takes, Responses
    <3>2. Admits(s, TRUE, ps, i, c)
      BY <1>1, <1>3, <3>1 DEF Admits
    <3> QED BY <3>2 DEF Shape
  <2>4. Acts(s, TRUE, ps, i, c)
    BY <1>9
  <2> HIDE DEF c
  <2>5. CASE Serving /\ t # "request"
    <3>1. Asked' => Asked
      BY <1>9, <2>5 DEF Asked
    <3>2. purpose' = purpose
      BY <1>9, <2>5
    <3> HIDE DEF p, i, t, c, n, ps
    <3> QED BY <1>1, <1>2, <1>3, <1>5, <1>6, <1>7, <2>1, <2>3, <2>4, <2>5, <3>1, <3>2, ServingStep
  <2>6. CASE ~Serving
    <3>1. s = S /\ t = "auth" /\ r = "none" /\ purpose' = purpose /\ queued' = queued
      BY <1>1, <1>9, <2>6
    <3>2. /\ wire[S] # << >> /\ Head(wire[S]) = OpenPacket(i, "auth")
          /\ chan[S][i] = NoChannel
      BY <1>1, <1>3, <3>1
    <3>3. ps \in {<< >>, <<ResultPacket(i, TRUE, "none")>>}
      BY <3>1
    <3> HIDE DEF p, i, t, c, n, ps
    <3> QED BY <1>1, <1>2, <1>6, <2>1, <2>2, <2>3, <2>4, <2>6, <3>1, <3>2, <3>3, EarlyOpen
  <2>7. CASE Serving /\ t = "request"
    <3>1. s = S
      BY <1>1, <2>7, Ends DEF Chats
    <3>2. /\ wire'[S] = Tail(wire[S]) /\ wire'[C] = wire[C] \o Written(S, ps)
          /\ Written(S, ps) \in Seq(Packet) /\ (Written(S, ps) = ps \/ Written(S, ps) = << >>)
          /\ \A j \in Ids : j # i => chan'[S][j] = chan[S][j]
          /\ chan'[C] = chan[C] /\ sock'[C] = sock[C]
      <4>1. /\ wire'[s] = Tail(wire[s]) /\ wire'[Peer(s)] = wire[Peer(s)] \o Written(s, ps)
            /\ Up(s) /\ sock[Peer(s)] # "closed" => Written(s, ps) = ps
            /\ ~Up(s) \/ sock[Peer(s)] = "closed" => Written(s, ps) = << >>
            /\ Written(s, ps) \in Seq(Packet)
            /\ chan'[s][i] = c /\ \A j \in Ids : j # i => chan'[s][j] = chan[s][j]
            /\ chan'[Peer(s)] = chan[Peer(s)] /\ sock'[Peer(s)] = sock[Peer(s)]
        <5> HIDE DEF ps, p, i
        <5>1. ps \in Seq(Packet) /\ i \in Ids
          BY <1>1, <2>1
        <5> QED BY <2>4, <5>1, ReplyFacts
      <4> HIDE DEF ps, p, i
      <4> QED BY <3>1, <4>1, Ends
    <3> DEFINE W == Written(S, ps)
    <3>3. \A m \in DOMAIN W : W[m] \notin Answers /\ W[m].kind # "open"
      <4>1. \A m \in DOMAIN ps : ps[m] \notin Answers /\ ps[m].kind # "open"
        BY <2>1, <3>1, Ends DEF Unasking
      <4> HIDE DEF ps
      <4> QED BY <3>2, <4>1
    <3>4. wire[S] # << >> /\ Head(wire[S]) = OpenPacket(i, "request")
      BY <1>1, <2>7, <3>1
    <3>5. /\ W \in Seq(Packet) /\ wire'[S] = Tail(wire[S]) /\ wire'[C] = wire[C] \o W
          /\ chan'[C] = chan[C] /\ sock'[C] = sock[C]
          /\ \A j \in Ids : j # i => chan'[S][j] = chan[S][j]
      BY <3>2
    <3>6. purpose'[S] # "KnownContact" /\ purpose'[C] = purpose[C] /\ queued'[C] = queued[C]
      BY <1>9, <2>7
    <3> HIDE DEF W, ps, p, i, t, n
    <3>7. RequestOK'
      BY <1>1, <3>3, <3>4, <3>5, <3>6, RequestAdmitted
    <3>8. ~Trusted' /\ (Known' <=> Known) /\ (Up(C)' = Up(C))
      BY <3>5, <3>6, Ends DEF Trusted, Known, Up
    <3>9. TrustComes'
      <4>1. TrustComes
        BY DEF Deep
      <4> QED BY <3>3, <3>5, <3>8, <4>1, TrustAtServer
    <3>10. Stages'
      BY <1>1, <1>2, <1>6, <2>1, <2>4, <2>7, ServingKept
    <3>11. Known => Known'
      BY <3>8
    <3> QED BY <1>1, <2>1, <2>2, <2>3, <2>4, <3>7, <3>9, <3>10, <3>11, Deeper
  <2> QED BY <2>5, <2>6, <2>7
<1> QED BY <1>2, <1>8, <1>9

-----------------------------------------------------------------------------
\* Channels that a side opens on its own account.

LEMMA StillQuiet ==
  ASSUME IInv, NEW s \in Side, Acts(s, FALSE, << >>, 1, chan[s][1]), sock' = sock, chan' = chan,
         purpose' = purpose, auth' = auth, \A x \in Side : queued'[x] \subseteq queued[x]
  PROVE  Quiet(s)
<1>1. 1 \in Ids
  BY MaxIdAssumption DEF Ids
<1>2. << >> \in Seq(Packet)
  OBVIOUS
<1> DEFINE ps == << >>
<1>3. /\ wire'[s] = wire[s] /\ wire'[Peer(s)] = wire[Peer(s)] \o Written(s, ps)
      /\ Up(s) /\ sock[Peer(s)] # "closed" => Written(s, ps) = ps
      /\ ~Up(s) \/ sock[Peer(s)] = "closed" => Written(s, ps) = << >>
      /\ Written(s, ps) \in Seq(Packet)
      /\ chan'[s][1] = chan[s][1] /\ \A j \in Ids : j # 1 => chan'[s][j] = chan[s][j]
      /\ chan'[Peer(s)] = chan[Peer(s)] /\ sock'[Peer(s)] = sock[Peer(s)]
  <2>1. ps \in Seq(Packet) /\ Acts(s, FALSE, ps, 1, chan[s][1])
    BY <1>2
  <2> HIDE DEF ps
  <2> QED BY <1>1, <2>1, SendFacts
<1>4. wire'[Peer(s)] = wire[Peer(s)]
  <2>1. Written(s, ps) = << >>
    BY <1>3
  <2>2. wire[Peer(s)] \in Seq(Packet)
    BY Sides DEF IInv, WiresOK
  <2> QED BY <1>3, <2>1, <2>2
<1>5. wire' = wire
  <2>1. DOMAIN wire = Side /\ DOMAIN wire' = Side
    BY DEF Acts, IInv, WiresOK
  <2>2. \A x \in Side : wire'[x] = wire[x]
    BY <1>3, <1>4, Sides
  <2>3. wire = [x \in Side |-> wire[x]] /\ wire' = [x \in Side |-> wire'[x]]
    BY <2>1 DEF Acts, IInv, WiresOK
  <2> QED BY <2>2, <2>3
<1> QED BY <1>5 DEF Quiet

LEMMA OpenWritten ==
  ASSUME NEW s \in Side, NEW i \in Ids, NEW t \in Types, OwnParity(s, i), NEW k,
         s = C /\ t \in Chats => k
  PROVE  LET ps == <<OpenPacket(i, t)>> IN
         /\ ps \in Seq(Packet) /\ Writes(s, ps, k)
         /\ t # "request" => Unasking(s, ps)
         /\ t # "auth" => \A n \in DOMAIN ps : Late(ps[n])
<1> DEFINE p == OpenPacket(i, t)
           ps == <<p>>
<1>1. p \in Packet /\ p.kind = "open" /\ p.id = i /\ p.type = t
  BY DEF OpenPacket, Packet
<1>2. t # "request" => p \notin RequestOpens
  BY <1>1, PacketKinds DEF RequestOpens
<1>3. p \notin Answers
  <2> HIDE DEF p
  <2> QED BY <1>1 DEF Answers
<1>4. Fit(Peer(s), p, k)
  <2>1. Peer(s) = "server" => s = C
    BY Ends DEF Peer
  <2>2. Peer(Peer(s)) = s
    BY Ends
  <2> HIDE DEF p
  <2> QED BY <1>1, <2>1, <2>2 DEF Fit
<1>5. t # "auth" => Late(p)
  <2> HIDE DEF p
  <2> QED BY <1>1 DEF Late
<1> HIDE DEF p
<1>6. DOMAIN ps = {1} /\ ps[1] = p /\ ps \in Seq(Packet)
  BY <1>1
<1> HIDE DEF ps
<1>7. Writes(s, ps, k) /\ (t # "request" => Unasking(s, ps))
  BY <1>2, <1>3, <1>4, <1>6 DEF Writes, Unasking
<1>8. t # "auth" => \A n \in DOMAIN ps : Late(ps[n])
  BY <1>5, <1>6
<1> QED BY <1>6, <1>7, <1>8 DEF ps, p

\* The server opens a channel behind its word that the client is known.
LEMMA ProvedOpen ==
  ASSUME IInv, Deep, ~Serving, purpose[S] = "KnownContact", Up(S),
         NEW i \in Ids, NEW t \in Chats, NEW W,
         W = << >> \/ W = <<OpenPacket(i, t)>>, sock[C] = "closed" => W = << >>,
         wire'[S] = wire[S], wire'[C] = wire[C] \o W, sock' = sock,
         chan'[C] = chan[C], \A j \in Ids : j # i => chan'[S][j] = chan[S][j],
         chan'[S][i].type = t, ~chan'[S][i].opened,
         purpose' = purpose, auth' = auth, queued' = queued
  PROVE  Stages'
<1>1. PICK j \in Ids : Proved(j)
  BY DEF Deep, Stages, Greeting, Proving, Unproved
<1> DEFINE w == wire[C]
<1>2. w \in Seq(Packet)
  BY Ends DEF IInv, WiresOK
<1>3. W \in Seq(Packet) /\ \A n \in DOMAIN W : W[n].kind = "open"
  <2> DEFINE p == OpenPacket(i, t)
  <2>1. p \in Packet /\ p.kind = "open"
    BY DEF OpenPacket, Packet, Types, Chats
  <2>2. W = << >> \/ W = <<p>>
    OBVIOUS
  <2> HIDE DEF p
  <2>3. CASE W = << >>
    BY <2>3
  <2>4. CASE W = <<p>>
    <3>1. W \in Seq(Packet) /\ DOMAIN W = {1} /\ W[1] = p
      BY <2>1, <2>4
    <3> QED BY <2>1, <3>1
  <2> QED BY <2>2, <2>3, <2>4
<1>4. /\ Undecided' /\ OnlyAuth(C, j)' /\ "HiddenServiceAuth" \in auth'[S] /\ wire'[S] = << >>
      /\ "closeRequest" \notin queued'[S] /\ purpose'[S] = "KnownContact"
  BY <1>1 DEF Proved, Undecided, OnlyAuth
<1>5. \A k \in Ids : chan'[S][k].type \notin {"auth", "request"} /\ ~chan'[S][k].opened
  BY <1>1 DEF Proved, Chats
<1>6. CASE wire[C] = << >>
  <2>1. sock[C] = "closed"
    BY <1>1, <1>6 DEF Proved
  <2>2. wire'[C] = << >>
    BY <1>6, <2>1
  <2>3. sock'[C] = "closed"
    BY <2>1
  <2>4. Proved(j)'
    BY <1>4, <1>5, <2>2, <2>3 DEF Proved
  <2> QED BY <2>4 DEF Stages
<1>7. CASE wire[C] # << >>
  <2>1. /\ w # << >> /\ w[1] = DataPacket(j, "known") /\ chan[C][j].type = "auth"
        /\ \A n \in DOMAIN w : n # 1 => OpensOrCloses(w[n], j)
    BY <1>1, <1>7 DEF Proved
  <2> DEFINE x == w \o W
  <2>2. x # << >> /\ x[1] = w[1] /\ \A n \in DOMAIN x : n # 1 => OpensOrCloses(x[n], j)
    <3>1. 1 \in DOMAIN w
      BY <1>2, <2>1, Shrunk
    <3>2. 1 \in DOMAIN x /\ x[1] = w[1]
      BY <1>2, <1>3, <3>1, Grown
    <3>3. \A n \in DOMAIN x : \/ n \in DOMAIN w /\ x[n] = w[n]
                              \/ x[n].kind = "open"
      <4>1. \A n \in DOMAIN x : \/ n \in DOMAIN w
                                \/ /\ n - Len(w) \in DOMAIN W /\ x[n] = W[n - Len(w)]
                                   /\ Len(w) < n
        BY <1>2, <1>3, Grown
      <4>2. \A n \in DOMAIN w : n \in DOMAIN x /\ x[n] = w[n] /\ 0 < n /\ n <= Len(w)
        BY <1>2, <1>3, Grown
      <4> HIDE DEF x, w
      <4> QED BY <1>3, <4>1, <4>2
    <3>4. x # << >>
      BY <3>2
    <3> HIDE DEF x, w
    <3> QED BY <2>1, <3>2, <3>3, <3>4 DEF OpensOrCloses
  <2>3. wire'[C] = x /\ chan'[C][j].type = "auth"
    BY <2>1
  <2> HIDE DEF x, w
  <2>4. Proved(j)'
    BY <1>4, <1>5, <2>1, <2>2, <2>3 DEF Proved
  <2> QED BY <2>4 DEF Stages
<1> QED BY <1>6, <1>7

LEMMA OpenUserDeep ==
  ASSUME IInv, Deep, NEW s \in Side, NEW t \in UserTypes, OpenUserChannel(s, t)
  PROVE  Deep'
<1> DEFINE rd == FALSE
<1>1. /\ Up(s) /\ sock[s] # "closed" /\ ~HasChannelDir(s, t, "out") /\ t \in Chats /\ t \in Types
      /\ t \notin {"auth", "request"}
      /\ OpenChannel(s, t, Rest(wire[s], rd)) /\ rd \in BOOLEAN /\ (rd => wire[s] # << >>)
      /\ UNCHANGED <<purpose, auth, queued>>
  BY UserTypesAssumption DEF OpenUserChannel, Up, Chats, Types, Rest
<1>2. \/ Gone(s)
      \/ Acts(s, rd, << >>, 1, chan[s][1]) /\ sock' = sock /\ chan' = chan
      \/ \E i \in Ids :
           /\ OwnParity(s, i) /\ AllowOutbound(s, t) /\ Up(s) /\ chan[s][i] = NoChannel
           /\ Acts(s, rd, <<OpenPacket(i, t)>>, i, [type |-> t, dir |-> "out", opened |-> FALSE])
           /\ sock' = sock
  <2> HIDE DEF rd
  <2> QED BY <1>1, OpenActs
<1>3. CASE Gone(s)
  BY <1>3, GoneKeeps
<1>4. CASE Acts(s, rd, << >>, 1, chan[s][1]) /\ sock' = sock /\ chan' = chan
  <2>1. Quiet(s)
    BY <1>1, <1>4, StillQuiet
  <2> QED BY <2>1, QuietKeepsDeep
<1>5. ASSUME NEW i \in Ids, OwnParity(s, i), AllowOutbound(s, t), chan[s][i] = NoChannel, sock' = sock,
             Acts(s, rd, <<OpenPacket(i, t)>>, i, [type |-> t, dir |-> "out", opened |-> FALSE])
      PROVE  Deep'
  <2> DEFINE ps == <<OpenPacket(i, t)>>
             c == [type |-> t, dir |-> "out", opened |-> FALSE]
  <2>1. purpose[s] = "KnownContact"
    BY <1>1, <1>5 DEF AllowOutbound
  <2>2. (s = C => Known) /\ (s = S => Trusted)
    BY <2>1, Ends DEF Known, Trusted
  <2>3. /\ ps \in Seq(Packet) /\ Writes(s, ps, Known) /\ Unasking(s, ps)
        /\ \A n \in DOMAIN ps : Late(ps[n])
    BY <1>1, <1>5, <2>2, OpenWritten
  <2>4. Writes(s, ps, Known') /\ (Known => Known')
    <3>1. Known' <=> Known
      BY <1>1 DEF Known
    <3>2. s = C => Known'
      BY <2>2, <3>1
    <3> QED BY <1>1, <1>5, <3>1, <3>2, OpenWritten
  <2>5. Shape(s, rd, ps, i, c)
    <3>1. Opens(s, rd, ps, i, c)
      BY <1>1, <1>5, <2>2 DEF Opens, HasChannelDir
    <3> QED BY <3>1 DEF Shape
  <2>6. c.type = t /\ ~c.opened /\ chan[s][i].type = "none" /\ Acts(s, rd, ps, i, c)
    <3>1. chan[s][i].type = "none"
      BY <1>5 DEF NoChannel
    <3>2. Acts(s, rd, ps, i, c)
      BY <1>5
    <3> QED BY <3>1, <3>2
  <2>7. Asked' => Asked
    BY <1>1 DEF Asked
  <2>8. s = C => chan[C][i].type = "none" /\ Up(C)
    BY <1>1, <2>6
  <2> HIDE DEF c
  <2>9. CASE Serving
    <3> HIDE DEF ps
    <3> QED BY <1>1, <1>5, <2>2, <2>3, <2>5, <2>6, <2>7, <2>8, <2>9, ServingStep
  <2>10. CASE ~Serving
    <3>1. s = S
      BY <2>1, <2>10, Early, Ends DEF Deep
    <3>2. /\ wire'[S] = wire[S] /\ wire'[C] = wire[C] \o Written(S, ps)
          /\ Up(S) /\ sock[C] # "closed" => Written(S, ps) = ps
          /\ ~Up(S) \/ sock[C] = "closed" => Written(S, ps) = << >>
          /\ chan'[S][i] = c /\ \A j \in Ids : j # i => chan'[S][j] = chan[S][j]
          /\ chan'[C] = chan[C]
      <4>1. /\ wire'[s] = wire[s] /\ wire'[Peer(s)] = wire[Peer(s)] \o Written(s, ps)
            /\ Up(s) /\ sock[Peer(s)] # "closed" => Written(s, ps) = ps
            /\ ~Up(s) \/ sock[Peer(s)] = "closed" => Written(s, ps) = << >>
            /\ Written(s, ps) \in Seq(Packet)
            /\ chan'[s][i] = c /\ \A j \in Ids : j # i => chan'[s][j] = chan[s][j]
            /\ chan'[Peer(s)] = chan[Peer(s)] /\ sock'[Peer(s)] = sock[Peer(s)]
        <5>1. ps \in Seq(Packet) /\ Acts(s, FALSE, ps, i, c)
          BY <2>3, <2>6
        <5> HIDE DEF ps
        <5> QED BY <5>1, SendFacts
      <4> HIDE DEF ps
      <4> QED BY <3>1, <4>1, Ends
    <3> DEFINE W == Written(S, ps)
    <3>3. W = << >> \/ W = <<OpenPacket(i, t)>>
      BY <3>2
    <3>4. (sock[C] = "closed" => W = << >>) /\ wire'[S] = wire[S] /\ wire'[C] = wire[C] \o W
      BY <3>2
    <3>5. chan'[S][i].type = t /\ ~chan'[S][i].opened
      BY <2>6, <3>2
    <3>6. Up(S) /\ purpose[S] = "KnownContact"
      BY <1>1, <2>1, <3>1
    <3> HIDE DEF W, ps
    <3>7. Stages'
      BY <1>1, <1>5, <2>10, <3>2, <3>3, <3>4, <3>5, <3>6, ProvedOpen
    <3>8. RequestOK'
      BY <1>1, <2>3, <2>6, <2>7, <2>8, MildRequest
    <3>9. TrustComes'
      BY <1>1, <2>2, <2>3, <2>6, <2>8, <3>1, Ends, MildTrust DEF rd
    <3> QED BY <1>1, <2>3, <2>4, <2>5, <2>6, <3>7, <3>8, <3>9, Deeper
  <2> QED BY <2>9, <2>10
<1> QED BY <1>2, <1>3, <1>4, <1>5

\* The client asks.
LEMMA RequestAsked ==
  ASSUME IInv, Deep, Asked, NEW i \in Ids,
         NEW W, W = << >> \/ W = <<OpenPacket(i, "request")>>,
         wire'[C] = wire[C], wire'[S] = wire[S] \o W, chan'[S] = chan[S],
         \A j \in Ids : j # i => chan'[C][j] = chan[C][j], chan'[C][i].type = "request",
         purpose' = purpose, "onConnected" \notin queued'[C]
  PROVE  RequestOK'
<1> DEFINE p == OpenPacket(i, "request")
           w == wire[S]
           x == w \o W
<1>1. RequestOK /\ OnceOnly
  BY DEF Deep, RequestOK
<1>2. /\ Asking = {} /\ Judged = {} /\ Answering = {}
      /\ purpose[S] = "Unknown" /\ purpose[C] = "OutboundRequest"
      /\ \A j \in Ids : chan[C][j].type # "request"
  BY <1>1 DEF OnceOnly, RequestOK, Asked, HasChannel
<1>3. p \in Packet /\ p.id = i /\ w \in Seq(Packet) /\ (W = << >> \/ W = <<p>>)
  BY Ends DEF OpenPacket, Packet, Types, IInv, WiresOK
<1>4. wire'[S] = x /\ At(w, RequestOpens) = {}
  BY <1>2 DEF Asking
<1> HIDE DEF p, w
<1>5. W \in Seq(Packet) /\ \A n \in DOMAIN W : n = 1 /\ W[n] = p
  <2>1. CASE W = << >>
    BY <2>1
  <2>2. CASE W = <<p>>
    <3>1. W \in Seq(Packet) /\ DOMAIN W = {1} /\ W[1] = p
      BY <1>3, <2>2
    <3> QED BY <3>1
  <2> QED BY <1>3, <2>1, <2>2
<1>6. \A n \in DOMAIN x : \/ n \in DOMAIN w
                          \/ /\ n - Len(w) \in DOMAIN W /\ x[n] = W[n - Len(w)]
                             /\ Len(w) < n
  BY <1>3, <1>5, Grown
<1>7. /\ \A n \in DOMAIN w : n \in DOMAIN x /\ x[n] = w[n] /\ 0 < n /\ n <= Len(w)
      /\ Len(w) \in Nat /\ DOMAIN x \subseteq Nat
  BY <1>3, <1>5, Grown
<1> HIDE DEF x
<1>8. \A n \in At(x, RequestOpens) : n = Len(w) + 1 /\ x[n] = p
  <2> SUFFICES ASSUME NEW n \in DOMAIN x, x[n] \in RequestOpens PROVE n = Len(w) + 1 /\ x[n] = p
    BY DEF At
  <2>1. n \notin DOMAIN w
    BY <1>4, <1>7 DEF At
  <2>2. n - Len(w) = 1 /\ x[n] = p
    BY <1>5, <1>6, <2>1
  <2> QED BY <1>7, <2>2
<1>9. One(Asking') /\ \A n \in Asking' : wire'[S][n].id = i
  <2>1. Asking' = At(x, RequestOpens)
    BY <1>4 DEF Asking
  <2>2. One(At(x, RequestOpens))
    BY <1>8 DEF One
  <2> QED BY <1>3, <1>4, <1>8, <2>1, <2>2
<1>10. Judged' = {} /\ Answering' = {} /\ ~Asked'
  BY <1>2 DEF Judged, Answering, Asked
<1>11. OnceOnly'
  BY <1>9, <1>10 DEF OnceOnly, One
<1>12. Requested(chan'[C], Up(C)', i)
  BY DEF Requested
<1>13. \A q \in Ids : chan'[C][q].type = "request" => q = i
  BY <1>2
<1> QED BY <1>2, <1>9, <1>10, <1>11, <1>12, <1>13 DEF RequestOK

LEMMA OnConnectedDeep ==
  ASSUME IInv, Deep, NEW s \in Side, OnConnected(s)
  PROVE  Deep'
<1>1. /\ "onConnected" \in queued[s] /\ queued' = [queued EXCEPT ![s] = @ \ {"onConnected"}]
      /\ UNCHANGED <<purpose, auth>>
  BY DEF OnConnected
<1>2. /\ \A x \in Side : queued'[x] \subseteq queued[x]
      /\ "onConnected" \notin queued'[s]
  BY <1>1 DEF IInv, PlainOK
<1>3. CASE ~(sock[s] = "connected" /\ purpose[s] = "OutboundRequest" /\ contact[s] = "request")
  <2>1. UNCHANGED <<sock, chan, wire>>
    BY <1>3 DEF OnConnected
  <2>2. Quiet(s)
    BY <1>1, <1>2, <2>1 DEF Quiet
  <2> QED BY <2>2, QuietKeepsDeep
<1>4. CASE sock[s] = "connected" /\ purpose[s] = "OutboundRequest" /\ contact[s] = "request"
  <2> DEFINE rd == FALSE
             t == "request"
  <2>1. s = C /\ Up(s) /\ sock[s] # "closed"
    BY <1>4, Ends DEF IInv, TrustOK, Up
  <2>2. Asked /\ Serving
    <3>1. Asked
      BY <1>1, <1>4, <2>1 DEF Asked
    <3>2. purpose[C] # "Unknown"
      BY <1>4, <2>1
    <3> QED BY <3>1, <3>2, Early DEF Deep
  <2>3. OpenChannel(s, t, Rest(wire[s], rd)) /\ rd \in BOOLEAN /\ (rd => wire[s] # << >>) /\ t \in Types
    BY <1>4 DEF OnConnected, Rest, Types
  <2>4. \/ Gone(s)
        \/ Acts(s, rd, << >>, 1, chan[s][1]) /\ sock' = sock /\ chan' = chan
        \/ \E i \in Ids :
             /\ OwnParity(s, i) /\ AllowOutbound(s, t) /\ Up(s) /\ chan[s][i] = NoChannel
             /\ Acts(s, rd, <<OpenPacket(i, t)>>, i, [type |-> t, dir |-> "out", opened |-> FALSE])
             /\ sock' = sock
    <3> HIDE DEF rd, t
    <3> QED BY <1>1, <1>2, <2>1, <2>3, OpenActs
  <2>5. CASE Gone(s)
    BY <2>5, GoneKeeps
  <2>6. CASE Acts(s, rd, << >>, 1, chan[s][1]) /\ sock' = sock /\ chan' = chan
    <3>1. Quiet(s)
      BY <1>1, <1>2, <2>6, StillQuiet
    <3> QED BY <3>1, QuietKeepsDeep
  <2>7. ASSUME NEW i \in Ids, OwnParity(s, i), AllowOutbound(s, t), chan[s][i] = NoChannel, sock' = sock,
               Acts(s, rd, <<OpenPacket(i, t)>>, i, [type |-> t, dir |-> "out", opened |-> FALSE])
        PROVE  Deep'
    <3> DEFINE ps == <<OpenPacket(i, t)>>
               c == [type |-> t, dir |-> "out", opened |-> FALSE]
    <3>1. /\ ps \in Seq(Packet) /\ Writes(s, ps, Known')
          /\ \A n \in DOMAIN ps : Late(ps[n])
      <4>1. t \in Types /\ t # "auth" /\ (s = C /\ t \in Chats => Known')
        BY <2>3 DEF Chats
      <4> QED BY <2>7, <4>1, OpenWritten
    <3>2. \A j \in Ids : chan[s][j].type # t
      BY <2>7 DEF AllowOutbound, HasChannel
    <3>3. Shape(s, rd, ps, i, c)
      <4>1. s = C /\ t \in Chats => Known
        BY DEF Chats
      <4>2. Opens(s, rd, ps, i, c)
        BY <2>1, <2>3, <2>7, <3>2, <4>1 DEF Opens
      <4> QED BY <4>2 DEF Shape
    <3>4. c.type = t /\ t # "auth" /\ chan[s][i].type = "none" /\ Acts(s, rd, ps, i, c)
      <4>1. chan[s][i].type = "none"
        BY <2>7 DEF NoChannel
      <4>2. Acts(s, rd, ps, i, c)
        BY <2>7
      <4> QED BY <4>1, <4>2
    <3> HIDE DEF c
    <3>5. /\ wire'[C] = wire[C] /\ wire'[S] = wire[S] \o Written(C, ps)
          /\ (Written(C, ps) = ps \/ Written(C, ps) = << >>)
          /\ chan'[C][i] = c /\ \A j \in Ids : j # i => chan'[C][j] = chan[C][j]
          /\ chan'[S] = chan[S]
      <4>1. /\ wire'[s] = wire[s] /\ wire'[Peer(s)] = wire[Peer(s)] \o Written(s, ps)
            /\ Up(s) /\ sock[Peer(s)] # "closed" => Written(s, ps) = ps
            /\ ~Up(s) \/ sock[Peer(s)] = "closed" => Written(s, ps) = << >>
            /\ Written(s, ps) \in Seq(Packet)
            /\ chan'[s][i] = c /\ \A j \in Ids : j # i => chan'[s][j] = chan[s][j]
            /\ chan'[Peer(s)] = chan[Peer(s)] /\ sock'[Peer(s)] = sock[Peer(s)]
        <5>1. ps \in Seq(Packet) /\ Acts(s, FALSE, ps, i, c)
          BY <3>1, <3>4
        <5> HIDE DEF ps
        <5> QED BY <2>7, <5>1, SendFacts
      <4> HIDE DEF ps
      <4> QED BY <2>1, <4>1, Ends
    <3> DEFINE W == Written(C, ps)
    <3>6. W = << >> \/ W = <<OpenPacket(i, "request")>>
      BY <3>5
    <3>7. wire'[C] = wire[C] /\ wire'[S] = wire[S] \o W /\ chan'[C][i].type = "request"
      BY <3>4, <3>5
    <3> HIDE DEF W, ps
    <3>8. RequestOK'
      BY <1>1, <1>2, <2>1, <2>2, <3>5, <3>6, <3>7, RequestAsked
    <3>9. Stages'
      BY <1>1, <2>2, <2>3, <3>1, <3>4, ServingKept
    <3>10. TrustComes'
      <4>1. chan[C][i].type \notin {"auth", "request"} /\ ~rd /\ s # S
        BY <2>1, <3>4, Ends
      <4> QED BY <1>1, <2>1, <2>3, <3>1, <3>4, <4>1, MildTrust
    <3>11. Known => Known'
      BY <1>1 DEF Known
    <3> QED BY <2>3, <3>1, <3>3, <3>4, <3>8, <3>9, <3>10, <3>11, Deeper
  <2> QED BY <2>4, <2>5, <2>6, <2>7
<1> QED BY <1>3, <1>4

-----------------------------------------------------------------------------
\* The version handshake.

LEMMA GreetingHeads ==
  ASSUME IInv, Deep, NEW s \in Side, wire[s] # << >>, Head(wire[s]).kind \in {"intro", "version"}
  PROVE  /\ ~Serving /\ Greeting /\ Head(wire[s]) \in Packet
         /\ (s = S /\ Head(wire[s]).kind = "intro") \/ (s = C /\ Head(wire[s]).kind = "version")
         /\ wire'[s] = Tail(wire[s]) => wire'[s] = << >>
         /\ wire[Peer(s)] = << >>
<1>1. wire[s] \in Seq(Packet)
  BY DEF IInv, WiresOK
<1>2. Head(wire[s]) = wire[s][1] /\ 1 \in DOMAIN wire[s] /\ Head(wire[s]) \in Packet
  <2>1. Head(wire[s]) \in Packet
    BY HeadFits DEF Deep
  <2> QED BY <1>1, <2>1, Shrunk
<1>3. ~Serving
  BY <1>2 DEF Serving, Late
<1>4. (s = S /\ Head(wire[s]).kind = "intro") \/ (s = C /\ Head(wire[s]).kind = "version")
  <2>0. \A x, b : /\ OpenPacket(x, b).kind = "open" /\ DataPacket(x, b).kind = "data"
                  /\ ResultPacket(x, TRUE, b).kind = "result"
    BY DEF OpenPacket, DataPacket, ResultPacket
  <2>1. LET p == Head(wire[s]) IN
        \/ s = S /\ p.kind = "intro"
        \/ s = C /\ p.kind = "version"
        \/ s = S /\ \E i \in Ids : p = OpenPacket(i, "auth") /\ chan[S][i] = NoChannel
        \/ s = C /\ \E i \in Ids : p = ResultPacket(i, TRUE, "none") /\ chan[C][i].type = "auth"
        \/ s = S /\ \E i \in Ids : p = DataPacket(i, "proof") /\ chan[S][i].type = "auth"
        \/ s = C /\ \E i \in Ids : /\ p = DataPacket(i, "known") \/ p = DataPacket(i, "unknown")
                                   /\ chan[C][i].type = "auth"
    BY <1>3, EarlyHeads DEF Deep
  <2> QED BY <2>0, <2>1
<1>5. \A j \in Ids : ~Proving(j)
  <2> SUFFICES ASSUME NEW j \in Ids, Proving(j) PROVE FALSE
    OBVIOUS
  <2>1. /\ OpenPacket(j, "auth").kind = "open" /\ DataPacket(j, "proof").kind = "data"
        /\ ResultPacket(j, TRUE, "none").kind = "result"
    BY DEF OpenPacket, DataPacket, ResultPacket
  <2>2. \A x : Head(<<x>>) = x
    BY OnePacket
  <2>3. /\ Head(<<OpenPacket(j, "auth")>>).kind = "open"
        /\ Head(<<DataPacket(j, "proof")>>).kind = "data"
        /\ Head(<<ResultPacket(j, TRUE, "none")>>).kind = "result"
    BY <2>1, <2>2
  <2>4. s = C \/ s = S
    BY Ends
  <2> QED BY <2>3, <2>4 DEF Proving
<1>6. \A j \in Ids : ~Proved(j)
  <2> SUFFICES ASSUME NEW j \in Ids, Proved(j) PROVE FALSE
    OBVIOUS
  <2>1. DataPacket(j, "known").kind = "data" /\ DataPacket(j, "unknown").kind = "data"
    BY DEF DataPacket
  <2>2. s = C
    BY <1>4 DEF Proved
  <2>3. wire[C][1] = DataPacket(j, "known") \/ wire[C][1] = DataPacket(j, "unknown")
    BY <2>2 DEF Proved
  <2> QED BY <1>2, <2>1, <2>2, <2>3
<1>7. Greeting
  BY <1>3, <1>5, <1>6 DEF Deep, Stages
<1>8. wire[Peer(s)] = << >> /\ \E p \in Packet : wire[s] = <<p>>
  BY <1>4, <1>7, Ends DEF Greeting
<1>9. Tail(wire[s]) = << >>
  BY <1>8, OnePacket
<1> QED BY <1>2, <1>3, <1>4, <1>7, <1>8, <1>9

LEMMA IntroDeep ==
  ASSUME IInv, Deep, NEW s \in Side, ReceiveIntro(s)
  PROVE  Deep'
<1> DEFINE p == Head(wire[s])
           v == [kind |-> "version", ok |-> p.ok]
           ps == <<v>>
           c == chan[s][1]
<1>1. /\ wire[s] # << >> /\ sock[s] # "closed" /\ p.kind = "intro" /\ Reply(s, ps)
      /\ UNCHANGED <<purpose, auth, chan, queued>>
      /\ sock' = sock \/ (Up(s) /\ sock' = [sock EXCEPT ![s] = "closing"])
  BY DEF ReceiveIntro, Reads, CloseIf, Up
<1>2. ~Serving /\ Greeting /\ p \in Packet /\ s = S
  BY <1>1, GreetingHeads
<1>3. v \in Packet /\ v.kind = "version"
  <2>1. p.ok \in BOOLEAN
    BY <1>1, <1>2 DEF Packet
  <2> HIDE DEF p
  <2> QED BY <2>1 DEF Packet
<1> HIDE DEF v
<1>4. 1 \in Ids /\ chan' = [chan EXCEPT ![s][1] = c]
  <2>1. 1 \in Ids
    BY MaxIdAssumption DEF Ids
  <2> QED BY <1>1, <2>1 DEF IInv, TablesOK
<1>5. Acts(s, TRUE, ps, 1, c)
  BY <1>1, <1>4, ReplyActs
<1>6. ps \in Seq(Packet) /\ DOMAIN ps = {1} /\ ps[1] = v
  BY <1>3
<1>7. v \notin Answers /\ Fit(Peer(s), v, Known')
  BY <1>3 DEF Answers, Fit
<1> HIDE DEF ps
<1>8. Plain(ps) /\ Writes(s, ps, Known') /\ Unasking(s, ps) /\ \A n \in DOMAIN ps : ps[n].kind # "open"
  BY <1>2, <1>3, <1>6, <1>7, Ends DEF Plain, Writes, Unasking
<1>9. Shape(s, TRUE, ps, 1, c)
  <2>1. /\ \A j \in Ids : ~Takes(s, TRUE, ClosePacket(j))
        /\ \A j \in Ids, t \in Types : ~Takes(s, TRUE, OpenPacket(j, t))
    BY <1>1, PacketKinds DEF Takes
  <2> QED BY <1>8, <2>1 DEF Shape, Stays
<1>10. wire'[S] = << >> /\ wire'[C] = Written(S, ps) /\ (Written(S, ps) = ps \/ Written(S, ps) = << >>)
  <2>1. /\ wire'[s] = Tail(wire[s]) /\ wire'[Peer(s)] = wire[Peer(s)] \o Written(s, ps)
        /\ Up(s) /\ sock[Peer(s)] # "closed" => Written(s, ps) = ps
        /\ ~Up(s) \/ sock[Peer(s)] = "closed" => Written(s, ps) = << >>
        /\ Written(s, ps) \in Seq(Packet)
        /\ chan'[s][1] = c /\ \A j \in Ids : j # 1 => chan'[s][j] = chan[s][j]
        /\ chan'[Peer(s)] = chan[Peer(s)] /\ sock'[Peer(s)] = sock[Peer(s)]
    BY <1>4, <1>5, <1>6, ReplyFacts
  <2>2. wire'[s] = << >> /\ wire[Peer(s)] = << >>
    BY <1>1, <2>1, GreetingHeads
  <2>3. << >> \o Written(s, ps) = Written(s, ps)
    BY <2>1
  <2> QED BY <1>2, <2>1, <2>2, <2>3, Ends
<1>11. Stages'
  <2>1. \/ wire'[C] = << >> /\ wire'[S] = << >>
        \/ wire'[S] = << >> /\ \E q \in Packet : q.kind = "version" /\ wire'[C] = <<q>>
    BY <1>3, <1>10 DEF ps
  <2>2. Greeting'
    BY <1>1, <1>2, <2>1 DEF Greeting, Undecided, Unproved
  <2> QED BY <2>2 DEF Stages
<1>12. (Asked' => Asked) /\ (Known => Known')
  BY <1>1 DEF Asked, Known
<1>13. c = chan[s][1] /\ s # C
  BY <1>2, Ends
<1> HIDE DEF c, p
<1>14. RequestOK'
  BY <1>1, <1>4, <1>5, <1>6, <1>8, <1>12, <1>13, MildRequest
<1>15. TrustComes'
  BY <1>1, <1>4, <1>5, <1>6, <1>8, <1>13, MildTrust
<1> QED BY <1>4, <1>5, <1>6, <1>8, <1>9, <1>11, <1>12, <1>14, <1>15, Deeper

\* The client opens its authentication channel.
LEMMA VersionStages ==
  ASSUME IInv, Greeting, NEW i \in Ids, NEW W, W = << >> \/ W = <<OpenPacket(i, "auth")>>,
         wire'[C] = << >>, wire'[S] = W,
         \A j \in Ids : j # i => chan'[C][j] = chan[C][j], chan'[C][i].type = "auth",
         chan'[S] = chan[S], purpose' = purpose, auth' = auth, queued' = queued
  PROVE  Stages'
<1>1. \A j \in Ids : chan[C][j] = NoChannel /\ chan[S][j] = NoChannel
  BY DEF Greeting, NoChannels
<1>2. Undecided' /\ Unproved'
  BY DEF Greeting, Undecided, Unproved
<1>3. OnlyAuth(C, i)' /\ OnlyAuth(S, i)'
  BY <1>1 DEF OnlyAuth
<1>4. Proving(i)'
  BY <1>1, <1>2, <1>3 DEF Proving, Waiting
<1> QED BY <1>4 DEF Stages

LEMMA VersionDeep ==
  ASSUME IInv, Deep, NEW s \in Side, ReceiveVersion(s)
  PROVE  Deep'
<1> DEFINE p == Head(wire[s])
           rd == TRUE
           t == "auth"
<1>1. /\ wire[s] # << >> /\ sock[s] # "closed" /\ p.kind = "version"
      /\ UNCHANGED <<purpose, auth, queued>>
  BY DEF ReceiveVersion, Reads
<1>2. ~Serving /\ Greeting /\ p \in Packet /\ s = C
  BY <1>1, GreetingHeads
<1>3. CASE ~p.ok
  <2>1. /\ sock' = [sock EXCEPT ![s] = "closed"] /\ wire' = [wire EXCEPT ![s] = << >>]
        /\ chan' = chan
    BY <1>3 DEF ReceiveVersion
  <2>2. chan' = [chan EXCEPT ![s] = NoChannels]
    BY <1>2, <2>1 DEF Greeting, IInv, TablesOK
  <2>3. \A x \in Side : queued'[x] \subseteq queued[x]
    BY <1>1
  <2>4. Gone(s)
    BY <1>1, <2>1, <2>2, <2>3 DEF Gone
  <2> QED BY <2>4, GoneKeeps
<1>4. CASE p.ok
  <2>1. /\ OpenChannel(s, t, Rest(wire[s], rd)) /\ t \in Types /\ rd \in BOOLEAN
        /\ rd => wire[s] # << >>
    BY <1>1, <1>4 DEF ReceiveVersion, Rest, Types
  <2>2. \A x \in Side : queued'[x] \subseteq queued[x]
    BY <1>1
  <2>3. \/ Gone(s)
        \/ Acts(s, rd, << >>, 1, chan[s][1]) /\ sock' = sock /\ chan' = chan
        \/ \E i \in Ids :
             /\ OwnParity(s, i) /\ AllowOutbound(s, t) /\ Up(s) /\ chan[s][i] = NoChannel
             /\ Acts(s, rd, <<OpenPacket(i, t)>>, i, [type |-> t, dir |-> "out", opened |-> FALSE])
             /\ sock' = sock
    <3> HIDE DEF rd, t
    <3> QED BY <1>1, <2>1, <2>2, OpenActs
  <2>4. /\ \A j \in Ids : ~Takes(s, TRUE, ClosePacket(j))
        /\ \A j \in Ids, u \in Types : ~Takes(s, TRUE, OpenPacket(j, u))
    BY <1>1, PacketKinds DEF Takes
  <2>5. (Asked' => Asked) /\ (Known => Known') /\ s # S
    BY <1>1, <1>2, Ends DEF Asked, Known
  <2>6. s = C => ~Trusting(chan[C], Head(wire[C]))
    BY <1>1 DEF Trusting
  <2>7. CASE Gone(s)
    BY <2>7, GoneKeeps
  <2>8. CASE Acts(s, rd, << >>, 1, chan[s][1]) /\ sock' = sock /\ chan' = chan
    <3> DEFINE ps == << >>
               c == chan[s][1]
    <3>1. 1 \in Ids /\ c = chan[s][1] /\ Acts(s, TRUE, ps, 1, c)
      <4>1. 1 \in Ids
        BY MaxIdAssumption DEF Ids
      <4>2. Acts(s, TRUE, ps, 1, c)
        BY <2>8
      <4> QED BY <4>1, <4>2
    <3>2. Harmless(s, ps) /\ Writes(s, ps, Known')
      BY NothingWritten
    <3>3. Written(s, ps) = << >>
      BY DEF Written
    <3> HIDE DEF c, ps
    <3>4. ps \in Seq(Packet) /\ Shape(s, TRUE, ps, 1, c)
      BY <2>4, <3>1, <3>2 DEF Shape, Stays, Harmless
    <3>5. wire'[S] = << >> /\ wire'[C] = << >>
      <4>1. /\ wire'[s] = Tail(wire[s]) /\ wire'[Peer(s)] = wire[Peer(s)] \o Written(s, ps)
            /\ Up(s) /\ sock[Peer(s)] # "closed" => Written(s, ps) = ps
            /\ ~Up(s) \/ sock[Peer(s)] = "closed" => Written(s, ps) = << >>
            /\ Written(s, ps) \in Seq(Packet)
            /\ chan'[s][1] = c /\ \A j \in Ids : j # 1 => chan'[s][j] = chan[s][j]
            /\ chan'[Peer(s)] = chan[Peer(s)] /\ sock'[Peer(s)] = sock[Peer(s)]
        <5>1. ps \in Seq(Packet) /\ Acts(s, TRUE, ps, 1, c) /\ 1 \in Ids
          BY <3>1, <3>4
        <5> QED BY <5>1, ReplyFacts
      <4>2. wire'[s] = << >> /\ wire[Peer(s)] = << >>
        BY <1>1, <4>1, GreetingHeads
      <4>3. << >> \o << >> = << >>
        OBVIOUS
      <4> QED BY <1>2, <3>3, <4>1, <4>2, <4>3, Ends
    <3>6. Greeting'
      BY <1>1, <1>2, <2>8, <3>5 DEF Greeting, Undecided, Unproved
    <3>7. Stages'
      BY <3>6 DEF Stages
    <3>8. RequestOK'
      BY <1>1, <1>2, <2>5, <3>1, <3>2, <3>4, MildRequest DEF Harmless
    <3>9. TrustComes'
      BY <1>1, <1>2, <2>5, <2>6, <3>1, <3>2, <3>4, MildTrust DEF Harmless
    <3> QED BY <2>5, <3>1, <3>2, <3>4, <3>7, <3>8, <3>9, Deeper
  <2>9. ASSUME NEW i \in Ids, OwnParity(s, i), Up(s), chan[s][i] = NoChannel, sock' = sock,
               Acts(s, rd, <<OpenPacket(i, t)>>, i, [type |-> t, dir |-> "out", opened |-> FALSE])
        PROVE  Deep'
    <3> DEFINE ps == <<OpenPacket(i, t)>>
               c == [type |-> t, dir |-> "out", opened |-> FALSE]
    <3>1. ps \in Seq(Packet) /\ Writes(s, ps, Known') /\ Unasking(s, ps)
      <4>1. t # "request" /\ (s = C /\ t \in Chats => Known')
        BY DEF Chats
      <4> QED BY <2>1, <2>9, <4>1, OpenWritten
    <3>2. Acts(s, rd, ps, i, c) /\ c.type = "auth" /\ chan[s][i].type = "none"
      <4>1. chan[s][i].type = "none"
        BY <2>9 DEF NoChannel
      <4>2. Acts(s, rd, ps, i, c)
        BY <2>9
      <4> QED BY <4>1, <4>2
    <3>3. Shape(s, rd, ps, i, c)
      <4>1. \A j \in Ids : chan[s][j].dir = "none"
        BY <1>2 DEF Greeting, NoChannels, NoChannel
      <4>2. s = C /\ t \in Chats => Known
        BY DEF Chats
      <4>3. \A j \in Ids : ~(chan[s][j].dir = "out" /\ chan[s][j].type = t)
        BY <4>1
      <4>4. Opens(s, rd, ps, i, c)
        BY <1>1, <2>1, <2>9, <4>2, <4>3 DEF Opens
      <4> QED BY <4>4 DEF Shape
    <3> HIDE DEF c
    <3>4. /\ wire'[C] = << >> /\ wire'[S] = Written(C, ps)
          /\ (Written(C, ps) = ps \/ Written(C, ps) = << >>)
          /\ chan'[C][i] = c /\ \A j \in Ids : j # i => chan'[C][j] = chan[C][j]
          /\ chan'[S] = chan[S]
      <4>1. /\ wire'[s] = Tail(wire[s]) /\ wire'[Peer(s)] = wire[Peer(s)] \o Written(s, ps)
            /\ Up(s) /\ sock[Peer(s)] # "closed" => Written(s, ps) = ps
            /\ ~Up(s) \/ sock[Peer(s)] = "closed" => Written(s, ps) = << >>
            /\ Written(s, ps) \in Seq(Packet)
            /\ chan'[s][i] = c /\ \A j \in Ids : j # i => chan'[s][j] = chan[s][j]
            /\ chan'[Peer(s)] = chan[Peer(s)] /\ sock'[Peer(s)] = sock[Peer(s)]
        <5>1. ps \in Seq(Packet) /\ Acts(s, TRUE, ps, i, c)
          BY <3>1, <3>2
        <5> HIDE DEF ps
        <5> QED BY <2>9, <5>1, ReplyFacts
      <4> HIDE DEF ps
      <4>2. wire'[s] = << >> /\ wire[Peer(s)] = << >>
        BY <1>1, <4>1, GreetingHeads
      <4>3. << >> \o Written(s, ps) = Written(s, ps)
        BY <4>1
      <4> QED BY <1>2, <4>1, <4>2, <4>3, Ends
    <3> DEFINE W == Written(C, ps)
    <3>5. (W = << >> \/ W = <<OpenPacket(i, "auth")>>) /\ wire'[C] = << >> /\ wire'[S] = W
      BY <3>4
    <3> HIDE DEF W, ps
    <3>6. Stages'
      BY <1>1, <1>2, <2>9, <3>2, <3>4, <3>5, VersionStages
    <3>7. RequestOK'
      <4>1. s = C => chan[C][i].type = "none" /\ Up(C)
        BY <2>9, <3>2
      <4> QED BY <1>1, <2>1, <2>5, <2>9, <3>1, <3>2, <4>1, MildRequest
    <3>8. TrustComes'
      <4>1. s = C => chan[C][i].type = "none"
        BY <3>2
      <4> QED BY <1>1, <2>1, <2>5, <2>6, <2>9, <3>1, <3>2, <4>1, MildTrust
    <3> QED BY <2>1, <2>5, <2>9, <3>1, <3>2, <3>3, <3>6, <3>7, <3>8, Deeper
  <2> QED BY <2>3, <2>7, <2>8, <2>9
<1> QED BY <1>3, <1>4

-----------------------------------------------------------------------------
\* The proof and its result.

LEMMA GrantWritten ==
  ASSUME NEW i \in Ids, NEW b \in {"known", "unknown"}, OwnParity(C, i), NEW k
  PROVE  LET ps == Verdict(i, b) IN
         /\ ps \in Seq(Packet) /\ Plain(ps) /\ Writes(S, ps, k) /\ Closes(ps, i)
         /\ DOMAIN ps = {1, 2} /\ ps[1] = DataPacket(i, b) /\ ps[2] = ClosePacket(i)
         /\ \A n \in DOMAIN ps : ps[n].kind # "open" /\ ps[n] \notin Answers
<1> DEFINE d == DataPacket(i, b)
           e == ClosePacket(i)
           ps == <<d, e>>
<1>1. d \in Packet /\ d.kind = "data" /\ d.id = i /\ d.body = b
  BY DEF DataPacket, Packet, Bodies
<1>2. e \in Packet /\ e.kind = "close" /\ e.id = i /\ i # Control
  BY IdsAreIntegers DEF ClosePacket, Packet
<1>3. Fit(Peer(S), d, k) /\ Fit(Peer(S), e, k)
  <2>1. Peer(S) = C /\ Peer(C) = S /\ C # S
    BY Ends
  <2> HIDE DEF d, e
  <2> QED BY <1>1, <1>2, <2>1, Ends DEF Fit
<1>4. d \notin Answers /\ e \notin Answers
  <2> HIDE DEF d, e
  <2> QED BY <1>1, <1>2 DEF Answers, Responses
<1>5. e = ClosePacket(i) /\ d = DataPacket(i, b)
  OBVIOUS
<1> HIDE DEF d, e
<1>6. ps \in Seq(Packet) /\ DOMAIN ps = {1, 2} /\ ps[1] = d /\ ps[2] = e
  BY <1>1, <1>2
<1> HIDE DEF ps
<1>7. Plain(ps) /\ Writes(S, ps, k) /\ Closes(ps, i)
  BY <1>1, <1>2, <1>3, <1>5, <1>6 DEF Plain, Writes, Closes
<1>8. \A n \in DOMAIN ps : ps[n].kind # "open" /\ ps[n] \notin Answers
  BY <1>1, <1>2, <1>4, <1>6
<1> QED BY <1>5, <1>6, <1>7, <1>8 DEF ps, d, e, Verdict

LEMMA ProofAtHead ==
  ASSUME IInv, Deep, NEW s \in Side, ReadsData(s, "auth", {"proof"})
  PROVE  LET i == Head(wire[s]).id IN
         /\ s = S /\ wire[S] # << >> /\ sock[S] # "closed" /\ i \in Ids /\ ~Serving
         /\ wire[C] = << >> /\ Tail(wire[S]) = << >>
         /\ Unproved /\ Undecided /\ OnlyAuth(C, i) /\ OnlyAuth(S, i) /\ Waiting(i)
         /\ chan[S][i].type = "auth" /\ chan[S][i].dir # "out" /\ OwnParity(C, i)
<1> DEFINE p == Head(wire[s])
           i == p.id
<1>1. /\ Reads(s, "data") /\ sock[s] # "closed" /\ chan[s][i].type = "auth" /\ p.body = "proof"
  BY DEF ReadsData, Reads
<1>2. /\ wire[s] # << >> /\ i \in Ids /\ p = DataPacket(i, p.body) /\ ~Serving
      /\ (s = S <=> chan[s][i].dir = "in")
      /\ p.body \in IF s = S THEN {"proof"} ELSE {"known", "unknown"}
  BY <1>1, DataAtHead
<1>3. s = S
  BY <1>1, <1>2
<1>4. p = DataPacket(i, "proof") /\ wire[S] # << >> /\ Head(wire[S]) = p
  BY <1>1, <1>2, <1>3
<1>5. ~Greeting /\ \A j \in Ids : ~Proved(j)
  <2>1. \A j \in Ids : ~Proved(j)
    BY <1>4 DEF Proved
  <2>2. p.kind = "data"
    BY <1>4 DEF DataPacket
  <2>3. ~Greeting
    BY <1>4, <2>2, OnePacket DEF Greeting
  <2> QED BY <2>1, <2>3
<1>6. PICK j \in Ids : Proving(j)
  BY <1>2, <1>5 DEF Deep, Stages
<1>7. wire[C] = << >> /\ wire[S] = <<DataPacket(j, "proof")>> /\ Waiting(j)
  <2>1. wire[S] # <<OpenPacket(j, "auth")>>
    <3>1. Head(<<OpenPacket(j, "auth")>>) = OpenPacket(j, "auth") /\ OpenPacket(j, "auth").kind = "open"
      BY OnePacket DEF OpenPacket
    <3>2. p.kind = "data"
      BY <1>4 DEF DataPacket
    <3> QED BY <1>4, <3>1, <3>2
  <2> QED BY <1>4, <1>6, <2>1 DEF Proving
<1>8. i = j /\ Tail(wire[S]) = << >>
  <2>1. Head(wire[S]) = DataPacket(j, "proof") /\ Tail(wire[S]) = << >>
    BY <1>7, OnePacket
  <2>2. DataPacket(j, "proof").id = j
    BY DEF DataPacket
  <2> QED BY <1>4, <2>1, <2>2
<1>9. Unproved /\ Undecided /\ OnlyAuth(C, i) /\ OnlyAuth(S, i) /\ Waiting(i)
  BY <1>6, <1>7, <1>8 DEF Proving
<1>10. chan[S][i].dir # "out" /\ OwnParity(C, i)
  <2>1. chan[S][i].dir = "in" /\ chan[S][i] # NoChannel
    BY <1>1, <1>2, <1>3 DEF NoChannel
  <2>2. S \in Side /\ C \in Side /\ Peer(S) = C
    BY Ends
  <2> QED BY <1>2, <2>1, <2>2, Parity
<1> HIDE DEF p, i
<1> QED BY <1>1, <1>2, <1>3, <1>4, <1>7, <1>8, <1>9, <1>10 DEF p, i

\* What ReceiveProof may do: the client is known and its connection is taken,
\* or has lost to another, or the client is not known.
LEMMA ProofCases ==
  ASSUME IInv, Deep, NEW s \in Side, ReceiveProof(s)
  PROVE  LET i == Head(wire[s]).id IN
         /\ ReadsData(s, "auth", {"proof"}) /\ auth' = [auth EXCEPT ![s] = @ \cup {"HiddenServiceAuth"}]
         /\ purpose'[C] = purpose[C] /\ queued'[C] = queued[C]
         /\ \/ /\ Acts(s, TRUE, Verdict(i, "known"), i, NoChannel) /\ Up(s) /\ sock' = sock
               /\ purpose'[s] = "KnownContact"
               /\ queued'[s] = queued[s] \cup {"onConnected"}
            \/ /\ Acts(s, TRUE, << >>, i, NoChannel) /\ ~Up(s)'
               /\ purpose'[s] = purpose[s] /\ queued'[s] = queued[s]
            \/ /\ Acts(s, TRUE, Verdict(i, "unknown"), i, NoChannel) /\ sock' = sock
               /\ purpose'[s] = purpose[s] /\ queued'[s] = queued[s]
<1> DEFINE i == Head(wire[s]).id
           known == contact[s] \in {"contact", "request", "refused"}
           live == sock[s] = "connected"
<1>1. ReadsData(s, "auth", {"proof"}) /\ auth' = [auth EXCEPT ![s] = @ \cup {"HiddenServiceAuth"}]
  BY DEF ReceiveProof
<1>2. s = S /\ wire[s] # << >> /\ sock[s] # "closed" /\ i \in Ids /\ s \in Side /\ C # s
  BY <1>1, ProofAtHead, Ends
<1>3. PICK wins \in BOOLEAN :
        /\ ~(known /\ live) => wins = FALSE
        /\ IF known /\ live THEN Assigned(s, wins) ELSE UNCHANGED <<sock, purpose, queued>>
        /\ Reply(s, IF known /\ ~wins THEN << >>
                    ELSE <<DataPacket(i, IF wins THEN "known" ELSE "unknown"), ClosePacket(i)>>)
        /\ Remove(s, i)
  BY DEF ReceiveProof
<1>4. chan' = [chan EXCEPT ![s][i] = NoChannel]
  BY <1>3 DEF Remove
<1>5. sock' = sock \/ (Up(s) /\ sock' = [sock EXCEPT ![s] = "closing"])
  BY <1>3 DEF Assigned, CloseIf, Up
<1>6. CASE known /\ live /\ wins
  <2>1. /\ sock' = sock /\ purpose' = [purpose EXCEPT ![s] = "KnownContact"]
        /\ queued' = [queued EXCEPT ![s] = @ \cup {"onConnected"}]
    BY <1>3, <1>6 DEF Assigned, CloseIf
  <2>2. Reply(s, Verdict(i, "known"))
    BY <1>3, <1>6 DEF Verdict
  <2>3. Acts(s, TRUE, Verdict(i, "known"), i, NoChannel)
    BY <1>2, <1>4, <1>5, <2>2, ReplyActs
  <2>4. purpose'[s] = "KnownContact" /\ purpose'[C] = purpose[C]
    BY <1>2, <2>1 DEF IInv, PlainOK
  <2>5. queued'[s] = queued[s] \cup {"onConnected"} /\ queued'[C] = queued[C]
    BY <1>2, <2>1 DEF IInv, PlainOK
  <2> QED BY <1>1, <1>6, <2>1, <2>3, <2>4, <2>5 DEF Up
<1>7. CASE known /\ ~wins
  <2>1. /\ purpose' = purpose /\ queued' = queued
    BY <1>3, <1>7 DEF Assigned
  <2>2. ~Up(s)'
    BY <1>2, <1>3, <1>7 DEF Assigned, CloseIf, Up, IInv, PlainOK
  <2>3. Reply(s, << >>)
    BY <1>3, <1>7
  <2>4. Acts(s, TRUE, << >>, i, NoChannel)
    BY <1>2, <1>4, <1>5, <2>3, ReplyActs
  <2> QED BY <1>1, <2>1, <2>2, <2>4
<1>8. CASE ~known
  <2>1. UNCHANGED <<sock, purpose, queued>> /\ ~wins
    BY <1>3, <1>8
  <2>2. Reply(s, Verdict(i, "unknown"))
    BY <1>3, <1>8, <2>1 DEF Verdict
  <2>3. Acts(s, TRUE, Verdict(i, "unknown"), i, NoChannel)
    BY <1>2, <1>4, <1>5, <2>2, ReplyActs
  <2> QED BY <1>1, <2>1, <2>3
<1> QED BY <1>3, <1>6, <1>7, <1>8

LEMMA ProofStages ==
  ASSUME IInv, NEW i \in Ids, Undecided, Unproved, OnlyAuth(C, i), OnlyAuth(S, i), Waiting(i),
         OwnParity(C, i), NEW W, wire'[C] = W, wire'[S] = << >>,
         chan'[C] = chan[C], sock'[C] = sock[C], chan' = [chan EXCEPT ![S][i] = NoChannel],
         "HiddenServiceAuth" \in auth'[S], purpose'[C] = purpose[C], queued'[C] = queued[C],
         \/ /\ W = << >> /\ (sock[C] = "closed" \/ ~Up(S)')
            /\ purpose'[S] \in {"Unknown", "KnownContact"} /\ queued'[S] \subseteq {"onConnected"}
         \/ /\ W = Verdict(i, "known") /\ sock[C] # "closed"
            /\ purpose'[S] = "KnownContact" /\ queued'[S] \subseteq {"onConnected"}
         \/ /\ W = Verdict(i, "unknown") /\ sock[C] # "closed"
            /\ purpose'[S] = "Unknown" /\ queued'[S] = {}
  PROVE  Stages' /\ RequestOK'
<1>1. \A j \in Ids : chan'[S][j] = NoChannel
  BY Ends DEF IInv, TablesOK, OnlyAuth
<1>2. chan'[S] = NoChannels
  <2>1. chan'[S] = [j \in Ids |-> chan'[S][j]]
    BY Ends DEF IInv, TablesOK
  <2> QED BY <1>1, <2>1 DEF NoChannels
<1>3. Undecided' /\ OnlyAuth(C, i)'
  BY DEF Undecided, OnlyAuth
<1>4. \A j \in Ids : chan'[S][j].type = "none" /\ ~chan'[S][j].opened
  BY <1>1 DEF NoChannel
<1>5. sock[C] # "closed" => chan'[C][i].type = "auth"
  BY DEF Waiting
<1>6. Proved(i)'
  <2>1. CASE W = << >> /\ (sock[C] = "closed" \/ ~Up(S)')
    <3>1. purpose'[S] \in {"Unknown", "KnownContact"} /\ "closeRequest" \notin queued'[S]
      OBVIOUS
    <3> QED BY <1>3, <1>4, <2>1, <3>1 DEF Proved
  <2>2. CASE W = Verdict(i, "known") /\ sock[C] # "closed" /\ purpose'[S] = "KnownContact"
    <3>1. DOMAIN W = {1, 2} /\ W[1] = DataPacket(i, "known") /\ W[2] = ClosePacket(i) /\ W # << >>
      BY <2>2 DEF Verdict
    <3>2. \A n \in DOMAIN wire'[C] : n # 1 => OpensOrCloses(wire'[C][n], i)
      BY <3>1 DEF OpensOrCloses
    <3>3. "closeRequest" \notin queued'[S]
      OBVIOUS
    <3> QED BY <1>3, <1>4, <1>5, <2>2, <3>1, <3>2, <3>3 DEF Proved
  <2>3. CASE /\ W = Verdict(i, "unknown") /\ sock[C] # "closed" /\ purpose'[S] = "Unknown"
             /\ queued'[S] = {}
    <3>1. W = <<DataPacket(i, "unknown"), ClosePacket(i)>>
      BY <2>3 DEF Verdict
    <3> QED BY <1>2, <1>3, <1>4, <1>5, <2>3, <3>1 DEF Proved
  <2> QED BY <2>1, <2>2, <2>3
<1>7. Asking' = {} /\ Judged' = {}
  BY <1>4 DEF Asking, At, Judged
<1>8. Answering' = {}
  <2>1. CASE W = << >>
    BY <2>1 DEF Answering, At
  <2>2. ASSUME NEW b \in {"known", "unknown"}, W = Verdict(i, b) PROVE Answering' = {}
    <3>1. \A n \in DOMAIN Verdict(i, b) : Verdict(i, b)[n] \notin Answers
      BY GrantWritten
    <3> QED BY <2>2, <3>1 DEF Answering, At
  <2> QED BY <2>1, <2>2
<1>9. ~Asked'
  BY DEF Undecided, Asked
<1>10. \A q \in Ids : chan'[C][q].type # "request"
  BY DEF OnlyAuth, NoChannel
<1>11. RequestOK'
  BY <1>7, <1>8, <1>9, <1>10, RequestNone
<1> QED BY <1>6, <1>11 DEF Stages

LEMMA ProofDeep ==
  ASSUME IInv, Deep, NEW s \in Side, ReceiveProof(s)
  PROVE  Deep'
<1> DEFINE i == Head(wire[s]).id
<1>1. /\ ReadsData(s, "auth", {"proof"}) /\ auth' = [auth EXCEPT ![s] = @ \cup {"HiddenServiceAuth"}]
      /\ purpose'[C] = purpose[C] /\ queued'[C] = queued[C]
      /\ \/ /\ Acts(s, TRUE, Verdict(i, "known"), i, NoChannel) /\ Up(s) /\ sock' = sock
            /\ purpose'[s] = "KnownContact"
            /\ queued'[s] = queued[s] \cup {"onConnected"}
         \/ /\ Acts(s, TRUE, << >>, i, NoChannel) /\ ~Up(s)'
            /\ purpose'[s] = purpose[s] /\ queued'[s] = queued[s]
         \/ /\ Acts(s, TRUE, Verdict(i, "unknown"), i, NoChannel) /\ sock' = sock
            /\ purpose'[s] = purpose[s] /\ queued'[s] = queued[s]
  BY ProofCases
<1>2. /\ s = S /\ wire[S] # << >> /\ sock[S] # "closed" /\ i \in Ids /\ ~Serving
      /\ wire[C] = << >> /\ Tail(wire[S]) = << >>
      /\ Unproved /\ Undecided /\ OnlyAuth(C, i) /\ OnlyAuth(S, i) /\ Waiting(i)
      /\ chan[S][i].type = "auth" /\ chan[S][i].dir # "out" /\ OwnParity(C, i)
  BY <1>1, ProofAtHead
<1>3. /\ \A j \in Ids : ~Takes(s, TRUE, ClosePacket(j))
      /\ \A j \in Ids, t \in Types : ~Takes(s, TRUE, OpenPacket(j, t))
  <2>1. Head(wire[s]).kind = "data"
    BY <1>1 DEF ReadsData, Reads
  <2> QED BY <2>1, PacketKinds DEF Takes
<1>4. "HiddenServiceAuth" \in auth'[S]
  BY <1>1, <1>2, Ends DEF IInv, PlainOK
<1>5. Known' <=> Known
  BY <1>1 DEF Known
<1> HIDE DEF i
<1>6. ASSUME NEW ps \in Seq(Packet), Acts(S, TRUE, ps, i, NoChannel),
             Plain(ps), Writes(S, ps, Known'), \A n \in DOMAIN ps : ps[n].kind # "open",
             \/ /\ ps = Verdict(i, "known") /\ Up(S) /\ sock' = sock /\ purpose'[S] = "KnownContact"
                /\ queued'[S] = queued[S] \cup {"onConnected"}
             \/ /\ ps = << >> /\ ~Up(S)' /\ purpose'[S] = purpose[S] /\ queued'[S] = queued[S]
             \/ /\ ps = Verdict(i, "unknown") /\ sock' = sock /\ purpose'[S] = purpose[S]
                /\ queued'[S] = queued[S],
             Closes(ps, i) \/ ~Up(S)'
      PROVE  Deep'
  <2>1. S \in Side /\ Peer(S) = C
    BY Ends
  <2>2. Shape(S, TRUE, ps, i, NoChannel)
    BY <1>2, <1>3, <1>6 DEF Shape, Drops
  <2>3. /\ wire'[S] = Tail(wire[S]) /\ wire'[C] = wire[C] \o Written(S, ps)
        /\ Up(S) /\ sock[C] # "closed" => Written(S, ps) = ps
        /\ ~Up(S) \/ sock[C] = "closed" => Written(S, ps) = << >>
        /\ Written(S, ps) \in Seq(Packet)
        /\ chan'[C] = chan[C] /\ sock'[C] = sock[C]
    <3>1. /\ wire'[S] = Tail(wire[S]) /\ wire'[Peer(S)] = wire[Peer(S)] \o Written(S, ps)
          /\ Up(S) /\ sock[Peer(S)] # "closed" => Written(S, ps) = ps
          /\ ~Up(S) \/ sock[Peer(S)] = "closed" => Written(S, ps) = << >>
          /\ Written(S, ps) \in Seq(Packet)
          /\ chan'[S][i] = NoChannel /\ \A j \in Ids : j # i => chan'[S][j] = chan[S][j]
          /\ chan'[Peer(S)] = chan[Peer(S)] /\ sock'[Peer(S)] = sock[Peer(S)]
      <4>1. Acts(S, TRUE, ps, i, NoChannel) /\ i \in Ids
        BY <1>2, <1>6
      <4> QED BY <2>1, <4>1, ReplyFacts
    <3> QED BY <2>1, <3>1
  <2> DEFINE W == Written(S, ps)
  <2>4. wire'[C] = W /\ wire'[S] = << >> /\ W \in Seq(Packet) /\ wire'[C] = wire[C] \o W
    <3>1. << >> \o Written(S, ps) = Written(S, ps)
      BY <2>3
    <3> QED BY <1>2, <2>3, <3>1
  <2>5. chan' = [chan EXCEPT ![S][i] = NoChannel]
    BY <1>6 DEF Acts
  <2>6. /\ purpose[S] = "Unknown" /\ queued[S] = {}
    BY <1>2 DEF Unproved
  <2>7. \/ /\ W = << >> /\ (sock[C] = "closed" \/ ~Up(S)')
           /\ purpose'[S] \in {"Unknown", "KnownContact"} /\ queued'[S] \subseteq {"onConnected"}
        \/ /\ W = Verdict(i, "known") /\ sock[C] # "closed"
           /\ purpose'[S] = "KnownContact" /\ queued'[S] \subseteq {"onConnected"}
        \/ /\ W = Verdict(i, "unknown") /\ sock[C] # "closed"
           /\ purpose'[S] = "Unknown" /\ queued'[S] = {}
    <3>1. CASE /\ ps = Verdict(i, "known") /\ Up(S) /\ sock' = sock /\ purpose'[S] = "KnownContact"
               /\ queued'[S] = queued[S] \cup {"onConnected"}
      BY <2>3, <2>6, <3>1
    <3>2. CASE ps = << >> /\ ~Up(S)' /\ purpose'[S] = purpose[S] /\ queued'[S] = queued[S]
      BY <2>3, <2>6, <3>2
    <3>3. CASE /\ ps = Verdict(i, "unknown") /\ sock' = sock /\ purpose'[S] = purpose[S]
               /\ queued'[S] = queued[S]
      <4>1. ~Up(S) => ~Up(S)'
        BY <3>3 DEF Up
      <4> QED BY <2>3, <2>6, <3>3, <4>1
    <3> QED BY <1>6, <3>1, <3>2, <3>3
  <2> HIDE DEF W
  <2>8. Stages' /\ RequestOK'
    BY <1>1, <1>2, <1>4, <2>3, <2>4, <2>5, <2>7, ProofStages
  <2>9. Up(C)' = Up(C)
    BY <2>3 DEF Up
  <2>10. Up(C) /\ ~Known =>
           /\ \A n \in DOMAIN W : W[n].kind = "open" => Trusted
           /\ Trusted' => Trusted \/ \E n \in DOMAIN W : Trusting(chan[C], W[n])
    <3> SUFFICES ASSUME Up(C)
                 PROVE  /\ \A n \in DOMAIN W : W[n].kind = "open" => Trusted
                        /\ Trusted' => Trusted \/ \E n \in DOMAIN W : Trusting(chan[C], W[n])
      OBVIOUS
    <3>1. sock[C] # "closed"
      BY DEF Up
    <3>2. \A n \in DOMAIN W : W[n].kind # "open"
      BY <1>6, <2>3 DEF W
    <3>3. ASSUME ps = Verdict(i, "known"), Up(S) PROVE \E n \in DOMAIN W : Trusting(chan[C], W[n])
      <4>1. W = Verdict(i, "known")
        BY <2>3, <3>1, <3>3 DEF W
      <4>2. 1 \in DOMAIN W /\ W[1] = DataPacket(i, "known")
        BY <4>1 DEF Verdict
      <4>3. chan[C][i].type = "auth"
        BY <1>2, <3>1 DEF Waiting
      <4>4. Trusting(chan[C], W[1])
        BY <4>2, <4>3 DEF Trusting, DataPacket
      <4> QED BY <4>2, <4>4
    <3>4. Trusted' => (ps = Verdict(i, "known") /\ Up(S)) \/ Trusted
      BY <1>6, Ends DEF Trusted
    <3> QED BY <3>2, <3>3, <3>4
  <2>11. TrustComes'
    <3>1. TrustComes
      BY DEF Deep
    <3> QED BY <1>5, <2>3, <2>4, <2>9, <2>10, <3>1, TrustAtServer
  <2>12. Known => Known'
    BY <1>5
  <2> QED BY <1>2, <1>6, <2>1, <2>2, <2>8, <2>11, <2>12, Deeper
<1>7. ASSUME NEW b \in {"known", "unknown"}
      PROVE  /\ Verdict(i, b) \in Seq(Packet) /\ Plain(Verdict(i, b)) /\ Writes(S, Verdict(i, b), Known')
             /\ Closes(Verdict(i, b), i)
             /\ \A n \in DOMAIN Verdict(i, b) : Verdict(i, b)[n].kind # "open"
  <2> DEFINE k == Known'
  <2>1. i \in Ids /\ OwnParity(C, i)
    BY <1>2
  <2> HIDE DEF k
  <2>2. LET ps == Verdict(i, b) IN
        /\ ps \in Seq(Packet) /\ Plain(ps) /\ Writes(S, ps, k) /\ Closes(ps, i)
        /\ DOMAIN ps = {1, 2} /\ ps[1] = DataPacket(i, b) /\ ps[2] = ClosePacket(i)
        /\ \A n \in DOMAIN ps : ps[n].kind # "open" /\ ps[n] \notin Answers
    BY <2>1, GrantWritten
  <2> QED BY <2>2 DEF k
<1>8. /\ << >> \in Seq(Packet) /\ Plain(<< >>) /\ Writes(S, << >>, Known')
      /\ \A n \in DOMAIN << >> : << >>[n].kind # "open"
  BY DEF Plain, Writes
<1>9. CASE /\ Acts(s, TRUE, Verdict(i, "known"), i, NoChannel) /\ Up(s) /\ sock' = sock
           /\ purpose'[s] = "KnownContact" /\ queued'[s] = queued[s] \cup {"onConnected"}
  BY <1>2, <1>6, <1>7, <1>9
<1>10. CASE /\ Acts(s, TRUE, << >>, i, NoChannel) /\ ~Up(s)'
            /\ purpose'[s] = purpose[s] /\ queued'[s] = queued[s]
  BY <1>2, <1>6, <1>8, <1>10
<1>11. CASE /\ Acts(s, TRUE, Verdict(i, "unknown"), i, NoChannel) /\ sock' = sock
            /\ purpose'[s] = purpose[s] /\ queued'[s] = queued[s]
  BY <1>2, <1>6, <1>7, <1>11
<1> QED BY <1>1, <1>9, <1>10, <1>11 DEF i

LEMMA GrantAtHead ==
  ASSUME IInv, Deep, NEW s \in Side, ReadsData(s, "auth", {"known", "unknown"})
  PROVE  LET i == Head(wire[s]).id IN
         /\ s = C /\ wire[C] # << >> /\ sock[C] # "closed" /\ i \in Ids /\ ~Serving
         /\ Undecided /\ OnlyAuth(C, i) /\ "HiddenServiceAuth" \in auth[S] /\ wire[S] = << >>
         /\ \A j \in Ids : chan[S][j].type \notin {"auth", "request"}
         /\ Tail(wire[C]) \in Seq(Packet)
         /\ \A n \in DOMAIN Tail(wire[C]) :
              Late(Tail(wire[C])[n]) /\ Tail(wire[C])[n].kind \in {"open", "close"}
         /\ Head(wire[C]).body = "unknown" =>
              purpose[S] = "Unknown" /\ \A n \in DOMAIN Tail(wire[C]) : Tail(wire[C])[n].kind = "close"
<1> DEFINE p == Head(wire[s])
           i == p.id
<1>1. /\ Reads(s, "data") /\ sock[s] # "closed" /\ chan[s][i].type = "auth"
      /\ p.body \in {"known", "unknown"}
  BY DEF ReadsData, Reads
<1>2. /\ wire[s] # << >> /\ i \in Ids /\ p = DataPacket(i, p.body) /\ ~Serving
      /\ p.body \in IF s = S THEN {"proof"} ELSE {"known", "unknown"}
  BY <1>1, DataAtHead
<1>3. s = C
  BY <1>1, <1>2, Ends
<1>4. p = DataPacket(i, p.body) /\ wire[C] # << >> /\ Head(wire[C]) = p /\ p.kind = "data"
  <2>1. p.kind = "data"
    BY <1>1 DEF Reads
  <2> QED BY <1>2, <1>3, <2>1
<1>5. ~Greeting /\ \A j \in Ids : ~Proving(j)
  <2>1. ~Greeting
    BY <1>4, OnePacket DEF Greeting
  <2>2. ASSUME NEW j \in Ids, Proving(j) PROVE FALSE
    <3>1. wire[C] = <<ResultPacket(j, TRUE, "none")>>
      BY <1>4, <2>2 DEF Proving
    <3>2. Head(wire[C]) = ResultPacket(j, TRUE, "none")
      BY <3>1, OnePacket
    <3> QED BY <1>4, <3>2 DEF ResultPacket
  <2> QED BY <2>1, <2>2
<1>6. PICK j \in Ids : Proved(j)
  BY <1>2, <1>5 DEF Deep, Stages
<1> DEFINE w == wire[C]
           v == Tail(w)
<1>7. /\ w \in Seq(Packet) /\ v \in Seq(Packet) /\ p = w[1] /\ DOMAIN v \subseteq Nat
      /\ \A n \in DOMAIN v : n + 1 \in DOMAIN w /\ v[n] = w[n + 1] /\ 0 < n
  <2>1. w \in Seq(Packet)
    BY Ends DEF IInv, WiresOK
  <2>2. w # << >> /\ Head(w) = p
    BY <1>4
  <2> HIDE DEF w, p
  <2> QED BY <2>1, <2>2, Shrunk
<1>8. v \in Seq(To(C, Trusted)) /\ Trusted \in BOOLEAN
  <2>1. C \in Side /\ wire[C] # << >> /\ WiresOK
    BY <1>4, Ends DEF IInv
  <2> QED BY <2>1, HeadFacts
<1>9. \A n \in DOMAIN v : v[n].kind = "open" => v[n].type \in Chats
  <2> SUFFICES ASSUME NEW n \in DOMAIN v, v[n].kind = "open" PROVE v[n].type \in Chats
    OBVIOUS
  <2> HIDE DEF v
  <2>1. v[n] \in To(C, Trusted) /\ C \in Side
    BY <1>8, Ends
  <2> QED BY <1>8, <2>1, PacketFields, Ends DEF Chats
<1>10. /\ DataPacket(j, "known").id = j /\ DataPacket(j, "known").body = "known"
       /\ DataPacket(j, "unknown").id = j /\ DataPacket(j, "unknown").body = "unknown"
       /\ ClosePacket(j).kind = "close"
  BY DEF DataPacket, ClosePacket
<1>11. \/ /\ w[1] = DataPacket(j, "known") /\ \A n \in DOMAIN w : n # 1 => OpensOrCloses(w[n], j)
       \/ w = <<DataPacket(j, "unknown"), ClosePacket(j)>> /\ purpose[S] = "Unknown"
  BY <1>4, <1>6 DEF Proved
<1> HIDE DEF p
<1>12. CASE w[1] = DataPacket(j, "known") /\ \A n \in DOMAIN w : n # 1 => OpensOrCloses(w[n], j)
  <2>1. i = j /\ p.body = "known"
    BY <1>7, <1>10, <1>12
  <2>2. \A n \in DOMAIN v : v[n].kind \in {"open", "close"}
    <3> SUFFICES ASSUME NEW n \in DOMAIN v PROVE v[n].kind \in {"open", "close"}
      OBVIOUS
    <3>1. n + 1 # 1 /\ n + 1 \in DOMAIN w /\ v[n] = w[n + 1]
      BY <1>7
    <3> HIDE DEF w, v
    <3>2. OpensOrCloses(v[n], j)
      BY <1>12, <3>1
    <3> QED BY <1>10, <3>2 DEF OpensOrCloses
  <2>3. \A n \in DOMAIN v : Late(v[n])
    <3> HIDE DEF w, v
    <3> QED BY <1>9, <2>2 DEF Late, Chats
  <2> HIDE DEF i
  <2> QED BY <1>1, <1>2, <1>3, <1>4, <1>6, <1>7, <2>1, <2>2, <2>3 DEF Proved, p, i
<1>13. CASE w = <<DataPacket(j, "unknown"), ClosePacket(j)>> /\ purpose[S] = "Unknown"
  <2>1. i = j /\ p.body = "unknown"
    BY <1>7, <1>10, <1>13
  <2>2. v = <<ClosePacket(j)>>
    BY <1>13
  <2>3. \A n \in DOMAIN v : v[n].kind = "close"
    <3>1. DOMAIN v = {1} /\ v[1] = ClosePacket(j)
      BY <2>2, OnePacket
    <3> QED BY <1>10, <3>1
  <2>4. \A n \in DOMAIN v : Late(v[n])
    BY <2>3 DEF Late
  <2> HIDE DEF i
  <2> QED BY <1>1, <1>2, <1>3, <1>4, <1>6, <1>7, <1>13, <2>1, <2>3, <2>4 DEF Proved, p, i
<1> QED BY <1>11, <1>12, <1>13

\* What ReceiveAuthResult may do: the client comes to trust the connection, or
\* begins to close it, or was not known and may go on to its request.
LEMMA GrantCases ==
  ASSUME IInv, NEW s \in Side, ReceiveAuthResult(s), s = C, Head(wire[s]).id \in Ids
  PROVE  LET i == Head(wire[s]).id IN
         /\ Acts(s, TRUE, <<ClosePacket(i)>>, i, NoChannel)
         /\ auth'[S] = auth[S] /\ purpose'[S] = purpose[S] /\ queued'[S] = queued[S]
         /\ \/ Known'
            \/ ~Up(s)' /\ purpose'[C] = purpose[C]
            \/ Head(wire[s]).body = "unknown" /\ purpose'[C] \in {purpose[C], "OutboundRequest"}
<1> DEFINE i == Head(wire[s]).id
           known == Head(wire[s]).body = "known"
           live == sock[s] = "connected"
<1>1. /\ ReadsData(s, "auth", {"known", "unknown"})
      /\ auth' = IF known THEN [auth EXCEPT ![s] = @ \cup {"KnownToPeer"}] ELSE auth
      /\ Reply(s, <<ClosePacket(i)>>) /\ Remove(s, i)
      /\ \/ live /\ known /\ \E wins \in BOOLEAN : Assigned(s, wins)
         \/ /\ live /\ ~known
            /\ \E wins \in BOOLEAN :
                 /\ CloseIf(s, ~wins)
                 /\ purpose' = IF wins THEN [purpose EXCEPT ![s] = "OutboundRequest"] ELSE purpose
                 /\ queued' = IF wins THEN [queued EXCEPT ![s] = @ \cup {"onConnected"}] ELSE queued
         \/ CloseIf(s, TRUE) /\ UNCHANGED <<purpose, queued>>
  BY DEF ReceiveAuthResult
<1>2. /\ wire[s] # << >> /\ sock[s] # "closed" /\ chan' = [chan EXCEPT ![s][i] = NoChannel]
      /\ ~known => Head(wire[s]).body = "unknown"
  BY <1>1 DEF ReadsData, Reads, Remove
<1>3. sock' = sock \/ (Up(s) /\ sock' = [sock EXCEPT ![s] = "closing"])
  BY <1>1 DEF Assigned, CloseIf, Up
<1>4. Acts(s, TRUE, <<ClosePacket(i)>>, i, NoChannel)
  BY <1>1, <1>2, <1>3, ReplyActs
<1>5. auth'[S] = auth[S]
  BY <1>1, Ends DEF IInv, PlainOK
<1>6. CASE live /\ known /\ \E wins \in BOOLEAN : Assigned(s, wins)
  <2>1. PICK wins \in BOOLEAN : Assigned(s, wins)
    BY <1>6
  <2>2. CASE wins
    <3>1. /\ purpose' = [purpose EXCEPT ![s] = "KnownContact"]
          /\ queued' = [queued EXCEPT ![s] = @ \cup {"onConnected"}]
      BY <2>1, <2>2 DEF Assigned
    <3>2. Known' /\ purpose'[S] = purpose[S] /\ queued'[S] = queued[S]
      BY <3>1, Ends DEF Known, IInv, PlainOK
    <3> QED BY <1>4, <1>5, <3>2
  <2>3. CASE ~wins
    <3>1. purpose' = purpose /\ queued' = queued /\ CloseIf(s, TRUE)
      BY <2>1, <2>3 DEF Assigned, CloseIf
    <3> QED BY <1>4, <1>5, <3>1, ClosedIf
  <2> QED BY <2>2, <2>3
<1>7. ASSUME live, ~known, NEW wins \in BOOLEAN,
             purpose' = IF wins THEN [purpose EXCEPT ![s] = "OutboundRequest"] ELSE purpose,
             queued' = IF wins THEN [queued EXCEPT ![s] = @ \cup {"onConnected"}] ELSE queued
      PROVE  /\ Head(wire[s]).body = "unknown" /\ purpose'[C] \in {purpose[C], "OutboundRequest"}
             /\ purpose'[S] = purpose[S] /\ queued'[S] = queued[S]
  BY <1>2, <1>7, Ends DEF IInv, PlainOK
<1>8. CASE CloseIf(s, TRUE) /\ UNCHANGED <<purpose, queued>>
  BY <1>4, <1>5, <1>8, ClosedIf
<1> QED BY <1>1, <1>4, <1>5, <1>6, <1>7, <1>8

LEMMA AuthResultDeep ==
  ASSUME IInv, Deep, NEW s \in Side, ReceiveAuthResult(s)
  PROVE  Deep'
<1> DEFINE i == Head(wire[s]).id
           ps == <<ClosePacket(i)>>
           v == Tail(wire[C])
<1>1. ReadsData(s, "auth", {"known", "unknown"}) /\ Head(wire[s]).kind = "data"
  BY DEF ReceiveAuthResult, ReadsData, Reads
<1>2. /\ s = C /\ wire[C] # << >> /\ sock[C] # "closed" /\ i \in Ids /\ ~Serving
      /\ Undecided /\ OnlyAuth(C, i) /\ "HiddenServiceAuth" \in auth[S] /\ wire[S] = << >>
      /\ \A j \in Ids : chan[S][j].type \notin {"auth", "request"}
      /\ v \in Seq(Packet)
      /\ \A n \in DOMAIN v : Late(v[n]) /\ v[n].kind \in {"open", "close"}
      /\ Head(wire[C]).body = "unknown" =>
           purpose[S] = "Unknown" /\ \A n \in DOMAIN v : v[n].kind = "close"
  BY <1>1, GrantAtHead
<1>3. /\ Acts(s, TRUE, ps, i, NoChannel)
      /\ auth'[S] = auth[S] /\ purpose'[S] = purpose[S] /\ queued'[S] = queued[S]
      /\ \/ Known'
         \/ ~Up(s)' /\ purpose'[C] = purpose[C]
         \/ Head(wire[s]).body = "unknown" /\ purpose'[C] \in {purpose[C], "OutboundRequest"}
  BY <1>2, GrantCases
<1>4. Harmless(C, ps) /\ Writes(C, ps, Known') /\ Closes(ps, i)
  BY <1>2, CloseWritten
<1>5. Shape(s, TRUE, ps, i, NoChannel)
  <2>1. /\ \A j \in Ids : ~Takes(s, TRUE, ClosePacket(j))
        /\ \A j \in Ids, t \in Types : ~Takes(s, TRUE, OpenPacket(j, t))
    BY <1>1, PacketKinds DEF Takes
  <2> QED BY <1>4, <2>1 DEF Shape, Drops, Harmless
<1> HIDE DEF ps, i
<1>6. /\ wire'[C] = v /\ wire'[S] = wire[S] \o Written(C, ps)
      /\ (Written(C, ps) = ps \/ Written(C, ps) = << >>) /\ Written(C, ps) \in Seq(Packet)
      /\ chan'[C][i] = NoChannel /\ \A j \in Ids : j # i => chan'[C][j] = chan[C][j]
      /\ chan'[S] = chan[S]
  <2>1. /\ wire'[s] = Tail(wire[s]) /\ wire'[Peer(s)] = wire[Peer(s)] \o Written(s, ps)
        /\ Up(s) /\ sock[Peer(s)] # "closed" => Written(s, ps) = ps
        /\ ~Up(s) \/ sock[Peer(s)] = "closed" => Written(s, ps) = << >>
        /\ Written(s, ps) \in Seq(Packet)
        /\ chan'[s][i] = NoChannel /\ \A j \in Ids : j # i => chan'[s][j] = chan[s][j]
        /\ chan'[Peer(s)] = chan[Peer(s)] /\ sock'[Peer(s)] = sock[Peer(s)]
    <3>1. ps \in Seq(Packet) /\ Acts(s, TRUE, ps, i, NoChannel) /\ i \in Ids
      BY <1>2, <1>3, <1>4 DEF Harmless
    <3> QED BY <3>1, ReplyFacts
  <2> QED BY <1>2, <2>1, Ends
<1> HIDE DEF v
<1>7. wire'[S] = Written(C, ps)
  <2>1. << >> \o Written(C, ps) = Written(C, ps)
    BY <1>6
  <2> QED BY <1>2, <1>6, <2>1
<1>8. \A n \in DOMAIN wire'[S] : Late(wire'[S][n]) /\ wire'[S][n].kind # "open"
  BY <1>4, <1>6, <1>7 DEF Harmless
<1>9. \A j \in Ids : chan'[C][j].type = "none"
  BY <1>2, <1>6 DEF OnlyAuth, NoChannel
<1>10. Stages'
  <2>1. Serving'
    BY <1>2, <1>3, <1>6, <1>8, <1>9, Ends DEF Serving
  <2> QED BY <2>1 DEF Stages
<1>11. purpose[C] = "Unknown" /\ queued[C] = {} /\ ~Known
  BY <1>2 DEF Undecided, Known
<1>12. RequestOK'
  <2>1. Asking' = {}
    <3>1. \A x, b : OpenPacket(x, b).kind = "open"
      BY DEF OpenPacket
    <3> QED BY <1>8, <3>1 DEF Asking, At, RequestOpens
  <2>2. Judged' = {}
    BY <1>2, <1>6 DEF Judged
  <2>3. Answering' = {}
    BY <1>2, <1>6 DEF Answering, At, Answers
  <2>4. Asked' => purpose'[S] = "Unknown"
    <3> SUFFICES ASSUME purpose'[C] = "OutboundRequest" PROVE purpose'[S] = "Unknown"
      BY DEF Asked
    <3>1. Head(wire[s]).body = "unknown"
      BY <1>3, <1>11 DEF Known
    <3> QED BY <1>2, <1>3, <3>1
  <2>5. \A q \in Ids : chan'[C][q].type # "request"
    BY <1>9
  <2> QED BY <2>1, <2>2, <2>3, <2>4, <2>5, RequestNone
<1>13. TrustComes'
  <2> SUFFICES ASSUME Up(C)', ~Known' PROVE ~Trusted' /\ \A n \in DOMAIN wire'[C] : wire'[C][n].kind # "open"
    BY DEF TrustComes
  <2>1. Head(wire[s]).body = "unknown"
    BY <1>2, <1>3
  <2>2. purpose'[S] = "Unknown" /\ \A n \in DOMAIN v : v[n].kind = "close"
    BY <1>2, <1>3, <2>1
  <2>3. ~Trusted'
    BY <2>2, Ends DEF Trusted
  <2> QED BY <1>6, <2>2, <2>3
<1> QED BY <1>2, <1>3, <1>4, <1>5, <1>10, <1>11, <1>12, <1>13, Ends, Deeper DEF Harmless

-----------------------------------------------------------------------------
\* The steps that only begin to close a socket, and those that lose one.

LEMMA QuietDeep ==
  ASSUME IInv, Deep, NEW s \in Side, AddContact(s) \/ Replaced(s) \/ UnknownPurposeTimeout(s)
  PROVE  Deep'
<1>1. UNCHANGED <<chan, wire, purpose, auth, queued>>
  BY DEF AddContact, Replaced, UnknownPurposeTimeout, link
<1>2. sock' = sock \/ (Up(s) /\ sock' = [sock EXCEPT ![s] = "closing"])
  BY DEF AddContact, Replaced, UnknownPurposeTimeout, link, CloseIf, Up
<1>3. Quiet(s)
  BY <1>1, <1>2 DEF Quiet
<1> QED BY <1>3, QuietKeepsDeep

LEMMA DisconnectedDeep ==
  ASSUME IInv, Deep, NEW s \in Side, Disconnected(s)
  PROVE  Deep'
<1>1. \A x \in Side : queued'[x] \subseteq queued[x]
  BY DEF Disconnected, IInv, PlainOK
<1>2. Gone(s)
  BY <1>1 DEF Disconnected, Gone
<1> QED BY <1>2, GoneKeeps

-----------------------------------------------------------------------------
\* The invariant.

LEMMA InitDeep == Init => Deep
<1> SUFFICES ASSUME Init PROVE Deep
  OBVIOUS
<1>1. PICK ok \in BOOLEAN :
        wire = [s \in Side |-> IF s = "server"
                               THEN << [kind |-> "intro", ok |-> ok] >> ELSE << >>]
  BY DEF Init
<1> DEFINE p == [kind |-> "intro", ok |-> ok]
<1>2. p \in Packet /\ p.kind = "intro"
  BY DEF Packet
<1>3. wire[S] = <<p>> /\ wire[C] = << >>
  BY <1>1, Ends
<1> HIDE DEF p
<1>4. DOMAIN wire[S] = {1} /\ wire[S][1] = p /\ DOMAIN wire[C] = {}
  BY <1>3, OnePacket
<1>5. /\ chan[C] = NoChannels /\ chan[S] = NoChannels
      /\ \A s \in Side : Up(s) /\ sock[s] # "closed" /\ purpose[s] = "Unknown" /\ queued[s] = {}
      /\ "HiddenServiceAuth" \notin auth[S]
  BY Ends DEF Init, Up
<1>6. \A s \in Side, i \in Ids : /\ chan[s][i].dir = "none" /\ chan[s][i].type = "none"
  BY <1>5, Ends DEF NoChannels, NoChannel
<1>7. \A s \in Side : \A n \in DOMAIN wire[s] : wire[s][n].kind = "intro"
  BY <1>2, <1>4, Ends
<1>8. PacketsFit
  BY <1>7 DEF PacketsFit, Fit
<1>9. ClosedOK /\ StrangersTables
  BY <1>5, <1>6, Ends DEF ClosedOK, StrangersTables
<1>10. FlowsOK
  <2> SUFFICES ASSUME NEW s \in Side PROVE Flow(chan[s], chan[Peer(s)], wire[Peer(s)], Up(s))
    BY DEF FlowsOK
  <2> DEFINE R == chan[Peer(s)]
             w == wire[Peer(s)]
  <2>1. (\A j \in Ids : R[j].dir = "none") /\ \A n \in DOMAIN w : w[n].kind = "intro"
    BY <1>6, <1>7, Ends
  <2>2. \A i, t : OpenPacket(i, t).kind = "open"
    BY DEF OpenPacket
  <2> HIDE DEF R, w
  <2>3. \A k \in Nat, j \in Ids, u \in Types : ~Opening(R, w, k, j, u)
    BY <2>1, <2>2 DEF Opening, InTable
  <2>4. Flow(chan[s], R, w, Up(s))
    BY <2>1, <2>2, <2>3 DEF Flow, Follows, Orderly
  <2> QED BY <2>4 DEF R, w
<1>11. MirrorsOK
  BY <1>6, <1>7 DEF MirrorsOK, Mirror
<1>12. Stages
  <2>1. Greeting
    BY <1>2, <1>3, <1>5, Ends DEF Greeting, Undecided, Unproved
  <2> QED BY <2>1 DEF Stages
<1>13. RequestOK
  <2>1. \A i, t : OpenPacket(i, t).kind = "open"
    BY DEF OpenPacket
  <2>2. Asking = {}
    BY <1>7, <2>1, Ends DEF Asking, At, RequestOpens
  <2>3. Judged = {} /\ Answering = {} /\ ~Asked
    BY <1>4, <1>5, <1>6, Ends DEF Judged, Answering, At, Asked
  <2>4. OnceOnly
    BY <2>2, <2>3 DEF OnceOnly, One
  <2> QED BY <1>6, <2>2, <2>3, <2>4, Ends DEF RequestOK
<1>14. TrustComes
  BY <1>4, <1>5, Ends DEF TrustComes, Trusted
<1> QED BY <1>8, <1>9, <1>10, <1>11, <1>12, <1>13, <1>14 DEF Deep

LEMMA StepDeep == IInv /\ Deep /\ [Next]_vars => Deep'
<1> SUFFICES ASSUME IInv, Deep, [Next]_vars PROVE Deep'
  OBVIOUS
<1>1. CASE UNCHANGED vars
  <2>1. Quiet(C)
    BY <1>1 DEF vars, Quiet
  <2> QED BY <2>1, Ends, QuietKeepsDeep
<1>2. CASE Next
  <2>1. PICK s \in Side :
          EventLoop(s) \/ User(s) \/ UnknownPurposeTimeout(s) \/ Replaced(s) \/ NetworkDrop(s)
    BY <1>2 DEF Next
  <2>2. CASE Receive(s)
    BY <2>2, IntroDeep, VersionDeep, OpenDeep, ResultDeep, CloseDeep,
       StrayDeep, ProofDeep, AuthResultDeep, ResponseDeep, MessageDeep
       DEF Receive
  <2>3. CASE OnConnected(s) \/ CloseAnsweredRequest(s)
    BY <2>3, OnConnectedDeep, CloseAnsweredDeep
  <2>4. CASE FinishClose(s) \/ PeerGone(s) \/ NetworkDrop(s)
    BY <2>4, DisconnectedDeep DEF FinishClose, PeerGone, NetworkDrop
  <2>5. CASE User(s)
    BY <2>5, OpenUserDeep, SendDeep, CloseFileDeep, AcceptDeep, RejectDeep,
       QuietDeep DEF User
  <2>6. CASE UnknownPurposeTimeout(s) \/ Replaced(s)
    BY <2>6, QuietDeep
  <2> QED BY <2>1, <2>2, <2>3, <2>4, <2>5, <2>6 DEF EventLoop
<1> QED BY <1>1, <1>2

LEMMA Sent ==
  ASSUME IInv, NEW s \in Side, NEW n \in DOMAIN wire[s]
  PROVE  InFlight(s, wire[s][n])
<1>1. wire[s] \in Seq(Packet)
  BY DEF IInv, WiresOK
<1> QED BY <1>1 DEF InFlight

-----------------------------------------------------------------------------
\* The theorems.

\* However opens, closes and answers cross between the two peers, a channel
\* that Connection's tables have at both ends is one channel: of one type, and
\* outbound at one end only; otherwise its close is already on its way.
THEOREM ChannelsAgree == Spec => []EndsAgree
<1>1. IInv /\ Deep => EndsAgree
  <2> SUFFICES ASSUME IInv, Deep, NEW i \in Ids, chan[C][i] # NoChannel, chan[S][i] # NoChannel
               PROVE  \/ chan[C][i].type = chan[S][i].type /\ chan[C][i].dir # chan[S][i].dir
                      \/ \E s \in Side : InFlight(s, ClosePacket(i))
    BY Ends DEF EndsAgree
  <2>1. /\ chan[C][i].type \in Types /\ chan[S][i].type \in Types
        /\ chan[C][i].dir \in {"in", "out"} /\ chan[S][i].dir \in {"in", "out"}
        /\ chan[C][i].dir # chan[S][i].dir
    BY Ends, Parity
  <2>2. PICK s \in Side : chan[s][i].dir = "in"
    BY <2>1, Ends
  <2> DEFINE t == chan[s][i].type
             O == chan[Peer(s)]
  <2>3. Flow(O, chan[s], wire[s], Up(Peer(s))) /\ t \in Types /\ O[i] # NoChannel
    BY <2>1, Ends DEF Deep, FlowsOK
  <2>4. Opening(chan[s], wire[s], 0, i, t)
    BY <2>2 DEF Opening, InTable
  <2>5. ClosedAfter(wire[s], i, 0) \/ O[i].type = t
    <3> HIDE DEF t, O
    <3> QED BY <2>3, <2>4 DEF Flow, Follows, Match
  <2>6. ClosedAfter(wire[s], i, 0) => InFlight(s, ClosePacket(i))
    BY Sent DEF ClosedAfter
  <2> QED BY <2>1, <2>5, <2>6, Ends
<1> QED BY InitOK, StepOK, InitDeep, StepDeep, <1>1, PTL DEF Spec

\* While both sockets are up, no end keeps a channel in ConnectionPrivate's
\* table that the other end neither has nor will have, or is told to drop.
THEOREM NoneForgotten == Spec => []NoOrphanChannel
<1>1. IInv /\ Deep => NoOrphanChannel
  <2> SUFFICES ASSUME IInv, Deep, Live, NEW s \in Side, NEW i \in Ids,
                      chan[s][i] # NoChannel, chan[Peer(s)][i] = NoChannel
               PROVE  \/ InFlight(s, ClosePacket(i))
                      \/ /\ chan[s][i].dir = "out" /\ ~chan[s][i].opened
                         /\ InFlight(Peer(s), OpenPacket(i, chan[s][i].type))
    BY DEF NoOrphanChannel
  <2>1. chan[s][i].type \in Types /\ chan[s][i].dir \in {"in", "out"}
    BY Parity
  <2>2. Peer(s) \in Side /\ Peer(Peer(s)) = s /\ Up(Peer(s))
    BY Ends DEF Live, Up
  <2>3. chan[Peer(s)][i].dir = "none"
    BY DEF NoChannel
  <2>4. CASE chan[s][i].dir = "in"
    <3> DEFINE t == chan[s][i].type
    <3>1. Flow(chan[Peer(s)], chan[s], wire[s], Up(Peer(s)))
      BY <2>2 DEF Deep, FlowsOK
    <3>2. Opening(chan[s], wire[s], 0, i, t) /\ t \in Types
      BY <2>1, <2>4 DEF Opening, InTable
    <3>3. ClosedAfter(wire[s], i, 0)
      <4> HIDE DEF t
      <4> QED BY <2>2, <2>3, <3>1, <3>2 DEF Flow, Follows, Match
    <3> QED BY <3>3, Sent DEF ClosedAfter
  <2>5. CASE chan[s][i].dir = "out"
    <3>1. Mirror(chan[s], chan[Peer(s)], wire[Peer(s)], wire[s])
      BY <2>2 DEF Deep, MirrorsOK
    <3>2. Backed(chan[s], chan[Peer(s)], wire[Peer(s)], wire[s], i)
      BY <2>5, <3>1 DEF Mirror
    <3>3. CASE \E n \in DOMAIN wire[s] : wire[s][n] = ClosePacket(i)
      BY <3>3, Sent
    <3>4. CASE /\ ~chan[s][i].opened
               /\ \E n \in DOMAIN wire[Peer(s)] : wire[Peer(s)][n] = OpenPacket(i, chan[s][i].type)
      BY <2>2, <2>5, <3>4, Sent
    <3> QED BY <2>3, <3>2, <3>3, <3>4 DEF Backed
  <2> QED BY <2>1, <2>4, <2>5
<1> QED BY InitOK, StepOK, InitDeep, StepDeep, <1>1, PTL DEF Spec

\* Between two peers that run this code no ChannelResult refuses a channel:
\* the rules of the channel types at the opener are never looser than those
\* the reader applies when the OpenChannel arrives.
THEOREM NothingIsRefused == Spec => []NeverRefused
<1>1. IInv /\ Deep => NeverRefused
  <2> SUFFICES ASSUME IInv, Deep, NEW s \in Side, NEW n \in 1..Len(wire[s]),
                      wire[s][n].kind = "result", ~wire[s][n].opened
               PROVE  FALSE
    BY DEF NeverRefused
  <2>1. wire[s] \in Seq(Packet)
    BY DEF IInv, WiresOK
  <2>2. n \in DOMAIN wire[s]
    BY <2>1
  <2>3. Fit(s, wire[s][n], Known)
    BY <2>2 DEF Deep, PacketsFit
  <2> QED BY <2>3 DEF Fit
<1> QED BY InitOK, StepOK, InitDeep, StepDeep, <1>1, PTL DEF Spec

\* No packet that a peer running this code sends is one for which the reader
\* closes the channel or the connection: ControlChannel and the channel types
\* find a valid identifier, and data of the kind and the way of its channel.
THEOREM NobodyMisspeaks == Spec => []NoProtocolError
<1>1. IInv /\ Deep => NoProtocolError
  <2> SUFFICES ASSUME IInv, Deep, NEW s \in Side, wire[s] # << >>
               PROVE  LET p == Head(wire[s])
                          c == chan[s][p.id] IN
                      /\ p.kind = "open" => ValidInboundId(s, p.id)
                      /\ p.kind = "data" =>
                           CASE c.type = "none" -> TRUE
                             [] c.type = "auth" ->
                                  p.body \in IF c.dir = "in" THEN {"proof"} ELSE {"known", "unknown"}
                             [] c.type = "request" -> c.dir = "out" /\ p.body \in Responses
                             [] OTHER -> p.body = IF c.dir = "in" THEN "message" ELSE "ack"
    BY DEF NoProtocolError
  <2> DEFINE p == Head(wire[s])
             c == chan[s][p.id]
  <2>1. sock[s] # "closed"
    BY DEF Deep, ClosedOK
  <2>2. p.kind = "open" => ValidInboundId(s, p.id)
    BY <2>1, OpenAtHead DEF Reads
  <2>3. ASSUME p.kind = "data"
        PROVE  CASE c.type = "none" -> TRUE
                 [] c.type = "auth" ->
                      p.body \in IF c.dir = "in" THEN {"proof"} ELSE {"known", "unknown"}
                 [] c.type = "request" -> c.dir = "out" /\ p.body \in Responses
                 [] OTHER -> p.body = IF c.dir = "in" THEN "message" ELSE "ack"
    <3>1. /\ p.id \in Ids
          /\ c.type = "auth" =>
               /\ (s = S <=> c.dir = "in")
               /\ p.body \in IF s = S THEN {"proof"} ELSE {"known", "unknown"}
          /\ c.type = "request" => c.dir = "out" /\ p.body \in {"Accepted", "Rejected"}
          /\ c.type \in Chats => p.body = IF c.dir = "in" THEN "message" ELSE "ack"
      BY <2>1, <2>3, DataAtHead DEF Reads
    <3>2. c.type \in {"none", "auth", "request"} \cup Chats
      <4>1. c \in Channel \cup {NoChannel}
        BY <3>1 DEF IInv, TablesOK
      <4> HIDE DEF c
      <4> QED BY <4>1 DEF Channel, NoChannel, Types, Chats
    <3> HIDE DEF p, c
    <3> QED BY <3>1, <3>2 DEF Chats, Responses
  <2> QED BY <2>2, <2>3
<1> QED BY InitOK, StepOK, InitDeep, StepDeep, <1>1, PTL DEF Spec

=============================================================================
