-------------------------- MODULE ConnectionProofs --------------------------
(***************************************************************************)
(* Safety of one connection for every number of channel identifiers, every *)
(* use of the channel types and every state of the two contact lists.      *)
(*                                                                         *)
(* The inductive invariant IInv is a typing of the connection by direction *)
(* and trust: which packets can be on their way to which side, which       *)
(* channels a side's table can hold, and that no packet on its way to the  *)
(* client says "you are my contact" before the server's own purpose does.  *)
(***************************************************************************)
EXTENDS Connection, SequenceTheorems, TLAPS

\* The server has made the connection a contact's.
Trusted == purpose["server"] = "KnownContact"

\* The packets that say so to the client.
ToClient(trusted) ==
       [kind : {"version"}, ok : BOOLEAN]
  \cup [kind : {"open"}, id : Ids, type : {"chat", "file"}]
  \cup [kind : {"result"}, id : Ids, opened : BOOLEAN,
        response : {"none", "Pending", "Rejected", "Error"}
                     \cup (IF trusted THEN {"Accepted"} ELSE {})]
  \cup [kind : {"close"}, id : Ids \cup {Control}]
  \cup [kind : {"data"}, id : Ids,
        body : {"unknown", "message", "ack", "Pending", "Rejected", "Error"}
                 \cup (IF trusted THEN {"known", "Accepted"} ELSE {})]

ToServer ==
       [kind : {"intro"}, ok : BOOLEAN]
  \cup [kind : {"open"}, id : Ids, type : Types]
  \cup [kind : {"result"}, id : Ids, opened : BOOLEAN,
        response : Responses \cup {"none"}]
  \cup [kind : {"close"}, id : Ids \cup {Control}]
  \cup [kind : {"data"}, id : Ids, body : {"proof", "message", "ack"}]

To(s, trusted) == IF s = "client" THEN ToClient(trusted) ELSE ToServer

\* Only the client opens authentication and contact request channels, and a
\* side opens the identifiers of its own parity.
ChannelOf(s, i) ==
  {c \in Channel : /\ c.type \in {"auth", "request"} => (c.dir = "out" <=> s = "client")
                   /\ c.dir = "out" <=> OwnParity(s, i)}

PlainOK ==
  /\ sock \in [Side -> {"connected", "closing", "closed"}]
  /\ handshake \in [Side -> BOOLEAN]
  /\ purpose \in [Side -> Purposes]
  /\ auth \in [Side -> SUBSET Grants]
  /\ nextId \in [Side -> Int]
  /\ queued \in [Side -> SUBSET {"onConnected", "closeRequest"}]
  /\ contact \in [Side -> {"none", "blocked", "request", "contact", "refused"}]
TablesOK ==
  /\ chan \in [Side -> [Ids -> Channel \cup {NoChannel}]]
  /\ \A s \in Side, i \in Ids : chan[s][i] \in ChannelOf(s, i) \cup {NoChannel}
WiresOK ==
  /\ wire \in [Side -> Seq(Packet)]
  /\ \A s \in Side : wire[s] \in Seq(To(s, Trusted))
TrustOK ==
  /\ purpose["client"] # "InboundRequest" /\ purpose["server"] # "OutboundRequest"
  /\ TrustIsMutual

IInv == PlainOK /\ TablesOK /\ WiresOK /\ TrustOK

-----------------------------------------------------------------------------
\* Facts about sides, packets and channels.

LEMMA Sides ==
  ASSUME NEW s \in Side
  PROVE  /\ Peer(s) \in Side /\ Peer(s) # s
         /\ Side = {s, Peer(s)}
BY DEF Side, Peer

LEMMA IdsAreIntegers == Ids \subseteq Int /\ Control \notin Ids
BY MaxIdAssumption DEF Ids, Control

LEMMA PacketsTo ==
  ASSUME NEW s \in Side, NEW t \in BOOLEAN
  PROVE  To(s, t) \subseteq Packet
BY DEF To, ToClient, ToServer, Packet, Types, Responses, Bodies

\* Trust only adds packets.
LEMMA TrustGrows ==
  ASSUME NEW s \in Side, NEW t \in BOOLEAN, NEW u \in BOOLEAN, t => u
  PROVE  To(s, t) \subseteq To(s, u)
BY DEF To, ToClient

\* What the head of the wire can be, by its kind.
LEMMA HeadFacts ==
  ASSUME WiresOK, NEW s \in Side, wire[s] # << >>
  PROVE  /\ Trusted \in BOOLEAN
         /\ Head(wire[s]) \in To(s, Trusted)
         /\ Tail(wire[s]) \in Seq(To(s, Trusted))
<1>1. wire[s] \in Seq(To(s, Trusted))
  BY DEF WiresOK
<1>2. Trusted \in BOOLEAN
  BY DEF Trusted
<1> QED BY <1>1, <1>2, HeadTailProperties

LEMMA PacketFields ==
  ASSUME NEW s \in Side, NEW t \in BOOLEAN, NEW p \in To(s, t)
  PROVE  /\ p.kind = "intro" => s = "server" /\ p.ok \in BOOLEAN
         /\ p.kind = "version" => s = "client" /\ p.ok \in BOOLEAN
         /\ p.kind = "open" => /\ p.id \in Ids /\ p.type \in Types
                               /\ s = "client" => p.type \in {"chat", "file"}
         /\ p.kind = "result" => /\ p.id \in Ids /\ p.opened \in BOOLEAN
                                 /\ p.response \in Responses \cup {"none"}
                                 /\ s = "client" /\ p.response = "Accepted" => t
         /\ p.kind = "close" => p.id \in Ids \cup {Control}
         /\ p.kind = "data" =>
              /\ p.id \in Ids
              /\ s = "client" => /\ p.body # "proof"
                                 /\ p.body \in {"known", "Accepted"} => t
              /\ s = "server" => p.body \in {"proof", "message", "ack"}
<1>1. CASE s = "client"
  BY <1>1 DEF To, ToClient, Types, Responses
<1>2. CASE s = "server"
  BY <1>2 DEF To, ToServer, Types, Responses
<1> QED BY <1>1, <1>2 DEF Side

\* A close may be sent to either side at any time.
LEMMA CloseFits ==
  ASSUME NEW s, NEW t, NEW i \in Ids \cup {Control}
  PROVE  ClosePacket(i) \in To(s, t)
BY DEF ClosePacket, To, ToClient, ToServer

\* A step that leaves s the unread packets x and its peer y keeps the wires
\* well typed when x and y are.
LEMMA UpdateKeepsWires ==
  ASSUME WiresOK, NEW s \in Side,
         NEW x \in Seq(To(s, Trusted')), NEW y \in Seq(To(Peer(s), Trusted')),
         wire' = [[wire EXCEPT ![s] = x] EXCEPT ![Peer(s)] = y]
  PROVE  WiresOK'
<1>1. Peer(s) \in Side /\ Peer(s) # s /\ Side = {s, Peer(s)}
  BY Sides
<1>2. x \in Seq(Packet) /\ y \in Seq(Packet)
  BY <1>1, PacketsTo, SeqMonotonic DEF Trusted
<1>3. wire' \in [Side -> Seq(Packet)] /\ wire'[s] = x /\ wire'[Peer(s)] = y
  BY <1>1, <1>2 DEF WiresOK
<1> QED BY <1>1, <1>3 DEF WiresOK

\* What is already on a wire stays well typed while trust does not decrease.
LEMMA WiresStay ==
  ASSUME WiresOK, Trusted => Trusted', NEW s \in Side
  PROVE  /\ wire[s] \in Seq(To(s, Trusted'))
         /\ wire[s] # << >> => Tail(wire[s]) \in Seq(To(s, Trusted'))
<1>1. To(s, Trusted) \subseteq To(s, Trusted')
  BY TrustGrows DEF Trusted
<1>2. wire[s] \in Seq(To(s, Trusted'))
  BY <1>1, SeqMonotonic DEF WiresOK
<1> QED BY <1>2, HeadTailProperties

\* Writing packets fit for the peer, with or without reading one.
LEMMA WriteKeepsWires ==
  ASSUME WiresOK, NEW s \in Side, NEW ps \in Seq(To(Peer(s), Trusted')),
         Trusted => Trusted',
         \/ Send(s, ps)
         \/ wire[s] # << >> /\ Reply(s, ps)
  PROVE  WiresOK'
<1> DEFINE y == wire[Peer(s)] \o Written(s, ps)
<1>1. Peer(s) \in Side /\ Peer(s) # s
  BY Sides
<1>2. Written(s, ps) \in Seq(To(Peer(s), Trusted'))
  BY EmptySeq DEF Written
<1>3. y \in Seq(To(Peer(s), Trusted'))
  BY <1>1, <1>2, WiresStay, ConcatProperties
<1>4. wire \in [Side -> Seq(Packet)]
  BY DEF WiresOK
<1>5. CASE Send(s, ps)
  <2>1. wire' = [[wire EXCEPT ![s] = wire[s]] EXCEPT ![Peer(s)] = y]
    BY <1>1, <1>4, <1>5 DEF Send
  <2> QED BY <1>3, <2>1, WiresStay, UpdateKeepsWires
<1>6. CASE wire[s] # << >> /\ Reply(s, ps)
  <2>1. wire' = [[wire EXCEPT ![s] = Tail(wire[s])] EXCEPT ![Peer(s)] = y]
    BY <1>1, <1>4, <1>6 DEF Reply
  <2> QED BY <1>3, <1>6, <2>1, WiresStay, UpdateKeepsWires
<1> QED BY <1>5, <1>6

\* Losing what a side has still to read keeps the wires well typed.
LEMMA LossKeepsWires ==
  ASSUME WiresOK, NEW s \in Side, Trusted' = Trusted,
         wire' = [wire EXCEPT ![s] = << >>]
  PROVE  WiresOK'
<1>1. \A q \in Side : wire'[q] = IF q = s THEN << >> ELSE wire[q]
  BY DEF WiresOK
<1>2. wire' \in [Side -> Seq(Packet)]
  BY EmptySeq DEF WiresOK
<1> QED BY <1>1, <1>2, EmptySeq DEF WiresOK

-----------------------------------------------------------------------------
\* Facts about the channel tables.

\* An entry that is emptied or replaced by a channel the side may hold.
LEMMA EntryKeepsTables ==
  ASSUME TablesOK, NEW s \in Side, NEW i \in Ids,
         NEW c \in ChannelOf(s, i) \cup {NoChannel},
         chan' = [chan EXCEPT ![s][i] = c]
  PROVE  TablesOK'
<1>1. c \in Channel \cup {NoChannel}
  BY DEF ChannelOf
<1>2. chan' \in [Side -> [Ids -> Channel \cup {NoChannel}]]
  BY <1>1 DEF TablesOK
<1>3. \A q \in Side, j \in Ids :
        chan'[q][j] = IF q = s /\ j = i THEN c ELSE chan[q][j]
  BY DEF TablesOK
<1> QED BY <1>2, <1>3 DEF TablesOK

LEMMA EmptyTable ==
  ASSUME TablesOK, NEW s \in Side, chan' = [chan EXCEPT ![s] = NoChannels]
  PROVE  TablesOK'
<1>1. \A q \in Side, j \in Ids :
        chan'[q][j] = IF q = s THEN NoChannel ELSE chan[q][j]
  BY DEF TablesOK, NoChannels
<1>2. chan' \in [Side -> [Ids -> Channel \cup {NoChannel}]]
  BY DEF TablesOK, NoChannels
<1> QED BY <1>1, <1>2 DEF TablesOK

LEMMA ChannelFields ==
  ASSUME TablesOK, NEW s \in Side, NEW i \in Ids, chan[s][i] # NoChannel
  PROVE  /\ chan[s][i] \in ChannelOf(s, i)
         /\ chan[s][i].type \in Types
         /\ [chan[s][i] EXCEPT !.opened = TRUE] \in ChannelOf(s, i)
<1>1. chan[s][i] \in ChannelOf(s, i)
  BY DEF TablesOK
<1> QED BY <1>1 DEF ChannelOf, Channel, Types

\* The search for an outbound identifier stays within the identifiers.
LEMMA SearchInIds ==
  ASSUME nextId \in [Side -> Int], NEW s \in Side
  PROVE  SearchEnds(s) \subseteq Ids
<1>1. MinOutbound(s) \in Ids /\ MaxOutbound(s) \in Ids
  BY MaxIdAssumption DEF MinOutbound, MaxOutbound, Ids
<1>2. SearchStart(s) \in Ids /\ SearchRange(s) \subseteq Ids
  BY <1>1, MaxIdAssumption DEF SearchStart, SearchRange, Ids
<1> QED BY <1>1, <1>2 DEF SearchEnds

\* Opening a channel the side may open, before or after reading a packet.
LEMMA OpenKeeps ==
  ASSUME PlainOK, TablesOK, WiresOK, NEW s \in Side,
         NEW t \in Types, s = "client" \/ t \in {"chat", "file"},
         NEW unread \in Seq(To(s, Trusted)),
         Trusted' = Trusted, OpenChannel(s, t, unread)
  PROVE  /\ TablesOK' /\ WiresOK'
         /\ nextId' \in [Side -> Int]
         /\ sock' \in [Side -> {"connected", "closing", "closed"}]
<1>0. Trusted \in BOOLEAN /\ Peer(s) \in Side /\ Peer(s) # s
  BY Sides DEF Trusted
<1>1. CASE SearchEnds(s) = {}
  BY <1>1, EmptyTable, LossKeepsWires DEF OpenChannel, PlainOK
<1>2. CASE SearchEnds(s) # {}
  <2>1. PICK i \in SearchEnds(s) :
          LET mine == OwnParity(s, i)
              good == mine /\ AllowOutbound(s, t) /\ sock[s] = "connected"
          IN
          /\ nextId' = [nextId EXCEPT ![s] = IF mine THEN i + 2 ELSE i]
          /\ chan' = IF good
                     THEN [chan EXCEPT ![s][i] =
                             [type |-> t, dir |-> "out", opened |-> FALSE]]
                     ELSE chan
          /\ wire' = [wire EXCEPT
                        ![s] = unread,
                        ![Peer(s)] = IF good
                                     THEN @ \o Written(s, <<OpenPacket(i, t)>>)
                                     ELSE @]
          /\ sock' = sock
    BY <1>2 DEF OpenChannel
  <2> DEFINE good == OwnParity(s, i) /\ AllowOutbound(s, t) /\ sock[s] = "connected"
             c == [type |-> t, dir |-> "out", opened |-> FALSE]
             ps == Written(s, <<OpenPacket(i, t)>>)
             y == IF good THEN wire[Peer(s)] \o ps ELSE wire[Peer(s)]
  <2>2. i \in Ids /\ i \in Int
    BY SearchInIds, IdsAreIntegers DEF PlainOK
  <2>3. good => c \in ChannelOf(s, i)
    BY DEF ChannelOf, Channel
  <2>4. TablesOK'
    <3>1. CASE good
      BY <2>1, <2>2, <2>3, <3>1, EntryKeepsTables
    <3>2. CASE ~good
      BY <2>1, <3>2 DEF TablesOK
    <3> QED BY <3>1, <3>2
  <2>5. OpenPacket(i, t) \in To(Peer(s), Trusted)
    BY <2>2 DEF OpenPacket, To, ToClient, ToServer, Peer, Side
  <2>6. ps \in Seq(To(Peer(s), Trusted))
    BY <2>5, EmptySeq DEF Written
  <2>7. y \in Seq(To(Peer(s), Trusted))
    BY <1>0, <2>6, ConcatProperties DEF WiresOK
  <2>8. wire' = [[wire EXCEPT ![s] = unread] EXCEPT ![Peer(s)] = y]
    BY <1>0, <2>1 DEF WiresOK
  <2>9. WiresOK'
    BY <2>7, <2>8, UpdateKeepsWires
  <2>10. nextId' \in [Side -> Int]
    BY <2>1, <2>2 DEF PlainOK
  <2> QED BY <2>1, <2>4, <2>9, <2>10 DEF PlainOK
<1> QED BY <1>1, <1>2

-----------------------------------------------------------------------------
\* Every action preserves the invariant: reading packets.

LEMMA IntroKeeps ==
  ASSUME IInv, NEW s \in Side, ReceiveIntro(s)
  PROVE  IInv'
<1> USE DEF IInv
<1> DEFINE p == Head(wire[s])
           ps == << [kind |-> "version", ok |-> p.ok] >>
<1>1. wire[s] # << >> /\ Trusted \in BOOLEAN /\ p \in To(s, Trusted) /\ p.kind = "intro"
  BY HeadFacts DEF ReceiveIntro, Reads
<1>2. s = "server" /\ p.ok \in BOOLEAN
  BY <1>1, PacketFields
<1>3. Trusted' = Trusted
  BY DEF ReceiveIntro, Trusted
<1>4. ps \in Seq(To(Peer(s), Trusted'))
  BY <1>2 DEF To, ToClient, Peer
<1>5. WiresOK'
  BY <1>1, <1>3, <1>4, WriteKeepsWires DEF ReceiveIntro
<1>6. PlainOK'
  BY DEF PlainOK, ReceiveIntro, CloseIf
<1> QED BY <1>5, <1>6 DEF ReceiveIntro, TablesOK, TrustOK, TrustIsMutual

LEMMA VersionKeeps ==
  ASSUME IInv, NEW s \in Side, ReceiveVersion(s)
  PROVE  IInv'
<1> USE DEF IInv
<1>1. /\ wire[s] # << >> /\ Trusted \in BOOLEAN
      /\ Head(wire[s]) \in To(s, Trusted) /\ Head(wire[s]).kind = "version"
  BY HeadFacts DEF ReceiveVersion, Reads
<1>2. s = "client"
  BY <1>1, PacketFields
<1>2a. Tail(wire[s]) \in Seq(To(s, Trusted))
  BY <1>1, HeadFacts
<1>3. Trusted' = Trusted
  BY DEF ReceiveVersion, Trusted
<1>4. CASE Head(wire[s]).ok
  <2>1. OpenChannel(s, "auth", Tail(wire[s]))
    BY <1>4 DEF ReceiveVersion
  <2>2. /\ TablesOK' /\ WiresOK' /\ nextId' \in [Side -> Int]
        /\ sock' \in [Side -> {"connected", "closing", "closed"}]
    BY <1>2, <1>2a, <1>3, <2>1, OpenKeeps DEF Types
  <2> QED BY <2>2 DEF ReceiveVersion, PlainOK, TrustOK, TrustIsMutual
<1>5. CASE ~Head(wire[s]).ok
  <2>1. WiresOK'
    BY <1>3, <1>5, LossKeepsWires DEF ReceiveVersion
  <2> QED BY <1>5, <2>1 DEF ReceiveVersion, PlainOK, TablesOK, TrustOK, TrustIsMutual
<1> QED BY <1>4, <1>5

LEMMA OpenRequestKeeps ==
  ASSUME IInv, NEW s \in Side, ReceiveOpen(s)
  PROVE  IInv'
<1> USE DEF IInv
<1> DEFINE p == Head(wire[s])
           request == p.type = "request"
           admitted == AllowInbound(s, p.type)
           response == IF ~request THEN "none"
                       ELSE IF purpose[s] = "KnownContact" THEN "Accepted"
                       ELSE IF ~admitted THEN "none"
                       ELSE IF contact[s] = "blocked" THEN "Rejected"
                       ELSE IF contact[s] = "none" THEN "Pending"
                       ELSE "Error"
           c == [type |-> p.type, dir |-> "in", opened |-> TRUE]
<1>1. wire[s] # << >> /\ Trusted \in BOOLEAN /\ p \in To(s, Trusted) /\ p.kind = "open"
  BY HeadFacts DEF ReceiveOpen, Reads
<1>2. p.id \in Ids /\ p.type \in Types /\ (s = "client" => p.type \in {"chat", "file"})
  BY <1>1, PacketFields
<1>3. CASE ~ValidInboundId(s, p.id)
  <2>1. <<ClosePacket(Control)>> \in Seq(To(Peer(s), Trusted'))
    BY CloseFits
  <2>2. UNCHANGED <<purpose, chan, queued, handshake, auth, nextId, contact>>
    BY <1>3 DEF ReceiveOpen
  <2>3. Reply(s, <<ClosePacket(Control)>>) /\ CloseIf(s, TRUE)
    BY <1>3 DEF ReceiveOpen
  <2>4. WiresOK'
    BY <1>1, <2>1, <2>2, <2>3, WriteKeepsWires DEF Trusted
  <2>5. PlainOK'
    BY <2>2, <2>3 DEF PlainOK, CloseIf
  <2> QED BY <2>2, <2>4, <2>5 DEF TablesOK, TrustOK, TrustIsMutual
<1>4. CASE ValidInboundId(s, p.id)
  <2>1. /\ Reply(s, <<ResultPacket(p.id, admitted, response)>>)
        /\ chan' = IF admitted THEN [chan EXCEPT ![s][p.id] = c] ELSE chan
        /\ purpose' = IF request /\ admitted /\ response # "Rejected"
                      THEN [purpose EXCEPT ![s] = "InboundRequest"]
                      ELSE purpose
        /\ queued' = IF admitted /\ response \in {"Rejected", "Error"}
                     THEN [queued EXCEPT ![s] = @ \cup {"closeRequest"}]
                     ELSE queued
        /\ UNCHANGED <<sock, handshake, auth, nextId, contact>>
    BY <1>4 DEF ReceiveOpen
  <2>2. request /\ admitted => s = "server" /\ purpose[s] = "Unknown"
    BY DEF AllowInbound
  <2>3. PlainOK'
    <3>1. purpose' \in [Side -> Purposes] /\ queued' \in [Side -> SUBSET {"onConnected", "closeRequest"}]
      BY <2>1 DEF PlainOK, Purposes
    <3> QED BY <2>1, <3>1 DEF PlainOK
  <2>4. TrustOK' /\ Trusted' = Trusted
    BY <2>1, <2>2 DEF TrustOK, TrustIsMutual, Trusted, PlainOK, Side
  <2>5. c \in ChannelOf(s, p.id)
    <3>1. (p.type \in {"auth", "request"}) => (c.dir = "out" <=> s = "client")
      BY <1>2
    <3>2. ~OwnParity(s, p.id)
      BY <1>2, <1>4 DEF ValidInboundId, OwnParity, Peer, Side
    <3> QED BY <1>2, <3>1, <3>2 DEF ChannelOf, Channel
  <2>6. TablesOK'
    <3>1. CASE admitted
      BY <1>2, <2>1, <2>5, <3>1, EntryKeepsTables
    <3>2. CASE ~admitted
      BY <2>1, <3>2 DEF TablesOK
    <3> QED BY <3>1, <3>2
  <2>7. ResultPacket(p.id, admitted, response) \in To(Peer(s), Trusted)
    <3>1. admitted \in BOOLEAN
      BY <1>2, PlainOK DEF AllowInbound, Types
    <3>2. s = "server" /\ response = "Accepted" => Trusted
      BY DEF Trusted
    <3>3. response \in {"none", "Pending", "Rejected", "Error", "Accepted"}
      OBVIOUS
    <3> HIDE DEF admitted, response
    <3> QED BY <1>2, <3>1, <3>2, <3>3
         DEF ResultPacket, To, ToClient, ToServer, Peer, Side, Responses
  <2>8. WiresOK'
    <3>1. <<ResultPacket(p.id, admitted, response)>> \in Seq(To(Peer(s), Trusted'))
      BY <2>4, <2>7
    <3> HIDE DEF admitted, response
    <3> QED BY <1>1, <2>1, <2>4, <3>1, WriteKeepsWires
  <2> QED BY <2>3, <2>4, <2>6, <2>8
<1> QED BY <1>3, <1>4

\* An answer to the client's contact request; "Accepted" needs the trust that
\* its packet carries.
LEMMA AnswerKeeps ==
  ASSUME IInv, NEW s \in Side, s = "client", wire[s] # << >>,
         NEW i \in Ids, chan[s][i] # NoChannel,
         NEW response \in Responses, response = "Accepted" => Trusted,
         RequestAnswered(s, i, response),
         UNCHANGED <<handshake, auth, nextId, queued>>
  PROVE  IInv'
<1> USE DEF IInv
<1> DEFINE ps == IF response = "Pending" THEN << >> ELSE <<ClosePacket(i)>>
           c == IF response = "Pending"
                THEN [chan[s][i] EXCEPT !.opened = TRUE] ELSE NoChannel
<1>1. ps \in Seq(To(Peer(s), Trusted'))
  BY CloseFits, EmptySeq
<1>2. purpose' = IF response = "Accepted"
                 THEN [purpose EXCEPT ![s] = "KnownContact"] ELSE purpose
  BY DEF RequestAnswered
<1>3. Trusted' = Trusted /\ TrustOK'
  BY <1>2 DEF Trusted, TrustOK, TrustIsMutual, PlainOK, Side
<1>4. WiresOK'
  BY <1>1, <1>3, WriteKeepsWires DEF RequestAnswered
<1>5. chan' = [chan EXCEPT ![s][i] = c]
  BY DEF RequestAnswered
<1>6. c \in ChannelOf(s, i) \cup {NoChannel}
  BY ChannelFields
<1>7. TablesOK'
  BY <1>5, <1>6, EntryKeepsTables
<1>8. PlainOK'
  <2>1. contact' \in [Side -> {"none", "blocked", "request", "contact", "refused"}]
    <3>1. CASE response = "Pending"
      BY <3>1 DEF RequestAnswered, PlainOK
    <3>2. CASE response = "Accepted"
      BY <3>2 DEF RequestAnswered, PlainOK
    <3>3. CASE response \notin {"Pending", "Accepted"}
      BY <3>3 DEF RequestAnswered, PlainOK
    <3> QED BY <3>1, <3>2, <3>3
  <2>2. purpose' \in [Side -> Purposes]
    BY <1>2 DEF PlainOK, Purposes
  <2>3. sock' \in [Side -> {"connected", "closing", "closed"}]
    BY DEF RequestAnswered, CloseIf, PlainOK
  <2> QED BY <2>1, <2>2, <2>3 DEF PlainOK
<1> QED BY <1>3, <1>4, <1>7, <1>8

LEMMA ResultKeeps ==
  ASSUME IInv, NEW s \in Side, ReceiveResult(s)
  PROVE  IInv'
<1> USE DEF IInv
<1> DEFINE p == Head(wire[s])
           c == chan[s][p.id]
           ok == p.opened /\ (c.type = "request" => p.response # "none")
<1>1. wire[s] # << >> /\ Trusted \in BOOLEAN /\ p \in To(s, Trusted) /\ p.kind = "result"
  BY HeadFacts DEF ReceiveResult, Reads
<1>2. /\ p.id \in Ids /\ p.opened \in BOOLEAN /\ p.response \in Responses \cup {"none"}
      /\ s = "client" /\ p.response = "Accepted" => Trusted
  BY <1>1, PacketFields
<1>3. UNCHANGED <<handshake, auth, nextId, queued>>
  BY DEF ReceiveResult
<1>4. CASE c.dir # "out" \/ c.opened
  <2>1. Reply(s, << >>) /\ UNCHANGED <<sock, chan, purpose, contact>>
    BY <1>4 DEF ReceiveResult
  <2>2. WiresOK'
    BY <1>1, <2>1, EmptySeq, WriteKeepsWires DEF Trusted
  <2> QED BY <1>3, <2>1, <2>2 DEF PlainOK, TablesOK, TrustOK, TrustIsMutual
<1>5. CASE ~(c.dir # "out" \/ c.opened) /\ c.type = "request" /\ p.response # "none"
  <2>1. RequestAnswered(s, p.id, p.response)
    BY <1>5 DEF ReceiveResult
  <2>2. c # NoChannel
    BY <1>5 DEF NoChannel
  <2>3. s = "client"
    BY <1>2, <1>5, <2>2, ChannelFields DEF ChannelOf
  <2> HIDE DEF c
  <2> QED BY <1>1, <1>2, <1>3, <1>5, <2>1, <2>2, <2>3, AnswerKeeps DEF c
<1>6. CASE ~(c.dir # "out" \/ c.opened) /\ ~(c.type = "request" /\ p.response # "none")
  <2> DEFINE d == IF ok THEN [c EXCEPT !.opened = TRUE] ELSE NoChannel
             ps == IF ok /\ c.type = "auth"
                   THEN <<DataPacket(p.id, "proof")>>
                   ELSE IF p.opened /\ ~ok THEN <<ClosePacket(p.id)>>
                   ELSE << >>
  <2>1. /\ Reply(s, ps)
        /\ chan' = [chan EXCEPT ![s][p.id] = d]
        /\ CloseIf(s, ~ok /\ OwnerCloses(s, c.type))
        /\ UNCHANGED <<purpose, contact>>
    BY <1>6 DEF ReceiveResult
  <2>2. c # NoChannel
    BY <1>6 DEF NoChannel
  <2>3. d \in ChannelOf(s, p.id) \cup {NoChannel}
    BY <1>2, <2>2, ChannelFields
  <2>4. TablesOK'
    BY <1>2, <2>1, <2>3, EntryKeepsTables
  <2>5. c.type = "auth" => s = "client"
    BY <1>2, <1>6, <2>2, ChannelFields DEF ChannelOf
  <2>6. c.type = "auth" => DataPacket(p.id, "proof") \in To(Peer(s), Trusted)
    BY <1>2, <2>5 DEF DataPacket, To, ToServer, Peer
  <2>7. ClosePacket(p.id) \in To(Peer(s), Trusted)
    BY <1>2, CloseFits
  <2>8. ps \in Seq(To(Peer(s), Trusted'))
    <3>1. Trusted' = Trusted
      BY <2>1 DEF Trusted
    <3>2. CASE ok /\ c.type = "auth"
      BY <2>6, <3>1, <3>2
    <3>3. CASE ~(ok /\ c.type = "auth")
      BY <2>7, <3>1, <3>3, EmptySeq
    <3> QED BY <3>2, <3>3
  <2>9. WiresOK'
    BY <1>1, <2>1, <2>8, WriteKeepsWires DEF Trusted
  <2>10. PlainOK'
    BY <1>3, <2>1 DEF PlainOK, CloseIf
  <2> QED BY <2>1, <2>4, <2>9, <2>10 DEF TrustOK, TrustIsMutual
<1> QED BY <1>4, <1>5, <1>6

LEMMA CloseKeeps ==
  ASSUME IInv, NEW s \in Side, ReceiveClose(s)
  PROVE  IInv'
<1> USE DEF IInv
<1> DEFINE i == Head(wire[s]).id
<1>1. /\ wire[s] # << >> /\ Trusted \in BOOLEAN
      /\ Head(wire[s]) \in To(s, Trusted) /\ Head(wire[s]).kind = "close"
  BY HeadFacts DEF ReceiveClose, Reads
<1>2. i \in Ids \cup {Control}
  BY <1>1, PacketFields
<1>3. UNCHANGED <<handshake, purpose, auth, nextId, queued, contact>>
  BY DEF ReceiveClose
<1>4. \E ps \in {<<ClosePacket(i)>>, << >>} : Reply(s, ps)
  BY DEF ReceiveClose
<1>5. <<ClosePacket(i)>> \in Seq(To(Peer(s), Trusted')) /\ << >> \in Seq(To(Peer(s), Trusted'))
  BY <1>2, CloseFits, EmptySeq
<1>6. WiresOK'
  BY <1>1, <1>3, <1>4, <1>5, WriteKeepsWires DEF Trusted
<1>7. PlainOK'
  BY <1>3 DEF ReceiveClose, CloseIf, PlainOK
<1>8. TablesOK'
  <2>1. CASE i = Control
    BY <2>1 DEF ReceiveClose, TablesOK
  <2>2. CASE i # Control
    BY <1>2, <2>2, EntryKeepsTables DEF ReceiveClose, Remove
  <2> QED BY <2>1, <2>2
<1> QED BY <1>3, <1>6, <1>7, <1>8 DEF TrustOK, TrustIsMutual

-----------------------------------------------------------------------------
\* Every action preserves the invariant: packets on channels.

LEMMA DataFacts ==
  ASSUME IInv, NEW s \in Side, NEW t, NEW bodies, ReadsData(s, t, bodies)
  PROVE  LET p == Head(wire[s]) IN
         /\ wire[s] # << >> /\ p.id \in Ids /\ p.body \in bodies
         /\ chan[s][p.id].type = t
         /\ s = "client" => /\ p.body # "proof"
                            /\ p.body \in {"known", "Accepted"} => Trusted
         /\ s = "server" => p.body \in {"proof", "message", "ack"}
<1>1. /\ wire[s] # << >> /\ Trusted \in BOOLEAN
      /\ Head(wire[s]) \in To(s, Trusted) /\ Head(wire[s]).kind = "data"
  BY HeadFacts DEF IInv, ReadsData, Reads
<1> QED BY <1>1, PacketFields DEF ReadsData

LEMMA StrayKeeps ==
  ASSUME IInv, NEW s \in Side, ReceiveStray(s)
  PROVE  IInv'
<1> USE DEF IInv
<1>1. wire[s] # << >> /\ Head(wire[s]).id \in Ids
  BY DataFacts DEF ReceiveStray
<1>2. <<ClosePacket(Head(wire[s]).id)>> \in Seq(To(Peer(s), Trusted'))
  BY <1>1, CloseFits
<1>3. UNCHANGED <<sock, handshake, purpose, auth, chan, nextId, queued, contact>>
  BY DEF ReceiveStray, link
<1>4. WiresOK'
  BY <1>1, <1>2, <1>3, WriteKeepsWires DEF ReceiveStray, Trusted
<1> QED BY <1>3, <1>4 DEF PlainOK, TablesOK, TrustOK, TrustIsMutual

LEMMA MessageKeeps ==
  ASSUME IInv, NEW s \in Side, ReceiveMessage(s)
  PROVE  IInv'
<1> USE DEF IInv
<1> DEFINE i == Head(wire[s]).id
<1>1. wire[s] # << >> /\ i \in Ids
  BY DataFacts DEF ReceiveMessage
<1>2. UNCHANGED <<sock, handshake, purpose, auth, nextId, queued, contact>>
  BY DEF ReceiveMessage, link
<1>3. \/ Reply(s, <<ClosePacket(i)>>)
      \/ Reply(s, <<DataPacket(i, "ack")>>)
      \/ Reply(s, << >>)
  <2> DEFINE understood == \/ Head(wire[s]).body = "message"
                           \/ Head(wire[s]).body = "ack" /\ chan[s][i].dir = "out"
  <2>1. Reply(s, IF ~understood THEN <<ClosePacket(i)>>
                 ELSE IF Head(wire[s]).body = "message" THEN <<DataPacket(i, "ack")>>
                 ELSE << >>)
    BY DEF ReceiveMessage
  <2> HIDE DEF understood, i
  <2> QED BY <2>1
<1>4. DataPacket(i, "ack") \in To(Peer(s), Trusted')
  BY <1>1 DEF DataPacket, To, ToClient, ToServer
<1>5. /\ <<ClosePacket(i)>> \in Seq(To(Peer(s), Trusted'))
      /\ <<DataPacket(i, "ack")>> \in Seq(To(Peer(s), Trusted'))
      /\ << >> \in Seq(To(Peer(s), Trusted'))
  BY <1>1, <1>4, CloseFits, EmptySeq
<1>6. WiresOK'
  BY <1>1, <1>2, <1>3, <1>5, WriteKeepsWires DEF Trusted
<1>7. TablesOK'
  <2>1. CASE UNCHANGED chan
    BY <2>1 DEF TablesOK
  <2>2. CASE Remove(s, i)
    BY <1>1, <2>2, EntryKeepsTables DEF Remove
  <2> QED BY <2>1, <2>2 DEF ReceiveMessage
<1> QED BY <1>2, <1>6, <1>7 DEF PlainOK, TrustOK, TrustIsMutual

\* Handing a connection of the server to its contact only adds trust.
LEMMA AssignedFacts ==
  ASSUME PlainOK, NEW s \in Side, NEW wins \in BOOLEAN, Assigned(s, wins)
  PROVE  /\ sock' \in [Side -> {"connected", "closing", "closed"}]
         /\ purpose' \in [Side -> Purposes]
         /\ queued' \in [Side -> SUBSET {"onConnected", "closeRequest"}]
         /\ purpose' = IF wins THEN [purpose EXCEPT ![s] = "KnownContact"] ELSE purpose
         /\ Trusted => Trusted'
<1>1. purpose' = IF wins THEN [purpose EXCEPT ![s] = "KnownContact"] ELSE purpose
  BY DEF Assigned
<1>2. sock' \in [Side -> {"connected", "closing", "closed"}]
  BY DEF PlainOK, Assigned, CloseIf
<1>3. queued' \in [Side -> SUBSET {"onConnected", "closeRequest"}]
  BY DEF PlainOK, Assigned
<1> QED BY <1>1, <1>2, <1>3 DEF PlainOK, Purposes, Trusted, Side

LEMMA ProofKeeps ==
  ASSUME IInv, NEW s \in Side, ReceiveProof(s)
  PROVE  IInv'
<1> USE DEF IInv
<1> DEFINE i == Head(wire[s]).id
           known == contact[s] \in {"contact", "request", "refused"}
           live == sock[s] = "connected"
<1>1. s = "server" /\ wire[s] # << >> /\ i \in Ids
  BY DataFacts DEF ReceiveProof, Side
<1>2. /\ auth' = [auth EXCEPT ![s] = @ \cup {"HiddenServiceAuth"}]
      /\ Remove(s, i)
      /\ UNCHANGED <<handshake, nextId>>
  BY DEF ReceiveProof
<1>3. PICK wins \in BOOLEAN :
        /\ ~(known /\ live) => wins = FALSE
        /\ IF known /\ live
           THEN Assigned(s, wins)
           ELSE UNCHANGED <<sock, purpose, queued>>
        /\ contact' = IF wins THEN [contact EXCEPT ![s] = "contact"] ELSE contact
        /\ Reply(s, IF known /\ ~wins THEN << >>
                    ELSE <<DataPacket(i, IF wins THEN "known" ELSE "unknown"),
                           ClosePacket(i)>>)
  BY DEF ReceiveProof
<1>4. /\ sock' \in [Side -> {"connected", "closing", "closed"}]
      /\ purpose' \in [Side -> Purposes]
      /\ queued' \in [Side -> SUBSET {"onConnected", "closeRequest"}]
      /\ purpose' = IF wins THEN [purpose EXCEPT ![s] = "KnownContact"] ELSE purpose
      /\ Trusted => Trusted'
  BY <1>3, AssignedFacts DEF PlainOK, Trusted
<1>5. wins => Trusted'
  BY <1>1, <1>4 DEF PlainOK, Trusted
<1>6. PlainOK'
  BY <1>2, <1>3, <1>4 DEF PlainOK, Grants
<1>7. TablesOK'
  BY <1>1, <1>2, EntryKeepsTables DEF Remove
<1>8. TrustOK'
  BY <1>1, <1>4 DEF TrustOK, TrustIsMutual, PlainOK, Side
<1>9. DataPacket(i, IF wins THEN "known" ELSE "unknown") \in To(Peer(s), Trusted')
  BY <1>1, <1>5 DEF DataPacket, To, ToClient, Peer
<1>10. <<DataPacket(i, IF wins THEN "known" ELSE "unknown"), ClosePacket(i)>>
         \in Seq(To(Peer(s), Trusted'))
  BY <1>1, <1>9, CloseFits
<1>11. << >> \in Seq(To(Peer(s), Trusted'))
  BY EmptySeq
<1>12. WiresOK'
  BY <1>1, <1>3, <1>4, <1>10, <1>11, WriteKeepsWires
<1> QED BY <1>6, <1>7, <1>8, <1>12

LEMMA AuthResultKeeps ==
  ASSUME IInv, NEW s \in Side, ReceiveAuthResult(s)
  PROVE  IInv'
<1> USE DEF IInv
<1> DEFINE i == Head(wire[s]).id
           known == Head(wire[s]).body = "known"
           live == sock[s] = "connected"
<1>1. s = "client" /\ wire[s] # << >> /\ i \in Ids /\ (known => Trusted)
  BY DataFacts DEF ReceiveAuthResult, Side
<1>2. /\ auth' = IF known THEN [auth EXCEPT ![s] = @ \cup {"KnownToPeer"}] ELSE auth
      /\ Reply(s, <<ClosePacket(i)>>)
      /\ Remove(s, i)
      /\ UNCHANGED <<handshake, nextId>>
  BY DEF ReceiveAuthResult
<1>3. /\ sock' \in [Side -> {"connected", "closing", "closed"}]
      /\ queued' \in [Side -> SUBSET {"onConnected", "closeRequest"}]
      /\ contact' \in [Side -> {"none", "blocked", "request", "contact", "refused"}]
      /\ \/ purpose' = purpose
         \/ known /\ purpose' = [purpose EXCEPT ![s] = "KnownContact"]
         \/ purpose' = [purpose EXCEPT ![s] = "OutboundRequest"]
  <2>1. CASE /\ live /\ known
             /\ \E wins \in BOOLEAN : Assigned(s, wins)
             /\ contact' = [contact EXCEPT ![s] = "contact"]
    BY <2>1, AssignedFacts DEF PlainOK
  <2>2. CASE /\ live /\ ~known /\ contact[s] = "request"
             /\ \E wins \in BOOLEAN :
                  /\ CloseIf(s, ~wins)
                  /\ purpose' = IF wins
                                THEN [purpose EXCEPT ![s] = "OutboundRequest"]
                                ELSE purpose
                  /\ queued' = IF wins
                               THEN [queued EXCEPT ![s] = @ \cup {"onConnected"}]
                               ELSE queued
             /\ UNCHANGED contact
    BY <2>2 DEF PlainOK, CloseIf
  <2>3. CASE /\ CloseIf(s, TRUE)
             /\ UNCHANGED <<purpose, queued, contact>>
    BY <2>3 DEF PlainOK, CloseIf
  <2> QED BY <2>1, <2>2, <2>3 DEF ReceiveAuthResult
<1>4. Trusted' = Trusted /\ TrustOK'
  BY <1>1, <1>3 DEF TrustOK, TrustIsMutual, PlainOK, Trusted, Side
<1>5. PlainOK'
  BY <1>2, <1>3 DEF PlainOK, Grants, Purposes
<1>6. TablesOK'
  BY <1>1, <1>2, EntryKeepsTables DEF Remove
<1>7. <<ClosePacket(i)>> \in Seq(To(Peer(s), Trusted'))
  BY <1>1, CloseFits
<1>8. WiresOK'
  BY <1>1, <1>2, <1>4, <1>7, WriteKeepsWires
<1> QED BY <1>4, <1>5, <1>6, <1>8

LEMMA ResponseKeeps ==
  ASSUME IInv, NEW s \in Side, ReceiveResponse(s)
  PROVE  IInv'
<1> DEFINE i == Head(wire[s]).id
           response == Head(wire[s]).body
<1>1. /\ s = "client" /\ wire[s] # << >> /\ i \in Ids
      /\ chan[s][i].type = "request" /\ response \in Responses
      /\ response = "Accepted" => Trusted
  BY DataFacts DEF ReceiveResponse, Responses, Side
<1>2. chan[s][i] # NoChannel
  BY <1>1 DEF NoChannel
<1>3. RequestAnswered(s, i, response) /\ UNCHANGED <<handshake, auth, nextId, queued>>
  BY DEF ReceiveResponse
<1> QED BY <1>1, <1>2, <1>3, AnswerKeeps

-----------------------------------------------------------------------------
\* Every action preserves the invariant: queued calls and users.

LEMMA CloseAnsweredKeeps ==
  ASSUME IInv, NEW s \in Side, CloseAnsweredRequest(s)
  PROVE  IInv'
<1> USE DEF IInv
<1>1. /\ queued' = [queued EXCEPT ![s] = @ \ {"closeRequest"}]
      /\ UNCHANGED <<handshake, purpose, auth, nextId, contact>>
  BY DEF CloseAnsweredRequest
<1>2. TrustOK' /\ Trusted' = Trusted
  BY <1>1 DEF TrustOK, TrustIsMutual, Trusted
<1>3. CASE UNCHANGED <<sock, chan, wire>>
  BY <1>1, <1>2, <1>3 DEF PlainOK, TablesOK, WiresOK
<1>4. CASE \E i \in Ids :
             /\ chan[s][i].type = "request"
             /\ Remove(s, i)
             /\ Send(s, <<ClosePacket(i)>>)
             /\ CloseIf(s, OwnerCloses(s, "request"))
  <2>1. PICK i \in Ids : Remove(s, i) /\ Send(s, <<ClosePacket(i)>>)
    BY <1>4
  <2>2. TablesOK'
    BY <2>1, EntryKeepsTables DEF Remove
  <2>3. <<ClosePacket(i)>> \in Seq(To(Peer(s), Trusted'))
    BY CloseFits
  <2>4. WiresOK'
    BY <1>2, <2>1, <2>3, WriteKeepsWires
  <2>5. PlainOK'
    BY <1>1, <1>4 DEF PlainOK, CloseIf
  <2> QED BY <1>2, <2>2, <2>4, <2>5
<1> QED BY <1>3, <1>4 DEF CloseAnsweredRequest

LEMMA OnConnectedKeeps ==
  ASSUME IInv, NEW s \in Side, OnConnected(s)
  PROVE  IInv'
<1> USE DEF IInv
<1>1. /\ queued' = [queued EXCEPT ![s] = @ \ {"onConnected"}]
      /\ UNCHANGED <<handshake, purpose, auth, contact>>
  BY DEF OnConnected
<1>2. TrustOK' /\ Trusted' = Trusted
  BY <1>1 DEF TrustOK, TrustIsMutual, Trusted
<1>3. CASE purpose[s] = "OutboundRequest" /\ OpenChannel(s, "request", wire[s])
  <2>1. s = "client" /\ "request" \in Types
    BY <1>3 DEF TrustOK, Side, Types
  <2>2. wire[s] \in Seq(To(s, Trusted))
    BY DEF WiresOK
  <2>3. /\ TablesOK' /\ WiresOK' /\ nextId' \in [Side -> Int]
        /\ sock' \in [Side -> {"connected", "closing", "closed"}]
    BY <1>2, <1>3, <2>1, <2>2, OpenKeeps
  <2> QED BY <1>1, <1>2, <2>3 DEF PlainOK
<1>4. CASE UNCHANGED <<sock, chan, nextId, wire>>
  BY <1>1, <1>2, <1>4 DEF PlainOK, TablesOK, WiresOK
<1> QED BY <1>3, <1>4 DEF OnConnected

LEMMA OpenUserKeeps ==
  ASSUME IInv, NEW s \in Side, NEW t \in UserTypes, OpenUserChannel(s, t)
  PROVE  IInv'
<1> USE DEF IInv
<1>1. UNCHANGED <<handshake, purpose, auth, queued, contact>>
  BY DEF OpenUserChannel
<1>2. TrustOK' /\ Trusted' = Trusted
  BY <1>1 DEF TrustOK, TrustIsMutual, Trusted
<1>3. t \in {"chat", "file"} /\ t \in Types
  BY UserTypesAssumption DEF Types
<1>4. wire[s] \in Seq(To(s, Trusted))
  BY DEF WiresOK
<1>5. /\ TablesOK' /\ WiresOK' /\ nextId' \in [Side -> Int]
      /\ sock' \in [Side -> {"connected", "closing", "closed"}]
  BY <1>2, <1>3, <1>4, OpenKeeps DEF OpenUserChannel
<1> QED BY <1>1, <1>2, <1>5 DEF PlainOK

LEMMA SendKeeps ==
  ASSUME IInv, NEW s \in Side, NEW i \in Ids, SendMessage(s, i)
  PROVE  IInv'
<1> USE DEF IInv
<1>1. UNCHANGED <<sock, handshake, purpose, auth, chan, nextId, queued, contact>>
  BY DEF SendMessage, link
<1>2. DataPacket(i, "message") \in To(Peer(s), Trusted')
  BY DEF DataPacket, To, ToClient, ToServer
<1>3. << DataPacket(i, "message") >> \in Seq(To(Peer(s), Trusted'))
  BY <1>2
<1>4. Send(s, << DataPacket(i, "message") >>) /\ (Trusted => Trusted')
  BY <1>1 DEF SendMessage, Trusted
<1>5. WiresOK'
  BY <1>3, <1>4, WriteKeepsWires
<1> QED BY <1>1, <1>5 DEF PlainOK, TablesOK, TrustOK, TrustIsMutual

LEMMA CloseFileKeeps ==
  ASSUME IInv, NEW s \in Side, NEW i \in Ids, CloseFileChannel(s, i)
  PROVE  IInv'
<1> USE DEF IInv
<1>1. UNCHANGED <<sock, handshake, purpose, auth, nextId, queued, contact>>
  BY DEF CloseFileChannel, link
<1>2. <<ClosePacket(i)>> \in Seq(To(Peer(s), Trusted'))
  BY CloseFits
<1>3. WiresOK'
  BY <1>1, <1>2, WriteKeepsWires DEF CloseFileChannel, Trusted
<1>4. TablesOK'
  BY EntryKeepsTables DEF CloseFileChannel, Remove
<1> QED BY <1>1, <1>3, <1>4 DEF PlainOK, TrustOK, TrustIsMutual

LEMMA AcceptKeeps ==
  ASSUME IInv, NEW s \in Side, AcceptIncoming(s)
  PROVE  IInv'
<1> USE DEF IInv
<1>1. s = "server" /\ UNCHANGED <<handshake, auth, nextId>>
  BY DEF AcceptIncoming, TrustOK, Side
<1>2. PICK i \in Ids, wins \in BOOLEAN :
        /\ Assigned(s, wins)
        /\ contact' = [contact EXCEPT ![s] = "contact"]
        /\ Send(s, IF wins THEN <<DataPacket(i, "Accepted"), ClosePacket(i)>>
                   ELSE << >>)
        /\ Remove(s, i)
  BY DEF AcceptIncoming
<1>3. /\ sock' \in [Side -> {"connected", "closing", "closed"}]
      /\ purpose' \in [Side -> Purposes]
      /\ queued' \in [Side -> SUBSET {"onConnected", "closeRequest"}]
      /\ purpose' = IF wins THEN [purpose EXCEPT ![s] = "KnownContact"] ELSE purpose
      /\ Trusted => Trusted'
  BY <1>2, AssignedFacts
<1>4. wins => Trusted'
  BY <1>1, <1>3 DEF PlainOK, Trusted
<1>5. PlainOK'
  BY <1>1, <1>2, <1>3 DEF PlainOK
<1>6. TrustOK'
  BY <1>1, <1>3 DEF TrustOK, TrustIsMutual, PlainOK, Side
<1>7. TablesOK'
  BY <1>2, EntryKeepsTables DEF Remove
<1>8. wins => <<DataPacket(i, "Accepted"), ClosePacket(i)>> \in Seq(To(Peer(s), Trusted'))
  <2>1. wins => DataPacket(i, "Accepted") \in To(Peer(s), Trusted')
    BY <1>1, <1>4 DEF DataPacket, To, ToClient, Peer
  <2> QED BY <2>1, CloseFits
<1>9. WiresOK'
  BY <1>2, <1>3, <1>8, EmptySeq, WriteKeepsWires
<1> QED BY <1>5, <1>6, <1>7, <1>9

LEMMA RejectKeeps ==
  ASSUME IInv, NEW s \in Side, NEW block \in BOOLEAN, RejectIncoming(s, block)
  PROVE  IInv'
<1> USE DEF IInv
<1>1. s = "server" /\ UNCHANGED <<handshake, purpose, auth, nextId, queued>>
  BY DEF RejectIncoming, TrustOK, Side
<1>2. PICK i \in Ids :
        Send(s, <<DataPacket(i, "Rejected"), ClosePacket(i)>>) /\ Remove(s, i)
  BY DEF RejectIncoming
<1>3. <<DataPacket(i, "Rejected"), ClosePacket(i)>> \in Seq(To(Peer(s), Trusted'))
  <2>1. DataPacket(i, "Rejected") \in To(Peer(s), Trusted')
    BY <1>1 DEF DataPacket, To, ToClient, Peer
  <2> QED BY <2>1, CloseFits
<1>4. WiresOK'
  BY <1>1, <1>2, <1>3, WriteKeepsWires DEF Trusted
<1>5. TablesOK'
  BY <1>2, EntryKeepsTables DEF Remove
<1>6. PlainOK'
  BY <1>1 DEF RejectIncoming, PlainOK, CloseIf
<1> QED BY <1>1, <1>4, <1>5, <1>6 DEF TrustOK, TrustIsMutual

\* AddContact, Replaced and UnknownPurposeTimeout touch no channel, no packet
\* and no purpose.
LEMMA QuietKeeps ==
  ASSUME IInv, NEW s \in Side,
         AddContact(s) \/ Replaced(s) \/ UnknownPurposeTimeout(s)
  PROVE  IInv'
<1>1. UNCHANGED <<handshake, purpose, auth, chan, nextId, wire, queued>>
  BY DEF AddContact, Replaced, UnknownPurposeTimeout, link
<1>2. PlainOK'
  BY <1>1 DEF IInv, PlainOK, AddContact, Replaced, UnknownPurposeTimeout, link, CloseIf
<1> QED BY <1>1, <1>2 DEF IInv, TablesOK, WiresOK, Trusted, TrustOK, TrustIsMutual

LEMMA DisconnectedKeeps ==
  ASSUME IInv, NEW s \in Side, Disconnected(s)
  PROVE  IInv'
<1> USE DEF IInv
<1>1. TrustOK' /\ Trusted' = Trusted
  BY DEF Disconnected, TrustOK, TrustIsMutual, Trusted
<1>2. WiresOK'
  BY <1>1, LossKeepsWires DEF Disconnected
<1>3. TablesOK'
  BY EmptyTable DEF Disconnected
<1>4. PlainOK'
  BY DEF Disconnected, PlainOK
<1> QED BY <1>1, <1>2, <1>3, <1>4

-----------------------------------------------------------------------------
\* The theorems.

LEMMA InitOK == Init => IInv
<1> SUFFICES ASSUME Init PROVE IInv
  OBVIOUS
<1> USE DEF Init
<1>1. PICK ok \in BOOLEAN :
        wire = [s \in Side |-> IF s = "server"
                               THEN << [kind |-> "intro", ok |-> ok] >> ELSE << >>]
  OBVIOUS
<1>2. [kind |-> "intro", ok |-> ok] \in ToServer /\ [kind |-> "intro", ok |-> ok] \in Packet
  BY DEF ToServer, Packet
<1>3. << [kind |-> "intro", ok |-> ok] >> \in Seq(ToServer) /\ << [kind |-> "intro", ok |-> ok] >> \in Seq(Packet)
  BY <1>2
<1>4. WiresOK
  <2>1. wire \in [Side -> Seq(Packet)]
    BY <1>1, <1>3, EmptySeq
  <2>2. \A s \in Side : wire[s] \in Seq(To(s, Trusted))
    BY <1>1, <1>3, EmptySeq DEF To
  <2> QED BY <2>1, <2>2 DEF WiresOK
<1>5. PlainOK
  <2>1. PICK r \in Regards : contact = [s \in Side |-> r[s]]
    OBVIOUS
  <2>2. contact \in [Side -> {"none", "blocked", "request", "contact", "refused"}]
    BY <2>1, RegardsAssumption DEF Side
  <2> QED BY <2>2 DEF PlainOK, Side, Purposes, Grants
<1>6. TablesOK
  BY DEF TablesOK, NoChannels
<1>7. TrustOK
  BY DEF TrustOK, TrustIsMutual, Side
<1> QED BY <1>4, <1>5, <1>6, <1>7 DEF IInv

LEMMA StepOK == IInv /\ [Next]_vars => IInv'
<1> SUFFICES ASSUME IInv, [Next]_vars PROVE IInv'
  OBVIOUS
<1>1. CASE UNCHANGED vars
  BY <1>1 DEF vars, IInv, PlainOK, TablesOK, WiresOK, Trusted, TrustOK, TrustIsMutual
<1>2. CASE Next
  <2>1. PICK s \in Side :
          EventLoop(s) \/ User(s) \/ UnknownPurposeTimeout(s) \/ Replaced(s) \/ NetworkDrop(s)
    BY <1>2 DEF Next
  <2>2. CASE Receive(s)
    BY <2>2, IntroKeeps, VersionKeeps, OpenRequestKeeps, ResultKeeps, CloseKeeps,
       StrayKeeps, ProofKeeps, AuthResultKeeps, ResponseKeeps, MessageKeeps
       DEF Receive
  <2>3. CASE OnConnected(s) \/ CloseAnsweredRequest(s)
    BY <2>3, OnConnectedKeeps, CloseAnsweredKeeps
  <2>4. CASE FinishClose(s) \/ PeerGone(s) \/ NetworkDrop(s)
    BY <2>4, DisconnectedKeeps DEF FinishClose, PeerGone, NetworkDrop
  <2>5. CASE User(s)
    BY <2>5, OpenUserKeeps, SendKeeps, CloseFileKeeps, AcceptKeeps, RejectKeeps,
       QuietKeeps DEF User
  <2>6. CASE UnknownPurposeTimeout(s) \/ Replaced(s)
    BY <2>6, QuietKeeps
  <2> QED BY <2>1, <2>2, <2>3, <2>4, <2>5, <2>6 DEF EventLoop
<1> QED BY <1>1, <1>2

\* The state of a connection stays well formed: packets, channel tables,
\* purposes and grants are of the kinds ConnectionPrivate can hold.
THEOREM TypeCorrect == Spec => []TypeOK
<1>1. IInv => TypeOK
  BY DEF IInv, PlainOK, TablesOK, WiresOK, TypeOK
<1> QED BY InitOK, StepOK, <1>1, PTL DEF Spec

\* Whatever the two contact lists say, and however requests, answers, closes
\* and failures interleave, a client treats a connection as its contact's
\* (Connection::Purpose::KnownContact) only once the server does.
THEOREM MutualTrust == Spec => []TrustIsMutual
<1>1. IInv => TrustIsMutual
  BY DEF IInv, TrustOK
<1> QED BY InitOK, StepOK, <1>1, PTL DEF Spec

\* availableOutboundChannelId and isValidAvailableChannelId keep the two
\* sides' identifiers apart for every number of identifiers and channels.
THEOREM IdsApart == Spec => []OneOpener
<1>1. IInv => OneOpener
  <2> SUFFICES ASSUME IInv, NEW i \in Ids,
                      chan["client"][i] # NoChannel, chan["server"][i] # NoChannel
               PROVE  chan["client"][i].dir # chan["server"][i].dir
    BY DEF OneOpener
  <2>1. chan["client"][i] \in ChannelOf("client", i) /\ chan["server"][i] \in ChannelOf("server", i)
    BY ChannelFields DEF IInv, Side
  <2>2. OwnParity("client", i) <=> ~OwnParity("server", i)
    BY DEF OwnParity
  <2> QED BY <2>1, <2>2 DEF ChannelOf, Channel
<1> QED BY InitOK, StepOK, <1>1, PTL DEF Spec

=============================================================================
