----------------------------- MODULE Connection -----------------------------
(***************************************************************************)
(* One connection between two Ricochet peers, from the version handshake   *)
(* to the socket's end: the classes Connection, Channel, ControlChannel    *)
(* and the rules by which AuthHiddenServiceChannel, ContactRequestChannel, *)
(* ChatChannel and FileChannel open, use and close their channel.          *)
(*                                                                         *)
(* "client" is the side that dialled (Connection::ClientSide), "server"    *)
(* the side that accepted.  Each side handles one packet, one queued call  *)
(* or one user command at a time; wire[s] holds the packets on their way   *)
(* to s, in the order they were written.  Payload bytes, cookies, nicknames*)
(* and texts are abstracted to the alternatives the handlers tell apart.   *)
(***************************************************************************)
EXTENDS Integers, Sequences

CONSTANTS
  MaxId,    \* the largest channel identifier, UINT16_MAX in the code
  UserTypes, \* bound: the channel types the users make use of
  Regards,  \* bound: how the contact lists regard the other side at first
  MaxWire   \* bound: a new exchange starts only below this many packets

ASSUME MaxIdAssumption == MaxId \in Nat /\ MaxId > 1 /\ MaxId % 2 = 1
ASSUME UserTypesAssumption == UserTypes \subseteq {"chat", "file"}
ASSUME RegardsAssumption ==
  Regards \subseteq [client : {"request", "contact"},
                     server : {"none", "blocked", "request", "contact"}]
ASSUME MaxWireAssumption == MaxWire \in Nat \ {0}

Side == {"client", "server"}
Peer(s) == IF s = "client" THEN "server" ELSE "client"

Ids == 1..MaxId
Control == 0
Types == {"auth", "request", "chat", "file"}
Channel == [type : Types, dir : {"in", "out"}, opened : BOOLEAN]
NoChannel == [type |-> "none", dir |-> "none", opened |-> FALSE]
NoChannels == [i \in Ids |-> NoChannel]

Purposes == {"Unknown", "KnownContact", "OutboundRequest", "InboundRequest"}
Grants == {"HiddenServiceAuth", "KnownToPeer"}

\* What a ContactRequestChannel may answer; "none" is a result without one.
Responses == {"Pending", "Accepted", "Rejected", "Error"}
Bodies == {"proof", "known", "unknown", "message", "ack"} \cup Responses

Packet ==
       [kind : {"intro", "version"}, ok : BOOLEAN]
  \cup [kind : {"open"}, id : Ids, type : Types]
  \cup [kind : {"result"}, id : Ids, opened : BOOLEAN,
        response : Responses \cup {"none"}]
  \cup [kind : {"close"}, id : Ids \cup {Control}]
  \cup [kind : {"data"}, id : Ids, body : Bodies]

OpenPacket(i, t) == [kind |-> "open", id |-> i, type |-> t]
ResultPacket(i, ok, r) ==
  [kind |-> "result", id |-> i, opened |-> ok, response |-> r]
ClosePacket(i) == [kind |-> "close", id |-> i]
DataPacket(i, b) == [kind |-> "data", id |-> i, body |-> b]

VARIABLES
  sock,       \* state of the side's QTcpSocket
  handshake,  \* ConnectionPrivate::handshakeDone
  purpose,    \* ConnectionPrivate::purpose
  auth,       \* ConnectionPrivate::authentication, the types granted
  chan,       \* ConnectionPrivate::channels, control channel left out
  nextId,     \* ConnectionPrivate::nextOutboundChannelId
  wire,       \* packets on their way to the side
  queued,     \* calls posted to the side's event loop and not yet made
  contact     \* how the side's contact list regards the other side

link == <<sock, handshake, purpose, auth>>
vars == <<sock, handshake, purpose, auth, chan, nextId, wire, queued, contact>>

TypeOK ==
  /\ sock \in [Side -> {"connected", "closing", "closed"}]
  /\ handshake \in [Side -> BOOLEAN]
  /\ purpose \in [Side -> Purposes]
  /\ auth \in [Side -> SUBSET Grants]
  /\ chan \in [Side -> [Ids -> Channel \cup {NoChannel}]]
  /\ nextId \in [Side -> Int]
  /\ wire \in [Side -> Seq(Packet)]
  /\ queued \in [Side -> SUBSET {"onConnected", "closeRequest"}]
  /\ contact \in [Side -> {"none", "blocked", "request", "contact", "refused"}]

\* The client dials a contact or the target of its own contact request; the
\* server may know the client, have asked it to be a contact, have blocked it
\* or never have heard of it.  The client's introduction is on the wire.
Init ==
  /\ sock = [s \in Side |-> "connected"]
  /\ handshake = [s \in Side |-> FALSE]
  /\ purpose = [s \in Side |-> "Unknown"]
  /\ auth = [s \in Side |-> IF s = "client" THEN {"HiddenServiceAuth"} ELSE {}]
  /\ chan = [s \in Side |-> NoChannels]
  /\ nextId = [s \in Side |-> -1]
  /\ \E ok \in BOOLEAN :
       wire = [s \in Side |-> IF s = "server"
                              THEN << [kind |-> "intro", ok |-> ok] >> ELSE << >>]
  /\ queued = [s \in Side |-> {}]
  /\ \E r \in Regards : contact = [s \in Side |-> r[s]]

-----------------------------------------------------------------------------
\* Reading and writing.

\* ConnectionPrivate::writePacket refuses when the socket is not connected;
\* what is written to a peer that is gone reaches nobody.
Written(s, packets) ==
  IF sock[s] = "connected" /\ sock[Peer(s)] # "closed" THEN packets ELSE << >>

Send(s, packets) ==
  wire' = [wire EXCEPT ![Peer(s)] = @ \o Written(s, packets)]

\* s reads packet p of a kind.  What is left in the read buffer after a call
\* of close() is still handed to the channels, so reading goes on in "closing".
Reads(s, kind) ==
  /\ sock[s] # "closed"
  /\ wire[s] # << >>
  /\ Head(wire[s]).kind = kind

Reply(s, packets) ==
  wire' = [wire EXCEPT ![s] = Tail(@), ![Peer(s)] = @ \o Written(s, packets)]

\* Connection::close: the socket closes once what was written is flushed.
CloseIf(s, condition) ==
  sock' = IF condition /\ sock[s] = "connected"
          THEN [sock EXCEPT ![s] = "closing"] ELSE sock

\* ConnectionPrivate::socketDisconnected: closed is emitted, every channel is
\* closed, unread bytes are gone.
Disconnected(s) ==
  /\ sock' = [sock EXCEPT ![s] = "closed"]
  /\ chan' = [chan EXCEPT ![s] = NoChannels]
  /\ wire' = [wire EXCEPT ![s] = << >>]
  /\ queued' = [queued EXCEPT ![s] = {}]
  /\ UNCHANGED <<handshake, purpose, auth, nextId, contact>>

-----------------------------------------------------------------------------
\* Channel identifiers and the admission rules of the channel types.

Used(s) == {i \in Ids : chan[s][i] # NoChannel}
HasChannel(s, t) == \E i \in Ids : chan[s][i].type = t
HasChannelDir(s, t, d) ==
  \E i \in Ids : chan[s][i].type = t /\ chan[s][i].dir = d

MinOutbound(s) == IF s = "server" THEN 2 ELSE 1
MaxUnbounded(s) == IF s = "server" THEN MaxId + 1 ELSE MaxId + 2
MaxOutbound(s) == IF s = "server" THEN MaxId - 1 ELSE MaxId
AnyParity(s, i) == i \in Ids
OwnParity(s, i) == (s = "server") = (i % 2 = 0)

\* Where the search of availableOutboundChannelId may stop.  A random step
\* leads past the current identifier; past the maximum it falls back to the
\* minimum.  Only the server's step is corrected to the side's parity.
SearchRange(s) ==
  {i \in MinOutbound(s)..MaxOutbound(s) : s = "server" => OwnParity(s, i)}
SearchStart(s) ==
  IF nextId[s] < MinOutbound(s) \/ nextId[s] > MaxOutbound(s)
  THEN MinOutbound(s) ELSE nextId[s]
SearchUnchecked(s) == {SearchStart(s)}
SearchEnds(s) ==
  LET n == SearchStart(s)
      free == SearchRange(s) \ Used(s)
  IN  IF n \notin Used(s) THEN {n}
      ELSE IF MinOutbound(s) \in Used(s) THEN free
      ELSE {i \in free : i > n} \cup {MinOutbound(s)}

\* ConnectionPrivate::isValidAvailableChannelId, asked by s of an identifier
\* its peer wants to open.
ValidInboundId(s, i) == OwnParity(Peer(s), i) /\ chan[s][i] = NoChannel

AllowOutbound(s, t) ==
  CASE t = "auth" -> TRUE
    [] t = "request" -> /\ s = "client" /\ purpose[s] = "OutboundRequest"
                        /\ ~HasChannel(s, "request")
    [] OTHER -> /\ purpose[s] = "KnownContact"
                /\ ~HasChannelDir(s, t, "out")

AllowOnePerType(s, t) ==
  CASE t = "auth" -> s = "server" /\ ~HasChannel(s, "auth")
    [] t = "request" -> s = "server" /\ purpose[s] = "Unknown"
    [] OTHER -> purpose[s] = "KnownContact" /\ ~HasChannel(s, t)

AllowInbound(s, t) ==
  CASE t = "auth" -> /\ s = "server" /\ "HiddenServiceAuth" \notin auth[s]
                     /\ ~HasChannel(s, "auth")
    [] t = "request" -> /\ s = "server" /\ purpose[s] = "Unknown"
                        /\ ~HasChannel(s, "request")
                        /\ "HiddenServiceAuth" \in auth[s]
    [] OTHER -> /\ purpose[s] = "KnownContact"
                /\ ~HasChannelDir(s, t, "in")

\* Channel::openChannel and ControlChannel::sendOpenChannel: take an
\* identifier, ask the channel type, insert the channel, write the OpenChannel
\* message.  A search that ends on an identifier of the other side's parity
\* fails the open and leaves nextOutboundChannelId where it is; one that finds
\* nothing free aborts the socket; a refusal of the type, or a socket that no
\* longer takes packets, costs the identifier.  "unread" is what s has still
\* to read.
OpenChannel(s, t, unread) ==
  IF SearchEnds(s) = {}
  THEN /\ sock' = [sock EXCEPT ![s] = "closed"]
       /\ chan' = [chan EXCEPT ![s] = NoChannels]
       /\ wire' = [wire EXCEPT ![s] = << >>]
       /\ UNCHANGED nextId
  ELSE \E i \in SearchEnds(s) :
         LET mine == OwnParity(s, i)
             good == mine /\ AllowOutbound(s, t) /\ sock[s] = "connected"
         IN
         /\ nextId' = [nextId EXCEPT ![s] = IF mine THEN i + 2 ELSE i]
         /\ chan' = IF good
                    THEN [chan EXCEPT ![s][i] =
                            [type |-> t, dir |-> "out", opened |-> FALSE]]
                    ELSE chan
         /\ wire' = [wire EXCEPT
                       ![s] = unread,
                       ![Peer(s)] = IF good
                                    THEN @ \o Written(s, <<OpenPacket(i, t)>>)
                                    ELSE @]
         /\ UNCHANGED sock

Remove(s, i) == chan' = [chan EXCEPT ![s][i] = NoChannel]

\* Owners that close the connection when their channel is invalidated: the
\* OutboundConnector when authentication ends without success, the two ends
\* of a contact request while the connection serves only that request.
OwnerCloses(s, t) ==
  \/ t = "auth" /\ s = "client"
  \/ t = "request" /\ purpose[s] \in {"InboundRequest", "OutboundRequest"}

-----------------------------------------------------------------------------
\* The version handshake.

\* The server picks a version from the introduction.  Without a common one it
\* answers the failure byte and closes gracefully.
ReceiveIntro(s) ==
  /\ Reads(s, "intro")
  /\ LET ok == Head(wire[s]).ok IN
     /\ Reply(s, << [kind |-> "version", ok |-> ok] >>)
     /\ CloseIf(s, ~ok)
  /\ handshake' = [handshake EXCEPT ![s] = TRUE]
  /\ UNCHANGED <<purpose, auth, chan, nextId, queued, contact>>

\* The client learns the version: the OutboundConnector opens the
\* authentication channel at once, or aborts.
ReceiveVersion(s) ==
  /\ Reads(s, "version")
  /\ handshake' = [handshake EXCEPT ![s] = TRUE]
  /\ IF Head(wire[s]).ok
     THEN OpenChannel(s, "auth", Tail(wire[s]))
     ELSE /\ sock' = [sock EXCEPT ![s] = "closed"]
          /\ wire' = [wire EXCEPT ![s] = << >>]
          /\ UNCHANGED <<chan, nextId>>
  /\ UNCHANGED <<purpose, auth, queued, contact>>

-----------------------------------------------------------------------------
\* Opening and closing channels.

\* ControlChannel::handleOpenChannel.  An identifier that is not the peer's to
\* open closes the control channel and with it the connection.  A contact
\* request is judged by IncomingRequestManager before the result is written.
ReceiveOpen(s) ==
  /\ Reads(s, "open")
  /\ LET p == Head(wire[s])
         request == p.type = "request"
         admitted == AllowInbound(s, p.type)
         response == IF ~request THEN "none"
                     ELSE IF purpose[s] = "KnownContact" THEN "Accepted"
                     ELSE IF ~admitted THEN "none"
                     ELSE IF contact[s] = "blocked" THEN "Rejected"
                     ELSE IF contact[s] = "none" THEN "Pending"
                     ELSE "Error"
     IN  IF ~ValidInboundId(s, p.id)
         THEN /\ Reply(s, <<ClosePacket(Control)>>)
              /\ CloseIf(s, TRUE)
              /\ UNCHANGED <<purpose, chan, queued>>
         ELSE /\ Reply(s, <<ResultPacket(p.id, admitted, response)>>)
              /\ chan' = IF admitted
                         THEN [chan EXCEPT ![s][p.id] =
                                 [type |-> p.type, dir |-> "in", opened |-> TRUE]]
                         ELSE chan
              /\ purpose' = IF request /\ admitted /\ response # "Rejected"
                            THEN [purpose EXCEPT ![s] = "InboundRequest"]
                            ELSE purpose
              /\ queued' = IF admitted /\ response \in {"Rejected", "Error"}
                           THEN [queued EXCEPT ![s] = @ \cup {"closeRequest"}]
                           ELSE queued
              /\ UNCHANGED sock
  /\ UNCHANGED <<handshake, auth, nextId, contact>>

\* The queued closeChannel of a request that was answered finally at once.
CloseAnsweredRequest(s) ==
  /\ "closeRequest" \in queued[s]
  /\ queued' = [queued EXCEPT ![s] = @ \ {"closeRequest"}]
  /\ \/ \E i \in Ids :
          /\ chan[s][i].type = "request"
          /\ Remove(s, i)
          /\ Send(s, <<ClosePacket(i)>>)
          /\ CloseIf(s, OwnerCloses(s, "request"))
     \/ ~HasChannel(s, "request") /\ UNCHANGED <<sock, chan, wire>>
  /\ UNCHANGED <<handshake, purpose, auth, nextId, contact>>

AnsweredWithoutPurpose(s, i, response) ==
  /\ Reply(s, IF response = "Pending" THEN << >> ELSE <<ClosePacket(i)>>)
  /\ chan' = [chan EXCEPT ![s][i] = IF response = "Pending"
                                    THEN [@ EXCEPT !.opened = TRUE]
                                    ELSE NoChannel]
  /\ contact' = IF response = "Accepted" THEN [contact EXCEPT ![s] = "contact"]
                ELSE contact
  /\ CloseIf(s, response \in {"Rejected", "Error"})
  /\ UNCHANGED purpose

\* OutgoingContactRequest::requestStatusChanged on channel i: acceptance makes
\* the connection a contact's, a refusal closes it; both close the channel.
RequestAnswered(s, i, response) ==
  /\ Reply(s, IF response = "Pending" THEN << >> ELSE <<ClosePacket(i)>>)
  /\ chan' = [chan EXCEPT ![s][i] = IF response = "Pending"
                                    THEN [@ EXCEPT !.opened = TRUE]
                                    ELSE NoChannel]
  /\ contact' = CASE response = "Pending" -> contact
                  [] response = "Accepted" -> [contact EXCEPT ![s] = "contact"]
                  [] OTHER -> [contact EXCEPT ![s] = "refused"]
  /\ purpose' = IF response = "Accepted"
                THEN [purpose EXCEPT ![s] = "KnownContact"] ELSE purpose
  /\ CloseIf(s, response \in {"Rejected", "Error"})

\* ControlChannel::handleChannelResult and Channel::openChannelResult.
ReceiveResult(s) ==
  /\ Reads(s, "result")
  /\ LET p == Head(wire[s])
         c == chan[s][p.id]
         ok == p.opened /\ (c.type = "request" => p.response # "none")
     IN  IF c.dir # "out" \/ c.opened
         THEN /\ Reply(s, << >>)
              /\ UNCHANGED <<sock, chan, purpose, contact>>
         ELSE IF c.type = "request" /\ p.response # "none"
         THEN RequestAnswered(s, p.id, p.response)
         ELSE /\ Reply(s, IF ok /\ c.type = "auth"
                          THEN <<DataPacket(p.id, "proof")>>
                          ELSE IF p.opened /\ ~ok THEN <<ClosePacket(p.id)>>
                          ELSE << >>)
              /\ chan' = [chan EXCEPT ![s][p.id] =
                            IF ok THEN [@ EXCEPT !.opened = TRUE] ELSE NoChannel]
              /\ CloseIf(s, ~ok /\ OwnerCloses(s, c.type))
              /\ UNCHANGED <<purpose, contact>>
  /\ UNCHANGED <<handshake, auth, nextId, queued>>

\* An empty packet closes its channel.  The close is answered, and one for a
\* channel that is not there is ignored.
ReceiveClose(s) ==
  /\ Reads(s, "close")
  /\ LET i == Head(wire[s]).id IN
     IF i = Control
     THEN /\ Reply(s, <<ClosePacket(Control)>>)
          /\ CloseIf(s, TRUE)
          /\ UNCHANGED chan
     ELSE /\ Reply(s, IF i \in Used(s) THEN <<ClosePacket(i)>> ELSE << >>)
          /\ Remove(s, i)
          /\ CloseIf(s, i \in Used(s) /\ OwnerCloses(s, chan[s][i].type))
  /\ UNCHANGED <<handshake, purpose, auth, nextId, queued, contact>>

-----------------------------------------------------------------------------
\* Packets on channels.

ReadsData(s, t, bodies) ==
  /\ Reads(s, "data")
  /\ chan[s][Head(wire[s]).id].type = t
  /\ Head(wire[s]).body \in bodies

\* Data for a channel that is not there is answered with its close.
ReceiveStray(s) ==
  /\ ReadsData(s, "none", Bodies)
  /\ Reply(s, <<ClosePacket(Head(wire[s]).id)>>)
  /\ UNCHANGED <<link, chan, nextId, queued, contact>>

\* ContactUser::assignConnection, for a connection of s that is connected and
\* authenticated.  "wins" is the outcome of the race with another connection
\* to the same contact, which the connection itself does not know.
Assigned(s, wins) ==
  /\ CloseIf(s, ~wins)
  /\ purpose' = IF wins THEN [purpose EXCEPT ![s] = "KnownContact"] ELSE purpose
  /\ queued' = IF wins THEN [queued EXCEPT ![s] = @ \cup {"onConnected"}]
               ELSE queued

\* A server that tells the client it is known from its contact list, not from
\* the purpose of the connection, and hands it over only afterwards.
ProofAnsweredFromList(s) ==
  /\ ReadsData(s, "auth", {"proof"})
  /\ auth' = [auth EXCEPT ![s] = @ \cup {"HiddenServiceAuth"}]
  /\ LET i == Head(wire[s]).id
         known == contact[s] \in {"contact", "request", "refused"}
     IN  /\ Reply(s, <<DataPacket(i, IF known THEN "known" ELSE "unknown"),
                       ClosePacket(i)>>)
         /\ Remove(s, i)
         /\ IF known /\ sock[s] = "connected"
            THEN \E wins \in BOOLEAN : Assigned(s, wins)
            ELSE UNCHANGED <<sock, purpose, queued>>
  /\ UNCHANGED <<handshake, nextId, contact>>

\* AuthHiddenServiceChannel::handleProof.  The grant hands the connection of a
\* contact to its ContactUser before the result is written, and a connection
\* that loses there is closed before it.  One that wins accepts a request of the
\* server's own to this client.  The channel closes in any case.
ReceiveProof(s) ==
  /\ ReadsData(s, "auth", {"proof"})
  /\ auth' = [auth EXCEPT ![s] = @ \cup {"HiddenServiceAuth"}]
  /\ LET i == Head(wire[s]).id
         known == contact[s] \in {"contact", "request", "refused"}
         live == sock[s] = "connected"
     IN  \E wins \in BOOLEAN :
           /\ ~(known /\ live) => wins = FALSE
           /\ IF known /\ live
              THEN Assigned(s, wins)
              ELSE UNCHANGED <<sock, purpose, queued>>
           /\ contact' = IF wins THEN [contact EXCEPT ![s] = "contact"] ELSE contact
           /\ Reply(s, IF known /\ ~wins THEN << >>
                       ELSE <<DataPacket(i, IF wins THEN "known" ELSE "unknown"),
                              ClosePacket(i)>>)
           /\ Remove(s, i)
  /\ UNCHANGED <<handshake, nextId>>

\* AuthHiddenServiceChannel::handleResult, and with the channel's end the
\* OutboundConnector is ready: ContactUser assigns the connection, drops it
\* when the peer no longer knows us, or keeps it to send its contact request.
ReceiveAuthResult(s) ==
  /\ ReadsData(s, "auth", {"known", "unknown"})
  /\ LET i == Head(wire[s]).id
         known == Head(wire[s]).body = "known"
         live == sock[s] = "connected"
     IN  /\ auth' = IF known THEN [auth EXCEPT ![s] = @ \cup {"KnownToPeer"}]
                    ELSE auth
         /\ Reply(s, <<ClosePacket(i)>>)
         /\ Remove(s, i)
         /\ \/ /\ live /\ known
               /\ \E wins \in BOOLEAN : Assigned(s, wins)
               /\ contact' = [contact EXCEPT ![s] = "contact"]
            \/ /\ live /\ ~known /\ contact[s] = "request"
               /\ \E wins \in BOOLEAN :
                    /\ CloseIf(s, ~wins)
                    /\ purpose' = IF wins
                                  THEN [purpose EXCEPT ![s] = "OutboundRequest"]
                                  ELSE purpose
                    /\ queued' = IF wins
                                 THEN [queued EXCEPT ![s] = @ \cup {"onConnected"}]
                                 ELSE queued
               /\ UNCHANGED contact
            \/ /\ ~live \/ (~known /\ contact[s] # "request")
               /\ CloseIf(s, TRUE)
               /\ UNCHANGED <<purpose, queued, contact>>
  /\ UNCHANGED <<handshake, nextId>>

\* A later Response on the contact request channel.
ReceiveResponse(s) ==
  /\ ReadsData(s, "request", Responses)
  /\ RequestAnswered(s, Head(wire[s]).id, Head(wire[s]).body)
  /\ UNCHANGED <<handshake, auth, nextId, queued>>

\* Chat and file channels: a message is acknowledged on its channel, the end
\* that opened the channel takes the acknowledgement; anything else closes it.
ReceiveMessage(s) ==
  /\ \E t \in {"chat", "file"} : ReadsData(s, t, Bodies)
  /\ LET p == Head(wire[s])
         understood == p.body = "message" \/ (p.body = "ack" /\ chan[s][p.id].dir = "out")
     IN  /\ Reply(s, IF ~understood THEN <<ClosePacket(p.id)>>
                     ELSE IF p.body = "message" THEN <<DataPacket(p.id, "ack")>>
                     ELSE << >>)
         /\ IF understood THEN UNCHANGED chan ELSE Remove(s, p.id)
  /\ UNCHANGED <<link, nextId, queued, contact>>

-----------------------------------------------------------------------------
\* Queued calls, user commands, timers and the network.

\* ContactUser::onConnected: an outgoing request is sent on its connection.
\* (A contact's chat channel is opened by OpenUserChannel.)
OnConnected(s) ==
  /\ "onConnected" \in queued[s]
  /\ queued' = [queued EXCEPT ![s] = @ \ {"onConnected"}]
  /\ IF sock[s] = "connected" /\ purpose[s] = "OutboundRequest" /\ contact[s] = "request"
     THEN OpenChannel(s, "request", wire[s])
     ELSE UNCHANGED <<sock, chan, nextId, wire>>
  /\ UNCHANGED <<handshake, purpose, auth, contact>>

Room == Len(wire["client"]) + Len(wire["server"]) < MaxWire

\* ConversationModel's findOrCreateChannelForContact, on the connection of a
\* contact or of a contact request (which then refuses the channel).
OpenUserChannel(s, t) ==
  /\ sock[s] = "connected" /\ Room
  /\ purpose[s] \in {"KnownContact", "OutboundRequest"}
  /\ ~HasChannelDir(s, t, "out")
  /\ OpenChannel(s, t, wire[s])
  /\ UNCHANGED <<handshake, purpose, auth, queued, contact>>

\* A message goes out on an open outbound channel.
SendMessage(s, i) ==
  /\ sock[s] = "connected" /\ Room
  /\ chan[s][i].type \in {"chat", "file"}
  /\ chan[s][i].dir = "out" /\ chan[s][i].opened
  /\ Send(s, <<DataPacket(i, "message")>>)
  /\ UNCHANGED <<link, chan, nextId, queued, contact>>

ForgetFileChannel(s, i) ==
  /\ sock[s] = "connected" /\ Room
  /\ chan[s][i].type = "file" /\ chan[s][i].opened
  /\ Remove(s, i)
  /\ UNCHANGED <<link, nextId, wire, queued, contact>>

\* FileChannel::emitFatalError closes the file channel at either end.
CloseFileChannel(s, i) ==
  /\ sock[s] = "connected" /\ Room
  /\ chan[s][i].type = "file" /\ chan[s][i].opened
  /\ Send(s, <<ClosePacket(i)>>)
  /\ Remove(s, i)
  /\ UNCHANGED <<link, nextId, queued, contact>>

\* IncomingContactRequest::accept: the connection goes to the new contact, and
\* the final response is followed by the close of the channel.
AcceptIncoming(s) ==
  /\ sock[s] = "connected" /\ purpose[s] = "InboundRequest"
  /\ contact[s] = "none"
  /\ \E i \in Ids, wins \in BOOLEAN :
       /\ chan[s][i].type = "request"
       /\ Assigned(s, wins)
       /\ contact' = [contact EXCEPT ![s] = "contact"]
       /\ Send(s, IF wins THEN <<DataPacket(i, "Accepted"), ClosePacket(i)>>
                  ELSE << >>)
       /\ Remove(s, i)
  /\ UNCHANGED <<handshake, auth, nextId>>

\* IncomingContactRequest::reject, with or without blocking the host.
RejectIncoming(s, block) ==
  /\ sock[s] = "connected" /\ purpose[s] = "InboundRequest"
  /\ contact[s] = "none"
  /\ \E i \in Ids :
       /\ chan[s][i].type = "request"
       /\ Send(s, <<DataPacket(i, "Rejected"), ClosePacket(i)>>)
       /\ Remove(s, i)
  /\ CloseIf(s, TRUE)
  /\ contact' = IF block THEN [contact EXCEPT ![s] = "blocked"] ELSE contact
  /\ UNCHANGED <<handshake, purpose, auth, nextId, queued>>

\* The server's user asks the client to become a contact
\* (ContactsManager::createContactRequest).  With the client's own request
\* already there, OutgoingContactRequest::attemptAutoAccept accepts that one,
\* which is AcceptIncoming.
AddContact(s) ==
  /\ s = "server" /\ contact[s] = "none"
  /\ purpose[s] # "InboundRequest"
  /\ contact' = [contact EXCEPT ![s] = "request"]
  /\ UNCHANGED <<link, chan, nextId, wire, queued>>

TimeoutForDiallers(s) ==
  /\ s = "client"
  /\ sock[s] = "connected" /\ purpose[s] = "Unknown"
  /\ CloseIf(s, TRUE)
  /\ UNCHANGED <<handshake, purpose, auth, chan, nextId, wire, queued, contact>>

\* The 15 second timer of a connection that found no purpose.
UnknownPurposeTimeout(s) ==
  /\ sock[s] = "connected" /\ purpose[s] = "Unknown"
  /\ CloseIf(s, TRUE)
  /\ UNCHANGED <<handshake, purpose, auth, chan, nextId, wire, queued, contact>>

\* ContactUser::clearConnection: a newer connection takes this one's place.
Replaced(s) ==
  /\ sock[s] = "connected" /\ purpose[s] \in {"KnownContact", "OutboundRequest"}
  /\ CloseIf(s, TRUE)
  /\ UNCHANGED <<handshake, purpose, auth, chan, nextId, wire, queued, contact>>

\* Everything written is flushed, or the socket is aborted (by the 5 second timer
\* or with its Connection); the peer then loses what is not written yet, as it
\* does when its own end of the circuit fails.
FinishClose(s) == sock[s] = "closing" /\ Disconnected(s)

PeerNeverGone(s) == s \notin Side /\ Disconnected(s)

\* The end of the stream is read after everything before it.
PeerGone(s) ==
  /\ sock[s] # "closed" /\ sock[Peer(s)] = "closed" /\ wire[s] = << >>
  /\ Disconnected(s)

\* The circuit fails at any moment; what was in flight to s is lost.
NetworkDrop(s) == sock[s] = "connected" /\ Disconnected(s)

Receive(s) ==
  \/ ReceiveIntro(s) \/ ReceiveVersion(s)
  \/ ReceiveOpen(s) \/ ReceiveResult(s) \/ ReceiveClose(s)
  \/ ReceiveStray(s) \/ ReceiveProof(s) \/ ReceiveAuthResult(s)
  \/ ReceiveResponse(s) \/ ReceiveMessage(s)

EventLoop(s) ==
  \/ Receive(s) \/ OnConnected(s) \/ CloseAnsweredRequest(s)
  \/ FinishClose(s) \/ PeerGone(s)

User(s) ==
  \/ \E t \in UserTypes : OpenUserChannel(s, t)
  \/ \E i \in Ids : SendMessage(s, i) \/ CloseFileChannel(s, i)
  \/ AcceptIncoming(s) \/ AddContact(s)
  \/ \E block \in BOOLEAN : RejectIncoming(s, block)

Next ==
  \E s \in Side :
    EventLoop(s) \/ User(s) \/ UnknownPurposeTimeout(s) \/ Replaced(s) \/ NetworkDrop(s)

Spec == Init /\ [][Next]_vars

\* Qt's event loop serves every readable socket, posted call and timer; users
\* and network failures owe nothing.  The server may assume it of itself only:
\* a client may stall, and the properties that need it awake say so.
Fair(s) == WF_vars(EventLoop(s)) /\ WF_vars(UnknownPurposeTimeout(s))
FairSpec == Spec /\ Fair("server")

-----------------------------------------------------------------------------
\* What makes the connection correct.

Live == \A s \in Side : sock[s] = "connected"
InFlight(s, p) == \E n \in 1..Len(wire[s]) : wire[s][n] = p

\* The two ends never disagree about a channel they both have: Channel.cpp and
\* ControlChannel.cpp keep no common state, each end only trusts that packets
\* come in order.
EndsAgree ==
  \A i \in Ids :
    LET c == chan["client"][i]
        d == chan["server"][i]
    IN  c # NoChannel /\ d # NoChannel
          => \/ c.type = d.type /\ c.dir # d.dir
             \/ \E s \in Side : InFlight(s, ClosePacket(i))

\* An identifier that both ends have in use was opened by one of them, whatever
\* was closed and reopened meanwhile: the random search for a free identifier
\* does not leave the side's half of them.
OneOpener ==
  \A i \in Ids :
    chan["client"][i] # NoChannel /\ chan["server"][i] # NoChannel
      => chan["client"][i].dir # chan["server"][i].dir

\* A channel that only one end has is about to be created or removed at the
\* other: while both sockets are up, its OpenChannel, its ChannelResult or its
\* close is in flight.  No end waits on, or writes to, a channel for ever that
\* the other does not have.
NoOrphanChannel ==
  Live =>
    \A s \in Side, i \in Ids :
      chan[s][i] # NoChannel /\ chan[Peer(s)][i] = NoChannel
        => \/ InFlight(s, ClosePacket(i))
           \/ /\ chan[s][i].dir = "out" /\ ~chan[s][i].opened
              /\ \/ InFlight(Peer(s), OpenPacket(i, chan[s][i].type))
                 \/ \E ok \in BOOLEAN, r \in Responses \cup {"none"} :
                      InFlight(s, ResultPacket(i, ok, r))

\* No authentication, chat or file channel is ever refused between two peers
\* that run this code: when its OpenChannel is read, the reader has already
\* made the connection a contact's and dropped the previous channel of the
\* type.  This is why onConnected is queued behind the authentication result.
NeverRefused ==
  \A s \in Side : \A n \in 1..Len(wire[s]) :
    LET p == wire[s][n] IN
    p.kind = "result" /\ ~p.opened => chan[s][p.id].type \in {"request", "none"}

\* A client that treats the connection as its contact's is treated as a
\* contact by the server: purposes are set at different times on the two ends,
\* but the server's always comes first.
TrustIsMutual ==
  purpose["client"] = "KnownContact" => purpose["server"] = "KnownContact"

\* Nothing a peer running this code sends makes the other kill the connection
\* or a channel: identifiers in OpenChannel are valid when read, and data is
\* of the kind its channel carries.
NoProtocolError ==
  \A s \in Side :
    wire[s] # << >> =>
      LET p == Head(wire[s]) IN
      /\ p.kind = "open" => ValidInboundId(s, p.id)
      /\ p.kind = "data" =>
           LET c == chan[s][p.id] IN
           CASE c.type = "none" -> TRUE
             [] c.type = "auth" ->
                  p.body \in IF c.dir = "in" THEN {"proof"} ELSE {"known", "unknown"}
             [] c.type = "request" -> c.dir = "out" /\ p.body \in Responses
             [] OTHER -> p.body = IF c.dir = "in" THEN "message" ELSE "ack"

\* Every OpenChannel is answered or its channel is dropped, however the peer's
\* closes, the sockets' ends and other traffic interleave with it, when both
\* event loops run: Channel.cpp has no timeout of its own.
OpensResolve ==
  Fair("client") =>
    \A s \in Side, i \in Ids :
      (chan[s][i].dir = "out" /\ ~chan[s][i].opened)
        ~> (chan[s][i].opened \/ chan[s][i] = NoChannel)

\* A dialling peer that stalls at any point of the handshake or of its
\* authentication cannot keep a server's connection without a purpose.
StrangersLeave ==
  (purpose["server"] = "Unknown")
    ~> (purpose["server"] # "Unknown" \/ sock["server"] = "closed")

\* A contact request that the server has come to treat as a contact's
\* connection is known to be accepted at the client too, or the connection is
\* lost: the acceptance cannot be swallowed by the close that follows it.
AcceptanceArrives ==
  Fair("client") =>
    (Live /\ purpose["server"] = "KnownContact" /\ purpose["client"] = "OutboundRequest")
      ~> (purpose["client"] = "KnownContact" \/ ~Live)

=============================================================================
