---------------------------- MODULE ContactLink ----------------------------
(***************************************************************************)
(* How two users who know each other come to share one connection: the     *)
(* class ContactUser with its OutboundConnector, the outgoing and incoming *)
(* contact requests, and the races between the connections both sides dial.*)
(*                                                                         *)
(* A connection is what module Connection describes in detail.  Here its   *)
(* handshake, authentication and contact request are the strict exchange   *)
(* of packets they are, one in flight at a time, so that several of them   *)
(* can be watched at once.                                                 *)
(*                                                                         *)
(* Definitions without a comment before one that has it are that one with  *)
(* a bug, for the mutation runs.                                           *)
(***************************************************************************)
EXTENDS Naturals, Sequences

CONSTANTS
  Conns,     \* bound: the connections that can exist at a time
  NoConn,    \* no connection
  NoRequest, \* no incoming contact request
  Blocked,   \* the other is one of the rejectedHosts
  Lists,     \* bound: how the contact lists regard the other user at first
  MaxFaults, \* bound: circuits that fail and answers that come too late
  MaxMeets,  \* bound: packets read in the same turn as one that posted a call
  MaxEdits,  \* bound: changes of the users' minds
  MaxCalls   \* bound: no new connection while this many calls are pending

ASSUME BoundsAssumption == {MaxFaults, MaxMeets, MaxEdits, MaxCalls} \subseteq Nat

ASSUME ConnsAssumption == NoConn \notin Conns /\ {NoRequest, Blocked} \cap (Conns \cup {NoConn}) = {}

\* Of the two onion hostnames a's compares less.
User == {"a", "b"}
Other(u) == IF u = "a" THEN "b" ELSE "a"
OwnPreferred(u) == TRUE
PreferOutbound(u) == u = "b"

\* tego_user_type: a stranger, one who has asked, one who is blocked, a contact,
\* one we have asked and one who has refused us.
UserTypes == {"none", "requesting", "blocked", "allowed", "pending", "rejected"}

ASSUME ListsAssumption == Lists \subseteq [User -> UserTypes]

ToAcceptor == {"intro", "openAuth", "proof", "request"}
ToDialler == {"version", "authOpened", "known", "unknown", "accepted", "refused"}
Statuses == {"None", "Offline", "Online", "RequestPending", "RequestRejected"}

\* The states of an OutboundConnector at work; "Opening" is an Initializing one
\* that has its authentication channel.
Active == {"Connecting", "Initializing", "Opening", "Authenticating"}

\* A ContactUser: m_contactRequest, m_status, the state of m_outgoingSocket,
\* whether that still has the contact's hostname, and the connection it makes.
Contact == [request : {"none", "active", "rejected"}, status : Statuses,
            dialling : Active \cup {"None", "Inactive", "Error"},
            aimed : BOOLEAN, attempt : Conns \cup {NoConn}]
NoContact == [request |-> "none", status |-> "None", dialling |-> "None",
              aimed |-> FALSE, attempt |-> NoConn]

VARIABLES
  contact,  \* the user's ContactUser for the other user
  conn,     \* its m_connection
  calls,    \* the calls posted to it: onConnected and onDisconnected
  asked,    \* the user's IncomingContactRequest from the other: its connection
  dialler,  \* the user who dialled the connection
  packet,   \* what is in flight on the connection
  socket,   \* each end's socket
  purpose,  \* each end's Connection::purpose
  aged,     \* at each end: Connection::age() is more than 30 seconds
  faults,   \* failures of the network so far
  meets,    \* packets read so far while a call was pending
  edits     \* changes of the contact lists so far

network == <<dialler, packet, socket, purpose, aged>>
vars == <<contact, conn, calls, asked, network, faults, meets, edits>>

Ends(S) == [Conns -> [User -> S]]

TypeOK ==
  /\ contact \in [User -> Contact]
  /\ conn \in [User -> Conns \cup {NoConn}]
  /\ calls \in [User -> Seq({"onConnected", "onDisconnected"})]
  /\ asked \in [User -> Conns \cup {NoConn, NoRequest, Blocked}]
  /\ dialler \in [Conns -> User]
  /\ packet \in [Conns -> ToAcceptor \cup ToDialler \cup {"none"}]
  /\ socket \in Ends({"open", "closing", "closed"})
  /\ purpose \in Ends({"Unknown", "KnownContact", "OutboundRequest", "InboundRequest"})
  /\ aged \in Ends(BOOLEAN)
  /\ faults \in 0..MaxFaults
  /\ meets \in 0..MaxMeets
  /\ edits \in 0..MaxEdits

Listed(u) == contact[u] # NoContact
IsUp(u, c) == c # NoConn /\ socket[c][u] = "open"

-----------------------------------------------------------------------------
\* ContactUser, as functions of its state.

\* ContactUser::updateOutgoingSocket: dial while offline or with a request to
\* send.  An OutboundConnector that is at it already goes on, any other starts
\* from new.
OutgoingSocket(k) ==
  IF k.status \notin {"Offline", "RequestPending"}
  THEN [k EXCEPT !.dialling = "None", !.attempt = NoConn]
  ELSE IF k.dialling \in Active /\ k.aimed
  THEN k
  ELSE [k EXCEPT !.dialling = "Connecting", !.aimed = TRUE, !.attempt = NoConn]

StatusOfRequest(k, up) == IF k.request # "none" THEN k.request ELSE "Offline"
StatusOf(k, up) ==
  CASE k.request = "rejected" -> "RequestRejected"
    [] k.request = "active" -> "RequestPending"
    [] OTHER -> IF up THEN "Online"
                ELSE IF k.status = "RequestRejected" THEN k.status ELSE "Offline"

\* ContactUser::updateStatus, with m_connection connected or not: the outgoing
\* socket follows only a new status.
Updated(k, up) ==
  IF StatusOf(k, up) = k.status THEN k
  ELSE OutgoingSocket([k EXCEPT !.status = StatusOf(k, up)])

\* OutgoingContactRequest::accept: the new status is announced before the
\* request is taken away.
Accepted(k, up) ==
  Updated([Updated([k EXCEPT !.request = "active"], up) EXCEPT !.request = "none"], up)

\* A ContactUser that was just made; the constructor dials at once.
NewContact == OutgoingSocket([NoContact EXCEPT !.status = "Offline"])

\* What starts a session: contacts and requests are read from the settings.
Loaded(list) ==
  CASE list \in {"none", "requesting", "blocked"} -> NoContact
    [] list = "allowed" -> NewContact
    [] list = "rejected" -> [NoContact EXCEPT !.status = "RequestRejected"]
    [] list = "pending" -> Updated([NewContact EXCEPT !.request = "active"], FALSE)

Init ==
  /\ \E l \in Lists :
       /\ contact = [u \in User |-> Loaded(l[u])]
       /\ asked = [u \in User |-> CASE l[u] = "requesting" -> NoConn
                                  [] l[u] = "blocked" -> Blocked
                                  [] OTHER -> NoRequest]
  /\ conn = [u \in User |-> NoConn]
  /\ calls = [u \in User |-> << >>]
  /\ dialler = [c \in Conns |-> "a"]
  /\ packet = [c \in Conns |-> "none"]
  /\ socket = [c \in Conns |-> [u \in User |-> "closed"]]
  /\ purpose = [c \in Conns |-> [u \in User |-> "Unknown"]]
  /\ aged = [c \in Conns |-> [u \in User |-> FALSE]]
  /\ faults = 0
  /\ meets = 0
  /\ edits = 0

-----------------------------------------------------------------------------
\* The network.

\* u writes p on c, into the void when its own socket is not connected or the
\* other end is gone.
Put(u, c, p, open) ==
  packet' = [packet EXCEPT ![c] =
               IF open /\ socket[c][Other(u)] # "closed" THEN p ELSE "none"]

\* Connection::close for the connections S of u.
Closes(u, S) ==
  socket' = [c \in Conns |->
    [socket[c] EXCEPT ![u] = IF c \in S /\ @ = "open" THEN "closing" ELSE @]]

\* What an OutboundConnector drops is closed.
Dropped(u) == {contact[u].attempt} \ {contact'[u].attempt}

\* The packets that u, or the other, has still to read on c.
ForMe(u, c) == packet[c] \in IF dialler[c] = u THEN ToDialler ELSE ToAcceptor

Reads(u, c, p) ==
  /\ packet[c] = p
  /\ ForMe(u, c)
  /\ socket[c][u] # "closed"

\* ContactUser::assignConnection of c to u's contact in state k: what becomes
\* of the contact, which connection it holds, and which ones it trusts, sends a
\* request on or closes.
Assignment(u, c, k) ==
  LET outbound == dialler[c] = u
      known == packet[c] = "known"
      live == IsUp(u, c)
      old == conn[u]
      denied == outbound /\ k.request = "none" /\ ~known
      told == IF denied THEN OutgoingSocket(Updated(k, IsUp(u, old)))
              ELSE IF outbound /\ k.request # "none" /\ known
              THEN Accepted(k, IsUp(u, old)) ELSE k
      oldWins == /\ IsUp(u, old)
                 /\ dialler[old] # dialler[c] /\ ~aged[old][u]
                 /\ outbound # PreferOutbound(u)
      dialWins == ~outbound /\ told.dialling = "Authenticating" /\ PreferOutbound(u)
      wins == live /\ ~denied /\ ~oldWins /\ ~dialWins
      after == IF wins /\ ~outbound /\ told.request # "none"
               THEN Accepted(told, FALSE) ELSE told
      kept == ~live \/ denied \/ oldWins
  IN  [contact |-> IF live THEN after ELSE k,
       wins    |-> wins,
       conn    |-> IF kept THEN old ELSE IF wins THEN c ELSE NoConn,
       trusts  |-> (IF wins /\ ~(outbound /\ told.request # "none") THEN {c} ELSE {})
                     \cup (IF outbound /\ known /\ k.request # "none" /\ live THEN {old} ELSE {}),
       asks    |-> IF wins /\ outbound /\ told.request # "none" THEN {c} ELSE {},
       closes  |-> (IF wins THEN {} ELSE {c}) \cup (IF kept THEN {} ELSE {old})
                     \cup ({k.attempt} \ {after.attempt})]

AssignsBesides(u, a) ==
  /\ conn' = [conn EXCEPT ![u] = a.conn]
  /\ purpose' = [d \in Conns |-> [purpose[d] EXCEPT
                    ![u] = IF d \in a.trusts THEN "KnownContact"
                           ELSE IF d \in a.asks THEN "OutboundRequest" ELSE @]]
  /\ calls' = IF a.wins THEN [calls EXCEPT ![u] = Append(@, "onConnected")] ELSE calls
  /\ Closes(u, a.closes \ {conn[u]})

\* What the assignment changes besides the ContactUser itself.
Assigns(u, a) ==
  /\ conn' = [conn EXCEPT ![u] = a.conn]
  /\ purpose' = [d \in Conns |-> [purpose[d] EXCEPT
                    ![u] = IF d \in a.trusts THEN "KnownContact"
                           ELSE IF d \in a.asks THEN "OutboundRequest" ELSE @]]
  /\ calls' = IF a.wins THEN [calls EXCEPT ![u] = Append(@, "onConnected")] ELSE calls
  /\ Closes(u, a.closes)

\* A connection that nobody holds any longer can stand for a new one.
Free(c) ==
  /\ \A u \in User : socket[c][u] = "closed" /\ conn[u] # c /\ asked[u] # c
  /\ \A u \in User : contact[u].attempt # c

-----------------------------------------------------------------------------
\* A connection from dialling to its assignment.

\* OutboundConnectorPrivate::onConnected, and UserIdentity::onIncomingConnection
\* at the other end.
Establish(u, c) ==
  /\ contact[u].dialling = "Connecting" /\ contact[u].aimed
  /\ Free(c)
  /\ \A v \in User : Len(calls[v]) < MaxCalls
  /\ contact' = [contact EXCEPT ![u].dialling = "Initializing", ![u].attempt = c]
  /\ dialler' = [dialler EXCEPT ![c] = u]
  /\ packet' = [packet EXCEPT ![c] = "intro"]
  /\ socket' = [socket EXCEPT ![c] = [v \in User |-> "open"]]
  /\ purpose' = [purpose EXCEPT ![c] = [v \in User |-> "Unknown"]]
  /\ aged' = [aged EXCEPT ![c] = [v \in User |-> FALSE]]
  /\ UNCHANGED <<conn, calls, asked, faults, edits>>

\* The acceptor answers the introduction and the opening of the
\* authentication channel.
Answer(u, c) ==
  /\ \/ Reads(u, c, "intro") \/ Reads(u, c, "openAuth")
  /\ Put(u, c, IF packet[c] = "intro" THEN "version" ELSE "authOpened", IsUp(u, c))
  /\ UNCHANGED <<contact, conn, calls, asked, dialler, socket, purpose, aged, faults, edits>>

\* OutboundConnectorPrivate::setError: the attempt is dropped, to be made again
\* by a timer.
Failed(k) == [k EXCEPT !.dialling = "Error", !.attempt = NoConn]

\* OutboundConnectorPrivate::startAuthentication.
StartAuthentication(u, c) ==
  /\ Reads(u, c, "version") /\ contact[u].attempt = c
  /\ contact' = [contact EXCEPT ![u] = IF IsUp(u, c) THEN [@ EXCEPT !.dialling = "Opening"]
                                       ELSE Failed(@)]
  /\ Put(u, c, "openAuth", IsUp(u, c))
  /\ UNCHANGED <<conn, calls, asked, dialler, socket, purpose, aged, faults, edits>>

\* The channel is open and the proof is written.
Authenticate(u, c) ==
  /\ Reads(u, c, "authOpened") /\ contact[u].attempt = c
  /\ contact' = [contact EXCEPT ![u].dialling = "Authenticating"]
  /\ Put(u, c, "proof", IsUp(u, c))
  /\ UNCHANGED <<conn, calls, asked, dialler, socket, purpose, aged, faults, edits>>

AnsweredThenAssigned(u, c) ==
  /\ Reads(u, c, "proof")
  /\ IF Listed(u)
     THEN LET a == Assignment(u, c, contact[u]) IN
          /\ contact' = [contact EXCEPT ![u] = a.contact]
          /\ Assigns(u, a)
     ELSE UNCHANGED <<contact, conn, purpose, calls, socket>>
  /\ Put(u, c, IF Listed(u) THEN "known" ELSE "unknown", IsUp(u, c))
  /\ UNCHANGED <<asked, dialler, aged, faults, edits>>

\* AuthHiddenServiceChannel::handleProof by way of
\* UserIdentity::handleIncomingAuthedConnection: a contact's connection is
\* assigned before the result tells whether it is one.
HandleProof(u, c) ==
  /\ Reads(u, c, "proof")
  /\ IF Listed(u)
     THEN LET a == Assignment(u, c, contact[u]) IN
          /\ contact' = [contact EXCEPT ![u] = a.contact]
          /\ Assigns(u, a)
     ELSE UNCHANGED <<contact, conn, purpose, calls, socket>>
  /\ Put(u, c, IF purpose'[c][u] = "KnownContact" THEN "known" ELSE "unknown",
         socket'[c][u] = "open")
  /\ UNCHANGED <<asked, dialler, aged, faults, edits>>

\* AuthHiddenServiceChannel::handleResult: the connector is Ready, and gives the
\* connection away before it is assigned.
HandleResult(u, c) ==
  /\ Reads(u, c, "known") \/ Reads(u, c, "unknown")
  /\ contact[u].attempt = c
  /\ LET ready == [contact[u] EXCEPT !.dialling = "Inactive", !.attempt = NoConn]
         a == Assignment(u, c, ready)
     IN  /\ contact' = [contact EXCEPT ![u] = a.contact]
         /\ Assigns(u, a)
  /\ packet' = [packet EXCEPT ![c] = "none"]
  /\ UNCHANGED <<asked, dialler, aged, faults, edits>>

-----------------------------------------------------------------------------
\* Contact requests.

\* ContactRequestChannel::allowInboundChannelRequest and
\* IncomingRequestManager::requestReceived.  A request takes its connection
\* over from one made earlier, and keeps it even when it is refused for coming
\* from a contact.
ReceiveRequest(u, c) ==
  /\ Reads(u, c, "request")
  /\ purpose[c][u] \in {"KnownContact", "Unknown"}
  /\ LET fresh == purpose[c][u] = "Unknown"
         taken == fresh /\ asked[u] # Blocked
     IN  /\ purpose' = IF taken THEN [purpose EXCEPT ![c][u] = "InboundRequest"]
                       ELSE purpose
         /\ asked' = IF taken /\ (~Listed(u) \/ asked[u] # NoRequest)
                     THEN [asked EXCEPT ![u] = c] ELSE asked
         /\ Closes(u, IF ~taken THEN {} ELSE IF Listed(u) THEN {asked[u], c} ELSE {asked[u]})
         /\ Put(u, c, IF ~fresh THEN "accepted" ELSE IF Listed(u) \/ ~taken THEN "refused"
                      ELSE "none", IsUp(u, c))
  /\ UNCHANGED <<contact, conn, calls, dialler, aged, faults, edits>>

\* The response is to the request this ContactUser has now, not to one that went
\* with a ContactUser deleted since.
Awaited(u, c) == contact[u].request = "active" /\ conn[u] = c

\* OutgoingContactRequest::requestStatusChanged: a refused request's connection
\* is closed.
ReceiveResponse(u, c) ==
  /\ Reads(u, c, "accepted") \/ Reads(u, c, "refused")
  /\ Awaited(u, c)
  /\ LET yes == packet[c] = "accepted"
         k == contact[u]
     IN  /\ contact' = [contact EXCEPT ![u] =
               IF yes THEN Accepted(k, IsUp(u, c))
               ELSE Updated([k EXCEPT !.request = "rejected"], IsUp(u, c))]
         /\ purpose' = IF yes THEN [purpose EXCEPT ![c][u] = "KnownContact"] ELSE purpose
         /\ Closes(u, Dropped(u) \cup
                  IF purpose'[c][u] = "OutboundRequest" THEN {c} ELSE {})
  /\ packet' = [packet EXCEPT ![c] = "none"]
  /\ UNCHANGED <<conn, calls, asked, dialler, aged, faults, edits>>

\* Anything read that nobody waits for any more.
Ignore(u, c) ==
  /\ ForMe(u, c) /\ socket[c][u] # "closed"
  /\ \/ packet[c] \in {"version", "authOpened", "known", "unknown"} /\ contact[u].attempt # c
     \/ packet[c] \in {"accepted", "refused"} /\ ~Awaited(u, c)
     \/ packet[c] = "request" /\ purpose[c][u] \in {"OutboundRequest", "InboundRequest"}
  /\ packet' = [packet EXCEPT ![c] = "none"]
  /\ UNCHANGED <<contact, conn, calls, asked, dialler, socket, purpose, aged, faults, edits>>

\* IncomingContactRequest::accept for a new ContactUser k.  With its connection
\* at hand the request is answered on it and the contact is online at once.
\* "own" is what OutgoingContactRequest::attemptAutoAccept leaves: it accepts
\* the incoming request while the ContactUser does not know its own request
\* yet, and createNewRequest sets that one to Pending afterwards.
TakeRequest(u, own) ==
  LET c == asked[u]
      a == Assignment(u, c, NewContact)
      usable == c # NoConn /\ purpose[c][u] = "InboundRequest"
      up == usable /\ a.wins
      taken == Updated(IF usable THEN a.contact ELSE NewContact, up)
  IN  /\ contact' = [contact EXCEPT ![u] =
                       IF own THEN Updated([taken EXCEPT !.request = "active"], up)
                       ELSE taken]
      /\ IF usable
         THEN Assigns(u, a) /\ Put(u, c, "accepted", up)
         ELSE UNCHANGED <<conn, purpose, calls, socket, packet>>
      /\ asked' = [asked EXCEPT ![u] = NoRequest]

Asked(u) == asked[u] \notin {NoRequest, Blocked}

AcceptRequest(u) ==
  /\ Asked(u) /\ ~Listed(u)
  /\ TakeRequest(u, FALSE)
  /\ UNCHANGED <<dialler, aged, faults, edits>>

\* IncomingContactRequest::reject.
RejectRequest(u) ==
  /\ Asked(u) /\ ~Listed(u)
  /\ asked' = [asked EXCEPT ![u] = NoRequest]
  /\ IF asked[u] # NoConn
     THEN Put(u, asked[u], "refused", IsUp(u, asked[u])) /\ Closes(u, {asked[u]})
     ELSE UNCHANGED <<packet, socket>>
  /\ UNCHANGED <<contact, conn, calls, dialler, purpose, aged, faults, edits>>

\* ContactsManager::createContactRequest.
AddContact(u) ==
  /\ ~Listed(u) /\ edits < MaxEdits
  /\ edits' = edits + 1
  /\ IF Asked(u)
     THEN TakeRequest(u, TRUE)
     ELSE /\ contact' = [contact EXCEPT ![u] = Loaded("pending")]
          /\ UNCHANGED <<conn, purpose, calls, socket, packet, asked>>
  /\ UNCHANGED <<dialler, aged, faults>>

\* ContactUser::deleteContact: its connection and its attempt go with it.
DeleteContact(u) ==
  /\ Listed(u) /\ edits < MaxEdits
  /\ edits' = edits + 1
  /\ contact' = [contact EXCEPT ![u] = NoContact]
  /\ conn' = [conn EXCEPT ![u] = NoConn]
  /\ calls' = [calls EXCEPT ![u] = << >>]
  /\ Closes(u, {conn[u], contact[u].attempt})
  /\ UNCHANGED <<asked, dialler, packet, purpose, aged, faults>>

-----------------------------------------------------------------------------
\* Posted calls.

\* ContactUser::onConnected: a request is sent on its connection.
OnConnected(u) ==
  /\ calls[u] # << >> /\ Head(calls[u]) = "onConnected"
  /\ calls' = [calls EXCEPT ![u] = Tail(@)]
  /\ IF IsUp(u, conn[u])
     THEN LET c == conn[u]
              k == Updated(contact[u], TRUE)
          IN  /\ contact' = [contact EXCEPT ![u] = k]
              /\ Closes(u, Dropped(u) \cup
                           IF k.status \in {"Online", "RequestPending"} THEN {} ELSE {c})
              /\ IF k.request # "none" /\ purpose[c][u] = "OutboundRequest"
                 THEN Put(u, c, "request", TRUE) ELSE UNCHANGED packet
     ELSE UNCHANGED <<contact, socket, packet>>
  /\ UNCHANGED <<conn, asked, dialler, purpose, aged, faults, edits>>

DisconnectedQuietly(u) ==
  /\ calls[u] # << >> /\ Head(calls[u]) = "onDisconnected"
  /\ calls' = [calls EXCEPT ![u] = Tail(@)]
  /\ conn' = IF IsUp(u, conn[u]) THEN conn ELSE [conn EXCEPT ![u] = NoConn]
  /\ UNCHANGED <<contact, asked, network, faults, edits>>

\* ContactUser::onDisconnected.
OnDisconnected(u) ==
  /\ calls[u] # << >> /\ Head(calls[u]) = "onDisconnected"
  /\ calls' = [calls EXCEPT ![u] = Tail(@)]
  /\ IF IsUp(u, conn[u])
     THEN UNCHANGED <<contact, conn>>
     ELSE /\ conn' = [conn EXCEPT ![u] = NoConn]
          /\ contact' = [contact EXCEPT ![u] = Updated(@, FALSE)]
  /\ Closes(u, Dropped(u))
  /\ UNCHANGED <<asked, dialler, packet, purpose, aged, faults, edits>>

-----------------------------------------------------------------------------
\* Sockets and timers.

\* ConnectionPrivate::socketDisconnected: the closed signal is posted to the
\* ContactUser that holds the connection, and an authentication channel that
\* closes fails its OutboundConnector.  Before it exists nobody is told.
SocketDisconnected(u, c) ==
  /\ socket' = [socket EXCEPT ![c][u] = "closed"]
  /\ calls' = IF conn[u] = c THEN [calls EXCEPT ![u] = Append(@, "onDisconnected")]
              ELSE calls
  /\ asked' = IF asked[u] = c THEN [asked EXCEPT ![u] = NoConn] ELSE asked
  /\ contact' = IF contact[u].attempt = c /\ contact[u].dialling \in {"Opening", "Authenticating"}
                THEN [contact EXCEPT ![u] = Failed(@)] ELSE contact
  /\ UNCHANGED <<conn, dialler, purpose, aged, edits>>

\* What u wrote last is flushed, unless the Connection is destroyed first (nobody
\* refers to it any longer) or the 5 second timer aborts the socket.
FinishClose(u, c) ==
  /\ socket[c][u] = "closing"
  /\ SocketDisconnected(u, c)
  /\ \/ packet' = [packet EXCEPT ![c] = "none"]
     \/ ~ForMe(u, c) /\ UNCHANGED packet
  /\ UNCHANGED faults

\* The end of the stream is read after everything before it.
PeerGone(u, c) ==
  /\ socket[c][u] # "closed" /\ socket[c][Other(u)] = "closed" /\ ~ForMe(u, c)
  /\ SocketDisconnected(u, c)
  /\ UNCHANGED <<packet, faults>>

\* The circuit fails at u's end, with what was in flight to u and perhaps with
\* what u had written.
NetworkDrop(u, c) ==
  /\ socket[c][u] = "open" /\ faults < MaxFaults
  /\ faults' = faults + 1
  /\ SocketDisconnected(u, c)
  /\ \/ packet' = [packet EXCEPT ![c] = "none"]
     \/ ~ForMe(u, c) /\ UNCHANGED packet

\* A timer that fires while an answer is still under way counts as a fault of
\* the network.
InTime(c) == packet[c] = "none" /\ UNCHANGED faults
Late(c) == packet[c] # "none" /\ faults < MaxFaults /\ faults' = faults + 1

\* The 15 second timer of a connection without a purpose.
UnknownPurposeTimeout(u, c) ==
  /\ socket[c][u] = "open" /\ purpose[c][u] = "Unknown"
  /\ InTime(c) \/ Late(c)
  /\ Closes(u, {c})
  /\ UNCHANGED <<contact, conn, calls, asked, dialler, packet, purpose, aged, edits>>

\* Connection::age passes 30 seconds; with another connection on its way that
\* has been delayed.
Age(u, c) ==
  /\ conn[u] = c /\ IsUp(u, c) /\ ~aged[c][u]
  /\ aged' = [aged EXCEPT ![c][u] = TRUE]
  /\ IF \E d \in Conns \ {c} : \E v \in User : socket[d][v] # "closed"
     THEN faults < MaxFaults /\ faults' = faults + 1
     ELSE UNCHANGED faults
  /\ UNCHANGED <<contact, conn, calls, asked, dialler, packet, socket, purpose, edits>>

\* OutboundConnectorPrivate::retryAfterError, 60 seconds after setError.  It
\* gives connectToHost its own hostname by reference, which abort clears.
RetryAfterError(u) ==
  /\ contact[u].dialling = "Error"
  /\ contact' = [contact EXCEPT ![u].dialling = "Connecting", ![u].aimed = FALSE]
  /\ UNCHANGED <<conn, calls, asked, network, faults, edits>>

\* Qt makes posted calls before it waits for sockets again, so a packet is read
\* with a call pending only when it had come in together with the one whose
\* handler posted the call.
Read(u, c) ==
  /\ \/ calls[u] = << >> /\ UNCHANGED meets
     \/ calls[u] # << >> /\ meets < MaxMeets /\ meets' = meets + 1
  /\ \/ Answer(u, c) \/ StartAuthentication(u, c) \/ Authenticate(u, c)
     \/ HandleProof(u, c) \/ HandleResult(u, c)
     \/ ReceiveRequest(u, c) \/ ReceiveResponse(u, c) \/ Ignore(u, c)
Ended(u, c) == FinishClose(u, c) \/ PeerGone(u, c)
Call(u) == OnConnected(u) \/ OnDisconnected(u)
Decide(u) == AcceptRequest(u) \/ RejectRequest(u) \/ AddContact(u) \/ DeleteContact(u)

Step(u) ==
  \/ Call(u) \/ Decide(u) \/ RetryAfterError(u)
  \/ \E c \in Conns :
       \/ Establish(u, c) \/ Ended(u, c) \/ NetworkDrop(u, c)
       \/ UnknownPurposeTimeout(u, c) \/ Age(u, c)

Next ==
  \E u \in User :
    \/ Step(u) /\ UNCHANGED meets
    \/ \E c \in Conns : Read(u, c)

Spec == Init /\ [][Next]_vars

\* Event loops serve every socket, posted call and timer, and Tor brings a
\* dialled circuit up in the end.
Fairness ==
  \A u \in User :
    /\ WF_vars((Call(u) \/ RetryAfterError(u)) /\ UNCHANGED meets)
    /\ WF_vars((\E c \in Conns : Establish(u, c)) /\ UNCHANGED meets)
    /\ \A c \in Conns :
         /\ WF_vars(Read(u, c))
         /\ WF_vars(Ended(u, c) /\ UNCHANGED meets)
         /\ WF_vars(UnknownPurposeTimeout(u, c) /\ UNCHANGED <<faults, meets>>)
FairSpec == Spec /\ Fairness

-----------------------------------------------------------------------------
\* What makes it correct.

\* A connection that a user treats as the contact's is the one and only that the
\* ContactUser holds: whatever lost a race is on its way out.
OneTrusted ==
  \A u \in User, c \in Conns :
    IsUp(u, c) /\ purpose[c][u] = "KnownContact" => conn[u] = c

\* With no call pending the status shown to the user is that of the connection
\* and the request: no chain of races leaves a contact online that is not.  Nor
\* is one that is online dialled any more, even while calls are pending.
StatusIsTrue ==
  \A u \in User :
    /\ Listed(u) /\ calls[u] = << >> /\ (conn[u] = NoConn \/ IsUp(u, conn[u]))
         => contact[u].status = StatusOf(contact[u], conn[u] # NoConn)
    /\ contact[u].status = "Online" => contact[u].dialling = "None"

\* Who dialled a connection takes it for the contact's only if the other does,
\* however requests are made, answered, withdrawn and made again while
\* connections replace each other.
KnownAtBoth ==
  \A c \in Conns :
    IsUp(dialler[c], c) /\ purpose[c][dialler[c]] = "KnownContact"
      => purpose[c][Other(dialler[c])] = "KnownContact"

\* Both hold the same connection, as contacts, at both ends.
Together ==
  \E c \in Conns : \A u \in User :
    /\ conn[u] = c /\ IsUp(u, c) /\ purpose[c][u] = "KnownContact"
    /\ contact[u].status = "Online"

\* However the two dial and whichever packets meet, the rules by which each side
\* alone decides which connection to close end with both on the same one.
Converges == <>[]Together

\* A connection that u dialled and that carried u's request is closed.
RequestLost(u) ==
  \E c \in Conns :
    dialler[c] = u /\ purpose[c][u] = "OutboundRequest" /\ socket[c][u] = "closed"

\* OutgoingContactRequest::sendRequest: the end of the connection a request was
\* sent on "will eventually trigger a retry via ContactUser if the request is
\* still valid", so one that is still active after that, with neither another
\* connection nor a call pending, is dialled.
PendingIsRetried ==
  \A u \in User :
    /\ contact[u].request = "active" /\ RequestLost(u)
    /\ conn[u] = NoConn /\ calls[u] = << >>
    => contact[u].dialling # "Inactive"

=============================================================================
