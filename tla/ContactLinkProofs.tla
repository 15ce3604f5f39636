-------------------------- MODULE ContactLinkProofs --------------------------
(***************************************************************************)
(* Safety of the link between two contacts, for any number of connections  *)
(* and every limit of the faults, of the packets that meet a posted call   *)
(* and of the changes of the contact lists.                                *)
(*                                                                         *)
(* None of the three properties is inductive alone.  The inductive         *)
(* invariant IInv adds what each user knows without the other: which       *)
(* status the request allows, when an attempt has a connection, and that   *)
(* onConnected is still to be called where the status lags behind; and     *)
(* what a packet in flight says of the purpose at the end that wrote it.   *)
(***************************************************************************)
EXTENDS ContactLink, SequenceTheorems, TLAPS

\* An attempt has a connection while it is being made, and nobody who is online
\* makes one.
Dials(k) ==
  /\ k.attempt # NoConn => k.dialling \in {"Initializing", "Opening", "Authenticating"}
  /\ k.status = "Online" => k.dialling = "None"

\* The status shown is one that the request allows.
Fits(k) ==
  /\ k.request = "active" => k.status = "RequestPending"
  /\ k.request = "rejected" => k.status = "RequestRejected"
  /\ k.request = "none" => k.status # "RequestPending"
  /\ k.status = "None" => k = NoContact

\* A call of onConnected is pending.
Expected(s) == \E n \in 1..Len(s) : s[n] = "onConnected"

ContactFine(u) ==
  /\ Dials(contact[u]) /\ Fits(contact[u])
  /\ ~Listed(u) => conn[u] = NoConn /\ calls[u] = << >>
  /\ contact[u].status = "Online" => conn[u] # NoConn
  /\ /\ IsUp(u, conn[u]) /\ contact[u].request = "none"
     /\ contact[u].status # "Online"
     => Expected(calls[u])

Trusts(u) ==
  \A c \in Conns : IsUp(u, c) /\ purpose[c][u] = "KnownContact" => conn[u] = c

\* Only the acceptor takes a connection for one with a request, and it
\* announces what it takes the connection for.
Announced(c) ==
  /\ purpose[c][dialler[c]] # "InboundRequest"
  /\ packet[c] \in {"known", "accepted"} => purpose[c][Other(dialler[c])] = "KnownContact"
  /\ /\ IsUp(dialler[c], c) /\ purpose[c][dialler[c]] = "KnownContact"
     => purpose[c][Other(dialler[c])] = "KnownContact"

IInv ==
  /\ TypeOK
  /\ \A u \in User : ContactFine(u) /\ Trusts(u)
  /\ \A c \in Conns : Announced(c)

-----------------------------------------------------------------------------
\* The type invariant in parts.  Only Read counts meets.

PeopleOK ==
  /\ contact \in [User -> Contact]
  /\ conn \in [User -> Conns \cup {NoConn}]
  /\ calls \in [User -> Seq({"onConnected", "onDisconnected"})]
  /\ asked \in [User -> Conns \cup {NoConn, NoRequest, Blocked}]

Packets == ToAcceptor \cup ToDialler \cup {"none"}
Purposes == {"Unknown", "KnownContact", "OutboundRequest", "InboundRequest"}

NetworkOK ==
  /\ dialler \in [Conns -> User]
  /\ packet \in [Conns -> Packets]
  /\ socket \in Ends({"open", "closing", "closed"})
  /\ purpose \in Ends(Purposes)
  /\ aged \in Ends(BOOLEAN)

CountsOK == faults \in 0..MaxFaults /\ edits \in 0..MaxEdits

\* The inductive invariant, but for meets.
Sound ==
  /\ PeopleOK /\ NetworkOK /\ CountsOK
  /\ \A u \in User : ContactFine(u) /\ Trusts(u)
  /\ \A c \in Conns : Announced(c)

LEMMA InvIsSound == IInv <=> Sound /\ meets \in 0..MaxMeets
BY DEF IInv, Sound, TypeOK, PeopleOK, NetworkOK, CountsOK, Packets, Purposes

LEMMA InvIsSoundPrime == IInv' <=> Sound' /\ meets' \in 0..MaxMeets
BY DEF IInv, Sound, TypeOK, PeopleOK, NetworkOK, CountsOK, Packets, Purposes

LEMMA OtherUser ==
  ASSUME NEW u \in User
  PROVE  /\ Other(u) \in User /\ Other(u) # u
         /\ \A v \in User : v = u \/ v = Other(u)
BY DEF User, Other

-----------------------------------------------------------------------------
\* What becomes of a ContactUser.

LEMMA OutgoingSocketType ==
  ASSUME NEW k \in Contact,
         k.attempt # NoConn => k.dialling \in {"Initializing", "Opening", "Authenticating"}
  PROVE  /\ OutgoingSocket(k) \in Contact
         /\ OutgoingSocket(k).request = k.request /\ OutgoingSocket(k).status = k.status
         /\ Dials(OutgoingSocket(k))
         /\ OutgoingSocket(k).attempt \in {k.attempt, NoConn}
<1>1. CASE k.status \notin {"Offline", "RequestPending"}
  <2>1. OutgoingSocket(k) = [k EXCEPT !.dialling = "None", !.attempt = NoConn]
    BY <1>1 DEF OutgoingSocket
  <2> QED BY <2>1 DEF Contact, Dials
<1>2. CASE k.status \in {"Offline", "RequestPending"} /\ k.dialling \in Active /\ k.aimed
  <2>1. OutgoingSocket(k) = k
    BY <1>2 DEF OutgoingSocket
  <2> QED BY <1>2, <2>1 DEF Dials
<1>3. CASE k.status \in {"Offline", "RequestPending"} /\ ~(k.dialling \in Active /\ k.aimed)
  <2>1. OutgoingSocket(k) =
          [k EXCEPT !.dialling = "Connecting", !.aimed = TRUE, !.attempt = NoConn]
    BY <1>3 DEF OutgoingSocket
  <2> QED BY <1>3, <2>1 DEF Contact, Dials, Active
<1> QED BY <1>1, <1>2, <1>3

LEMMA StatusOfType ==
  ASSUME NEW k \in Contact, k.status # "None", NEW up \in BOOLEAN
  PROVE  /\ StatusOf(k, up) \in {"Offline", "Online", "RequestPending", "RequestRejected"}
         /\ k.request = "active" => StatusOf(k, up) = "RequestPending"
         /\ k.request = "rejected" => StatusOf(k, up) = "RequestRejected"
         /\ k.request = "none" => StatusOf(k, up) # "RequestPending"
         /\ k.request = "none" /\ up => StatusOf(k, up) = "Online"
         /\ StatusOf(k, up) = "Online" => up
BY DEF StatusOf, Contact

\* updateStatus leaves a ContactUser in order, with the status that its request
\* and its connection ask for.
LEMMA UpdatedFine ==
  ASSUME NEW k \in Contact, Dials(k), k.status # "None", NEW up \in BOOLEAN
  PROVE  /\ Updated(k, up) \in Contact
         /\ Dials(Updated(k, up)) /\ Fits(Updated(k, up))
         /\ Updated(k, up).request = k.request
         /\ Updated(k, up).status = StatusOf(k, up)
         /\ Updated(k, up).status # "None"
         /\ Updated(k, up).attempt \in {k.attempt, NoConn}
<1> DEFINE s == StatusOf(k, up)
           j == [k EXCEPT !.status = s]
<1>1. /\ s \in {"Offline", "Online", "RequestPending", "RequestRejected"}
      /\ k.request = "active" => s = "RequestPending"
      /\ k.request = "rejected" => s = "RequestRejected"
      /\ k.request = "none" => s # "RequestPending"
  BY StatusOfType
<1> HIDE DEF s
<1>2. CASE s = k.status
  <2>1. Updated(k, up) = k
    BY <1>2 DEF Updated, s
  <2> QED BY <1>1, <1>2, <2>1 DEF Fits, s
<1>3. CASE s # k.status
  <2>1. Updated(k, up) = OutgoingSocket(j)
    BY <1>3 DEF Updated, s
  <2>2. /\ j \in Contact /\ j.request = k.request /\ j.status = s
        /\ j.attempt = k.attempt /\ j.dialling = k.dialling
    BY <1>1 DEF Contact, Statuses
  <2>3. j.attempt # NoConn => j.dialling \in {"Initializing", "Opening", "Authenticating"}
    BY <2>2 DEF Dials
  <2> HIDE DEF j
  <2>4. /\ OutgoingSocket(j) \in Contact /\ Dials(OutgoingSocket(j))
        /\ OutgoingSocket(j).request = k.request /\ OutgoingSocket(j).status = s
        /\ OutgoingSocket(j).attempt \in {k.attempt, NoConn}
    BY <2>2, <2>3, OutgoingSocketType
  <2> QED BY <1>1, <2>1, <2>4 DEF Fits, s
<1> QED BY <1>2, <1>3

LEMMA AcceptedFine ==
  ASSUME NEW k \in Contact, Dials(k), k.status # "None", NEW up \in BOOLEAN
  PROVE  /\ Accepted(k, up) \in Contact
         /\ Dials(Accepted(k, up)) /\ Fits(Accepted(k, up))
         /\ Accepted(k, up).request = "none"
         /\ Accepted(k, up).status = IF up THEN "Online" ELSE "Offline"
         /\ Accepted(k, up).attempt \in {k.attempt, NoConn}
<1> DEFINE j == [k EXCEPT !.request = "active"]
           m == Updated(j, up)
           n == [m EXCEPT !.request = "none"]
<1>1. j \in Contact /\ j.request = "active" /\ j.status = k.status /\ j.attempt = k.attempt /\ Dials(j)
  BY DEF Contact, Dials
<1> HIDE DEF j
<1>2. m \in Contact /\ Dials(m) /\ m.status = StatusOf(j, up) /\ m.attempt \in {k.attempt, NoConn}
  BY <1>1, UpdatedFine
<1>3. m.status = "RequestPending"
  BY <1>1, <1>2, StatusOfType
<1> HIDE DEF m
<1>4. n \in Contact /\ n.request = "none" /\ n.status = m.status /\ n.attempt = m.attempt /\ Dials(n)
  BY <1>2 DEF Contact, Dials
<1> HIDE DEF n
<1>5. StatusOf(n, up) = IF up THEN "Online" ELSE "Offline"
  BY <1>3, <1>4 DEF StatusOf
<1>6. Accepted(k, up) = Updated(n, up)
  BY DEF Accepted, j, m, n
<1> QED BY <1>2, <1>3, <1>4, <1>5, <1>6, UpdatedFine

LEMMA NoContactType ==
  NoContact \in Contact /\ Dials(NoContact) /\ Fits(NoContact) /\ NoContact.status = "None"
    /\ NoContact.request = "none" /\ NoContact.attempt = NoConn
BY DEF NoContact, Contact, Dials, Fits, Active, Statuses

LEMMA NewContactFine ==
  /\ NewContact \in Contact /\ Dials(NewContact) /\ Fits(NewContact)
  /\ NewContact.request = "none" /\ NewContact.status = "Offline"
  /\ NewContact.attempt = NoConn /\ NewContact.dialling = "Connecting"
<1> DEFINE k == [NoContact EXCEPT !.status = "Offline"]
<1>1. k \in Contact /\ k.request = "none" /\ k.status = "Offline" /\ k.attempt = NoConn
  BY NoContactType DEF Contact, Statuses
<1>2. NewContact = [k EXCEPT !.dialling = "Connecting", !.aimed = TRUE, !.attempt = NoConn]
  BY DEF NewContact, OutgoingSocket, NoContact, Active
<1> QED BY <1>1, <1>2 DEF Contact, Dials, Fits, Active, NoContact

LEMMA LoadedFine ==
  ASSUME NEW list \in UserTypes
  PROVE  /\ Loaded(list) \in Contact /\ Dials(Loaded(list)) /\ Fits(Loaded(list))
         /\ Loaded(list).attempt = NoConn /\ Loaded(list).status # "Online"
         /\ list = "pending" => Loaded(list).status = "RequestPending"
<1>1. CASE list \in {"none", "requesting", "blocked"}
  BY <1>1, NoContactType DEF Loaded
<1>2. CASE list = "allowed"
  BY <1>2, NewContactFine DEF Loaded
<1>3. CASE list = "rejected"
  <2>1. Loaded(list) = [NoContact EXCEPT !.status = "RequestRejected"]
    BY <1>3 DEF Loaded
  <2> QED BY <1>3, <2>1 DEF NoContact, Contact, Dials, Fits, Active, Statuses
<1>4. CASE list = "pending"
  <2> DEFINE k == [NewContact EXCEPT !.request = "active"]
  <2>1. Loaded(list) = Updated(k, FALSE)
    BY <1>4 DEF Loaded
  <2>2. /\ k \in Contact /\ k.request = "active" /\ k.status = "Offline" /\ k.attempt = NoConn
        /\ Dials(k)
    BY NewContactFine DEF Contact, Dials
  <2> HIDE DEF k
  <2>3. StatusOf(k, FALSE) = "RequestPending"
    BY <2>2, StatusOfType
  <2> QED BY <2>1, <2>2, <2>3, UpdatedFine
<1> QED BY <1>1, <1>2, <1>3, <1>4 DEF UserTypes

-----------------------------------------------------------------------------
\* What assignConnection decides: either the new connection wins and replaces the
\* old one, or it is closed, and then the old one stays unless our own dial is
\* to be the one.

LEMMA AssignmentFine ==
  ASSUME PeopleOK, NetworkOK, NEW u \in User, NEW c \in Conns,
         NEW k \in Contact, Dials(k), Fits(k), k.status # "None",
         NEW a, a = Assignment(u, c, k)
  PROVE  /\ a.contact \in Contact /\ Dials(a.contact) /\ Fits(a.contact)
         /\ a.contact.status # "None"
         /\ a.wins \in BOOLEAN
         /\ a.wins => a.conn = c /\ conn[u] \in a.closes
         /\ ~a.wins =>
              /\ c \in a.closes
              /\ \/ /\ a.conn = conn[u]
                    /\ \/ a.contact.status = k.status /\ a.contact.request = k.request
                       \/ a.contact.status = StatusOf(a.contact, IsUp(u, conn[u]))
                 \/ /\ a.conn = NoConn /\ conn[u] \in a.closes
                    /\ a.contact = k /\ k.dialling = "Authenticating"
         /\ a.trusts \subseteq {c, conn[u]}
         /\ c \in a.trusts => a.wins \/ c = conn[u]
         /\ c \in a.trusts /\ dialler[c] = u => packet[c] = "known"
         /\ conn[u] \in a.trusts /\ conn[u] # c /\ dialler[conn[u]] = u => conn[u] \in a.closes
         /\ a.wins /\ dialler[c] # u => c \in a.trusts
         /\ a.asks \subseteq {c} /\ (a.asks # {} => dialler[c] = u)
         /\ a.wins => IsUp(u, c)
<1> DEFINE outbound == dialler[c] = u
           known == packet[c] = "known"
           live == IsUp(u, c)
           old == conn[u]
           denied == outbound /\ k.request = "none" /\ ~known
           told == IF denied THEN OutgoingSocket(Updated(k, IsUp(u, old)))
                   ELSE IF outbound /\ k.request # "none" /\ known
                   THEN Accepted(k, IsUp(u, old)) ELSE k
           oldWins == /\ IsUp(u, old)
                      /\ dialler[old] # dialler[c] /\ ~aged[old][u]
                      /\ outbound # PreferOutbound(u)
           dialWins == ~outbound /\ told.dialling = "Authenticating" /\ PreferOutbound(u)
           wins == live /\ ~denied /\ ~oldWins /\ ~dialWins
           after == IF wins /\ ~outbound /\ told.request # "none"
                    THEN Accepted(told, FALSE) ELSE told
           kept == ~live \/ denied \/ oldWins
<1>1. /\ a.contact = IF live THEN after ELSE k
      /\ a.wins = wins
      /\ a.conn = IF kept THEN old ELSE IF wins THEN c ELSE NoConn
      /\ a.trusts = (IF wins /\ ~(outbound /\ told.request # "none") THEN {c} ELSE {})
                      \cup (IF outbound /\ known /\ k.request # "none" /\ live THEN {old} ELSE {})
      /\ a.asks = IF wins /\ outbound /\ told.request # "none" THEN {c} ELSE {}
      /\ a.closes = (IF wins THEN {} ELSE {c}) \cup (IF kept THEN {} ELSE {old})
                      \cup ({k.attempt} \ {after.attempt})
  BY DEF Assignment
<1>2. /\ live \in BOOLEAN /\ outbound \in BOOLEAN /\ denied \in BOOLEAN /\ oldWins \in BOOLEAN
      /\ dialWins \in BOOLEAN /\ wins \in BOOLEAN /\ kept \in BOOLEAN /\ known \in BOOLEAN
      /\ IsUp(u, old) \in BOOLEAN
  BY DEF IsUp
<1>3. /\ told \in Contact /\ Dials(told) /\ Fits(told) /\ told.status # "None"
      /\ \/ told.status = k.status /\ told.request = k.request
         \/ told.status = StatusOf(told, IsUp(u, old))
      /\ ~outbound => told = k
      /\ outbound /\ told.request = "none" /\ ~denied => known
  <2>1. CASE denied
    <3> DEFINE m == Updated(k, IsUp(u, old))
    <3>1. /\ m \in Contact /\ Dials(m) /\ Fits(m) /\ m.status # "None" /\ m.request = k.request
          /\ m.status = StatusOf(k, IsUp(u, old))
      BY <1>2, UpdatedFine
    <3>2. told = OutgoingSocket(m)
      BY <2>1
    <3> HIDE DEF m
    <3>3. /\ told \in Contact /\ Dials(told) /\ told.status = m.status /\ told.request = m.request
      BY <3>1, <3>2, OutgoingSocketType DEF Dials
    <3>4. k.request = "none" /\ outbound
      BY <2>1
    <3> HIDE DEF told
    <3>5. Fits(told)
      BY <3>1, <3>3 DEF Fits
    <3>6. told.status = k.status \/ told.status = StatusOf(told, IsUp(u, old))
      BY <3>1, <3>3, <3>4 DEF StatusOf
    <3> QED BY <2>1, <3>1, <3>3, <3>4, <3>5, <3>6
  <2>2. CASE ~denied /\ outbound /\ k.request # "none" /\ known
    <3>1. told = Accepted(k, IsUp(u, old))
      BY <2>2
    <3> HIDE DEF told, denied
    <3>2. /\ told \in Contact /\ Dials(told) /\ Fits(told) /\ told.request = "none"
          /\ told.status = IF IsUp(u, old) THEN "Online" ELSE "Offline"
      BY <1>2, <3>1, AcceptedFine
    <3>3. told.status = StatusOf(told, IsUp(u, old))
      BY <3>2 DEF StatusOf
    <3> QED BY <2>2, <3>2, <3>3
  <2>3. CASE ~denied /\ ~(outbound /\ k.request # "none" /\ known)
    <3>1. told = k
      BY <2>3
    <3> QED BY <2>3, <3>1
  <2> QED BY <2>1, <2>2, <2>3
<1> HIDE DEF told
<1>4. /\ after \in Contact /\ Dials(after) /\ Fits(after) /\ after.status # "None"
      /\ ~wins => after = told
  <2>1. CASE wins /\ ~outbound /\ told.request # "none"
    <3>1. after = Accepted(told, FALSE)
      BY <2>1
    <3> HIDE DEF after, wins
    <3> QED BY <1>3, <2>1, <3>1, AcceptedFine
  <2>2. CASE ~(wins /\ ~outbound /\ told.request # "none")
    <3>1. after = told
      BY <2>2
    <3> QED BY <1>3, <3>1
  <2> QED BY <2>1, <2>2
<1> HIDE DEF after
<1>5. a.contact \in Contact /\ Dials(a.contact) /\ Fits(a.contact) /\ a.contact.status # "None"
  BY <1>1, <1>4
<1>6. a.wins => a.conn = c /\ conn[u] \in a.closes /\ IsUp(u, c)
  BY <1>1
<1>7. ASSUME ~a.wins
      PROVE  /\ c \in a.closes
             /\ \/ /\ a.conn = conn[u]
                   /\ \/ a.contact.status = k.status /\ a.contact.request = k.request
                      \/ a.contact.status = StatusOf(a.contact, IsUp(u, conn[u]))
                \/ /\ a.conn = NoConn /\ conn[u] \in a.closes
                   /\ a.contact = k /\ k.dialling = "Authenticating"
  <2>1. ~wins /\ c \in a.closes
    BY <1>1, <1>7
  <2>2. CASE kept
    <3>1. a.conn = conn[u]
      BY <1>1, <2>2
    <3>2. a.contact = k \/ a.contact = told
      BY <1>1, <1>4, <2>1
    <3> QED BY <1>3, <2>1, <3>1, <3>2
  <2>3. CASE ~kept
    <3>1. live /\ dialWins
      BY <2>1, <2>3
    <3>2. ~outbound /\ told = k /\ k.dialling = "Authenticating"
      BY <1>3, <3>1
    <3>3. a.contact = k
      BY <1>1, <1>4, <2>1, <3>2
    <3>4. a.conn = NoConn /\ conn[u] \in a.closes
      BY <1>1, <2>1, <2>3
    <3> QED BY <2>1, <3>2, <3>3, <3>4
  <2> QED BY <2>2, <2>3
<1>8. /\ a.trusts \subseteq {c, conn[u]}
      /\ c \in a.trusts => a.wins \/ c = conn[u]
      /\ a.asks \subseteq {c} /\ (a.asks # {} => dialler[c] = u)
      /\ a.wins \in BOOLEAN
  BY <1>1
<1>9. c \in a.trusts /\ dialler[c] = u => packet[c] = "known"
  BY <1>1, <1>3
<1>10. conn[u] \in a.trusts /\ conn[u] # c /\ dialler[conn[u]] = u => conn[u] \in a.closes
  <2> SUFFICES ASSUME conn[u] \in a.trusts, conn[u] # c, dialler[conn[u]] = u
               PROVE  conn[u] \in a.closes
    OBVIOUS
  <2>1. outbound /\ known /\ k.request # "none" /\ live
    BY <1>1
  <2>2. ~kept
    BY <2>1
  <2> QED BY <1>1, <2>2
<1>11. a.wins /\ dialler[c] # u => c \in a.trusts
  BY <1>1
<1> QED BY <1>5, <1>6, <1>7, <1>8, <1>9, <1>10, <1>11

-----------------------------------------------------------------------------
\* What an action leaves alone.

\* A user whose ContactUser, calls and sockets are untouched.
LEMMA FineKept ==
  ASSUME NEW v \in User, ContactFine(v), conn[v] \in Conns \cup {NoConn},
         contact'[v] = contact[v], conn'[v] = conn[v], calls'[v] = calls[v],
         \A d \in Conns : socket'[d][v] = "open" => socket[d][v] = "open"
  PROVE  ContactFine(v)'
BY DEF ContactFine, IsUp, Listed

LEMMA TrustsKept ==
  ASSUME NEW v \in User, Trusts(v), conn'[v] = conn[v],
         \A d \in Conns : socket'[d][v] = "open" => socket[d][v] = "open",
         \A d \in Conns : purpose'[d][v] = "KnownContact" => purpose[d][v] = "KnownContact"
  PROVE  Trusts(v)'
BY ConnsAssumption DEF Trusts, IsUp

LEMMA AnnouncedKept ==
  ASSUME NEW d \in Conns, Announced(d), dialler[d] \in User, dialler'[d] = dialler[d],
         \A v \in User : purpose'[d][v] = purpose[d][v],
         \A v \in User : socket'[d][v] = "open" => socket[d][v] = "open",
         packet'[d] = packet[d] \/ packet'[d] \notin {"known", "accepted"}
  PROVE  Announced(d)'
BY OtherUser DEF Announced, IsUp

LEMMA ClosesEffect ==
  ASSUME NetworkOK, NEW u \in User, NEW S, Closes(u, S)
  PROVE  /\ socket' \in Ends({"open", "closing", "closed"})
         /\ \A d \in Conns, v \in User : socket'[d][v] = "open" => socket[d][v] = "open"
         /\ \A d \in Conns, v \in User : v # u => socket'[d][v] = socket[d][v]
         /\ \A d \in Conns \cap S : socket'[d][u] # "open"
BY DEF NetworkOK, Closes, Ends

LEMMA PutEffect ==
  ASSUME NetworkOK, NEW u \in User, NEW c \in Conns, NEW p \in Packets, NEW open, Put(u, c, p, open)
  PROVE  /\ packet' \in [Conns -> Packets]
         /\ \A d \in Conns : d # c => packet'[d] = packet[d]
         /\ packet'[c] \in {p, "none"}
         /\ ~open => packet'[c] = "none"
BY DEF NetworkOK, Put, Packets

\* No packet is both a dialler's to read and an acceptor's.
LEMMA ForMeSide ==
  ASSUME NEW u \in User, NEW c \in Conns, ForMe(u, c)
  PROVE  /\ packet[c] \in ToDialler => dialler[c] = u
         /\ packet[c] \in ToAcceptor => dialler[c] # u
BY DEF ForMe, ToDialler, ToAcceptor

-----------------------------------------------------------------------------
\* What an assignment leaves behind, for the user and for the connections.

LEMMA AssignsFine ==
  ASSUME Sound, NEW u \in User, NEW c \in Conns,
         NEW k \in Contact, Dials(k), Fits(k), k.status # "None",
         k.status = "Online" => conn[u] # NoConn,
         IsUp(u, conn[u]) /\ k.request = "none" /\ k.status # "Online" => Expected(calls[u]),
         NEW a, a = Assignment(u, c, k), Assigns(u, a)
  PROVE  /\ conn' \in [User -> Conns \cup {NoConn}]
         /\ calls' \in [User -> Seq({"onConnected", "onDisconnected"})]
         /\ socket' \in Ends({"open", "closing", "closed"})
         /\ purpose' \in Ends(Purposes)
         /\ \A v \in User : v # u =>
              /\ conn'[v] = conn[v] /\ calls'[v] = calls[v]
              /\ \A d \in Conns : socket'[d][v] = socket[d][v] /\ purpose'[d][v] = purpose[d][v]
         /\ \A d \in Conns, v \in User : socket'[d][v] = "open" => socket[d][v] = "open"
         /\ Trusts(u)'
         /\ a.contact.status = "Online" /\ ~a.wins => conn'[u] # NoConn
         /\ a.wins => conn'[u] = c /\ Expected(calls'[u])
         /\ /\ conn'[u] # NoConn /\ socket'[conn'[u]][u] = "open"
            /\ a.contact.request = "none" /\ a.contact.status # "Online"
            => Expected(calls'[u])
         /\ a.wins /\ dialler[c] # u => purpose'[c][u] = "KnownContact"
         /\ ~a.wins => socket'[c][u] # "open"
         /\ \A d \in Conns :
              /\ dialler[d] # u /\ purpose[d][u] = "KnownContact" => purpose'[d][u] = "KnownContact"
              /\ dialler[d] = u => purpose'[d][u] # "InboundRequest"
              /\ /\ dialler[d] = u /\ socket'[d][u] = "open" /\ purpose'[d][u] = "KnownContact"
                 => purpose[d][u] = "KnownContact" \/ (d = c /\ packet[c] = "known")
<1>1. /\ PeopleOK /\ NetworkOK /\ ContactFine(u) /\ Trusts(u)
      /\ \A d \in Conns : Announced(d)
  BY DEF Sound
<1>2. /\ a.contact \in Contact /\ Dials(a.contact) /\ Fits(a.contact)
      /\ a.contact.status # "None"
      /\ a.wins \in BOOLEAN
      /\ a.wins => a.conn = c /\ conn[u] \in a.closes
      /\ ~a.wins =>
           /\ c \in a.closes
           /\ \/ /\ a.conn = conn[u]
                 /\ \/ a.contact.status = k.status /\ a.contact.request = k.request
                    \/ a.contact.status = StatusOf(a.contact, IsUp(u, conn[u]))
              \/ /\ a.conn = NoConn /\ conn[u] \in a.closes
                 /\ a.contact = k /\ k.dialling = "Authenticating"
      /\ a.trusts \subseteq {c, conn[u]}
      /\ c \in a.trusts => a.wins \/ c = conn[u]
      /\ c \in a.trusts /\ dialler[c] = u => packet[c] = "known"
      /\ conn[u] \in a.trusts /\ conn[u] # c /\ dialler[conn[u]] = u => conn[u] \in a.closes
      /\ a.wins /\ dialler[c] # u => c \in a.trusts
      /\ a.asks \subseteq {c} /\ (a.asks # {} => dialler[c] = u)
  BY <1>1, AssignmentFine
<1>3. conn[u] \in Conns \cup {NoConn} /\ calls[u] \in Seq({"onConnected", "onDisconnected"})
  BY <1>1 DEF PeopleOK
<1>4. /\ conn' = [conn EXCEPT ![u] = a.conn]
      /\ calls' = IF a.wins THEN [calls EXCEPT ![u] = Append(@, "onConnected")] ELSE calls
      /\ Closes(u, a.closes)
  BY DEF Assigns
<1>5. /\ conn' \in [User -> Conns \cup {NoConn}] /\ conn'[u] = a.conn
      /\ \A v \in User : v # u => conn'[v] = conn[v]
  BY <1>1, <1>2, <1>3, <1>4 DEF PeopleOK
<1>6. /\ calls' \in [User -> Seq({"onConnected", "onDisconnected"})]
      /\ \A v \in User : v # u => calls'[v] = calls[v]
      /\ ~a.wins => calls'[u] = calls[u]
      /\ a.wins => Expected(calls'[u])
  <2>1. CASE a.wins
    <3> DEFINE s == Append(calls[u], "onConnected")
    <3>1. /\ s \in Seq({"onConnected", "onDisconnected"}) /\ Len(s) = Len(calls[u]) + 1
          /\ s[Len(calls[u]) + 1] = "onConnected"
      BY <1>3, AppendProperties
    <3>2. Len(calls[u]) \in Nat
      BY <1>3, LenProperties
    <3>3. calls' = [calls EXCEPT ![u] = s]
      BY <1>4, <2>1
    <3>4. Expected(s)
      BY <3>1, <3>2 DEF Expected
    <3> HIDE DEF s
    <3> QED BY <1>1, <2>1, <3>1, <3>3, <3>4 DEF PeopleOK
  <2>2. CASE ~a.wins
    BY <1>1, <1>4, <2>2 DEF PeopleOK
  <2> QED BY <1>2, <2>1, <2>2
<1>7. /\ socket' \in Ends({"open", "closing", "closed"})
      /\ \A d \in Conns, v \in User : socket'[d][v] = "open" => socket[d][v] = "open"
      /\ \A d \in Conns, v \in User : v # u => socket'[d][v] = socket[d][v]
      /\ \A d \in Conns \cap a.closes : socket'[d][u] # "open"
  BY <1>1, <1>4, ClosesEffect
<1>8. purpose' = [d \in Conns |-> [purpose[d] EXCEPT
                     ![u] = IF d \in a.trusts THEN "KnownContact"
                            ELSE IF d \in a.asks THEN "OutboundRequest" ELSE @]]
  BY DEF Assigns
<1>9. /\ purpose' \in Ends(Purposes)
      /\ \A d \in Conns, v \in User : v # u => purpose'[d][v] = purpose[d][v]
      /\ \A d \in Conns : purpose'[d][u] = IF d \in a.trusts THEN "KnownContact"
                            ELSE IF d \in a.asks THEN "OutboundRequest" ELSE purpose[d][u]
  BY <1>1, <1>8 DEF NetworkOK, Ends, Purposes
<1>10. Trusts(u)'
  <2> SUFFICES ASSUME NEW d \in Conns, socket'[d][u] = "open", purpose'[d][u] = "KnownContact"
               PROVE  conn'[u] = d
    BY DEF Trusts, IsUp
  <2>1. socket[d][u] = "open" /\ d \notin a.closes
    BY <1>7
  <2>2. CASE d = conn[u]
    BY <1>2, <1>5, <2>1, <2>2
  <2>3. CASE d # conn[u]
    <3>1. purpose[d][u] # "KnownContact"
      BY <1>1, <2>1, <2>3, ConnsAssumption DEF Trusts, IsUp
    <3>2. d = c /\ c \in a.trusts
      BY <1>2, <1>9, <2>3, <3>1
    <3> QED BY <1>2, <1>5, <2>3, <3>2
  <2> QED BY <2>2, <2>3
<1>11. a.contact.status = "Online" /\ ~a.wins => conn'[u] # NoConn
  <2> SUFFICES ASSUME a.contact.status = "Online", ~a.wins, conn'[u] = NoConn
               PROVE  FALSE
    OBVIOUS
  <2>1. CASE a.contact = k /\ k.dialling = "Authenticating"
    BY <2>1 DEF Dials
  <2>2. CASE a.conn = conn[u] /\ a.contact.status = k.status
    BY <1>5, <2>2
  <2>3. CASE a.conn = conn[u] /\ a.contact.status = StatusOf(a.contact, IsUp(u, conn[u]))
    <3>1. IsUp(u, conn[u]) = FALSE
      BY <1>5, <2>3 DEF IsUp
    <3> QED BY <1>2, <2>3, <3>1, StatusOfType
  <2> QED BY <1>2, <2>1, <2>2, <2>3
<1>12. ASSUME conn'[u] # NoConn, socket'[conn'[u]][u] = "open",
              a.contact.request = "none", a.contact.status # "Online"
       PROVE  Expected(calls'[u])
  <2>1. CASE a.wins
    BY <1>6, <2>1
  <2>2. CASE ~a.wins
    <3>1. conn'[u] = conn[u] /\ conn[u] \in Conns
      BY <1>2, <1>3, <1>5, <1>12, <2>2
    <3>2. IsUp(u, conn[u])
      BY <1>7, <1>12, <3>1 DEF IsUp
    <3>3. StatusOf(a.contact, TRUE) = "Online"
      BY <1>2, <1>12, StatusOfType
    <3>4. IsUp(u, conn[u]) = TRUE
      BY <3>2 DEF IsUp
    <3>5. a.contact.status = k.status /\ a.contact.request = k.request
      BY <1>2, <1>5, <1>12, <2>2, <3>3, <3>4, <3>1, ConnsAssumption
    <3> QED BY <1>6, <1>12, <2>2, <3>2, <3>5
  <2> QED BY <1>2, <2>1, <2>2
<1>13. ASSUME NEW d \in Conns
       PROVE  /\ dialler[d] # u /\ purpose[d][u] = "KnownContact" => purpose'[d][u] = "KnownContact"
              /\ dialler[d] = u => purpose'[d][u] # "InboundRequest"
              /\ /\ dialler[d] = u /\ socket'[d][u] = "open" /\ purpose'[d][u] = "KnownContact"
                 => purpose[d][u] = "KnownContact" \/ (d = c /\ packet[c] = "known")
  <2>1. dialler[d] = u => purpose[d][u] # "InboundRequest"
    BY <1>1 DEF Announced
  <2> QED BY <1>2, <1>7, <1>9, <2>1
<1>14. a.wins /\ dialler[c] # u => purpose'[c][u] = "KnownContact"
  BY <1>2, <1>9
<1>15. ~a.wins => socket'[c][u] # "open"
  BY <1>2, <1>7
<1> QED BY <1>2, <1>5, <1>6, <1>7, <1>9, <1>10, <1>11, <1>12, <1>13, <1>14, <1>15

LEMMA AnnouncedAssigned ==
  ASSUME NEW u \in User, NEW d \in Conns, Announced(d), dialler[d] \in User, dialler' = dialler,
         \A v \in User : v # u =>
           socket'[d][v] = socket[d][v] /\ purpose'[d][v] = purpose[d][v],
         socket'[d][u] = "open" => socket[d][u] = "open",
         dialler[d] # u /\ purpose[d][u] = "KnownContact" => purpose'[d][u] = "KnownContact",
         dialler[d] = u => purpose'[d][u] # "InboundRequest",
         dialler[d] = u /\ socket'[d][u] = "open" /\ purpose'[d][u] = "KnownContact"
           => purpose[d][u] = "KnownContact" \/ packet[d] \in {"known", "accepted"},
         packet'[d] \in {"known", "accepted"}
           => packet'[d] = packet[d] \/ purpose'[d][Other(dialler[d])] = "KnownContact"
  PROVE  Announced(d)'
<1> DEFINE x == dialler[d]
           y == Other(dialler[d])
<1>1. x \in User /\ y \in User /\ x # y
  BY OtherUser
<1>2. /\ purpose[d][x] # "InboundRequest"
      /\ packet[d] \in {"known", "accepted"} => purpose[d][y] = "KnownContact"
      /\ socket[d][x] = "open" /\ purpose[d][x] = "KnownContact" => purpose[d][y] = "KnownContact"
  BY ConnsAssumption DEF Announced, IsUp
<1>3. purpose[d][y] = "KnownContact" => purpose'[d][y] = "KnownContact"
  BY <1>1
<1>4. purpose'[d][x] # "InboundRequest"
  BY <1>1, <1>2
<1>5. packet'[d] \in {"known", "accepted"} => purpose'[d][y] = "KnownContact"
  BY <1>2, <1>3
<1>6. socket'[d][x] = "open" /\ purpose'[d][x] = "KnownContact" => purpose'[d][y] = "KnownContact"
  <2>1. CASE x = u
    BY <1>2, <1>3, <2>1
  <2>2. CASE x # u
    BY <1>1, <1>2, <1>3, <2>2
  <2> QED BY <2>1, <2>2
<1> QED BY <1>4, <1>5, <1>6 DEF Announced, IsUp

\* A ContactUser whose dialling moves on.
LEMMA FineMoved ==
  ASSUME NEW v \in User, ContactFine(v), conn[v] \in Conns \cup {NoConn},
         contact[v].status # "None", Dials(contact'[v]),
         contact'[v].status = contact[v].status, contact'[v].request = contact[v].request,
         conn'[v] = conn[v],
         Expected(calls[v]) => Expected(calls'[v]),
         conn[v] \in Conns => (socket'[conn[v]][v] = "open" => socket[conn[v]][v] = "open")
  PROVE  ContactFine(v)'
<1>1. Listed(v) /\ contact'[v] # NoContact
  BY NoContactType DEF Listed
<1>2. Fits(contact'[v])
  BY DEF ContactFine, Fits
<1>3. conn'[v] # NoConn /\ socket'[conn'[v]][v] = "open" => IsUp(v, conn[v])
  BY DEF IsUp
<1> QED BY <1>1, <1>2, <1>3 DEF ContactFine, IsUp, Listed

LEMMA SoundParts ==
  ASSUME Sound
  PROVE  /\ PeopleOK /\ NetworkOK /\ CountsOK
         /\ \A v \in User :
              /\ ContactFine(v) /\ Trusts(v)
              /\ contact[v] \in Contact /\ Dials(contact[v]) /\ Fits(contact[v])
              /\ conn[v] \in Conns \cup {NoConn}
              /\ calls[v] \in Seq({"onConnected", "onDisconnected"})
              /\ asked[v] \in Conns \cup {NoConn, NoRequest, Blocked}
         /\ \A d \in Conns : Announced(d) /\ dialler[d] \in User /\ packet[d] \in Packets
BY DEF Sound, PeopleOK, NetworkOK, ContactFine

-----------------------------------------------------------------------------
\* A connection from dialling to its assignment.

LEMMA EstablishSound ==
  ASSUME Sound, NEW u \in User, NEW c \in Conns, Establish(u, c)
  PROVE  Sound'
<1> USE SoundParts
<1> DEFINE k == [contact[u] EXCEPT !.dialling = "Initializing", !.attempt = c]
<1>1. /\ contact[u].dialling = "Connecting" /\ Free(c)
      /\ contact' = [contact EXCEPT ![u] = k]
      /\ UNCHANGED <<conn, calls, asked, faults, edits>>
  BY DEF Establish, PeopleOK
<1>2. contact[u].status \notin {"Online", "None"}
  BY <1>1 DEF Dials, Fits, NoContact
<1>3. k \in Contact /\ Dials(k) /\ k.status = contact[u].status /\ k.request = contact[u].request
  BY <1>2 DEF Contact, Dials, Active
<1> HIDE DEF k
<1>4. PeopleOK'
  BY <1>1, <1>3 DEF PeopleOK
<1>5. contact'[u] = k /\ \A v \in User : v # u => contact'[v] = contact[v]
  BY <1>1 DEF PeopleOK
<1>6. /\ NetworkOK'
      /\ \A d \in Conns : d # c =>
           /\ dialler'[d] = dialler[d] /\ packet'[d] = packet[d]
           /\ socket'[d] = socket[d] /\ purpose'[d] = purpose[d]
      /\ packet'[c] = "intro" /\ dialler'[c] \in User
      /\ \A v \in User : purpose'[c][v] = "Unknown"
  BY DEF Establish, NetworkOK, Ends, Packets, ToAcceptor, Purposes
<1>7. \A v \in User : conn[v] # c
  BY <1>1 DEF Free
<1>8. ASSUME NEW v \in User PROVE ContactFine(v)' /\ Trusts(v)'
  <2>1. conn[v] \in Conns => socket'[conn[v]][v] = socket[conn[v]][v]
    BY <1>6, <1>7
  <2>2. ContactFine(v)'
    <3>1. CASE v = u
      BY <1>1, <1>2, <1>3, <1>5, <2>1, <3>1, FineMoved
    <3>2. CASE v # u
      BY <1>1, <1>5, <2>1, <3>2 DEF ContactFine, IsUp, Listed
    <3> QED BY <3>1, <3>2
  <2>3. Trusts(v)'
    BY <1>1, <1>6, ConnsAssumption DEF Trusts, IsUp
  <2> QED BY <2>2, <2>3
<1>9. ASSUME NEW d \in Conns PROVE Announced(d)'
  <2>1. CASE d = c
    <3>1. Other(dialler'[c]) \in User
      BY <1>6, OtherUser
    <3> QED BY <1>6, <2>1, <3>1 DEF Announced
  <2>2. CASE d # c
    BY <1>6, <2>2, AnnouncedKept
  <2> QED BY <2>1, <2>2
<1>10. CountsOK'
  BY <1>1 DEF CountsOK
<1> QED BY <1>4, <1>6, <1>8, <1>9, <1>10 DEF Sound

\* Most answers go on in the name of the connection alone.
LEMMA WrittenSound ==
  ASSUME Sound, NEW u \in User, NEW k \in Contact, Dials(k),
         contact' = [contact EXCEPT ![u] = k],
         contact[u] = k \/ contact[u].status # "None",
         k.status = contact[u].status, k.request = contact[u].request,
         UNCHANGED <<conn, calls, asked, dialler, socket, purpose, aged, faults, edits>>,
         packet' \in [Conns -> Packets],
         \A d \in Conns : packet'[d] = packet[d] \/ packet'[d] \notin {"known", "accepted"}
  PROVE  Sound'
<1> USE SoundParts
<1>1. PeopleOK' /\ contact'[u] = k /\ \A v \in User : v # u => contact'[v] = contact[v]
  BY DEF PeopleOK
<1>2. NetworkOK' /\ CountsOK'
  BY DEF NetworkOK, CountsOK
<1>3. ASSUME NEW v \in User PROVE ContactFine(v)' /\ Trusts(v)'
  <2>1. Trusts(v)'
    BY TrustsKept
  <2>2. CASE contact'[v] = contact[v]
    BY <2>1, <2>2, FineKept
  <2>3. CASE contact'[v] # contact[v]
    BY <1>1, <2>1, <2>3, FineMoved
  <2> QED BY <2>2, <2>3
<1>4. ASSUME NEW d \in Conns PROVE Announced(d)'
  BY AnnouncedKept
<1> QED BY <1>1, <1>2, <1>3, <1>4 DEF Sound

\* Who has an attempt under way is neither online nor without a contact.
LEMMA AttemptStatus ==
  ASSUME Sound, NEW u \in User, NEW c \in Conns, contact[u].attempt = c
  PROVE  contact[u].status \notin {"Online", "None"}
<1>1. Dials(contact[u]) /\ Fits(contact[u])
  BY SoundParts
<1> QED BY <1>1, ConnsAssumption, NoContactType DEF Dials, Fits

LEMMA FailedFine ==
  ASSUME NEW k \in Contact, k.status # "Online"
  PROVE  /\ Failed(k) \in Contact /\ Dials(Failed(k))
         /\ Failed(k).status = k.status /\ Failed(k).request = k.request
BY DEF Failed, Contact, Dials

LEMMA AnswerSound ==
  ASSUME Sound, NEW u \in User, NEW c \in Conns, Answer(u, c)
  PROVE  Sound'
<1>1. PICK p, open : p \in {"version", "authOpened"} /\ Put(u, c, p, open)
  BY DEF Answer
<1>2. NetworkOK /\ p \in Packets /\ contact[u] \in Contact /\ Dials(contact[u])
  BY <1>1, SoundParts DEF Packets, ToDialler
<1>3. /\ packet' \in [Conns -> Packets]
      /\ \A d \in Conns : packet'[d] = packet[d] \/ packet'[d] \notin {"known", "accepted"}
  BY <1>1, <1>2, PutEffect
<1>4. contact' = [contact EXCEPT ![u] = contact[u]]
  BY SoundParts DEF Answer, PeopleOK
<1> QED BY <1>2, <1>3, <1>4, WrittenSound DEF Answer

LEMMA StartAuthenticationSound ==
  ASSUME Sound, NEW u \in User, NEW c \in Conns, StartAuthentication(u, c)
  PROVE  Sound'
<1>1. PICK open : Put(u, c, "openAuth", open)
  BY DEF StartAuthentication
<1>2. "openAuth" \in Packets /\ "openAuth" \notin {"known", "accepted"} /\ NetworkOK
  BY SoundParts DEF Packets, ToAcceptor
<1>3. /\ packet' \in [Conns -> Packets]
      /\ \A d \in Conns : packet'[d] = packet[d] \/ packet'[d] \notin {"known", "accepted"}
  BY <1>1, <1>2, PutEffect
<1>4. contact[u].status \notin {"Online", "None"} /\ contact[u] \in Contact
  BY AttemptStatus, SoundParts DEF StartAuthentication
<1> DEFINE k == IF IsUp(u, c) THEN [contact[u] EXCEPT !.dialling = "Opening"]
                ELSE Failed(contact[u])
<1>5. /\ k \in Contact /\ Dials(k)
      /\ k.status = contact[u].status /\ k.request = contact[u].request
  <2>1. CASE IsUp(u, c)
    BY <1>4, <2>1 DEF Contact, Dials, Active
  <2>2. CASE ~IsUp(u, c)
    BY <1>4, <2>2, FailedFine
  <2> QED BY <2>1, <2>2
<1>6. contact' = [contact EXCEPT ![u] = k]
  BY SoundParts DEF StartAuthentication, PeopleOK
<1> HIDE DEF k
<1> QED BY <1>3, <1>4, <1>5, <1>6, WrittenSound DEF StartAuthentication

LEMMA AuthenticateSound ==
  ASSUME Sound, NEW u \in User, NEW c \in Conns, Authenticate(u, c)
  PROVE  Sound'
<1>1. PICK open : Put(u, c, "proof", open)
  BY DEF Authenticate
<1>2. "proof" \in Packets /\ "proof" \notin {"known", "accepted"} /\ NetworkOK
  BY SoundParts DEF Packets, ToAcceptor
<1>3. /\ packet' \in [Conns -> Packets]
      /\ \A d \in Conns : packet'[d] = packet[d] \/ packet'[d] \notin {"known", "accepted"}
  BY <1>1, <1>2, PutEffect
<1>4. contact[u].status \notin {"Online", "None"} /\ contact[u] \in Contact
  BY AttemptStatus, SoundParts DEF Authenticate
<1> DEFINE k == [contact[u] EXCEPT !.dialling = "Authenticating"]
<1>5. /\ k \in Contact /\ Dials(k)
      /\ k.status = contact[u].status /\ k.request = contact[u].request
  BY <1>4 DEF Contact, Dials, Active
<1>6. contact' = [contact EXCEPT ![u] = k]
  BY SoundParts DEF Authenticate, PeopleOK
<1> HIDE DEF k
<1> QED BY <1>3, <1>4, <1>5, <1>6, WrittenSound DEF Authenticate

LEMMA IgnoreSound ==
  ASSUME Sound, NEW u \in User, NEW c \in Conns, Ignore(u, c)
  PROVE  Sound'
<1>1. contact[u] \in Contact /\ Dials(contact[u])
  BY SoundParts
<1>2. /\ packet' \in [Conns -> Packets]
      /\ \A d \in Conns : packet'[d] = packet[d] \/ packet'[d] \notin {"known", "accepted"}
  BY SoundParts DEF Ignore, NetworkOK, Packets
<1>3. contact' = [contact EXCEPT ![u] = contact[u]]
  BY SoundParts DEF Ignore, PeopleOK
<1> QED BY <1>1, <1>2, <1>3, WrittenSound DEF Ignore

LEMMA RetryAfterErrorSound ==
  ASSUME Sound, NEW u \in User, RetryAfterError(u)
  PROVE  Sound'
<1>1. contact[u] \in Contact /\ Dials(contact[u]) /\ Fits(contact[u])
  BY SoundParts
<1> DEFINE k == [contact[u] EXCEPT !.dialling = "Connecting", !.aimed = FALSE]
<1>2. contact[u].dialling = "Error"
  BY DEF RetryAfterError
<1>3. contact[u].status \notin {"Online", "None"}
  BY <1>1, <1>2 DEF Dials, Fits, NoContact
<1>4. /\ k \in Contact /\ Dials(k)
      /\ k.status = contact[u].status /\ k.request = contact[u].request
  BY <1>1, <1>2, <1>3 DEF Contact, Dials, Active
<1>5. contact' = [contact EXCEPT ![u] = k]
  BY SoundParts DEF RetryAfterError, PeopleOK
<1> HIDE DEF k
<1>6. packet' \in [Conns -> Packets] /\ \A d \in Conns : packet'[d] = packet[d]
  BY SoundParts DEF RetryAfterError, network, NetworkOK
<1> QED BY <1>3, <1>4, <1>5, <1>6, WrittenSound DEF RetryAfterError, network

\* The two steps by which an answer assigns its connection.
LEMMA AssignedSound ==
  ASSUME Sound, NEW u \in User, NEW c \in Conns,
         NEW k \in Contact, Dials(k), Fits(k), k.status # "None",
         k.status = contact[u].status, k.request = contact[u].request,
         NEW a, a = Assignment(u, c, k), Assigns(u, a),
         contact' = [contact EXCEPT ![u] = a.contact],
         packet' \in [Conns -> Packets],
         \A d \in Conns :
           packet'[d] \in {"known", "accepted"} =>
             packet'[d] = packet[d] \/ (dialler[d] # u /\ purpose'[d][u] = "KnownContact"),
         UNCHANGED <<asked, dialler, aged, faults, edits>>
  PROVE  Sound'
<1> USE SoundParts
<1>1. /\ k.status = "Online" => conn[u] # NoConn
      /\ IsUp(u, conn[u]) /\ k.request = "none" /\ k.status # "Online" => Expected(calls[u])
  BY DEF ContactFine
<1>2. /\ a.contact \in Contact /\ Dials(a.contact) /\ Fits(a.contact)
      /\ a.contact.status # "None"
  BY AssignmentFine
<1>3. /\ conn' \in [User -> Conns \cup {NoConn}]
      /\ calls' \in [User -> Seq({"onConnected", "onDisconnected"})]
      /\ socket' \in Ends({"open", "closing", "closed"})
      /\ purpose' \in Ends(Purposes)
      /\ \A v \in User : v # u =>
           /\ conn'[v] = conn[v] /\ calls'[v] = calls[v]
           /\ \A d \in Conns : socket'[d][v] = socket[d][v] /\ purpose'[d][v] = purpose[d][v]
      /\ \A d \in Conns, v \in User : socket'[d][v] = "open" => socket[d][v] = "open"
      /\ Trusts(u)'
  BY <1>1, AssignsFine
<1>4. /\ a.contact.status = "Online" /\ ~a.wins => conn'[u] # NoConn
      /\ a.wins => conn'[u] = c /\ Expected(calls'[u])
      /\ /\ conn'[u] # NoConn /\ socket'[conn'[u]][u] = "open"
         /\ a.contact.request = "none" /\ a.contact.status # "Online"
         => Expected(calls'[u])
  BY <1>1, AssignsFine
<1>5. \A d \in Conns :
        /\ dialler[d] # u /\ purpose[d][u] = "KnownContact" => purpose'[d][u] = "KnownContact"
        /\ dialler[d] = u => purpose'[d][u] # "InboundRequest"
        /\ /\ dialler[d] = u /\ socket'[d][u] = "open" /\ purpose'[d][u] = "KnownContact"
           => purpose[d][u] = "KnownContact" \/ (d = c /\ packet[c] = "known")
  BY <1>1, AssignsFine
<1>6. PeopleOK' /\ contact'[u] = a.contact /\ \A v \in User : v # u => contact'[v] = contact[v]
  BY <1>2, <1>3 DEF PeopleOK
<1>7. NetworkOK' /\ CountsOK'
  BY <1>3 DEF NetworkOK, CountsOK
<1>8. ContactFine(u)'
  <2>1. Listed(u)'
    BY <1>2, <1>6, NoContactType DEF Listed
  <2>2. contact'[u].status = "Online" => conn'[u] # NoConn
    BY <1>4, <1>6, ConnsAssumption
  <2>3. IsUp(u, conn[u])' /\ contact'[u].request = "none" /\ contact'[u].status # "Online"
          => Expected(calls'[u])
    BY <1>4, <1>6 DEF IsUp
  <2> QED BY <1>2, <1>6, <2>1, <2>2, <2>3 DEF ContactFine
<1>9. ASSUME NEW v \in User, v # u PROVE ContactFine(v)' /\ Trusts(v)'
  BY <1>3, <1>6, <1>9, FineKept, TrustsKept
<1>10. ASSUME NEW d \in Conns PROVE Announced(d)'
  <2>1. packet'[d] \in {"known", "accepted"}
          => packet'[d] = packet[d] \/ purpose'[d][Other(dialler[d])] = "KnownContact"
    BY OtherUser
  <2> QED BY <1>3, <1>5, <2>1, AnnouncedAssigned
<1> QED BY <1>3, <1>6, <1>7, <1>8, <1>9, <1>10 DEF Sound

\* Steps that concern neither the ContactUser nor its calls.
LEMMA NetworkSound ==
  ASSUME Sound, NEW u \in User, UNCHANGED <<contact, conn, calls, dialler>>,
         asked' \in [User -> Conns \cup {NoConn, NoRequest, Blocked}],
         packet' \in [Conns -> Packets],
         socket' \in Ends({"open", "closing", "closed"}),
         purpose' \in Ends(Purposes), aged' \in Ends(BOOLEAN), CountsOK',
         \A d \in Conns, v \in User : socket'[d][v] = "open" => socket[d][v] = "open",
         \A d \in Conns, v \in User : v # u =>
           socket'[d][v] = socket[d][v] /\ purpose'[d][v] = purpose[d][v],
         \A d \in Conns :
           /\ purpose'[d][u] = "KnownContact" <=> purpose[d][u] = "KnownContact"
           /\ dialler[d] = u => purpose'[d][u] # "InboundRequest"
           /\ packet'[d] \in {"known", "accepted"} =>
                packet'[d] = packet[d] \/ (dialler[d] # u /\ purpose'[d][u] = "KnownContact")
  PROVE  Sound'
<1> USE SoundParts
<1>1. PeopleOK' /\ NetworkOK'
  BY DEF PeopleOK, NetworkOK
<1>2. ASSUME NEW v \in User PROVE ContactFine(v)' /\ Trusts(v)'
  <2>1. \A d \in Conns : purpose'[d][v] = "KnownContact" => purpose[d][v] = "KnownContact"
    OBVIOUS
  <2> QED BY <2>1, FineKept, TrustsKept
<1>3. ASSUME NEW d \in Conns PROVE Announced(d)'
  <2>1. packet'[d] \in {"known", "accepted"}
          => packet'[d] = packet[d] \/ purpose'[d][Other(dialler[d])] = "KnownContact"
    BY OtherUser
  <2> QED BY <2>1, AnnouncedAssigned
<1> QED BY <1>1, <1>2, <1>3 DEF Sound

LEMMA HandleProofSound ==
  ASSUME Sound, NEW u \in User, NEW c \in Conns, HandleProof(u, c)
  PROVE  Sound'
<1> USE SoundParts
<1>1. packet[c] = "proof" /\ dialler[c] # u
  BY ForMeSide DEF HandleProof, Reads, ToAcceptor
<1>2. PICK p, open : /\ p \in {"known", "unknown"} /\ Put(u, c, p, open)
                     /\ p = "known" => purpose'[c][u] = "KnownContact"
  BY DEF HandleProof
<1>3. /\ packet' \in [Conns -> Packets]
      /\ \A d \in Conns : packet'[d] \in {"known", "accepted"} =>
           packet'[d] = packet[d] \/ (dialler[d] # u /\ purpose'[d][u] = "KnownContact")
  <2>1. p \in Packets
    BY <1>2 DEF Packets, ToDialler
  <2> QED BY <1>1, <1>2, <2>1, PutEffect
<1>4. CASE Listed(u)
  <2>1. PICK k : k = contact[u]
    OBVIOUS
  <2>2. k \in Contact /\ Dials(k) /\ Fits(k) /\ k.status # "None"
    BY <1>4, <2>1 DEF Fits, Listed
  <2>3. PICK a : a = Assignment(u, c, k)
    OBVIOUS
  <2>4. contact' = [contact EXCEPT ![u] = a.contact] /\ Assigns(u, a)
    BY <1>4, <2>1, <2>3 DEF HandleProof
  <2> QED BY <1>3, <2>1, <2>2, <2>3, <2>4, AssignedSound DEF HandleProof
<1>5. CASE ~Listed(u)
  <2>1. UNCHANGED <<contact, conn, purpose, calls, socket, asked, dialler, aged, faults, edits>>
    BY <1>5 DEF HandleProof
  <2>2. \A d \in Conns : dialler[d] = u => purpose'[d][u] # "InboundRequest"
    BY <2>1 DEF Announced
  <2>3. CountsOK'
    BY <2>1 DEF CountsOK
  <2>4. /\ asked' \in [User -> Conns \cup {NoConn, NoRequest, Blocked}]
        /\ socket' \in Ends({"open", "closing", "closed"})
        /\ purpose' \in Ends(Purposes) /\ aged' \in Ends(BOOLEAN)
    BY <2>1 DEF PeopleOK, NetworkOK
  <2> QED BY <1>3, <2>1, <2>2, <2>3, <2>4, NetworkSound
<1> QED BY <1>4, <1>5

LEMMA HandleResultSound ==
  ASSUME Sound, NEW u \in User, NEW c \in Conns, HandleResult(u, c)
  PROVE  Sound'
<1> USE SoundParts
<1>1. contact[u].attempt = c /\ packet' = [packet EXCEPT ![c] = "none"]
  BY DEF HandleResult
<1>2. contact[u].status \notin {"Online", "None"}
  BY <1>1, AttemptStatus
<1>3. PICK k : k = [contact[u] EXCEPT !.dialling = "Inactive", !.attempt = NoConn]
  OBVIOUS
<1>4. /\ k \in Contact /\ Dials(k) /\ k.status = contact[u].status
      /\ k.request = contact[u].request
  BY <1>2, <1>3 DEF Contact, Dials
<1>5. Fits(k) /\ k.status # "None"
  BY <1>2, <1>4 DEF Fits
<1>6. PICK a : a = Assignment(u, c, k)
  OBVIOUS
<1>7. contact' = [contact EXCEPT ![u] = a.contact] /\ Assigns(u, a)
  BY <1>3, <1>6 DEF HandleResult
<1>8. /\ packet' \in [Conns -> Packets]
      /\ \A d \in Conns : packet'[d] \in {"known", "accepted"} => packet'[d] = packet[d]
  BY <1>1 DEF NetworkOK, Packets
<1> QED BY <1>4, <1>5, <1>6, <1>7, <1>8, AssignedSound DEF HandleResult

-----------------------------------------------------------------------------
\* Contact requests.

LEMMA ReceiveRequestSound ==
  ASSUME Sound, NEW u \in User, NEW c \in Conns, ReceiveRequest(u, c)
  PROVE  Sound'
<1> USE SoundParts
<1>1. /\ packet[c] = "request" /\ dialler[c] # u
      /\ purpose[c][u] \in {"KnownContact", "Unknown"}
      /\ UNCHANGED <<contact, conn, calls, dialler, aged, faults, edits>>
  BY ForMeSide DEF ReceiveRequest, Reads, ToAcceptor
<1>2. PICK taken, S, p, open :
        /\ taken \in BOOLEAN
        /\ taken => purpose[c][u] = "Unknown"
        /\ purpose' = IF taken THEN [purpose EXCEPT ![c][u] = "InboundRequest"] ELSE purpose
        /\ asked' = [asked EXCEPT ![u] = c] \/ asked' = asked
        /\ Closes(u, S)
        /\ p \in {"accepted", "refused", "none"} /\ Put(u, c, p, open)
        /\ p = "accepted" => purpose[c][u] = "KnownContact"
  <2> DEFINE fresh == purpose[c][u] = "Unknown"
             taken == fresh /\ asked[u] # Blocked
             S == IF ~taken THEN {} ELSE IF Listed(u) THEN {asked[u], c} ELSE {asked[u]}
             p == IF ~fresh THEN "accepted" ELSE IF Listed(u) \/ ~taken THEN "refused" ELSE "none"
  <2>1. /\ purpose' = IF taken THEN [purpose EXCEPT ![c][u] = "InboundRequest"] ELSE purpose
        /\ asked' = [asked EXCEPT ![u] = c] \/ asked' = asked
        /\ Closes(u, S) /\ Put(u, c, p, IsUp(u, c))
    BY DEF ReceiveRequest
  <2>2. /\ p \in {"accepted", "refused", "none"}
        /\ p = "accepted" => purpose[c][u] = "KnownContact"
        /\ taken => purpose[c][u] = "Unknown"
        /\ taken \in BOOLEAN
    BY <1>1
  <2> HIDE DEF fresh, taken, S, p
  <2> QED BY <2>1, <2>2
<1>3. /\ socket' \in Ends({"open", "closing", "closed"})
      /\ \A d \in Conns, v \in User : socket'[d][v] = "open" => socket[d][v] = "open"
      /\ \A d \in Conns, v \in User : v # u => socket'[d][v] = socket[d][v]
  BY <1>2, ClosesEffect
<1>4. /\ purpose' \in Ends(Purposes)
      /\ \A d \in Conns, v \in User : v # u => purpose'[d][v] = purpose[d][v]
      /\ \A d \in Conns : purpose'[d][u] = IF taken /\ d = c THEN "InboundRequest" ELSE purpose[d][u]
  BY <1>2 DEF NetworkOK, Ends, Purposes
<1>5. p \in Packets
  BY <1>2 DEF Packets, ToDialler
<1>6. /\ packet' \in [Conns -> Packets]
      /\ \A d \in Conns : d # c => packet'[d] = packet[d]
      /\ packet'[c] \in {p, "none"}
  BY <1>2, <1>5, PutEffect
<1>7. \A d \in Conns :
        /\ purpose'[d][u] = "KnownContact" <=> purpose[d][u] = "KnownContact"
        /\ dialler[d] = u => purpose'[d][u] # "InboundRequest"
        /\ packet'[d] \in {"known", "accepted"} =>
             packet'[d] = packet[d] \/ (dialler[d] # u /\ purpose'[d][u] = "KnownContact")
  BY <1>1, <1>2, <1>4, <1>6 DEF Announced
<1>8. /\ asked' \in [User -> Conns \cup {NoConn, NoRequest, Blocked}]
      /\ aged' \in Ends(BOOLEAN) /\ CountsOK'
  BY <1>1, <1>2 DEF PeopleOK, NetworkOK, CountsOK
<1> QED BY <1>1, <1>3, <1>4, <1>6, <1>7, <1>8, NetworkSound

\* Steps that concern one user's side only.
LEMMA UserSound ==
  ASSUME Sound, NEW u \in User, PeopleOK', NetworkOK', CountsOK', dialler' = dialler,
         \A v \in User : v # u =>
           contact'[v] = contact[v] /\ conn'[v] = conn[v] /\ calls'[v] = calls[v],
         \A d \in Conns, v \in User : v # u =>
           socket'[d][v] = socket[d][v] /\ purpose'[d][v] = purpose[d][v],
         ContactFine(u)', Trusts(u)',
         \A d \in Conns :
           /\ socket'[d][u] = "open" => socket[d][u] = "open"
           /\ dialler[d] # u /\ purpose[d][u] = "KnownContact" => purpose'[d][u] = "KnownContact"
           /\ dialler[d] = u => purpose'[d][u] # "InboundRequest"
           /\ dialler[d] = u /\ socket'[d][u] = "open" /\ purpose'[d][u] = "KnownContact"
                => purpose[d][u] = "KnownContact" \/ packet[d] \in {"known", "accepted"}
           /\ packet'[d] \in {"known", "accepted"} =>
                packet'[d] = packet[d] \/ (dialler[d] # u /\ purpose'[d][u] = "KnownContact")
  PROVE  Sound'
<1> USE SoundParts
<1>1. ASSUME NEW v \in User, v # u PROVE ContactFine(v)' /\ Trusts(v)'
  BY <1>1, FineKept, TrustsKept
<1>2. ASSUME NEW d \in Conns PROVE Announced(d)'
  <2>1. packet'[d] \in {"known", "accepted"}
          => packet'[d] = packet[d] \/ purpose'[d][Other(dialler[d])] = "KnownContact"
    BY OtherUser
  <2> QED BY <2>1, AnnouncedAssigned
<1> QED BY <1>1, <1>2 DEF Sound

\* As long as no purpose changes, and nothing is announced.
LEMMA QuietSound ==
  ASSUME Sound, NEW u \in User, PeopleOK', UNCHANGED <<dialler, purpose, aged>>, CountsOK',
         packet' \in [Conns -> Packets], socket' \in Ends({"open", "closing", "closed"}),
         \A v \in User : v # u =>
           contact'[v] = contact[v] /\ conn'[v] = conn[v] /\ calls'[v] = calls[v],
         \A d \in Conns, v \in User : v # u => socket'[d][v] = socket[d][v],
         ContactFine(u)', Trusts(u)',
         \A d \in Conns : socket'[d][u] = "open" => socket[d][u] = "open",
         \A d \in Conns : packet'[d] = packet[d] \/ packet'[d] \notin {"known", "accepted"}
  PROVE  Sound'
<1>1. NetworkOK'
  BY SoundParts DEF NetworkOK
<1>2. \A d \in Conns : dialler[d] = u => purpose[d][u] # "InboundRequest"
  BY SoundParts DEF Announced
<1> QED BY <1>1, <1>2, UserSound

LEMMA ReceiveResponseSound ==
  ASSUME Sound, NEW u \in User, NEW c \in Conns, ReceiveResponse(u, c)
  PROVE  Sound'
<1> USE SoundParts
<1> DEFINE yes == packet[c] = "accepted"
           k == contact[u]
           r == IF yes THEN Accepted(k, IsUp(u, c))
                ELSE Updated([k EXCEPT !.request = "rejected"], IsUp(u, c))
<1>1. /\ packet[c] \in {"accepted", "refused"} /\ dialler[c] = u
      /\ k.request = "active" /\ conn[u] = c
      /\ packet' = [packet EXCEPT ![c] = "none"]
      /\ UNCHANGED <<conn, calls, asked, dialler, aged, faults, edits>>
  BY ForMeSide DEF ReceiveResponse, Reads, Awaited, ToDialler
<1>2. PICK S : Closes(u, S)
  BY DEF ReceiveResponse
<1>3. /\ contact' = [contact EXCEPT ![u] = r]
      /\ purpose' = IF yes THEN [purpose EXCEPT ![c][u] = "KnownContact"] ELSE purpose
  BY DEF ReceiveResponse
<1>4. k \in Contact /\ Dials(k) /\ k.status = "RequestPending" /\ IsUp(u, c) \in BOOLEAN
  BY <1>1 DEF Fits, IsUp
<1>5. /\ r \in Contact /\ Dials(r) /\ Fits(r) /\ r.status # "None"
      /\ IsUp(u, c) /\ r.request = "none" => r.status = "Online"
  <2>1. CASE yes
    <3>1. r = Accepted(k, IsUp(u, c))
      BY <2>1
    <3> HIDE DEF r, k
    <3> QED BY <1>4, <3>1, AcceptedFine
  <2>2. CASE ~yes
    <3> DEFINE m == [k EXCEPT !.request = "rejected"]
    <3>1. m \in Contact /\ Dials(m) /\ m.status # "None" /\ m.request = "rejected"
      BY <1>4 DEF Contact, Dials
    <3>2. r = Updated(m, IsUp(u, c))
      BY <2>2
    <3> HIDE DEF r, k, m
    <3> QED BY <1>4, <3>1, <3>2, UpdatedFine
  <2> QED BY <2>1, <2>2
<1> HIDE DEF r
<1>6. /\ socket' \in Ends({"open", "closing", "closed"})
      /\ \A d \in Conns, v \in User : socket'[d][v] = "open" => socket[d][v] = "open"
      /\ \A d \in Conns, v \in User : v # u => socket'[d][v] = socket[d][v]
  BY <1>2, ClosesEffect
<1>7. /\ purpose' \in Ends(Purposes)
      /\ \A d \in Conns, v \in User : v # u => purpose'[d][v] = purpose[d][v]
      /\ \A d \in Conns : purpose'[d][u] = IF yes /\ d = c THEN "KnownContact" ELSE purpose[d][u]
  BY <1>3 DEF NetworkOK, Ends, Purposes
<1>8. PeopleOK' /\ contact'[u] = r /\ \A v \in User : v # u => contact'[v] = contact[v]
  BY <1>1, <1>3, <1>5 DEF PeopleOK
<1>9. NetworkOK' /\ CountsOK' /\ \A d \in Conns : packet'[d] = IF d = c THEN "none" ELSE packet[d]
  BY <1>1, <1>6, <1>7 DEF NetworkOK, CountsOK, Packets
<1>10. ContactFine(u)'
  <2>1. Listed(u)'
    BY <1>5, <1>8, NoContactType DEF Listed
  <2>2. conn'[u] = c /\ c # NoConn
    BY <1>1, ConnsAssumption
  <2>3. IsUp(u, conn[u])' => IsUp(u, c)
    BY <1>6, <2>2 DEF IsUp
  <2> QED BY <1>5, <1>8, <2>1, <2>2, <2>3 DEF ContactFine
<1>11. Trusts(u)'
  BY <1>1, <1>6, <1>7 DEF Trusts, IsUp
<1>12. \A d \in Conns : dialler[d] = u => purpose[d][u] # "InboundRequest"
  BY DEF Announced
<1> QED BY <1>1, <1>6, <1>7, <1>8, <1>9, <1>10, <1>11, <1>12, UserSound

LEMMA RejectRequestSound ==
  ASSUME Sound, NEW u \in User, RejectRequest(u)
  PROVE  Sound'
<1> USE SoundParts
<1>1. /\ UNCHANGED <<contact, conn, calls, dialler, purpose, aged, faults, edits>>
      /\ asked' = [asked EXCEPT ![u] = NoRequest]
  BY DEF RejectRequest
<1>2. /\ packet' \in [Conns -> Packets]
      /\ \A d \in Conns : packet'[d] \in {"known", "accepted"} => packet'[d] = packet[d]
      /\ socket' \in Ends({"open", "closing", "closed"})
      /\ \A d \in Conns, v \in User : socket'[d][v] = "open" => socket[d][v] = "open"
      /\ \A d \in Conns, v \in User : v # u => socket'[d][v] = socket[d][v]
  <2>1. CASE asked[u] # NoConn
    <3>1. PICK c \in Conns : c = asked[u]
      BY <2>1 DEF RejectRequest, Asked
    <3>2. PICK open : Put(u, c, "refused", open)
      BY <2>1, <3>1 DEF RejectRequest
    <3>3. PICK S : Closes(u, S)
      BY <2>1 DEF RejectRequest
    <3>4. "refused" \in Packets
      BY DEF Packets, ToDialler
    <3>5. /\ packet' \in [Conns -> Packets]
          /\ \A d \in Conns : d # c => packet'[d] = packet[d]
          /\ packet'[c] \in {"refused", "none"}
      BY <3>2, <3>4, PutEffect
    <3> QED BY <3>3, <3>5, ClosesEffect
  <2>2. CASE asked[u] = NoConn
    BY <2>2 DEF RejectRequest, NetworkOK
  <2> QED BY <2>1, <2>2
<1>3. /\ asked' \in [User -> Conns \cup {NoConn, NoRequest, Blocked}]
      /\ purpose' \in Ends(Purposes) /\ aged' \in Ends(BOOLEAN) /\ CountsOK'
  BY <1>1 DEF PeopleOK, NetworkOK, CountsOK
<1>4. \A d \in Conns : dialler[d] = u => purpose'[d][u] # "InboundRequest"
  BY <1>1 DEF Announced
<1> QED BY <1>1, <1>2, <1>3, <1>4, NetworkSound

LEMMA DeleteContactSound ==
  ASSUME Sound, NEW u \in User, DeleteContact(u)
  PROVE  Sound'
<1> USE SoundParts
<1>1. /\ edits < MaxEdits /\ edits' = edits + 1
      /\ contact' = [contact EXCEPT ![u] = NoContact]
      /\ conn' = [conn EXCEPT ![u] = NoConn] /\ calls' = [calls EXCEPT ![u] = << >>]
      /\ UNCHANGED <<asked, dialler, packet, purpose, aged, faults>>
  BY DEF DeleteContact
<1>2. PICK S : conn[u] \in S /\ Closes(u, S)
  BY DEF DeleteContact
<1>3. /\ socket' \in Ends({"open", "closing", "closed"})
      /\ \A d \in Conns, v \in User : socket'[d][v] = "open" => socket[d][v] = "open"
      /\ \A d \in Conns, v \in User : v # u => socket'[d][v] = socket[d][v]
      /\ \A d \in Conns \cap S : socket'[d][u] # "open"
  BY <1>2, ClosesEffect
<1>4. /\ PeopleOK' /\ contact'[u] = NoContact /\ conn'[u] = NoConn /\ calls'[u] = << >>
      /\ \A v \in User : v # u =>
           contact'[v] = contact[v] /\ conn'[v] = conn[v] /\ calls'[v] = calls[v]
  BY <1>1, NoContactType DEF PeopleOK
<1>5. CountsOK'
  BY <1>1, BoundsAssumption DEF CountsOK
<1>6. ContactFine(u)'
  BY <1>4, NoContactType DEF ContactFine, Listed, IsUp
<1>7. Trusts(u)'
  BY <1>1, <1>2, <1>3, ConnsAssumption DEF Trusts, IsUp
<1>8. packet' \in [Conns -> Packets]
  BY <1>1 DEF NetworkOK
<1> QED BY <1>1, <1>3, <1>4, <1>5, <1>6, <1>7, <1>8, QuietSound

LEMMA TakeRequestSound ==
  ASSUME Sound, NEW u \in User, NEW own \in BOOLEAN, Asked(u), ~Listed(u), TakeRequest(u, own),
         UNCHANGED <<dialler, aged, faults>>, edits' \in 0..MaxEdits
  PROVE  Sound'
<1> USE SoundParts
<1>1. /\ conn[u] = NoConn /\ calls[u] = << >>
      /\ asked' = [asked EXCEPT ![u] = NoRequest]
      /\ CountsOK'
  BY DEF ContactFine, TakeRequest, CountsOK
<1>2. /\ NewContact \in Contact /\ Dials(NewContact) /\ Fits(NewContact)
      /\ NewContact.status = "Offline"
  BY NewContactFine
<1> DEFINE Final(k, up) == IF own THEN Updated([Updated(k, up) EXCEPT !.request = "active"], up)
                           ELSE Updated(k, up)
<1>3. ASSUME NEW k \in Contact, Dials(k), k.status # "None", NEW up \in BOOLEAN
      PROVE  /\ Final(k, up) \in Contact /\ Dials(Final(k, up)) /\ Fits(Final(k, up))
             /\ Final(k, up).status # "None"
             /\ Final(k, up).status = "Online" => up
  <2> DEFINE m == Updated(k, up)
  <2>1. m \in Contact /\ Dials(m) /\ Fits(m) /\ m.status # "None" /\ m.status = StatusOf(k, up)
    BY <1>3, UpdatedFine
  <2>2. m.status = "Online" => up
    BY <1>3, <2>1, StatusOfType
  <2> HIDE DEF m
  <2>3. CASE own
    <3> DEFINE j == [m EXCEPT !.request = "active"]
    <3>1. j \in Contact /\ Dials(j) /\ j.status # "None"
      BY <2>1 DEF Contact, Dials
    <3>2. Final(k, up) = Updated(j, up)
      BY <2>3 DEF m
    <3> HIDE DEF j, Final
    <3>3. StatusOf(j, up) = "Online" => up
      BY <3>1, <1>3, StatusOfType
    <3> QED BY <1>3, <3>1, <3>2, <3>3, UpdatedFine
  <2>4. CASE ~own
    <3>1. Final(k, up) = m
      BY <2>4 DEF m
    <3> QED BY <2>1, <2>2, <3>1
  <2> QED BY <2>3, <2>4
<1> DEFINE usable == asked[u] # NoConn /\ purpose[asked[u]][u] = "InboundRequest"
<1>4. CASE usable
  <2>1. PICK c \in Conns : c = asked[u]
    BY <1>4 DEF Asked
  <2>2. PICK a : a = Assignment(u, c, NewContact)
    OBVIOUS
  <2>3. /\ contact' = [contact EXCEPT ![u] = Final(a.contact, a.wins)]
        /\ Assigns(u, a) /\ Put(u, c, "accepted", a.wins)
    <3>1. (usable /\ a.wins) = a.wins
      <4>1. a.wins \in BOOLEAN
        BY <1>2, <2>2, AssignmentFine
      <4> QED BY <1>4, <4>1
    <3> QED BY <1>4, <2>1, <2>2, <3>1 DEF TakeRequest
  <2>4. /\ a.contact \in Contact /\ Dials(a.contact) /\ Fits(a.contact)
        /\ a.contact.status # "None" /\ a.wins \in BOOLEAN
        /\ ~a.wins => a.conn \in {conn[u], NoConn}
    BY <1>2, <2>2, AssignmentFine
  <2>5. PICK f : f = Final(a.contact, a.wins)
    OBVIOUS
  <2>6. /\ f \in Contact /\ Dials(f) /\ Fits(f) /\ f.status # "None"
        /\ f.status = "Online" => a.wins
    BY <1>3, <2>4, <2>5
  <2>7. contact' = [contact EXCEPT ![u] = f]
    BY <2>3, <2>5
  <2> HIDE DEF Final, usable
  <2>8. /\ conn' \in [User -> Conns \cup {NoConn}]
        /\ calls' \in [User -> Seq({"onConnected", "onDisconnected"})]
        /\ socket' \in Ends({"open", "closing", "closed"})
        /\ purpose' \in Ends(Purposes)
        /\ \A v \in User : v # u =>
             /\ conn'[v] = conn[v] /\ calls'[v] = calls[v]
             /\ \A d \in Conns : socket'[d][v] = socket[d][v] /\ purpose'[d][v] = purpose[d][v]
        /\ \A d \in Conns, v \in User : socket'[d][v] = "open" => socket[d][v] = "open"
        /\ Trusts(u)'
    BY <1>1, <1>2, <2>2, <2>3, AssignsFine DEF IsUp
  <2>9. /\ a.wins => conn'[u] = c /\ Expected(calls'[u])
        /\ a.wins /\ dialler[c] # u => purpose'[c][u] = "KnownContact"
    BY <1>1, <1>2, <2>2, <2>3, AssignsFine DEF IsUp
  <2>10. \A d \in Conns :
           /\ dialler[d] # u /\ purpose[d][u] = "KnownContact" => purpose'[d][u] = "KnownContact"
           /\ dialler[d] = u => purpose'[d][u] # "InboundRequest"
           /\ /\ dialler[d] = u /\ socket'[d][u] = "open" /\ purpose'[d][u] = "KnownContact"
              => purpose[d][u] = "KnownContact" \/ (d = c /\ packet[c] = "known")
    BY <1>1, <1>2, <2>2, <2>3, AssignsFine DEF IsUp
  <2>11. ~a.wins => conn'[u] = NoConn
    BY <1>1, <2>3, <2>4 DEF Assigns, PeopleOK
  <2>12. dialler[c] # u
    BY <1>4, <2>1 DEF Announced, usable
  <2>13. "accepted" \in Packets
    BY DEF Packets, ToDialler
  <2>14. /\ packet' \in [Conns -> Packets]
         /\ \A d \in Conns : d # c => packet'[d] = packet[d]
         /\ packet'[c] \in {"accepted", "none"}
         /\ ~a.wins => packet'[c] = "none"
    BY <2>3, <2>13, PutEffect
  <2>15. PeopleOK' /\ contact'[u] = f /\ \A v \in User : v # u => contact'[v] = contact[v]
    BY <1>1, <2>6, <2>7, <2>8 DEF PeopleOK
  <2>16. NetworkOK'
    BY <2>8, <2>14 DEF NetworkOK
  <2>17. ContactFine(u)'
    <3>1. Listed(u)'
      BY <2>6, <2>15, NoContactType DEF Listed
    <3>2. a.wins => Expected(calls'[u]) /\ conn'[u] # NoConn
      BY <2>9, ConnsAssumption
    <3>3. ~a.wins => ~IsUp(u, conn[u])'
      BY <2>11 DEF IsUp
    <3> QED BY <2>4, <2>6, <2>15, <3>1, <3>2, <3>3 DEF ContactFine
  <2>18. \A d \in Conns : packet'[d] \in {"known", "accepted"} =>
           packet'[d] = packet[d] \/ (dialler[d] # u /\ purpose'[d][u] = "KnownContact")
    BY <2>9, <2>12, <2>14
  <2> QED BY <1>1, <2>8, <2>10, <2>15, <2>16, <2>17, <2>18, UserSound
<1>5. CASE ~usable
  <2>1. PICK f : f = Final(NewContact, FALSE)
    OBVIOUS
  <2>2. /\ contact' = [contact EXCEPT ![u] = f]
        /\ UNCHANGED <<conn, purpose, calls, socket, packet>>
    BY <1>5, <2>1 DEF TakeRequest
  <2>3. f \in Contact /\ Dials(f) /\ Fits(f) /\ f.status \notin {"None", "Online"}
    BY <1>2, <1>3, <2>1
  <2> HIDE DEF Final, usable
  <2>4. PeopleOK' /\ contact'[u] = f /\ \A v \in User : v # u => contact'[v] = contact[v]
    BY <1>1, <2>2, <2>3 DEF PeopleOK
  <2>5. ContactFine(u)'
    BY <1>1, <2>2, <2>3, <2>4, NoContactType DEF ContactFine, Listed, IsUp
  <2>6. Trusts(u)'
    BY <2>2, TrustsKept
  <2>7. packet' \in [Conns -> Packets] /\ socket' \in Ends({"open", "closing", "closed"})
    BY <2>2 DEF NetworkOK
  <2> QED BY <1>1, <2>2, <2>4, <2>5, <2>6, <2>7, QuietSound
<1> QED BY <1>4, <1>5

LEMMA AddContactSound ==
  ASSUME Sound, NEW u \in User, AddContact(u)
  PROVE  Sound'
<1> USE SoundParts
<1>1. edits' \in 0..MaxEdits /\ UNCHANGED <<dialler, aged, faults>> /\ ~Listed(u)
  BY BoundsAssumption DEF AddContact, CountsOK
<1>2. CASE Asked(u)
  BY <1>1, <1>2, TakeRequestSound DEF AddContact
<1>3. CASE ~Asked(u)
  <2>1. PICK f : f = Loaded("pending")
    OBVIOUS
  <2>2. /\ contact' = [contact EXCEPT ![u] = f]
        /\ UNCHANGED <<conn, purpose, calls, socket, packet, asked>>
    BY <1>3, <2>1 DEF AddContact
  <2>3. f \in Contact /\ Dials(f) /\ Fits(f) /\ f.status \notin {"None", "Online"}
    BY <2>1, LoadedFine DEF UserTypes
  <2>4. PeopleOK' /\ contact'[u] = f /\ \A v \in User : v # u => contact'[v] = contact[v]
    BY <1>1, <2>2, <2>3 DEF PeopleOK
  <2>5. ContactFine(u)'
    BY <1>1, <2>2, <2>3, <2>4, NoContactType DEF ContactFine, Listed, IsUp
  <2>6. Trusts(u)'
    BY <2>2, TrustsKept
  <2>7. packet' \in [Conns -> Packets] /\ socket' \in Ends({"open", "closing", "closed"})
    BY <2>2 DEF NetworkOK
  <2>8. CountsOK'
    BY <1>1 DEF CountsOK
  <2> QED BY <1>1, <2>2, <2>4, <2>5, <2>6, <2>7, <2>8, QuietSound
<1> QED BY <1>2, <1>3

LEMMA AcceptRequestSound ==
  ASSUME Sound, NEW u \in User, AcceptRequest(u)
  PROVE  Sound'
<1>1. edits' \in 0..MaxEdits /\ UNCHANGED <<dialler, aged, faults>>
  BY SoundParts DEF AcceptRequest, CountsOK
<1> QED BY <1>1, TakeRequestSound DEF AcceptRequest

-----------------------------------------------------------------------------
\* Posted calls.

LEMMA HeadTaken ==
  ASSUME NEW s \in Seq({"onConnected", "onDisconnected"}), s # << >>
  PROVE  /\ Tail(s) \in Seq({"onConnected", "onDisconnected"})
         /\ Head(s) # "onConnected" /\ Expected(s) => Expected(Tail(s))
<1>1. /\ Tail(s) \in Seq({"onConnected", "onDisconnected"}) /\ Len(Tail(s)) = Len(s) - 1
      /\ Head(s) = s[1] /\ Len(s) \in Nat
      /\ \A n \in 1..Len(Tail(s)) : Tail(s)[n] = s[n + 1]
  BY HeadTailProperties, LenProperties
<1>2. ASSUME Head(s) # "onConnected", Expected(s)
      PROVE  Expected(Tail(s))
  <2>1. PICK n \in 1..Len(s) : s[n] = "onConnected"
    BY <1>2 DEF Expected
  <2>2. n # 1
    BY <1>1, <1>2, <2>1
  <2>3. n - 1 \in 1..Len(Tail(s)) /\ (n - 1) + 1 = n
    BY <1>1, <2>1, <2>2
  <2>4. Tail(s)[n - 1] = "onConnected"
    BY <1>1, <2>1, <2>3
  <2> QED BY <2>3, <2>4 DEF Expected
<1> QED BY <1>1, <1>2

LEMMA OnConnectedSound ==
  ASSUME Sound, NEW u \in User, OnConnected(u)
  PROVE  Sound'
<1> USE SoundParts
<1>1. /\ calls[u] # << >> /\ calls' = [calls EXCEPT ![u] = Tail(calls[u])]
      /\ UNCHANGED <<conn, asked, dialler, purpose, aged, faults, edits>>
  BY DEF OnConnected, PeopleOK
<1>2. Listed(u)
  BY <1>1 DEF ContactFine
<1>3. /\ calls' \in [User -> Seq({"onConnected", "onDisconnected"})]
      /\ \A v \in User : v # u => calls'[v] = calls[v]
  BY <1>1, HeadTaken DEF PeopleOK
<1>4. CountsOK'
  BY <1>1 DEF CountsOK
<1>5. CASE IsUp(u, conn[u])
  <2>1. PICK c \in Conns : c = conn[u]
    BY <1>5 DEF IsUp
  <2>2. PICK k : k = Updated(contact[u], TRUE)
    OBVIOUS
  <2>3. contact' = [contact EXCEPT ![u] = k]
    BY <1>5, <2>2 DEF OnConnected
  <2>4. PICK S : Closes(u, S)
    BY <1>5 DEF OnConnected
  <2>5. UNCHANGED packet \/ Put(u, c, "request", TRUE)
    BY <1>5, <2>1 DEF OnConnected
  <2>6. contact[u].status # "None"
    BY <1>2 DEF Fits, Listed
  <2>7. /\ k \in Contact /\ Dials(k) /\ Fits(k) /\ k.status # "None"
        /\ k.request = "none" => k.status = "Online"
    BY <2>2, <2>6, UpdatedFine, StatusOfType
  <2>8. /\ socket' \in Ends({"open", "closing", "closed"})
        /\ \A d \in Conns, v \in User : socket'[d][v] = "open" => socket[d][v] = "open"
        /\ \A d \in Conns, v \in User : v # u => socket'[d][v] = socket[d][v]
    BY <2>4, ClosesEffect
  <2>9. "request" \in Packets
    BY DEF Packets, ToAcceptor
  <2>10. /\ packet' \in [Conns -> Packets]
         /\ \A d \in Conns : packet'[d] = packet[d] \/ packet'[d] \notin {"known", "accepted"}
    <3>1. CASE UNCHANGED packet
      BY <3>1 DEF NetworkOK
    <3>2. CASE Put(u, c, "request", TRUE)
      BY <2>9, <3>2, PutEffect
    <3> QED BY <2>5, <3>1, <3>2
  <2>11. PeopleOK' /\ contact'[u] = k /\ \A v \in User : v # u => contact'[v] = contact[v]
    BY <1>1, <1>3, <2>3, <2>7 DEF PeopleOK
  <2>12. ContactFine(u)'
    <3>1. Listed(u)'
      BY <2>7, <2>11, NoContactType DEF Listed
    <3>2. conn'[u] # NoConn
      BY <1>1, <2>1, ConnsAssumption
    <3> QED BY <2>7, <2>11, <3>1, <3>2 DEF ContactFine
  <2>13. Trusts(u)'
    BY <1>1, <2>8, TrustsKept
  <2> QED BY <1>1, <1>3, <1>4, <2>8, <2>10, <2>11, <2>12, <2>13, QuietSound
<1>6. CASE ~IsUp(u, conn[u])
  <2>1. UNCHANGED <<contact, socket, packet>>
    BY <1>6 DEF OnConnected
  <2>2. PeopleOK'
    BY <1>1, <1>3, <2>1 DEF PeopleOK
  <2>3. ContactFine(u)'
    BY <1>1, <1>2, <1>6, <2>1 DEF ContactFine, Listed, IsUp
  <2>4. Trusts(u)'
    BY <1>1, <2>1, TrustsKept
  <2>5. packet' \in [Conns -> Packets] /\ socket' \in Ends({"open", "closing", "closed"})
    BY <2>1 DEF NetworkOK
  <2> QED BY <1>1, <1>3, <1>4, <2>1, <2>2, <2>3, <2>4, <2>5, QuietSound
<1> QED BY <1>5, <1>6

LEMMA OnDisconnectedSound ==
  ASSUME Sound, NEW u \in User, OnDisconnected(u)
  PROVE  Sound'
<1> USE SoundParts
<1>1. /\ calls[u] # << >> /\ Head(calls[u]) = "onDisconnected"
      /\ calls' = [calls EXCEPT ![u] = Tail(calls[u])]
      /\ UNCHANGED <<asked, dialler, packet, purpose, aged, faults, edits>>
  BY DEF OnDisconnected, PeopleOK
<1>2. Listed(u)
  BY <1>1 DEF ContactFine
<1>3. /\ calls' \in [User -> Seq({"onConnected", "onDisconnected"})]
      /\ \A v \in User : v # u => calls'[v] = calls[v]
      /\ Expected(calls[u]) => Expected(calls'[u])
  BY <1>1, HeadTaken DEF PeopleOK
<1>4. CountsOK' /\ packet' \in [Conns -> Packets]
  BY <1>1 DEF CountsOK, NetworkOK
<1>5. PICK S : Closes(u, S)
  BY DEF OnDisconnected
<1>6. /\ socket' \in Ends({"open", "closing", "closed"})
      /\ \A d \in Conns, v \in User : socket'[d][v] = "open" => socket[d][v] = "open"
      /\ \A d \in Conns, v \in User : v # u => socket'[d][v] = socket[d][v]
  BY <1>5, ClosesEffect
<1>7. contact[u].status # "None"
  BY <1>2 DEF Fits, Listed
<1>8. CASE IsUp(u, conn[u])
  <2>1. UNCHANGED <<contact, conn>>
    BY <1>8 DEF OnDisconnected
  <2>2. PeopleOK'
    BY <1>1, <1>3, <2>1 DEF PeopleOK
  <2>3. ContactFine(u)'
    BY <1>3, <1>6, <1>7, <2>1, FineMoved
  <2>4. Trusts(u)'
    BY <1>1, <1>6, <2>1, TrustsKept
  <2> QED BY <1>1, <1>3, <1>4, <1>6, <2>1, <2>2, <2>3, <2>4, QuietSound
<1>9. CASE ~IsUp(u, conn[u])
  <2>1. PICK k : k = Updated(contact[u], FALSE)
    OBVIOUS
  <2>2. contact' = [contact EXCEPT ![u] = k] /\ conn' = [conn EXCEPT ![u] = NoConn]
    BY <1>9, <2>1 DEF OnDisconnected, PeopleOK
  <2>3. k \in Contact /\ Dials(k) /\ Fits(k) /\ k.status \notin {"None", "Online"}
    BY <1>7, <2>1, UpdatedFine, StatusOfType
  <2>4. /\ PeopleOK' /\ contact'[u] = k /\ conn'[u] = NoConn
        /\ \A v \in User : v # u => contact'[v] = contact[v] /\ conn'[v] = conn[v]
    BY <1>1, <1>3, <2>2, <2>3 DEF PeopleOK
  <2>5. ContactFine(u)'
    BY <2>3, <2>4, NoContactType DEF ContactFine, Listed, IsUp
  <2>6. Trusts(u)'
    BY <1>1, <1>6, <1>9, ConnsAssumption DEF Trusts, IsUp
  <2> QED BY <1>1, <1>3, <1>4, <1>6, <2>4, <2>5, <2>6, QuietSound
<1> QED BY <1>8, <1>9

-----------------------------------------------------------------------------
\* Sockets and timers.

LEMMA SocketDisconnectedSound ==
  ASSUME Sound, NEW u \in User, NEW c \in Conns, SocketDisconnected(u, c),
         packet' = [packet EXCEPT ![c] = "none"] \/ UNCHANGED packet,
         faults' \in 0..MaxFaults
  PROVE  Sound'
<1> USE SoundParts
<1>1. /\ socket' = [socket EXCEPT ![c][u] = "closed"]
      /\ calls' = IF conn[u] = c THEN [calls EXCEPT ![u] = Append(calls[u], "onDisconnected")]
                  ELSE calls
      /\ asked' = IF asked[u] = c THEN [asked EXCEPT ![u] = NoConn] ELSE asked
      /\ contact' = IF contact[u].attempt = c /\ contact[u].dialling \in {"Opening", "Authenticating"}
                    THEN [contact EXCEPT ![u] = Failed(contact[u])] ELSE contact
      /\ UNCHANGED <<conn, dialler, purpose, aged, edits>>
  BY DEF SocketDisconnected, PeopleOK
<1>2. /\ socket' \in Ends({"open", "closing", "closed"})
      /\ \A d \in Conns, v \in User : socket'[d][v] = "open" => socket[d][v] = "open"
      /\ \A d \in Conns, v \in User : v # u => socket'[d][v] = socket[d][v]
  BY <1>1 DEF NetworkOK, Ends
<1>3. /\ packet' \in [Conns -> Packets]
      /\ \A d \in Conns : packet'[d] = packet[d] \/ packet'[d] \notin {"known", "accepted"}
  BY DEF NetworkOK, Packets
<1>4. CountsOK'
  BY <1>1 DEF CountsOK
<1>5. /\ calls' \in [User -> Seq({"onConnected", "onDisconnected"})]
      /\ \A v \in User : v # u => calls'[v] = calls[v]
      /\ Expected(calls[u]) => Expected(calls'[u])
      /\ conn[u] = NoConn => calls'[u] = calls[u]
  <2>1. CASE conn[u] = c
    <3> DEFINE s == Append(calls[u], "onDisconnected")
    <3>1. /\ s \in Seq({"onConnected", "onDisconnected"}) /\ Len(s) = Len(calls[u]) + 1
          /\ \A n \in 1..Len(calls[u]) : s[n] = calls[u][n]
          /\ Len(calls[u]) \in Nat
      BY AppendProperties, LenProperties
    <3>2. Expected(calls[u]) => Expected(s)
      BY <3>1 DEF Expected
    <3>3. calls' = [calls EXCEPT ![u] = s]
      BY <1>1, <2>1
    <3> HIDE DEF s
    <3> QED BY <2>1, <3>1, <3>2, <3>3, ConnsAssumption DEF PeopleOK
  <2>2. CASE conn[u] # c
    BY <1>1, <2>2 DEF PeopleOK
  <2> QED BY <2>1, <2>2
<1>6. asked' \in [User -> Conns \cup {NoConn, NoRequest, Blocked}]
  BY <1>1 DEF PeopleOK
<1>7. Trusts(u)'
  BY <1>1, <1>2, TrustsKept
<1>8. CASE contact[u].attempt = c /\ contact[u].dialling \in {"Opening", "Authenticating"}
  <2>1. PICK k : k = Failed(contact[u])
    OBVIOUS
  <2>2. contact[u].status \notin {"Online", "None"}
    BY <1>8, AttemptStatus
  <2>3. /\ k \in Contact /\ Dials(k)
        /\ k.status = contact[u].status /\ k.request = contact[u].request
    BY <2>1, <2>2, FailedFine
  <2>4. contact' = [contact EXCEPT ![u] = k]
    BY <1>1, <1>8, <2>1
  <2>5. PeopleOK' /\ contact'[u] = k /\ \A v \in User : v # u => contact'[v] = contact[v]
    BY <1>1, <1>5, <1>6, <2>3, <2>4 DEF PeopleOK
  <2>6. ContactFine(u)'
    BY <1>1, <1>2, <1>5, <2>2, <2>3, <2>5, FineMoved
  <2> QED BY <1>1, <1>2, <1>3, <1>4, <1>5, <1>7, <2>5, <2>6, QuietSound
<1>9. CASE ~(contact[u].attempt = c /\ contact[u].dialling \in {"Opening", "Authenticating"})
  <2>1. contact' = contact
    BY <1>1, <1>9
  <2>2. PeopleOK'
    BY <1>1, <1>5, <1>6, <2>1 DEF PeopleOK
  <2>3. ContactFine(u)'
    <3>1. CASE contact[u].status = "None"
      BY <1>1, <1>2, <1>5, <2>1, <3>1, NoContactType DEF Fits, ContactFine, Listed, IsUp
    <3>2. CASE contact[u].status # "None"
      BY <1>1, <1>2, <1>5, <2>1, <3>2, FineMoved
    <3> QED BY <3>1, <3>2
  <2> QED BY <1>1, <1>2, <1>3, <1>4, <1>5, <1>7, <2>1, <2>2, <2>3, QuietSound
<1> QED BY <1>8, <1>9

LEMMA UnknownPurposeTimeoutSound ==
  ASSUME Sound, NEW u \in User, NEW c \in Conns, UnknownPurposeTimeout(u, c)
  PROVE  Sound'
<1> USE SoundParts
<1>1. /\ UNCHANGED <<contact, conn, calls, asked, dialler, packet, purpose, aged, edits>>
      /\ faults' \in 0..MaxFaults
  BY BoundsAssumption DEF UnknownPurposeTimeout, InTime, Late, CountsOK
<1>2. PICK S : Closes(u, S)
  BY DEF UnknownPurposeTimeout
<1>3. /\ socket' \in Ends({"open", "closing", "closed"})
      /\ \A d \in Conns, v \in User : socket'[d][v] = "open" => socket[d][v] = "open"
      /\ \A d \in Conns, v \in User : v # u => socket'[d][v] = socket[d][v]
  BY <1>2, ClosesEffect
<1>4. /\ asked' \in [User -> Conns \cup {NoConn, NoRequest, Blocked}]
      /\ packet' \in [Conns -> Packets]
      /\ purpose' \in Ends(Purposes) /\ aged' \in Ends(BOOLEAN) /\ CountsOK'
  BY <1>1 DEF PeopleOK, NetworkOK, CountsOK
<1>5. \A d \in Conns : dialler[d] = u => purpose'[d][u] # "InboundRequest"
  BY <1>1 DEF Announced
<1> QED BY <1>1, <1>3, <1>4, <1>5, NetworkSound

LEMMA AgeSound ==
  ASSUME Sound, NEW u \in User, NEW c \in Conns, Age(u, c)
  PROVE  Sound'
<1> USE SoundParts
<1>1. UNCHANGED <<contact, conn, calls, asked, dialler, packet, socket, purpose, edits>>
  BY DEF Age
<1>2. faults' \in 0..MaxFaults
  BY BoundsAssumption DEF Age, CountsOK
<1>3. aged' \in Ends(BOOLEAN)
  BY DEF Age, NetworkOK, Ends
<1>4. /\ asked' \in [User -> Conns \cup {NoConn, NoRequest, Blocked}]
      /\ packet' \in [Conns -> Packets] /\ socket' \in Ends({"open", "closing", "closed"})
      /\ purpose' \in Ends(Purposes) /\ CountsOK'
  BY <1>1, <1>2 DEF PeopleOK, NetworkOK, CountsOK
<1>5. \A d \in Conns : dialler[d] = u => purpose'[d][u] # "InboundRequest"
  BY <1>1 DEF Announced
<1> QED BY <1>1, <1>3, <1>4, <1>5, NetworkSound

-----------------------------------------------------------------------------
\* The theorems.

LEMMA InitSound == Init => Sound
<1> SUFFICES ASSUME Init PROVE Sound
  OBVIOUS
<1>1. PICK l \in Lists :
        /\ contact = [u \in User |-> Loaded(l[u])]
        /\ asked = [u \in User |-> CASE l[u] = "requesting" -> NoConn
                                   [] l[u] = "blocked" -> Blocked
                                   [] OTHER -> NoRequest]
  BY DEF Init
<1>2. \A u \in User : l[u] \in UserTypes
  BY ListsAssumption
<1>3. \A u \in User :
        /\ contact[u] \in Contact /\ Dials(contact[u]) /\ Fits(contact[u])
        /\ contact[u].status # "Online"
  BY <1>1, <1>2, LoadedFine
<1>4. /\ conn = [u \in User |-> NoConn] /\ calls = [u \in User |-> << >>]
      /\ dialler = [c \in Conns |-> "a"] /\ packet = [c \in Conns |-> "none"]
      /\ socket = [c \in Conns |-> [u \in User |-> "closed"]]
      /\ purpose = [c \in Conns |-> [u \in User |-> "Unknown"]]
      /\ aged = [c \in Conns |-> [u \in User |-> FALSE]]
      /\ faults = 0 /\ edits = 0
  BY DEF Init
<1>5. asked \in [User -> Conns \cup {NoConn, NoRequest, Blocked}]
  BY <1>1
<1>6. PeopleOK
  <2>1. contact \in [User -> Contact]
    BY <1>1, <1>3
  <2> QED BY <1>4, <1>5, <2>1 DEF PeopleOK
<1>7. NetworkOK
  BY <1>4 DEF NetworkOK, Ends, Packets, Purposes, User
<1>8. CountsOK
  BY <1>4, BoundsAssumption DEF CountsOK
<1>9. ASSUME NEW u \in User PROVE ContactFine(u) /\ Trusts(u)
  BY <1>3, <1>4 DEF ContactFine, Trusts, IsUp
<1>10. ASSUME NEW c \in Conns PROVE Announced(c)
  BY <1>4 DEF Announced, IsUp, User
<1> QED BY <1>6, <1>7, <1>8, <1>9, <1>10 DEF Sound

LEMMA ReadSound ==
  ASSUME Sound, NEW u \in User, NEW c \in Conns, Read(u, c)
  PROVE  Sound'
BY AnswerSound, StartAuthenticationSound, AuthenticateSound, HandleProofSound, HandleResultSound,
   ReceiveRequestSound, ReceiveResponseSound, IgnoreSound DEF Read

LEMMA StepIsSound ==
  ASSUME Sound, NEW u \in User, Step(u)
  PROVE  Sound'
<1>1. CASE Call(u)
  BY <1>1, OnConnectedSound, OnDisconnectedSound DEF Call
<1>2. CASE Decide(u)
  BY <1>2, AcceptRequestSound, RejectRequestSound, AddContactSound, DeleteContactSound DEF Decide
<1>3. CASE RetryAfterError(u)
  BY <1>3, RetryAfterErrorSound
<1>4. ASSUME NEW c \in Conns, Ended(u, c) \/ NetworkDrop(u, c)
      PROVE  Sound'
  <2>1. faults' \in 0..MaxFaults
    BY <1>4, SoundParts, BoundsAssumption
       DEF Ended, FinishClose, PeerGone, NetworkDrop, CountsOK
  <2>2. /\ SocketDisconnected(u, c)
        /\ packet' = [packet EXCEPT ![c] = "none"] \/ UNCHANGED packet
    BY <1>4 DEF Ended, FinishClose, PeerGone, NetworkDrop
  <2> QED BY <2>1, <2>2, SocketDisconnectedSound
<1> QED BY <1>1, <1>2, <1>3, <1>4, EstablishSound, UnknownPurposeTimeoutSound, AgeSound DEF Step

LEMMA InvInit == Init => IInv
<1>1. Init => meets \in 0..MaxMeets
  BY BoundsAssumption DEF Init
<1> QED BY <1>1, InitSound, InvIsSound

LEMMA InvStep == IInv /\ [Next]_vars => IInv'
<1> SUFFICES ASSUME IInv, [Next]_vars PROVE IInv'
  OBVIOUS
<1>1. Sound /\ meets \in 0..MaxMeets
  BY InvIsSound
<1>2. CASE UNCHANGED vars
  <2>1. /\ UNCHANGED <<contact, conn, calls, asked, dialler, packet, socket, purpose, aged, faults>>
        /\ UNCHANGED <<meets, edits>>
    BY <1>2 DEF vars, network
  <2>2. PeopleOK' /\ NetworkOK' /\ CountsOK'
    BY <1>1, <2>1, SoundParts DEF PeopleOK, NetworkOK, CountsOK
  <2>3. \A u \in User : ContactFine(u)' /\ Trusts(u)'
    BY <1>1, <2>1, SoundParts DEF ContactFine, Trusts, IsUp, Listed
  <2>4. \A c \in Conns : Announced(c)'
    BY <1>1, <2>1, SoundParts DEF Announced, IsUp
  <2> QED BY <1>1, <2>1, <2>2, <2>3, <2>4, InvIsSoundPrime DEF Sound
<1>3. ASSUME NEW u \in User, Step(u), UNCHANGED meets
      PROVE  IInv'
  BY <1>1, <1>3, StepIsSound, InvIsSoundPrime
<1>4. ASSUME NEW u \in User, NEW c \in Conns, Read(u, c)
      PROVE  IInv'
  <2>1. meets' \in 0..MaxMeets
    BY <1>1, <1>4, BoundsAssumption DEF Read
  <2> QED BY <1>1, <1>4, <2>1, ReadSound, InvIsSoundPrime
<1> QED BY <1>2, <1>3, <1>4 DEF Next

LEMMA Invariance == Spec => []IInv
BY InvInit, InvStep, PTL DEF Spec

\* TypeOK: a ContactUser, its connection, its posted calls and every packet in
\* flight are of the forms the code gives them.
THEOREM TypeCorrect == Spec => []TypeOK
BY Invariance, PTL DEF IInv

\* OneTrusted: however many connections the two dial at once and in whatever
\* order assignConnection meets them, a user trusts no other connection of the
\* contact than the one its ContactUser holds.
THEOREM OnlyOneIsTrusted == Spec => []OneTrusted
<1>1. IInv => OneTrusted
  BY DEF IInv, Trusts, OneTrusted
<1> QED BY <1>1, Invariance, PTL

\* StatusIsTrue: once the posted calls are made the status is that of the
\* connection and the request, and who is online dials no more.
THEOREM TheStatusIsTrue == Spec => []StatusIsTrue
<1>1. IInv => StatusIsTrue
  <2> SUFFICES ASSUME IInv, NEW u \in User
               PROVE  /\ Listed(u) /\ calls[u] = << >> /\ (conn[u] = NoConn \/ IsUp(u, conn[u]))
                           => contact[u].status = StatusOf(contact[u], conn[u] # NoConn)
                      /\ contact[u].status = "Online" => contact[u].dialling = "None"
    BY DEF StatusIsTrue
  <2>1. /\ ContactFine(u) /\ Dials(contact[u]) /\ Fits(contact[u]) /\ contact[u] \in Contact
    BY InvIsSound, SoundParts
  <2>2. contact[u].status = "Online" => contact[u].dialling = "None"
    BY <2>1 DEF Dials
  <2>3. ASSUME Listed(u), calls[u] = << >>, conn[u] = NoConn \/ IsUp(u, conn[u])
        PROVE  contact[u].status = StatusOf(contact[u], conn[u] # NoConn)
    <3>1. ~Expected(calls[u])
      BY <2>3 DEF Expected
    <3>2. contact[u].status # "None"
      BY <2>1, <2>3 DEF Fits, Listed
    <3>3. CASE conn[u] = NoConn
      <4>1. contact[u].status # "Online"
        BY <2>1, <3>3 DEF ContactFine
      <4> QED BY <2>1, <3>2, <3>3, <4>1 DEF StatusOf, Fits, Contact, Statuses
    <3>4. CASE IsUp(u, conn[u])
      <4>1. contact[u].request = "none" => contact[u].status = "Online"
        BY <2>1, <3>1, <3>4 DEF ContactFine
      <4>2. conn[u] # NoConn
        BY <3>4 DEF IsUp
      <4> QED BY <2>1, <4>1, <4>2 DEF StatusOf, Fits, Contact
    <3> QED BY <2>3, <3>3, <3>4
  <2> QED BY <2>2, <2>3
<1> QED BY <1>1, Invariance, PTL

\* KnownAtBoth: whoever dialled a connection takes it for the contact's only if
\* the other end does, as what the other end wrote of it is still so when read.
THEOREM BothEndsKnow == Spec => []KnownAtBoth
<1>1. IInv => KnownAtBoth
  BY DEF IInv, Announced, KnownAtBoth
<1> QED BY <1>1, Invariance, PTL

=============================================================================
