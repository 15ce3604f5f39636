----------------------------- MODULE IrcGateway -----------------------------
(***************************************************************************)
(* The IRC frontend: IrcServer with its connections and its control        *)
(* channel, and RicochetIrcServer, which shows every contact as an IRC     *)
(* user of that channel and takes commands there.  libtego's events come   *)
(* in order through the queues of CallbackQueue, so they are late: between *)
(* the event and its task the user may have renamed or deleted a contact.  *)
(* Whenever the control connection to tor is established again, main.cpp   *)
(* loads the contact list once more and starts libtego's service anew.     *)
(*                                                                         *)
(* Everything here runs in the main thread, one action per line from a     *)
(* client, per closed socket and per task.  Lines that were read together  *)
(* are handled together, also those behind one that closed the socket.     *)
(***************************************************************************)
EXTENDS Integers, Sequences, FiniteSets, SequencesExt

CONSTANTS
  Clients,      \* TCP connections to the IRC server
  Users,        \* IrcUser objects made for contacts
  Peers,        \* ricochet identities
  Nicks,        \* nicknames
  None,         \* no nickname, no IrcUser, no connection
  MaxContacts,  \* contacts in the list
  Budgets       \* how often each input may happen, in the behaviours to look at

Input == {"connection", "command", "event", "reload"}
ASSUME BoundsAssumption == MaxContacts \in Nat /\ Budgets \subseteq [Input -> Nat]

\* Connections and IrcUsers are objects of two classes, and None is neither.
ASSUME ObjectsAssumption == Clients \cap Users = {} /\ None \notin Clients \cup Users

\* A contact list of an earlier run always fits.
ASSUME PeersAssumption == IsFiniteSet(Peers) /\ Cardinality(Peers) <= MaxContacts

VARIABLES
  conns,     \* IrcServer::clients
  given,     \* what each IrcConnection has told: have_pass, have_nick, have_user
  nick,      \* the name of every IrcConnection and of every IrcUser in virtual_clients
  flags,     \* the members of #ricochet and their flags
  reading,   \* the closed connection whose last lines are being handled
  contacts,  \* shims::ContactsManager::contactsList, with usermap
  requests,  \* shims::UserIdentity::requests: how many of each identity
  saved,     \* the settings under "users"
  network,   \* the last disableNetwork sent to tor, negated
  remote,    \* libtego's identities, the current one last
  events,    \* events on their way from libtego
  deleted,   \* identities that were deleted once
  crossed,   \* identities that were added while they asked themselves
  clash,     \* a contact's status was shown on somebody else
  crashed,   \* why the process ended
  budget     \* what is left of it

channel == <<nick, flags>>
server == <<conns, given, channel, reading>>
people == <<contacts, requests, saved>>
libtego == <<remote, events>>
history == <<deleted, crossed>>
vars == <<server, people, network, libtego, history, clash, crashed, budget>>

Login == {"pass", "nick", "user"}
Event == [kind : {"request", "online", "offline", "accepted", "rejected", "message"},
          peer : Peers]
Contact == [peer : Peers, nick : Nicks \cup {None}, user : Users \cup {None},
            status : {"offline", "online", "pending", "rejected"}]
Setting == [type : {"none", "allowed", "pending", "rejected", "requesting", "blocked"},
            nick : Nicks \cup {None}]
Crash == {"no", "unmapped", "forgotten", "unanswered", "gone", "message"}

\* What an identity holds of every peer, and the hosts it rejects.  Of those who
\* rejected us, a "refused" contact has no request object any more.
Identity == [holds : [Peers -> {"none", "asking", "pending", "rejected", "refused",
                                "offline", "online"}],
             rejects : SUBSET Peers]

-----------------------------------------------------------------------------
\* The contact list, as main.cpp loads it from the settings in the order of their
\* keys, whatever that is, and the identity that libtego makes of it.

ShownAs == [allowed |-> "offline", pending |-> "pending", rejected |-> "rejected"]
HeldAs == [none |-> "none", allowed |-> "offline", pending |-> "pending",
           rejected |-> "refused", requesting |-> "asking", blocked |-> "none"]

OfType(types) == {p \in Peers : saved[p].type \in types}
Entries(order) ==
  [k \in DOMAIN order |-> [peer |-> order[k], nick |-> saved[order[k]].nick, user |-> None,
                           status |-> ShownAs[saved[order[k]].type]]]
Loaded == [holds |-> [p \in Peers |-> HeldAs[saved[p].type]], rejects |-> OfType({"blocked"})]

\* The contact list of an earlier run has been loaded, and beginBootstrap has
\* enabled the network.  libtego reports only changes, so no contact has an
\* IrcUser yet.
Init ==
  /\ conns = {} /\ given = << >> /\ nick = << >> /\ flags = << >> /\ reading = None
  /\ saved \in [Peers -> {s \in Setting :
       s.type \in {"none", "allowed", "pending"} /\ (s.nick = None <=> s.type = "none")}]
  /\ \E order \in SetToSeqs(OfType(DOMAIN ShownAs)) : contacts = Entries(order)
  /\ remote = << Loaded >>
  /\ requests = [p \in Peers |-> 0] /\ events = << >>
  /\ deleted = {} /\ crossed = {}
  /\ network = TRUE
  /\ clash = FALSE /\ crashed = "no"
  /\ budget \in Budgets

Spends(input) == budget[input] > 0 /\ budget' = [budget EXCEPT ![input] = @ - 1]

Ends(why) ==
  /\ crashed' = why
  /\ UNCHANGED <<server, people, network, libtego, history, clash>>

-----------------------------------------------------------------------------
\* Lookups.

virtual == DOMAIN nick \ Clients

\* Closed connections that went on with lines read behind the one that closed them.
late == DOMAIN given \ conns

LoggedIn(i) == i \in DOMAIN given /\ given[i] = Login

\* The connection whose lines are handled: any, or the closed one that has some left.
Speaks(i) == IF reading = None THEN i \in conns ELSE i = reading

\* findUser: a connection or an IrcUser of that name.
NickInUse(n) == \E m \in conns \cup virtual : nick[m] = n

\* getMember: a member of the channel called n.
Named(n) == {m \in DOMAIN flags : nick[m] = n}

\* getShimContactByNickname, getShimContactByContactId: the first one.
IsFirst(k, Test(_)) == Test(contacts[k]) /\ \A j \in 1..(k - 1) : ~Test(contacts[j])
Called(n) ==
  {k \in DOMAIN contacts : IsFirst(k, LAMBDA c : c.nick = n)}
Of(p) ==
  {k \in DOMAIN contacts : IsFirst(k, LAMBDA c : c.peer = p)}

\* The current identity.
Current == Len(remote)
Holds(p) == remote[Current].holds[p]

Without(f, S) == [m \in DOMAIN f \ S |-> f[m]]
With(f, S, x) == [m \in DOMAIN f \cup S |-> IF m \in S THEN x ELSE f[m]]

-----------------------------------------------------------------------------
\* Connections.

Connect(i) ==
  /\ reading = None
  /\ i \notin DOMAIN given /\ Spends("connection")
  /\ conns' = conns \cup {i}
  /\ given' = With(given, {i}, {})
  /\ nick' = With(nick, {i}, None)
  /\ UNCHANGED <<flags, reading, people, network, libtego, history, clash, crashed>>

\* Bug: the connections are compared by their names.
OtherNames(i) == {j \in conns : nick[j] # nick[i]}

\* ircUserLoggedIn: unless there is only one, every connection but the one that
\* has just logged in is closed.
Alone == \E i \in conns : conns = {i}
Closed(i) == IF Alone THEN {} ELSE conns \ {i}

\* A line tells a part of the login, and leaves everybody with these names.  With
\* the last part (checkLogin), the connection joins the channel, and the network
\* is started or the others are closed.
Tell(i, what, names) ==
  LET done == [given EXCEPT ![i] = @ \cup {what}] IN
  IF done[i] = Login /\ given[i] # Login
    THEN /\ conns' = conns \ Closed(i)
         /\ given' = Without(done, Closed(i))
         /\ nick' = Without(names, Closed(i))
         /\ flags' = With(Without(flags, Closed(i)), {i}, "+o")
         /\ network' = (Alone \/ (network /\ (Closed(i) # {} => conns' # {})))
    ELSE /\ given' = done /\ nick' = names
         /\ UNCHANGED <<conns, flags, network>>

Pass(i) ==
  /\ Speaks(i)
  /\ Tell(i, "pass", nick)
  /\ UNCHANGED <<reading, people, libtego, history, clash, crashed, budget>>

\* A nickname that is in use is refused, and counts as given all the same.
Nick(i, n) ==
  /\ Speaks(i) /\ "pass" \in given[i]
  /\ Tell(i, "nick", IF NickInUse(n) THEN nick ELSE [nick EXCEPT ![i] = n])
  /\ UNCHANGED <<reading, people, libtego, history, clash, crashed, budget>>

User(i) ==
  /\ Speaks(i) /\ "pass" \in given[i]
  /\ Tell(i, "user", nick)
  /\ UNCHANGED <<reading, people, libtego, history, clash, crashed, budget>>

\* JOIN #ricochet, unless a member has the same name.
Join(i) ==
  /\ Speaks(i) /\ LoggedIn(i) /\ Named(nick[i]) = {}
  /\ flags' = With(flags, {i}, "")
  /\ UNCHANGED <<conns, given, nick, reading, people, network, libtego, history,
                 clash, crashed, budget>>

\* PART #ricochet, or QUIT, which leaves every channel and nothing else.
Leave(i) ==
  /\ Speaks(i) /\ "pass" \in given[i] /\ i \in DOMAIN flags
  /\ flags' = Without(flags, {i})
  /\ UNCHANGED <<conns, given, nick, reading, people, network, libtego, history,
                 clash, crashed, budget>>

\* Bug: the connections are counted before this one is removed.
CountThenRemove(i) ==
  /\ reading = None /\ i \in conns
  /\ conns' = conns \ {i}
  /\ given' = Without(given, {i}) /\ nick' = Without(nick, {i})
  /\ flags' = Without(flags, {i})
  /\ network' = (network /\ conns # {})
  /\ UNCHANGED <<reading, people, libtego, history, clash, crashed, budget>>

\* The socket is closed, by the client or for a line: an invalid one, a wrong
\* password, a bad name.  readyRead goes on with the lines that were read with it,
\* for a connection that the server has removed.
Disconnect(i) ==
  /\ reading = None /\ i \in conns
  /\ conns' = conns \ {i}
  /\ flags' = Without(flags, {i})
  /\ network' = (network /\ conns' # {})
  /\ \/ given' = Without(given, {i}) /\ nick' = Without(nick, {i}) /\ UNCHANGED reading
     \/ reading' = i /\ UNCHANGED <<given, nick>>
  /\ UNCHANGED <<people, libtego, history, clash, crashed, budget>>

\* No line is left.  Nothing refers to the connection, unless it joined again.
LinesEnd ==
  /\ reading # None /\ reading' = None
  /\ LET forgotten == {reading} \ DOMAIN flags IN
       given' = Without(given, forgotten) /\ nick' = Without(nick, forgotten)
  /\ UNCHANGED <<conns, flags, people, network, libtego, history, clash, crashed, budget>>

-----------------------------------------------------------------------------
\* Commands, which any connection may send to #ricochet once it is logged in.

Commanded ==
  \E i \in DOMAIN given : Speaks(i) /\ LoggedIn(i)

\* addContact, and what becomes of the settings.
Listed(p, n, shown, type) ==
  /\ Len(contacts) < MaxContacts
  /\ contacts' = Append(contacts, [peer |-> p, nick |-> n, user |-> None, status |-> shown])
  /\ saved' = [saved EXCEPT ![p] = [type |-> type, nick |-> n]]

Holding(p, x) == remote' = [remote EXCEPT ![Current].holds[p] = x]

Tidings(p, kinds) == [n \in DOMAIN kinds |-> [kind |-> kinds[n], peer |-> p]]
Announces(p, kinds) == events' = events \o Tidings(p, kinds)

\* add: neither the name nor the identity is looked up.  libtego ignores the
\* request if it has the contact.  If the identity asks himself, that request is
\* accepted before the contact knows of its own: it is told as accepted, and as
\* online where the asker's connection is still there, and stays pending.
CmdAdd(p, n) ==
  /\ Commanded /\ Spends("command")
  /\ Listed(p, n, "pending", "pending")
  /\ Holding(p, IF Holds(p) \in {"none", "asking"} THEN "pending" ELSE Holds(p))
  /\ IF Holds(p) = "asking"
       THEN /\ crossed' = crossed \cup {p}
            /\ Announces(p, << "accepted" >>) \/ Announces(p, << "accepted", "online" >>)
       ELSE UNCHANGED <<events, crossed>>
  /\ UNCHANGED <<server, requests, network, deleted, clash, crashed>>

\* request accept and reject: libtego throws if its identity has no such request.
CmdAccept(p, n) ==
  /\ Commanded /\ Spends("command") /\ requests[p] > 0
  /\ IF Holds(p) # "asking" THEN Ends("unanswered")
     ELSE /\ Listed(p, n, "offline", "allowed")
          /\ requests' = [requests EXCEPT ![p] = @ - 1]
          /\ Holding(p, "offline")
          /\ UNCHANGED <<server, network, events, history, clash, crashed>>

CmdReject(p) ==
  /\ Commanded /\ Spends("command") /\ requests[p] > 0
  /\ IF Holds(p) # "asking" THEN Ends("unanswered")
     ELSE /\ requests' = [requests EXCEPT ![p] = @ - 1]
          /\ remote' = [remote EXCEPT ![Current] =
               [holds |-> [@.holds EXCEPT ![p] = "none"], rejects |-> @.rejects \cup {p}]]
          /\ saved' = [saved EXCEPT ![p].type = "blocked"]
          /\ UNCHANGED <<server, contacts, network, events, history, clash, crashed>>

\* delete: libtego throws if it has no such contact, and a contact without an
\* IrcUser makes quit() broadcast the departure of a null pointer to the clients
\* that are logged in.
CmdDelete(n) ==
  /\ Commanded /\ Spends("command")
  /\ \E k \in Called(n) :
       LET c == contacts[k] IN
       IF Holds(c.peer) \in {"none", "asking"} THEN Ends("forgotten")
       ELSE IF c.user = None /\ \E i \in conns : LoggedIn(i) THEN Ends("unmapped")
       ELSE /\ contacts' = RemoveAt(contacts, k)
            /\ saved' = [saved EXCEPT ![c.peer] = [type |-> "none", nick |-> None]]
            /\ Holding(c.peer, "none")
            /\ flags' = Without(flags, {c.user}) /\ nick' = Without(nick, {c.user})
            /\ deleted' = deleted \cup {c.peer}
            /\ UNCHANGED <<conns, given, reading, requests, network, events, crossed,
                           clash, crashed>>

\* setNickname, for the contact at k.
Renamed(k, new) ==
  /\ contacts' = [contacts EXCEPT ![k].nick = new]
  /\ saved' = [saved EXCEPT ![contacts[k].peer].nick = new]

\* Bug: the IrcUser of a contact keeps its name.
RenameContact(old, new) ==
  /\ Commanded /\ Spends("command")
  /\ Called(new) = {} /\ ~NickInUse(new)
  /\ \E k \in Called(old) : Renamed(k, new)
  /\ UNCHANGED <<server, requests, network, libtego, history, clash, crashed>>

CmdRename(old, new) ==
  /\ Commanded /\ Spends("command")
  /\ Called(new) = {} /\ ~NickInUse(new)
  /\ \E k \in Called(old) :
       /\ Renamed(k, new)
       /\ nick' = [m \in DOMAIN nick |-> IF m = contacts[k].user THEN new ELSE nick[m]]
  /\ UNCHANGED <<conns, given, flags, reading, requests, network, libtego, history,
                 clash, crashed>>

-----------------------------------------------------------------------------
\* Contacts as IRC users: onContactStatusChanged for the contact at k of list.

\* Bug: whoever was found becomes the contact's IrcUser.
MapMember(k, list, flag) ==
  \E m \in Named(list[k].nick) :
    /\ flags' = With(flags, {m}, flag)
    /\ contacts' = [list EXCEPT ![k].user = m]
    /\ UNCHANGED <<clash, nick>>

\* Bug: the flag of somebody who is in the channel already stays as it was.
KeepFlag(k, list, flag) ==
  \E m \in Named(list[k].nick) :
    /\ clash' = (clash \/ m # list[k].user)
    /\ contacts' = list
    /\ UNCHANGED <<nick, flags>>

\* A member with the contact's name is taken for its IrcUser, whoever it is.
ShowOnMember(k, list, flag) ==
  \E m \in Named(list[k].nick) :
    /\ flags' = With(flags, {m}, flag)
    /\ clash' = (clash \/ m # list[k].user)
    /\ contacts' = list
    /\ UNCHANGED nick

\* Bug: the new IrcUser joins the channel and is not in usermap.
ShowUnmapped(k, list, flag) ==
  /\ Named(list[k].nick) = {}
  /\ \E u \in Users \ virtual :
       /\ nick' = With(nick, {u}, list[k].nick)
       /\ flags' = With(flags, {u}, flag)
       /\ contacts' = list
       /\ UNCHANGED clash

ShowOnNewUser(k, list, flag) ==
  /\ Named(list[k].nick) = {}
  /\ \E u \in Users \ virtual :
       /\ nick' = With(nick, {u}, list[k].nick)
       /\ flags' = With(flags, {u}, flag)
       /\ contacts' = [list EXCEPT ![k].user = u]
       /\ UNCHANGED clash

\* The tasks that libtego's callbacks push.
Take(kind) ==
  reading = None /\ events # << >> /\ Head(events).kind = kind /\ events' = Tail(events)
Sender == Of(Head(events).peer)

\* setStatus, for the contact at k, writes what changed.
Turned(k, status) == [contacts EXCEPT ![k].status = status]
Written(k, status, type) ==
  saved' = IF contacts[k].status = status THEN saved
           ELSE [saved EXCEPT ![contacts[k].peer].type = type]

\* createIncomingContactRequest, which does not look whether there is one.
TakeRequest ==
  /\ Take("request")
  /\ LET p == Head(events).peer IN
       /\ requests' = [requests EXCEPT ![p] = @ + 1]
       /\ saved' = [saved EXCEPT ![p].type = "requesting"]
  /\ UNCHANGED <<server, contacts, network, remote, history, clash, crashed, budget>>

\* on_user_status_changed, which looks whether the contact is still there.
TakeStatus(status) ==
  /\ Take(status)
  /\ \/ \E k \in Sender :
          LET list == Turned(k, status)
              flag == IF status = "online" THEN "+v" ELSE "-v"
          IN /\ ShowOnMember(k, list, flag) \/ ShowOnNewUser(k, list, flag)
             /\ Written(k, status, "allowed")
     \/ Sender = {} /\ UNCHANGED <<channel, contacts, saved, clash>>
  /\ UNCHANGED <<conns, given, reading, requests, network, remote, history, crashed, budget>>

\* on_chat_request_response_received, which does not look.
TakeResponse ==
  /\ \/ /\ Take("accepted")
        /\ UNCHANGED <<contacts, saved>>
     \/ /\ Take("rejected")
        /\ \/ \E k \in Sender :
                contacts' = Turned(k, "rejected") /\ Written(k, "rejected", "rejected")
           \/ Sender = {} /\ UNCHANGED <<contacts, saved>>
  /\ IF Sender = {} THEN crashed' = "gone" ELSE UNCHANGED crashed
  /\ UNCHANGED <<server, requests, network, remote, history, clash, budget>>

\* on_message_received and onUnreadCountChanged: the row is taken out of the
\* conversation and sent to every connection, on behalf of the IrcUser.
TakeMessage ==
  /\ Take("message")
  /\ crashed' =
       IF Sender = {} THEN "gone"
       ELSE IF conns # {} /\ \A k \in Sender : contacts[k].user = None THEN "message"
       ELSE crashed
  /\ UNCHANGED <<server, people, network, remote, history, clash, budget>>

\* The control connection is there again: main.cpp loads the list behind the one it
\* has, enables the network and starts the service with a new identity, which tells
\* its requests anew.  The identities before it stay.  A setting that has a name
\* and no type, left by a rename after a delete, keeps the service from starting.
ControlConnected ==
  /\ reading = None /\ Spends("reload")
  /\ \E order \in SetToSeqs(OfType(DOMAIN ShownAs)) :
       /\ Len(contacts) + Len(order) <= MaxContacts
       /\ contacts' = contacts \o Entries(order)
  /\ network' = TRUE
  /\ IF \E p \in OfType({"none"}) : saved[p].nick # None
       THEN UNCHANGED <<remote, events>>
       ELSE /\ remote' = Append(remote, Loaded)
            /\ \E askers \in SetToSeqs(OfType({"requesting"})) :
                 events' = events \o
                   [n \in DOMAIN askers |-> [kind |-> "request", peer |-> askers[n]]]
  /\ UNCHANGED <<server, requests, saved, history, clash, crashed>>

-----------------------------------------------------------------------------
\* libtego, as far as the frontend sees it.

\* The identity g holds a peer as x now, and tells so.
Becomes(g, p, x, kinds) ==
  /\ reading = None /\ Spends("event")
  /\ Announces(p, kinds)
  /\ remote' = [remote EXCEPT ![g].holds[p] = x]
  /\ UNCHANGED <<server, people, network, history, clash, crashed>>

Asks(g, p) ==
  /\ remote[g].holds[p] = "none" /\ p \notin remote[g].rejects
  /\ Becomes(g, p, "asking", <<"request">>)

\* A request is accepted, also by a connection of somebody who rejected it.
Accepts(g, p) ==
  \/ /\ remote[g].holds[p] = "pending"
     /\ \/ Becomes(g, p, "online", <<"accepted", "online">>)
        \/ Becomes(g, p, "offline", <<"accepted", "offline">>)
  \/ remote[g].holds[p] = "rejected" /\ Becomes(g, p, "refused", <<"accepted">>)

Rejects(g, p) ==
  remote[g].holds[p] = "pending" /\ Becomes(g, p, "rejected", <<"rejected">>)

ComesOnline(g, p) ==
  remote[g].holds[p] \in {"offline", "refused"} /\ Becomes(g, p, "online", <<"online">>)
GoesOffline(g, p) ==
  remote[g].holds[p] = "online" /\ Becomes(g, p, "offline", <<"offline">>)
Writes(g, p) == remote[g].holds[p] = "online" /\ Becomes(g, p, "online", <<"message">>)

-----------------------------------------------------------------------------
Connections ==
  \/ LinesEnd
  \/ \E i \in Clients :
       \/ Connect(i) \/ Pass(i) \/ User(i) \/ Join(i) \/ Leave(i) \/ Disconnect(i)
       \/ \E n \in Nicks : Nick(i, n)

Commands ==
  \/ \E p \in Peers, n \in Nicks : CmdAdd(p, n) \/ CmdAccept(p, n)
  \/ \E p \in Peers : CmdReject(p)
  \/ \E n \in Nicks : CmdDelete(n) \/ \E new \in Nicks : CmdRename(n, new)

Tasks ==
  \/ TakeRequest \/ TakeResponse \/ TakeMessage \/ ControlConnected
  \/ \E status \in {"online", "offline"} : TakeStatus(status)

Libtego ==
  \E g \in DOMAIN remote, p \in Peers :
    \/ Asks(g, p) \/ Accepts(g, p) \/ Rejects(g, p)
    \/ ComesOnline(g, p) \/ GoesOffline(g, p) \/ Writes(g, p)

\* Nothing happens after a crash.
Next == crashed = "no" /\ (Connections \/ Commands \/ Tasks \/ Libtego)

Spec == Init /\ [][Next]_vars

-----------------------------------------------------------------------------
\* What makes it correct.

TypeOK ==
  /\ conns \subseteq DOMAIN given /\ DOMAIN given \subseteq Clients
  /\ given \in [DOMAIN given -> SUBSET Login]
  /\ virtual \subseteq Users
  /\ nick \in [DOMAIN given \cup virtual -> Nicks \cup {None}]
  /\ DOMAIN flags \subseteq Clients \cup Users
  /\ \A m \in DOMAIN flags : flags[m] \in {"+o", "+v", "-v", ""}
  /\ reading \in late \cup {None}
  /\ contacts \in Seq(Contact) /\ Len(contacts) <= MaxContacts
  /\ requests \in [Peers -> Nat]
  /\ saved \in [Peers -> Setting]
  /\ deleted \subseteq Peers /\ crossed \subseteq Peers
  /\ network \in BOOLEAN /\ clash \in BOOLEAN
  /\ remote \in Seq(Identity) /\ remote # << >>
  /\ events \in Seq(Event) /\ budget \in [Input -> Nat]
  /\ crashed \in Crash

\* There is one IRC user at a time: whoever logs in closes every other
\* connection, also one that is halfway through its own login.  A connection that
\* was removed and goes on with its lines is none of them.
OneClient == Cardinality({i \in conns : LoggedIn(i)}) <= 1

\* What the channel shows is there: its members are open connections or living
\* IrcUsers, and else only connections that joined again by lines read behind the
\* one that closed them.  The IrcUser of a contact is a member, belongs to that
\* contact alone and bears its name, whoever was renamed, deleted, loaded again or
\* logged in.
UsersStand ==
  /\ DOMAIN flags \subseteq conns \cup virtual \cup late
  /\ \A k \in DOMAIN contacts : contacts[k].user # None =>
       /\ contacts[k].user \in virtual \cap DOMAIN flags
       /\ nick[contacts[k].user] = contacts[k].nick
       /\ \A j \in DOMAIN contacts : contacts[j].user = contacts[k].user => j = k

\* When no event is on its way, whom the channel shows as present is online for one
\* of libtego's identities; and as long as there is one identity, who is online for
\* it is shown.  It need not be so where a name was taken by somebody else, nor for
\* an identity that was deleted, where an event from before may meet the contact
\* made after it, nor for one that was added while it asked.  With a second
\* identity the channel shows what the last event told, of whichever of them.
ShownIsTrue ==
  events = << >> /\ crashed = "no" /\ ~clash =>
    \A p \in Peers \ (deleted \cup crossed) : \A k \in Of(p) :
      LET shown == contacts[k].user # None /\ flags[contacts[k].user] = "+v" IN
      /\ shown => \E g \in DOMAIN remote : remote[g].holds[p] = "online"
      /\ Len(remote) = 1 /\ Holds(p) = "online" => shown

\* Unless a name was taken or a contact deleted, a message finds the IrcUser on
\* whose behalf it is sent, and every event finds its contact, also an event of an
\* identity that was replaced.
EventsFindTheirContact ==
  crashed \in {"message", "gone"} => clash \/ deleted # {}

\* The network goes with the last connection and comes with one that logs in
\* alone ("You will appear offline to your contacts as soon as you disconnect").
NetworkFollows ==
  [][/\ conns # {} /\ conns' = {} => ~network'
     /\ \A i \in conns : conns = {i} /\ LoggedIn(i)' /\ ~LoggedIn(i) => network']_vars

\* README.md: "delete NICKNAME -- delete a contact".  The command never ends the
\* program.
DeleteWorks == crashed \notin {"unmapped", "forgotten"}

=============================================================================
