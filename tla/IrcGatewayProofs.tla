-------------------------- MODULE IrcGatewayProofs --------------------------
(***************************************************************************)
(* Safety of the IRC frontend, for any number of clients, contacts, names  *)
(* and identities of libtego, every limit of the list and every budget.    *)
(*                                                                         *)
(* UsersStand is inductive together with the types.  OneClient is not, as  *)
(* a cardinality says nothing of who is meant: OneLogin says that two      *)
(* clients who are logged in are the same.  Announced says of every        *)
(* identity what its events that are on their way will do to the list,     *)
(* so that what is shown is true when they are done.                       *)
(***************************************************************************)
EXTENDS IrcGateway, SequenceTheorems, FiniteSetTheorems, TLAPS

OneLogin == \A i, j \in conns : LoggedIn(i) /\ LoggedIn(j) => i = j

-----------------------------------------------------------------------------
\* The type invariant, in the parts that the actions leave alone together.

GivenOK ==
  /\ conns \subseteq DOMAIN given /\ DOMAIN given \subseteq Clients
  /\ given \in [DOMAIN given -> SUBSET Login]
  /\ reading \in late \cup {None}

NickOK ==
  /\ virtual \subseteq Users
  /\ nick \in [DOMAIN given \cup virtual -> Nicks \cup {None}]

FlagsOK ==
  /\ DOMAIN flags \subseteq Clients \cup Users
  /\ \A m \in DOMAIN flags : flags[m] \in {"+o", "+v", "-v", ""}

ContactsOK == contacts \in Seq(Contact) /\ Len(contacts) <= MaxContacts

SavedOK == requests \in [Peers -> Nat] /\ saved \in [Peers -> Setting]

RemoteOK == remote \in Seq(Identity) /\ remote # << >>

EventsOK == events \in Seq(Event)

BudgetOK == budget \in [Input -> Nat]

RestOK ==
  /\ deleted \subseteq Peers /\ crossed \subseteq Peers
  /\ network \in BOOLEAN /\ clash \in BOOLEAN
  /\ crashed \in Crash

ServerOK == GivenOK /\ NickOK /\ FlagsOK
ListsOK == ContactsOK /\ SavedOK /\ RemoteOK /\ EventsOK

LEMMA TypeParts ==
  TypeOK <=> ServerOK /\ ListsOK /\ BudgetOK /\ RestOK
BY DEF TypeOK, GivenOK, NickOK, FlagsOK, ContactsOK, SavedOK, RemoteOK, EventsOK, BudgetOK,
       RestOK, ServerOK, ListsOK

LEMMA TypePartsPrime ==
  TypeOK' <=> ServerOK' /\ ListsOK' /\ BudgetOK' /\ RestOK'
BY DEF TypeOK, GivenOK, NickOK, FlagsOK, ContactsOK, SavedOK, RemoteOK, EventsOK, BudgetOK,
       RestOK, ServerOK, ListsOK

\* What an action does not touch keeps its type.
LEMMA ServerStays ==
  ASSUME ServerOK, UNCHANGED server
  PROVE  ServerOK'
BY DEF ServerOK, GivenOK, NickOK, FlagsOK, server, channel, late, virtual

LEMMA SpendsType ==
  ASSUME BudgetOK, NEW input \in Input, Spends(input)
  PROVE  BudgetOK'
BY DEF BudgetOK, Spends

Kinds == {"request", "online", "offline", "accepted", "rejected", "message"}
Holdings == {"none", "asking", "pending", "rejected", "refused", "offline", "online"}

LEMMA CalledIsIndex ==
  ASSUME NEW n, NEW k \in Called(n)
  PROVE  k \in DOMAIN contacts /\ contacts[k].nick = n
BY DEF Called, IsFirst

\* An entry that is changed leaves the list as long as it was.
LEMMA ChangedEntry ==
  ASSUME NEW S, NEW s \in Seq(S), NEW k \in DOMAIN s, NEW t, NEW c \in S,
         t = [s EXCEPT ![k] = c]
  PROVE  /\ t \in Seq(S)
         /\ Len(t) = Len(s) /\ DOMAIN t = DOMAIN s
         /\ t[k] = c
         /\ \A j \in DOMAIN s : j # k => t[j] = s[j]
<1>1. Len(s) \in Nat /\ DOMAIN s = 1..Len(s) /\ s \in [1..Len(s) -> S]
  BY LenProperties
<1>2. t \in [1..Len(s) -> S]
  BY <1>1
<1>3. t \in Seq(S) /\ Len(t) = Len(s)
  BY <1>1, <1>2
<1> QED BY <1>1, <1>2, <1>3

LEMMA CurrentIdentity ==
  ASSUME RemoteOK
  PROVE  /\ Current \in DOMAIN remote
         /\ DOMAIN remote = 1..Len(remote) /\ Len(remote) \in Nat \ {0}
         /\ \A g \in DOMAIN remote : remote[g] \in Identity
<1>1. DOMAIN remote = 1..Len(remote) /\ Len(remote) \in Nat
  BY LenProperties DEF RemoteOK
<1>2. Len(remote) # 0
  BY EmptySeq DEF RemoteOK
<1>3. \A g \in DOMAIN remote : remote[g] \in Identity
  BY <1>1, ElementOfSeq DEF RemoteOK
<1> QED BY <1>1, <1>2, <1>3 DEF Current

\* One identity holds one peer as something else.
Rewritten(s, g, p, x, r) == r = [s EXCEPT ![g].holds[p] = x]

LEMMA HoldsChanged ==
  ASSUME NEW s \in Seq(Identity), NEW g \in DOMAIN s, NEW p \in Peers, NEW x \in Holdings,
         NEW r, Rewritten(s, g, p, x, r)
  PROVE  /\ r \in Seq(Identity)
         /\ Len(r) = Len(s) /\ DOMAIN r = DOMAIN s
         /\ \A h \in DOMAIN s, q \in Peers :
              r[h].holds[q] = IF h = g /\ q = p THEN x ELSE s[h].holds[q]
<1>1. \A h \in DOMAIN s : s[h] \in Identity
  BY ElementOfSeq, LenProperties
<1> DEFINE c == [s[g] EXCEPT !.holds = [s[g].holds EXCEPT ![p] = x]]
<1>2. r = [s EXCEPT ![g] = c]
  BY DEF Rewritten
<1>3. s[g].holds \in [Peers -> Holdings]
  BY <1>1 DEF Identity, Holdings
<1>4. [s[g].holds EXCEPT ![p] = x] \in [Peers -> Holdings]
  BY <1>3
<1>5. c \in Identity /\ \A q \in Peers : c.holds[q] = IF q = p THEN x ELSE s[g].holds[q]
  BY <1>1, <1>3, <1>4 DEF Identity, Holdings
<1> HIDE DEF c
<1>6. /\ r \in Seq(Identity) /\ Len(r) = Len(s) /\ DOMAIN r = DOMAIN s
      /\ r[g] = c /\ \A h \in DOMAIN s : h # g => r[h] = s[h]
  BY <1>2, <1>5, ChangedEntry
<1> QED BY <1>5, <1>6

LEMMA RemoteChanged ==
  ASSUME RemoteOK, NEW g \in DOMAIN remote, NEW p \in Peers, NEW x \in Holdings,
         Rewritten(remote, g, p, x, remote')
  PROVE  /\ RemoteOK' /\ DOMAIN remote' = DOMAIN remote /\ Len(remote') = Len(remote)
         /\ \A h \in DOMAIN remote, q \in Peers :
              remote'[h].holds[q] = IF h = g /\ q = p THEN x ELSE remote[h].holds[q]
<1>1. /\ remote' \in Seq(Identity)
      /\ Len(remote') = Len(remote) /\ DOMAIN remote' = DOMAIN remote
      /\ \A h \in DOMAIN remote, q \in Peers :
           remote'[h].holds[q] = IF h = g /\ q = p THEN x ELSE remote[h].holds[q]
  BY HoldsChanged DEF RemoteOK
<1>2. remote' # << >>
  BY <1>1, CurrentIdentity, EmptySeq
<1> QED BY <1>1, <1>2 DEF RemoteOK

LEMMA HoldingType ==
  ASSUME RemoteOK, NEW p \in Peers, NEW x \in Holdings, Holding(p, x)
  PROVE  /\ RemoteOK' /\ DOMAIN remote' = DOMAIN remote /\ Len(remote') = Len(remote)
         /\ \A h \in DOMAIN remote, q \in Peers :
              remote'[h].holds[q] =
                IF h = Current /\ q = p THEN x ELSE remote[h].holds[q]
<1>1. Current \in DOMAIN remote
  BY CurrentIdentity
<1>2. Rewritten(remote, Current, p, x, remote')
  BY DEF Holding, Rewritten
<1> QED BY <1>1, <1>2, RemoteChanged

\* News of a peer are appended to the events.
LEMMA TidingsType ==
  ASSUME NEW p \in Peers, NEW kinds \in Seq(Kinds)
  PROVE  Tidings(p, kinds) \in Seq(Event) /\ Len(Tidings(p, kinds)) = Len(kinds)
<1>1. Len(kinds) \in Nat /\ DOMAIN kinds = 1..Len(kinds)
  BY LenProperties
<1>2. \A n \in DOMAIN kinds : kinds[n] \in Kinds
  BY ElementOfSeq, <1>1
<1>3. Tidings(p, kinds) \in [1..Len(kinds) -> Event]
  BY <1>1, <1>2 DEF Tidings, Event, Kinds
<1> QED BY <1>1, <1>3

LEMMA AnnouncesType ==
  ASSUME EventsOK, NEW p \in Peers, NEW kinds \in Seq(Kinds), Announces(p, kinds)
  PROVE  EventsOK'
<1>1. Tidings(p, kinds) \in Seq(Event)
  BY TidingsType
<1>2. events' = events \o Tidings(p, kinds)
  BY DEF Announces
<1> QED BY <1>1, <1>2, ConcatProperties DEF EventsOK

\* One that is removed takes nobody else with it.
LEMMA RemovedContact ==
  ASSUME NEW s \in Seq(Contact), NEW k \in DOMAIN s, NEW t, t = RemoveAt(s, k)
  PROVE  /\ t \in Seq(Contact)
         /\ Len(t) = Len(s) - 1
         /\ \A j \in DOMAIN t :
              \/ j \in DOMAIN s /\ j < k /\ t[j] = s[j]
              \/ j + 1 \in DOMAIN s /\ j >= k /\ t[j] = s[j + 1]
<1>1. Len(s) \in Nat /\ DOMAIN s = 1..Len(s) /\ s \in [1..Len(s) -> Contact]
  BY LenProperties
<1>2. k \in 1..Len(s)
  BY <1>1
<1> DEFINE before == SubSeq(s, 1, k - 1)
           after == SubSeq(s, k + 1, Len(s))
<1>3. /\ before \in Seq(Contact) /\ Len(before) = k - 1
      /\ \A j \in 1..(k - 1) : before[j] = s[j]
  BY <1>1, <1>2, SubSeqProperties
<1>4. /\ after \in Seq(Contact) /\ Len(after) = Len(s) - k
      /\ \A j \in 1..(Len(s) - k) : after[j] = s[k + j]
  BY <1>1, <1>2, SubSeqProperties
<1>5. t = before \o after
  BY DEF RemoveAt
<1> HIDE DEF before, after
<1>6. /\ t \in Seq(Contact) /\ Len(t) = Len(s) - 1
      /\ \A j \in 1..Len(t) :
           t[j] = IF j <= Len(before) THEN before[j] ELSE after[j - Len(before)]
  <2>1. /\ t \in Seq(Contact) /\ Len(t) = Len(before) + Len(after)
        /\ \A j \in 1..(Len(before) + Len(after)) :
             t[j] = IF j <= Len(before) THEN before[j] ELSE after[j - Len(before)]
    <3>1. before \in Seq(Contact) /\ after \in Seq(Contact)
      BY <1>3, <1>4
    <3>2. /\ before \o after \in Seq(Contact)
          /\ Len(before \o after) = Len(before) + Len(after)
          /\ \A j \in 1..(Len(before) + Len(after)) : (before \o after)[j]
               = IF j <= Len(before) THEN before[j] ELSE after[j - Len(before)]
      BY ONLY <3>1, ConcatProperties
    <3> QED BY <1>5, <3>2, Zenon
  <2>2. Len(before) + Len(after) = Len(s) - 1
    BY <1>1, <1>2, <1>3, <1>4
  <2> QED BY <2>1, <2>2
<1>7. DOMAIN t = 1..Len(t)
  BY <1>6, LenProperties
<1>8. ASSUME NEW j \in DOMAIN t
      PROVE  \/ j \in DOMAIN s /\ j < k /\ t[j] = s[j]
             \/ j + 1 \in DOMAIN s /\ j >= k /\ t[j] = s[j + 1]
  <2>1. j \in 1..(Len(s) - 1)
    BY <1>6, <1>7, <1>8
  <2>2. CASE j < k
    BY <1>1, <1>2, <1>3, <1>6, <1>7, <2>1, <2>2
  <2>3. CASE j >= k
    <3>1. j - (k - 1) \in 1..(Len(s) - k) /\ k + (j - (k - 1)) = j + 1
      BY <1>1, <1>2, <2>1, <2>3
    <3>2. t[j] = after[j - (k - 1)]
      BY <1>1, <1>2, <1>3, <1>6, <1>7, <2>1, <2>3
    <3>3. after[j - (k - 1)] = s[j + 1]
      BY <1>4, <3>1
    <3> QED BY <1>1, <2>1, <2>3, <3>2, <3>3
  <2> QED BY <1>1, <1>2, <2>1, <2>2, <2>3
<1> QED BY <1>6, <1>8

-----------------------------------------------------------------------------
\* The list that is loaded from the settings, in whatever order.

LEMMA EntriesType ==
  ASSUME SavedOK, NEW order \in SetToSeqs(OfType(DOMAIN ShownAs))
  PROVE  /\ order \in Seq(Peers) /\ Entries(order) \in Seq(Contact)
         /\ Len(Entries(order)) = Len(order) /\ DOMAIN Entries(order) = DOMAIN order
         /\ Len(order) = Cardinality(OfType(DOMAIN ShownAs))
         /\ \A k \in DOMAIN order :
              /\ order[k] \in OfType(DOMAIN ShownAs)
              /\ Entries(order)[k].peer = order[k] /\ Entries(order)[k].user = None
<1> DEFINE known == OfType(DOMAIN ShownAs)
<1>1. known \subseteq Peers /\ \A p \in known : saved[p].type \in {"allowed", "pending", "rejected"}
  BY DEF OfType, ShownAs
<1>2. order \in [1..Cardinality(known) -> known]
  BY DEF SetToSeqs
<1>3. IsFiniteSet(known)
  BY <1>1, PeersAssumption, FS_Subset
<1>4. Cardinality(known) \in Nat
  BY <1>3, FS_CardinalityType
<1>5. ASSUME NEW k \in DOMAIN order
      PROVE  [peer |-> order[k], nick |-> saved[order[k]].nick, user |-> None,
              status |-> ShownAs[saved[order[k]].type]] \in Contact
  <2>1. order[k] \in known
    BY <1>2
  <2>2. order[k] \in Peers /\ saved[order[k]].type \in {"allowed", "pending", "rejected"}
    BY <1>1, <2>1
  <2>3. ShownAs[saved[order[k]].type] \in {"offline", "pending", "rejected"}
    BY <2>2 DEF ShownAs
  <2>4. saved[order[k]].nick \in Nicks \cup {None}
    BY <2>2 DEF SavedOK, Setting
  <2> QED BY <2>2, <2>3, <2>4 DEF Contact
<1> HIDE DEF known
<1>6. Entries(order) \in [1..Cardinality(known) -> Contact] /\ DOMAIN Entries(order) = DOMAIN order
  BY <1>2, <1>5 DEF Entries
<1>7. order \in Seq(Peers) /\ Len(order) = Cardinality(known)
  BY <1>1, <1>2, <1>4
<1>8. Entries(order) \in Seq(Contact) /\ Len(Entries(order)) = Cardinality(known)
  BY <1>4, <1>6
<1>9. \A k \in DOMAIN order :
        order[k] \in known
        /\ Entries(order)[k].peer = order[k] /\ Entries(order)[k].user = None
  BY <1>2 DEF Entries
<1> QED BY <1>6, <1>7, <1>8, <1>9 DEF known

LEMMA InitContacts ==
  ASSUME SavedOK, NEW order \in SetToSeqs(OfType(DOMAIN ShownAs)), contacts = Entries(order)
  PROVE  ContactsOK
<1> DEFINE known == OfType(DOMAIN ShownAs)
<1>1. known \subseteq Peers
  BY DEF OfType
<1>2. Cardinality(known) \in Nat /\ Cardinality(known) <= MaxContacts
  <2>1. Cardinality(Peers) \in Nat
    BY PeersAssumption, FS_CardinalityType
  <2>2. IsFiniteSet(known) /\ Cardinality(known) <= Cardinality(Peers)
    BY <1>1, PeersAssumption, FS_Subset
  <2>3. Cardinality(known) \in Nat
    BY <2>2, FS_CardinalityType
  <2> QED BY <2>1, <2>2, <2>3, PeersAssumption, BoundsAssumption
<1>3. contacts \in Seq(Contact) /\ Len(contacts) = Cardinality(known)
  BY EntriesType
<1> QED BY <1>2, <1>3 DEF ContactsOK

LEMMA LoadedType ==
  ASSUME SavedOK
  PROVE  /\ Loaded \in Identity
         /\ \A p \in Peers :
              Loaded.holds[p] = HeldAs[saved[p].type] /\ Loaded.holds[p] \in Holdings
<1>1. ASSUME NEW p \in Peers
      PROVE  HeldAs[saved[p].type] \in Holdings
  <2>1. saved[p].type \in {"none", "allowed", "pending", "rejected", "requesting", "blocked"}
    BY DEF SavedOK, Setting
  <2> QED BY <2>1 DEF HeldAs, Holdings
<1>2. [p \in Peers |-> HeldAs[saved[p].type]] \in [Peers -> Holdings]
  BY <1>1
<1>3. OfType({"blocked"}) \subseteq Peers
  BY DEF OfType
<1> QED BY <1>1, <1>2, <1>3 DEF Loaded, Identity, Holdings

LEMMA InitType == Init => TypeOK
<1> SUFFICES ASSUME Init PROVE TypeOK
  OBVIOUS
<1>1. ServerOK
  BY DEF Init, ServerOK, GivenOK, NickOK, FlagsOK, virtual, late
<1>2. SavedOK
  BY DEF Init, SavedOK
<1>3. ContactsOK
  BY <1>2, InitContacts DEF Init
<1>4. RemoteOK
  <2>1. remote = << Loaded >> /\ Loaded \in Identity
    BY <1>2, LoadedType DEF Init
  <2> QED BY <2>1 DEF RemoteOK
<1>5. EventsOK
  BY DEF Init, EventsOK
<1>6. BudgetOK
  BY BoundsAssumption DEF Init, BudgetOK
<1>7. RestOK
  BY DEF Init, RestOK, Crash
<1> QED BY <1>1, <1>2, <1>3, <1>4, <1>5, <1>6, <1>7, TypeParts DEF ListsOK

-----------------------------------------------------------------------------
\* The types survive every action.

\* Whose lines are handled has told something before.
LEMMA SpeakerIsGiven ==
  ASSUME GivenOK, NEW i \in Clients, Speaks(i)
  PROVE  i \in DOMAIN given
BY DEF GivenOK, Speaks, late

\* What a line that tells a part of the login leaves of the server.
LEMMA TellParts ==
  ASSUME GivenOK, NickOK, NEW i \in DOMAIN given, NEW what \in Login,
         NEW STATE names, names \in [DOMAIN nick -> Nicks \cup {None}],
         Tell(i, what, names), reading' = reading
  PROVE  /\ conns' \subseteq conns /\ late' = late /\ virtual' = virtual
         /\ DOMAIN given' = DOMAIN given \ (conns \ conns')
         /\ given' \in [DOMAIN given' -> SUBSET Login]
         /\ DOMAIN nick' = DOMAIN nick \ (conns \ conns')
         /\ \A m \in DOMAIN nick' : nick'[m] = names[m]
         /\ \/ conns' = conns /\ flags' = flags
            \/ flags' = With(Without(flags, conns \ conns'), {i}, "+o")
<1> DEFINE done == [given EXCEPT ![i] = @ \cup {what}]
<1>1. done \in [DOMAIN given -> SUBSET Login]
  BY DEF GivenOK
<1>2. DOMAIN nick = DOMAIN given \cup virtual
  BY DEF NickOK
<1>3. Closed(i) \subseteq conns /\ conns \subseteq DOMAIN given /\ DOMAIN given \subseteq Clients
  BY DEF Closed, GivenOK
<1>4. CASE done[i] = Login /\ given[i] # Login
  <2>1. /\ conns' = conns \ Closed(i)
        /\ given' = Without(done, Closed(i)) /\ nick' = Without(names, Closed(i))
        /\ flags' = With(Without(flags, Closed(i)), {i}, "+o")
    BY <1>4 DEF Tell
  <2>2. conns \ conns' = Closed(i)
    BY <1>3, <2>1
  <2>3. DOMAIN given' = DOMAIN given \ Closed(i) /\ given' \in [DOMAIN given' -> SUBSET Login]
    BY <1>1, <2>1 DEF Without
  <2>4. DOMAIN nick' = DOMAIN nick \ Closed(i) /\ \A m \in DOMAIN nick' : nick'[m] = names[m]
    BY <2>1 DEF Without
  <2>5. late' = late /\ virtual' = virtual
    BY <1>3, <2>1, <2>3, <2>4 DEF late, virtual
  <2> QED BY <2>1, <2>2, <2>3, <2>4, <2>5
<1>5. CASE ~(done[i] = Login /\ given[i] # Login)
  <2>1. given' = done /\ nick' = names /\ UNCHANGED <<conns, flags>>
    BY <1>5 DEF Tell
  <2>2. DOMAIN given' = DOMAIN given /\ DOMAIN nick' = DOMAIN nick
    BY <1>1, <2>1
  <2> QED BY <1>1, <2>1, <2>2 DEF late, virtual
<1> QED BY <1>4, <1>5

LEMMA TellType ==
  ASSUME ServerOK, network \in BOOLEAN, NEW i \in DOMAIN given, NEW what \in Login,
         NEW STATE names, names \in [DOMAIN nick -> Nicks \cup {None}],
         Tell(i, what, names), reading' = reading
  PROVE  ServerOK' /\ network' \in BOOLEAN
<1>1. GivenOK /\ NickOK /\ FlagsOK
  BY DEF ServerOK
<1>2. /\ conns' \subseteq conns /\ late' = late /\ virtual' = virtual
      /\ DOMAIN given' = DOMAIN given \ (conns \ conns')
      /\ given' \in [DOMAIN given' -> SUBSET Login]
      /\ DOMAIN nick' = DOMAIN nick \ (conns \ conns')
      /\ \A m \in DOMAIN nick' : nick'[m] = names[m]
      /\ \/ conns' = conns /\ flags' = flags
         \/ flags' = With(Without(flags, conns \ conns'), {i}, "+o")
  BY <1>1, TellParts
<1>3. GivenOK'
  BY <1>1, <1>2 DEF GivenOK
<1>4. DOMAIN nick = DOMAIN given \cup virtual /\ virtual \cap Clients = {}
  BY <1>1 DEF NickOK, virtual
<1>5. DOMAIN nick' = DOMAIN given' \cup virtual'
  BY <1>1, <1>2, <1>4 DEF GivenOK
<1>6. NickOK'
  <2>1. nick' \in [DOMAIN nick' -> Nicks \cup {None}]
    <3>1. CASE nick' = names
      BY <3>1
    <3>2. CASE nick' = Without(names, Closed(i))
      BY <3>2 DEF Without
    <3> QED BY <3>1, <3>2 DEF Tell
  <2> QED BY <1>1, <1>2, <1>5, <2>1 DEF NickOK
<1>7. FlagsOK'
  <2>1. CASE flags' = flags
    BY <1>1, <2>1 DEF FlagsOK
  <2>2. CASE flags' = With(Without(flags, conns \ conns'), {i}, "+o")
    BY <1>1, <2>2 DEF FlagsOK, GivenOK, With, Without
  <2> QED BY <1>2, <2>1, <2>2
<1>8. network' \in BOOLEAN
  <2>1. CASE network' = network
    BY <2>1
  <2>2. CASE network' = (Alone \/ (network /\ (Closed(i) # {} => conns' # {})))
    BY <2>2
  <2> QED BY <2>1, <2>2 DEF Tell
<1> QED BY <1>3, <1>6, <1>7, <1>8 DEF ServerOK

\* The three lines that tell a part of the login.
Telling(i, what, names) ==
  /\ Speaks(i) /\ what \in Login /\ names \in [DOMAIN nick -> Nicks \cup {None}]
  /\ \A m \in DOMAIN nick : names[m] = nick[m] \/ m = i
  /\ Tell(i, what, names)
  /\ UNCHANGED <<reading, people, libtego, history, clash, crashed, budget>>

LEMMA LinesTell ==
  ASSUME NickOK, NEW i \in Clients, Pass(i) \/ User(i) \/ \E n \in Nicks : Nick(i, n)
  PROVE  \E what, names : Telling(i, what, names)
<1>1. nick \in [DOMAIN nick -> Nicks \cup {None}]
  BY DEF NickOK
<1>2. CASE Pass(i)
  <2>1. Telling(i, "pass", nick)
    BY <1>1, <1>2 DEF Pass, Telling, Login
  <2> QED BY <2>1
<1>3. CASE User(i)
  <2>1. Telling(i, "user", nick)
    BY <1>1, <1>3 DEF User, Telling, Login
  <2> QED BY <2>1
<1>4. ASSUME NEW n \in Nicks, Nick(i, n)
      PROVE  \E what, names : Telling(i, what, names)
  <2> DEFINE names == IF NickInUse(n) THEN nick ELSE [nick EXCEPT ![i] = n]
  <2>1. /\ Speaks(i) /\ Tell(i, "nick", names) /\ "nick" \in Login
        /\ UNCHANGED <<reading, people, libtego, history, clash, crashed, budget>>
    BY <1>4 DEF Nick, Login
  <2>2. names \in [DOMAIN nick -> Nicks \cup {None}]
    BY <1>1
  <2>3. \A m \in DOMAIN nick : names[m] = nick[m] \/ m = i
    OBVIOUS
  <2> HIDE DEF names
  <2>4. Telling(i, "nick", names)
    BY <2>1, <2>2, <2>3 DEF Telling
  <2> QED BY <2>4
<1> QED BY <1>2, <1>3, <1>4

LEMMA ConnectionsType ==
  ASSUME TypeOK, Connections
  PROVE  TypeOK'
<1>1. GivenOK /\ NickOK /\ FlagsOK /\ ServerOK /\ ListsOK /\ BudgetOK /\ RestOK
  BY TypeParts DEF ServerOK
<1>2. network \in BOOLEAN
  BY <1>1 DEF RestOK
<1>3. /\ DOMAIN nick = DOMAIN given \cup virtual /\ nick \in [DOMAIN nick -> Nicks \cup {None}]
      /\ virtual \cap Clients = {}
  BY <1>1 DEF NickOK, virtual
<1>4. ASSUME ServerOK', BudgetOK', network' \in BOOLEAN,
             UNCHANGED <<people, libtego, history, clash, crashed>>
      PROVE  TypeOK'
  BY <1>1, <1>4, TypePartsPrime
     DEF people, libtego, history, ListsOK, ContactsOK, SavedOK, RemoteOK, EventsOK, RestOK
<1>5. CASE LinesEnd
  <2>1. /\ reading # None /\ reading' = None /\ UNCHANGED <<conns, flags>>
        /\ DOMAIN given' = DOMAIN given \ ({reading} \ DOMAIN flags)
        /\ DOMAIN nick' = DOMAIN nick \ ({reading} \ DOMAIN flags)
    BY <1>5 DEF LinesEnd, Without
  <2>2. reading \in Clients /\ reading \notin conns
    BY <1>1, <2>1 DEF GivenOK, late
  <2>3. GivenOK'
    BY <1>1, <1>5, <2>1, <2>2 DEF LinesEnd, Without, GivenOK
  <2>4. virtual' = virtual /\ DOMAIN nick' = DOMAIN given' \cup virtual'
    BY <1>3, <2>1, <2>2 DEF virtual
  <2>5. nick' \in [DOMAIN nick' -> Nicks \cup {None}]
    BY <1>3, <1>5 DEF LinesEnd, Without
  <2>6. NickOK' /\ FlagsOK'
    BY <1>1, <2>1, <2>4, <2>5 DEF NickOK, FlagsOK
  <2> QED BY <1>1, <1>2, <1>4, <1>5, <2>3, <2>6 DEF LinesEnd, ServerOK, BudgetOK
<1>6. ASSUME NEW i \in Clients, Connect(i)
      PROVE  TypeOK'
  <2>1. /\ i \notin DOMAIN given /\ reading' = reading /\ conns' = conns \cup {i}
        /\ DOMAIN given' = DOMAIN given \cup {i} /\ given' \in [DOMAIN given' -> SUBSET Login]
    BY <1>1, <1>6 DEF Connect, With, GivenOK
  <2>2. GivenOK'
    BY <1>1, <2>1 DEF GivenOK, late
  <2>3. /\ DOMAIN nick' = DOMAIN nick \cup {i} /\ nick' \in [DOMAIN nick' -> Nicks \cup {None}]
        /\ virtual' = virtual
    BY <1>3, <1>6 DEF Connect, With, virtual
  <2>4. NickOK'
    BY <1>1, <1>3, <2>1, <2>3 DEF NickOK
  <2>5. FlagsOK' /\ network' \in BOOLEAN
    BY <1>1, <1>2, <1>6 DEF Connect, FlagsOK
  <2>6. BudgetOK'
    BY <1>1, <1>6, SpendsType DEF Connect, Input
  <2> QED BY <1>4, <1>6, <2>2, <2>4, <2>5, <2>6 DEF Connect, ServerOK
<1>7. ASSUME NEW i \in Clients, Pass(i) \/ User(i) \/ \E n \in Nicks : Nick(i, n)
      PROVE  TypeOK'
  <2>1. PICK what, names : Telling(i, what, names)
    BY <1>1, <1>7, LinesTell
  <2>2. i \in DOMAIN given
    BY <1>1, <2>1, SpeakerIsGiven DEF Telling
  <2>3. /\ what \in Login /\ names \in [DOMAIN nick -> Nicks \cup {None}]
        /\ Tell(i, what, names) /\ reading' = reading
    BY <2>1 DEF Telling
  <2>4. ServerOK' /\ network' \in BOOLEAN
    BY <1>1, <1>2, <2>2, <2>3, TellType
  <2> QED BY <1>1, <1>4, <2>1, <2>4 DEF Telling, BudgetOK
<1>8. ASSUME NEW i \in Clients, Join(i) \/ Leave(i)
      PROVE  TypeOK'
  <2>1. FlagsOK'
    BY <1>1, <1>8 DEF Join, Leave, With, Without, FlagsOK
  <2>2. UNCHANGED <<conns, given, nick, reading>>
    BY <1>8 DEF Join, Leave
  <2>3. GivenOK' /\ NickOK'
    BY <1>1, <2>2 DEF GivenOK, NickOK, late, virtual
  <2> QED BY <1>1, <1>2, <1>4, <1>8, <2>1, <2>3 DEF Join, Leave, ServerOK, BudgetOK
<1>9. ASSUME NEW i \in Clients, Disconnect(i)
      PROVE  TypeOK'
  <2>1. i \in conns /\ reading = None /\ conns' = conns \ {i} /\ flags' = Without(flags, {i})
    BY <1>9 DEF Disconnect
  <2>2. FlagsOK' /\ network' \in BOOLEAN
    BY <1>1, <1>2, <1>9 DEF Disconnect, FlagsOK, Without
  <2>3. CASE /\ given' = Without(given, {i}) /\ nick' = Without(nick, {i}) /\ UNCHANGED reading
    <3>1. /\ DOMAIN given' = DOMAIN given \ {i} /\ given' \in [DOMAIN given' -> SUBSET Login]
          /\ DOMAIN nick' = DOMAIN nick \ {i} /\ nick' \in [DOMAIN nick' -> Nicks \cup {None}]
      BY <1>1, <1>3, <2>3 DEF Without, GivenOK
    <3>2. GivenOK'
      BY <1>1, <2>1, <2>3, <3>1 DEF GivenOK
    <3>3. virtual' = virtual /\ DOMAIN nick' = DOMAIN given' \cup virtual'
      BY <1>1, <1>3, <2>1, <3>1 DEF virtual, GivenOK
    <3>4. NickOK'
      BY <1>1, <3>1, <3>3 DEF NickOK
    <3> QED BY <3>2, <3>4, <2>2, <1>1, <1>4, <1>9 DEF Disconnect, ServerOK, BudgetOK
  <2>4. CASE reading' = i /\ UNCHANGED <<given, nick>>
    <3>1. GivenOK'
      BY <1>1, <2>1, <2>4 DEF GivenOK, late
    <3>2. NickOK'
      BY <1>1, <2>4 DEF NickOK, virtual
    <3> QED BY <3>1, <3>2, <2>2, <1>1, <1>4, <1>9 DEF Disconnect, ServerOK, BudgetOK
  <2> QED BY <1>9, <2>3, <2>4 DEF Disconnect
<1> QED BY <1>5, <1>6, <1>7, <1>8, <1>9 DEF Connections

LEMMA ListedType ==
  ASSUME ContactsOK, saved \in [Peers -> Setting], NEW p \in Peers, NEW n \in Nicks,
         NEW shown \in {"offline", "pending"}, NEW type \in {"allowed", "pending"},
         Listed(p, n, shown, type)
  PROVE  ContactsOK' /\ saved' \in [Peers -> Setting]
<1> DEFINE c == [peer |-> p, nick |-> n, user |-> None, status |-> shown]
<1>1. c \in Contact
  BY DEF Contact
<1>2. Len(contacts) < MaxContacts /\ contacts' = Append(contacts, c)
  BY DEF Listed
<1> HIDE DEF c
<1>3. contacts' \in Seq(Contact) /\ Len(contacts') = Len(contacts) + 1
  BY <1>1, <1>2, AppendProperties DEF ContactsOK
<1>4. Len(contacts) \in Nat
  BY LenProperties DEF ContactsOK
<1>5. ContactsOK'
  BY <1>2, <1>3, <1>4, BoundsAssumption DEF ContactsOK
<1>6. [type |-> type, nick |-> n] \in Setting
  BY DEF Setting
<1> QED BY <1>5, <1>6 DEF Listed

LEMMA CommandsType ==
  ASSUME TypeOK, Commands
  PROVE  TypeOK'
<1>1. /\ ServerOK /\ GivenOK /\ NickOK /\ FlagsOK /\ BudgetOK /\ RestOK
      /\ ContactsOK /\ SavedOK /\ RemoteOK /\ EventsOK
  BY TypeParts DEF ServerOK, ListsOK
<1>2. /\ DOMAIN nick = DOMAIN given \cup virtual /\ nick \in [DOMAIN nick -> Nicks \cup {None}]
      /\ requests \in [Peers -> Nat] /\ saved \in [Peers -> Setting]
  BY <1>1 DEF NickOK, SavedOK
<1>3. ASSUME NEW q \in Peers
      PROVE  Holds(q) \in Holdings
  <2>1. remote[Current] \in Identity
    BY <1>1, CurrentIdentity
  <2> QED BY <2>1 DEF Holds, Identity, Holdings
<1>4. BudgetOK'
  <2>1. Spends("command")
    BY DEF Commands, CmdAdd, CmdAccept, CmdReject, CmdDelete, CmdRename
  <2> QED BY <1>1, <2>1, SpendsType DEF Input
<1>5. ASSUME NEW why \in Crash, Ends(why)
      PROVE  TypeOK'
  <2>1. ServerOK'
    BY <1>1, <1>5, ServerStays DEF Ends
  <2>2. ListsOK'
    BY <1>1, <1>5 DEF Ends, people, libtego, ListsOK, ContactsOK, SavedOK, RemoteOK, EventsOK
  <2>3. RestOK'
    BY <1>1, <1>5 DEF Ends, history, RestOK
  <2> QED BY <1>4, <2>1, <2>2, <2>3, TypePartsPrime
<1>6. ASSUME NEW p \in Peers, NEW n \in Nicks, CmdAdd(p, n)
      PROVE  TypeOK'
  <2>1. ContactsOK' /\ saved' \in [Peers -> Setting]
    BY <1>1, <1>2, <1>6, ListedType DEF CmdAdd
  <2>2. RemoteOK'
    <3> DEFINE x == IF Holds(p) \in {"none", "asking"} THEN "pending" ELSE Holds(p)
    <3>1. x \in Holdings /\ Holding(p, x)
      BY <1>3, <1>6 DEF CmdAdd, Holdings
    <3> HIDE DEF x
    <3> QED BY <1>1, <3>1, HoldingType
  <2>3. EventsOK'
    <3>1. << "accepted" >> \in Seq(Kinds) /\ << "accepted", "online" >> \in Seq(Kinds)
      BY DEF Kinds
    <3>2. \/ Announces(p, << "accepted" >>) \/ Announces(p, << "accepted", "online" >>)
          \/ events' = events
      BY <1>6 DEF CmdAdd
    <3> QED BY <1>1, <3>1, <3>2, AnnouncesType DEF EventsOK
  <2>4. ServerOK'
    BY <1>1, <1>6, ServerStays DEF CmdAdd
  <2>5. RestOK'
    BY <1>1, <1>6 DEF CmdAdd, RestOK
  <2>6. SavedOK'
    BY <1>6, <1>2, <2>1 DEF CmdAdd, SavedOK
  <2> QED BY <1>4, <2>1, <2>2, <2>3, <2>4, <2>5, <2>6, TypePartsPrime DEF ListsOK
<1>7. ASSUME NEW p \in Peers, NEW n \in Nicks, CmdAccept(p, n)
      PROVE  TypeOK'
  <2>1. CASE Holds(p) # "asking"
    BY <1>5, <1>7, <2>1 DEF CmdAccept, Crash
  <2>2. CASE Holds(p) = "asking"
    <3>1. /\ Listed(p, n, "offline", "allowed")
          /\ requests[p] > 0 /\ requests' = [requests EXCEPT ![p] = @ - 1]
          /\ Holding(p, "offline") /\ "offline" \in Holdings
          /\ UNCHANGED <<server, network, events, history, clash, crashed>>
      BY <1>7, <2>2 DEF CmdAccept, Holdings
    <3>2. ContactsOK' /\ saved' \in [Peers -> Setting]
      BY <1>1, <1>2, <3>1, ListedType
    <3>3. SavedOK'
      <4>1. requests[p] \in Nat /\ requests[p] - 1 \in Nat
        BY <1>2, <3>1
      <4>2. requests' \in [Peers -> Nat]
        BY <1>2, <3>1, <4>1
      <4> QED BY <3>2, <4>2 DEF SavedOK
    <3>4. RemoteOK'
      BY <1>1, <3>1, HoldingType
    <3>5. ServerOK' /\ EventsOK' /\ RestOK'
      BY <1>1, <3>1, ServerStays DEF EventsOK, RestOK, history
    <3> QED BY <1>4, <3>2, <3>3, <3>4, <3>5, TypePartsPrime DEF ListsOK
  <2> QED BY <2>1, <2>2
<1>8. ASSUME NEW p \in Peers, CmdReject(p)
      PROVE  TypeOK'
  <2>1. CASE Holds(p) # "asking"
    BY <1>5, <1>8, <2>1 DEF CmdReject, Crash
  <2>2. CASE Holds(p) = "asking"
    <3> DEFINE c == [holds |-> [remote[Current].holds EXCEPT ![p] = "none"],
                     rejects |-> remote[Current].rejects \cup {p}]
    <3>1. /\ requests[p] > 0 /\ requests' = [requests EXCEPT ![p] = @ - 1]
          /\ remote' = [remote EXCEPT ![Current] = c]
          /\ saved' = [saved EXCEPT ![p].type = "blocked"]
          /\ UNCHANGED <<server, contacts, network, events, history, clash, crashed>>
      BY <1>8, <2>2 DEF CmdReject
    <3>2. Current \in DOMAIN remote /\ remote[Current] \in Identity
      BY <1>1, CurrentIdentity
    <3>3. c \in Identity
      BY <3>2 DEF Identity
    <3> HIDE DEF c
    <3>4. remote' \in Seq(Identity) /\ Len(remote') = Len(remote)
      BY <1>1, <3>1, <3>2, <3>3, ChangedEntry DEF RemoteOK
    <3>5. RemoteOK'
      BY <1>1, <3>4, CurrentIdentity, EmptySeq DEF RemoteOK
    <3>6. SavedOK'
      <4>1. requests[p] \in Nat /\ requests[p] - 1 \in Nat
        BY <1>2, <3>1
      <4>2. requests' \in [Peers -> Nat]
        BY <1>2, <3>1, <4>1
      <4>3. saved' \in [Peers -> Setting]
        BY <1>2, <3>1 DEF Setting
      <4> QED BY <4>2, <4>3 DEF SavedOK
    <3>7. ServerOK' /\ ContactsOK' /\ EventsOK' /\ RestOK'
      BY <1>1, <3>1, ServerStays DEF ContactsOK, EventsOK, RestOK, history
    <3> QED BY <1>4, <3>5, <3>6, <3>7, TypePartsPrime DEF ListsOK
  <2> QED BY <2>1, <2>2
<1>9. ASSUME NEW n \in Nicks, CmdDelete(n)
      PROVE  TypeOK'
  <2>1. PICK k \in Called(n) :
          \/ Ends("forgotten") \/ Ends("unmapped")
          \/ /\ contacts' = RemoveAt(contacts, k)
             /\ saved' = [saved EXCEPT ![contacts[k].peer] = [type |-> "none", nick |-> None]]
             /\ Holding(contacts[k].peer, "none")
             /\ flags' = Without(flags, {contacts[k].user})
             /\ nick' = Without(nick, {contacts[k].user})
             /\ deleted' = deleted \cup {contacts[k].peer}
             /\ UNCHANGED <<conns, given, reading, requests, network, events, crossed,
                            clash, crashed>>
    BY <1>9 DEF CmdDelete
  <2> DEFINE c == contacts[k]
  <2>2. k \in DOMAIN contacts /\ c \in Contact
    BY <1>1, <2>1, CalledIsIndex, ElementOfSeq, LenProperties DEF ContactsOK
  <2>3. CASE Ends("forgotten") \/ Ends("unmapped")
    BY <1>5, <2>3 DEF Crash
  <2>4. CASE /\ contacts' = RemoveAt(contacts, k)
             /\ saved' = [saved EXCEPT ![c.peer] = [type |-> "none", nick |-> None]]
             /\ Holding(c.peer, "none")
             /\ flags' = Without(flags, {c.user}) /\ nick' = Without(nick, {c.user})
             /\ deleted' = deleted \cup {c.peer}
             /\ UNCHANGED <<conns, given, reading, requests, network, events, crossed,
                            clash, crashed>>
    <3>1. c.peer \in Peers /\ c.user \in Users \cup {None} /\ "none" \in Holdings
      BY <2>2 DEF Contact, Holdings
    <3>2. contacts' \in Seq(Contact) /\ Len(contacts') = Len(contacts) - 1
      BY <1>1, <2>2, <2>4, RemovedContact DEF ContactsOK
    <3>3. ContactsOK'
      <4>1. Len(contacts) \in Nat
        BY <1>1, LenProperties DEF ContactsOK
      <4> QED BY <1>1, <3>2, <4>1, BoundsAssumption DEF ContactsOK
    <3>4. SavedOK'
      BY <1>2, <2>4, <3>1 DEF SavedOK, Setting
    <3>5. RemoteOK'
      BY <1>1, <2>4, <3>1, HoldingType
    <3>6. c.user \notin DOMAIN given
      BY <1>1, <3>1, ObjectsAssumption DEF GivenOK
    <3>7. /\ DOMAIN nick' = DOMAIN nick \ {c.user}
          /\ nick' \in [DOMAIN nick' -> Nicks \cup {None}]
      BY <1>2, <2>4 DEF Without
    <3>8. virtual' = virtual \ {c.user} /\ DOMAIN nick' = DOMAIN given' \cup virtual'
      BY <1>2, <2>4, <3>6, <3>7 DEF virtual
    <3>9. GivenOK' /\ NickOK' /\ FlagsOK'
      BY <1>1, <2>4, <3>7, <3>8 DEF GivenOK, late, NickOK, FlagsOK, Without
    <3>10. EventsOK' /\ RestOK'
      BY <1>1, <2>4, <3>1 DEF EventsOK, RestOK
    <3> QED BY <1>4, <3>3, <3>4, <3>5, <3>9, <3>10, TypePartsPrime DEF ServerOK, ListsOK
  <2> QED BY <2>1, <2>3, <2>4
<1>10. ASSUME NEW old \in Nicks, NEW new \in Nicks, CmdRename(old, new)
       PROVE  TypeOK'
  <2>1. PICK k \in Called(old) :
          /\ contacts' = [contacts EXCEPT ![k].nick = new]
          /\ saved' = [saved EXCEPT ![contacts[k].peer].nick = new]
          /\ nick' = [m \in DOMAIN nick |-> IF m = contacts[k].user THEN new ELSE nick[m]]
    BY <1>10 DEF CmdRename, Renamed
  <2>2. UNCHANGED <<conns, given, flags, reading, requests, network, libtego, history,
                    clash, crashed>>
    BY <1>10 DEF CmdRename
  <2>3. k \in DOMAIN contacts /\ contacts[k] \in Contact
    BY <1>1, <2>1, CalledIsIndex, ElementOfSeq, LenProperties DEF ContactsOK
  <2>4. [contacts[k] EXCEPT !.nick = new] \in Contact
    BY <2>3 DEF Contact
  <2>5. ContactsOK'
    BY <1>1, <2>1, <2>3, <2>4, ChangedEntry DEF ContactsOK
  <2>6. SavedOK'
    BY <1>2, <2>1, <2>2, <2>3 DEF SavedOK, Setting, Contact
  <2>7. DOMAIN nick' = DOMAIN nick /\ nick' \in [DOMAIN nick' -> Nicks \cup {None}]
    BY <1>2, <2>1
  <2>8. virtual' = virtual
    BY <2>7 DEF virtual
  <2>9. GivenOK' /\ NickOK' /\ FlagsOK'
    BY <1>1, <1>2, <2>2, <2>7, <2>8 DEF GivenOK, late, NickOK, FlagsOK
  <2>10. RemoteOK' /\ EventsOK' /\ RestOK'
    BY <1>1, <2>2 DEF libtego, history, RemoteOK, EventsOK, RestOK
  <2> QED BY <1>4, <2>5, <2>6, <2>9, <2>10, TypePartsPrime DEF ServerOK, ListsOK
<1> QED BY <1>6, <1>7, <1>8, <1>9, <1>10 DEF Commands

\* A contact found in the list, online or not, is shown under its own name.
LEMMA ShownType ==
  ASSUME TypeOK, NEW k \in DOMAIN contacts, NEW flag \in {"+v", "-v"},
         NEW STATE list, list \in Seq(Contact), Len(list) = Len(contacts),
         DOMAIN list = DOMAIN contacts,
         UNCHANGED <<conns, given, reading>>,
         ShowOnMember(k, list, flag) \/ ShowOnNewUser(k, list, flag)
  PROVE  ServerOK' /\ ContactsOK' /\ clash' \in BOOLEAN
<1>1. GivenOK /\ NickOK /\ FlagsOK /\ ContactsOK /\ RestOK
  BY TypeParts DEF ServerOK, ListsOK
<1>2. GivenOK'
  BY <1>1 DEF GivenOK, late
<1>3. list[k] \in Contact
  BY ElementOfSeq, LenProperties
<1>4. CASE ShowOnMember(k, list, flag)
  <2>1. PICK m \in Named(list[k].nick) :
          /\ flags' = With(flags, {m}, flag)
          /\ clash' = (clash \/ m # list[k].user)
          /\ contacts' = list
          /\ UNCHANGED nick
    BY <1>4 DEF ShowOnMember
  <2>2. m \in DOMAIN flags
    BY <2>1 DEF Named
  <2>3. FlagsOK'
    BY <1>1, <2>1, <2>2 DEF FlagsOK, With
  <2>4. NickOK'
    BY <1>1, <1>2, <2>1 DEF NickOK, virtual
  <2> QED BY <1>1, <1>2, <2>1, <2>3, <2>4 DEF ContactsOK, RestOK, ServerOK
<1>5. CASE ShowOnNewUser(k, list, flag)
  <2>1. PICK u \in Users \ virtual :
          /\ nick' = With(nick, {u}, list[k].nick)
          /\ flags' = With(flags, {u}, flag)
          /\ contacts' = [list EXCEPT ![k].user = u]
          /\ UNCHANGED clash
    BY <1>5 DEF ShowOnNewUser
  <2>2. FlagsOK'
    BY <1>1, <2>1 DEF FlagsOK, With
  <2>3. u \notin Clients
    BY <2>1, ObjectsAssumption
  <2>4. DOMAIN nick' = DOMAIN nick \cup {u} /\ virtual' = virtual \cup {u}
    BY <2>1, <2>3 DEF With, virtual
  <2>5. nick' \in [DOMAIN nick' -> Nicks \cup {None}]
    BY <1>1, <1>3, <2>1 DEF NickOK, With, Contact
  <2>6. NickOK'
    BY <1>1, <1>2, <2>1, <2>4, <2>5 DEF NickOK
  <2>7. [list[k] EXCEPT !.user = u] \in Contact
    BY <1>3, <2>1 DEF Contact
  <2>8. contacts' \in Seq(Contact) /\ Len(contacts') = Len(list)
    BY <2>1, <2>7, ChangedEntry
  <2> QED BY <1>1, <1>2, <2>1, <2>2, <2>6, <2>8 DEF ContactsOK, RestOK, ServerOK
<1> QED BY <1>4, <1>5

LEMMA TakenType ==
  ASSUME EventsOK, NEW kind, Take(kind)
  PROVE  EventsOK' /\ Head(events) \in Event
<1>1. events # << >> /\ events' = Tail(events)
  BY DEF Take
<1>2. Head(events) \in Event /\ Tail(events) \in Seq(Event)
  BY <1>1, HeadTailProperties DEF EventsOK
<1> QED BY <1>1, <1>2 DEF EventsOK

LEMMA SenderIsListed ==
  ASSUME NEW k \in Sender
  PROVE  k \in DOMAIN contacts /\ contacts[k].peer = Head(events).peer
BY DEF Sender, Of, IsFirst

\* A contact that turned is still a contact, with the same name and IrcUser.
LEMMA TurnedType ==
  ASSUME ContactsOK, NEW k \in DOMAIN contacts,
         NEW status \in {"offline", "online", "rejected"}, NEW t, t = Turned(k, status)
  PROVE  /\ t \in Seq(Contact) /\ Len(t) = Len(contacts) /\ DOMAIN t = DOMAIN contacts
         /\ \A j \in DOMAIN contacts :
              /\ t[j].user = contacts[j].user /\ t[j].nick = contacts[j].nick
              /\ t[j].peer = contacts[j].peer
<1>1. contacts \in Seq(Contact)
  BY DEF ContactsOK
<1>2. contacts[k] \in Contact
  BY <1>1, ElementOfSeq, LenProperties
<1>3. [contacts[k] EXCEPT !.status = status] \in Contact
  BY <1>2 DEF Contact
<1>4. /\ t \in Seq(Contact) /\ Len(t) = Len(contacts) /\ DOMAIN t = DOMAIN contacts
      /\ t[k] = [contacts[k] EXCEPT !.status = status]
      /\ \A j \in DOMAIN contacts : j # k => t[j] = contacts[j]
  BY <1>1, <1>3, ChangedEntry DEF Turned
<1>5. \A j \in DOMAIN contacts :
        /\ t[j].user = contacts[j].user /\ t[j].nick = contacts[j].nick
        /\ t[j].peer = contacts[j].peer
  BY <1>2, <1>4 DEF Contact
<1> QED BY <1>4, <1>5

LEMMA WrittenType ==
  ASSUME SavedOK, ContactsOK, NEW k \in DOMAIN contacts, NEW status,
         NEW type \in {"allowed", "rejected"}, Written(k, status, type)
  PROVE  saved' \in [Peers -> Setting]
<1>1. contacts[k] \in Contact
  BY ElementOfSeq, LenProperties DEF ContactsOK
<1>2. contacts[k].peer \in Peers
  BY <1>1 DEF Contact
<1> QED BY <1>2 DEF Written, SavedOK, Setting

LEMMA TasksType ==
  ASSUME TypeOK, Tasks
  PROVE  TypeOK'
<1>1. /\ ServerOK /\ GivenOK /\ NickOK /\ FlagsOK /\ BudgetOK /\ RestOK
      /\ ContactsOK /\ SavedOK /\ RemoteOK /\ EventsOK
  BY TypeParts DEF ServerOK, ListsOK
<1>2. CASE TakeRequest
  <2>1. EventsOK' /\ Head(events).peer \in Peers
    BY <1>1, <1>2, TakenType DEF TakeRequest, Event
  <2>2. SavedOK'
    BY <1>1, <1>2, <2>1 DEF TakeRequest, SavedOK, Setting
  <2>3. ServerOK' /\ ContactsOK' /\ RemoteOK' /\ BudgetOK' /\ RestOK'
    BY <1>1, <1>2, ServerStays DEF TakeRequest, history, ContactsOK, RemoteOK, BudgetOK, RestOK
  <2> QED BY <2>1, <2>2, <2>3, TypePartsPrime DEF ListsOK
<1>3. CASE TakeResponse
  <2>1. EventsOK'
    BY <1>1, <1>3, TakenType DEF TakeResponse
  <2>2. ContactsOK' /\ saved' \in [Peers -> Setting]
    <3>1. CASE UNCHANGED <<contacts, saved>>
      BY <1>1, <3>1 DEF ContactsOK, SavedOK
    <3>2. ASSUME NEW k \in Sender, contacts' = Turned(k, "rejected"),
                 Written(k, "rejected", "rejected")
          PROVE  ContactsOK' /\ saved' \in [Peers -> Setting]
      <4>1. k \in DOMAIN contacts
        BY SenderIsListed
      <4>2. contacts' \in Seq(Contact) /\ Len(contacts') = Len(contacts)
        BY <1>1, <3>2, <4>1, TurnedType
      <4>3. saved' \in [Peers -> Setting]
        BY <1>1, <3>2, <4>1, WrittenType
      <4> QED BY <1>1, <4>2, <4>3 DEF ContactsOK
    <3> QED BY <1>3, <3>1, <3>2 DEF TakeResponse
  <2>3. ServerOK' /\ RemoteOK' /\ BudgetOK' /\ RestOK' /\ SavedOK'
    BY <1>1, <1>3, <2>2, ServerStays
       DEF TakeResponse, history, RemoteOK, BudgetOK, RestOK, SavedOK, Crash
  <2> QED BY <2>1, <2>2, <2>3, TypePartsPrime DEF ListsOK
<1>4. CASE TakeMessage
  <2>1. EventsOK'
    BY <1>1, <1>4, TakenType DEF TakeMessage
  <2>2. crashed' \in Crash
    BY <1>1, <1>4 DEF TakeMessage, RestOK, Crash
  <2>3. ServerOK' /\ ContactsOK' /\ RemoteOK' /\ BudgetOK' /\ RestOK' /\ SavedOK'
    BY <1>1, <1>4, <2>2, ServerStays
       DEF TakeMessage, people, history, ContactsOK, RemoteOK, BudgetOK, RestOK, SavedOK
  <2> QED BY <2>1, <2>3, TypePartsPrime DEF ListsOK
<1>5. ASSUME NEW status \in {"online", "offline"}, TakeStatus(status)
      PROVE  TypeOK'
  <2>1. EventsOK'
    BY <1>1, <1>5, TakenType DEF TakeStatus
  <2>2. UNCHANGED <<conns, given, reading, requests, network, remote, history, crashed, budget>>
    BY <1>5 DEF TakeStatus
  <2>3. ServerOK' /\ ContactsOK' /\ clash' \in BOOLEAN /\ saved' \in [Peers -> Setting]
    <3>1. CASE Sender = {} /\ UNCHANGED <<channel, contacts, saved, clash>>
      BY <1>1, <2>2, <3>1, ServerStays DEF server, ContactsOK, RestOK, SavedOK
    <3>2. ASSUME NEW k \in Sender,
                 LET list == Turned(k, status)
                     flag == IF status = "online" THEN "+v" ELSE "-v"
                 IN /\ ShowOnMember(k, list, flag) \/ ShowOnNewUser(k, list, flag)
                    /\ Written(k, status, "allowed")
          PROVE  ServerOK' /\ ContactsOK' /\ clash' \in BOOLEAN /\ saved' \in [Peers -> Setting]
      <4> DEFINE list == Turned(k, status)
                 flag == IF status = "online" THEN "+v" ELSE "-v"
      <4>1. k \in DOMAIN contacts
        BY SenderIsListed
      <4>2. list \in Seq(Contact) /\ Len(list) = Len(contacts) /\ DOMAIN list = DOMAIN contacts
        BY <1>1, <4>1, TurnedType
      <4>3. ShowOnMember(k, list, flag) \/ ShowOnNewUser(k, list, flag)
        BY <3>2
      <4>4. flag \in {"+v", "-v"}
        OBVIOUS
      <4>5. saved' \in [Peers -> Setting]
        BY <1>1, <3>2, <4>1, WrittenType
      <4> HIDE DEF list, flag
      <4>6. ServerOK' /\ ContactsOK' /\ clash' \in BOOLEAN
        BY <2>2, <4>1, <4>2, <4>3, <4>4, ShownType
      <4> QED BY <4>5, <4>6
    <3> QED BY <1>5, <3>1, <3>2 DEF TakeStatus
  <2>4. RemoteOK' /\ BudgetOK' /\ RestOK' /\ SavedOK'
    BY <1>1, <2>2, <2>3 DEF history, RemoteOK, BudgetOK, RestOK, SavedOK
  <2> QED BY <2>1, <2>3, <2>4, TypePartsPrime DEF ListsOK
<1>6. CASE ControlConnected
  <2>1. ContactsOK'
    <3>1. PICK order \in SetToSeqs(OfType(DOMAIN ShownAs)) :
            /\ Len(contacts) + Len(order) <= MaxContacts
            /\ contacts' = contacts \o Entries(order)
      BY <1>6 DEF ControlConnected
    <3>2. Entries(order) \in Seq(Contact) /\ Len(Entries(order)) = Len(order)
      BY <1>1, EntriesType
    <3>3. contacts \in Seq(Contact)
      BY <1>1 DEF ContactsOK
    <3>4. contacts' \in Seq(Contact) /\ Len(contacts') = Len(contacts) + Len(order)
      <4> DEFINE more == Entries(order)
      <4>1. more \in Seq(Contact) /\ Len(more) = Len(order) /\ contacts' = contacts \o more
        BY <3>1, <3>2
      <4> HIDE DEF more
      <4> QED BY <3>3, <4>1, ConcatProperties
    <3> QED BY <3>1, <3>4 DEF ContactsOK
  <2>2. RemoteOK' /\ EventsOK'
    <3>1. CASE UNCHANGED <<remote, events>>
      BY <1>1, <3>1 DEF RemoteOK, EventsOK
    <3>2. ASSUME remote' = Append(remote, Loaded),
                 NEW askers \in SetToSeqs(OfType({"requesting"})),
                 events' = events \o
                   [n \in DOMAIN askers |-> [kind |-> "request", peer |-> askers[n]]]
          PROVE  RemoteOK' /\ EventsOK'
      <4>1. RemoteOK'
        <5>1. Loaded \in Identity /\ remote \in Seq(Identity)
          BY <1>1, LoadedType DEF RemoteOK
        <5>2. remote' \in Seq(Identity) /\ Len(remote') = Len(remote) + 1
          BY <3>2, <5>1, AppendProperties
        <5>3. remote' # << >>
          BY <1>1, <5>2, CurrentIdentity, EmptySeq
        <5> QED BY <5>2, <5>3 DEF RemoteOK
      <4> DEFINE S == OfType({"requesting"})
      <4>2. S \subseteq Peers /\ askers \in [1..Cardinality(S) -> S]
        BY <3>2 DEF OfType, SetToSeqs
      <4>3. Cardinality(S) \in Nat
        <5>1. IsFiniteSet(S)
          BY <4>2, PeersAssumption, FS_Subset
        <5> QED BY <5>1, FS_CardinalityType
      <4> HIDE DEF S
      <4> DEFINE news == [n \in DOMAIN askers |-> [kind |-> "request", peer |-> askers[n]]]
      <4>4. news \in [1..Cardinality(S) -> Event]
        BY <4>2 DEF Event
      <4>5. news \in Seq(Event)
        BY <4>3, <4>4
      <4>6. events' = events \o news
        BY <3>2
      <4> HIDE DEF news
      <4>7. EventsOK'
        BY <1>1, <4>5, <4>6, ConcatProperties DEF EventsOK
      <4> QED BY <4>1, <4>7
    <3> QED BY <1>6, <3>1, <3>2 DEF ControlConnected
  <2>3. BudgetOK'
    BY <1>1, <1>6, SpendsType DEF ControlConnected, Input
  <2>4. ServerOK' /\ RestOK' /\ SavedOK'
    BY <1>1, <1>6, ServerStays DEF ControlConnected, history, RestOK, SavedOK
  <2> QED BY <2>1, <2>2, <2>3, <2>4, TypePartsPrime DEF ListsOK
<1> QED BY <1>2, <1>3, <1>4, <1>5, <1>6 DEF Tasks

LEMMA LibtegoBecomes ==
  ASSUME Libtego
  PROVE  \E g \in DOMAIN remote, p \in Peers, x \in Holdings, kinds \in Seq(Kinds) :
           Becomes(g, p, x, kinds)
<1>1. PICK g \in DOMAIN remote, p \in Peers :
        \/ Asks(g, p) \/ Accepts(g, p) \/ Rejects(g, p)
        \/ ComesOnline(g, p) \/ GoesOffline(g, p) \/ Writes(g, p)
  BY DEF Libtego
<1>2. {"asking", "online", "offline", "rejected", "refused"} \subseteq Holdings
  BY DEF Holdings
<1>3. /\ <<"request">> \in Seq(Kinds) /\ <<"accepted", "online">> \in Seq(Kinds)
      /\ <<"accepted", "offline">> \in Seq(Kinds) /\ <<"rejected">> \in Seq(Kinds)
      /\ <<"online">> \in Seq(Kinds) /\ <<"offline">> \in Seq(Kinds)
      /\ <<"message">> \in Seq(Kinds) /\ <<"accepted">> \in Seq(Kinds)
  BY DEF Kinds
<1>4. \E x \in Holdings, kinds \in Seq(Kinds) : Becomes(g, p, x, kinds)
  BY <1>1, <1>2, <1>3 DEF Asks, Accepts, Rejects, ComesOnline, GoesOffline, Writes
<1> QED BY <1>4

LEMMA LibtegoType ==
  ASSUME TypeOK, Libtego
  PROVE  TypeOK'
<1>1. /\ ServerOK /\ BudgetOK /\ RestOK
      /\ ContactsOK /\ SavedOK /\ RemoteOK /\ EventsOK
  BY TypeParts DEF ServerOK, ListsOK
<1>2. PICK g \in DOMAIN remote, p \in Peers, x \in Holdings, kinds \in Seq(Kinds) :
        Becomes(g, p, x, kinds)
  BY LibtegoBecomes
<1>3. Announces(p, kinds) /\ Rewritten(remote, g, p, x, remote') /\ Spends("event")
  BY <1>2 DEF Becomes, Rewritten
<1>4. EventsOK' /\ RemoteOK' /\ BudgetOK'
  BY <1>1, <1>3, AnnouncesType, RemoteChanged, SpendsType DEF Input
<1>5. ServerOK' /\ RestOK' /\ ContactsOK' /\ SavedOK'
  BY <1>1, <1>2, ServerStays DEF Becomes, people, history, RestOK, ContactsOK, SavedOK
<1> QED BY <1>4, <1>5, TypePartsPrime DEF ListsOK

LEMMA TypeStep ==
  ASSUME TypeOK, [Next]_vars
  PROVE  TypeOK'
<1>1. CASE UNCHANGED vars
  BY <1>1 DEF vars, server, channel, people, libtego, history, TypeOK, late, virtual
<1> QED BY <1>1, ConnectionsType, CommandsType, TasksType, LibtegoType DEF Next

-----------------------------------------------------------------------------
\* One client: who completes the login closes the others.

LEMMA TellLogin ==
  ASSUME OneLogin, NEW i \in DOMAIN given, NEW what, NEW STATE names, Tell(i, what, names)
  PROVE  OneLogin'
<1> DEFINE done == [given EXCEPT ![i] = @ \cup {what}]
<1>1. CASE done[i] = Login /\ given[i] # Login
  <2>1. conns' = conns \ Closed(i)
    BY <1>1 DEF Tell
  <2>2. CASE Alone
    BY <2>1, <2>2 DEF Closed, Alone, OneLogin
  <2>3. CASE ~Alone
    BY <2>1, <2>3 DEF Closed, OneLogin
  <2> QED BY <2>2, <2>3
<1>2. CASE ~(done[i] = Login /\ given[i] # Login)
  <2>1. given' = done /\ conns' = conns
    BY <1>2 DEF Tell
  <2>2. ASSUME NEW j \in conns, LoggedIn(j)'
        PROVE  LoggedIn(j)
    <3>1. j \in DOMAIN given /\ done[j] = Login
      BY <2>1, <2>2 DEF LoggedIn
    <3>2. CASE j = i
      BY <1>2, <3>1, <3>2 DEF LoggedIn
    <3>3. CASE j # i
      BY <3>1, <3>3 DEF LoggedIn
    <3> QED BY <3>2, <3>3
  <2> QED BY <2>1, <2>2 DEF OneLogin
<1> QED BY <1>1, <1>2

LEMMA OneLoginStep ==
  ASSUME TypeOK, OneLogin, [Next]_vars
  PROVE  OneLogin'
<1>1. CASE given' = given /\ conns' \subseteq conns
  BY <1>1 DEF OneLogin, LoggedIn
<1>2. GivenOK /\ NickOK
  BY TypeParts DEF ServerOK
<1>3. CASE LinesEnd
  <2>1. conns' = conns /\ \A j \in conns : LoggedIn(j)' => LoggedIn(j)
    BY <1>2, <1>3 DEF LinesEnd, Without, LoggedIn
  <2> QED BY <2>1 DEF OneLogin
<1>4. ASSUME NEW i \in Clients, Connect(i)
      PROVE  OneLogin'
  <2>1. conns' = conns \cup {i} /\ given'[i] = {} /\ DOMAIN given' = DOMAIN given \cup {i}
    BY <1>4 DEF Connect, With
  <2>2. \A j \in conns : j # i => given'[j] = given[j] /\ j \in DOMAIN given
    BY <1>2, <1>4 DEF Connect, With, GivenOK
  <2>3. Login # {}
    BY DEF Login
  <2> QED BY <2>1, <2>2, <2>3 DEF OneLogin, LoggedIn
<1>5. ASSUME NEW i \in Clients, Disconnect(i)
      PROVE  OneLogin'
  <2>1. conns' = conns \ {i} /\ (given' = given \/ given' = Without(given, {i}))
    BY <1>5 DEF Disconnect
  <2>2. \A j \in conns' : LoggedIn(j)' => LoggedIn(j)
    BY <2>1 DEF Without, LoggedIn
  <2> QED BY <2>1, <2>2 DEF OneLogin
<1>6. ASSUME NEW i \in Clients, Pass(i) \/ User(i) \/ \E n \in Nicks : Nick(i, n)
      PROVE  OneLogin'
  <2>1. PICK what, names : Telling(i, what, names)
    BY <1>2, <1>6, LinesTell
  <2> QED BY <1>2, <2>1, SpeakerIsGiven, TellLogin DEF Telling
<1>7. CASE UNCHANGED vars \/ Commands \/ Tasks \/ Libtego
  <2>1. UNCHANGED <<given, conns>>
    BY <1>7 DEF vars, server, Commands, Tasks, Libtego, CmdAdd, CmdAccept, CmdReject, CmdDelete,
          Ends, CmdRename, TakeRequest, TakeResponse, TakeMessage, TakeStatus, ControlConnected,
          Asks, Accepts, Rejects, ComesOnline, GoesOffline, Writes, Becomes
  <2> QED BY <1>1, <2>1
<1>8. ASSUME NEW i \in Clients, Join(i) \/ Leave(i)
      PROVE  OneLogin'
  BY <1>1, <1>8 DEF Join, Leave
<1>9. CASE Connections
  BY <1>3, <1>4, <1>5, <1>6, <1>8, <1>9 DEF Connections
<1> QED BY <1>7, <1>9 DEF Next

LEMMA OneLoginCounts == OneLogin => OneClient
<1> SUFFICES ASSUME OneLogin PROVE OneClient
  OBVIOUS
<1> DEFINE S == {i \in conns : LoggedIn(i)}
<1>1. CASE S = {}
  BY <1>1, FS_EmptySet DEF OneClient
<1>2. CASE S # {}
  <2>1. PICK i : i \in S
    BY <1>2
  <2>2. S = {i}
    BY <2>1 DEF OneLogin
  <2>3. Cardinality(S) = 1
    BY <2>2, FS_Singleton
  <2> QED BY <2>3 DEF OneClient
<1> QED BY <1>1, <1>2

-----------------------------------------------------------------------------
\* The IrcUsers stand.

\* As long as the contacts, the IrcUsers and their names stay.
LEMMA UsersKept ==
  ASSUME UsersStand, contacts' = contacts,
         DOMAIN flags' \subseteq conns' \cup virtual' \cup late',
         \A m \in virtual : m \in virtual' /\ nick'[m] = nick[m],
         virtual \cap DOMAIN flags \subseteq DOMAIN flags'
  PROVE  UsersStand'
BY DEF UsersStand

LEMMA ServerUsers ==
  ASSUME UsersStand, UNCHANGED <<server, contacts>>
  PROVE  UsersStand'
BY DEF server, channel, UsersStand, virtual, late

LEMMA TellUsers ==
  ASSUME GivenOK, NickOK, UsersStand, contacts' = contacts, reading' = reading,
         NEW i \in DOMAIN given, NEW what \in Login,
         NEW STATE names, names \in [DOMAIN nick -> Nicks \cup {None}],
         \A m \in DOMAIN nick : names[m] = nick[m] \/ m = i,
         Tell(i, what, names)
  PROVE  UsersStand'
<1>1. /\ conns' \subseteq conns /\ late' = late /\ virtual' = virtual
      /\ DOMAIN given' = DOMAIN given \ (conns \ conns')
      /\ DOMAIN nick' = DOMAIN nick \ (conns \ conns')
      /\ \A m \in DOMAIN nick' : nick'[m] = names[m]
      /\ \/ conns' = conns /\ flags' = flags
         \/ flags' = With(Without(flags, conns \ conns'), {i}, "+o")
  BY ONLY GivenOK, NickOK, i \in DOMAIN given, what \in Login,
          names \in [DOMAIN nick -> Nicks \cup {None}], Tell(i, what, names),
          reading' = reading, TellParts
<1>2. virtual \cap Clients = {} /\ virtual \subseteq DOMAIN nick
  BY DEF virtual
<1>3. conns \subseteq Clients /\ i \in Clients /\ DOMAIN given = conns \cup late
  BY DEF GivenOK, late
<1>4. DOMAIN flags \subseteq conns \cup virtual \cup late
  BY DEF UsersStand
<1>5. \A m \in virtual : m \in virtual' /\ nick'[m] = nick[m]
  BY <1>1, <1>2, <1>3
<1>6. CASE conns' = conns /\ flags' = flags
  BY <1>1, <1>4, <1>5, <1>6, UsersKept
<1>7. CASE flags' = With(Without(flags, conns \ conns'), {i}, "+o")
  <2>1. DOMAIN flags' = (DOMAIN flags \ (conns \ conns')) \cup {i}
    BY <1>7 DEF With, Without
  <2>2. i \in conns' \cup late'
    <3>1. CASE conns' = conns
      BY <1>1, <1>3, <3>1
    <3>2. CASE conns' = conns \ Closed(i)
      BY <1>1, <1>3, <3>2 DEF Closed
    <3> QED BY <3>1, <3>2 DEF Tell
  <2>3. DOMAIN flags' \subseteq conns' \cup virtual' \cup late'
    BY <1>1, <1>4, <2>1, <2>2
  <2>4. virtual \cap DOMAIN flags \subseteq DOMAIN flags'
    BY <1>2, <1>3, <2>1
  <2> QED BY <1>5, <2>3, <2>4, UsersKept
<1> QED BY <1>1, <1>6, <1>7

LEMMA ConnectionsUsers ==
  ASSUME TypeOK, UsersStand, Connections
  PROVE  UsersStand'
<1>1. GivenOK /\ NickOK /\ FlagsOK
  BY TypeParts DEF ServerOK
<1>2. /\ virtual \cap Clients = {} /\ conns \subseteq DOMAIN given /\ DOMAIN given \subseteq Clients
      /\ DOMAIN flags \subseteq conns \cup virtual \cup late
  BY <1>1 DEF GivenOK, virtual, UsersStand
<1>3. CASE LinesEnd
  <2>1. /\ contacts' = contacts /\ UNCHANGED <<conns, flags>>
        /\ DOMAIN given' = DOMAIN given \ ({reading} \ DOMAIN flags)
        /\ DOMAIN nick' = DOMAIN nick \ ({reading} \ DOMAIN flags)
        /\ \A m \in DOMAIN nick' : nick'[m] = nick[m]
    BY <1>3 DEF LinesEnd, people, Without
  <2>2. reading \in Clients
    BY <1>1, <1>3 DEF LinesEnd, GivenOK, late
  <2>3. virtual' = virtual /\ \A m \in virtual : m \in virtual' /\ nick'[m] = nick[m]
    BY <2>1, <2>2 DEF virtual
  <2>4. DOMAIN flags' \subseteq conns' \cup virtual' \cup late'
    BY <1>2, <2>1, <2>3 DEF late
  <2> QED BY <2>1, <2>3, <2>4, UsersKept
<1>4. ASSUME NEW i \in Clients, Connect(i)
      PROVE  UsersStand'
  <2>1. /\ contacts' = contacts /\ conns' = conns \cup {i} /\ UNCHANGED flags
        /\ DOMAIN given' = DOMAIN given \cup {i} /\ i \notin DOMAIN given
    BY <1>4 DEF Connect, With, people
  <2>2. virtual' = virtual /\ \A m \in virtual : m \in virtual' /\ nick'[m] = nick[m]
    BY <1>2, <1>4 DEF Connect, With, virtual
  <2>3. late' = late
    BY <1>2, <2>1 DEF late
  <2> QED BY <1>2, <2>1, <2>2, <2>3, UsersKept
<1>5. ASSUME NEW i \in Clients, Pass(i) \/ User(i) \/ \E n \in Nicks : Nick(i, n)
      PROVE  UsersStand'
  <2>1. PICK what, names : Telling(i, what, names)
    BY <1>1, <1>5, LinesTell
  <2>2. i \in DOMAIN given
    BY <1>1, <2>1, SpeakerIsGiven DEF Telling
  <2>3. contacts' = contacts /\ reading' = reading
    BY <2>1 DEF Telling, people
  <2> QED BY <1>1, <2>1, <2>2, <2>3, TellUsers DEF Telling
<1>6. ASSUME NEW i \in Clients, Join(i) \/ Leave(i)
      PROVE  UsersStand'
  <2>1. UNCHANGED <<conns, given, nick, contacts>> /\ i \in DOMAIN given
    BY <1>1, <1>6, SpeakerIsGiven DEF Join, Leave, people
  <2>2. late' = late /\ virtual' = virtual /\ DOMAIN given = conns \cup late
    BY <1>2, <2>1 DEF late, virtual
  <2>3. /\ DOMAIN flags' \subseteq DOMAIN flags \cup {i}
        /\ DOMAIN flags \ {i} \subseteq DOMAIN flags'
    BY <1>6 DEF Join, Leave, With, Without
  <2> QED BY <1>2, <2>1, <2>2, <2>3, UsersKept
<1>7. ASSUME NEW i \in Clients, Disconnect(i)
      PROVE  UsersStand'
  <2>1. /\ contacts' = contacts /\ i \in conns /\ conns' = conns \ {i}
        /\ DOMAIN flags' = DOMAIN flags \ {i}
    BY <1>7 DEF Disconnect, people, Without
  <2>2. virtual' = virtual /\ \A m \in virtual : m \in virtual' /\ nick'[m] = nick[m]
    BY <1>2, <1>7 DEF Disconnect, Without, virtual
  <2>3. late \subseteq late'
    BY <1>7, <2>1 DEF Disconnect, Without, late
  <2>4. DOMAIN flags' \subseteq conns' \cup virtual' \cup late'
    BY <1>2, <2>1, <2>2, <2>3
  <2> QED BY <1>2, <2>1, <2>2, <2>4, UsersKept
<1> QED BY <1>3, <1>4, <1>5, <1>6, <1>7 DEF Connections

\* Contacts that are new at the end of the list have no IrcUser.
LEMMA MoreUsers ==
  ASSUME UsersStand, DOMAIN contacts \subseteq DOMAIN contacts',
         \A j \in DOMAIN contacts : contacts'[j] = contacts[j],
         \A j \in DOMAIN contacts' \ DOMAIN contacts : contacts'[j].user = None,
         UNCHANGED server
  PROVE  UsersStand'
<1>1. ASSUME NEW j \in DOMAIN contacts', contacts'[j].user # None
      PROVE  j \in DOMAIN contacts /\ contacts'[j] = contacts[j]
  BY <1>1
<1>2. UNCHANGED <<nick, flags, conns>> /\ late' = late /\ virtual' = virtual
  BY DEF server, channel, late, virtual
<1>3. DOMAIN flags' \subseteq conns' \cup virtual' \cup late'
  BY <1>2 DEF UsersStand
<1>4. ASSUME NEW k \in DOMAIN contacts', contacts'[k].user # None
      PROVE  /\ contacts'[k].user \in virtual' \cap DOMAIN flags'
             /\ nick'[contacts'[k].user] = contacts'[k].nick
             /\ \A j \in DOMAIN contacts' : contacts'[j].user = contacts'[k].user => j = k
  <2>1. k \in DOMAIN contacts /\ contacts'[k] = contacts[k]
    BY <1>1, <1>4
  <2>2. /\ contacts[k].user \in virtual \cap DOMAIN flags
        /\ nick[contacts[k].user] = contacts[k].nick
        /\ \A j \in DOMAIN contacts : contacts[j].user = contacts[k].user => j = k
    BY <1>4, <2>1 DEF UsersStand
  <2>3. ASSUME NEW j \in DOMAIN contacts', contacts'[j].user = contacts'[k].user
        PROVE  j = k
    BY <1>1, <1>4, <2>1, <2>2, <2>3
  <2> QED BY <1>2, <2>1, <2>2, <2>3
<1> QED BY <1>3, <1>4 DEF UsersStand

\* What is behind the list that was there.
LEMMA Behind ==
  ASSUME ContactsOK, NEW more \in Seq(Contact), NEW list, list = contacts \o more
  PROVE  /\ list \in Seq(Contact) /\ Len(list) = Len(contacts) + Len(more)
         /\ DOMAIN contacts \subseteq DOMAIN list
         /\ \A j \in DOMAIN contacts : list[j] = contacts[j]
         /\ \A j \in DOMAIN list \ DOMAIN contacts :
              j - Len(contacts) \in DOMAIN more /\ list[j] = more[j - Len(contacts)]
         /\ \A j \in DOMAIN more :
              Len(contacts) + j \in DOMAIN list /\ list[Len(contacts) + j] = more[j]
<1>1. /\ contacts \in Seq(Contact) /\ Len(contacts) \in Nat /\ Len(more) \in Nat
      /\ DOMAIN contacts = 1..Len(contacts) /\ DOMAIN more = 1..Len(more)
  BY LenProperties DEF ContactsOK
<1>2. /\ list \in Seq(Contact) /\ Len(list) = Len(contacts) + Len(more)
      /\ \A j \in 1..(Len(contacts) + Len(more)) :
           list[j] = IF j <= Len(contacts) THEN contacts[j] ELSE more[j - Len(contacts)]
  <2>1. /\ contacts \o more \in Seq(Contact)
        /\ Len(contacts \o more) = Len(contacts) + Len(more)
        /\ \A j \in 1..(Len(contacts) + Len(more)) : (contacts \o more)[j]
             = IF j <= Len(contacts) THEN contacts[j] ELSE more[j - Len(contacts)]
    BY <1>1, ConcatProperties
  <2> QED BY <2>1, Zenon
<1>3. DOMAIN list = 1..(Len(contacts) + Len(more))
  BY <1>2, LenProperties
<1>4. \A j \in DOMAIN contacts : j \in DOMAIN list /\ list[j] = contacts[j]
  BY <1>1, <1>2, <1>3
<1>5. \A j \in DOMAIN list \ DOMAIN contacts :
        j - Len(contacts) \in DOMAIN more /\ list[j] = more[j - Len(contacts)]
  BY <1>1, <1>2, <1>3
<1>6. ASSUME NEW j \in DOMAIN more
      PROVE  Len(contacts) + j \in DOMAIN list /\ list[Len(contacts) + j] = more[j]
  <2>1. Len(contacts) + j \in 1..(Len(contacts) + Len(more)) /\ ~(Len(contacts) + j <= Len(contacts))
    BY <1>1
  <2>2. (Len(contacts) + j) - Len(contacts) = j
    BY <1>1
  <2> QED BY <1>2, <1>3, <2>1, <2>2
<1> QED BY <1>2, <1>4, <1>5, <1>6

LEMMA AppendIsBehind ==
  ASSUME ContactsOK, NEW c \in Contact
  PROVE  << c >> \in Seq(Contact) /\ Append(contacts, c) = contacts \o << c >>
<1>1. << c >> \in Seq(Contact) /\ Len(<< c >>) = 1 /\ << c >>[1] = c
  OBVIOUS
<1>2. /\ contacts \in Seq(Contact) /\ Len(contacts) \in Nat
      /\ DOMAIN contacts = 1..Len(contacts)
  BY LenProperties DEF ContactsOK
<1> DEFINE s == Append(contacts, c)
           t == contacts \o << c >>
<1>3. /\ s \in Seq(Contact) /\ Len(s) = Len(contacts) + 1
      /\ \A j \in 1..Len(contacts) : s[j] = contacts[j]
      /\ s[Len(contacts) + 1] = c
  BY <1>2, AppendProperties
<1>4. /\ t \in Seq(Contact) /\ Len(t) = Len(contacts) + 1
      /\ \A j \in 1..Len(contacts) : t[j] = contacts[j]
      /\ t[Len(contacts) + 1] = c
  BY <1>1, <1>2, ConcatProperties
<1> HIDE DEF s, t
<1>5. \A j \in 1..Len(s) : s[j] = t[j]
  BY <1>2, <1>3, <1>4
<1>6. s = t
  BY <1>3, <1>4, <1>5, SeqEqual
<1> QED BY <1>1, <1>6 DEF s, t

LEMMA RemovedUsers ==
  ASSUME TypeOK, UsersStand, NEW k \in DOMAIN contacts,
         contacts' = RemoveAt(contacts, k),
         flags' = Without(flags, {contacts[k].user}),
         nick' = Without(nick, {contacts[k].user}),
         UNCHANGED <<conns, given>>
  PROVE  UsersStand'
<1> DEFINE u == contacts[k].user
<1>1. GivenOK /\ NickOK /\ FlagsOK /\ ContactsOK
  BY TypeParts DEF ServerOK, ListsOK
<1>2. DOMAIN contacts = 1..Len(contacts) /\ Len(contacts) \in Nat
  BY <1>1, LenProperties DEF ContactsOK
<1>3. /\ u # None => \A j \in DOMAIN contacts : contacts[j].user = u => j = k
      /\ DOMAIN flags \subseteq conns \cup virtual \cup late
  BY DEF UsersStand
<1>4. u \notin conns \cup late
  <2>1. contacts[k] \in Contact
    BY <1>1, ElementOfSeq, LenProperties DEF ContactsOK
  <2>2. u \in Users \cup {None}
    BY <2>1 DEF Contact
  <2> QED BY <1>1, <2>2, ObjectsAssumption DEF GivenOK, late
<1>5. DOMAIN nick' = DOMAIN nick \ {u} /\ \A m \in DOMAIN nick' : nick'[m] = nick[m]
  BY DEF Without
<1>6. /\ conns' = conns /\ late' = late /\ virtual' = virtual \ {u}
      /\ DOMAIN flags' = DOMAIN flags \ {u}
  BY <1>5 DEF Without, late, virtual
<1>7. DOMAIN flags' \subseteq conns' \cup virtual' \cup late'
  BY <1>3, <1>6
<1>8. contacts' \in Seq(Contact)
  BY <1>1, RemovedContact DEF ContactsOK
<1>9. \A j \in DOMAIN contacts' :
        \/ j \in DOMAIN contacts /\ j < k /\ contacts'[j] = contacts[j]
        \/ j + 1 \in DOMAIN contacts /\ j >= k /\ contacts'[j] = contacts[j + 1]
  BY <1>1, RemovedContact DEF ContactsOK
<1>10. DOMAIN contacts' \subseteq Nat /\ k \in Nat
  BY <1>2, <1>8, LenProperties
<1> HIDE DEF u
<1>11. ASSUME NEW a \in DOMAIN contacts', contacts'[a].user # None
       PROVE  /\ contacts'[a].user \in virtual' \cap DOMAIN flags'
              /\ nick'[contacts'[a].user] = contacts'[a].nick
              /\ \A b \in DOMAIN contacts' : contacts'[b].user = contacts'[a].user => b = a
  <2>1. PICK i \in DOMAIN contacts :
          /\ i # k /\ contacts'[a] = contacts[i]
          /\ \/ i = a /\ a < k
             \/ i = a + 1 /\ a >= k
    BY <1>2, <1>9, <1>10
  <2>2. /\ contacts[i].user \in virtual \cap DOMAIN flags
        /\ nick[contacts[i].user] = contacts[i].nick
        /\ \A j \in DOMAIN contacts : contacts[j].user = contacts[i].user => j = i
    BY <1>11, <2>1 DEF UsersStand
  <2>3. contacts[i].user # u
    BY <1>3, <1>11, <2>1
  <2>4. ASSUME NEW b \in DOMAIN contacts', contacts'[b].user = contacts'[a].user
        PROVE  b = a
    <3>1. PICK j \in DOMAIN contacts :
            /\ contacts'[b] = contacts[j]
            /\ \/ j = b /\ b < k
               \/ j = b + 1 /\ b >= k
      BY <1>2, <1>9, <1>10
    <3>2. i = j
      BY <2>1, <2>2, <2>4, <3>1
    <3> QED BY <1>10, <2>1, <3>1, <3>2
  <2>5. contacts[i].user \in DOMAIN nick'
    BY <1>5, <2>2, <2>3 DEF virtual
  <2> QED BY <1>5, <1>6, <2>1, <2>2, <2>3, <2>4, <2>5
<1> QED BY <1>7, <1>11 DEF UsersStand

LEMMA RenamedUsers ==
  ASSUME TypeOK, UsersStand, NEW k \in DOMAIN contacts, NEW new \in Nicks,
         contacts' = [contacts EXCEPT ![k].nick = new],
         nick' = [m \in DOMAIN nick |-> IF m = contacts[k].user THEN new ELSE nick[m]],
         UNCHANGED <<conns, given, flags>>
  PROVE  UsersStand'
<1>1. contacts \in Seq(Contact)
  BY DEF TypeOK
<1>2. contacts[k] \in Contact
  BY <1>1, ElementOfSeq, LenProperties
<1>3. [contacts[k] EXCEPT !.nick = new] \in Contact
  BY <1>2 DEF Contact
<1>4. /\ DOMAIN contacts' = DOMAIN contacts
      /\ contacts'[k] = [contacts[k] EXCEPT !.nick = new]
      /\ \A j \in DOMAIN contacts : j # k => contacts'[j] = contacts[j]
  BY <1>1, <1>3, ChangedEntry
<1>5. \A j \in DOMAIN contacts :
        /\ contacts'[j].user = contacts[j].user
        /\ contacts'[j].nick = IF j = k THEN new ELSE contacts[j].nick
  BY <1>2, <1>4 DEF Contact
<1>6. late' = late /\ virtual' = virtual
  BY DEF late, virtual
<1>7. ASSUME NEW a \in DOMAIN contacts, contacts[a].user # None
      PROVE  /\ contacts'[a].user \in virtual' \cap DOMAIN flags'
             /\ nick'[contacts'[a].user] = contacts'[a].nick
             /\ \A b \in DOMAIN contacts : contacts'[b].user = contacts'[a].user => b = a
  <2>1. /\ contacts[a].user \in virtual \cap DOMAIN flags
        /\ nick[contacts[a].user] = contacts[a].nick
        /\ \A b \in DOMAIN contacts : contacts[b].user = contacts[a].user => b = a
    BY <1>7 DEF UsersStand
  <2>2. contacts[a].user \in DOMAIN nick
    BY <2>1 DEF virtual
  <2>3. contacts[a].user = contacts[k].user <=> a = k
    BY <2>1
  <2> QED BY <1>5, <1>6, <2>1, <2>2, <2>3
<1> QED BY <1>4, <1>6, <1>7 DEF UsersStand

LEMMA CommandsUsers ==
  ASSUME TypeOK, UsersStand, Commands
  PROVE  UsersStand'
<1>1. GivenOK /\ NickOK /\ FlagsOK /\ ContactsOK
  BY TypeParts DEF ServerOK, ListsOK
<1>2. ASSUME NEW p \in Peers, NEW n \in Nicks, NEW shown \in {"offline", "pending"}, NEW type,
             Listed(p, n, shown, type), UNCHANGED server
      PROVE  UsersStand'
  <2> DEFINE c == [peer |-> p, nick |-> n, user |-> None, status |-> shown]
  <2>1. c \in Contact /\ c.user = None
    BY DEF Contact
  <2>2. contacts' = Append(contacts, c)
    BY <1>2 DEF Listed
  <2> HIDE DEF c
  <2>3. << c >> \in Seq(Contact) /\ contacts' = contacts \o << c >>
    BY <1>1, <2>1, <2>2, AppendIsBehind
  <2>4. /\ DOMAIN contacts \subseteq DOMAIN contacts'
        /\ \A j \in DOMAIN contacts : contacts'[j] = contacts[j]
        /\ \A j \in DOMAIN contacts' \ DOMAIN contacts :
             j - Len(contacts) \in DOMAIN << c >> /\ contacts'[j] = << c >>[j - Len(contacts)]
    BY <1>1, <2>3, Behind
  <2>5. \A j \in DOMAIN << c >> : << c >>[j] = c
    OBVIOUS
  <2> QED BY <1>2, <2>1, <2>4, <2>5, MoreUsers
<1>3. ASSUME NEW p \in Peers, NEW n \in Nicks, CmdAdd(p, n) \/ CmdAccept(p, n)
      PROVE  UsersStand'
  <2>1. CASE \E why : Ends(why)
    BY <2>1, ServerUsers DEF Ends, people
  <2>2. CASE Listed(p, n, "pending", "pending") /\ UNCHANGED server
    BY <1>2, <2>2
  <2>3. CASE Listed(p, n, "offline", "allowed") /\ UNCHANGED server
    BY <1>2, <2>3
  <2> QED BY <1>3, <2>1, <2>2, <2>3 DEF CmdAdd, CmdAccept
<1>4. ASSUME NEW p \in Peers, CmdReject(p)
      PROVE  UsersStand'
  BY <1>4, ServerUsers DEF CmdReject, Ends, people
<1>5. ASSUME NEW n \in Nicks, CmdDelete(n)
      PROVE  UsersStand'
  <2>1. PICK k \in Called(n) :
          \/ Ends("forgotten") \/ Ends("unmapped")
          \/ /\ contacts' = RemoveAt(contacts, k)
             /\ flags' = Without(flags, {contacts[k].user})
             /\ nick' = Without(nick, {contacts[k].user})
             /\ UNCHANGED <<conns, given>>
    BY <1>5 DEF CmdDelete
  <2>2. CASE Ends("forgotten") \/ Ends("unmapped")
    BY <2>2, ServerUsers DEF Ends, people
  <2>3. k \in DOMAIN contacts
    BY CalledIsIndex
  <2> QED BY <2>1, <2>2, <2>3, RemovedUsers
<1>6. ASSUME NEW old \in Nicks, NEW new \in Nicks, CmdRename(old, new)
      PROVE  UsersStand'
  <2>1. PICK k \in Called(old) :
          /\ contacts' = [contacts EXCEPT ![k].nick = new]
          /\ nick' = [m \in DOMAIN nick |-> IF m = contacts[k].user THEN new ELSE nick[m]]
    BY <1>6 DEF CmdRename, Renamed
  <2>2. k \in DOMAIN contacts /\ UNCHANGED <<conns, given, flags>>
    BY <1>6, CalledIsIndex DEF CmdRename
  <2> QED BY <2>1, <2>2, RenamedUsers
<1> QED BY <1>3, <1>4, <1>5, <1>6 DEF Commands

\* A contact is shown on a member of the channel, or on a new IrcUser, its own.
LEMMA ShownUsers ==
  ASSUME TypeOK, UsersStand, NEW k \in DOMAIN contacts, NEW flag,
         NEW STATE list, list \in Seq(Contact), DOMAIN list = DOMAIN contacts,
         \A j \in DOMAIN contacts :
           list[j].user = contacts[j].user /\ list[j].nick = contacts[j].nick,
         UNCHANGED <<conns, given>>,
         ShowOnMember(k, list, flag) \/ ShowOnNewUser(k, list, flag)
  PROVE  UsersStand'
<1>1. GivenOK /\ NickOK /\ FlagsOK /\ ContactsOK
  BY TypeParts DEF ServerOK, ListsOK
<1>2. DOMAIN nick = DOMAIN given \cup virtual /\ virtual \cap Clients = {} /\ late' = late
  BY <1>1 DEF NickOK, virtual, late
<1>3. DOMAIN flags \subseteq conns \cup virtual \cup late
  BY DEF UsersStand
<1>4. ASSUME NEW a \in DOMAIN contacts, contacts[a].user # None
      PROVE  /\ contacts[a].user \in virtual \cap DOMAIN flags
             /\ nick[contacts[a].user] = contacts[a].nick
             /\ \A b \in DOMAIN contacts : contacts[b].user = contacts[a].user => b = a
  BY <1>4 DEF UsersStand
<1>5. CASE ShowOnMember(k, list, flag)
  <2>1. PICK m \in Named(list[k].nick) :
          flags' = With(flags, {m}, flag) /\ contacts' = list /\ UNCHANGED nick
    BY <1>5 DEF ShowOnMember
  <2>2. DOMAIN flags' = DOMAIN flags /\ virtual' = virtual
    BY <2>1 DEF Named, With, virtual
  <2>3. DOMAIN flags' \subseteq conns' \cup virtual' \cup late'
    BY <1>2, <1>3, <2>2
  <2>4. /\ DOMAIN contacts' = DOMAIN contacts /\ nick' = nick
        /\ \A j \in DOMAIN contacts :
             contacts'[j].user = contacts[j].user /\ contacts'[j].nick = contacts[j].nick
    BY <2>1
  <2>5. ASSUME NEW a \in DOMAIN contacts', contacts'[a].user # None
        PROVE  /\ contacts'[a].user \in virtual' \cap DOMAIN flags'
               /\ nick'[contacts'[a].user] = contacts'[a].nick
               /\ \A b \in DOMAIN contacts' : contacts'[b].user = contacts'[a].user => b = a
    BY <1>4, <2>2, <2>4, <2>5
  <2> QED BY <2>3, <2>5 DEF UsersStand
<1>6. CASE ShowOnNewUser(k, list, flag)
  <2>1. PICK u \in Users \ virtual :
          /\ nick' = With(nick, {u}, list[k].nick)
          /\ flags' = With(flags, {u}, flag)
          /\ contacts' = [list EXCEPT ![k].user = u]
    BY <1>6 DEF ShowOnNewUser
  <2>2. u \notin Clients /\ u # None /\ u \notin DOMAIN nick
    BY <1>1, <1>2, <2>1, ObjectsAssumption DEF GivenOK
  <2>3. /\ DOMAIN nick' = DOMAIN nick \cup {u} /\ virtual' = virtual \cup {u}
        /\ nick'[u] = list[k].nick /\ \A m \in DOMAIN nick : nick'[m] = nick[m]
    BY <2>1, <2>2 DEF With, virtual
  <2>4. DOMAIN flags' = DOMAIN flags \cup {u}
    BY <2>1 DEF With
  <2>5. list[k] \in Contact
    BY ElementOfSeq, LenProperties
  <2>6. [list[k] EXCEPT !.user = u] \in Contact
    BY <2>1, <2>5 DEF Contact
  <2>7. /\ DOMAIN contacts' = DOMAIN contacts
        /\ contacts'[k] = [list[k] EXCEPT !.user = u]
        /\ \A j \in DOMAIN contacts : j # k => contacts'[j] = list[j]
    BY <2>1, <2>6, ChangedEntry
  <2>8. contacts'[k].user = u /\ contacts'[k].nick = list[k].nick
    BY <2>5, <2>7 DEF Contact
  <2>9. \A j \in DOMAIN contacts : j # k =>
          contacts'[j].user = contacts[j].user /\ contacts'[j].nick = contacts[j].nick
    BY <2>7
  <2>10. \A j \in DOMAIN contacts : contacts[j].user # u
    BY <1>4, <2>1, <2>2
  <2>11. ASSUME NEW a \in DOMAIN contacts', contacts'[a].user # None
         PROVE  /\ contacts'[a].user \in virtual' \cap DOMAIN flags'
                /\ nick'[contacts'[a].user] = contacts'[a].nick
                /\ \A b \in DOMAIN contacts' : contacts'[b].user = contacts'[a].user => b = a
    <3>1. CASE a = k
      BY <2>3, <2>4, <2>7, <2>8, <2>9, <2>10, <3>1
    <3>2. CASE a # k
      <4>1. /\ contacts[a].user \in virtual \cap DOMAIN flags
            /\ nick[contacts[a].user] = contacts[a].nick
            /\ \A b \in DOMAIN contacts : contacts[b].user = contacts[a].user => b = a
        BY <1>4, <2>7, <2>9, <2>11, <3>2
      <4>2. contacts[a].user \in DOMAIN nick
        BY <4>1 DEF virtual
      <4>3. \A b \in DOMAIN contacts' : contacts'[b].user = contacts'[a].user => b = a
        BY <2>7, <2>8, <2>9, <2>10, <3>2, <4>1
      <4> QED BY <2>3, <2>4, <2>7, <2>9, <3>2, <4>1, <4>2, <4>3
    <3> QED BY <3>1, <3>2
  <2>12. DOMAIN flags' \subseteq conns' \cup virtual' \cup late'
    BY <1>2, <1>3, <2>3, <2>4
  <2> QED BY <2>11, <2>12 DEF UsersStand
<1> QED BY <1>5, <1>6

LEMMA TasksUsers ==
  ASSUME TypeOK, UsersStand, Tasks
  PROVE  UsersStand'
<1>1. ContactsOK /\ SavedOK
  BY TypeParts DEF ListsOK
<1>2. CASE TakeRequest \/ TakeMessage
  BY <1>2, ServerUsers DEF TakeRequest, TakeMessage, people
<1>3. CASE TakeResponse
  <2>1. UNCHANGED server
    BY <1>3 DEF TakeResponse
  <2>2. CASE UNCHANGED contacts
    BY <2>1, <2>2, ServerUsers
  <2>3. ASSUME NEW k \in Sender, contacts' = Turned(k, "rejected")
        PROVE  UsersStand'
    <3>1. k \in DOMAIN contacts
      BY SenderIsListed
    <3>2. /\ DOMAIN contacts' = DOMAIN contacts
          /\ \A j \in DOMAIN contacts :
               contacts'[j].user = contacts[j].user /\ contacts'[j].nick = contacts[j].nick
      BY <1>1, <2>3, <3>1, TurnedType
    <3> QED BY <2>1, <3>2 DEF server, channel, UsersStand, virtual, late
  <2> QED BY <1>3, <2>2, <2>3 DEF TakeResponse
<1>4. ASSUME NEW status \in {"online", "offline"}, TakeStatus(status)
      PROVE  UsersStand'
  <2>1. UNCHANGED <<conns, given, reading>>
    BY <1>4 DEF TakeStatus
  <2>2. CASE UNCHANGED <<channel, contacts>>
    BY <2>1, <2>2, ServerUsers DEF server
  <2>3. ASSUME NEW k \in Sender,
               LET list == Turned(k, status)
                   flag == IF status = "online" THEN "+v" ELSE "-v"
               IN ShowOnMember(k, list, flag) \/ ShowOnNewUser(k, list, flag)
        PROVE  UsersStand'
    <3> DEFINE list == Turned(k, status)
               flag == IF status = "online" THEN "+v" ELSE "-v"
    <3>1. k \in DOMAIN contacts
      BY SenderIsListed
    <3>2. /\ list \in Seq(Contact) /\ DOMAIN list = DOMAIN contacts
          /\ \A j \in DOMAIN contacts :
               list[j].user = contacts[j].user /\ list[j].nick = contacts[j].nick
      BY <1>1, <3>1, TurnedType
    <3>3. ShowOnMember(k, list, flag) \/ ShowOnNewUser(k, list, flag)
      BY <2>3
    <3> HIDE DEF list, flag
    <3> QED BY <2>1, <3>1, <3>2, <3>3, ShownUsers
  <2> QED BY <1>4, <2>2, <2>3 DEF TakeStatus
<1>5. CASE ControlConnected
  <2>1. PICK order \in SetToSeqs(OfType(DOMAIN ShownAs)) : contacts' = contacts \o Entries(order)
    BY <1>5 DEF ControlConnected
  <2>2. /\ Entries(order) \in Seq(Contact) /\ DOMAIN Entries(order) = DOMAIN order
        /\ \A j \in DOMAIN order : Entries(order)[j].user = None
    BY <1>1, EntriesType
  <2> DEFINE more == Entries(order)
  <2>3. /\ more \in Seq(Contact) /\ contacts' = contacts \o more
        /\ \A j \in DOMAIN more : more[j].user = None
    BY <2>1, <2>2
  <2> HIDE DEF more
  <2>4. /\ DOMAIN contacts \subseteq DOMAIN contacts'
        /\ \A j \in DOMAIN contacts : contacts'[j] = contacts[j]
        /\ \A j \in DOMAIN contacts' \ DOMAIN contacts :
             j - Len(contacts) \in DOMAIN more /\ contacts'[j] = more[j - Len(contacts)]
    BY <1>1, <2>3, Behind
  <2>5. UNCHANGED server
    BY <1>5 DEF ControlConnected
  <2> QED BY <2>3, <2>4, <2>5, MoreUsers
<1> QED BY <1>2, <1>3, <1>4, <1>5 DEF Tasks

LEMMA UsersStandStep ==
  ASSUME TypeOK, UsersStand, [Next]_vars
  PROVE  UsersStand'
<1>1. CASE UNCHANGED vars \/ Libtego
  <2>1. UNCHANGED <<server, contacts>>
    BY <1>1 DEF vars, Libtego, Asks, Accepts, Rejects, ComesOnline, GoesOffline, Writes,
          Becomes, people
  <2> QED BY <2>1, ServerUsers
<1> QED BY <1>1, ConnectionsUsers, CommandsUsers, TasksUsers DEF Next

-----------------------------------------------------------------------------
\* The network follows the connections.

\* What the property says of a step.
Follows ==
  /\ conns # {} /\ conns' = {} => ~network'
  /\ \A i \in conns : conns = {i} /\ LoggedIn(i)' /\ ~LoggedIn(i) => network'

LEMMA TellFollows ==
  ASSUME GivenOK, NEW i \in DOMAIN given, NEW what, NEW STATE names, Tell(i, what, names)
  PROVE  Follows
<1> DEFINE done == [given EXCEPT ![i] = @ \cup {what}]
<1>1. CASE done[i] = Login /\ given[i] # Login
  <2>1. /\ conns' = conns \ Closed(i) /\ DOMAIN given' = DOMAIN given \ Closed(i)
        /\ network' = (Alone \/ (network /\ (Closed(i) # {} => conns' # {})))
    BY <1>1 DEF Tell, Without
  <2>2. CASE Alone
    <3>1. conns' = conns /\ conns # {} /\ network'
      BY <2>1, <2>2 DEF Alone, Closed
    <3> QED BY <3>1 DEF Follows
  <2>3. CASE ~Alone
    <3>1. \A j \in conns : conns # {j}
      BY <2>3 DEF Alone
    <3>2. conns # {} /\ conns' = {} => Closed(i) # {}
      BY <2>1
    <3> QED BY <2>1, <2>3, <3>1, <3>2 DEF Follows
  <2> QED BY <2>2, <2>3
<1>2. CASE ~(done[i] = Login /\ given[i] # Login)
  <2>1. given' = done /\ conns' = conns
    BY <1>2 DEF Tell
  <2>2. \A j \in conns : LoggedIn(j)' => LoggedIn(j)
    BY <1>2, <2>1 DEF LoggedIn
  <2> QED BY <2>1, <2>2 DEF Follows
<1> QED BY <1>1, <1>2

LEMMA FollowsStep ==
  ASSUME TypeOK, Next
  PROVE  Follows
<1>1. CASE UNCHANGED <<given, conns>>
  BY <1>1 DEF Follows, LoggedIn
<1>2. GivenOK /\ NickOK
  BY TypeParts DEF ServerOK
<1>3. CASE LinesEnd
  <2>1. conns' = conns /\ \A j \in conns : LoggedIn(j)' => LoggedIn(j)
    BY <1>3 DEF LinesEnd, Without, LoggedIn
  <2> QED BY <2>1 DEF Follows
<1>4. ASSUME NEW i \in Clients, Connect(i)
      PROVE  Follows
  <2>1. conns' = conns \cup {i} /\ i \notin DOMAIN given
    BY <1>4 DEF Connect
  <2>2. \A j \in conns : LoggedIn(j)' => LoggedIn(j)
    BY <1>2, <1>4, <2>1 DEF Connect, With, LoggedIn, GivenOK
  <2> QED BY <2>1, <2>2 DEF Follows
<1>5. ASSUME NEW i \in Clients, Disconnect(i)
      PROVE  Follows
  <2>1. /\ network' = (network /\ conns' # {})
        /\ given' = given \/ given' = Without(given, {i})
    BY <1>5 DEF Disconnect
  <2>2. \A j \in conns : LoggedIn(j)' => LoggedIn(j)
    BY <2>1 DEF Without, LoggedIn
  <2> QED BY <2>1, <2>2 DEF Follows
<1>6. ASSUME NEW i \in Clients, Pass(i) \/ User(i) \/ \E n \in Nicks : Nick(i, n)
      PROVE  Follows
  <2>1. PICK what, names : Telling(i, what, names)
    BY <1>2, <1>6, LinesTell
  <2> QED BY <1>2, <2>1, SpeakerIsGiven, TellFollows DEF Telling
<1>7. CASE Commands \/ Tasks \/ Libtego
  <2>1. UNCHANGED <<given, conns>>
    BY <1>7 DEF server, Commands, Tasks, Libtego, CmdAdd, CmdAccept, CmdReject, CmdDelete,
          Ends, CmdRename, TakeRequest, TakeResponse, TakeMessage, TakeStatus, ControlConnected,
          Asks, Accepts, Rejects, ComesOnline, GoesOffline, Writes, Becomes
  <2> QED BY <1>1, <2>1
<1>8. ASSUME NEW i \in Clients, Join(i) \/ Leave(i)
      PROVE  Follows
  BY <1>1, <1>8 DEF Join, Leave
<1>9. CASE Connections
  BY <1>3, <1>4, <1>5, <1>6, <1>8, <1>9 DEF Connections
<1> QED BY <1>7, <1>9 DEF Next


-----------------------------------------------------------------------------
\* What libtego holds of an identity that was never deleted, what its events say,
\* and what is shown of its contact.

Held == {"pending", "rejected", "refused", "offline", "online"}
Status == {"online", "offline"}

\* Some identity of libtego has p as a contact, or as one that is online, or the
\* only one has.
Holder(r, p) == \E g \in DOMAIN r : r[g].holds[p] \in Held
On(r, p) == \E g \in DOMAIN r : r[g].holds[p] = "online"
Must(r, p) == Len(r) = 1 /\ On(r, p)

\* Events of a contact are on their way; none of them tells a status.
News(ev, p) == \E n \in DOMAIN ev : ev[n].peer = p /\ ev[n].kind # "request"
Silent(ev, p) == \A n \in DOMAIN ev : ev[n].peer = p => ev[n].kind \notin Status

\* The last event that tells a status of p is true.
IsLast(ev, p, n) ==
  /\ ev[n].peer = p /\ ev[n].kind \in Status
  /\ \A m \in DOMAIN ev : m > n /\ ev[m].peer = p => ev[m].kind \notin Status
Fits(e, r, p) == (e.kind = "online" => On(r, p)) /\ (e.kind = "offline" => ~Must(r, p))
Tells(ev, r, p) == \A n \in DOMAIN ev : IsLast(ev, p, n) => Fits(ev[n], r, p)

\* The contact of an identity is the first one in the list.
FirstOf(list, p) ==
  {k \in DOMAIN list : list[k].peer = p /\ \A j \in 1..(k - 1) : list[j].peer # p}
Unlisted(list, p) == \A k \in DOMAIN list : list[k].peer # p
Mapped(list, p) == \A k \in FirstOf(list, p) : list[k].user # None
Shows(list, fl, r, p) ==
  \A k \in FirstOf(list, p) :
    LET shown == list[k].user # None /\ fl[list[k].user] = "+v" IN
    (shown => On(r, p)) /\ (Must(r, p) => shown)

\* Before a message comes a status, unless the contact has its IrcUser by now.
Preceded(ev, list, p) ==
  \A n \in DOMAIN ev : ev[n].peer = p /\ ev[n].kind = "message" =>
    Mapped(list, p) \/ \E m \in 1..(n - 1) : ev[m].peer = p /\ ev[m].kind \in Status

Listing(p) ==
  FirstOf(contacts, p) = {} =>
    Unlisted(contacts, p) /\ ~Holder(remote, p) /\ ~News(events, p)
Heard(p) ==
  /\ On(remote, p) => ~Silent(events, p) \/ Mapped(contacts, p)
  /\ Preceded(events, contacts, p)
Told(p) ==
  /\ Tells(events, remote, p)
  /\ Silent(events, p) => Shows(contacts, flags, remote, p)
Good(p) ==
  /\ Listing(p)
  /\ ~clash => Heard(p)
  /\ ~clash /\ p \notin crossed => Told(p)

Announced == \A p \in Peers \ deleted : Good(p)

-----------------------------------------------------------------------------
\* Events that are taken and added.

LEMMA TailEvents ==
  ASSUME NEW S, NEW ev \in Seq(S), ev # << >>
  PROVE  /\ 1 \in DOMAIN ev /\ Head(ev) = ev[1]
         /\ DOMAIN ev \subseteq Nat /\ DOMAIN Tail(ev) \subseteq Nat
         /\ \A n \in DOMAIN Tail(ev) : n + 1 \in DOMAIN ev /\ Tail(ev)[n] = ev[n + 1]
         /\ \A n \in DOMAIN ev : n # 1 => n - 1 \in DOMAIN Tail(ev) /\ Tail(ev)[n - 1] = ev[n]
<1>1. /\ Len(ev) \in Nat \ {0} /\ DOMAIN ev = 1..Len(ev)
      /\ Tail(ev) \in Seq(S) /\ Len(Tail(ev)) = Len(ev) - 1 /\ Head(ev) = ev[1]
      /\ \A n \in 1..(Len(ev) - 1) : Tail(ev)[n] = ev[n + 1]
  BY HeadTailProperties, LenProperties, EmptySeq
<1>2. DOMAIN Tail(ev) = 1..(Len(ev) - 1)
  BY <1>1, LenProperties
<1>3. ASSUME NEW n \in DOMAIN ev, n # 1
      PROVE  n - 1 \in 1..(Len(ev) - 1) /\ (n - 1) + 1 = n
  BY <1>1, <1>3
<1>4. \A n \in 1..(Len(ev) - 1) : n + 1 \in DOMAIN ev
  BY <1>1
<1>5. 1 \in DOMAIN ev
  BY <1>1
<1>6. DOMAIN ev \subseteq Nat /\ DOMAIN Tail(ev) \subseteq Nat
  BY <1>1, <1>2
<1> QED
  <2>1. \A n \in DOMAIN Tail(ev) : n + 1 \in DOMAIN ev /\ Tail(ev)[n] = ev[n + 1]
    BY <1>1, <1>2, <1>4
  <2>2. \A n \in DOMAIN ev : n # 1 => n - 1 \in DOMAIN Tail(ev) /\ Tail(ev)[n - 1] = ev[n]
    BY <1>1, <1>2, <1>3
  <2> QED BY <1>1, <1>5, <1>6, <2>1, <2>2

LEMMA TailNews ==
  ASSUME NEW S, NEW ev \in Seq(S), ev # << >>, NEW p
  PROVE  /\ News(Tail(ev), p) => News(ev, p)
         /\ Head(ev).peer = p /\ Head(ev).kind # "request" => News(ev, p)
BY TailEvents DEF News

LEMMA TailTells ==
  ASSUME NEW S, NEW ev \in Seq(S), ev # << >>, NEW p, NEW r, Tells(ev, r, p)
  PROVE  /\ Tells(Tail(ev), r, p)
         /\ Silent(Tail(ev), p) /\ Head(ev).peer = p /\ Head(ev).kind \in Status =>
              Fits(Head(ev), r, p)
<1>1. /\ 1 \in DOMAIN ev /\ Head(ev) = ev[1] /\ DOMAIN ev \subseteq Nat /\ DOMAIN Tail(ev) \subseteq Nat
      /\ \A n \in DOMAIN Tail(ev) : n + 1 \in DOMAIN ev /\ Tail(ev)[n] = ev[n + 1]
      /\ \A n \in DOMAIN ev : n # 1 => n - 1 \in DOMAIN Tail(ev) /\ Tail(ev)[n - 1] = ev[n]
  BY TailEvents
<1>2. ASSUME NEW n \in DOMAIN Tail(ev), IsLast(Tail(ev), p, n)
      PROVE  Fits(Tail(ev)[n], r, p)
  <2>1. n + 1 \in DOMAIN ev /\ ev[n + 1].peer = p /\ ev[n + 1].kind \in Status
    BY <1>1, <1>2 DEF IsLast
  <2>2. ASSUME NEW m \in DOMAIN ev, m > n + 1, ev[m].peer = p
        PROVE  ev[m].kind \notin Status
    <3>1. m # 1 /\ m - 1 > n
      BY <1>1, <2>2
    <3> QED BY <1>1, <1>2, <2>2, <3>1 DEF IsLast
  <2>3. IsLast(ev, p, n + 1)
    BY <2>1, <2>2 DEF IsLast
  <2> QED BY <1>1, <2>1, <2>3 DEF Tells
<1>3. ASSUME Silent(Tail(ev), p)
      PROVE  \A n \in DOMAIN ev : n # 1 /\ ev[n].peer = p => ev[n].kind \notin Status
  BY <1>1, <1>3 DEF Silent
<1>4. ASSUME Silent(Tail(ev), p), Head(ev).peer = p, Head(ev).kind \in Status
      PROVE  Fits(Head(ev), r, p)
  <2>1. \A m \in Nat : m > 1 => m # 1
    OBVIOUS
  <2>2. IsLast(ev, p, 1)
    BY <1>1, <1>3, <1>4, <2>1 DEF IsLast
  <2> QED BY <1>1, <2>2 DEF Tells
<1> QED BY <1>2, <1>4 DEF Tells

LEMMA TailSilent ==
  ASSUME NEW S, NEW ev \in Seq(S), ev # << >>, NEW p, Silent(Tail(ev), p),
         ~(Head(ev).peer = p /\ Head(ev).kind \in Status)
  PROVE  Silent(ev, p)
<1>1. /\ Head(ev) = ev[1]
      /\ \A n \in DOMAIN ev : n # 1 => n - 1 \in DOMAIN Tail(ev) /\ Tail(ev)[n - 1] = ev[n]
  BY TailEvents
<1> QED BY <1>1 DEF Silent

LEMMA TailPreceded ==
  ASSUME NEW S, NEW ev \in Seq(S), ev # << >>, NEW p, NEW list, NEW after,
         Preceded(ev, list, p), Mapped(list, p) => Mapped(after, p),
         (Head(ev).peer = p /\ Head(ev).kind \in Status) => Mapped(after, p)
  PROVE  Preceded(Tail(ev), after, p)
<1>1. /\ 1 \in DOMAIN ev /\ Head(ev) = ev[1] /\ DOMAIN ev \subseteq Nat /\ DOMAIN Tail(ev) \subseteq Nat
      /\ \A n \in DOMAIN Tail(ev) : n + 1 \in DOMAIN ev /\ Tail(ev)[n] = ev[n + 1]
      /\ \A n \in DOMAIN ev : n # 1 => n - 1 \in DOMAIN Tail(ev) /\ Tail(ev)[n - 1] = ev[n]
  BY TailEvents
<1>2. ASSUME NEW n \in DOMAIN Tail(ev), Tail(ev)[n].peer = p, Tail(ev)[n].kind = "message",
             ~Mapped(after, p)
      PROVE  \E m \in 1..(n - 1) : Tail(ev)[m].peer = p /\ Tail(ev)[m].kind \in Status
  <2>1. PICK m \in 1..n : ev[m].peer = p /\ ev[m].kind \in Status
    <3>1. \E m \in 1..((n + 1) - 1) : ev[m].peer = p /\ ev[m].kind \in Status
      BY <1>1, <1>2 DEF Preceded
    <3>2. (n + 1) - 1 = n
      BY <1>1
    <3> QED BY <3>1, <3>2
  <2>2. m # 1
    BY <1>1, <1>2, <2>1
  <2>3. n + 1 \in 1..Len(ev) /\ Len(ev) \in Nat /\ DOMAIN ev = 1..Len(ev) /\ n \in Nat
    BY <1>1, LenProperties
  <2>4. m \in DOMAIN ev /\ m - 1 \in 1..(n - 1)
    BY <2>1, <2>2, <2>3
  <2> QED BY <1>1, <2>1, <2>2, <2>4
<1> QED BY <1>2 DEF Preceded

\* Where the events of a longer list are.
LEMMA MoreEvents ==
  ASSUME NEW S, NEW ev \in Seq(S), NEW more \in Seq(S), NEW t, t = ev \o more
  PROVE  /\ t \in Seq(S)
         /\ \A n \in DOMAIN ev : n \in DOMAIN t /\ t[n] = ev[n]
         /\ \A m \in DOMAIN more : Len(ev) + m \in DOMAIN t /\ t[Len(ev) + m] = more[m]
         /\ \A n \in DOMAIN t : \/ n \in DOMAIN ev /\ t[n] = ev[n]
                                \/ \E m \in DOMAIN more : n = Len(ev) + m /\ t[n] = more[m]
         /\ \A n \in DOMAIN ev, m \in DOMAIN more : n \in 1..(Len(ev) + m - 1) /\ Len(ev) + m > n
<1>1. /\ Len(ev) \in Nat /\ Len(more) \in Nat
      /\ DOMAIN ev = 1..Len(ev) /\ DOMAIN more = 1..Len(more)
  BY LenProperties
<1>2. /\ t \in Seq(S) /\ Len(t) = Len(ev) + Len(more)
      /\ \A j \in 1..(Len(ev) + Len(more)) :
           t[j] = IF j <= Len(ev) THEN ev[j] ELSE more[j - Len(ev)]
  <2>1. /\ ev \o more \in Seq(S)
        /\ Len(ev \o more) = Len(ev) + Len(more)
        /\ \A j \in 1..(Len(ev) + Len(more)) : (ev \o more)[j]
             = IF j <= Len(ev) THEN ev[j] ELSE more[j - Len(ev)]
    BY <1>1, ConcatProperties
  <2> QED BY <2>1, Zenon
<1>3. DOMAIN t = 1..(Len(ev) + Len(more))
  BY <1>2, LenProperties
<1>4. \A n \in DOMAIN ev : n \in DOMAIN t /\ t[n] = ev[n]
  BY <1>1, <1>2, <1>3
<1>5. ASSUME NEW m \in DOMAIN more
      PROVE  Len(ev) + m \in DOMAIN t /\ t[Len(ev) + m] = more[m]
  <2>1. Len(ev) + m \in 1..(Len(ev) + Len(more)) /\ ~(Len(ev) + m <= Len(ev))
    BY <1>1
  <2>2. (Len(ev) + m) - Len(ev) = m
    BY <1>1
  <2> QED BY <1>2, <1>3, <2>1, <2>2
<1>6. ASSUME NEW n \in DOMAIN t, n \notin DOMAIN ev
      PROVE  \E m \in DOMAIN more : n = Len(ev) + m /\ t[n] = more[m]
  <2>1. n - Len(ev) \in DOMAIN more /\ n = Len(ev) + (n - Len(ev))
    BY <1>1, <1>3, <1>6
  <2> QED BY <1>5, <2>1
<1>7. \A n \in DOMAIN ev, m \in DOMAIN more : n \in 1..(Len(ev) + m - 1) /\ Len(ev) + m > n
  BY <1>1
<1> QED BY <1>2, <1>4, <1>5, <1>6, <1>7

LEMMA MoreNews ==
  ASSUME NEW S, NEW ev \in Seq(S), NEW more \in Seq(S), NEW p, News(ev \o more, p)
  PROVE  News(ev, p) \/ News(more, p)
BY MoreEvents DEF News

\* Events that tell no status of p.
LEMMA MoreTells ==
  ASSUME NEW S, NEW ev \in Seq(S), NEW more \in Seq(S), NEW p, NEW r,
         Tells(ev, r, p), Silent(more, p)
  PROVE  Tells(ev \o more, r, p)
<1> DEFINE t == ev \o more
<1>1. /\ \A n \in DOMAIN ev : n \in DOMAIN t /\ t[n] = ev[n]
      /\ \A n \in DOMAIN t : \/ n \in DOMAIN ev /\ t[n] = ev[n]
                             \/ \E m \in DOMAIN more : n = Len(ev) + m /\ t[n] = more[m]
  BY MoreEvents
<1> HIDE DEF t
<1>2. ASSUME NEW n \in DOMAIN t, IsLast(t, p, n)
      PROVE  Fits(t[n], r, p)
  <2>1. n \in DOMAIN ev /\ t[n] = ev[n]
    BY <1>1, <1>2 DEF IsLast, Silent
  <2>2. IsLast(ev, p, n)
    BY <1>1, <1>2, <2>1 DEF IsLast
  <2> QED BY <2>1, <2>2 DEF Tells
<1> QED BY <1>2 DEF Tells, t

LEMMA MoreSilent ==
  ASSUME NEW S, NEW ev \in Seq(S), NEW more \in Seq(S), NEW p, Silent(ev \o more, p)
  PROVE  Silent(ev, p) /\ Silent(more, p)
<1>1. /\ \A n \in DOMAIN ev : n \in DOMAIN (ev \o more) /\ (ev \o more)[n] = ev[n]
      /\ \A m \in DOMAIN more :
           Len(ev) + m \in DOMAIN (ev \o more) /\ (ev \o more)[Len(ev) + m] = more[m]
  BY MoreEvents
<1> QED BY <1>1 DEF Silent

\* The last of them is a status.
LEMMA NewStatus ==
  ASSUME NEW S, NEW ev \in Seq(S), NEW more \in Seq(S), NEW p, NEW r, NEW k \in DOMAIN more,
         \A m \in DOMAIN more : m <= k, more[k].peer = p, more[k].kind \in Status,
         Fits(more[k], r, p)
  PROVE  Tells(ev \o more, r, p)
<1> DEFINE t == ev \o more
<1>1. /\ \A n \in DOMAIN t : \/ n \in DOMAIN ev /\ t[n] = ev[n]
                             \/ \E m \in DOMAIN more : n = Len(ev) + m /\ t[n] = more[m]
      /\ \A m \in DOMAIN more : Len(ev) + m \in DOMAIN t /\ t[Len(ev) + m] = more[m]
      /\ \A n \in DOMAIN ev, m \in DOMAIN more : n \in 1..(Len(ev) + m - 1) /\ Len(ev) + m > n
  BY MoreEvents
<1>2. Len(ev) \in Nat /\ DOMAIN more \subseteq Nat
  BY LenProperties
<1> HIDE DEF t
<1>3. ASSUME NEW n \in DOMAIN t, IsLast(t, p, n)
      PROVE  n = Len(ev) + k
  <2>1. ~(Len(ev) + k > n)
    BY <1>1, <1>3 DEF IsLast
  <2>2. PICK m \in DOMAIN more : n = Len(ev) + m
    BY <1>1, <2>1
  <2> QED BY <1>2, <2>1, <2>2
<1> QED BY <1>1, <1>3 DEF Tells, t

\* Messages, if there was a status or there is an IrcUser.
LEMMA MorePreceded ==
  ASSUME NEW S, NEW ev \in Seq(S), NEW more \in Seq(S), NEW p, NEW list,
         Preceded(ev, list, p),
         \A m \in DOMAIN more : more[m].peer = p /\ more[m].kind = "message" =>
           ~Silent(ev, p) \/ Mapped(list, p)
  PROVE  Preceded(ev \o more, list, p)
<1> DEFINE t == ev \o more
<1>1. /\ \A n \in DOMAIN ev : n \in DOMAIN t /\ t[n] = ev[n]
      /\ \A n \in DOMAIN t : \/ n \in DOMAIN ev /\ t[n] = ev[n]
                             \/ \E m \in DOMAIN more : n = Len(ev) + m /\ t[n] = more[m]
      /\ \A n \in DOMAIN ev, m \in DOMAIN more : n \in 1..(Len(ev) + m - 1) /\ Len(ev) + m > n
  BY MoreEvents
<1>2. \A n \in DOMAIN ev : 1..(n - 1) \subseteq DOMAIN ev
  BY LenProperties
<1> HIDE DEF t
<1>3. ASSUME NEW n \in DOMAIN t, t[n].peer = p, t[n].kind = "message", ~Mapped(list, p)
      PROVE  \E m \in 1..(n - 1) : t[m].peer = p /\ t[m].kind \in Status
  <2>1. CASE n \in DOMAIN ev
    <3>1. PICK m \in 1..(n - 1) : ev[m].peer = p /\ ev[m].kind \in Status
      BY <1>1, <1>3, <2>1 DEF Preceded
    <3> QED BY <1>1, <1>2, <2>1, <3>1
  <2>2. CASE n \notin DOMAIN ev
    <3>1. PICK k \in DOMAIN more : n = Len(ev) + k /\ t[n] = more[k]
      BY <1>1, <2>2
    <3>2. PICK m \in DOMAIN ev : ev[m].peer = p /\ ev[m].kind \in Status
      BY <1>3, <3>1 DEF Silent
    <3> QED BY <1>1, <3>1, <3>2
  <2> QED BY <2>1, <2>2
<1> QED BY <1>3 DEF Preceded, t

-----------------------------------------------------------------------------
\* The contact of an identity stays the first in the list.

LEMMA OfIsFirst == \A p : Of(p) = FirstOf(contacts, p)
BY DEF Of, IsFirst, FirstOf

\* In a list t made of s the contact of p is still there, with the same IrcUser.
Carries(s, t, p) ==
  /\ FirstOf(s, p) # {} => FirstOf(t, p) # {}
  /\ Unlisted(s, p) => Unlisted(t, p)
  /\ \A k \in FirstOf(t, p) : \E j \in FirstOf(s, p) : t[k].user = s[j].user

LEMMA SamePeers ==
  ASSUME NEW s \in Seq(Contact), NEW t \in Seq(Contact), NEW p, DOMAIN t = DOMAIN s,
         \A j \in DOMAIN s : t[j].peer = s[j].peer
  PROVE  FirstOf(t, p) = FirstOf(s, p) /\ (Unlisted(t, p) <=> Unlisted(s, p))
<1>1. \A k \in DOMAIN s : 1..(k - 1) \subseteq DOMAIN s
  BY LenProperties
<1> QED BY <1>1 DEF FirstOf, Unlisted

LEMMA UnlistedFirst ==
  ASSUME NEW s, NEW p, Unlisted(s, p)
  PROVE  FirstOf(s, p) = {}
BY DEF Unlisted, FirstOf

\* Behind the list come others, or contacts of those who have one.
LEMMA GrownCarries ==
  ASSUME NEW s \in Seq(Contact), NEW more \in Seq(Contact), NEW p,
         FirstOf(s, p) # {} \/ (Unlisted(s, p) /\ Unlisted(more, p))
  PROVE  Carries(s, s \o more, p)
<1> DEFINE t == s \o more
<1>1. /\ \A n \in DOMAIN s : n \in DOMAIN t /\ t[n] = s[n]
      /\ \A n \in DOMAIN t : \/ n \in DOMAIN s /\ t[n] = s[n]
                             \/ \E m \in DOMAIN more : n = Len(s) + m /\ t[n] = more[m]
      /\ \A n \in DOMAIN s, m \in DOMAIN more : n \in 1..(Len(s) + m - 1) /\ Len(s) + m > n
  BY MoreEvents
<1>2. \A n \in DOMAIN s : 1..(n - 1) \subseteq DOMAIN s
  BY LenProperties
<1> HIDE DEF t
<1>3. CASE FirstOf(s, p) # {}
  <2>1. FirstOf(s, p) \subseteq FirstOf(t, p)
    BY <1>1, <1>2 DEF FirstOf
  <2>2. ASSUME NEW k \in FirstOf(t, p)
        PROVE  k \in FirstOf(s, p) /\ t[k] = s[k]
    <3>1. k \in DOMAIN s
      BY <1>1, <1>3 DEF FirstOf
    <3> QED BY <1>1, <1>2, <3>1 DEF FirstOf
  <2>3. ~Unlisted(s, p)
    BY <1>3, UnlistedFirst
  <2> QED BY <1>3, <2>1, <2>2, <2>3 DEF Carries, t
<1>4. CASE Unlisted(s, p) /\ Unlisted(more, p)
  <2>1. Unlisted(t, p)
    BY <1>1, <1>4 DEF Unlisted
  <2>2. FirstOf(t, p) = {} /\ FirstOf(s, p) = {}
    BY <1>4, <2>1, UnlistedFirst
  <2> QED BY <2>1, <2>2 DEF Carries, t
<1> QED BY <1>3, <1>4

\* The first contact of p in t is one of those that came.
Came(t, more, p) ==
  /\ FirstOf(t, p) # {}
  /\ \A k \in FirstOf(t, p) : \E m \in DOMAIN more : t[k] = more[m]

LEMMA GrownFirst ==
  ASSUME NEW s \in Seq(Contact), NEW more \in Seq(Contact), NEW p,
         Unlisted(s, p), FirstOf(more, p) # {}
  PROVE  Came(s \o more, more, p)
<1> DEFINE t == s \o more
<1>0. t \in Seq(Contact)
  BY ConcatProperties
<1>1. /\ \A m \in DOMAIN more : Len(s) + m \in DOMAIN t /\ t[Len(s) + m] = more[m]
      /\ \A n \in DOMAIN t : \/ n \in DOMAIN s /\ t[n] = s[n]
                             \/ \E m \in DOMAIN more : n = Len(s) + m /\ t[n] = more[m]
  <2>1. t = s \o more
    OBVIOUS
  <2> HIDE DEF t
  <2>2. \A m \in DOMAIN more : Len(s) + m \in DOMAIN t /\ t[Len(s) + m] = more[m]
    BY ONLY s \in Seq(Contact), more \in Seq(Contact), <2>1, MoreEvents
  <2>3. \A n \in DOMAIN t : \/ n \in DOMAIN s /\ t[n] = s[n]
                            \/ \E m \in DOMAIN more : n = Len(s) + m /\ t[n] = more[m]
    BY ONLY s \in Seq(Contact), more \in Seq(Contact), <2>1, MoreEvents
  <2> QED BY <2>2, <2>3
<1>2. /\ Len(s) \in Nat /\ DOMAIN more \subseteq Nat \ {0}
      /\ \A n \in DOMAIN t : 1..(n - 1) \subseteq DOMAIN t
  BY <1>0, LenProperties
<1> HIDE DEF t
<1>3. PICK f \in FirstOf(more, p) : TRUE
  OBVIOUS
<1>4. /\ f \in DOMAIN more /\ more[f].peer = p
      /\ \A j \in 1..(f - 1) : more[j].peer # p
  BY <1>3 DEF FirstOf
<1>5. ASSUME NEW n \in 1..(Len(s) + f - 1)
      PROVE  t[n].peer # p
  <2>1. n \in DOMAIN t
    <3>1. Len(s) + f \in DOMAIN t
      BY <1>1, <1>4
    <3>2. 1..((Len(s) + f) - 1) \subseteq DOMAIN t
      BY <1>2, <3>1
    <3> QED BY <1>2, <1>4, <3>2
  <2>2. CASE n \in DOMAIN s /\ t[n] = s[n]
    BY <2>2 DEF Unlisted
  <2>3. ASSUME NEW m \in DOMAIN more, n = Len(s) + m, t[n] = more[m]
        PROVE  t[n].peer # p
    <3>1. m \in 1..(f - 1)
      BY <1>2, <1>4, <2>3
    <3> QED BY <1>4, <2>3, <3>1
  <2> QED BY <1>1, <2>1, <2>2, <2>3
<1>6. Len(s) + f \in FirstOf(t, p)
  BY <1>1, <1>4, <1>5 DEF FirstOf
<1>7. \A k \in FirstOf(t, p) : \E m \in DOMAIN more : t[k] = more[m]
  BY <1>1 DEF FirstOf, Unlisted
<1> QED BY <1>6, <1>7 DEF Came, t

LEMMA OneFirst ==
  ASSUME NEW c \in Contact, NEW p
  PROVE  IF c.peer = p THEN FirstOf(<< c >>, p) # {} ELSE Unlisted(<< c >>, p)
<1>1. DOMAIN << c >> = {1} /\ << c >>[1] = c /\ 1..(1 - 1) = {}
  OBVIOUS
<1>2. c.peer = p => 1 \in FirstOf(<< c >>, p)
  BY <1>1 DEF FirstOf
<1>3. c.peer # p => Unlisted(<< c >>, p)
  BY <1>1 DEF Unlisted
<1> QED BY <1>2, <1>3

\* What is loaded has one entry for everybody who is known.
LEMMA EntriesFirst ==
  ASSUME SavedOK, NEW order \in SetToSeqs(OfType(DOMAIN ShownAs)), NEW p \in Peers
  PROVE  IF p \in OfType(DOMAIN ShownAs) THEN FirstOf(Entries(order), p) # {}
         ELSE Unlisted(Entries(order), p)
<1> DEFINE known == OfType(DOMAIN ShownAs)
           list == Entries(order)
<1>1. /\ DOMAIN list = DOMAIN order
      /\ \A k \in DOMAIN order : order[k] \in known /\ list[k].peer = order[k]
  BY EntriesType
<1>2. known \subseteq Peers /\ order \in SetToSeqs(known)
  BY DEF OfType
<1> HIDE DEF known, list
<1>3. IsFiniteSet(known)
  BY <1>2, FS_Subset, PeersAssumption
<1>4. Cardinality(known) \in Nat
  BY <1>3, FS_CardinalityType
<1> DEFINE D == 1..Cardinality(known)
<1>5. order \in [D -> known] /\ \A i, j \in D : order[i] = order[j] => i = j
  BY <1>2 DEF SetToSeqs
<1>6. IsFiniteSet(D) /\ Cardinality(D) = Cardinality(known)
  BY <1>4, FS_Interval
<1>7. \A i \in D : 1..(i - 1) \subseteq D /\ i \notin 1..(i - 1)
  BY <1>4
<1> HIDE DEF D
<1>8. order \in Injection(D, known)
  BY <1>5 DEF Injection, IsInjective
<1>9. order \in Surjection(D, known)
  BY <1>3, <1>6, <1>8, FS_Injection
<1>10. \A k \in known : \E i \in D : order[i] = k
  BY <1>9 DEF Surjection
<1>11. DOMAIN order = D
  BY <1>5
<1>12. ASSUME p \in known
       PROVE  FirstOf(list, p) # {}
  <2>1. PICK i \in D : order[i] = p
    BY <1>10, <1>12
  <2>2. \A j \in 1..(i - 1) : list[j].peer # p
    BY <1>1, <1>5, <1>7, <1>11, <2>1
  <2>3. i \in FirstOf(list, p)
    BY <1>1, <1>11, <2>1, <2>2 DEF FirstOf
  <2> QED BY <2>3
<1>13. p \notin known => Unlisted(list, p)
  BY <1>1 DEF Unlisted
<1> QED BY <1>12, <1>13 DEF known, list

LEMMA RemoveCarries ==
  ASSUME NEW s \in Seq(Contact), NEW i \in DOMAIN s, NEW p, s[i].peer # p
  PROVE  Carries(s, RemoveAt(s, i), p)
<1> DEFINE t == RemoveAt(s, i)
<1>1. /\ t \in Seq(Contact) /\ Len(t) = Len(s) - 1
      /\ \A j \in DOMAIN t :
           \/ j \in DOMAIN s /\ j < i /\ t[j] = s[j]
           \/ j + 1 \in DOMAIN s /\ j >= i /\ t[j] = s[j + 1]
  BY RemovedContact
<1>2. Len(s) \in Nat /\ DOMAIN s = 1..Len(s) /\ DOMAIN t = 1..(Len(s) - 1) /\ i \in 1..Len(s)
  BY <1>1, LenProperties
<1> HIDE DEF t
\* Where a contact of s is in t.
<1> DEFINE to(j) == IF j < i THEN j ELSE j - 1
<1>3. ASSUME NEW j \in DOMAIN s, j # i
      PROVE  to(j) \in DOMAIN t /\ t[to(j)] = s[j]
  <2>1. CASE j < i
    <3>1. j \in DOMAIN t /\ ~(j >= i)
      BY <1>2, <2>1
    <3> QED BY <1>1, <2>1, <3>1
  <2>2. CASE ~(j < i)
    <3>1. j - 1 \in DOMAIN t /\ ~(j - 1 < i) /\ (j - 1) + 1 = j
      BY <1>2, <1>3, <2>2
    <3> QED BY <1>1, <2>2, <3>1
  <2> QED BY <2>1, <2>2
<1>4. ASSUME NEW n \in DOMAIN t
      PROVE  \E j \in DOMAIN s : j # i /\ to(j) = n /\ t[n] = s[j]
  <2>1. CASE n < i
    BY <1>1, <1>2, <1>4, <2>1
  <2>2. CASE ~(n < i)
    <3>1. n + 1 \in DOMAIN s /\ n + 1 # i /\ ~(n + 1 < i) /\ (n + 1) - 1 = n
      BY <1>2, <1>4, <2>2
    <3>2. t[n] = s[n + 1]
      BY <1>1, <1>4, <2>2
    <3> QED BY <3>1, <3>2
  <2> QED BY <2>1, <2>2
<1>5. \A j, m \in DOMAIN s : j # i /\ m # i => (to(m) < to(j) <=> m < j)
  BY <1>2
<1>6. DOMAIN s \subseteq Nat /\ DOMAIN t \subseteq Nat
  BY <1>2
<1>7. /\ \A k \in DOMAIN s : \A j \in 1..(k - 1) : j \in DOMAIN s /\ j < k
      /\ \A k \in DOMAIN t : \A j \in 1..(k - 1) : j \in DOMAIN t /\ j < k
      /\ \A k, j \in DOMAIN s : j < k => j \in 1..(k - 1)
      /\ \A k, j \in DOMAIN t : j < k => j \in 1..(k - 1)
  BY <1>2
<1> HIDE DEF to
<1>8. ASSUME NEW j \in FirstOf(s, p)
      PROVE  to(j) \in FirstOf(t, p)
  <2>1. j \in DOMAIN s /\ s[j].peer = p /\ j # i
    BY DEF FirstOf
  <2>2. to(j) \in DOMAIN t /\ t[to(j)].peer = p
    BY <1>3, <2>1
  <2>3. ASSUME NEW n \in 1..(to(j) - 1)
        PROVE  t[n].peer # p
    <3>1. n \in DOMAIN t /\ n < to(j)
      BY <1>7, <2>2
    <3>2. PICK m \in DOMAIN s : m # i /\ to(m) = n /\ t[n] = s[m]
      BY <1>4, <3>1
    <3>3. m \in 1..(j - 1)
      BY <1>5, <1>7, <2>1, <3>1, <3>2
    <3> QED BY <3>2, <3>3 DEF FirstOf
  <2> QED BY <2>2, <2>3 DEF FirstOf
<1>9. ASSUME NEW k \in FirstOf(t, p)
      PROVE  \E j \in FirstOf(s, p) : t[k].user = s[j].user
  <2>1. k \in DOMAIN t /\ t[k].peer = p
    BY DEF FirstOf
  <2>2. PICK j \in DOMAIN s : j # i /\ to(j) = k /\ t[k] = s[j]
    BY <1>4, <2>1
  <2>3. ASSUME NEW m \in 1..(j - 1)
        PROVE  s[m].peer # p
    <3>1. m \in DOMAIN s /\ m < j
      BY <1>7, <2>2
    <3>2. CASE m = i
      BY <3>2
    <3>3. CASE m # i
      <4>1. to(m) \in DOMAIN t /\ t[to(m)] = s[m] /\ to(m) < k
        BY <1>3, <1>5, <2>2, <3>1, <3>3
      <4>2. to(m) \in 1..(k - 1)
        BY <1>7, <2>1, <4>1
      <4> QED BY <4>1, <4>2 DEF FirstOf
    <3> QED BY <3>2, <3>3
  <2> QED BY <2>1, <2>2, <2>3 DEF FirstOf
<1>10. Unlisted(s, p) => Unlisted(t, p)
  BY <1>4 DEF Unlisted
<1> QED BY <1>8, <1>9, <1>10 DEF Carries, t

-----------------------------------------------------------------------------
\* What is known of an identity that an action does not concern.

\* The IrcUsers of an identity keep their flags.
FlagsStay(p) ==
  \A k \in DOMAIN contacts : contacts[k].peer = p /\ contacts[k].user # None =>
    flags'[contacts[k].user] = flags[contacts[k].user]

\* It is online where it was, and nobody new has it as a contact.
Steady(p) ==
  /\ On(remote', p) <=> On(remote, p)
  /\ Must(remote', p) => Must(remote, p)
Same(p) == Steady(p) /\ (Holder(remote', p) => Holder(remote, p))

LEMMA ContactKept ==
  ASSUME NEW p, Carries(contacts, contacts', p), FlagsStay(p)
  PROVE  /\ Mapped(contacts, p) => Mapped(contacts', p)
         /\ Steady(p) /\ Shows(contacts, flags, remote, p) =>
              Shows(contacts', flags', remote', p)
<1>1. \A k \in FirstOf(contacts', p) : \E j \in FirstOf(contacts, p) :
        contacts'[k].user = contacts[j].user
  BY DEF Carries
<1>2. \A j \in FirstOf(contacts, p) : contacts[j].user # None =>
        flags'[contacts[j].user] = flags[contacts[j].user]
  BY DEF FlagsStay, FirstOf
<1> QED BY <1>1, <1>2 DEF Mapped, Shows, Steady

LEMMA SteadyTells ==
  ASSUME NEW p, Steady(p), NEW ev, Tells(ev, remote, p)
  PROVE  Tells(ev, remote', p)
BY DEF Steady, Tells, Fits

LEMMA MappedPreceded ==
  ASSUME NEW p, NEW ev, NEW s, NEW t, Preceded(ev, s, p), Mapped(s, p) => Mapped(t, p)
  PROVE  Preceded(ev, t, p)
BY DEF Preceded

\* More events come, of which those of p tell no status unless p is crossed.
LEMMA GoodMore ==
  ASSUME TypeOK, NEW p, Good(p), Carries(contacts, contacts', p), FlagsStay(p), Steady(p),
         clash' = clash, crossed \subseteq crossed',
         NEW more \in Seq(Event), events' = events \o more,
         Holder(remote', p) \/ News(more, p) =>
           Holder(remote, p) \/ FirstOf(contacts, p) # {},
         Silent(more, p) \/ p \in crossed',
         \A m \in DOMAIN more :
           more[m].peer = p /\ more[m].kind = "message" => On(remote, p)
  PROVE  Good(p)'
<1>1. events \in Seq(Event)
  BY DEF TypeOK
<1>2. Mapped(contacts, p) => Mapped(contacts', p)
  BY ContactKept
<1>3. Listing(p)'
  <2>1. News(events', p) => News(events, p) \/ News(more, p)
    BY <1>1, MoreNews
  <2> QED BY <2>1 DEF Good, Listing, Carries
<1>4. Silent(events', p) => Silent(events, p) /\ Silent(more, p)
  BY <1>1, MoreSilent
<1>5. ASSUME ~clash
      PROVE  Heard(p)'
  <2>1. Heard(p)
    BY <1>5 DEF Good
  <2>2. Preceded(events, contacts, p)
    BY <2>1 DEF Heard
  <2>3. \A m \in DOMAIN more : more[m].peer = p /\ more[m].kind = "message" =>
           ~Silent(events, p) \/ Mapped(contacts, p)
    BY <2>1 DEF Heard
  <2>4. Preceded(events', contacts, p)
    BY <1>1, <2>2, <2>3, MorePreceded
  <2>5. Preceded(events', contacts', p)
    BY <1>2, <2>4, MappedPreceded
  <2> QED BY <1>2, <1>4, <2>1, <2>5 DEF Heard, Steady
<1>6. ASSUME ~clash, p \notin crossed'
      PROVE  Told(p)'
  <2>1. Told(p)
    BY <1>6 DEF Good
  <2>2. Tells(events', remote, p)
    BY <1>1, <1>6, <2>1, MoreTells DEF Told
  <2>3. Tells(events', remote', p)
    BY <2>2, SteadyTells
  <2>4. Silent(events', p) => Shows(contacts', flags', remote', p)
    BY <1>4, <2>1, ContactKept DEF Told
  <2> QED BY <2>3, <2>4 DEF Told
<1> QED BY <1>3, <1>5, <1>6 DEF Good

LEMMA NoMore ==
  ASSUME TypeOK
  PROVE  << >> \in Seq(Event) /\ events = events \o << >>
<1>1. events \in Seq(Event)
  BY DEF TypeOK
<1> QED BY <1>1

LEMMA GoodKept ==
  ASSUME TypeOK, NEW p, Good(p), Carries(contacts, contacts', p), FlagsStay(p), Steady(p),
         events' = events, clash' = clash, crossed \subseteq crossed',
         Holder(remote', p) => Holder(remote, p) \/ FirstOf(contacts, p) # {}
  PROVE  Good(p)'
<1> DEFINE more == << >>
<1>1. more \in Seq(Event) /\ events' = events \o more /\ DOMAIN more = {}
  BY NoMore
<1>2. ~News(more, p) /\ Silent(more, p)
  BY <1>1 DEF News, Silent
<1> HIDE DEF more
<1> QED BY <1>1, <1>2, GoodMore

LEMMA SameCarries ==
  ASSUME NEW p, contacts' = contacts
  PROVE  Carries(contacts, contacts', p)
BY DEF Carries

LEMMA RemoteKept ==
  ASSUME NEW p, remote' = remote
  PROVE  Same(p)
BY DEF Same, Steady

\* A contact that is new and without an IrcUser, of which nothing is on its way.
LEMMA GoodNew ==
  ASSUME NEW p, FirstOf(contacts', p) # {},
         \A k \in FirstOf(contacts', p) : contacts'[k].user = None,
         ~On(remote', p),
         \A n \in DOMAIN events' : events'[n].peer = p =>
           events'[n].kind # "message" /\ (events'[n].kind \in Status => p \in crossed')
  PROVE  Good(p)'
<1>1. Listing(p)'
  BY DEF Listing
<1>2. Heard(p)'
  BY DEF Heard, Preceded
<1>3. ASSUME p \notin crossed'
      PROVE  Told(p)'
  <2>1. Tells(events', remote', p)
    BY <1>3 DEF Tells, IsLast
  <2>2. Shows(contacts', flags', remote', p)
    BY DEF Shows, Must
  <2> QED BY <2>1, <2>2 DEF Told
<1> QED BY <1>1, <1>2, <1>3 DEF Good

\* The list grows, by contacts without IrcUsers.
LEMMA GrownGood ==
  ASSUME TypeOK, NEW p, Good(p),
         NEW more \in Seq(Contact), contacts' = contacts \o more,
         \A m \in DOMAIN more : more[m].user = None,
         FirstOf(more, p) # {} \/ Unlisted(more, p),
         UNCHANGED <<flags, clash>>, crossed \subseteq crossed', Steady(p),
         NEW news \in Seq(Event), events' = events \o news,
         \A m \in DOMAIN news : news[m].peer = p => news[m].kind # "message",
         Silent(news, p) \/ p \in crossed',
         Holder(remote', p) \/ News(news, p) =>
           Holder(remote, p) \/ FirstOf(contacts, p) # {} \/ FirstOf(more, p) # {}
  PROVE  Good(p)'
<1>1. contacts \in Seq(Contact) /\ events \in Seq(Event)
  BY DEF TypeOK
<1>2. FlagsStay(p)
  BY DEF FlagsStay
<1>3. Listing(p)
  BY DEF Good
<1>4. CASE FirstOf(contacts, p) # {} \/ FirstOf(more, p) = {}
  <2>1. FirstOf(contacts, p) # {} \/ (Unlisted(contacts, p) /\ Unlisted(more, p))
    BY <1>3, <1>4 DEF Listing
  <2>2. Carries(contacts, contacts', p)
    BY <1>1, <2>1, GrownCarries
  <2>3. Holder(remote', p) \/ News(news, p) => Holder(remote, p) \/ FirstOf(contacts, p) # {}
    BY <1>4
  <2>4. \A m \in DOMAIN news : news[m].peer = p /\ news[m].kind = "message" => On(remote, p)
    OBVIOUS
  <2> QED BY <1>2, <2>2, <2>3, <2>4, GoodMore
<1>5. CASE FirstOf(contacts, p) = {} /\ FirstOf(more, p) # {}
  <2>1. Unlisted(contacts, p) /\ ~Holder(remote, p) /\ ~News(events, p)
    BY <1>3, <1>5 DEF Listing
  <2>2. ~On(remote', p)
    BY <2>1 DEF Steady, On, Holder, Held
  <2>3. /\ FirstOf(contacts', p) # {}
        /\ \A k \in FirstOf(contacts', p) : \E m \in DOMAIN more : contacts'[k] = more[m]
    <3>1. Unlisted(contacts, p)
      BY <2>1
    <3>2. FirstOf(more, p) # {}
      BY <1>5
    <3>3. contacts \in Seq(Contact)
      BY <1>1
    <3>4. Came(contacts \o more, more, p)
      BY ONLY <3>1, <3>2, <3>3, more \in Seq(Contact), GrownFirst
    <3> QED BY <3>4 DEF Came
  <2>4. \A k \in FirstOf(contacts', p) : contacts'[k].user = None
    BY <2>3
  <2>5. ASSUME NEW n \in DOMAIN events', events'[n].peer = p
        PROVE  events'[n].kind # "message" /\ (events'[n].kind \in Status => p \in crossed')
    <3>1. CASE n \in DOMAIN events /\ events'[n] = events[n]
      <4>1. events'[n].kind = "request"
        BY <2>1, <2>5, <3>1 DEF News
      <4> QED BY <4>1 DEF Status
    <3>2. CASE \E m \in DOMAIN news : events'[n] = news[m]
      BY <2>5, <3>2 DEF Silent
    <3>3. \/ n \in DOMAIN events /\ events'[n] = events[n]
          \/ \E m \in DOMAIN news : events'[n] = news[m]
      BY <1>1, MoreEvents
    <3> QED BY <3>1, <3>2, <3>3
  <2> QED BY <2>2, <2>3, <2>4, <2>5, GoodNew
<1> QED BY <1>4, <1>5

\* The identity g holds q as x now.
Turns(g, q, x) ==
  /\ g \in DOMAIN remote /\ DOMAIN remote' = DOMAIN remote /\ Len(remote') = Len(remote)
  /\ \A h \in DOMAIN remote, o \in Peers :
       remote'[h].holds[o] = IF h = g /\ o = q THEN x ELSE remote[h].holds[o]

LEMMA HoldingTurns ==
  ASSUME RemoteOK, NEW q \in Peers, NEW x \in Holdings, Holding(q, x)
  PROVE  Turns(Current, q, x)
<1>1. /\ DOMAIN remote' = DOMAIN remote /\ Len(remote') = Len(remote)
      /\ \A h \in DOMAIN remote, o \in Peers :
           remote'[h].holds[o] = IF h = Current /\ o = q THEN x ELSE remote[h].holds[o]
  BY HoldingType
<1>2. Current \in DOMAIN remote
  BY CurrentIdentity
<1> QED BY <1>1, <1>2 DEF Turns

LEMMA OthersSame ==
  ASSUME NEW g, NEW q, NEW x, Turns(g, q, x), NEW p \in Peers, p # q
  PROVE  Same(p)
<1>1. /\ DOMAIN remote' = DOMAIN remote /\ Len(remote') = Len(remote)
      /\ \A h \in DOMAIN remote : remote'[h].holds[p] = remote[h].holds[p]
  BY DEF Turns
<1> QED BY <1>1 DEF Same, Steady, On, Must, Holder

LEMMA TurnSteady ==
  ASSUME NEW p \in Peers, NEW g, NEW x, Turns(g, p, x),
         x = "online" <=> remote[g].holds[p] = "online"
  PROVE  Steady(p)
<1>1. /\ DOMAIN remote' = DOMAIN remote /\ Len(remote') = Len(remote)
      /\ \A h \in DOMAIN remote :
           remote'[h].holds[p] = "online" <=> remote[h].holds[p] = "online"
  BY DEF Turns
<1> QED BY <1>1 DEF Steady, On, Must

LEMMA TurnSame ==
  ASSUME NEW p \in Peers, NEW g, NEW x, Turns(g, p, x),
         x = "online" <=> remote[g].holds[p] = "online",
         x \in Held => Holder(remote, p)
  PROVE  Same(p)
<1>1. Steady(p)
  BY TurnSteady
<1>2. Holder(remote', p) => Holder(remote, p)
  BY DEF Turns, Holder
<1> QED BY <1>1, <1>2 DEF Same

LEMMA HoldsHeld ==
  ASSUME RemoteOK, NEW p, Holds(p) \in Held
  PROVE  Holder(remote, p)
BY CurrentIdentity DEF Holds, Holder

-----------------------------------------------------------------------------
\* The connections.

\* Only clients come and go.
LEMMA ClientFlags ==
  ASSUME UsersStand, NEW p, \A m \in virtual : m \in DOMAIN flags => flags'[m] = flags[m]
  PROVE  FlagsStay(p)
BY DEF UsersStand, FlagsStay

LEMMA TellFlags ==
  ASSUME GivenOK, NEW i \in DOMAIN given, NEW what, NEW STATE names, Tell(i, what, names),
         NEW m \in virtual, m \in DOMAIN flags
  PROVE  flags'[m] = flags[m]
<1>1. m \notin Closed(i) /\ m # i
  BY DEF GivenOK, virtual, Closed
<1>2. CASE flags' = flags
  BY <1>2
<1>3. CASE flags' = With(Without(flags, Closed(i)), {i}, "+o")
  BY <1>1, <1>3 DEF With, Without
<1> QED BY <1>2, <1>3 DEF Tell

\* Nothing that concerns p, but the flags of clients, changes.
LEMMA QuietGood ==
  ASSUME TypeOK, NEW p, Good(p), FlagsStay(p),
         UNCHANGED <<contacts, remote, events, crossed, clash>>
  PROVE  Good(p)'
<1>1. Carries(contacts, contacts', p) /\ Same(p)
  BY SameCarries, RemoteKept
<1> QED BY <1>1, GoodKept DEF Same

LEMMA ConnectionsGood ==
  ASSUME TypeOK, UsersStand, Connections, NEW p, Good(p)
  PROVE  Good(p)'
<1>1. GivenOK /\ NickOK
  BY TypeParts DEF ServerOK
<1>2. virtual \cap Clients = {}
  BY DEF virtual
<1>3. /\ UNCHANGED <<contacts, remote, events, crossed, clash>>
      /\ \A m \in virtual : m \in DOMAIN flags => flags'[m] = flags[m]
  <2>1. CASE LinesEnd
    BY <2>1 DEF LinesEnd, people, libtego, history
  <2>2. ASSUME NEW i \in Clients,
               Connect(i) \/ Join(i) \/ Leave(i) \/ Disconnect(i)
        PROVE  /\ UNCHANGED <<contacts, remote, events, crossed, clash>>
               /\ \A m \in virtual : m \in DOMAIN flags => flags'[m] = flags[m]
    <3>1. UNCHANGED <<contacts, remote, events, crossed, clash>>
      BY <2>2 DEF Connect, Join, Leave, Disconnect, people, libtego, history
    <3>2. \A m \in virtual : m # i
      BY <1>2
    <3>3. \A m \in virtual : m \in DOMAIN flags => flags'[m] = flags[m]
      BY <2>2, <3>2 DEF Connect, Join, Leave, Disconnect, With, Without
    <3> QED BY <3>1, <3>3
  <2>3. ASSUME NEW i \in Clients, Pass(i) \/ User(i) \/ \E n \in Nicks : Nick(i, n)
        PROVE  /\ UNCHANGED <<contacts, remote, events, crossed, clash>>
               /\ \A m \in virtual : m \in DOMAIN flags => flags'[m] = flags[m]
    <3>1. PICK what, names : Telling(i, what, names)
      BY <1>1, <2>3, LinesTell
    <3>2. i \in DOMAIN given
      BY <1>1, <3>1, SpeakerIsGiven DEF Telling
    <3>3. Tell(i, what, names) /\ UNCHANGED <<people, libtego, history, clash>>
      BY <3>1 DEF Telling
    <3>4. \A m \in virtual : m \in DOMAIN flags => flags'[m] = flags[m]
      BY <1>1, <3>2, <3>3, TellFlags
    <3> QED BY <3>3, <3>4 DEF people, libtego, history
  <2> QED BY <2>1, <2>2, <2>3 DEF Connections
<1>4. FlagsStay(p)
  BY <1>3, ClientFlags
<1> QED BY <1>3, <1>4, QuietGood

-----------------------------------------------------------------------------
\* The commands.

LEMMA ListedGood ==
  ASSUME TypeOK, NEW p, Good(p), NEW q \in Peers, NEW n \in Nicks,
         NEW shown \in {"offline", "pending"}, NEW type, Listed(q, n, shown, type),
         UNCHANGED <<flags, clash>>, crossed \subseteq crossed', Steady(p),
         NEW news \in Seq(Event), events' = events \o news,
         \A m \in DOMAIN news : news[m].peer = q /\ news[m].kind # "message",
         news # << >> => q \in crossed',
         Holder(remote', p) => p = q \/ Holder(remote, p)
  PROVE  Good(p)'
<1> DEFINE c == [peer |-> q, nick |-> n, user |-> None, status |-> shown]
           more == << c >>
<1>1. c \in Contact /\ c.peer = q /\ c.user = None
  BY DEF Contact
<1>2. contacts' = Append(contacts, c) /\ ContactsOK
  BY TypeParts DEF Listed, ListsOK
<1> HIDE DEF c
<1>3. more \in Seq(Contact) /\ contacts' = contacts \o more
  BY <1>1, <1>2, AppendIsBehind
<1>4. DOMAIN more = {1} /\ more[1] = c
  OBVIOUS
<1>5. IF q = p THEN FirstOf(more, p) # {} ELSE Unlisted(more, p)
  BY <1>1, OneFirst
<1> HIDE DEF more
<1>6. \A m \in DOMAIN more : more[m].user = None
  BY <1>1, <1>4
<1>7. CASE p = q
  <2>1. Silent(news, p) \/ p \in crossed'
    BY <1>7 DEF Silent
  <2>2. FirstOf(more, p) # {}
    BY <1>5, <1>7
  <2> QED BY <1>3, <1>6, <2>1, <2>2, GrownGood
<1>8. CASE p # q
  <2>1. Silent(news, p) /\ ~News(news, p)
    BY <1>8 DEF Silent, News
  <2>2. Unlisted(more, p)
    BY <1>5, <1>8
  <2>3. Holder(remote', p) \/ News(news, p) =>
           Holder(remote, p) \/ FirstOf(contacts, p) # {} \/ FirstOf(more, p) # {}
    BY <1>8, <2>1
  <2> QED BY <1>3, <1>6, <2>1, <2>2, <2>3, GrownGood
<1> QED BY <1>7, <1>8

LEMMA TidingsOf ==
  ASSUME NEW p, NEW kinds
  PROVE  /\ DOMAIN Tidings(p, kinds) = DOMAIN kinds
         /\ \A n \in DOMAIN kinds : Tidings(p, kinds)[n].peer = p /\ Tidings(p, kinds)[n].kind = kinds[n]
BY DEF Tidings

LEMMA AddGood ==
  ASSUME TypeOK, NEW p \in Peers, Good(p), NEW q \in Peers, NEW n \in Nicks, CmdAdd(q, n)
  PROVE  Good(p)'
<1> DEFINE x == IF Holds(q) \in {"none", "asking"} THEN "pending" ELSE Holds(q)
<1>1. RemoteOK
  BY TypeParts DEF ListsOK
<1>2. Listed(q, n, "pending", "pending") /\ Holding(q, x)
      /\ UNCHANGED <<flags, clash>> /\ crossed \subseteq crossed'
  BY DEF CmdAdd, server, channel
<1>3. Holds(q) \in Holdings
  <2>1. remote[Current] \in Identity
    BY <1>1, CurrentIdentity
  <2> QED BY <2>1 DEF Holds, Identity, Holdings
<1>4. x \in Holdings
  BY <1>3 DEF Holdings
<1>5. x = "online" <=> remote[Current].holds[q] = "online"
  BY DEF Holds
<1> HIDE DEF x
<1>6. Turns(Current, q, x)
  BY <1>1, <1>2, <1>4, HoldingTurns
<1>7. Steady(p) /\ (Holder(remote', p) => p = q \/ Holder(remote, p))
  <2>1. CASE p = q
    BY <1>5, <1>6, <2>1, TurnSteady
  <2>2. CASE p # q
    BY <1>6, <2>2, OthersSame DEF Same
  <2> QED BY <2>1, <2>2
<1>8. \E news \in Seq(Event) :
        /\ events' = events \o news
        /\ \A m \in DOMAIN news : news[m].peer = q /\ news[m].kind # "message"
        /\ news # << >> => q \in crossed'
  <2>1. CASE Holds(q) = "asking"
    <3>1. PICK kinds \in {<< "accepted" >>, << "accepted", "online" >>} : Announces(q, kinds)
      BY <2>1 DEF CmdAdd
    <3>2. kinds \in Seq(Kinds) /\ \A m \in DOMAIN kinds : kinds[m] # "message"
      <4>1. CASE kinds = << "accepted" >>
        BY <4>1 DEF Kinds
      <4>2. CASE kinds = << "accepted", "online" >>
        BY <4>2 DEF Kinds
      <4> QED BY <4>1, <4>2
    <3>3. Tidings(q, kinds) \in Seq(Event)
      BY <3>2, TidingsType
    <3>4. \A m \in DOMAIN Tidings(q, kinds) :
            Tidings(q, kinds)[m].peer = q /\ Tidings(q, kinds)[m].kind # "message"
      BY <3>2, TidingsOf
    <3>5. q \in crossed'
      BY <2>1 DEF CmdAdd
    <3> QED BY <3>1, <3>3, <3>4, <3>5 DEF Announces
  <2>2. CASE Holds(q) # "asking"
    <3>1. events' = events
      BY <2>2 DEF CmdAdd
    <3> DEFINE news == << >>
    <3>2. news \in Seq(Event) /\ events = events \o news /\ DOMAIN news = {}
      BY NoMore
    <3>3. events' = events \o news /\ \A m \in DOMAIN news : news[m].peer = q /\ news[m].kind # "message"
      BY <3>1, <3>2
    <3> QED BY <3>2, <3>3
  <2> QED BY <2>1, <2>2
<1> QED BY <1>2, <1>7, <1>8, ListedGood

LEMMA AcceptGood ==
  ASSUME TypeOK, NEW p \in Peers, Good(p), NEW q \in Peers, NEW n \in Nicks,
         CmdAccept(q, n), Holds(q) = "asking"
  PROVE  Good(p)'
<1>1. RemoteOK
  BY TypeParts DEF ListsOK
<1>2. /\ Listed(q, n, "offline", "allowed") /\ Holding(q, "offline")
      /\ UNCHANGED <<flags, clash, events, crossed>>
  BY DEF CmdAccept, server, channel, history
<1>3. Turns(Current, q, "offline")
  BY <1>1, <1>2, HoldingTurns DEF Holdings
<1>4. Steady(p) /\ (Holder(remote', p) => p = q \/ Holder(remote, p))
  <2>1. CASE p = q
    <3>1. "offline" = "online" <=> remote[Current].holds[p] = "online"
      BY <2>1 DEF Holds
    <3> QED BY <1>3, <2>1, <3>1, TurnSteady
  <2>2. CASE p # q
    BY <1>3, <2>2, OthersSame DEF Same
  <2> QED BY <2>1, <2>2
<1> DEFINE news == << >>
<1>5. news \in Seq(Event) /\ events = events \o news /\ DOMAIN news = {}
  BY NoMore
<1>6. /\ events' = events \o news /\ crossed \subseteq crossed'
      /\ \A m \in DOMAIN news : news[m].peer = q /\ news[m].kind # "message"
  BY <1>2, <1>5
<1> QED BY <1>2, <1>4, <1>5, <1>6, ListedGood

LEMMA RejectGood ==
  ASSUME TypeOK, NEW p \in Peers, Good(p), NEW q \in Peers, CmdReject(q), Holds(q) = "asking"
  PROVE  Good(p)'
<1>1. RemoteOK
  BY TypeParts DEF ListsOK
<1> DEFINE c == [holds |-> [remote[Current].holds EXCEPT ![q] = "none"],
                 rejects |-> remote[Current].rejects \cup {q}]
<1>2. /\ remote' = [remote EXCEPT ![Current] = c]
      /\ UNCHANGED <<flags, contacts, events, crossed, clash>>
  BY DEF CmdReject, server, channel, history
<1>3. Current \in DOMAIN remote /\ remote[Current] \in Identity /\ remote \in Seq(Identity)
  BY <1>1, CurrentIdentity DEF RemoteOK
<1>4. c \in Identity /\ \A o \in Peers : c.holds[o] = IF o = q THEN "none" ELSE remote[Current].holds[o]
  BY <1>3 DEF Identity
<1> HIDE DEF c
<1>5. /\ DOMAIN remote' = DOMAIN remote /\ Len(remote') = Len(remote)
      /\ remote'[Current] = c /\ \A h \in DOMAIN remote : h # Current => remote'[h] = remote[h]
  BY <1>2, <1>3, <1>4, ChangedEntry
<1>6. Turns(Current, q, "none")
  BY <1>3, <1>4, <1>5 DEF Turns
<1>7. Same(p)
  <2>1. CASE p = q
    <3>1. "none" = "online" <=> remote[Current].holds[p] = "online"
      BY <2>1 DEF Holds
    <3> QED BY <1>6, <2>1, <3>1, TurnSame DEF Held
  <2>2. CASE p # q
    BY <1>6, <2>2, OthersSame
  <2> QED BY <2>1, <2>2
<1>8. FlagsStay(p) /\ Carries(contacts, contacts', p)
  BY <1>2, SameCarries DEF FlagsStay
<1> QED BY <1>2, <1>7, <1>8, GoodKept DEF Same

LEMMA EndsGood ==
  ASSUME TypeOK, NEW p, Good(p), NEW why, Ends(why)
  PROVE  Good(p)'
<1>1. UNCHANGED <<flags, contacts, remote, events, crossed, clash>>
  BY DEF Ends, server, channel, people, libtego, history
<1>2. FlagsStay(p)
  BY <1>1 DEF FlagsStay
<1> QED BY <1>1, <1>2, QuietGood

LEMMA DeleteGood ==
  ASSUME TypeOK, UsersStand, NEW p \in Peers, Good(p), NEW n \in Nicks, CmdDelete(n), p \notin deleted'
  PROVE  Good(p)'
<1>1. PICK k \in Called(n) :
        \/ Ends("forgotten") \/ Ends("unmapped")
        \/ /\ contacts' = RemoveAt(contacts, k)
           /\ Holding(contacts[k].peer, "none")
           /\ flags' = Without(flags, {contacts[k].user})
           /\ deleted' = deleted \cup {contacts[k].peer}
           /\ UNCHANGED <<events, crossed, clash>>
  BY DEF CmdDelete
<1>2. CASE Ends("forgotten") \/ Ends("unmapped")
  BY <1>2, EndsGood
<1>3. CASE /\ contacts' = RemoveAt(contacts, k)
           /\ Holding(contacts[k].peer, "none")
           /\ flags' = Without(flags, {contacts[k].user})
           /\ deleted' = deleted \cup {contacts[k].peer}
           /\ UNCHANGED <<events, crossed, clash>>
  <2> DEFINE q == contacts[k].peer
             u == contacts[k].user
  <2>1. p # q
    BY <1>3
  <2>2. k \in DOMAIN contacts /\ contacts \in Seq(Contact) /\ RemoteOK
    BY CalledIsIndex, TypeParts DEF ListsOK, ContactsOK
  <2>3. contacts[k] \in Contact
    BY <2>2, ElementOfSeq, LenProperties
  <2>4. q \in Peers /\ "none" \in Holdings
    BY <2>3 DEF Contact, Holdings
  <2>5. Turns(Current, q, "none")
    BY <1>3, <2>2, <2>4, HoldingTurns
  <2>6. Same(p)
    BY <2>1, <2>5, OthersSame
  <2>7. Carries(contacts, contacts', p)
    BY <1>3, <2>1, <2>2, RemoveCarries
  <2>8. FlagsStay(p)
    <3>1. ASSUME NEW j \in DOMAIN contacts, contacts[j].peer = p, contacts[j].user # None
          PROVE  contacts[j].user \in DOMAIN flags /\ contacts[j].user # u
      BY <2>1, <2>2, <3>1 DEF UsersStand
    <3> QED BY <1>3, <3>1 DEF FlagsStay, Without
  <2> QED BY <1>3, <2>6, <2>7, <2>8, GoodKept DEF Same
<1> QED BY <1>1, <1>2, <1>3

LEMMA RenameGood ==
  ASSUME TypeOK, NEW p \in Peers, Good(p), NEW old \in Nicks, NEW new \in Nicks, CmdRename(old, new)
  PROVE  Good(p)'
<1>1. PICK k \in Called(old) : contacts' = [contacts EXCEPT ![k].nick = new]
  BY DEF CmdRename, Renamed
<1>2. UNCHANGED <<flags, remote, events, crossed, clash>>
  BY DEF CmdRename, libtego, history
<1>3. contacts \in Seq(Contact) /\ k \in DOMAIN contacts
  BY CalledIsIndex DEF TypeOK
<1>4. contacts[k] \in Contact
  BY <1>3, ElementOfSeq, LenProperties
<1>5. [contacts[k] EXCEPT !.nick = new] \in Contact
  BY <1>4 DEF Contact
<1>6. /\ contacts' \in Seq(Contact) /\ DOMAIN contacts' = DOMAIN contacts
      /\ contacts'[k] = [contacts[k] EXCEPT !.nick = new]
      /\ \A j \in DOMAIN contacts : j # k => contacts'[j] = contacts[j]
  BY <1>1, <1>3, <1>5, ChangedEntry
<1>7. \A j \in DOMAIN contacts :
        contacts'[j].peer = contacts[j].peer /\ contacts'[j].user = contacts[j].user
  BY <1>4, <1>6 DEF Contact
<1>8. FirstOf(contacts', p) = FirstOf(contacts, p)
      /\ (Unlisted(contacts', p) <=> Unlisted(contacts, p))
  BY <1>3, <1>6, <1>7, SamePeers
<1>9. FirstOf(contacts, p) \subseteq DOMAIN contacts
  BY DEF FirstOf
<1>10. Carries(contacts, contacts', p)
  BY <1>7, <1>8, <1>9 DEF Carries
<1>11. FlagsStay(p) /\ Same(p)
  BY <1>2, RemoteKept DEF FlagsStay
<1> QED BY <1>2, <1>10, <1>11, GoodKept DEF Same

LEMMA CommandsGood ==
  ASSUME TypeOK, UsersStand, Commands, NEW p \in Peers, Good(p), p \notin deleted'
  PROVE  Good(p)'
<1>1. ASSUME NEW q \in Peers, NEW n \in Nicks, CmdAccept(q, n)
      PROVE  Good(p)'
  BY <1>1, AcceptGood, EndsGood DEF CmdAccept
<1>2. ASSUME NEW q \in Peers, CmdReject(q)
      PROVE  Good(p)'
  BY <1>2, RejectGood, EndsGood DEF CmdReject
<1> QED BY <1>1, <1>2, AddGood, DeleteGood, RenameGood DEF Commands

-----------------------------------------------------------------------------
\* A task takes an event.

\* Who has an event that is not a request has a contact.
LEMMA SenderListed ==
  ASSUME TypeOK, NEW p, Good(p), events # << >>, Head(events).peer = p, Head(events).kind # "request"
  PROVE  FirstOf(contacts, p) # {}
<1>1. events \in Seq(Event)
  BY DEF TypeOK
<1>2. News(events, p)
  BY <1>1, TailNews
<1> QED BY <1>2 DEF Good, Listing

LEMMA TakenListing ==
  ASSUME TypeOK, NEW p, Good(p), events # << >>, events' = Tail(events), remote' = remote,
         FirstOf(contacts', p) = {} => FirstOf(contacts, p) = {},
         Unlisted(contacts, p) => Unlisted(contacts', p)
  PROVE  Listing(p)'
<1>1. events \in Seq(Event)
  BY DEF TypeOK
<1>2. News(events', p) => News(events, p)
  BY <1>1, TailNews
<1> QED BY <1>2 DEF Good, Listing

\* One that is not a status of p leaves what is shown of p.
LEMMA TakenOther ==
  ASSUME TypeOK, NEW p, Good(p), events # << >>, events' = Tail(events), remote' = remote,
         ~(Head(events).peer = p /\ Head(events).kind \in Status),
         Carries(contacts, contacts', p), FlagsStay(p), clash' = clash, crossed' = crossed
  PROVE  Good(p)'
<1>1. events \in Seq(Event)
  BY DEF TypeOK
<1>2. Listing(p)'
  BY TakenListing DEF Carries
<1>3. Steady(p)
  BY RemoteKept DEF Same
<1>4. /\ Mapped(contacts, p) => Mapped(contacts', p)
      /\ Shows(contacts, flags, remote, p) => Shows(contacts', flags', remote', p)
  BY <1>3, ContactKept
<1>5. Silent(events', p) => Silent(events, p)
  BY <1>1, TailSilent
<1>6. ASSUME Heard(p)
      PROVE  Heard(p)'
  <2>1. Preceded(events, contacts, p)
    BY <1>6 DEF Heard
  <2>2. Preceded(events', contacts', p)
    BY <1>1, <1>4, <2>1, TailPreceded
  <2> QED BY <1>4, <1>5, <1>6, <2>2 DEF Heard
<1>7. ASSUME Told(p)
      PROVE  Told(p)'
  <2>1. Tells(events', remote, p)
    BY <1>1, <1>7, TailTells DEF Told
  <2> QED BY <1>4, <1>5, <1>7, <2>1 DEF Told
<1> QED BY <1>2, <1>6, <1>7 DEF Good

\* A status of p is shown.
LEMMA TakenStatus ==
  ASSUME TypeOK, NEW p, Good(p), events # << >>, events' = Tail(events), remote' = remote,
         Head(events).peer = p, Head(events).kind \in Status,
         FirstOf(contacts', p) = {} => FirstOf(contacts, p) = {},
         Unlisted(contacts, p) => Unlisted(contacts', p),
         clash => clash', crossed' = crossed,
         ~clash' => /\ Mapped(contacts', p)
                    /\ \A k \in FirstOf(contacts', p) :
                         flags'[contacts'[k].user] = "+v" <=> Head(events).kind = "online"
  PROVE  Good(p)'
<1>1. events \in Seq(Event)
  BY DEF TypeOK
<1>2. Listing(p)'
  BY TakenListing
<1>3. ASSUME ~clash'
      PROVE  Heard(p)'
  <2>1. Preceded(events, contacts, p)
    BY <1>3 DEF Good, Heard
  <2>2. Mapped(contacts', p)
    BY <1>3
  <2>3. Preceded(events', contacts', p)
    BY <1>1, <2>1, <2>2, TailPreceded
  <2> QED BY <2>2, <2>3 DEF Heard
<1>4. ASSUME ~clash', p \notin crossed'
      PROVE  Told(p)'
  <2>1. Told(p)
    BY <1>4 DEF Good
  <2>2. Tells(events, remote, p)
    BY <2>1 DEF Told
  <2>3. Tells(events', remote, p)
    BY <1>1, <2>2, TailTells
  <2>4. ASSUME Silent(events', p)
        PROVE  Shows(contacts', flags', remote', p)
    <3>1. Fits(Head(events), remote, p)
      BY <1>1, <2>2, <2>4, TailTells
    <3>2. /\ \A k \in FirstOf(contacts', p) : contacts'[k].user # None
          /\ \A k \in FirstOf(contacts', p) :
               flags'[contacts'[k].user] = "+v" <=> Head(events).kind = "online"
      BY <1>4 DEF Mapped
    <3>3. Head(events).kind = "online" \/ Head(events).kind = "offline"
      BY DEF Status
    <3> QED BY <3>1, <3>2, <3>3 DEF Fits, Shows
  <2> QED BY <2>3, <2>4 DEF Told
<1> QED BY <1>2, <1>3, <1>4 DEF Good

LEMMA FirstIsOne ==
  ASSUME NEW s \in Seq(Contact), NEW p, NEW j \in FirstOf(s, p), NEW k \in FirstOf(s, p)
  PROVE  j = k
<1>1. j \in Nat /\ k \in Nat /\ j >= 1 /\ k >= 1
  BY LenProperties DEF FirstOf
<1>2. ~(j \in 1..(k - 1)) /\ ~(k \in 1..(j - 1))
  BY DEF FirstOf
<1> QED BY <1>1, <1>2

\* Unless there is a clash, a status is shown on the contact's IrcUser and on nobody else.
LEMMA ShownGood ==
  ASSUME TypeOK, UsersStand, NEW q, NEW k \in FirstOf(contacts, q), NEW flag,
         NEW STATE list, list \in Seq(Contact), DOMAIN list = DOMAIN contacts,
         \A j \in DOMAIN contacts :
           list[j].user = contacts[j].user /\ list[j].peer = contacts[j].peer,
         ShowOnMember(k, list, flag) \/ ShowOnNewUser(k, list, flag)
  PROVE  /\ \A p : /\ FirstOf(contacts', p) = FirstOf(contacts, p)
                   /\ Unlisted(contacts', p) <=> Unlisted(contacts, p)
         /\ ~clash' =>
              /\ ~clash
              /\ \A p : p # q => Carries(contacts, contacts', p) /\ FlagsStay(p)
              /\ Mapped(contacts', q)
              /\ \A j \in FirstOf(contacts', q) : flags'[contacts'[j].user] = flag
<1>1. contacts \in Seq(Contact) /\ DOMAIN flags \subseteq Clients \cup Users
  BY DEF TypeOK
<1>2. k \in DOMAIN contacts /\ contacts[k].peer = q
  BY DEF FirstOf
<1>3. \A p : p # q => k \notin FirstOf(contacts, p)
  BY <1>2 DEF FirstOf
<1>4. \A p : FirstOf(contacts, p) \subseteq DOMAIN contacts
  BY DEF FirstOf
<1>5. \A j \in FirstOf(contacts, q) : j = k
  BY <1>1, FirstIsOne
<1>6. CASE ShowOnMember(k, list, flag)
  <2>1. PICK m \in Named(list[k].nick) :
          /\ flags' = With(flags, {m}, flag) /\ contacts' = list
          /\ clash' = (clash \/ m # list[k].user)
    BY <1>6 DEF ShowOnMember
  <2>2. \A p : FirstOf(contacts', p) = FirstOf(contacts, p)
               /\ (Unlisted(contacts', p) <=> Unlisted(contacts, p))
    BY <1>1, <2>1, SamePeers
  <2>3. m \in DOMAIN flags /\ m # None /\ flags'[m] = flag
        /\ \A x \in DOMAIN flags : x # m => flags'[x] = flags[x]
    BY <1>1, <2>1, ObjectsAssumption DEF Named, With
  <2>4. \A p : Carries(contacts, contacts', p)
    BY <1>4, <2>1, <2>2 DEF Carries
  <2>5. ASSUME ~clash'
        PROVE  /\ ~clash
               /\ \A p : p # q => FlagsStay(p)
               /\ Mapped(contacts', q)
               /\ \A j \in FirstOf(contacts', q) : flags'[contacts'[j].user] = flag
    <3>1. ~clash /\ m = contacts[k].user
      BY <1>2, <2>1, <2>5
    <3>2. ASSUME NEW p, p # q, NEW j \in DOMAIN contacts, contacts[j].peer = p, contacts[j].user # None
          PROVE  flags'[contacts[j].user] = flags[contacts[j].user]
      <4>1. contacts[j].user \in DOMAIN flags /\ contacts[j].user # m
        BY <1>2, <3>1, <3>2 DEF UsersStand
      <4> QED BY <2>3, <4>1
    <3>3. \A p : p # q => FlagsStay(p)
      BY <3>2 DEF FlagsStay
    <3>4. \A j \in FirstOf(contacts', q) : contacts'[j].user = m
      BY <1>2, <1>5, <2>1, <2>2, <3>1
    <3> QED BY <2>3, <3>1, <3>3, <3>4 DEF Mapped
  <2> QED BY <2>2, <2>4, <2>5
<1>7. CASE ShowOnNewUser(k, list, flag)
  <2>1. PICK u \in Users \ virtual :
          /\ flags' = With(flags, {u}, flag)
          /\ contacts' = [list EXCEPT ![k].user = u]
          /\ UNCHANGED clash
    BY <1>7 DEF ShowOnNewUser
  <2>2. list[k] \in Contact
    BY <1>2, ElementOfSeq, LenProperties
  <2>3. [list[k] EXCEPT !.user = u] \in Contact
    BY <2>1, <2>2 DEF Contact
  <2>4. /\ contacts' \in Seq(Contact) /\ DOMAIN contacts' = DOMAIN contacts
        /\ contacts'[k] = [list[k] EXCEPT !.user = u]
        /\ \A j \in DOMAIN contacts : j # k => contacts'[j] = list[j]
    BY <1>2, <2>1, <2>3, ChangedEntry
  <2>5. contacts'[k].user = u /\ contacts'[k].peer = contacts[k].peer
    BY <1>2, <2>2, <2>4 DEF Contact
  <2>6. \A j \in DOMAIN contacts : contacts'[j].peer = contacts[j].peer
    BY <2>4, <2>5
  <2>7. \A p : FirstOf(contacts', p) = FirstOf(contacts, p)
               /\ (Unlisted(contacts', p) <=> Unlisted(contacts, p))
    BY <1>1, <2>4, <2>6, SamePeers
  <2>8. \A j \in DOMAIN contacts : j # k => contacts'[j].user = contacts[j].user
    BY <2>4
  <2>9. \A p : p # q => Carries(contacts, contacts', p)
    BY <1>3, <1>4, <2>7, <2>8 DEF Carries
  <2>10. u # None /\ flags'[u] = flag /\ \A x \in DOMAIN flags : x # u => flags'[x] = flags[x]
    BY <2>1, ObjectsAssumption DEF With
  <2>11. ASSUME NEW p, NEW j \in DOMAIN contacts, contacts[j].peer = p, contacts[j].user # None
         PROVE  flags'[contacts[j].user] = flags[contacts[j].user]
    <3>1. contacts[j].user \in DOMAIN flags /\ contacts[j].user # u
      BY <2>1, <2>11 DEF UsersStand
    <3> QED BY <2>10, <3>1
  <2>12. \A p : FlagsStay(p)
    BY <2>11 DEF FlagsStay
  <2>13. \A j \in FirstOf(contacts', q) : contacts'[j].user = u
    BY <1>5, <2>5, <2>7
  <2> QED BY <2>1, <2>7, <2>9, <2>10, <2>12, <2>13 DEF Mapped
<1> QED BY <1>6, <1>7
LEMMA StatusGood ==
  ASSUME TypeOK, UsersStand, NEW status \in Status, TakeStatus(status), NEW p \in Peers, Good(p)
  PROVE  Good(p)'
<1> DEFINE q == Head(events).peer
           flag == IF status = "online" THEN "+v" ELSE "-v"
<1>1. /\ events # << >> /\ events' = Tail(events) /\ Head(events).kind = status
      /\ UNCHANGED <<remote, crossed>>
      /\ (flag = "+v" <=> status = "online")
  BY DEF TakeStatus, Take, Status, history
<1>2. \/ \E k \in Of(q) : ShowOnMember(k, Turned(k, status), flag)
                          \/ ShowOnNewUser(k, Turned(k, status), flag)
      \/ Of(q) = {} /\ UNCHANGED <<channel, contacts, clash>>
  BY DEF TakeStatus, Sender
<1> HIDE DEF flag
<1>3. CASE Of(q) = {} /\ UNCHANGED <<channel, contacts, clash>>
  <2>1. p # q
    BY <1>1, <1>3, OfIsFirst, SenderListed DEF Status
  <2>2. Carries(contacts, contacts', p) /\ FlagsStay(p)
    BY <1>3, SameCarries DEF FlagsStay, channel
  <2> QED BY <1>1, <1>3, <2>1, <2>2, TakenOther
<1>4. ASSUME NEW k \in Of(q),
             ShowOnMember(k, Turned(k, status), flag) \/ ShowOnNewUser(k, Turned(k, status), flag)
      PROVE  Good(p)'
  <2>1. ContactsOK /\ k \in FirstOf(contacts, q)
    BY <1>4, OfIsFirst, TypeParts DEF ListsOK
  <2>2. k \in DOMAIN contacts
    BY <2>1 DEF FirstOf
  <2> DEFINE l == Turned(k, status)
  <2>3. /\ l \in Seq(Contact) /\ DOMAIN l = DOMAIN contacts
        /\ \A j \in DOMAIN contacts :
             l[j].user = contacts[j].user /\ l[j].peer = contacts[j].peer
    BY <2>1, <2>2, TurnedType DEF Status
  <2>4. ShowOnMember(k, l, flag) \/ ShowOnNewUser(k, l, flag)
    BY <1>4
  <2> HIDE DEF l
  <2>5. /\ \A x : /\ FirstOf(contacts', x) = FirstOf(contacts, x)
                  /\ Unlisted(contacts', x) <=> Unlisted(contacts, x)
        /\ ~clash' =>
             /\ ~clash
             /\ \A x : x # q => Carries(contacts, contacts', x) /\ FlagsStay(x)
             /\ Mapped(contacts', q)
             /\ \A j \in FirstOf(contacts', q) : flags'[contacts'[j].user] = flag
    BY <2>1, <2>3, <2>4, ShownGood
  <2>6. CASE p # q
    <3>1. CASE ~clash'
      <4>1. Carries(contacts, contacts', p) /\ FlagsStay(p) /\ clash' = clash
        <5>1. clash \in BOOLEAN /\ clash' \in BOOLEAN
          BY <1>4 DEF TypeOK, ShowOnMember, ShowOnNewUser
        <5> QED BY <2>5, <2>6, <3>1, <5>1
      <4> QED BY <1>1, <2>6, <4>1, TakenOther
    <3>2. CASE clash'
      <4>1. Listing(p)'
        BY <1>1, <2>5, TakenListing
      <4> QED BY <3>2, <4>1 DEF Good
    <3> QED BY <3>1, <3>2
  <2>7. CASE p = q
    <3>1. ~clash' =>
            /\ Mapped(contacts', p)
            /\ \A j \in FirstOf(contacts', p) :
                 flags'[contacts'[j].user] = "+v" <=> Head(events).kind = "online"
      BY <1>1, <2>5, <2>7
    <3>2. clash => clash'
      BY <2>5
    <3>3. /\ FirstOf(contacts', p) = {} => FirstOf(contacts, p) = {}
          /\ Unlisted(contacts, p) => Unlisted(contacts', p)
      BY <2>5
    <3> QED BY <1>1, <2>7, <3>1, <3>2, <3>3, TakenStatus
  <2> QED BY <2>6, <2>7
<1> QED BY <1>2, <1>3, <1>4

LEMMA PlainTaskGood ==
  ASSUME TypeOK, NEW p \in Peers, Good(p), TakeRequest \/ TakeResponse \/ TakeMessage
  PROVE  Good(p)'
<1>1. /\ events # << >> /\ events' = Tail(events) /\ Head(events).kind \notin Status
      /\ UNCHANGED <<flags, remote, crossed, clash>>
  BY DEF TakeRequest, TakeResponse, TakeMessage, Take, Status, server, channel, history
<1>2. FlagsStay(p)
  BY <1>1 DEF FlagsStay
<1>3. Carries(contacts, contacts', p)
  <2>1. CASE contacts' = contacts
    BY <2>1, SameCarries
  <2>2. ASSUME NEW k \in Sender, contacts' = Turned(k, "rejected")
        PROVE  Carries(contacts, contacts', p)
    <3>1. ContactsOK /\ k \in DOMAIN contacts
      BY SenderIsListed, TypeParts DEF ListsOK
    <3>2. /\ contacts' \in Seq(Contact) /\ DOMAIN contacts' = DOMAIN contacts
          /\ \A j \in DOMAIN contacts :
               contacts'[j].user = contacts[j].user /\ contacts'[j].peer = contacts[j].peer
      BY <2>2, <3>1, TurnedType
    <3>3. FirstOf(contacts', p) = FirstOf(contacts, p)
          /\ (Unlisted(contacts', p) <=> Unlisted(contacts, p))
      BY <3>1, <3>2, SamePeers DEF ContactsOK
    <3>4. FirstOf(contacts, p) \subseteq DOMAIN contacts
      BY DEF FirstOf
    <3> QED BY <3>2, <3>3, <3>4 DEF Carries
  <2> QED BY <2>1, <2>2 DEF TakeRequest, TakeResponse, TakeMessage, people
<1> QED BY <1>1, <1>2, <1>3, TakenOther

LEMMA ReloadGood ==
  ASSUME TypeOK, NEW p \in Peers, Good(p), ControlConnected
  PROVE  Good(p)'
<1>1. SavedOK /\ RemoteOK /\ EventsOK
  BY TypeParts DEF ListsOK
<1>2. PICK order \in SetToSeqs(OfType(DOMAIN ShownAs)) : contacts' = contacts \o Entries(order)
  BY DEF ControlConnected
<1> DEFINE more == Entries(order)
           known == OfType(DOMAIN ShownAs)
<1>3. /\ more \in Seq(Contact) /\ contacts' = contacts \o more
      /\ \A m \in DOMAIN more : more[m].user = None
  BY <1>1, <1>2, EntriesType
<1>4. IF p \in known THEN FirstOf(more, p) # {} ELSE Unlisted(more, p)
  BY <1>1, EntriesFirst
<1>5. UNCHANGED <<flags, clash, crossed>>
  BY DEF ControlConnected, server, channel, history
<1>6. Steady(p) /\ (Holder(remote', p) => Holder(remote, p) \/ p \in known)
  <2>1. CASE remote' = remote
    BY <2>1, RemoteKept DEF Same
  <2>2. CASE remote' = Append(remote, Loaded)
    <3>1. /\ DOMAIN remote = 1..Len(remote) /\ Len(remote) \in Nat \ {0} /\ remote \in Seq(Identity)
      BY <1>1, CurrentIdentity DEF RemoteOK
    <3>2. Loaded \in Identity /\ Loaded.holds[p] = HeldAs[saved[p].type]
      BY <1>1, LoadedType
    <3>3. /\ remote' \in Seq(Identity) /\ Len(remote') = Len(remote) + 1
          /\ \A g \in 1..Len(remote) : remote'[g] = remote[g]
          /\ remote'[Len(remote) + 1] = Loaded
      BY <2>2, <3>1, <3>2, AppendProperties
    <3>4. DOMAIN remote' = DOMAIN remote \cup {Len(remote) + 1}
      BY <3>1, <3>3, LenProperties
    <3>5. saved[p].type \in {"none", "allowed", "pending", "rejected", "requesting", "blocked"}
      BY <1>1 DEF SavedOK, Setting
    <3>6. Loaded.holds[p] # "online" /\ (Loaded.holds[p] \in Held => p \in known)
      BY <3>2, <3>5 DEF HeldAs, Held, OfType, ShownAs
    <3>7. On(remote', p) <=> On(remote, p)
      BY <3>1, <3>3, <3>4, <3>6 DEF On
    <3>8. ~Must(remote', p)
      BY <3>1, <3>3 DEF Must
    <3>9. Holder(remote', p) => Holder(remote, p) \/ p \in known
      BY <3>1, <3>3, <3>4, <3>6 DEF Holder
    <3> QED BY <3>7, <3>8, <3>9 DEF Steady
  <2> QED BY <2>1, <2>2 DEF ControlConnected
<1>7. \E news \in Seq(Event) :
        events' = events \o news /\ \A m \in DOMAIN news : news[m].kind = "request"
  <2>1. CASE events' = events
    <3> DEFINE news == << >>
    <3>1. news \in Seq(Event) /\ events = events \o news /\ DOMAIN news = {}
      BY NoMore
    <3>2. events' = events \o news /\ \A m \in DOMAIN news : news[m].kind = "request"
      BY <2>1, <3>1
    <3> QED BY <3>1, <3>2
  <2>2. ASSUME NEW askers \in SetToSeqs(OfType({"requesting"})),
               events' = events \o
                 [n \in DOMAIN askers |-> [kind |-> "request", peer |-> askers[n]]]
        PROVE  \E news \in Seq(Event) :
                 events' = events \o news /\ \A m \in DOMAIN news : news[m].kind = "request"
    <3> DEFINE S == OfType({"requesting"})
               news == [n \in DOMAIN askers |-> [kind |-> "request", peer |-> askers[n]]]
    <3>1. S \subseteq Peers /\ askers \in [1..Cardinality(S) -> S]
      BY <2>2 DEF OfType, SetToSeqs
    <3>2. Cardinality(S) \in Nat
      <4>1. IsFiniteSet(S)
        BY <3>1, PeersAssumption, FS_Subset
      <4> QED BY <4>1, FS_CardinalityType
    <3> HIDE DEF S
    <3>3. news \in [1..Cardinality(S) -> Event]
      BY <3>1 DEF Event
    <3>4. news \in Seq(Event)
      BY <3>2, <3>3
    <3>5. events' = events \o news /\ \A m \in DOMAIN news : news[m].kind = "request"
      BY <2>2
    <3> QED BY <3>4, <3>5
  <2> QED BY <2>1, <2>2 DEF ControlConnected
<1>8. PICK news \in Seq(Event) :
        events' = events \o news /\ \A m \in DOMAIN news : news[m].kind = "request"
  BY <1>7
<1>9. Silent(news, p) /\ ~News(news, p)
  BY <1>8 DEF Silent, News, Status
<1>10. /\ \A m \in DOMAIN news : news[m].peer = p => news[m].kind # "message"
       /\ FirstOf(more, p) # {} \/ Unlisted(more, p)
       /\ Holder(remote', p) \/ News(news, p) =>
            Holder(remote, p) \/ FirstOf(contacts, p) # {} \/ FirstOf(more, p) # {}
       /\ crossed \subseteq crossed' /\ UNCHANGED <<flags, clash>>
  BY <1>4, <1>5, <1>6, <1>8, <1>9
<1> HIDE DEF more, known
<1> QED BY <1>3, <1>6, <1>8, <1>9, <1>10, GrownGood

LEMMA TasksGood ==
  ASSUME TypeOK, UsersStand, Tasks, NEW p \in Peers, Good(p)
  PROVE  Good(p)'
BY PlainTaskGood, ReloadGood, StatusGood DEF Tasks, Status

-----------------------------------------------------------------------------
\* libtego tells of an identity.

LEMMA BecomesTurns ==
  ASSUME TypeOK, NEW g \in DOMAIN remote, NEW q \in Peers, NEW x \in Holdings,
         NEW kinds \in Seq(Kinds), Becomes(g, q, x, kinds)
  PROVE  /\ Turns(g, q, x)
         /\ Tidings(q, kinds) \in Seq(Event) /\ events' = events \o Tidings(q, kinds)
         /\ UNCHANGED <<contacts, flags, crossed, clash>>
<1>1. RemoteOK
  BY TypeParts DEF ListsOK
<1>2. Rewritten(remote, g, q, x, remote')
  BY DEF Becomes, Rewritten
<1>3. /\ DOMAIN remote' = DOMAIN remote /\ Len(remote') = Len(remote)
      /\ \A h \in DOMAIN remote, o \in Peers :
           remote'[h].holds[o] = IF h = g /\ o = q THEN x ELSE remote[h].holds[o]
  BY <1>1, <1>2, RemoteChanged
<1>4. Turns(g, q, x)
  BY <1>3 DEF Turns
<1>5. Tidings(q, kinds) \in Seq(Event)
  BY TidingsType
<1>6. events' = events \o Tidings(q, kinds)
  BY DEF Becomes, Announces
<1>7. UNCHANGED <<contacts, flags, crossed, clash>>
  BY DEF Becomes, server, channel, people, history
<1> QED BY <1>4, <1>5, <1>6, <1>7

LEMMA ListsStay ==
  ASSUME NEW p, UNCHANGED <<contacts, flags>>
  PROVE  Carries(contacts, contacts', p) /\ FlagsStay(p)
BY SameCarries DEF FlagsStay

\* What it tells of another identity.
LEMMA OtherGood ==
  ASSUME TypeOK, NEW p \in Peers, Good(p), NEW q \in Peers, p # q,
         NEW g \in DOMAIN remote, NEW x \in Holdings,
         NEW kinds \in Seq(Kinds), Becomes(g, q, x, kinds)
  PROVE  Good(p)'
<1> DEFINE more == Tidings(q, kinds)
<1>1. /\ Turns(g, q, x) /\ more \in Seq(Event) /\ events' = events \o more
      /\ UNCHANGED <<contacts, flags, crossed, clash>>
  BY BecomesTurns
<1>2. \A m \in DOMAIN more : more[m].peer = q
  BY TidingsOf
<1> HIDE DEF more
<1>3. Same(p)
  BY <1>1, OthersSame
<1>4. Silent(more, p) /\ ~News(more, p)
  BY <1>2 DEF Silent, News
<1>5. Carries(contacts, contacts', p) /\ FlagsStay(p)
  BY <1>1, ListsStay
<1>6. Holder(remote', p) \/ News(more, p) => Holder(remote, p) \/ FirstOf(contacts, p) # {}
  BY <1>3, <1>4 DEF Same
<1>7. Steady(p) /\ crossed \subseteq crossed' /\ clash' = clash
  BY <1>1, <1>3 DEF Same
<1>8. \A m \in DOMAIN more : more[m].peer = p /\ more[m].kind = "message" => On(remote, p)
  BY <1>2
<1> QED BY <1>1, <1>4, <1>5, <1>6, <1>7, <1>8, GoodMore

\* What it tells of p, but no status.
LEMMA WordGood ==
  ASSUME TypeOK, NEW p \in Peers, Good(p),
         NEW g \in DOMAIN remote, NEW x \in Holdings, NEW kind \in Kinds \ Status,
         Becomes(g, p, x, << kind >>),
         x = "online" <=> remote[g].holds[p] = "online",
         x \in Held \/ kind # "request" => remote[g].holds[p] \in Held,
         kind = "message" => x = "online"
  PROVE  Good(p)'
<1> DEFINE kinds == << kind >>
           more == Tidings(p, kinds)
<1>1. kinds \in Seq(Kinds) /\ DOMAIN kinds = {1} /\ kinds[1] = kind
  OBVIOUS
<1>2. Becomes(g, p, x, kinds)
  OBVIOUS
<1> HIDE DEF kinds
<1>3. /\ Turns(g, p, x) /\ more \in Seq(Event) /\ events' = events \o more
      /\ UNCHANGED <<contacts, flags, crossed, clash>>
  BY <1>1, <1>2, BecomesTurns
<1>4. \A m \in DOMAIN more : more[m].kind = kind
  BY <1>1, TidingsOf
<1> HIDE DEF more
<1>5. remote[g].holds[p] \in Held => Holder(remote, p)
  BY DEF Holder
<1>6. Same(p)
  BY <1>3, <1>5, TurnSame
<1>7. Silent(more, p) /\ (News(more, p) => kind # "request")
  BY <1>4 DEF Silent, News
<1>8. Carries(contacts, contacts', p) /\ FlagsStay(p)
  BY <1>3, ListsStay
<1>9. Holder(remote', p) \/ News(more, p) => Holder(remote, p) \/ FirstOf(contacts, p) # {}
  BY <1>5, <1>6, <1>7 DEF Same
<1>10. \A m \in DOMAIN more : more[m].peer = p /\ more[m].kind = "message" => On(remote, p)
  BY <1>4 DEF On
<1>11. Steady(p) /\ crossed \subseteq crossed' /\ clash' = clash
  BY <1>3, <1>6 DEF Same
<1> QED BY <1>3, <1>7, <1>8, <1>9, <1>10, <1>11, GoodMore

\* What it tells of p, with a status at the end.
LEMMA StatusTold ==
  ASSUME TypeOK, NEW p \in Peers, Good(p),
         NEW g \in DOMAIN remote, remote[g].holds[p] \in Held,
         NEW x \in Status, NEW kinds \in {<< x >>, << "accepted", x >>}, Becomes(g, p, x, kinds)
  PROVE  Good(p)'
<1> DEFINE more == Tidings(p, kinds)
<1>1. x \in Holdings /\ x \in Kinds /\ "accepted" \in Kinds
  BY DEF Status, Holdings, Kinds
<1>2. /\ kinds \in Seq(Kinds)
      /\ \A m \in DOMAIN kinds : kinds[m] # "message"
      /\ \E k \in DOMAIN kinds : kinds[k] = x /\ \A m \in DOMAIN kinds : m <= k
  <2>1. CASE kinds = << x >>
    <3>1. DOMAIN kinds = {1} /\ kinds[1] = x /\ kinds \in Seq(Kinds)
      BY <1>1, <2>1
    <3> QED BY <3>1 DEF Status
  <2>2. CASE kinds = << "accepted", x >>
    <3>1. /\ DOMAIN kinds = {1, 2} /\ kinds[1] = "accepted" /\ kinds[2] = x
          /\ kinds \in Seq(Kinds)
      BY <1>1, <2>2
    <3> QED BY <3>1 DEF Status
  <2> QED BY <2>1, <2>2
<1>3. /\ Turns(g, p, x) /\ more \in Seq(Event) /\ events' = events \o more
      /\ UNCHANGED <<contacts, flags, crossed, clash>>
  BY <1>1, <1>2, BecomesTurns
<1>4. /\ DOMAIN more = DOMAIN kinds
      /\ \A m \in DOMAIN more : more[m].kind = kinds[m] /\ more[m].peer = p
  BY TidingsOf
<1> HIDE DEF more
<1>5. PICK k \in DOMAIN more : more[k].kind = x /\ \A m \in DOMAIN more : m <= k
  BY <1>2, <1>4
<1>6. Holder(remote, p) /\ events \in Seq(Event)
  BY DEF Holder, TypeOK
<1>7. FirstOf(contacts, p) # {}
  BY <1>6 DEF Good, Listing
<1>8. Listing(p)'
  BY <1>3, <1>7 DEF Listing
<1>9. ~Silent(events', p)
  <2>1. ~Silent(more, p)
    BY <1>4, <1>5 DEF Silent
  <2> QED BY <1>3, <1>6, <2>1, MoreSilent
<1>10. ASSUME ~clash
       PROVE  Heard(p)'
  <2>1. Preceded(events, contacts, p)
    BY <1>10 DEF Good, Heard
  <2>2. \A m \in DOMAIN more : more[m].kind # "message"
    BY <1>2, <1>4
  <2>3. Preceded(events', contacts, p)
    BY <1>3, <1>6, <2>1, <2>2, MorePreceded
  <2> QED BY <1>3, <1>9, <2>3 DEF Heard
<1>11. Fits(more[k], remote', p)
  <2>1. x = "online" => On(remote', p)
    BY <1>3 DEF Turns, On
  <2>2. ASSUME x = "offline", Must(remote', p)
        PROVE  FALSE
    <3>1. PICK h \in DOMAIN remote' : remote'[h].holds[p] = "online" /\ Len(remote') = 1
      BY <2>2 DEF Must, On
    <3>2. h \in DOMAIN remote /\ g \in DOMAIN remote /\ Len(remote) = 1
      BY <1>3, <3>1 DEF Turns
    <3>3. DOMAIN remote = 1..Len(remote)
      <4>1. RemoteOK
        BY TypeParts DEF ListsOK
      <4> QED BY <4>1, CurrentIdentity
    <3>4. h = g
      BY <3>2, <3>3
    <3>5. remote'[h].holds[p] = x
      BY <1>3, <3>2, <3>4 DEF Turns
    <3> QED BY <2>2, <3>1, <3>5
  <2> QED BY <1>5, <2>1, <2>2 DEF Fits
<1>12. Told(p)'
  <2>1. Tells(events', remote', p)
    BY <1>3, <1>4, <1>5, <1>6, <1>11, NewStatus
  <2> QED BY <1>9, <2>1 DEF Told
<1> QED BY <1>3, <1>8, <1>10, <1>12 DEF Good

LEMMA LibtegoGood ==
  ASSUME TypeOK, Libtego, NEW p \in Peers, Good(p)
  PROVE  Good(p)'
<1>1. PICK g \in DOMAIN remote, q \in Peers :
        \/ Asks(g, q) \/ Accepts(g, q) \/ Rejects(g, q)
        \/ ComesOnline(g, q) \/ GoesOffline(g, q) \/ Writes(g, q)
  BY DEF Libtego
<1>2. "request" \in Kinds \ Status /\ "accepted" \in Kinds \ Status
      /\ "rejected" \in Kinds \ Status /\ "message" \in Kinds \ Status
      /\ "online" \in Kinds /\ "offline" \in Kinds
  BY DEF Kinds, Status
<1>3. \/ /\ remote[g].holds[q] \in Held
         /\ \E x \in Status, kinds \in Seq(Kinds) :
              kinds \in {<< x >>, << "accepted", x >>} /\ Becomes(g, q, x, kinds)
      \/ \E x \in Holdings, kind \in Kinds \ Status :
           /\ Becomes(g, q, x, << kind >>)
           /\ x = "online" <=> remote[g].holds[q] = "online"
           /\ x \in Held \/ kind # "request" => remote[g].holds[q] \in Held
           /\ kind = "message" => x = "online"
  <2>1. CASE Asks(g, q)
    <3> DEFINE x == "asking"
               kind == "request"
    <3>1. /\ Becomes(g, q, x, << kind >>) /\ remote[g].holds[q] = "none"
          /\ x \in Holdings /\ x \notin Held /\ x # "online"
      BY <2>1 DEF Asks, Holdings, Held
    <3> QED BY <1>2, <3>1
  <2>2. CASE Rejects(g, q)
    <3> DEFINE x == "rejected"
               kind == "rejected"
    <3>1. /\ Becomes(g, q, x, << kind >>) /\ remote[g].holds[q] = "pending"
          /\ x \in Holdings /\ remote[g].holds[q] \in Held /\ x # "online"
      BY <2>2 DEF Rejects, Holdings, Held
    <3> QED BY <1>2, <3>1
  <2>3. CASE Writes(g, q)
    <3> DEFINE x == "online"
               kind == "message"
    <3>1. /\ Becomes(g, q, x, << kind >>) /\ remote[g].holds[q] = "online"
          /\ x \in Holdings /\ remote[g].holds[q] \in Held
      BY <2>3 DEF Writes, Holdings, Held
    <3> QED BY <1>2, <3>1
  <2>4. CASE remote[g].holds[q] = "rejected" /\ Becomes(g, q, "refused", <<"accepted">>)
    <3> DEFINE x == "refused"
               kind == "accepted"
    <3>1. /\ Becomes(g, q, x, << kind >>)
          /\ x \in Holdings /\ remote[g].holds[q] \in Held /\ x # "online"
      BY <2>4 DEF Holdings, Held
    <3> QED BY <1>2, <2>4, <3>1
  <2>5. ASSUME NEW x \in Status, remote[g].holds[q] \in Held,
               Becomes(g, q, x, << x >>) \/ Becomes(g, q, x, << "accepted", x >>)
        PROVE  \E y \in Status, kinds \in Seq(Kinds) :
                 kinds \in {<< y >>, << "accepted", y >>} /\ Becomes(g, q, y, kinds)
    <3>1. x \in Kinds
      BY <1>2 DEF Status
    <3>2. << x >> \in Seq(Kinds) /\ << "accepted", x >> \in Seq(Kinds)
      BY <1>2, <3>1
    <3>3. << x >> \in {<< x >>, << "accepted", x >>} /\ << "accepted", x >> \in {<< x >>, << "accepted", x >>}
      OBVIOUS
    <3> QED BY <2>5, <3>2, <3>3
  <2>6. CASE ComesOnline(g, q)
    <3>1. remote[g].holds[q] \in Held /\ "online" \in Status /\ Becomes(g, q, "online", << "online" >>)
      BY <2>6 DEF ComesOnline, Held, Status
    <3> QED BY <2>5, <3>1
  <2>7. CASE GoesOffline(g, q)
    <3>1. remote[g].holds[q] \in Held /\ "offline" \in Status /\ Becomes(g, q, "offline", << "offline" >>)
      BY <2>7 DEF GoesOffline, Held, Status
    <3> QED BY <2>5, <3>1
  <2>8. CASE /\ remote[g].holds[q] = "pending"
             /\ \/ Becomes(g, q, "online", <<"accepted", "online">>)
                \/ Becomes(g, q, "offline", <<"accepted", "offline">>)
    <3>1. remote[g].holds[q] \in Held /\ "online" \in Status /\ "offline" \in Status
      BY <2>8 DEF Held, Status
    <3> QED BY <2>5, <2>8, <3>1
  <2> QED BY <1>1, <2>1, <2>2, <2>3, <2>4, <2>6, <2>7, <2>8 DEF Accepts
<1>4. CASE p = q
  <2>1. ASSUME NEW x \in Status, NEW kinds \in {<< x >>, << "accepted", x >>},
               Becomes(g, q, x, kinds), remote[g].holds[q] \in Held
        PROVE  Good(p)'
    BY <1>4, <2>1, StatusTold
  <2>2. ASSUME NEW x \in Holdings, NEW kind \in Kinds \ Status,
               Becomes(g, q, x, << kind >>),
               x = "online" <=> remote[g].holds[q] = "online",
               x \in Held \/ kind # "request" => remote[g].holds[q] \in Held,
               kind = "message" => x = "online"
        PROVE  Good(p)'
    BY <1>4, <2>2, WordGood
  <2> QED BY <1>3, <2>1, <2>2
<1>5. CASE p # q
  <2>1. ASSUME NEW x \in Holdings, NEW kinds \in Seq(Kinds), Becomes(g, q, x, kinds)
        PROVE  Good(p)'
    BY <1>5, <2>1, OtherGood
  <2>2. \E x \in Holdings, kinds \in Seq(Kinds) : Becomes(g, q, x, kinds)
    <3>1. Status \subseteq Holdings
      BY DEF Status, Holdings
    <3>2. \A kind \in Kinds \ Status : << kind >> \in Seq(Kinds)
      OBVIOUS
    <3> QED BY <1>3, <3>1, <3>2
  <2> QED BY <2>1, <2>2
<1> QED BY <1>4, <1>5

-----------------------------------------------------------------------------
\* The whole.

LEMMA InitGood == Init => Announced
<1> SUFFICES ASSUME Init, NEW p \in Peers PROVE Good(p)
  BY DEF Announced
<1>1. SavedOK
  BY InitType, TypeParts DEF ListsOK
<1>2. PICK order \in SetToSeqs(OfType(DOMAIN ShownAs)) : contacts = Entries(order)
  BY DEF Init
<1>3. \A k \in DOMAIN contacts : contacts[k].user = None
  BY <1>1, <1>2, EntriesType
<1>4. IF p \in OfType(DOMAIN ShownAs) THEN FirstOf(contacts, p) # {} ELSE Unlisted(contacts, p)
  BY <1>1, <1>2, EntriesFirst
<1>5. remote = << Loaded >> /\ DOMAIN remote = {1} /\ remote[1] = Loaded
  BY DEF Init
<1>6. saved[p].type \in {"none", "allowed", "pending"} /\ Loaded.holds[p] = HeldAs[saved[p].type]
  BY <1>1, LoadedType DEF Init
<1>7. Loaded.holds[p] # "online" /\ (Loaded.holds[p] \in Held => p \in OfType(DOMAIN ShownAs))
  BY <1>6 DEF HeldAs, Held, OfType, ShownAs
<1>8. ~On(remote, p) /\ (Holder(remote, p) => p \in OfType(DOMAIN ShownAs))
  BY <1>5, <1>7 DEF On, Holder
<1>9. events = << >> /\ DOMAIN events = {}
  BY DEF Init
<1>10. Listing(p)
  BY <1>4, <1>8, <1>9 DEF Listing, News
<1>11. Heard(p)
  BY <1>8, <1>9 DEF Heard, Preceded
<1>12. Told(p)
  <2>1. \A k \in FirstOf(contacts, p) : contacts[k].user = None
    BY <1>3 DEF FirstOf
  <2>2. Shows(contacts, flags, remote, p)
    BY <1>8, <2>1 DEF Shows, Must
  <2> QED BY <1>9, <2>2 DEF Told, Tells
<1> QED BY <1>10, <1>11, <1>12 DEF Good

LEMMA HistoryStays == [Next]_vars => deleted \subseteq deleted'
BY DEF Next, vars, history, Connections, Connect, Pass, User, Join, Leave, Disconnect, Nick,
       LinesEnd, Commands, CmdAdd, CmdAccept, CmdReject, CmdDelete, CmdRename, Ends,
       Tasks, TakeRequest, TakeResponse, TakeMessage, TakeStatus, ControlConnected,
       Libtego, Asks, Accepts, Rejects, ComesOnline, GoesOffline, Writes, Becomes

LEMMA AnnouncedStep ==
  ASSUME TypeOK, UsersStand, Announced, [Next]_vars
  PROVE  Announced'
<1> SUFFICES ASSUME NEW p \in Peers, p \notin deleted' PROVE Good(p)'
  BY DEF Announced
<1>1. Good(p)
  BY HistoryStays DEF Announced
<1>2. CASE UNCHANGED vars
  <2>1. UNCHANGED <<flags, contacts, remote, events, crossed, clash>>
    BY <1>2 DEF vars, server, channel, people, libtego, history
  <2>2. FlagsStay(p)
    BY <2>1 DEF FlagsStay
  <2> QED BY <1>1, <2>1, <2>2, QuietGood
<1> QED BY <1>1, <1>2, ConnectionsGood, CommandsGood, TasksGood, LibtegoGood DEF Next

\* An event that is taken finds its contact, and a message the contact's IrcUser.
LEMMA FoundStep ==
  ASSUME TypeOK, Announced, EventsFindTheirContact, [Next]_vars
  PROVE  EventsFindTheirContact'
<1>1. CASE crashed' = crashed \/ crashed' \notin {"message", "gone"}
  <2>1. clash => clash'
    BY DEF Next, vars, Connections, Connect, Pass, User, Join, Leave, Disconnect, Nick,
       LinesEnd, Commands, CmdAdd, CmdAccept, CmdReject, CmdDelete, CmdRename, Ends,
       Tasks, TakeRequest, TakeResponse, TakeMessage, TakeStatus, ControlConnected,
       ShowOnMember, ShowOnNewUser,
       Libtego, Asks, Accepts, Rejects, ComesOnline, GoesOffline, Writes, Becomes
  <2> QED BY <1>1, <2>1, HistoryStays DEF EventsFindTheirContact
<1>2. CASE crashed' # crashed /\ crashed' \in {"message", "gone"}
  <2>1. TakeResponse \/ TakeMessage
    BY <1>2 DEF Next, vars, Connections, Connect, Pass, User, Join, Leave, Disconnect, Nick,
       LinesEnd, Commands, CmdAdd, CmdAccept, CmdReject, CmdDelete, CmdRename, Ends,
       Tasks, TakeRequest, TakeStatus, ControlConnected,
       Libtego, Asks, Accepts, Rejects, ComesOnline, GoesOffline, Writes, Becomes
  <2>2. SUFFICES ASSUME ~clash, deleted = {} PROVE FALSE
    BY <2>1 DEF TakeResponse, TakeMessage, EventsFindTheirContact, history
  <2> DEFINE p == Head(events).peer
  <2>3. events # << >> /\ events \in Seq(Event) /\ Head(events).kind \in {"accepted", "rejected", "message"}
    BY <2>1 DEF TakeResponse, TakeMessage, Take, TypeOK
  <2>4. p \in Peers
    <3>1. Head(events) \in Event
      BY <2>3, HeadTailProperties
    <3> QED BY <3>1 DEF Event
  <2>5. Good(p)
    BY <2>2, <2>4 DEF Announced
  <2>6. Of(p) # {}
    BY <2>3, <2>5, SenderListed, OfIsFirst
  <2>7. CASE TakeResponse
    BY <1>2, <2>6, <2>7 DEF TakeResponse, Sender
  <2>8. CASE TakeMessage
    <3>1. \A k \in FirstOf(contacts, p) : contacts[k].user = None
      BY <1>2, <2>6, <2>8, OfIsFirst DEF TakeMessage, Sender
    <3>2. ~Mapped(contacts, p)
      BY <2>6, <3>1, OfIsFirst DEF Mapped
    <3>3. 1 \in DOMAIN events /\ Head(events) = events[1]
      BY <2>3, TailEvents
    <3>4. events[1].kind = "message"
      BY <2>8, <3>3 DEF TakeMessage, Take
    <3>5. Preceded(events, contacts, p)
      BY <2>2, <2>5 DEF Good, Heard
    <3>6. \E m \in 1..(1 - 1) : events[m].peer = p /\ events[m].kind \in Status
      BY <3>2, <3>3, <3>4, <3>5 DEF Preceded
    <3> QED BY <3>6
  <2> QED BY <2>1, <2>7, <2>8
<1> QED BY <1>1, <1>2

LEMMA AnnouncedShows == TypeOK /\ Announced => ShownIsTrue
<1> SUFFICES ASSUME TypeOK, Announced, events = << >>, ~clash,
                    NEW p \in Peers \ (deleted \cup crossed), NEW k \in Of(p)
             PROVE  LET shown == contacts[k].user # None /\ flags[contacts[k].user] = "+v" IN
                    /\ shown => \E g \in DOMAIN remote : remote[g].holds[p] = "online"
                    /\ Len(remote) = 1 /\ Holds(p) = "online" => shown
  BY DEF ShownIsTrue
<1>1. Told(p) /\ k \in FirstOf(contacts, p)
  BY OfIsFirst DEF Announced, Good
<1>2. Silent(events, p)
  BY DEF Silent
<1>3. Shows(contacts, flags, remote, p)
  BY <1>1, <1>2 DEF Told
<1>4. Holds(p) = "online" => On(remote, p)
  <2>1. Current \in DOMAIN remote
    BY TypeParts, CurrentIdentity DEF ListsOK
  <2> QED BY <2>1 DEF Holds, On
<1> QED BY <1>1, <1>3, <1>4 DEF Shows, Must, On

-----------------------------------------------------------------------------
\* The theorems.

IInv == TypeOK /\ OneLogin /\ UsersStand /\ Announced /\ EventsFindTheirContact

LEMMA InvInit == Init => IInv
<1> SUFFICES ASSUME Init PROVE IInv
  OBVIOUS
<1>1. TypeOK
  BY InitType
<1>2. conns = {} /\ DOMAIN flags = {}
  BY DEF Init
<1>3. OneLogin
  BY <1>2 DEF OneLogin
<1>4. \A k \in DOMAIN contacts : contacts[k].user = None
  <2>1. SavedOK
    BY <1>1, TypeParts DEF ListsOK
  <2> QED BY <2>1, EntriesType DEF Init
<1>5. UsersStand
  BY <1>2, <1>4 DEF UsersStand
<1>6. EventsFindTheirContact
  BY DEF Init, EventsFindTheirContact
<1> QED BY <1>1, <1>3, <1>5, <1>6, InitGood DEF IInv

LEMMA InvStep == IInv /\ [Next]_vars => IInv'
BY TypeStep, OneLoginStep, UsersStandStep, AnnouncedStep, FoundStep DEF IInv

LEMMA Invariance == Spec => []IInv
BY InvInit, InvStep, PTL DEF Spec

\* TypeOK: the frontend's lists stay within their bounds, and its maps name
\* connections, IrcUsers and contacts only.
THEOREM TypeCorrect == Spec => []TypeOK
BY Invariance, PTL DEF IInv

\* OneClient: whatever the connections tell and in whatever order they come, at
\* most one that the server has is logged in (ircUserLoggedIn closes the others).
THEOREM OneIsLoggedIn == Spec => []OneClient
<1>1. IInv => OneClient
  BY OneLoginCounts DEF IInv
<1> QED BY <1>1, Invariance, PTL

\* UsersStand: no order of renaming, deleting, loading, logging in and late events
\* leaves the channel with a member who is gone, but for a connection that joined
\* again after it was closed, or a contact with an IrcUser that is gone, bears
\* another name or is another contact's.
THEOREM IrcUsersStand == Spec => []UsersStand
BY Invariance, PTL DEF IInv

\* ShownIsTrue: when no event is on its way, who is shown as present is online for
\* one of libtego's identities, and as long as there is one who is online is shown,
\* whatever events were late and whoever was renamed; but for names that were
\* taken, identities that were deleted and those that were added while they asked.
THEOREM WhatIsShownIsTrue == Spec => []ShownIsTrue
<1>1. IInv => ShownIsTrue
  BY AnnouncedShows DEF IInv
<1> QED BY <1>1, Invariance, PTL

\* EventsFindTheirContact: unless a name was taken or a contact deleted, every
\* event finds its contact, and a message the IrcUser on whose behalf it is sent.
THEOREM EveryEventIsAtHome == Spec => []EventsFindTheirContact
BY Invariance, PTL DEF IInv

\* NetworkFollows: the step that ends the last connection disables the network,
\* and the one that logs in a connection that is alone enables it.
THEOREM TheNetworkFollows == Spec => NetworkFollows
<1>1. IInv /\ [Next]_vars => [Follows]_vars
  BY FollowsStep DEF IInv
<1>2. Spec => [][Follows]_vars
  BY <1>1, Invariance, PTL DEF Spec
<1> QED BY <1>2 DEF NetworkFollows, Follows

=============================================================================
