# Ricochet Refresh in TLA+

This directory holds TLA+ specifications of the protocol core of Ricochet Refresh
(`src/libtego`) and of the IRC gateway built on it (`src/irc`): what happens on a connection
between two peers, how two contacts come to share one connection, how chat messages and
files get across connections that break, how the program keeps its tor daemon under control, how
events reach a front end, and what the IRC front end makes of them.  TLC checks them on small
instances, TLAPS proves theorems about all of them for every size.  Paths below are relative to
`src/libtego/source/` unless they begin otherwise.

Nearly everything here runs on Qt event loops: one handler at a time in a process, signals that are
either direct calls or *posted* (queued) ones; only libtego's callbacks have a thread of their own.
The difficulties come from three sides: the two peers act without each other's knowledge, posted
calls and events run after the state they were posted for has changed, and circuits through Tor,
tor's control connection and tor itself end at any moment with whatever was in flight.

## 1. Inventory

| part | state | operations | what makes it correct |
|---|---|---|---|
| `protocol/Connection`, `Channel`, `ControlChannel` | socket, handshake, purpose, grants, table of channels, next identifier | version handshake, packets by channel, open / result / close of channels, 15 s timer without purpose, close with a 5 s limit | the two ends' tables fit, whatever crosses on the wire; nothing waits for ever; nothing a correct peer sends is an error |
| `protocol/AuthHiddenServiceChannel` | one proof per connection | open, proof, result | the result tells the truth about the purpose |
| `protocol/ContactRequestChannel` | response status | open with a request, `Pending`, final answer and close | an acceptance is not lost in the close behind it |
| `protocol/OutboundConnector`, `tor/TorSocket` | status, attempt, error count; reconnect timer | connect, authenticate, retry, abort | a retry leads somewhere, one attempt at a time |
| `core/ContactUser`, `core/UserIdentity` | contact's connection, status, outgoing socket, request | `assignConnection`, `onConnected`, `onDisconnected`, `updateStatus`, `updateOutgoingSocket`, deletion | both peers keep the same connection; status, dialling and connection belong together |
| `core/ContactsManager`, `IncomingRequestManager`, `OutgoingContactRequest` | contacts, requests, rejected hosts | add, delete, accept, reject, block, automatic accept | requests and answers meet; nobody is trusted who is not listed |
| `core/ConversationModel`, `protocol/ChatChannel` | rows with status and attempts; pending identifiers | send, queue, resend, receive, acknowledge, prune | order, no loss without notice, few duplicates |
| `protocol/FileChannel` | transfers by identifier, offset | header, response, chunks and acks, cancel, completion | both sides agree on how a transfer ended |
| `tor/TorControl`, `TorControlSocket`, `TorProcess`, `TorManager` | process and control states, command queue, reconnect timer | start, port file, connect, authenticate, ask, configure, publish, events, retry | commands and replies stay paired; nothing of a former connection is believed; every loss is retried |
| `signals` (callback queue), `src/irc/libtego_callbacks` (task queue) | two double buffers, worker thread, two locks | push, swap and run, termination | events are handled once, in order, and the program can end |
| `src/irc` (`IrcServer`, `RicochetIrcServer`, shims) | IRC clients, channel, contacts with their IRC users, requests | connect, log in, join, leave; add, accept, reject, delete, rename; contact status, answers, messages | one user; the channel shows the contacts that are there; an event finds its contact |
| desktop, settings files, cryptography, build | – | – | not of concern here |

How they interact: an incoming socket goes to `UserIdentity`, a dialled one starts in a
`ContactUser`'s `OutboundConnector`; both become a `Connection`.  Authentication ends in
`ContactUser::assignConnection` on both ends – at the acceptor *before* the result is written, at
the dialler when it is read – which decides between connections and posts `onConnected`.  That
updates the status, sends a pending contact request, and emits `connected`, at which the
`ConversationModel` connects to the connection's channels, opens a chat and a file channel and
sends its queue.  The end of a socket closes its channels at once (`outboundChannelClosed` puts
messages back in the queue), while `onDisconnected` is posted.  What a front end learns of all this
comes as callbacks through `callback_queue`, run by its worker, which push tasks for the
front end's own timer.  Every socket that dials waits for `TorControl` to report connectivity.

The hazards – each at the line where it bites, with the properties that would catch it – are in
`PROJECT.json`.  Those that no property covers say why.

## 2. Modules

| module | what it models |
|---|---|
| `Connection` | one connection between two peers in full: handshake, channels and identifiers, authentication, contact request, chat and file channels as far as opening, use and closing go |
| `MCConnection` | its instances for TLC: how the contact lists may regard each other |
| `ConnectionProofs` | theorems about `Connection`: types, trust, identifiers |
| `ConnectionFlowProofs` | theorems about `Connection`: how the tables of the two ends and the packets between them fit |
| `ContactLink` | two `ContactUser`s with their outgoing sockets, requests and timers, over several connections at a time |
| `ContactLinkProofs` | theorems about `ContactLink` |
| `MCContactLink` | its instances: pairs of contact lists, and the symmetry of connections |
| `Delivery` | what a conversation promises its users: an abstract specification with two variables |
| `ChatDelivery` | `ConversationModel` and `ChatChannel` over connections that break; implements `Delivery` |
| `ChatDeliveryProofs` | theorems about `ChatDelivery` |
| `TorControl` | tor's process, its control connection, the commands on it, and a `TorSocket` that depends on it, with what the IRC front end adds |
| `TorControlProofs` | theorems about `TorControl` |
| `CallbackStream` | what a front end is promised of events: an abstract specification with two variables |
| `CallbackQueue` | the callback queue and the front end's task queue with their two threads and locks; implements `CallbackStream` |
| `CallbackQueueProofs` | theorems about `CallbackQueue` |
| `IrcGateway` | the IRC server's clients and control channel, the contacts as IRC users, commands and late events |
| `IrcGatewayProofs` | theorems about `IrcGateway` |
| `MCIrcGateway` | its instances: the scenes, and the symmetry of its clients, users, peers and names |
| `FileTransfer` | `FileChannel` at both ends, and the sender's file rows in its `ConversationModel`, over a connection that breaks |
| `FileTransferProofs` | theorems about `FileTransfer` |

Operators that no other definition uses and that stand before a commented one of the same
parameters (`RequeuedAlways` before `Requeued`, and so on) are that definition with a plausible bug.
`PROJECT.json` lists, for every property, one of them that TLC finds the property violated by.

### Connection

`sock`, `handshake`, `purpose`, `auth`, `chan`, `nextId` are the members of `ConnectionPrivate` at the
two ends, the client (who dialled) and the server; `wire[s]` are the packets on their way to
`s`, in order; `queued[s]` the posted calls (`onConnected`, the close after an answered request);
`contact[s]` how the contact list regards the other.  One action is one packet handled
(`ReceiveOpen`, `ReceiveResult`, `ReceiveProof`, …), one posted call, one timer or one user command.
A packet is its kind, its channel and what the handler tells apart in its body.

* The search for a free identifier (`SearchEnds`) is a choice among all it may end with; the step
  of up to 200 and the 100 tries of the code are not counted, so the client's search may also end on an
  identifier of the server's parity, which is then refused.
* `Init` has the client's introduction on the wire, of the right version or not.
* A socket that is closing still hands what was read to the channels, as `socketReadable` does.

### ContactLink

Each user has at most one `ContactUser` for the other: `contact[u]` is its `m_contactRequest`,
`m_status` and `m_outgoingSocket`, `conn[u]` its `m_connection`, `calls[u]` what is posted to it,
`asked[u]` its incoming request.  Users are `a` and `b`, of which `a` has the lesser hostname (the
tie break of `assignConnection`); a connection has one packet in flight, because the exchange
from `intro` to `known` and the contact request are strictly alternating – `Connection` shows in
detail that nothing else happens before.  `Assignment` is `assignConnection` with all that it calls,
in its order: implicit acceptance, the comparison, the age of 30 s, the outgoing attempt, the
purpose.  `HandleProof` writes its result after the assignment, from the purpose it finds.

Two features of the code decide what may be modelled:

* Qt makes posted calls before it looks at sockets again.  A packet can overtake a posted call only
  when it was read together with the packet that posted it.  `MaxMeets` bounds how often; without a
  bound two peers could replace each other's connection for ever.
* A `Connection` that nobody refers to is destroyed, which aborts its socket.  What was
  written last may be lost then, so `FinishClose` may lose the packet in flight.

### ChatDelivery

`messages[p]` are the rows of the `ConversationModel`, newest first, with status and
`attemptCount`; `out`, `pending` are the outbound `ChatChannel` and its `pendingMessages`; `heard` says
that the model has connected its slots to the connection's channels; `link`, `wire`, `calls` are the
connection as far as it matters here.  `batch` counts the packets that had come in with the one
that posted a call: only those are read before it.  `Connect` stands for everything in
`ContactLink` up to an assignment; it may replace a connection whose end one side has not
noticed.  `FileChannelClosed` is there because the slot for the end of an outbound channel does not
ask which: a failed file transfer puts chat messages back in the queue.

`sendQueuedMessages` does not look at the result of `findOrCreateChannelForContact`.  When it was
posted and the connection is lost in the same turn, with a message in the queue, it calls through a null
pointer; `crashed[p]` is that end of the process, after which `p` takes no step.  `Settles` is about
behaviours without it.

`Delivery` says: messages are shown in the order they were sent, none is passed over unless reported
as failed, each at most twice, and reported delivered only after it was shown.  The refinement maps
`fate` to the status of the rows and `shown` to a history variable.

### FileTransfer

One direction: the sender's outbound `FileChannel` and the receiver's inbound one, which is all that
files from one user to the other depend on.  `row`, `attempts` are the file's row in the sender's
`ConversationModel`; `outgoing[f]` is the record in `outgoingTransfers`, as the number of chunks sent;
`asked` and `incoming` are the receiver's `incomingTransfers` before and after the user's acceptance,
the latter with the number of chunks written.  Packets are kept whole per direction.  What is told to the
users through `fileTransferFinished` is history: `told` to the sender since the last offer, `saw`
to the receiver.  `link`, `channel`, `calls`, `crashed` are as in `ChatDelivery`.  `Connect` may replace a connection
whose end one of the two has not noticed.  `assignConnection` then closes it in `clearConnection`, at once or, when bytes are
unsent, as it is destroyed: the `ContactUser` held the only reference, and the deferred deletion was posted before
`onConnected`.  Either way its transfers end, and its rows are back in the queue (`SenderLoses`), before a file is
offered on the new connection.  In the second case the slot takes the new connection for the one that lost a
channel and posts one more `sendQueuedMessages`.

* Identifiers, sizes and names are reduced to the file; `BadNames` are the files that
  `handleFileHeader` refuses, whose acknowledgement has no identifier (`unnamed`).
* Disk errors are choices: the file missing when it is offered, a failed write, a wrong hash or failed
  rename of the complete file.  A file does not change its size while it is sent.
* Users answer an offer once, as the front ends let them; `acceptFile` itself does not insist on it.

### TorControl

`proc`, `timer`, `ticks` are `TorProcess`; `sock`, `queue` are `TorControlSocket`, `status`, `torStatus`,
`socks`, `retry` are `TorControl`; `dial`, `redial` a `TorSocket` whose host never answers.  `daemon`,
`port`, `net`, `circuit`, `session`, `applied` are tor itself, external code that is modelled as the program
uses it: it answers commands in order, refuses everything before `AUTHENTICATE` and closes the
connection, and forgets a service with the connection that added it.  A command is its kind:
`info` and `socks` are the two `GETINFO`s, `user`, `default`, `net` and `owner` the configurations.  `SendCommands` is
`sendCommand`, `SetErrorConnected` and `SetErrorConnecting` the two courses of `setError`, `Connectable` all that
follows from a new address or status, `TakeAuthenticate`, `TakeInfo`, `TakeSetConf` the slots for
replies.  What of Qt matters:

* `connectToHost` opens the device at once, so a command sent while connecting is buffered; to a closed
  socket the write fails and only the queue grows.  `stray` remembers that.
* Aborting a connected socket emits `disconnected`, which clears the queue and sets the status to
  `NotConnected`; a refused connection emits none, so queue and `Error` stay.  `connect` aborts with
  signals blocked.
* `reconnect` is a single shot of 15 s; several of them pending act like one.

`TickLimit` stands for the 20 reads of the port file.  `Login` is the configuration that
`startRicochet` and `stopRicochet` send; `confirm` and `settings` follow its answer through
`shims/TorControl`.  `setConfSucceeded` reports *any* command's success to the front end
(`tor/SetConfCommand.cpp:109`), so an answer to another one may confirm the login's; it is modelled so.

### CallbackQueue

An event is its number.  `pending` and `local` are the shared and the worker's buffer, `tasks` and `batch`
the front end's; `mutex` and `taskLock` are who holds the locks.  Each lock is taken in a step of its own and
released in another, so the threads interleave as they do.  `Terminate` is the
destructor: callbacks pending then are never run, the batch under way is finished.
`mutex_` of the context is taken only by the worker and therefore left out.  `CallbackStream`
promises that events are handled one by one in the order they were emitted.

### IrcGateway

`conns` is `IrcServer::clients`, `given` what each connection has told so far, `nick` the names of connections
and of the `IrcUser`s in `virtual_clients`, `flags` the members of `#ricochet`; `contacts` is the shim's list with
`usermap`, `requests` its requests, `saved` the settings under `users`.  `remote` is what libtego's identities
hold of each peer, and `events` the tasks in the queue, so a command can come between an event and its
task.  Clients may do with their connection what they like; a line is one action.  `Tell` is `checkLogin`
with all that `ircUserLoggedIn` does, `ShowOnMember` and `ShowOnNewUser` are `onContactStatusChanged`.

* `readyRead` handles all lines that were read together, also those behind one that closed the socket.
  `Disconnect` may therefore leave the connection `reading`: the server has removed it, and until `LinesEnd` nothing
  but its lines is handled.  It may log in, give commands, and join `#ricochet` again, where it then stays
  (`late`).
* `ControlConnected` is the handler of `main.cpp` when a control connection is made again: it appends the whole
  list from the settings to the one there is, enables the network, and starts the service, which makes a new identity.
  The identities before it are never destroyed; whatever is connected to them goes on and still tells its events,
  so `remote` is a sequence, of which commands use the last.  What the settings are then depends on all the code that
  writes them (`Written`, `Listed`, `Renamed`, …).  In a build with assertions the second start is stopped by one
  (`tor/TorControl.cpp:412`).
* An exception in a task is caught by `consume_tasks` and leaves what was done before it; one in a command, which comes from a
  socket, ends the program.

The process can end in five ways, and `crashed` says which: a command deletes a contact without an
`IrcUser` (`unmapped`), or one that libtego's identity does not hold as a contact (`forgotten`: it throws); a request is answered
that the identity does not have, because it was answered already, accepted by an `add`, or replaced (`unanswered`: it
throws); an answer or a message is about a contact that was deleted meanwhile (`gone`); a message
comes from a contact whose name was taken, who has no `IrcUser` (`message`).  No step follows.

`clash`, `deleted` and `crossed` are history: the code cannot keep `ShownIsTrue` and `EventsFindTheirContact` where a
contact's status was shown on somebody else of the same name, or where an identity was deleted; nor `ShownIsTrue` for one that
was added while it asked itself, who is accepted before its contact knows of a request and stays pending in libtego
after it was told as online.  After a second identity was started, the two may tell different things of a contact, and the
channel shows what was told last: `ShownIsTrue` then only says that whoever is shown is online for one of them.  Nothing else
is excepted.  Left out: other channels, topics, texts, private messages,
the control user's own name, and `torRunningChanged`, which is reported once, before a
contact is loaded.

## 3. Runs

| run | module | shows |
|---|---|---|
| `ConnectionRequest` | `MCConnection` | all pairs of regards, 3 identifiers, chat only: `TrustIsMutual`, and what must happen in the end: `OpensResolve`, `StrangersLeave`, `AcceptanceArrives` |
| `ConnectionChannels` | `MCConnection` | two contacts, 5 identifiers, chat and file channels opened and closed from both sides: `EndsAgree`, `OneOpener`, `NoOrphanChannel`, `NeverRefused`, `NoProtocolError` |
| `LinkRaces` | `MCContactLink` | two users who want each other, up to three connections, nothing lost: `Converges` |
| `LinkStates` | `MCContactLink` | any pair of lists, two connections, one fault, one overtaking, one change of mind: `OneTrusted`, `StatusIsTrue`, `KnownAtBoth` |
| `ChatDelivery` | `ChatDelivery` | two messages from one user and one from the other, one failure, one closed file channel: `SendingIsPending`, the refinement `KeepsPromise`, and `Settles` |
| `FileTransfer` | `FileTransfer` | two files of two chunks, one refused, two failures, two cancellations, one disk error: `RecordsMeet`, `InStep`, `SuccessIsShared`, `SenderIsTold` |
| `TorControl` | `TorControl` | one end of tor, of its circuits or of the connection to it, one login: `RepliesMatch`, `RetryPending`, `ConnectivityIsTrue`, and in the end `Recovers`, `DialsAgain` |
| `CallbackQueue` | `CallbackQueue` | six events, the end of the program at any moment: `NoneLost`, the refinement `InOrder`, and `Handled` |
| `IrcGateway` | `MCIrcGateway` | three clients, two contacts, two names; six scenes of commands, libtego's events and reloads of the list: `OneClient`, `UsersStand`, `ShownIsTrue`, `EventsFindTheirContact`, `NetworkFollows` |

One run of each module also checks its type invariant `TypeOK`.  Three more runs end in a violation; each contradicts a text of the repository:

| run | what the code does |
|---|---|
| `LinkRequestLost` | one user asks the other, and the connection breaks with the request on its way or unanswered: it is not retried, because `updateStatus` returns early when the status did not change |
| `TorSaved` | a configuration is saved that tor never set: it was queued for a closed socket, and another command's reply was taken for its own |
| `IrcDelete` | deleting a contact that was not online since the start broadcasts the departure of a null `IrcUser` |

The models show more disagreements, which they contain as the code has them and for which no run is
kept:

* the retry after an error connects to an empty hostname: `retryAfterError` passes its own members by
  reference and `abort` clears them (`protocol/OutboundConnector.cpp:237`; `aimed` in `ContactLink`);
* the automatic acceptance of a request runs in a constructor, before the contact knows of its
  request (`core/OutgoingContactRequest.cpp:63`);
* a message can be shown twice although `doc/protocol.md` asks for duplicates to be dropped (`Delivery`
  promises at most twice);
* a refused file header is acknowledged without its identifier (`protocol/FileChannel.cpp:350`), which ends
  every transfer on the channel, and the receiver is not told of those he had accepted;
* when the control connection comes back, `main.cpp` starts the service a second time, against the assertion in
  `setHiddenService` that there is none (`tor/TorControl.cpp:412`); `TorControl` is about builds without
  Qt's assertions, where the new service replaces the old one;
* at the same moment it appends the contact list to itself and replaces libtego's identity, without events: every contact is
  listed twice, and one who is online for the identity before it stays shown as present, while the one that commands and
  messages use has him offline (`src/irc/main.cpp:173`, `context.cpp:246`);
* of two entries of one identity, one can be deleted and the other renamed: that leaves a setting with a name and no type, with which
  the service does not start at the next control connection (`src/irc/main.cpp:165`, `context.cpp:240`);
* lines that were read with the one that closed a connection are handled for the removed connection, which may join
  `#ricochet` again and stay there (`src/irc/IrcConnection.cpp:103`);
* a request that a command `add` has accepted stays in the front end's list, and accepting it there throws out of the event
  loop (`context.cpp:427`);
* an IRC login writes an empty configuration over the user's (`src/irc/RicochetIrcServer.cpp:153`; `Configured`
  in `TorControl`);
* `README.md:82` says the program is on the network while an IRC client is attached; `beginBootstrap` enables it
  at the start with nobody attached (`src/irc/main.cpp:85`), and a client that logs in while another
  connection is open does not start it (`src/irc/RicochetIrcServer.cpp:250`), which is why `NetworkFollows`
  speaks of one that is alone;
* a message that arrives while no IRC client is attached is acknowledged and shown to nobody
  (`src/irc/RicochetIrcServer.cpp:688`);
* a refused nickname counts as given (`Nick` in `IrcGateway`).

**Bounds.** Three identifiers are the fewest with which both sides have one of their own and the client a
second; five let a side hold all of its channels and still reopen one.  `MaxWire` limits only when
users and posted calls *start* something; what follows is not cut off.  Three connections are what the
races need: one held, one of each side's on the way.  One failure and
one closed channel can hit each stage, and together reach the third attempt that must not be made.
In `ChatDelivery` one user sends two messages, the fewest that have an order; the other's one is the
answer that may come between.  `HistoryLimit` is above everything the runs send
(`HistoryAssumption`), so `prune` removes nothing in them.  Of the two files in `FileTransfer` one is
refused while the other is under way, and two failures replace a connection that is itself a replacement; two chunks have a
middle and an end.  The connections of `ContactLink`
and everything in `IrcGateway` are symmetric (`Alike`) in the runs without liveness.  `LinkStates` has two
connections, one to hold and one to replace it; the third matters only to the order in which three
meet, which `LinkRaces` has.  In `TorControl` one fault and one login reach every state of the control
connection, because each can come at any moment of start-up, and a retry brings all of start-up again.  Six events fill
all four buffers of `CallbackQueue` and leave some to be emitted.  Two
peers and names are the fewest that can take each other's place; two commands make and delete a contact, or delete one and make
it again.  `IrcGateway` is checked in `Scenes`, each with a budget of connections, commands, events and reloads, because
freedom in all four at once is out of reach: three clients that log in among each other, with one closed and late; two commands among two
events; a command, a reload and two events; a command and an event with two clients; three events about a reload; two commands
about two reloads.

**Deadlock** is checked in `CallbackQueue`, whose threads wait for each other: the only end is that of
both.  Elsewhere it is not: connections end, a conversation with nothing to send is at rest, and so are
users who have used up their bounds.

**Fairness** is weak, and only on what a running event loop serves: posted calls, readable sockets, ends of
sockets, timers.  For `Connection` the server's is assumed and the client's only where a property says
so (`StrangersLeave` holds against a client that stalls).  `ContactLink`, `ChatDelivery` and
`FileTransfer` also assume
that a circuit which is dialled comes up in the end, as `TorSocket`'s retries are for.  Users, failures
and overtaking owe nothing.  `TorControl` assumes the event loop's timers and sockets, and of tor that it starts, opens its port,
answers and finds circuits; that it stays up is the premise of `Recovers`, not an assumption.  In
`CallbackQueue` each thread runs on, and the three places where a lock is waited for are strongly fair: the other thread releases
it within a step and then sleeps for 1 ms (the worker) or 10 ms (the main thread), so the lock is
free again and again while it waits.  `Converges` is stated for behaviours without failures: with the retry
aimed at nothing and the lost request (`LinkRequestLost`) it does not hold in general.

## 4. Proofs

`ConnectionProofs` proves, for every odd `MaxId`, every set of channel types in use, every regard of the
contact lists and every bound on the wire,

* `TypeCorrect`: `Spec => []TypeOK`;
* `MutualTrust`: `Spec => []TrustIsMutual`, a client that treats the connection as its contact's is
  treated so by the server;
* `IdsApart`: `Spec => []OneOpener`, an identifier in use at both ends was opened by one of them.

They rest on the named assumptions of `Connection` only.  The invariants are not inductive by themselves: a
client comes to trust on reading a packet, so the packets must be known.  `IInv` types the wire by
direction and by the server's purpose – a `known` or `Accepted` can be on its way to the client only
when the server's purpose is `KnownContact` already – and the tables by parity: a side's
outbound channels have its own parity, and only the client opens authentication and request
channels.  There is one lemma for each action, and lemmas for what all of them do to the wires and tables
(`WriteKeepsWires`, `EntryKeepsTables`); identifiers come from `SearchInIds`, with the random search
a choice.

`ConnectionFlowProofs` goes on from there and proves, under the same assumptions,

* `ChannelsAgree`: `Spec => []EndsAgree`;
* `NoneForgotten`: `Spec => []NoOrphanChannel`;
* `NothingIsRefused`: `Spec => []NeverRefused`;
* `NobodyMisspeaks`: `Spec => []NoProtocolError`.

A table says nothing of the other end's, nor of the packets that will change it, so none of these is inductive, and
`IInv`, which types one packet or entry at a time, does not help.  The invariant is `IInv /\ Deep`.  `Deep` follows an
identifier over both wires: an inbound channel, and every `OpenChannel` under way, is still the opener's or is closed
by a packet behind it, and no `OpenChannel` arrives before the channel in its way is closed (`FlowsOK`); an outbound
channel is the reader's, will be, or its close is on the way back (`MirrorsOK`).  That nothing is refused also needs
the course of the connection: the ends take turns up to the end of the authentication (`Stages`), there is one
contact request, which is unsent, asked, judged or answered (`RequestOK`), and a chat or file channel reaches a
client only behind the packet by which he comes to trust (`TrustComes`).  The steps are not compared with these one
by one.  A handler takes at most one packet, writes some, and changes one entry of one table (`Acts`), in one of five
ways (`Shape`): nothing, opened, dropped, admitted, open.  `ActKeeps` says once that such a step keeps flows and
mirrors; a lemma for each handler (`OpenDeep`, `ResultDeep`, …) says which way it is and what becomes of the stage, the
request and the trust; the end of a socket, which empties a table and a wire, has lemmas of its own (`GoneKeeps`).
That a search which ends on an identifier of the wrong parity opens nothing, and no search one in use, is in `OpenActs`.

`CallbackQueueProofs` proves, for every `MaxCalls`,

* `TypeCorrect`: `Spec => []TypeOK`;
* `NothingLost`: `Spec => []NoneLost`, the events emitted so far are those that have run and those left in the four
  buffers, each once and in order;
* `ImplementsStream`: `Spec => InOrder`, the two queues implement `CallbackStream`.

`NoneLost` alone is not inductive: a swap puts the reader's old buffer behind the events it takes, which is harmless only
because that buffer is empty by then (`Cleared`), and a lock is of use only because its holder is where it will release it
(`Holders`).  Each action moves an event, or a whole buffer, over the border between two of the
buffers; the lemmas on `Rest` (`RestStep`, `MovedBehind`) say that the whole does not change.  The refinement
follows: the task that runs next is the first element behind those that have run (`NextTask`), hence the next number.

`ContactLinkProofs` proves, for any number of connections and every limit of faults, overtakings and changes of the
lists, `TypeCorrect` (`TypeOK`), `OnlyOneIsTrusted` (`OneTrusted`), `TheStatusIsTrue` (`StatusIsTrue`) and
`BothEndsKnow` (`KnownAtBoth`).  Which status is shown is decided in one turn of the event loop and corrected in a later
one, so `StatusIsTrue`, which speaks of a user with no posted call, says nothing of the states in between.  `IInv`
does: a user with a connection who is not online has an `onConnected` coming (`Expected`), the status is one that the
request allows (`Fits`), an attempt has a connection only while it is made (`Dials`).  Trust is settled by `Trusts`,
one connection per user, and `Announced`: what a packet in flight says of the purpose at its writer's end is still
so.  `TypeOK` needs all of this, because the model's statuses would otherwise meet in combinations the code never has.

`ChatDeliveryProofs` proves, for any number of messages, failures and closed channels, `TypeCorrect` (`TypeOK`, hence
also that nothing is attempted a third time) and `NoneLeftBehind` (`SendingIsPending`).  A message is in
`pendingMessages` from its sending to its acknowledgement or the end of its channel; that the end of a channel finds
the rows it must put back depends on the `ConversationModel` listening to it.  `Listens` says when it does: a channel
is asked for only after `onConnected`, and what was read before that call contains nothing for the model.  `Dials` says the
same of the dialler, who writes nothing before he knows that he is connected.

The third theorem there is `PromiseIsKept`, `Spec => KeepsPromise`: the rows, channels and queues implement `Delivery`.  Its
invariant is about what comes to a user, `shown[q]` followed by the messages on his wire, as one sequence (`Flows`).  No
message comes in it before an older one, unless that one has failed and never comes (`Ordered`); a message with no, one or two
attempts occurs in it never, at most once, at most twice (`Stands`); one that is being sent does occur, and so
will, on an open channel, one that is queued again (`Awaited`, `Holds`).  That a connection ends takes the wire
away, which leaves a prefix, and turns what was awaited into what may be repeated.  `OwnRows` numbers a user's rows, newest
first, and says that the history has room for all of them, so `prune` takes none; `Seen` says that what a row, or an acknowledgement, takes
for shown was shown.  The step mapping (`PromisedStep`) then has one lemma for each of the abstract actions: `sendMessage` is
`Submit`, receiving a message is `Show`, receiving an acknowledgement is `Deliver`, a requeueing or a failed write is a
`GiveUp` of the rows without attempts left, all else stutters.


`FileTransferProofs` proves, for any number of files, of chunks per file, failures, cancellations and disk errors, `TypeCorrect`
(`TypeOK`), `SuccessIsTrue` (`SuccessIsShared`), `AcksAreInStep` (`InStep`) and `RecordsAlwaysMeet` (`RecordsMeet`).
The invariant follows the turn of a transfer (`Turn`): at any moment it is with one packet on one of the wires – header,
acceptance, chunk, acknowledgement – or with a user who is asked, and the two offsets differ accordingly.  `OneEach` says
that there is only one such packet, and that a cancellation does not overtake the header it cancels, `Remembered` that what one
end keeps and the other does not is on its way; all three hold while the two ends speak of the same channel (`Talking`).
`SuccessOK` says that the receiver's files outlive channels and connections.

`TorControlProofs` proves, for every limit of attempts, faults and logins, `TypeCorrect` (`TypeOK`),
`RepliesFindTheirCommands` (`RepliesMatch`), `AlwaysRetries` (`RetryPending`) and `ConnectivityIsKnown`
(`ConnectivityIsTrue`).  `TorControl` keeps a status, a socket and an address that different handlers set;
`StatusOK` and `StartOK` say which go together, `WiresOK` that a socket which is not open has nothing to read and, if nothing
is `stray`, that the queue is what was written.  `RepliesMatch` is stated by counting (`Answers`): a message is
the answer to the command whose place in the queue is the number of replies up to it, because the events among them answer nothing.

`IrcGatewayProofs` proves, for any number of clients, users, contacts and names, `TypeCorrect` (`TypeOK`), `OneIsLoggedIn`
(`OneClient`), `IrcUsersStand` (`UsersStand`) and the action property `TheNetworkFollows` (`NetworkFollows`).
`UsersStand` is inductive with the types; `OneClient` counts, so `OneLogin` says instead that two who are
logged in are the same.  `WhatIsShownIsTrue` (`ShownIsTrue`) and `EveryEventIsAtHome` (`EventsFindTheirContact`) rest on
`Announced`, which says of a peer that was never deleted: unless the list has an entry for it, no identity holds it as a
contact and only requests of it are on their way (`Listing`); if no names clashed, whoever is online for some identity
has an IrcUser or a status on its way, and so has each message a status before it (`Heard`); and, if it was
not added while it asked, the last status on its way, or what the channel shows if there is none, is true of one of the
identities, and of the only one while there is one (`Told`).  They hold for every set of budgets, so of all inputs at once, any number of
times.

What the theorems assume is named in the modules and checked by TLC in every run: bounds are naturals (`BoundsAssumption`),
the special values of a connection, client or user are none of the ordinary ones (`ConnsAssumption`, `ObjectsAssumption`),
`Chunks` is not zero and the refused names are names of files (`FilesAssumption`), a list loaded at the
start fits its bound (`PeersAssumption`), and the history is as long as what two users can write (`HistoryAssumption`).

Two orders are written as sets for the sake of proof: `OldestFirst` in `ChatDelivery` and in `FileTransfer` is
the set of those enumerations of the rows waiting that `sendQueuedMessages` may make; there is exactly one.

**Only model-checked:** every safety invariant, action property and refinement that a run checks is also proved.  What
must happen in the end (`OpensResolve`, `StrangersLeave`, `AcceptanceArrives`, `Converges`, `Settles`, `SenderIsTold`,
`Recovers`, `DialsAgain`, `Handled`) is liveness under fairness, beyond the prover, and stays with TLC, as do the three
violations.

## 5. Not modelled

Signatures and Tor's own guarantees are taken as sound.  Settings files, names, texts, lengths and malformed
packets, which a peer that runs this code does not send, are left out.  The desktop front end is QML and Qt start-up over shims that are nearly the IRC
front end's; its translations (`src/ricochet-refresh/translation/*.ts`) are texts without behaviour, so nothing in them can
be modelled.  Unread counts and the log of a conversation change nothing else.  Components and
reasons are in `PROJECT.json`.

## 6. Plan

1. `Connection`, `ConnectionProofs`, `ConnectionFlowProofs` – done.
2. `ContactLink`, `ContactLinkProofs` – done.
3. `Delivery`, `ChatDelivery`, `ChatDeliveryProofs` – done.
4. `FileTransfer`, `FileTransferProofs` – done.
5. `TorControl`, `TorControlProofs` – done.
6. `CallbackQueue`, `CallbackQueueProofs` – done.
7. `IrcGateway`, `IrcGatewayProofs` – done.
