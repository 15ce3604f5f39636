---------------------------- MODULE ChatDelivery ----------------------------
(***************************************************************************)
(* How chat messages get across connections that break: the two users'     *)
(* ConversationModels, and the chat channels of the connection they have,  *)
(* if any.  How they come to have one is the matter of ContactLink, how a  *)
(* channel is opened that of Connection.                                   *)
(*                                                                         *)
(* Definitions without a comment before one that has it are that one with  *)
(* a bug, for the mutation runs.                                           *)
(***************************************************************************)
EXTENDS Naturals, SequencesExt

CONSTANTS
  MaxSent,     \* bound: messages a sends
  MaxReplies,  \* bound: messages b sends
  MaxDrops,    \* bound: ends of a connection that fail
  MaxCloses,   \* bound: file channels that close on their own
  HistoryLimit \* history_limit in the code, 1000

ASSUME BoundsAssumption == {MaxSent, MaxReplies, MaxDrops, MaxCloses, HistoryLimit} \subseteq Nat

\* A user's own messages, and the other's at most twice, stay in the history.
ASSUME HistoryAssumption == MaxReplies <= MaxSent /\ HistoryLimit >= 3 * MaxSent

Peer == {"a", "b"}
Other(p) == IF p = "a" THEN "b" ELSE "a"

\* A row of ConversationModel::messages.  The identifiers of a user's messages
\* are consecutive from a random start; the nth has n here.  That a message has
\* both identifier and text of one from the other user is left out.
Row == [id : 1..MaxSent, status : {"Received", "Queued", "Sending", "Delivered", "Error"},
        attempts : 0..2]

VARIABLES
  messages, \* the rows, the newest first
  sent,     \* how many messages the user has sent
  link,     \* ContactUser::connection, or the socket a "dialling" one will have
  heard,    \* ConversationModel listens to the channels of this connection
  out,      \* the user's outbound ChatChannel
  pending,  \* its pendingMessages
  wire,     \* packets on their way to the user
  calls,    \* the calls posted in the user's process
  batch,    \* how many packets were there to read when the first was posted
  crashed,  \* the process is no more
  shown,    \* history: the messages shown to the user, in order
  drops, closes

bounds == <<drops, closes>>
vars == <<messages, sent, link, heard, out, pending, wire, calls, batch, crashed, shown, bounds>>

Packets == [kind : {"known", "open", "opened"}] \cup [kind : {"message", "ack"}, id : 1..MaxSent]
Calls == {"onConnected", "onDisconnected", "sendQueuedMessages"}

TypeOK ==
  /\ messages \in [Peer -> Seq(Row)]
  /\ sent \in [Peer -> 0..MaxSent]
  /\ link \in [Peer -> {"none", "dialling", "up", "dead"}]
  /\ heard \in [Peer -> BOOLEAN]
  /\ out \in [Peer -> {"none", "opening", "open"}]
  /\ pending \in [Peer -> SUBSET (1..MaxSent)]
  /\ wire \in [Peer -> Seq(Packets)]
  /\ calls \in [Peer -> Seq(Calls)]
  /\ batch \in [Peer -> Nat]
  /\ crashed \in [Peer -> BOOLEAN]
  /\ shown \in [Peer -> Seq(1..MaxSent)]
  /\ drops \in 0..MaxDrops /\ closes \in 0..MaxCloses

Init ==
  /\ messages = [p \in Peer |-> << >>]
  /\ sent = [p \in Peer |-> 0]
  /\ link = [p \in Peer |-> "none"]
  /\ heard = [p \in Peer |-> FALSE]
  /\ out = [p \in Peer |-> "none"]
  /\ pending = [p \in Peer |-> {}]
  /\ wire = [p \in Peer |-> << >>]
  /\ calls = [p \in Peer |-> << >>]
  /\ batch = [p \in Peer |-> 0]
  /\ crashed = [p \in Peer |-> FALSE]
  /\ shown = [p \in Peer |-> << >>]
  /\ drops = 0 /\ closes = 0

-----------------------------------------------------------------------------
\* ConversationModel, as functions of its rows.

\* A new row in place i, and ConversationModel::prune.
Inserted(ms, i, row) ==
  LET all == InsertAt(ms, i, row)
  IN  SubSeq(all, 1, IF Len(all) > HistoryLimit THEN HistoryLimit ELSE Len(all))

Unsettled(row) == row.status \in {"Sending", "Queued"}

Queued(ms) == {n \in DOMAIN ms : ms[n].status = "Queued"}

NewestFirst(S) ==
  {order \in [1..Cardinality(S) -> S] :
     \A m, n \in DOMAIN order : m < n => order[m] < order[n]}

\* The rows of S, the oldest first.
OldestFirst(S) ==
  {order \in [1..Cardinality(S) -> S] :
     \A m, n \in DOMAIN order : m < n => order[m] > order[n]}

Sent(ms) ==
  [n \in DOMAIN ms |->
     IF ms[n].status = "Queued"
     THEN [ms[n] EXCEPT !.status = "Sending", !.attempts = @ + 1] ELSE ms[n]]

RequeuedAlways(ms) ==
  [n \in DOMAIN ms |-> IF ms[n].status = "Sending" THEN [ms[n] EXCEPT !.status = "Queued"] ELSE ms[n]]

KeptSending(ms) == ms

\* ConversationModel::outboundChannelClosed: once more, but not a third time.
Requeued(ms) ==
  [n \in DOMAIN ms |->
     IF ms[n].status # "Sending" THEN ms[n]
     ELSE [ms[n] EXCEPT !.status = IF ms[n].attempts >= 2 THEN "Error" ELSE "Queued"]]

\* ConversationModel::messageReceived looks at the newest five rows only: for a
\* duplicate above the first that was delivered, and for the place of a new row
\* below those not acknowledged yet (its own end, if there is no other).
Newest(ms) == 1..(IF Len(ms) < 5 THEN Len(ms) ELSE 5)
IsDuplicate(ms, id) ==
  \E n \in Newest(ms) :
    /\ ms[n].status = "Received" /\ ms[n].id = id
    /\ \A i \in 1..n : ms[i].status # "Delivered"
RowFor(ms) ==
  LET settled == {n \in Newest(ms) : ~Unsettled(ms[n])}
  IN  IF settled = {} THEN 1 ELSE CHOOSE n \in settled : \A i \in settled : n <= i

Received(ms, id) == Inserted(ms, RowFor(ms), [id |-> id, status |-> "Received", attempts |-> 0])

Acknowledged(ms, id) ==
  [n \in DOMAIN ms |-> IF ms[n].id = id /\ ms[n].status # "Received"
                       THEN [ms[n] EXCEPT !.status = "Delivered"] ELSE ms[n]]

-----------------------------------------------------------------------------
\* Packets and posted calls.

\* p writes packets, after it has read some that leave unread; they go into the
\* void when the other end is gone.
Write(p, unread, packets) ==
  wire' = [wire EXCEPT
             ![p] = unread,
             ![Other(p)] = IF link[Other(p)] \in {"up", "dialling"} THEN @ \o packets ELSE << >>]

\* Posted calls are made before the sockets are looked at again, so only what
\* has come in by now is still read before this one.
Post(p, unread, call) ==
  /\ calls' = [calls EXCEPT ![p] = Append(@, call)]
  /\ batch' = [batch EXCEPT ![p] = IF calls[p] = << >> THEN Len(unread) ELSE @]

Reads(p, kind) ==
  /\ ~crashed[p]
  /\ link[p] \in {"up", "dialling"}
  /\ wire[p] # << >> /\ Head(wire[p]).kind = kind
  /\ calls[p] # << >> => batch[p] > 0

\* One packet less of those that came in together.
Counted(p) ==
  /\ batch' = [batch EXCEPT ![p] = IF @ > 0 THEN @ - 1 ELSE 0]
  /\ UNCHANGED calls

\* ConversationModel::sendQueuedMessages of p, whose outbound channel is c: the
\* channel is opened, or everything queued is written to it.  Without a channel,
\* because the connection is no longer connected, a queued message is the
\* process's end: the result of findOrCreateChannelForContact is not looked at.
SendQueued(p, c, unread) ==
  LET rows == messages[p]
      queued == Queued(rows) IN
  /\ out' = [out EXCEPT ![p] = IF link[p] = "up" /\ c = "none" THEN "opening" ELSE c]
  /\ IF link[p] = "up" /\ c = "open"
     THEN /\ \E order \in OldestFirst(queued) :
               Write(p, unread, [n \in DOMAIN order |->
                                   [kind |-> "message", id |-> rows[order[n]].id]])
          /\ messages' = [messages EXCEPT ![p] = Sent(@)]
          /\ pending' = [pending EXCEPT ![p] = @ \cup {rows[n].id : n \in queued}]
     ELSE /\ Write(p, unread, IF link[p] = "up" /\ c = "none" THEN << [kind |-> "open"] >> ELSE << >>)
          /\ UNCHANGED <<messages, pending>>
  /\ crashed' = [crashed EXCEPT ![p] = link[p] = "dead" /\ queued # {}]

-----------------------------------------------------------------------------
\* Connections.

\* The connection p dialled has authenticated: the other takes it for its
\* contact's, instead of one it has not noticed the end of, and tells so.  What
\* was sent on that one goes back to the queue; when its socket is closed late,
\* the new connection is taken for it and the queue is to be sent on that.
Connect(p) ==
  LET q == Other(p) IN
  /\ ~crashed[p] /\ ~crashed[q]
  /\ link[p] = "none" /\ link[q] # "dialling"
  /\ link' = [link EXCEPT ![p] = "dialling", ![q] = "up"]
  /\ wire' = [wire EXCEPT ![p] = << [kind |-> "known"] >>, ![q] = << >>]
  /\ messages' = IF heard[q] THEN [messages EXCEPT ![q] = Requeued(@)] ELSE messages
  /\ heard' = [heard EXCEPT ![q] = FALSE]
  /\ out' = [out EXCEPT ![q] = "none"]
  /\ pending' = [pending EXCEPT ![q] = {}]
  /\ \/ calls' = [calls EXCEPT ![q] = Append(@, "onConnected")]
     \/ /\ heard[q] /\ out[q] # "none"
        /\ calls' = [calls EXCEPT ![q] = @ \o <<"onConnected", "sendQueuedMessages">>]
  /\ batch' = [batch EXCEPT ![p] = 0, ![q] = 0]
  /\ UNCHANGED <<sent, crashed, shown, bounds>>

\* The dialler's ContactUser::assignConnection.
ReceiveKnown(p) ==
  /\ Reads(p, "known") /\ link[p] = "dialling"
  /\ link' = [link EXCEPT ![p] = "up"]
  /\ Write(p, Tail(wire[p]), << >>)
  /\ calls' = [calls EXCEPT ![p] = Append(@, "onConnected")]
  /\ batch' = [batch EXCEPT ![p] = Len(wire[p]) - 1]
  /\ UNCHANGED <<messages, sent, heard, out, pending, crashed, shown, bounds>>

\* ConnectionPrivate::socketDisconnected: every channel is closed, and the
\* ContactUser is told by a posted call.
Closed(p) ==
  /\ link' = [link EXCEPT ![p] = IF @ = "up" THEN "dead" ELSE "none"]
  /\ wire' = [wire EXCEPT ![p] = << >>]
  /\ messages' = IF heard[p] THEN [messages EXCEPT ![p] = Requeued(@)] ELSE messages
  /\ heard' = [heard EXCEPT ![p] = FALSE]
  /\ out' = [out EXCEPT ![p] = "none"]
  /\ pending' = [pending EXCEPT ![p] = {}]
  /\ calls' = IF link[p] = "up" THEN [calls EXCEPT ![p] = Append(@, "onDisconnected")] ELSE calls
  /\ batch' = [batch EXCEPT ![p] = 0]
  /\ UNCHANGED <<sent, crashed, shown, closes>>

\* The circuit fails at p's end, whatever the process is about to do.
Drop(p) ==
  /\ ~crashed[p] /\ link[p] \in {"up", "dialling"} /\ drops < MaxDrops
  /\ drops' = drops + 1
  /\ Closed(p)

\* The end of the stream is read after everything before it.
PeerGone(p) ==
  /\ ~crashed[p] /\ link[p] \in {"up", "dialling"}
  /\ link[Other(p)] \in {"none", "dead"} /\ wire[p] = << >>
  /\ calls[p] = << >>
  /\ Closed(p)
  /\ UNCHANGED drops

\* An outbound FileChannel closes by itself (FileChannel::emitFatalError); the
\* slot for it is that of the chat channel.
FileChannelClosed(p) ==
  /\ ~crashed[p] /\ link[p] = "up" /\ heard[p] /\ closes < MaxCloses
  /\ closes' = closes + 1
  /\ messages' = [messages EXCEPT ![p] = Requeued(@)]
  /\ Post(p, wire[p], "sendQueuedMessages")
  /\ UNCHANGED <<sent, link, heard, out, pending, wire, crashed, shown, drops>>

-----------------------------------------------------------------------------
\* Channels and messages.

ReceiveOpen(p) ==
  /\ Reads(p, "open")
  /\ Write(p, Tail(wire[p]), << [kind |-> "opened"] >>)
  /\ Counted(p)
  /\ UNCHANGED <<messages, sent, link, heard, out, pending, crashed, shown, bounds>>

ReceiveOpened(p) ==
  /\ Reads(p, "opened")
  /\ IF heard[p]
     THEN SendQueued(p, "open", Tail(wire[p]))
     ELSE /\ out' = [out EXCEPT ![p] = "open"]
          /\ Write(p, Tail(wire[p]), << >>)
          /\ UNCHANGED <<messages, pending, crashed>>
  /\ Counted(p)
  /\ UNCHANGED <<sent, link, heard, shown, bounds>>

\* ConversationModel::sendMessage.
SendMessage(p) ==
  LET id == sent[p] + 1
      now == out[p] = "open"
  IN
  /\ ~crashed[p] /\ sent[p] < IF p = "a" THEN MaxSent ELSE MaxReplies
  /\ sent' = [sent EXCEPT ![p] = id]
  /\ messages' = [messages EXCEPT ![p] = Inserted(@, 1,
       [id |-> id, status |-> IF now THEN "Sending" ELSE "Queued", attempts |-> IF now THEN 1 ELSE 0])]
  /\ IF link[p] = "up" /\ out[p] # "opening"
     THEN Write(p, wire[p], << IF now THEN [kind |-> "message", id |-> id] ELSE [kind |-> "open"] >>)
     ELSE UNCHANGED wire
  /\ out' = [out EXCEPT ![p] = IF link[p] = "up" /\ @ = "none" THEN "opening" ELSE @]
  /\ pending' = IF now THEN [pending EXCEPT ![p] = @ \cup {id}] ELSE pending
  /\ UNCHANGED <<link, heard, calls, batch, crashed, shown, bounds>>

\* ChatChannel::handleChatMessage: acknowledged whatever becomes of it.
ReceiveMessage(p) ==
  /\ Reads(p, "message")
  /\ LET id == Head(wire[p]).id IN
     /\ IF heard[p] /\ ~IsDuplicate(messages[p], id)
        THEN /\ messages' = [messages EXCEPT ![p] = Received(@, id)]
             /\ shown' = [shown EXCEPT ![p] = Append(@, id)]
        ELSE UNCHANGED <<messages, shown>>
     /\ Write(p, Tail(wire[p]), << [kind |-> "ack", id |-> id] >>)
  /\ Counted(p)
  /\ UNCHANGED <<sent, link, heard, out, pending, crashed, bounds>>

\* ChatChannel::handleChatAcknowledge.
ReceiveAck(p) ==
  /\ Reads(p, "ack")
  /\ LET id == Head(wire[p]).id IN
     /\ pending' = [pending EXCEPT ![p] = @ \ {id}]
     /\ messages' = IF heard[p] /\ id \in pending[p]
                    THEN [messages EXCEPT ![p] = Acknowledged(@, id)]
                    ELSE messages
  /\ Write(p, Tail(wire[p]), << >>)
  /\ Counted(p)
  /\ UNCHANGED <<sent, link, heard, out, crashed, shown, bounds>>

-----------------------------------------------------------------------------
\* Posted calls.

Made(p, call) ==
  /\ ~crashed[p] /\ calls[p] # << >> /\ Head(calls[p]) = call
  /\ calls' = [calls EXCEPT ![p] = Tail(@)]
  /\ UNCHANGED <<batch, sent, shown, bounds>>

\* ContactUser::onConnected: the signal connected makes ConversationModel listen
\* to the connection's channels and send what is queued.
OnConnected(p) ==
  /\ Made(p, "onConnected")
  /\ IF link[p] = "up"
     THEN /\ heard' = [heard EXCEPT ![p] = TRUE]
          /\ SendQueued(p, out[p], wire[p])
     ELSE UNCHANGED <<heard, messages, out, pending, wire, crashed>>
  /\ UNCHANGED link

\* ContactUser::onDisconnected.
OnDisconnected(p) ==
  /\ Made(p, "onDisconnected")
  /\ link' = [link EXCEPT ![p] = IF @ = "dead" THEN "none" ELSE @]
  /\ UNCHANGED <<heard, messages, out, pending, wire, crashed>>

SendQueuedMessages(p) ==
  /\ Made(p, "sendQueuedMessages")
  /\ SendQueued(p, out[p], wire[p])
  /\ UNCHANGED <<link, heard>>

Receive(p) ==
  \/ ReceiveKnown(p) \/ ReceiveOpen(p) \/ ReceiveOpened(p)
  \/ ReceiveMessage(p) \/ ReceiveAck(p)
Call(p) == OnConnected(p) \/ OnDisconnected(p) \/ SendQueuedMessages(p)

Next ==
  \E p \in Peer :
    \/ Receive(p) \/ Call(p) \/ PeerGone(p)
    \/ SendMessage(p) \/ Connect(p) \/ Drop(p) \/ FileChannelClosed(p)

Spec == Init /\ [][Next]_vars

\* Event loops serve sockets and posted calls; while one side has no connection
\* it gets one in the end.
Fairness ==
  /\ \A p \in Peer : WF_vars(Receive(p)) /\ WF_vars(Call(p)) /\ WF_vars(PeerGone(p))
  /\ WF_vars(\E p \in Peer : Connect(p))
FairSpec == Spec /\ Fairness

-----------------------------------------------------------------------------
\* What makes it correct.

\* The row of p's own message m.
RowOf(p, m) == CHOOSE n \in DOMAIN messages[p] :
                 messages[p][n].id = m /\ messages[p][n].status # "Received"
Fate(p, m) ==
  CASE messages[p][RowOf(p, m)].status = "Delivered" -> "delivered"
    [] messages[p][RowOf(p, m)].status = "Error" -> "failed"
    [] OTHER -> "pending"

\* Whatever breaks, messages are shown in the order they were sent, at most
\* twice, and reported delivered only after that: the conversation implements
\* its promise.
Promise == INSTANCE Delivery WITH
  fate <- [p \in Peer |-> [m \in 1..sent[p] |-> Fate(p, m)]]
KeepsPromise == Promise!Spec

\* Every message is delivered or reported as failed once connections stop to
\* break, and none is left behind in the queue or waiting for an answer that was
\* lost with its channel.
Settles ==
  (\A p \in Peer : []~crashed[p]) =>
    \A p \in Peer : \A m \in 1..MaxSent :
      (sent[p] >= m /\ Fate(p, m) = "pending") ~> (sent[p] >= m /\ Fate(p, m) # "pending")

\* Messages wait for an acknowledgement only on a channel that can still bring
\* it or, after a file channel closed, go back to the queue to be sent again.
SendingIsPending ==
  \A p \in Peer : \A n \in DOMAIN messages[p] :
    messages[p][n].status = "Sending" => messages[p][n].id \in pending[p]

=============================================================================
