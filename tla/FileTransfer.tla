---------------------------- MODULE FileTransfer ----------------------------
(***************************************************************************)
(* Files from one user to the other: the sender's ConversationModel with   *)
(* its outbound FileChannel, the receiver's inbound one, and the           *)
(* connection they are on, which may break.  The other direction has       *)
(* channels of its own and is the same.                                    *)
(*                                                                         *)
(* Definitions without a comment before one that has it are that one with  *)
(* a bug, for the mutation runs.                                           *)
(***************************************************************************)
EXTENDS Integers, Sequences, FiniteSets

CONSTANTS
  MaxFiles,   \* bound: files the user sends
  Chunks,     \* bound: chunks of a file
  BadNames,   \* the files whose name has ".." in it
  MaxDrops,   \* bound: ends of a connection that fail
  MaxCancels, \* bound: transfers the two users cancel
  MaxErrors   \* bound: errors of the receiver's file system

Files == 1..MaxFiles

ASSUME FilesAssumption == MaxFiles \in Nat /\ Chunks \in Nat \ {0} /\ BadNames \subseteq Files
ASSUME BoundsAssumption == {MaxDrops, MaxCancels, MaxErrors} \subseteq Nat

None == -1
Offsets == 0..Chunks

\* tego_file_transfer_result_t; "spoilt" stands for bad_hash, and for a
\* filesystem_error with the complete file.
Results == {"success", "failure", "cancelled", "rejected", "spoilt", "network_error",
            "filesystem_error"}

VARIABLES
  row,        \* the status of the file's row in the sender's ConversationModel
  attempts,   \* its attemptCount
  link,       \* the sender's ContactUser::connection
  channel,    \* its outbound FileChannel
  outgoing,   \* outgoingTransfers: how much of the file is sent
  calls,      \* the calls posted in the sender's process
  crashed,    \* the sender's process is no more
  peerUp,     \* the receiver's end of the connection is open
  inbound,    \* the receiver has an inbound FileChannel
  asked,      \* the incomingTransfers that wait for the user's answer
  incoming,   \* the accepted ones: how much of the file is written
  toReceiver, \* packets on their way to the receiver
  toSender,   \* packets on their way to the sender
  told,       \* history: how the sender's transfer ended, as he was told last
  saw,        \* history: how the receiver's did
  drops, cancels, errors

sender == <<row, attempts, link, channel, outgoing, calls, crashed, told>>
receiver == <<peerUp, inbound, asked, incoming, saw>>
wires == <<toReceiver, toSender>>
bounds == <<drops, cancels, errors>>
vars == <<sender, receiver, wires, bounds>>

ToReceiver == [kind : {"open", "close"}] \cup [kind : {"header", "chunk", "cancelled"}, file : Files]
ToSender ==
  [kind : {"opened", "unnamed"}] \cup [kind : {"ack", "accept", "reject"}, file : Files]
    \cup [kind : {"written"}, file : Files, bytes : Offsets]
    \cup [kind : {"complete"}, file : Files, result : {"success", "cancelled"}]

TypeOK ==
  /\ row \in [Files -> {"none", "Queued", "Sending", "Delivered", "Error", "erased"}]
  /\ attempts \in [Files -> 0..2]
  /\ link \in {"none", "up", "dead"}
  /\ channel \in {"none", "opening", "open"}
  /\ outgoing \in [Files -> Offsets \cup {None}]
  /\ calls \in Seq({"sendQueuedMessages", "onDisconnected"})
  /\ crashed \in BOOLEAN
  /\ peerUp \in BOOLEAN /\ inbound \in BOOLEAN
  /\ asked \in SUBSET Files
  /\ incoming \in [Files -> Offsets \cup {None}]
  /\ toReceiver \in Seq(ToReceiver) /\ toSender \in Seq(ToSender)
  /\ told \in [Files -> Results \cup {"none"}]
  /\ saw \in [Files -> Results \cup {"none", "asked", "running"}]
  /\ drops \in 0..MaxDrops /\ cancels \in 0..MaxCancels /\ errors \in 0..MaxErrors

NoTransfers == [f \in Files |-> None]

Init ==
  /\ row = [f \in Files |-> "none"]
  /\ attempts = [f \in Files |-> 0]
  /\ link = "none" /\ channel = "none"
  /\ outgoing = NoTransfers
  /\ calls = << >> /\ crashed = FALSE
  /\ peerUp = FALSE /\ inbound = FALSE
  /\ asked = {} /\ incoming = NoTransfers
  /\ toReceiver = << >> /\ toSender = << >>
  /\ told = [f \in Files |-> "none"]
  /\ saw = [f \in Files |-> "none"]
  /\ drops = 0 /\ cancels = 0 /\ errors = 0

Sent(f) == outgoing[f] # None
Accepted(f) == incoming[f] # None
Known(f) == f \in asked \/ Accepted(f)

Kinds(wire) == {wire[n].kind : n \in DOMAIN wire}

-----------------------------------------------------------------------------
\* Reading and writing.

FromReceiver(kind) ==
  /\ ~crashed /\ link = "up" /\ toSender # << >> /\ Head(toSender).kind = kind

FromSender(kind) ==
  /\ peerUp /\ toReceiver # << >> /\ Head(toReceiver).kind = kind

\* The sender has read a packet, or none, and writes packets.
SenderWrites(unread, packets) ==
  /\ toSender' = unread
  /\ toReceiver' = IF peerUp THEN toReceiver \o packets ELSE << >>

\* The receiver has, and what it writes on a channel that the sender has closed
\* is ignored there.
ReceiverWrites(unread, packets) ==
  /\ toReceiver' = unread
  /\ toSender' = IF link = "up" /\ "close" \notin Kinds(unread) THEN toSender \o packets ELSE toSender

-----------------------------------------------------------------------------
\* The sender's queue.

Queued == {f \in Files : row[f] = "Queued"}

RequeuedAlways == [f \in Files |-> IF row[f] = "Sending" THEN "Queued" ELSE row[f]]

\* ConversationModel::outboundChannelClosed.
Requeued ==
  [f \in Files |->
     IF row[f] # "Sending" THEN row[f] ELSE IF attempts[f] >= 2 THEN "Error" ELSE "Queued"]

ClearedOnly(result) == told

\* FileChannel::emitFatalError at the sender's end: every transfer is over.
AllTold(result) == [f \in Files |-> IF Sent(f) THEN result ELSE told[f]]

OldestFirst(S) ==
  {order \in [1..Cardinality(S) -> S] :
     \A m, n \in DOMAIN order : m < n => order[m] < order[n]}
Headers(order) == [n \in DOMAIN order |-> [kind |-> "header", file |-> order[n]]]

\* FileChannel::sendFileWithId for the files S, the oldest first; those missing
\* are gone from the disk.
Offers(S, missing, unread) ==
  /\ row' = [f \in Files |-> IF f \in missing THEN "Error" ELSE IF f \in S THEN "Sending" ELSE row[f]]
  /\ attempts' = [f \in Files |-> IF f \in S THEN attempts[f] + 1 ELSE attempts[f]]
  /\ outgoing' = [f \in Files |-> IF f \in S \ missing THEN 0 ELSE outgoing[f]]
  /\ told' = [f \in Files |-> IF f \in S THEN "none" ELSE told[f]]
  /\ errors + Cardinality(missing) <= MaxErrors
  /\ errors' = errors + Cardinality(missing)
  /\ \E order \in OldestFirst(S \ missing) : SenderWrites(unread, Headers(order))

\* ConversationModel::sendQueuedMessages with the channel in state c.  Without
\* one, because the connection is no longer connected, a queued file is the
\* process's end.
SendQueued(c, unread) ==
  /\ crashed' = (link = "dead" /\ Queued # {})
  /\ channel' = IF link = "up" /\ c = "none" THEN "opening" ELSE c
  /\ IF link = "up" /\ c = "open"
     THEN \E missing \in SUBSET Queued : Offers(Queued, missing, unread)
     ELSE /\ SenderWrites(unread, IF link = "up" /\ c = "none" THEN << [kind |-> "open"] >> ELSE << >>)
          /\ UNCHANGED <<row, attempts, outgoing, told, errors>>

\* ConversationModel::sendFile; a file that was there when its hash was taken may
\* be gone when it is sent.
SendFile(f) ==
  /\ ~crashed /\ row[f] = "none" /\ \A g \in Files : g < f => row[g] # "none"
  /\ IF channel = "open"
     THEN \E missing \in SUBSET {f} : Offers({f}, missing, toSender)
     ELSE /\ row' = [row EXCEPT ![f] = "Queued"]
          /\ SenderWrites(toSender, IF link = "up" /\ channel = "none"
                                    THEN << [kind |-> "open"] >> ELSE << >>)
          /\ UNCHANGED <<attempts, outgoing, told, errors>>
  /\ channel' = IF link = "up" /\ channel = "none" THEN "opening" ELSE channel
  /\ UNCHANGED <<link, calls, crashed, receiver, drops, cancels>>

\* ConversationModel::cancelTransfer at the sender's end: the row is erased while
\* there is no connection.  With one, what is not offered on an open channel stays
\* queued, and a channel that is missing is opened.
CancelOutgoing(f) ==
  /\ ~crashed /\ cancels < MaxCancels
  /\ cancels' = cancels + 1
  /\ \/ /\ link = "none" /\ row[f] \notin {"none", "erased"}
        /\ row' = [row EXCEPT ![f] = "erased"]
        /\ UNCHANGED <<channel, outgoing, told, wires>>
     \/ /\ channel = "open" /\ Sent(f)
        /\ outgoing' = [outgoing EXCEPT ![f] = None]
        /\ told' = [told EXCEPT ![f] = "cancelled"]
        /\ SenderWrites(toSender, << [kind |-> "cancelled", file |-> f] >>)
        /\ UNCHANGED <<row, channel>>
     \/ /\ link = "up" /\ channel = "none" /\ row[f] = "Queued"
        /\ channel' = "opening"
        /\ SenderWrites(toSender, << [kind |-> "open"] >>)
        /\ UNCHANGED <<row, outgoing, told>>
  /\ UNCHANGED <<attempts, link, calls, crashed, receiver, drops, errors>>

-----------------------------------------------------------------------------
\* The sender's FileChannel.

\* The next chunk of f, FileChannel::sendNextChunk.
SendNextChunk(f) ==
  /\ outgoing' = [outgoing EXCEPT ![f] = @ + 1]
  /\ SenderWrites(Tail(toSender), << [kind |-> "chunk", file |-> f] >>)

ReceiveOpened ==
  /\ FromReceiver("opened")
  /\ SendQueued("open", Tail(toSender))
  /\ UNCHANGED <<link, calls, receiver, drops, cancels>>

\* FileChannel::handleFileHeaderAck and ConversationModel::onFileTransferAcknowledged.
ReceiveAck ==
  /\ FromReceiver("ack")
  /\ LET f == Head(toSender).file IN
     row' = IF Sent(f) /\ row[f] # "erased" THEN [row EXCEPT ![f] = "Delivered"] ELSE row
  /\ SenderWrites(Tail(toSender), << >>)
  /\ UNCHANGED <<attempts, link, channel, outgoing, calls, crashed, told, receiver, bounds>>

\* A channel that closes by itself: FileChannel::emitFatalError, then
\* ConversationModel::outboundChannelClosed.
FatalError ==
  /\ told' = AllTold("failure")
  /\ outgoing' = NoTransfers
  /\ channel' = "none"
  /\ row' = Requeued
  /\ SenderWrites(<< >>, << [kind |-> "close"] >>)
  /\ calls' = Append(calls, "sendQueuedMessages")
  /\ UNCHANGED <<attempts, link, crashed, receiver, bounds>>

\* FileChannel::verifyFileHeaderAck: an acknowledgement must name its file.
ReceiveUnnamed == FromReceiver("unnamed") /\ FatalError

\* FileChannel::handleFileHeaderResponse.
ReceiveResponse ==
  /\ FromReceiver("accept") \/ FromReceiver("reject")
  /\ LET f == Head(toSender).file IN
     IF ~Sent(f)
     THEN SenderWrites(Tail(toSender), << >>) /\ UNCHANGED <<outgoing, told>>
     ELSE IF Head(toSender).kind = "accept"
     THEN SendNextChunk(f) /\ UNCHANGED told
     ELSE /\ outgoing' = [outgoing EXCEPT ![f] = None]
          /\ told' = [told EXCEPT ![f] = "rejected"]
          /\ SenderWrites(Tail(toSender), << >>)
  /\ UNCHANGED <<row, attempts, link, channel, calls, crashed, receiver, bounds>>

\* FileChannel::handleFileChunkAck.
ReceiveWritten ==
  /\ FromReceiver("written")
  /\ LET f == Head(toSender).file IN
     IF Sent(f) /\ Head(toSender).bytes # outgoing[f]
     THEN FatalError
     ELSE /\ IF Sent(f) /\ outgoing[f] < Chunks
             THEN SendNextChunk(f)
             ELSE SenderWrites(Tail(toSender), << >>) /\ UNCHANGED outgoing
          /\ UNCHANGED <<row, attempts, link, channel, calls, crashed, told, receiver, bounds>>

\* FileChannel::handleFileTransferCompleteNotification at the sender's end.
ReceiveComplete ==
  /\ FromReceiver("complete")
  /\ LET f == Head(toSender).file IN
     /\ outgoing' = [outgoing EXCEPT ![f] = None]
     /\ told' = IF Sent(f) THEN [told EXCEPT ![f] = Head(toSender).result] ELSE told
  /\ SenderWrites(Tail(toSender), << >>)
  /\ UNCHANGED <<row, attempts, link, channel, calls, crashed, receiver, bounds>>

-----------------------------------------------------------------------------
\* The receiver's FileChannel.

ReceiveOpen ==
  /\ FromSender("open")
  /\ inbound' = TRUE
  /\ ReceiverWrites(Tail(toReceiver), << [kind |-> "opened"] >>)
  /\ UNCHANGED <<sender, peerUp, asked, incoming, saw, bounds>>

\* Channel::closeChannel destroys the FileChannel, and tells nobody of the
\* transfers it had.
ReceiveClose ==
  /\ FromSender("close")
  /\ inbound' = FALSE
  /\ asked' = {} /\ incoming' = NoTransfers
  /\ ReceiverWrites(Tail(toReceiver), << >>)
  /\ UNCHANGED <<sender, peerUp, saw, bounds>>

\* FileChannel::handleFileHeader; a header that is refused is acknowledged without
\* its identifier.
ReceiveHeader ==
  /\ FromSender("header")
  /\ LET f == Head(toReceiver).file IN
     IF f \in BadNames
     THEN ReceiverWrites(Tail(toReceiver), << [kind |-> "unnamed"] >>) /\ UNCHANGED <<asked, saw>>
     ELSE /\ asked' = IF Accepted(f) THEN asked ELSE asked \cup {f}
          /\ saw' = [saw EXCEPT ![f] = "asked"]
          /\ ReceiverWrites(Tail(toReceiver), << [kind |-> "ack", file |-> f] >>)
  /\ UNCHANGED <<sender, peerUp, inbound, incoming, bounds>>

\* FileChannel::acceptFile; users answer an offer once, as the frontends do.
AcceptFile(f) ==
  /\ f \in asked
  /\ asked' = asked \ {f}
  /\ incoming' = [incoming EXCEPT ![f] = 0]
  /\ saw' = [saw EXCEPT ![f] = "running"]
  /\ ReceiverWrites(toReceiver, << [kind |-> "accept", file |-> f] >>)
  /\ UNCHANGED <<sender, peerUp, inbound, bounds>>

\* FileChannel::rejectFile.
RejectFile(f) ==
  /\ f \in asked
  /\ asked' = asked \ {f}
  /\ saw' = [saw EXCEPT ![f] = "rejected"]
  /\ ReceiverWrites(toReceiver, << [kind |-> "reject", file |-> f] >>)
  /\ UNCHANGED <<sender, peerUp, inbound, incoming, bounds>>

CancelQuietly(f) ==
  /\ Known(f) /\ cancels < MaxCancels
  /\ cancels' = cancels + 1
  /\ asked' = asked \ {f}
  /\ incoming' = [incoming EXCEPT ![f] = None]
  /\ saw' = [saw EXCEPT ![f] = "cancelled"]
  /\ UNCHANGED <<sender, peerUp, inbound, wires, drops, errors>>

\* FileChannel::cancelTransfer at the receiver's end.
CancelIncoming(f) ==
  /\ Known(f) /\ cancels < MaxCancels
  /\ cancels' = cancels + 1
  /\ asked' = asked \ {f}
  /\ incoming' = [incoming EXCEPT ![f] = None]
  /\ saw' = [saw EXCEPT ![f] = "cancelled"]
  /\ ReceiverWrites(toReceiver, << [kind |-> "complete", file |-> f, result |-> "cancelled"] >>)
  /\ UNCHANGED <<sender, peerUp, inbound, drops, errors>>

CountsFromZero(f) ==
  << [kind |-> "written", file |-> f, bytes |-> incoming[f]] >>

DiskFullIsSuccess(f) ==
  << [kind |-> "complete", file |-> f, result |-> "success"] >>

\* What it answers to one that it cannot write.
GaveUp(f) ==
  << [kind |-> "complete", file |-> f, result |-> "cancelled"] >>

\* What FileChannel::handleFileChunk answers to a chunk that it has written.
ChunkAnswer(f) ==
  << [kind |-> "written", file |-> f, bytes |-> incoming[f] + 1] >>
    \o IF incoming[f] + 1 = Chunks
       THEN << [kind |-> "complete", file |-> f, result |-> "success"] >> ELSE << >>

\* FileChannel::handleFileChunk; chunks of a transfer that was cancelled are
\* ignored.  The sender is told of success whatever becomes of the complete file.
ReceiveChunk ==
  /\ FromSender("chunk")
  /\ LET f == Head(toReceiver).file IN
     \/ /\ ~Accepted(f)
        /\ ReceiverWrites(Tail(toReceiver), << >>)
        /\ UNCHANGED <<incoming, saw, errors>>
     \/ /\ Accepted(f) /\ incoming[f] + 1 < Chunks
        /\ incoming' = [incoming EXCEPT ![f] = @ + 1]
        /\ ReceiverWrites(Tail(toReceiver), ChunkAnswer(f))
        /\ UNCHANGED <<saw, errors>>
     \/ /\ Accepted(f) /\ incoming[f] + 1 = Chunks
        /\ incoming' = [incoming EXCEPT ![f] = None]
        /\ \/ saw' = [saw EXCEPT ![f] = "success"] /\ UNCHANGED errors
           \/ /\ errors < MaxErrors /\ errors' = errors + 1
              /\ saw' = [saw EXCEPT ![f] = "spoilt"]
        /\ ReceiverWrites(Tail(toReceiver), ChunkAnswer(f))
     \/ /\ Accepted(f) /\ errors < MaxErrors
        /\ errors' = errors + 1
        /\ incoming' = [incoming EXCEPT ![f] = None]
        /\ saw' = [saw EXCEPT ![f] = "filesystem_error"]
        /\ ReceiverWrites(Tail(toReceiver), GaveUp(f))
  /\ UNCHANGED <<sender, peerUp, inbound, asked, drops, cancels>>

\* FileChannel::handleFileTransferCompleteNotification at the receiver's end.
ReceiveCancelled ==
  /\ FromSender("cancelled")
  /\ LET f == Head(toReceiver).file IN
     /\ saw' = IF Known(f) THEN [saw EXCEPT ![f] = "cancelled"] ELSE saw
     /\ asked' = asked \ {f}
     /\ incoming' = [incoming EXCEPT ![f] = None]
  /\ ReceiverWrites(Tail(toReceiver), << >>)
  /\ UNCHANGED <<sender, peerUp, inbound, bounds>>

-----------------------------------------------------------------------------
\* The connection.

\* FileChannel::onConnectionClosed at the receiver's end.
ReceiverClosed ==
  /\ saw' = [f \in Files |-> IF Known(f) THEN "network_error" ELSE saw[f]]
  /\ inbound' = FALSE /\ asked' = {} /\ incoming' = NoTransfers

\* FileChannel::onConnectionClosed at the sender's end, then
\* ConversationModel::outboundChannelClosed.
SenderLoses ==
  /\ told' = AllTold("network_error")
  /\ outgoing' = NoTransfers
  /\ row' = Requeued

\* Both have a new connection, in the place of one whose end the receiver, or the
\* sender, has not noticed; ContactUser::clearConnection closes that one.  When
\* unsent bytes delay this, it is closed as the Connection is deleted, a posted
\* call ahead of onConnected: it takes the new connection for the one that lost
\* a channel, and the queue is to be sent on that.
Connect ==
  /\ ~crashed /\ (link = "none" \/ ~peerUp)
  /\ link' = "up" /\ peerUp' = TRUE
  /\ SenderLoses /\ ReceiverClosed
  /\ channel' = "opening"
  /\ toReceiver' = << [kind |-> "open"] >> /\ toSender' = << >>
  /\ \/ UNCHANGED calls
     \/ link = "up" /\ calls' = Append(calls, "sendQueuedMessages")
  /\ UNCHANGED <<attempts, crashed, bounds>>

\* The sender's end of the connection is closed; onDisconnected is posted.
SenderClosed ==
  /\ ~crashed /\ link = "up"
  /\ link' = "dead" /\ channel' = "none"
  /\ SenderLoses
  /\ toSender' = << >>
  /\ calls' = Append(calls, "onDisconnected")
  /\ UNCHANGED <<attempts, crashed, receiver, toReceiver, cancels, errors>>

ReceiverGone ==
  /\ peerUp
  /\ peerUp' = FALSE
  /\ ReceiverClosed
  /\ toReceiver' = << >>
  /\ UNCHANGED <<sender, toSender, cancels, errors>>

\* The circuit fails at one end.
Drop ==
  /\ drops < MaxDrops /\ drops' = drops + 1
  /\ SenderClosed \/ ReceiverGone

\* One end reads that the other has closed, after everything before that.
PeerGone ==
  /\ \/ SenderClosed /\ ~peerUp /\ toSender = << >>
     \/ ReceiverGone /\ link # "up" /\ toReceiver = << >>
  /\ UNCHANGED drops

SendQueuedMessages ==
  /\ ~crashed /\ calls # << >> /\ Head(calls) = "sendQueuedMessages"
  /\ calls' = Tail(calls)
  /\ SendQueued(channel, toSender)
  /\ UNCHANGED <<link, receiver, drops, cancels>>

\* ContactUser::onDisconnected, which a connection made since survives.
OnDisconnected ==
  /\ ~crashed /\ calls # << >> /\ Head(calls) = "onDisconnected"
  /\ calls' = Tail(calls)
  /\ link' = IF link = "dead" THEN "none" ELSE link
  /\ UNCHANGED <<row, attempts, channel, outgoing, crashed, told, receiver, wires, bounds>>

SenderReads ==
  \/ ReceiveOpened \/ ReceiveAck \/ ReceiveUnnamed \/ ReceiveResponse
  \/ ReceiveWritten \/ ReceiveComplete
ReceiverReads ==
  \/ ReceiveOpen \/ ReceiveClose \/ ReceiveHeader \/ ReceiveChunk \/ ReceiveCancelled
SenderCall == SendQueuedMessages \/ OnDisconnected

Next ==
  \/ SenderReads \/ ReceiverReads \/ SenderCall \/ Connect \/ Drop \/ PeerGone
  \/ \E f \in Files :
       \/ SendFile(f) \/ CancelOutgoing(f)
       \/ AcceptFile(f) \/ RejectFile(f) \/ CancelIncoming(f)

Spec == Init /\ [][Next]_vars

\* Event loops serve sockets and posted calls, and a contact that is not
\* connected is dialled; users owe nothing.
Fairness ==
  /\ WF_vars(SenderReads) /\ WF_vars(ReceiverReads) /\ WF_vars(SenderCall)
  /\ WF_vars(PeerGone) /\ WF_vars(Connect)
FairSpec == Spec /\ Fairness

-----------------------------------------------------------------------------
\* What makes it correct.

\* Both channels are the two ends of one.
Live == link = "up" /\ peerUp /\ channel = "open" /\ "close" \notin Kinds(toReceiver)

About(wire, kinds, f) ==
  \E n \in DOMAIN wire : wire[n].kind \in kinds /\ wire[n].file = f

\* A transfer that only one end has a record of is about to begin or to end at the
\* other, through all crossings of answers, cancellations and completions: none
\* is left that waits for a peer who has forgotten it.
RecordsMeet ==
  Live =>
    \A f \in Files :
      /\ Sent(f) /\ ~Known(f) =>
           \/ About(toReceiver, {"header"}, f)
           \/ About(toSender, {"reject", "complete"}, f)
           \/ "unnamed" \in Kinds(toSender)
      /\ Known(f) /\ ~Sent(f) => About(toReceiver, {"cancelled"}, f)

\* FileChannel::handleFileChunkAck: "acks currently always come between sending
\* chunks, so our bytes sent and their bytes received should not diverge", also
\* when a file is cancelled, offered again or acknowledged late.
InStep ==
  \A n \in DOMAIN toSender :
    toSender[n].kind = "written" /\ Sent(toSender[n].file)
      => toSender[n].bytes = outgoing[toSender[n].file]

\* A sender is told of success only when the receiver has had the whole file, and
\* was not told himself that it was cancelled, rejected or cut off: "the recipient
\* is expected to send this message with a result of Success once all bytes have
\* been received" (protocol.md).
SuccessIsShared ==
  \A f \in Files : told[f] = "success" => saw[f] \in {"success", "spoilt"}

\* Once the receiver has accepted a file, its sender hears how the transfer ends,
\* also when the channel closes or the connection breaks without a word.
SenderIsTold == \A f \in Files : Accepted(f) ~> (told[f] # "none" \/ crashed)

=============================================================================
