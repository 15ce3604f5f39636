------------------------------ MODULE TorControl ------------------------------
(***************************************************************************)
(* The tor daemon and the control connection to it: TorProcess, TorManager,*)
(* TorControl, TorControlSocket and a TorSocket that dials through tor,    *)
(* with what the IRC frontend (main.cpp, shims/TorControl.cpp,             *)
(* RicochetIrcServer) does when the control connection comes up and when   *)
(* an IRC user logs in or leaves.                                          *)
(*                                                                         *)
(* Everything but the daemon runs on one event loop; the frontend hears of *)
(* libtego's callbacks later, in order (see CallbackQueue).                *)
(***************************************************************************)
EXTENDS Integers, Sequences, FiniteSets

CONSTANTS
  TickLimit,   \* reads of the port file before TorProcess gives up (20)
  MaxFaults,   \* ends of tor, of its circuits or of the control connection
  MaxLogins    \* IRC users that log in or leave

ASSUME BoundsAssumption == TickLimit \in Nat /\ MaxFaults \in Nat /\ MaxLogins \in Nat

VARIABLES
  proc,       \* TorProcess::state
  timer,      \* controlPortTimer is active
  ticks,      \* controlPortAttempts, up to one past the limit
  daemon,     \* the tor process itself; "reaped" when the program knows its end
  port,       \* the control port file is complete
  net,        \* DisableNetwork is 0
  circuit,    \* tor has circuits
  session,    \* what tor keeps for the control connection
  applied,    \* configurations of the frontend that tor has set so far
  sock,       \* state of TorControlSocket
  hup,        \* tor's end of the connection is closed
  toTor,      \* commands written, in tor's order
  fromTor,    \* replies and events, not read yet
  queue,      \* commandQueue
  stray,      \* queue holds a command that was never written
  address,    \* torAddress and controlPort are known
  status,     \* TorControl::status
  torStatus,  \* TorControl::torStatus
  socks,      \* socksAddress is known
  retry,      \* a single shot of reconnect() is pending
  calls,      \* callbacks the frontend has not run yet
  confirm,    \* m_setConfigurationCommand, by the configuration it stands for
  settings,   \* the "tor" object of the settings file
  dial,       \* a TorSocket whose host never answers
  redial,     \* m_connectTimer is active
  faults,     \* so far
  logins      \* so far

process == <<proc, timer, ticks>>
tor == <<daemon, port, net, circuit, session, applied>>
wires == <<hup, toTor, fromTor>>
commands == <<queue, stray>>
control == <<address, status, torStatus, socks, retry>>
frontend == <<calls, confirm, settings>>
dialling == <<dial, redial>>
bounds == <<faults, logins>>
vars == <<process, tor, sock, wires, commands, control, frontend, dialling, bounds>>

-----------------------------------------------------------------------------
\* Commands, replies and states.

\* RESETCONF with the configuration of the settings file, with that of an IRC
\* login (all defaults), for DisableNetwork, and for the owning process.
SetConf == {"user", "default", "net", "owner"}
GetInfo == {"info", "socks"}
Commands == SetConf \cup GetInfo \cup {"auth", "events", "own", "onion"}
Replies == [to : Commands, ok : BOOLEAN, up : BOOLEAN]
Events == [to : {"event"}, ok : {TRUE}, up : BOOLEAN]

NoSession == [authed |-> FALSE, events |-> FALSE, onion |-> FALSE]

Connectivity(known, s) == s = "Ready" /\ known
HasConnectivity == Connectivity(socks, torStatus)

Init ==
  /\ proc = "Starting" /\ timer = FALSE /\ ticks = 0
  /\ daemon = "launching" /\ port = FALSE /\ net = FALSE /\ circuit = FALSE
  /\ session = NoSession /\ applied = {}
  /\ sock = "closed" /\ hup = FALSE /\ toTor = << >> /\ fromTor = << >>
  /\ queue = << >> /\ stray = FALSE
  /\ address = FALSE /\ status = "NotConnected" /\ torStatus = "Unknown"
  /\ socks = FALSE /\ retry = FALSE
  /\ calls = << >> /\ confirm = "none" /\ settings = "user"
  /\ dial = "idle" /\ redial = FALSE
  /\ faults = 0 /\ logins = 0

-----------------------------------------------------------------------------
\* TorControlSocket and TorSocket.

\* sendCommand, with what is left in the queue: an open or connecting socket
\* takes the data, a closed one refuses it; the queue grows in any case.
SendCommands(q, cs) ==
  /\ queue' = q \o cs
  /\ toTor' = IF sock = "closed" THEN toTor ELSE toTor \o cs
  /\ stray' = (stray \/ (sock = "closed" /\ cs # << >>))

OnlyStops(has) ==
  /\ redial' = (redial /\ has)
  /\ UNCHANGED dial

\* TorSocket::connectivityChanged: the socket dials as soon as it can, and
\* stops its timer when it cannot.
ConnectivityChanged(has) ==
  IF has
  THEN /\ dial' = IF dial = "idle" THEN "dialling" ELSE dial
       /\ redial' = (redial /\ dial # "idle")
  ELSE /\ redial' = FALSE
       /\ UNCHANGED dial

\* The connectivity after a step that sets the address of tor's SOCKS listener
\* and the state of its network, and what follows for the TorSocket.
Connectable(known, s) ==
  /\ socks' = known
  /\ torStatus' = s
  /\ IF s # torStatus \/ (known /\ ~socks)
     THEN ConnectivityChanged(Connectivity(known, s))
     ELSE UNCHANGED dialling

\* setTorStatus asks for the SOCKS listener when tor becomes ready.
Asks(s) == IF s = "Ready" /\ torStatus # "Ready" /\ ~socks THEN <<"socks">> ELSE << >>

ErrorKeepsQueue ==
  /\ sock' = "closed" /\ hup' = FALSE /\ toTor' = << >> /\ fromTor' = << >>
  /\ UNCHANGED <<queue, stray>>
  /\ status' = "NotConnected" /\ Connectable(FALSE, "Unknown")
  /\ retry' = TRUE

ErrorKeepsSocks ==
  /\ sock' = "closed" /\ hup' = FALSE /\ toTor' = << >> /\ fromTor' = << >>
  /\ queue' = << >> /\ stray' = FALSE
  /\ status' = "NotConnected" /\ Connectable(socks, torStatus)
  /\ retry' = TRUE

\* setError on a connected socket: abort emits disconnected, which clears the
\* queue and overwrites the status.  On any other (below) the status stays in
\* Error, and the queue as it is.
SetErrorConnected ==
  /\ sock' = "closed" /\ hup' = FALSE /\ toTor' = << >> /\ fromTor' = << >>
  /\ queue' = << >> /\ stray' = FALSE
  /\ status' = "NotConnected" /\ Connectable(FALSE, "Unknown")
  /\ retry' = TRUE

ErrorWithoutRetry ==
  /\ sock' = "closed" /\ toTor' = << >> /\ stray' = (queue # << >>)
  /\ status' = "Error"
  /\ UNCHANGED <<hup, fromTor, queue, torStatus, socks, retry, dialling>>

FailedInstead ==
  /\ sock' = "closed" /\ toTor' = << >> /\ stray' = (queue # << >>)
  /\ status' = "Failed" /\ retry' = TRUE
  /\ UNCHANGED <<hup, fromTor, queue, torStatus, socks, dialling>>

\* setError on any other socket.
SetErrorConnecting ==
  /\ sock' = "closed" /\ toTor' = << >> /\ stray' = (queue # << >>)
  /\ status' = "Error" /\ retry' = TRUE
  /\ UNCHANGED <<hup, fromTor, queue, torStatus, socks, dialling>>

-----------------------------------------------------------------------------
\* The daemon, as far as the program can tell.

\* The process is started, and says so, or cannot be started.
LaunchDaemon(ok) ==
  /\ daemon = "launching"
  /\ ok \/ faults < MaxFaults
  /\ IF ok THEN /\ daemon' = "running" /\ proc' = "Connecting"
                /\ timer' = TRUE /\ ticks' = 0
           ELSE /\ daemon' = "reaped" /\ proc' = "Failed"
                /\ UNCHANGED <<timer, ticks>>
  /\ UNCHANGED <<port, net, circuit, session, applied, sock, wires, commands,
                 control, frontend, dialling, bounds>>

WritePortFile ==
  /\ daemon = "running" /\ ~port
  /\ port' = TRUE
  /\ UNCHANGED <<process, daemon, net, circuit, session, applied, sock, wires,
                 commands, control, frontend, dialling, bounds>>

\* One command: before authentication any other one is refused and the
\* connection closed; a service lives as long as the connection that added it.
Reply(c, ok) == [to |-> c, ok |-> ok, up |-> IF c = "socks" THEN net ELSE circuit]

AnswerCommand ==
  /\ daemon = "running" /\ sock = "open" /\ ~hup /\ toTor # << >>
  /\ LET c == Head(toTor)
         allowed == session.authed \/ c = "auth"
     IN  /\ fromTor' = Append(fromTor, Reply(c, allowed /\ ~(c = "onion" /\ session.onion)))
         /\ toTor' = IF allowed THEN Tail(toTor) ELSE << >>
         /\ hup' = ~allowed
         /\ session' = IF ~allowed THEN NoSession
                       ELSE [authed |-> TRUE,
                             events |-> session.events \/ c = "events",
                             onion |-> session.onion \/ c = "onion"]
         /\ net' = (net \/ (allowed /\ c = "net"))
         /\ applied' = IF allowed THEN applied \cup ({c} \cap {"user", "default"}) ELSE applied
  /\ UNCHANGED <<process, daemon, port, circuit, sock, commands, control, frontend,
                 dialling, bounds>>

\* Tor tells a connection that asked for events of its circuits.
ChangeCircuit ==
  /\ daemon = "running" /\ net
  /\ circuit => faults < MaxFaults
  /\ circuit' = ~circuit
  /\ faults' = faults + IF circuit THEN 1 ELSE 0
  /\ fromTor' = IF session.events /\ sock = "open"
                THEN Append(fromTor, [to |-> "event", ok |-> TRUE, up |-> ~circuit])
                ELSE fromTor
  /\ UNCHANGED <<process, daemon, port, net, session, applied, sock, hup, toTor,
                 commands, control, frontend, dialling, logins>>

\* The connection breaks; what was on its way may be lost.
Drop ==
  /\ sock = "open" /\ ~hup /\ faults < MaxFaults
  /\ hup' = TRUE /\ toTor' = << >>
  /\ fromTor' \in {fromTor, << >>}
  /\ session' = NoSession
  /\ faults' = faults + 1
  /\ UNCHANGED <<process, daemon, port, net, circuit, applied, sock, commands, control,
                 frontend, dialling, logins>>

Crash ==
  /\ daemon = "running" /\ faults < MaxFaults
  /\ daemon' = "dead" /\ net' = FALSE /\ circuit' = FALSE /\ session' = NoSession
  /\ hup' = (sock = "open") /\ toTor' = IF sock = "open" THEN << >> ELSE toTor
  /\ faults' = faults + 1
  /\ UNCHANGED <<process, port, applied, sock, fromTor, commands, control, frontend,
                 dialling, logins>>

-----------------------------------------------------------------------------
\* TorProcess and TorManager.

\* tryReadControlPort finds the port: the process is Ready, even when it has
\* failed by the timeout before or has died meanwhile, and TorControl connects
\* (connect aborts the socket with its signals blocked, so the queue stays).
ReadPort ==
  /\ timer /\ port
  /\ timer' = FALSE /\ proc' = "Ready"
  /\ address' = TRUE /\ sock' = "connecting" /\ status' = "Connecting"
  /\ UNCHANGED <<ticks, tor, wires, commands, torStatus, socks, retry, frontend,
                 dialling, bounds>>

MissPortStops ==
  /\ timer /\ ~port
  /\ ticks' = IF ticks > TickLimit THEN ticks ELSE ticks + 1
  /\ proc' = IF ticks' > TickLimit THEN "Failed" ELSE proc
  /\ timer' = (ticks' <= TickLimit)
  /\ UNCHANGED <<tor, sock, wires, commands, control, frontend, dialling, bounds>>

\* It does not: past the limit each attempt fails the process, and the timer
\* runs on.
MissPort ==
  /\ timer /\ ~port
  /\ ticks' = IF ticks > TickLimit THEN ticks ELSE ticks + 1
  /\ proc' = IF ticks' > TickLimit THEN "Failed" ELSE proc
  /\ UNCHANGED <<timer, tor, sock, wires, commands, control, frontend, dialling, bounds>>

\* processFinished returns early, with the timer running, when the timeout
\* has failed the process before.
ProcessFinished ==
  /\ daemon = "dead"
  /\ daemon' = "reaped"
  /\ IF proc = "Failed" THEN UNCHANGED <<proc, timer>>
     ELSE proc' = "Failed" /\ timer' = FALSE
  /\ UNCHANGED <<ticks, port, net, circuit, session, applied, sock, wires, commands,
                 control, frontend, dialling, bounds>>

-----------------------------------------------------------------------------
\* TorControl.

SocketConnected ==
  /\ sock = "connecting" /\ daemon = "running"
  /\ sock' = "open"
  /\ status' = "Authenticating"
  /\ queue' = Append(queue, "auth")
  /\ toTor' = Append(toTor, "auth")
  /\ session' = NoSession
  /\ UNCHANGED <<process, daemon, port, net, circuit, applied, hup, fromTor, stray, address, torStatus, socks, retry,
                 frontend, dialling, bounds>>

SocketRefused ==
  /\ sock = "connecting" /\ daemon # "running"
  /\ SetErrorConnecting
  /\ UNCHANGED <<process, tor, address, frontend, bounds>>

\* The end of the connection, read after everything before it.
SocketError ==
  /\ sock = "open" /\ hup /\ fromTor = << >>
  /\ SetErrorConnected
  /\ UNCHANGED <<process, tor, address, frontend, bounds>>

Reconnect ==
  /\ retry
  /\ retry' = FALSE
  /\ IF status \in {"Error", "NotConnected"}
     THEN status' = "Connecting" /\ sock' = "connecting"
     ELSE UNCHANGED <<status, sock>>
  /\ UNCHANGED <<process, tor, wires, commands, address, torStatus, socks, frontend,
                 dialling, bounds>>

\* authenticateReply
TakeAuthenticate(r) ==
  IF r.ok
  THEN /\ SendCommands(Tail(queue), <<"events", "events", "info">>)
       /\ Connectable(socks, "Unknown")
       /\ UNCHANGED <<sock, hup, status, retry, calls>>
  ELSE /\ SetErrorConnected
       /\ UNCHANGED calls

\* getTorInfoReply, for both of its commands: what it takes depends on the keys
\* of the reply; in any case the control connection counts as connected then,
\* and TorManager takes ownership before the frontend hears of it.
TakeInfo(r) ==
  LET known == socks \/ (r.to = "socks" /\ r.ok /\ r.up)
      s == IF r.to # "info" \/ ~r.ok THEN torStatus
           ELSE IF r.up THEN "Ready" ELSE "Offline"
      first == status # "Connected"
  IN  /\ Connectable(known, s)
      /\ SendCommands(Tail(queue), Asks(s) \o IF first THEN <<"own", "owner">> ELSE << >>)
      /\ status' = "Connected"
      /\ calls' = IF first THEN Append(calls, "connected") ELSE calls
      /\ UNCHANGED <<sock, hup, retry>>

\* SetConfCommand::onFinished tells the frontend, whoever sent the command.
TakeSetConf(r) ==
  /\ queue' = Tail(queue)
  /\ calls' = Append(calls, IF r.ok THEN "confirmed" ELSE "refused")
  /\ UNCHANGED <<sock, hup, toTor, stray, status, torStatus, socks, retry, dialling>>

\* Replies belong to the first command of the queue, whatever they answer.
ReadReply ==
  /\ sock = "open" /\ fromTor # << >> /\ Head(fromTor).to # "event"
  /\ fromTor' = IF queue # << >> /\ Head(queue) = "auth" /\ ~Head(fromTor).ok
                THEN << >> ELSE Tail(fromTor)
  /\ LET r == Head(fromTor) IN
     \/ /\ queue = << >>
        /\ UNCHANGED <<sock, hup, toTor, commands, status, torStatus, socks, retry,
                       calls, dialling>>
     \/ queue # << >> /\ Head(queue) = "auth" /\ TakeAuthenticate(r)
     \/ queue # << >> /\ Head(queue) \in GetInfo /\ TakeInfo(r)
     \/ queue # << >> /\ Head(queue) \in SetConf /\ TakeSetConf(r)
     \/ /\ queue # << >> /\ Head(queue) \in {"events", "own", "onion"}
        /\ queue' = Tail(queue)
        /\ UNCHANGED <<sock, hup, toTor, stray, status, torStatus, socks, retry, calls,
                       dialling>>
  /\ UNCHANGED <<process, tor, address, confirm, settings, bounds>>

\* statusEvent
ReadEvent ==
  /\ sock = "open" /\ fromTor # << >> /\ Head(fromTor).to = "event"
  /\ fromTor' = Tail(fromTor)
  /\ LET s == IF Head(fromTor).up THEN "Ready" ELSE "Offline" IN
     /\ Connectable(socks, s)
     /\ SendCommands(queue, Asks(s))
  /\ UNCHANGED <<process, tor, sock, hup, address, status, retry, frontend, bounds>>

-----------------------------------------------------------------------------
\* The frontend and the sockets that dial through tor.

\* The configuration that the settings file gives, once an IRC login's empty
\* one was saved or a failed one removed.
Configured == IF settings = "user" THEN "user" ELSE "default"

\* The "connected" handler of main.cpp configures tor, enables its network and
\* publishes the service, on whatever connection there is by then.
RunConnected ==
  /\ calls # << >> /\ Head(calls) = "connected"
  /\ calls' = Tail(calls)
  /\ SendCommands(queue, <<Configured, "net", "onion">>)
  /\ confirm' = "net"
  /\ UNCHANGED <<process, tor, sock, hup, fromTor, control, settings, dialling, bounds>>

\* on_update_tor_daemon_config_succeeded finishes the command that the shim made
\* last; that of a login then saves its configuration, or removes it.
RunConfigured ==
  /\ calls # << >> /\ Head(calls) \in {"confirmed", "refused"}
  /\ calls' = Tail(calls)
  /\ confirm' = "none"
  /\ settings' = IF confirm # "default" THEN settings
                 ELSE IF Head(calls) = "confirmed" THEN "saved" ELSE "removed"
  /\ UNCHANGED <<process, tor, sock, wires, commands, control, dialling, bounds>>

\* startRicochet and stopRicochet, at an IRC login and when the user leaves.
Login ==
  /\ logins < MaxLogins
  /\ logins' = logins + 1
  /\ SendCommands(queue, <<"default">>)
  /\ confirm' = "default"
  /\ UNCHANGED <<process, tor, sock, hup, fromTor, control, calls, settings, dialling, faults>>

\* TorSocket: a dialled circuit fails (onFailed), and is tried again when the timer
\* ends, if there is connectivity then.
DialFails ==
  /\ dial = "dialling"
  /\ dial' = "idle" /\ redial' = TRUE
  /\ UNCHANGED <<process, tor, sock, wires, commands, control, frontend, bounds>>

Redial ==
  /\ redial
  /\ redial' = FALSE
  /\ dial' = IF HasConnectivity THEN "dialling" ELSE dial
  /\ UNCHANGED <<process, tor, sock, wires, commands, control, frontend, bounds>>

-----------------------------------------------------------------------------
Daemon ==
  \/ \E ok \in BOOLEAN : LaunchDaemon(ok)
  \/ WritePortFile \/ AnswerCommand \/ ChangeCircuit \/ Drop \/ Crash

Program ==
  \/ ReadPort \/ MissPort \/ ProcessFinished
  \/ SocketConnected \/ SocketRefused \/ SocketError \/ Reconnect
  \/ ReadReply \/ ReadEvent \/ RunConnected \/ RunConfigured \/ Login
  \/ DialFails \/ Redial

Next == Daemon \/ Program

Spec == Init /\ [][Next]_vars

\* The event loop serves its timers, the process, the control socket and the
\* frontend's tasks, each in its turn.
FairLoop ==
  /\ WF_vars(ReadPort \/ ProcessFinished)
  /\ WF_vars(SocketConnected \/ SocketRefused \/ SocketError \/ ReadReply \/ ReadEvent)
  /\ WF_vars(Reconnect)
  /\ WF_vars(RunConnected \/ RunConfigured)
  /\ WF_vars(Redial)

\* Tor starts, opens its port, answers, and finds circuits when its network is
\* enabled.
FairTor ==
  /\ WF_vars(LaunchDaemon(TRUE) \/ WritePortFile)
  /\ WF_vars(AnswerCommand)
  /\ WF_vars(ChangeCircuit /\ ~circuit)

FairSpec == Spec /\ FairLoop /\ FairTor

-----------------------------------------------------------------------------
\* What makes the control connection correct.

TypeOK ==
  /\ proc \in {"Starting", "Connecting", "Ready", "Failed"}
  /\ timer \in BOOLEAN /\ ticks \in 0..(TickLimit + 1)
  /\ daemon \in {"launching", "running", "dead", "reaped"}
  /\ port \in BOOLEAN /\ net \in BOOLEAN /\ circuit \in BOOLEAN
  /\ session \in [authed : BOOLEAN, events : BOOLEAN, onion : BOOLEAN]
  /\ applied \subseteq {"user", "default"}
  /\ sock \in {"closed", "connecting", "open"} /\ hup \in BOOLEAN
  /\ toTor \in Seq(Commands) /\ fromTor \in Seq(Replies \cup Events)
  /\ queue \in Seq(Commands) /\ stray \in BOOLEAN
  /\ address \in BOOLEAN
  /\ status \in {"Error", "NotConnected", "Connecting", "Authenticating", "Connected"}
  /\ torStatus \in {"Unknown", "Offline", "Ready"}
  /\ socks \in BOOLEAN /\ retry \in BOOLEAN
  /\ calls \in Seq({"connected", "confirmed", "refused"})
  /\ confirm \in {"none", "net", "default"}
  /\ settings \in {"user", "saved", "removed"}
  /\ dial \in {"idle", "dialling"} /\ redial \in BOOLEAN
  /\ faults \in 0..MaxFaults /\ logins \in 0..MaxLogins

\* How many replies are among the first n messages of a wire from tor.
Answers(wire, n) == Cardinality({m \in 1..n : wire[m].to # "event"})

\* The replies on a wire answer the first commands of a queue, in their order, and
\* the rest of the queue is what tor has not read.
Matched(wire, unread, commandQueue) ==
  /\ Len(commandQueue) = Answers(wire, Len(wire)) + Len(unread)
  /\ \A n \in DOMAIN wire :
       wire[n].to # "event" => commandQueue[Answers(wire, n)] = wire[n].to
  /\ \A n \in DOMAIN unread : commandQueue[Answers(wire, Len(wire)) + n] = unread[n]

\* The commands that tor's replies answer are the first ones of the queue, in
\* order, and those it has not read are the rest: TorControlSocket pairs them by
\* position only, over every break, retry and refusal, as long as nothing was
\* queued for a closed socket.
RepliesMatch == sock = "open" /\ ~hup /\ ~stray => Matched(fromTor, toTor, queue)

\* Once the control port is known, a control connection that is lost, refused or
\* rejected always has a retry coming: reconnect() gives up silently when the
\* status has moved on.
RetryPending == address /\ status \in {"Error", "NotConnected"} => retry

\* What is known of tor's network and its SOCKS listener was told by the control
\* connection that is up now: nothing of an earlier one is believed or dialled.
ConnectivityIsTrue ==
  socks \/ torStatus # "Unknown"
    => sock = "open" /\ status \in {"Authenticating", "Connected"}

\* If tor stays up and no command was queued for a closed socket, the program
\* ends up connected to it, with its network usable and its service published,
\* whatever timed out, broke or was refused before.
Recovers ==
  <>[](daemon = "running" /\ ~stray) => <>[](HasConnectivity /\ session.onion)

\* A host that cannot be reached is dialled again and again while tor has
\* connectivity: the timer that ends without connectivity is not set again, and
\* the return of connectivity has to take its place.
DialsAgain ==
  <>[]HasConnectivity => []<>(dial = "dialling")

\* "only persist settings if config was set successfully": a configuration is
\* written to the settings file only after tor has set it.
SavedIsSet == settings = "saved" => "default" \in applied

=============================================================================
