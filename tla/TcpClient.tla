----------------------------- MODULE TcpClient -----------------------------
(***************************************************************************)
(* A TCP port that connects to a server (source_tcpout.c).  The gateway    *)
(* thread starts the worker when it first comes by, and polls, reads and   *)
(* sends as at the other socket ports; the worker connects, hands what it  *)
(* receives over through ChunkHandoff, and connects again when the         *)
(* connection is lost.                                                     *)
(*                                                                         *)
(* tcp->fd holds the socket as soon as socket() has made it, connected or  *)
(* not, and a connect that fails leaves it there: the worker gets rid of   *)
(* it because recv fails on it, too.  Where the worker is outside of the   *)
(* handoff follows from the state of that socket.                          *)
(***************************************************************************)
EXTENDS ChunkHandoff, ClientSockets

VARIABLES
    initialized,
    fd,           \* tcp->fd
    server,       \* the server accepts connections
    routing,      \* the gateway thread is in tcp_route_to, about to send
    alive         \* the process has not been killed

socketVars == <<fd, sock, server>>
tcpoutVars == <<initialized, socketVars, routing, alive>>
vars == <<handoffVars, tcpoutVars>>

FdIs(states) == fd # NoSocket /\ sock[fd] \in states
Connected    == FdIs({"up", "stalled"})

-----------------------------------------------------------------------------
\* hook_tcpout; tcp_state_init sets the rest before anything looks at it.
Init ==
    /\ HandoffInit
    /\ initialized = FALSE
    /\ SocketsInit /\ fd = NoSocket
    /\ server \in BOOLEAN
    /\ routing = FALSE /\ alive = TRUE

(***************************************************************************)
(* The server.                                                             *)
(***************************************************************************)
ServerSwitches == server' = ~server /\ UNCHANGED sock

PeerActs(step) == step /\ UNCHANGED server

Environment ==
    /\ alive
    /\ \/ ServerSwitches
       \/ \E s \in Sockets : PeerActs(Stalls(s)) \/ PeerActs(Reads(s)) \/ PeerActs(Leaves(s))
    /\ UNCHANGED <<handoffVars, initialized, fd, routing, alive>>

(***************************************************************************)
(* The worker thread, tcp_server.                                          *)
(***************************************************************************)
\* tcp_connect_to: socket().  A failure leaves -1 there, and it is tried again.
MakeSocket ==
    /\ wpc = "recv" /\ fd = NoSocket
    /\ \E s \in Sockets : Turns(s, {"closed"}, "fresh") /\ fd' = s
    /\ UNCHANGED <<handoffVars, server>>

\* setsockopt or inet_pton fails, and the socket stays where it is ...
SetupFails ==
    /\ Turns(fd, {"fresh"}, "refused")
    /\ UNCHANGED <<handoffVars, fd, server>>

\* ... or connect is called.
CallConnect ==
    /\ Turns(fd, {"fresh"}, "connecting")
    /\ UNCHANGED <<handoffVars, fd, server>>

ConnectReturns ==
    /\ Returns(fd, server)
    /\ UNCHANGED <<handoffVars, fd, server>>

\* recv has data; what the kernel holds comes before the end of the stream.
Receive ==
    /\ FdIs(WasConnected)
    /\ WorkerReceive
    /\ UNCHANGED socketVars

\* Mutant of Failing: only the end of the stream is acted upon.
FailingAtEnd == {"gone", "aborted", "reset"}

\* The states of a socket that recv fails on, or reports the end of.
Failing == {"refused", "gone", "aborted", "reset"}

\* Mutant of EndOfConnection: the field is reset without close().
EndOfConnectionNoClose ==
    /\ wpc = "recv" /\ FdIs(Failing)
    /\ fd' = NoSocket
    /\ UNCHANGED <<handoffVars, sock, server>>

\* recv returns 0 or -1: the socket is closed first ...
EndOfConnection ==
    /\ wpc = "recv"
    /\ Turns(fd, Failing, "closed")
    /\ UNCHANGED <<handoffVars, fd, server>>

\* ... and the field is reset afterwards.
ForgetSocket ==
    /\ wpc = "recv" /\ FdIs({"closed"})
    /\ fd' = NoSocket
    /\ UNCHANGED <<handoffVars, sock, server>>

Worker ==
    /\ alive
    /\ \/ MakeSocket \/ ConnectReturns \/ EndOfConnection \/ ForgetSocket
       \/ WorkerSteps /\ UNCHANGED socketVars
    /\ UNCHANGED <<initialized, routing, alive>>

Setup(step) == alive /\ step /\ UNCHANGED <<initialized, routing, alive>>

ReceiveStep == alive /\ Receive /\ UNCHANGED <<initialized, routing, alive>>

Wakeup == alive /\ SpuriousWakeup /\ UNCHANGED tcpoutVars

(***************************************************************************)
(* The gateway thread.                                                     *)
(***************************************************************************)
\* tcp_init, from tcp_has_more or tcp_route_to; a thrd_create that fails changes
\* nothing that the next attempt does not set again.
Initialize ==
    /\ alive /\ ~initialized /\ ~routing
    /\ initialized' = TRUE
    /\ WorkerStart
    /\ UNCHANGED <<socketVars, routing, alive>>

\* Each pass of pipeline_spin looks at the source.
Poll ==
    /\ alive /\ ~routing /\ HasMoreLoad
    /\ UNCHANGED tcpoutVars

InPoll ==
    /\ alive /\ gpc # "away" /\ GatewaySteps
    /\ UNCHANGED tcpoutVars

\* tcp_route_to drops the message when fd is -1 (which changes nothing) and
\* otherwise goes on to send.
RouteTo ==
    /\ alive /\ initialized /\ gpc = "away" /\ ~routing
    /\ fd # NoSocket
    /\ routing' = TRUE
    /\ UNCHANGED <<handoffVars, initialized, socketVars, alive>>

\* send(tcp->fd, ...) with the descriptor as it is by now; what it returns is
\* reported to pipeline_push, which does nothing with it.
Send ==
    /\ alive /\ routing
    /\ \E taken, survives \in BOOLEAN : SendOn(fd, taken, survives) /\ alive' = survives
    /\ routing' = FALSE
    /\ UNCHANGED <<handoffVars, initialized, fd, server>>

Next == \/ Environment \/ Worker \/ Setup(SetupFails) \/ Setup(CallConnect) \/ ReceiveStep \/ Wakeup
        \/ Initialize \/ Poll \/ InPoll \/ RouteTo \/ Send

\* As for the TCP port: threads run, the gateway thread comes back to the port,
\* a server that stalls reads again or leaves, and the calls before connect do
\* not fail for ever.
ServerReads(s) == /\ alive
                  /\ Reads(s) \/ (sock[s] = "stalled" /\ Leaves(s))
                  /\ UNCHANGED <<handoffVars, initialized, fd, server, routing, alive>>

Spec == /\ Init /\ [][Next]_vars
        /\ WF_vars(Worker) /\ WF_vars(Initialize) /\ SF_vars(Setup(CallConnect))
        /\ SF_vars(Poll) /\ WF_vars(InPoll) /\ SF_vars(Send)
        /\ \A s \in Sockets : WF_vars(ServerReads(s))
-----------------------------------------------------------------------------
(***************************************************************************)
(* Properties.                                                             *)
(***************************************************************************)

TcpoutTypeOK ==
    /\ initialized \in BOOLEAN
    /\ fd \in Sockets \cup {NoSocket}
    /\ sock \in [Sockets -> SocketStates]
    /\ server \in BOOLEAN /\ routing \in BOOLEAN /\ alive \in BOOLEAN

\* Types; and however often the connection fails or is lost, at whatever point, every
\* socket but the one in tcp->fd is closed, and the worker is in the handoff only
\* over a socket that is connected, or was.
OneSocket ==
    /\ TcpoutTypeOK
    /\ \A s \in Sockets : sock[s] # "closed" => s = fd
    /\ wpc \notin {"off", "recv"} => FdIs(WasConnected)
    /\ ~initialized => wpc = "off"

\* A worker whose chunk is consumed is not left asleep.
TcpoutResumes == wpc = "waiting" /\ cur_read >= buffer_size ~> wpc = "recv" \/ ~alive

\* A server that stays up is connected to, whatever has become of the attempts
\* and connections before: `retrying connection' ends in one.
Reconnects == server ~> Connected \/ ~server \/ ~alive
=============================================================================
