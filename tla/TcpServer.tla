----------------------------- MODULE TcpServer -----------------------------
(***************************************************************************)
(* A TCP port (source_tcp.c as main.c hooks it, with threads): one socket  *)
(* object that is both a source and a sink of the pipeline.  The gateway   *)
(* thread opens the listening socket lazily, polls and reads through the   *)
(* handoff of ChunkHandoff and sends replies; the worker thread accepts    *)
(* one client at a time and receives from it.                              *)
(*                                                                         *)
(* Clients come from outside: one may connect, send, stop reading, and     *)
(* close or abort its connection at any point.  A client that comes back   *)
(* is the next client.                                                     *)
(***************************************************************************)
EXTENDS ChunkHandoff

CONSTANTS Clients,      \* the connections that may be made
          NoClient,     \* tcp->connection == -1
          MaxLost       \* bound: descriptors lost to failed initializations

ASSUME TcpAssumption == NoClient \notin Clients /\ MaxLost \in Nat

VARIABLES
    initialized,  \* tcp->initialized
    fd,           \* tcp->fd: "none", "idle" (a socket that does not listen), "listening"
    lost,         \* how many descriptors earlier attempts overwrote without closing
    held,         \* one of them still listens on the port
    connection,   \* tcp->connection
    open,         \* the accepted sockets that are not closed
    backlog,      \* clients whose connection waits to be accepted
    peer,         \* what each client did last
    routing,      \* the gateway thread is in tcp_route_to_mt, about to send
    alive         \* the process has not been killed

portVars == <<initialized, fd, lost, held>>
connVars == <<connection, open, backlog, peer>>
tcpVars  == <<portVars, connVars, routing, alive>>
vars == <<handoffVars, tcpVars>>

\* "out": not connected yet; "up": connected and reading; "stalled": connected,
\* not reading, its window and our send buffer full; "gone": has closed;
\* "aborted": has reset the connection; "reset": the connection is dead and the
\* kernel has reported it, so that the next send raises SIGPIPE.
PeerStates == {"out", "up", "stalled", "gone", "aborted", "reset"}
Connected  == {c \in Clients : peer[c] \in {"up", "stalled"}}
Departed   == {c \in Clients : peer[c] \in {"gone", "aborted", "reset"}}

-----------------------------------------------------------------------------
\* hook_tcp; tcp_state_init sets the rest before anything looks at it.
Init ==
    /\ HandoffInit
    /\ initialized = FALSE /\ fd = "none" /\ lost = 0 /\ held = FALSE
    /\ connection = NoClient /\ open = {} /\ backlog = <<>>
    /\ peer = [c \in Clients |-> "out"]
    /\ routing = FALSE /\ alive = TRUE

(***************************************************************************)
(* The clients.                                                            *)
(***************************************************************************)
\* listen(fd, 1): Linux lets two connections wait.
Connect(c) ==
    /\ peer[c] = "out" /\ fd = "listening" /\ Len(backlog) < 2
    /\ peer' = [peer EXCEPT ![c] = "up"]
    /\ backlog' = Append(backlog, c)
    /\ UNCHANGED <<connection, open>>

PeerMoves(c, from, to) ==
    /\ peer[c] \in from
    /\ peer' = [peer EXCEPT ![c] = to]
    /\ UNCHANGED <<connection, open, backlog>>

Stall(c)  == PeerMoves(c, {"up"}, "stalled")
Resume(c) == PeerMoves(c, {"stalled"}, "up")
Close(c)  == PeerMoves(c, {"up", "stalled"}, "gone")
Abort(c)  == PeerMoves(c, {"up", "stalled"}, "aborted")

Environment ==
    /\ alive
    /\ \E c \in Clients : Connect(c) \/ Stall(c) \/ Resume(c) \/ Close(c) \/ Abort(c)
    /\ UNCHANGED <<handoffVars, portVars, routing, alive>>

(***************************************************************************)
(* The worker thread, tcp_server.                                          *)
(***************************************************************************)
\* accept; when it fails it changes nothing and is tried again.
Accept ==
    /\ wpc = "recv" /\ connection = NoClient /\ backlog # <<>>
    /\ connection' = Head(backlog)
    /\ open' = open \cup {Head(backlog)}
    /\ backlog' = Tail(backlog)
    /\ UNCHANGED <<handoffVars, peer>>

\* recv has data: what the kernel holds is delivered before the end of the
\* connection is, so the client may have left already.
Receive ==
    /\ connection \in open
    /\ WorkerReceive
    /\ UNCHANGED connVars

\* Mutant of CloseSocket: the end of the stream is not acted upon.
CloseNothing == open

\* close(tcp->connection)
CloseSocket == open \ {connection}

\* Mutant of EndOfClient: the field is reset without close().
EndOfClientNoClose ==
    /\ wpc = "recv" /\ connection \in open \cap Departed
    /\ connection' = NoClient
    /\ UNCHANGED <<handoffVars, open, backlog, peer>>

\* recv returns 0 or -1: the socket is closed first ...
EndOfClient ==
    /\ wpc = "recv" /\ connection \in open \cap Departed
    /\ open' = CloseSocket
    /\ UNCHANGED <<handoffVars, connection, backlog, peer>>

\* ... and the field is reset afterwards.
ResetConnection ==
    /\ wpc = "recv" /\ connection # NoClient /\ connection \notin open
    /\ connection' = NoClient
    /\ UNCHANGED <<handoffVars, open, backlog, peer>>

Handoff == WorkerSteps /\ UNCHANGED connVars

Worker ==
    /\ alive
    /\ Accept \/ EndOfClient \/ ResetConnection \/ Handoff
    /\ UNCHANGED <<portVars, routing, alive>>

(***************************************************************************)
(* The gateway thread.                                                     *)
(***************************************************************************)
\* tcp_init_mt up to where it fails.  A descriptor of the attempt before is
\* overwritten, not closed; if it listens, bind fails from then on, and the
\* clients in its queue are never accepted.
InitFails ==
    /\ ~initialized
    /\ fd # "none" => lost < MaxLost
    /\ lost' = IF fd = "none" THEN lost ELSE lost + 1
    /\ held' = (held \/ fd = "listening")
    /\ fd' \in IF held' THEN {"none", "idle"} ELSE {"none", "idle", "listening"}
    /\ backlog' = IF fd = "listening" THEN <<>> ELSE backlog
    /\ UNCHANGED <<handoffVars, initialized, connection, open, peer>>

InitSucceeds ==
    /\ ~initialized /\ ~held /\ fd # "listening"
    /\ fd # "none" => lost < MaxLost
    /\ lost' = IF fd = "none" THEN lost ELSE lost + 1
    /\ fd' = "listening" /\ initialized' = TRUE
    /\ WorkerStart
    /\ UNCHANGED <<held, connVars>>

\* tcp_has_more_mt and tcp_route_to_mt initialize the port when they come by.
Initialize ==
    /\ alive /\ ~routing /\ gpc = "away"
    /\ InitFails \/ InitSucceeds
    /\ UNCHANGED <<routing, alive>>

\* The gateway thread looks at the source; each pass of pipeline_spin does.
Poll ==
    /\ alive /\ ~routing /\ HasMoreLoad
    /\ UNCHANGED tcpVars

InPoll ==
    /\ alive /\ gpc # "away" /\ GatewaySteps
    /\ UNCHANGED tcpVars

\* tcp_route_to_mt drops the message when there is no client (which changes
\* nothing) and otherwise goes on to send.
RouteTo ==
    /\ alive /\ initialized /\ gpc = "away" /\ ~routing
    /\ connection # NoClient
    /\ routing' = TRUE
    /\ UNCHANGED <<handoffVars, portVars, connVars, alive>>

\* send(tcp->connection, ...) with the connection as it is by now.
SendEnds(newPeer, survives) ==
    /\ alive /\ routing
    /\ routing' = FALSE
    /\ peer' = newPeer /\ alive' = survives
    /\ UNCHANGED <<handoffVars, portVars, connection, open, backlog>>

\* The field is -1 or its descriptor is closed: EBADF.
SendBadFd == connection \notin open /\ SendEnds(peer, TRUE)

\* The client takes the bytes; one that does not read blocks the gateway thread.
SendTaken ==
    /\ connection \in open /\ peer[connection] = "up"
    /\ SendEnds(peer, TRUE)

\* The client has closed: the bytes are accepted, and answered, sooner or
\* later, by a reset.
SendToGone ==
    /\ connection \in open /\ peer[connection] = "gone"
    /\ \E p \in {"gone", "reset"} : SendEnds([peer EXCEPT ![connection] = p], TRUE)

\* The client has reset the connection: ECONNRESET, once.
SendRefused ==
    /\ connection \in open /\ peer[connection] = "aborted"
    /\ SendEnds([peer EXCEPT ![connection] = "reset"], TRUE)

\* EPIPE: without MSG_NOSIGNAL, and with SIGPIPE at its default, the process
\* is killed.
SendBroken ==
    /\ connection \in open /\ peer[connection] = "reset"
    /\ SendEnds(peer, FALSE)

Send == SendBadFd \/ SendTaken \/ SendToGone \/ SendRefused \/ SendBroken

ReceiveStep == alive /\ Receive /\ UNCHANGED <<portVars, routing, alive>>

Wakeup == alive /\ SpuriousWakeup /\ UNCHANGED tcpVars

Next == \/ Environment \/ Worker \/ ReceiveStep \/ Wakeup
        \/ Initialize \/ Poll \/ InPoll \/ RouteTo \/ Send

\* A client that stalls reads again or leaves, and one that reads now and then
\* lets a blocked send finish, hence the strong fairness of Send.  The gateway
\* thread looks at the port again and again whatever it routes in between (that
\* needs the other sources to run dry now and then), hence that of Poll.
ClientReads(c) == alive /\ (Resume(c) \/ (peer[c] = "stalled" /\ (Close(c) \/ Abort(c))))
                        /\ UNCHANGED <<handoffVars, portVars, routing, alive>>

Spec == /\ Init /\ [][Next]_vars
        /\ WF_vars(Worker)
        /\ SF_vars(Poll) /\ WF_vars(InPoll) /\ SF_vars(Send)
        /\ \A c \in Clients : WF_vars(ClientReads(c))
-----------------------------------------------------------------------------
(***************************************************************************)
(* Properties.                                                             *)
(***************************************************************************)

\* The types of the port's own variables, on top of the handoff's.
TcpTypeOK ==
    /\ HandoffTypeOK
    /\ initialized \in BOOLEAN /\ fd \in {"none", "idle", "listening"}
    /\ lost \in 0 .. MaxLost /\ held \in BOOLEAN
    /\ connection \in Clients \cup {NoClient}
    /\ open \subseteq Clients
    /\ backlog \in Seq(Clients)
    /\ peer \in [Clients -> PeerStates]
    /\ routing \in BOOLEAN /\ alive \in BOOLEAN

\* tcp_server closes the socket of every client it is done with: an accepted
\* socket that is still open is the one in tcp->connection.
NoLeakedClient == open \subseteq {connection}

\* Across disconnects and new clients the parser is given every byte that was
\* received, once and in order: the worker does not go back to accept or recv
\* over a chunk that is not consumed.
TcpImplementsStream == Stream!Spec

\* Whatever the client does, the bytes received from it reach the parser.
TcpDrained == []<>(Len(got) = recvd \/ ~alive)

\* A client in the queue is not left there behind one that has departed.
Stuck == alive /\ initialized /\ backlog # <<>> /\ connection \notin Connected
NextClientServed == Stuck ~> ~Stuck

\* `client close the socket' is an ordinary event: the gateway survives it.
SurvivesClientClose == alive
=============================================================================
