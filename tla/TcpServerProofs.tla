--------------------------- MODULE TcpServerProofs ---------------------------
(***************************************************************************)
(* The TCP port, for buffers, streams and clients of every number: it only *)
(* ever moves its handoff as ChunkHandoff does, so that what is proved of  *)
(* that holds here, whatever the clients do; its own types; and that no    *)
(* accepted socket is left open.                                           *)
(***************************************************************************)
EXTENDS TcpServer, ChunkHandoffProofs

\* The types of the port's own variables.
PortTypes ==
    /\ initialized \in BOOLEAN /\ fd \in {"none", "idle", "listening"}
    /\ lost \in 0 .. MaxLost /\ held \in BOOLEAN
    /\ connection \in Clients \cup {NoClient}
    /\ open \subseteq Clients
    /\ backlog \in Seq(Clients)
    /\ peer \in [Clients -> PeerStates]
    /\ routing \in BOOLEAN /\ alive \in BOOLEAN

TcpInv == PortTypes /\ NoLeakedClient

\* hook_tcp.
LEMMA InitTcp == Init => HandoffInit /\ TcpInv
<1> SUFFICES ASSUME Init PROVE HandoffInit /\ TcpInv
  OBVIOUS
<1>1. peer \in [Clients -> PeerStates]
  BY DEF Init, PeerStates
<1>2. lost \in 0 .. MaxLost /\ backlog \in Seq(Clients)
  BY TcpAssumption DEF Init
<1>3. HandoffInit /\ open = {} /\ connection = NoClient
  BY DEF Init
<1> QED BY <1>1, <1>2, <1>3 DEF Init, TcpInv, PortTypes, NoLeakedClient

\* tcp_server, tcp_has_more_mt and tcp_read_byte_mt are the handoff's two threads; all
\* else leaves the handoff alone.
LEMMA NextIsHandoff ==
  ASSUME [Next]_vars
  PROVE  [HandoffNext]_handoffVars
<1>1. CASE UNCHANGED vars
  BY <1>1 DEF vars
<1>2. CASE Environment
  BY <1>2 DEF Environment
<1>3. CASE Worker
  BY <1>3 DEF Worker, Accept, EndOfClient, ResetConnection, Handoff, HandoffNext
<1>4. CASE ReceiveStep \/ Wakeup \/ Poll \/ InPoll
  BY <1>4 DEF ReceiveStep, Receive, Wakeup, Poll, InPoll, HandoffNext, GatewaySteps
<1>5. CASE Initialize
  BY <1>5 DEF Initialize, InitFails, InitSucceeds, HandoffNext
<1>6. CASE RouteTo \/ Send
  BY <1>6 DEF RouteTo, Send, SendBadFd, SendTaken, SendToGone, SendRefused, SendBroken, SendEnds
<1> QED BY <1>1, <1>2, <1>3, <1>4, <1>5, <1>6 DEF Next

\* What the clients do.
LEMMA EnvironmentTcp ==
  ASSUME TcpInv, Environment
  PROVE  TcpInv'
<1>1. /\ UNCHANGED <<portVars, routing, alive, connection, open>>
      /\ peer' \in [Clients -> PeerStates]
      /\ backlog' \in Seq(Clients)
  BY DEF Environment, Connect, Stall, Resume, Close, Abort, PeerMoves, TcpInv, PortTypes,
         PeerStates
<1> QED BY <1>1 DEF TcpInv, PortTypes, NoLeakedClient, portVars

\* accept finds no socket open, and tcp_server closes one before it forgets it.
LEMMA WorkerTcp ==
  ASSUME TcpInv, Worker
  PROVE  TcpInv'
<1>1. UNCHANGED <<portVars, routing, alive>>
  BY DEF Worker
<1>2. CASE Accept
  <2>1. /\ backlog \in Seq(Clients) /\ backlog # <<>>
        /\ connection = NoClient /\ connection' = Head(backlog)
        /\ open' = open \cup {Head(backlog)} /\ backlog' = Tail(backlog)
        /\ UNCHANGED peer
    BY <1>2 DEF Accept, TcpInv, PortTypes
  <2>2. Head(backlog) \in Clients /\ Tail(backlog) \in Seq(Clients)
    BY <2>1
  <2>3. open = {}
    BY <2>1, TcpAssumption DEF TcpInv, PortTypes, NoLeakedClient
  <2> QED BY <1>1, <2>1, <2>2, <2>3 DEF TcpInv, PortTypes, NoLeakedClient, portVars
<1>3. CASE EndOfClient
  BY <1>1, <1>3 DEF EndOfClient, CloseSocket, TcpInv, PortTypes, NoLeakedClient, portVars
<1>4. CASE ResetConnection
  BY <1>1, <1>4 DEF ResetConnection, TcpInv, PortTypes, NoLeakedClient, portVars
<1>5. CASE Handoff
  BY <1>1, <1>5 DEF Handoff, TcpInv, PortTypes, NoLeakedClient, portVars, connVars
<1> QED BY <1>2, <1>3, <1>4, <1>5 DEF Worker

\* A descriptor is lost at each failed initialization, up to the bound.
LEMMA InitializeTcp ==
  ASSUME TcpInv, Initialize
  PROVE  TcpInv'
<1>1. UNCHANGED <<routing, alive, connection, open, peer>>
  BY DEF Initialize, InitFails, InitSucceeds, connVars
<1>2. lost' \in 0 .. MaxLost
  <2>1. lost \in 0 .. MaxLost /\ MaxLost \in Nat
    BY TcpAssumption DEF TcpInv, PortTypes
  <2>2. lost' = lost \/ (lost < MaxLost /\ lost' = lost + 1)
    <3>1. CASE fd = "none"
      BY <3>1 DEF Initialize, InitFails, InitSucceeds
    <3>2. CASE fd # "none"
      BY <3>2 DEF Initialize, InitFails, InitSucceeds
    <3> QED BY <3>1, <3>2
  <2> QED BY <2>1, <2>2
<1>3. fd' \in {"none", "idle", "listening"}
  BY DEF Initialize, InitFails, InitSucceeds
<1>4. held' \in BOOLEAN /\ initialized' \in BOOLEAN
  <2>1. held \in BOOLEAN /\ initialized \in BOOLEAN
    BY DEF TcpInv, PortTypes
  <2>2. CASE InitFails
    <3>1. held' = (held \/ fd = "listening") /\ initialized' = initialized
      BY <2>2 DEF InitFails
    <3> QED BY <2>1, <3>1, Zenon
  <2>3. CASE InitSucceeds
    BY <2>1, <2>3, Zenon DEF InitSucceeds
  <2> QED BY <2>2, <2>3 DEF Initialize
<1>5. backlog' \in Seq(Clients)
  <2>1. backlog \in Seq(Clients) /\ <<>> \in Seq(Clients)
    BY DEF TcpInv, PortTypes
  <2>2. backlog' = backlog \/ backlog' = <<>>
    BY DEF Initialize, InitFails, InitSucceeds, connVars
  <2> QED BY <2>1, <2>2
<1> QED BY <1>1, <1>2, <1>3, <1>4, <1>5 DEF TcpInv, PortTypes, NoLeakedClient

\* A send only tells of the client.
LEMMA SendTcp ==
  ASSUME TcpInv, Send
  PROVE  TcpInv'
<1>1. /\ UNCHANGED <<portVars, connection, open, backlog>> /\ routing' = FALSE
      /\ alive' \in BOOLEAN
  BY DEF Send, SendBadFd, SendTaken, SendToGone, SendRefused, SendBroken, SendEnds
<1>2. peer' \in [Clients -> PeerStates]
  BY DEF Send, SendBadFd, SendTaken, SendToGone, SendRefused, SendBroken, SendEnds,
         TcpInv, PortTypes, PeerStates
<1> QED BY <1>1, <1>2 DEF TcpInv, PortTypes, NoLeakedClient, portVars

\* Every step keeps the types, and closes what it no longer uses.
LEMMA NextTcp ==
  ASSUME TcpInv, [Next]_vars
  PROVE  TcpInv'
<1>1. CASE UNCHANGED tcpVars
  BY <1>1 DEF tcpVars, portVars, connVars, TcpInv, PortTypes, NoLeakedClient
<1>2. CASE ReceiveStep
  BY <1>2 DEF ReceiveStep, Receive, portVars, connVars, TcpInv, PortTypes, NoLeakedClient
<1>3. CASE RouteTo
  BY <1>3 DEF RouteTo, portVars, connVars, TcpInv, PortTypes, NoLeakedClient
<1>4. UNCHANGED vars \/ Wakeup \/ Poll \/ InPoll => UNCHANGED tcpVars
  BY DEF vars, Wakeup, Poll, InPoll
<1> QED BY <1>1, <1>2, <1>3, <1>4, EnvironmentTcp, WorkerTcp, InitializeTcp, SendTcp
        DEF Next

-----------------------------------------------------------------------------
\* tcp_server as main.c hooks it is the handoff, with clients.
THEOREM TcpIsHandoff == Spec => HandoffSpec
<1>1. [Next]_vars => [HandoffNext]_handoffVars
  BY NextIsHandoff
<1> QED BY InitTcp, <1>1, PTL DEF Spec, HandoffSpec

\* The invariant of the port's own variables.
THEOREM TcpInvariant == Spec => []TcpInv
<1>1. TcpInv /\ [Next]_vars => TcpInv'
  BY NextTcp
<1> QED BY InitTcp, <1>1, PTL DEF Spec

\* Types, the indices of the shared buffer among them.
THEOREM TcpTypes == Spec => []TcpTypeOK
<1>1. HandoffTypeOK /\ TcpInv => TcpTypeOK
  BY DEF TcpInv, PortTypes, TcpTypeOK
<1> QED BY TcpIsHandoff, HandoffTypes, TcpInvariant, <1>1, PTL

\* tcp_server closes every accepted socket that it is done with.
THEOREM TcpLeaksNoClient == Spec => []NoLeakedClient
<1>1. TcpInv => NoLeakedClient
  BY DEF TcpInv
<1> QED BY TcpInvariant, <1>1, PTL

\* Whatever the clients do, the parser is given the received bytes once and in order.
THEOREM TcpRefines == Spec => TcpImplementsStream
<1>1. ImplementsStream <=> TcpImplementsStream
  BY DEF ImplementsStream, TcpImplementsStream
<1> QED BY TcpIsHandoff, HandoffRefines, <1>1, PTL

\* Whatever happens around it, the chunk in the buffer is the unread end of the stream,
\* and what has_more sees without the lock never leads read_byte astray.
THEOREM TcpHandoff == Spec => []HandoffInv
  BY TcpIsHandoff, HandoffInvariant, PTL

\* The TCP port is one of those that Gateway assumes: having published a chunk, its
\* worker rests until it is called with the chunk consumed.
THEOREM TcpIsPort == Spec => ActsAsPort
  BY TcpIsHandoff, HandoffIsPort, PTL

-----------------------------------------------------------------------------
\* No client closes or aborts its connection.
NobodyLeaves == [][\A c \in Clients : ~(Close(c) \/ Abort(c))]_vars

\* Then no connection is dead, and the process has not been killed.
NoneLeft == alive /\ peer \in [Clients -> {"out", "up", "stalled"}]

\* To a client that stays, send works or waits.
LEMMA NextNoneLeft ==
  ASSUME TcpInv, NoneLeft, [Next]_vars,
         [\A c \in Clients : ~(Close(c) \/ Abort(c))]_vars
  PROVE  NoneLeft'
<1>1. CASE UNCHANGED <<peer, alive>>
  BY <1>1 DEF NoneLeft
<1>2. CASE Environment /\ ~UNCHANGED vars
  <2>1. PICK c \in Clients : Connect(c) \/ Stall(c) \/ Resume(c)
    BY <1>2 DEF Environment
  <2>2. \E s \in {"out", "up", "stalled"} : peer' = [peer EXCEPT ![c] = s]
    BY <2>1 DEF Connect, Stall, Resume, PeerMoves
  <2> QED BY <1>2, <2>2 DEF NoneLeft, Environment
<1>3. CASE Send
  <2>1. connection \in open => peer[connection] \in {"out", "up", "stalled"}
    BY DEF NoneLeft, TcpInv, PortTypes
  <2>2. SendBadFd \/ SendTaken
    BY <1>3, <2>1 DEF Send, SendToGone, SendRefused, SendBroken
  <2> QED BY <2>2 DEF SendBadFd, SendTaken, SendEnds, NoneLeft
<1>4. UNCHANGED vars \/ Worker \/ ReceiveStep \/ Wakeup \/ Initialize \/ Poll \/ InPoll \/ RouteTo
        => UNCHANGED <<peer, alive>>
  BY DEF vars, tcpVars, connVars, Worker, Accept, EndOfClient, ResetConnection, Handoff,
         ReceiveStep, Receive, Wakeup, Initialize, InitFails, InitSucceeds, Poll, InPoll,
         RouteTo
<1> QED BY <1>1, <1>2, <1>3, <1>4 DEF Next

\* What the run tcp_sigpipe finds is due to clients that leave alone: as long as none
\* does, no sequence of connections, stalls and sends kills the gateway.
THEOREM TcpSurvives == Spec /\ NobodyLeaves => []SurvivesClientClose
<1>1. Init => NoneLeft
  BY DEF Init, NoneLeft
<1>2. TcpInv /\ NoneLeft /\ [Next]_vars /\ [\A c \in Clients : ~(Close(c) \/ Abort(c))]_vars
        => NoneLeft'
  BY NextNoneLeft
<1>3. NoneLeft => SurvivesClientClose
  BY DEF NoneLeft, SurvivesClientClose
<1> QED BY TcpInvariant, <1>1, <1>2, <1>3, PTL DEF Spec, NobodyLeaves
=============================================================================
