--------------------------- MODULE TcpClientProofs ---------------------------
(***************************************************************************)
(* The TCP client port, for buffers, streams and descriptors of every      *)
(* number: its worker only ever moves the handoff as ChunkHandoff does,    *)
(* whatever the server does, so that what is proved of that holds here;    *)
(* and however connections fail or end, no socket but the one in tcp->fd   *)
(* is left open.                                                           *)
(***************************************************************************)
EXTENDS TcpClient, ChunkHandoffProofs

\* What OneSocket says of the sockets.
OnlyFdOpen   == \A s \in Sockets : sock[s] # "closed" => s = fd
OverASocket  == wpc \notin {"off", "recv"} => FdIs(WasConnected)
StartedOnce  == ~initialized => wpc = "off"

\* OneSocket, in named parts; it is inductive as it stands.
LEMMA OneSocketParts ==
  OneSocket <=> TcpoutTypeOK /\ OnlyFdOpen /\ OverASocket /\ StartedOnce
  BY DEF OneSocket, OnlyFdOpen, OverASocket, StartedOnce

\* hook_tcpout.
LEMMA InitTcpout == Init => HandoffInit /\ OneSocket
  BY DEF Init, HandoffInit, SocketsInit, OneSocket, TcpoutTypeOK, SocketStates

\* tcp_server, tcp_has_more_mt and tcp_read_byte_mt are the handoff's two threads; all
\* else leaves the handoff alone.
LEMMA NextIsHandoff ==
  ASSUME [Next]_vars
  PROVE  [HandoffNext]_handoffVars
<1>1. CASE UNCHANGED vars \/ Environment
  BY <1>1 DEF vars, Environment
<1>2. CASE Worker
  BY <1>2 DEF Worker, MakeSocket, ConnectReturns, EndOfConnection, ForgetSocket, HandoffNext
<1>3. CASE Setup(SetupFails) \/ Setup(CallConnect)
  BY <1>3 DEF Setup, SetupFails, CallConnect
<1>4. CASE ReceiveStep \/ Wakeup \/ Poll \/ InPoll \/ Initialize
  BY <1>4 DEF ReceiveStep, Receive, Wakeup, Poll, InPoll, Initialize, HandoffNext, GatewaySteps
<1>5. CASE RouteTo \/ Send
  BY <1>5 DEF RouteTo, Send
<1> QED BY <1>1, <1>2, <1>3, <1>4, <1>5 DEF Next

\* A socket that is open turns to a state in which it still is; a connected one stays
\* one that was.
LEMMA TurnsOpen ==
  ASSUME OneSocket, UNCHANGED <<initialized, fd, wpc>>, TcpoutTypeOK',
         NEW s, NEW from, NEW to, Turns(s, from, to), "closed" \notin from,
         (\E b \in from : b \in WasConnected) => to \in WasConnected
  PROVE  OneSocket'
<1> USE DEF OnlyFdOpen, OverASocket, StartedOnce
<1>1. /\ sock[s] \in from /\ s # NoSocket
      /\ sock' = [sock EXCEPT ![s] = to]
  BY DEF Turns
<1>2. sock \in [Sockets -> SocketStates]
  BY DEF OneSocket, TcpoutTypeOK
<1>3. \A x \in Sockets : sock'[x] = IF x = s THEN to ELSE sock[x]
  BY <1>1, <1>2
<1>4. OnlyFdOpen'
  BY <1>1, <1>3, OneSocketParts
<1>5. OverASocket'
  <2>1. SUFFICES ASSUME wpc \notin {"off", "recv"} PROVE FdIs(WasConnected)'
    OBVIOUS
  <2>2. fd \in Sockets /\ fd # NoSocket /\ sock[fd] \in WasConnected
    BY <2>1, OneSocketParts DEF FdIs, TcpoutTypeOK
  <2>3. sock'[fd] \in WasConnected
    BY <1>1, <1>3, <2>2
  <2> QED BY <2>2, <2>3 DEF FdIs, WasConnected
<1>6. StartedOnce'
  BY OneSocketParts
<1> QED BY <1>4, <1>5, <1>6 DEF OneSocket

\* The steps that leave the sockets alone, and the worker where it was or in the handoff.
LEMMA KeepsSockets ==
  ASSUME OneSocket, TcpoutTypeOK', UNCHANGED <<fd, sock>>,
         wpc' \notin {"off", "recv"} => wpc \notin {"off", "recv"} \/ FdIs(WasConnected),
         ~initialized' => ~initialized /\ wpc' = wpc
  PROVE  OneSocket'
<1>1. OnlyFdOpen'
  BY OneSocketParts DEF OnlyFdOpen
<1>2. OverASocket'
  BY OneSocketParts DEF OverASocket, FdIs
<1>3. StartedOnce'
  BY OneSocketParts DEF StartedOnce
<1> QED BY <1>1, <1>2, <1>3 DEF OneSocket, OnlyFdOpen, OverASocket, StartedOnce

\* Types: a socket turns to another state of sockets.
LEMMA TurnsType ==
  ASSUME sock \in [Sockets -> SocketStates], NEW s, NEW from, NEW to \in SocketStates,
         Turns(s, from, to)
  PROVE  sock' \in [Sockets -> SocketStates]
  BY DEF Turns

\* A server switches, or does something to one connection.
LEMMA EnvironmentSocket ==
  ASSUME OneSocket, Environment
  PROVE  OneSocket'
<1>1. /\ UNCHANGED <<initialized, fd, wpc, routing, alive>>
      /\ TcpoutTypeOK
  BY OneSocketParts DEF Environment, handoffVars
<1>2. CASE ServerSwitches
  <2>1. UNCHANGED sock /\ TcpoutTypeOK'
    BY <1>1, <1>2 DEF ServerSwitches, TcpoutTypeOK
  <2> QED BY <1>1, <2>1, KeepsSockets
<1>3. ASSUME NEW s \in Sockets, UNCHANGED server, Stalls(s) \/ Reads(s) \/ Leaves(s)
      PROVE  OneSocket'
  <2>1. PICK from \in SUBSET {"up", "stalled"}, to \in {"up", "stalled", "gone", "aborted"} :
          Turns(s, from, to)
    BY <1>3 DEF Stalls, Reads, Leaves
  <2>2. to \in SocketStates /\ to \in WasConnected /\ "closed" \notin from
    BY <2>1 DEF SocketStates, WasConnected
  <2>3. TcpoutTypeOK'
    BY <1>1, <1>3, <2>1, <2>2, TurnsType DEF TcpoutTypeOK
  <2> QED BY <1>1, <2>1, <2>2, <2>3, TurnsOpen
<1> QED BY <1>2, <1>3 DEF Environment, PeerActs

\* Connecting, which happens outside of the handoff.
LEMMA ConnectingSocket ==
  ASSUME OneSocket, Setup(SetupFails) \/ Setup(CallConnect) \/ ConnectReturns,
         UNCHANGED <<initialized, routing, alive>>
  PROVE  OneSocket'
<1>1. /\ UNCHANGED <<handoffVars, fd, server>> /\ TcpoutTypeOK
      /\ UNCHANGED wpc
  BY OneSocketParts
  DEF Setup, SetupFails, CallConnect, ConnectReturns, handoffVars
<1>2. PICK from \in SUBSET {"fresh", "connecting"}, to \in {"connecting", "refused", "up"} :
        Turns(fd, from, to)
  BY DEF Setup, SetupFails, CallConnect, ConnectReturns, Returns
<1>3. TcpoutTypeOK'
  BY <1>1, <1>2, TurnsType DEF TcpoutTypeOK, SocketStates
<1> QED BY <1>1, <1>2, <1>3, TurnsOpen DEF WasConnected

\* socket() finds every socket closed, close() leaves them so, and fd = -1 follows it.
LEMMA MakeSocketOne ==
  ASSUME OneSocket, MakeSocket, UNCHANGED <<initialized, routing, alive>>
  PROVE  OneSocket'
<1>1. PICK s \in Sockets : Turns(s, {"closed"}, "fresh") /\ fd' = s
  BY DEF MakeSocket
<1>2. /\ wpc = "recv" /\ UNCHANGED <<wpc, server>> /\ fd = NoSocket /\ TcpoutTypeOK
  BY OneSocketParts DEF MakeSocket, handoffVars
<1>3. TcpoutTypeOK'
  BY <1>1, <1>2, TurnsType DEF TcpoutTypeOK, SocketStates
<1>4. \A x \in Sockets : sock[x] = "closed"
  BY <1>2, OneSocketParts, SocketsAssumption DEF OnlyFdOpen
<1>5. OnlyFdOpen'
  BY <1>1, <1>4 DEF OnlyFdOpen, Turns
<1>6. OverASocket' /\ StartedOnce'
  BY <1>2, OneSocketParts DEF OverASocket, StartedOnce
<1> QED BY <1>3, <1>5, <1>6 DEF OneSocket, OnlyFdOpen, OverASocket, StartedOnce

\* The end of a connection.
LEMMA EndsSocket ==
  ASSUME OneSocket, EndOfConnection \/ ForgetSocket, UNCHANGED <<initialized, routing, alive>>
  PROVE  OneSocket'
<1>1. wpc = "recv" /\ UNCHANGED <<wpc, server>> /\ TcpoutTypeOK
  BY OneSocketParts DEF EndOfConnection, ForgetSocket, handoffVars
<1>2. OverASocket' /\ StartedOnce'
  BY <1>1, OneSocketParts DEF OverASocket, StartedOnce
<1>3. CASE EndOfConnection
  <2>1. Turns(fd, Failing, "closed") /\ UNCHANGED fd
    BY <1>3 DEF EndOfConnection
  <2>2. TcpoutTypeOK'
    BY <1>1, <2>1, TurnsType DEF TcpoutTypeOK, SocketStates
  <2>3. OnlyFdOpen'
    BY <1>1, <2>1, OneSocketParts DEF OnlyFdOpen, Turns, TcpoutTypeOK
  <2> QED BY <1>2, <2>2, <2>3 DEF OneSocket, OnlyFdOpen, OverASocket, StartedOnce
<1>4. CASE ForgetSocket
  <2>1. fd' = NoSocket /\ UNCHANGED sock /\ sock[fd] = "closed"
    BY <1>4 DEF ForgetSocket, FdIs
  <2>2. TcpoutTypeOK'
    BY <1>1, <2>1 DEF TcpoutTypeOK
  <2>3. OnlyFdOpen'
    BY <2>1, OneSocketParts DEF OnlyFdOpen
  <2> QED BY <1>2, <2>2, <2>3 DEF OneSocket, OnlyFdOpen, OverASocket, StartedOnce
<1> QED BY <1>3, <1>4

\* A send tells the process, or the socket, of a connection that has ended.
LEMMA SendSocket ==
  ASSUME OneSocket, Send
  PROVE  OneSocket'
<1>1. /\ UNCHANGED <<initialized, fd, wpc, server>> /\ TcpoutTypeOK
      /\ routing' \in BOOLEAN /\ alive' \in BOOLEAN
  BY OneSocketParts DEF Send, handoffVars
<1>2. PICK taken \in BOOLEAN, survives \in BOOLEAN : SendOn(fd, taken, survives)
  BY DEF Send
<1>3. CASE UNCHANGED sock
  <2>1. TcpoutTypeOK'
    BY <1>1, <1>3 DEF TcpoutTypeOK
  <2> QED BY <1>1, <1>3, <2>1, KeepsSockets
<1>4. CASE \E from \in {"fresh", "refused", "up", "gone", "aborted", "reset"} :
             Turns(fd, {from}, from)
  <2>1. PICK from \in {"fresh", "refused", "up", "gone", "aborted", "reset"} :
          Turns(fd, {from}, from)
    BY <1>4
  <2>2. TcpoutTypeOK'
    BY <1>1, <2>1, TurnsType DEF TcpoutTypeOK, SocketStates
  <2> QED BY <1>1, <2>1, <2>2, TurnsOpen
<1>5. CASE \E from \in {"gone", "aborted"} : Turns(fd, {from}, "reset")
  <2>1. PICK from \in {"gone", "aborted"} : Turns(fd, {from}, "reset")
    BY <1>5
  <2>2. TcpoutTypeOK'
    BY <1>1, <2>1, TurnsType DEF TcpoutTypeOK, SocketStates
  <2> QED BY <1>1, <2>1, <2>2, TurnsOpen DEF WasConnected
<1> QED BY <1>2, <1>3, <1>4, <1>5 DEF SendOn, BadDescriptor

\* The worker enters the handoff only with what it received over the socket.
LEMMA HandoffSocket ==
  ASSUME OneSocket, WorkerSteps \/ Receive \/ SpuriousWakeup,
         UNCHANGED tcpoutVars
  PROVE  OneSocket'
<1>1. UNCHANGED <<fd, sock, initialized>> /\ TcpoutTypeOK /\ TcpoutTypeOK'
  BY OneSocketParts DEF tcpoutVars, socketVars, TcpoutTypeOK
<1>2. wpc # "off" /\ wpc' # "off"
  BY DEF WorkerSteps, WorkerLock, StoreCurRead, StoreBufferSize, WorkerTest, AfterTest,
         Receive, WorkerReceive, SpuriousWakeup
<1>3. initialized
  BY <1>2, OneSocketParts DEF StartedOnce
<1>4. wpc \notin {"off", "recv"} \/ FdIs(WasConnected)
  BY DEF WorkerSteps, WorkerLock, StoreCurRead, StoreBufferSize, WorkerTest, AfterTest,
         Receive, WorkerReceive, SpuriousWakeup
<1> QED BY <1>1, <1>3, <1>4, KeepsSockets

\* The gateway thread's steps at the port move the worker at most out of its sleep.
LEMMA GatewaySocket ==
  ASSUME OneSocket, Initialize \/ Poll \/ InPoll \/ RouteTo
  PROVE  OneSocket'
<1>1. TcpoutTypeOK
  BY OneSocketParts
<1>2. CASE Initialize
  <2>1. initialized' = TRUE /\ wpc' = "recv" /\ UNCHANGED <<fd, sock>>
    BY <1>2 DEF Initialize, WorkerStart, socketVars
  <2>2. TcpoutTypeOK'
    BY <1>1, <1>2 DEF Initialize, socketVars, TcpoutTypeOK
  <2> QED BY <2>1, <2>2, KeepsSockets
<1>3. CASE RouteTo
  <2>1. UNCHANGED <<fd, sock, wpc, initialized>> /\ TcpoutTypeOK'
    BY <1>1, <1>3 DEF RouteTo, handoffVars, socketVars, TcpoutTypeOK
  <2> QED BY <2>1, KeepsSockets
<1>4. CASE Poll \/ InPoll
  <2>1. UNCHANGED <<fd, sock, initialized>> /\ TcpoutTypeOK'
    BY <1>1, <1>4 DEF Poll, InPoll, tcpoutVars, socketVars, TcpoutTypeOK
  <2>2. wpc' = wpc \/ (wpc = "waiting" /\ wpc' = "woken")
    BY <1>4 DEF Poll, InPoll, GatewaySteps, HasMoreLoad, HasMoreTest, HasMoreSignal,
                Signalled, ReadByte
  <2>3. ~initialized => wpc' = wpc
    BY <2>2, OneSocketParts DEF StartedOnce
  <2> QED BY <2>1, <2>2, <2>3, KeepsSockets
<1> QED BY <1>2, <1>3, <1>4

\* Every step closes what it no longer uses.
LEMMA NextSocket ==
  ASSUME OneSocket, [Next]_vars
  PROVE  OneSocket'
<1>1. CASE UNCHANGED vars
  BY <1>1 DEF vars, handoffVars, tcpoutVars, socketVars, OneSocket, TcpoutTypeOK, FdIs
<1>2. CASE Worker
  BY <1>2, ConnectingSocket, MakeSocketOne, EndsSocket, HandoffSocket DEF Worker, tcpoutVars
<1>3. CASE Setup(SetupFails) \/ Setup(CallConnect)
  BY <1>3, ConnectingSocket DEF Setup
<1>4. CASE ReceiveStep \/ Wakeup
  BY <1>4, HandoffSocket DEF ReceiveStep, Receive, Wakeup, tcpoutVars
<1> QED BY <1>1, <1>2, <1>3, <1>4, EnvironmentSocket, GatewaySocket, SendSocket DEF Next

-----------------------------------------------------------------------------
\* The threads of the port, seen from its buffer, are those of the handoff.
THEOREM TcpoutIsHandoff == Spec => HandoffSpec
<1>1. [Next]_vars => [HandoffNext]_handoffVars
  BY NextIsHandoff
<1> QED BY InitTcpout, <1>1, PTL DEF Spec, HandoffSpec

\* However often a connection fails or is lost, and wherever the worker is then, what is
\* no longer used is closed, and bytes are handed over only from a socket that had them.
THEOREM TcpoutOneSocket == Spec => []OneSocket
<1>1. OneSocket /\ [Next]_vars => OneSocket'
  BY NextSocket
<1> QED BY InitTcpout, <1>1, PTL DEF Spec

\* The indices of tcp->buffer stay inside it, the chunk is the unread end of the stream, and
\* has_more does not mislead read_byte, also when connections come and go.
THEOREM TcpoutHandoff == Spec => [](HandoffTypeOK /\ HandoffInv)
  BY TcpoutIsHandoff, HandoffTypes, HandoffInvariant, PTL

\* The parser is given the received bytes once and in order, across reconnections.
THEOREM TcpoutRefines == Spec => ImplementsStream
  BY TcpoutIsHandoff, HandoffRefines, PTL

\* The port is one of those that Gateway assumes: its worker rests between two chunks.
THEOREM TcpoutIsPort == Spec => ActsAsPort
  BY TcpoutIsHandoff, HandoffIsPort, PTL
=============================================================================
