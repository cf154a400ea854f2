--------------------------- MODULE TcpBridgeProofs ---------------------------
(***************************************************************************)
(* The bridge, for any descriptors, queue bounds and packets: its types,   *)
(* what its queues hold, that each tunnel implements PacketQueue, and who  *)
(* may refer to which socket.                                              *)
(***************************************************************************)
EXTENDS TcpBridge, TLAPS

\* The number of the last packet of tunnel t that is not in its queue.
Behind(t) == pushed[t] - Len(queue[t])

\* QueueInv for one tunnel.
TunnelInv(t) ==
    /\ Behind(t) >= 0
    /\ \A i \in 1 .. Len(queue[t]) : queue[t][i] = Behind(t) + i
    /\ IF spc[t] \in {"test", "send"} THEN hand[t] = Behind(t) /\ hand[t] > 0
                                       ELSE hand[t] = 0
    /\ spc[t] = "asleep" => queue[t] = <<>>

\* A step of PacketQueue, or none, for tunnel t.
Received(t) == /\ pushed'[t] = pushed[t] + 1
               /\ First(t)' = First(t) /\ sent'[t] = sent[t]
Left(t)     == /\ First(t) <= pushed[t] /\ First(t)' = First(t) + 1
               /\ pushed'[t] = pushed[t]
               /\ sent'[t] = Append(sent[t], First(t)) \/ sent'[t] = sent[t]
Cleared(t)  == /\ MaxQueue[t] > 0 /\ pushed[t] - First(t) + 1 > MaxQueue[t]
               /\ First(t)' = pushed[t] + 1
               /\ pushed'[t] = pushed[t] /\ sent'[t] = sent[t]
Same(t)     == First(t)' = First(t) /\ pushed'[t] = pushed[t] /\ sent'[t] = sent[t]
QueueStep(t) == Received(t) \/ Left(t) \/ Cleared(t) \/ Same(t)

\* QueueInv says the same of both tunnels.
LEMMA QueueInvParts == QueueInv <=> BridgeTypeOK /\ \A t \in Sides : TunnelInv(t)
  BY DEF QueueInv, TunnelInv, Behind

-----------------------------------------------------------------------------
\* A socket that turns into a state has one of the states.
LEMMA TurnsTypes ==
  ASSUME sock \in [Sockets -> SocketStates], NEW s, NEW from, NEW to \in SocketStates,
         Turns(s, from, to)
  PROVE  sock' \in [Sockets -> SocketStates]
  BY DEF Turns

\* So does one that is sent on.
LEMMA SendTypes ==
  ASSUME sock \in [Sockets -> SocketStates], NEW s, NEW taken, NEW survives,
         SendOn(s, taken, survives)
  PROVE  sock' \in [Sockets -> SocketStates]
  BY DEF SendOn, BadDescriptor, Turns, SocketStates

\* The receiver's work on its adapter.
LEMMA ConnectingTypes ==
  ASSUME BridgeTypeOK, NEW u \in Sides, Connecting(u) \/ ConnectSucceeds(u)
  PROVE  /\ fd' \in [Sides -> Sockets \cup {NoSocket}]
         /\ sock' \in [Sockets -> SocketStates]
         /\ rpc' \in [Sides -> ReceiverStates]
<1> USE DEF BridgeTypeOK, ReceiverStates, SocketStates
<1>1. CASE MakeSocket(u)
  BY <1>1 DEF MakeSocket, Turns
<1>2. CASE CallConnect(u) \/ ReceiveFails(u) \/ ConnectSucceeds(u)
  BY <1>2 DEF CallConnect, ReceiveFails, ConnectSucceeds, Returns, Turns
<1>3. CASE ConnectFails(u) \/ EndOfConnection(u)
  BY <1>3 DEF ConnectFails, EndOfConnection, Returns, Turns, Goes
<1>4. CASE GiveUp(u) \/ ForgetSocket(u)
  BY <1>4 DEF GiveUp, ForgetSocket, Goes
<1> QED BY <1>1, <1>2, <1>3, <1>4 DEF Connecting

\* Types, over the steps of a receiver ...
LEMMA ReceiverTypes ==
  ASSUME BridgeTypeOK, NEW u \in Sides,
         ReceiverStep(u) \/ ConnectStep(u) \/ ReceiveStep(u)
  PROVE  BridgeTypeOK'
<1>1. CASE ReceiverStep(u) \/ ConnectStep(u)
  <2>1. Connecting(u) \/ ConnectSucceeds(u)
    BY <1>1 DEF ReceiverStep, ConnectStep
  <2>2. UNCHANGED <<queue, pushed, spc, hand, sent, alive>>
    BY <1>1 DEF ReceiverStep, ConnectStep, Connecting, senderVars
  <2> QED BY <2>1, <2>2, ConnectingTypes DEF BridgeTypeOK
<1>2. CASE ReceiveStep(u)
  <2>1. UNCHANGED <<fd, sock, rpc, hand, sent, alive>>
    BY <1>2 DEF ReceiveStep, Receive, socketVars
  <2>2. /\ pushed' = [pushed EXCEPT ![u] = @ + 1]
        /\ queue' = [queue EXCEPT ![u] = Append(queue[u], pushed[u] + 1)]
        /\ spc' = [spc EXCEPT ![u] = Woken(u)]
    BY <1>2 DEF ReceiveStep, Receive, Enqueued
  <2>3. pushed[u] + 1 \in Nat /\ queue[u] \in Seq(Nat) /\ Woken(u) \in SenderStates
    BY DEF BridgeTypeOK, Woken, SenderStates
  <2>4. Append(queue[u], pushed[u] + 1) \in Seq(Nat)
    BY <2>3
  <2> QED BY <2>1, <2>2, <2>3, <2>4 DEF BridgeTypeOK
<1> QED BY <1>1, <1>2

\* ... and of a sender.
LEMMA SenderTypes ==
  ASSUME BridgeTypeOK, NEW u \in Sides, SenderStep(u)
  PROVE  BridgeTypeOK'
<1>1. UNCHANGED <<rpc, pushed>>
  BY DEF SenderStep, receiverVars
<1>2. queue[u] \in Seq(Nat) /\ sent[u] \in Seq(Nat) /\ hand[u] \in Nat
  BY DEF BridgeTypeOK
<1>3. CASE Sleep(u) \/ DropOne(u) \/ IsConnected(u)
  <2>1. UNCHANGED <<fd, sock, queue, sent>>
    BY <1>3 DEF Sleep, DropOne, IsConnected, socketVars
  <2>2. spc' \in [Sides -> SenderStates]
    BY <1>3 DEF Sleep, DropOne, IsConnected, Proceeds, BridgeTypeOK, SenderStates
  <2>4. hand' \in [Sides -> Nat]
    BY <1>3 DEF Sleep, DropOne, IsConnected, BridgeTypeOK
  <2>3. UNCHANGED alive
    BY <1>3 DEF SenderStep, Sleep, DropOne, IsConnected, Send, Proceeds, BridgeTypeOK
  <2> QED BY <1>1, <2>1, <2>2, <2>3, <2>4 DEF BridgeTypeOK
<1>4. CASE Pop(u)
  <2>1. Head(queue[u]) \in Nat /\ Tail(queue[u]) \in Seq(Nat)
    BY <1>2, <1>4 DEF Pop
  <2>2. UNCHANGED alive
    BY <1>4 DEF SenderStep, Pop, Send, Proceeds, BridgeTypeOK
  <2> QED BY <1>1, <1>4, <2>1, <2>2 DEF Pop, Proceeds, BridgeTypeOK, SenderStates, socketVars
<1>5. CASE Trim(u)
  <2>1. queue' \in [Sides -> Seq(Nat)]
    BY <1>5 DEF Trim, BridgeTypeOK
  <2>2. UNCHANGED alive
    BY <1>5 DEF SenderStep, Trim, Send, Proceeds, BridgeTypeOK
  <2> QED BY <1>1, <1>5, <2>1, <2>2 DEF Trim, Proceeds, BridgeTypeOK, SenderStates, socketVars
<1>6. CASE Send(u)
  <2>1. PICK taken \in BOOLEAN, survives \in BOOLEAN :
          /\ SendOn(fd[Other(u)], taken, survives)
          /\ sent' = IF taken THEN [sent EXCEPT ![u] = Append(@, hand[u])] ELSE sent
          /\ alive' = survives
    BY <1>6 DEF Send
  <2>2. sock' \in [Sockets -> SocketStates]
    BY <2>1, SendTypes DEF BridgeTypeOK
  <2>3. sent' \in [Sides -> Seq(Nat)]
    <3>1. Append(sent[u], hand[u]) \in Seq(Nat)
      BY <1>2
    <3> QED BY <2>1, <3>1 DEF BridgeTypeOK
  <2> QED BY <1>1, <1>6, <2>1, <2>2, <2>3 DEF Send, Proceeds, BridgeTypeOK, SenderStates
<1> QED BY <1>3, <1>4, <1>5, <1>6 DEF SenderStep

\* Every step keeps the types.
LEMMA NextTypes ==
  ASSUME BridgeTypeOK, [Next]_vars
  PROVE  BridgeTypeOK'
<1>1. CASE UNCHANGED vars
  BY <1>1 DEF vars, socketVars, tunnelVars, receiverVars, senderVars, BridgeTypeOK
<1>2. CASE Environment
  <2>1. UNCHANGED <<fd, tunnelVars, alive>>
    BY <1>2 DEF Environment
  <2>2. sock' \in [Sockets -> SocketStates]
    BY <1>2 DEF Environment, Leaves, Turns, BridgeTypeOK, SocketStates
  <2> QED BY <2>1, <2>2 DEF tunnelVars, receiverVars, senderVars, BridgeTypeOK
<1> QED BY <1>1, <1>2, ReceiverTypes, SenderTypes DEF Next

-----------------------------------------------------------------------------
\* The oldest packet of a tunnel, by what is behind its queue.
LEMMA FirstIs ==
  ASSUME BridgeTypeOK, NEW t \in Sides, TunnelInv(t)
  PROVE  /\ First(t) = IF spc[t] \in {"test", "send"} THEN Behind(t) ELSE Behind(t) + 1
         /\ Behind(t) \in Nat /\ Len(queue[t]) \in Nat
         /\ pushed[t] = Behind(t) + Len(queue[t])
<1>1. queue[t] \in Seq(Nat) /\ pushed[t] \in Nat /\ Len(queue[t]) \in Nat
  BY DEF BridgeTypeOK
<1>2. Behind(t) \in Nat /\ pushed[t] = Behind(t) + Len(queue[t])
  BY <1>1 DEF TunnelInv, Behind
<1>3. queue[t] # <<>> => Head(queue[t]) = Behind(t) + 1
  BY <1>1 DEF TunnelInv
<1>4. queue[t] = <<>> => pushed[t] + 1 = Behind(t) + 1
  BY <1>1, <1>2
<1> QED BY <1>1, <1>2, <1>3, <1>4 DEF First, TunnelInv

\* A step that leaves tunnel t's packets where they are.
LEMMA QuietTunnel ==
  ASSUME NEW t \in Sides, TunnelInv(t),
         queue'[t] = queue[t], pushed'[t] = pushed[t],
         hand'[t] = hand[t], sent'[t] = sent[t],
         spc'[t] \in {"test", "send"} <=> spc[t] \in {"test", "send"},
         spc'[t] = "asleep" => spc[t] = "asleep" \/ queue[t] = <<>>
  PROVE  TunnelInv(t)' /\ QueueStep(t)
  BY DEF TunnelInv, Behind, QueueStep, Same, First

\* push_back: the packet takes the next number, behind those that wait.
LEMMA ReceiveQueues ==
  ASSUME BridgeTypeOK, NEW u \in Sides, TunnelInv(u), ReceiveStep(u)
  PROVE  TunnelInv(u)' /\ Received(u)
<1>1. /\ pushed' = [pushed EXCEPT ![u] = @ + 1]
      /\ queue' = [queue EXCEPT ![u] = Append(queue[u], pushed[u] + 1)]
      /\ spc' = [spc EXCEPT ![u] = Woken(u)]
      /\ UNCHANGED <<hand, sent>>
  BY DEF ReceiveStep, Receive, Enqueued
<1>2. /\ queue[u] \in Seq(Nat) /\ pushed[u] \in Nat /\ pushed[u] + 1 \in Nat
      /\ Len(queue[u]) \in Nat
  BY DEF BridgeTypeOK
<1>3. /\ pushed'[u] = pushed[u] + 1 /\ queue'[u] = Append(queue[u], pushed[u] + 1)
      /\ spc'[u] = Woken(u) /\ hand'[u] = hand[u] /\ sent'[u] = sent[u]
  BY <1>1 DEF BridgeTypeOK
<1>4. /\ Len(queue'[u]) = Len(queue[u]) + 1
      /\ \A i \in 1 .. Len(queue'[u]) :
           queue'[u][i] = IF i = Len(queue[u]) + 1 THEN pushed[u] + 1 ELSE queue[u][i]
  BY <1>2, <1>3
<1>5. Behind(u)' = Behind(u) /\ Behind(u) \in Nat /\ pushed[u] = Behind(u) + Len(queue[u])
  BY <1>2, <1>3, <1>4 DEF Behind, TunnelInv
<1>6. /\ spc'[u] \in {"test", "send"} <=> spc[u] \in {"test", "send"}
      /\ spc'[u] # "asleep"
  BY <1>3 DEF Woken
<1>7. ASSUME NEW i \in 1 .. Len(queue'[u])
      PROVE  queue'[u][i] = Behind(u) + i
  <2>1. CASE i = Len(queue[u]) + 1
    <3>1. queue'[u][i] = pushed[u] + 1
      BY <1>4, <2>1
    <3>2. pushed[u] + 1 = Behind(u) + i
      BY <1>2, <1>5, <2>1
    <3> QED BY <3>1, <3>2
  <2>2. CASE i # Len(queue[u]) + 1
    <3>1. i \in 1 .. Len(queue[u])
      BY <1>2, <1>4, <2>2
    <3> QED BY <1>4, <2>2, <3>1 DEF TunnelInv
  <2> QED BY <2>1, <2>2
<1>8. TunnelInv(u)'
  BY <1>3, <1>5, <1>6, <1>7 DEF TunnelInv
<1>9. BridgeTypeOK'
  BY ReceiverTypes
<1>10. First(u)' = IF spc'[u] \in {"test", "send"} THEN Behind(u)' ELSE Behind(u)' + 1
  <2>1. hand'[u] # 0 => First(u)' = hand'[u]
    BY DEF First
  <2>2. hand'[u] = 0 => First(u)' = Head(queue'[u])
    BY <1>2, <1>3 DEF First
  <2>3. Head(queue'[u]) = Behind(u) + 1
    BY <1>2, <1>3, <1>4, <1>7
  <2> QED BY <1>5, <1>8, <2>1, <2>2, <2>3 DEF TunnelInv
<1> QED BY <1>3, <1>5, <1>6, <1>8, <1>10, FirstIs DEF Received

\* pop_front: what the sender has in hand is the oldest packet.
LEMMA PopQueues ==
  ASSUME BridgeTypeOK, NEW u \in Sides, TunnelInv(u), Pop(u), UNCHANGED pushed
  PROVE  TunnelInv(u)' /\ Same(u)
<1>1. /\ queue[u] # <<>> /\ spc[u] = "next" /\ spc'[u] = "test"
      /\ hand'[u] = Head(queue[u]) /\ queue'[u] = Tail(queue[u])
      /\ pushed'[u] = pushed[u] /\ sent'[u] = sent[u]
  BY DEF Pop, Proceeds, BridgeTypeOK
<1>2. /\ queue[u] \in Seq(Nat) /\ pushed[u] \in Nat /\ Len(queue[u]) \in Nat
      /\ Len(queue[u]) >= 1
  BY <1>1 DEF BridgeTypeOK
<1>3. /\ Len(queue'[u]) = Len(queue[u]) - 1
      /\ \A i \in 1 .. Len(queue'[u]) : queue'[u][i] = queue[u][i + 1]
  BY <1>1, <1>2
<1>4. Behind(u)' = Behind(u) + 1 /\ Behind(u) \in Nat
  BY <1>1, <1>2, <1>3 DEF Behind, TunnelInv
<1>5. Head(queue[u]) = Behind(u) + 1
  BY <1>2 DEF TunnelInv
<1>6. ASSUME NEW i \in 1 .. Len(queue'[u])
      PROVE  queue'[u][i] = Behind(u)' + i
  <2>1. i + 1 \in 1 .. Len(queue[u]) /\ i \in Nat
    BY <1>2, <1>3
  <2>2. queue[u][i + 1] = Behind(u) + (i + 1)
    BY <2>1 DEF TunnelInv
  <2> QED BY <1>3, <1>4, <2>1, <2>2
<1>7. TunnelInv(u)'
  BY <1>1, <1>4, <1>5, <1>6 DEF TunnelInv
<1>8. First(u)' = Head(queue[u])
  BY <1>1, <1>4, <1>5 DEF First
<1>9. First(u) = Head(queue[u])
  BY <1>1 DEF First, TunnelInv
<1> QED BY <1>1, <1>7, <1>8, <1>9 DEF Same

\* send, or no connection: the packet in hand is gone either way.
LEMMA LeaveQueues ==
  ASSUME BridgeTypeOK, NEW u \in Sides, TunnelInv(u), Send(u) \/ DropOne(u),
         UNCHANGED pushed
  PROVE  TunnelInv(u)' /\ Left(u)
<1>1. /\ spc[u] \in {"test", "send"} /\ spc'[u] = "trim" /\ hand'[u] = 0
      /\ queue' = queue /\ pushed' = pushed
  BY DEF Send, DropOne, Proceeds, BridgeTypeOK
<1>2. /\ queue[u] \in Seq(Nat) /\ pushed[u] \in Nat /\ Len(queue[u]) \in Nat
  BY DEF BridgeTypeOK
<1>3. Behind(u)' = Behind(u) /\ Behind(u) \in Nat
  BY <1>1, <1>2 DEF Behind, TunnelInv
<1>4. TunnelInv(u)'
  BY <1>1, <1>3 DEF TunnelInv
<1>5. First(u) = hand[u] /\ hand[u] = Behind(u) /\ First(u) <= pushed[u]
  BY <1>1, <1>2 DEF First, TunnelInv, Behind
<1>6. First(u)' = Behind(u) + 1
  <2>1. queue[u] # <<>> => Head(queue[u]) = Behind(u) + 1
    BY <1>2 DEF TunnelInv
  <2>2. queue[u] = <<>> => pushed[u] + 1 = Behind(u) + 1
    BY <1>2 DEF Behind
  <2> QED BY <1>1, <2>1, <2>2 DEF First
<1>7. sent'[u] = Append(sent[u], hand[u]) \/ sent'[u] = sent[u]
  BY DEF Send, DropOne, BridgeTypeOK
<1> QED BY <1>1, <1>4, <1>5, <1>6, <1>7 DEF Left

\* A queue that is too long is cleared, and no other.
LEMMA TrimQueues ==
  ASSUME BridgeTypeOK, NEW u \in Sides, TunnelInv(u), Trim(u), UNCHANGED pushed
  PROVE  TunnelInv(u)' /\ (Cleared(u) \/ Same(u))
<1>1. /\ spc[u] = "trim" /\ spc'[u] = "next" /\ hand'[u] = hand[u]
      /\ pushed'[u] = pushed[u] /\ sent'[u] = sent[u]
      /\ queue'[u] = IF Overflows(u) THEN <<>> ELSE queue[u]
  BY DEF Trim, Proceeds, BridgeTypeOK
<1>2. /\ queue[u] \in Seq(Nat) /\ pushed[u] \in Nat /\ Len(queue[u]) \in Nat
      /\ hand[u] = 0 /\ MaxQueue[u] \in Nat
  BY <1>1, BridgeAssumption DEF BridgeTypeOK, TunnelInv
<1>3. CASE ~Overflows(u)
  BY <1>1, <1>3 DEF TunnelInv, Behind, Same, First
<1>4. CASE Overflows(u)
  <2>1. queue'[u] = <<>> /\ Len(queue'[u]) = 0
    BY <1>1, <1>4
  <2>2. TunnelInv(u)'
    BY <1>1, <1>2, <2>1 DEF TunnelInv, Behind
  <2>3. First(u)' = pushed[u] + 1
    BY <1>1, <1>2, <2>1 DEF First
  <2>4. First(u) = Behind(u) + 1 /\ pushed[u] = Behind(u) + Len(queue[u]) /\ Behind(u) \in Nat
    BY <1>1, FirstIs
  <2>5. pushed[u] - First(u) + 1 > MaxQueue[u] /\ MaxQueue[u] > 0
    BY <1>2, <1>4, <2>4 DEF Overflows
  <2> QED BY <1>1, <2>2, <2>3, <2>5 DEF Cleared
<1> QED BY <1>3, <1>4

\* A thread leaves the other tunnel's packets alone, and most steps leave its own.
LEMMA NextQueues ==
  ASSUME BridgeTypeOK, \A q \in Sides : TunnelInv(q), [Next]_vars, NEW t \in Sides
  PROVE  TunnelInv(t)' /\ QueueStep(t)
<1>1. CASE UNCHANGED tunnelVars
  BY <1>1, QuietTunnel DEF tunnelVars, receiverVars, senderVars
<1>2. ASSUME NEW u \in Sides, ReceiverStep(u) \/ ConnectStep(u)
      PROVE  TunnelInv(t)' /\ QueueStep(t)
  BY <1>2, QuietTunnel DEF ReceiverStep, ConnectStep, Connecting, senderVars
<1>3. ASSUME NEW u \in Sides, ReceiveStep(u)
      PROVE  TunnelInv(t)' /\ QueueStep(t)
  <2>1. CASE t = u
    BY <1>3, <2>1, ReceiveQueues DEF QueueStep
  <2>2. CASE t # u
    BY <1>3, <2>2, QuietTunnel DEF ReceiveStep, Receive, BridgeTypeOK
  <2> QED BY <2>1, <2>2
<1>4. ASSUME NEW u \in Sides, SenderStep(u)
      PROVE  TunnelInv(t)' /\ QueueStep(t)
  <2>1. UNCHANGED pushed
    BY <1>4 DEF SenderStep, receiverVars
  <2>2. CASE t = u
    <3>1. CASE Sleep(u) \/ IsConnected(u)
      BY <2>1, <2>2, <3>1, QuietTunnel DEF Sleep, IsConnected, Proceeds, BridgeTypeOK
    <3> QED BY <1>4, <2>1, <2>2, <3>1, PopQueues, LeaveQueues, TrimQueues
            DEF SenderStep, QueueStep
  <2>3. CASE t # u
    <3>1. /\ queue'[t] = queue[t] /\ hand'[t] = hand[t] /\ sent'[t] = sent[t]
          /\ spc'[t] = spc[t]
      BY <1>4, <2>3 DEF SenderStep, Send, Sleep, Pop, DropOne, IsConnected, Trim, Proceeds,
                        BridgeTypeOK
    <3> QED BY <2>1, <3>1, QuietTunnel
  <2> QED BY <2>2, <2>3
<1>5. UNCHANGED vars \/ Environment => UNCHANGED tunnelVars
  BY DEF vars, Environment
<1> QED BY <1>1, <1>2, <1>3, <1>4, <1>5 DEF Next

-----------------------------------------------------------------------------
\* main's start: both queues empty.
LEMMA InitQueues == Init => QueueInv
<1> SUFFICES ASSUME Init PROVE QueueInv
  OBVIOUS
<1>1. BridgeTypeOK
  BY DEF Init, SocketsInit, BridgeTypeOK, SocketStates, ReceiverStates, SenderStates
<1>2. ASSUME NEW t \in Sides PROVE TunnelInv(t)
  BY DEF Init, TunnelInv, Behind
<1> QED BY <1>1, <1>2, QueueInvParts

\* Types, and the order of what has not left a tunnel, whatever the threads, the servers
\* and the kernel do.
THEOREM BridgeQueues == Spec => []QueueInv
<1>1. QueueInv /\ [Next]_vars => QueueInv'
  <2> SUFFICES ASSUME QueueInv, [Next]_vars PROVE QueueInv'
    OBVIOUS
  <2>1. BridgeTypeOK /\ \A t \in Sides : TunnelInv(t)
    BY QueueInvParts
  <2>2. BridgeTypeOK' /\ \A t \in Sides : TunnelInv(t)'
    BY <2>1, NextTypes, NextQueues
  <2> QED BY <2>2 DEF QueueInv, TunnelInv, Behind
<1> QED BY InitQueues, <1>1, PTL DEF Spec

\* Each step is a step of each tunnel's PacketQueue.
LEMMA NextRefines ==
  ASSUME QueueInv, [Next]_vars
  PROVE  [Uplink!Next]_(Uplink!vars) /\ [Downlink!Next]_(Downlink!vars)
<1>1. "up" \in Sides /\ "down" \in Sides
  BY DEF Sides
<1>2. QueueStep("up") /\ QueueStep("down")
  BY <1>1, NextQueues, QueueInvParts
<1> QED BY <1>2
        DEF QueueStep, Received, Left, Cleared, Same,
            Uplink!Next, Uplink!vars, Uplink!Receive, Uplink!Send, Uplink!Drop,
            Uplink!Leave, Uplink!Clear,
            Downlink!Next, Downlink!vars, Downlink!Receive, Downlink!Send, Downlink!Drop,
            Downlink!Leave, Downlink!Clear

\* sender_thread and receiver_thread send what they received in order and at most once,
\* and lose packets one at a time or all that are queued, for every bound.
THEOREM BridgeRefines == Spec => ImplementsQueues
<1>1. Init => Uplink!Init /\ Downlink!Init
  BY DEF Init, First, Uplink!Init, Downlink!Init, Sides
<1>2. QueueInv /\ [Next]_vars => [Uplink!Next]_(Uplink!vars) /\ [Downlink!Next]_(Downlink!vars)
  BY NextRefines
<1> QED BY BridgeQueues, <1>1, <1>2, PTL
    DEF Spec, ImplementsQueues, Uplink!Spec, Downlink!Spec

-----------------------------------------------------------------------------
\* What tunnel t has sent, by number: in the order of reception, none twice, and none of
\* those that have not left it.
InOrder(t) ==
    /\ \A x \in 1 .. Len(sent[t]) : sent[t][x] < First(t)
    /\ \A x, y \in 1 .. Len(sent[t]) : x < y => sent[t][x] < sent[t][y]

SentInOrder == \A t \in Sides : InOrder(t)

\* The packet that leaves is newer than those that were sent; one that is dropped, or a
\* queue that is cleared, leaves no trace.
LEMMA NextSends ==
  ASSUME QueueInv, SentInOrder, [Next]_vars, NEW t \in Sides
  PROVE  InOrder(t)'
<1>1. BridgeTypeOK /\ \A q \in Sides : TunnelInv(q)
  BY QueueInvParts
<1>2. QueueStep(t)
  BY <1>1, NextQueues
<1>3. /\ First(t) \in Nat /\ pushed[t] \in Nat /\ First(t) <= pushed[t] + 1
      /\ sent[t] \in Seq(Nat) /\ Len(sent[t]) \in Nat
  BY <1>1, FirstIs DEF BridgeTypeOK
<1>4. InOrder(t)
  BY DEF SentInOrder
<1>5. CASE First(t)' >= First(t) /\ First(t)' \in Nat /\ sent'[t] = sent[t]
  BY <1>3, <1>4, <1>5 DEF InOrder
<1>6. CASE First(t)' = First(t) + 1 /\ sent'[t] = Append(sent[t], First(t))
  <2>1. /\ Len(sent'[t]) = Len(sent[t]) + 1
        /\ \A x \in 1 .. Len(sent'[t]) :
             sent'[t][x] = IF x = Len(sent[t]) + 1 THEN First(t) ELSE sent[t][x]
    BY <1>3, <1>6
  <2>2. \A x \in 1 .. Len(sent'[t]) : sent'[t][x] < First(t)'
    BY <1>3, <1>4, <1>6, <2>1 DEF InOrder
  <2>3. ASSUME NEW x \in 1 .. Len(sent'[t]), NEW y \in 1 .. Len(sent'[t]), x < y
        PROVE  sent'[t][x] < sent'[t][y]
    <3>1. x \in 1 .. Len(sent[t]) /\ sent'[t][x] = sent[t][x]
      BY <1>3, <2>1, <2>3
    <3>2. CASE y = Len(sent[t]) + 1
      BY <1>4, <2>1, <3>1, <3>2 DEF InOrder
    <3>3. CASE y # Len(sent[t]) + 1
      BY <1>3, <1>4, <2>1, <2>3, <3>1, <3>3 DEF InOrder
    <3> QED BY <3>2, <3>3
  <2> QED BY <2>2, <2>3 DEF InOrder
<1> QED BY <1>2, <1>3, <1>5, <1>6 DEF QueueStep, Received, Left, Cleared, Same

\* Neither tunnel sends a packet twice or before one that was received earlier, however
\* often its queue is cleared and the connections at its ends come and go.
THEOREM BridgeSendsInOrder == Spec => []SentInOrder
<1>1. Init => SentInOrder
  BY DEF Init, SentInOrder, InOrder
<1>2. QueueInv /\ SentInOrder /\ [Next]_vars => SentInOrder'
  BY NextSends DEF SentInOrder
<1> QED BY BridgeQueues, <1>1, <1>2, PTL DEF Spec

-----------------------------------------------------------------------------
\* Who may refer to which socket: OwnSockets, and what a receiver that is about to
\* reset fd knows of its descriptor.  A closed one may have been given out again, but
\* then the other adapter refers to it, unless that has failed to connect it since.
AdapterInv(t) ==
    /\ rpc[t] # "closed" => ~FdIs(t, {"closed"})
    /\ rpc[t] = "giveup" => FdIs(t, {"refused"})
    /\ rpc[t] = "closed" =>
         /\ fd[t] # NoSocket
         /\ \/ FdIs(t, {"closed", "refused"})
            \/ fd[Other(t)] = fd[t] /\ rpc[Other(t)] # "closed"

Apart(t) == fd[t] = fd[Other(t)] =>
                fd[t] = NoSocket \/ rpc[t] = "closed" \/ rpc[Other(t)] = "closed"

Kept == \A s \in Sockets : sock[s] \notin {"closed", "refused"} => \E t \in Sides : fd[t] = s

SocketInv == (\A t \in Sides : AdapterInv(t) /\ Apart(t)) /\ Kept

\* There are two sides.
LEMMA TwoSides ==
  ASSUME NEW u \in Sides
  PROVE  /\ Other(u) \in Sides /\ Other(u) # u /\ Other(Other(u)) = u
         /\ \A t \in Sides : t = u \/ t = Other(u)
  BY DEF Sides, Other

\* The invariant gives what is promised.
LEMMA SocketInvOwns == SocketInv => OwnSockets
<1> SUFFICES ASSUME SocketInv PROVE OwnSockets
  OBVIOUS
<1>1. \A t \in Sides : rpc[t] # "closed" => ~FdIs(t, {"closed"})
  BY DEF SocketInv, AdapterInv
<1>2. fd["up"] = fd["down"] => fd["up"] = NoSocket \/ \E t \in Sides : rpc[t] = "closed"
  <2>1. Apart("up") /\ "up" \in Sides /\ "down" \in Sides /\ Other("up") = "down"
    BY DEF SocketInv, Sides, Other
  <2> QED BY <2>1 DEF Apart
<1> QED BY <1>1, <1>2 DEF OwnSockets, SocketInv, Kept

\* A step that closes no socket, makes none and gives none up.
LEMMA LiveSockets ==
  ASSUME BridgeTypeOK, SocketInv, UNCHANGED <<fd, rpc>>,
         \A s \in Sockets : /\ sock'[s] = "closed" <=> sock[s] = "closed"
                            /\ sock'[s] = "refused" <=> sock[s] = "refused"
  PROVE  SocketInv'
<1>1. \A t \in Sides : fd[t] # NoSocket => fd[t] \in Sockets
  BY DEF BridgeTypeOK
<1>2. ASSUME NEW t \in Sides PROVE AdapterInv(t)' /\ Apart(t)'
  BY <1>1, TwoSides DEF SocketInv, AdapterInv, Apart, FdIs
<1>3. Kept'
  BY DEF SocketInv, Kept
<1> QED BY <1>2, <1>3 DEF SocketInv

\* What a send does to a socket is such a step.
LEMMA SendIsLive ==
  ASSUME sock \in [Sockets -> SocketStates], NEW d, NEW taken, NEW survives,
         SendOn(d, taken, survives)
  PROVE  \A s \in Sockets : /\ sock'[s] = "closed" <=> sock[s] = "closed"
                            /\ sock'[s] = "refused" <=> sock[s] = "refused"
  BY DEF SendOn, BadDescriptor, Turns

\* socket(): the number is free, or the other receiver has just closed it.
LEMMA MakeKeeps ==
  ASSUME BridgeTypeOK, SocketInv, NEW u \in Sides, MakeSocket(u)
  PROVE  SocketInv'
<1> DEFINE o == Other(u)
<1>1. PICK s \in Sockets : Turns(s, {"closed"}, "fresh") /\ fd' = [fd EXCEPT ![u] = s]
  BY DEF MakeSocket
<1>2. /\ rpc[u] = "recv" /\ fd[u] = NoSocket /\ UNCHANGED rpc
      /\ sock[s] = "closed" /\ s # NoSocket
  BY <1>1 DEF MakeSocket, Turns
<1>3. /\ fd'[u] = s /\ fd'[o] = fd[o]
      /\ \A x \in Sockets : sock'[x] = IF x = s THEN "fresh" ELSE sock[x]
  BY <1>1, TwoSides DEF BridgeTypeOK, Turns
<1>4. fd[o] = s => rpc[o] = "closed"
  BY <1>2, TwoSides DEF SocketInv, AdapterInv, FdIs
<1>5. fd[o] # NoSocket => fd[o] \in Sockets
  BY TwoSides DEF BridgeTypeOK
<1>6. AdapterInv(u)' /\ Apart(u)'
  BY <1>2, <1>3, <1>4, TwoSides DEF AdapterInv, Apart, FdIs
<1>7. AdapterInv(o)' /\ Apart(o)'
  <2>1. AdapterInv(o) /\ Other(o) = u
    BY TwoSides DEF SocketInv
  <2> QED BY <1>2, <1>3, <1>4, <1>5, <2>1 DEF AdapterInv, Apart, FdIs
<1>8. Kept'
  BY <1>2, <1>3, TwoSides, SocketsAssumption DEF SocketInv, Kept
<1> QED BY <1>6, <1>7, <1>8, TwoSides DEF SocketInv

\* connect fails, and `failed' forgets the descriptor.
LEMMA GiveUpKeeps ==
  ASSUME BridgeTypeOK, SocketInv, NEW u \in Sides, ConnectFails(u) \/ GiveUp(u)
  PROVE  SocketInv'
<1> DEFINE o == Other(u)
<1>1. o \in Sides /\ o # u /\ Other(o) = u /\ \A t \in Sides : t = u \/ t = o
  BY TwoSides
<1>2. AdapterInv(u) /\ AdapterInv(o) /\ Apart(u) /\ Apart(o) /\ Kept
  BY <1>1 DEF SocketInv
<1>3. fd[o] # NoSocket => fd[o] \in Sockets
  BY <1>1 DEF BridgeTypeOK
<1>4. CASE ConnectFails(u)
  <2>1. /\ rpc[u] = "recv" /\ rpc'[u] = "giveup" /\ rpc'[o] = rpc[o] /\ UNCHANGED fd
        /\ fd[u] # NoSocket /\ fd[u] \in Sockets /\ sock[fd[u]] = "connecting"
        /\ \A x \in Sockets : sock'[x] = IF x = fd[u] THEN "refused" ELSE sock[x]
    BY <1>1, <1>4 DEF ConnectFails, Goes, Returns, Turns, BridgeTypeOK
  <2>2. AdapterInv(u)' /\ Apart(u)' /\ Apart(o)'
    BY <1>1, <1>2, <2>1 DEF AdapterInv, Apart, FdIs
  <2>3. AdapterInv(o)'
    BY <1>1, <1>2, <1>3, <2>1 DEF AdapterInv, Apart, FdIs
  <2>4. Kept'
    BY <1>2, <2>1 DEF Kept
  <2> QED BY <1>1, <2>2, <2>3, <2>4 DEF SocketInv
<1>5. CASE GiveUp(u)
  <2>1. /\ rpc[u] = "giveup" /\ rpc'[u] = "recv" /\ rpc'[o] = rpc[o] /\ UNCHANGED sock
        /\ fd'[u] = NoSocket /\ fd'[o] = fd[o]
    BY <1>1, <1>5 DEF GiveUp, Goes, BridgeTypeOK
  <2>2. fd[u] # NoSocket /\ sock[fd[u]] = "refused"
    BY <1>2, <2>1 DEF AdapterInv, FdIs
  <2>3. AdapterInv(u)' /\ Apart(u)' /\ Apart(o)'
    BY <1>1, <2>1 DEF AdapterInv, Apart, FdIs
  <2>4. AdapterInv(o)'
    BY <1>1, <1>2, <2>1, <2>2 DEF AdapterInv, FdIs
  <2>5. Kept'
    BY <1>1, <1>2, <2>1, <2>2 DEF Kept
  <2> QED BY <1>1, <2>3, <2>4, <2>5 DEF SocketInv
<1> QED BY <1>4, <1>5

\* close(fd), and fd = -1: in between the number may be anybody's.
LEMMA CloseKeeps ==
  ASSUME BridgeTypeOK, SocketInv, NEW u \in Sides, EndOfConnection(u) \/ ForgetSocket(u)
  PROVE  SocketInv'
<1> DEFINE o == Other(u)
<1>1. o \in Sides /\ o # u /\ Other(o) = u /\ \A t \in Sides : t = u \/ t = o
  BY TwoSides
<1>2. AdapterInv(u) /\ AdapterInv(o) /\ Apart(u) /\ Apart(o) /\ Kept
  BY <1>1 DEF SocketInv
<1>3. fd[o] # NoSocket => fd[o] \in Sockets
  BY <1>1 DEF BridgeTypeOK
<1>4. CASE EndOfConnection(u)
  <2>1. /\ rpc[u] = "recv" /\ rpc'[u] = "closed" /\ rpc'[o] = rpc[o] /\ UNCHANGED fd
        /\ fd[u] # NoSocket /\ fd[u] \in Sockets /\ sock[fd[u]] \in {"gone", "reset"}
        /\ \A x \in Sockets : sock'[x] = IF x = fd[u] THEN "closed" ELSE sock[x]
    BY <1>1, <1>4 DEF EndOfConnection, Goes, Turns, BridgeTypeOK
  <2>2. AdapterInv(u)' /\ Apart(u)' /\ Apart(o)'
    BY <1>1, <1>2, <2>1 DEF AdapterInv, Apart, FdIs
  <2>3. AdapterInv(o)'
    BY <1>1, <1>2, <1>3, <2>1 DEF AdapterInv, Apart, FdIs
  <2>4. Kept'
    BY <1>2, <2>1 DEF Kept
  <2> QED BY <1>1, <2>2, <2>3, <2>4 DEF SocketInv
<1>5. CASE ForgetSocket(u)
  <2>1. /\ rpc[u] = "closed" /\ rpc'[u] = "recv" /\ rpc'[o] = rpc[o] /\ UNCHANGED sock
        /\ fd'[u] = NoSocket /\ fd'[o] = fd[o]
    BY <1>1, <1>5 DEF ForgetSocket, Goes, BridgeTypeOK
  <2>2. fd[u] # NoSocket /\ (sock[fd[u]] \in {"closed", "refused"} \/ fd[o] = fd[u])
    BY <1>2, <2>1 DEF AdapterInv, FdIs
  <2>3. AdapterInv(u)' /\ Apart(u)' /\ Apart(o)'
    BY <1>1, <2>1 DEF AdapterInv, Apart, FdIs
  <2>4. AdapterInv(o)'
    BY <1>1, <1>2, <2>1, <2>2 DEF AdapterInv, FdIs
  <2>5. Kept'
    BY <1>1, <1>2, <2>1, <2>2 DEF Kept
  <2> QED BY <1>1, <2>3, <2>4, <2>5 DEF SocketInv
<1> QED BY <1>4, <1>5

\* Every step keeps it.
LEMMA NextKeeps ==
  ASSUME BridgeTypeOK, SocketInv, [Next]_vars
  PROVE  SocketInv'
<1>1. CASE UNCHANGED vars
  BY <1>1, LiveSockets DEF vars, socketVars, tunnelVars, receiverVars
<1>2. CASE Environment
  <2>1. /\ UNCHANGED <<fd, rpc>>
        /\ \A s \in Sockets : /\ sock'[s] = "closed" <=> sock[s] = "closed"
                              /\ sock'[s] = "refused" <=> sock[s] = "refused"
    BY <1>2 DEF Environment, Leaves, Turns, tunnelVars, receiverVars, BridgeTypeOK
  <2> QED BY <2>1, LiveSockets
<1>3. ASSUME NEW u \in Sides, ReceiverStep(u) PROVE SocketInv'
  <2>1. CASE CallConnect(u) \/ ReceiveFails(u)
    <3>1. /\ UNCHANGED <<fd, rpc>>
          /\ \A s \in Sockets : /\ sock'[s] = "closed" <=> sock[s] = "closed"
                                /\ sock'[s] = "refused" <=> sock[s] = "refused"
      BY <2>1 DEF CallConnect, ReceiveFails, Turns, BridgeTypeOK
    <3> QED BY <3>1, LiveSockets
  <2> QED BY <1>3, <2>1, MakeKeeps, GiveUpKeeps, CloseKeeps DEF ReceiverStep, Connecting
<1>4. ASSUME NEW u \in Sides, ConnectStep(u) PROVE SocketInv'
  <2>1. /\ UNCHANGED <<fd, rpc>>
        /\ \A s \in Sockets : /\ sock'[s] = "closed" <=> sock[s] = "closed"
                              /\ sock'[s] = "refused" <=> sock[s] = "refused"
    BY <1>4 DEF ConnectStep, ConnectSucceeds, Returns, Turns, BridgeTypeOK
  <2> QED BY <2>1, LiveSockets
<1>5. ASSUME NEW u \in Sides, ReceiveStep(u) PROVE SocketInv'
  BY <1>5, LiveSockets DEF ReceiveStep, Receive, socketVars
<1>6. ASSUME NEW u \in Sides, SenderStep(u) PROVE SocketInv'
  <2>1. UNCHANGED rpc
    BY <1>6 DEF SenderStep, receiverVars
  <2>2. CASE Send(u)
    <3>1. PICK taken, survives \in BOOLEAN : SendOn(fd[Other(u)], taken, survives)
      BY <2>2 DEF Send
    <3>2. \A s \in Sockets : /\ sock'[s] = "closed" <=> sock[s] = "closed"
                             /\ sock'[s] = "refused" <=> sock[s] = "refused"
      BY <3>1, SendIsLive DEF BridgeTypeOK
    <3> QED BY <2>1, <2>2, <3>2, LiveSockets DEF Send
  <2>3. CASE ~Send(u)
    BY <1>6, <2>1, <2>3, LiveSockets
       DEF SenderStep, Sleep, Pop, DropOne, IsConnected, Trim, socketVars
  <2> QED BY <2>2, <2>3
<1> QED BY <1>1, <1>2, <1>3, <1>4, <1>5, <1>6 DEF Next

\* The two adapters share a descriptor only between close(fd) and fd = -1, and every
\* socket that nothing refers to is one that could not be connected.
THEOREM BridgeSockets == Spec => []OwnSockets
<1>1. Init => SocketInv
  BY SocketsAssumption DEF Init, SocketsInit, SocketInv, AdapterInv, Apart, Kept, FdIs
<1>2. QueueInv /\ SocketInv /\ [Next]_vars => SocketInv'
  BY NextKeeps DEF QueueInv
<1>3. Spec => []SocketInv
  BY BridgeQueues, <1>1, <1>2, PTL DEF Spec
<1> QED BY SocketInvOwns, <1>3, PTL

\* No attempt to connect fails.
AttemptsSucceed == [][\A t \in Sides : ~ConnectFails(t)]_vars

\* Every descriptor in use is an adapter's.
NoneForgotten == \A s \in Sockets : sock[s] # "closed" => \E t \in Sides : fd[t] = s

\* No socket has been refused.
NoneRefused == \A s \in Sockets : sock[s] # "refused"

\* Nothing but a failed attempt makes one.
LEMMA NextNoneRefused ==
  ASSUME BridgeTypeOK, NoneRefused, [Next]_vars, [\A t \in Sides : ~ConnectFails(t)]_vars
  PROVE  NoneRefused'
<1>1. CASE UNCHANGED sock
  BY <1>1 DEF NoneRefused
<1>2. CASE \E s, from : \E to \in SocketStates \ {"refused"} : Turns(s, from, to)
  BY <1>2 DEF Turns, NoneRefused, BridgeTypeOK
<1>3. CASE Environment
  BY <1>2, <1>3 DEF Environment, Leaves, SocketStates
<1>4. ASSUME NEW u \in Sides, ~ConnectFails(u),
             ReceiverStep(u) \/ ConnectStep(u) \/ ReceiveStep(u)
      PROVE  NoneRefused'
  <2>1. CASE MakeSocket(u) \/ CallConnect(u) \/ ConnectSucceeds(u) \/ ReceiveFails(u)
               \/ EndOfConnection(u)
    BY <1>2, <2>1 DEF MakeSocket, CallConnect, ConnectSucceeds, Returns, ReceiveFails,
                      EndOfConnection, SocketStates
  <2>2. CASE GiveUp(u) \/ ForgetSocket(u) \/ Receive(u)
    BY <1>1, <2>2 DEF GiveUp, ForgetSocket, Receive, socketVars
  <2> QED BY <1>4, <2>1, <2>2 DEF ReceiverStep, Connecting, ConnectStep, ReceiveStep
<1>5. ASSUME NEW u \in Sides, SenderStep(u) PROVE NoneRefused'
  <2>1. CASE Send(u)
    <3>1. PICK taken, survives \in BOOLEAN : SendOn(fd[Other(u)], taken, survives)
      BY <2>1 DEF Send
    <3> QED BY <3>1, SendIsLive DEF NoneRefused, BridgeTypeOK
  <2>2. CASE ~Send(u)
    BY <1>1, <1>5, <2>2 DEF SenderStep, Sleep, Pop, DropOne, IsConnected, Trim, socketVars
  <2> QED BY <2>1, <2>2
<1>6. UNCHANGED vars => UNCHANGED sock
  BY DEF vars, socketVars
<1> QED BY <1>1, <1>3, <1>4, <1>5, <1>6 DEF Next

\* Failed attempts are the only way in which the bridge uses up its descriptors: without
\* them each one in use is an adapter's, however often connections end.
THEOREM BridgeForgetsNone == Spec /\ AttemptsSucceed => []NoneForgotten
<1>1. Init => NoneRefused
  BY DEF Init, SocketsInit, NoneRefused
<1>2. QueueInv /\ NoneRefused /\ [Next]_vars /\ [\A t \in Sides : ~ConnectFails(t)]_vars
        => NoneRefused'
  BY NextNoneRefused DEF QueueInv
<1>3. OwnSockets /\ NoneRefused => NoneForgotten
  BY DEF OwnSockets, NoneRefused, NoneForgotten
<1> QED BY BridgeQueues, BridgeSockets, <1>1, <1>2, <1>3, PTL DEF Spec, AttemptsSucceed
=============================================================================
