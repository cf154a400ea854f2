---------------------------- MODULE UdpPortProofs ----------------------------
(***************************************************************************)
(* The UDP port, for buffers, streams and senders of every number: it      *)
(* moves its handoff as ChunkHandoff does, and replies go to the client.   *)
(***************************************************************************)
EXTENDS UdpPort, ChunkHandoffProofs

\* The types of the port's own variables.
UdpTypes ==
    /\ initialized \in BOOLEAN /\ fd \in {"none", "idle", "bound"}
    /\ lost \in 0 .. MaxLost /\ held \in BOOLEAN
    /\ has_client \in BOOLEAN
    /\ clt_addr \in [Halves -> Addresses \cup {NoAddress}]
    /\ from \in Addresses \cup {NoAddress}
    /\ client \in Addresses \cup {NoAddress}
    /\ todo \subseteq Halves \cup {"flag"}
    /\ routing \in BOOLEAN

\* The stores of an adoption are made before the worker waits or receives again, while
\* `from' still is the client; what is stored is the client's; and who knows of a client,
\* or is about to reply, does so after one was adopted.
ClientInv ==
    /\ todo # {} => /\ wpc \in {"filled", "locked", "setsize", "setcur", "check"}
                    /\ from = client /\ client \in Addresses
    /\ client \in Addresses => \A h \in Halves \ todo : clt_addr[h] = client
    /\ has_client \/ routing => client \in Addresses

UdpInv == UdpTypes /\ ClientInv

\* hook_udp.
LEMMA InitUdp == Init => HandoffInit /\ UdpInv
<1> SUFFICES ASSUME Init PROVE HandoffInit /\ UdpInv
  OBVIOUS
<1>1. UdpTypes
  <2>1. clt_addr \in [Halves -> Addresses \cup {NoAddress}] /\ lost \in 0 .. MaxLost
    BY UdpAssumption DEF Init
  <2> QED BY <2>1 DEF Init, UdpTypes
<1>2. ClientInv
  BY UdpAssumption DEF Init, ClientInv
<1> QED BY <1>1, <1>2 DEF Init, UdpInv

\* udp_server, udp_has_more and udp_read_byte are the handoff's two threads; all else
\* leaves the handoff alone.
LEMMA NextIsHandoff ==
  ASSUME [Next]_vars
  PROVE  [HandoffNext]_handoffVars
<1>1. CASE UNCHANGED vars
  BY <1>1 DEF vars
<1>2. CASE Worker
  BY <1>2 DEF Worker, Adopt, SetHasClient, SetAddress, Publish, HandoffNext, WorkerSteps
<1>3. CASE Socket
  BY <1>3 DEF Socket, Receive, NoDatagram, HandoffNext
<1>4. CASE Wakeup \/ Poll \/ InPoll
  BY <1>4 DEF Wakeup, Poll, InPoll, HandoffNext, GatewaySteps
<1>5. CASE Initialize
  BY <1>5 DEF Initialize, InitFails, InitSucceeds, HandoffNext
<1>6. CASE RouteTo \/ Send
  BY <1>6 DEF RouteTo, Send
<1> QED BY <1>1, <1>2, <1>3, <1>4, <1>5, <1>6 DEF Next

\* The stores of an adoption, in whatever order they become visible.
LEMMA AdoptUdp ==
  ASSUME UdpInv, Adopt, UNCHANGED <<portVars, routing>>
  PROVE  UdpInv'
<1>1. CASE SetHasClient
  <2>1. /\ "flag" \in todo /\ has_client' = TRUE /\ todo' = todo \ {"flag"}
        /\ UNCHANGED <<handoffVars, clt_addr, from, client, portVars, routing>>
    BY <1>1 DEF SetHasClient
  <2>2. UdpTypes'
    BY <2>1 DEF UdpInv, UdpTypes, portVars
  <2>3. Halves \ todo' = Halves \ todo
    BY <2>1 DEF Halves
  <2>4. ClientInv'
    BY <2>1, <2>3 DEF UdpInv, ClientInv, handoffVars
  <2> QED BY <2>2, <2>4 DEF UdpInv
<1>2. ASSUME NEW h \in Halves, SetAddress(h) PROVE UdpInv'
  <2>1. /\ h \in todo /\ todo' = todo \ {h} /\ clt_addr' = [clt_addr EXCEPT ![h] = from]
        /\ UNCHANGED <<handoffVars, has_client, from, client, portVars, routing>>
    BY <1>2 DEF SetAddress
  <2>2. from = client
    BY <2>1 DEF UdpInv, ClientInv
  <2>3. UdpTypes'
    BY <2>1 DEF UdpInv, UdpTypes, portVars
  <2>4. \A g \in Halves : clt_addr'[g] = IF g = h THEN client ELSE clt_addr[g]
    BY <2>1, <2>2 DEF UdpInv, UdpTypes
  <2>5. ClientInv'
    BY <2>1, <2>4 DEF UdpInv, ClientInv, handoffVars
  <2> QED BY <2>3, <2>5 DEF UdpInv
<1> QED BY <1>1, <1>2 DEF Adopt

\* The worker waits, and goes on, with its adoption done.
LEMMA PublishUdp ==
  ASSUME UdpInv, IndInv, Publish, UNCHANGED <<portVars, routing>>
  PROVE  UdpInv'
<1>1. UNCHANGED clientVars
  BY DEF Publish
<1>2. todo # {} => wpc' \in {"filled", "locked", "setsize", "setcur", "check"}
  BY DEF Publish, WorkerLock, StoreCurRead, StoreBufferSize
<1> QED BY <1>1, <1>2 DEF UdpInv, UdpTypes, ClientInv, clientVars, portVars

\* A datagram: adopted with nothing left of the last adoption.
LEMMA SocketUdp ==
  ASSUME UdpInv, Socket
  PROVE  UdpInv'
<1>1. wpc = "recv" /\ todo = {} /\ UNCHANGED <<portVars, routing, clt_addr>>
  BY DEF Socket, Receive, NoDatagram, WorkerReceive, UdpInv, ClientInv
<1>2. CASE Receive
  <2>1. wpc' = "filled" /\ from' \in Addresses /\ UNCHANGED has_client
    BY <1>2 DEF Receive, WorkerReceive
  <2>2. CASE has_client
    BY <1>1, <1>2, <2>1, <2>2 DEF Receive, UdpInv, UdpTypes, ClientInv, portVars
  <2>3. CASE ~has_client
    <3>1. todo' = Halves \cup {"flag"} /\ client' = from'
      BY <1>2, <2>3 DEF Receive
    <3> QED BY <1>1, <2>1, <3>1 DEF UdpInv, UdpTypes, ClientInv, portVars
  <2> QED BY <2>2, <2>3
<1>3. CASE NoDatagram
  BY <1>1, <1>3 DEF NoDatagram, UdpInv, UdpTypes, ClientInv, portVars
<1> QED BY <1>2, <1>3 DEF Socket

\* A descriptor is lost at each failed initialization, up to the bound.
LEMMA InitializeUdp ==
  ASSUME UdpInv, IndInv, Initialize
  PROVE  UdpInv'
<1>1. UNCHANGED <<clientVars, routing>>
  BY DEF Initialize
<1>2. lost' \in 0 .. MaxLost
  <2>1. lost \in 0 .. MaxLost /\ MaxLost \in Nat
    BY UdpAssumption DEF UdpInv, UdpTypes
  <2>2. lost' = lost \/ (lost < MaxLost /\ lost' = lost + 1)
    <3>1. CASE fd = "none"
      BY <3>1 DEF Initialize, InitFails, InitSucceeds
    <3>2. CASE fd # "none"
      BY <3>2 DEF Initialize, InitFails, InitSucceeds
    <3> QED BY <3>1, <3>2
  <2> QED BY <2>1, <2>2
<1>3. fd' \in {"none", "idle", "bound"}
  BY DEF Initialize, InitFails, InitSucceeds
<1>4. held' \in BOOLEAN /\ initialized' \in BOOLEAN
  <2>1. held \in BOOLEAN /\ initialized \in BOOLEAN
    BY DEF UdpInv, UdpTypes
  <2>2. CASE InitFails
    <3>1. held' = (held \/ fd = "bound") /\ initialized' = initialized
      BY <2>2 DEF InitFails
    <3> QED BY <2>1, <3>1, Zenon
  <2>3. CASE InitSucceeds
    BY <2>1, <2>3, Zenon DEF InitSucceeds
  <2> QED BY <2>2, <2>3 DEF Initialize
<1>5. todo # {} => UNCHANGED wpc
  BY DEF Initialize, InitFails, InitSucceeds, WorkerStart, handoffVars, UdpInv, ClientInv
<1> QED BY <1>1, <1>2, <1>3, <1>4, <1>5 DEF UdpInv, UdpTypes, ClientInv, clientVars

\* Polls and wake-ups concern a worker that waits, if any.
LEMMA PollUdp ==
  ASSUME UdpInv, Wakeup \/ Poll \/ InPoll
  PROVE  UdpInv'
<1>1. UNCHANGED <<portVars, clientVars, routing>>
  BY DEF Wakeup, Poll, InPoll
<1>2. todo # {} => UNCHANGED wpc
  BY DEF Wakeup, Poll, InPoll, SpuriousWakeup, GatewaySteps, HasMoreLoad, HasMoreTest,
         HasMoreSignal, ReadByte, Signalled, UdpInv, ClientInv
<1> QED BY <1>1, <1>2 DEF UdpInv, UdpTypes, ClientInv, clientVars, portVars

\* Every step keeps the invariant.
LEMMA NextUdp ==
  ASSUME UdpInv, IndInv, [Next]_vars
  PROVE  UdpInv'
<1>1. CASE UNCHANGED vars
  BY <1>1 DEF vars, handoffVars, portVars, clientVars, UdpInv, UdpTypes, ClientInv
<1>2. CASE RouteTo \/ Send
  BY <1>2 DEF RouteTo, Send, KnowsClient, handoffVars, portVars, clientVars, UdpInv, UdpTypes,
              ClientInv
<1>3. CASE Worker
  BY <1>3, AdoptUdp, PublishUdp DEF Worker
<1> QED BY <1>1, <1>2, <1>3, SocketUdp, InitializeUdp, PollUdp DEF Next

-----------------------------------------------------------------------------
\* udp_server is the handoff, with senders.
THEOREM UdpIsHandoff == Spec => HandoffSpec
<1>1. [Next]_vars => [HandoffNext]_handoffVars
  BY NextIsHandoff
<1> QED BY InitUdp, <1>1, PTL DEF Spec, HandoffSpec

\* The invariant of the client's address.
THEOREM UdpInvariant == Spec => []UdpInv
<1>1. UdpInv /\ IndInv /\ [Next]_vars => UdpInv'
  BY NextUdp
<1> QED BY InitUdp, UdpIsHandoff, IndInvariant, <1>1, PTL DEF Spec

\* Types, the indices of the shared buffer among them.
THEOREM UdpTypesHold == Spec => []UdpTypeOK
<1>1. HandoffTypeOK /\ UdpInv => UdpTypeOK
  BY DEF UdpInv, UdpTypes, UdpTypeOK
<1> QED BY UdpIsHandoff, HandoffTypes, UdpInvariant, <1>1, PTL

\* A reply goes, whole, to the client adopted last, unless the worker is in the middle
\* of adopting one: although has_client and the address are stored without the lock.
THEOREM UdpReplies == Spec => RepliesToClient
<1>1. UdpInv /\ [Next]_vars =>
        [Send => todo # {} \/ (client \in Addresses /\ \A h \in Halves : clt_addr[h] = client)]_vars
  BY DEF UdpInv, ClientInv, Send
<1> QED BY UdpInvariant, <1>1, PTL DEF Spec, RepliesToClient

\* Whoever sends, the parser is given the datagrams' bytes once and in order.
THEOREM UdpRefines == Spec => UdpImplementsStream
<1>1. ImplementsStream <=> UdpImplementsStream
  BY DEF ImplementsStream, UdpImplementsStream
<1> QED BY UdpIsHandoff, HandoffRefines, <1>1, PTL

\* Whatever happens around it, the chunk in the buffer is the unread end of the stream,
\* and what has_more sees without the lock never leads read_byte astray.
THEOREM UdpHandoff == Spec => []HandoffInv
  BY UdpIsHandoff, HandoffInvariant, PTL

\* The UDP port is one of those that Gateway assumes: having published a chunk, its
\* worker rests until it is called with the chunk consumed.
THEOREM UdpIsPort == Spec => ActsAsPort
  BY UdpIsHandoff, HandoffIsPort, PTL
=============================================================================
