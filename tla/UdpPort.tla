------------------------------ MODULE UdpPort ------------------------------
(***************************************************************************)
(* A UDP port (source_udp.c).  It hands datagrams over with the protocol   *)
(* of ChunkHandoff, whoever sent them, and sends replies to one client:    *)
(* the sender of the datagram that came when there was no client.  A       *)
(* failed recvfrom, and an empty datagram, make it forget the client.      *)
(*                                                                         *)
(* The worker stores the client's address and has_client without the lock, *)
(* and the gateway thread reads them without it: each store, and each half *)
(* of the address, is a step of its own, in any order up to the point      *)
(* where the worker gives the lock back.                                   *)
(***************************************************************************)
EXTENDS ChunkHandoff

CONSTANTS Addresses,    \* where datagrams come from
          NoAddress,    \* what malloc left in clt_addr
          MaxLost       \* bound: descriptors lost to failed initializations

ASSUME UdpAssumption == NoAddress \notin Addresses /\ MaxLost \in Nat

VARIABLES
    initialized,
    fd,           \* "none", "idle" (a socket that is not bound), "bound"
    lost,         \* how many descriptors earlier attempts overwrote without closing
    held,         \* one of them is still bound to the port
    has_client,
    clt_addr,     \* the two halves of udp->clt_addr
    from,         \* the worker's clt_addr: the sender of the last datagram
    todo,         \* the stores of the adoption that are still to come
    client,       \* history: the sender adopted last
    routing       \* the gateway thread is in udp_route_to, about to send

portVars == <<initialized, fd, lost, held>>
clientVars == <<has_client, clt_addr, from, todo, client>>
vars == <<handoffVars, portVars, clientVars, routing>>

Halves == {"host", "port"}

\* hook_udp, and what udp_init sets before anything looks at it.
Init ==
    /\ HandoffInit
    /\ initialized = FALSE /\ fd = "none" /\ lost = 0 /\ held = FALSE
    /\ has_client = FALSE
    /\ clt_addr = [h \in Halves |-> NoAddress]
    /\ from = NoAddress /\ todo = {} /\ client = NoAddress
    /\ routing = FALSE

(***************************************************************************)
(* The worker thread, udp_server.                                          *)
(***************************************************************************)
\* recvfrom returns a datagram; its sender is adopted if there is no client.
Receive ==
    /\ WorkerReceive
    /\ from' \in Addresses
    /\ IF has_client THEN UNCHANGED <<todo, client>>
                     ELSE todo' = Halves \cup {"flag"} /\ client' = from'
    /\ UNCHANGED <<has_client, clt_addr>>

\* It fails, or returns an empty datagram, which is taken for a closed socket.
NoDatagram ==
    /\ wpc = "recv"
    /\ has_client' = FALSE
    /\ UNCHANGED <<handoffVars, clt_addr, from, todo, client>>

SetHasClient ==
    /\ "flag" \in todo
    /\ has_client' = TRUE /\ todo' = todo \ {"flag"}
    /\ UNCHANGED <<handoffVars, clt_addr, from, client>>

SetAddress(h) ==
    /\ h \in todo
    /\ clt_addr' = [clt_addr EXCEPT ![h] = from] /\ todo' = todo \ {h}
    /\ UNCHANGED <<handoffVars, has_client, from, client>>

Adopt == SetHasClient \/ \E h \in Halves : SetAddress(h)

\* cnd_wait and mtx_unlock let go of the lock, and what was stored is visible.
Publish ==
    /\ WorkerLock \/ StoreCurRead \/ StoreBufferSize \/ (todo = {} /\ WorkerTest)
    /\ UNCHANGED clientVars

Worker == (Adopt \/ Publish) /\ UNCHANGED <<portVars, routing>>

Socket == (Receive \/ NoDatagram) /\ UNCHANGED <<portVars, routing>>

Wakeup == SpuriousWakeup /\ UNCHANGED <<portVars, clientVars, routing>>

(***************************************************************************)
(* The gateway thread.                                                     *)
(***************************************************************************)
\* udp_init up to where it fails.  A descriptor of the attempt before is
\* overwritten, not closed; if it is bound, bind fails from then on.
InitFails ==
    /\ ~initialized
    /\ fd # "none" => lost < MaxLost
    /\ lost' = IF fd = "none" THEN lost ELSE lost + 1
    /\ held' = (held \/ fd = "bound")
    /\ fd' \in IF held' THEN {"none", "idle"} ELSE {"none", "idle", "bound"}
    /\ UNCHANGED <<handoffVars, initialized>>

InitSucceeds ==
    /\ ~initialized /\ ~held /\ fd # "bound"
    /\ fd # "none" => lost < MaxLost
    /\ lost' = IF fd = "none" THEN lost ELSE lost + 1
    /\ fd' = "bound" /\ initialized' = TRUE
    /\ WorkerStart
    /\ UNCHANGED held

Initialize ==
    /\ ~routing /\ gpc = "away"
    /\ InitFails \/ InitSucceeds
    /\ UNCHANGED <<clientVars, routing>>

\* udp_has_more and udp_read_byte.
Poll ==
    /\ ~routing /\ HasMoreLoad
    /\ UNCHANGED <<portVars, clientVars, routing>>

InPoll ==
    /\ gpc # "away" /\ GatewaySteps
    /\ UNCHANGED <<portVars, clientVars, routing>>

\* Mutant of KnowsClient: has_client is not looked at.
KnowsAnyone == TRUE

\* udp->has_client, read without the lock
KnowsClient == has_client

\* udp_route_to up to the packing of the message; without a client it does nothing.
RouteTo ==
    /\ initialized /\ gpc = "away" /\ ~routing
    /\ KnowsClient
    /\ routing' = TRUE
    /\ UNCHANGED <<handoffVars, portVars, clientVars>>

\* sendto(..., MSG_DONTWAIT, &udp->clt_addr, ...): it does not block, and what
\* it returns changes nothing here.
Send ==
    /\ routing
    /\ routing' = FALSE
    /\ UNCHANGED <<handoffVars, portVars, clientVars>>

Next == Worker \/ Socket \/ Wakeup \/ Initialize \/ Poll \/ InPoll \/ RouteTo \/ Send

\* As for the TCP port, except that sendto never blocks.
Spec == /\ Init /\ [][Next]_vars
        /\ WF_vars(Worker) /\ SF_vars(Poll) /\ WF_vars(InPoll) /\ WF_vars(Send)
-----------------------------------------------------------------------------
(***************************************************************************)
(* Properties.                                                             *)
(***************************************************************************)

\* The types of the port's own variables, on top of the handoff's.
UdpTypeOK ==
    /\ HandoffTypeOK
    /\ initialized \in BOOLEAN /\ fd \in {"none", "idle", "bound"}
    /\ lost \in 0 .. MaxLost /\ held \in BOOLEAN
    /\ has_client \in BOOLEAN
    /\ clt_addr \in [Halves -> Addresses \cup {NoAddress}]
    /\ from \in Addresses \cup {NoAddress}
    /\ client \in Addresses \cup {NoAddress}
    /\ todo \subseteq Halves \cup {"flag"}
    /\ routing \in BOOLEAN

\* A reply goes, whole, to the client adopted last, although other senders'
\* datagrams came in meanwhile and the client may have been forgotten since
\* udp_route_to looked; only while the worker is in the middle of adopting one
\* may it go to half an address, or to none.
RepliesToClient ==
    [][Send => todo # {} \/ (client \in Addresses /\ \A h \in Halves : clt_addr[h] = client)]_vars

\* Whoever sends, and whether clients are forgotten in between, the parser is
\* given the datagrams' bytes, each once and in order.
UdpImplementsStream == Stream!Spec

\* What was received reaches the parser, whatever is sent meanwhile.
UdpDrained == []<>(Len(got) = recvd)
=============================================================================
