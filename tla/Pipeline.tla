------------------------------ MODULE Pipeline ------------------------------
(***************************************************************************)
(* The gateway thread: pipeline_spin drains the sources one after another, *)
(* pushes every complete frame through routing, inspection, transformation *)
(* and the sinks, and ends each pass with the operator console             *)
(* (secure_gateway.c, security_policies.c, route_table.c, console.c).      *)
(*                                                                         *)
(* The thread's bytes are grouped into frames: the bytes of a frame that   *)
(* do not complete it only move the parser of that source, so a frame      *)
(* becomes visible here with its last byte.  `sent' and the indices in the *)
(* messages are history: they say which arrival a message comes from.      *)
(***************************************************************************)
EXTENDS Ports, Sequences

CONSTANTS
    HookedSources,    \* the sources a hook_* call connected
    HookedSinks,      \* the sinks a hook_* call gave a route function
    SourceTransform,  \* the sources add_transformer was called for
    SinkTransform,    \* the sinks add_transformer was called for
    DEBUG,            \* built with CMAKE_BUILD_TYPE=Debug
    USE_CONSOLE,      \* built with the console
    Accepted,         \* the frames that may arrive
    MaxFrames         \* bound: MaxFrames[s] is how many of them arrive at source s

PortsAssumption ==
    /\ HookedSources \subseteq Sources
    /\ HookedSinks \subseteq Sinks
    /\ SourceTransform \subseteq Sources
    /\ SinkTransform \subseteq Sinks
    /\ DEBUG \in BOOLEAN /\ USE_CONSOLE \in BOOLEAN
    /\ Accepted \subseteq Frame
    /\ MaxFrames \in [Sources -> Nat]

ASSUME PipelineAssumption == PortsAssumption

VARIABLES
    policy_enabled,
    transform_enabled,
    sent,       \* sent[s]: the frames that arrived at source s so far
    taken,      \* taken[s]: how many of them the parser has consumed
    cur,        \* sources[s].cur: the message buffer of each source
    offered,    \* offered[k]: the messages sink k's route was called with
    pc,         \* where the gateway thread is
    i,          \* the loop variable of pipeline_spin
    j           \* the loop variable of pipeline_push

vars == <<policy_enabled, transform_enabled, sent, taken, cur, offered, pc, i, j>>

-----------------------------------------------------------------------------
\* struct message_t; `index' is the arrival the message holds.
Message == [msg : Frame, source : Sources, index : Nat, sinks : SUBSET Sinks]

\* memset(&pipeline->sources, 0, ...)
ZeroMessage == [msg |-> [msgid |-> "OTHER", fence |-> FALSE, zero |-> FALSE,
                         xored |-> FALSE, intact |-> FALSE],
                source |-> SOURCE_TYPE_NULL, index |-> 0, sinks |-> {}]

\* Mutant of RouteTable: every source is routed to every peer.
BroadcastTable == [s \in Sources |-> Sinks \ {SINK_TYPE_DISCARD}]

\* The default route table.
RouteTable ==
    [s \in Sources |->
        CASE s = SOURCE_TYPE_NULL    -> {}
          [] s = SOURCE_TYPE_VMC     -> {SINK_TYPE_LEGACY, SINK_TYPE_ENCLAVE}
          [] s = SOURCE_TYPE_LEGACY  -> {SINK_TYPE_VMC}
          [] s = SOURCE_TYPE_ENCLAVE -> {SINK_TYPE_VMC}]

\* Mutant of match_mmc: `>' for `>='.
match_mmc_past_enclave(m) == m.source = SOURCE_TYPE_LEGACY \/ m.source > SOURCE_TYPE_ENCLAVE

match_vmc(m) == m.source = SOURCE_TYPE_VMC
match_mmc(m) == m.source = SOURCE_TYPE_LEGACY \/ m.source >= SOURCE_TYPE_ENCLAVE

check_accept(m)          == TRUE
check_disable_fence(m)   == ~DisablesFence(m.msg)
check_meminfo(m)         == m.msg.msgid # "MEMINFO"

\* The loop of pipeline_inspect over the policies security_policy_init
\* registers, in that order; the first that refuses the message ends it.
Refused(m) ==
    \/ match_vmc(m) /\ ~check_accept(m)
    \/ match_mmc(m) /\ ~check_disable_fence(m)
    \/ match_mmc(m) /\ ~check_meminfo(m)

\* Mutant of Route: the route is added to the sinks of the last message.
RouteKeepsSinks(m) == [m EXCEPT !.sinks = @ \cup RouteTable[m.source]]

\* route_table_route: a memcpy, so nothing of the last message's sinks stays.
Route(m) == [m EXCEPT !.sinks = RouteTable[m.source]]

Inspect(m) == IF policy_enabled /\ Refused(m)
              THEN [m EXCEPT !.sinks = @ \cup {SINK_TYPE_DISCARD}]
              ELSE m

\* Mutant of Transform: the switch is not looked at.
TransformAlways(has, m) == IF has THEN [m EXCEPT !.msg = Xor(m.msg)] ELSE m

\* A port's transformer runs only when it has one and the switch is on.
Transform(has, m) == IF transform_enabled /\ has
                     THEN [m EXCEPT !.msg = Xor(m.msg)]
                     ELSE m
-----------------------------------------------------------------------------
\* pipeline_init and the hooks; transform_enabled is static storage that
\* nothing sets before the loop starts.
Init ==
    /\ policy_enabled = TRUE
    /\ transform_enabled = FALSE
    /\ sent = [s \in Sources |-> <<>>]
    /\ taken = [s \in Sources |-> 0]
    /\ cur = [s \in Sources |-> ZeroMessage]
    /\ offered = [k \in Sinks |-> <<>>]
    /\ pc = "scan" /\ i = 0 /\ j = 0

\* The environment completes one more frame at a port.
Arrive(s) ==
    /\ s \in HookedSources
    /\ Len(sent[s]) < MaxFrames[s]
    /\ \E f \in Accepted : sent' = [sent EXCEPT ![s] = Append(@, f)]
    /\ UNCHANGED <<policy_enabled, transform_enabled, taken, cur, offered, pc, i, j>>

\* Source i is not connected, or its has_more says no: on to the next.
NextSource ==
    /\ pc = "scan" /\ i < MAX_SOURCES
    /\ i \in HookedSources => taken[i] = Len(sent[i])
    /\ i' = i + 1
    /\ UNCHANGED <<policy_enabled, transform_enabled, sent, taken, cur, offered, pc, j>>

\* The loop drains source i: read_byte and mavlink_parse_char consume the
\* next frame.
HasMore ==
    /\ pc = "scan" /\ i < MAX_SOURCES
    /\ i \in HookedSources /\ taken[i] < Len(sent[i])

\* A frame with a bad checksum is dropped inside the parser; what that leaves
\* in cur is overwritten by the next complete frame before it is read.
ParseDamaged ==
    /\ HasMore
    /\ ~sent[i][taken[i] + 1].intact
    /\ taken' = [taken EXCEPT ![i] = @ + 1]
    /\ UNCHANGED <<policy_enabled, transform_enabled, sent, cur, offered, pc, i, j>>

\* MAVLINK_FRAMING_OK: the parser fills cur (its sinks are still those of the
\* last message), the source's transformer runs and push is called.
ParseFrame ==
    /\ HasMore
    /\ sent[i][taken[i] + 1].intact
    /\ taken' = [taken EXCEPT ![i] = @ + 1]
    /\ cur' = [cur EXCEPT ![i] =
                 Transform(i \in SourceTransform,
                           [@ EXCEPT !.msg = sent[i][taken[i] + 1],
                                     !.source = i, !.index = taken[i] + 1])]
    /\ pc' = "push"
    /\ UNCHANGED <<policy_enabled, transform_enabled, sent, offered, i, j>>

\* Mutant of Offer: slot 0 taken for "no sink".
OfferNotToZero(k, m) == IF k \in HookedSinks /\ k > 0
                        THEN [offered EXCEPT ![k] = Append(@, m)]
                        ELSE offered

\* sink->route(sink, msg), when the sink has one.
Offer(k, m) == IF k \in HookedSinks
               THEN [offered EXCEPT ![k] = Append(@, m)]
               ELSE offered

\* pipeline_push up to its loop: route, inspect, and end here if the message
\* is to be discarded; only a debug build hands it to the discard sink.
Push ==
    /\ pc = "push"
    /\ LET m == Inspect(Route(cur[i])) IN
       /\ cur' = [cur EXCEPT ![i] = m]
       /\ IF SINK_TYPE_DISCARD \in m.sinks
          THEN /\ offered' = IF DEBUG THEN Offer(SINK_TYPE_DISCARD, m) ELSE offered
               /\ pc' = "scan"
          ELSE /\ pc' = "sinks"
               /\ UNCHANGED offered
    /\ UNCHANGED <<policy_enabled, transform_enabled, sent, taken, i, j>>

\* Mutant of SinkLoop: `<=' for `<'.
SinkLoopPastEnd == pc = "sinks" /\ j <= MAX_SINKS

\* for (i = 0; i < MAX_SINKS; i++)
SinkLoop == pc = "sinks" /\ j < MAX_SINKS

\* One turn of the loop over the sinks.  The transformer works on cur itself,
\* so what it does is still there for the sinks that follow.
RouteSink ==
    /\ SinkLoop
    /\ IF j \in cur[i].sinks /\ j \in HookedSinks
       THEN LET m == Transform(j \in SinkTransform, cur[i]) IN
            /\ cur' = [cur EXCEPT ![i] = m]
            /\ offered' = Offer(j, m)
       ELSE UNCHANGED <<cur, offered>>
    /\ j' = j + 1
    /\ UNCHANGED <<policy_enabled, transform_enabled, sent, taken, pc, i>>

PushReturns ==
    /\ pc = "sinks" /\ j = MAX_SINKS
    /\ pc' = "scan" /\ j' = 0
    /\ UNCHANGED <<policy_enabled, transform_enabled, sent, taken, cur, offered, i>>

\* The end of a pass.  console_spin reads at most one key every 100 ms, so in
\* any pass there may be none; keys without a handler count as none.
PassEnds ==
    /\ pc = "scan" /\ i = MAX_SOURCES
    /\ i' = 0
    /\ UNCHANGED <<sent, taken, cur, offered, j>>

NoKey == PassEnds /\ UNCHANGED <<policy_enabled, transform_enabled, pc>>

PolicyKey ==          \* to_enable_security_policy, to_disable_security_policy
    /\ USE_CONSOLE /\ PassEnds
    /\ policy_enabled' \in BOOLEAN
    /\ UNCHANGED <<transform_enabled, pc>>

TransformerKey ==     \* to_enable_transformer, to_disable_transformer
    /\ USE_CONSOLE /\ PassEnds
    /\ transform_enabled' \in BOOLEAN
    /\ UNCHANGED <<policy_enabled, pc>>

\* getchar returns EOF once the console is closed, and ASSERT(0 <= c) stops
\* the process.
ConsoleClosed ==
    /\ USE_CONSOLE /\ PassEnds
    /\ pc' = "stopped"
    /\ UNCHANGED <<policy_enabled, transform_enabled>>

Gateway ==
    \/ NextSource \/ ParseDamaged \/ ParseFrame \/ Push \/ RouteSink \/ PushReturns
    \/ NoKey \/ PolicyKey \/ TransformerKey \/ ConsoleClosed

Next == Gateway \/ \E s \in Sources : Arrive(s)

Spec == Init /\ [][Next]_vars
-----------------------------------------------------------------------------
(***************************************************************************)
(* Properties.                                                             *)
(***************************************************************************)

\* Every variable holds what the C declarations and the loops allow.
TypeOK ==
    /\ policy_enabled \in BOOLEAN /\ transform_enabled \in BOOLEAN
    /\ sent \in [Sources -> Seq(Accepted)]
    /\ taken \in [Sources -> Nat]
    /\ cur \in [Sources -> Message]
    /\ offered \in [Sinks -> Seq(Message)]
    /\ pc \in {"scan", "push", "sinks", "stopped"}
    /\ i \in 0 .. MAX_SOURCES /\ j \in 0 .. MAX_SINKS

\* The messages handed to sink k, as <<source, arrival>>.
Ids(k) == [n \in 1 .. Len(offered[k]) |-> <<offered[k][n].source, offered[k][n].index>>]

\* The sinks the message in hand still has to visit.
Pending == IF pc = "sinks"
           THEN {k \in cur[i].sinks \cap HookedSinks : k >= j}
           ELSE {}

\* The abstract gate decides and delivers in one step, the one in which Push
\* has inspected the message; the loop over the sinks comes after it.
Gate == INSTANCE PolicyGate WITH
    Attached  <- HookedSinks \ {SINK_TYPE_DISCARD},
    Decoding  <- SourceTransform,
    handled   <- [s \in Sources |-> IF pc = "push" /\ i = s THEN taken[s] - 1
                                                           ELSE taken[s]],
    policy    <- policy_enabled,
    decipher  <- transform_enabled,
    delivered <- [k \in Sinks |->
                    IF k = SINK_TYPE_DISCARD THEN <<>>
                    ELSE IF k \in Pending THEN Append(Ids(k), <<i, cur[i].index>>)
                    ELSE Ids(k)]

\* pipeline_spin with its stages implements the gate: every frame reaches all
\* of its peers or none, once, in the order its source sent it, and the switch
\* that counts is the one in force when it was inspected.
ImplementsGate == Gate!Spec

\* Traffic only crosses the gateway: a message handed to the vehicle's sink
\* came from the ground side and the other way round, for all the route table,
\* the stale sinks of the last message and the sink loop have to do with it.
Confinement ==
    \A k \in Sinks \ {SINK_TYPE_DISCARD} : \A n \in 1 .. Len(offered[k]) :
        (offered[k][n].source = SOURCE_TYPE_VMC) # (k = SINK_TYPE_VMC)

\* The frame a message stands for, as it came in from its source.
Arrived(m) == sent[m.source][m.index]

\* The frame the message in hand was parsed from, as pipeline_inspect sees it.
Inspected == Gate!Reading(i, sent[i][taken[i]])

\* A sink with a transformer is the last of the sinks its messages go to.
TransformersLast ==
    \A s \in Sources : \A k, l \in RouteTable[s] \cap HookedSinks :
        k \in SinkTransform => l <= k

\* The message in hand is the frame just read: nothing of the message before is
\* left in it once it is routed, it is not forbidden when it gets to the sinks,
\* and no sink's transformer has touched it while other sinks are to come.
MessageInv ==
    /\ \A s \in Sources : taken[s] <= Len(sent[s])
    /\ pc \in {"push", "sinks"} =>
          i \in Sources /\ cur[i].source = i /\ cur[i].index = taken[i] /\ taken[i] >= 1
    /\ pc = "push" => cur[i].msg = Inspected
    /\ pc = "sinks" =>
          /\ cur[i].sinks = RouteTable[i]
          /\ ~(policy_enabled /\ Gate!Forbidden(i, Inspected))
          /\ TransformersLast =>
                cur[i].msg = Inspected \/ \A k \in RouteTable[i] \cap HookedSinks : k < j

\* This step offers something to sink k, and what that is.
Delivers(k) == offered'[k] # offered[k]
Delivered(k) == offered'[k][Len(offered'[k])]

\* No step hands a forbidden message to a peer while the policies are on: the
\* refusal of pipeline_inspect survives everything up to sink->route.
Permitted ==
    \A k \in Sinks \ {SINK_TYPE_DISCARD} : Delivers(k) =>
        LET m == Delivered(k) IN
        ~(policy_enabled /\ Gate!Forbidden(m.source, Gate!Reading(m.source, Arrived(m))))
NoForbiddenDelivery == [][Permitted]_vars

\* What a peer receives went through its source's transformer and its own, and
\* through no other sink's, although all of them work on the one buffer.
OwnTransformers ==
    TransformersLast =>
      \A k \in Sinks \ {SINK_TYPE_DISCARD} : Delivers(k) =>
        LET m == Delivered(k)
            inspected == Gate!Reading(m.source, Arrived(m)) IN
        m.msg = IF transform_enabled /\ k \in SinkTransform THEN Xor(inspected)
                                                           ELSE inspected
OwnTransformersOnly == [][OwnTransformers]_vars

\* Was arrival n of source s handed to sink k?
Holds(k, s, n) == \E x \in 1 .. Len(offered[k]) : Ids(k)[x] = <<s, n>>

\* In a debug build with its discard sink nothing vanishes: an intact frame
\* that has been dealt with is in the log of refused messages or with a peer,
\* and never in both places.
Accounted ==
    DEBUG /\ SINK_TYPE_DISCARD \in HookedSinks =>
      \A s \in Sources : \A n \in 1 .. taken[s] :
        \/ ~sent[s][n].intact
        \/ pc \in {"push", "sinks"} /\ i = s /\ n = taken[s]
        \/ \A k \in RouteTable[s] \cap HookedSinks :
              Holds(SINK_TYPE_DISCARD, s, n) # Holds(k, s, n)

\* In a build with the XOR transformers the link to the vehicle carries no
\* payload that arrived in the clear.
LinkEnciphered ==
    \A n \in 1 .. Len(offered[SINK_TYPE_VMC]) :
        offered[SINK_TYPE_VMC][n].msg.xored # Arrived(offered[SINK_TYPE_VMC][n]).xored
=============================================================================
