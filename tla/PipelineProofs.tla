--------------------------- MODULE PipelineProofs ---------------------------
(***************************************************************************)
(* Pipeline, for every choice of hooked ports, transformers, build options *)
(* and arriving frames, and for runs of every length: its types, the       *)
(* confinement of traffic, that no forbidden message is delivered while    *)
(* the policies are on, that the stages implement the abstract gate, what  *)
(* becomes of each frame, the order in which a sink is called, and when    *)
(* the link to the vehicle is enciphered.                                  *)
(***************************************************************************)
EXTENDS Pipeline, TLAPS

\* The ids are the numbers of the two enums.
LEMMA RouteTableType ==
  /\ RouteTable \in [Sources -> SUBSET Sinks]
  /\ \A s \in Sources : SINK_TYPE_DISCARD \notin RouteTable[s]
  BY DEF RouteTable, Sources, Sinks, MAX_SOURCES, MAX_SINKS, SOURCE_TYPE_NULL,
         SOURCE_TYPE_VMC, SOURCE_TYPE_LEGACY, SOURCE_TYPE_ENCLAVE, SINK_TYPE_DISCARD,
         SINK_TYPE_VMC, SINK_TYPE_LEGACY, SINK_TYPE_ENCLAVE

\* Every route has the vehicle at exactly one of its ends.
LEMMA RouteTableConfined ==
  \A s \in Sources : \A k \in RouteTable[s] : (s = SOURCE_TYPE_VMC) # (k = SINK_TYPE_VMC)
  BY DEF RouteTable, Sources, MAX_SOURCES, SOURCE_TYPE_NULL,
         SOURCE_TYPE_VMC, SOURCE_TYPE_LEGACY, SOURCE_TYPE_ENCLAVE,
         SINK_TYPE_VMC, SINK_TYPE_LEGACY, SINK_TYPE_ENCLAVE

\* The XOR transformers produce frames.
LEMMA XorType == ASSUME NEW f \in Frame PROVE Xor(f) \in Frame
  BY DEF Xor, Frame

\* A transformer changes nothing but the frame.
LEMMA TransformType ==
  ASSUME NEW has \in BOOLEAN, NEW m \in Message
  PROVE  /\ Transform(has, m) \in Message
         /\ Transform(has, m).source = m.source
         /\ Transform(has, m).index = m.index
         /\ Transform(has, m).sinks = m.sinks
         /\ Transform(has, m).msg = IF transform_enabled /\ has THEN Xor(m.msg) ELSE m.msg
<1>1. Xor(m.msg) \in Frame
  BY XorType DEF Message
<1> QED BY <1>1 DEF Transform, Message

\* What pipeline_push makes of a message before its loop: the sinks are those
\* of the route, and the discard sink as well if and only if it is refused.
LEMMA InspectRoute ==
  ASSUME NEW m \in Message
  PROVE  /\ Inspect(Route(m)) \in Message
         /\ Inspect(Route(m)).source = m.source
         /\ Inspect(Route(m)).index = m.index
         /\ Inspect(Route(m)).msg = m.msg
         /\ SINK_TYPE_DISCARD \notin Inspect(Route(m)).sinks =>
              /\ Inspect(Route(m)).sinks = RouteTable[m.source]
              /\ ~(policy_enabled /\ Refused(m))
<1> DEFINE r == Route(m)
<1>1. /\ r \in Message /\ r.source = m.source /\ r.index = m.index /\ r.msg = m.msg
      /\ r.sinks = RouteTable[m.source]
  BY RouteTableType DEF Route, Message
<1>2. Refused(r) <=> Refused(m)
  BY <1>1 DEF Refused, match_vmc, match_mmc, check_accept, check_disable_fence, check_meminfo
<1>3. SINK_TYPE_DISCARD \in Sinks
  BY DEF SINK_TYPE_DISCARD, Sinks, MAX_SINKS
<1> HIDE DEF r
<1>4. CASE policy_enabled /\ Refused(r)
  BY <1>1, <1>2, <1>3, <1>4 DEF Inspect, Message, r
<1>5. CASE ~(policy_enabled /\ Refused(r))
  BY <1>1, <1>2, <1>5 DEF Inspect, r
<1> QED BY <1>4, <1>5

\* The policies refuse what the gate forbids, and nothing else.
LEMMA RefusedIsForbidden ==
  ASSUME NEW m \in Message
  PROVE  Refused(m) <=> Gate!Forbidden(m.source, m.msg)
  BY DEF Refused, match_vmc, match_mmc, check_accept, check_disable_fence, check_meminfo,
         Gate!Forbidden, Message, Sources, MAX_SOURCES, SOURCE_TYPE_VMC,
         SOURCE_TYPE_LEGACY, SOURCE_TYPE_ENCLAVE, Gate!SOURCE_TYPE_LEGACY,
         Gate!SOURCE_TYPE_ENCLAVE, Gate!DisablesFence, DisablesFence

-----------------------------------------------------------------------------
(***************************************************************************)
(* Types.                                                                  *)
(***************************************************************************)
\* The memset buffer is a message.
LEMMA ZeroMessageType == ZeroMessage \in Message
  BY DEF ZeroMessage, Message, Frame, MsgIds, Sources, MAX_SOURCES, SOURCE_TYPE_NULL

\* pipeline_init leaves every variable in its type.
LEMMA InitTypeOK == Init => TypeOK
<1> SUFFICES ASSUME Init PROVE TypeOK
  OBVIOUS
<1>1. cur \in [Sources -> Message]
  BY ZeroMessageType DEF Init
<1>2. /\ sent \in [Sources -> Seq(Accepted)] /\ taken \in [Sources -> Nat]
      /\ offered \in [Sinks -> Seq(Message)]
  BY DEF Init
<1>3. i \in 0 .. MAX_SOURCES /\ j \in 0 .. MAX_SINKS
  BY DEF Init, MAX_SOURCES, MAX_SINKS
<1> QED BY <1>1, <1>2, <1>3 DEF Init, TypeOK

\* sink->route appends to what the sink was offered.
LEMMA OfferType ==
  ASSUME TypeOK, NEW k \in Sinks, NEW m \in Message
  PROVE  Offer(k, m) \in [Sinks -> Seq(Message)]
  BY DEF Offer, TypeOK

\* The frame the parser is about to consume.
LEMMA NextFrame ==
  ASSUME TypeOK, HasMore
  PROVE  /\ i \in Sources /\ taken[i] + 1 \in 1 .. Len(sent[i])
         /\ sent[i][taken[i] + 1] \in Frame
<1>1. i \in Sources /\ sent[i] \in Seq(Accepted) /\ taken[i] \in Nat
      /\ taken[i] < Len(sent[i])
  BY PipelineAssumption DEF HasMore, TypeOK, PortsAssumption, Sources, MAX_SOURCES
<1>2. taken[i] + 1 \in 1 .. Len(sent[i])
  BY <1>1
<1>3. sent[i][taken[i] + 1] \in Accepted
  BY <1>1, <1>2
<1> QED BY <1>1, <1>2, <1>3, PipelineAssumption DEF PortsAssumption

\* What the parser and the source's transformer leave in the message buffer.
LEMMA ParsedMessage ==
  ASSUME TypeOK, ParseFrame
  PROVE  /\ cur'[i] \in Message /\ cur'[i].source = i /\ cur'[i].index = taken[i] + 1
         /\ cur'[i].msg = Gate!Reading(i, sent[i][taken[i] + 1])
         /\ cur' = [cur EXCEPT ![i] = cur'[i]]
<1> DEFINE f == sent[i][taken[i] + 1]
           m == [cur[i] EXCEPT !.msg = f, !.source = i, !.index = taken[i] + 1]
<1>1. i \in Sources /\ taken[i] + 1 \in Nat /\ f \in Frame /\ cur[i] \in Message
  BY NextFrame DEF ParseFrame, HasMore, TypeOK
<1>2. m \in Message /\ m.msg = f /\ m.source = i /\ m.index = taken[i] + 1
  <2> HIDE DEF f
  <2> QED BY <1>1 DEF Message
<1>3. cur' = [cur EXCEPT ![i] = Transform(i \in SourceTransform, m)]
  BY DEF ParseFrame
<1> HIDE DEF m
<1>4. cur'[i] = IF transform_enabled /\ i \in SourceTransform
                THEN [m EXCEPT !.msg = Xor(m.msg)] ELSE m
  BY <1>1, <1>3 DEF TypeOK, Transform
<1>5. Xor(m.msg) \in Frame
  BY <1>2, XorType DEF Message
<1>6. /\ cur'[i] \in Message /\ cur'[i].source = m.source /\ cur'[i].index = m.index
      /\ cur'[i].msg = IF transform_enabled /\ i \in SourceTransform THEN Xor(m.msg)
                                                                    ELSE m.msg
  BY <1>2, <1>4, <1>5 DEF Message
<1>7. cur'[i].msg = Gate!Reading(i, f)
  BY <1>2, <1>6 DEF Gate!Reading, Gate!Xor, Xor
<1>8. cur' = [cur EXCEPT ![i] = cur'[i]]
  BY <1>1, <1>3 DEF TypeOK
<1> QED BY <1>2, <1>6, <1>7, <1>8

\* The parser's count of the frames of source i.
LEMMA TakenType ==
  ASSUME TypeOK, HasMore, taken' = [taken EXCEPT ![i] = @ + 1]
  PROVE  taken' \in [Sources -> Nat]
<1>1. i \in Sources /\ taken \in [Sources -> Nat]
  BY NextFrame DEF TypeOK
<1> QED BY <1>1

\* A message in hand belongs to the source the loop is at.
LEMMA InHand ==
  ASSUME TypeOK, MessageInv, pc \in {"push", "sinks"}
  PROVE  /\ i \in Sources /\ cur[i] \in Message
         /\ cur[i].source = i /\ cur[i].index = taken[i]
         /\ taken[i] \in 1 .. Len(sent[i])
<1>1. i \in Sources /\ cur[i].source = i /\ cur[i].index = taken[i] /\ taken[i] >= 1
  BY DEF MessageInv
<1>2. taken[i] \in Nat /\ sent[i] \in Seq(Accepted) /\ taken[i] <= Len(sent[i])
      /\ cur[i] \in Message
  BY <1>1 DEF MessageInv, TypeOK
<1> QED BY <1>1, <1>2

\* One turn of the loop that calls a sink: the sink is offered what its own
\* transformer makes of the buffer, and the buffer stays that way.
LEMMA RoutedMessage ==
  ASSUME TypeOK, MessageInv, RouteSink, j \in cur[i].sinks, j \in HookedSinks
  PROVE  /\ j \in Sinks
         /\ cur'[i] \in Message
         /\ cur'[i].source = i /\ cur'[i].index = taken[i]
         /\ cur'[i].sinks = cur[i].sinks
         /\ cur'[i].msg = IF transform_enabled /\ j \in SinkTransform
                          THEN Xor(cur[i].msg) ELSE cur[i].msg
         /\ cur' = [cur EXCEPT ![i] = cur'[i]]
         /\ offered' = [offered EXCEPT ![j] = Append(@, cur'[i])]
<1>1. i \in Sources /\ cur[i] \in Message /\ cur[i].source = i /\ cur[i].index = taken[i]
  BY InHand DEF RouteSink, SinkLoop
<1>2. j \in Sinks
  BY PipelineAssumption DEF PortsAssumption
<1>3. /\ cur' = [cur EXCEPT ![i] = Transform(j \in SinkTransform, cur[i])]
      /\ offered' = [offered EXCEPT ![j] = Append(@, Transform(j \in SinkTransform, cur[i]))]
  BY DEF RouteSink, Offer
<1>4. cur'[i] = Transform(j \in SinkTransform, cur[i])
  BY <1>1, <1>3 DEF TypeOK
<1>5. cur'[i] = IF transform_enabled /\ j \in SinkTransform
                THEN [cur[i] EXCEPT !.msg = Xor(cur[i].msg)] ELSE cur[i]
  BY <1>4 DEF Transform
<1>6. Xor(cur[i].msg) \in Frame
  BY <1>1, XorType DEF Message
<1>7. /\ cur'[i] \in Message /\ cur'[i].source = i /\ cur'[i].index = taken[i]
      /\ cur'[i].sinks = cur[i].sinks
      /\ cur'[i].msg = IF transform_enabled /\ j \in SinkTransform
                       THEN Xor(cur[i].msg) ELSE cur[i].msg
  BY <1>1, <1>5, <1>6 DEF Message
<1> QED BY <1>2, <1>3, <1>4, <1>7

\* Every action keeps the types.
LEMMA NextTypeOK ==
  ASSUME TypeOK, MessageInv, [Next]_vars
  PROVE  TypeOK'
<1>1. CASE \E s \in Sources : Arrive(s)
  <2>1. PICK s \in Sources, f \in Accepted : sent' = [sent EXCEPT ![s] = Append(@, f)]
    BY <1>1 DEF Arrive
  <2>2. UNCHANGED <<policy_enabled, transform_enabled, taken, cur, offered, pc, i, j>>
    BY <1>1 DEF Arrive
  <2>3. sent' \in [Sources -> Seq(Accepted)]
    BY <2>1 DEF TypeOK
  <2> QED BY <2>2, <2>3 DEF TypeOK
<1>2. CASE NextSource
  BY <1>2 DEF NextSource, TypeOK, MAX_SOURCES
<1>3. CASE ParseDamaged
  BY <1>3, TakenType DEF ParseDamaged, TypeOK
<1>4. CASE ParseFrame
  <2>1. cur' \in [Sources -> Message]
    BY <1>4, ParsedMessage DEF TypeOK
  <2>2. taken' \in [Sources -> Nat]
    BY <1>4, TakenType DEF ParseFrame
  <2> QED BY <1>4, <2>1, <2>2 DEF ParseFrame, TypeOK
<1>5. CASE Push
  <2> DEFINE p == Inspect(Route(cur[i]))
  <2>1. i \in Sources /\ cur[i] \in Message /\ SINK_TYPE_DISCARD \in Sinks
    BY <1>5, InHand DEF Push, SINK_TYPE_DISCARD, Sinks, MAX_SINKS
  <2>2. p \in Message
    BY <2>1, InspectRoute
  <2>3. cur' \in [Sources -> Message]
    BY <1>5, <2>2 DEF Push, TypeOK
  <2>4. offered' \in [Sinks -> Seq(Message)]
    BY <1>5, <2>1, <2>2, OfferType DEF Push, TypeOK
  <2>5. pc' \in {"scan", "sinks"}
    BY <1>5 DEF Push
  <2> QED BY <1>5, <2>3, <2>4, <2>5 DEF Push, TypeOK
<1>6. CASE RouteSink
  <2>1. j' \in 0 .. MAX_SINKS
    BY <1>6 DEF RouteSink, SinkLoop, TypeOK, MAX_SINKS
  <2>2. cur' \in [Sources -> Message] /\ offered' \in [Sinks -> Seq(Message)]
    <3>1. CASE j \in cur[i].sinks /\ j \in HookedSinks
      <4>1. /\ cur'[i] \in Message /\ cur' = [cur EXCEPT ![i] = cur'[i]] /\ j \in Sinks
            /\ offered' = [offered EXCEPT ![j] = Append(@, cur'[i])]
        BY <1>6, <3>1, RoutedMessage
      <4>2. PICK m \in Message : m = cur'[i]
        BY <4>1
      <4>3. cur' \in [Sources -> Message]
        BY <4>1, <4>2 DEF TypeOK
      <4>4. offered' = [offered EXCEPT ![j] = Append(@, m)]
        BY <4>1, <4>2
      <4>5. offered' \in [Sinks -> Seq(Message)]
        BY <4>1, <4>4 DEF TypeOK
      <4> QED BY <4>3, <4>5
    <3>2. CASE ~(j \in cur[i].sinks /\ j \in HookedSinks)
      BY <1>6, <3>2 DEF RouteSink, TypeOK
    <3> QED BY <3>1, <3>2
  <2> QED BY <1>6, <2>1, <2>2 DEF RouteSink, TypeOK
<1>7. CASE PushReturns
  BY <1>7 DEF PushReturns, TypeOK, MAX_SINKS
<1>8. CASE NoKey \/ PolicyKey \/ TransformerKey \/ ConsoleClosed
  <2>1. i' \in 0 .. MAX_SOURCES /\ UNCHANGED <<sent, taken, cur, offered, j>>
    BY <1>8 DEF NoKey, PolicyKey, TransformerKey, ConsoleClosed, PassEnds, MAX_SOURCES
  <2>2. policy_enabled' \in BOOLEAN /\ transform_enabled' \in BOOLEAN
    BY <1>8 DEF NoKey, PolicyKey, TransformerKey, ConsoleClosed, TypeOK
  <2>3. pc' \in {"scan", "stopped"}
    BY <1>8 DEF NoKey, PolicyKey, TransformerKey, ConsoleClosed, PassEnds
  <2> QED BY <2>1, <2>2, <2>3 DEF TypeOK
<1>9. CASE UNCHANGED vars
  BY <1>9 DEF vars, TypeOK
<1> QED BY <1>1, <1>2, <1>3, <1>4, <1>5, <1>6, <1>7, <1>8, <1>9 DEF Next, Gateway

-----------------------------------------------------------------------------
(***************************************************************************)
(* The message in hand.                                                    *)
(***************************************************************************)
\* A reading depends on the switch and on the frame only.
LEMMA InspectedSame ==
  ASSUME UNCHANGED transform_enabled, i' = i, taken'[i] = taken[i],
         sent'[i][taken[i]] = sent[i][taken[i]]
  PROVE  Inspected' = Inspected
  BY DEF Inspected, Gate!Reading, Gate!Xor

\* Before the first frame no message is in hand.
LEMMA InitMessageInv == Init => MessageInv
  BY DEF Init, MessageInv

\* New arrivals leave the frames that were read alone.
LEMMA ArriveMessageInv ==
  ASSUME TypeOK, MessageInv, NEW s \in Sources, Arrive(s)
  PROVE  MessageInv'
<1>1. PICK f \in Accepted : sent' = [sent EXCEPT ![s] = Append(@, f)]
  BY DEF Arrive
<1>2. UNCHANGED <<policy_enabled, transform_enabled, taken, cur, offered, pc, i, j>>
  BY DEF Arrive
<1>3. \A x \in Sources : Len(sent[x]) \in Nat /\ taken[x] \in Nat /\ Len(sent[x]) <= Len(sent'[x])
  BY <1>1 DEF TypeOK
<1>4. \A x \in Sources : taken'[x] <= Len(sent'[x])
  BY <1>2, <1>3 DEF MessageInv, TypeOK
<1>5. CASE pc \in {"push", "sinks"}
  <2>1. i \in Sources /\ taken[i] \in 1 .. Len(sent[i])
    BY <1>5, InHand
  <2>2. sent'[i][taken[i]] = sent[i][taken[i]]
    BY <1>1, <2>1 DEF TypeOK
  <2>3. Inspected' = Inspected
    BY <1>2, <2>2, InspectedSame
  <2>4. TransformersLast' <=> TransformersLast
    BY DEF TransformersLast
  <2> QED BY <1>2, <1>4, <2>3, <2>4 DEF MessageInv, Gate!Forbidden
<1>6. CASE pc \notin {"push", "sinks"}
  BY <1>2, <1>4, <1>6 DEF MessageInv
<1> QED BY <1>5, <1>6

\* The parser fills the buffer of the source the loop is at.
LEMMA ParseMessageInv ==
  ASSUME TypeOK, MessageInv, ParseFrame
  PROVE  MessageInv'
<1>1. i \in Sources /\ taken[i] + 1 \in 1 .. Len(sent[i]) /\ taken[i] \in Nat
  BY NextFrame DEF ParseFrame, TypeOK
<1>2. /\ taken' = [taken EXCEPT ![i] = @ + 1] /\ pc' = "push"
      /\ UNCHANGED <<policy_enabled, transform_enabled, sent, offered, i, j>>
  BY DEF ParseFrame
<1>3. taken'[i] = taken[i] + 1
  BY <1>1, <1>2 DEF TypeOK
<1>4. \A x \in Sources : taken'[x] <= Len(sent'[x])
  BY <1>1, <1>2 DEF MessageInv, TypeOK
<1>5. /\ cur'[i].source = i /\ cur'[i].index = taken[i] + 1
      /\ cur'[i].msg = Gate!Reading(i, sent[i][taken[i] + 1])
  BY ParsedMessage
<1>6. Inspected' = Gate!Reading(i, sent[i][taken[i] + 1])
  BY <1>2, <1>3 DEF Inspected, Gate!Reading, Gate!Xor
<1>7. i' \in Sources /\ cur'[i'].source = i' /\ cur'[i'].index = taken'[i'] /\ taken'[i'] >= 1
  BY <1>1, <1>2, <1>3, <1>5
<1> QED BY <1>2, <1>4, <1>5, <1>6, <1>7 DEF MessageInv

\* Routing overwrites the sinks, and a message that gets past the inspection is
\* not forbidden while the policies are on.
LEMMA PushMessageInv ==
  ASSUME TypeOK, MessageInv, Push
  PROVE  MessageInv'
<1> DEFINE m == Inspect(Route(cur[i]))
<1>1. /\ i \in Sources /\ cur[i] \in Message /\ cur[i].source = i
      /\ cur[i].index = taken[i] /\ taken[i] >= 1 /\ cur[i].msg = Inspected
  BY InHand DEF Push, MessageInv
<1>2. UNCHANGED <<policy_enabled, transform_enabled, sent, taken, i, j>>
  BY DEF Push
<1>3. cur'[i] = m
  BY <1>1 DEF Push, TypeOK
<1>4. /\ m.source = i /\ m.index = taken[i] /\ m.msg = Inspected
      /\ SINK_TYPE_DISCARD \notin m.sinks =>
            m.sinks = RouteTable[i] /\ ~(policy_enabled /\ Refused(cur[i]))
  BY <1>1, InspectRoute
<1>5. Refused(cur[i]) <=> Gate!Forbidden(i, Inspected)
  BY <1>1, RefusedIsForbidden
<1>6. pc' = IF SINK_TYPE_DISCARD \in m.sinks THEN "scan" ELSE "sinks"
  BY DEF Push
<1>7. Inspected' = Inspected
  BY <1>2, InspectedSame
<1>8. \A x \in Sources : taken'[x] <= Len(sent'[x])
  BY <1>2 DEF MessageInv
<1> HIDE DEF m
<1> QED BY <1>1, <1>2, <1>3, <1>4, <1>5, <1>6, <1>7, <1>8 DEF MessageInv, Gate!Forbidden

\* A turn of the loop over the sinks: only a transformer changes the buffer,
\* and after one no sink of the route is left.
LEMMA RouteMessageInv ==
  ASSUME TypeOK, MessageInv, RouteSink
  PROVE  MessageInv'
<1>1. /\ i \in Sources /\ cur[i].source = i /\ cur[i].index = taken[i] /\ taken[i] >= 1
      /\ cur[i].sinks = RouteTable[i] /\ ~(policy_enabled /\ Gate!Forbidden(i, Inspected))
      /\ pc = "sinks"
  BY DEF RouteSink, SinkLoop, MessageInv
<1>2. /\ UNCHANGED <<policy_enabled, transform_enabled, sent, taken, pc, i>>
      /\ j' = j + 1 /\ j \in 0 .. MAX_SINKS
  BY DEF RouteSink, TypeOK
<1>3. Inspected' = Inspected
  BY <1>2, InspectedSame
<1>4. \A x \in Sources : taken'[x] <= Len(sent'[x])
  BY <1>2 DEF MessageInv
<1>5. RouteTable[i] \cap HookedSinks \subseteq Nat /\ j \in Nat
  BY <1>1, <1>2, RouteTableType DEF Sinks, MAX_SINKS
<1>6. /\ cur'[i].source = i /\ cur'[i].index = taken[i] /\ cur'[i].sinks = RouteTable[i]
      /\ TransformersLast =>
           cur'[i].msg = Inspected \/ \A k \in RouteTable[i] \cap HookedSinks : k < j + 1
  <2>1. CASE j \in cur[i].sinks /\ j \in HookedSinks
    <3>1. /\ cur'[i].source = i /\ cur'[i].index = taken[i] /\ cur'[i].sinks = cur[i].sinks
          /\ cur'[i].msg = IF transform_enabled /\ j \in SinkTransform
                           THEN Xor(cur[i].msg) ELSE cur[i].msg
      BY <2>1, RoutedMessage
    <3>2. CASE j \in SinkTransform
      <4>1. TransformersLast => \A k \in RouteTable[i] \cap HookedSinks : k <= j
        BY <1>1, <2>1, <3>2 DEF TransformersLast
      <4>2. TransformersLast => \A k \in RouteTable[i] \cap HookedSinks : k < j + 1
        BY <1>5, <4>1
      <4> QED BY <1>1, <3>1, <4>2
    <3>3. CASE j \notin SinkTransform
      <4>1. TransformersLast =>
              cur[i].msg = Inspected \/ \A k \in RouteTable[i] \cap HookedSinks : k < j
        BY <1>1 DEF MessageInv
      <4> QED BY <1>1, <1>5, <3>1, <3>3, <4>1
    <3> QED BY <3>2, <3>3
  <2>2. CASE ~(j \in cur[i].sinks /\ j \in HookedSinks)
    <3>1. cur' = cur
      BY <2>2 DEF RouteSink
    <3>2. TransformersLast =>
            cur[i].msg = Inspected \/ \A k \in RouteTable[i] \cap HookedSinks : k < j
      BY <1>1 DEF MessageInv
    <3> QED BY <1>1, <1>5, <3>1, <3>2
  <2> QED BY <2>1, <2>2
<1>7. TransformersLast' <=> TransformersLast
  BY DEF TransformersLast
<1> QED BY <1>1, <1>2, <1>3, <1>4, <1>6, <1>7 DEF MessageInv, Gate!Forbidden

\* Every stage of pipeline_spin and pipeline_push keeps the invariant.
LEMMA NextMessageInv ==
  ASSUME TypeOK, MessageInv, [Next]_vars
  PROVE  MessageInv'
<1>1. CASE \E s \in Sources : Arrive(s)
  BY <1>1, ArriveMessageInv
<1>2. CASE ParseFrame
  BY <1>2, ParseMessageInv
<1>3. CASE Push
  BY <1>3, PushMessageInv
<1>4. CASE RouteSink
  BY <1>4, RouteMessageInv
<1>5. CASE ParseDamaged
  <2>1. i \in Sources /\ taken[i] + 1 \in 1 .. Len(sent[i]) /\ taken[i] \in Nat
    BY <1>5, NextFrame DEF ParseDamaged, TypeOK
  <2>2. taken' = [taken EXCEPT ![i] = @ + 1] /\ sent' = sent /\ pc' = "scan"
    BY <1>5 DEF ParseDamaged, HasMore
  <2>3. \A x \in Sources : taken'[x] <= Len(sent'[x])
    BY <2>1, <2>2 DEF MessageInv, TypeOK
  <2> QED BY <2>2, <2>3 DEF MessageInv
<1>6. CASE NextSource \/ PushReturns \/ NoKey \/ PolicyKey \/ TransformerKey \/ ConsoleClosed
  <2>1. pc' \notin {"push", "sinks"} /\ UNCHANGED <<sent, taken>>
    BY <1>6 DEF NextSource, PushReturns, NoKey, PolicyKey, TransformerKey, ConsoleClosed,
                PassEnds
  <2> QED BY <2>1 DEF MessageInv
<1>7. CASE UNCHANGED vars
  <2>1. Inspected' = Inspected
    BY <1>7 DEF vars, Inspected, Gate!Reading, Gate!Xor
  <2>2. TransformersLast' <=> TransformersLast
    BY DEF TransformersLast
  <2> QED BY <1>7, <2>1, <2>2 DEF vars, MessageInv, Gate!Forbidden
<1> QED BY <1>1, <1>2, <1>3, <1>4, <1>5, <1>6, <1>7 DEF Next, Gateway

\* The types of pipeline_t, message_t and the loop variables.
THEOREM PipelineTypes == Spec => []TypeOK
<1>1. Init => TypeOK /\ MessageInv
  BY InitTypeOK, InitMessageInv
<1>2. TypeOK /\ MessageInv /\ [Next]_vars => TypeOK' /\ MessageInv'
  BY NextTypeOK, NextMessageInv
<1> QED BY <1>1, <1>2, PTL DEF Spec

\* The buffer pipeline_push works on is the frame just parsed, routed afresh.
THEOREM MessageInvariant == Spec => []MessageInv
<1>1. Init => TypeOK /\ MessageInv
  BY InitTypeOK, InitMessageInv
<1>2. TypeOK /\ MessageInv /\ [Next]_vars => TypeOK' /\ MessageInv'
  BY NextTypeOK, NextMessageInv
<1> QED BY <1>1, <1>2, PTL DEF Spec

-----------------------------------------------------------------------------
(***************************************************************************)
(* What is handed to the peers.                                            *)
(***************************************************************************)
\* Only a turn of pipeline_push's loop hands a message to a peer, and the
\* message is the one in the buffer, after the sink's own transformer.
LEMMA DeliveryStep ==
  ASSUME TypeOK, MessageInv, [Next]_vars,
         NEW k \in Sinks \ {SINK_TYPE_DISCARD}, Delivers(k)
  PROVE  /\ RouteSink /\ k = j /\ j \in RouteTable[i] /\ j \in HookedSinks
         /\ i \in Sources /\ pc = "sinks"
         /\ Delivered(k) \in Message
         /\ Delivered(k).source = i /\ Delivered(k).index = taken[i]
         /\ Delivered(k).msg = IF transform_enabled /\ k \in SinkTransform
                              THEN Xor(cur[i].msg) ELSE cur[i].msg
         /\ offered' = [offered EXCEPT ![k] = Append(@, Delivered(k))]
<1>1. offered' # offered
  BY DEF Delivers
<1>2. ~Push
  <2>1. SUFFICES ASSUME Push PROVE FALSE
    OBVIOUS
  <2>2. offered' = offered \/ \E m : offered' = Offer(SINK_TYPE_DISCARD, m)
    BY <2>1 DEF Push
  <2>3. \A m : Offer(SINK_TYPE_DISCARD, m)[k] = offered[k]
    BY DEF Offer, TypeOK
  <2> QED BY <2>2, <2>3 DEF Delivers
<1>3. RouteSink /\ j \in cur[i].sinks /\ j \in HookedSinks
  BY <1>1, <1>2 DEF Next, Gateway, vars, Arrive, NextSource, ParseDamaged, ParseFrame,
     RouteSink, PushReturns, NoKey, PolicyKey, TransformerKey, ConsoleClosed, PassEnds
<1>4. /\ j \in Sinks /\ cur'[i] \in Message
      /\ cur'[i].source = i /\ cur'[i].index = taken[i]
      /\ cur'[i].msg = IF transform_enabled /\ j \in SinkTransform
                       THEN Xor(cur[i].msg) ELSE cur[i].msg
      /\ offered' = [offered EXCEPT ![j] = Append(@, cur'[i])]
  BY <1>3, RoutedMessage
<1>5. k = j
  BY <1>4 DEF Delivers, TypeOK
<1>6. Delivered(k) = cur'[i]
  <2>1. PICK m \in Message : m = cur'[i]
    BY <1>4
  <2>2. offered[k] \in Seq(Message) /\ offered'[k] = Append(offered[k], m)
    BY <1>4, <1>5, <2>1 DEF TypeOK
  <2> QED BY <2>1, <2>2 DEF Delivered
<1>7. j \in RouteTable[i] /\ i \in Sources /\ pc = "sinks"
  BY <1>3 DEF RouteSink, SinkLoop, MessageInv
<1> QED BY <1>3, <1>4, <1>5, <1>6, <1>7

\* The frame a message in the loop stands for is the one that was inspected.
LEMMA DeliveredInspected ==
  ASSUME NEW m, m.source = i, m.index = taken[i]
  PROVE  Gate!Reading(m.source, Arrived(m)) = Inspected
  BY DEF Inspected, Arrived

\* What sink->route is called with crosses the gateway.
LEMMA ConfinementStep ==
  ASSUME TypeOK, MessageInv, Confinement, [Next]_vars
  PROVE  Confinement'
<1> SUFFICES ASSUME NEW k \in Sinks \ {SINK_TYPE_DISCARD}, NEW n \in 1 .. Len(offered'[k])
             PROVE  (offered'[k][n].source = SOURCE_TYPE_VMC) # (k = SINK_TYPE_VMC)
  BY DEF Confinement
<1>1. CASE offered'[k] = offered[k]
  BY <1>1 DEF Confinement
<1>2. CASE Delivers(k)
  <2>1. PICK m \in Message : /\ m = Delivered(k) /\ m.source = i
                            /\ offered' = [offered EXCEPT ![k] = Append(@, m)]
    BY <1>2, DeliveryStep
  <2>2. k \in RouteTable[i] /\ i \in Sources
    BY <1>2, DeliveryStep
  <2>3. offered[k] \in Seq(Message) /\ offered'[k] = Append(offered[k], m)
    BY <2>1 DEF TypeOK
  <2>4. CASE n = Len(offered[k]) + 1
    <3>1. offered'[k][n] = m
      BY <2>3, <2>4
    <3>2. (i = SOURCE_TYPE_VMC) # (k = SINK_TYPE_VMC)
      BY <2>2, RouteTableConfined
    <3> QED BY <2>1, <3>1, <3>2
  <2>5. CASE n # Len(offered[k]) + 1
    <3>1. n \in 1 .. Len(offered[k]) /\ offered'[k][n] = offered[k][n]
      BY <2>3, <2>5
    <3> QED BY <3>1 DEF Confinement
  <2> QED BY <2>4, <2>5
<1> QED BY <1>1, <1>2 DEF Delivers

\* pipeline_init: no sink has been called yet.
LEMMA InitConfinement == Init => Confinement
  BY DEF Init, Confinement

\* The vehicle only hears the ground side and the ground side only the vehicle,
\* whatever is hooked (route_table.c, route_table_route, pipeline_push).
THEOREM PipelineConfinement == Spec => []Confinement
<1>1. TypeOK /\ MessageInv /\ Confinement /\ [Next]_vars => Confinement'
  BY ConfinementStep
<1> QED BY <1>1, InitConfinement, PipelineTypes, MessageInvariant, PTL DEF Spec

\* Only the sink loop calls a peer, with a message that was not refused.
LEMMA PermittedStep ==
  ASSUME TypeOK, MessageInv, [Next]_vars
  PROVE  Permitted
<1> SUFFICES ASSUME NEW k \in Sinks \ {SINK_TYPE_DISCARD}, Delivers(k),
                    policy_enabled,
                    Gate!Forbidden(Delivered(k).source,
                      Gate!Reading(Delivered(k).source, Arrived(Delivered(k))))
             PROVE  FALSE
  BY DEF Permitted
<1>1. Delivered(k).source = i /\ Delivered(k).index = taken[i] /\ pc = "sinks"
  BY DeliveryStep
<1>2. Gate!Reading(Delivered(k).source, Arrived(Delivered(k))) = Inspected
  BY <1>1, DeliveredInspected
<1>3. ~(policy_enabled /\ Gate!Forbidden(i, Inspected))
  BY <1>1 DEF MessageInv
<1> QED BY <1>1, <1>2, <1>3

\* No forbidden message is handed to a peer while policy_enabled, wherever the
\* console's switches fall between its arrival and its delivery.
THEOREM PipelinePermitted == Spec => NoForbiddenDelivery
<1>1. TypeOK /\ MessageInv /\ [Next]_vars => [Permitted]_vars
  BY PermittedStep
<1> QED BY <1>1, PipelineTypes, MessageInvariant, PTL DEF Spec, NoForbiddenDelivery

\* The sink loop applies the transformer of the sink it calls, and no other.
LEMMA OwnTransformersStep ==
  ASSUME TypeOK, MessageInv, [Next]_vars
  PROVE  OwnTransformers
<1> SUFFICES ASSUME TransformersLast, NEW k \in Sinks \ {SINK_TYPE_DISCARD}, Delivers(k)
             PROVE  LET m == Delivered(k)
                        inspected == Gate!Reading(m.source, Arrived(m)) IN
                    m.msg = IF transform_enabled /\ k \in SinkTransform THEN Xor(inspected)
                                                                       ELSE inspected
  BY DEF OwnTransformers
<1>1. /\ Delivered(k).source = i /\ Delivered(k).index = taken[i] /\ pc = "sinks"
      /\ k = j /\ j \in RouteTable[i] \cap HookedSinks /\ k \in Sinks
      /\ Delivered(k).msg = IF transform_enabled /\ k \in SinkTransform
                           THEN Xor(cur[i].msg) ELSE cur[i].msg
  BY DeliveryStep
<1>2. Gate!Reading(Delivered(k).source, Arrived(Delivered(k))) = Inspected
  BY <1>1, DeliveredInspected
<1>3. ~(j < j)
  BY DEF TypeOK
<1>4. cur[i].msg = Inspected
  BY <1>1, <1>3 DEF MessageInv
<1> QED BY <1>1, <1>2, <1>4

\* The in-place transformers of one sink never show at another, provided a sink
\* with a transformer is the last of its route.
THEOREM PipelineTransformers == Spec => OwnTransformersOnly
<1>1. TypeOK /\ MessageInv /\ [Next]_vars => [OwnTransformers]_vars
  BY OwnTransformersStep
<1> QED BY <1>1, PipelineTypes, MessageInvariant, PTL DEF Spec, OwnTransformersOnly
-----------------------------------------------------------------------------
(***************************************************************************)
(* The stages implement the gate: which frames are in hand, and what is    *)
(* left to do about them, at each stage.                                   *)
(***************************************************************************)
\* The parser lets no damaged frame through, and the loop over the sinks starts
\* from the first one.
StageInv ==
    /\ pc = "push" => sent[i][taken[i]].intact
    /\ pc # "sinks" => j = 0

\* What pipeline_push makes of the message before its loop, and where it goes on.
LEMMA PushedMessage ==
  ASSUME TypeOK, MessageInv, Push
  PROVE  /\ i \in Sources /\ cur'[i] \in Message /\ cur' = [cur EXCEPT ![i] = cur'[i]]
         /\ cur'[i].source = i /\ cur'[i].index = taken[i]
         /\ \/ /\ policy_enabled /\ Gate!Forbidden(i, Inspected) /\ pc' = "scan"
               /\ offered' = IF DEBUG THEN Offer(SINK_TYPE_DISCARD, cur'[i]) ELSE offered
            \/ /\ ~(policy_enabled /\ Gate!Forbidden(i, Inspected)) /\ pc' = "sinks"
               /\ cur'[i].sinks = RouteTable[i] /\ offered' = offered
<1> DEFINE r == Route(cur[i])
           m == Inspect(r)
<1>1. /\ i \in Sources /\ cur[i] \in Message /\ cur[i].source = i
      /\ cur[i].index = taken[i] /\ cur[i].msg = Inspected
  BY InHand DEF Push, MessageInv
<1>2. /\ cur' = [cur EXCEPT ![i] = m]
      /\ IF SINK_TYPE_DISCARD \in m.sinks
         THEN /\ offered' = IF DEBUG THEN Offer(SINK_TYPE_DISCARD, m) ELSE offered
              /\ pc' = "scan"
         ELSE pc' = "sinks" /\ offered' = offered
  BY DEF Push
<1>3. m \in Message /\ m.source = i /\ m.index = taken[i]
  BY <1>1, InspectRoute
<1>4. r \in Message /\ r.source = i /\ r.msg = Inspected /\ r.sinks = RouteTable[i]
  BY <1>1, RouteTableType DEF Route, Message
<1>5. Refused(r) <=> Gate!Forbidden(i, Inspected)
  BY <1>4, RefusedIsForbidden
<1>6. m.sinks = IF policy_enabled /\ Refused(r) THEN r.sinks \cup {SINK_TYPE_DISCARD}
                                                ELSE r.sinks
  <2> HIDE DEF r
  <2> QED BY <1>4 DEF Inspect, Message
<1>7. SINK_TYPE_DISCARD \in m.sinks <=> policy_enabled /\ Gate!Forbidden(i, Inspected)
  BY <1>1, <1>4, <1>5, <1>6, RouteTableType
<1>8. cur'[i] = m
  BY <1>1, <1>2 DEF TypeOK
<1> HIDE DEF m, r
<1> QED BY <1>1, <1>2, <1>3, <1>4, <1>5, <1>6, <1>7, <1>8

\* The stages follow each other.
LEMMA NextStageInv ==
  ASSUME TypeOK, MessageInv, StageInv, [Next]_vars
  PROVE  StageInv'
<1>1. CASE \E s \in Sources : Arrive(s)
  <2>1. PICK s \in Sources, f \in Accepted : sent' = [sent EXCEPT ![s] = Append(@, f)]
    BY <1>1 DEF Arrive
  <2>2. UNCHANGED <<taken, pc, i, j>>
    BY <1>1 DEF Arrive
  <2>3. ASSUME pc = "push" PROVE sent'[i][taken[i]] = sent[i][taken[i]]
    <3>1. i \in Sources /\ taken[i] \in 1 .. Len(sent[i])
      BY <2>3, InHand
    <3> QED BY <2>1, <3>1 DEF TypeOK
  <2> QED BY <2>2, <2>3 DEF StageInv
<1>2. CASE ParseFrame
  <2>1. i \in Sources /\ taken'[i] = taken[i] + 1 /\ pc' = "push" /\ UNCHANGED <<sent, i, j>>
    BY <1>2, NextFrame DEF ParseFrame, TypeOK
  <2> QED BY <1>2, <2>1 DEF ParseFrame, HasMore, StageInv
<1>3. CASE Push \/ RouteSink
  BY <1>3 DEF Push, RouteSink, SinkLoop, StageInv
<1>4. CASE NextSource \/ ParseDamaged \/ PushReturns
  BY <1>4 DEF NextSource, ParseDamaged, HasMore, PushReturns, StageInv
<1>5. CASE NoKey \/ PolicyKey \/ TransformerKey \/ ConsoleClosed
  BY <1>5 DEF NoKey, PolicyKey, TransformerKey, ConsoleClosed, PassEnds, StageInv
<1>6. CASE UNCHANGED vars
  BY <1>6 DEF vars, StageInv
<1> QED BY <1>1, <1>2, <1>3, <1>4, <1>5, <1>6 DEF Next, Gateway

\* All that is known of a state between two steps.
PipelineInv == TypeOK /\ MessageInv /\ StageInv

\* It holds of every run.
LEMMA PipelineInvariant == Spec => []PipelineInv
<1>1. Init => PipelineInv
  BY InitTypeOK, InitMessageInv DEF Init, StageInv, PipelineInv
<1>2. PipelineInv /\ [Next]_vars => PipelineInv'
  BY NextTypeOK, NextMessageInv, NextStageInv DEF PipelineInv
<1> QED BY <1>1, <1>2, PTL DEF Spec

\* PolicyGate's variables, as the stages have them.
Handled == [s \in Sources |-> IF pc = "push" /\ i = s THEN taken[s] - 1 ELSE taken[s]]
Served(k) == IF k = SINK_TYPE_DISCARD THEN <<>>
             ELSE IF k \in Pending THEN Append(Ids(k), <<i, cur[i].index>>)
             ELSE Ids(k)

\* A step that handles the next frame of a source.
GateHandles(s) ==
    /\ Handled[s] < Len(sent[s])
    /\ Handled' = [Handled EXCEPT ![s] = @ + 1]
    /\ \A k \in Sinks :
         Served(k)' = IF /\ k \in RouteTable[s] \cap HookedSinks
                         /\ sent[s][Handled[s] + 1].intact
                         /\ ~(policy_enabled
                              /\ Gate!Forbidden(s, Gate!Reading(s, sent[s][Handled[s] + 1])))
                      THEN Append(Served(k), <<s, Handled[s] + 1>>)
                      ELSE Served(k)
    /\ UNCHANGED <<sent, policy_enabled, transform_enabled>>

\* A step that handles none.
GateWaits == Handled' = Handled /\ \A k \in Sinks : Served(k)' = Served(k)

\* The route table, as the gate has it.
LEMMA PeersAre ==
  ASSUME NEW s \in Sources
  PROVE  Gate!Peers(s) \cap (HookedSinks \ {SINK_TYPE_DISCARD}) = RouteTable[s] \cap HookedSinks
  BY DEF RouteTable, Gate!Peers, Sources, MAX_SOURCES, SOURCE_TYPE_NULL,
         SOURCE_TYPE_VMC, SOURCE_TYPE_LEGACY, SOURCE_TYPE_ENCLAVE, SINK_TYPE_DISCARD,
         SINK_TYPE_VMC, SINK_TYPE_LEGACY, SINK_TYPE_ENCLAVE,
         Gate!SOURCE_TYPE_VMC, Gate!SOURCE_TYPE_LEGACY, Gate!SOURCE_TYPE_ENCLAVE,
         Gate!SINK_TYPE_VMC, Gate!SINK_TYPE_LEGACY, Gate!SINK_TYPE_ENCLAVE

\* The counts of a sink's messages.
LEMMA IdsType ==
  ASSUME TypeOK, NEW k \in Sinks
  PROVE  Ids(k) \in Seq(Sources \X Nat) /\ Len(Ids(k)) = Len(offered[k])
<1>1. offered[k] \in Seq(Message)
  BY DEF TypeOK
<1>2. ASSUME NEW n \in 1 .. Len(offered[k])
      PROVE  <<offered[k][n].source, offered[k][n].index>> \in Sources \X Nat
  <2>1. offered[k][n] \in Message
    BY <1>1
  <2> QED BY <2>1 DEF Message
<1> QED BY <1>1, <1>2 DEF Ids

\* sink->route adds one to them.
LEMMA IdsAppend ==
  ASSUME TypeOK, NEW k \in Sinks, NEW m \in Message,
         offered' = [offered EXCEPT ![k] = Append(@, m)]
  PROVE  /\ Ids(k)' = Append(Ids(k), <<m.source, m.index>>)
         /\ \A l \in Sinks \ {k} : Ids(l)' = Ids(l)
<1>1. offered[k] \in Seq(Message) /\ offered'[k] = Append(offered[k], m)
      /\ \A l \in Sinks \ {k} : offered'[l] = offered[l]
  BY DEF TypeOK
<1>2. Ids(k)' = Append(Ids(k), <<m.source, m.index>>)
  <2> DEFINE t == Append(Ids(k), <<m.source, m.index>>)
  <2>1. Ids(k) \in Seq(Sources \X Nat) /\ Len(Ids(k)) = Len(offered[k])
    BY IdsType
  <2>2. <<m.source, m.index>> \in Sources \X Nat
    BY DEF Message
  <2>3. t \in Seq(Sources \X Nat) /\ Len(t) = Len(offered[k]) + 1
    BY <2>1, <2>2
  <2>4. Len(offered'[k]) = Len(offered[k]) + 1 /\ Len(offered[k]) \in Nat
    BY <1>1
  <2>5. t = [n \in 1 .. Len(offered'[k]) |-> t[n]]
    BY <2>3, <2>4
  <2>6. ASSUME NEW n \in 1 .. Len(offered'[k])
        PROVE  t[n] = <<offered'[k][n].source, offered'[k][n].index>>
    <3>1. CASE n = Len(offered[k]) + 1
      BY <1>1, <2>1, <2>2, <2>4, <3>1
    <3>2. CASE n \in 1 .. Len(offered[k])
      <4>1. t[n] = Ids(k)[n] /\ offered'[k][n] = offered[k][n]
        BY <1>1, <2>1, <2>2, <3>2
      <4> QED BY <3>2, <4>1 DEF Ids
    <3>3. n = Len(offered[k]) + 1 \/ n \in 1 .. Len(offered[k])
      BY <2>4
    <3> QED BY <3>1, <3>2, <3>3
  <2> HIDE DEF t
  <2>7. [n \in 1 .. Len(offered'[k]) |-> t[n]] = Ids(k)'
    BY <2>6 DEF Ids
  <2> QED BY <2>5, <2>7 DEF t
<1>3. \A l \in Sinks \ {k} : Ids(l)' = Ids(l)
  BY <1>1 DEF Ids
<1> QED BY <1>2, <1>3

\* Only the parser and pipeline_push disturb what the gate sees.
LEMMA QuietStage ==
  ASSUME TypeOK, pc = "scan", pc' \in {"scan", "stopped"}, UNCHANGED <<taken, offered>>
  PROVE  GateWaits
<1>1. Handled' = Handled
  BY DEF Handled
<1>2. \A k \in Sinks : Ids(k)' = Ids(k)
  BY DEF Ids
<1>3. Pending = {} /\ Pending' = {}
  BY DEF Pending
<1> QED BY <1>1, <1>2, <1>3 DEF GateWaits, Served

\* Reading a damaged frame is all there is to do about it.
LEMMA DamagedGate ==
  ASSUME PipelineInv, ParseDamaged
  PROVE  GateHandles(i)
<1>1. /\ i \in Sources /\ taken \in [Sources -> Nat] /\ taken[i] < Len(sent[i])
  BY NextFrame DEF ParseDamaged, HasMore, PipelineInv, TypeOK
<1>2. /\ taken' = [taken EXCEPT ![i] = @ + 1] /\ pc = "scan"
      /\ UNCHANGED <<policy_enabled, transform_enabled, sent, cur, offered, pc, i, j>>
      /\ ~sent[i][taken[i] + 1].intact
  BY DEF ParseDamaged, HasMore
<1>3. Handled = taken /\ Handled' = taken'
  BY <1>1, <1>2 DEF Handled
<1>4. \A k \in Sinks : Served(k)' = Served(k)
  BY <1>2 DEF Served, Ids, Pending
<1> QED BY <1>1, <1>2, <1>3, <1>4 DEF GateHandles

\* A frame that is parsed is not handled yet.
LEMMA ParsedGate ==
  ASSUME PipelineInv, ParseFrame
  PROVE  GateWaits
<1>1. i \in Sources /\ taken \in [Sources -> Nat]
  BY NextFrame DEF ParseFrame, PipelineInv, TypeOK
<1>2. /\ taken' = [taken EXCEPT ![i] = @ + 1] /\ pc = "scan" /\ pc' = "push"
      /\ UNCHANGED <<offered, i>>
  BY DEF ParseFrame, HasMore
<1>3. Handled' = Handled
  BY <1>1, <1>2 DEF Handled
<1>4. \A k \in Sinks : Ids(k)' = Ids(k)
  BY <1>2 DEF Ids
<1>5. Pending = {} /\ Pending' = {}
  BY <1>2 DEF Pending
<1> QED BY <1>3, <1>4, <1>5 DEF GateWaits, Served

\* The inspection decides: the frame goes to all of its peers, or to none.
LEMMA PushedGate ==
  ASSUME PipelineInv, Push
  PROVE  GateHandles(i)
<1>1. /\ i \in Sources /\ taken[i] \in 1 .. Len(sent[i]) /\ sent[i][taken[i]].intact
      /\ pc = "push" /\ j = 0 /\ taken \in [Sources -> Nat]
  BY InHand DEF Push, PipelineInv, StageInv, TypeOK
<1>2. /\ UNCHANGED <<policy_enabled, transform_enabled, sent, taken, i, j>>
      /\ pc' \in {"scan", "sinks"}
  BY DEF Push
<1>3. /\ Handled[i] = taken[i] - 1 /\ Handled' = taken
      /\ Handled' = [Handled EXCEPT ![i] = @ + 1]
  <2>1. Handled[i] = taken[i] - 1 /\ taken[i] \in Nat
    BY <1>1 DEF Handled
  <2>2. \A s \in Sources : s # i => Handled[s] = taken[s]
    BY <1>1 DEF Handled
  <2>3. [Handled EXCEPT ![i] = @ + 1] = [s \in Sources |-> taken[s]]
    <3> DEFINE h == Handled
    <3>1. h = [s \in Sources |-> h[s]]
      BY DEF Handled
    <3> HIDE DEF h
    <3>2. [h EXCEPT ![i] = @ + 1] = [s \in Sources |-> taken[s]]
      <4>1. h[i] + 1 = taken[i] /\ \A s \in Sources : s # i => h[s] = taken[s]
        BY <2>1, <2>2 DEF h
      <4> QED BY <1>1, <3>1, <4>1
    <3> QED BY <3>2 DEF h
  <2>4. Handled' = [s \in Sources |-> taken[s]]
    BY <1>2 DEF Handled
  <2> QED BY <1>1, <2>1, <2>3, <2>4
<1>4. Handled[i] < Len(sent[i]) /\ Handled[i] + 1 = taken[i]
  BY <1>1, <1>3
<1>5. Gate!Reading(i, sent[i][taken[i]]) = Inspected
  BY DEF Inspected
<1>6. \A k \in Sinks : Served(k) = IF k = SINK_TYPE_DISCARD THEN <<>> ELSE Ids(k)
  BY <1>1 DEF Served, Pending
<1>7. RouteTable[i] \subseteq Sinks \ {SINK_TYPE_DISCARD}
  BY <1>1, RouteTableType
<1>8. CASE policy_enabled /\ Gate!Forbidden(i, Inspected)
  <2>1. /\ pc' = "scan"
        /\ offered' = IF DEBUG THEN Offer(SINK_TYPE_DISCARD, cur'[i]) ELSE offered
    BY <1>8, PushedMessage DEF PipelineInv
  <2>2. \A k \in Sinks \ {SINK_TYPE_DISCARD} : offered'[k] = offered[k]
    BY <2>1 DEF Offer, PipelineInv, TypeOK
  <2>3. \A k \in Sinks : Served(k)' = Served(k)
    BY <1>6, <2>1, <2>2 DEF Served, Pending, Ids
  <2> QED BY <1>2, <1>3, <1>4, <1>5, <1>8, <2>3 DEF GateHandles
<1>9. CASE ~(policy_enabled /\ Gate!Forbidden(i, Inspected))
  <2>1. /\ pc' = "sinks" /\ offered' = offered
        /\ cur'[i].sinks = RouteTable[i] /\ cur'[i].index = taken[i]
    BY <1>9, PushedMessage DEF PipelineInv
  <2>2. Pending' = RouteTable[i] \cap HookedSinks
    BY <1>1, <1>2, <1>7, <2>1 DEF Pending, Sinks, MAX_SINKS
  <2>3. \A k \in Sinks : Ids(k)' = Ids(k)
    BY <2>1 DEF Ids
  <2>4. \A k \in Sinks : Served(k)' = IF k \in RouteTable[i] \cap HookedSinks
                                      THEN Append(Served(k), <<i, taken[i]>>)
                                      ELSE Served(k)
    BY <1>2, <1>6, <1>7, <2>1, <2>2, <2>3 DEF Served
  <2> QED BY <1>1, <1>2, <1>3, <1>4, <1>5, <1>9, <2>4 DEF GateHandles
<1> QED BY <1>8, <1>9

\* The loop over the sinks only does what was decided.
LEMMA RoutedGate ==
  ASSUME PipelineInv, RouteSink
  PROVE  GateWaits
<1>1. /\ TypeOK /\ MessageInv /\ i \in Sources /\ cur[i].index = taken[i]
      /\ cur[i].sinks = RouteTable[i] /\ pc = "sinks" /\ j \in Nat
  BY DEF RouteSink, SinkLoop, PipelineInv, MessageInv, TypeOK
<1>2. UNCHANGED <<taken, pc, i>> /\ j' = j + 1
  BY DEF RouteSink
<1>3. Handled' = Handled
  BY <1>2 DEF Handled
<1>4. RouteTable[i] \subseteq Sinks \ {SINK_TYPE_DISCARD} /\ Sinks \subseteq Nat
  BY <1>1, RouteTableType DEF Sinks, MAX_SINKS
<1>5. cur'[i].sinks = cur[i].sinks /\ cur'[i].index = cur[i].index
  BY <1>1, RoutedMessage DEF RouteSink
<1>6. Pending = {k \in RouteTable[i] \cap HookedSinks : k >= j}
      /\ Pending' = {k \in RouteTable[i] \cap HookedSinks : k >= j + 1}
  BY <1>1, <1>2, <1>5 DEF Pending
<1>7. Pending' = Pending \ {j}
  <2>1. \A k \in Nat : k >= j + 1 <=> k >= j /\ k # j
    BY <1>1
  <2>2. \A k \in RouteTable[i] : k \in Nat
    BY <1>4
  <2> QED BY <1>6, <2>1, <2>2
<1>8. CASE j \in cur[i].sinks /\ j \in HookedSinks
  <2>1. PICK k \in Sinks, m \in Message :
             /\ k = j /\ m.source = i /\ m.index = taken[i]
             /\ offered' = [offered EXCEPT ![k] = Append(@, m)]
    BY <1>1, <1>8, RoutedMessage
  <2>2. /\ Ids(k)' = Append(Ids(k), <<m.source, m.index>>)
        /\ \A l \in Sinks \ {k} : Ids(l)' = Ids(l)
    BY <1>1, <2>1, IdsAppend
  <2>3. k \in Pending /\ k # SINK_TYPE_DISCARD /\ k \notin Pending'
    BY <1>1, <1>4, <1>6, <1>7, <1>8, <2>1
  <2>4. Served(k)' = Served(k)
    BY <1>1, <2>1, <2>2, <2>3 DEF Served
  <2>5. ASSUME NEW l \in Sinks, l # k PROVE Served(l)' = Served(l)
    <3>1. l \in Pending' <=> l \in Pending
      BY <1>7, <2>1, <2>5
    <3>2. Ids(l)' = Ids(l)
      BY <2>2, <2>5
    <3> QED BY <1>2, <1>5, <3>1, <3>2 DEF Served
  <2> QED BY <1>3, <2>4, <2>5 DEF GateWaits
<1>9. CASE ~(j \in cur[i].sinks /\ j \in HookedSinks)
  <2>1. offered' = offered /\ Pending' = Pending
    BY <1>1, <1>6, <1>7, <1>9 DEF RouteSink
  <2>2. \A k \in Sinks : Ids(k)' = Ids(k)
    BY <2>1 DEF Ids
  <2> QED BY <1>2, <1>3, <1>5, <2>1, <2>2 DEF GateWaits, Served
<1> QED BY <1>8, <1>9

\* When the loop is over, all of it has been done.
LEMMA ReturnGate ==
  ASSUME PipelineInv, PushReturns
  PROVE  GateWaits
<1>1. /\ i \in Sources /\ cur[i].sinks = RouteTable[i] /\ pc = "sinks" /\ j = MAX_SINKS
      /\ pc' = "scan" /\ UNCHANGED <<taken, offered, cur, i>>
  BY DEF PushReturns, PipelineInv, MessageInv
<1>2. Pending = {} /\ Pending' = {}
  BY <1>1, RouteTableType DEF Pending, Sinks, MAX_SINKS
<1>3. \A k \in Sinks : Ids(k)' = Ids(k)
  BY <1>1 DEF Ids
<1>4. Handled' = Handled
  BY <1>1 DEF Handled
<1> QED BY <1>2, <1>3, <1>4 DEF GateWaits, Served

\* In the gate's own words.
LEMMA GateStep ==
  ASSUME PipelineInv, NEW s \in Sources, GateHandles(s)
  PROVE  Gate!Handle(s)
<1> DEFINE D == [k \in Sinks |-> Served(k)]
<1>1. Handled'[s] = Handled[s] + 1
  BY DEF GateHandles, Handled
<1>2. ASSUME NEW k \in Sinks
      PROVE  D'[k] = IF k \in Gate!Peers(s) \cap (HookedSinks \ {SINK_TYPE_DISCARD})
                        /\ Gate!Passes(s, sent[s][Handled'[s]])
                     THEN Append(D[k], <<s, Handled'[s]>>) ELSE D[k]
  <2>1. D[k] = Served(k) /\ D'[k] = Served(k)'
    OBVIOUS
  <2>2. k \in Gate!Peers(s) \cap (HookedSinks \ {SINK_TYPE_DISCARD})
          <=> k \in RouteTable[s] \cap HookedSinks
    BY PeersAre
  <2> HIDE DEF D
  <2> QED BY <1>1, <2>1, <2>2 DEF GateHandles, Gate!Passes
<1>3. D' = [k \in Gate!Sinks |->
              IF k \in Gate!Peers(s) \cap (HookedSinks \ {SINK_TYPE_DISCARD})
                 /\ Gate!Passes(s, sent[s][Handled'[s]])
              THEN Append(D[k], <<s, Handled'[s]>>) ELSE D[k]]
  <2>1. Gate!Sinks = Sinks
    BY DEF Gate!Sinks, Gate!MAX_SINKS, Sinks, MAX_SINKS
  <2>2. D' = [k \in Sinks |-> D'[k]]
    OBVIOUS
  <2> HIDE DEF D
  <2> QED BY <1>2, <2>1, <2>2
<1>4. /\ Handled[s] < Len(sent[s]) /\ Handled' = [Handled EXCEPT ![s] = @ + 1]
      /\ UNCHANGED <<sent, policy_enabled, transform_enabled>>
  BY DEF GateHandles
<1> QED BY <1>3, <1>4 DEF Gate!Handle, Handled, Served

\* Nothing arrives for the gate but what arrives at the ports.
LEMMA ArriveGate ==
  ASSUME PipelineInv, NEW s \in Sources, Arrive(s)
  PROVE  Gate!Arrive(s) /\ GateWaits
<1>1. PICK f \in Accepted : sent' = [sent EXCEPT ![s] = Append(@, f)]
  BY DEF Arrive
<1>2. UNCHANGED <<policy_enabled, transform_enabled, taken, cur, offered, pc, i, j>>
  BY DEF Arrive
<1>3. GateWaits
  BY <1>2 DEF GateWaits, Handled, Served, Pending, Ids
<1>4. /\ Handled' = Handled
      /\ [k \in Sinks |-> Served(k)]' = [k \in Sinks |-> Served(k)]
  BY <1>3 DEF GateWaits
<1> QED BY <1>1, <1>2, <1>3, <1>4 DEF Gate!Arrive, Handled, Served

\* Each stage is a step of the gate, or none of its business.
LEMMA NextGate ==
  ASSUME PipelineInv, [Next]_vars
  PROVE  [Gate!Next]_Gate!vars
<1>1. CASE \E s \in Sources : Arrive(s)
  <2>1. PICK s \in Sources : Arrive(s)
    BY <1>1
  <2>2. Gate!Arrive(s)
    BY <2>1, ArriveGate
  <2> QED BY <2>2 DEF Gate!Next, Gate!Sources, Sources, Gate!MAX_SOURCES, MAX_SOURCES
<1>2. CASE ParseDamaged \/ Push
  <2>1. GateHandles(i) /\ i \in Sources
    BY <1>2, DamagedGate, PushedGate, NextFrame, InHand DEF ParseDamaged, Push, PipelineInv
  <2>2. PICK s \in Sources : s = i
    BY <2>1
  <2>3. GateHandles(s)
    BY <2>1, <2>2
  <2>4. Gate!Handle(s)
    BY <2>3, GateStep
  <2> QED BY <2>4 DEF Gate!Next, Gate!Sources, Sources, Gate!MAX_SOURCES, MAX_SOURCES
<1>3. ASSUME GateWaits PROVE Handled' = Handled
                          /\ [k \in Sinks |-> Served(k)]' = [k \in Sinks |-> Served(k)]
  BY <1>3 DEF GateWaits
<1>4. CASE NoKey \/ PolicyKey \/ TransformerKey \/ ConsoleClosed
  <2>1. /\ pc = "scan" /\ pc' \in {"scan", "stopped"} /\ UNCHANGED <<sent, taken, offered>>
        /\ policy_enabled' \in BOOLEAN /\ transform_enabled' \in BOOLEAN
    BY <1>4 DEF NoKey, PolicyKey, TransformerKey, ConsoleClosed, PassEnds, PipelineInv, TypeOK
  <2>2. GateWaits
    BY <2>1, QuietStage DEF PipelineInv
  <2>3. Gate!Switch
    BY <1>3, <2>1, <2>2 DEF Gate!Switch, Handled, Served
  <2> QED BY <2>3 DEF Gate!Next
<1>5. CASE NextSource \/ ParseFrame \/ RouteSink \/ PushReturns \/ UNCHANGED vars
  <2>1. UNCHANGED <<sent, policy_enabled, transform_enabled>>
    BY <1>5 DEF NextSource, ParseFrame, RouteSink, PushReturns, vars
  <2>2. GateWaits
    <3>1. CASE NextSource
      BY <3>1, QuietStage DEF NextSource, PipelineInv
    <3>2. CASE UNCHANGED vars
      BY <3>2 DEF vars, GateWaits, Handled, Served, Pending, Ids
    <3> QED BY <1>5, <3>1, <3>2, ParsedGate, RoutedGate, ReturnGate
  <2> QED BY <1>3, <2>1, <2>2 DEF Gate!vars, Handled, Served
<1> QED BY <1>1, <1>2, <1>4, <1>5 DEF Next, Gateway

\* pipeline_init is the gate before the first frame.
LEMMA InitGate == Init => Gate!Init
<1> SUFFICES ASSUME Init PROVE Gate!Init
  OBVIOUS
<1>1. \A k \in Sinks : Served(k) = <<>>
  BY DEF Init, Served, Pending, Ids
<1>2. Handled = [s \in Sources |-> 0]
  BY DEF Init, Handled
<1>3. [k \in Sinks |-> Served(k)] = [k \in Sinks |-> <<>>]
  BY <1>1
<1>4. Gate!Sources = Sources /\ Gate!Sinks = Sinks
  BY DEF Gate!Sources, Gate!Sinks, Sources, Sinks, Gate!MAX_SOURCES, MAX_SOURCES,
         Gate!MAX_SINKS, MAX_SINKS
<1> QED BY <1>2, <1>3, <1>4 DEF Init, Gate!Init, Handled, Served

\* The pipeline, with its one buffer per source, its loop over the sinks and its
\* switches, implements the gate that decides and delivers in one step: each frame
\* reaches all of its peers or none, once and in order (pipeline_spin, pipeline_push).
THEOREM PipelineRefines == Spec => ImplementsGate
<1>1. PipelineInv /\ [Next]_vars => [Gate!Next]_Gate!vars
  BY NextGate
<1> QED BY <1>1, InitGate, PipelineInvariant, PTL DEF Spec, ImplementsGate, Gate!Spec

-----------------------------------------------------------------------------
(***************************************************************************)
(* What becomes of each frame.                                             *)
(***************************************************************************)
\* Accounted for one frame that is not in hand any more.
Settled(s, n) ==
    \/ ~sent[s][n].intact
    \/ \A k \in RouteTable[s] \cap HookedSinks :
          Holds(SINK_TYPE_DISCARD, s, n) # Holds(k, s, n)

InHandNow(s, n) == pc \in {"push", "sinks"} /\ i = s /\ n = taken[s]

\* No sink was offered a frame before the parser had it; the frame in hand was offered
\* to no sink before its inspection, and to those the loop has passed after it; and
\* what is not in hand is settled.
AccountInv ==
    /\ \A k \in Sinks : \A s \in Sources : \A n \in Nat : Holds(k, s, n) => n <= taken[s]
    /\ pc = "push" => \A k \in Sinks : ~Holds(k, i, taken[i])
    /\ pc = "sinks" =>
         /\ ~Holds(SINK_TYPE_DISCARD, i, taken[i])
         /\ \A k \in RouteTable[i] \cap HookedSinks : Holds(k, i, taken[i]) <=> k < j
    /\ \A s \in Sources : \A n \in 1 .. taken[s] : InHandNow(s, n) \/ Settled(s, n)

\* What the sinks hold after one more message.
LEMMA HoldsAppend ==
  ASSUME TypeOK, NEW k \in Sinks, NEW m \in Message,
         offered' = [offered EXCEPT ![k] = Append(@, m)],
         NEW s, NEW n
  PROVE  /\ Holds(k, s, n)' <=> Holds(k, s, n) \/ <<s, n>> = <<m.source, m.index>>
         /\ \A l \in Sinks \ {k} : Holds(l, s, n)' <=> Holds(l, s, n)
<1>1. offered[k] \in Seq(Message) /\ offered'[k] = Append(offered[k], m)
      /\ \A l \in Sinks \ {k} : offered'[l] = offered[l]
  BY DEF TypeOK
<1>2. /\ Len(offered[k]) \in Nat /\ Len(offered'[k]) = Len(offered[k]) + 1
      /\ \A x \in 1 .. Len(offered[k]) : offered'[k][x] = offered[k][x]
      /\ offered'[k][Len(offered[k]) + 1] = m
  BY <1>1
<1>3. \A x \in 1 .. Len(offered'[k]) : x \in 1 .. Len(offered[k]) \/ x = Len(offered[k]) + 1
  BY <1>2
<1>4. /\ Len(offered[k]) + 1 \in 1 .. Len(offered'[k])
      /\ \A x \in 1 .. Len(offered[k]) : x \in 1 .. Len(offered'[k])
  BY <1>2
<1>5. /\ \A x \in 1 .. Len(offered[k]) : Ids(k)[x] = <<offered[k][x].source, offered[k][x].index>>
      /\ \A x \in 1 .. Len(offered'[k]) :
            Ids(k)'[x] = <<offered'[k][x].source, offered'[k][x].index>>
  BY DEF Ids
<1>6. Holds(k, s, n)' <=> Holds(k, s, n) \/ <<s, n>> = <<m.source, m.index>>
  <2>1. ASSUME Holds(k, s, n)' PROVE Holds(k, s, n) \/ <<s, n>> = <<m.source, m.index>>
    <3>1. PICK x \in 1 .. Len(offered'[k]) :
            <<offered'[k][x].source, offered'[k][x].index>> = <<s, n>>
      BY <1>5, <2>1 DEF Holds
    <3>2. CASE x \in 1 .. Len(offered[k])
      <4>1. Ids(k)[x] = <<s, n>>
        BY <1>2, <1>5, <3>1, <3>2
      <4> QED BY <3>2, <4>1 DEF Holds
    <3> QED BY <1>2, <1>3, <3>1, <3>2
  <2>2. ASSUME Holds(k, s, n) PROVE Holds(k, s, n)'
    <3>1. PICK x \in 1 .. Len(offered[k]) : <<offered[k][x].source, offered[k][x].index>> = <<s, n>>
      BY <1>5, <2>2 DEF Holds
    <3>2. x \in 1 .. Len(offered'[k]) /\ Ids(k)'[x] = <<s, n>>
      BY <1>2, <1>4, <1>5, <3>1
    <3> QED BY <3>2 DEF Holds
  <2>3. ASSUME <<s, n>> = <<m.source, m.index>> PROVE Holds(k, s, n)'
    <3> DEFINE x == Len(offered[k]) + 1
    <3>1. x \in 1 .. Len(offered'[k]) /\ Ids(k)'[x] = <<s, n>>
      BY <1>2, <1>4, <1>5, <2>3
    <3> QED BY <3>1 DEF Holds
  <2> QED BY <2>1, <2>2, <2>3
<1> QED BY <1>1, <1>6 DEF Holds, Ids

\* A sink that is not called holds what it held.
LEMMA HoldsSame ==
  ASSUME NEW k \in Sinks, offered'[k] = offered[k], NEW s, NEW n
  PROVE  Holds(k, s, n)' <=> Holds(k, s, n)
  BY DEF Holds, Ids

\* Ports only ever receive more.
LEMMA SentGrows ==
  ASSUME TypeOK, [Next]_vars, NEW s \in Sources, NEW n \in 1 .. Len(sent[s])
  PROVE  n \in 1 .. Len(sent'[s]) /\ sent'[s][n] = sent[s][n]
<1>1. CASE UNCHANGED sent
  BY <1>1
<1>2. CASE \E q \in Sources : Arrive(q)
  <2>1. PICK q \in Sources : Arrive(q)
    BY <1>2
  <2>2. PICK f \in Accepted : sent' = [sent EXCEPT ![q] = Append(@, f)]
    BY <2>1 DEF Arrive
  <2>3. sent[q] \in Seq(Accepted)
    BY DEF TypeOK
  <2>4. CASE q = s
    BY <2>2, <2>3, <2>4 DEF TypeOK
  <2>5. CASE q # s
    BY <2>2, <2>5 DEF TypeOK
  <2> QED BY <2>4, <2>5
<1> QED BY <1>1, <1>2 DEF Next, Gateway, vars, NextSource, ParseDamaged, ParseFrame, Push,
         RouteSink, PushReturns, NoKey, PolicyKey, TransformerKey, ConsoleClosed, PassEnds

\* Frames that were read stay as they are, and so does what became of them as long
\* as no sink is offered one.
LEMMA StaysSettled ==
  ASSUME TypeOK, MessageInv, [Next]_vars, NEW s \in Sources, NEW n \in 1 .. taken[s],
         \A k \in Sinks : Holds(k, s, n)' <=> Holds(k, s, n)
  PROVE  Settled(s, n)' <=> Settled(s, n)
<1>1. sent'[s][n] = sent[s][n]
  <2>1. n \in 1 .. Len(sent[s])
    BY DEF MessageInv, TypeOK
  <2> QED BY <2>1, SentGrows
<1>2. RouteTable[s] \subseteq Sinks /\ SINK_TYPE_DISCARD \in Sinks
  BY RouteTableType DEF SINK_TYPE_DISCARD, Sinks, MAX_SINKS
<1>3. \A k \in Sinks : Holds(k, s, n) \in BOOLEAN /\ Holds(k, s, n)' \in BOOLEAN
  BY DEF Holds
<1>4. \A k \in Sinks : (Holds(SINK_TYPE_DISCARD, s, n) # Holds(k, s, n))'
                           <=> Holds(SINK_TYPE_DISCARD, s, n) # Holds(k, s, n)
  BY <1>2, <1>3
<1> QED BY <1>1, <1>2, <1>4 DEF Settled

\* A new frame is in hand, or damaged.
LEMMA ParseAccount ==
  ASSUME PipelineInv, AccountInv, ParseFrame \/ ParseDamaged
  PROVE  AccountInv'
<1>1. /\ i \in Sources /\ taken \in [Sources -> Nat] /\ TypeOK /\ MessageInv /\ [Next]_vars
      /\ taken' = [taken EXCEPT ![i] = @ + 1]
      /\ pc = "scan" /\ UNCHANGED <<sent, offered, i>>
  BY NextFrame DEF ParseFrame, ParseDamaged, HasMore, PipelineInv, TypeOK, Next, Gateway
<1>2. /\ taken'[i] = taken[i] + 1 /\ taken[i] \in Nat
      /\ \A s \in Sources : s # i => taken'[s] = taken[s]
      /\ \A s \in Sources : taken[s] \in Nat /\ taken'[s] \in Nat /\ taken[s] <= taken'[s]
  BY <1>1
<1>3. \A k \in Sinks : \A s, n : Holds(k, s, n)' <=> Holds(k, s, n)
  BY <1>1, HoldsSame
<1>4. ASSUME NEW k \in Sinks, NEW s \in Sources, NEW n \in Nat, Holds(k, s, n)'
      PROVE  n <= taken'[s]
  BY <1>2, <1>3, <1>4 DEF AccountInv
<1>5. \A k \in Sinks : ~Holds(k, i, taken[i] + 1)
  BY <1>1, <1>2 DEF AccountInv
<1>6. ASSUME pc' = "push" PROVE \A k \in Sinks : ~Holds(k, i, taken[i])'
  <2> SUFFICES ASSUME NEW k \in Sinks PROVE ~Holds(k, i, taken[i])'
    OBVIOUS
  <2>1. PICK s \in Sources, n \in Nat : s = i /\ n = taken[i] + 1
    BY <1>1, <1>2
  <2>2. ~Holds(k, s, n)'
    BY <1>3, <1>5, <2>1
  <2> QED BY <1>1, <1>2, <2>1, <2>2
<1>7. ASSUME NEW s \in Sources, NEW n \in 1 .. taken'[s]
      PROVE  (InHandNow(s, n) \/ Settled(s, n))'
  <2>1. CASE n \in 1 .. taken[s]
    <3>1. Settled(s, n)
      BY <1>1, <2>1 DEF AccountInv, InHandNow
    <3> QED BY <1>1, <1>3, <2>1, <3>1, StaysSettled
  <2>2. CASE n \notin 1 .. taken[s]
    <3>1. s = i /\ n = taken[i] + 1
      BY <1>2, <2>2
    <3>2. CASE ParseFrame
      BY <1>1, <1>2, <3>1, <3>2 DEF ParseFrame, InHandNow
    <3>3. CASE ParseDamaged
      BY <1>1, <3>1, <3>3 DEF ParseDamaged, Settled
    <3> QED BY <3>2, <3>3
  <2> QED BY <2>1, <2>2
<1>8. pc' # "sinks"
  BY <1>1 DEF ParseFrame, ParseDamaged
<1> QED BY <1>4, <1>6, <1>7, <1>8 DEF AccountInv

\* The inspection settles a refused frame; the others are still to be offered.
LEMMA PushAccount ==
  ASSUME PipelineInv, AccountInv, Push, DEBUG, SINK_TYPE_DISCARD \in HookedSinks
  PROVE  AccountInv'
<1>1. /\ TypeOK /\ MessageInv /\ [Next]_vars /\ i \in Sources /\ taken[i] \in Nat
      /\ pc = "push" /\ j = 0 /\ UNCHANGED <<sent, taken, i, j>>
  BY InHand DEF Push, PipelineInv, StageInv, TypeOK, Next, Gateway
<1>2. \A k \in Sinks : ~Holds(k, i, taken[i])
  BY <1>1 DEF AccountInv
<1>3. RouteTable[i] \subseteq Sinks \ {SINK_TYPE_DISCARD} /\ Sinks \subseteq Nat
      /\ SINK_TYPE_DISCARD \in Sinks
  BY <1>1, RouteTableType DEF Sinks, MAX_SINKS, SINK_TYPE_DISCARD
<1>4. PICK s0 \in Sources, n0 \in Nat : s0 = i /\ n0 = taken[i]
  BY <1>1
<1>5. CASE policy_enabled /\ Gate!Forbidden(i, Inspected)
  <2>1. PICK m \in Message : /\ m.source = i /\ m.index = taken[i] /\ pc' = "scan"
                             /\ offered' = Offer(SINK_TYPE_DISCARD, m)
    BY <1>5, PushedMessage DEF PipelineInv
  <2>2. offered' = [offered EXCEPT ![SINK_TYPE_DISCARD] = Append(@, m)]
    BY <2>1 DEF Offer
  <2>3. \A s, n : /\ Holds(SINK_TYPE_DISCARD, s, n)' <=>
                       Holds(SINK_TYPE_DISCARD, s, n) \/ <<s, n>> = <<s0, n0>>
                  /\ \A k \in Sinks \ {SINK_TYPE_DISCARD} : Holds(k, s, n)' <=> Holds(k, s, n)
    BY <1>1, <1>3, <1>4, <2>1, <2>2, HoldsAppend
  <2>4. ASSUME NEW k \in Sinks, NEW s \in Sources, NEW n \in Nat, Holds(k, s, n)'
        PROVE  n <= taken'[s]
    <3>1. Holds(k, s, n) \/ <<s, n>> = <<s0, n0>>
      BY <2>3, <2>4
    <3> QED BY <1>1, <1>4, <3>1 DEF AccountInv
  <2>5. ASSUME NEW s \in Sources, NEW n \in 1 .. taken'[s]
        PROVE  Settled(s, n)'
    <3>1. CASE s = s0 /\ n = n0
      <4>1. Holds(SINK_TYPE_DISCARD, s, n)'
        BY <2>3, <3>1
      <4>2. \A k \in RouteTable[s] : ~Holds(k, s, n)'
        BY <1>2, <1>3, <1>4, <2>3, <3>1
      <4>3. \A k \in RouteTable[s] : (Holds(SINK_TYPE_DISCARD, s, n) # Holds(k, s, n))'
        BY <4>1, <4>2
      <4> QED BY <4>3 DEF Settled
    <3>2. CASE ~(s = s0 /\ n = n0)
      <4>1. Settled(s, n)
        BY <1>1, <1>4, <3>2 DEF AccountInv, InHandNow
      <4>2. \A k \in Sinks : Holds(k, s, n)' <=> Holds(k, s, n)
        BY <2>3, <3>2
      <4> QED BY <1>1, <4>1, <4>2, StaysSettled
    <3> QED BY <3>1, <3>2
  <2> QED BY <2>1, <2>4, <2>5 DEF AccountInv
<1>6. CASE ~(policy_enabled /\ Gate!Forbidden(i, Inspected))
  <2>1. pc' = "sinks" /\ offered' = offered
    BY <1>6, PushedMessage DEF PipelineInv
  <2>2. \A k \in Sinks : \A s, n : Holds(k, s, n)' <=> Holds(k, s, n)
    BY <2>1, HoldsSame
  <2>3. \A k \in Sinks : \A s \in Sources : \A n \in Nat : Holds(k, s, n)' => n <= taken'[s]
    BY <1>1, <2>2 DEF AccountInv
  <2>4. \A k \in Sinks : ~Holds(k, s0, n0)'
    BY <1>2, <1>4, <2>2
  <2>5. /\ ~Holds(SINK_TYPE_DISCARD, i, taken[i])'
        /\ \A k \in RouteTable[i] \cap HookedSinks : Holds(k, i, taken[i])' <=> k < j
    <3>1. ~Holds(SINK_TYPE_DISCARD, i, taken[i])'
      <4>1. i' = s0 /\ taken'[i'] = n0
        BY <1>1, <1>4
      <4> QED BY <1>3, <2>4, <4>1
    <3>2. ASSUME NEW k \in RouteTable[i] \cap HookedSinks
          PROVE  ~Holds(k, i, taken[i])' /\ ~(k < j)
      <4>1. i' = s0 /\ taken'[i'] = n0
        BY <1>1, <1>4
      <4> QED BY <1>1, <1>3, <2>4, <4>1
    <3> QED BY <3>1, <3>2
  <2>6. ASSUME NEW s \in Sources, NEW n \in 1 .. taken'[s]
        PROVE  (InHandNow(s, n) \/ Settled(s, n))'
    <3>1. InHandNow(s, n) => InHandNow(s, n)'
      BY <1>1, <2>1 DEF InHandNow
    <3>2. Settled(s, n)' <=> Settled(s, n)
      BY <1>1, <2>2, StaysSettled
    <3> QED BY <1>1, <3>1, <3>2 DEF AccountInv
  <2> QED BY <1>1, <2>1, <2>3, <2>5, <2>6 DEF AccountInv
<1> QED BY <1>5, <1>6

\* The loop over the sinks offers the frame in hand to one more of them.
LEMMA RouteAccount ==
  ASSUME PipelineInv, AccountInv, RouteSink
  PROVE  AccountInv'
<1>1. /\ TypeOK /\ MessageInv /\ [Next]_vars /\ i \in Sources /\ taken[i] \in Nat
      /\ cur[i].sinks = RouteTable[i] /\ pc = "sinks" /\ j \in Nat /\ j' = j + 1
      /\ UNCHANGED <<sent, taken, pc, i>>
  BY InHand DEF RouteSink, SinkLoop, PipelineInv, MessageInv, TypeOK, Next, Gateway
<1>2. PICK s0 \in Sources, n0 \in Nat : s0 = i /\ n0 = taken[i]
  BY <1>1
<1>3. RouteTable[s0] \subseteq Sinks \ {SINK_TYPE_DISCARD} /\ Sinks \subseteq Nat
      /\ SINK_TYPE_DISCARD \in Sinks
  BY <1>1, RouteTableType DEF Sinks, MAX_SINKS, SINK_TYPE_DISCARD
<1>4. /\ ~Holds(SINK_TYPE_DISCARD, s0, n0)
      /\ \A k \in RouteTable[s0] \cap HookedSinks : Holds(k, s0, n0) <=> k < j
  BY <1>1, <1>2 DEF AccountInv
<1>5. /\ \A s \in Sources, n \in Nat : <<s, n>> # <<s0, n0>> =>
            \A k \in Sinks : Holds(k, s, n)' <=> Holds(k, s, n)
      /\ ~Holds(SINK_TYPE_DISCARD, s0, n0)'
      /\ \A k \in RouteTable[s0] \cap HookedSinks : Holds(k, s0, n0)' <=> k < j + 1
  <2>0. \A k \in RouteTable[s0] : k < j + 1 <=> k < j \/ k = j
    <3>1. \A k \in Nat : k < j + 1 <=> k < j \/ k = j
      BY <1>1
    <3>2. \A k \in RouteTable[s0] : k \in Nat
      BY <1>3
    <3> QED BY <3>1, <3>2
  <2>1. CASE j \in cur[i].sinks /\ j \in HookedSinks
    <3>1. PICK k0 \in Sinks, m \in Message :
               /\ k0 = j /\ m.source = s0 /\ m.index = n0
               /\ offered' = [offered EXCEPT ![k0] = Append(@, m)]
      BY <1>1, <1>2, <2>1, RoutedMessage
    <3>2. \A s, n : /\ Holds(k0, s, n)' <=> Holds(k0, s, n) \/ <<s, n>> = <<s0, n0>>
                    /\ \A k \in Sinks \ {k0} : Holds(k, s, n)' <=> Holds(k, s, n)
      BY <1>1, <3>1, HoldsAppend
    <3>3. k0 # SINK_TYPE_DISCARD
      BY <1>1, <1>2, <1>3, <2>1, <3>1
    <3> QED BY <1>3, <1>4, <2>0, <3>1, <3>2, <3>3
  <2>2. CASE ~(j \in cur[i].sinks /\ j \in HookedSinks)
    <3>1. offered' = offered
      BY <2>2 DEF RouteSink
    <3>2. \A k \in Sinks : \A s, n : Holds(k, s, n)' <=> Holds(k, s, n)
      BY <3>1, HoldsSame
    <3>3. \A k \in RouteTable[s0] \cap HookedSinks : k # j
      BY <1>1, <1>2, <2>2
    <3> QED BY <1>3, <1>4, <2>0, <3>2, <3>3
  <2> QED BY <2>1, <2>2
<1>6. \A k \in Sinks : \A s \in Sources : \A n \in Nat : Holds(k, s, n)' => n <= taken'[s]
  <2> SUFFICES ASSUME NEW k \in Sinks, NEW s \in Sources, NEW n \in Nat, Holds(k, s, n)'
               PROVE  n <= taken'[s]
    OBVIOUS
  <2>1. Holds(k, s, n) \/ <<s, n>> = <<s0, n0>>
    BY <1>5
  <2> QED BY <1>1, <1>2, <2>1 DEF AccountInv
<1>7. ASSUME NEW s \in Sources, NEW n \in 1 .. taken'[s]
      PROVE  (InHandNow(s, n) \/ Settled(s, n))'
  <2>1. CASE s = s0 /\ n = n0
    BY <1>1, <1>2, <2>1 DEF InHandNow
  <2>2. CASE ~(s = s0 /\ n = n0)
    <3>1. Settled(s, n) /\ n \in Nat /\ n \in 1 .. taken[s]
      BY <1>1, <1>2, <2>2 DEF AccountInv, InHandNow, TypeOK
    <3>2. \A k \in Sinks : Holds(k, s, n)' <=> Holds(k, s, n)
      BY <1>5, <2>2, <3>1
    <3> QED BY <1>1, <3>1, <3>2, StaysSettled
  <2> QED BY <2>1, <2>2
<1>8. i' = s0 /\ taken'[i'] = n0
  BY <1>1, <1>2
<1>9. /\ ~Holds(SINK_TYPE_DISCARD, i, taken[i])'
      /\ \A k \in RouteTable[s0] \cap HookedSinks : Holds(k, i, taken[i])' <=> k < j'
  BY <1>1, <1>5, <1>8
<1> QED BY <1>1, <1>6, <1>7, <1>8, <1>9 DEF AccountInv

\* After the loop every peer has the frame, and the log has not.
LEMMA ReturnAccount ==
  ASSUME PipelineInv, AccountInv, PushReturns
  PROVE  AccountInv'
<1>1. /\ TypeOK /\ MessageInv /\ [Next]_vars /\ i \in Sources /\ taken[i] \in Nat
      /\ pc = "sinks" /\ pc' = "scan" /\ j = MAX_SINKS
      /\ UNCHANGED <<sent, taken, offered, i>>
  BY InHand DEF PushReturns, PipelineInv, TypeOK, Next, Gateway
<1>2. \A k \in Sinks : \A s, n : Holds(k, s, n)' <=> Holds(k, s, n)
  BY <1>1, HoldsSame
<1>3. \A k \in RouteTable[i] : k < j
  BY <1>1, RouteTableType DEF Sinks, MAX_SINKS
<1>4. Settled(i, taken[i])
  <2>1. ~Holds(SINK_TYPE_DISCARD, i, taken[i])
    BY <1>1 DEF AccountInv
  <2>2. \A k \in RouteTable[i] \cap HookedSinks : Holds(k, i, taken[i])
    BY <1>1, <1>3 DEF AccountInv
  <2>3. \A k \in RouteTable[i] \cap HookedSinks :
          Holds(SINK_TYPE_DISCARD, i, taken[i]) # Holds(k, i, taken[i])
    BY <2>1, <2>2
  <2> QED BY <2>3 DEF Settled
<1>5. ASSUME NEW s \in Sources, NEW n \in 1 .. taken'[s]
      PROVE  Settled(s, n)'
  <2>1. Settled(s, n)
    BY <1>1, <1>4 DEF AccountInv, InHandNow
  <2> QED BY <1>1, <1>2, <2>1, StaysSettled
<1>6. \A k \in Sinks : \A s \in Sources : \A n \in Nat : Holds(k, s, n)' => n <= taken'[s]
  BY <1>1, <1>2 DEF AccountInv
<1> QED BY <1>1, <1>5, <1>6 DEF AccountInv

\* The other steps take no frame and offer none.
LEMMA QuietAccount ==
  ASSUME PipelineInv, AccountInv, [Next]_vars, UNCHANGED <<taken, offered>>,
         \/ UNCHANGED <<pc, i, j>>
         \/ pc = "scan" /\ pc' \in {"scan", "stopped"}
  PROVE  AccountInv'
<1>1. \A k \in Sinks : \A s, n : Holds(k, s, n)' <=> Holds(k, s, n)
  BY HoldsSame
<1>2. ASSUME NEW s \in Sources, NEW n \in 1 .. taken'[s]
      PROVE  (InHandNow(s, n) \/ Settled(s, n))'
  <2>1. InHandNow(s, n) \/ Settled(s, n)
    BY <1>2 DEF AccountInv
  <2>2. InHandNow(s, n) => InHandNow(s, n)'
    BY DEF InHandNow
  <2>3. Settled(s, n)' <=> Settled(s, n)
    BY <1>1, StaysSettled DEF PipelineInv
  <2> QED BY <2>1, <2>2, <2>3
<1>3. \A k \in Sinks : \A s \in Sources : \A n \in Nat : Holds(k, s, n)' => n <= taken'[s]
  BY <1>1 DEF AccountInv
<1>4. CASE UNCHANGED <<pc, i, j>>
  <2>1. \A k \in Sinks : Holds(k, i, taken[i])' <=> Holds(k, i, taken[i])
    BY <1>4 DEF Holds, Ids
  <2>2. pc = "sinks" => RouteTable[i] \subseteq Sinks /\ SINK_TYPE_DISCARD \in Sinks
    BY RouteTableType DEF PipelineInv, MessageInv, SINK_TYPE_DISCARD, Sinks, MAX_SINKS
  <2> QED BY <1>2, <1>3, <1>4, <2>1, <2>2 DEF AccountInv
<1>5. CASE pc' \in {"scan", "stopped"}
  BY <1>2, <1>3, <1>5 DEF AccountInv
<1> QED BY <1>4, <1>5

\* Every stage keeps the account.
LEMMA NextAccount ==
  ASSUME PipelineInv, AccountInv, [Next]_vars, DEBUG, SINK_TYPE_DISCARD \in HookedSinks
  PROVE  AccountInv'
<1>1. CASE (\E s \in Sources : Arrive(s)) \/ UNCHANGED vars
  <2>1. UNCHANGED <<taken, offered, pc, i, j>>
    BY <1>1 DEF Arrive, vars
  <2> QED BY <2>1, QuietAccount
<1>2. CASE NextSource \/ NoKey \/ PolicyKey \/ TransformerKey \/ ConsoleClosed
  <2>1. UNCHANGED <<taken, offered>> /\ pc = "scan" /\ pc' \in {"scan", "stopped"}
    BY <1>2 DEF NextSource, NoKey, PolicyKey, TransformerKey, ConsoleClosed, PassEnds
  <2> QED BY <2>1, QuietAccount
<1> QED BY <1>1, <1>2, ParseAccount, PushAccount, RouteAccount, ReturnAccount DEF Next, Gateway

\* Nothing has been taken.
LEMMA InitAccount == Init => AccountInv
  BY DEF Init, AccountInv, Holds

\* In a debug build with its discard sink each intact frame that was dealt with is in
\* the log of refused messages, or with every attached peer of its source, and never
\* in both places (pipeline_push, pipeline_inspect).
THEOREM PipelineAccounts == Spec => []Accounted
<1> DEFINE Logs == DEBUG /\ SINK_TYPE_DISCARD \in HookedSinks
           Inv == Logs => AccountInv
<1>1. Init => Inv
  BY InitAccount
<1>2. PipelineInv /\ Inv /\ [Next]_vars => Inv'
  BY NextAccount
<1>3. Inv => Accounted
  BY DEF Accounted, AccountInv, InHandNow, Settled
<1> HIDE DEF Inv
<1> QED BY <1>1, <1>2, <1>3, PipelineInvariant, PTL DEF Spec

-----------------------------------------------------------------------------
(***************************************************************************)
(* The order in which a sink is called.                                    *)
(***************************************************************************)
\* The first frame of source s that sink k may still be offered.
Due(k, s) == IF i = s /\ (pc = "push" \/ (pc = "sinks" /\ k >= j)) THEN taken[s]
                                                                  ELSE taken[s] + 1

\* What one sink was offered.
Older(k) == \A x \in 1 .. Len(offered[k]) :
                offered[k][x].index < Due(k, offered[k][x].source)
InOrder(k) == \A x, y \in 1 .. Len(offered[k]) :
                x < y /\ offered[k][x].source = offered[k][y].source =>
                    offered[k][x].index < offered[k][y].index

\* A sink is offered the frames of one source in the order of their arrival, and none
\* twice; how those of different sources interleave is left open.
OfferedInOrder == \A k \in Sinks : InOrder(k)

OrderInv == \A k \in Sinks : Older(k) /\ InOrder(k)

\* Sink k is offered the frame in hand, for the first and only time.
NewOffer(k, m) ==
    /\ offered'[k] = Append(offered[k], m)
    /\ m.index = Due(k, m.source) /\ m.index < Due(k, m.source)'

\* The loop variables go forward.
LEMMA DueGrows ==
  ASSUME PipelineInv, [Next]_vars, NEW k \in Sinks, NEW s \in Sources
  PROVE  /\ Due(k, s) \in Nat /\ Due(k, s)' \in Nat
         /\ Due(k, s) <= Due(k, s)'
<1>1. taken[s] \in Nat /\ j \in Nat /\ k \in Nat
  BY DEF PipelineInv, TypeOK, Sinks, MAX_SINKS
<1>2. CASE UNCHANGED <<taken, pc, i, j>>
  BY <1>1, <1>2 DEF Due
<1>3. CASE NextSource \/ NoKey \/ PolicyKey \/ TransformerKey \/ ConsoleClosed
  <2>1. pc = "scan" /\ pc' \in {"scan", "stopped"} /\ UNCHANGED taken
    BY <1>3 DEF NextSource, NoKey, PolicyKey, TransformerKey, ConsoleClosed, PassEnds
  <2> QED BY <1>1, <2>1 DEF Due
<1>4. CASE ParseDamaged \/ ParseFrame
  <2>1. /\ pc = "scan" /\ pc' \in {"scan", "push"} /\ UNCHANGED <<i, j>>
        /\ taken' = [taken EXCEPT ![i] = @ + 1]
    BY <1>4 DEF ParseDamaged, ParseFrame, HasMore
  <2>2. taken'[s] = IF s = i THEN taken[s] + 1 ELSE taken[s]
    BY <2>1 DEF PipelineInv, TypeOK
  <2> QED BY <1>1, <2>1, <2>2 DEF Due
<1>5. CASE Push
  <2>1. pc = "push" /\ pc' \in {"scan", "sinks"} /\ UNCHANGED <<taken, i, j>> /\ j = 0
    BY <1>5 DEF Push, PipelineInv, StageInv
  <2> QED BY <1>1, <2>1 DEF Due
<1>6. CASE RouteSink \/ PushReturns
  <2>1. /\ pc = "sinks" /\ UNCHANGED <<taken, i>>
        /\ pc' = "scan" \/ (pc' = "sinks" /\ j' = j + 1)
    BY <1>6 DEF RouteSink, SinkLoop, PushReturns
  <2> QED BY <1>1, <2>1 DEF Due
<1>7. UNCHANGED vars \/ (\E q \in Sources : Arrive(q)) => UNCHANGED <<taken, pc, i, j>>
  BY DEF vars, Arrive
<1> QED BY <1>2, <1>3, <1>4, <1>5, <1>6, <1>7 DEF Next, Gateway

\* Whoever is offered a message is offered the one in hand.
LEMMA OfferStep ==
  ASSUME PipelineInv, [Next]_vars, NEW k \in Sinks, offered'[k] # offered[k]
  PROVE  \E m \in Message : NewOffer(k, m)
<1>1. taken \in [Sources -> Nat] /\ j \in Nat /\ k \in Nat
  BY DEF PipelineInv, TypeOK, Sinks, MAX_SINKS
<1>2. CASE k # SINK_TYPE_DISCARD
  <2>1. /\ RouteSink /\ k = j /\ i \in Sources /\ pc = "sinks"
        /\ Delivered(k) \in Message
        /\ Delivered(k).source = i /\ Delivered(k).index = taken[i]
        /\ offered' = [offered EXCEPT ![k] = Append(@, Delivered(k))]
    BY <1>2, DeliveryStep DEF Delivers, PipelineInv
  <2>2. /\ offered'[k] = Append(offered[k], Delivered(k))
        /\ pc' = "sinks" /\ j' = j + 1 /\ UNCHANGED <<taken, i>>
    BY <2>1 DEF PipelineInv, TypeOK, RouteSink, SinkLoop
  <2>3. Due(k, i) = taken[i] /\ Due(k, i)' = taken[i] + 1
    BY <1>1, <2>1, <2>2 DEF Due
  <2> QED BY <1>1, <2>1, <2>2, <2>3 DEF NewOffer
<1>3. CASE k = SINK_TYPE_DISCARD
  <2>1. Push
    <3>1. ASSUME RouteSink PROVE FALSE
      <4>1. j \in cur[i].sinks /\ j \in HookedSinks
        BY <1>3, <3>1 DEF RouteSink
      <4>2. offered' = [offered EXCEPT ![j] = Append(@, cur'[i])]
        BY <3>1, <4>1, RoutedMessage DEF PipelineInv
      <4>3. j # k
        BY <1>3, <3>1, <4>1, RouteTableType DEF RouteSink, SinkLoop, PipelineInv, MessageInv
      <4> QED BY <4>2, <4>3 DEF PipelineInv, TypeOK
    <3> QED BY <3>1 DEF Next, Gateway, vars, Arrive, NextSource, ParseDamaged, ParseFrame,
                        PushReturns, NoKey, PolicyKey, TransformerKey, ConsoleClosed, PassEnds
  <2>2. /\ i \in Sources /\ cur'[i] \in Message
        /\ cur'[i].source = i /\ cur'[i].index = taken[i] /\ pc' = "scan"
        /\ offered' = Offer(SINK_TYPE_DISCARD, cur'[i])
    BY <2>1, PushedMessage DEF PipelineInv
  <2>3. /\ offered'[k] = Append(offered[k], cur'[i])
        /\ pc = "push" /\ UNCHANGED <<taken, i>>
    BY <1>3, <2>1, <2>2 DEF Offer, Push, PipelineInv, TypeOK
  <2>4. Due(k, i) = taken[i] /\ Due(k, i)' = taken[i] + 1
    BY <1>1, <2>2, <2>3 DEF Due
  <2> QED BY <1>1, <2>2, <2>3, <2>4 DEF NewOffer
<1> QED BY <1>2, <1>3

\* It is newer than what the sink was offered before from that source.
LEMMA NextOrder ==
  ASSUME PipelineInv, OrderInv, [Next]_vars, NEW k \in Sinks
  PROVE  Older(k)' /\ InOrder(k)'
<1>1. offered[k] \in Seq(Message) /\ Len(offered[k]) \in Nat /\ Older(k) /\ InOrder(k)
  BY DEF PipelineInv, TypeOK, OrderInv
<1>2. \A x \in 1 .. Len(offered[k]) :
        offered[k][x].source \in Sources /\ offered[k][x].index \in Nat
  <2>1. \A x \in 1 .. Len(offered[k]) : offered[k][x] \in Message
    BY <1>1
  <2> QED BY <2>1 DEF Message
<1>3. \A s \in Sources : /\ Due(k, s) \in Nat /\ Due(k, s)' \in Nat
                         /\ Due(k, s) <= Due(k, s)'
  BY DueGrows
<1>4. ASSUME NEW x \in 1 .. Len(offered[k]), NEW s \in Sources, s = offered[k][x].source
      PROVE  offered[k][x].index < Due(k, s)'
  <2>1. offered[k][x].index < Due(k, s)
    BY <1>1, <1>4 DEF Older
  <2> QED BY <1>2, <1>3, <2>1
<1>5. CASE offered'[k] = offered[k]
  <2>1. Older(k)'
    BY <1>2, <1>4, <1>5 DEF Older
  <2> QED BY <1>1, <1>5, <2>1 DEF InOrder
<1>6. CASE offered'[k] # offered[k]
  <2>1. PICK m \in Message : NewOffer(k, m)
    BY <1>6, OfferStep
  <2>2. m.source \in Sources /\ m.index \in Nat
    BY DEF Message
  <2>3. /\ Len(offered'[k]) = Len(offered[k]) + 1
        /\ \A x \in 1 .. Len(offered'[k]) :
             offered'[k][x] = IF x = Len(offered[k]) + 1 THEN m ELSE offered[k][x]
    BY <1>1, <2>1 DEF NewOffer
  <2>4. ASSUME NEW x \in 1 .. Len(offered'[k])
        PROVE  (offered[k][x].index < Due(k, offered[k][x].source))'
    <3>1. CASE x = Len(offered[k]) + 1
      <4>1. offered'[k][x] = m
        BY <2>3, <3>1
      <4>2. m.index < Due(k, m.source)'
        BY <2>1 DEF NewOffer
      <4> QED BY <4>1, <4>2 DEF Due
    <3>2. CASE x # Len(offered[k]) + 1
      <4>1. x \in 1 .. Len(offered[k]) /\ offered'[k][x] = offered[k][x]
        BY <1>1, <2>3, <3>2
      <4>2. PICK s \in Sources : s = offered[k][x].source
        BY <1>2, <4>1
      <4>3. offered[k][x].index < Due(k, s)'
        BY <1>4, <4>1, <4>2
      <4> QED BY <4>1, <4>2, <4>3 DEF Due
    <3> QED BY <3>1, <3>2
  <2>5. ASSUME NEW x \in 1 .. Len(offered'[k]), NEW y \in 1 .. Len(offered'[k]), x < y,
               offered'[k][x].source = offered'[k][y].source
        PROVE  offered'[k][x].index < offered'[k][y].index
    <3>1. x \in 1 .. Len(offered[k]) /\ offered'[k][x] = offered[k][x]
      BY <1>1, <2>3, <2>5
    <3>2. CASE y = Len(offered[k]) + 1
      <4>1. offered'[k][y] = m /\ offered[k][x].source = m.source
        BY <2>3, <2>5, <3>1, <3>2
      <4>2. offered[k][x].index < Due(k, m.source)
        BY <1>1, <3>1, <4>1 DEF Older
      <4>3. Due(k, m.source) = m.index
        BY <1>3, <2>1, <2>2 DEF NewOffer
      <4> QED BY <1>2, <2>2, <3>1, <4>1, <4>2, <4>3
    <3>3. CASE y # Len(offered[k]) + 1
      BY <1>1, <2>3, <2>5, <3>1, <3>3 DEF InOrder
    <3> QED BY <3>2, <3>3
  <2> QED BY <2>4, <2>5 DEF Older, InOrder
<1> QED BY <1>5, <1>6

\* However the passes, the pushes and the keys follow each other, a sink, be it a peer
\* or the log of refused messages, is called with the frames of a source in the order
\* in which they were parsed, and at most once with each.
THEOREM PipelineInOrder == Spec => []OfferedInOrder
<1>1. Init => OrderInv
  BY DEF Init, OrderInv, Older, InOrder
<1>2. PipelineInv /\ OrderInv /\ [Next]_vars => OrderInv'
  BY NextOrder DEF OrderInv
<1>3. OrderInv => OfferedInOrder
  BY DEF OrderInv, OfferedInOrder
<1> QED BY <1>1, <1>2, <1>3, PipelineInvariant, PTL DEF Spec

-----------------------------------------------------------------------------
(***************************************************************************)
(* The link to the vehicle, as main.c builds it with -DUSE_XOR=ON: the     *)
(* run pipeline_xor finds that it carries payloads in the clear.           *)
(***************************************************************************)
\* The vehicle's source and sink have the transformers, and no other port has.
XorPorts == SourceTransform = {SOURCE_TYPE_VMC} /\ SinkTransform = {SINK_TYPE_VMC}

\* The switch is on whenever pipeline_push is in its loop.
OnWhenRouting == [](pc = "sinks" => transform_enabled)

\* What the vehicle's sink is offered comes from a source without a transformer, to a
\* sink that is alone on its route.
LEMMA EncipheredStep ==
  ASSUME XorPorts, TypeOK, MessageInv, [Next]_vars, pc = "sinks" => transform_enabled,
         Delivers(SINK_TYPE_VMC)
  PROVE  Delivered(SINK_TYPE_VMC).msg = Xor(Arrived(Delivered(SINK_TYPE_VMC)))
<1> DEFINE m == Delivered(SINK_TYPE_VMC)
<1>1. SINK_TYPE_VMC \in Sinks \ {SINK_TYPE_DISCARD}
  BY DEF SINK_TYPE_VMC, Sinks, MAX_SINKS, SINK_TYPE_DISCARD
<1>2. PICK k \in Sinks \ {SINK_TYPE_DISCARD} : k = SINK_TYPE_VMC
  BY <1>1
<1>3. /\ i \in Sources /\ SINK_TYPE_VMC \in RouteTable[i] /\ pc = "sinks"
      /\ m.source = i
  BY <1>2, DeliveryStep DEF Delivers
<1>4. i # SOURCE_TYPE_VMC /\ transform_enabled
  BY <1>3, RouteTableConfined
<1>5. \A s \in Sources : SINK_TYPE_VMC \in RouteTable[s] => RouteTable[s] = {SINK_TYPE_VMC}
  BY DEF RouteTable, Sources, MAX_SOURCES, SOURCE_TYPE_NULL, SOURCE_TYPE_VMC,
         SOURCE_TYPE_LEGACY, SOURCE_TYPE_ENCLAVE, SINK_TYPE_VMC, SINK_TYPE_LEGACY,
         SINK_TYPE_ENCLAVE
<1>6. TransformersLast
  BY <1>5 DEF TransformersLast, XorPorts, SINK_TYPE_VMC
<1>7. m.msg = Xor(Gate!Reading(i, Arrived(m)))
  BY <1>1, <1>3, <1>4, <1>6, OwnTransformersStep DEF OwnTransformers, XorPorts
<1>8. Gate!Reading(i, Arrived(m)) = Arrived(m)
  BY <1>4 DEF Gate!Reading, XorPorts
<1> QED BY <1>7, <1>8

\* Every message on the link is the cipher of the frame it stands for.
Enciphered(m) == m.index \in 1 .. Len(sent[m.source]) /\ m.msg = Xor(Arrived(m))
LinkInv == \A n \in 1 .. Len(offered[SINK_TYPE_VMC]) : Enciphered(offered[SINK_TYPE_VMC][n])

\* What was sent stays what it was, and the next message is enciphered as well.
LEMMA NextLink ==
  ASSUME XorPorts, TypeOK, MessageInv, [Next]_vars, pc = "sinks" => transform_enabled,
         LinkInv
  PROVE  LinkInv'
<1> DEFINE log == offered[SINK_TYPE_VMC]
<1>1. PICK k \in Sinks \ {SINK_TYPE_DISCARD} : k = SINK_TYPE_VMC
  BY DEF SINK_TYPE_VMC, Sinks, MAX_SINKS, SINK_TYPE_DISCARD
<1>2. log \in Seq(Message) /\ Len(log) \in Nat
  BY <1>1 DEF TypeOK
<1>3. ASSUME NEW m \in Message, m.index \in 1 .. Len(sent[m.source]), m.msg = Xor(Arrived(m))
      PROVE  Enciphered(m)'
  <2>1. m.source \in Sources
    BY DEF Message
  <2>2. PICK s \in Sources : s = m.source
    BY <2>1
  <2>3. PICK n \in 1 .. Len(sent[s]) : n = m.index
    BY <1>3, <2>2
  <2>4. n \in 1 .. Len(sent'[s]) /\ sent'[s][n] = sent[s][n]
    BY SentGrows
  <2> QED BY <1>3, <2>2, <2>3, <2>4 DEF Enciphered, Arrived
<1>4. CASE log' = log
  <2>1. \A n \in 1 .. Len(log) : log[n] \in Message /\ Enciphered(log[n])
    BY <1>2 DEF LinkInv
  <2>2. \A n \in 1 .. Len(log) : \E m \in Message : m = log[n] /\ Enciphered(m)'
    BY <1>3, <2>1 DEF Enciphered
  <2> QED BY <1>4, <2>2 DEF LinkInv, Enciphered
<1>5. CASE log' # log
  <2>1. Delivers(SINK_TYPE_VMC)
    BY <1>5 DEF Delivers
  <2>2. PICK m \in Message : /\ m = Delivered(SINK_TYPE_VMC) /\ m.source = i /\ i \in Sources
                             /\ m.index = taken[i] /\ pc = "sinks"
                             /\ offered' = [offered EXCEPT ![k] = Append(@, m)]
    BY <1>1, <2>1, DeliveryStep
  <2>3. log' = Append(log, m)
    BY <1>1, <2>2 DEF TypeOK
  <2>4. m.index \in 1 .. Len(sent[m.source]) /\ m.msg = Xor(Arrived(m))
    BY <2>1, <2>2, EncipheredStep, InHand
  <2>5. Enciphered(m)'
    BY <1>3, <2>4
  <2>6. \A n \in 1 .. Len(log) : log[n] \in Message /\ Enciphered(log[n])
    BY <1>2 DEF LinkInv
  <2>7. \A n \in 1 .. Len(log) : \E q \in Message : q = log[n] /\ Enciphered(q)'
    BY <1>3, <2>6 DEF Enciphered
  <2>8. \A n \in 1 .. Len(log') : log'[n] = IF n = Len(log) + 1 THEN m ELSE log[n]
    BY <1>2, <2>3
  <2>9. \A n \in 1 .. Len(log') : \E q \in Message : q = log'[n] /\ Enciphered(q)'
    BY <1>2, <2>3, <2>5, <2>7, <2>8
  <2> QED BY <2>9 DEF LinkInv, Enciphered
<1> QED BY <1>4, <1>5

\* What the run pipeline_xor finds is due to the switch alone, which pipeline_init leaves
\* off: as long as it is on when messages are routed, every payload on the link to the
\* vehicle is enciphered, once, by the one transformer.
THEOREM PipelineLinkEnciphered ==
  ASSUME XorPorts
  PROVE  Spec /\ OnWhenRouting => []LinkEnciphered
<1>1. Init => LinkInv
  BY DEF Init, LinkInv, SINK_TYPE_VMC, Sinks, MAX_SINKS
<1>2. TypeOK /\ MessageInv /\ LinkInv /\ (pc = "sinks" => transform_enabled)
        /\ [Next]_vars => LinkInv'
  BY NextLink
<1>3. TypeOK /\ LinkInv => LinkEnciphered
  <2> SUFFICES ASSUME TypeOK, LinkInv, NEW n \in 1 .. Len(offered[SINK_TYPE_VMC])
               PROVE  offered[SINK_TYPE_VMC][n].msg.xored
                        # Arrived(offered[SINK_TYPE_VMC][n]).xored
    BY DEF LinkEnciphered
  <2>1. PICK m \in Message : m = offered[SINK_TYPE_VMC][n]
    BY DEF TypeOK, SINK_TYPE_VMC, Sinks, MAX_SINKS
  <2>2. m.index \in 1 .. Len(sent[m.source]) /\ m.msg = Xor(Arrived(m)) /\ m.source \in Sources
    BY <2>1 DEF LinkInv, Enciphered, Message
  <2>3. PICK f \in Frame : f = Arrived(m)
    BY <2>2, PipelineAssumption DEF TypeOK, Arrived, PortsAssumption
  <2>4. Xor(f).xored = ~f.xored /\ f.xored \in BOOLEAN
    BY DEF Xor, Frame
  <2>5. Xor(f).xored # f.xored
    BY <2>4
  <2> QED BY <2>1, <2>2, <2>3, <2>5
<1> QED BY <1>1, <1>2, <1>3, PipelineTypes, MessageInvariant, PTL
        DEF Spec, OnWhenRouting
=============================================================================
