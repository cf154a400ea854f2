------------------------- MODULE ChunkHandoffProofs -------------------------
(***************************************************************************)
(* ChunkHandoff, for buffers and streams of every length: its type         *)
(* invariant, the invariant of the chunk and of the race, and from them    *)
(* that it implements ByteStream and SourcePort.                           *)
(***************************************************************************)
EXTENDS ChunkHandoff, TLAPS

IndInv == HandoffTypeOK /\ ChunkInv /\ RaceInv

\* The state tcp_state_init leaves satisfies the invariant.
LEMMA InitIndInv == HandoffInit => IndInv
  BY HandoffAssumption
  DEF HandoffInit, IndInv, HandoffTypeOK, ChunkInv, RaceInv, Published, Indices,
      WorkerStates, GatewayStates

\* The worker's steps: it publishes only what it received, over a chunk that
\* has been consumed.
LEMMA WorkerIndInv ==
  ASSUME IndInv, WorkerStart \/ WorkerReceive \/ WorkerSteps \/ SpuriousWakeup
  PROVE  IndInv'
<1> USE HandoffAssumption
<1> USE DEF HandoffTypeOK, ChunkInv, RaceInv, Published, Indices, WorkerStates,
            GatewayStates
<1>1. CASE WorkerStart
  BY <1>1 DEF WorkerStart, IndInv
<1>2. CASE WorkerReceive
  <2>1. PICK n \in 1 .. MaxChunk :
          /\ buffer' = [x \in Indices |-> IF x < n THEN recvd + x + 1 ELSE buffer[x]]
          /\ read' = n /\ recvd' = recvd + n
    BY <1>2 DEF WorkerReceive
  <2>2. /\ wpc = "recv" /\ wpc' = "filled"
        /\ UNCHANGED <<cur_read, buffer_size, gpc, seen, got>>
    BY <1>2 DEF WorkerReceive
  <2>3. HandoffTypeOK'
    BY <2>1, <2>2 DEF IndInv
  <2>4. /\ cur_read >= buffer_size /\ Len(got) = recvd
        /\ Len(got) \in Nat /\ n \in Nat /\ n >= 1 /\ n <= MaxChunk
    BY <2>2 DEF IndInv
  <2>5. ASSUME NEW x \in 0 .. read' - 1
        PROVE  buffer'[x] = Len(got') + x + 1
    <3>1. x \in Nat /\ x < n /\ x \in Indices
      BY <2>1, <2>4
    <3>2. buffer'[x] = recvd + x + 1
      BY <2>1, <3>1
    <3> QED BY <2>2, <2>4, <3>2
  <2>7. read' >= 1 /\ recvd' = Len(got') + read' /\ cur_read' >= buffer_size'
    BY <2>1, <2>2, <2>4
  <2>8. ChunkInv'
    BY <2>2, <2>5, <2>7
  <2>6. RaceInv'
    BY <2>1, <2>2 DEF IndInv
  <2> QED BY <2>3, <2>6, <2>8 DEF IndInv
<1>3. CASE WorkerLock
  BY <1>3 DEF WorkerLock, IndInv
<1>4. CASE StoreCurRead
  <2>1. HandoffTypeOK'
    BY <1>4 DEF StoreCurRead, IndInv
  <2>2. ChunkInv'
    <3>1. /\ read >= 1 /\ recvd = Len(got) + read
          /\ \A x \in 0 .. read - 1 : buffer[x] = Len(got) + x + 1
      BY <1>4 DEF StoreCurRead, IndInv
    <3>2. cur_read' = 0 /\ UNCHANGED <<buffer_size, buffer, read, recvd, got>>
      BY <1>4 DEF StoreCurRead
    <3>3. Len(got) \in Nat /\ buffer_size \in Nat /\ recvd \in Nat /\ read \in Nat
      BY DEF IndInv
    <3>4. CASE wpc = "locked"
      BY <1>4, <3>1, <3>2, <3>4 DEF StoreCurRead
    <3>5. CASE wpc = "setcur"
      <4>1. wpc' = "check" /\ buffer_size = read
        BY <1>4, <3>5 DEF StoreCurRead, IndInv
      <4>2. ASSUME NEW x \in cur_read' .. buffer_size' - 1
            PROVE  buffer'[x] + cur_read' = Len(got') + x + 1
        <5>1. x \in 0 .. read - 1 /\ x \in Nat
          BY <3>2, <3>3, <4>1
        <5>2. buffer[x] = Len(got) + x + 1
          BY <3>1, <5>1
        <5> QED BY <3>2, <3>3, <5>1, <5>2
      <4>3. recvd' + cur_read' = Len(got') + buffer_size' /\ buffer_size' >= 1
        BY <3>1, <3>2, <3>3, <4>1
      <4> QED BY <3>2, <3>3, <4>1, <4>2, <4>3
    <3> QED BY <1>4, <3>4, <3>5 DEF StoreCurRead
  <2>3. RaceInv'
    BY <1>4 DEF StoreCurRead, IndInv
  <2> QED BY <2>1, <2>2, <2>3 DEF IndInv
<1>5. CASE StoreBufferSize
  <2>1. HandoffTypeOK'
    BY <1>5 DEF StoreBufferSize, IndInv
  <2>2. ChunkInv'
    BY <1>5 DEF StoreBufferSize, IndInv
  <2>3. RaceInv'
    BY <1>5 DEF StoreBufferSize, IndInv
  <2> QED BY <2>1, <2>2, <2>3 DEF IndInv
<1>6. CASE WorkerTest
  BY <1>6 DEF WorkerTest, AfterTest, IndInv
<1>7. CASE SpuriousWakeup
  BY <1>7 DEF SpuriousWakeup, IndInv
<1> QED BY <1>1, <1>2, <1>3, <1>4, <1>5, <1>6, <1>7 DEF WorkerSteps

\* The gateway thread's steps: what it loaded without the lock still supports
\* its answer when it gets the lock.
LEMMA GatewayIndInv ==
  ASSUME IndInv, GatewaySteps
  PROVE  IndInv'
<1> USE HandoffAssumption
<1> USE DEF HandoffTypeOK, ChunkInv, RaceInv, Published, Indices, WorkerStates,
            GatewayStates
<1>1. CASE HasMoreLoad
  BY <1>1 DEF HasMoreLoad, IndInv
<1>2. CASE HasMoreTest
  BY <1>2 DEF HasMoreTest, Unread, IndInv
<1>3. CASE HasMoreSignal
  BY <1>3 DEF HasMoreSignal, Signalled, IndInv
<1>4. CASE ReadByte
  <2>1. Published /\ gpc = "read" /\ wpc # "check"
    BY <1>4 DEF ReadByte, Publishing, IndInv
  <2>2. /\ cur_read' = cur_read + 1 /\ gpc' = "away"
        /\ UNCHANGED <<wpc, buffer_size, buffer, read, recvd, seen>>
    BY <1>4, <2>1 DEF ReadByte
  <2>3. got' = Append(got, buffer[cur_read])
    BY <1>4, <2>1 DEF ReadByte
  <2>4. buffer[cur_read] \in Nat /\ Len(got) \in Nat
    BY <2>1 DEF IndInv
  <2>5. got' \in Seq(Nat) /\ Len(got') = Len(got) + 1
    BY <2>3, <2>4 DEF IndInv
  <2>6. HandoffTypeOK'
    BY <2>1, <2>2, <2>5 DEF IndInv
  <2>7. /\ cur_read \in Nat /\ buffer_size \in Nat /\ recvd \in Nat
        /\ cur_read < buffer_size /\ buffer_size <= MaxChunk
        /\ recvd + cur_read = Len(got) + buffer_size
        /\ \A x \in cur_read .. buffer_size - 1 : buffer[x] + cur_read = Len(got) + x + 1
    BY <2>1 DEF IndInv
  <2>8. ASSUME NEW x \in cur_read' .. buffer_size' - 1
        PROVE  buffer'[x] + cur_read' = Len(got') + x + 1
    <3>1. x \in cur_read .. buffer_size - 1 /\ x \in Indices /\ x \in Nat
      BY <2>2, <2>7
    <3>2. buffer[x] + cur_read = Len(got) + x + 1 /\ buffer[x] \in Nat
      BY <2>7, <3>1 DEF IndInv
    <3>3. buffer'[x] = buffer[x]
      BY <2>2
    <3>4. buffer[x] + (cur_read + 1) = (Len(got) + 1) + x + 1
      BY <2>4, <2>7, <3>1, <3>2
    <3> QED BY <2>2, <2>5, <3>3, <3>4
  <2>9. wpc' \in {"check", "waiting", "woken"} /\ wpc' # "check"
    BY <2>1, <2>2
  <2>10. /\ cur_read' <= buffer_size'
         /\ recvd' + cur_read' = Len(got') + buffer_size'
    BY <2>2, <2>4, <2>5, <2>7
  <2>11. ChunkInv'
    BY <2>8, <2>9, <2>10
  <2>12. RaceInv'
    BY <2>1, <2>2 DEF IndInv
  <2> QED BY <2>6, <2>11, <2>12 DEF IndInv
<1> QED BY <1>1, <1>2, <1>3, <1>4 DEF GatewaySteps

\* A step of neither thread changes nothing.
LEMMA StutterIndInv ==
  ASSUME IndInv, UNCHANGED handoffVars
  PROVE  IndInv'
  BY DEF IndInv, handoffVars, HandoffTypeOK, ChunkInv, RaceInv, Published, Indices

\* Every step of the worker and of the gateway thread keeps the invariant.
LEMMA NextIndInv ==
  ASSUME IndInv, [HandoffNext]_handoffVars
  PROVE  IndInv'
  BY WorkerIndInv, GatewayIndInv, StutterIndInv DEF HandoffNext

\* The inductive invariant of tcp_server, has_more and read_byte.
THEOREM IndInvariant == HandoffSpec => []IndInv
<1>1. IndInv /\ [HandoffNext]_handoffVars => IndInv'
  BY NextIndInv
<1> QED BY InitIndInv, <1>1, PTL DEF HandoffSpec

\* The indices of the shared buffer never leave it (tcp->buffer[cur_read]).
THEOREM HandoffTypes == HandoffSpec => []HandoffTypeOK
<1>1. IndInv => HandoffTypeOK
  BY DEF IndInv
<1> QED BY IndInvariant, <1>1, PTL

\* The chunk in the buffer is always the unread end of the stream, and the
\* lock-free comparison of has_more never leads read_byte astray.
THEOREM HandoffInvariant == HandoffSpec => []HandoffInv
<1>1. IndInv => HandoffInv
  BY DEF IndInv, HandoffInv
<1> QED BY IndInvariant, <1>1, PTL

-----------------------------------------------------------------------------
\* tcp_state_init: nothing received, nothing read.
LEMMA InitRefines == HandoffInit => Stream!Init
  BY DEF HandoffInit, Stream!Init

\* recv is the abstract Receive, read_byte the abstract Deliver; the rest of
\* the protocol is invisible.
LEMMA NextRefines ==
  ASSUME IndInv, [HandoffNext]_handoffVars
  PROVE  [Stream!Next]_(Stream!vars)
<1> USE HandoffAssumption
<1> USE DEF Stream!Next, Stream!vars
<1>1. CASE WorkerReceive
  <2>1. Stream!Receive
    BY <1>1 DEF WorkerReceive, Stream!Receive, IndInv, ChunkInv
  <2> QED BY <2>1
<1>2. CASE ReadByte
  <2>1. Published
    BY <1>2 DEF ReadByte, Publishing, IndInv, RaceInv
  <2>2. got' = Append(got, buffer[cur_read]) /\ UNCHANGED recvd
    BY <1>2, <2>1 DEF ReadByte, Published
  <2>3. /\ cur_read \in Nat /\ buffer_size \in Nat /\ recvd \in Nat
        /\ Len(got) \in Nat /\ buffer[cur_read] \in Nat
    BY <2>1 DEF Published, IndInv, HandoffTypeOK, Indices
  <2>4. Len(got) < recvd /\ buffer[cur_read] = Len(got) + 1
    BY <2>1, <2>3 DEF Published, IndInv, ChunkInv
  <2>5. Stream!Deliver
    BY <2>2, <2>4 DEF Stream!Deliver
  <2> QED BY <2>5
<1>3. CASE UNCHANGED <<recvd, got>>
  BY <1>3
<1>4. WorkerReceive \/ ReadByte \/ UNCHANGED <<recvd, got>>
  BY DEF HandoffNext, handoffVars, WorkerSteps, GatewaySteps, WorkerStart, WorkerLock,
         StoreCurRead, StoreBufferSize, WorkerTest, SpuriousWakeup, HasMoreLoad,
         HasMoreTest, HasMoreSignal
<1> QED BY <1>1, <1>2, <1>3, <1>4

\* What the worker receives is what the parser is given: the handoff of
\* tcp_server, tcp_has_more_mt and tcp_read_byte_mt implements ByteStream.
THEOREM HandoffRefines == HandoffSpec => ImplementsStream
<1>1. IndInv /\ [HandoffNext]_handoffVars => [Stream!Next]_(Stream!vars)
  BY NextRefines
<1> QED BY IndInvariant, InitRefines, <1>1, PTL
    DEF HandoffSpec, ImplementsStream, Stream!Spec

-----------------------------------------------------------------------------
\* A port without a thread has nothing ready.
LEMMA InitIsPort == HandoffInit => Port!Init
  BY DEF HandoffInit, Port!Init, Resting

\* The second of the two stores publishes the chunk, whichever it is.
LEMMA StoresArePort ==
  ASSUME IndInv, StoreCurRead \/ StoreBufferSize
  PROVE  [Port!Next]_(Port!vars)
<1> USE HandoffAssumption
<1>1. CASE wpc = "locked"
  BY <1>1 DEF StoreCurRead, StoreBufferSize, Port!vars, Resting
<1>2. CASE wpc # "locked"
  <2>1. /\ wpc \in {"setcur", "setsize"} /\ wpc' = "check"
        /\ cur_read' = 0 /\ buffer_size' = read
    BY <1>2 DEF StoreCurRead, StoreBufferSize, IndInv, ChunkInv
  <2>2. read \in 1 .. MaxChunk
    BY <2>1 DEF IndInv, ChunkInv, HandoffTypeOK
  <2>3. buffer_size' - cur_read' \in 1 .. MaxChunk
    BY <2>1, <2>2
  <2>4. Port!Publish
    BY <2>1, <2>3 DEF Port!Publish, Resting
  <2> QED BY <2>4 DEF Port!Next
<1> QED BY <1>1, <1>2

\* The worker goes on when it was woken and the chunk is used up, and not before.
LEMMA TestIsPort ==
  ASSUME IndInv, WorkerTest
  PROVE  [Port!Next]_(Port!vars)
<1>1. cur_read \in Nat /\ buffer_size \in Nat /\ cur_read <= buffer_size
  BY HandoffAssumption DEF WorkerTest, IndInv, ChunkInv, HandoffTypeOK
<1>2. CASE wpc = "check"
  <2>1. wpc' = "waiting" /\ UNCHANGED <<cur_read, buffer_size>>
    BY <1>2, <1>1 DEF WorkerTest, AfterTest, IndInv, ChunkInv
  <2> QED BY <1>2, <2>1 DEF Port!vars, Resting
<1>3. CASE wpc = "woken"
  <2>1. UNCHANGED <<cur_read, buffer_size>>
    BY DEF WorkerTest
  <2>2. CASE cur_read < buffer_size
    <3>1. wpc' = "waiting" /\ buffer_size - cur_read # 0
      BY <1>1, <2>2 DEF WorkerTest, AfterTest
    <3>2. Port!Resume
      BY <1>3, <2>1, <3>1 DEF Port!Resume, Resting
    <3> QED BY <3>2 DEF Port!Next
  <2>3. CASE ~(cur_read < buffer_size)
    <3>1. wpc' = "recv" /\ buffer_size - cur_read = 0
      BY <1>1, <2>3 DEF WorkerTest, AfterTest
    <3>2. Port!Resume
      BY <1>3, <3>1 DEF Port!Resume, Resting
    <3> QED BY <3>2 DEF Port!Next
  <2> QED BY <2>2, <2>3
<1> QED BY <1>2, <1>3 DEF WorkerTest

\* A signal that finds the worker asleep, or a wake-up without one, calls it.
LEMMA SignalIsPort ==
  ASSUME HasMoreSignal \/ SpuriousWakeup
  PROVE  [Port!Next]_(Port!vars)
<1>1. UNCHANGED <<cur_read, buffer_size>>
  BY DEF HasMoreSignal, SpuriousWakeup
<1>2. CASE wpc = "waiting"
  <2>1. wpc' = "woken"
    BY <1>2 DEF HasMoreSignal, SpuriousWakeup, Signalled
  <2>2. Port!Call
    BY <1>1, <1>2, <2>1 DEF Port!Call, Resting
  <2> QED BY <2>2 DEF Port!Next
<1>3. CASE wpc # "waiting"
  <2>1. UNCHANGED wpc
    BY <1>3 DEF HasMoreSignal, SpuriousWakeup, Signalled
  <2> QED BY <1>1, <2>1 DEF Port!vars, Resting
<1> QED BY <1>2, <1>3

\* read_byte takes one byte of what is ready and leaves the worker alone.
LEMMA ReadIsPort ==
  ASSUME IndInv, ReadByte
  PROVE  [Port!Next]_(Port!vars)
<1>1. Published /\ wpc # "check"
  BY DEF ReadByte, Publishing, IndInv, RaceInv
<1>2. cur_read' = cur_read + 1 /\ UNCHANGED <<wpc, buffer_size>>
  BY <1>1 DEF ReadByte, Published
<1>3. cur_read \in Nat /\ buffer_size \in Nat /\ cur_read < buffer_size
  BY <1>1, HandoffAssumption DEF Published, IndInv, HandoffTypeOK
<1>4. /\ buffer_size - cur_read > 0
      /\ buffer_size - (cur_read + 1) = (buffer_size - cur_read) - 1
  BY <1>3
<1>5. Port!Take
  BY <1>1, <1>2, <1>4 DEF Port!Take, Published, Resting
<1> QED BY <1>5 DEF Port!Next

\* A step of either thread, or of neither, is a step of the SourcePort.
LEMMA NextIsPort ==
  ASSUME IndInv, [HandoffNext]_handoffVars
  PROVE  [Port!Next]_(Port!vars)
<1>1. CASE WorkerStart \/ WorkerReceive \/ WorkerLock
  BY <1>1 DEF WorkerStart, WorkerReceive, WorkerLock, Port!vars, Resting
<1>2. CASE HasMoreLoad \/ HasMoreTest \/ UNCHANGED handoffVars
  BY <1>2 DEF HasMoreLoad, HasMoreTest, handoffVars, Port!vars, Resting
<1> QED BY <1>1, <1>2, StoresArePort, TestIsPort, SignalIsPort, ReadIsPort
        DEF HandoffNext, WorkerSteps, GatewaySteps

\* Between two chunks the worker rests until it is called with the chunk used up:
\* what the gateway thread's fairness to the other ports rests on (Gateway).
THEOREM HandoffIsPort == HandoffSpec => ActsAsPort
<1>1. IndInv /\ [HandoffNext]_handoffVars => [Port!Next]_(Port!vars)
  BY NextIsPort
<1> QED BY IndInvariant, InitIsPort, <1>1, PTL
    DEF HandoffSpec, ActsAsPort, Port!Spec

-----------------------------------------------------------------------------
\* What the parser has been given so far: the stream from its start, without a gap.
StreamPrefix == Len(got) <= recvd /\ \A x \in 1 .. Len(got) : got[x] = x

\* A delivery is the next byte of the stream.
LEMMA NextPrefix ==
  ASSUME IndInv, StreamPrefix, [HandoffNext]_handoffVars
  PROVE  StreamPrefix'
<1>1. got \in Seq(Nat) /\ recvd \in Nat /\ Len(got) \in Nat
  BY DEF IndInv, HandoffTypeOK
<1>2. [Stream!Next]_(Stream!vars)
  BY NextRefines
<1>3. CASE Stream!Receive
  <2>1. UNCHANGED got /\ recvd' \in Nat /\ recvd' >= recvd
    BY <1>1, <1>3, HandoffAssumption DEF Stream!Receive
  <2> QED BY <1>1, <2>1 DEF StreamPrefix
<1>4. CASE Stream!Deliver
  <2>1. got' = Append(got, Len(got) + 1) /\ recvd' = recvd /\ Len(got) < recvd
    BY <1>4 DEF Stream!Deliver
  <2>2. /\ Len(got') = Len(got) + 1
        /\ \A x \in 1 .. Len(got') : got'[x] = IF x = Len(got) + 1 THEN x ELSE got[x]
    BY <1>1, <2>1
  <2> QED BY <1>1, <2>1, <2>2 DEF StreamPrefix
<1>5. CASE UNCHANGED Stream!vars
  BY <1>5 DEF Stream!vars, StreamPrefix
<1> QED BY <1>2, <1>3, <1>4, <1>5 DEF Stream!Next

\* Byte for byte: the n-th byte that tcp_read_byte_mt returned is the n-th that recv stored.
THEOREM HandoffDelivers == HandoffSpec => []StreamPrefix
<1>1. HandoffInit => StreamPrefix
  BY DEF HandoffInit, StreamPrefix
<1>2. IndInv /\ StreamPrefix /\ [HandoffNext]_handoffVars => StreamPrefix'
  BY NextPrefix
<1> QED BY IndInvariant, <1>1, <1>2, PTL DEF HandoffSpec
=============================================================================
