---------------------------- MODULE GatewayProofs ----------------------------
(***************************************************************************)
(* The gateway thread.  The bound on its visit to a socket port, for       *)
(* chunks of every size, rings of every size and any number of wake-ups    *)
(* without a signal: the strengthening counts what the port may still hand *)
(* out before its worker has to rest, i.e. the bytes that are ready, and   *)
(* one more chunk unless the worker rests already.  And the accounting it  *)
(* keeps of each source.                                                   *)
(***************************************************************************)
EXTENDS Gateway, PerfCounters, TLAPS

Types ==
    /\ kind \in Builds /\ at \in 0 .. MAX_SOURCES /\ pc \in {"test", "signal", "read", "push"}
    /\ unread \in [Sources -> Nat] /\ worker \in [Sources -> {"free", "resting", "called"}]
    /\ taken \in Nat /\ wakeups \in Nat

\* Where the thread is; between two passes no visit is under way.
Place ==
    /\ pc = "read" => at < MAX_SOURCES /\ unread[at] > 0
    /\ pc \in {"signal", "push"} => at < MAX_SOURCES
    /\ at = MAX_SOURCES => pc = "test" /\ taken = 0 /\ wakeups = 0

\* A socket port has one chunk at most, and none while its worker fetches one.
Chunks ==
    \A p \in Sources : kind[p] = "chunk" =>
        unread[p] <= MaxChunk /\ (worker[p] = "free" => unread[p] = 0)

\* What was read during this visit, with what is ready, leaves room for the chunk
\* that a worker who does not rest may still publish.
Budget ==
    at < MAX_SOURCES /\ kind[at] = "chunk" =>
        IF worker[at] = "resting" THEN taken + unread[at] <= (2 + wakeups) * MaxChunk
                                  ELSE taken + unread[at] <= (1 + wakeups) * MaxChunk

VisitInv == Types /\ Place /\ Chunks /\ Budget

\* A wake-up, or a chunk, more or less.
LEMMA Products ==
  ASSUME NEW w \in Nat
  PROVE  /\ (1 + w) * MaxChunk \in Nat /\ (2 + w) * MaxChunk \in Nat
         /\ (2 + w) * MaxChunk = (1 + w) * MaxChunk + MaxChunk
         /\ (1 + (w + 1)) * MaxChunk = (2 + w) * MaxChunk
         /\ (1 + 0) * MaxChunk = MaxChunk /\ (2 + 0) * MaxChunk = MaxChunk + MaxChunk
<1>1. MaxChunk \in Nat
  BY GatewayAssumption
<1>2. /\ (1 + w) * MaxChunk = MaxChunk + w * MaxChunk
      /\ (2 + w) * MaxChunk = MaxChunk + MaxChunk + w * MaxChunk
      /\ w * MaxChunk \in Nat
  BY <1>1
<1> QED BY <1>1, <1>2

\* A source the thread may be at.
LEMMA AtSource ==
  ASSUME Types, at < MAX_SOURCES
  PROVE  at \in Sources /\ at + 1 \in 0 .. MAX_SOURCES
  BY DEF Types, Sources, MAX_SOURCES

\* No byte is ready before the threads run.
LEMMA InitVisit == Init => VisitInv
<1> SUFFICES ASSUME Init PROVE VisitInv
  OBVIOUS
<1>1. Types
  BY DEF Init, Types, MAX_SOURCES
<1>2. Place /\ Chunks
  BY GatewayAssumption DEF Init, Place, Chunks, MAX_SOURCES
<1>3. Budget
  BY Products, AtSource, <1>1, GatewayAssumption DEF Init, Budget
<1> QED BY <1>1, <1>2, <1>3 DEF VisitInv

\* A chunk fits, since only a worker that does not rest publishes one.
LEMMA PublishVisit ==
  ASSUME VisitInv, NEW p \in Sources, Publish(p), UNCHANGED <<kind, gatewayVars>>
  PROVE  VisitInv'
<1> USE DEF VisitInv, gatewayVars
<1>1. PICK n \in 1 .. MaxChunk : unread' = [unread EXCEPT ![p] = n]
  BY DEF Publish
<1>2. /\ kind[p] = "chunk" /\ worker[p] = "free" /\ unread[p] = 0
      /\ worker' = [worker EXCEPT ![p] = "resting"]
      /\ UNCHANGED wakeups
      /\ MaxChunk \in Nat /\ n \in Nat /\ n > 0 /\ n <= MaxChunk
  BY <1>1, GatewayAssumption DEF Publish
<1>3. Types'
  BY <1>1, <1>2 DEF Types
<1>4. \A q \in Sources : /\ unread'[q] = IF q = p THEN n ELSE unread[q]
                         /\ worker'[q] = IF q = p THEN "resting" ELSE worker[q]
  BY <1>1, <1>2 DEF Types
<1>5. Place'
  BY <1>2, <1>4, AtSource DEF Place
<1>6. Chunks'
  BY <1>2, <1>4 DEF Chunks
<1>7. Budget'
  BY <1>2, <1>4, AtSource, Products DEF Budget, Types
<1> QED BY <1>3, <1>5, <1>6, <1>7

\* Resuming keeps a worker within what it may publish.
LEMMA ResumeVisit ==
  ASSUME VisitInv, NEW p \in Sources, Resume(p), UNCHANGED <<kind, gatewayVars>>
  PROVE  VisitInv'
<1> USE DEF VisitInv, gatewayVars
<1>1. /\ worker[p] = "called" /\ UNCHANGED <<unread, wakeups>>
      /\ worker' = [worker EXCEPT ![p] = IF unread[p] = 0 THEN "free" ELSE "resting"]
  BY DEF Resume
<1>2. Types'
  BY <1>1 DEF Types
<1>3. \A q \in Sources :
        worker'[q] = IF q = p THEN (IF unread[p] = 0 THEN "free" ELSE "resting") ELSE worker[q]
  BY <1>1 DEF Types
<1>4. Place' /\ Chunks'
  BY <1>1, <1>3 DEF Place, Chunks
<1>5. Budget'
  BY <1>1, <1>3, AtSource, Products, GatewayAssumption DEF Budget, Types
<1> QED BY <1>2, <1>4, <1>5

\* A wake-up without a signal allows one more chunk, and is counted.
LEMMA WakeupVisit ==
  ASSUME VisitInv, NEW p \in Sources, SpuriousWakeup(p), UNCHANGED <<kind, gatewayVars>>
  PROVE  VisitInv'
<1> USE DEF VisitInv, gatewayVars
<1>1. /\ worker[p] = "resting" /\ UNCHANGED unread
      /\ worker' = [worker EXCEPT ![p] = "called"]
      /\ wakeups' = IF p = at THEN wakeups + 1 ELSE wakeups
  BY DEF SpuriousWakeup
<1>2. Types'
  BY <1>1 DEF Types
<1>3. \A q \in Sources : worker'[q] = IF q = p THEN "called" ELSE worker[q]
  BY <1>1 DEF Types
<1>4. p # MAX_SOURCES
  BY DEF Sources, MAX_SOURCES
<1>5. Place' /\ Chunks'
  BY <1>1, <1>3, <1>4 DEF Place, Chunks
<1>6. Budget'
  BY <1>1, <1>3, AtSource, Products DEF Budget, Types
<1> QED BY <1>2, <1>5, <1>6

\* A serial port has no part in it.
LEMMA FillVisit ==
  ASSUME VisitInv, NEW p \in Sources, Fill(p), UNCHANGED <<kind, gatewayVars>>
  PROVE  VisitInv'
<1> USE DEF VisitInv, gatewayVars
<1>1. PICK n \in 1 .. MaxChunk :
        unread' = [unread EXCEPT ![p] = IF @ + n < RingSize THEN @ + n ELSE RingSize]
  BY DEF Fill
<1>2. /\ kind[p] = "ring" /\ UNCHANGED <<worker, wakeups>>
      /\ RingSize \in Nat \ {0} /\ n \in Nat /\ n > 0 /\ unread[p] \in Nat
  BY GatewayAssumption DEF Fill, Types
<1>3. Types'
  BY <1>1, <1>2 DEF Types
<1>4. \A q \in Sources : IF q = p THEN unread'[q] > 0 ELSE unread'[q] = unread[q]
  BY <1>1, <1>2 DEF Types
<1>5. Place'
  BY <1>2, <1>4, AtSource DEF Place
<1>6. Chunks' /\ Budget'
  BY <1>2, <1>4, AtSource DEF Chunks, Budget
<1> QED BY <1>3, <1>5, <1>6

\* The threads and devices of the ports.
LEMMA PortVisit ==
  ASSUME VisitInv, NEW p \in Sources, Port(p)
  PROVE  VisitInv'
  BY PublishVisit, ResumeVisit, WakeupVisit, FillVisit DEF Port

\* The next visit starts with nothing read, and one chunk ready at most.
LEMMA LeaveVisit ==
  ASSUME VisitInv, at < MAX_SOURCES, Leave, UNCHANGED <<kind, unread>>,
         worker' \in [Sources -> {"free", "resting", "called"}],
         \A q \in Sources : worker'[q] = worker[q] \/ worker'[q] = "called"
  PROVE  VisitInv'
<1> USE DEF VisitInv
<1>1. at' = at + 1 /\ pc' = "test" /\ taken' = 0 /\ wakeups' = 0
  BY DEF Leave
<1>2. Types'
  BY <1>1, AtSource DEF Types
<1>3. Place'
  BY <1>1 DEF Place
<1>4. Chunks'
  BY DEF Chunks
<1>5. Budget'
  <2>1. SUFFICES ASSUME at' < MAX_SOURCES, kind'[at'] = "chunk"
                 PROVE  unread'[at'] <= MaxChunk
    BY <1>1, <1>2, Products, GatewayAssumption DEF Budget, Types, Sources, MAX_SOURCES
  <2>2. at' \in Sources
    BY <1>2, <2>1 DEF Types, Sources, MAX_SOURCES
  <2> QED BY <2>1, <2>2 DEF Chunks
<1> QED BY <1>2, <1>3, <1>4, <1>5

\* The gateway thread's steps: has_more, the signal, read_byte, the next source.
LEMMA SpinVisit ==
  ASSUME VisitInv, Spin
  PROVE  VisitInv'
<1> USE DEF VisitInv
<1>1. CASE PassBy \/ FetchNothing
  BY <1>1, LeaveVisit DEF PassBy, FetchNothing, portVars, Types
<1>2. CASE HasMore \/ FindsNothing
  <2>1. UNCHANGED <<kind, at, taken, portVars, wakeups>> /\ at < MAX_SOURCES
    BY <1>2 DEF HasMore, FindsNothing
  <2>2. Types' /\ Place'
    BY <1>2, <2>1 DEF HasMore, FindsNothing, Types, Place, portVars
  <2>3. Chunks' /\ Budget'
    BY <2>1 DEF Chunks, Budget, portVars
  <2> QED BY <2>2, <2>3
<1>3. CASE Fetch
  <2>1. PICK n \in 1 .. MaxChunk : unread' = [unread EXCEPT ![at] = n]
    BY <1>3 DEF Fetch
  <2>2. /\ at < MAX_SOURCES /\ kind[at] = "polled" /\ pc' = "read"
        /\ UNCHANGED <<kind, at, taken, worker, wakeups>>
        /\ n \in Nat /\ n > 0 /\ at \in Sources
    BY <1>3, AtSource, GatewayAssumption DEF Fetch
  <2>3. Types'
    BY <2>1, <2>2 DEF Types
  <2>4. \A q \in Sources : unread'[q] = IF q = at THEN n ELSE unread[q]
    BY <2>1 DEF Types
  <2>5. Place'
    BY <2>2, <2>4 DEF Place, Sources, MAX_SOURCES
  <2>6. Chunks' /\ Budget'
    BY <2>2, <2>4 DEF Chunks, Budget
  <2> QED BY <2>3, <2>5, <2>6
<1>4. CASE Signal
  <2>1. at < MAX_SOURCES /\ at \in Sources
    BY <1>4, AtSource DEF Signal, Place
  <2>2. worker' = [worker EXCEPT ![at] = IF @ = "resting" THEN "called" ELSE @]
    BY <1>4 DEF Signal
  <2>3. /\ worker' \in [Sources -> {"free", "resting", "called"}]
        /\ \A q \in Sources : worker'[q] = worker[q] \/ worker'[q] = "called"
    BY <2>1, <2>2 DEF Types
  <2> QED BY <1>4, <2>1, <2>3, LeaveVisit DEF Signal
<1>5. CASE ReadByte
  <2>1. /\ at < MAX_SOURCES /\ at \in Sources /\ unread[at] \in Nat /\ unread[at] > 0
        /\ UNCHANGED <<kind, at, wakeups>> /\ pc' \in {"test", "push"}
    BY <1>5, AtSource DEF ReadByte, Place, Types
  <2>2. \A q \in Sources : /\ unread'[q] = IF q = at THEN unread[at] - 1 ELSE unread[q]
                           /\ worker'[q] = worker[q]
    BY <1>5, <2>1 DEF ReadByte, WorkerAfterRead, Types
  <2>3. taken' \in Nat /\ taken' <= taken + 1
    BY <1>5 DEF ReadByte, Types
  <2>4. Types'
    BY <1>5, <2>1, <2>3 DEF ReadByte, WorkerAfterRead, Types
  <2>5. Place'
    BY <2>1 DEF Place, Sources, MAX_SOURCES
  <2>6. Chunks'
    BY <2>1, <2>2, GatewayAssumption DEF Chunks, Types
  <2>7. taken' + unread'[at] <= taken + unread[at]
    BY <2>1, <2>2, <2>3 DEF Types
  <2>8. Budget'
    BY <2>1, <2>2, <2>3, <2>7, Products DEF Budget, Types
  <2> QED BY <2>4, <2>5, <2>6, <2>8
<1>6. CASE PassEnds
  <2>1. at' = 0 /\ UNCHANGED <<kind, pc, taken, portVars, wakeups>>
    BY <1>6 DEF PassEnds
  <2>2. Types' /\ Place' /\ Chunks'
    BY <1>6, <2>1 DEF PassEnds, Types, Place, Chunks, portVars, MAX_SOURCES
  <2>3. Budget'
    <3>1. taken' = 0 /\ wakeups' = 0
      BY <1>6, <2>1 DEF PassEnds, Place
    <3>2. 0 \in Sources
      BY DEF Sources, MAX_SOURCES
    <3> QED BY <2>1, <2>2, <3>1, <3>2, Products, GatewayAssumption DEF Budget, Chunks, Types, portVars
  <2> QED BY <2>2, <2>3
<1> QED BY <1>1, <1>2, <1>3, <1>4, <1>5, <1>6 DEF Spin

\* Nothing is read while a push lasts.
LEMMA PushVisit ==
  ASSUME VisitInv, PushReturns
  PROVE  VisitInv'
<1> USE DEF VisitInv, PushReturns, portVars
<1>1. Types' /\ Place'
  BY DEF Types, Place
<1>2. Chunks' /\ Budget'
  BY DEF Chunks, Budget
<1> QED BY <1>1, <1>2

\* Every step keeps the invariant.
LEMMA NextVisit ==
  ASSUME VisitInv, [Next]_vars
  PROVE  VisitInv'
<1>1. CASE UNCHANGED vars
  BY <1>1 DEF vars, gatewayVars, portVars, VisitInv, Types, Place, Chunks, Budget
<1> QED BY <1>1, SpinVisit, PushVisit, PortVisit DEF Next

\* What a port can still hand out is never more than the bound.
LEMMA VisitInvBounds == VisitInv => VisitBound
<1> SUFFICES ASSUME VisitInv PROVE VisitBound
  OBVIOUS
<1>1. /\ at < MAX_SOURCES /\ pc = "read" => unread[at] > 0
      /\ kind \in Builds /\ at \in 0 .. MAX_SOURCES /\ pc \in {"test", "signal", "read", "push"}
      /\ unread \in [Sources -> Nat] /\ worker \in [Sources -> {"free", "resting", "called"}]
  BY DEF VisitInv, Types, Place
<1>2. ASSUME at < MAX_SOURCES, kind[at] = "chunk"
      PROVE  taken <= (2 + wakeups) * MaxChunk
  <2>1. unread[at] \in Nat /\ taken \in Nat /\ wakeups \in Nat /\ MaxChunk \in Nat
    BY <1>2, AtSource, GatewayAssumption DEF VisitInv, Types
  <2>2. \/ taken + unread[at] <= (2 + wakeups) * MaxChunk
        \/ taken + unread[at] <= (1 + wakeups) * MaxChunk
    BY <1>2 DEF VisitInv, Budget
  <2> QED BY <2>1, <2>2, Products
<1> QED BY <1>1, <1>2 DEF VisitBound

\* The inductive invariant of a visit.
THEOREM VisitInvariant == Spec => []VisitInv
<1>1. VisitInv /\ [Next]_vars => VisitInv'
  BY NextVisit
<1> QED BY InitVisit, <1>1, PTL DEF Spec

\* pipeline_spin reads from a socket port two chunks at a visit, and one more for each
\* wake-up of its worker without a signal: no peer can keep it there by sending.
THEOREM VisitsBounded == Spec => []VisitBound
  BY VisitInvBounds, VisitInvariant, PTL

-----------------------------------------------------------------------------
\* What a step does to the socket port p.
PortStep(p) == kind[p] = "chunk" => [ChunkPort(p)!Next]_<<unread[p], worker[p]>>

\* The port's own threads.
LEMMA PortIsPort ==
  ASSUME VisitInv, NEW q \in Sources, Port(q), NEW p \in Sources
  PROVE  PortStep(p)
<1> SUFFICES ASSUME kind[p] = "chunk" PROVE [ChunkPort(p)!Next]_<<unread[p], worker[p]>>
  BY DEF PortStep
<1> USE DEF VisitInv, Types
<1>1. CASE p = q
  <2>1. CASE Publish(p)
    <3>1. PICK n \in 1 .. MaxChunk : unread' = [unread EXCEPT ![p] = n]
      BY <2>1 DEF Publish
    <3>2. /\ worker[p] = "free" /\ unread[p] = 0
          /\ worker'[p] = "resting" /\ unread'[p] = n
      BY <2>1, <3>1 DEF Publish
    <3>3. ChunkPort(p)!Publish
      BY <3>2 DEF ChunkPort!Publish
    <3> QED BY <3>3 DEF ChunkPort!Next
  <2>2. CASE Resume(p)
    <3>1. /\ worker[p] = "called" /\ unread'[p] = unread[p]
          /\ worker'[p] = IF unread[p] = 0 THEN "free" ELSE "resting"
      BY <2>2 DEF Resume
    <3>2. ChunkPort(p)!Resume
      BY <3>1 DEF ChunkPort!Resume
    <3> QED BY <3>2 DEF ChunkPort!Next
  <2>3. CASE SpuriousWakeup(p)
    <3>1. worker[p] = "resting" /\ worker'[p] = "called" /\ unread'[p] = unread[p]
      BY <2>3 DEF SpuriousWakeup
    <3>2. ChunkPort(p)!Call
      BY <3>1 DEF ChunkPort!Call
    <3> QED BY <3>2 DEF ChunkPort!Next
  <2> QED BY <1>1, <2>1, <2>2, <2>3 DEF Port, Fill
<1>2. CASE p # q
  <2>1. worker'[p] = worker[p]
    BY <1>2 DEF Port, Publish, Resume, SpuriousWakeup, Fill
  <2>2. unread'[p] = unread[p]
    BY <1>2 DEF Port, Publish, Resume, SpuriousWakeup, Fill
  <2> QED BY <2>1, <2>2
<1> QED BY <1>1, <1>2

\* The gateway thread: it reads a byte only where one is ready, and calls only by the
\* signal of a has_more that has found none.
LEMMA SpinIsPort ==
  ASSUME VisitInv, Spin, NEW p \in Sources
  PROVE  PortStep(p)
<1> SUFFICES ASSUME kind[p] = "chunk" PROVE [ChunkPort(p)!Next]_<<unread[p], worker[p]>>
  BY DEF PortStep
<1> USE DEF VisitInv, Types
<1>1. CASE PassBy \/ HasMore \/ FetchNothing \/ FindsNothing \/ PassEnds
  BY <1>1 DEF PassBy, HasMore, FetchNothing, FindsNothing, PassEnds, portVars
<1>2. CASE Fetch
  <2>1. p # at /\ at \in Sources /\ UNCHANGED worker
    BY <1>2, AtSource DEF Fetch
  <2>2. unread'[p] = unread[p]
    BY <1>2, <2>1 DEF Fetch
  <2> QED BY <2>1, <2>2
<1>3. CASE Signal
  <2>1. /\ at \in Sources /\ UNCHANGED unread
        /\ worker' = [worker EXCEPT ![at] = IF @ = "resting" THEN "called" ELSE @]
    BY <1>3, AtSource DEF Signal, Place
  <2>2. CASE p = at /\ worker[p] = "resting"
    <3>1. worker'[p] = "called" /\ unread'[p] = unread[p]
      BY <2>1, <2>2
    <3>2. ChunkPort(p)!Call
      BY <2>2, <3>1 DEF ChunkPort!Call
    <3> QED BY <3>2 DEF ChunkPort!Next
  <2>3. CASE ~(p = at /\ worker[p] = "resting")
    BY <2>1, <2>3
  <2> QED BY <2>2, <2>3
<1>4. CASE ReadByte
  <2>1. /\ at \in Sources /\ unread[at] > 0 /\ worker'[p] = worker[p]
        /\ unread' = [unread EXCEPT ![at] = @ - 1]
    BY <1>4, AtSource DEF ReadByte, WorkerAfterRead, Place
  <2>2. CASE p = at
    <3>1. ChunkPort(p)!Take
      BY <2>1, <2>2 DEF ChunkPort!Take
    <3> QED BY <3>1 DEF ChunkPort!Next
  <2>3. CASE p # at
    BY <2>1, <2>3
  <2> QED BY <2>2, <2>3
<1> QED BY <1>1, <1>2, <1>3, <1>4 DEF Spin

\* Whatever is hooked, each socket port is used as SourcePort allows.
LEMMA NextUsesPorts ==
  ASSUME VisitInv, [Next]_vars
  PROVE  \A p \in Sources : PortStep(p)
<1>1. CASE UNCHANGED vars
  BY <1>1 DEF vars, portVars, PortStep
<1>2. CASE PushReturns
  BY <1>2 DEF PushReturns, portVars, PortStep
<1> QED BY <1>1, <1>2, PortIsPort, SpinIsPort DEF Next

\* No byte is ready and no worker rests before the threads run.
LEMMA InitUsesPorts == Init => \A p \in Sources : ChunkPort(p)!Init
  BY DEF Init, ChunkPort!Init

\* The gateway thread and the ports' threads compose: together with TcpIsPort, UdpIsPort and
\* TcpoutIsPort this is what carries VisitBound from the abstract ports to the real ones.
THEOREM GatewayUsesPorts == Spec => UsesPorts
<1>1. VisitInv /\ [Next]_vars =>
        [\A p \in Sources : kind[p] = "chunk" => [ChunkPort(p)!Next]_<<unread[p], worker[p]>>]_vars
  BY NextUsesPorts DEF PortStep
<1> QED BY <1>1, VisitInvariant, InitUsesPorts, PTL DEF Spec, UsesPorts
-----------------------------------------------------------------------------
(***************************************************************************)
(* The accounting of one source: the drop count is exact for every range   *)
(* of sequence numbers and every history of losses shorter than it.        *)
(***************************************************************************)
\* The next number the autopilot sends is prev_seq + 1 and the burst further,
\* around the range: this is what makes a difference of two numbers a count.
InStep ==
    started => \/ prev_seq + 1 + burst = seq
               \/ prev_seq + 1 + burst = seq + SeqRange

\* Before the first frame of the autopilot nothing is counted, prev_seq is 0.
Fresh == ~started => drop_count = 0 /\ burst = 0 /\ lost = 0

PerfInv == PerfTypeOK /\ InStep /\ Fresh /\ DropsExact /\ burst <= lost /\ ReportsAddUp

\* perf_init.
LEMMA InitPerf == PerfInit => PerfInv
<1> SUFFICES ASSUME PerfInit PROVE PerfInv
    OBVIOUS
<1>1. 0 \in Seqs
    BY PerfAssumption DEF Seqs
<1>2. PerfTypeOK
    BY <1>1 DEF PerfInit, PerfTypeOK
<1>3. InStep /\ Fresh /\ DropsExact /\ burst <= lost /\ ReportsAddUp
    BY DEF PerfInit, InStep, Fresh, DropsExact, ReportsAddUp
<1> QED BY <1>2, <1>3 DEF PerfInv

\* The uint8_t of the autopilot stays one.
LEMMA NextSeqType ==
    ASSUME seq \in Seqs
    PROVE  NextSeq \in Seqs /\ (NextSeq = seq + 1 \/ NextSeq + SeqRange = seq + 1)
BY PerfAssumption DEF Seqs, NextSeq

\* perf_port_unit_update counts the burst that a frame ends, and nothing else.
LEMMA MissingIsBurst ==
    ASSUME PerfTypeOK, InStep
    PROVE  Missing(seq) \in Seqs /\ (started => Missing(seq) = burst)
<1>1. Missing(seq) \in Seqs
    BY PerfAssumption DEF PerfTypeOK, Missing, Seqs
<1>2. started => Missing(seq) = burst
    BY PerfAssumption DEF PerfTypeOK, InStep, Missing, Seqs
<1> QED BY <1>1, <1>2

\* Losses, frames and reports keep the invariant.
LEMMA NextPerf == PerfInv /\ [PerfNext]_perfVars => PerfInv'
<1> SUFFICES ASSUME PerfInv, [PerfNext]_perfVars PROVE PerfInv'
    OBVIOUS
<1> USE PerfAssumption
<1>1. CASE FrameLost
    BY <1>1, NextSeqType
    DEF FrameLost, PerfInv, PerfTypeOK, InStep, Fresh, DropsExact, ReportsAddUp, Seqs, unitVars
<1>2. CASE FrameComes
  <2>1. Missing(seq) \in Seqs /\ (started => Missing(seq) = burst)
      BY MissingIsBurst DEF PerfInv
  <2>2. NextSeq \in Seqs /\ (NextSeq = seq + 1 \/ NextSeq + SeqRange = seq + 1)
      BY NextSeqType DEF PerfInv, PerfTypeOK
  <2>3. PerfTypeOK' /\ InStep' /\ Fresh' /\ burst' <= lost' /\ ReportsAddUp'
      BY <1>2, <2>1, <2>2
      DEF FrameComes, PerfInv, PerfTypeOK, InStep, Fresh, ReportsAddUp, Seqs
  <2>4. DropsExact'
      BY <1>2, <2>1 DEF FrameComes, PerfInv, PerfTypeOK, Fresh, DropsExact, Seqs
  <2> QED BY <2>3, <2>4 DEF PerfInv
<1>3. CASE OtherFrameComes
    BY <1>3 DEF OtherFrameComes, PerfInv, PerfTypeOK, InStep, Fresh, DropsExact, ReportsAddUp, Seqs
<1>4. CASE Query
    BY <1>4 DEF Query, LastDrops, linkVars, PerfInv, PerfTypeOK, InStep, Fresh, DropsExact,
                ReportsAddUp, Seqs
<1>5. CASE UNCHANGED perfVars
    BY <1>5 DEF perfVars, unitVars, linkVars, PerfInv, PerfTypeOK, InStep, Fresh, DropsExact,
                ReportsAddUp, Seqs
<1> QED BY <1>1, <1>2, <1>3, <1>4, <1>5 DEF PerfNext

\* The inductive invariant of the accounting.
THEOREM PerfInvariant == PerfSpec => []PerfInv
BY InitPerf, NextPerf, PTL DEF PerfSpec

\* The drop count of perf_port_unit_update is exact for every range of numbers.
THEOREM PerfDropsExact == PerfSpec => []DropsExact
<1>1. PerfInv => DropsExact
    BY DEF PerfInv
<1> QED BY <1>1, PerfInvariant, PTL

\* The reports of perf_port_unit_query add up, however often it is called.
THEOREM PerfReports == PerfSpec => []ReportsAddUp
<1>1. PerfInv => ReportsAddUp
    BY DEF PerfInv
<1> QED BY <1>1, PerfInvariant, PTL

\* The counters and sequence numbers of perf_port_unit_t keep their types.
THEOREM PerfTypes == PerfSpec => []PerfTypeOK
<1>1. PerfInv => PerfTypeOK
    BY DEF PerfInv
<1> QED BY <1>1, PerfInvariant, PTL
=============================================================================
