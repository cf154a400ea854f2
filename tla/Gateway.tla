------------------------------ MODULE Gateway ------------------------------
(***************************************************************************)
(* The gateway thread's time: pipeline_spin stays at a source for as long  *)
(* as has_more says yes, so a source that is never found empty keeps every *)
(* other source, and the console, from being looked at.  The sources come  *)
(* in three kinds:                                                         *)
(*   "chunk"   a socket port, whose worker rests after each chunk until    *)
(*             has_more has found nothing (SourcePort, which ChunkHandoff  *)
(*             implements);                                                *)
(*   "ring"    the serial port, whose worker fills the ring meanwhile;     *)
(*   "polled"  the CertiKOS ports (source_partee.c,                        *)
(*             source_thinros_certikos.c, source_certikos_uart.c), which   *)
(*             have no thread: has_more itself fetches the next message.   *)
(* Bytes are only counted; what becomes of them is Pipeline's subject.     *)
(* But the sinks are called from the same loop, and send waits for as long *)
(* as the peer of a TCP port does not read: a push may never return.       *)
(***************************************************************************)
EXTENDS Ports

CONSTANTS Builds,       \* the kinds of the hooked sources, [Sources -> Kinds]
          MaxChunk,     \* the most bytes one receive or message has
          RingSize,     \* the bytes the ring of a serial port takes
          MaxWakeups    \* bound: wake-ups without a signal during one visit

Kinds == {"none", "chunk", "ring", "polled"}

ASSUME GatewayAssumption ==
    /\ Builds \subseteq [Sources -> Kinds]
    /\ MaxChunk \in Nat \ {0} /\ RingSize \in Nat \ {0} /\ MaxWakeups \in Nat

VARIABLES
    kind,         \* what is hooked; never changes
    at,           \* the source pipeline_spin is at; MAX_SOURCES: past them all
    pc,           \* "test": before has_more; "signal": it has found nothing;
                  \* "read": it has found something; "push": in a sink's route
    unread,       \* the bytes each port has ready
    worker,       \* the worker of each "chunk" port
    taken,        \* history: the bytes read during this visit, up to Most + 1
    wakeups       \* history: the wake-ups of its worker without a signal meanwhile

gatewayVars == <<at, pc, taken>>
portVars    == <<unread, worker>>
vars == <<kind, gatewayVars, portVars, wakeups>>

\* More than a visit to a socket port can ever take.
Most == (2 + MaxWakeups) * MaxChunk

Init ==
    /\ kind \in Builds
    /\ at = 0 /\ pc = "test" /\ taken = 0 /\ wakeups = 0
    /\ unread = [p \in Sources |-> 0]
    /\ worker = [p \in Sources |-> "free"]

(***************************************************************************)
(* The ports' threads and devices.                                         *)
(***************************************************************************)
\* The worker of a socket port: SourcePort's Publish, Resume, and Call.
Publish(p) ==
    /\ kind[p] = "chunk" /\ worker[p] = "free" /\ unread[p] = 0
    /\ \E n \in 1 .. MaxChunk : unread' = [unread EXCEPT ![p] = n]
    /\ worker' = [worker EXCEPT ![p] = "resting"]
    /\ UNCHANGED wakeups

Resume(p) ==
    /\ worker[p] = "called"
    /\ worker' = [worker EXCEPT ![p] = IF unread[p] = 0 THEN "free" ELSE "resting"]
    /\ UNCHANGED <<unread, wakeups>>

SpuriousWakeup(p) ==
    /\ worker[p] = "resting"
    /\ p = at => wakeups < MaxWakeups
    /\ worker' = [worker EXCEPT ![p] = "called"]
    /\ wakeups' = IF p = at THEN wakeups + 1 ELSE wakeups
    /\ UNCHANGED unread

\* uart_server reads when there is room; what does not fit costs unread bytes.
Fill(p) ==
    /\ kind[p] = "ring" /\ unread[p] < RingSize
    /\ \E n \in 1 .. MaxChunk :
         unread' = [unread EXCEPT ![p] = IF @ + n < RingSize THEN @ + n ELSE RingSize]
    /\ UNCHANGED <<worker, wakeups>>

Port(p) == (Publish(p) \/ Resume(p) \/ SpuriousWakeup(p) \/ Fill(p)) /\ UNCHANGED <<kind, gatewayVars>>

(***************************************************************************)
(* The gateway thread.                                                     *)
(***************************************************************************)
\* On to the next source.
Leave ==
    /\ at' = at + 1 /\ pc' = "test" /\ taken' = 0 /\ wakeups' = 0

\* No such source, or has_more of a port without a worker found nothing.
PassBy ==
    /\ pc = "test" /\ at < MAX_SOURCES
    /\ kind[at] \in {"none", "ring"} /\ unread[at] = 0
    /\ Leave
    /\ UNCHANGED <<kind, portVars>>

\* has_more says yes.
HasMore ==
    /\ pc = "test" /\ at < MAX_SOURCES
    /\ unread[at] > 0
    /\ pc' = "read"
    /\ UNCHANGED <<kind, at, taken, portVars, wakeups>>

\* has_more of a CertiKOS port whose message is used up asks for the next one:
\* partee_topic_read, ros_spin_one_message and its callback, or reads.
Fetch ==
    /\ pc = "test" /\ at < MAX_SOURCES
    /\ kind[at] = "polled" /\ unread[at] = 0
    /\ \E n \in 1 .. MaxChunk : unread' = [unread EXCEPT ![at] = n]
    /\ pc' = "read"
    /\ UNCHANGED <<kind, at, taken, worker, wakeups>>

FetchNothing ==
    /\ pc = "test" /\ at < MAX_SOURCES
    /\ kind[at] = "polled" /\ unread[at] = 0
    /\ Leave
    /\ UNCHANGED <<kind, portVars>>

\* has_more of a socket port compares without the lock ...
FindsNothing ==
    /\ pc = "test" /\ at < MAX_SOURCES
    /\ kind[at] = "chunk" /\ unread[at] = 0
    /\ pc' = "signal"
    /\ UNCHANGED <<kind, at, taken, portVars, wakeups>>

\* ... and signals with it: the worker may have published a chunk in between.
Signal ==
    /\ pc = "signal"
    /\ worker' = [worker EXCEPT ![at] = IF @ = "resting" THEN "called" ELSE @]
    /\ Leave
    /\ UNCHANGED <<kind, unread>>

\* Mutant of WorkerAfterRead: the read of the last byte wakes the worker.
CalledByLastByte(p) == IF worker[p] = "resting" /\ unread[p] = 1 THEN "called" ELSE worker[p]

\* A read_byte that has a byte leaves the worker of a socket port alone.
WorkerAfterRead(p) == worker[p]

\* read_byte, and the parser, for which the byte may complete a frame to push.
ReadByte ==
    /\ pc = "read"
    /\ unread' = [unread EXCEPT ![at] = @ - 1]
    /\ worker' = [worker EXCEPT ![at] = WorkerAfterRead(at)]
    /\ taken' = IF taken > Most THEN taken ELSE taken + 1
    /\ pc' \in {"test", "push"}
    /\ UNCHANGED <<kind, at, wakeups>>

\* pipeline_push is done with the frame: route, inspection, and every sink's route.
PushReturns ==
    /\ pc = "push"
    /\ pc' = "test"
    /\ UNCHANGED <<kind, at, taken, portVars, wakeups>>

\* The end of a pass: the console, and main's loop.
PassEnds ==
    /\ at = MAX_SOURCES
    /\ at' = 0
    /\ UNCHANGED <<kind, pc, taken, portVars, wakeups>>

\* What the thread does without waiting for a peer.
Spin == \/ PassBy \/ HasMore \/ Fetch \/ FetchNothing \/ FindsNothing \/ Signal
        \/ ReadByte \/ PassEnds

Next == Spin \/ PushReturns \/ \E p \in Sources : Port(p)

\* The threads run; nothing obliges a peer to send, nor to read, which is why there is
\* no fairness of PushReturns.
Spec == /\ Init /\ [][Next]_vars /\ WF_vars(Spin)
        /\ \A p \in Sources : WF_vars(Resume(p) /\ UNCHANGED <<kind, gatewayVars>>)
-----------------------------------------------------------------------------
(***************************************************************************)
(* Properties.                                                             *)
(***************************************************************************)

\* Types; and a visit to a socket port is short whatever its peer sends: two chunks,
\* one that was there and one whose worker had been called before, and one more for
\* each wake-up without a signal.
VisitBound ==
    /\ kind \in Builds /\ at \in 0 .. MAX_SOURCES /\ pc \in {"test", "signal", "read", "push"}
    /\ unread \in [Sources -> Nat] /\ worker \in [Sources -> {"free", "resting", "called"}]
    /\ at < MAX_SOURCES /\ pc = "read" => unread[at] > 0
    /\ at < MAX_SOURCES /\ kind[at] = "chunk" => taken <= (2 + wakeups) * MaxChunk

\* What the code lets keep the thread: a serial or CertiKOS port that is never found
\* empty, and a push in which send waits for a peer that does not read.
Held(p) == at = p /\ kind[p] \in {"ring", "polled"}
Blocked == pc = "push"
Kept    == <>[]Blocked \/ \E q \in Sources : <>[]Held(q)

\* The gateway thread looks at every source, and at the console, again and again,
\* unless it is kept for ever by one push or at one serial or CertiKOS port: no socket
\* port keeps it by what its peer sends.
NotStarved == \A p \in 0 .. MAX_SOURCES : []<>(at = p) \/ Kept

\* What a socket port has ready is read, unless the thread is kept for ever.
SocketsServed ==
    \A p \in Sources :
        [](unread[p] > 0 /\ kind[p] = "chunk" => <>(unread[p] = 0)) \/ Kept

\* The gateway thread, and the ports around it, do nothing to a socket port that it is
\* not made for: each is at every step the abstract port its handoff implements.
ChunkPort(p) == INSTANCE SourcePort WITH unread <- unread[p], worker <- worker[p]
UsesPorts ==
    /\ \A p \in Sources : ChunkPort(p)!Init
    /\ [][\A p \in Sources :
            kind[p] = "chunk" => [ChunkPort(p)!Next]_<<unread[p], worker[p]>>]_vars
=============================================================================
