---------------------------- MODULE ChunkHandoff ----------------------------
(***************************************************************************)
(* How a port's worker thread hands what it receives to the gateway        *)
(* thread.  tcp_server, udp_server and the server of source_tcpout.c share *)
(* the protocol: the worker receives into `buffer' without the lock,       *)
(* publishes cur_read and buffer_size under it and sleeps on `buffer_empty'*)
(* until the chunk is consumed; the gateway thread polls with has_more,    *)
(* which compares the two fields without the lock, and takes single bytes  *)
(* with read_byte under it.                                                *)
(*                                                                         *)
(* The unlocked comparison races with the worker's stores, so the compiler *)
(* and the processor may order the two stores, and the two loads, either   *)
(* way: each of them is a step of its own here, in both orders.  The       *)
(* critical sections of the gateway thread are single steps; the worker    *)
(* holds the lock in the states of Publishing.                             *)
(***************************************************************************)
EXTENDS Naturals, Sequences

CONSTANTS MaxChunk,     \* sizeof(buffer)
          StreamLen     \* bound: bytes received in all

ASSUME HandoffAssumption == MaxChunk \in Nat \ {0} /\ StreamLen \in Nat

VARIABLES
    wpc,          \* where the worker thread is
    cur_read, buffer_size, buffer,
    read,         \* the worker's local: what recv returned
    recvd,        \* history: how many bytes recv returned in all
    gpc,          \* where the gateway thread is, as far as this port goes
    seen,         \* the first of the two values has_more loaded
    got           \* history: the bytes read_byte returned, 0 if there was none

handoffVars == <<wpc, cur_read, buffer_size, buffer, read, recvd, gpc, seen, got>>
workerVars  == <<wpc, buffer, read, recvd>>

Indices == 0 .. MaxChunk - 1

\* "off": no thread; "recv": in recv or accept; "filled": waiting for the lock;
\* "locked", "setsize", "setcur", "check": in the critical section, before,
\* between and after the stores; "waiting": in cnd_wait; "woken": leaving it.
WorkerStates  == {"off", "recv", "filled", "locked", "setsize", "setcur", "check",
                  "waiting", "woken"}

\* "away": anywhere else; "size", "cur": in has_more, about to load that field
\* second; "signal": has_more found nothing; "read": in read_byte.
GatewayStates == {"away", "size", "cur", "signal", "read"}

\* Mutant of Publishing: the worker publishes without taking the lock.
NeverPublishing == FALSE

\* The worker owns the lock.
Publishing == wpc \in {"locked", "setsize", "setcur", "check"}

-----------------------------------------------------------------------------
HandoffInit ==
    /\ wpc = "off" /\ cur_read = 0 /\ buffer_size = 0
    /\ buffer = [x \in Indices |-> 0]
    /\ read = 0 /\ recvd = 0
    /\ gpc = "away" /\ seen = 0 /\ got = <<>>

\* thrd_create succeeded.
WorkerStart ==
    /\ wpc = "off" /\ gpc = "away"
    /\ wpc' = "recv"
    /\ UNCHANGED <<cur_read, buffer_size, buffer, read, recvd, gpc, seen, got>>

\* recv fills the buffer with its next n bytes; nothing protects it.
WorkerReceive ==
    /\ wpc = "recv"
    /\ \E n \in 1 .. MaxChunk :
         /\ recvd + n <= StreamLen
         /\ buffer' = [x \in Indices |-> IF x < n THEN recvd + x + 1 ELSE buffer[x]]
         /\ read' = n
         /\ recvd' = recvd + n
    /\ wpc' = "filled"
    /\ UNCHANGED <<cur_read, buffer_size, gpc, seen, got>>

WorkerLock ==
    /\ wpc = "filled"
    /\ wpc' = "locked"
    /\ UNCHANGED <<cur_read, buffer_size, buffer, read, recvd, gpc, seen, got>>

\* cur_read = 0 and buffer_size = read, one after the other.
StoreCurRead ==
    /\ wpc \in {"locked", "setcur"}
    /\ cur_read' = 0
    /\ wpc' = IF wpc = "locked" THEN "setsize" ELSE "check"
    /\ UNCHANGED <<buffer_size, buffer, read, recvd, gpc, seen, got>>

\* Mutant of StoreBufferSize: one byte too many.
StoreBufferSizePastEnd ==
    /\ wpc \in {"locked", "setsize"}
    /\ buffer_size' = read + 1
    /\ wpc' = IF wpc = "locked" THEN "setcur" ELSE "check"
    /\ UNCHANGED <<cur_read, buffer, read, recvd, gpc, seen, got>>

StoreBufferSize ==
    /\ wpc \in {"locked", "setsize"}
    /\ buffer_size' = read
    /\ wpc' = IF wpc = "locked" THEN "setcur" ELSE "check"
    /\ UNCHANGED <<cur_read, buffer, read, recvd, gpc, seen, got>>

\* Mutant of AfterTest: `if' for `while' around cnd_wait.
AfterTestOnce == IF wpc = "check" /\ cur_read < buffer_size THEN "waiting" ELSE "recv"

\* while (cur_read < buffer_size) cnd_wait(...): to sleep, or out of the loop.
AfterTest == IF cur_read < buffer_size THEN "waiting" ELSE "recv"

\* The loop condition, on entry and after each wake-up; either way the lock is
\* given back, by cnd_wait or by mtx_unlock.
WorkerTest ==
    /\ wpc \in {"check", "woken"}
    /\ wpc' = AfterTest
    /\ UNCHANGED <<cur_read, buffer_size, buffer, read, recvd, gpc, seen, got>>

\* cnd_wait may return without a signal.
SpuriousWakeup ==
    /\ wpc = "waiting"
    /\ wpc' = "woken"
    /\ UNCHANGED <<cur_read, buffer_size, buffer, read, recvd, gpc, seen, got>>
-----------------------------------------------------------------------------
\* has_more on a running port: the first of its two loads, without the lock.
HasMoreLoad ==
    /\ wpc # "off" /\ gpc = "away"
    /\ \/ seen' = cur_read /\ gpc' = "size"
       \/ seen' = buffer_size /\ gpc' = "cur"
    /\ UNCHANGED <<wpc, cur_read, buffer_size, buffer, read, recvd, got>>

\* Mutant of Unread: the last byte of a chunk is not seen.
UnreadButLast(c, n) == n > 0 /\ c + 1 < n

\* buffer_size > 0 && cur_read < buffer_size
Unread(c, n) == n > 0 /\ c < n

\* The second load, and the comparison.
HasMoreTest ==
    /\ \/ gpc = "size" /\ gpc' = IF Unread(seen, buffer_size) THEN "read" ELSE "signal"
       \/ gpc = "cur"  /\ gpc' = IF Unread(cur_read, seen)    THEN "read" ELSE "signal"
    /\ seen' = 0
    /\ UNCHANGED <<wpc, cur_read, buffer_size, buffer, read, recvd, got>>

\* Mutant of Signalled: no wake-up.
NotSignalled == wpc

\* cnd_signal wakes the worker if it sleeps and is lost if it does not.
Signalled == IF wpc = "waiting" THEN "woken" ELSE wpc

\* has_more found nothing: signal under the lock, and return 0.
HasMoreSignal ==
    /\ gpc = "signal" /\ ~Publishing
    /\ wpc' = Signalled
    /\ gpc' = "away"
    /\ UNCHANGED <<cur_read, buffer_size, buffer, read, recvd, seen, got>>

\* read_byte: the next byte or, when there is none although has_more said so, a
\* signal and a 0 that the parser takes for a byte of the stream.
ReadByte ==
    /\ gpc = "read" /\ ~Publishing
    /\ IF cur_read < buffer_size
       THEN /\ got' = Append(got, buffer[cur_read])
            /\ cur_read' = cur_read + 1
            /\ wpc' = wpc
       ELSE /\ got' = Append(got, 0)
            /\ cur_read' = cur_read
            /\ wpc' = Signalled
    /\ gpc' = "away"
    /\ UNCHANGED <<buffer_size, buffer, read, recvd, seen>>

WorkerSteps  == WorkerLock \/ StoreCurRead \/ StoreBufferSize \/ WorkerTest
GatewaySteps == HasMoreLoad \/ HasMoreTest \/ HasMoreSignal \/ ReadByte

HandoffNext == WorkerStart \/ WorkerReceive \/ WorkerSteps \/ SpuriousWakeup \/ GatewaySteps

\* The handoff by itself.  A port adds where the worker's bytes come from, and
\* what its threads are bound to do.
HandoffSpec == HandoffInit /\ [][HandoffNext]_handoffVars
-----------------------------------------------------------------------------
(***************************************************************************)
(* Properties.                                                             *)
(***************************************************************************)

\* The indices stay inside the buffer and the program counters in range.
HandoffTypeOK ==
    /\ wpc \in WorkerStates /\ gpc \in GatewayStates
    /\ cur_read \in 0 .. MaxChunk /\ buffer_size \in 0 .. MaxChunk
    /\ read \in 0 .. MaxChunk /\ seen \in 0 .. MaxChunk
    /\ buffer \in [Indices -> Nat]
    /\ recvd \in Nat
    /\ got \in Seq(Nat)

\* The chunk in the buffer holds the latest bytes of the stream; of it,
\* everything below cur_read has been handed over once it is published.
ChunkInv ==
    /\ wpc \in {"off", "recv"} =>
          cur_read >= buffer_size /\ Len(got) = recvd
    /\ wpc \in {"filled", "locked", "setsize", "setcur"} =>
          /\ read >= 1 /\ recvd = Len(got) + read
          /\ \A x \in 0 .. read - 1 : buffer[x] = Len(got) + x + 1
    /\ wpc \in {"filled", "locked"} => cur_read >= buffer_size
    /\ wpc = "setsize" => cur_read = 0
    /\ wpc = "setcur" => buffer_size = read
    /\ wpc \in {"check", "waiting", "woken"} =>
          /\ cur_read <= buffer_size
          /\ recvd + cur_read = Len(got) + buffer_size
          /\ \A x \in cur_read .. buffer_size - 1 :
                buffer[x] + cur_read = Len(got) + x + 1
    /\ wpc = "check" => cur_read = 0 /\ buffer_size >= 1

\* What an unlocked load has seen stays good enough: has_more answers yes only
\* if, whenever read_byte gets the lock, a byte is there.
Published == wpc \in {"check", "waiting", "woken"} /\ cur_read < buffer_size

RaceInv ==
    /\ gpc = "size" => wpc \in {"setsize", "setcur"} \/ Published \/ seen >= buffer_size
    /\ gpc = "cur" => wpc \in {"setsize", "setcur"} \/ Published \/ cur_read >= seen
    /\ gpc = "read" => wpc \in {"setsize", "setcur"} \/ Published
    /\ wpc = "off" => gpc = "away"

HandoffInv == ChunkInv /\ RaceInv

\* The handoff implements the abstract stream: the parser is given the received
\* bytes, each once and in order; no byte is lost to the unlocked receive, none
\* is read twice, and read_byte never makes one up for a has_more that was wrong.
Stream == INSTANCE ByteStream WITH received <- recvd, output <- got
ImplementsStream == Stream!Spec

\* As far as the gateway's time goes, the port is a SourcePort: the worker publishes
\* one chunk, and after that nothing until it has been woken with the chunk used up.
Resting == wpc \in {"check", "waiting"}
Port == INSTANCE SourcePort WITH
            unread <- IF Resting \/ wpc = "woken" THEN buffer_size - cur_read ELSE 0,
            worker <- IF Resting THEN "resting" ELSE IF wpc = "woken" THEN "called" ELSE "free"
ActsAsPort == Port!Spec
=============================================================================
