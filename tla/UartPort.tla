------------------------------ MODULE UartPort ------------------------------
(***************************************************************************)
(* The serial port (source_uart.c), the vehicle's port in main.c.  Its     *)
(* worker thread reads from the device and copies what it got into a ring, *)
(* under the lock; the gateway thread polls and pops single bytes, under   *)
(* the lock, and packs replies into output_buffer, without it.  The ring   *)
(* is initialized over that same output_buffer, so the two threads work on *)
(* one array: its bytes are stored one at a time here, in any order the    *)
(* threads come to it.                                                     *)
(*                                                                         *)
(* Bytes are numbered in the order in which the device sent them; a 0 is a *)
(* byte of a reply.  Descriptors that a failed initialization leaves open  *)
(* are not counted.                                                        *)
(***************************************************************************)
EXTENDS RingBuffer

CONSTANTS InputSize,    \* sizeof(uart_input)
          FrameLen,     \* the length of a packed reply
          StreamLen     \* bound: bytes the device sends in all

ASSUME UartAssumption ==
    /\ InputSize \in Nat \ {0} /\ StreamLen \in Nat
    /\ FrameLen \in Nat /\ FrameLen <= RingSize

VARIABLES
    initialized,
    wpc,        \* where the worker thread is
    recvd,      \* history: how many bytes read returned in all
    left,       \* those of them that are still to be copied, bytes_read - i
    ring,       \* input_buffer, with the array it lives in
    gpc,        \* where the gateway thread is, as far as this port goes
    packed,     \* how many bytes of the reply are in output_buffer
    got,        \* history: the bytes read_byte returned
    alive       \* no assertion has stopped the process

vars == <<initialized, wpc, recvd, left, ring, gpc, packed, got, alive>>

\* "off": no thread; "read": in read; "filled": waiting for the lock; "copy":
\* in ring_buffer_copy_from, with the lock; "waiting": in cnd_wait; "woken":
\* leaving it; "dead": returned after a read error.
WorkerStates  == {"off", "read", "filled", "copy", "waiting", "woken", "dead"}

\* "away": anywhere else; "read": between has_more and read_byte; "pack",
\* "write": in uart_route_to.
GatewayStates == {"away", "read", "pack", "write"}

Init ==
    /\ initialized = FALSE /\ wpc = "off" /\ recvd = 0 /\ left = 0
    /\ ring = RingInit /\ gpc = "away" /\ packed = 0 /\ got = <<>>
    /\ alive = TRUE

(***************************************************************************)
(* The worker thread, uart_server.                                         *)
(***************************************************************************)
\* read returns at least one byte.
WorkerRead ==
    /\ wpc = "read"
    /\ \E n \in 1 .. InputSize :
         /\ recvd + n <= StreamLen
         /\ recvd' = recvd + n /\ left' = n
    /\ wpc' = "filled"
    /\ UNCHANGED <<initialized, ring, gpc, packed, got, alive>>

\* The device has hung up: read returns 0, which is not an error.
WorkerReadsNothing ==
    /\ wpc = "read"
    /\ left' = 0 /\ wpc' = "filled"
    /\ UNCHANGED <<initialized, recvd, ring, gpc, packed, got, alive>>

\* read returns -1, and the thread returns for good.
WorkerReadFails ==
    /\ wpc = "read"
    /\ wpc' = "dead"
    /\ UNCHANGED <<initialized, recvd, left, ring, gpc, packed, got, alive>>

\* The lock, and the assertion at the top of ring_buffer_copy_from.
WorkerLock ==
    /\ wpc = "filled"
    /\ IF left > 0 THEN wpc' = "copy" /\ UNCHANGED alive
                   ELSE alive' = FALSE /\ UNCHANGED wpc
    /\ UNCHANGED <<initialized, recvd, left, ring, gpc, packed, got>>

CopyByte ==
    /\ wpc = "copy" /\ left > 0
    /\ ring' = Push(ring, recvd - left + 1)
    /\ left' = left - 1
    /\ UNCHANGED <<initialized, wpc, recvd, gpc, packed, got, alive>>

\* Mutant of AfterTest: `if' for `while' around cnd_wait.
AfterTestOnce == IF wpc = "copy" /\ ring.full THEN "waiting" ELSE "read"

\* while (ring_buffer_is_full(...)) cnd_wait(...): to sleep, or out of the loop.
AfterTest == IF ring.full THEN "waiting" ELSE "read"

\* The loop condition, on entry and after each wake-up.
WorkerTest ==
    /\ (wpc = "copy" /\ left = 0) \/ wpc = "woken"
    /\ wpc' = AfterTest
    /\ UNCHANGED <<initialized, recvd, left, ring, gpc, packed, got, alive>>

SpuriousWakeup ==
    /\ wpc = "waiting"
    /\ wpc' = "woken"
    /\ UNCHANGED <<initialized, recvd, left, ring, gpc, packed, got, alive>>

(***************************************************************************)
(* The gateway thread.                                                     *)
(***************************************************************************)
\* uart_init, from has_more or route_to; while it fails the port stays as it is.
Initialize ==
    /\ ~initialized /\ gpc = "away"
    /\ initialized' = TRUE /\ wpc' = "read"
    /\ UNCHANGED <<recvd, left, ring, gpc, packed, got, alive>>

\* has_more with a byte in the ring; without one it changes nothing.
HasMore ==
    /\ initialized /\ gpc = "away" /\ wpc # "copy"
    /\ ~IsEmpty(ring)
    /\ gpc' = "read"
    /\ UNCHANGED <<initialized, wpc, recvd, left, ring, packed, got, alive>>

\* Mutant of Signalled: no wake-up.
NotSignalled == wpc

\* cnd_signal wakes the worker if it sleeps and is lost if it does not.
Signalled == IF wpc = "waiting" THEN "woken" ELSE wpc

ReadByte ==
    /\ gpc = "read" /\ wpc # "copy"
    /\ got' = Append(got, PopByte(ring))
    /\ ring' = Popped(ring)
    /\ wpc' = Signalled
    /\ gpc' = "away"
    /\ UNCHANGED <<initialized, recvd, left, packed, alive>>

\* uart_route_to: mavlink_msg_to_send_buffer fills output_buffer from its
\* start, whoever owns the lock, ...
RouteTo ==
    /\ initialized /\ gpc = "away"
    /\ gpc' = "pack"
    /\ UNCHANGED <<initialized, wpc, recvd, left, ring, packed, got, alive>>

PackByte ==
    /\ gpc = "pack" /\ packed < FrameLen
    /\ ring' = [ring EXCEPT !.buffer[packed] = 0]
    /\ packed' = packed + 1
    /\ UNCHANGED <<initialized, wpc, recvd, left, gpc, got, alive>>

Packed ==
    /\ gpc = "pack" /\ packed = FrameLen
    /\ gpc' = "write"
    /\ UNCHANGED <<initialized, wpc, recvd, left, ring, packed, got, alive>>

\* ... and write sends what is there by now; whether it fails or is short
\* changes nothing here.
Write ==
    /\ gpc = "write"
    /\ gpc' = "away" /\ packed' = 0
    /\ UNCHANGED <<initialized, wpc, recvd, left, ring, got, alive>>

Worker  == alive /\ (WorkerLock \/ CopyByte \/ WorkerTest)
Device  == alive /\ (WorkerRead \/ WorkerReadsNothing \/ WorkerReadFails \/ SpuriousWakeup)
Routing == alive /\ (PackByte \/ Packed \/ Write)
Poll    == alive /\ HasMore
Take    == alive /\ ReadByte

Starts  == alive /\ (Initialize \/ RouteTo)

Next == Worker \/ Device \/ Routing \/ Poll \/ Take \/ Starts

\* Both threads keep running and a write ends.  The gateway thread comes back
\* to poll whatever it routes in between, and gets the lock although the worker
\* takes it too, hence the strong fairness of Poll and Take.
Spec == /\ Init /\ [][Next]_vars
        /\ WF_vars(Worker) /\ WF_vars(Routing)
        /\ SF_vars(Poll) /\ SF_vars(Take)
-----------------------------------------------------------------------------
(***************************************************************************)
(* Properties.                                                             *)
(***************************************************************************)

\* The indices stay inside the array and the counters in range.
UartTypeOK ==
    /\ initialized \in BOOLEAN /\ alive \in BOOLEAN
    /\ wpc \in WorkerStates /\ gpc \in GatewayStates
    /\ recvd \in Nat /\ left \in 0 .. InputSize /\ left <= recvd
    /\ ring \in Ring
    /\ packed \in 0 .. FrameLen
    /\ got \in Seq(Nat)

copied == recvd - left

\* The ring holds the latest bytes of the stream in order, up to those a reply
\* has overwritten.
RingInv ==
    /\ Used(ring) <= copied
    /\ ring.full => ring.head = ring.tail
    /\ \A n \in 0 .. Used(ring) - 1 :
          ring.buffer[SlotOf(ring, n)] \in {0, copied - Used(ring) + n + 1}

\* The worker does not go back to the device, and no thread but the worker
\* fills the ring, while it is full: bytes are lost only in the middle of a copy.
\* Nor is a wake-up lost: the worker sleeps on a full ring only, for the read_byte
\* that makes room has woken it.
WaitsWhileFull ==
    /\ ring.full => wpc \in {"copy", "waiting", "woken"}
    /\ wpc = "waiting" => ring.full

\* A byte that has_more announced is still there when read_byte comes for it,
\* although the lock was free in between.
Announced == gpc = "read" => ~IsEmpty(ring)

UartInv == RingInv /\ WaitsWhileFull /\ Announced

\* The port implements the lossy stream.
Lossy == INSTANCE LossyStream WITH
    Capacity <- RingSize,
    received <- copied,
    first    <- copied - Used(ring) + 1,
    spoiled  <- {copied - Used(ring) + n + 1 :
                    n \in {x \in 0 .. Used(ring) - 1 : ring.buffer[SlotOf(ring, x)] = 0}},
    output   <- got
ImplementsLossyStream == Lossy!Spec

\* What is in the ring reaches the parser, even after the worker has died.
UartDrained == []<>(Used(ring) = 0 \/ ~alive)

\* A worker that sleeps on a full ring goes back to the device.
UartWorkerResumes == wpc = "waiting" ~> wpc = "read"

\* Violated: raw input, i.e. the parser gets the bytes the device sent.
RawInput == \A n \in 1 .. Len(got) : got[n] # 0

\* Violated: the assertion of ring_buffer_copy_from, that there is something to
\* copy, holds when the worker gets there.
CopySize == alive
=============================================================================
