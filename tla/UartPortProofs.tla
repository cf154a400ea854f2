--------------------------- MODULE UartPortProofs ---------------------------
(***************************************************************************)
(* The serial port keeps the latest bytes of the stream in order, for      *)
(* every size of the ring, of the reads and of the replies.  First, what   *)
(* the operations of ring_buffer.h do to the bytes in the ring, for every  *)
(* size of the array and wherever in it the indices are: the ring is a     *)
(* queue, and a push into a full one costs it its first byte.              *)
(***************************************************************************)
EXTENDS UartPort, TLAPS

\* A ring is full only with its indices on the same slot.
WellFormed(rb) == rb \in Ring /\ (rb.full => rb.head = rb.tail)

\* The n-th unread byte.
ByteAt(rb, n) == rb.buffer[SlotOf(rb, n)]

\* (index + 1) % rb->max runs around the array.
LEMMA FollowingCases ==
    ASSUME NEW x \in Slots
    PROVE  /\ Following(x) \in Slots
           /\ Following(x) = IF x + 1 = RingSize THEN 0 ELSE x + 1
<1>1. CASE x + 1 = RingSize
    BY <1>1, RingAssumption DEF Slots, Following
<1>2. CASE x + 1 # RingSize
    BY <1>2, RingAssumption DEF Slots, Following
<1> QED BY <1>1, <1>2

\* So does the slot of the n-th unread byte.
LEMMA SlotCases ==
    ASSUME NEW rb \in Ring, NEW n \in 0 .. RingSize - 1
    PROVE  /\ SlotOf(rb, n) \in Slots
           /\ SlotOf(rb, n) = IF rb.tail + n < RingSize THEN rb.tail + n
                                                        ELSE rb.tail + n - RingSize
<1>1. rb.tail \in 0 .. RingSize - 1
    BY DEF Ring, Slots
<1>2. CASE rb.tail + n < RingSize
    BY <1>1, <1>2, RingAssumption DEF Slots, SlotOf
<1>3. CASE rb.tail + n >= RingSize
    BY <1>1, <1>3, RingAssumption DEF Slots, SlotOf
<1> QED BY <1>1, <1>2, <1>3, RingAssumption

\* ring_buffer_size, _is_empty and _is_full agree.
LEMMA UsedFacts ==
    ASSUME NEW rb, WellFormed(rb)
    PROVE  /\ Used(rb) \in 0 .. RingSize
           /\ rb.full <=> Used(rb) = RingSize
           /\ IsEmpty(rb) <=> Used(rb) = 0
<1> DEFINE h == rb.head
           t == rb.tail
<1>1. h \in 0 .. RingSize - 1 /\ t \in 0 .. RingSize - 1 /\ rb.full \in BOOLEAN
    BY DEF WellFormed, Ring, Slots
<1>2. CASE rb.full
    BY <1>1, <1>2, RingAssumption DEF Used, IsEmpty
<1>3. CASE ~rb.full
    BY <1>1, <1>3, RingAssumption DEF Used, IsEmpty
<1> QED BY <1>1, <1>2, <1>3

\* ring_buffer_push appends its byte; a full ring loses its oldest one.
LEMMA PushFacts ==
    ASSUME NEW rb, WellFormed(rb), NEW byte \in Nat
    PROVE  LET r == Push(rb, byte)
               d == IF rb.full THEN 1 ELSE 0
           IN  /\ WellFormed(r)
               /\ Used(r) = Used(rb) + 1 - d
               /\ \A n \in 0 .. Used(r) - 2 : ByteAt(r, n) = ByteAt(rb, n + d)
               /\ ByteAt(r, Used(r) - 1) = byte
<1> DEFINE r == Push(rb, byte)
           d == IF rb.full THEN 1 ELSE 0
           N == RingSize
<1> USE RingAssumption
<1>1. /\ rb.head \in 0 .. N - 1 /\ rb.tail \in 0 .. N - 1 /\ rb.full \in BOOLEAN
      /\ rb.buffer \in [Slots -> Nat] /\ (rb.full => rb.head = rb.tail)
    BY DEF WellFormed, Ring, Slots
<1>2. /\ Following(rb.head) \in 0 .. N - 1
      /\ Following(rb.head) = IF rb.head + 1 = N THEN 0 ELSE rb.head + 1
    BY <1>1, FollowingCases DEF Slots
<1>3. /\ r.head = Following(rb.head)
      /\ r.full = (rb.full \/ r.head = rb.tail)
      /\ r.tail = IF r.full THEN r.head ELSE rb.tail
      /\ r.buffer = [rb.buffer EXCEPT ![rb.head] = byte]
    BY DEF Push
<1>4. WellFormed(r)
  <2>1. r = [buffer |-> r.buffer, head |-> r.head, tail |-> r.tail, full |-> r.full]
      BY DEF Push
  <2>2. r.buffer \in [Slots -> Nat] /\ r.head \in Slots /\ r.tail \in Slots
      BY <1>1, <1>2, <1>3 DEF Slots
  <2>3. r.full \in BOOLEAN
      BY <1>1, <1>3
  <2>4. r \in Ring
      BY <2>1, <2>2, <2>3 DEF Ring
  <2> QED BY <1>3, <2>4 DEF WellFormed
<1>u. /\ Used(rb) = IF rb.full THEN N ELSE IF rb.head >= rb.tail THEN rb.head - rb.tail
                                                              ELSE N + rb.head - rb.tail
      /\ Used(r) = IF r.full THEN N ELSE IF r.head >= r.tail THEN r.head - r.tail
                                                           ELSE N + r.head - r.tail
    BY DEF Used
<1>f. /\ rb.full => r.full /\ d = 1
      /\ ~rb.full => (r.full <=> r.head = rb.tail) /\ d = 0
      /\ r.full \in BOOLEAN
    BY <1>1, <1>3
<1> HIDE DEF r, d
<1>5. Used(r) = Used(rb) + 1 - d
  <2>1. CASE rb.full
      BY <1>1, <1>f, <1>u, <2>1
  <2>2. CASE ~rb.full /\ r.full
      BY <1>1, <1>2, <1>3, <1>f, <1>u, <2>2
  <2>3. CASE ~rb.full /\ ~r.full
      BY <1>1, <1>2, <1>3, <1>f, <1>u, <2>3
  <2> QED BY <1>1, <2>1, <2>2, <2>3
<1>6. Used(r) \in 1 .. N
    BY <1>1, <1>5, <1>f, UsedFacts
<1>7. rb \in Ring /\ r \in Ring
    BY <1>4 DEF WellFormed
<1>8. ASSUME NEW n \in 0 .. Used(r) - 2
      PROVE  ByteAt(r, n) = ByteAt(rb, n + d)
  <2>1. n \in 0 .. N - 1 /\ n + d \in 0 .. N - 1 /\ n + d <= Used(rb) - 1
      BY <1>1, <1>5, <1>6, <1>f, UsedFacts
  <2>2. /\ SlotOf(rb, n + d) \in Slots
        /\ SlotOf(rb, n + d) = IF rb.tail + n + d < N THEN rb.tail + n + d
                                                      ELSE rb.tail + n + d - N
      BY <1>1, <1>7, <1>f, <2>1, SlotCases
  <2>3. SlotOf(r, n) = IF r.tail + n < N THEN r.tail + n ELSE r.tail + n - N
      BY <1>7, <2>1, SlotCases
  <2>4. SlotOf(r, n) = SlotOf(rb, n + d)
    <3>1. CASE rb.full
        BY <1>1, <1>2, <1>3, <1>f, <1>u, <2>1, <2>2, <2>3, <3>1
    <3>2. CASE ~rb.full /\ r.full
        BY <1>1, <1>2, <1>3, <1>f, <1>u, <2>1, <2>2, <2>3, <3>2
    <3>3. CASE ~rb.full /\ ~r.full
        BY <1>1, <1>2, <1>3, <1>f, <1>u, <2>1, <2>2, <2>3, <3>3
    <3> QED BY <1>1, <3>1, <3>2, <3>3
  <2>5. SlotOf(rb, n + d) # rb.head
    <3>1. CASE rb.full
        BY <1>1, <1>6, <1>f, <2>1, <2>2, <3>1
    <3>2. CASE ~rb.full
        BY <1>1, <1>f, <1>u, <2>1, <2>2, <3>2
    <3> QED BY <1>1, <3>1, <3>2
  <2> QED BY <1>1, <1>3, <2>2, <2>4, <2>5 DEF ByteAt
<1>9. ByteAt(r, Used(r) - 1) = byte
  <2>1. Used(r) - 1 \in 0 .. N - 1
      BY <1>6
  <2>2. SlotOf(r, Used(r) - 1) = IF r.tail + (Used(r) - 1) < N THEN r.tail + (Used(r) - 1)
                                                 ELSE r.tail + (Used(r) - 1) - N
      BY <1>7, <2>1, SlotCases
  <2>3. SlotOf(r, Used(r) - 1) = rb.head
    <3>1. CASE rb.full
        BY <1>1, <1>2, <1>3, <1>f, <1>u, <2>2, <3>1
    <3>2. CASE ~rb.full /\ r.full
        BY <1>1, <1>2, <1>3, <1>f, <1>u, <2>2, <3>2
    <3>3. CASE ~rb.full /\ ~r.full
        BY <1>1, <1>2, <1>3, <1>f, <1>u, <2>2, <3>3
    <3> QED BY <1>1, <3>1, <3>2, <3>3
  <2> QED BY <1>1, <1>3, <2>3 DEF ByteAt, Slots
<1> QED BY <1>4, <1>5, <1>8, <1>9 DEF r, d

\* ring_buffer_pop takes the oldest byte and leaves the others.
LEMMA PopFacts ==
    ASSUME NEW rb, WellFormed(rb), ~IsEmpty(rb)
    PROVE  LET r == Popped(rb)
           IN  /\ WellFormed(r) /\ ~r.full
               /\ Used(r) = Used(rb) - 1
               /\ PopByte(rb) = ByteAt(rb, 0)
               /\ \A n \in 0 .. Used(r) - 1 : ByteAt(r, n) = ByteAt(rb, n + 1)
<1> DEFINE r == Popped(rb)
           N == RingSize
<1> USE RingAssumption
<1>1. /\ rb.head \in 0 .. N - 1 /\ rb.tail \in 0 .. N - 1 /\ rb.full \in BOOLEAN
      /\ rb.buffer \in [Slots -> Nat] /\ (rb.full => rb.head = rb.tail)
    BY DEF WellFormed, Ring, Slots
<1>2. /\ Following(rb.tail) \in 0 .. N - 1
      /\ Following(rb.tail) = IF rb.tail + 1 = N THEN 0 ELSE rb.tail + 1
    BY <1>1, FollowingCases DEF Slots
<1>3. /\ r \in Ring
      /\ r.head = rb.head /\ r.tail = Following(rb.tail) /\ r.full = FALSE
      /\ r.buffer = rb.buffer
    BY <1>1, <1>2 DEF Popped, WellFormed, Ring, Slots
<1>4. WellFormed(r) /\ ~r.full
    BY <1>3 DEF WellFormed
<1>5. Used(r) = Used(rb) - 1
    BY <1>1, <1>2, <1>3 DEF Used, IsEmpty
<1>6. Used(rb) \in 1 .. N
    BY UsedFacts
<1>7. PopByte(rb) = ByteAt(rb, 0)
  <2>1. SlotOf(rb, 0) = rb.tail
      BY <1>1, SlotCases DEF WellFormed
  <2> QED BY <2>1 DEF PopByte, ByteAt
<1>8. ASSUME NEW n \in 0 .. Used(r) - 1
      PROVE  ByteAt(r, n) = ByteAt(rb, n + 1)
  <2>1. n \in 0 .. N - 1 /\ n + 1 \in 0 .. N - 1
      BY <1>5, <1>6
  <2>2. SlotOf(rb, n + 1) = IF rb.tail + (n + 1) < N THEN rb.tail + (n + 1)
                                                     ELSE rb.tail + (n + 1) - N
      BY <2>1, SlotCases DEF WellFormed
  <2>3. SlotOf(r, n) = IF r.tail + n < N THEN r.tail + n ELSE r.tail + n - N
      BY <1>3, <2>1, SlotCases
  <2>4. SlotOf(r, n) = SlotOf(rb, n + 1)
      BY <1>1, <1>2, <1>3, <2>1, <2>2, <2>3
  <2> QED BY <1>3, <2>4 DEF ByteAt
<1> QED BY <1>4, <1>5, <1>7, <1>8

-----------------------------------------------------------------------------
(***************************************************************************)
(* The port.                                                               *)
(***************************************************************************)

\* There is no worker before uart_init has started one, and none that has bytes
\* to copy anywhere but on its way to ring_buffer_copy_from or in it.
WorkerInv ==
    /\ ~initialized => wpc = "off"
    /\ left > 0 => wpc \in {"filled", "copy"}

\* UartInv, with what makes it inductive.
IndInv == UartTypeOK /\ WellFormed(ring) /\ UartInv /\ WorkerInv

\* What RingInv says of a byte of the ring.
Holds(n) == ByteAt(ring, n) \in {0, copied - Used(ring) + n + 1}

\* RingInv with the vocabulary of the ring's lemmas.
LEMMA RingInvMeans ==
    ASSUME WellFormed(ring)
    PROVE  RingInv <=> /\ Used(ring) <= copied
                       /\ \A n \in 0 .. Used(ring) - 1 : Holds(n)
BY DEF WellFormed, RingInv, Holds, ByteAt

\* hook_uart and the ring of uart_state_init.
LEMMA InitIndInv == Init => IndInv
<1> SUFFICES ASSUME Init PROVE IndInv
    OBVIOUS
<1>1. 0 \in Slots
    BY RingAssumption DEF Slots
<1>2. ring \in Ring /\ ~ring.full /\ ring.head = 0 /\ ring.tail = 0
    BY <1>1 DEF Init, RingInit, Ring
<1>3. UartTypeOK /\ WellFormed(ring)
  <2>1. left \in 0 .. InputSize /\ left <= recvd /\ packed \in 0 .. FrameLen /\ recvd \in Nat
      BY UartAssumption DEF Init
  <2>2. got \in Seq(Nat)
      BY DEF Init
  <2> QED BY <1>2, <2>1, <2>2 DEF Init, UartTypeOK, WorkerStates, GatewayStates, WellFormed
<1>4. Used(ring) = 0
    BY <1>2 DEF Used
<1>5. RingInv
    BY <1>3, <1>4, RingInvMeans DEF Init, copied
<1>6. WaitsWhileFull /\ Announced /\ WorkerInv
    BY <1>2 DEF Init, WaitsWhileFull, Announced, WorkerInv
<1> QED BY <1>3, <1>5, <1>6 DEF IndInv, UartInv

\* Steps that leave the ring and what was copied alone keep what is in it.
LEMMA SameRing ==
    ASSUME IndInv, UNCHANGED ring, copied' = copied
    PROVE  WellFormed(ring)' /\ RingInv'
BY DEF IndInv, UartInv, RingInv, Used, SlotOf, WellFormed

\* ring_buffer_copy_from, one byte.
LEMMA CopyIndInv ==
    ASSUME IndInv, CopyByte
    PROVE  IndInv'
<1> USE RingAssumption, UartAssumption
<1> DEFINE byte == recvd - left + 1
           d == IF ring.full THEN 1 ELSE 0
<1>1. /\ WellFormed(ring) /\ Used(ring) <= copied
      /\ \A n \in 0 .. Used(ring) - 1 : Holds(n)
    BY RingInvMeans DEF IndInv, UartInv
<1>2. /\ recvd \in Nat /\ left \in Nat /\ left <= recvd /\ left >= 1 /\ left <= InputSize
      /\ wpc = "copy" /\ wpc' = wpc /\ ring' = Push(ring, byte)
      /\ left' = left - 1 /\ recvd' = recvd /\ gpc' = gpc /\ initialized' = initialized
    BY DEF IndInv, UartTypeOK, CopyByte
<1>3. byte \in Nat /\ byte = copied + 1 /\ copied' = copied + 1 /\ copied \in Nat
    BY <1>2 DEF copied
<1>4. /\ WellFormed(ring') /\ Used(ring') = Used(ring) + 1 - d
      /\ \A n \in 0 .. Used(ring') - 2 : ByteAt(ring', n) = ByteAt(ring, n + d)
      /\ ByteAt(ring', Used(ring') - 1) = byte
    BY <1>1, <1>2, <1>3, PushFacts
<1>5. Used(ring) \in 0 .. RingSize /\ (ring.full <=> Used(ring) = RingSize)
    BY <1>1, UsedFacts
<1>6. ASSUME NEW n \in 0 .. Used(ring') - 1
      PROVE  ByteAt(ring', n) \in {0, copied' - Used(ring') + n + 1}
  <2>1. CASE n = Used(ring') - 1
      BY <1>3, <1>4, <1>5, <2>1
  <2>2. CASE n <= Used(ring') - 2
    <3>1. n \in 0 .. Used(ring') - 2 /\ n + d \in 0 .. Used(ring) - 1
        BY <1>4, <1>5, <2>2
    <3>2. ByteAt(ring', n) \in {0, copied - Used(ring) + (n + d) + 1}
        BY <1>1, <1>4, <3>1 DEF Holds
    <3> QED BY <1>3, <1>4, <1>5, <3>1, <3>2
  <2> QED BY <1>4, <1>5, <2>1, <2>2
<1>7. RingInv'
  <2>1. Used(ring') <= copied'
      BY <1>1, <1>3, <1>4, <1>5
  <2> QED BY <1>4, <1>6, <2>1 DEF RingInv, ByteAt, WellFormed
<1>8. UartTypeOK'
    BY <1>2, <1>4 DEF IndInv, UartTypeOK, CopyByte, WellFormed
<1>9. Announced'
  <2>1. gpc = "read" => Used(ring') # 0
      BY <1>4, <1>5
  <2> QED BY <1>2, <1>4, <2>1, UsedFacts DEF Announced
<1>10. WaitsWhileFull' /\ WorkerInv'
    BY <1>2 DEF WaitsWhileFull, WorkerInv, IndInv
<1> QED BY <1>4, <1>7, <1>8, <1>9, <1>10 DEF IndInv, UartInv

\* uart_read_byte.
LEMMA ReadIndInv ==
    ASSUME IndInv, ReadByte
    PROVE  IndInv'
<1> USE RingAssumption, UartAssumption
<1>1. /\ WellFormed(ring) /\ Used(ring) <= copied
      /\ \A n \in 0 .. Used(ring) - 1 : Holds(n)
    BY RingInvMeans DEF IndInv, UartInv
<1>2. /\ recvd \in Nat /\ left \in Nat /\ left <= recvd
      /\ ~IsEmpty(ring) /\ ring' = Popped(ring) /\ got' = Append(got, PopByte(ring))
      /\ left' = left /\ recvd' = recvd /\ gpc' = "away" /\ initialized' = initialized
    BY DEF IndInv, UartTypeOK, UartInv, Announced, ReadByte
<1>3. copied' = copied /\ copied \in Nat
    BY <1>2 DEF copied
<1>4. /\ WellFormed(ring') /\ ~ring'.full /\ Used(ring') = Used(ring) - 1
      /\ PopByte(ring) = ByteAt(ring, 0)
      /\ \A n \in 0 .. Used(ring') - 1 : ByteAt(ring', n) = ByteAt(ring, n + 1)
    BY <1>1, <1>2, PopFacts
<1>5. Used(ring) \in 1 .. RingSize
    BY <1>1, <1>2, UsedFacts
<1>6. ASSUME NEW n \in 0 .. Used(ring') - 1
      PROVE  ByteAt(ring', n) \in {0, copied' - Used(ring') + n + 1}
  <2>1. n + 1 \in 0 .. Used(ring) - 1
      BY <1>4, <1>5
  <2>2. ByteAt(ring', n) \in {0, copied - Used(ring) + (n + 1) + 1}
      BY <1>1, <1>4, <2>1 DEF Holds
  <2> QED BY <1>3, <1>4, <1>5, <2>2
<1>7. RingInv'
  <2>1. Used(ring') <= copied'
      BY <1>1, <1>3, <1>4, <1>5
  <2> QED BY <1>4, <1>6, <2>1 DEF RingInv, ByteAt, WellFormed
<1>8. UartTypeOK'
  <2>1. PopByte(ring) \in Nat
      BY <1>1 DEF PopByte, WellFormed, Ring
  <2>2. ring' \in Ring /\ wpc' \in WorkerStates
      BY <1>4 DEF WellFormed, ReadByte, Signalled, IndInv, UartTypeOK, WorkerStates
  <2> QED BY <1>2, <2>1, <2>2 DEF IndInv, UartTypeOK, ReadByte, GatewayStates
<1>9. WaitsWhileFull' /\ Announced' /\ WorkerInv'
    BY <1>2, <1>4 DEF WaitsWhileFull, Announced, WorkerInv, IndInv, ReadByte, Signalled
<1> QED BY <1>4, <1>7, <1>8, <1>9 DEF IndInv, UartInv

\* uart_route_to packs over the ring: indices and flag stay, bytes become 0.
LEMMA PackFacts ==
    ASSUME IndInv, PackByte
    PROVE  /\ WellFormed(ring') /\ Used(ring') = Used(ring)
           /\ ring'.full = ring.full /\ (IsEmpty(ring') <=> IsEmpty(ring))
           /\ \A n \in 0 .. RingSize - 1 : ByteAt(ring', n) \in {0, ByteAt(ring, n)}
<1> USE RingAssumption, UartAssumption
<1>1. /\ ring \in Ring /\ packed \in Slots
      /\ ring' = [ring EXCEPT !.buffer = [ring.buffer EXCEPT ![packed] = 0]]
    BY DEF IndInv, UartTypeOK, PackByte, Slots
<1>2. /\ ring' \in Ring /\ ring'.head = ring.head /\ ring'.tail = ring.tail
      /\ ring'.full = ring.full /\ ring'.buffer = [ring.buffer EXCEPT ![packed] = 0]
    BY <1>1 DEF Ring
<1>3. WellFormed(ring') /\ Used(ring') = Used(ring) /\ (IsEmpty(ring') <=> IsEmpty(ring))
    BY <1>2 DEF IndInv, WellFormed, Used, IsEmpty
<1>4. ASSUME NEW n \in 0 .. RingSize - 1
      PROVE  ByteAt(ring', n) \in {0, ByteAt(ring, n)}
  <2>1. SlotOf(ring', n) = SlotOf(ring, n) /\ SlotOf(ring, n) \in Slots
      BY <1>1, <1>2, SlotCases DEF SlotOf
  <2> QED BY <1>1, <1>2, <2>1 DEF ByteAt, Ring
<1> QED BY <1>2, <1>3, <1>4

\* One byte of a reply.
LEMMA PackIndInv ==
    ASSUME IndInv, PackByte
    PROVE  IndInv'
<1> USE RingAssumption, UartAssumption
<1>1. /\ WellFormed(ring') /\ Used(ring') = Used(ring)
      /\ ring'.full = ring.full /\ (IsEmpty(ring') <=> IsEmpty(ring))
      /\ \A n \in 0 .. RingSize - 1 : ByteAt(ring', n) \in {0, ByteAt(ring, n)}
    BY PackFacts
<1>2. /\ WellFormed(ring) /\ Used(ring) <= copied
      /\ \A n \in 0 .. Used(ring) - 1 : Holds(n)
    BY RingInvMeans DEF IndInv, UartInv
<1>3. Used(ring) \in 0 .. RingSize /\ copied' = copied
    BY <1>2, UsedFacts DEF PackByte, copied
<1>4. RingInv'
    BY <1>1, <1>2, <1>3 DEF RingInv, Holds, ByteAt, WellFormed
<1>5. UartTypeOK'
    BY <1>1 DEF IndInv, UartTypeOK, PackByte, WellFormed
<1>6. WaitsWhileFull' /\ Announced' /\ WorkerInv'
    BY <1>1 DEF IndInv, UartInv, WaitsWhileFull, Announced, WorkerInv, PackByte
<1> QED BY <1>1, <1>4, <1>5, <1>6 DEF IndInv, UartInv

\* The other steps of the worker, of the device and of the gateway thread leave
\* the ring alone.
LEMMA OtherIndInv ==
    ASSUME IndInv,
           \/ WorkerRead \/ WorkerReadsNothing \/ WorkerReadFails \/ WorkerLock \/ WorkerTest
           \/ SpuriousWakeup \/ Initialize \/ HasMore \/ RouteTo \/ Packed \/ Write
    PROVE  IndInv' /\ UNCHANGED <<ring, got>> /\ copied' = copied
<1> USE RingAssumption, UartAssumption
<1> USE DEF IndInv, UartInv, UartTypeOK, WaitsWhileFull, Announced, WorkerInv,
            WorkerStates, GatewayStates, copied
<1>1. CASE WorkerRead
  <2>1. PICK n \in 1 .. InputSize : recvd' = recvd + n /\ left' = n
      BY <1>1 DEF WorkerRead
  <2> QED BY <1>1, <2>1, SameRing DEF WorkerRead
<1>2. CASE WorkerReadsNothing
    BY <1>2, SameRing DEF WorkerReadsNothing
<1>3. CASE WorkerReadFails
    BY <1>3, SameRing DEF WorkerReadFails
<1>4. CASE WorkerLock
    BY <1>4, SameRing DEF WorkerLock
<1>5. CASE WorkerTest
    BY <1>5, SameRing DEF WorkerTest, AfterTest
<1>6. CASE SpuriousWakeup
    BY <1>6, SameRing DEF SpuriousWakeup
<1>7. CASE Initialize
    BY <1>7, SameRing DEF Initialize
<1>8. CASE HasMore
    BY <1>8, SameRing DEF HasMore
<1>9. CASE RouteTo
    BY <1>9, SameRing DEF RouteTo
<1>10. CASE Packed
    BY <1>10, SameRing DEF Packed
<1>11. CASE Write
    BY <1>11, SameRing DEF Write
<1> QED BY <1>1, <1>2, <1>3, <1>4, <1>5, <1>6, <1>7, <1>8, <1>9, <1>10, <1>11

\* Every step of the two threads keeps the invariant.
LEMMA NextIndInv == IndInv /\ [Next]_vars => IndInv'
<1> SUFFICES ASSUME IndInv, [Next]_vars PROVE IndInv'
    OBVIOUS
<1>1. CASE UNCHANGED vars
    BY <1>1, SameRing
    DEF vars, IndInv, UartInv, UartTypeOK, WaitsWhileFull, Announced, WorkerInv, IsEmpty, copied
<1>2. CASE Next
    BY <1>2, CopyIndInv, ReadIndInv, PackIndInv, OtherIndInv
    DEF Next, Worker, Device, Routing, Poll, Take, Starts
<1> QED BY <1>1, <1>2

\* The inductive invariant of uart_server, has_more, read_byte and route_to.
THEOREM IndInvariant == Spec => []IndInv
BY InitIndInv, NextIndInv, PTL DEF Spec

\* The indices of the ring and the program counters keep their types.
THEOREM UartTypes == Spec => []UartTypeOK
<1>1. IndInv => UartTypeOK
    BY DEF IndInv
<1> QED BY <1>1, IndInvariant, PTL

\* The ring holds the latest bytes, the worker is never at the device with a full
\* ring, and a byte has_more announced is there for read_byte.
THEOREM UartInvariant == Spec => []UartInv
<1>1. IndInv => UartInv
    BY DEF IndInv
<1> QED BY <1>1, IndInvariant, PTL
-----------------------------------------------------------------------------
\* The abstract state of the refinement.
First == copied - Used(ring) + 1
Spoiled == {copied - Used(ring) + n + 1 :
               n \in {x \in 0 .. Used(ring) - 1 : ring.buffer[SlotOf(ring, x)] = 0}}

\* Which bytes are spoiled.
SpoiledFacts ==
    /\ First \in Nat /\ copied \in Nat /\ Used(ring) \in 0 .. RingSize
    /\ First + Used(ring) = copied + 1
    /\ Spoiled \subseteq First .. copied
    /\ \A x \in First .. copied : x \in Spoiled <=> ByteAt(ring, x - First) = 0

\* The unread bytes are First to copied; a 0 in the ring marks a spoiled one.
LEMMA SpoiledMeans == IndInv => SpoiledFacts
<1> SUFFICES ASSUME IndInv PROVE SpoiledFacts
    OBVIOUS
<1>1. Used(ring) \in 0 .. RingSize /\ Used(ring) <= copied
    BY UsedFacts DEF IndInv, UartInv, RingInv
<1>2. copied \in Nat
    BY UartAssumption DEF IndInv, UartTypeOK, copied
<1>3. First \in Nat /\ First + Used(ring) = copied + 1
    BY <1>1, <1>2, RingAssumption DEF First
<1>4. Spoiled \subseteq First .. copied
    BY <1>1, <1>2, RingAssumption DEF Spoiled, First
<1>5. ASSUME NEW x \in First .. copied
      PROVE  x \in Spoiled <=> ByteAt(ring, x - First) = 0
  <2>1. x - First \in 0 .. Used(ring) - 1 /\ x = copied - Used(ring) + (x - First) + 1
      BY <1>1, <1>2, <1>3 DEF First
  <2>2. ASSUME x \in Spoiled PROVE ByteAt(ring, x - First) = 0
    <3>1. PICK n \in 0 .. Used(ring) - 1 : /\ x = copied - Used(ring) + n + 1
                                           /\ ring.buffer[SlotOf(ring, n)] = 0
        BY <2>2 DEF Spoiled
    <3>2. n = x - First
        BY <1>1, <1>2, <3>1 DEF First
    <3> QED BY <3>1, <3>2 DEF ByteAt
  <2>3. ASSUME ByteAt(ring, x - First) = 0 PROVE x \in Spoiled
      BY <2>1, <2>3 DEF Spoiled, ByteAt
  <2> QED BY <2>2, <2>3
<1> QED BY <1>1, <1>2, <1>3, <1>4, <1>5 DEF SpoiledFacts

\* Nothing is stored at first.
LEMMA InitRefines == Init => Lossy!Init
<1> SUFFICES ASSUME Init PROVE Lossy!Init
    OBVIOUS
<1>1. Used(ring) = 0
    BY DEF Init, RingInit, Used
<1>2. Spoiled = {}
    BY <1>1 DEF Spoiled
<1> QED BY <1>1, <1>2 DEF Init, Lossy!Init, copied, Spoiled

\* A byte copied into the ring is a byte received, and one more lost if the ring
\* was full.
LEMMA CopyRefines ==
    ASSUME IndInv, IndInv', CopyByte
    PROVE  Lossy!Receive
<1> USE RingAssumption, UartAssumption
<1> DEFINE d == IF ring.full THEN 1 ELSE 0
<1>1. /\ recvd \in Nat /\ left \in Nat /\ left <= recvd /\ left >= 1
      /\ ring' = Push(ring, recvd - left + 1) /\ left' = left - 1 /\ recvd' = recvd
      /\ got' = got
    BY DEF IndInv, UartTypeOK, CopyByte
<1>2. copied' = copied + 1 /\ recvd - left + 1 = copied + 1 /\ copied + 1 \in Nat
    BY <1>1 DEF copied
<1>3. /\ Used(ring') = Used(ring) + 1 - d
      /\ \A n \in 0 .. Used(ring') - 2 : ByteAt(ring', n) = ByteAt(ring, n + d)
      /\ ByteAt(ring', Used(ring') - 1) = copied + 1
    BY <1>1, <1>2, PushFacts DEF IndInv
<1>4. ring.full <=> Used(ring) = RingSize
    BY UsedFacts DEF IndInv
<1>5. /\ First \in Nat /\ copied \in Nat /\ Used(ring) \in 0 .. RingSize
      /\ First + Used(ring) = copied + 1
      /\ Spoiled \subseteq First .. copied
      /\ \A x \in First .. copied : x \in Spoiled <=> ByteAt(ring, x - First) = 0
    BY SpoiledMeans DEF SpoiledFacts
<1>p. SpoiledFacts'
    BY SpoiledMeans, PTL
<1>6. /\ First' \in Nat /\ copied' \in Nat /\ Used(ring') \in 0 .. RingSize
      /\ First' + Used(ring') = copied' + 1
      /\ Spoiled' \subseteq First' .. copied'
      /\ \A x \in First' .. copied' : x \in Spoiled' <=> ByteAt(ring', x - First') = 0
    BY <1>p DEF SpoiledFacts
<1>7. First' = First + d
    BY <1>2, <1>3, <1>5, <1>6
<1>8. First' = IF copied' - First = RingSize THEN First + 1 ELSE First
    BY <1>2, <1>4, <1>5, <1>7
<1>9. ASSUME NEW x \in First .. copied + 1
      PROVE  x \in Spoiled' <=> x \in Spoiled \cap (First' .. copied)
  <2>1. CASE x \in First' .. copied
    <3>1. x - First' \in 0 .. Used(ring') - 2 /\ x - First' + d = x - First
        BY <1>2, <1>5, <1>6, <1>7, <2>1
    <3>2. ByteAt(ring', x - First') = ByteAt(ring, x - First)
        BY <1>3, <3>1
    <3>3. x \in First .. copied /\ x \in First' .. copied'
        BY <1>2, <1>5, <1>7, <2>1
    <3> QED BY <1>5, <1>6, <2>1, <3>2, <3>3
  <2>2. CASE x = copied'
    <3>1. x \in First' .. copied' /\ x - First' = Used(ring') - 1
        BY <1>2, <1>3, <1>4, <1>5, <1>6, <2>2
    <3>2. ByteAt(ring', x - First') # 0
        BY <1>3, <1>5, <3>1
    <3> QED BY <1>2, <1>5, <1>6, <2>2, <3>1, <3>2
  <2>3. CASE x \notin First' .. copied /\ x # copied'
      BY <1>2, <1>5, <1>6, <2>3
  <2> QED BY <2>1, <2>2, <2>3
<1>10. Spoiled' = Spoiled \cap (First' .. copied)
  <2>1. Spoiled' \subseteq First .. copied + 1
      BY <1>2, <1>5, <1>6, <1>7
  <2>2. Spoiled \subseteq First .. copied + 1
      BY <1>5
  <2> QED BY <1>9, <2>1, <2>2
<1> QED BY <1>1, <1>2, <1>8, <1>10 DEF Lossy!Receive, First, Spoiled

\* A byte of a reply may spoil an unread byte.
LEMMA PackRefines ==
    ASSUME IndInv, IndInv', PackByte
    PROVE  Lossy!Spoil
<1> USE RingAssumption, UartAssumption
<1>1. /\ Used(ring') = Used(ring)
      /\ \A n \in 0 .. RingSize - 1 : ByteAt(ring', n) \in {0, ByteAt(ring, n)}
    BY PackFacts
<1>2. copied' = copied /\ got' = got
    BY DEF PackByte, copied
<1>3. First' = First
    BY <1>1, <1>2 DEF First
<1>4. /\ First \in Nat /\ copied \in Nat /\ Used(ring) \in 0 .. RingSize
      /\ First + Used(ring) = copied + 1
      /\ Spoiled \subseteq First .. copied
      /\ \A x \in First .. copied : x \in Spoiled <=> ByteAt(ring, x - First) = 0
    BY SpoiledMeans DEF SpoiledFacts
<1>p. SpoiledFacts'
    BY SpoiledMeans, PTL
<1>5. /\ Spoiled' \subseteq First' .. copied'
      /\ \A x \in First' .. copied' : x \in Spoiled' <=> ByteAt(ring', x - First') = 0
    BY <1>p DEF SpoiledFacts
<1>6. ASSUME NEW x \in Spoiled
      PROVE  x \in Spoiled'
  <2>1. x \in First .. copied /\ x - First \in 0 .. RingSize - 1
      BY <1>4
  <2> QED BY <1>1, <1>2, <1>3, <1>4, <1>5, <2>1
<1>7. Spoiled \subseteq Spoiled' /\ Spoiled' \subseteq First .. copied
    BY <1>2, <1>3, <1>5, <1>6
<1> QED BY <1>2, <1>3, <1>7 DEF Lossy!Spoil, First, Spoiled

\* uart_read_byte gives the parser the oldest byte, or the 0 that spoiled it.
LEMMA ReadRefines ==
    ASSUME IndInv, IndInv', ReadByte
    PROVE  Lossy!Deliver
<1> USE RingAssumption, UartAssumption
<1>1. /\ ~IsEmpty(ring) /\ ring' = Popped(ring) /\ got' = Append(got, PopByte(ring))
      /\ copied' = copied
    BY DEF IndInv, UartInv, Announced, ReadByte, copied
<1>2. /\ Used(ring') = Used(ring) - 1
      /\ PopByte(ring) = ByteAt(ring, 0)
      /\ \A n \in 0 .. Used(ring') - 1 : ByteAt(ring', n) = ByteAt(ring, n + 1)
    BY <1>1, PopFacts DEF IndInv
<1>3. Used(ring) # 0
    BY <1>1, UsedFacts DEF IndInv
<1>4. /\ First \in Nat /\ copied \in Nat /\ Used(ring) \in 0 .. RingSize
      /\ First + Used(ring) = copied + 1
      /\ Spoiled \subseteq First .. copied
      /\ \A x \in First .. copied : x \in Spoiled <=> ByteAt(ring, x - First) = 0
    BY SpoiledMeans DEF SpoiledFacts
<1>p. SpoiledFacts'
    BY SpoiledMeans, PTL
<1>5. /\ First' + Used(ring') = copied' + 1 /\ First' \in Nat
      /\ Spoiled' \subseteq First' .. copied'
      /\ \A x \in First' .. copied' : x \in Spoiled' <=> ByteAt(ring', x - First') = 0
    BY <1>p DEF SpoiledFacts
<1>6. First' = First + 1 /\ First <= copied
    BY <1>1, <1>2, <1>3, <1>4, <1>5
<1>7. PopByte(ring) = IF First \in Spoiled THEN 0 ELSE First
  <2>1. First \in First .. copied /\ First - First = 0
      BY <1>4, <1>6
  <2>2. First \in Spoiled <=> ByteAt(ring, 0) = 0
      BY <1>4, <2>1
  <2>3. ByteAt(ring, 0) \in {0, First}
    <3>1. 0 \in 0 .. Used(ring) - 1 /\ copied - Used(ring) + 0 + 1 = First
        BY <1>3, <1>4 DEF First
    <3>2. Holds(0)
        BY <3>1, RingInvMeans DEF IndInv, UartInv
    <3> QED BY <3>1, <3>2 DEF Holds
  <2> QED BY <1>2, <2>2, <2>3
<1>8. ASSUME NEW x \in First .. copied
      PROVE  x \in Spoiled' <=> x \in Spoiled \ {First}
  <2>1. CASE x \in First' .. copied'
    <3>1. /\ x \in First .. copied /\ x # First
          /\ x - First' \in 0 .. Used(ring') - 1 /\ x - First' + 1 = x - First
        BY <1>1, <1>2, <1>4, <1>5, <1>6, <2>1
    <3>2. ByteAt(ring', x - First') = ByteAt(ring, x - First)
        BY <1>2, <3>1
    <3> QED BY <1>4, <1>5, <2>1, <3>1, <3>2
  <2>2. CASE x \notin First' .. copied'
      BY <1>1, <1>4, <1>5, <1>6, <2>2
  <2> QED BY <2>1, <2>2
<1>9. Spoiled' = Spoiled \ {First}
  <2>1. Spoiled' \subseteq First .. copied
      BY <1>1, <1>4, <1>5, <1>6
  <2> QED BY <1>4, <1>8, <2>1
<1> QED BY <1>1, <1>6, <1>7, <1>9 DEF Lossy!Deliver, First, Spoiled

\* Everything else the two threads do is invisible.
LEMMA NextRefines ==
    ASSUME IndInv, IndInv', [Next]_vars
    PROVE  [Lossy!Next]_(Lossy!vars)
<1>1. CASE UNCHANGED vars
    BY <1>1 DEF vars, Lossy!vars, copied, Used, SlotOf
<1>2. CASE \/ WorkerRead \/ WorkerReadsNothing \/ WorkerReadFails \/ WorkerLock \/ WorkerTest
           \/ SpuriousWakeup \/ Initialize \/ HasMore \/ RouteTo \/ Packed \/ Write
  <2>1. UNCHANGED <<ring, got>> /\ copied' = copied
      BY <1>2, OtherIndInv
  <2> QED BY <2>1 DEF Lossy!vars, Used, SlotOf
<1>3. CASE CopyByte
    BY <1>3, CopyRefines DEF Lossy!Next
<1>4. CASE PackByte
    BY <1>4, PackRefines DEF Lossy!Next
<1>5. CASE ReadByte
    BY <1>5, ReadRefines DEF Lossy!Next
<1> QED BY <1>1, <1>2, <1>3, <1>4, <1>5 DEF Next, Worker, Device, Routing, Poll, Take, Starts

\* uart_server, uart_has_more, uart_read_byte and uart_route_to implement
\* LossyStream: only an overflow loses bytes, the oldest, and only a reply
\* changes them.
THEOREM UartRefines == Spec => ImplementsLossyStream
<1>1. Init => Lossy!Init
    BY InitRefines
<1>2. IndInv /\ IndInv' /\ [Next]_vars => [Lossy!Next]_(Lossy!vars)
    BY NextRefines
<1> QED BY <1>1, <1>2, IndInvariant, PTL DEF Spec, ImplementsLossyStream, Lossy!Spec

-----------------------------------------------------------------------------
\* What the parser has been given so far: bytes of the device in their order, none twice,
\* all of them older than those in the ring, and the zeros of replies among them.
ReadInOrder ==
    /\ \A x \in 1 .. Len(got) : got[x] < First
    /\ \A x, y \in 1 .. Len(got) : x < y /\ got[y] # 0 => got[x] < got[y]

\* Only read_byte returns a byte, and it is newer than those before it.
LEMMA NextInOrder ==
    ASSUME IndInv, IndInv', ReadInOrder, [Next]_vars
    PROVE  ReadInOrder'
<1>1. got \in Seq(Nat) /\ Len(got) \in Nat
    BY DEF IndInv, UartTypeOK
<1>2. First \in Nat /\ copied \in Nat /\ First <= copied + 1
    BY SpoiledMeans, RingAssumption DEF SpoiledFacts
<1>p. SpoiledFacts'
    BY SpoiledMeans, PTL
<1>3. First' \in Nat
    BY <1>p DEF SpoiledFacts
<1>4. [Lossy!Next]_(Lossy!vars)
    BY NextRefines
<1>5. CASE Lossy!Receive \/ Lossy!Spoil \/ UNCHANGED Lossy!vars
  <2>1. got' = got /\ (First' = First + 1 \/ First' = First)
      BY <1>5 DEF Lossy!Receive, Lossy!Spoil, Lossy!vars, First
  <2> QED BY <1>1, <1>2, <1>3, <2>1 DEF ReadInOrder
<1>6. CASE Lossy!Deliver
  <2>1. /\ First' = First + 1
        /\ got' = Append(got, 0) \/ got' = Append(got, First)
      BY <1>6 DEF Lossy!Deliver, First
  <2>2. PICK b \in {0, First} : got' = Append(got, b)
      BY <2>1
  <2>3. /\ Len(got') = Len(got) + 1 /\ b \in Nat
        /\ \A x \in 1 .. Len(got') : got'[x] = IF x = Len(got) + 1 THEN b ELSE got[x]
      BY <1>1, <1>2, <2>2
  <2>4. \A x \in 1 .. Len(got) : got[x] \in Nat /\ got[x] < First
      BY <1>1 DEF ReadInOrder
  <2>5. \A x \in 1 .. Len(got') : got'[x] < First'
      BY <1>1, <1>2, <2>1, <2>3, <2>4
  <2>6. ASSUME NEW x \in 1 .. Len(got'), NEW y \in 1 .. Len(got'), x < y, got'[y] # 0
        PROVE  got'[x] < got'[y]
    <3>1. x \in 1 .. Len(got) /\ got'[x] = got[x]
        BY <1>1, <2>3, <2>6
    <3>2. CASE y = Len(got) + 1
        BY <2>2, <2>3, <2>4, <2>6, <3>1, <3>2
    <3>3. CASE y # Len(got) + 1
        BY <1>1, <2>3, <2>6, <3>1, <3>3 DEF ReadInOrder
    <3> QED BY <3>2, <3>3
  <2> QED BY <2>5, <2>6 DEF ReadInOrder
<1> QED BY <1>4, <1>5, <1>6 DEF Lossy!Next

\* However often the ring wraps and overflows, uart_read_byte returns no byte twice and
\* none before an older one.
THEOREM UartReadsInOrder == Spec => []ReadInOrder
<1>1. Init => ReadInOrder
    BY DEF Init, ReadInOrder
<1>2. IndInv /\ IndInv' /\ ReadInOrder /\ [Next]_vars => ReadInOrder'
    BY NextInOrder
<1> QED BY <1>1, <1>2, IndInvariant, PTL DEF Spec

-----------------------------------------------------------------------------
\* Nothing is routed to the port: it is only listened to.
ListenOnly == [][~RouteTo]_vars

\* Then no reply is being packed, and none was.
Unspoiled == gpc \in {"away", "read"} /\ Spoiled = {} /\ RawInput

\* Without a reply nothing writes to the array but uart_server.
LEMMA NextUnspoiled ==
    ASSUME IndInv, IndInv', Unspoiled, [Next]_vars, [~RouteTo]_vars
    PROVE  Unspoiled'
<1>1. got \in Seq(Nat) /\ Len(got) \in Nat
    BY DEF IndInv, UartTypeOK
<1>2. CASE UNCHANGED vars
    BY <1>2 DEF vars, Unspoiled, Spoiled, RawInput, copied, Used, SlotOf
<1>3. CASE \/ WorkerRead \/ WorkerReadsNothing \/ WorkerReadFails \/ WorkerLock \/ WorkerTest
           \/ SpuriousWakeup \/ Initialize \/ HasMore
  <2>1. UNCHANGED <<ring, got>> /\ copied' = copied
      BY <1>3, OtherIndInv
  <2>2. gpc' \in {"away", "read"}
      BY <1>3 DEF Unspoiled, WorkerRead, WorkerReadsNothing, WorkerReadFails, WorkerLock,
                  WorkerTest, SpuriousWakeup, Initialize, HasMore
  <2> QED BY <2>1, <2>2 DEF Unspoiled, Spoiled, RawInput, Used, SlotOf
<1>4. CASE CopyByte
  <2>1. Lossy!Receive
      BY <1>4, CopyRefines
  <2>2. Spoiled' = {} /\ got' = got /\ gpc' = gpc
      BY <1>4, <2>1 DEF Lossy!Receive, Spoiled, Unspoiled, CopyByte
  <2> QED BY <2>2 DEF Unspoiled, RawInput
<1>5. CASE ReadByte
  <2>1. Lossy!Deliver
      BY <1>5, ReadRefines
  <2>2. First \in Nat /\ First <= copied /\ copied \in Nat
      BY <2>1, SpoiledMeans DEF SpoiledFacts, Lossy!Deliver, First
  <2>3. First # 0
      BY SpoiledMeans, RingInvMeans DEF SpoiledFacts, IndInv, UartInv, RingInv, First
  <2>4. Spoiled' = {} /\ got' = Append(got, First) /\ gpc' = "away"
      BY <1>5, <2>1 DEF Lossy!Deliver, Spoiled, First, Unspoiled, ReadByte
  <2>5. RawInput'
      BY <1>1, <2>2, <2>3, <2>4 DEF RawInput, Unspoiled
  <2> QED BY <2>4, <2>5 DEF Unspoiled
<1>6. ~(RouteTo \/ PackByte \/ Packed \/ Write) \/ UNCHANGED vars
    BY DEF Unspoiled, PackByte, Packed, Write
<1> QED BY <1>2, <1>3, <1>4, <1>5, <1>6
        DEF Next, Worker, Device, Routing, Poll, Take, Starts

\* What the run uart_raw_input finds is due to replies alone: a port to which nothing is
\* routed gives its parser bytes of the device and nothing else.
THEOREM ListenOnlyIsRaw == Spec /\ ListenOnly => []RawInput
<1>1. Init => Unspoiled
    BY InitRefines DEF Init, Lossy!Init, Unspoiled, RawInput, Spoiled
<1>2. IndInv /\ IndInv' /\ Unspoiled /\ [Next]_vars /\ [~RouteTo]_vars => Unspoiled'
    BY NextUnspoiled
<1>3. Unspoiled => RawInput
    BY DEF Unspoiled
<1> QED BY <1>1, <1>2, <1>3, IndInvariant, PTL DEF Spec, ListenOnly

\* The device does not hang up.
StaysOnline == [][~WorkerReadsNothing]_vars

\* Then whatever is to be copied is not nothing.
SomethingToCopy == alive /\ (wpc = "filled" => left > 0)

\* What the run uart_hangup finds is due to the hang-up alone: a read that returns bytes
\* never trips the assertion of ring_buffer_copy_from.
THEOREM OnlineCopies == Spec /\ StaysOnline => []CopySize
<1>1. Init => SomethingToCopy
    BY DEF Init, SomethingToCopy
<1>2. ASSUME SomethingToCopy, [Next]_vars, [~WorkerReadsNothing]_vars
      PROVE  SomethingToCopy'
  <2>1. CASE UNCHANGED vars
      BY <1>2, <2>1 DEF vars, SomethingToCopy
  <2>2. CASE WorkerRead
      BY <1>2, <2>2, UartAssumption DEF WorkerRead, SomethingToCopy
  <2>3. CASE Next /\ ~WorkerReadsNothing /\ ~WorkerRead
      BY <1>2, <2>3 DEF Next, Worker, Device, Routing, Poll, Take, Starts, WorkerReadFails,
                  WorkerLock, CopyByte, WorkerTest, AfterTest, SpuriousWakeup, Initialize,
                  HasMore, ReadByte, Signalled, RouteTo, PackByte, Packed, Write,
                  SomethingToCopy
  <2> QED BY <1>2, <2>1, <2>2, <2>3
<1>3. SomethingToCopy => CopySize
    BY DEF SomethingToCopy, CopySize
<1> QED BY <1>1, <1>2, <1>3, PTL DEF Spec, StaysOnline
=============================================================================
