----------------------------- MODULE RingBuffer -----------------------------
(***************************************************************************)
(* The byte ring of ring_buffer.h: two indices that run around an array,   *)
(* and a flag that tells a full ring from an empty one.                    *)
(***************************************************************************)
EXTENDS Naturals, Sequences

CONSTANT RingSize       \* rb->max

ASSUME RingAssumption == RingSize \in Nat \ {0}

Slots == 0 .. RingSize - 1

Ring == [buffer : [Slots -> Nat], head : Slots, tail : Slots, full : BOOLEAN]

\* ring_buffer_init.  It leaves the array as it is; what is in it is not a
\* byte of the stream, which is what 0 stands for.
RingInit == [buffer |-> [x \in Slots |-> 0], head |-> 0, tail |-> 0, full |-> FALSE]

\* Mutant of IsEmpty: the flag is not looked at.
IsEmptyByIndex(rb) == rb.head = rb.tail

IsEmpty(rb) == ~rb.full /\ rb.head = rb.tail

\* Mutant of Following: the index is not reduced.
FollowingUnreduced(x) == x + 1

Following(x) == (x + 1) % RingSize

\* Mutant of Push: a push into a full ring leaves the tail where it is.
PushKeepsTail(rb, byte) ==
    [buffer |-> [rb.buffer EXCEPT ![rb.head] = byte], head |-> Following(rb.head),
     tail |-> rb.tail, full |-> rb.full \/ Following(rb.head) = rb.tail]

\* ring_buffer_push, and one turn of the loop of ring_buffer_copy_from: a full
\* ring gives up its oldest byte.
Push(rb, byte) ==
    LET head == Following(rb.head)
        full == rb.full \/ head = rb.tail
    IN  [buffer |-> [rb.buffer EXCEPT ![rb.head] = byte], head |-> head,
         tail |-> IF full THEN head ELSE rb.tail, full |-> full]

\* Mutant of Popped: the flag stays.
PoppedStaysFull(rb) == IF IsEmpty(rb) THEN rb ELSE [rb EXCEPT !.tail = Following(@)]

\* ring_buffer_pop: the byte it returns, 0 if there is none, and what is left.
PopByte(rb) == IF IsEmpty(rb) THEN 0 ELSE rb.buffer[rb.tail]
Popped(rb) == IF IsEmpty(rb) THEN rb
              ELSE [rb EXCEPT !.tail = Following(@), !.full = FALSE]

\* ring_buffer_size
Used(rb) == IF rb.full THEN RingSize
            ELSE IF rb.head >= rb.tail THEN rb.head - rb.tail
                                       ELSE RingSize + rb.head - rb.tail

\* The slot of the n-th unread byte, counting from 0.
SlotOf(rb, n) == (rb.tail + n) % RingSize
=============================================================================
