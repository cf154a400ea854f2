---------------------------- MODULE LossyStream ----------------------------
(***************************************************************************)
(* What the serial port promises its parser.  Bytes are numbered in the    *)
(* order in which the device sent them; the port keeps at most Capacity of *)
(* them.  A byte that arrives when so many are unread costs the oldest of  *)
(* them, and what the gateway sends may spoil bytes that are unread at     *)
(* that time: the parser is given a 0 in their place.  Nothing else is     *)
(* lost, repeated, changed or put in another order.                        *)
(***************************************************************************)
EXTENDS Naturals, Sequences

CONSTANT Capacity

VARIABLES received,     \* how many bytes the port has stored
          first,        \* the oldest byte that is unread, or the next to come
          spoiled,      \* the unread bytes that were overwritten by a reply
          output        \* the bytes the parser was given

vars == <<received, first, spoiled, output>>

Init == received = 0 /\ first = 1 /\ spoiled = {} /\ output = <<>>

Receive ==
    /\ received' = received + 1
    /\ first' = IF received' - first = Capacity THEN first + 1 ELSE first
    /\ spoiled' = spoiled \cap (first' .. received)
    /\ UNCHANGED output

Spoil ==
    /\ spoiled \subseteq spoiled' /\ spoiled' \subseteq first .. received
    /\ UNCHANGED <<received, first, output>>

Deliver ==
    /\ first <= received
    /\ output' = Append(output, IF first \in spoiled THEN 0 ELSE first)
    /\ first' = first + 1
    /\ spoiled' = spoiled \ {first}
    /\ UNCHANGED received

Next == Receive \/ Spoil \/ Deliver

Spec == Init /\ [][Next]_vars
=============================================================================
