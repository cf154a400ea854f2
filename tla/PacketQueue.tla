---------------------------- MODULE PacketQueue ----------------------------
(***************************************************************************)
(* What a tunnel of the bridge promises.  Packets are numbered in the      *)
(* order in which they were received.  Each leaves the queue in that order *)
(* and once: it is sent, or it is dropped when its turn comes, or it goes  *)
(* with all that are queued when those are more than Bound (0: never).     *)
(***************************************************************************)
EXTENDS Naturals, Sequences

CONSTANT Bound

VARIABLES received,     \* how many packets have been received
          first,        \* the oldest that has not left, or the next to come
          output        \* the packets that were sent

vars == <<received, first, output>>

Init == received = 0 /\ first = 1 /\ output = <<>>

Receive == received' = received + 1 /\ UNCHANGED <<first, output>>

Leave == first <= received /\ first' = first + 1 /\ UNCHANGED received

Send == Leave /\ output' = Append(output, first)
Drop == Leave /\ UNCHANGED output

Clear ==
    /\ Bound > 0 /\ received - first + 1 > Bound
    /\ first' = received + 1
    /\ UNCHANGED <<received, output>>

Next == Receive \/ Send \/ Drop \/ Clear

Spec == Init /\ [][Next]_vars
=============================================================================
