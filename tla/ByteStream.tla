----------------------------- MODULE ByteStream -----------------------------
(***************************************************************************)
(* What a port promises its parser: the bytes the peer sent, each once and *)
(* in order, and no new chunk before the last one has been consumed.       *)
(* Bytes are numbered in the order in which they are received.             *)
(***************************************************************************)
EXTENDS Naturals, Sequences

CONSTANT MaxChunk       \* the most bytes one receive returns

VARIABLES received,     \* how many bytes have been received
          output        \* the bytes the parser was given

vars == <<received, output>>

Init == received = 0 /\ output = <<>>

Receive ==
    /\ Len(output) = received
    /\ \E n \in 1 .. MaxChunk : received' = received + n
    /\ UNCHANGED output

Deliver ==
    /\ Len(output) < received
    /\ output' = Append(output, Len(output) + 1)
    /\ UNCHANGED received

Next == Receive \/ Deliver

Spec == Init /\ [][Next]_vars
=============================================================================
