----------------------------- MODULE SourcePort -----------------------------
(***************************************************************************)
(* A socket port as the scheduling of the gateway sees it: how many bytes  *)
(* are ready, and whether its worker may fetch more.  Having published a   *)
(* chunk, the worker rests until somebody calls it, and goes on only if    *)
(* the chunk has been consumed by then.                                    *)
(***************************************************************************)
EXTENDS Naturals

CONSTANT MaxChunk       \* the most bytes one chunk has

VARIABLES unread, worker

vars == <<unread, worker>>

Init == unread = 0 /\ worker = "free"

Publish ==
    /\ worker = "free" /\ unread = 0
    /\ unread' \in 1 .. MaxChunk /\ worker' = "resting"

Take == unread > 0 /\ unread' = unread - 1 /\ UNCHANGED worker

\* A signal, or a wake-up without one.
Call == worker = "resting" /\ worker' = "called" /\ UNCHANGED unread

Resume ==
    /\ worker = "called"
    /\ worker' = IF unread = 0 THEN "free" ELSE "resting"
    /\ UNCHANGED unread

Next == Publish \/ Take \/ Call \/ Resume

Spec == Init /\ [][Next]_vars
=============================================================================
