--------------------------- MODULE ClientSockets ---------------------------
(***************************************************************************)
(* The TCP sockets of a program that connects to servers, as the kernel    *)
(* and the servers move them: what source_tcpout.c and tcp_bridge.cc rely  *)
(* on, and what may happen to them.  A descriptor that is closed may be    *)
(* given out again by any later socket().                                  *)
(***************************************************************************)

CONSTANTS Sockets,      \* the descriptors the process may have open
          NoSocket      \* fd == -1

ASSUME SocketsAssumption == NoSocket \notin Sockets

VARIABLE sock           \* what has become of each descriptor

\* "closed": no such descriptor; "fresh": made, connect not called; "connecting":
\* in connect; "refused": not connected, and nobody tries to; "up": connected, and
\* the server reads; "stalled": it does not; "gone": it has closed the connection;
\* "aborted": it has reset it; "reset": and one call has been told.
SocketStates == {"closed", "fresh", "connecting", "refused",
                 "up", "stalled", "gone", "aborted", "reset"}

\* Over such a socket recv may have data, and it stays so until close().
WasConnected == {"up", "stalled", "gone", "aborted", "reset"}

\* Socket s turns from one of the states `from' to state `to'.
Turns(s, from, to) ==
    /\ s # NoSocket /\ sock[s] \in from
    /\ sock' = [sock EXCEPT ![s] = to]

SocketsInit == sock = [s \in Sockets |-> "closed"]

\* What the server at the other end does.
Stalls(s) == Turns(s, {"up"}, "stalled")
Reads(s)  == Turns(s, {"stalled"}, "up")
Leaves(s) == \E end \in {"gone", "aborted"} : Turns(s, {"up", "stalled"}, end)

\* A connect that is under way returns.
Returns(s, server) == Turns(s, {"connecting"}, IF server THEN "up" ELSE "refused")

(***************************************************************************)
(* send(s, ...) returns, with all bytes taken or with an error, or kills   *)
(* the process by SIGPIPE, which is not ignored.  It does not return while *)
(* the socket is connecting or the server does not read.                   *)
(***************************************************************************)
\* EBADF
BadDescriptor(s) == (s # NoSocket => sock[s] = "closed") /\ UNCHANGED sock

SendOn(s, taken, survives) ==
    \/ BadDescriptor(s) /\ ~taken /\ survives
    \* EPIPE; a send that waited for the connect may be given its error instead.
    \/ Turns(s, {"fresh"}, "fresh") /\ ~taken /\ ~survives
    \/ Turns(s, {"refused"}, "refused") /\ ~taken
    \/ Turns(s, {"up"}, "up") /\ taken /\ survives
    \* The server has closed: the bytes are accepted, and answered by a reset.
    \/ Turns(s, {"gone"}, "gone") /\ taken /\ survives
    \/ Turns(s, {"gone"}, "reset") /\ taken /\ survives
    \* ECONNRESET, once; EPIPE from then on.
    \/ Turns(s, {"aborted"}, "reset") /\ ~taken /\ survives
    \/ Turns(s, {"reset"}, "reset") /\ ~taken /\ ~survives
=============================================================================
