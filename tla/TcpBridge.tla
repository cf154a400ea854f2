----------------------------- MODULE TcpBridge -----------------------------
(***************************************************************************)
(* The bridge tool (tcp_bridge.cc): an adapter connects to a server on     *)
(* each side, and two tunnels carry packets between them.  A tunnel is     *)
(* named after the side it receives from, uplink "up" and downlink "down"; *)
(* its receiver thread also connects the adapter of that side, its sender  *)
(* thread sends on the adapter of the other.  So each adapter's fd is      *)
(* written by one thread and used by two, without a lock.                  *)
(*                                                                         *)
(* terminate is never set, for nothing deletes a tunnel: main never        *)
(* returns.  The pacing of the sender is a pause, and is left out.         *)
(***************************************************************************)
EXTENDS Naturals, Sequences, ClientSockets

CONSTANTS MaxQueue,     \* max_queue_size of each tunnel, 0 for none
          MaxPackets    \* bound: tunnel t receives while the two have less than MaxPackets[t]

Sides == {"up", "down"}
Other(a) == IF a = "up" THEN "down" ELSE "up"

ASSUME BridgeAssumption ==
    Sockets \subseteq Nat /\ MaxQueue \in [Sides -> Nat] /\ MaxPackets \in [Sides -> Nat]

VARIABLES
    fd,           \* each adapter's fd
    rpc,          \* where each tunnel's receiver thread is
    queue,        \* its packets, by number
    pushed,       \* history: how many it has queued in all
    spc,          \* where its sender thread is
    hand,         \* the sender's packet, 0 if it has none
    sent,         \* history: the packets that were sent
    alive         \* the process has not been killed

socketVars   == <<fd, sock>>
receiverVars == <<rpc, pushed>>
senderVars   == <<spc, hand, sent>>
tunnelVars   == <<receiverVars, queue, senderVars>>
vars == <<socketVars, tunnelVars, alive>>

\* "recv": in Adapter::recv, connecting if there is no connection; "giveup":
\* connect has failed; "closed": close(fd) has returned.
ReceiverStates == {"recv", "giveup", "closed"}

\* "next": about to look at the queue; "asleep": in cnd_wait; "test": about to
\* ask is_connected; "send": in send; "trim": about to look at the queue's size.
SenderStates == {"next", "asleep", "test", "send", "trim"}

FdIs(a, states) == fd[a] # NoSocket /\ sock[fd[a]] \in states
Connected(a)    == FdIs(a, {"up"})

-----------------------------------------------------------------------------
\* main: both adapters without a connection, all four threads started.
Init ==
    /\ SocketsInit /\ fd = [a \in Sides |-> NoSocket]
    /\ rpc = [t \in Sides |-> "recv"] /\ spc = [t \in Sides |-> "next"]
    /\ queue = [t \in Sides |-> <<>>] /\ pushed = [t \in Sides |-> 0]
    /\ hand = [t \in Sides |-> 0] /\ sent = [t \in Sides |-> <<>>]
    /\ alive = TRUE

(***************************************************************************)
(* The servers.  One that does not read makes a send last longer, which    *)
(* needs no state of its own here.                                         *)
(***************************************************************************)
Environment ==
    /\ alive
    /\ \E s \in Sockets : Leaves(s)
    /\ UNCHANGED <<fd, tunnelVars, alive>>

(***************************************************************************)
(* The receiver thread of tunnel t, receiver_thread, and the adapter t.    *)
(***************************************************************************)
Goes(t, from, to) == rpc[t] = from /\ rpc' = [rpc EXCEPT ![t] = to]

\* TCPAdapter::connect.  socket() makes the lowest descriptor there is; it fails when
\* none is left, and nothing has changed when it is tried again.
MakeSocket(t) ==
    /\ rpc[t] = "recv" /\ fd[t] = NoSocket
    /\ \E s \in Sockets :
         /\ \A lower \in Sockets : lower < s => sock[lower] # "closed"
         /\ Turns(s, {"closed"}, "fresh")
         /\ fd' = [fd EXCEPT ![t] = s]
    /\ UNCHANGED rpc

\* connect is called.  A setsockopt or inet_pton that fails looks like a connect
\* that does so at once.
CallConnect(t) ==
    /\ rpc[t] = "recv" /\ Turns(fd[t], {"fresh"}, "connecting")
    /\ UNCHANGED <<fd, rpc>>

\* It returns, with a connection or without.
ConnectSucceeds(t) ==
    /\ rpc[t] = "recv" /\ Returns(fd[t], TRUE)
    /\ UNCHANGED <<fd, rpc>>

ConnectFails(t) ==
    /\ Returns(fd[t], FALSE) /\ Goes(t, "recv", "giveup")
    /\ UNCHANGED fd

\* Mutant of GiveUp: `failed' leaves the descriptor in place.
GiveUpKeepsFd(t) ==
    /\ Goes(t, "giveup", "recv")
    /\ UNCHANGED socketVars

\* failed: fd = -1, and the socket stays open for ever.
GiveUp(t) ==
    /\ Goes(t, "giveup", "recv")
    /\ fd' = [fd EXCEPT ![t] = NoSocket]
    /\ UNCHANGED sock

\* do_recv with an error: nothing is closed, the next call sees the end.
ReceiveFails(t) ==
    /\ rpc[t] = "recv" /\ Turns(fd[t], {"aborted"}, "reset")
    /\ UNCHANGED <<fd, rpc>>

\* do_recv at the end of the stream: close(fd) ...
EndOfConnection(t) ==
    /\ Turns(fd[t], {"gone", "reset"}, "closed") /\ Goes(t, "recv", "closed")
    /\ UNCHANGED fd

\* Mutant of ForgetSocket: the field keeps the closed descriptor.
ForgetNothing(t) ==
    /\ Goes(t, "closed", "recv")
    /\ UNCHANGED socketVars

\* ... and then fd = -1.
ForgetSocket(t) ==
    /\ Goes(t, "closed", "recv")
    /\ fd' = [fd EXCEPT ![t] = NoSocket]
    /\ UNCHANGED sock

\* Mutant of Woken: the signal is forgotten.
NotWoken(t) == spc[t]

\* cnd_signal wakes the sender if it sleeps.
Woken(t) == IF spc[t] = "asleep" THEN "next" ELSE spc[t]

\* Mutant of Enqueued: push_front for push_back.
EnqueuedInFront(t, p) == <<p>> \o queue[t]

Enqueued(t, p) == Append(queue[t], p)

\* A packet is read, which the kernel delivers before the end of the stream, and is
\* queued under the lock; until then it is the receiver's own.
Receive(t) ==
    /\ rpc[t] = "recv" /\ FdIs(t, WasConnected)
    /\ pushed["up"] + pushed["down"] < MaxPackets[t]
    /\ pushed' = [pushed EXCEPT ![t] = @ + 1]
    /\ queue' = [queue EXCEPT ![t] = Enqueued(t, pushed[t] + 1)]
    /\ spc' = [spc EXCEPT ![t] = Woken(t)]
    /\ UNCHANGED <<socketVars, rpc>>

Connecting(t) ==
    /\ MakeSocket(t) \/ CallConnect(t) \/ ConnectFails(t) \/ GiveUp(t) \/ ReceiveFails(t)
          \/ EndOfConnection(t) \/ ForgetSocket(t)
    /\ UNCHANGED <<queue, pushed, spc>>

ReceiverStep(t) == alive /\ Connecting(t) /\ UNCHANGED <<hand, sent, alive>>

ConnectStep(t) == alive /\ ConnectSucceeds(t) /\ UNCHANGED <<queue, pushed, senderVars, alive>>

ReceiveStep(t) == alive /\ Receive(t) /\ UNCHANGED <<hand, sent, alive>>

(***************************************************************************)
(* The sender thread of tunnel t, sender_thread.                           *)
(***************************************************************************)
Proceeds(t, from, to) == spc[t] = from /\ spc' = [spc EXCEPT ![t] = to]

\* An empty queue puts the sender to sleep.  A wake-up without a signal changes
\* nothing: the sender has the lock when it looks again, and finds the queue empty.
Sleep(t) ==
    /\ queue[t] = <<>> /\ Proceeds(t, "next", "asleep")
    /\ UNCHANGED <<socketVars, queue, hand, sent>>

\* front and pop_front.
Pop(t) ==
    /\ queue[t] # <<>> /\ Proceeds(t, "next", "test")
    /\ hand' = [hand EXCEPT ![t] = Head(queue[t])]
    /\ queue' = [queue EXCEPT ![t] = Tail(queue[t])]
    /\ UNCHANGED <<socketVars, sent>>

\* Adapter::send: without a connection the packet is gone.
DropOne(t) ==
    /\ fd[Other(t)] = NoSocket /\ Proceeds(t, "test", "trim")
    /\ hand' = [hand EXCEPT ![t] = 0]
    /\ UNCHANGED <<socketVars, queue, sent>>

IsConnected(t) ==
    /\ fd[Other(t)] # NoSocket /\ Proceeds(t, "test", "send")
    /\ UNCHANGED <<socketVars, queue, hand, sent>>

\* do_send with the descriptor as it is by now; its result is not looked at.
Send(t) ==
    /\ Proceeds(t, "send", "trim")
    /\ \E taken, survives \in BOOLEAN :
         /\ SendOn(fd[Other(t)], taken, survives)
         /\ sent' = IF taken THEN [sent EXCEPT ![t] = Append(@, hand[t])] ELSE sent
         /\ alive' = survives
    /\ hand' = [hand EXCEPT ![t] = 0]
    /\ UNCHANGED <<fd, queue>>

Overflows(t) == MaxQueue[t] > 0 /\ Len(queue[t]) > MaxQueue[t]

\* The queue is looked at only here, after a packet: too long, it is cleared.
Trim(t) ==
    /\ Proceeds(t, "trim", "next")
    /\ queue' = [queue EXCEPT ![t] = IF Overflows(t) THEN <<>> ELSE @]
    /\ UNCHANGED <<socketVars, hand, sent>>

SenderStep(t) ==
    /\ alive
    /\ \/ Send(t)
       \/ (Sleep(t) \/ Pop(t) \/ DropOne(t) \/ IsConnected(t) \/ Trim(t)) /\ UNCHANGED alive
    /\ UNCHANGED receiverVars

Next == \/ Environment
        \/ \E t \in Sides :
             \/ ConnectStep(t) \/ ReceiverStep(t) \/ ReceiveStep(t)
             \/ SenderStep(t)

\* All four threads run; a send that has to wait is woken when it can go on.  The
\* servers are there now and then, so that attempts to connect do not fail for ever.
Spec == /\ Init /\ [][Next]_vars
        /\ \A t \in Sides : /\ WF_vars(ReceiverStep(t)) /\ SF_vars(ConnectStep(t))
                            /\ SF_vars(SenderStep(t))
-----------------------------------------------------------------------------
(***************************************************************************)
(* Properties.                                                             *)
(***************************************************************************)

BridgeTypeOK ==
    /\ fd \in [Sides -> Sockets \cup {NoSocket}]
    /\ sock \in [Sockets -> SocketStates]
    /\ rpc \in [Sides -> ReceiverStates] /\ spc \in [Sides -> SenderStates]
    /\ queue \in [Sides -> Seq(Nat)] /\ sent \in [Sides -> Seq(Nat)]
    /\ pushed \in [Sides -> Nat] /\ hand \in [Sides -> Nat]
    /\ alive \in BOOLEAN

\* Types; what has not left a tunnel is the end of what it received, in order, with no
\* gap between the sender's packet and the queue; and no wake-up is lost: a sender is
\* not asleep while there is something in its queue.
QueueInv ==
    /\ BridgeTypeOK
    /\ \A t \in Sides :
         LET behind == pushed[t] - Len(queue[t])
         IN  /\ behind >= 0
             /\ \A i \in 1 .. Len(queue[t]) : queue[t][i] = behind + i
             /\ IF spc[t] \in {"test", "send"} THEN hand[t] = behind /\ hand[t] > 0
                                                ELSE hand[t] = 0
             /\ spc[t] = "asleep" => queue[t] = <<>>

\* An adapter's descriptor is a socket of its own: the two adapters share one only
\* while a receiver is between close(fd) and fd = -1, when the number may be given
\* out again (a sender that uses it then writes to the wrong server).  And the only
\* sockets that nothing refers to are those that could not be connected.
OwnSockets ==
    /\ \A t \in Sides : rpc[t] # "closed" => ~FdIs(t, {"closed"})
    /\ fd["up"] = fd["down"] => fd["up"] = NoSocket \/ \E t \in Sides : rpc[t] = "closed"
    /\ \A s \in Sockets : sock[s] \notin {"closed", "refused"} => \E t \in Sides : fd[t] = s

\* The oldest packet that has not left tunnel t.
First(t) == IF hand[t] # 0 THEN hand[t]
            ELSE IF queue[t] # <<>> THEN Head(queue[t]) ELSE pushed[t] + 1

\* Each tunnel implements the queue that loses packets but keeps their order.
Uplink   == INSTANCE PacketQueue WITH Bound <- MaxQueue["up"], received <- pushed["up"],
                                      first <- First("up"), output <- sent["up"]
Downlink == INSTANCE PacketQueue WITH Bound <- MaxQueue["down"], received <- pushed["down"],
                                      first <- First("down"), output <- sent["down"]
ImplementsQueues == Uplink!Spec /\ Downlink!Spec

\* A packet that was received is sent or dropped; it does not stay for ever, although
\* the signal is lost on a sender that is not asleep.
BridgeDrained == \A t \in Sides : []<>(First(t) > pushed[t] \/ ~alive)

\* However often attempts fail and connections end, an adapter is connected again,
\* unless attempts that failed and the other adapter have taken every descriptor.
Exhausted(a) == \A s \in Sockets : sock[s] # "closed" /\ fd[a] # s
BridgeReconnects == \A a \in Sides : []<>(Connected(a) \/ ~alive \/ Exhausted(a))
=============================================================================
