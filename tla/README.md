# A verification project for the Secure MAVLink Gateway

The gateway sits between a vehicle's flight controller (VMC) and the ground
side (a legacy ground station, and enclaves). It reads MAVLink frames from its
ports, decides with a route table and a list of security policies where each
frame goes, and writes it there. This directory holds TLA+ models of it, TLC
configurations that check them on small instances, and TLAPS proofs for
instances of every size.

Source references below are relative to `src/`.

## 1. Inventory of the system

| Part | Source | State it keeps | Operations |
|---|---|---|---|
| Pipeline | `lib/secure_gateway.c`, `main.c` | slots of sources and sinks, one message buffer and one MAVLink parser channel per source, `policy_enabled`, `transform_enabled` | `pipeline_init`, `pipeline_spin`, `pipeline_push`, `pipeline_inspect`, `route_table_route`, `add_transformer` |
| Policies and routes | `lib/security_policies.c`, `lib/route_table.c` | none that changes | match and check functions, the default table |
| Transformers | `lib/transformer_xor.c` | none | `xor_encode`, `xor_decode` (in place, on the message buffer) |
| Console | `lib/plugins/console.c` | time of the last poll | one key handler per switch |
| TCP port | `lib/source_tcp.c` | `fd`, `connection`, `buffer`, `cur_read`, `buffer_size`, a thread, a lock, a condition variable | the worker `tcp_server`; `has_more`, `read_byte`, `route_to` for the gateway thread |
| UDP port | `lib/source_udp.c` | as TCP, with the client's address for `connection` | as TCP |
| TCP client port | `lib/source_tcpout.c` | as TCP, with one socket `fd` that connects and reconnects | the worker `tcp_server` with `tcp_connect_to`; `has_more`, `read_byte`, `route_to` |
| UART port | `lib/source_uart.c`, `lib/ring_buffer.h` | `fd`, a ring of received bytes, a thread, a lock, a condition variable | the worker `uart_server`; `has_more`, `read_byte`, `route_to` |
| Performance accounting | `lib/secure_gateway.c` (`perf_*`) | counters, and the last sequence number per port | update per message, a report every 5 seconds |
| TCP bridge | `tools/tcp_bridge.cc` | two adapters, each with a socket that connects; two tunnels, each with two threads and a queue | connect, receive, queue, send, clear a queue that is too long |
| CertiKOS ports | `lib/source_partee.c`, `lib/source_thinros_certikos.c`, `lib/source_certikos_uart.c` | the message in hand and how much of it is read; no thread | `has_more` (which fetches the next message), `read_byte` |
| Ringleader port and log | `lib/source_ringleader.c`, `lib/log_ringleader.c` | wrappers of a library outside the repository, in no build | |

### How the parts interact

There is one *gateway thread*: `main` calls `pipeline_spin` for ever. It visits
every source slot, and as long as a source's `has_more` says yes it takes a
byte with `read_byte` and feeds the parser of that source. Every complete frame
goes through `pipeline_push` at once: route, inspect, then one call of `route`
per sink. The console is polled at the end of a pass.

Each port adds one *worker thread* that blocks on the port's device or socket.
The two threads of a port share the port object. The socket ports hand over one
chunk at a time, and the worker waits until it is consumed; the UART port hands
over a ring of bytes. A port is a source and a sink at once, and a reply is
packed and sent by the gateway thread on the same object. The CertiKOS ports have no
worker: `has_more` itself asks for the next message.

The bridge is a program of its own. It connects an adapter to a server on each side;
each of its two tunnels has a receiver thread, which also connects the adapter it
receives from, and a sender thread, which sends on the other adapter, with a queue
between them. `fd` of an adapter is so written by one thread and read by another,
without a lock.

### What is hard

* **Interleaving.** `has_more` of the socket ports compares two fields without
  the lock while the worker stores them; `recv` fills the buffer without the
  lock; `route_to` reads the connection the worker is closing; the UART port
  packs replies into the array that its ring lives in; the bridge's senders use a
  descriptor that may be closed and given to the other adapter meanwhile.
* **Ordering within a message's way.** The refusal of a message is one bit among
  those of its route, in a buffer that still holds the last message's bits;
  transformers work in place on the one buffer several sinks read.
* **Failures.** Clients leave while their bytes are unread or a reply to them is
  sent; initialization fails half way and is tried again; a device hangs up; a
  `connect` fails and leaves a socket behind that is not connected.
* **Liveness.** Signals on a condition variable are lost when nobody waits; one
  blocking `send` stops every port; `pipeline_spin` drains one source before it
  looks at the next; the clients of servers have to connect again, for ever.
* **Bounds.** The ring overflows in the middle of a copy; a queue of the bridge that is
  too long is cleared as a whole; descriptors run out; 8-bit sequence numbers
  wrap.

`PROJECT.json` lists each of them, under "hazards", with its line and the
properties that cover it.

### What makes each part correct

* Pipeline: each frame reaches all the peers its source may talk to, or none,
  once and in order; it reaches none exactly when it is damaged or refused; the
  switch in force at its inspection counts; a peer sees its own transformer's
  work and no other's.
* A socket port's handoff: the parser gets the received bytes, each once and in
  order; nothing stays in the buffer for ever; the worker gets back to its socket.
* TCP port: the same across reconnections; every socket is closed; the next
  client is served; the gateway outlives its clients.
* UART port and ring: only the oldest bytes are lost, only to an overflow; the
  order is kept; the worker does not hang on a full ring.
* TCP client port: the same, and one socket at a time; it gets connected again.
* The gateway thread's time: no peer of a socket port keeps the thread to itself by what it
  sends. (By not reading, the peer of a TCP port does.)
* Bridge: packets leave each tunnel in order and once; an adapter uses a socket of its
  own and gets connected again.
* Performance accounting: the drop count is the number of sequence numbers skipped.

## 2. Modules

Abstract specifications are in capitals; an arrow says that a module implements one.

```
 Ports ─┬─ Pipeline ──► POLICYGATE            MCPipeline, PipelineProofs
        └─ Gateway                            MCGateway, GatewayProofs

 ChunkHandoff ──► BYTESTREAM, SOURCEPORT      ChunkHandoffProofs
   ├─ TcpServer                               TcpServerProofs
   ├─ UdpPort                                 UdpPortProofs
   └─ TcpClient ─── ClientSockets             TcpClientProofs

 TcpBridge ───► PACKETQUEUE (twice)           MCTcpBridge, TcpBridgeProofs
   └─ ClientSockets

 RingBuffer ─── UartPort ──► LOSSYSTREAM      UartPortProofs
 PerfCounters                                 GatewayProofs
```

`Gateway` takes a socket port's part in its composition from `SourcePort`, which is
what `ChunkHandoff` is shown to implement: the scheduling can be checked without the
protocol inside the ports. `UsesPorts` closes the composition from the other side: `Gateway`
does nothing to a socket port that `SourcePort` does not allow.

### Ports, PolicyGate, Pipeline, MCPipeline

`Ports` has the identifiers of sources and sinks, with the values of the C
enumerations (the sink loop runs in that order), and what the policies and
transformers can tell of a frame: its message, whether it addresses the fence,
whether its value is zero, whether its payload is enciphered, and whether its
checksum is right.

`Pipeline` is the gateway thread. `pc`, `i` and `j` are where it is and its two
loop variables; `cur[s]` is the message buffer of source `s`, with the stale
contents of the message before. One action per stage:

| Action | Code |
|---|---|
| `NextSource`, `ParseDamaged`, `ParseFrame` | the loops of `pipeline_spin`, the parser, the source's transformer |
| `Push` | `pipeline_push` up to the sink loop: `route_table_route`, `pipeline_inspect`, the discard sink |
| `RouteSink`, `PushReturns` | the sink loop, transformer and `route` of each sink |
| `NoKey`, `PolicyKey`, `TransformerKey`, `ConsoleClosed` | `console_spin`, at the end of a pass |
| `Arrive` | a port completes one more frame (environment) |

`Refused` is the policy list in registration order. `sent` and the `index` in a
message are history variables: they say which arrival a message comes from, so
that properties can relate what leaves to what came. Bytes are grouped into
frames; the port modules deal with bytes.

`PolicyGate` is what that amounts to: one step per frame that hands it to all
attached peers or to none. `Pipeline!Gate` maps the stages to it: a frame counts
as handled from the moment `Push` has inspected it, and the sinks it has still to
visit count as served.

### ByteStream, ChunkHandoff, TcpServer, UdpPort

`ChunkHandoff` is the protocol between worker and gateway thread in all socket
ports. The unlocked comparison in `has_more` is a data race, so its two loads and
the worker's two stores are steps of their own that may happen in either order;
critical sections of the gateway thread are single steps, guarded by
`~Publishing`, i.e. the worker does not own the lock. Bytes are numbered as they
are received, and `read_byte`'s "nothing there" result is a 0. `ByteStream` is
the abstract stream.

`TcpServer` extends it to the whole TCP port: lazy initialization with its
partial failures (`InitFails` counts lost descriptors in `lost`, and notes in
`held` when one still listens and makes every later `bind` fail), accept,
disconnection (`EndOfClient` closes the socket and `ResetConnection` clears
the field, in this order, so a reply may see either), and `tcp_route_to_mt`, whose
test of the connection (`RouteTo`) and whose `send` are separate steps. Clients
connect, stall, resume, close and reset at any time; `peer` is what the kernel
knows of them.

`UdpPort` extends `ChunkHandoff` with the client a reply goes to. The worker adopts
the sender of a datagram when `has_client` is false, by stores without the lock
(`SetHasClient`, `SetAddress`) that may come in any order up to the point where it
lets go of the lock (`todo` holds those to come); `NoDatagram` is a failed or empty
receive, which forgets the client. `udp_route_to`'s test (`RouteTo`) and its `sendto`
(`Send`) are separate steps.

### ClientSockets, TcpClient

`ClientSockets` is external: the descriptors of a program that connects to servers, as
the kernel moves them. A closed descriptor may be given out again; `SendOn` has every
outcome of a `send` in every state of a socket, SIGPIPE among them.

`TcpClient` extends `ChunkHandoff` to `source_tcpout.c`. The worker makes a socket
(`MakeSocket`), connects (`CallConnect`, `ConnectReturns`), receives, and closes the socket
and resets the field in two steps (`EndOfConnection`, `ForgetSocket`). `tcp->fd` holds the
socket from `MakeSocket` on: when `connect` or what comes before it fails, the descriptor
stays, and the worker gets rid of it because the next `recv` fails on it (`Failing`).
`tcp_route_to` tests the field (`RouteTo`) and reads it again for `send` (`Send`). Servers
come, go, stall, close and reset at any time.

### SourcePort, Gateway, MCGateway

`Gateway` is how `pipeline_spin` divides its time. Each source is of a kind: a socket
port, whose worker is a `SourcePort`; the serial port, whose worker fills the ring while
it is read; or a port without a thread, whose `has_more` fetches the next message. Bytes
are counted only. `taken` and `wakeups` are history variables of the visit under way.
`FindsNothing` and `Signal` are the two halves of `has_more`: the worker may publish a
chunk between the comparison and the signal. `ReadByte` is `read_byte` and the parser; where
the byte completes a frame, `pipeline_push` begins, and `PushReturns` is its end. It may never
come: the `send` of a TCP port waits for its peer. Any push may wait here, also in builds
whose sinks would not.

### PacketQueue, TcpBridge, MCTcpBridge

`PacketQueue` is what a tunnel promises: packets leave in the order they came, each once,
sent or dropped. `TcpBridge` has both tunnels and both adapters. A tunnel is named after
the side it receives from. The adapter's `connect`, `recv` and `send` are steps wherever
another thread can tell: `fd` is set before the connection is made, `close(fd)` and
`fd = -1` are two steps (`EndOfConnection`, `ForgetSocket`), `is_connected` and `send` read
`fd` separately (`IsConnected`, `Send`), and an attempt that failed forgets its descriptor
without closing it (`GiveUp`). `socket()` gives out the lowest free number, so that the
reuse of a number by the other adapter happens. Packets are numbers; `pushed` and `sent`
are history variables.

### RingBuffer, LossyStream, UartPort

`RingBuffer` has the operations of `ring_buffer.h` on a record with the fields
of the C structure. `ring_buffer_copy_from` is a loop of pushes, which
`UartPort` makes one byte at a time, with the lock held: `uart_route_to` does not
take the lock, so its packing (`PackByte`) interleaves with the copy and with
`has_more` and `read_byte`. A 0 in the array is a byte of a reply or of no one.
`LossyStream` is what remains true: the oldest unread bytes are lost to an
overflow, unread bytes are spoiled by replies, and nothing else happens to the
stream.

### PerfCounters

The accounting of one source in a build with `PROFILING`: `FrameComes` is
`perf_port_unit_update` for a frame of the autopilot, `OtherFrameComes` for one of another
component, `Query` is `perf_port_unit_query`. The autopilot's numbers and the frames
lost on the way (`FrameLost`) are the environment; `lost`, `burst` and `offset` are history.

## 3. What is checked

Each run is a `.cfg`; "violation" runs check one property each that the
repository states and the code does not keep.

| Run | Question | Instance |
|---|---|---|
| `pipeline` (`MCPipeline`) | is the staged pipeline the abstract gate? | all three sources and four sinks; transformers at the vehicle's and the legacy port (so that a sink with a transformer is the last of its route); debug build with console; four kinds of frames, one per way through the policies, one of them damaged; two frames in a row at the legacy source, one at the others |
| `tcp` (`MCTcpServer`) | does the stream survive clients that come and go? are sockets closed, and the next client served? | two clients, chunks of at most 2, 3 bytes, one lost descriptor |
| `uart` (`MCUartPort`) | does the ring port keep its promise? | ring of 4, reads of up to 3, replies of 2, 9 bytes: the indices run around the ring more than twice, with overflows |
| `udp` (`MCUdpPort`) | where do replies go while clients change? | two senders, chunks of at most 2, 5 bytes, one lost descriptor |
| `tcpout` (`MCTcpClient`) | does the port that connects keep its stream and its socket, and reconnect? and the handoff itself | chunks of 1 to 3 bytes, 6 bytes, so that stale values of earlier chunks are around; two descriptors |
| `gateway` (`MCGateway`) | which ports can keep the gateway thread? | the port kinds of `main.c`, `test/main-sim.c`, `test/main-dump.c` and a CertiKOS build; chunks of 1 or 2, ring of 3, two wake-ups without a signal per visit; nothing bounds what peers send |
| `bridge` (`MCTcpBridge`) | order, sockets and reconnection of the bridge | two descriptors for two adapters; the uplink's queue takes 1, the downlink's is unbounded, as in `main`; the uplink receives while the two have less than 3 packets, the downlink while they have less than 1 |
| `perf` (`MCPerfCounters`) | are drops counted exactly? | four sequence numbers, 7 frames, any first number: wraps within a burst and between two |
| `pipeline_xor` | violation: `USE_XOR` encrypts the link to the vehicle | `main.c`'s ports, two frames |
| `tcp_client_close` | violation: the end of a client is an ordinary event | one client, one byte |
| `uart_raw_input` | violation: the parser gets what the device sent | 2 bytes |
| `uart_hangup` | violation: the assertion on the size to copy | 2 bytes |

The properties, by run:

* `pipeline`: `TypeOK`; `MessageInv`, the inductive invariant: nothing of the last
  message is left in the buffer once a new one is routed, and no forbidden one
  gets to the sinks; `Confinement`; `Accounted`, nothing vanishes between the
  parser, the peers and the log of rejected messages, and nothing is in two
  places; `ImplementsGate`; and the action properties `NoForbiddenDelivery` and
  `OwnTransformersOnly`, which relate each delivery to the frame as it arrived.
* `tcpout`: `HandoffTypeOK`; `HandoffInv`, what the buffer holds at each point of
  the worker and what an unlocked load may still be relied on for; `ImplementsStream`;
  `ActsAsPort`, the handoff implements the port that `Gateway` is composed of; `OneSocket`,
  every socket but the one in `tcp->fd` is closed and the worker is in the handoff only
  over a connection; `TcpoutResumes` and `Reconnects` (liveness).
* `gateway`: `VisitBound`, a visit to a socket port takes two chunks at most, and one more
  per wake-up of its worker without a signal; `UsesPorts`, what the thread and the workers do
  to a socket port is what `SourcePort` allows; `NotStarved` and `SocketsServed` (liveness):
  every source is looked at again and again, and socket ports are served, unless the
  thread stays for ever at one serial or CertiKOS port, or in one push. Each of the two
  exceptions is needed: without it TLC finds the thread kept that way.
* `bridge`: `QueueInv`; `OwnSockets`; `ImplementsQueues`; `BridgeDrained` and
  `BridgeReconnects` (liveness).
* `tcp`: `TcpTypeOK`; `NoLeakedClient`; `TcpImplementsStream`; `TcpDrained` and
  `NextClientServed` (liveness).
* `uart`: `UartTypeOK`; `UartInv` (what is in the ring; it is never full while the
  worker is at the device, so bytes are lost only in the middle of a copy; a byte
  that was announced is not taken away); `ImplementsLossyStream`; `UartDrained` and
  `UartWorkerResumes` (liveness).
* `udp`: `UdpTypeOK`; `RepliesToClient` (action property); `UdpImplementsStream`;
  `UdpDrained` (liveness).
* `perf`: `PerfTypeOK`; `DropsExact`; `ReportsAddUp`.

### Why the bounds are enough

Frames interact only through the message buffer of their source, which holds one
message, and through the two switches; two consecutive frames at a source, in
every combination with the other sources and with the switches set between
passes, show what one can do to the next. The run hooks every sink, so that the vehicle has
two peers, one of them behind a transformer; that a sink without a port is passed over, and
the others still served, is what the theorems say for every set of hooked sinks
(`PipelineRefines`, `PipelineAccounts`). A chunk interacts only with the chunk
before it, through the two indices and the bytes left in the buffer. The ring's
state is a position and a fill level: the run passes through every combination of
the two. The drop count depends on two sequence numbers and on how they lie in their
range; the run has every pair of them, for a range of 4 in place of 256, and the
theorem has every range. (A burst of a whole range or more cannot be told from none,
in the code as in the model, so `FrameLost` excludes it.)

A visit in `Gateway` is over after few chunks or goes on for ever, and both are in the
run: the peers' bytes are counted only within a visit, and `taken` stops counting where
`VisitBound` is violated anyway (`Most`). In the bridge a packet meets the one in the
sender's hand, a queue with room and one that is too long; three packets at the uplink,
with a bound of 1, are one in each place. The downlink's packet shows the other direction,
and that the unbounded queue is never cleared. Two descriptors are enough for each adapter
to have one, for the number closed by one to be taken by the other, and for failed attempts
to use up both. `TcpClient` needs one descriptor at a time; with two, `OneSocket` can fail.

Every bound is named: `MaxFrames`, `StreamLen`, `MaxSent`, `MaxLost`, `MaxPackets`, `MaxWakeups`.
They bound the environment (what arrives); `MaxLost` how often initialization may fail with
a descriptor open; `MaxWakeups` how often a worker wakes up without a signal during one
visit. Where the input is bounded, a run without further input is a legal end, so deadlock
is not checked; that nobody hangs with work to do is what the liveness properties say.
`gateway` has no bound on the input and checks for deadlock.

### Fairness

* The steps of a worker between two calls that block, and those of the gateway
  thread inside a call, are weakly fair: threads keep running.
* Polling (`Poll`) is strongly fair in `TcpServer`, `UdpPort`, `TcpClient` and `UartPort`:
  `pipeline_spin` comes back to each port, whatever it routes in between. `Gateway` checks
  what this assumes: with socket ports only, `NotStarved` is exactly it, and needs that the
  threads run and that every push returns. The latter is an assumption on the peers, that
  one that has stopped reading reads again or leaves; it is the one made of `Send` below. A
  serial port (or a CertiKOS port) that is never found empty keeps the thread, since the
  inner loop drains a source before it goes on; the properties of the other ports hold as
  long as it runs dry now and then.
* `Spin`, the gateway thread in `Gateway`, is weakly fair; `PushReturns`, which may wait for a
  peer, is not part of it. The `has_more` of the CertiKOS ports is: it asks for one message,
  of a stream opened with `DEV_CONSOLE_NON_BLOCKING`, or of a library outside the repository
  that is taken to answer.
* `Take` in `UartPort` is strongly fair: a thread that waits for a mutex gets it
  although the other one takes it repeatedly.
* `Send` in `TcpServer` is strongly fair, and a client that has stalled reads
  again or leaves (`ClientReads`). Without this the gateway thread blocks in
  `send` for ever, as the code does.
* `Send` in `TcpClient` and `SenderStep` in `TcpBridge` are strongly fair for the same reason:
  a `send` that waits, for a `connect` under way or a server that does not read, is woken
  when it can go on, and servers that stall read again or leave.
* `CallConnect` in `TcpClient` is strongly fair: `setsockopt` and `inet_pton` do not fail for
  ever. `ConnectStep` in `TcpBridge` is: the servers are there now and then, when an attempt
  is under way. `TcpClient` models the server's presence instead, and `Reconnects` is about a
  server that stays.
* Nothing is assumed of spurious wake-ups, of input, of initialization, or of
  clients connecting. In `Gateway` nothing is assumed of the peers: they need neither send
  nor read.

## 4. What is proved

`PipelineProofs` proves, for every choice of ports, transformers, build options and
frames that satisfies `PipelineAssumption` (the hooked ports are ports, the frames
are frames):

* `PipelineTypes`: `Spec => []TypeOK`.
* `MessageInvariant`: `Spec => []MessageInv`. `TypeOK /\ MessageInv` is inductive. The
  point of it is that `pc = "push"` and `pc = "sinks"` know the message in hand to
  be the frame just parsed although the buffer is reused: the parser overwrites the
  message, the route overwrites the sinks, and the inspection only ever adds the
  discard bit.
* `PipelineConfinement`: `Spec => []Confinement`.
* `PipelinePermitted` and `PipelineTransformers`: the action properties
  `NoForbiddenDelivery` and `OwnTransformersOnly`, from the same invariant. The
  second says something only if a sink with a transformer is the last of every
  route it is on (`TransformersLast`, part of the statement): for other
  configurations it is false, since the transformer works on the shared buffer.
* `PipelineRefines`: `Spec => ImplementsGate`. `StageInv` adds that what is pushed passed the
  parser's checksum and that the sink loop starts from the first sink. `Push` is the gate's
  step: it is where the frame becomes handled and all its peers become served or none
  (`PushedGate`); a turn of the sink loop moves one sink from "to be served" to "served",
  which the gate does not see (`RoutedGate`); a damaged frame is a step of the gate that
  delivers nothing. Keys are the gate's `Switch`.
* `PipelineAccounts`: `Spec => []Accounted`. The strengthening (`AccountInv`) says who holds the
  frame in hand: nobody before its inspection, then the sinks the loop has passed; and that
  no sink holds a frame the parser has not had yet, so that a new one starts from nothing.
* `PipelineInOrder`: `Spec => []OfferedInOrder`. Each sink, the log of refused messages among
  them, is called with the frames of a source in their order, and at most once with each. The
  strengthening (`Older`) bounds what a sink was offered by the first frame it may still be
  offered (`Due`), which depends on how far the sink loop has come.

`ChunkHandoffProofs` proves, for every buffer size and stream length
(`HandoffAssumption`):

* `HandoffTypes`: `HandoffSpec => []HandoffTypeOK`.
* `HandoffInvariant`: `HandoffSpec => []HandoffInv`. With the types, `ChunkInv` and
  `RaceInv` are inductive together. `RaceInv` is the argument for the lock-free
  test: whatever order the loads and stores happen in, if the first load has seen a
  value that can lead to "yes", then either the worker is between its two stores,
  and will have published a chunk before it releases the lock `read_byte` needs, or
  an unread byte is published already.
* `HandoffRefines`: `HandoffSpec => ImplementsStream`, the initial states and every
  step mapped to `ByteStream`.
* `HandoffIsPort`: `HandoffSpec => ActsAsPort`, likewise to `SourcePort`. This is what
  justifies a socket port in `Gateway` being a counter and a worker with three states.
* `HandoffDelivers`: `HandoffSpec => []StreamPrefix`, what the refinement means for the bytes
  that were returned: the n-th is the n-th that was received.

`TcpServerProofs`, `UdpPortProofs` and `TcpClientProofs` prove the whole ports, for all clients,
sockets, sizes and bounds (`HandoffAssumption`, `TcpAssumption`, `UdpAssumption`,
`SocketsAssumption`), in two halves:

* `TcpIsHandoff`, `UdpIsHandoff`, `TcpoutIsHandoff`: `Spec => HandoffSpec`. Every step of a
  port is a step of the handoff or leaves the handoff's variables alone. Through it the
  handoff's theorems hold of the ports: its types and its invariant (`TcpHandoff`, `UdpHandoff`,
  `TcpoutHandoff`), the stream (`TcpRefines`, `UdpRefines`, `TcpoutRefines`), and the port that
  `Gateway` assumes (`TcpIsPort`, `UdpIsPort`, `TcpoutIsPort`).
* `TcpoutOneSocket`: `Spec => []OneSocket`. The strengthening says, for each place of the
  worker, what has become of the socket in `tcp->fd`, which is why none is left behind when
  an attempt fails half way.
* `TcpLeaksNoClient`: `Spec => []NoLeakedClient`, with the types of the port inductive.
* `UdpReplies`: `Spec => RepliesToClient`. The strengthening (`ClientInv`) says that stores of
  an adoption are outstanding only until the worker lets go of the lock, that what is
  stored is the client's, and that who knows of a client does so after one was adopted.

`GatewayProofs` proves, for chunks and rings of every size and any number of wake-ups
(`GatewayAssumption`):

* `VisitsBounded`: `Spec => []VisitBound`. The bound on `taken` is not inductive; the
  strengthening (`VisitInvariant`, whose part `Budget` does it) counts the bytes taken and those
  ready together, and leaves room for one more chunk exactly when the worker does not rest.
* `GatewayUsesPorts`: `Spec => UsesPorts`, each step of the thread or of a worker mapped to
  `SourcePort`, for every socket port at once.

Together with `TcpIsPort`, `UdpIsPort` and `TcpoutIsPort` the latter makes the bound one on the
ports of the code. The same module proves the accounting (below), which the thread does
for each frame.

`TcpBridgeProofs` proves, for all descriptors, queue bounds and packets (`BridgeAssumption`):

* `BridgeQueues` (`QueueInv`, inductive as it stands, one tunnel at a time) and, from it,
  `BridgeRefines` (`ImplementsQueues`): every step is one of `PacketQueue`, or none, for each
  tunnel.
* `BridgeSendsInOrder` (`SentInOrder`): from the steps of `PacketQueue`, no tunnel sends a packet
  twice or before an older one.
* `BridgeSockets` (`OwnSockets`). The strengthening (`SocketInv`) ties each adapter's `fd` to
  where its receiver is: only a receiver past `close(fd)` may have an `fd` that is closed, or
  is the other adapter's by now, and a socket that is of use is in some `fd`.
* `BridgeForgetsNone`: `Spec /\ AttemptsSucceed => []NoneForgotten`. The sockets that `OwnSockets`
  allows to be forgotten come from failed attempts to connect, and from nothing else.

`UartPortProofs` first proves what `Push` and `Popped` do to the bytes in the ring
(`PushFacts`, `PopFacts`), for every ring size and every position of the indices
(`RingAssumption`). It works with the slot of the n-th unread byte, which either
wraps around the array or does not. On this it proves, for every size of the ring,
the reads and the replies (`UartAssumption`):

* `UartTypes`, `UartInvariant`: `Spec => []UartTypeOK` and `Spec => []UartInv`. The
  inductive invariant adds that there is no worker before `uart_init` and that only a
  worker on its way to the copy, or in it, has bytes to copy (`WorkerInv`).
* `UartRefines`: `Spec => ImplementsLossyStream`. A copied byte is a `Receive`, a packed
  one a `Spoil`, `read_byte` a `Deliver`; everything else is invisible.

* `UartReadsInOrder`: `Spec => []ReadInOrder`. Whatever is lost or spoiled, what is read is in
  the order of the stream and nothing is read twice.

Of `PerfCounters`, `GatewayProofs` proves, for every range of sequence numbers
(`PerfAssumption`), `PerfTypes`, `PerfDropsExact` and `PerfReports`. The inductive invariant
(`PerfInv`) adds `InStep`: the autopilot's next number is `prev_seq + 1` plus the burst, modulo
the range, and that is why the difference of two numbers is the length of the burst.

### The causes of the findings

Each violation run shows that a property fails. Four theorems say that it fails for one reason
only: without it, the property holds for every value of the constants. Their hypotheses are
properties of runs, not of states, and leave all else as it was.

| Finding | Theorem | Hypothesis | What holds then |
|---|---|---|---|
| `pipeline_xor` | `PipelineLinkEnciphered` | `XorPorts`: the transformers are at the vehicle's port, as `main.c` puts them; `OnWhenRouting`: the switch is on whenever messages are routed (so there is a console, and it was used before the first message) | `LinkEnciphered` |
| `tcp_client_close` | `TcpSurvives` | `NobodyLeaves`: no client closes or aborts its connection (they connect and stall as they like) | `SurvivesClientClose` |
| `uart_raw_input` | `ListenOnlyIsRaw` | `ListenOnly`: nothing is routed to the port (the device sends, the ring wraps and overflows) | `RawInput` |
| `uart_hangup` | `OnlineCopies` | `StaysOnline`: the line does not hang up (reads may fail, replies are sent) | `CopySize` |

## 5. What is only model-checked, and what is not modelled

Only model-checked: everything about liveness, which is out of the reach of the proof system:
`TcpoutResumes`, `Reconnects`, `NotStarved`, `SocketsServed`, `BridgeDrained`, `BridgeReconnects`,
`TcpDrained`, `NextClientServed`, `UartDrained`, `UartWorkerResumes` and `UdpDrained`. Every
invariant, action property and refinement that a passing run checks has a theorem. The safety
half of two liveness properties is in the invariants: nobody sleeps on a condition variable
with work to do (`UartInv`: the worker sleeps only on a full ring; `QueueInv`: a sender sleeps
only on an empty queue). No module has a recursive operator.

Abstracted:

* The MAVLink parser, the pack and finalize functions and the generated headers
  under `mavlink/` are external: a frame is damaged or not, and a transformer
  changes whether its payload can be read. Parser state that survives a
  reconnection, and the renumbering that `mavlink_finalize_message_buffer` does,
  are left out.
* Return values that nobody looks at, logging, and messages' attributes, which are
  written and never read.
* The contents of what is sent: a partial `send` leaves half a frame in a client's
  stream, and received UART bytes can overwrite a reply before it is written.
* `pipeline_connect`, `pipeline_disconnect`, the `cleanup` functions and the
  single-threaded functions of `source_tcp.c`: without effect or without caller.
* `ASSERT` comes from a library outside the repository; a failed one is modelled as
  the end of the process.
* Byte counts, the load measurement and the arithmetic of the report's text in the
  performance accounting.
* The bridge's metrics and the pacing of its uplink, which is a pause; `TCPAdapter::disconnect`
  and the destructors, which nothing reaches: `main` never returns from `monitor`.
* `is_connected` and the read of `fd` for `send` are two steps everywhere; the load of `fd` and
  the system call it is passed to are one.

Not modelled, and why:

* The Ringleader port and log: `CMakeLists.txt:137` has them commented out, and all they do
  is call a ring library that is not in the repository.
* The initialization and `route` of the Partee, ThinROS and CertiKOS UART ports: they pass
  their arguments on to libraries and system calls that are not in the repository. Their
  `has_more` and `read_byte` are in `Gateway`.
* The test programs and scripts: other configurations of the pipeline (`MCGateway` has them),
  and clients of it.

## 6. Findings

* **USE_XOR does not encrypt** (`main.c:23`, `pipeline_xor`). The transformers are
  registered and never switched on: `transform_enabled` is only set by the console,
  which is off by default.
* **A client that leaves can kill the gateway** (`lib/source_tcp.c:385`,
  `tcp_client_close`). `send` without `MSG_NOSIGNAL` raises SIGPIPE on the second
  reply after the client has closed, if the worker has not noticed it by then.
* **UART replies overwrite received bytes** (`lib/source_uart.c:108`,
  `uart_raw_input`). `output_buffer` holds both.
* **A hang-up of the serial line stops the gateway** (`lib/source_uart.c:47`,
  `uart_hangup`). `read` returns 0, and `ring_buffer_copy_from` asserts that it is
  not.

Beside these, a note: the discard sink, which the repository's README draws as the log of
rejected messages, is fed only in a build with `DEBUG` (`lib/secure_gateway.c:272`);
`Accounted` is about such builds.

Hazards that hold a property up to an exception, which the property names: failed attempts
of the bridge use up its descriptors (`BridgeReconnects`, `OwnSockets`); a sender of the bridge
may write to the wrong server between `close(fd)` and `fd = -1` (`OwnSockets`); a serial port
that never runs dry starves the others, and so does a TCP peer that stops reading and stays,
in whose `send` the thread waits (`NotStarved`, `SocketsServed`); a reply may go to half an address while a
client is adopted (`RepliesToClient`).

## 7. Plan

Done: the pipeline against the abstract gate; the handoff against the stream and the
port, and the TCP, UDP and TCP client ports on it; the serial port on its ring; the
gateway thread's time; the bridge; the accounting. Proofs of all that is checked of them but
the liveness.

What would come next:

1. A theorem for the exception that `RepliesToClient` names: a UDP port with one sender
   replies to that one only.
2. The parser's state across frames and reconnections, as part of `Pipeline`: an unfinished
   frame of one client before the first of the next.
3. What is sent: half a frame after a partial `send`, and UART replies overwritten before
   they are written.
4. The 64-bit words of the sink set, and what the `int` result of `bitmap_test` loses when
   there are 32 sinks or more (there are 4).
