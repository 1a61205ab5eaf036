# Verification of the WIZnet W5500 driver

TLA+ models of the asynchronous W5500 driver (`src/Src/w5500.cpp`,
`src/Src/socket.cpp`, `src/Inc/queue.hpp`) and of the clients on top of it
(`dns_client.c`, `ntp_client.c`, `udp_client.c`, `websocket_client.c`), checked with
TLC, and theorems about them proved with TLAPS. The models describe the code as it
is, the places where it departs from its own documentation included (see *Findings*).

## The system

An STM32 under FreeRTOS talks to a W5500 Ethernet chip over SPI. Tasks never use
SPI themselves: everything goes through one command queue that DMA interrupts
drain.

| Component | State | Operations | Interacts with |
|---|---|---|---|
| Circular queue, `queue.hpp` | `data`, `head`, `tail`, `count` | push and pop at both ends, peek, index of both ends, clear, first-push callback | used for the command queue and, per socket, the send and receive queues |
| Host segment buffers, `getTXBufferIndex`, `getRXBufferIndex` | byte array per direction, queue of live segments | place, queue, retire, trim | the chains built by `sendPendingData` and `receivePendingData` |
| Command queue and SPI bus | `command_queue`, `running_cmd`, the transfer under way, `enqueueFailsInISR`, `spiErrCount` | start the next transfer, gate writes of `Sn_CR`, process completions, put back after a failure | interrupts: SPI complete, SPI error or abort, EXTI, 50 Hz timer; tasks inside critical sections |
| Socket data calls | `socket_t`: shadow registers, buffers, queues, `is_sending`, `is_receiving` | `send`, `sendto`, `recv`, `recvfrom` | command queue; application callbacks |
| Socket lifecycle | `SR` shadow register, mode, ports | `socket`, `connect`, `disconnect`, `close`, the polling loops | command queue, by register commands and polling |
| Hardware bring-up | common registers | `setWiznetHardware`, `initWizchip` | blocking SPI, before interrupts are on |
| W5500 chip (external) | `Sn_CR`, `Sn_IR`, `Sn_SR`, pointer registers, buffer memories, INT pin | accept commands, connect, transmit, time out, receive, close | the driver over SPI and INT; the network |
| DNS client | `g_dns_config`, `g_dns_initialized`, the name being resolved, retry and depth counters | init, resolve, setters, close | `socket`, `sendto`, `recvfrom`, `close`; DNS servers |
| NTP client | `g_ntp_config`, `g_ntp_initialized`, retry counter | init, get time, setters, close | the same; NTP servers |
| UDP client | `g_udp_config`, `g_udp_initialized` | init, send, set destination, close | the same, without `recvfrom` |
| WebSocket client | `g_ws_state`, three event flags, `g_close_time` | init, connect with handshake, send, ping, process, close | `socket` to `recv`; `ws_socket_callback` from the interrupt handler; a server |

What makes this hard: tasks, four interrupts, the DMA engine and the chip run
concurrently; interrupts push to the front of a queue that tasks push multi-command
chains to the back of; shadow registers are stale as soon as they are read, and are
themselves DMA targets; commands are retried after SPI failures; interrupt flags are
level-triggered in the chip but arrive as edges, and outlive the connection they
belong to. The clients add lost, late and forged answers, names compressed by the
server, frames that TCP cuts and merges, and events of a connection that is gone.

What makes each component correct:

* queue: any mix of operations behaves like a bounded deque;
* segment buffers: no byte belongs to two live segments;
* command queue: nothing is lost, repeated or reordered by gating, interrupts and
  retries; `Sn_CR` is never overwritten; a stalled bus starts again;
* sending: what `send` accepts is transmitted once, in order, unchanged, and
  eventually; receiving: what arrives is returned once, in order, with datagram
  boundaries, and eventually;
* lifecycle: a call returns and says what became of the connection; the driver knows
  the chip's status when all is quiet; nothing of one connection reaches the next;
* DNS and NTP: a result belongs to the question, calls return; UDP: closed means
  closed; WebSocket: connected means accepted, frames arrive whole, closing ends.

## The modules

| Module | Models |
|---|---|
| `BoundedDeque` | abstract specification of a queue |
| `CircularQueue` | `queue.hpp`: the ring with its redundant indices; one action per operation |
| `CircularQueue_proofs` | its invariants and the refinement of `BoundedDeque` |
| `Segments` | byte layout: SPI header, placement of the next segment (`BufferIndex`) |
| `SegmentRing` | one buffer with everything that adds, trims or removes segments |
| `SegmentRing_proofs` | types and disjointness of live segments |
| `MessagePipe` | abstract specification of one direction of the sockets: in order, unchanged, at most once |
| `W5500Chip` | one chip socket: registers, memories, what the commands do (external) |
| `W5500Driver` | the driver core and the data calls on open sockets, against the chip |
| `W5500Driver_proofs` | the command queue: no stall without a failure, one `CHECK_RCV` per reception, `Sn_CR` never overwritten, one SEND per `is_sending`, transfers of the oldest segment |
| `SocketLifecycle` | extends `W5500Driver`: `socket`, `connect`, `disconnect`, `close` and the polling loops, with the chip's side of a connection |
| `SocketLifecycle_proofs` | the invariant of the command queue with the lifecycle calls, over any number of lives; where the last call leaves the chip |
| `UdpNetwork` | what the UDP clients see of a socket and of the network |
| `DnsClient` | resolving: retries, late answers, aliases |
| `DnsMessage` | DNS names and answers as bytes, with name compression |
| `NtpClient` | asking for the time, and the conversion to Unix time |
| `UdpClient` | the UDP client |
| `WebSocketClient` | the WebSocket client, its event flags and a server |
| `DnsClient_proofs`, `NtpClient_proofs`, `UdpClient_proofs`, `WebSocketClient_proofs` | every safety property the runs check of these four |
| `MCCircularQueue`, `MCSegmentRing`, `MCW5500Driver`, `MCSocketLifecycle`, `MCClients` | instances for TLC |

### CircularQueue

`data`, `head`, `tail`, `count` are the fields of the template; `reply` is what the
operation returned and whether the first-push callback fired. `Items` is the sequence
the ring stands for. The peeks are state functions (`BackIndex`, `EndsAgree`).

### SegmentRing

Only the queue of live segments matters for placement, so the bytes are left out.
`Send`/`Sent`/`Clear` are the transmit side. On the receive side a segment is placed
when its transfer is queued (`Receive`) and joins the queue when the transfer
completes (`Received`, dropped when the queue is full). `filled` is a history
variable: since the buffer was last empty, the live segments have filled it exactly.
`MCSegmentRing` checks both sides in one run.

### W5500Driver

Variables follow the source: `command_queue`, `running_cmd`, `sockets` (`socket_t`,
its shadow registers, buffers and queues), `enqueueFails`, `failures` (`spiErrCount`).
`bus` says how far the transfer of `running_cmd` is. `chip` is the array of chip
sockets, `exti` the pending interrupt of the INT pin. `accepted`, `wire`, `arrived`
and `read` record what goes in and out at both ends.

One action is one critical section or interrupt handler: `Send`, `Recv`, `RecvFrom`
(tasks), `SpiComplete` (both completion callbacks: process, then start the next),
`SpiError`, `Exti`, `Timer`. Handlers are composed of functions on the driver's state
named after the code: `Start` is `dmaTXCompleteCallback`, `Handled` is
`dmaRXCompleteCallback` with one `On...` per command type, `SendPending`,
`ReceivePending`, `Failed` (`handleSPIFailure`). `Transfer...` is the moment the bytes
of a transfer are exchanged with the chip, between the start and the interrupt. The
chip and the network act in `Accept`, `SendDone`, `SendTimeout`, `PeerAck`, `Arrive`,
`PeerFin`.

Bytes are real: messages are sequences of distinct bytes that travel through host
buffer, chip memory, wire and back, with the three SPI header bytes in front, so
that an overlap, a wrong pointer or a destroyed header shows up as wrong data.

Abstractions:

* Interrupt priorities are assumed equal, so handlers do not nest; `PromptExti` and
  its absence cover both orders of EXTI and SPI interrupts (below).
* Application callbacks are left out: the application may make any call at any time.
* The shadow block is read in one step; torn 16-bit values are not modelled.
* A transfer whose SPI header is destroyed does not take place in the model;
  `HeaderIntact` says when that happens, and runs in which it can check safety only
  up to there.
* `W5500Driver` alone has its sockets open from the start; `SocketLifecycle` opens
  and closes them.
* Data on a TCP connection is not acknowledged byte by byte: an ACK covers all that
  was transmitted.

### SocketLifecycle

`call` is where the blocking call of each socket's task stands: `todo` holds the
register commands it has yet to queue, one critical section each (`Enqueue` is
`enqueueSetReg` and `enqueueGetReg`), then it waits in `PollNoIT` (`pollRegNoIT`, which
queues a read of `Sn_SR` per round) or `PollWithIT` (`pollRegWithIT`, which queues
nothing). Between any two of these steps interrupts, the timer, the DMA engine, the
chip and the peer act, with everything `W5500Driver` has. The chip accepts OPEN,
CONNECT, DISCON and CLOSE; its flags stay set until the host clears them, also over
CLOSE and OPEN, and so do commands in the host's queue. `life` is history: how often
the socket was opened, what had been accepted and had arrived by then, whether the
connection came up and how often its end was signalled.

The writes of mode, port and interrupt mask are one write, since nothing depends on
the last two. The time limits of the loops are seconds, and pass only when the bus is
at rest (`TimeLimit`). The clients open a socket again when its shadow status is
CLOSED; the application of the model keeps to that. `WhenSettled` adds the assumption
that nothing of the last life is queued or flagged when it does: `old_life` shows what
happens without it.

### UdpNetwork, DnsClient, NtpClient, UdpClient

Calls of `socket.cpp` are reduced to what they leave behind, failures half-way
included: a `socket` or `close` that fails may have had its effect. `inbox` is what
`recvfrom` has yet to return. A datagram longer than the caller's buffer is never
returned and blocks the ones behind it, as in the code. A request is lost, or answered
at any later time: during a retry, or during a later call. Strays, datagrams of another
host, come at any time. A step of the task goes from one `sendto` or `recvfrom` to the
next, so everything can happen between two polls.

`DnsClient` reduces messages to what the client makes of them; the transaction id is
left out because no code compares it. `query` is the call under way, with `retry` modulo
`RetryMod` and `depth`; `untouched` records that no answer to an earlier query was under
way when a query of the call started: the precondition `DnsResultIsTrue` needs, since the
client believes a late answer. `DnsMessage` has the bytes: `EncodeName`, `DecodeName`, `SkipName`,
`ParseResponse` are the functions of the code, against a server that adds records one by
one and writes each name in any way compression allows (`Ways`).

`DecodeName` also cuts off a name that is full, as line 207 of `dns_client.c` does, and
`ParseResponse` tells `INVALID_PARAM` from `FORMAT`; no message of the instance needs either.

The clients assume what `LifetimesApart` says and `old_life` refutes: `UdpNetwork` lets
`socket` drop everything of the previous life, so no datagram received before it is
returned after it. (`WebSocketClient` does not assume it.)

### WebSocketClient

One action per call, except where it waits: `ws_client_connect` is `WsConnect`,
`WsConnected`, then `WsHandshake` or `WsHandshakeOver`; a close frame of the server is
acknowledged in `WsReceive` and followed by `WsDelayOver`. `tcp` is the chip's status, `sr`
its shadow, `ir` the flags the interrupt handler has not served, which may belong to an
earlier connection. Every branch that closes or disconnects allows that this fails, with or
without effect.

`rx` is what has arrived and `recv` has not returned: pieces `[opcode, len, part, conn]`,
each a frame, its first byte or the rest of it, with the connection it was sent on. `socket`
drops them, but a reception under way puts up to `MaxStale` consecutive pieces into the queue
afterwards (`WsConnect`), so the new connection may read them. `recv` into the 2048 bytes of
`ws_rx_temp` returns all segments up to the first that does not fit (`WsRecv`). Which pieces
share a segment is not followed: all are returned if they fit, any number that fits if not,
none included.

The client looks at the first frame of what it got and drops the rest; the second half of a
frame is taken for a frame of any kind. Of a data frame `taken` records the length, the
room of the application's buffer (`NoBuffer` when it is NULL, which still returns `WS_OK`; a
smaller one returns `WS_ERR_BUFFER_TOO_SMALL`), and whether the payload was copied (`Look`).
`whole` and `fresh` are history: every receipt so far was one message of this connection, or
at least held nothing of an earlier one. The two are the preconditions of `WsDelivers` and
`WsConnectedIsAccepted`; what happens without them is under *Findings*.

### Named bounds and switches

| Constant | Meaning |
|---|---|
| `MaxSend`, `MaxArrive` | bytes (TCP) or datagrams (UDP) accepted and arriving, per socket |
| `MaxFail` | SPI failures: a HAL call that refuses, or the error interrupt |
| `LateErrors` | types of commands whose error interrupt may come after the bytes moved |
| `TickBound` (definition) | the timer does not tick again while its last `READ_SIR` is queued, unless the bus stands still |
| `PromptChip` | the chip accepts a command before the next transfer; FALSE lets it take arbitrarily long |
| `PromptExti` | a pending EXTI is served before a completed transfer; FALSE lets it be delayed, as when another handler of its priority runs while the transfer completes |
| `NetworkFaults` | ARP and TCP timeouts, a peer that closes, in the lifecycle also one that resets |
| `MaxLives` | calls of `socket` per socket: 2, once from power-up and once over what the first life left |
| `MaxPolls`, `MaxQueued` | reads of `Sn_SR` of a polling loop, and commands, waiting in the queue when the next one is queued or the timer ticks |
| `PollTimeouts`, `WhenSettled` | time limits may pass; see above |
| `MaxInbox` | datagrams waiting in a UDP socket |
| `MaxCalls`, `max_depth` | calls of `dns_resolve_a`; queries per call, 3 for 5, which a chain of aliases in a circle exhausts |
| `RetryMod`, `NtpRetryMod` | modulus of the retry counters, 4 and 8 for 256; the settings include 0, 1 and the highest value |
| `Word`, `NTP_EPOCH_OFFSET`, `MaxClock` | 8, 5 and 3 for 2^32, 2208988800 and now: the clock passes the end of the era |
| `DNS_MAX_LABEL_LENGTH`, `DNS_MAX_NAME_LENGTH`, `MaxJumps`, `MaxHostname`, `MaxRecords` | scaled: names of up to 4 bytes over one letter, dots and an illegal byte; two records, so that the second is behind a compressed name and may point into the first |
| `WsLens` | 126, the first length with an extended header, and 1922: two such frames do not fit into the 2048 bytes of one `recv` |
| `WsBuffers` | 126: the length of what the task sends and of its buffer, besides none; the one data frame fits, the other does not |
| `MaxFrames` | frames of the server on each connection, `<<2, 0>>`: the second connection is there for the events, the state and the pieces of the first that reach it |
| `MaxStale` | pieces of an earlier connection that get into a new one: 1 |
| `MaxSaid` | frames of the client on a connection before the task stops sending: 2 |

The sizes are explained in `MCW5500Driver`. The command queue of 24 entries (1000 in
the code) never fills: `TickBound` and the one chain per socket and direction limit
what is queued. Three bytes sent are enough for one segment being sent, one waiting
and one being placed; two arrivals for one being transferred and one racing the end of
the transfer or the clearing of its flag; two failures for a retry that fails again.
A pointer register overflows its modulus in every run.

### Fairness

`FairSpec` assumes what hardware and scheduler provide, and no more:

* `Transfer \/ SpiComplete`: the DMA engine moves the bytes of a transfer that was
  started, and its interrupt is served;
* `Exti`: a pending interrupt is served; `Timer`: the 50 Hz timer keeps ticking;
* per socket `Accept \/ SendDone \/ PeerAck`: the chip accepts and carries out commands,
  and the peer acknowledges;
* per socket `Recv \/ RecvFrom`: the application keeps reading.

`LifeFairSpec` has the first two lines, the task of each socket (`Waits`: a blocking call
keeps polling), and the chip, which accepts commands and ends a handshake or a
disconnection one way or another (it has time-outs of its own). `ClientSpec`: time passes,
the interrupt handler runs, and the task gets on with a call it has begun and calls
`ws_client_process` again and again, as its header asks for. Servers and network owe
nothing. One behaviour is about one client, so where the fairness conditions of several
clients are merged into one, each of them is still that of a single task or handler.

All of it is weak fairness. Sending, arrivals, failures and faults are not fair.

## Runs

Passing:

| Run | Shows |
|---|---|
| `queue` | the indices and ends of the ring agree and it implements the deque (4 slots) |
| `segments` | in a transmit or receive buffer live segments overlap only after an exact fit |
| `driver_tx` | a TCP sender under two SPI failures, timeouts and a closing peer: a queued transmission is that of the oldest segment, `is_sending` stands for exactly one SEND, only a failure leaves the bus idle with commands waiting, the wire carries the accepted stream |
| `driver_rx` | reception with a SEND on the same socket and a slow chip: one `CHECK_RCV` per `is_receiving`, `Sn_CR` never overwritten, `recv` returns the stream |
| `driver_udp` | datagrams both ways with ARP timeouts: destinations, sources, boundaries, order |
| `driver_two` | a TCP and a UDP socket share the command queue and the interrupt register in both directions |
| `driver_live` | everything accepted is transmitted and everything that arrives is read, with a message that waits for chip memory and an SPI failure that leaves the bus standing until the timer restarts it |
| `lifecycle` | two lives of a TCP socket with sending, a peer that refuses, resets, closes or is silent, and time limits: `connect` tells what happened, the last call's outcome holds and the shadow status is right when all is quiet, nothing of the first connection reaches the second |
| `lifecycle_live` | without time limits every blocking call returns |
| `clients` | the four clients: `DnsResultIsTrue`, `DnsParsesRight`, `NtpTimeIsCurrent`, `UdpStaysClosed`, `WsDelivers`, `WsConnectedIsAccepted`, `WsQuietAfterClose`, `WsEndIsNoticed`, `ClientCallsReturn` |

The clients share nothing, so `clients` takes them side by side: `side` says which one a
behaviour is about. It does not check for deadlock, since the bounds on calls and on the
records of an answer let the model stop. `lifecycle` and `lifecycle_live` have no SPI
failures, which `driver_tx` and `driver_live` have, and no arrivals, which `old_life` has.

Every property of these runs has a mutant in `PROJECT.json`: a plausible fault in
one definition that makes TLC find the property violated.

### Findings

Two are runs that TLC ends with a counterexample:

| Run | What happens |
|---|---|
| `cr_livelock` | the polled value of `Sn_CR` is never stored: one slow RECV and the bus polls for ever |
| `old_life` | the chain of a reception survives `close` and `socket`; its segment joins the cleared queue and `recv` returns data of the old connection on the new one |

The models show more under other constants; these are not kept as runs.

Driver core (`MCW5500Driver`, or `MCSegmentRing` where named):

* `MCSegmentRing`, invariant `Disjoint`: a buffer filled to its last byte is taken for one
  with room, and the next segment overwrites the oldest (`OverlapNeedsExactFit` is what holds).
* `HeaderIntact`, constants of `driver_tx` with one send, `MaxFail = 1` and `LateErrors =
  {"READ_SIR", "READ_SOC"}`: a failed read is retried with what it received in place of its
  SPI header.
* `RxStream`, three arrivals with `SOCKET_QUEUE_SIZE = 1`: data transferred into a full
  receive queue is dropped after the chip was told to release it.
* `AllRead`, three arrivals with chip memories of 1 byte and `PromptExti = FALSE`: a RECV
  flag raised between `READ_SOC` and the write that clears `Sn_IR` is cleared unseen, and the
  data stays in the chip.
* `SendingOnce` with `PromptChip = FALSE`, `PromptExti = TRUE`, `MaxFail = 1`: an error
  during the poll of `Sn_CR` queues the stood-in command twice.
* `HeaderIntact` with two TCP sockets and `PromptExti = FALSE`: an EXTI served late
  leads to two `READ_SOC` of one socket, which share one SPI header.
* `TxStream` with `PromptExti = FALSE`, `MaxFail = 1`: the same doubled `READ_SOC` after a
  failed write of `Sn_IR` handles one SENDOK twice.
* `AllSent` with `NetworkFaults = TRUE`: in CLOSE_WAIT, where `send` is allowed, nothing
  looks at `Sn_TX_FSR` again, so data waiting for space in the chip stays there.
* `AllRead` with `RecvLen = 2` and arrivals of two bytes: two arrivals transferred as one
  segment larger than the caller's buffer; `recv` returns 0 for ever.

Lifecycle (`WhenSettled = FALSE`, or the exception a property names):

* a RECV or CON flag left from the old life causes a `READ_SOC` while the chip is in SYNSENT;
  `connect` sees the status change and returns `SOCKERR_TCP_TIMEOUT` although the connection
  comes up;
* two ends of a connection, FIN and then CLOSED, between a `READ_SOC` and the write that
  clears its flags leave the shadow status wrong for good (`StatusKnown` excepts
  `ended > 1`);
* `socket` on a socket that is still open clears the queues in the middle of a `READ_BUF`, and
  the next segment is placed over the one being transferred.

DNS and NTP:

* answers are not compared with the question: a late answer to an earlier name is returned
  for the next one (`DnsResultIsTrue` without `untouched`), and a late NTP answer leaves every
  later call one answer behind (`NtpTimeIsCurrent` without `alone`);
* an answer that reports an error is skipped, so a name that does not exist ends in
  `DNS_ERROR_TIMEOUT` after all retries;
* with `max_retries = 255` the retry loops never end (the guard of `ClientCallsReturn`);
* a datagram longer than the buffer stays at the front of the socket for ever;
* `dns_resolve_a` after `dns_close` opens the socket, then refuses and leaves it open;
  `ntp_close` leaves the client initialized;
* a name through ten or more pointers is cut off without an error;
* from February 2036 on `ntp_get_time` returns 0 with `NTP_OK` (the guard of `NtpTimeIsCurrent`).

WebSocket:

* when the peer closes, the shadow status is CLOSE_WAIT before `ws_client_process` looks at
  the flags, so it returns at its first test: the connection is not disconnected, and the
  branches for `g_disconnect_req_flag` and `g_disconnect_suc_flag` are reached only by an event of
  an earlier connection, which then ends the new one;
* while CLOSING nothing is received, so the server's close frame never ends the wait and the
  branch for it is dead;
* the header allows a NULL `opcode` together with a NULL `buffer`, but the first frame received is
  stored through it (read, not modelled; the model has a pointer);
* with a NULL `buffer`, which the header documents (`websocket_client.h:93-98`), a data frame is
  read, lost and reported as `WS_OK`; one longer than the buffer is lost with
  `WS_ERR_BUFFER_TOO_SMALL` (`taken[k].kept`);
* a segment of more than 2048 bytes stays at the front of the receive queue for ever and
  blocks what is behind it; the comment on `ws_rx_temp` asks for a window that prevents it
  (in the model `WsRecv(0)`, when the first pieces do not fit);
* frames that TCP merged are lost behind the first one, those that came with the answer to
  the handshake included; a frame that was cut is lost, and its rest taken for a frame
  (`WsDelivers` without `whole`);
* what an earlier connection left is read on a new one: an old answer to a handshake makes the
  client CONNECTED before its server has answered (`WsConnectedIsAccepted` without `fresh`); the
  server's own answer is then read as a frame, and "H" is the first byte of a close frame.

The passing runs exclude the driver's findings by their constants: `PromptChip` where
liveness or retries are involved, `PromptExti` where two `READ_SIR` could follow each other,
and a receive queue and buffers that suffice for the arrivals; the others are excepted
by a named conjunct of the property.

## Proofs

`CircularQueue_proofs` (for every `SIZE` in 1 .. 65535, every item type): the
inductive invariant is type correctness with "tail is `count` slots ahead of head";
neither part is inductive alone, since a pop at the back is only in range and only
returns the youngest item if the indices agree. From it follow `TypeCorrect`,
`IndicesAlwaysAgree`, `EndsAlwaysAgree`, and, one lemma per operation, `Refinement`:
every step of the ring is a step of the deque.

`SegmentRing_proofs` (for every buffer length up to 32767, every queue length, every
set of request and datagram sizes): `Disjoint` is not inductive, because placement
looks only at the two ends of the queue. The invariant is the shape of the ring: the
live segments, oldest first, either ascend, or ascend, wrap once, and stay below the
oldest; and they do not meet unless `filled`. `TxDisjoint` and `RxDisjoint` follow:
overlap needs an exact fit. `TxTypes` and `RxTypes` need none of this, since placement
never leaves the buffer (`FitsStep`).

`W5500Driver_proofs` (for up to 8 sockets, every queue size, buffer and memory length, any
number of SPI failures, with and without `PromptChip`, `PromptExti` and `NetworkFaults`).
The inductive invariant `Inv` is a statement about a state of the driver and the chip,
`Holds(d, ch)`, so that it can be carried through the functions a handler is composed of:

* `Driver`: the commands in the queue are ones the driver makes; `Busy`: the bus is idle
  exactly when no command runs, and idle with commands waiting only after a failure. This
  is all `NeverStallsByItself` needs, without any hypothesis.
* `Receiving`: `is_receiving` stands for a `CHECK_RCV` in the queue or on the bus: for at least
  one, and for the sockets of a set `sole`, here all of them, for exactly one. The second is
  `ReceivingOnce`, but in the middle of a handler, when the running command has had its
  effect and still sits in `running_cmd`, it must not be counted: hence the flag `done`.
* `Known` and `OnTheBus`: `CommandRegisterFree` looks at one moment of one transfer. It is
  kept because a command in the chip's `Sn_CR` is either visible in the shadow register, or
  will be read before the next command write (`LooksFirst`: interrupts push reads and
  chains in front of that read, but never a command write), and because a register
  read as empty stays empty until the next write.

The last two hold while no command was dropped by a full queue (`Kept`), so `ReceivesOnce`
and `OrdersWait` state `~enqueueFails => ...`. This is not caution: with a queue of 6 TLC
finds both properties violated after a drop (a dropped `CHECK_RCV`, a dropped read of
`Sn_CR`). `OrdersWait` also assumes `"WRITE_REG" \notin LateErrors`: a write that is
reported as failed after it took place is repeated, and TLC shows it overwriting a command
the chip has not accepted. `ReceivesOnce` holds without that assumption: a failed transfer
goes back to the front whole, whatever it did.

`SendsOnce` needs a second invariant, `Sent`, of states in which nothing has failed or been
dropped (`Well`). `Gap` is what `is_sending` stands for besides the SENDs still on their way;
for a socket the chip has not closed it equals the number of stages in the chip: a SEND in
`Sn_CR`, one being carried out, an outcome nobody is about to clear. That is `SendingOnce`, and
to be inductive it needs to know what the handler of a `READ_SOC` acts on: the outcomes it
fetched are still in `Sn_IR` when it runs, SENDOK and TIMEOUT are never there together, a
write to `Sn_IR` goes straight from the handler to the bus and never waits in the queue
(`NoClear`: this is why a write cannot clear an outcome that came later), and while one that
clears an outcome is on the bus nothing is being sent. The parts of a handler keep the balance
(`Even`), the look at an outcome settles it (`Settles`), a transfer moves one SEND from the
queue to the chip (`Carried`). The hypothesis `failures = 0` is needed: see *Findings* for
what an error during a poll does. It does not matter how late interrupts are served.

`FillsOldest` proves `WriteBufIsOldest` under the same hypotheses. A `WRITE_BUF` waits in the
queue with a place and a length that were computed when it was queued, and takes whatever the
send buffer holds there when it is transferred; in between, calls append segments and
handlers give segments back. The invariant (`Firm`) says of every transfer on its way to an
open socket that it is that of the oldest segment and *has its SEND behind it* (`Fits`,
`Neat`). The second half is what makes it inductive: a segment is given back only when an
outcome is looked at, the outcome is then all that `is_sending` stands for (`Gap` is 1, by
`Sent`), so no SEND is on its way, and hence no transfer. The rest is about what handlers act
on: the outcomes a `READ_SOC` fetched are one outcome at most, of the SEND being waited for
(`Fetched`; a second look at the same SEND would give back a segment that is being
transferred), and only a closed socket is taken for closed (`Fresh`).

`SocketLifecycle_proofs` (the same constants, any number of lives, every polling limit): the
invariant above, taken as a statement about driver and chip, is kept by every call, polling
loop and chip step of `SocketLifecycle`: what a call queues is well formed (`Tasks`), a chip
register never disappears (`Wired`), and the chip only frees `Sn_CR` (`ChipMoves`). This is
`LifeKeepsInvariant`; `LivesOrdersWait` follows as above, with the same hypotheses.

None of this depends on when a socket is closed and opened again: the invariant holds with
`sole` empty whatever of the last life is left. `LivesAlwaysAsk` is what remains of
`ReceivingOnce` then: an `is_receiving` that is set has a `CHECK_RCV` outstanding. Exactly one
it has not: `socket` clears `is_receiving` without looking at the queue, so a socket that is
opened while a `CHECK_RCV` of its last life waits has one too many, and with its next reception
two (TLC finds `ReceivingOnce` violated with `WhenSettled = FALSE`). `LivesReceiveOnce` says that
this is the only way: exactly one in every behaviour in which no socket is opened while
it is marked as receiving (`Alone`), which is weaker than `WhenSettled`. The code does not enforce it.

`LastCallStands` proves `LastCallHolds` there, under the hypotheses of `LivesOrdersWait` and
`WhenSettled`. The
property looks only at states at rest, so the invariant (`LifeInv`) has to say what is still
coming. `Waiting` is everything the chip has not carried out for a socket, in order: the
command in `Sn_CR`, the one on the bus, the queue, and what the call has yet to queue. `Sound`
relates it to the chip's status, the driver's copy, a status just read that is not stored
yet (`Seen`), and the last call. Its main parts: no OPEN waits behind a CONNECT, DISCON or
CLOSE; the driver takes a socket for closed only when it is, and no OPEN waits, or when a
call of `socket` is under way; what a call that runs or has succeeded ordered is in `Waiting`
or has happened. `close` shows why they are all needed: it may return at once, on a status
that already reads closed, with its CLOSE still in the queue.

The proof has two halves. About order: handlers put reads, chains and retries in front of the
queue and behind it, and none of this concerns a socket's life (`Serves`); a retry behind a
poll may put the same command in front once more, which orders the same (`Repeatable`,
`TwiceFollows`). A transfer then moves the first command into `Sn_CR`, which is
free by `CommandRegisterFree`; this, and a failed write that goes back to the queue as if it
had not taken place, is where the hypotheses are needed. About
meaning: each chip step carries out the first of `Waiting` (`SoundChip`), each call adds behind
(`SoundLonger`, `SoundSocket`) or gives up (`SoundLess`), and a status read is the chip's at
that moment (`SoundSample`).

`UdpClient_proofs`: a closed client is not initialized and its socket is closed (`UdpInv`).

`NtpClient_proofs` (every word length, epoch offset, era, retry setting): while a call is
under way that started alone, each answer in the socket carries the time of a moment of the
call (`InboxCurrent`), modulo the word; the conversion gives that moment back before the
era ends. Needed besides: an initialized client has the address of a server
(`ServerKnown`), since strays are told from answers by their source alone.

`DnsClient_proofs` (every set of names, zone, servers, retry setting and depth): while a call
is under way that is untouched, everything asked or answered is about its current name
(`About`), and this name is the one `depth` aliases behind the name asked for (`Reached`).
That `NAME_NOT_FOUND` is true needs more than the names passed so far: a chain that still
leads on after `max_depth` queries, or ended in a name without address, has an address
nowhere in the first `max_depth` names. `aliases` is a recursive function, so its values
are taken one step at a time; `SetInduction`, from the library's well-foundedness
of the natural numbers, gives the induction on sets the provers can use.

`WebSocketClient_proofs` (any number of connections and frames, lengths up to 65535):
`WsConnectedIsAccepted` follows from what the task knows while it sets up a connection
(`Phase`), from when the client is connected (`Believed`) and from answers of this connection
arriving only from a server that gave them (`Known`); `WsQuietAfterClose` from where the task
can be after its close frame (`Quiet`); `WsDelivers` from `Stream` (a cut frame is followed by its
rest, or the server still owes that and nothing else), which is what makes counting the
waiting frames of the connection (`Delivered`) an invariant when a receipt takes pieces from the front
(`DeliveredTaken`) or a frame arrives, and from `ClientLength` and `ServerFrame`, the two forms of
the frame header.

The clients' theorems rest on the assumptions of `UdpNetwork`, `DnsClient`, `NtpClient` and
`WebSocketClient`: strays come from hosts that are not servers (a forged source address is
not told apart by the code either), and names are not the words that stand for the
contents of an answer.

Proving made three places of the model plainer. `Start` was a `CASE` whose guards
overlapped when the HAL call fails on a write to `Sn_CR`; it is now the order of tests of the
code. `Overlay` and `Ascending` replace `@@` and `SetToSortSeq`, which the provers do not
know. `WsDelivers` counts instead of selecting a subsequence; it says the same.

Only model-checked:

* of `W5500Driver`, `TypeOK`, `HeaderIntact` and the refinements `TxStream` and
  `RxStream`. Each needs the pointer registers of the chip (what
  Sn_TX_FSR says against commits of Sn_TX_WR still queued, after time-outs included) or the
  place of every segment in the host buffers, in one invariant with the above; several hold
  only under the constants named under *Findings*;
* of `SocketLifecycle`, `StatusKnown`, which needs every flag of `Sn_IR` followed through the
  READ_SOC and its answer; `ConnectTells`, which needs the history of the status besides its
  value; and `LifetimesApart`, which needs the pointer registers;
* `DnsParsesRight`: it says what recursive functions compute for every message,
  an induction over data that none of the provers can do;
* liveness (`CallsReturn`, `ClientCallsReturn`, `WsEndIsNoticed`, `AllSent`, `AllRead`), which
  needs fairness and ENABLED.

## Not modelled

`setWiznetHardware`, `initWizchip` (blocking bring-up before interrupts exist). LISTEN and
the server side, which the driver does not offer. Of the clients: getters, error strings,
time-out values (any poll may be the last one), ttl, transaction ids, fractions of seconds,
NTP versions and datagrams shorter than a packet (whose timestamps would be those of the
packet before), the WebSocket key and its base64 form, masking, payload bytes and the
64-byte buffer of a pong. A task other than the caller using the same socket or client.

## Plan

1. Done: queue, segment buffers, driver core with data calls, socket lifecycle, clients.
2. Done: proofs about the queue, the buffers, the command queue and the clients.
3. Proofs about `SocketLifecycle`: `LastCallHolds` is done; next `ConnectTells`, by adding the
   history of a connection to `LifeInv`, then `StatusKnown`.
4. `SendingOnce` and `WriteBufIsOldest` are done; next both of them through all the lives of
   a socket.
