------------------------------ MODULE W5500Driver ------------------------------
(***************************************************************************)
(* The asynchronous core of the driver (w5500.cpp) and the data calls of   *)
(* the socket API (socket.cpp) on open sockets, running against the chip.  *)
(*                                                                         *)
(* Actors: RTOS tasks calling send / sendto / recv / recvfrom, the SPI DMA *)
(* engine and its completion and error interrupts, the EXTI interrupt of   *)
(* the chip's INT pin, the 50 Hz timer interrupt, and the chip with the    *)
(* network behind it.  Tasks and interrupts touch the queues inside        *)
(* critical sections, so each call and each handler is one step; between   *)
(* the start of a transfer, the moment its bytes move and the interrupt    *)
(* that reports it, everybody else may run.                                *)
(*                                                                         *)
(* A definition marked "Mutant" is a faulty variant of the definition that *)
(* follows it; nothing uses it, except to show that a property can fail.   *)
(***************************************************************************)
EXTENDS W5500Chip, Segments, SequencesExt

CONSTANTS
    NSock,              \* number of sockets in use (_WIZCHIP_SOCK_NUM_)
    Tcp,                \* those opened in TCP mode; the others are UDP
    COMMAND_QUEUE_SIZE,
    SOCKET_QUEUE_SIZE,
    TxBufLen, RxBufLen, \* tx_buf_len and rx_buf_len of every socket
    Dst,                \* destinations for sendto
    SendLens,           \* lengths the application sends
    ArriveLens,         \* lengths the network delivers
    RecvLen,            \* length of the application's receive buffer
    MaxSend,            \* bound: bytes (TCP) or datagrams (UDP) sent per socket
    MaxArrive,          \* bound: bytes or datagrams arriving per socket
    MaxFail,            \* bound: SPI failures
    LateErrors,         \* types of commands whose transfer may fail at its end,
                        \* after the bytes have moved
    NetworkFaults,      \* ARP or TCP timeouts and disconnects happen
    PromptChip,         \* the chip accepts a command before the next transfer
    PromptExti          \* EXTI is served before a completed transfer is

Sock == 0 .. NSock - 1
NoSock == 255           \* sn of a command on the common registers

ASSUME DriverAssumption ==
    /\ NSock \in 1 .. 8 /\ Tcp \subseteq Sock
    /\ COMMAND_QUEUE_SIZE \in Nat \ {0} /\ SOCKET_QUEUE_SIZE \in Nat \ {0}
    /\ TxBufLen \in 1 .. 32767 /\ RxBufLen \in 1 .. 32767
    /\ Dst \subseteq Nat
    /\ \A n \in SendLens \cup ArriveLens : n \in Nat \ {0}
    /\ RecvLen \in Nat \ {0} /\ MaxSend \in Nat /\ MaxArrive \in Nat /\ MaxFail \in Nat
    /\ {NetworkFaults, PromptChip, PromptExti} \subseteq BOOLEAN
    \* socket() refuses a receive buffer smaller than this
    /\ RxBufLen >= RXBUF_SIZE + Hdr

VARIABLES
    command_queue,  \* commands waiting for the SPI bus
    running_cmd,    \* the command on the bus
    bus,            \* "none", or the transfer was started for the command
                    \* ("shift") or to poll Sn_CR instead ("poll"), or is "done"
    sockets,        \* the driver's socket_t per socket, shadow registers included
    enqueueFails,   \* enqueueFailsInISR is not zero
    failures,       \* spiErrCount
    chip,           \* the W5500 socket registers and memories
    exti,           \* the EXTI interrupt of the INT pin is pending
    accepted,       \* history: what send or sendto has taken, per socket; a
                    \* sequence of bytes for TCP, of datagrams for UDP
    wire,           \* history: what the chip has transmitted
    arrived,        \* history: what the chip has received
    read            \* history: what recv or recvfrom has returned

driver == <<command_queue, running_cmd, bus, sockets, enqueueFails, failures>>
network == <<accepted, wire, arrived, read>>
vars == <<driver, chip, exti, network>>

-------------------------------------------------------------------------------
(***************************************************************************)
(* Commands.  val holds the registers written, or those a read asks for    *)
(* and, once it has taken place, what it returned.  hdr says that the SPI  *)
(* header in a command's inline buffer is still the one that was           *)
(* generated: TransmitReceive overwrites it.                               *)
(***************************************************************************)
NoRegs == [r \in {} |-> 0]

\* What a read holds before it has taken place.
Unread == [CR |-> "NONE", SR |-> "CLOSED", TX_FSR |-> 0, TX_WR |-> 0,
           RX_RSR |-> 0, RX_RD |-> 0]

Cmd(type, sn) ==
    [cmd_type |-> type, sn |-> sn, val |-> NoRegs, ptr |-> 0, len |-> 0, hdr |-> TRUE]

IDLE_COMMAND == Cmd("IDLE", 0)

SetReg(sn, val)      == [Cmd("WRITE_REG", sn) EXCEPT !.val = val]
GetReg(sn, regs)     == [Cmd("READ_REG", sn) EXCEPT !.val = [r \in regs |-> Unread[r]]]
SetBuf(sn, ptr, len) == [Cmd("WRITE_BUF", sn) EXCEPT !.ptr = ptr, !.len = len]
GetBuf(sn, ptr, len) == [Cmd("READ_BUF", sn) EXCEPT !.ptr = ptr, !.len = len]
ReadSir              == Cmd("READ_SIR", NoSock)
ReadSoc(sn)          == Cmd("READ_SOC", sn)
CheckRcv(sn)         == Cmd("CHECK_RCV", sn)
CheckTxFsr(sn)       == Cmd("CHECK_TX_FSR", sn)

\* The sockets of S from the lowest number up, as a loop over all visits them.
Ascending(S) ==
    [i \in 1 .. Cardinality(S) |-> CHOOSE s \in S : Cardinality({t \in S : t < s}) = i - 1]

\* Memory of a host buffer.
BufRead(buf, at, n) == [k \in 1 .. n |-> buf[at + k - 1]]
BufWrite(buf, at, bytes) ==
    [a \in DOMAIN buf |->
        IF a \in at .. at + Len(bytes) - 1 THEN bytes[a - at + 1] ELSE buf[a]]

\* Mutant: a byte short.
HeaderShort(addr) == [k \in 1 .. Hdr - 1 |-> HeaderByte(addr)]

\* generateSetBufCmd and generateGetBufCmd put the SPI header, hence the chip
\* address, in front of the segment.
Header(addr) == [k \in 1 .. Hdr |-> HeaderByte(addr)]
HasHeader(buf, at) == \A k \in 0 .. Hdr - 1 : buf[at + k][1] = -1 /\ buf[at + k] = buf[at]

-------------------------------------------------------------------------------
(***************************************************************************)
(* Steps of a handler, as functions on the driver's state d:               *)
(*   q, run, bus, sk, fails, err   the variables above                     *)
(*   hal    the outcome of the one HAL_SPI_..._DMA call a handler can make *)
(***************************************************************************)
Now(hal) == [q |-> command_queue, run |-> running_cmd, bus |-> bus, sk |-> sockets,
             fails |-> enqueueFails, err |-> failures, hal |-> hal]

Become(d) ==
    /\ command_queue' = d.q /\ running_cmd' = d.run /\ bus' = d.bus
    /\ sockets' = d.sk /\ enqueueFails' = d.fails /\ failures' = d.err

HalOutcomes == IF failures < MaxFail THEN BOOLEAN ELSE {TRUE}

Idle(d) == d.run.cmd_type = "IDLE"
Full(d) == Len(d.q) >= COMMAND_QUEUE_SIZE

\* queuePushFront while a command is running; a full queue drops it.
InFront(d, c) ==
    IF Full(d) THEN [d EXCEPT !.fails = TRUE] ELSE [d EXCEPT !.q = <<c>> \o @]

\* queuePushBack of a list of commands: what does not fit is dropped.
AppendAll(d, l) ==
    LET room == COMMAND_QUEUE_SIZE - Len(d.q)
    IN  [d EXCEPT !.q = @ \o SubSeq(l, 1, IF Len(l) < room THEN Len(l) ELSE room),
                  !.fails = @ \/ Len(l) > room]

\* Mutants: running_cmd stays; the command is retried after the others.
FailedStaysBusy(d) == [InFront(d, d.run) EXCEPT !.bus = "none", !.err = @ + 1]
FailedToBack(d) ==
    [AppendAll(d, <<d.run>>) EXCEPT !.run = IDLE_COMMAND, !.bus = "none", !.err = @ + 1]

\* handleSPIFailure (the other fields of an IDLE command are never looked at)
Failed(d) ==
    [InFront(d, d.run) EXCEPT !.run = IDLE_COMMAND, !.bus = "none", !.err = @ + 1]

IsCommandWrite(c) == c.cmd_type = "WRITE_REG" /\ "CR" \in DOMAIN c.val

(***************************************************************************)
(* dmaTXCompleteCallback: take the next command and start its transfer.  A *)
(* write to Sn_CR goes out only when the last value read from Sn_CR was 0, *)
(* followed at once by a read of Sn_CR; otherwise Sn_CR is read in its     *)
(* place and the write goes back to the front.                             *)
(***************************************************************************)
Start(d) ==
    IF d.q = <<>> THEN [d EXCEPT !.run = IDLE_COMMAND, !.bus = "none"]
    ELSE LET c    == Head(d.q)
             p    == [d EXCEPT !.q = Tail(@), !.run = c]
             sent == [p EXCEPT !.bus = "shift"]
         IN  IF ~d.hal THEN Failed(p)
             ELSE IF ~IsCommandWrite(c) THEN sent
             ELSE IF d.sk[c.sn].CR # "NONE" THEN InFront([p EXCEPT !.bus = "poll"], c)
             ELSE InFront(sent, GetReg(c.sn, {"CR"}))

\* Mutant: no kickStartCommands.
PushBacksNoKick(d, l) == AppendAll(d, l)

\* The first push into an empty queue calls kickStartCommands.
PushBacks(d, l) ==
    IF d.q = <<>> /\ Idle(d)
    THEN AppendAll(Start([d EXCEPT !.q = <<Head(l)>>]), Tail(l))
    ELSE AppendAll(d, l)

PushFront(d, c) ==
    IF d.q = <<>> /\ Idle(d) THEN Start([d EXCEPT !.q = <<c>>]) ELSE InFront(d, c)

-------------------------------------------------------------------------------
Open == {"ESTABLISHED", "CLOSE_WAIT", "UDP"}

\* queuePopFront, which leaves an empty queue alone
Popped(q) == IF q = <<>> THEN q ELSE Tail(q)

\* Mutant: the port is not set.
SetAddressOnly(s, seg) == <<SetReg(s, [DIPR |-> seg.dst])>>

\* A datagram carries its destination along.
SetDestination(s, seg) ==
    <<SetReg(s, [DIPR |-> seg.dst]), SetReg(s, [DPORT |-> seg.dst])>>

\* sendPendingData: queue the transmission of the oldest segment, if the
\* socket is not already sending and the chip has room for it.
SendPending(d, s) ==
    LET sk  == d.sk[s]
        seg == Head(sk.tx_buf_queue)
        len == seg.end_index - seg.start_index
        dst == IF s \in Tcp THEN <<>> ELSE SetDestination(s, seg)
        chain == <<SetBuf(s, seg.start_index, len),
                   SetReg(s, [TX_WR |-> (sk.TX_WR + len - Hdr) % PtrMod]),
                   SetReg(s, [CR |-> "SEND"])>>
    IN  IF \/ sk.is_sending \/ sk.SR \notin Open \/ sk.tx_buf_queue = <<>>
           \/ len - Hdr > sk.TX_FSR
        THEN d
        ELSE PushBacks([d EXCEPT !.sk[s].is_sending = TRUE,
                                 !.sk[s].tx_buf = BufWrite(@, seg.start_index,
                                                           Header(sk.TX_WR))],
                       dst \o chain)

\* receivePendingData: queue the transfer of everything the chip reported, if
\* none is under way and the host has room.  RECV is issued twice.
ReceivePending(d, s) ==
    LET sk  == d.sk[s]
        at  == BufferIndex(sk.rx_buf_queue, RxBufLen, sk.RX_RSR + Hdr)
        chain == <<GetBuf(s, at, sk.RX_RSR + Hdr),
                   SetReg(s, [RX_RD |-> (sk.RX_RD + sk.RX_RSR) % PtrMod]),
                   SetReg(s, [CR |-> "RECV"]), SetReg(s, [CR |-> "RECV"]),
                   CheckRcv(s)>>
    IN  IF sk.is_receiving \/ sk.SR \notin Open \/ sk.RX_RSR = 0 \/ at = -1
        THEN d
        ELSE PushBacks([d EXCEPT !.sk[s].is_receiving = TRUE,
                                 !.sk[s].rx_buf = BufWrite(@, at, Header(sk.RX_RD))],
                       chain)

-------------------------------------------------------------------------------
(***************************************************************************)
(* dmaRXCompleteCallback, by the type of the command that completed.       *)
(* Application callbacks are left out: the application may make any call   *)
(* at any time.                                                            *)
(***************************************************************************)
\* Mutant: the value of Sn_CR is not stored.
OnReadRegDropped(d) == d

OnReadReg(d) == [d EXCEPT !.sk[d.run.sn] = Overlay(d.run.val, @)]

\* Mutant: every segment goes to the queue of socket 0.
OnReadBufSocket0(d) ==
    LET seg == [start_index |-> d.run.ptr, end_index |-> d.run.ptr + d.run.len]
    IN  [d EXCEPT !.sk[0].rx_buf_queue = Append(@, seg)]

OnReadBuf(d) ==
    LET s   == d.run.sn
        seg == [start_index |-> d.run.ptr, end_index |-> d.run.ptr + d.run.len]
    IN  IF Len(d.sk[s].rx_buf_queue) < SOCKET_QUEUE_SIZE
        THEN [d EXCEPT !.sk[s].rx_buf_queue = Append(@, seg)]
        ELSE [d EXCEPT !.fails = TRUE]

\* One READ_SOC per flagged socket, the highest ending up in front; their
\* SPI headers are written into the sockets' shadow registers.
OnReadSir(d) ==
    LET SIR     == d.run.val.SIR
        flagged == Ascending(SIR)
        room    == COMMAND_QUEUE_SIZE - Len(d.q)
        pushed  == SubSeq(flagged, 1, IF Len(flagged) < room THEN Len(flagged) ELSE room)
    IN  [d EXCEPT !.q = Reverse([i \in DOMAIN pushed |-> ReadSoc(pushed[i])]) \o @,
                  !.fails = @ \/ Len(flagged) > room,
                  !.sk = [s \in Sock |-> [d.sk[s] EXCEPT !.spi = @ \/ s \in SIR]]]

\* Mutant: is_sending is not reset.
OnTimeoutStaysBusy(d, s) ==
    SendPending([d EXCEPT !.sk[s].tx_buf_queue = Popped(@)], s)

OnTimeout(d, s) ==
    IF s \in Tcp
    THEN [d EXCEPT !.sk[s].is_sending = FALSE, !.sk[s].tx_buf_queue = <<>>]
    ELSE SendPending([d EXCEPT !.sk[s].is_sending = FALSE,
                               !.sk[s].tx_buf_queue = Popped(@)], s)

\* Mutants: is_sending is not reset; the segment leaves the queue last.
OnSendOkStaysBusy(d, s) ==
    SendPending([d EXCEPT !.sk[s].tx_buf_queue = Popped(@)], s)
OnSendOkPopsLast(d, s) ==
    LET p == SendPending([d EXCEPT !.sk[s].is_sending = FALSE], s)
    IN  [p EXCEPT !.sk[s].tx_buf_queue = Popped(@)]

OnSendOk(d, s) ==
    SendPending([d EXCEPT !.sk[s].is_sending = FALSE,
                          !.sk[s].tx_buf_queue = Popped(@)], s)

\* Mutant: every flag is cleared, seen or not.
OnReadSocClearsAll(d) ==
    LET s   == d.run.sn
        IR  == d.sk[s].IR
        d1  == IF "RECV" \in IR THEN ReceivePending(d, s) ELSE d
        d2  == IF "TIMEOUT" \in IR THEN OnTimeout(d1, s) ELSE d1
        d3  == IF "SENDOK" \in IR THEN OnSendOk(d2, s) ELSE d2
    IN  InFront(d3, SetReg(s, [IR |-> {"CON", "RECV", "SENDOK", "TIMEOUT", "DISCON"}]))

\* The flags are handled in this order, then cleared by writing them back.
OnReadSoc(d) ==
    LET s   == d.run.sn
        IR  == d.sk[s].IR
        d1  == IF "RECV" \in IR THEN ReceivePending(d, s) ELSE d
        d2  == IF "TIMEOUT" \in IR THEN OnTimeout(d1, s) ELSE d1
        d3  == IF "SENDOK" \in IR THEN OnSendOk(d2, s) ELSE d2
    IN  InFront(d3, SetReg(s, [IR |-> IR]))

\* Mutants: is_receiving is not reset; Sn_RX_RD is not stored.
OnCheckRcvStaysBusy(d) ==
    [d EXCEPT !.sk[d.run.sn] = Overlay(d.run.val, @)]
OnCheckRcvStale(d) ==
    LET s == d.run.sn
    IN  ReceivePending([d EXCEPT !.sk[s] = [@ EXCEPT !.RX_RSR = d.run.val.RX_RSR,
                                                     !.is_receiving = FALSE]], s)

OnCheckRcv(d) ==
    LET s == d.run.sn
    IN  ReceivePending([d EXCEPT !.sk[s] = Overlay(d.run.val, @),
                                 !.sk[s].is_receiving = FALSE], s)

\* Mutant: nobody continues a transmission that waited for space.
OnCheckTxFsrOnly(d) == [d EXCEPT !.sk[d.run.sn] = Overlay(d.run.val, @)]

OnCheckTxFsr(d) ==
    SendPending([d EXCEPT !.sk[d.run.sn] = Overlay(d.run.val, @)], d.run.sn)

\* A write has nothing to process; neither has a poll of Sn_CR, which runs
\* under the write it stands for: what it read is not stored.
Handled(d) ==
    CASE d.run.cmd_type = "READ_REG" -> OnReadReg(d)
      [] d.run.cmd_type = "READ_BUF" -> OnReadBuf(d)
      [] d.run.cmd_type = "READ_SIR" -> OnReadSir(d)
      [] d.run.cmd_type = "READ_SOC" -> OnReadSoc(d)
      [] d.run.cmd_type = "CHECK_RCV" -> OnCheckRcv(d)
      [] d.run.cmd_type = "CHECK_TX_FSR" -> OnCheckTxFsr(d)
      [] OTHER -> d

-------------------------------------------------------------------------------
(***************************************************************************)
(* The application (RTOS tasks).                                           *)
(***************************************************************************)
\* A TCP socket logs the bytes of a message, a UDP socket the datagram.
Logged(s, log, datagram) ==
    IF s \in Tcp THEN log \o datagram.data ELSE Append(log, datagram)

\* send (TCP, dst is ignored) and sendto: the segment is queued if the buffer
\* and the segment queue have room; what is pending is sent in any case.
Send(s, len, dst) ==
    LET sk   == sockets[s]
        at   == BufferIndex(sk.tx_buf_queue, TxBufLen, len + Hdr)
        seg  == [start_index |-> at, end_index |-> at + len + Hdr, dst |-> dst]
        ok   == at # -1 /\ Len(sk.tx_buf_queue) < SOCKET_QUEUE_SIZE
        data == [k \in 1 .. len |-> DataByte(Len(accepted[s]) + 1, k)]
        log  == Logged(s, accepted[s], [dst |-> dst, port |-> dst, data |-> data])
    IN  /\ Len(log) <= MaxSend
        /\ sk.SR \in IF s \in Tcp THEN {"ESTABLISHED", "CLOSE_WAIT"} ELSE {"UDP"}
        /\ len <= TXBUF_SIZE /\ len + Hdr <= TxBufLen
        /\ \E hal \in HalOutcomes :
             IF ok
             THEN /\ Become(SendPending([Now(hal) EXCEPT
                        !.sk[s].tx_buf_queue = Append(@, seg),
                        !.sk[s].tx_buf = BufWrite(@, at + Hdr, data)], s))
                  /\ accepted' = [accepted EXCEPT ![s] = log]
             ELSE /\ Become(SendPending(Now(hal), s))
                  /\ UNCHANGED accepted
        /\ UNCHANGED <<chip, exti, wire, arrived, read>>

\* recv: as many whole segments as fit.
Recv(s) ==
    LET sk       == sockets[s]
        data(i)  == LET segment == sk.rx_buf_queue[i]
                    IN  BufRead(sk.rx_buf, segment.start_index + Hdr,
                                segment.end_index - segment.start_index - Hdr)
        copied[i \in 0 .. Len(sk.rx_buf_queue)] ==
            IF i = 0 THEN <<>> ELSE copied[i - 1] \o data(i)
        n        == Max({i \in DOMAIN copied : Len(copied[i]) <= RecvLen})
    IN  /\ s \in Tcp
        /\ \E hal \in HalOutcomes :
             Become(ReceivePending([Now(hal) EXCEPT
                 !.sk[s].rx_buf_queue = SubSeq(@, n + 1, Len(@))], s))
        /\ read' = [read EXCEPT ![s] = @ \o copied[n]]
        /\ UNCHANGED <<chip, exti, accepted, wire, arrived>>

\* Mutant: a gap for the wrong header.
TrimmedWrongGap(segment, new_start) ==
    IF new_start + UdpHdr < segment.end_index
    THEN <<[segment EXCEPT !.start_index = new_start - UdpHdr]>> ELSE <<>>

\* What is left of a segment behind new_start goes on behind a gap for the
\* SPI header it no longer has.
Trimmed(segment, new_start) ==
    IF new_start + UdpHdr < segment.end_index
    THEN <<[segment EXCEPT !.start_index = new_start - Hdr]>> ELSE <<>>

(***************************************************************************)
(* A received datagram starts with its source and its length; the number   *)
(* of the datagram stands for the source.                                  *)
(***************************************************************************)
DatagramHeader(n, len) == [k \in 1 .. UdpHdr |-> IF k < UdpHdr THEN <<n, 0>> ELSE <<len, 0>>]

\* recvfrom: the first datagram of the first segment, if it fits.
RecvFrom(s) ==
    LET sk        == sockets[s]
        segment   == Head(sk.rx_buf_queue)
        at        == segment.start_index + Hdr
        packet_len == sk.rx_buf[at + UdpHdr - 1][1]
        rest      == Trimmed(segment, at + UdpHdr + packet_len)
        fits      == /\ sk.rx_buf_queue # <<>>
                     /\ segment.end_index - segment.start_index >= Hdr + UdpHdr
                     /\ packet_len <= RecvLen
    IN  /\ s \notin Tcp
        /\ \E hal \in HalOutcomes :
             IF fits
             THEN /\ Become(ReceivePending([Now(hal) EXCEPT
                        !.sk[s].rx_buf_queue = rest \o Tail(@)], s))
                  /\ read' = [read EXCEPT ![s] =
                        Append(@, [src  |-> sk.rx_buf[at][1],
                                   data |-> BufRead(sk.rx_buf, at + UdpHdr, packet_len)])]
             ELSE /\ Become(ReceivePending(Now(hal), s))
                  /\ UNCHANGED read
        /\ UNCHANGED <<chip, exti, accepted, wire, arrived>>

-------------------------------------------------------------------------------
(***************************************************************************)
(* The SPI bus.  PromptChip: Sn_CR is clear again before the next transfer *)
(* moves its bytes.  What a transfer with a destroyed SPI header does is   *)
(* not modelled: HeaderIntact says when that can happen.                   *)
(***************************************************************************)
Shifting(type) ==
    /\ bus = "shift" /\ running_cmd.cmd_type = type
    /\ PromptChip => \A s \in Sock : chip[s].CR = "NONE"
    /\ bus' = "done"
    /\ UNCHANGED <<command_queue, enqueueFails, failures, network>>

Flagged(ch) == {s \in Sock : ch[s].IR # {}}

\* The INT pin falls when the first flag of all sockets appears.
ChipBecomes(ch) ==
    /\ chip' = ch
    /\ exti' = (exti \/ (Flagged(chip) = {} /\ Flagged(ch) # {}))

TransferWriteReg ==
    /\ Shifting("WRITE_REG") /\ running_cmd.hdr
    /\ ChipBecomes([chip EXCEPT ![running_cmd.sn] = WriteReg(@, running_cmd.val)])
    /\ UNCHANGED <<running_cmd, sockets>>

TransferWriteBuf ==
    LET s    == running_cmd.sn
        buf  == sockets[s].tx_buf
        at   == running_cmd.ptr
    IN  /\ Shifting("WRITE_BUF") /\ HasHeader(buf, at)
        /\ ChipBecomes([chip EXCEPT ![s].tx_mem =
               RingWrite(@, TXBUF_SIZE, buf[at][2],
                         BufRead(buf, at + Hdr, running_cmd.len - Hdr))])
        /\ UNCHANGED <<running_cmd, sockets>>

\* What a read returns lands in the command's own buffer, over its header.
Fetch(type, val) ==
    /\ Shifting(type) /\ running_cmd.hdr
    /\ running_cmd' = [running_cmd EXCEPT !.val = val, !.hdr = FALSE]
    /\ UNCHANGED <<sockets, chip, exti>>

TransferReadSir == Fetch("READ_SIR", [SIR |-> Flagged(chip)])

TransferCheckRcv ==
    LET c == chip[running_cmd.sn]
    IN  Fetch("CHECK_RCV", [RX_RSR |-> RxSize(c), RX_RD |-> c.RX_RD])

TransferCheckTxFsr ==
    LET c == chip[running_cmd.sn]
    IN  Fetch("CHECK_TX_FSR", [TX_FSR |-> TxFree(c), TX_WR |-> c.TX_WR])

TransferReadBuf ==
    LET s  == running_cmd.sn
        at == running_cmd.ptr
        n  == running_cmd.len - Hdr
    IN  /\ Shifting("READ_BUF") /\ HasHeader(sockets[s].rx_buf, at)
        /\ sockets' = [sockets EXCEPT ![s].rx_buf =
              BufWrite(@, at, [k \in 1 .. Hdr |-> Junk] \o
                              RingRead(chip[s].rx_mem, RXBUF_SIZE, @[at][2], n))]
        /\ UNCHANGED <<running_cmd, chip, exti>>

\* The block of socket registers lands in the shadow registers themselves.
Shadow(c) ==
    [CR |-> c.CR, IR |-> c.IR, SR |-> c.SR, TX_FSR |-> TxFree(c), TX_WR |-> c.TX_WR,
     RX_RSR |-> RxSize(c), RX_RD |-> c.RX_RD, spi |-> FALSE]

TransferReadReg ==
    LET regs == Shadow(chip[running_cmd.sn])
    IN  Fetch("READ_REG", [r \in DOMAIN running_cmd.val |-> regs[r]])

\* Mutant: the block ends before Sn_SR.
TransferReadSocShort ==
    LET s == running_cmd.sn
    IN  /\ Shifting("READ_SOC") /\ sockets[s].spi
        /\ sockets' = [sockets EXCEPT ![s].IR = chip[s].IR, ![s].CR = chip[s].CR, ![s].spi = FALSE]
        /\ UNCHANGED <<running_cmd, chip, exti>>

TransferReadSoc ==
    LET s == running_cmd.sn
    IN  /\ Shifting("READ_SOC") /\ sockets[s].spi
        /\ sockets' = [sockets EXCEPT ![s] = Overlay(Shadow(chip[s]), @)]
        /\ UNCHANGED <<running_cmd, chip, exti>>

\* The read of Sn_CR that stands in for a write: its result goes nowhere.
TransferPoll ==
    /\ bus = "poll" /\ bus' = "done"
    /\ PromptChip => \A s \in Sock : chip[s].CR = "NONE"
    /\ UNCHANGED <<command_queue, running_cmd, sockets, enqueueFails, failures,
                   chip, exti, network>>

Transfer ==
    \/ TransferWriteReg \/ TransferWriteBuf \/ TransferReadReg \/ TransferReadSir
    \/ TransferCheckRcv \/ TransferCheckTxFsr \/ TransferReadBuf \/ TransferReadSoc
    \/ TransferPoll

\* wiznetSPITxRxCompleteCallback, wiznetSPITxCompleteCallback
SpiComplete ==
    /\ bus = "done"
    /\ PromptExti => ~exti
    /\ \E hal \in HalOutcomes : Become(Start(Handled(Now(hal))))
    /\ UNCHANGED <<chip, exti, network>>

\* wiznetSPIErrorCallback, wiznetSPIAbortCallback
SpiError ==
    /\ bus \in {"shift", "poll"} \/ (bus = "done" /\ running_cmd.cmd_type \in LateErrors)
    /\ failures < MaxFail
    /\ Become(Failed(Now(TRUE)))
    /\ UNCHANGED <<chip, exti, network>>

\* wiznetInterruptCallback, at any time after the INT pin has fallen
Exti ==
    /\ exti /\ exti' = FALSE
    /\ \E hal \in HalOutcomes : Become(PushFront(Now(hal), ReadSir))
    /\ UNCHANGED <<chip, network>>

\* Bound: the timer does not tick again before its last READ_SIR was fetched,
\* unless the bus stands still.
TickBound ==
    \/ Idle(Now(TRUE))
    \/ \A i \in DOMAIN command_queue : command_queue[i].cmd_type # "READ_SIR"

\* Mutant: the timer only queues its commands.
NotRestarted(d) == d

Restarted(d) == IF Idle(d) /\ d.q # <<>> THEN Start(d) ELSE d

\* Mutant: missed edges stay missed.
NoReadSir ==
    LET established == Ascending({s \in Sock : sockets[s].SR = "ESTABLISHED"})
    IN  [i \in DOMAIN established |-> CheckTxFsr(established[i])]

\* What the timer asks for: transmit space of every connected socket, and the
\* interrupt register in case an edge was missed.
TimerCommands ==
    LET established == Ascending({s \in Sock : sockets[s].SR = "ESTABLISHED"})
    IN  [i \in DOMAIN established |-> CheckTxFsr(established[i])] \o <<ReadSir>>

\* Wiznet_Timer_Callback
Timer ==
    /\ TickBound
    /\ \E hal \in HalOutcomes : Become(PushBacks(Restarted(Now(hal)), TimerCommands))
    /\ UNCHANGED <<chip, exti, network>>

-------------------------------------------------------------------------------
(***************************************************************************)
(* The chip and the network behind it.                                     *)
(***************************************************************************)
ChipOnly == UNCHANGED <<driver, accepted, read>>

\* The chip accepts the command in Sn_CR; a SEND waits for the previous one.
Accept(s) ==
    /\ \/ chip[s].CR = "SEND" /\ ~chip[s].sending
          /\ ChipBecomes([chip EXCEPT ![s] = AcceptSend(@)])
       \/ chip[s].CR = "RECV" /\ ChipBecomes([chip EXCEPT ![s] = AcceptRecv(@)])
    /\ ChipOnly /\ UNCHANGED <<wire, arrived>>

\* SENDOK; a datagram leaves transmit memory, TCP data waits for its ACK.
SendDone(s) ==
    LET c == chip[s]
    IN  /\ c.sending
        /\ wire' = [wire EXCEPT ![s] = Logged(s, @,
               [dst |-> c.DIPR, port |-> c.DPORT, data |-> c.outbound])]
        /\ ChipBecomes([chip EXCEPT ![s] =
               [c EXCEPT !.sending = FALSE, !.outbound = <<>>, !.IR = @ \cup {"SENDOK"},
                         !.acked = IF s \in Tcp THEN @ ELSE c.TX_RD]])
        /\ ChipOnly /\ UNCHANGED arrived

\* No ARP answer for a datagram, or no ACK for a segment: TCP gives up.
SendTimeout(s) ==
    LET c == chip[s]
    IN  /\ NetworkFaults
        /\ c.sending \/ (s \in Tcp /\ c.SR # "CLOSED" /\ c.acked # c.TX_RD)
        /\ ChipBecomes([chip EXCEPT ![s] =
               [c EXCEPT !.sending = FALSE, !.outbound = <<>>, !.IR = @ \cup {"TIMEOUT"},
                         !.acked = c.TX_RD,
                         !.SR = IF s \in Tcp THEN "CLOSED" ELSE @]])
        /\ ChipOnly /\ UNCHANGED <<wire, arrived>>

\* The peer acknowledges what was transmitted.
PeerAck(s) ==
    /\ s \in Tcp /\ ~chip[s].sending /\ chip[s].acked # chip[s].TX_RD
    /\ ChipBecomes([chip EXCEPT ![s].acked = chip[s].TX_RD])
    /\ ChipOnly /\ UNCHANGED <<wire, arrived>>

\* The network delivers len bytes; the chip takes what fits its memory.
Arrive(s, len) ==
    LET n     == Len(arrived[s]) + 1
        data  == [k \in 1 .. len |-> DataByte(n, k)]
        log   == Logged(s, arrived[s], [src |-> n, data |-> data])
        bytes == IF s \in Tcp THEN data ELSE DatagramHeader(n, len) \o data
    IN  /\ Len(log) <= MaxArrive
        /\ chip[s].SR \in {"ESTABLISHED", "UDP"}
        /\ RxSize(chip[s]) + Len(bytes) <= RXBUF_SIZE
        /\ arrived' = [arrived EXCEPT ![s] = log]
        /\ ChipBecomes([chip EXCEPT ![s] = Deposit(@, bytes)])
        /\ ChipOnly /\ UNCHANGED wire

\* The peer closes its side of the connection.
PeerFin(s) ==
    /\ NetworkFaults /\ chip[s].SR = "ESTABLISHED"
    /\ ChipBecomes([chip EXCEPT ![s].SR = "CLOSE_WAIT", ![s].IR = @ \cup {"DISCON"}])
    /\ ChipOnly /\ UNCHANGED <<wire, arrived>>

-------------------------------------------------------------------------------
\* Every socket has just been opened, by socket() and, for TCP, connect().
Init ==
    LET opened(s) == Opened(IF s \in Tcp THEN "ESTABLISHED" ELSE "UDP")
    IN  /\ command_queue = <<>> /\ running_cmd = IDLE_COMMAND /\ bus = "none"
        /\ chip = [s \in Sock |-> opened(s)]
        /\ sockets = [s \in Sock |-> Overlay(Shadow(opened(s)),
                         [tx_buf |-> [a \in 0 .. TxBufLen - 1 |-> Junk], tx_buf_queue |-> <<>>,
                          rx_buf |-> [a \in 0 .. RxBufLen - 1 |-> Junk], rx_buf_queue |-> <<>>,
                          is_sending |-> FALSE, is_receiving |-> FALSE])]
        /\ enqueueFails = FALSE /\ failures = 0 /\ exti = FALSE
        /\ accepted = [s \in Sock |-> <<>>] /\ wire = [s \in Sock |-> <<>>]
        /\ arrived = [s \in Sock |-> <<>>] /\ read = [s \in Sock |-> <<>>]

Application ==
    \E s \in Sock :
        \/ \E len \in SendLens, dst \in IF s \in Tcp THEN {0} ELSE Dst : Send(s, len, dst)
        \/ Recv(s)
        \/ RecvFrom(s)

Interrupts == SpiComplete \/ SpiError \/ Exti \/ Timer

Network ==
    \E s \in Sock :
        \/ Accept(s) \/ SendDone(s) \/ SendTimeout(s) \/ PeerAck(s) \/ PeerFin(s)
        \/ \E len \in ArriveLens : Arrive(s, len)

Next == Application \/ Transfer \/ Interrupts \/ Network

Spec == Init /\ [][Next]_vars

(***************************************************************************)
(* Fairness: the DMA engine finishes transfers and their interrupts are    *)
(* served, a pending EXTI is served, the timer ticks, the chip carries out *)
(* commands and the peer acknowledges, and the application keeps reading.  *)
(* Sending, arrivals, errors and network faults are not fair.              *)
(***************************************************************************)
Fairness ==
    /\ WF_vars(Transfer \/ SpiComplete) /\ WF_vars(Exti) /\ WF_vars(Timer)
    /\ \A s \in Sock :
        /\ WF_vars(Accept(s) \/ SendDone(s) \/ PeerAck(s))
        /\ WF_vars(Recv(s) \/ RecvFrom(s))

FairSpec == Spec /\ Fairness

-------------------------------------------------------------------------------
TypeOK ==
    /\ Len(command_queue) <= COMMAND_QUEUE_SIZE
    /\ bus \in {"none", "shift", "poll", "done"}
    /\ (bus = "none") = (running_cmd.cmd_type = "IDLE")
    /\ enqueueFails \in BOOLEAN /\ exti \in BOOLEAN /\ failures \in 0 .. MaxFail
    /\ \A s \in Sock :
        /\ sockets[s].CR \in {"NONE", "OPEN", "CONNECT", "DISCON", "CLOSE", "SEND", "RECV"}
        /\ sockets[s].IR \subseteq {"CON", "RECV", "SENDOK", "TIMEOUT", "DISCON"}
        /\ sockets[s].SR \in Open \cup {"CLOSED", "INIT", "SYNSENT", "FIN_WAIT"}
        /\ sockets[s].TX_FSR \in 0 .. TXBUF_SIZE /\ sockets[s].RX_RSR \in 0 .. RXBUF_SIZE
        /\ {sockets[s].TX_WR, sockets[s].RX_RD} \subseteq 0 .. PtrMod - 1
        /\ Len(sockets[s].tx_buf_queue) <= SOCKET_QUEUE_SIZE
        /\ Len(sockets[s].rx_buf_queue) <= SOCKET_QUEUE_SIZE

\* The commands that have not had their effect yet, the next one first.
Pending == (IF bus = "shift" THEN <<running_cmd>> ELSE <<>>) \o command_queue

IsSend(c, s) == IsCommandWrite(c) /\ c.sn = s /\ c.val.CR = "SEND"

-----------------------------------------------------------------------------
(***************************************************************************)
(* Streams.                                                                *)
(***************************************************************************)
\* What send and sendto accept goes out on the wire in order, once, unchanged
\* and, for sendto, to the destination it was given.
Tx == INSTANCE MessagePipe WITH
        in <- accepted, out <- wire, Chan <- Sock,
        Reliable <- IF NetworkFaults THEN Tcp ELSE Sock
TxStream == Tx!Spec

\* What arrives is returned by recv and recvfrom in order, once, unchanged,
\* datagram by datagram with its source.
Rx == INSTANCE MessagePipe WITH
        in <- arrived, out <- read, Chan <- Sock, Reliable <- Sock
RxStream == Rx!Spec

\* All that send and sendto accept is transmitted, unless the socket is closed.
AllSent ==
    \A s \in Sock : <>[](Len(accepted[s]) = Len(wire[s]) \/ chip[s].SR = "CLOSED")

\* All that arrives is read.
AllRead ==
    \A s \in Sock : <>[](Len(arrived[s]) = Len(read[s]))

-----------------------------------------------------------------------------
(***************************************************************************)
(* The command queue.                                                      *)
(***************************************************************************)
\* A transmission in the queue is that of the oldest segment: the bytes it
\* will take from the send buffer have not been given back to the application.
WriteBufIsOldest ==
    \A i \in DOMAIN Pending :
        LET c == Pending[i]
            sk == sockets[c.sn]
        IN  c.cmd_type = "WRITE_BUF" /\ sk.SR # "CLOSED" =>
                /\ sk.is_sending /\ sk.tx_buf_queue # <<>>
                /\ c.ptr = Head(sk.tx_buf_queue).start_index
                /\ c.len = Head(sk.tx_buf_queue).end_index - c.ptr

\* The outcome of a SEND is known to the chip and not yet to the driver.
Unseen(s) ==
    \E flag \in chip[s].IR \cap {"SENDOK", "TIMEOUT"} :
        \A i \in DOMAIN Pending :
            ~(/\ Pending[i].cmd_type = "WRITE_REG" /\ Pending[i].sn = s
              /\ "IR" \in DOMAIN Pending[i].val /\ flag \in Pending[i].val.IR)

\* is_sending stands for exactly one SEND command that is on its way to the
\* chip, or being carried out, or whose outcome has not been looked at.
SendingOnce ==
    \A s \in Sock : chip[s].SR # "CLOSED" =>
        LET onTheWay == {i \in DOMAIN Pending : IsSend(Pending[i], s)}
            stages   == <<chip[s].CR = "SEND", chip[s].sending, Unseen(s)>>
        IN  Cardinality(onTheWay) + Cardinality({i \in DOMAIN stages : stages[i]})
                = IF sockets[s].is_sending THEN 1 ELSE 0

\* is_receiving stands for exactly one CHECK_RCV still to come.
ReceivingOnce ==
    \A s \in Sock :
        LET unhandled == (IF bus \in {"shift", "done"} THEN <<running_cmd>> ELSE <<>>)
                            \o command_queue
            checks    == {i \in DOMAIN unhandled : unhandled[i].cmd_type = "CHECK_RCV"
                                                    /\ unhandled[i].sn = s}
        IN  Cardinality(checks) = IF sockets[s].is_receiving THEN 1 ELSE 0

\* Sn_CR is written only while the chip has no command in it.
CommandRegisterFree ==
    bus = "shift" /\ IsCommandWrite(running_cmd) => chip[running_cmd.sn].CR = "NONE"

\* The bus stands still with commands waiting only after an SPI failure.
StallNeedsFailure == Idle(Now(TRUE)) /\ command_queue # <<>> => failures > 0

\* Every transfer starts with the SPI header that was generated for it.
HeaderIntact ==
    bus = "shift" =>
        LET s == running_cmd.sn
        IN  CASE running_cmd.cmd_type = "WRITE_BUF" -> HasHeader(sockets[s].tx_buf, running_cmd.ptr)
              [] running_cmd.cmd_type = "READ_BUF"  -> HasHeader(sockets[s].rx_buf, running_cmd.ptr)
              [] running_cmd.cmd_type = "READ_SOC"  -> sockets[s].spi
              [] OTHER -> running_cmd.hdr
===============================================================================
