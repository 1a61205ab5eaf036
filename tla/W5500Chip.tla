------------------------------- MODULE W5500Chip -------------------------------
(***************************************************************************)
(* The registers and buffer memories of one W5500 socket, as far as the    *)
(* driver depends on them.  The chip is external hardware: what is said    *)
(* here is what w5500_macros.h says of its registers and what the driver   *)
(* in w5500.cpp expects of them.                                           *)
(***************************************************************************)
EXTENDS Integers, Sequences

CONSTANTS
    TXBUF_SIZE,     \* bytes of transmit memory of a socket
    RXBUF_SIZE,     \* bytes of receive memory of a socket
    PtrMod,         \* the pointer registers count modulo this (2^16)
    InitPtr         \* where the pointers stand after OPEN or CONNECT

\* Addresses inside a memory are the low bits of a pointer register.
ASSUME PtrAssumption ==
    /\ TXBUF_SIZE \in Nat \ {0} /\ RXBUF_SIZE \in Nat \ {0} /\ PtrMod \in Nat \ {0}
    /\ PtrMod % TXBUF_SIZE = 0 /\ PtrMod % RXBUF_SIZE = 0
    /\ TXBUF_SIZE < PtrMod /\ RXBUF_SIZE < PtrMod
    /\ InitPtr \in 0 .. PtrMod - 1

(***************************************************************************)
(* A byte is a pair: byte k of message n, a byte of the SPI header that    *)
(* addresses chip location a, or whatever the chip drives while a header   *)
(* is shifted in.                                                          *)
(***************************************************************************)
DataByte(n, k) == <<n, k>>
HeaderByte(a)  == <<-1, a>>
Junk           == <<-2, 0>>

\* A transfer that runs off the end of a memory continues at its beginning.
RingRead(mem, size, at, n) == [k \in 1 .. n |-> mem[(at + k - 1) % size]]
RingWrite(mem, size, at, bytes) ==
    [a \in 0 .. size - 1 |->
        LET k == ((a - at) % size) + 1
        IN  IF k <= Len(bytes) THEN bytes[k] ELSE mem[a]]

-------------------------------------------------------------------------------
\* A socket that has just been opened (UDP) or connected (TCP).
Opened(status) ==
    [CR |-> "NONE", IR |-> {}, SR |-> status,
     DIPR |-> 0, DPORT |-> 0,
     TX_RD |-> InitPtr, TX_WR |-> InitPtr,
     acked |-> InitPtr,         \* the internal pointer Sn_TX_FSR counts from
     RX_RD |-> InitPtr, RX_WR |-> InitPtr,
     taken |-> InitPtr,         \* Sn_RX_RD as of the last RECV command
     sending |-> FALSE,         \* a SEND command is being carried out
     outbound |-> <<>>,         \* the bytes it transmits
     tx_mem |-> [a \in 0 .. TXBUF_SIZE - 1 |-> Junk],
     rx_mem |-> [a \in 0 .. RXBUF_SIZE - 1 |-> Junk]]

\* Sn_TX_FSR: what the peer has not acknowledged (TCP) or the chip has not
\* sent (UDP) still occupies transmit memory.
TxFree(c) == TXBUF_SIZE - ((c.TX_WR - c.acked) % PtrMod)

\* Sn_RX_RSR: received bytes not yet released by a RECV command.
RxSize(c) == (c.RX_WR - c.taken) % PtrMod

\* The registers regs over those of c (regs @@ c, which the provers do not know).
Overlay(regs, c) ==
    [r \in DOMAIN regs \cup DOMAIN c |-> IF r \in DOMAIN regs THEN regs[r] ELSE c[r]]

\* The host writes registers: a bit of Sn_IR is cleared by writing it.
WriteReg(c, regs) ==
    IF "IR" \in DOMAIN regs THEN [c EXCEPT !.IR = @ \ regs.IR] ELSE Overlay(regs, c)

\* SEND transmits from Sn_TX_RD to Sn_TX_WR; RECV releases up to Sn_RX_RD.
\* Either way Sn_CR is cleared as soon as the command is accepted; a socket
\* without a connection sends nothing.
AcceptSend(c) ==
    IF c.SR \notin {"ESTABLISHED", "CLOSE_WAIT", "UDP"} THEN [c EXCEPT !.CR = "NONE"]
    ELSE [c EXCEPT !.CR = "NONE", !.TX_RD = c.TX_WR, !.sending = TRUE,
                   !.outbound = RingRead(c.tx_mem, TXBUF_SIZE, c.TX_RD,
                                         (c.TX_WR - c.TX_RD) % PtrMod)]
AcceptRecv(c) == [c EXCEPT !.CR = "NONE", !.taken = c.RX_RD]

\* Bytes from the network land in receive memory.
Deposit(c, bytes) ==
    [c EXCEPT !.rx_mem = RingWrite(@, RXBUF_SIZE, c.RX_WR, bytes),
              !.RX_WR = (@ + Len(bytes)) % PtrMod,
              !.IR = @ \cup {"RECV"}]
===============================================================================
