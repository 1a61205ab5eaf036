------------------------------ MODULE SegmentRing ------------------------------
(***************************************************************************)
(* The host-side transmit and receive buffers of one socket: a byte array  *)
(* cut into segments, of which only the queue of live ones (tx_buf_queue   *)
(* or rx_buf_queue) is kept.  getTXBufferIndex and getRXBufferIndex look   *)
(* at the two ends of that queue to place the next segment.                *)
(*                                                                         *)
(* A transmit segment is placed and queued in one critical section (send,  *)
(* sendto).  A receive segment is placed when its READ_BUF command is      *)
(* queued and joins the queue only when that transfer completes, while the *)
(* application consumes older segments at any time.                        *)
(***************************************************************************)
EXTENDS Segments

CONSTANTS
    BufLen,             \* tx_buf_len or rx_buf_len
    SOCKET_QUEUE_SIZE,  \* capacity of a segment queue
    Lens,               \* sizes requested, SPI header included
    Datagrams           \* sizes of UDP datagrams, their 8-byte header included

\* Positions are kept in int16_t: a larger buffer would make them negative.
ASSUME BufLenAssumption == BufLen \in 1 .. 32767
ASSUME QueueSizeAssumption == SOCKET_QUEUE_SIZE \in Nat \ {0}
ASSUME LensAssumption == Lens \subseteq Nat \ {0}
ASSUME DatagramsAssumption == Datagrams \subseteq Nat \ {0}

Segment == [start_index : 0 .. BufLen, end_index : 0 .. BufLen]
NoSegment == [start_index |-> 0, end_index |-> 0]

Seg(at, len) == [start_index |-> at, end_index |-> at + len]

VARIABLES
    queue,      \* tx_buf_queue or rx_buf_queue
    inflight,   \* the receive segment a READ_BUF is filling, or NoSegment
    filled      \* history: since the last time nothing was live, the segments
                \* have filled the buffer exactly

vars == <<queue, inflight, filled>>

\* Every region that holds bytes somebody still needs, oldest first.
Live == IF inflight = NoSegment THEN queue ELSE Append(queue, inflight)

\* The back of the youngest segment meets the front of the oldest.
MeetsFront(q) == q # <<>> /\ q[Len(q)].end_index = q[1].start_index

Remember == filled' = (Live' # <<>> /\ (filled \/ MeetsFront(Live')))

Init ==
    /\ queue = <<>>
    /\ inflight = NoSegment
    /\ filled = FALSE

\* send and sendto: place the segment and queue it, if both have room.
Send(len) ==
    LET at == BufferIndex(queue, BufLen, len)
    IN  /\ at # -1
        /\ Len(queue) < SOCKET_QUEUE_SIZE
        /\ queue' = Append(queue, Seg(at, len))
        /\ UNCHANGED inflight
        /\ Remember

\* SENDOK, or a UDP TIMEOUT, retires the segment that was being sent.
Sent ==
    /\ queue # <<>>
    /\ queue' = Tail(queue)
    /\ UNCHANGED inflight
    /\ Remember

\* A TCP TIMEOUT and a new socket() drop all segments.
Clear ==
    /\ queue' = <<>>
    /\ UNCHANGED inflight
    /\ Remember

\* receivePendingData: place the segment a READ_BUF will fill.
Receive(len) ==
    LET at == BufferIndex(queue, BufLen, len)
    IN  /\ inflight = NoSegment
        /\ at # -1
        /\ inflight' = Seg(at, len)
        /\ UNCHANGED queue
        /\ Remember

\* READ_BUF completes: the segment is queued, or dropped by a full queue.
Received ==
    /\ inflight # NoSegment
    /\ queue' = IF Len(queue) < SOCKET_QUEUE_SIZE
                THEN Append(queue, inflight) ELSE queue
    /\ inflight' = NoSegment
    /\ Remember

\* recv: the segment was copied out whole.
Consume ==
    /\ queue # <<>>
    /\ queue' = Tail(queue)
    /\ UNCHANGED inflight
    /\ Remember

\* recvfrom: one datagram was copied out.  What is left keeps room for the
\* (by now meaningless) SPI header in front of it.
ConsumeDatagram(size) ==
    /\ queue # <<>>
    /\ LET segment   == Head(queue)
           new_start == segment.start_index + Hdr + size
       IN  /\ new_start <= segment.end_index
           /\ queue' = IF new_start + UdpHdr < segment.end_index
                       THEN <<[segment EXCEPT !.start_index = new_start - Hdr]>>
                            \o Tail(queue)
                       ELSE Tail(queue)
    /\ UNCHANGED inflight
    /\ Remember

TxNext == (\E len \in Lens : Send(len)) \/ Sent \/ Clear

RxNext ==
    \/ \E len \in Lens : Receive(len)
    \/ Received
    \/ Consume
    \/ \E size \in Datagrams : ConsumeDatagram(size)

TxSpec == Init /\ [][TxNext]_vars
RxSpec == Init /\ [][RxNext]_vars

-------------------------------------------------------------------------------
TypeOK ==
    /\ queue \in Seq(Segment)
    /\ Len(queue) <= SOCKET_QUEUE_SIZE
    /\ inflight \in Segment
    /\ filled \in BOOLEAN

\* No byte belongs to two live segments: a new message never overwrites one
\* that is still waiting to be sent, a transfer never one still to be read.
Disjoint ==
    \A i, j \in 1 .. Len(Live) : i # j => Apart(Live[i], Live[j])

\* Overlap is possible only after the live segments have filled the buffer to
\* the last byte: BufferIndex then takes the full buffer for one that has not
\* wrapped and hands out the bytes after the youngest segment again.
OverlapNeedsExactFit == ~filled => Disjoint
===============================================================================
