------------------------------- MODULE Segments -------------------------------
(***************************************************************************)
(* The byte layout shared by the driver's transmit and receive buffers:    *)
(* segments, the SPI header in front of each, and the placement of the     *)
(* next one.                                                               *)
(*                                                                         *)
(* A definition marked "Mutant" is a faulty variant of the definition that *)
(* follows it; nothing uses it, except to show that a property can fail.   *)
(***************************************************************************)
EXTENDS Integers, Sequences

Hdr == 3        \* SPI header bytes in front of every segment
UdpHdr == 8     \* address, port and length in front of a received datagram

\* Mutants: one byte too many at the end of the buffer; the layout whose
\* youngest segments have wrapped is treated like the other one.
BufferIndexOffByOne(q, buf_len, len) ==
    IF q = <<>>
    THEN IF len <= buf_len THEN 0 ELSE -1
    ELSE LET queue_start == q[1].start_index
             queue_end   == q[Len(q)].end_index
         IN  IF queue_end >= queue_start
             THEN IF len <= buf_len - queue_end + 1 THEN queue_end
                  ELSE IF len <= queue_start THEN 0 ELSE -1
             ELSE IF len <= queue_start - queue_end THEN queue_end ELSE -1
BufferIndexNotWrapped(q, buf_len, len) ==
    IF q = <<>>
    THEN IF len <= buf_len THEN 0 ELSE -1
    ELSE LET queue_start == q[1].start_index
             queue_end   == q[Len(q)].end_index
         IN  IF len <= buf_len - queue_end THEN queue_end
             ELSE IF len <= queue_start THEN 0 ELSE -1

(***************************************************************************)
(* Where the next len bytes go, given the queue q of live segments: after  *)
(* the youngest one, else at the beginning, else nowhere (-1).  One        *)
(* definition for getTXBufferIndex and getRXBufferIndex, which are         *)
(* line-by-line copies of each other.                                      *)
(***************************************************************************)
BufferIndex(q, buf_len, len) ==
    IF q = <<>>
    THEN IF len <= buf_len THEN 0 ELSE -1
    ELSE LET queue_start == q[1].start_index
             queue_end   == q[Len(q)].end_index
         IN  IF queue_end >= queue_start
             THEN IF len <= buf_len - queue_end THEN queue_end
                  ELSE IF len <= queue_start THEN 0 ELSE -1
             ELSE IF len <= queue_start - queue_end THEN queue_end ELSE -1

\* Two segments share no byte.
Apart(s, t) == s.end_index <= t.start_index \/ t.end_index <= s.start_index
===============================================================================
