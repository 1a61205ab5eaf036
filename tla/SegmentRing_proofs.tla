-------------------------- MODULE SegmentRing_proofs --------------------------
(***************************************************************************)
(* As long as the live segments never fill the buffer to the last byte,    *)
(* BufferIndex keeps them disjoint, for every buffer length, queue         *)
(* capacity and mix of message sizes.                                      *)
(***************************************************************************)
EXTENDS SegmentRing, TLAPS

Wrapped(q, i) == q[i].start_index < q[1].start_index

\* The shape of a ring of segments, oldest first: a run of ascending segments,
\* then possibly a second ascending run that stays below the oldest one.
RingShape(q) ==
    /\ \A i \in 1 .. Len(q) : q[i].start_index < q[i].end_index
    /\ \A i \in 1 .. Len(q) : Wrapped(q, i) => q[i].end_index <= q[1].start_index
    /\ \A i, j \in 1 .. Len(q) :
          i < j => /\ Wrapped(q, i) => Wrapped(q, j)
                   /\ (Wrapped(q, i) <=> Wrapped(q, j)) =>
                          q[i].end_index <= q[j].start_index

\* A segment lies within the buffer.
LEMMA SegmentFields ==
    ASSUME NEW s \in Segment
    PROVE  /\ s.start_index \in Nat /\ s.end_index \in Nat
           /\ s.start_index <= BufLen /\ s.end_index <= BufLen
  BY BufLenAssumption DEF Segment

\* Segments of a ring do not share a byte.
LEMMA ShapeIsApart ==
    ASSUME NEW q \in Seq(Segment), RingShape(q),
           NEW i \in 1 .. Len(q), NEW j \in 1 .. Len(q), i < j
    PROVE  Apart(q[i], q[j])
  <1>1. /\ q[i] \in Segment /\ q[j] \in Segment /\ q[1] \in Segment
        /\ i \in Nat /\ j \in Nat
    OBVIOUS
  <1>2. /\ q[i].start_index \in Nat /\ q[i].end_index \in Nat
        /\ q[j].start_index \in Nat /\ q[j].end_index \in Nat
        /\ q[1].start_index \in Nat
    BY <1>1, SegmentFields
  <1> QED BY <1>1, <1>2 DEF RingShape, Wrapped, Apart

\* A suffix of a ring is a ring: the oldest segment may be retired.
LEMMA TailShape ==
    ASSUME NEW q \in Seq(Segment), q # <<>>, RingShape(q)
    PROVE  Tail(q) \in Seq(Segment) /\ RingShape(Tail(q))
  <1>1. /\ Tail(q) \in Seq(Segment) /\ Len(Tail(q)) = Len(q) - 1 /\ Len(q) \in Nat
        /\ \A i \in 1 .. Len(q) - 1 : Tail(q)[i] = q[i + 1]
    OBVIOUS
  <1>2. \A i \in 1 .. Len(q) : /\ q[i].start_index \in Nat
                               /\ q[i].end_index \in Nat
    BY SegmentFields
  <1> DEFINE t == Tail(q)
  <1>3. \A i \in 1 .. Len(t) : i + 1 \in 1 .. Len(q) /\ t[i] = q[i + 1]
    BY <1>1
  <1>4. \A i \in 1 .. Len(t) : /\ t[i].start_index \in Nat
                               /\ t[i].end_index \in Nat
                               /\ t[i].start_index < t[i].end_index
    BY <1>2, <1>3 DEF RingShape
  <1>5. CASE t = <<>>
    BY <1>5 DEF RingShape
  <1>6. CASE t # <<>>
    <2>1. 1 \in 1 .. Len(q) /\ 2 \in 1 .. Len(q) /\ t[1] = q[2] /\ 1 \in 1 .. Len(t)
      BY <1>1, <1>6
    <2>2. CASE Wrapped(q, 2)
      <3>1. \A i \in 1 .. Len(t) : Wrapped(q, i + 1) /\ ~Wrapped(t, i)
        <4> TAKE i \in 1 .. Len(t)
        <4>1. i = 1 \/ 2 < i + 1
          BY <1>1
        <4>2. Wrapped(q, i + 1)
          BY <4>1, <2>1, <2>2, <1>3 DEF RingShape
        <4>3. i = 1 \/ q[2].end_index <= q[i + 1].start_index
          BY <4>1, <4>2, <2>1, <2>2, <1>3 DEF RingShape
        <4> QED BY <4>2, <4>3, <1>2, <1>3, <2>1 DEF Wrapped, RingShape
      <3> QED BY <3>1, <1>1, <1>3, <1>4 DEF RingShape
    <2>3. CASE ~Wrapped(q, 2)
      <3>1. \A i \in 1 .. Len(t) : Wrapped(t, i) <=> Wrapped(q, i + 1)
        <4> TAKE i \in 1 .. Len(t)
        <4>1. i = 1 \/ 2 < i + 1
          BY <1>1
        <4>2. i = 1 \/ Wrapped(q, i + 1) \/ q[2].end_index <= q[i + 1].start_index
          BY <4>1, <2>1, <2>3, <1>3 DEF RingShape
        <4> QED BY <4>2, <1>2, <1>3, <2>1, <2>3 DEF Wrapped, RingShape
      <3>2. \A i \in 1 .. Len(t) : Wrapped(t, i) => t[i].end_index <= t[1].start_index
        BY <3>1, <1>2, <1>3, <2>1, <2>3 DEF RingShape, Wrapped
      <3>3. \A i, j \in 1 .. Len(t) : i < j => i + 1 < j + 1
        BY <1>1
      <3> QED BY <3>1, <3>2, <3>3, <1>3, <1>4 DEF RingShape
    <2> QED BY <2>2, <2>3
  <1> QED BY <1>1, <1>5, <1>6
\* Whatever the queue, BufferIndex answers -1 or a place inside the buffer.
LEMMA PlacedInBuffer ==
    ASSUME NEW q \in Seq(Segment), NEW len \in Lens,
           NEW at, at = BufferIndex(q, BufLen, len), at # -1
    PROVE  Seg(at, len) \in Segment
  <1>1. len \in Nat /\ len > 0 /\ BufLen \in Nat
    BY LensAssumption, BufLenAssumption
  <1>2. CASE q = <<>>
    BY <1>1, <1>2 DEF BufferIndex, Seg, Segment
  <1>3. CASE q # <<>>
    <2> DEFINE a == q[1].start_index
               e == q[Len(q)].end_index
    <2>1. a \in Nat /\ e \in Nat /\ a <= BufLen /\ e <= BufLen
      BY <1>3, SegmentFields
    <2>2. at = IF e >= a
           THEN IF len <= BufLen - e THEN e ELSE IF len <= a THEN 0 ELSE -1
           ELSE IF len <= a - e THEN e ELSE -1
      BY <1>3 DEF BufferIndex
    <2> HIDE DEF a, e
    <2>3. at \in 0 .. BufLen /\ at + len \in 0 .. BufLen
      BY <1>1, <2>1, <2>2
    <2> QED BY <2>3 DEF Seg, Segment
  <1> QED BY <1>2, <1>3

\* A segment placed by BufferIndex extends the ring, unless the ring was full.
LEMMA PlacedShape ==
    ASSUME NEW q \in Seq(Segment), RingShape(q), ~MeetsFront(q),
           NEW len \in Lens, NEW at, at = BufferIndex(q, BufLen, len), at # -1
    PROVE  /\ Seg(at, len) \in Segment
           /\ RingShape(Append(q, Seg(at, len)))
  <1>1. len \in Nat /\ len > 0 /\ BufLen \in Nat
    BY LensAssumption, BufLenAssumption
  <1>2. CASE q = <<>>
    <2>1. at = 0 /\ len <= BufLen
      BY <1>2 DEF BufferIndex
    <2>2. Seg(at, len) \in Segment
      BY <1>1, <2>1 DEF Seg, Segment
    <2>3. Append(q, Seg(at, len)) = <<Seg(at, len)>>
      BY <1>2
    <2> QED BY <1>1, <2>1, <2>2, <2>3 DEF RingShape, Wrapped, Seg
  <1>3. CASE q # <<>>
    <2> DEFINE n == Len(q)
               a == q[1].start_index
               e == q[n].end_index
               r == Append(q, Seg(at, len))
    <2>1. n \in Nat /\ n >= 1 /\ q[1] \in Segment /\ q[n] \in Segment
      BY <1>3
    <2>2. \A i \in 1 .. n : q[i].start_index \in Nat /\ q[i].end_index \in Nat
      BY SegmentFields
    <2>3. a \in Nat /\ e \in Nat /\ a <= BufLen /\ e <= BufLen /\ e # a
      BY <2>1, <1>3, SegmentFields DEF MeetsFront
    <2>4. \/ e > a /\ at = e /\ len <= BufLen - e
          \/ e > a /\ at = 0 /\ len <= a
          \/ e < a /\ at = e /\ len <= a - e
      <3> HIDE DEF e, a
      <3>1. at = IF e >= a
             THEN IF len <= BufLen - e THEN e ELSE IF len <= a THEN 0 ELSE -1
             ELSE IF len <= a - e THEN e ELSE -1
        BY <1>3 DEF BufferIndex, e, a
      <3> QED BY <3>1, <2>3
    <2>5. Seg(at, len) \in Segment /\ at \in Nat
      <3> HIDE DEF e, a, r
      <3>1. at \in 0 .. BufLen /\ at + len \in 0 .. BufLen
        BY <1>1, <2>3, <2>4
      <3> QED BY <3>1 DEF Seg, Segment
    <2>6. /\ r \in Seq(Segment) /\ Len(r) = n + 1 /\ r[n + 1] = Seg(at, len)
          /\ \A i \in 1 .. n : r[i] = q[i]
      BY <2>1, <2>5
    <2>7. Seg(at, len).start_index = at /\ Seg(at, len).end_index = at + len
      BY DEF Seg
    <2>8. \A i \in 1 .. n : Wrapped(r, i) <=> Wrapped(q, i)
      BY <2>1, <2>6 DEF Wrapped
    <2>9. Wrapped(r, n + 1) <=> at < a
      BY <2>1, <2>6, <2>7 DEF Wrapped
    <2>10. \A i \in 1 .. n : i = n \/ i < n
      BY <2>1
    \* Unless it wraps here, the new segment is of the same run as the youngest.
    <2>11. /\ Wrapped(q, n) <=> e < a
           /\ \A i \in 1 .. n : Wrapped(q, i) => Wrapped(q, n)
      BY <2>1, <2>2, <2>3, <2>10 DEF RingShape, Wrapped
    <2>12. \A i \in 1 .. n : (Wrapped(q, i) <=> Wrapped(q, n)) => q[i].end_index <= e
      BY <2>1, <2>2, <2>10 DEF RingShape
    <2>13. \A i \in 1 .. n : /\ Wrapped(q, i) => Wrapped(r, n + 1)
                             /\ (Wrapped(q, i) <=> Wrapped(r, n + 1)) =>
                                    q[i].end_index <= at
      <3> HIDE DEF e, a, r
      <3> QED BY <1>1, <2>2, <2>3, <2>4, <2>9, <2>11, <2>12
    <2>14. at < at + len /\ (at < a => at + len <= a)
      <3> HIDE DEF e, a, r
      <3> QED BY <1>1, <2>3, <2>4, <2>5
    <2>15. \A i \in 1 .. n + 1 : i = n + 1 \/ i \in 1 .. n
      BY <2>1
    <2>16. \A i \in 1 .. n + 1 : r[i].start_index < r[i].end_index
      BY <2>6, <2>7, <2>14, <2>15 DEF RingShape
    <2>17. \A i \in 1 .. n + 1 : Wrapped(r, i) => r[i].end_index <= r[1].start_index
      BY <2>1, <2>6, <2>7, <2>8, <2>9, <2>14, <2>15 DEF RingShape
    <2>18. \A i, j \in 1 .. n + 1 :
              i < j => /\ Wrapped(r, i) => Wrapped(r, j)
                       /\ (Wrapped(r, i) <=> Wrapped(r, j)) =>
                              r[i].end_index <= r[j].start_index
      <3> TAKE i, j \in 1 .. n + 1
      <3> HAVE i < j
      <3>1. i \in 1 .. n
        BY <2>1
      <3>2. CASE j \in 1 .. n
        BY <3>1, <3>2, <2>6, <2>8 DEF RingShape
      <3>3. CASE j = n + 1
        BY <3>1, <3>3, <2>6, <2>7, <2>8, <2>13
      <3> QED BY <3>2, <3>3, <2>15
    <2>19. RingShape(r)
      BY <2>6, <2>16, <2>17, <2>18 DEF RingShape
    <2> QED BY <2>5, <2>19
  <1> QED BY <1>2, <1>3

\* A ring less its youngest segment is a ring.
LEMMA ShapeWithoutYoungest ==
    ASSUME NEW q \in Seq(Segment), NEW s \in Segment, RingShape(Append(q, s))
    PROVE  RingShape(q)
  <1> DEFINE r == Append(q, s)
  <1>1. Len(r) = Len(q) + 1 /\ Len(q) \in Nat /\ \A i \in 1 .. Len(q) : r[i] = q[i]
    OBVIOUS
  <1>2. \A i \in 1 .. Len(q) : i \in 1 .. Len(r) /\ 1 \in 1 .. Len(q)
    BY <1>1
  <1>3. \A i \in 1 .. Len(q) : Wrapped(r, i) <=> Wrapped(q, i)
    BY <1>1, <1>2 DEF Wrapped
  <1> QED BY <1>1, <1>2, <1>3 DEF RingShape

\* The oldest segment may lose bytes at its front.
LEMMA TrimmedShape ==
    ASSUME NEW q \in Seq(Segment), q # <<>>, RingShape(q),
           NEW x \in Nat, q[1].start_index <= x, x < q[1].end_index
    PROVE  LET t == <<[q[1] EXCEPT !.start_index = x]>> \o Tail(q)
           IN  t \in Seq(Segment) /\ RingShape(t) /\ t # <<>>
  <1> DEFINE f == [q[1] EXCEPT !.start_index = x]
             t == <<f>> \o Tail(q)
  <1>1. /\ Len(q) \in Nat /\ Len(q) >= 1 /\ q[1] \in Segment
        /\ \A i \in 1 .. Len(q) : q[i].start_index \in Nat /\ q[i].end_index \in Nat
    BY SegmentFields
  <1>2. q[1].end_index \in Nat /\ q[1].end_index <= BufLen /\ BufLen \in Nat
        /\ q[1].start_index \in Nat
    BY <1>1, SegmentFields, BufLenAssumption
  <1>3. f \in Segment /\ f.start_index = x /\ f.end_index = q[1].end_index
    BY <1>1, <1>2 DEF Segment
  <1>4. /\ t \in Seq(Segment) /\ Len(t) = Len(q) /\ t[1] = f
        /\ \A i \in 2 .. Len(q) : t[i] = q[i]
    <2> HIDE DEF f
    <2>1. /\ Tail(q) \in Seq(Segment) /\ Len(Tail(q)) = Len(q) - 1
          /\ \A i \in 1 .. Len(q) - 1 : Tail(q)[i] = q[i + 1]
      OBVIOUS
    <2>2. t \in Seq(Segment) /\ Len(t) = Len(q) /\ t[1] = f
      BY <2>1, <1>1, <1>3
    <2>3. ASSUME NEW i \in 2 .. Len(q) PROVE t[i] = q[i]
      <3>1. t[i] = Tail(q)[i - 1] /\ i - 1 \in 1 .. Len(q) - 1
        BY <2>1, <1>1
      <3>2. Tail(q)[i - 1] = q[(i - 1) + 1] /\ (i - 1) + 1 = i
        BY <2>1, <3>1
      <3> QED BY <3>1, <3>2
    <2> QED BY <2>2, <2>3
  <1> HIDE DEF t, f
  <1>5. \A i \in 1 .. Len(q) : i = 1 \/ (i \in 2 .. Len(q) /\ 1 < i)
    BY <1>1
  <1>6. 1 \in 1 .. Len(q) /\ ~Wrapped(q, 1) /\ ~Wrapped(t, 1)
    BY <1>1, <1>2, <1>3, <1>4 DEF Wrapped
  <1>7. \A i \in 1 .. Len(q) : Wrapped(t, i) <=> Wrapped(q, i)
    <2> TAKE i \in 1 .. Len(q)
    <2>1. CASE i = 1
      BY <1>6, <2>1
    <2>2. CASE i \in 2 .. Len(q) /\ 1 < i
      <3>1. Wrapped(q, i) \/ q[1].end_index <= q[i].start_index
        BY <1>6, <2>2 DEF RingShape
      <3> QED BY <3>1, <2>2, <1>1, <1>2, <1>3, <1>4 DEF Wrapped
    <2> QED BY <2>1, <2>2, <1>5
  <1>8. \A i \in 1 .. Len(q) : t[i].start_index < t[i].end_index
    BY <1>3, <1>4, <1>5 DEF RingShape
  <1>9. \A i \in 1 .. Len(q) : /\ t[i].end_index = q[i].end_index
                              /\ q[i].start_index <= t[i].start_index
    BY <1>1, <1>2, <1>3, <1>4, <1>5
  <1>10. \A i \in 1 .. Len(q) : Wrapped(t, i) => t[i].end_index <= t[1].start_index
    <2> TAKE i \in 1 .. Len(q)
    <2>1. Wrapped(q, i) => q[i].end_index <= q[1].start_index
      BY DEF RingShape
    <2> QED BY <2>1, <1>1, <1>2, <1>3, <1>4, <1>7, <1>9
  <1>11. \A i, j \in 1 .. Len(q) :
            i < j => /\ Wrapped(t, i) => Wrapped(t, j)
                     /\ (Wrapped(t, i) <=> Wrapped(t, j)) =>
                            t[i].end_index <= t[j].start_index
    <2> TAKE i, j \in 1 .. Len(q)
    <2> HAVE i < j
    <2>1. j \in 2 .. Len(q)
      BY <1>1
    <2>2. /\ Wrapped(q, i) => Wrapped(q, j)
          /\ (Wrapped(q, i) <=> Wrapped(q, j)) => q[i].end_index <= q[j].start_index
      BY DEF RingShape
    <2> QED BY <2>1, <2>2, <1>4, <1>7, <1>9
  <1>12. RingShape(t)
    BY <1>4, <1>8, <1>10, <1>11 DEF RingShape
  <1> QED BY <1>1, <1>4, <1>12 DEF t, f
-------------------------------------------------------------------------------
\* Positions are in range, and until the buffer has been filled exactly the
\* live segments form a ring.  Disjoint alone is not inductive: it does not say
\* on which side of the oldest segment the youngest one lies.
Inv ==
    /\ queue \in Seq(Segment)
    /\ inflight \in Segment
    /\ ~filled => RingShape(Live) /\ ~MeetsFront(Live)

\* The empty segment that stands for no transfer under way is a segment.
LEMMA NoSegmentType == NoSegment \in Segment
  BY BufLenAssumption DEF NoSegment, Segment

\* A ring without segments has the shape, and its ends do not meet.
LEMMA EmptyShape == RingShape(<<>>) /\ ~MeetsFront(<<>>)
  BY DEF RingShape, MeetsFront

\* A step that keeps the ring a ring, unless the buffer had been filled, keeps
\* the invariant: Remember notes an exact fit the moment it appears.
LEMMA Remembered ==
    ASSUME Inv, queue' \in Seq(Segment), inflight' \in Segment, Remember,
           ~filled => RingShape(Live')
    PROVE  Inv'
  <1>1. CASE Live' = <<>>
    BY <1>1, EmptyShape DEF Inv
  <1>2. CASE Live' # <<>>
    BY <1>2 DEF Inv, Remember
  <1> QED BY <1>1, <1>2

\* send: the segment getTXBufferIndex finds a place for keeps the ring a ring.
LEMMA SendInv ==
    ASSUME Inv, inflight = NoSegment, NEW len \in Lens, Send(len)
    PROVE  Inv'
  <1> DEFINE at == BufferIndex(queue, BufLen, len)
  <1>1. /\ at # -1 /\ queue' = Append(queue, Seg(at, len)) /\ inflight' = inflight
        /\ Live = queue /\ Live' = queue' /\ Remember
    BY DEF Send, Live
  <1>2. CASE ~filled
    <2>1. Seg(at, len) \in Segment /\ RingShape(Append(queue, Seg(at, len)))
      BY <1>1, <1>2, PlacedShape DEF Inv
    <2> QED BY <1>1, <2>1, Remembered DEF Inv
  <1>3. CASE filled
    <2>1. Seg(at, len) \in Segment
      BY <1>1, PlacedInBuffer DEF Inv
    <2> QED BY <1>1, <1>3, <2>1, Remembered DEF Inv
  <1> QED BY <1>2, <1>3

\* receivePendingData: the same for a segment whose transfer is queued.
LEMMA ReceiveInv ==
    ASSUME Inv, NEW len \in Lens, Receive(len)
    PROVE  Inv'
  <1> DEFINE at == BufferIndex(queue, BufLen, len)
  <1>1. /\ at # -1 /\ inflight = NoSegment /\ inflight' = Seg(at, len)
        /\ queue' = queue /\ Live = queue /\ Remember
    BY DEF Receive, Live
  <1>2. Seg(at, len) \in Segment
    BY <1>1, PlacedInBuffer DEF Inv
  <1>3. ~filled => RingShape(Live')
    <2> SUFFICES ASSUME ~filled PROVE RingShape(Live')
      OBVIOUS
    <2>1. RingShape(queue) /\ RingShape(Append(queue, Seg(at, len)))
      BY <1>1, PlacedShape DEF Inv
    <2> QED BY <1>1, <2>1 DEF Live
  <1> QED BY <1>1, <1>2, <1>3, Remembered DEF Inv

\* The end of the transfer: the segment joins the queue or, when that is full,
\* is dropped.
LEMMA ReceivedInv ==
    ASSUME Inv, Received
    PROVE  Inv'
  <1>1. /\ queue \in Seq(Segment) /\ inflight \in Segment /\ inflight # NoSegment
        /\ inflight' = NoSegment /\ Live = Append(queue, inflight)
        /\ Live' = queue' /\ Remember
        /\ queue' = Append(queue, inflight) \/ queue' = queue
    BY DEF Received, Live, Inv
  <1>2. ~filled => RingShape(Live')
    BY <1>1, ShapeWithoutYoungest DEF Inv
  <1> QED BY <1>1, <1>2, NoSegmentType, Remembered

\* Retiring the oldest segment: Sent and Consume.
LEMMA RetireInv ==
    ASSUME Inv, queue # <<>>, queue' = Tail(queue), inflight' = inflight, Remember
    PROVE  Inv'
  <1>1. queue \in Seq(Segment) /\ inflight \in Segment /\ Tail(queue) \in Seq(Segment)
    BY DEF Inv
  <1>2. Tail(Append(queue, inflight)) = Append(Tail(queue), inflight)
    BY <1>1
  <1>3. Live \in Seq(Segment) /\ Live # <<>> /\ Live' = Tail(Live)
    <2>1. CASE inflight = NoSegment
      <3>1. Live = queue /\ Live' = Tail(queue)
        BY <2>1 DEF Live
      <3> QED BY <3>1, <1>1
    <2>2. CASE inflight # NoSegment
      <3>1. Live = Append(queue, inflight) /\ Live' = Append(Tail(queue), inflight)
        BY <2>2 DEF Live
      <3>2. Append(queue, inflight) # <<>> /\ Append(queue, inflight) \in Seq(Segment)
        BY <1>1
      <3> QED BY <3>1, <3>2, <1>2
    <2> QED BY <2>1, <2>2
  <1>4. ~filled => RingShape(Live')
    BY <1>3, TailShape DEF Inv
  <1> QED BY <1>1, <1>4, Remembered

\* recvfrom: moving the start of the oldest segment to the next datagram.
LEMMA ConsumeDatagramInv ==
    ASSUME Inv, NEW size \in Datagrams, ConsumeDatagram(size)
    PROVE  Inv'
  <1> DEFINE x == queue[1].start_index + size
             t == <<[queue[1] EXCEPT !.start_index = x]>> \o Tail(queue)
  <1>1. /\ queue \in Seq(Segment) /\ queue # <<>> /\ inflight \in Segment
        /\ inflight' = inflight /\ Remember /\ size \in Nat /\ size > 0
    BY DatagramsAssumption DEF Inv, ConsumeDatagram
  <1>2. queue[1].start_index \in Nat /\ queue[1].end_index \in Nat
    BY <1>1, SegmentFields
  <1>3. x \in Nat /\ queue[1].start_index <= x
    BY <1>1, <1>2
  <1>4. \/ queue' = t /\ x < queue[1].end_index
        \/ queue' = Tail(queue)
    <2> DEFINE y == queue[1].start_index + Hdr + size
               u == <<[queue[1] EXCEPT !.start_index = y - Hdr]>> \o Tail(queue)
    <2>1. Head(queue) = queue[1]
      BY <1>1
    <2>2. queue' = IF y + UdpHdr < queue[1].end_index THEN u ELSE Tail(queue)
      BY <2>1, Zenon DEF ConsumeDatagram
    <2>3. u = t
      <3>1. y - Hdr = x
        BY <1>1, <1>2 DEF Hdr
      <3> HIDE DEF x, y
      <3> QED BY <3>1
    <2>4. y + UdpHdr < queue[1].end_index => x < queue[1].end_index
      BY <1>1, <1>2 DEF Hdr, UdpHdr
    <2> QED BY <2>2, <2>3, <2>4, Zenon
  <1>5. CASE queue' = Tail(queue)
    BY <1>1, <1>5, RetireInv
  <1>6. CASE queue' = t /\ x < queue[1].end_index
    <2> HIDE DEF x
    <2>1. [queue[1] EXCEPT !.start_index = x] \in Segment
      <3>1. queue[1] \in Segment
        BY <1>1
      <3>2. queue[1].end_index <= BufLen /\ BufLen \in Nat
        BY <3>1, SegmentFields, BufLenAssumption
      <3>3. x \in 0 .. BufLen
        BY <3>2, <1>2, <1>3, <1>6
      <3> QED BY <3>1, <3>3 DEF Segment
    <2>2. t \in Seq(Segment)
      BY <1>1, <2>1
    <2>3. ~filled => RingShape(Live')
      <3> SUFFICES ASSUME ~filled PROVE RingShape(Live')
        OBVIOUS
      <3>1. CASE inflight = NoSegment
        BY <3>1, <1>1, <1>3, <1>6, TrimmedShape DEF Inv, Live
      <3>2. CASE inflight # NoSegment
        <4> DEFINE q == Append(queue, inflight)
                   f == [queue[1] EXCEPT !.start_index = x]
        <4>1. /\ q \in Seq(Segment) /\ q # <<>> /\ q[1] = queue[1]
              /\ Tail(q) = Append(Tail(queue), inflight) /\ RingShape(q)
          BY <3>2, <1>1 DEF Inv, Live
        <4>2. RingShape(<<[q[1] EXCEPT !.start_index = x]>> \o Tail(q))
          BY <4>1, <1>3, <1>6, TrimmedShape
        <4>3. Append(<<f>> \o Tail(queue), inflight)
              = <<f>> \o Append(Tail(queue), inflight)
          BY <1>1, <2>1
        <4> QED BY <4>1, <4>2, <4>3, <3>2, <1>1, <1>6 DEF Live
      <3> QED BY <3>1, <3>2
    <2> QED BY <1>1, <1>6, <2>2, <2>3, Remembered
  <1> QED BY <1>4, <1>5, <1>6

\* The transmit ring never has a receive segment in flight.
TxInv == Inv /\ inflight = NoSegment

\* socket: an empty queue satisfies the invariant.
LEMMA InitInv == Init => TxInv
  BY EmptyShape, NoSegmentType DEF Init, TxInv, Inv, Live

\* Every step of the transmit side preserves the invariant.
LEMMA TxStep == TxInv /\ [TxNext]_vars => TxInv'
  <1> SUFFICES ASSUME TxInv, [TxNext]_vars PROVE TxInv'
    OBVIOUS
  <1>1. ASSUME NEW len \in Lens, Send(len) PROVE TxInv'
    BY <1>1, SendInv DEF TxInv, Send
  <1>2. CASE Sent
    BY <1>2, RetireInv DEF TxInv, Sent
  <1>3. CASE Clear
    <2>1. queue' = <<>> /\ inflight' = NoSegment /\ Live' = <<>> /\ Remember
      BY <1>3 DEF Clear, TxInv, Live
    <2> QED BY <2>1, EmptyShape, NoSegmentType, Remembered DEF TxInv
  <1>4. CASE UNCHANGED vars
    BY <1>4 DEF vars, TxInv, Inv, Live
  <1> QED BY <1>1, <1>2, <1>3, <1>4 DEF TxNext

\* Every step of the receive side preserves the invariant.
LEMMA RxStep == Inv /\ [RxNext]_vars => Inv'
  <1> SUFFICES ASSUME Inv, [RxNext]_vars PROVE Inv'
    OBVIOUS
  <1>1. ASSUME NEW len \in Lens, Receive(len) PROVE Inv'
    BY <1>1, ReceiveInv
  <1>2. CASE Received
    BY <1>2, ReceivedInv
  <1>3. CASE Consume
    BY <1>3, RetireInv DEF Consume
  <1>4. ASSUME NEW size \in Datagrams, ConsumeDatagram(size) PROVE Inv'
    BY <1>4, ConsumeDatagramInv
  <1>5. CASE UNCHANGED vars
    BY <1>5 DEF vars, Inv, Live
  <1> QED BY <1>1, <1>2, <1>3, <1>4, <1>5 DEF RxNext

\* In a ring of that shape no two live segments share a byte.
LEMMA InvIsDisjoint == Inv => OverlapNeedsExactFit
  <1> SUFFICES ASSUME Inv, ~filled, NEW i \in 1 .. Len(Live), NEW j \in 1 .. Len(Live),
                      i # j
               PROVE  Apart(Live[i], Live[j])
    BY DEF OverlapNeedsExactFit, Disjoint
  <1>1. Live \in Seq(Segment) /\ RingShape(Live)
    BY DEF Inv, Live
  <1>2. i < j \/ j < i
    BY <1>1
  <1>3. CASE i < j
    BY <1>1, <1>3, ShapeIsApart
  <1>4. CASE j < i
    BY <1>1, <1>4, ShapeIsApart DEF Apart
  <1> QED BY <1>2, <1>3, <1>4

\* Transmit side: a message placed in the buffer never overwrites one that is
\* still waiting to be sent, unless the buffer had been filled exactly.
THEOREM TxDisjoint == TxSpec => []OverlapNeedsExactFit
  <1>1. TxInv => OverlapNeedsExactFit
    BY InvIsDisjoint DEF TxInv
  <1> QED BY <1>1, InitInv, TxStep, PTL DEF TxSpec

\* Receive side: a transfer in flight never overwrites a segment the
\* application has still to read, under the same condition.
THEOREM RxDisjoint == RxSpec => []OverlapNeedsExactFit
  <1>1. Init => Inv
    BY InitInv DEF TxInv
  <1> QED BY <1>1, RxStep, InvIsDisjoint, PTL DEF RxSpec

\* What the ring's invariant does not say of the variables' types.
Fits == Len(queue) <= SOCKET_QUEUE_SIZE /\ filled \in BOOLEAN

\* No call puts more segments into a queue than it has room for.
LEMMA FitsStep == Inv /\ Fits /\ ([TxNext]_vars \/ [RxNext]_vars) => Fits'
  <1> SUFFICES ASSUME Inv, Fits, [TxNext]_vars \/ [RxNext]_vars PROVE Fits'
    OBVIOUS
  <1>1. queue \in Seq(Segment) /\ inflight \in Segment /\ Len(queue) \in Nat
    BY DEF Inv
  <1>2. SOCKET_QUEUE_SIZE \in Nat /\ 0 <= SOCKET_QUEUE_SIZE
    BY QueueSizeAssumption
  <1>3. Remember => filled' \in BOOLEAN
    BY DEF Remember
  <1>4. ASSUME NEW segment, queue' = Append(queue, segment),
               Len(queue) < SOCKET_QUEUE_SIZE
        PROVE  Len(queue') <= SOCKET_QUEUE_SIZE
    <2>1. Len(queue') = Len(queue) + 1
      BY <1>1, <1>4
    <2>2. QED
      BY <1>1, <1>2, <1>4, <2>1
  <1>5. ASSUME queue # <<>>, queue' = Tail(queue)
        PROVE  Len(queue') <= SOCKET_QUEUE_SIZE
    BY <1>1, <1>2, <1>5 DEF Fits
  <1>6. ASSUME NEW len \in Lens, Send(len)  PROVE Fits'
    BY <1>3, <1>4, <1>6 DEF Send, Fits
  <1>7. CASE Sent \/ Consume
    BY <1>3, <1>5, <1>7 DEF Sent, Consume, Fits
  <1>8. CASE Clear
    BY <1>2, <1>3, <1>8 DEF Clear, Fits
  <1>9. ASSUME NEW len \in Lens, Receive(len)  PROVE Fits'
    BY <1>3, <1>9 DEF Receive, Fits
  <1>10. CASE Received
    BY <1>3, <1>4, <1>10 DEF Received, Fits
  <1>11. ASSUME NEW size \in Datagrams, ConsumeDatagram(size)  PROVE Fits'
    <2>1. PICK rest : /\ queue # <<>> /\ Remember
                      /\ queue' = <<rest>> \o Tail(queue) \/ queue' = Tail(queue)
      BY <1>11, Zenon DEF ConsumeDatagram
    <2>2. Len(<<rest>> \o Tail(queue)) = Len(queue)
      <3>1. /\ Tail(queue) \in Seq(Segment \cup {rest}) /\ <<rest>> \in Seq(Segment \cup {rest})
            /\ Len(Tail(queue)) = Len(queue) - 1 /\ Len(<<rest>>) = 1
        BY <1>1, <2>1
      <3>2. Len(<<rest>> \o Tail(queue)) = Len(<<rest>>) + Len(Tail(queue))
        BY <3>1
      <3>3. QED
        BY <1>1, <3>1, <3>2
    <2>3. QED
      BY <1>3, <1>5, <2>1, <2>2 DEF Fits
  <1>12. CASE UNCHANGED vars
    BY <1>12 DEF vars, Fits
  <1>13. QED
    BY <1>6, <1>7, <1>8, <1>9, <1>10, <1>11, <1>12 DEF TxNext, RxNext

\* In the beginning the queue is empty.
LEMMA FitsAtStart == Init => Fits
  <1>1. SOCKET_QUEUE_SIZE \in Nat /\ Len(<<>>) = 0 /\ 0 <= SOCKET_QUEUE_SIZE
    BY QueueSizeAssumption
  <1>2. Init => queue = <<>> /\ filled \in BOOLEAN
    BY DEF Init
  <1>3. QED
    BY <1>1, <1>2 DEF Fits

\* Every position a send or sendto computes lies in the buffer, and its queue
\* of segments never holds more than it has room for.
THEOREM TxTypes == TxSpec => []TypeOK
  <1>1. Init => TxInv /\ Fits
    BY InitInv, FitsAtStart
  <1>2. TxInv /\ Fits /\ [TxNext]_vars => (TxInv /\ Fits)'
    BY TxStep, FitsStep DEF TxInv
  <1>3. TxInv /\ Fits => TypeOK
    BY DEF TxInv, Inv, Fits, TypeOK
  <1> QED BY <1>1, <1>2, <1>3, PTL DEF TxSpec

\* The same of what a reception, recv and recvfrom make of the receive buffer.
THEOREM RxTypes == RxSpec => []TypeOK
  <1>1. Init => Inv /\ Fits
    BY InitInv, FitsAtStart DEF TxInv
  <1>2. Inv /\ Fits /\ [RxNext]_vars => (Inv /\ Fits)'
    BY RxStep, FitsStep
  <1>3. Inv /\ Fits => TypeOK
    BY DEF Inv, Fits, TypeOK
  <1> QED BY <1>1, <1>2, <1>3, PTL DEF RxSpec
================================================================================
