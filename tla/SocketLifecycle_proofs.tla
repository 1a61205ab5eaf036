------------------------- MODULE SocketLifecycle_proofs -------------------------
(***************************************************************************)
(* Proofs about the lifecycle of sockets: where the last blocking call has *)
(* left the chip.  They rest on the order in which OPEN, CONNECT, DISCON   *)
(* and CLOSE pass through the command queue, the bus and Sn_CR, and on     *)
(* what the driver's invariant says of the queue and of Sn_CR, which is    *)
(* shown to hold with the lifecycle calls too.                             *)
(***************************************************************************)
EXTENDS SocketLifecycle, W5500Driver_proofs

-------------------------------------------------------------------------------
(***************************************************************************)
(* The lifecycle commands in a queue.                                      *)
(***************************************************************************)
\* The commands that end a life or move it on, once it has been opened.
Moves == {"CONNECT", "DISCON", "CLOSE"}
LifeOrders == Moves \cup {"OPEN"}

Issues(q, s, cr) == \E i \in 1 .. Len(q) : Orders(q[i], s) /\ q[i].val.CR = cr
Opening(q, s)    == Issues(q, s, "OPEN")
Moving(q, s)     == \E cr \in Moves : Issues(q, s, cr)

\* No OPEN waits behind a command that moves the socket on.
OpensFirst(q, s) ==
    \A j \in 1 .. Len(q) : \A i \in 1 .. j - 1 :
        ~(/\ Orders(q[i], s) /\ q[i].val.CR \in Moves
          /\ Orders(q[j], s) /\ q[j].val.CR = "OPEN")

\* The mode is set before the socket is opened.
SetsMode(c, s) == c.cmd_type = "WRITE_REG" /\ c.sn = s /\ "MR" \in DOMAIN c.val
ModeFirst(q, s) ==
    \E k \in 1 .. Len(q) :
        /\ SetsMode(q[k], s)
        /\ \A j \in 1 .. k - 1 : ~(Orders(q[j], s) /\ q[j].val.CR = "OPEN")

\* As far as the life of socket s goes, q orders what p ordered; Follows says that
\* the mode is set in time too.
Alike(p, q, s) ==
    /\ \A cr \in LifeOrders : Issues(q, s, cr) <=> Issues(p, s, cr)
    /\ OpensFirst(p, s) => OpensFirst(q, s)
Follows(p, q, s) == Alike(p, q, s) /\ (ModeFirst(p, s) => ModeFirst(q, s))

\* Nothing in q concerns the life of socket s.
Plain(q, s) == ~ModeFirst(q, s) /\ \A cr \in LifeOrders : ~Issues(q, s, cr)

\* What two queues hold one behind the other follows from what they hold.
LEMMA JoinedOrders ==
    ASSUME NEW p, Queue(p), NEW q, Queue(q), NEW s
    PROVE  /\ Queue(p \o q)
           /\ \A cr : Issues(p \o q, s, cr) <=> Issues(p, s, cr) \/ Issues(q, s, cr)
           /\ OpensFirst(p \o q, s) <=> /\ OpensFirst(p, s) /\ OpensFirst(q, s)
                                        /\ ~(Moving(p, s) /\ Opening(q, s))
           /\ ModeFirst(p \o q, s) <=> \/ ModeFirst(p, s)
                                       \/ ~Opening(p, s) /\ ModeFirst(q, s)
<1> DEFINE r == p \o q
           m == Len(p)
           n == Len(q)
<1>1. /\ m \in Nat /\ n \in Nat /\ Len(r) = m + n /\ Queue(r)
      /\ \A i \in 1 .. m : r[i] = p[i]
      /\ \A i \in 1 .. n : r[i + m] = q[i]
  <2>1. m \in Nat /\ n \in Nat
    BY QueueIsSequence
  <2>2. QED
    BY <2>1, Joined
<1> HIDE DEF r, m, n
<1>2. /\ \A i \in 1 .. m : i \in 1 .. Len(r)
      /\ \A i \in 1 .. n : i + m \in 1 .. Len(r)
      /\ \A i \in 1 .. Len(r) : i \notin 1 .. m =>
             i - m \in 1 .. n /\ i = (i - m) + m /\ r[i] = q[i - m]
  <2>1. /\ \A i \in 1 .. m : i \in 1 .. Len(r)
        /\ \A i \in 1 .. n : i + m \in 1 .. Len(r)
    BY <1>1
  <2>2. \A i \in 1 .. Len(r) : i \notin 1 .. m => i - m \in 1 .. n /\ i = (i - m) + m
    BY <1>1
  <2>3. \A i \in 1 .. Len(r) : i \notin 1 .. m => r[i] = q[i - m]
    BY <1>1, <2>2
  <2>4. QED
    BY <2>1, <2>2, <2>3
<1>3. ASSUME NEW cr  PROVE  Issues(r, s, cr) <=> Issues(p, s, cr) \/ Issues(q, s, cr)
  <2>1. ASSUME Issues(r, s, cr)  PROVE  Issues(p, s, cr) \/ Issues(q, s, cr)
    BY <1>1, <1>2, <2>1 DEF Issues, m, n
  <2>2. ASSUME Issues(p, s, cr)  PROVE  Issues(r, s, cr)
    BY <1>1, <1>2, <2>2 DEF Issues, m
  <2>3. ASSUME Issues(q, s, cr)  PROVE  Issues(r, s, cr)
    BY <1>1, <1>2, <2>3 DEF Issues, n
  <2>4. QED
    BY <2>1, <2>2, <2>3
<1>4. ASSUME OpensFirst(r, s)
      PROVE  OpensFirst(p, s) /\ OpensFirst(q, s) /\ ~(Moving(p, s) /\ Opening(q, s))
  <2>1. OpensFirst(p, s)
    <3>1. \A j \in 1 .. m : \A i \in 1 .. j - 1 : i \in 1 .. m
      BY <1>1
    <3>2. QED
      BY <1>1, <1>2, <1>4, <3>1 DEF OpensFirst, m
  <2>2. OpensFirst(q, s)
    <3>1. \A j \in 1 .. n : \A i \in 1 .. j - 1 :
              i \in 1 .. n /\ j + m \in 1 .. Len(r) /\ i + m \in 1 .. (j + m) - 1
      BY <1>1
    <3>2. QED
      BY <1>1, <1>4, <3>1 DEF OpensFirst, n
  <2>3. ~(Moving(p, s) /\ Opening(q, s))
    <3>1. \A i \in 1 .. m, j \in 1 .. n : j + m \in 1 .. Len(r) /\ i \in 1 .. (j + m) - 1
      BY <1>1
    <3>2. QED
      BY <1>1, <1>4, <3>1 DEF OpensFirst, Moving, Opening, Issues, m, n
  <2>4. QED
    BY <2>1, <2>2, <2>3
<1>5. ASSUME OpensFirst(p, s), OpensFirst(q, s), ~(Moving(p, s) /\ Opening(q, s))
      PROVE  OpensFirst(r, s)
  <2>1. SUFFICES ASSUME NEW j \in 1 .. Len(r), NEW i \in 1 .. j - 1,
                        Orders(r[i], s), r[i].val.CR \in Moves,
                        Orders(r[j], s), r[j].val.CR = "OPEN"
                 PROVE  FALSE
    BY DEF OpensFirst
  <2>2. i \in 1 .. Len(r)
    BY <1>1
  <2>3. CASE j \in 1 .. m
    <3>1. i \in 1 .. m
      BY <1>1, <2>3
    <3>2. QED
      BY <1>1, <1>5, <2>1, <2>3, <3>1 DEF OpensFirst, m
  <2>4. CASE j \notin 1 .. m /\ i \in 1 .. m
    BY <1>1, <1>2, <1>5, <2>1, <2>4 DEF Moving, Opening, Issues, m, n
  <2>5. CASE j \notin 1 .. m /\ i \notin 1 .. m
    <3>1. i - m \in 1 .. (j - m) - 1
      BY <1>1, <2>2, <2>5
    <3>2. QED
      BY <1>2, <1>5, <2>1, <2>2, <2>5, <3>1 DEF OpensFirst, n
  <2>6. QED
    BY <2>3, <2>4, <2>5
<1>6. ASSUME ModeFirst(r, s)
      PROVE  ModeFirst(p, s) \/ (~Opening(p, s) /\ ModeFirst(q, s))
  <2>1. PICK k \in 1 .. Len(r) :
            /\ SetsMode(r[k], s)
            /\ \A j \in 1 .. k - 1 : ~(Orders(r[j], s) /\ r[j].val.CR = "OPEN")
    BY <1>6 DEF ModeFirst
  <2>2. CASE k \in 1 .. m
    <3>1. \A j \in 1 .. k - 1 : j \in 1 .. m
      BY <1>1, <2>2
    <3>2. QED
      BY <1>1, <2>1, <2>2, <3>1 DEF ModeFirst, m
  <2>3. CASE k \notin 1 .. m
    <3>1. \A j \in 1 .. m : j \in 1 .. k - 1
      BY <1>1, <2>3
    <3>2. ~Opening(p, s)
      BY <1>1, <2>1, <3>1 DEF Opening, Issues, m
    <3>3. \A j \in 1 .. (k - m) - 1 : j \in 1 .. n /\ j + m \in 1 .. k - 1
      BY <1>1, <2>3
    <3>4. k - m \in 1 .. n /\ SetsMode(q[k - m], s)
      BY <1>2, <2>1, <2>3
    <3>5. ASSUME NEW j \in 1 .. (k - m) - 1  PROVE  ~(Orders(q[j], s) /\ q[j].val.CR = "OPEN")
      <4>1. j \in 1 .. n /\ j + m \in 1 .. k - 1 /\ r[j + m] = q[j]
        BY <1>1, <3>3
      <4>2. QED
        BY <2>1, <4>1
    <3>6. ModeFirst(q, s)
      BY <3>4, <3>5 DEF ModeFirst, n
    <3>7. QED
      BY <3>2, <3>6
  <2>4. QED
    BY <2>2, <2>3
<1>7. ASSUME ModeFirst(p, s)  PROVE  ModeFirst(r, s)
  <2>1. \A k \in 1 .. m : \A j \in 1 .. k - 1 : j \in 1 .. m
    BY <1>1
  <2>2. QED
    BY <1>1, <1>2, <1>7, <2>1 DEF ModeFirst, m
<1>8. ASSUME ~Opening(p, s), ModeFirst(q, s)  PROVE  ModeFirst(r, s)
  <2>1. PICK k \in 1 .. n :
            /\ SetsMode(q[k], s)
            /\ \A j \in 1 .. k - 1 : ~(Orders(q[j], s) /\ q[j].val.CR = "OPEN")
    BY <1>8 DEF ModeFirst, n
  <2>2. k + m \in 1 .. Len(r) /\ r[k + m] = q[k]
    BY <1>1
  <2>3. ASSUME NEW j \in 1 .. (k + m) - 1  PROVE  ~(Orders(r[j], s) /\ r[j].val.CR = "OPEN")
    <3>1. j \in 1 .. Len(r)
      BY <1>1
    <3>2. CASE j \in 1 .. m
      BY <1>1, <1>8, <3>2 DEF Opening, Issues, m
    <3>3. CASE j \notin 1 .. m
      <4>1. j - m \in 1 .. k - 1
        BY <1>1, <3>1, <3>3
      <4>2. QED
        BY <1>2, <2>1, <3>1, <3>3, <4>1
    <3>4. QED
      BY <3>2, <3>3
  <2>4. QED
    BY <2>1, <2>2, <2>3 DEF ModeFirst
<1>9. QED
  BY <1>1, <1>3, <1>4, <1>5, <1>6, <1>7, <1>8 DEF r

\* What a queue of one command holds.
LEMMA SingleOrder ==
    ASSUME NEW c, WellFormed(c), NEW s
    PROVE  /\ Queue(<<c>>) /\ OpensFirst(<<c>>, s)
           /\ \A cr : Issues(<<c>>, s, cr) <=> Orders(c, s) /\ c.val.CR = cr
           /\ ModeFirst(<<c>>, s) <=> SetsMode(c, s)
<1> DEFINE q == <<c>>
<1>1. Queue(q) /\ Len(q) = 1 /\ q[1] = c
  BY OneCommand
<1> HIDE DEF q
<1>2. /\ \A i \in 1 .. Len(q) : i = 1 /\ 1 .. i - 1 = {}
      /\ 1 \in 1 .. Len(q)
  BY <1>1
<1>3. OpensFirst(q, s)
  BY <1>2 DEF OpensFirst
<1>4. \A cr : Issues(q, s, cr) <=> Orders(c, s) /\ c.val.CR = cr
  BY <1>1, <1>2 DEF Issues
<1>5. ModeFirst(q, s) <=> SetsMode(c, s)
  BY <1>1, <1>2 DEF ModeFirst
<1>6. QED
  BY <1>1, <1>3, <1>4, <1>5 DEF q

\* The empty queue concerns no socket.
LEMMA NothingOrdered ==
    \A s : Plain(<<>>, s) /\ OpensFirst(<<>>, s) /\ \A cr : ~Issues(<<>>, s, cr)
<1>1. Len(<<>>) = 0
  BY EmptySeq
<1>2. QED
  BY <1>1 DEF Plain, OpensFirst, ModeFirst, Issues

\* Queues that are alike have the same commands that matter.
LEMMA AlikeFacts ==
    ASSUME NEW p, NEW q, NEW s, Alike(p, q, s)
    PROVE  /\ Opening(q, s) <=> Opening(p, s)
           /\ Moving(q, s) <=> Moving(p, s)
           /\ \A cr \in Moves : Issues(q, s, cr) <=> Issues(p, s, cr)
           /\ OpensFirst(p, s) => OpensFirst(q, s)
<1>1. "OPEN" \in LifeOrders /\ Moves \subseteq LifeOrders
  BY DEF LifeOrders
<1>2. QED
  BY <1>1 DEF Alike, Opening, Moving

\* Likeness is a preorder.
LEMMA FollowsOn ==
    ASSUME NEW p, NEW q, NEW r, NEW s
    PROVE  /\ Alike(p, p, s) /\ (Alike(p, q, s) /\ Alike(q, r, s) => Alike(p, r, s))
           /\ Follows(p, p, s) /\ (Follows(p, q, s) /\ Follows(q, r, s) => Follows(p, r, s))
  BY DEF Alike, Follows

\* Likeness is kept with something in front or behind.
LEMMA FollowsJoined ==
    ASSUME NEW p, Queue(p), NEW q, Queue(q), NEW a, Queue(a), NEW s
    PROVE  /\ Alike(p, q, s) => Alike(a \o p, a \o q, s) /\ Alike(p \o a, q \o a, s)
           /\ Follows(p, q, s) => Follows(a \o p, a \o q, s) /\ Follows(p \o a, q \o a, s)
<1> DEFINE J(x, y) ==
             /\ \A cr : Issues(x \o y, s, cr) <=> Issues(x, s, cr) \/ Issues(y, s, cr)
             /\ OpensFirst(x \o y, s) <=> /\ OpensFirst(x, s) /\ OpensFirst(y, s)
                                          /\ ~(Moving(x, s) /\ Opening(y, s))
             /\ ModeFirst(x \o y, s) <=> \/ ModeFirst(x, s)
                                         \/ ~Opening(x, s) /\ ModeFirst(y, s)
<1>1. J(a, p) /\ J(a, q) /\ J(p, a) /\ J(q, a)
  BY JoinedOrders
<1>2. ASSUME Alike(p, q, s)
      PROVE  /\ Alike(a \o p, a \o q, s) /\ Alike(p \o a, q \o a, s)
             /\ Opening(q, s) <=> Opening(p, s)
  <2>1. /\ Opening(q, s) <=> Opening(p, s)
        /\ Moving(q, s) <=> Moving(p, s)
        /\ OpensFirst(p, s) => OpensFirst(q, s)
        /\ \A cr \in LifeOrders : Issues(q, s, cr) <=> Issues(p, s, cr)
    BY <1>2, AlikeFacts DEF Alike
  <2>2. QED
    BY <1>1, <2>1 DEF Alike
<1>3. ASSUME Follows(p, q, s)
      PROVE  /\ ModeFirst(a \o p, s) => ModeFirst(a \o q, s)
             /\ ModeFirst(p \o a, s) => ModeFirst(q \o a, s)
  <2>1. (Opening(q, s) <=> Opening(p, s)) /\ (ModeFirst(p, s) => ModeFirst(q, s))
    BY <1>2, <1>3 DEF Follows
  <2>2. QED
    BY <1>1, <2>1
<1>4. QED
  BY <1>2, <1>3 DEF Follows

\* Commands that do not order anything for socket s can come or go anywhere.
LEMMA PlainPut ==
    ASSUME NEW p, Queue(p), NEW a, Queue(a), NEW s, Plain(a, s)
    PROVE  /\ Follows(p, a \o p, s) /\ Follows(a \o p, p, s)
           /\ Follows(p, p \o a, s) /\ Follows(p \o a, p, s)
<1>1. /\ ~ModeFirst(a, s) /\ ~Opening(a, s) /\ ~Moving(a, s) /\ OpensFirst(a, s)
      /\ \A cr \in LifeOrders : ~Issues(a, s, cr)
  <2>1. /\ ~ModeFirst(a, s) /\ \A cr \in LifeOrders : ~Issues(a, s, cr)
    BY DEF Plain
  <2>2. ~Opening(a, s) /\ ~Moving(a, s)
    BY <2>1 DEF Opening, Moving, LifeOrders
  <2>3. OpensFirst(a, s)
    BY <2>2 DEF OpensFirst, Opening, Issues
  <2>4. QED
    BY <2>1, <2>2, <2>3
<1>2. /\ \A cr : Issues(a \o p, s, cr) <=> Issues(a, s, cr) \/ Issues(p, s, cr)
      /\ OpensFirst(a \o p, s) <=> /\ OpensFirst(a, s) /\ OpensFirst(p, s)
                                   /\ ~(Moving(a, s) /\ Opening(p, s))
      /\ ModeFirst(a \o p, s) <=> ModeFirst(a, s) \/ (~Opening(a, s) /\ ModeFirst(p, s))
  BY JoinedOrders
<1>3. /\ \A cr : Issues(p \o a, s, cr) <=> Issues(p, s, cr) \/ Issues(a, s, cr)
      /\ OpensFirst(p \o a, s) <=> /\ OpensFirst(p, s) /\ OpensFirst(a, s)
                                   /\ ~(Moving(p, s) /\ Opening(a, s))
      /\ ModeFirst(p \o a, s) <=> ModeFirst(p, s) \/ (~Opening(p, s) /\ ModeFirst(a, s))
  BY JoinedOrders
<1>4. Follows(p, a \o p, s) /\ Follows(a \o p, p, s)
  BY <1>1, <1>2 DEF Follows, Alike
<1>5. Follows(p, p \o a, s) /\ Follows(p \o a, p, s)
  BY <1>1, <1>3 DEF Follows, Alike
<1>6. QED
  BY <1>4, <1>5

\* Commands for data, and commands of other sockets, order nothing for socket s.
LEMMA PlainQueue ==
    ASSUME NEW a, Queue(a), NEW s, \A i \in 1 .. Len(a) : ForData(a[i]) \/ a[i].sn # s
    PROVE  Plain(a, s)
<1>1. ASSUME NEW i \in 1 .. Len(a)
      PROVE  /\ ~SetsMode(a[i], s)
             /\ \A cr \in LifeOrders : ~(Orders(a[i], s) /\ a[i].val.CR = cr)
  <2>1. CASE a[i].sn # s
    BY <2>1 DEF SetsMode, Orders
  <2>2. CASE ForData(a[i])
    BY <2>2 DEF ForData, SetsMode, Orders, IsCommandWrite, LifeOrders, Moves
  <2>3. QED
    BY <2>1, <2>2
<1>2. QED
  BY <1>1 DEF Plain, ModeFirst, Issues

\* The same command twice, one behind the other, is as good as once.
LEMMA TwiceFollows ==
    ASSUME NEW c, WellFormed(c), NEW t, Queue(t), NEW s
    PROVE  Follows(<<c>> \o t, <<c>> \o (<<c>> \o t), s)
<1> DEFINE a == <<c>>
           p == a \o t
<1>1. /\ Queue(a) /\ OpensFirst(a, s)
      /\ \A cr : Issues(a, s, cr) <=> Orders(c, s) /\ c.val.CR = cr
  BY SingleOrder
<1> HIDE DEF a
<1>2. /\ Queue(p)
      /\ \A cr : Issues(p, s, cr) <=> Issues(a, s, cr) \/ Issues(t, s, cr)
      /\ OpensFirst(p, s) <=> /\ OpensFirst(a, s) /\ OpensFirst(t, s)
                              /\ ~(Moving(a, s) /\ Opening(t, s))
      /\ ModeFirst(p, s) <=> ModeFirst(a, s) \/ (~Opening(a, s) /\ ModeFirst(t, s))
  BY <1>1, JoinedOrders
<1> HIDE DEF p
<1>3. /\ \A cr : Issues(a \o p, s, cr) <=> Issues(a, s, cr) \/ Issues(p, s, cr)
      /\ OpensFirst(a \o p, s) <=> /\ OpensFirst(a, s) /\ OpensFirst(p, s)
                                   /\ ~(Moving(a, s) /\ Opening(p, s))
      /\ ModeFirst(a \o p, s) <=> ModeFirst(a, s) \/ (~Opening(a, s) /\ ModeFirst(p, s))
  BY <1>1, <1>2, JoinedOrders
<1>4. ~(Moving(a, s) /\ Opening(a, s))
  BY <1>1 DEF Moving, Opening, Moves
<1>5. Opening(p, s) <=> Opening(a, s) \/ Opening(t, s)
  BY <1>2 DEF Opening
<1>6. \A cr : Issues(a \o p, s, cr) <=> Issues(p, s, cr)
  BY <1>2, <1>3
<1>7. OpensFirst(p, s) => OpensFirst(a \o p, s)
  BY <1>2, <1>3, <1>4, <1>5
<1>8. ModeFirst(p, s) => ModeFirst(a \o p, s)
  BY <1>2, <1>3
<1>9. Follows(p, a \o p, s)
  BY <1>6, <1>7, <1>8 DEF Follows, Alike
<1>10. QED
  BY <1>9 DEF p, a

-------------------------------------------------------------------------------
(***************************************************************************)
(* The driver's invariant holds with the lifecycle calls too.              *)
(***************************************************************************)
\* What the calls have still to queue: well-formed commands that do not ask for
\* received data.
Plan(l) == Queue(l) /\ \A t : Never(l, t)

Tasks(c) ==
    /\ DOMAIN c = Sock
    /\ \A s \in Sock : /\ DOMAIN c[s] = {"op", "ret", "todo", "polled"}
                       /\ Plan(c[s].todo)

\* Reads of registers are well formed.
LEMMA ReadsFormed ==
    ASSUME NEW s \in Sock, NEW regs, regs \subseteq Registers
    PROVE  /\ WellFormed(GetReg(s, regs)) /\ GetReg(s, regs).cmd_type = "READ_REG"
           /\ GetReg(s, regs).sn = s
<1> DEFINE val == [r \in regs |-> Unread[r]]
           c   == GetReg(s, regs)
<1>1. DOMAIN val = regs
  OBVIOUS
<1> HIDE DEF val
<1>2. DOMAIN c = Fields /\ c.cmd_type = "READ_REG" /\ c.sn = s /\ c.val = val
  BY DEF GetReg, Cmd, Fields, val
<1> HIDE DEF c
<1>3. WellFormed(c)
  BY <1>1, <1>2 DEF WellFormed, Types, Registers
<1>4. QED
  BY <1>2, <1>3 DEF c

\* A lifecycle command is a well-formed write of Sn_CR.
LEMMA CommandFormed ==
    ASSUME NEW s \in Sock, NEW cr, cr # "NONE"
    PROVE  /\ WellFormed(Command(s, cr)) /\ Command(s, cr).cmd_type = "WRITE_REG"
           /\ Orders(Command(s, cr), s) /\ Command(s, cr).val.CR = cr
           /\ ~SetsMode(Command(s, cr), s)
<1> DEFINE val == [CR |-> cr]
           c   == Command(s, cr)
<1>1. DOMAIN val = {"CR"} /\ val.CR = cr
  OBVIOUS
<1> HIDE DEF val
<1>2. Settable(s, val)
  BY <1>1 DEF Settable, Writable
<1>3. WellFormed(c) /\ c.cmd_type = "WRITE_REG" /\ c.sn = s /\ c.val = val
  <2>1. c = SetReg(s, val)
    BY DEF Command, val
  <2>2. SetReg(s, val).sn = s /\ SetReg(s, val).val = val
    BY DEF SetReg, Cmd
  <2>3. QED
    BY <1>2, <2>1, <2>2, Commands
<1> HIDE DEF c
<1>4. Orders(c, s) /\ c.val.CR = cr /\ ~SetsMode(c, s)
  BY <1>1, <1>3 DEF Orders, IsCommandWrite, SetsMode
<1>5. QED
  BY <1>3, <1>4 DEF c

\* Commands without a CHECK_RCV are a plan.
LEMMA PlanOf ==
    ASSUME NEW S, NEW l \in Seq(S), \A i \in 1 .. Len(l) : l[i] \in S,
           \A c \in S : WellFormed(c) /\ c.cmd_type # "CHECK_RCV"
    PROVE  Plan(l)
<1>1. Queue(l)
  BY QueueOver
<1>2. QED
  BY <1>1 DEF Plan, Never, Asks

\* A lifecycle call's plan, without and with a first command.
LEMMA LifePlans ==
    ASSUME NEW s \in Sock, NEW cr, cr # "NONE"
    PROVE  /\ Plan(<<>>) /\ Plan(<<Command(s, cr)>>) /\ Plan(OpenCommands(s))
           /\ Plan(<<SetReg(s, [DIPR |-> 1, DPORT |-> 1]), Command(s, cr)>>)
<1>1. Plan(<<>>)
  BY NoCommands DEF Plan
<1>2. Plan(<<Command(s, cr)>>)
  <2>1. WellFormed(Command(s, cr)) /\ \A t : ~Asks(Command(s, cr), t)
    BY CommandFormed DEF Asks
  <2>2. QED
    BY <2>1, OneCommand DEF Plan
<1>3. Plan(OpenCommands(s))
  <2> DEFINE a == SetReg(s, [MR |-> IF s \in Tcp THEN "TCP" ELSE "UDP"])
             b == Command(s, "OPEN")
             x == GetReg(s, {"TX_FSR", "TX_WR"})
             y == GetReg(s, {"RX_RSR", "RX_RD"})
  <2>1. Settable(s, [MR |-> IF s \in Tcp THEN "TCP" ELSE "UDP"])
    BY DEF Settable, Writable
  <2>2. WellFormed(a) /\ a.cmd_type = "WRITE_REG"
    BY <2>1, Commands
  <2>3. WellFormed(b) /\ b.cmd_type = "WRITE_REG"
    BY CommandFormed
  <2>4. {"TX_FSR", "TX_WR"} \subseteq Registers /\ {"RX_RSR", "RX_RD"} \subseteq Registers
    BY DEF Registers
  <2>5. WellFormed(x) /\ x.cmd_type = "READ_REG" /\ WellFormed(y) /\ y.cmd_type = "READ_REG"
    BY <2>4, ReadsFormed
  <2>6. OpenCommands(s) = <<a, b, x, y>>
    BY DEF OpenCommands
  <2> HIDE DEF a, b, x, y
  <2> DEFINE l == <<a, b, x, y>>
  <2>7. l \in Seq({a, b, x, y}) /\ \A i \in 1 .. Len(l) : l[i] \in {a, b, x, y}
    OBVIOUS
  <2> HIDE DEF l
  <2>8. \A c \in {a, b, x, y} : WellFormed(c) /\ c.cmd_type # "CHECK_RCV"
    BY <2>2, <2>3, <2>5
  <2>9. Plan(l)
    BY <2>7, <2>8, PlanOf
  <2>10. QED
    BY <2>6, <2>9 DEF l
<1>4. Plan(<<SetReg(s, [DIPR |-> 1, DPORT |-> 1]), Command(s, cr)>>)
  <2> DEFINE a == SetReg(s, [DIPR |-> 1, DPORT |-> 1])
             b == Command(s, cr)
  <2>1. Settable(s, [DIPR |-> 1, DPORT |-> 1])
    BY DEF Settable, Writable
  <2>2. WellFormed(a) /\ a.cmd_type = "WRITE_REG"
    BY <2>1, Commands
  <2>3. WellFormed(b) /\ b.cmd_type = "WRITE_REG"
    BY CommandFormed
  <2> HIDE DEF a, b
  <2> DEFINE l == <<a, b>>
  <2>4. l \in Seq({a, b}) /\ \A i \in 1 .. Len(l) : l[i] \in {a, b}
    OBVIOUS
  <2> HIDE DEF l
  <2>5. \A c \in {a, b} : WellFormed(c) /\ c.cmd_type # "CHECK_RCV"
    BY <2>2, <2>3
  <2>6. Plan(l)
    BY <2>4, <2>5, PlanOf
  <2>7. QED
    BY <2>6 DEF l, a, b
<1>5. QED
  BY <1>1, <1>2, <1>3, <1>4

-------------------------------------------------------------------------------
(***************************************************************************)
(* What the chip and the network do to a socket.                           *)
(***************************************************************************)
\* The registers of the chip that the life of a socket depends on.
Wires == {"CR", "IR", "SR", "MR", "sending", "outbound", "acked", "TX_RD"}

Wired(ch) == DOMAIN ch = Sock /\ \A s \in Sock : Wires \subseteq DOMAIN ch[s]

\* A status in which OPEN finds a socket.
Early == {"CLOSED", "INIT", "UDP"}

\* Nothing has been sent that is not acknowledged.
Unused(c) == ~c.sending /\ c.acked = c.TX_RD

\* The chip carries out a command of socket s, or the network changes its status.
ChipStep(s, c, n) ==
    \/ /\ c.CR = "OPEN" /\ n.CR = "NONE" /\ Unused(n)
       /\ n.SR = IF c.MR = "TCP" THEN "INIT" ELSE "UDP"
    \/ /\ n.SR = "INIT" => c.SR = "INIT" /\ (Unused(c) => Unused(n))
       /\ \/ /\ c.CR = "CONNECT" /\ n.CR = "NONE"
             /\ n.SR = IF c.SR = "INIT" THEN "SYNSENT" ELSE c.SR
          \/ /\ c.CR = "DISCON" /\ n.CR = "NONE"
             /\ n.SR = IF c.SR \in {"ESTABLISHED", "CLOSE_WAIT"} THEN "FIN_WAIT" ELSE c.SR
          \/ c.CR = "CLOSE" /\ n.CR = "NONE" /\ n.SR = "CLOSED"
          \/ c.CR \in {"SEND", "RECV"} /\ n.CR = "NONE" /\ n.SR = c.SR
          \/ n.CR = c.CR /\ n.SR = c.SR
          \/ n.CR = c.CR /\ c.SR \notin Early /\ n.SR \notin {"INIT", "UDP"}
          \/ /\ n.CR = c.CR /\ s \in Tcp /\ c.SR # "CLOSED" /\ ~Unused(c)
             /\ n.SR = "CLOSED"

\* One socket of the chip makes such a step.
ChipMoves(s) ==
    /\ DOMAIN chip' = Sock /\ \A t \in Sock : t # s => chip'[t] = chip[t]
    /\ Wires \subseteq DOMAIN chip'[s] /\ chip'[s].MR = chip[s].MR
    /\ ChipStep(s, chip[s], chip'[s])

\* A change of one socket of the chip.
LEMMA OneSocketMoves ==
    ASSUME Wired(chip), NEW s \in Sock, NEW n, chip' = [chip EXCEPT ![s] = n],
           Wires \subseteq DOMAIN n, n.MR = chip[s].MR, ChipStep(s, chip[s], n)
    PROVE  ChipMoves(s)
<1>1. chip'[s] = n /\ DOMAIN chip' = Sock /\ \A t \in Sock : t # s => chip'[t] = chip[t]
  BY DEF Wired
<1>2. QED
  BY <1>1 DEF ChipMoves

\* OPEN, CONNECT, DISCON and CLOSE.
LEMMA AcceptsMove ==
    ASSUME Wired(chip), NEW s \in Sock,
           AcceptOpen(s) \/ AcceptConnect(s) \/ AcceptDiscon(s) \/ AcceptClose(s)
    PROVE  ChipMoves(s)
<1> DEFINE c == chip[s]
<1>1. Wires \subseteq DOMAIN c
  BY DEF Wired
<1>2. CASE AcceptOpen(s)
  <2> DEFINE status == IF c.MR = "TCP" THEN "INIT" ELSE "UDP"
             o == Opened(status)
             p == [o EXCEPT !.IR = c.IR, !.tx_mem = c.tx_mem, !.rx_mem = c.rx_mem]
             n == Overlay(p, [MR |-> c.MR])
  <2>1. /\ {"CR", "IR", "SR", "sending", "outbound", "acked", "TX_RD"} \subseteq DOMAIN o
        /\ "MR" \notin DOMAIN o /\ o.CR = "NONE" /\ o.SR = status
        /\ o.sending = FALSE /\ o.acked = o.TX_RD
    BY DEF Opened
  <2>2. chip' = [chip EXCEPT ![s] = n] /\ c.CR = "OPEN"
    BY <1>2 DEF AcceptOpen, ChipSets, ChipBecomes
  <2> HIDE DEF o, status
  <2>3. /\ {"CR", "IR", "SR", "sending", "outbound", "acked", "TX_RD"} \subseteq DOMAIN p
        /\ "MR" \notin DOMAIN p /\ p.CR = "NONE" /\ p.SR = status
        /\ p.sending = FALSE /\ p.acked = p.TX_RD
    BY <2>1
  <2> HIDE DEF p
  <2>4. /\ Wires \subseteq DOMAIN n /\ n.MR = c.MR /\ n.CR = "NONE" /\ n.SR = status
        /\ n.sending = FALSE /\ n.acked = n.TX_RD
    BY <2>3 DEF Overlay, Wires
  <2> HIDE DEF n
  <2>5. ChipStep(s, c, n)
    BY <2>2, <2>4 DEF ChipStep, Unused, status
  <2>6. QED
    BY <2>2, <2>4, <2>5, OneSocketMoves
<1>3. CASE AcceptConnect(s)
  <2> DEFINE n == [c EXCEPT !.CR = "NONE", !.SR = IF @ = "INIT" THEN "SYNSENT" ELSE @]
  <2>1. chip' = [chip EXCEPT ![s] = n] /\ c.CR = "CONNECT"
    BY <1>3 DEF AcceptConnect, ChipSets, ChipBecomes
  <2>2. /\ Wires \subseteq DOMAIN n /\ n.MR = c.MR /\ n.CR = "NONE"
        /\ n.SR = IF c.SR = "INIT" THEN "SYNSENT" ELSE c.SR
    BY <1>1 DEF Wires
  <2> HIDE DEF n
  <2>3. ChipStep(s, c, n)
    BY <2>1, <2>2 DEF ChipStep
  <2>4. QED
    BY <2>1, <2>2, <2>3, OneSocketMoves
<1>4. CASE AcceptDiscon(s)
  <2> DEFINE n == [c EXCEPT !.CR = "NONE",
                            !.SR = IF @ \in {"ESTABLISHED", "CLOSE_WAIT"} THEN "FIN_WAIT" ELSE @]
  <2>1. chip' = [chip EXCEPT ![s] = n] /\ c.CR = "DISCON"
    BY <1>4 DEF AcceptDiscon, ChipSets, ChipBecomes
  <2>2. /\ Wires \subseteq DOMAIN n /\ n.MR = c.MR /\ n.CR = "NONE"
        /\ n.SR = IF c.SR \in {"ESTABLISHED", "CLOSE_WAIT"} THEN "FIN_WAIT" ELSE c.SR
        /\ n.sending = c.sending /\ n.acked = c.acked /\ n.TX_RD = c.TX_RD
    BY <1>1 DEF Wires
  <2> HIDE DEF n
  <2>3. ChipStep(s, c, n)
    BY <2>1, <2>2 DEF ChipStep, Unused
  <2>4. QED
    BY <2>1, <2>2, <2>3, OneSocketMoves
<1>5. CASE AcceptClose(s)
  <2> DEFINE n == [c EXCEPT !.CR = "NONE", !.SR = "CLOSED", !.sending = FALSE,
                            !.outbound = <<>>]
  <2>1. chip' = [chip EXCEPT ![s] = n] /\ c.CR = "CLOSE"
    BY <1>5 DEF AcceptClose, ChipSets, ChipBecomes
  <2>2. Wires \subseteq DOMAIN n /\ n.MR = c.MR /\ n.CR = "NONE" /\ n.SR = "CLOSED"
    BY <1>1 DEF Wires
  <2> HIDE DEF n
  <2>3. ChipStep(s, c, n)
    BY <2>1, <2>2 DEF ChipStep
  <2>4. QED
    BY <2>1, <2>2, <2>3, OneSocketMoves
<1>6. QED
  BY <1>2, <1>3, <1>4, <1>5

\* A connection comes up, fails, or ends.
LEMMA ConnectionMoves ==
    ASSUME Wired(chip), NEW s \in Sock,
           Connected(s) \/ ConnectFails(s) \/ PeerReset(s) \/ Disconnected(s) \/ PeerFin(s)
    PROVE  ChipMoves(s)
<1> DEFINE c == chip[s]
<1>1. Wires \subseteq DOMAIN c
  BY DEF Wired
<1>2. ASSUME NEW status \in {"ESTABLISHED", "CLOSED", "CLOSE_WAIT"}, NEW n,
             chip' = [chip EXCEPT ![s] = n], c.SR \notin Early,
             Wires \subseteq DOMAIN n, n.MR = c.MR, n.CR = c.CR, n.SR = status
      PROVE  ChipMoves(s)
  <2>1. ChipStep(s, c, n)
    BY <1>2 DEF ChipStep
  <2>2. QED
    BY <1>2, <2>1, OneSocketMoves
<1>3. CASE Connected(s)
  <2> DEFINE n == [c EXCEPT !.SR = "ESTABLISHED", !.IR = @ \cup {"CON"}]
  <2>1. chip' = [chip EXCEPT ![s] = n] /\ c.SR \notin Early
    BY <1>3 DEF Connected, ChipSets, ChipBecomes, Early
  <2>2. Wires \subseteq DOMAIN n /\ n.MR = c.MR /\ n.CR = c.CR /\ n.SR = "ESTABLISHED"
    BY <1>1 DEF Wires
  <2>3. QED
    BY <1>2, <2>1, <2>2
<1>4. CASE ConnectFails(s)
  <2>1. PICK flag : chip' = [chip EXCEPT ![s] = [c EXCEPT !.SR = "CLOSED", !.IR = @ \cup {flag}]]
    BY <1>4 DEF ConnectFails, ChipSets, ChipBecomes
  <2> DEFINE n == [c EXCEPT !.SR = "CLOSED", !.IR = @ \cup {flag}]
  <2>2. c.SR \notin Early
    BY <1>4 DEF ConnectFails, Early
  <2>3. Wires \subseteq DOMAIN n /\ n.MR = c.MR /\ n.CR = c.CR /\ n.SR = "CLOSED"
    BY <1>1 DEF Wires
  <2>4. QED
    BY <1>2, <2>1, <2>2, <2>3
<1>5. CASE PeerReset(s)
  <2> DEFINE n == [c EXCEPT !.SR = "CLOSED", !.IR = @ \cup {"DISCON"},
                            !.sending = FALSE, !.outbound = <<>>]
  <2>1. chip' = [chip EXCEPT ![s] = n] /\ c.SR \notin Early
    BY <1>5 DEF PeerReset, ChipSets, ChipBecomes, Early
  <2>2. Wires \subseteq DOMAIN n /\ n.MR = c.MR /\ n.CR = c.CR /\ n.SR = "CLOSED"
    BY <1>1 DEF Wires
  <2>3. QED
    BY <1>2, <2>1, <2>2
<1>6. CASE Disconnected(s)
  <2> DEFINE n == [c EXCEPT !.SR = "CLOSED", !.IR = @ \cup {"DISCON"}]
  <2>1. chip' = [chip EXCEPT ![s] = n] /\ c.SR \notin Early
    BY <1>6 DEF Disconnected, ChipSets, ChipBecomes, Early
  <2>2. Wires \subseteq DOMAIN n /\ n.MR = c.MR /\ n.CR = c.CR /\ n.SR = "CLOSED"
    BY <1>1 DEF Wires
  <2>3. QED
    BY <1>2, <2>1, <2>2
<1>7. CASE PeerFin(s)
  <2> DEFINE n == [c EXCEPT !.SR = "CLOSE_WAIT", !.IR = @ \cup {"DISCON"}]
  <2>1. chip' = [chip EXCEPT ![s] = n] /\ c.SR \notin Early
    BY <1>7 DEF PeerFin, ChipBecomes, Early, Wired
  <2>2. Wires \subseteq DOMAIN n /\ n.MR = c.MR /\ n.CR = c.CR /\ n.SR = "CLOSE_WAIT"
    BY <1>1 DEF Wires
  <2>3. QED
    BY <1>2, <2>1, <2>2
<1>8. QED
  BY <1>3, <1>4, <1>5, <1>6, <1>7

\* SEND, RECV, and what the network brings.
LEMMA DataMoves ==
    ASSUME Wired(chip), NEW s \in Sock,
           \/ Accept(s) \/ SendDone(s) \/ SendTimeout(s) \/ PeerAck(s)
           \/ \E len \in ArriveLens : Arrive(s, len)
    PROVE  ChipMoves(s)
<1> DEFINE c == chip[s]
<1>1. Wires \subseteq DOMAIN c
  BY DEF Wired
<1>2. CASE Accept(s)
  <2>1. ASSUME c.CR = "SEND", chip' = [chip EXCEPT ![s] = AcceptSend(c)]  PROVE  ChipMoves(s)
    <3> DEFINE n == AcceptSend(c)
    <3>1. /\ Wires \subseteq DOMAIN n /\ n.MR = c.MR /\ n.CR = "NONE" /\ n.SR = c.SR
          /\ n.SR = "INIT" => n.sending = c.sending /\ n.acked = c.acked /\ n.TX_RD = c.TX_RD
      <4>1. CASE c.SR \in {"ESTABLISHED", "CLOSE_WAIT", "UDP"}
        BY <1>1, <4>1 DEF AcceptSend, Wires
      <4>2. CASE c.SR \notin {"ESTABLISHED", "CLOSE_WAIT", "UDP"}
        <5>1. n = [c EXCEPT !.CR = "NONE"]
          BY <4>2 DEF AcceptSend
        <5>2. QED
          BY <1>1, <5>1 DEF Wires
      <4>3. QED
        BY <4>1, <4>2
    <3> HIDE DEF n
    <3>2. ChipStep(s, c, n)
      BY <2>1, <3>1 DEF ChipStep, Unused
    <3>3. QED
      BY <2>1, <3>1, <3>2, OneSocketMoves DEF n
  <2>2. ASSUME c.CR = "RECV", chip' = [chip EXCEPT ![s] = AcceptRecv(c)]  PROVE  ChipMoves(s)
    <3> DEFINE n == AcceptRecv(c)
    <3>1. /\ Wires \subseteq DOMAIN n /\ n.MR = c.MR /\ n.CR = "NONE" /\ n.SR = c.SR
          /\ n.sending = c.sending /\ n.acked = c.acked /\ n.TX_RD = c.TX_RD
      BY <1>1 DEF AcceptRecv, Wires
    <3> HIDE DEF n
    <3>2. ChipStep(s, c, n)
      BY <2>2, <3>1 DEF ChipStep, Unused
    <3>3. QED
      BY <2>2, <3>1, <3>2, OneSocketMoves DEF n
  <2>3. QED
    BY <1>2, <2>1, <2>2 DEF Accept, ChipBecomes
<1>3. CASE SendDone(s)
  <2> DEFINE n == [c EXCEPT !.sending = FALSE, !.outbound = <<>>, !.IR = @ \cup {"SENDOK"},
                            !.acked = IF s \in Tcp THEN @ ELSE c.TX_RD]
  <2>1. chip' = [chip EXCEPT ![s] = n]
    BY <1>3 DEF SendDone, ChipBecomes
  <2>2. /\ Wires \subseteq DOMAIN n /\ n.MR = c.MR /\ n.CR = c.CR /\ n.SR = c.SR
        /\ n.sending = FALSE /\ n.TX_RD = c.TX_RD /\ n.acked \in {c.acked, c.TX_RD}
    BY <1>1 DEF Wires
  <2> HIDE DEF n
  <2>3. ChipStep(s, c, n)
    BY <2>2 DEF ChipStep, Unused
  <2>4. QED
    BY <2>1, <2>2, <2>3, OneSocketMoves
<1>4. CASE SendTimeout(s)
  <2> DEFINE n == [c EXCEPT !.sending = FALSE, !.outbound = <<>>, !.IR = @ \cup {"TIMEOUT"},
                            !.acked = c.TX_RD, !.SR = IF s \in Tcp THEN "CLOSED" ELSE @]
  <2>1. chip' = [chip EXCEPT ![s] = n] /\ (c.sending \/ (c.SR # "CLOSED" /\ c.acked # c.TX_RD))
    BY <1>4 DEF SendTimeout, ChipBecomes
  <2>2. /\ Wires \subseteq DOMAIN n /\ n.MR = c.MR /\ n.CR = c.CR
        /\ n.SR = (IF s \in Tcp THEN "CLOSED" ELSE c.SR)
        /\ n.sending = FALSE /\ n.TX_RD = c.TX_RD /\ n.acked = c.TX_RD
    BY <1>1 DEF Wires
  <2> HIDE DEF n
  <2>3. ChipStep(s, c, n)
    <3>1. ~Unused(c)
      BY <2>1 DEF Unused
    <3>2. QED
      BY <2>2, <3>1 DEF ChipStep, Unused
  <2>4. QED
    BY <2>1, <2>2, <2>3, OneSocketMoves
<1>5. CASE PeerAck(s)
  <2> DEFINE n == [c EXCEPT !.acked = c.TX_RD]
  <2>1. chip' = [chip EXCEPT ![s] = n] /\ ~c.sending
    BY <1>5 DEF PeerAck, ChipBecomes
  <2>2. /\ Wires \subseteq DOMAIN n /\ n.MR = c.MR /\ n.CR = c.CR /\ n.SR = c.SR
        /\ n.sending = c.sending /\ n.TX_RD = c.TX_RD /\ n.acked = c.TX_RD
    BY <1>1 DEF Wires
  <2> HIDE DEF n
  <2>3. ChipStep(s, c, n)
    BY <2>2 DEF ChipStep, Unused
  <2>4. QED
    BY <2>1, <2>2, <2>3, OneSocketMoves
<1>6. ASSUME NEW len \in ArriveLens, Arrive(s, len)  PROVE  ChipMoves(s)
  <2>1. PICK bytes : chip' = [chip EXCEPT ![s] = Deposit(c, bytes)]
    BY <1>6 DEF Arrive, ChipBecomes
  <2> DEFINE n == Deposit(c, bytes)
  <2>2. /\ Wires \subseteq DOMAIN n /\ n.MR = c.MR /\ n.CR = c.CR /\ n.SR = c.SR
        /\ n.sending = c.sending /\ n.TX_RD = c.TX_RD /\ n.acked = c.acked
    BY <1>1 DEF Wires, Deposit
  <2> HIDE DEF n
  <2>3. ChipStep(s, c, n)
    BY <2>2 DEF ChipStep, Unused
  <2>4. QED
    BY <2>1, <2>2, <2>3, OneSocketMoves DEF n
<1>7. QED
  BY <1>2, <1>3, <1>4, <1>5, <1>6

\* The steps of the chip and the network leave the driver and the calls alone.
LEMMA ChipSideMoves ==
    ASSUME Wired(chip),
           \/ \E s \in Sock : ConnectionSteps(s) \/ PeerReset(s)
           \/ Network /\ UNCHANGED call
    PROVE  UNCHANGED <<driver, call>> /\ \E s \in Sock : ChipMoves(s)
<1>1. CASE \E s \in Sock : ConnectionSteps(s) \/ PeerReset(s)
  <2>1. PICK s \in Sock : ConnectionSteps(s) \/ PeerReset(s)
    BY <1>1
  <2>2. ChipMoves(s)
    BY <2>1, AcceptsMove, ConnectionMoves DEF ConnectionSteps
  <2>3. UNCHANGED <<driver, call>>
    BY <2>1 DEF ConnectionSteps, PeerReset, AcceptOpen, AcceptConnect, AcceptDiscon, AcceptClose,
                Connected, ConnectFails, Disconnected, NotHost, ChipOnly
  <2>4. QED
    BY <2>2, <2>3
<1>2. CASE Network /\ UNCHANGED call
  <2>1. PICK s \in Sock : \/ Accept(s) \/ SendDone(s) \/ SendTimeout(s) \/ PeerAck(s) \/ PeerFin(s)
                          \/ \E len \in ArriveLens : Arrive(s, len)
    BY <1>2 DEF Network
  <2>2. ChipMoves(s)
    BY <2>1, DataMoves, ConnectionMoves
  <2>3. UNCHANGED driver
    BY <2>1 DEF Accept, SendDone, SendTimeout, PeerAck, PeerFin, Arrive, ChipOnly
  <2>4. QED
    BY <1>2, <2>2, <2>3
<1>3. QED
  BY <1>1, <1>2

\* The host writes registers: Sn_SR and what the chip counts by stay.
LEMMA RegistersWritten ==
    ASSUME NEW s, NEW c, Wires \subseteq DOMAIN c, NEW val, Settable(s, val),
           NEW n, n = WriteReg(c, val)
    PROVE  /\ Wires \subseteq DOMAIN n /\ n.SR = c.SR
           /\ n.sending = c.sending /\ n.acked = c.acked /\ n.TX_RD = c.TX_RD
           /\ n.CR = IF "CR" \in DOMAIN val THEN val.CR ELSE c.CR
           /\ n.MR = IF "MR" \in DOMAIN val THEN val.MR ELSE c.MR
<1>1. CASE "IR" \in DOMAIN val
  <2>1. n = [c EXCEPT !.IR = @ \ val.IR]
    BY <1>1 DEF WriteReg
  <2>2. "CR" \notin DOMAIN val /\ "MR" \notin DOMAIN val
    BY <1>1 DEF Settable
  <2>3. QED
    BY <2>1, <2>2 DEF Wires
<1>2. CASE "IR" \notin DOMAIN val
  <2>1. n = Overlay(val, c)
    BY <1>2 DEF WriteReg
  <2>2. DOMAIN val \subseteq Writable
    BY DEF Settable
  <2>3. \A r \in {"SR", "sending", "acked", "TX_RD"} : r \notin DOMAIN val
    BY <2>2 DEF Writable
  <2>4. QED
    BY <2>1, <2>3 DEF Overlay, Wires
<1>3. QED
  BY <1>1, <1>2

\* A transfer leaves the chip's registers alone, except for those it writes.
LEMMA TransferMoves ==
    ASSUME NEW sole, Inv(sole), Wired(chip), Transfer
    PROVE  /\ Wired(chip')
           /\ \A s \in Sock :
                /\ chip'[s].SR = chip[s].SR /\ chip'[s].sending = chip[s].sending
                /\ chip'[s].acked = chip[s].acked /\ chip'[s].TX_RD = chip[s].TX_RD
                /\ chip'[s].MR = IF /\ bus = "shift" /\ SetsMode(running_cmd, s)
                                 THEN running_cmd.val.MR ELSE chip[s].MR
                /\ chip'[s].CR = IF bus = "shift" /\ Orders(running_cmd, s)
                                 THEN running_cmd.val.CR ELSE chip[s].CR
<1>1. bus \in {"shift", "poll"}
  BY DEF Transfer, TransferWriteReg, TransferWriteBuf, TransferReadReg, TransferReadSir,
         TransferCheckRcv, TransferCheckTxFsr, TransferReadBuf, TransferReadSoc, TransferPoll,
         Fetch, Shifting
<1>2. WellFormed(running_cmd) /\ (running_cmd.cmd_type # "READ_SIR" => running_cmd.sn \in Sock)
  BY <1>1, TransferStarts
<1> DEFINE Goal(ch) ==
             /\ Wired(ch)
             /\ \A s \in Sock :
                  /\ ch[s].SR = chip[s].SR /\ ch[s].sending = chip[s].sending
                  /\ ch[s].acked = chip[s].acked /\ ch[s].TX_RD = chip[s].TX_RD
                  /\ ch[s].MR = IF bus = "shift" /\ SetsMode(running_cmd, s)
                                THEN running_cmd.val.MR ELSE chip[s].MR
                  /\ ch[s].CR = IF bus = "shift" /\ Orders(running_cmd, s)
                                THEN running_cmd.val.CR ELSE chip[s].CR
<1>3. ASSUME bus = "shift" => running_cmd.cmd_type # "WRITE_REG", NEW ch, Wired(ch),
             \A s \in Sock : /\ ch[s].SR = chip[s].SR /\ ch[s].sending = chip[s].sending
                             /\ ch[s].acked = chip[s].acked /\ ch[s].TX_RD = chip[s].TX_RD
                             /\ ch[s].MR = chip[s].MR /\ ch[s].CR = chip[s].CR
      PROVE  Goal(ch)
  BY <1>3 DEF SetsMode, Orders, IsCommandWrite
<1>4. CASE TransferWriteReg
  <2> DEFINE t == running_cmd.sn
             n == WriteReg(chip[t], running_cmd.val)
  <2>1. /\ bus = "shift" /\ running_cmd.cmd_type = "WRITE_REG" /\ t \in Sock
        /\ chip' = [chip EXCEPT ![t] = n]
    BY <1>2, <1>4 DEF TransferWriteReg, Shifting, ChipBecomes
  <2>2. Settable(t, running_cmd.val) /\ Wires \subseteq DOMAIN chip[t]
    BY <1>2, <2>1 DEF WellFormed, Wired
  <2>3. /\ Wires \subseteq DOMAIN n /\ n.SR = chip[t].SR
        /\ n.sending = chip[t].sending /\ n.acked = chip[t].acked /\ n.TX_RD = chip[t].TX_RD
        /\ n.CR = (IF "CR" \in DOMAIN running_cmd.val THEN running_cmd.val.CR ELSE chip[t].CR)
        /\ n.MR = (IF "MR" \in DOMAIN running_cmd.val THEN running_cmd.val.MR ELSE chip[t].MR)
    BY <2>2, RegistersWritten
  <2> HIDE DEF n
  <2>4. DOMAIN chip' = Sock /\ chip'[t] = n /\ \A s \in Sock : s # t => chip'[s] = chip[s]
    BY <2>1 DEF Wired
  <2>5. Wired(chip')
    BY <2>3, <2>4 DEF Wired
  <2>6. \A s \in Sock : /\ SetsMode(running_cmd, s) <=> s = t /\ "MR" \in DOMAIN running_cmd.val
                        /\ Orders(running_cmd, s) <=> s = t /\ "CR" \in DOMAIN running_cmd.val
    BY <2>1 DEF SetsMode, Orders, IsCommandWrite
  <2>7. ASSUME NEW s \in Sock
        PROVE  /\ chip'[s].SR = chip[s].SR /\ chip'[s].sending = chip[s].sending
               /\ chip'[s].acked = chip[s].acked /\ chip'[s].TX_RD = chip[s].TX_RD
               /\ chip'[s].MR = IF bus = "shift" /\ SetsMode(running_cmd, s)
                                THEN running_cmd.val.MR ELSE chip[s].MR
               /\ chip'[s].CR = IF bus = "shift" /\ Orders(running_cmd, s)
                                THEN running_cmd.val.CR ELSE chip[s].CR
    <3>1. CASE s = t
      <4>1. chip'[s] = n /\ chip[s] = chip[t]
        BY <2>4, <3>1
      <4>2. /\ SetsMode(running_cmd, s) <=> "MR" \in DOMAIN running_cmd.val
            /\ Orders(running_cmd, s) <=> "CR" \in DOMAIN running_cmd.val
        BY <2>6, <3>1
      <4> HIDE DEF t
      <4>3. QED
        BY <2>1, <2>3, <4>1, <4>2
    <3>2. CASE s # t
      BY <2>4, <2>6, <3>2
    <3>3. QED
      BY <3>1, <3>2
  <2>8. QED
    BY <2>5, <2>7
<1>5. CASE TransferWriteBuf
  <2>1. PICK mem : chip' = [chip EXCEPT ![running_cmd.sn].tx_mem = mem]
    BY <1>5 DEF TransferWriteBuf, ChipBecomes
  <2>2. bus = "shift" => running_cmd.cmd_type # "WRITE_REG"
    BY <1>5 DEF TransferWriteBuf, Shifting
  <2>3. Wired(chip')
    BY <2>1 DEF Wired
  <2>4. \A s \in Sock : /\ chip'[s].SR = chip[s].SR /\ chip'[s].sending = chip[s].sending
                        /\ chip'[s].acked = chip[s].acked /\ chip'[s].TX_RD = chip[s].TX_RD
                        /\ chip'[s].MR = chip[s].MR /\ chip'[s].CR = chip[s].CR
    BY <2>1 DEF Wired
  <2>5. QED
    BY <1>3, <2>2, <2>3, <2>4
<1>6. CASE ~TransferWriteReg /\ ~TransferWriteBuf
  <2>1. chip' = chip /\ (bus = "shift" => running_cmd.cmd_type # "WRITE_REG")
    BY <1>6 DEF Transfer, TransferReadReg, TransferReadSir, TransferCheckRcv, TransferCheckTxFsr,
                TransferReadBuf, TransferReadSoc, TransferPoll, Fetch, Shifting
  <2>2. QED
    BY <1>3, <2>1
<1>7. QED
  BY <1>4, <1>5, <1>6

-------------------------------------------------------------------------------
(***************************************************************************)
(* The driver's invariant, step by step of the lifecycle.                  *)
(***************************************************************************)
Base(sole) == Inv(sole) /\ Tasks(call) /\ Wired(chip)

\* No socket of sole is opened while it is receiving.
Alone(sole) == \A s \in sole : SocketCall(s) => ~sockets[s].is_receiving

\* The chip's steps free Sn_CR or leave it alone.
LEMMA ChipMoveKeepsInv ==
    ASSUME NEW sole, Inv(sole), UNCHANGED driver, NEW s \in Sock, ChipMoves(s)
    PROVE  Inv(sole)' /\ (Wired(chip) => Wired(chip'))
<1>1. Chip(chip)
  BY DEF Inv, Holds
<1>2. chip'[s].CR \in {chip[s].CR, "NONE"} /\ {"CR", "IR"} \subseteq DOMAIN chip'[s]
  BY DEF ChipMoves, ChipStep, Wires
<1>3. Chip(chip') /\ \A t \in Sock : chip'[t].CR \in {chip[t].CR, "NONE"}
  BY <1>1, <1>2 DEF ChipMoves, Chip
<1>4. Wired(chip) => Wired(chip')
  BY DEF ChipMoves, Wired
<1>5. QED
  BY <1>3, <1>4, DriverStays

\* A blocking call queues one command, or finds the queue full.
LEMMA QueueCommandKeepsInv ==
    ASSUME NEW sole, Inv(sole), NEW s \in Sock, NEW c, WellFormed(c), \A t : ~Asks(c, t), NEW next,
           QueueCommand(s, c, next), UNCHANGED chip
    PROVE  Inv(sole)'
<1>1. CASE UNCHANGED driver
  <2>1. Chip(chip)
    BY DEF Inv, Holds
  <2>2. QED
    BY <1>1, <2>1, DriverStays
<1>2. CASE \E hal \in HalOutcomes : Become(PushBacks(Now(hal), <<c>>))
  <2>1. PICK hal \in HalOutcomes : Become(PushBacks(Now(hal), <<c>>))
    BY <1>2
  <2> DEFINE d == Now(hal)
             l == <<c>>
             e == PushBacks(d, l)
  <2>2. Holds(d, chip, sole) /\ Driver(d) /\ Busy(d)
    BY HandlerStarts DEF Holds
  <2>3. Queue(l) /\ l # <<>> /\ \A t : Never(l, t)
    BY OneCommand
  <2>a. e = PushBacks(d, l)
    OBVIOUS
  <2> HIDE DEF d, l, e
  <2>b. PICK done \in BOOLEAN : done = FALSE
    OBVIOUS
  <2>4. /\ Driver(e) /\ Busy(e) /\ e.sk = d.sk
        /\ ~Idle(d) => e.run = d.run /\ e.bus = d.bus
        /\ Idle(d) => e.bus # "done"
        /\ ~e.fails =>
             /\ ~d.fails
             /\ \A t : NoneLeft(e, done, t) <=> Never(l, t) /\ NoneLeft(d, done, t)
             /\ \A t : Never(l, t) /\ OneLeft(d, done, t) => OneLeft(e, done, t)
             /\ Known(d, done, chip) => Known(e, done, chip)
             /\ Known(d, done, chip) /\ OnTheBus(d, chip) => OnTheBus(e, chip)
    BY <2>2, <2>3, <2>a, <2>b, PushedBack
  <2>5. ~e.fails /\ Kept(d, FALSE, chip, sole) => Kept(e, FALSE, chip, sole)
    <3>1. ASSUME ~e.fails, Receiving(d, FALSE, sole)  PROVE  Receiving(e, FALSE, sole)
      BY <2>3, <2>4, <2>b, <3>1 DEF Receiving
    <3>2. QED
      BY <2>4, <2>b, <3>1 DEF Kept
  <2>6. Continues(d, e, FALSE, chip, sole)
    BY <2>4, <2>5 DEF Continues
  <2>7. Holds(e, chip', sole)
    BY <2>2, <2>6, ContinuesHolds
  <2>8. Become(e)
    BY <2>1 DEF d, l, e
  <2>9. QED
    BY <2>7, <2>8, HandlerEnds
<1>3. QED
  BY <1>1, <1>2 DEF QueueCommand

\* socket, whatever is left of the previous life: a socket of sole must not be receiving.
LEMMA SocketCallKeepsInv ==
    ASSUME NEW sole, Inv(sole), NEW s \in Sock, SocketCall(s),
           s \in sole => ~sockets[s].is_receiving
    PROVE  Inv(sole)'
<1> DEFINE d == Now(TRUE)
           e == [d EXCEPT !.sk = sockets']
<1>1. /\ UNCHANGED <<command_queue, running_cmd, bus, enqueueFails, failures, chip>>
      /\ sockets' = [sockets EXCEPT ![s] =
             [@ EXCEPT !.tx_buf_queue = <<>>, !.rx_buf_queue = <<>>,
                       !.is_sending = FALSE, !.is_receiving = FALSE]]
  BY DEF SocketCall
<1>2. /\ Holds(d, chip, sole) /\ DOMAIN d = DriverFields /\ d.q = command_queue
      /\ d.run = running_cmd /\ d.bus = bus /\ d.sk = sockets /\ d.fails = enqueueFails
      /\ d.err = failures
  BY DEF Inv, Now, DriverFields
<1> HIDE DEF d
<1>3. Driver(d) /\ Busy(d) /\ Shadows(sockets) /\ Chip(chip)
  BY <1>2 DEF Holds, Driver
<1>4. /\ DOMAIN e = DriverFields /\ e.q = d.q /\ e.run = d.run /\ e.bus = d.bus
      /\ e.sk = sockets' /\ e.fails = d.fails /\ e.err = d.err /\ e.hal = d.hal
  BY <1>2 DEF DriverFields
<1> HIDE DEF e
<1>5. /\ DOMAIN sockets' = Sock /\ DOMAIN sockets'[s] = DOMAIN sockets[s]
      /\ sockets'[s].CR = sockets[s].CR /\ sockets'[s].is_receiving = FALSE
      /\ \A t \in Sock : t # s => sockets'[t] = sockets[t]
  BY <1>1, <1>3 DEF Shadows
<1>6. Shadows(sockets') /\ \A t \in Sock : sockets'[t].CR = sockets[t].CR
  BY <1>3, <1>5 DEF Shadows
<1>7. Driver(e) /\ Busy(e)
  BY <1>3, <1>4, <1>6 DEF Driver, Busy, Idle, DriverFields
<1>8. ASSUME Kept(d, FALSE, chip, sole)  PROVE  Kept(e, FALSE, chip, sole)
  <2>1. \A t : /\ NoneLeft(e, FALSE, t) <=> NoneLeft(d, FALSE, t)
               /\ OneLeft(e, FALSE, t) <=> OneLeft(d, FALSE, t)
    BY <1>4 DEF NoneLeft, OneLeft
  <2>2. ASSUME NEW t \in Sock
        PROVE  /\ e.sk[t].is_receiving => ~NoneLeft(e, FALSE, t)
               /\ t \in sole => IF e.sk[t].is_receiving THEN OneLeft(e, FALSE, t)
                                                       ELSE NoneLeft(e, FALSE, t)
    <3>1. /\ sockets[t].is_receiving => ~NoneLeft(d, FALSE, t)
          /\ t \in sole => IF sockets[t].is_receiving THEN OneLeft(d, FALSE, t)
                                                     ELSE NoneLeft(d, FALSE, t)
      BY <1>2, <1>8 DEF Kept, Receiving
    <3>2. CASE t = s
      BY <1>4, <1>5, <2>1, <3>1, <3>2
    <3>3. CASE t # s
      BY <1>4, <1>5, <2>1, <3>1, <3>3
    <3>4. QED
      BY <3>2, <3>3
  <2>3. Receiving(e, FALSE, sole)
    BY <2>2 DEF Receiving
  <2>4. Known(d, FALSE, chip) => Known(e, FALSE, chip)
    BY <1>2, <1>4, <1>6 DEF Known
  <2>5. OnTheBus(d, chip) => OnTheBus(e, chip)
    <3>1. d.bus = "poll" => d.run.sn \in Sock
      BY <1>3 DEF Busy, Idle, WellFormed, IsCommandWrite
    <3>2. QED
      BY <1>2, <1>4, <1>6, <3>1 DEF OnTheBus
  <2>6. QED
    BY <1>8, <2>3, <2>4, <2>5 DEF Kept
<1>9. Holds(e, chip', sole)
  BY <1>1, <1>2, <1>3, <1>4, <1>7, <1>8 DEF Holds
<1>10. Become(e)
  BY <1>1, <1>2, <1>4 DEF Become
<1>11. QED
  BY <1>9, <1>10, HandlerEnds

\* What a blocking call queues while it waits.
LEMMA WaitsFormed ==
    ASSUME Tasks(call), NEW s \in Sock
    PROVE  /\ call[s].todo # <<>> =>
                /\ WellFormed(Head(call[s].todo)) /\ \A t : ~Asks(Head(call[s].todo), t)
                /\ Plan(Tail(call[s].todo))
                /\ call[s].todo = <<Head(call[s].todo)>> \o Tail(call[s].todo)
           /\ WellFormed(ReadStatus(s)) /\ \A t : ~Asks(ReadStatus(s), t)
           /\ ReadStatus(s).cmd_type = "READ_REG"
<1>1. ASSUME NEW l, Plan(l), l # <<>>
      PROVE  /\ WellFormed(Head(l)) /\ \A t : ~Asks(Head(l), t)
             /\ Plan(Tail(l)) /\ l = <<Head(l)>> \o Tail(l)
  BY <1>1, HeadHolds DEF Plan
<1>2. Plan(call[s].todo)
  BY DEF Tasks
<1>3. {"SR"} \subseteq Registers
  BY DEF Registers
<1>4. WellFormed(ReadStatus(s)) /\ ReadStatus(s).cmd_type = "READ_REG"
  BY <1>3, ReadsFormed DEF ReadStatus
<1>5. \A t : ~Asks(ReadStatus(s), t)
  BY <1>4 DEF Asks
<1>6. QED
  BY <1>1, <1>2, <1>4, <1>5

\* Enqueue and the polling loops.
LEMMA WaitsKeepInv ==
    ASSUME NEW sole, Inv(sole), Tasks(call), NEW s \in Sock, Waits(s)
    PROVE  Inv(sole)'
<1>1. Chip(chip)
  BY DEF Inv, Holds
<1>2. chip' = chip
  BY DEF Waits, Enqueue, PollNoIT, PollWithIT, vars
<1>3. CASE UNCHANGED driver
  BY <1>1, <1>2, <1>3, DriverStays
<1>4. CASE Enqueue(s)
  <2>1. /\ call[s].todo # <<>>
        /\ \E next : QueueCommand(s, Head(call[s].todo), next)
    BY <1>4 DEF Enqueue
  <2>2. QED
    BY <1>2, <2>1, WaitsFormed, QueueCommandKeepsInv
<1>5. CASE PollNoIT(s)
  <2>1. CASE \E next : QueueCommand(s, ReadStatus(s), next)
    BY <1>2, <2>1, WaitsFormed, QueueCommandKeepsInv
  <2>2. QED
    BY <1>3, <1>5, <2>1 DEF PollNoIT
<1>6. CASE PollWithIT(s)
  BY <1>3, <1>6 DEF PollWithIT, vars
<1>7. QED
  BY <1>4, <1>5, <1>6 DEF Waits

\* The calls of the application.
LEMMA CallsKeepInv ==
    ASSUME NEW sole, Inv(sole), NEW s \in Sock, Calls(s), Alone(sole)
    PROVE  Inv(sole)'
<1>1. CASE SocketCall(s)
  BY <1>1, SocketCallKeepsInv DEF Alone
<1>2. CASE UNCHANGED vars
  BY <1>2, InvStep
<1>3. QED
  BY <1>1, <1>2 DEF Calls, Connect, Disconnect, Close

\* A change of the call of one task.
LEMMA OneTaskChanges ==
    ASSUME Tasks(call), NEW s \in Sock, NEW r, DOMAIN r = {"op", "ret", "todo", "polled"},
           Plan(r.todo), call' = [call EXCEPT ![s] = r]
    PROVE  Tasks(call') /\ call'[s] = r /\ \A t \in Sock : t # s => call'[t] = call[t]
<1>1. DOMAIN call' = Sock /\ \A t \in Sock : call'[t] = IF t = s THEN r ELSE call[t]
  BY DEF Tasks
<1>2. QED
  BY <1>1 DEF Tasks

\* A call begins.
LEMMA BeginFacts ==
    ASSUME Tasks(call), NEW s \in Sock, NEW op, NEW todo, Plan(todo), Begin(s, op, todo)
    PROVE  /\ Tasks(call') /\ \A t \in Sock : t # s => call'[t] = call[t]
           /\ call'[s].op = op /\ call'[s].ret = "running" /\ call'[s].todo = todo
<1> DEFINE r == [op |-> op, ret |-> "running", todo |-> todo, polled |-> FALSE]
<1>1. /\ DOMAIN r = {"op", "ret", "todo", "polled"}
      /\ r.op = op /\ r.ret = "running" /\ r.todo = todo
  OBVIOUS
<1>2. call' = [call EXCEPT ![s] = r]
  BY DEF Begin
<1> HIDE DEF r
<1>3. QED
  BY <1>1, <1>2, OneTaskChanges

\* A call returns.
LEMMA ReturnFacts ==
    ASSUME Tasks(call), NEW s \in Sock, NEW ret, Return(s, ret)
    PROVE  /\ Tasks(call') /\ \A t \in Sock : t # s => call'[t] = call[t]
           /\ call'[s].op = call[s].op /\ call'[s].ret = ret /\ call'[s].todo = <<>>
<1> DEFINE r == [op |-> call[s].op, ret |-> ret, todo |-> <<>>, polled |-> FALSE]
<1>1. /\ DOMAIN r = {"op", "ret", "todo", "polled"}
      /\ r.op = call[s].op /\ r.ret = ret /\ r.todo = <<>>
  OBVIOUS
<1>2. call' = [call EXCEPT ![s] = r]
  BY DEF Return, Tasks
<1>3. Plan(r.todo)
  BY NoCommands DEF Plan
<1> HIDE DEF r
<1>4. QED
  BY <1>1, <1>2, <1>3, OneTaskChanges

\* A call goes on: with the rest of its plan, or with having asked for the status.
LEMMA ContinueFacts ==
    ASSUME Tasks(call), NEW s \in Sock, NEW r,
           \/ call[s].todo # <<>> /\ r = [call[s] EXCEPT !.todo = Tail(@)]
           \/ r = [call[s] EXCEPT !.polled = TRUE],
           call' = [call EXCEPT ![s] = r]
    PROVE  /\ Tasks(call') /\ \A t \in Sock : t # s => call'[t] = call[t]
           /\ call'[s].op = call[s].op /\ call'[s].ret = call[s].ret
           /\ call'[s].todo = r.todo
<1>1. DOMAIN call[s] = {"op", "ret", "todo", "polled"} /\ Plan(call[s].todo)
  BY DEF Tasks
<1>2. /\ DOMAIN r = {"op", "ret", "todo", "polled"} /\ r.op = call[s].op /\ r.ret = call[s].ret
      /\ Plan(r.todo)
  <2>1. CASE call[s].todo # <<>> /\ r = [call[s] EXCEPT !.todo = Tail(@)]
    <3>1. Plan(Tail(call[s].todo))
      BY <2>1, WaitsFormed
    <3>2. QED
      BY <1>1, <2>1, <3>1
  <2>2. CASE r = [call[s] EXCEPT !.polled = TRUE]
    BY <1>1, <2>2
  <2>3. QED
    BY <2>1, <2>2
<1>3. QED
  BY <1>2, OneTaskChanges

\* The calls stay well formed.
LEMMA TasksStay ==
    ASSUME Tasks(call), NEW s \in Sock, Calls(s) \/ Waits(s)
    PROVE  Tasks(call')
<1>1. ASSUME NEW op, NEW todo, Plan(todo), Begin(s, op, todo)  PROVE  Tasks(call')
  BY <1>1, BeginFacts
<1>2. ASSUME NEW ret, Return(s, ret)  PROVE  Tasks(call')
  BY <1>2, ReturnFacts
<1>3. CASE Calls(s)
  <2>1. "CONNECT" # "NONE" /\ "DISCON" # "NONE" /\ "CLOSE" # "NONE"
    OBVIOUS
  <2>2. /\ Plan(OpenCommands(s)) /\ Plan(<<Command(s, "DISCON")>>) /\ Plan(<<Command(s, "CLOSE")>>)
        /\ Plan(<<SetReg(s, [DIPR |-> 1, DPORT |-> 1]), Command(s, "CONNECT")>>)
    BY <2>1, LifePlans
  <2>3. QED
    BY <1>1, <1>3, <2>2 DEF Calls, SocketCall, Connect, Disconnect, Close
<1>4. CASE Enqueue(s)
  <2>1. \/ Return(s, "QUEUE_FULL")
        \/ call[s].todo # <<>> /\ call' = [call EXCEPT ![s] = [call[s] EXCEPT !.todo = Tail(@)]]
    BY <1>4 DEF Enqueue, QueueCommand
  <2>2. QED
    BY <1>2, <2>1, ContinueFacts
<1>5. CASE PollNoIT(s)
  <2>1. \/ \E ret : Return(s, ret)
        \/ call' = [call EXCEPT ![s] = [call[s] EXCEPT !.polled = TRUE]]
    BY <1>5 DEF PollNoIT, QueueCommand
  <2>2. QED
    BY <1>2, <2>1, ContinueFacts
<1>6. CASE PollWithIT(s)
  BY <1>2, <1>6 DEF PollWithIT
<1>7. QED
  BY <1>3, <1>4, <1>5, <1>6 DEF Waits

\* Before the first call nothing waits and every socket is closed.
LEMMA BaseAtStart == ASSUME NEW sole PROVE LifeInit => Base(sole)
<1> SUFFICES ASSUME LifeInit PROVE Base(sole)
  OBVIOUS
<1> DEFINE d == Now(TRUE)
           closed == Overlay(Opened("CLOSED"), [MR |-> "NONE"])
           rest == [tx_buf |-> [a \in 0 .. TxBufLen - 1 |-> Junk], tx_buf_queue |-> <<>>,
                    rx_buf |-> [a \in 0 .. RxBufLen - 1 |-> Junk], rx_buf_queue |-> <<>>,
                    is_sending |-> FALSE, is_receiving |-> FALSE]
           none == [op |-> "none", ret |-> "OK", todo |-> <<>>, polled |-> FALSE]
<1>1. /\ DOMAIN d = DriverFields /\ d.q = <<>> /\ d.run = IDLE_COMMAND /\ d.bus = "none"
      /\ d.sk = sockets /\ d.fails \in BOOLEAN /\ d.err \in Nat /\ d.hal \in BOOLEAN
  BY DEF Now, LifeInit, DriverFields
<1>2. /\ chip = [s \in Sock |-> closed]
      /\ sockets = [s \in Sock |-> Overlay(Shadow(closed), rest)]
      /\ call = [s \in Sock |-> none]
  BY DEF LifeInit
<1>3. /\ rest.is_receiving = FALSE
      /\ DOMAIN rest = {"tx_buf", "tx_buf_queue", "rx_buf", "rx_buf_queue",
                        "is_sending", "is_receiving"}
      /\ DOMAIN none = {"op", "ret", "todo", "polled"} /\ none.todo = <<>>
  OBVIOUS
<1> HIDE DEF d, rest, none
<1>4. closed.CR = "NONE" /\ Wires \subseteq DOMAIN closed
  BY DEF Opened, Overlay, Wires
<1>5. \A c : DOMAIN Shadow(c) = {"CR", "IR", "SR", "TX_FSR", "TX_WR", "RX_RSR", "RX_RD", "spi"}
  BY DEF Shadow
<1> HIDE DEF closed
<1>6. \A s \in Sock : /\ {"CR", "SR", "is_receiving"} \subseteq DOMAIN sockets[s]
                      /\ sockets[s].is_receiving = FALSE
  BY <1>2, <1>3, <1>5 DEF Overlay
<1>7. Chip(chip) /\ Shadows(sockets) /\ Wired(chip) /\ \A s \in Sock : chip[s].CR = "NONE"
  BY <1>2, <1>4, <1>6 DEF Chip, Shadows, Wired, Wires
<1>8. Driver(d)
  <2>1. Queue(d.q)
    BY <1>1, NoCommands
  <2>2. QED
    BY <1>1, <1>7, <2>1 DEF Driver, DriverFields
<1>9. IDLE_COMMAND.cmd_type = "IDLE"
  BY DEF IDLE_COMMAND, Cmd
<1>10. Busy(d)
  BY <1>1, <1>9 DEF Busy, Idle
<1>11. Receiving(d, FALSE, sole)
  BY <1>1, <1>6, <1>9, NoCommands DEF Receiving, NoneLeft, Asks
<1>12. Known(d, FALSE, chip)
  BY <1>7 DEF Known
<1>13. OnTheBus(d, chip)
  BY <1>1 DEF OnTheBus
<1>14. Inv(sole)
  BY <1>1, <1>7, <1>8, <1>10, <1>11, <1>12, <1>13 DEF Inv, Holds, Kept, d
<1>15. Tasks(call)
  <2>1. Plan(<<>>)
    BY NoCommands DEF Plan
  <2>2. QED
    BY <1>2, <1>3, <2>1 DEF Tasks
<1>16. QED
  BY <1>7, <1>14, <1>15 DEF Base

\* Every step keeps the driver's invariant.
LEMMA BaseStep ==
    ASSUME NEW sole, Base(sole), [LifeNext]_allvars, [Alone(sole)]_allvars
    PROVE  Base(sole)'
<1>1. Inv(sole) /\ Tasks(call) /\ Wired(chip)
  BY DEF Base
<1>a. CASE UNCHANGED allvars
  <2>1. Inv(sole)'
    BY <1>1, <1>a, InvStep DEF allvars
  <2>2. QED
    BY <1>1, <1>a, <2>1 DEF Base, allvars, vars, lifecycle
<1>2. ASSUME NEW s \in Sock, Calls(s) \/ Waits(s), Alone(sole)  PROVE  Base(sole)'
  <2>1. Inv(sole)'
    BY <1>1, <1>2, CallsKeepInv, WaitsKeepInv
  <2>2. Tasks(call')
    BY <1>1, <1>2, TasksStay
  <2>3. chip' = chip
    BY <1>2 DEF Calls, Waits, SocketCall, Connect, Disconnect, Close, Enqueue, PollNoIT,
                PollWithIT, vars
  <2>4. QED
    BY <1>1, <2>1, <2>2, <2>3 DEF Base
<1>3. CASE \/ \E s \in Sock : ConnectionSteps(s) \/ PeerReset(s)
           \/ Network /\ UNCHANGED call
  <2>1. UNCHANGED <<driver, call>> /\ \E s \in Sock : ChipMoves(s)
    BY <1>1, <1>3, ChipSideMoves
  <2>2. Inv(sole)' /\ Wired(chip')
    BY <1>1, <2>1, ChipMoveKeepsInv
  <2>3. QED
    BY <1>1, <2>1, <2>2 DEF Base
<1>4. CASE DataCall
  <2>1. PICK s \in Sock : (\E len, dst : Send(s, len, dst)) \/ Recv(s) \/ RecvFrom(s)
    BY <1>4 DEF DataCall
  <2>2. Inv(sole)'
    BY <1>1, <2>1, SendKeepsInv, RecvKeepsInv
  <2>3. chip' = chip
    BY <2>1 DEF Send, Recv, RecvFrom
  <2>4. call' = call
    BY <1>4 DEF DataCall, lifecycle
  <2>5. QED
    BY <1>1, <2>2, <2>3, <2>4 DEF Base
<1>5. CASE Transfer /\ UNCHANGED lifecycle
  <2>1. Inv(sole)'
    BY <1>1, <1>5, WritesKeepInv, FetchesKeepInv, ReadsKeepInv DEF Transfer
  <2>2. Wired(chip')
    BY <1>1, <1>5, TransferMoves
  <2>3. QED
    BY <1>1, <1>5, <2>1, <2>2 DEF Base, lifecycle
<1>6. CASE (SpiComplete \/ SpiError \/ Exti \/ Timer) /\ UNCHANGED lifecycle
  <2>1. Inv(sole)'
    BY <1>1, <1>6, InterruptsKeepInv DEF Interrupts
  <2>2. chip' = chip
    BY <1>6 DEF SpiComplete, SpiError, Exti, Timer
  <2>3. QED
    BY <1>1, <1>6, <2>1, <2>2 DEF Base, lifecycle
<1>7. QED
  BY <1>a, <1>2, <1>3, <1>4, <1>5, <1>6 DEF LifeNext

\* The driver's invariant holds through all the lives of the sockets, also of one
\* that is closed and opened again with commands of its last life still under way.
THEOREM LifeKeepsInvariant == LifeSpec => []Base({})
<1>1. Base({}) /\ [LifeNext]_allvars => Base({})'
  <2>1. Alone({})
    BY DEF Alone
  <2>2. QED
    BY <2>1, BaseStep
<1>2. LifeInit => Base({})
  BY BaseAtStart
<1>3. QED
  BY <1>1, <1>2, PTL DEF LifeSpec

\* Something on the bus or in the queue will clear is_receiving.
ReceptionEnds ==
    \A s \in Sock : sockets[s].is_receiving
                         => \E i \in DOMAIN Outstanding : Asks(Outstanding[i], s)

\* receivePendingData, with sockets that are opened and closed at any time: while a
\* socket is marked as receiving, a CHECK_RCV that will clear the mark is outstanding,
\* so no life of a socket begins or goes on with a mark that nothing takes back.
THEOREM LivesAlwaysAsk == LifeSpec => [](~enqueueFails => ReceptionEnds)
<1>1. Base({}) => (~enqueueFails => ReceptionEnds)
  BY InvCounts DEF Base, ReceptionEnds
<1>2. QED
  BY <1>1, LifeKeepsInvariant, PTL

\* ... and there is exactly one of them, in a behaviour in which no socket is opened
\* while its last reception is still under way.  Nothing in the code prevents that:
\* then socket (socket.cpp:32-39) clears is_receiving with the CHECK_RCV outstanding.
THEOREM LivesReceiveOnce ==
    LifeSpec /\ [][Alone(Sock)]_allvars => [](~enqueueFails => ReceivingOnce)
<1>1. Base(Sock) /\ [LifeNext]_allvars /\ [Alone(Sock)]_allvars => Base(Sock)'
  BY BaseStep
<1>2. LifeInit => Base(Sock)
  BY BaseAtStart
<1>3. Base(Sock) => (~enqueueFails => ReceivingOnce)
  BY InvReceivesOnce DEF Base
<1>4. QED
  BY <1>1, <1>2, <1>3, PTL DEF LifeSpec

\* dmaTXCompleteCallback, with the commands of the lifecycle: Sn_CR is written only
\* while it is free, and the bus stands still with commands waiting only after an
\* SPI failure.
THEOREM LivesOrdersWait ==
    ASSUME "WRITE_REG" \notin LateErrors
    PROVE  LifeSpec => []((~enqueueFails => CommandRegisterFree) /\ StallNeedsFailure)
<1>1. Base({}) => (~enqueueFails => CommandRegisterFree) /\ StallNeedsFailure
  BY InvOrdersWait, InvNeverStalls DEF Base, SureWrites
<1>2. QED
  BY <1>1, LifeKeepsInvariant, PTL

-------------------------------------------------------------------------------
(***************************************************************************)
(* The order of commands through the handlers: whatever a handler does, it *)
(* leaves the lifecycle commands that wait for the bus as they are.        *)
(***************************************************************************)
\* A poll that fails may put its command in front of the queue once more.
Repeatable(d, s) == d.bus = "poll" => Follows(d.q, <<d.run>> \o d.q, s)

\* A part of a handler that leads from d to e concerns no socket's life.
Serves(d, e, s) ==
    /\ Driver(e) /\ Busy(e)
    /\ e.sk[s].SR = d.sk[s].SR
    /\ ~Idle(d) => e.run = d.run /\ e.bus = d.bus
    /\ Idle(d) => e.bus # "done"
    /\ ~e.fails => /\ ~d.fails /\ Follows(Line(d), Line(e), s)
                   /\ Repeatable(d, s) => Repeatable(e, s)

\* One part of a handler after the other.
LEMMA ServesOn ==
    ASSUME NEW d, Driver(d), Busy(d), NEW e, NEW f, NEW s
    PROVE  Serves(d, d, s) /\ (Serves(d, e, s) /\ Serves(e, f, s) => Serves(d, f, s))
  BY FollowsOn DEF Serves, Idle, Busy

\* A part that leaves the queue and the bus alone.
LEMMA SameOrdersServe ==
    ASSUME NEW d, Driver(d), Busy(d), NEW e, SameOrders(d, e), NEW s \in Sock
    PROVE  Serves(d, e, s)
<1>1. /\ DOMAIN e = DriverFields /\ e.q = d.q /\ e.run = d.run /\ e.bus = d.bus
      /\ e.err = d.err /\ e.hal = d.hal /\ e.fails = d.fails
      /\ Shadows(e.sk) /\ e.sk[s].SR = d.sk[s].SR
  BY DEF SameOrders
<1>2. Driver(e)
  BY <1>1 DEF Driver, DriverFields
<1>3. Busy(e)
  BY <1>1 DEF Busy, Idle
<1>4. Line(e) = Line(d)
  BY <1>1 DEF Line
<1>5. QED
  BY <1>1, <1>2, <1>3, <1>4, FollowsOn DEF Serves, Repeatable, Busy

\* More commands at the end of the queue.
LEMMA LongerQueue ==
    ASSUME NEW d, Driver(d), Busy(d), NEW l, Queue(l), NEW e, NEW s,
           e.q = d.q \o l, e.run = d.run, e.bus = d.bus
    PROVE  Line(e) = Line(d) \o l /\ (Repeatable(d, s) => Repeatable(e, s))
<1>1. /\ Queue(d.q) /\ Queue(Line(d))
      /\ d.bus # "shift" => Line(d) = d.q
      /\ d.bus = "shift" => Line(d) = <<d.run>> \o d.q
      /\ d.bus \in {"shift", "poll"} => Queue(<<d.run>>)
  BY LineIs
<1>2. Queue(d.q \o l)
  BY <1>1, Joined
<1>3. ASSUME d.bus \in {"shift", "poll"}
      PROVE  (<<d.run>> \o d.q) \o l = <<d.run>> \o (d.q \o l)
  <2> DEFINE a == <<d.run>>
             q == d.q
  <2>1. Queue(a) /\ Queue(q)
    BY <1>1, <1>3
  <2> HIDE DEF a, q
  <2>2. (a \o q) \o l = a \o (q \o l)
    BY <2>1, JoinedTwice
  <2>3. QED
    BY <2>2 DEF a, q
<1>4. Line(e) = Line(d) \o l
  <2>1. CASE d.bus = "shift"
    BY <1>1, <1>3, <2>1 DEF Line
  <2>2. CASE d.bus # "shift"
    BY <1>1, <1>2, <2>2, JoinedWithNothing DEF Line
  <2>3. QED
    BY <2>1, <2>2
<1>5. ASSUME Repeatable(d, s), d.bus = "poll"  PROVE  Follows(e.q, <<e.run>> \o e.q, s)
  <2>1. Follows(d.q, <<d.run>> \o d.q, s)
    BY <1>5 DEF Repeatable
  <2>2. Queue(<<d.run>> \o d.q)
    BY <1>1, <1>5, Joined
  <2>3. Follows(d.q \o l, (<<d.run>> \o d.q) \o l, s)
    BY <1>1, <2>1, <2>2, FollowsJoined
  <2>4. QED
    BY <1>3, <1>5, <2>3
<1>6. QED
  BY <1>4, <1>5 DEF Repeatable

\* Commands that concern no socket's life in front of the queue.
LEMMA PlainInFront ==
    ASSUME NEW d, Driver(d), Busy(d), NEW s, NEW p, Queue(p), Plain(p, s), NEW e,
           Driver(e), Busy(e), e.run = d.run, e.bus = d.bus, e.sk[s].SR = d.sk[s].SR,
           ~e.fails => ~d.fails /\ e.q = p \o d.q
    PROVE  Serves(d, e, s)
<1>1. /\ Queue(d.q) /\ Queue(Line(d)) /\ Queue(p \o d.q)
      /\ d.bus # "shift" => Line(d) = d.q
      /\ d.bus = "shift" => Line(d) = <<d.run>> \o d.q
      /\ d.bus \in {"shift", "poll"} => Queue(<<d.run>>)
  BY LineIs, Joined
<1>2. Follows(d.q, p \o d.q, s) /\ Follows(p \o d.q, d.q, s)
  BY <1>1, PlainPut
<1>3. d.bus \in {"shift", "poll"} => Follows(<<d.run>> \o d.q, <<d.run>> \o (p \o d.q), s)
  BY <1>1, <1>2, FollowsJoined
<1>4. ~e.fails => Follows(Line(d), Line(e), s)
  <2>1. CASE d.bus = "shift"
    BY <1>1, <1>3, <2>1 DEF Line
  <2>2. CASE d.bus # "shift"
    BY <1>1, <1>2, <2>2, JoinedWithNothing DEF Line
  <2>3. QED
    BY <2>1, <2>2
<1>5. ASSUME ~e.fails, Repeatable(d, s), d.bus = "poll"
      PROVE  Follows(e.q, <<e.run>> \o e.q, s)
  <2>1. Follows(d.q, <<d.run>> \o d.q, s)
    BY <1>5 DEF Repeatable
  <2> DEFINE a == p \o d.q
             b == <<d.run>> \o d.q
             c == <<d.run>> \o (p \o d.q)
  <2>2. Follows(a, d.q, s) /\ Follows(b, c, s)
    BY <1>2, <1>3, <1>5
  <2> HIDE DEF a, b, c
  <2>3. Follows(a, c, s)
    BY <2>1, <2>2, FollowsOn DEF b
  <2>4. QED
    BY <1>5, <2>3 DEF a, c
<1>6. QED
  BY <1>4, <1>5 DEF Serves, Repeatable, Busy

\* The next command goes to the bus: on its way, or to be repeated behind a poll.
LEMMA StartServes ==
    ASSUME NEW d, Driver(d), NEW s, NEW e, e = Start(d)
    PROVE  /\ Driver(e) /\ Busy(e) /\ e.sk = d.sk /\ e.bus # "done"
           /\ ~e.fails => ~d.fails /\ Follows(d.q, Line(e), s) /\ Repeatable(e, s)
<1>1. DOMAIN d = DriverFields /\ Queue(d.q) /\ Shadows(d.sk)
      /\ d.fails \in BOOLEAN /\ d.err \in Nat /\ d.hal \in BOOLEAN
  BY DEF Driver, DriverFields
<1>2. /\ Driver(e) /\ Busy(e) /\ e.sk = d.sk /\ e.bus # "done"
      /\ ~e.fails => ~d.fails
  BY Started
<1>3. CASE d.q = <<>>
  <2>1. e = [d EXCEPT !.run = IDLE_COMMAND, !.bus = "none"]
    BY <1>3 DEF Start
  <2>2. e.q = d.q /\ e.bus = "none"
    BY <1>1, <2>1 DEF DriverFields
  <2>3. Line(e) = d.q
    BY <1>2, <2>2, LineIs
  <2>4. QED
    BY <1>2, <2>2, <2>3, FollowsOn DEF Repeatable
<1>4. CASE d.q # <<>>
  <2> DEFINE c == Head(d.q)
             t == Tail(d.q)
             p == [d EXCEPT !.q = Tail(d.q), !.run = c]
             b == [p EXCEPT !.bus = "shift"]
             w == [p EXCEPT !.bus = "poll"]
             g == GetReg(c.sn, {"CR"})
  <2>1. WellFormed(c) /\ Queue(t) /\ d.q = <<c>> \o t
    BY <1>1, <1>4, HeadHolds
  <2>2. e = IF ~d.hal THEN Failed(p)
            ELSE IF ~IsCommandWrite(c) THEN b
            ELSE IF d.sk[c.sn].CR # "NONE" THEN InFront(w, c)
            ELSE InFront(b, g)
    BY <1>4 DEF Start
  <2> HIDE DEF c, t
  <2>3. /\ DOMAIN p = DriverFields /\ p.q = t /\ p.run = c /\ p.sk = d.sk
        /\ p.err = d.err /\ p.hal = d.hal /\ p.fails = d.fails
    BY <1>1 DEF DriverFields, t
  <2> HIDE DEF p
  <2>4. /\ DOMAIN b = DriverFields /\ b.q = t /\ b.run = c /\ b.sk = d.sk /\ b.bus = "shift"
        /\ b.err = d.err /\ b.hal = d.hal /\ b.fails = d.fails
    BY <2>3 DEF DriverFields
  <2>5. /\ DOMAIN w = DriverFields /\ w.q = t /\ w.run = c /\ w.sk = d.sk /\ w.bus = "poll"
        /\ w.err = d.err /\ w.hal = d.hal /\ w.fails = d.fails
    BY <2>3 DEF DriverFields
  <2> HIDE DEF b, w
  <2>6. Driver(p) /\ Driver(b) /\ Driver(w)
    BY <1>1, <2>1, <2>3, <2>4, <2>5 DEF Driver, DriverFields
  <2>7. IsCommandWrite(c) => WellFormed(g) /\ g.cmd_type = "READ_REG"
    BY <2>1, Commands DEF IsCommandWrite, WellFormed
  <2>8. Queue(<<c>>) /\ Queue(<<c>> \o t)
    BY <2>1, OneCommand, Joined
  <2>9. CASE ~d.hal
    <3>1. e = Failed(p)
      BY <2>2, <2>9
    <3>2. e.bus = "none" /\ (~e.fails => e.q = d.q)
      BY <2>1, <2>3, <2>6, <3>1, FailedKeeps
    <3>3. Line(e) = e.q
      BY <1>2, <3>2, LineIs
    <3>4. QED
      BY <1>2, <3>2, <3>3, FollowsOn DEF Repeatable
  <2>10. CASE d.hal /\ ~IsCommandWrite(c)
    <3>1. e.q = t /\ e.run = c /\ e.bus = "shift"
      BY <2>2, <2>4, <2>10
    <3>2. Line(e) = d.q
      BY <2>1, <3>1 DEF Line
    <3>3. QED
      BY <1>2, <3>1, <3>2, FollowsOn DEF Repeatable
  <2>11. CASE d.hal /\ IsCommandWrite(c) /\ d.sk[c.sn].CR # "NONE"
    <3>1. e = InFront(w, c)
      BY <2>2, <2>11
    <3>2. e.run = c /\ e.bus = "poll" /\ (~e.fails => e.q = <<c>> \o t)
      BY <2>1, <2>5, <2>6, <3>1, PutInFront
    <3>3. Line(e) = e.q
      BY <1>2, <3>2, LineIs
    <3>4. Follows(<<c>> \o t, <<c>> \o (<<c>> \o t), s)
      BY <2>1, TwiceFollows
    <3>5. QED
      BY <1>2, <2>1, <3>2, <3>3, <3>4, FollowsOn DEF Repeatable
  <2>12. CASE d.hal /\ IsCommandWrite(c) /\ d.sk[c.sn].CR = "NONE"
    <3>1. e = InFront(b, g)
      BY <2>2, <2>12
    <3>2. e.run = c /\ e.bus = "shift" /\ (~e.fails => e.q = <<g>> \o t)
      BY <2>4, <2>6, <2>7, <2>12, <3>1, PutInFront
    <3>3. Queue(<<g>>) /\ Len(<<g>>) = 1 /\ <<g>>[1] = g
      BY <2>7, <2>12, OneCommand
    <3>4. \A i \in 1 .. Len(<<g>>) : ForData(<<g>>[i])
      BY <2>7, <2>12, <3>3 DEF ForData
    <3>5. Plain(<<g>>, s)
      BY <3>3, <3>4, PlainQueue
    <3>6. Follows(t, <<g>> \o t, s)
      BY <2>1, <3>3, <3>5, PlainPut
    <3>7. Follows(<<c>> \o t, <<c>> \o (<<g>> \o t), s)
      BY <2>1, <2>8, <3>3, <3>6, Joined, FollowsJoined
    <3>8. ~e.fails => Line(e) = <<c>> \o (<<g>> \o t)
      BY <3>2 DEF Line
    <3>9. QED
      BY <1>2, <2>1, <3>2, <3>7, <3>8 DEF Repeatable
  <2>13. QED
    BY <1>1, <2>9, <2>10, <2>11, <2>12
<1>5. QED
  BY <1>3, <1>4

\* queuePushBack, kickStartCommands included: the list goes behind what waits.
LEMMA PushBacksServe ==
    ASSUME NEW d, Driver(d), Busy(d), NEW l, Queue(l), l # <<>>, NEW s,
           NEW e, e = PushBacks(d, l)
    PROVE  /\ Driver(e) /\ Busy(e) /\ e.sk = d.sk
           /\ ~Idle(d) => e.run = d.run /\ e.bus = d.bus
           /\ Idle(d) => e.bus # "done"
           /\ ~e.fails => /\ ~d.fails /\ Follows(Line(d) \o l, Line(e), s)
                          /\ Repeatable(d, s) => Repeatable(e, s)
<1>1. DOMAIN d = DriverFields /\ Queue(d.q) /\ Shadows(d.sk)
      /\ d.fails \in BOOLEAN /\ d.err \in Nat /\ d.hal \in BOOLEAN
  BY DEF Driver, DriverFields
<1>2. Driver(e) /\ Busy(e)
  <2>1. PICK done \in BOOLEAN : done = FALSE
    OBVIOUS
  <2>2. QED
    BY <2>1, PushedBack
<1>3. CASE d.q = <<>> /\ Idle(d)
  <2> DEFINE h == Head(l)
             t == Tail(l)
             f == [d EXCEPT !.q = <<h>>]
             g == Start(f)
  <2>1. WellFormed(h) /\ Queue(t) /\ l = <<h>> \o t
    BY HeadHolds
  <2>2. e = AppendAll(g, t)
    BY <1>3 DEF PushBacks
  <2> HIDE DEF h, t
  <2>3. Queue(<<h>>)
    BY <2>1, OneCommand
  <2>4. /\ DOMAIN f = DriverFields /\ f.q = <<h>> /\ f.sk = d.sk
        /\ f.err = d.err /\ f.hal = d.hal /\ f.fails = d.fails
    BY <1>1 DEF DriverFields
  <2> HIDE DEF f
  <2>5. Driver(f)
    BY <1>1, <2>3, <2>4 DEF Driver, DriverFields
  <2>6. /\ Driver(g) /\ Busy(g) /\ g.sk = d.sk /\ g.bus # "done"
        /\ ~g.fails => ~d.fails /\ Follows(<<h>>, Line(g), s) /\ Repeatable(g, s)
    BY <2>4, <2>5, StartServes
  <2> HIDE DEF g
  <2>7. /\ e.run = g.run /\ e.bus = g.bus /\ e.sk = g.sk
        /\ ~e.fails => ~g.fails /\ e.q = g.q \o t
    <3>1. Driver(g) /\ Queue(t)
      BY <2>1, <2>6
    <3>2. QED
      BY <2>2, <3>1, Appended
  <2>8. Queue(Line(g))
    BY <2>6, LineIs
  <2>9. ~e.fails => Line(e) = Line(g) \o t /\ Repeatable(e, s)
    BY <2>1, <2>6, <2>7, LongerQueue
  <2>10. d.bus = "none"
    BY <1>3 DEF Busy
  <2>11. Line(d) = <<>>
    BY <1>3, <2>10, LineIs
  <2>12. Line(d) \o l = l
    BY <2>11, JoinedWithNothing
  <2>13. ~e.fails => Follows(<<h>> \o t, Line(g) \o t, s)
    BY <2>1, <2>3, <2>6, <2>7, <2>8, FollowsJoined
  <2>14. QED
    BY <1>2, <1>3, <2>1, <2>6, <2>7, <2>9, <2>12, <2>13
<1>4. CASE ~(d.q = <<>> /\ Idle(d))
  <2>1. e = AppendAll(d, l)
    BY <1>4 DEF PushBacks
  <2>2. /\ e.run = d.run /\ e.bus = d.bus /\ e.sk = d.sk
        /\ ~e.fails => ~d.fails /\ e.q = d.q \o l
    BY <2>1, Appended
  <2>3. ~e.fails => Line(e) = Line(d) \o l /\ (Repeatable(d, s) => Repeatable(e, s))
    BY <2>2, LongerQueue
  <2>4. QED
    BY <1>2, <2>2, <2>3, FollowsOn DEF Busy
<1>5. QED
  BY <1>3, <1>4

\* Commands for data change nothing behind what waits.
LEMMA DataServes ==
    ASSUME NEW d, Driver(d), Busy(d), NEW l, Queue(l), l # <<>>, AllForData(l), NEW s,
           NEW e, e = PushBacks(d, l)
    PROVE  Serves(d, e, s)
<1>1. /\ Driver(e) /\ Busy(e) /\ e.sk = d.sk
      /\ ~Idle(d) => e.run = d.run /\ e.bus = d.bus
      /\ Idle(d) => e.bus # "done"
      /\ ~e.fails => /\ ~d.fails /\ Follows(Line(d) \o l, Line(e), s)
                     /\ Repeatable(d, s) => Repeatable(e, s)
  BY PushBacksServe
<1>2. Plain(l, s)
  BY PlainQueue DEF AllForData
<1>3. Queue(Line(d))
  BY LineIs
<1>4. Follows(Line(d), Line(d) \o l, s)
  BY <1>2, <1>3, PlainPut
<1>5. QED
  BY <1>1, <1>4, FollowsOn DEF Serves

\* A READ_SIR in front changes nothing behind it.
LEMMA SirServes ==
    ASSUME NEW d, Driver(d), Busy(d), NEW s, NEW e, e = PushFront(d, ReadSir)
    PROVE  Serves(d, e, s)
<1> DEFINE c == ReadSir
           l == <<c>>
<1>1. WellFormed(c) /\ c.cmd_type = "READ_SIR"
  BY DEF WellFormed, ReadSir, Cmd, Types, Fields
<1> HIDE DEF c
<1>2. Queue(l) /\ Len(l) = 1 /\ l[1] = c
  BY <1>1, OneCommand
<1> HIDE DEF l
<1>3. l # <<>>
  BY <1>2, EmptySeq
<1>4. AllForData(l)
  BY <1>1, <1>2 DEF AllForData, ForData
<1>5. Plain(l, s)
  BY <1>2, <1>4, PlainQueue DEF AllForData
<1>6. DOMAIN d = DriverFields
  BY DEF Driver, DriverFields
<1>7. CASE d.q = <<>> /\ Idle(d)
  <2> DEFINE f == [d EXCEPT !.q = l]
  <2>1. e = Start(f)
    BY <1>7 DEF PushFront, c, l
  <2>2. /\ DOMAIN f = DriverFields /\ f.q = l /\ f.run = d.run /\ f.bus = d.bus /\ f.sk = d.sk
        /\ f.err = d.err /\ f.hal = d.hal /\ f.fails = d.fails
    BY <1>6 DEF DriverFields
  <2> HIDE DEF f
  <2>3. Driver(f)
    BY <1>2, <2>2 DEF Driver, DriverFields
  <2>4. /\ Driver(e) /\ Busy(e) /\ e.sk = d.sk /\ e.bus # "done"
        /\ ~e.fails => ~d.fails /\ Follows(l, Line(e), s) /\ Repeatable(e, s)
    BY <2>1, <2>2, <2>3, StartServes
  <2>5. d.bus = "none"
    BY <1>7 DEF Busy
  <2>6. Line(d) = <<>>
    BY <1>7, <2>5, LineIs
  <2>7. Follows(<<>>, l \o <<>>, s)
    BY <1>2, <1>5, NoCommands, PlainPut
  <2>8. Follows(Line(d), l, s)
    BY <1>2, <2>6, <2>7, JoinedWithNothing
  <2>9. QED
    BY <1>7, <2>4, <2>8, FollowsOn DEF Serves
<1>8. CASE ~(d.q = <<>> /\ Idle(d))
  <2>1. e = InFront(d, c)
    BY <1>8 DEF PushFront, c
  <2>2. /\ Driver(e) /\ e.run = d.run /\ e.bus = d.bus /\ e.sk = d.sk /\ e.err = d.err
        /\ ~e.fails => ~d.fails /\ e.q = l \o d.q
    BY <1>1, <2>1, PutInFront DEF l
  <2>3. Busy(e)
    BY <1>8, <2>2 DEF Busy, Idle
  <2>4. QED
    BY <1>2, <1>5, <2>2, <2>3, PlainInFront
<1>9. QED
  BY <1>7, <1>8

\* sendPendingData and receivePendingData concern no socket's life.
LEMMA PendingServes ==
    ASSUME NEW d, Driver(d), Busy(d), NEW t \in Sock, NEW s \in Sock
    PROVE  Serves(d, SendPending(d, t), s) /\ Serves(d, ReceivePending(d, t), s)
<1>1. ASSUME NEW f, SameOrders(d, f), NEW l, Queue(l), l # <<>>, AllForData(l),
             NEW e, e = PushBacks(f, l)
      PROVE  Serves(d, e, s)
  <2>1. Serves(d, f, s)
    BY <1>1, SameOrdersServe
  <2>2. Driver(f) /\ Busy(f)
    BY <2>1 DEF Serves
  <2>3. Serves(f, e, s)
    BY <1>1, <2>2, DataServes
  <2>4. QED
    BY <2>1, <2>3, ServesOn
<1>2. Serves(d, d, s)
  BY ServesOn
<1>3. Serves(d, SendPending(d, t), s)
  <2> DEFINE e == SendPending(d, t)
  <2>1. \/ e = d
        \/ \E f, l : /\ e = PushBacks(f, l) /\ SameOrders(d, f)
                     /\ \A u \in Sock : f.sk[u].is_receiving = d.sk[u].is_receiving
                     /\ Queue(l) /\ l # <<>> /\ AllForData(l) /\ \A u : Never(l, u)
    BY SendPendingIs
  <2> HIDE DEF e
  <2>2. Serves(d, e, s)
    BY <1>1, <1>2, <2>1
  <2>3. QED
    BY <2>2 DEF e
<1>4. Serves(d, ReceivePending(d, t), s)
  <2> DEFINE e == ReceivePending(d, t)
  <2>1. e = d \/ \E f, l : e = PushBacks(f, l) /\ Receives(d, t, f, l)
    BY ReceivePendingIs
  <2> HIDE DEF e
  <2>2. Serves(d, e, s)
    BY <1>1, <1>2, <2>1 DEF Receives
  <2>3. QED
    BY <2>2 DEF e
<1>5. QED
  BY <1>3, <1>4

\* SENDOK and TIMEOUT concern no socket's life on the host.
LEMMA FlagServes ==
    ASSUME NEW d, Driver(d), Busy(d), NEW t \in Sock, NEW s \in Sock
    PROVE  Serves(d, OnTimeout(d, t), s) /\ Serves(d, OnSendOk(d, t), s)
<1> DEFINE e == [d EXCEPT !.sk[t].is_sending = FALSE,
                          !.sk[t].tx_buf_queue = Popped(d.sk[t].tx_buf_queue)]
           f == [d EXCEPT !.sk[t].is_sending = FALSE, !.sk[t].tx_buf_queue = <<>>]
<1>1. DOMAIN d = DriverFields /\ Shadows(d.sk)
  BY DEF Driver, DriverFields
<1>2. [d EXCEPT !.sk[t].is_sending = FALSE, !.sk[t].tx_buf_queue = Popped(@)] = e
  BY <1>1 DEF DriverFields, Shadows
<1>3. SameOrders(d, e) /\ SameOrders(d, f)
  BY <1>1 DEF DriverFields, Shadows, SameOrders
<1>4. /\ OnSendOk(d, t) = SendPending(e, t)
      /\ OnTimeout(d, t) = f \/ OnTimeout(d, t) = SendPending(e, t)
  BY <1>2 DEF OnSendOk, OnTimeout
<1> HIDE DEF e, f
<1>5. Serves(d, e, s) /\ Serves(d, f, s)
  BY <1>3, SameOrdersServe
<1>6. Driver(e) /\ Busy(e)
  BY <1>5 DEF Serves
<1>7. Serves(e, SendPending(e, t), s)
  BY <1>6, PendingServes
<1>8. QED
  BY <1>4, <1>5, <1>7, ServesOn

\* A READ_SOC is handled.
LEMMA ReadSocServes ==
    ASSUME NEW d, Driver(d), Busy(d), ~Idle(d), d.run.sn \in Sock, NEW s \in Sock
    PROVE  Serves(d, OnReadSoc(d), s)
<1> DEFINE t  == d.run.sn
           IR == d.sk[t].IR
           d1 == IF "RECV" \in IR THEN ReceivePending(d, t) ELSE d
           d2 == IF "TIMEOUT" \in IR THEN OnTimeout(d1, t) ELSE d1
           d3 == IF "SENDOK" \in IR THEN OnSendOk(d2, t) ELSE d2
           c  == SetReg(t, [IR |-> IR])
           e  == OnReadSoc(d)
<1>1. e = InFront(d3, c)
  BY DEF OnReadSoc
<1> HIDE DEF e
<1>2. \A x, y : Serves(x, y, s) => Driver(y) /\ Busy(y)
  BY DEF Serves
<1>3. Serves(d, d1, s)
  <2> HIDE DEF IR
  <2>1. Serves(d, ReceivePending(d, t), s) /\ Serves(d, d, s)
    BY PendingServes, ServesOn
  <2>2. QED
    BY <2>1
<1> HIDE DEF d1
<1>4. Serves(d1, d2, s)
  <2> HIDE DEF IR
  <2>1. Serves(d1, OnTimeout(d1, t), s) /\ Serves(d1, d1, s)
    BY <1>2, <1>3, FlagServes, ServesOn
  <2>2. QED
    BY <2>1
<1> HIDE DEF d2
<1>5. Serves(d2, d3, s)
  <2> HIDE DEF IR
  <2>1. Serves(d2, OnSendOk(d2, t), s) /\ Serves(d2, d2, s)
    BY <1>2, <1>4, FlagServes, ServesOn
  <2>2. QED
    BY <2>1
<1> HIDE DEF d3
<1>6. Serves(d, d3, s) /\ Driver(d3) /\ Busy(d3)
  BY <1>2, <1>3, <1>4, <1>5, ServesOn
<1>7. WellFormed(c) /\ ForData(c)
  <2>1. DOMAIN [IR |-> IR] = {"IR"} /\ Settable(t, [IR |-> IR])
    BY DEF Settable, Writable
  <2>2. c.val = [IR |-> IR]
    BY DEF SetReg, Cmd
  <2>3. QED
    BY <2>1, <2>2, Commands DEF ForData
<1> HIDE DEF c
<1>8. /\ Driver(e) /\ e.run = d3.run /\ e.bus = d3.bus /\ e.sk = d3.sk
      /\ e.err = d3.err /\ e.hal = d3.hal
      /\ ~e.fails => ~d3.fails /\ e.q = <<c>> \o d3.q
  BY <1>1, <1>6, <1>7, PutInFront
<1>9. Queue(<<c>>) /\ \A i \in 1 .. Len(<<c>>) : ForData(<<c>>[i])
  BY <1>7, OneCommand
<1>10. Plain(<<c>>, s)
  BY <1>9, PlainQueue
<1>11. Busy(e)
  <2>1. PICK done \in BOOLEAN : done = FALSE
    OBVIOUS
  <2>2. Continues(d, e, done, chip, {})
    BY ReadSocContinues DEF e
  <2>3. QED
    BY <2>2 DEF Continues
<1>12. Serves(d3, e, s)
  BY <1>6, <1>8, <1>9, <1>10, <1>11, PlainInFront
<1>13. QED
  BY <1>6, <1>12, ServesOn DEF e

\* A READ_SIR is handled.
LEMMA ReadSirServes ==
    ASSUME NEW d, Driver(d), Busy(d), ~Idle(d), d.run.val.SIR \subseteq Sock, NEW s \in Sock
    PROVE  Serves(d, OnReadSir(d), s)
<1> DEFINE e == OnReadSir(d)
<1>1. PICK p : /\ Queue(p) /\ \A i \in 1 .. Len(p) : p[i].cmd_type = "READ_SOC"
               /\ e.q = p \o d.q /\ e.run = d.run /\ e.bus = d.bus
               /\ ~e.fails => ~d.fails
               /\ \A t \in Sock : e.sk[t].SR = d.sk[t].SR
  BY ReadSirIs
<1>2. Driver(e) /\ Busy(e)
  <2>1. PICK done \in BOOLEAN : done = FALSE
    OBVIOUS
  <2>2. Continues(d, e, done, chip, {})
    BY ReadSirContinues
  <2>3. QED
    BY <2>2 DEF Continues
<1> HIDE DEF e
<1>3. Plain(p, s)
  BY <1>1, PlainQueue DEF ForData
<1>4. Serves(d, e, s)
  BY <1>1, <1>2, <1>3, PlainInFront
<1>5. QED
  BY <1>4 DEF e

\* What the driver takes for the status of socket s when its command has been handled.
StatusRead(d, s) ==
    IF d.run.cmd_type = "READ_REG" /\ d.run.sn = s /\ "SR" \in DOMAIN d.run.val
    THEN d.run.val.SR ELSE d.sk[s].SR

\* Every handler leaves the lifecycle commands as they are, and only a READ_REG
\* changes the driver's idea of a status.
LEMMA HandledServes ==
    ASSUME NEW d, Driver(d), Busy(d), d.bus = "done",
           d.run.cmd_type = "READ_SIR" => d.run.val.SIR \subseteq Sock,
           NEW s \in Sock, NEW e, e = Handled(d)
    PROVE  /\ e.sk[s].SR = StatusRead(d, s) /\ e.bus # "shift"
           /\ ~e.fails => ~d.fails /\ Follows(Line(d), Line(e), s)
<1>1. WellFormed(d.run) /\ ~Idle(d)
  BY DEF Busy, Idle
<1>2. d.run.cmd_type \in Types
  BY <1>1 DEF WellFormed
<1>3. ASSUME d.run.cmd_type # "READ_REG", Serves(d, e, s)
      PROVE  /\ e.sk[s].SR = StatusRead(d, s) /\ e.bus # "shift"
             /\ ~e.fails => ~d.fails /\ Follows(Line(d), Line(e), s)
  BY <1>1, <1>3 DEF Serves, StatusRead
<1>4. CASE d.run.cmd_type = "READ_REG"
  <2>1. e = OnReadReg(d)
    BY <1>4 DEF Handled
  <2>2. /\ e.q = d.q /\ e.run = d.run /\ e.bus = d.bus /\ e.fails = d.fails
        /\ \A t \in Sock : e.sk[t].SR = IF d.run.sn = t /\ "SR" \in DOMAIN d.run.val
                                       THEN d.run.val.SR ELSE d.sk[t].SR
    BY <1>4, <2>1, ReadRegHandled
  <2>3. Line(e) = Line(d)
    BY <2>2 DEF Line
  <2>4. QED
    BY <1>4, <2>2, <2>3, FollowsOn DEF StatusRead
<1>5. CASE d.run.cmd_type = "READ_BUF"
  <2>1. e = OnReadBuf(d)
    BY <1>5 DEF Handled
  <2>2. /\ Continues(d, e, FALSE, chip, {}) /\ e.q = d.q
        /\ \A t \in Sock : e.sk[t].SR = d.sk[t].SR
    BY <1>5, <2>1, ReadBufHandled
  <2>3. e.bus = d.bus /\ e.run = d.run /\ (~e.fails => ~d.fails)
    BY <1>1, <2>2 DEF Continues
  <2>4. Line(e) = Line(d)
    BY <2>2, <2>3 DEF Line
  <2>5. QED
    BY <1>5, <2>2, <2>3, <2>4, FollowsOn DEF StatusRead
<1>6. CASE d.run.cmd_type = "READ_SIR"
  <2>1. e = OnReadSir(d)
    BY <1>6 DEF Handled
  <2>2. Serves(d, e, s)
    BY <1>1, <1>6, <2>1, ReadSirServes
  <2>3. QED
    BY <1>3, <1>6, <2>2
<1>7. CASE d.run.cmd_type = "READ_SOC"
  <2>1. e = OnReadSoc(d)
    BY <1>7 DEF Handled
  <2>2. d.run.sn \in Sock
    BY <1>1, <1>7 DEF WellFormed
  <2>3. Serves(d, e, s)
    BY <1>1, <2>1, <2>2, ReadSocServes
  <2>4. QED
    BY <1>3, <1>7, <2>3
<1>8. CASE d.run.cmd_type \in {"CHECK_RCV", "CHECK_TX_FSR"}
  <2> DEFINE t == d.run.sn
             f == Stored(d)
  <2>1. t \in Sock
    BY <1>1, <1>8 DEF WellFormed
  <2>2. d.run.cmd_type = "CHECK_RCV" => e = ReceivePending(f, t)
    BY DEF Handled, OnCheckRcv, Stored
  <2>3. d.run.cmd_type = "CHECK_TX_FSR" => e = SendPending(f, t)
    BY DEF Handled, OnCheckTxFsr, Stored
  <2>4. e = ReceivePending(f, t) \/ e = SendPending(f, t)
    BY <1>8, <2>2, <2>3
  <2>5. /\ Driver(f) /\ Busy(f) /\ f.run = d.run /\ f.bus = d.bus /\ f.fails = d.fails
        /\ f.q = d.q /\ \A u \in Sock : f.sk[u].SR = d.sk[u].SR
    BY <1>8, CheckStored
  <2> HIDE DEF f, t
  <2>6. Serves(f, e, s)
    BY <2>1, <2>4, <2>5, PendingServes
  <2>7. Line(f) = Line(d)
    BY <2>5 DEF Line
  <2>8. QED
    BY <1>1, <1>8, <2>5, <2>6, <2>7 DEF Serves, StatusRead, Idle
<1>9. CASE d.run.cmd_type \in {"WRITE_REG", "WRITE_BUF"}
  <2>1. e = d
    BY <1>9 DEF Handled
  <2>2. Serves(d, e, s)
    BY <2>1, ServesOn
  <2>3. QED
    BY <1>3, <1>9, <2>1, <2>2
<1>10. QED
  BY <1>2, <1>4, <1>5, <1>6, <1>7, <1>8, <1>9 DEF Types

\* The interrupt of a completed transfer, as a whole.
LEMMA CompletionServes ==
    ASSUME NEW d, Driver(d), Busy(d), d.bus = "done",
           d.run.cmd_type = "READ_SIR" => d.run.val.SIR \subseteq Sock,
           NEW s \in Sock, NEW e, e = Start(Handled(d))
    PROVE  /\ e.sk[s].SR = StatusRead(d, s) /\ e.bus # "done"
           /\ ~e.fails => ~d.fails /\ Follows(Line(d), Line(e), s) /\ Repeatable(e, s)
<1> DEFINE f == Handled(d)
<1>1. /\ f.sk[s].SR = StatusRead(d, s) /\ f.bus # "shift"
      /\ ~f.fails => ~d.fails /\ Follows(Line(d), Line(f), s)
  BY HandledServes
<1>2. Driver(f) /\ Busy(f)
  BY HandledKeeps
<1>3. e = Start(f)
  OBVIOUS
<1> HIDE DEF f
<1>4. /\ e.sk = f.sk /\ e.bus # "done"
      /\ ~e.fails => ~f.fails /\ Follows(f.q, Line(e), s) /\ Repeatable(e, s)
  BY <1>2, <1>3, StartServes
<1>5. Line(f) = f.q
  BY <1>1, <1>2, LineIs
<1>6. QED
  BY <1>1, <1>4, <1>5, FollowsOn

\* The interrupt of a failed transfer: the command is not lost, and repeated only
\* where that changes nothing.
LEMMA FailureServes ==
    ASSUME NEW d, Driver(d), Busy(d), SureWrites, NEW s \in Sock,
           d.bus \in {"shift", "poll"} \/ (d.bus = "done" /\ d.run.cmd_type \in LateErrors),
           NEW e, e = Failed(d)
    PROVE  /\ e.sk = d.sk /\ e.bus = "none"
           /\ ~e.fails => /\ ~d.fails
                          /\ Repeatable(d, s) => Follows(Line(d), Line(e), s)
<1>1. WellFormed(d.run) /\ Queue(d.q) /\ Queue(<<d.run>>)
  BY OneCommand DEF Busy, Driver
<1>2. /\ Driver(e) /\ e.bus = "none" /\ e.sk = d.sk
      /\ ~e.fails => ~d.fails /\ e.q = <<d.run>> \o d.q
  BY <1>1, FailedKeeps
<1>3. Queue(e.q)
  BY <1>2 DEF Driver
<1>4. Line(e) = e.q
  BY <1>2, <1>3, JoinedWithNothing DEF Line
<1>5. d.bus # "shift" => Line(d) = d.q
  BY LineIs
<1>6. CASE d.bus = "shift"
  <2>1. Line(d) = <<d.run>> \o d.q
    BY <1>6 DEF Line
  <2>2. ~e.fails => Line(e) = Line(d)
    BY <1>2, <1>4, <2>1
  <2>3. QED
    BY <1>2, <2>2, FollowsOn
<1>7. CASE d.bus = "poll"
  <2>1. Repeatable(d, s) => Follows(d.q, <<d.run>> \o d.q, s)
    BY <1>7 DEF Repeatable
  <2>2. ~e.fails /\ Repeatable(d, s) => Follows(Line(d), Line(e), s)
    BY <1>2, <1>4, <1>5, <1>7, <2>1
  <2>3. QED
    BY <1>2, <2>2
<1>8. CASE d.bus = "done" /\ d.run.cmd_type \in LateErrors
  <2>1. ForData(d.run)
    BY <1>8 DEF SureWrites, ForData
  <2>2. \A i \in 1 .. Len(<<d.run>>) : ForData(<<d.run>>[i])
    BY <1>1, <2>1, OneCommand
  <2>3. Plain(<<d.run>>, s)
    BY <1>1, <2>2, PlainQueue
  <2>4. Follows(d.q, <<d.run>> \o d.q, s)
    BY <1>1, <2>3, PlainPut
  <2>5. ~e.fails => Follows(Line(d), Line(e), s)
    BY <1>2, <1>4, <1>5, <1>8, <2>4
  <2>6. QED
    BY <1>2, <2>5
<1>9. QED
  BY <1>6, <1>7, <1>8

\* The timer interrupt.
LEMMA TimerServes ==
    ASSUME NEW d, Driver(d), Busy(d), NEW l, Queue(l), l # <<>>, AllForData(l),
           NEW s \in Sock, NEW e, e = PushBacks(Restarted(d), l)
    PROVE  Serves(d, e, s)
<1> DEFINE f == Restarted(d)
<1>1. e = PushBacks(f, l)
  OBVIOUS
<1>2. Serves(d, f, s)
  <2>1. CASE Idle(d) /\ d.q # <<>>
    <3>1. f = Start(d)
      BY <2>1 DEF Restarted
    <3> HIDE DEF f
    <3>2. /\ Driver(f) /\ Busy(f) /\ f.sk = d.sk /\ f.bus # "done"
          /\ ~f.fails => ~d.fails /\ Follows(d.q, Line(f), s) /\ Repeatable(f, s)
      BY <3>1, StartServes
    <3>3. Line(d) = d.q
      BY <2>1, LineIs DEF Busy
    <3>4. QED
      BY <2>1, <3>2, <3>3 DEF Serves
  <2>2. CASE ~(Idle(d) /\ d.q # <<>>)
    <3>1. f = d
      BY <2>2 DEF Restarted
    <3>2. QED
      BY <3>1, ServesOn
  <2>3. QED
    BY <2>1, <2>2
<1> HIDE DEF f
<1>3. Driver(f) /\ Busy(f)
  BY <1>2 DEF Serves
<1>4. Serves(f, e, s)
  BY <1>1, <1>3, DataServes
<1>5. QED
  BY <1>2, <1>4, ServesOn

-------------------------------------------------------------------------------
(***************************************************************************)
(* Where the last call leaves the chip.                                    *)
(***************************************************************************)
\* Closed for good, as far as what waits goes.
Dead(W, c, s) == c.SR = "CLOSED" /\ ~Opening(W, s)

\* Some of p is given up, from the end.
Less(p, q, s) ==
    /\ \A cr : Issues(q, s, cr) => Issues(p, s, cr)
    /\ OpensFirst(p, s) => OpensFirst(q, s)
    /\ Opening(q, s) /\ ModeFirst(p, s) => ModeFirst(q, s)

\* What the commands W that the chip has not carried out for socket s, its
\* registers c, the status sh that the driver knows and the one in T that it is
\* about to learn have to do with each other, and with the last call k:
\*   - no OPEN waits behind a command that moves the socket on;
\*   - when one waits, the socket is not in use and nobody takes it for in use;
\*   - the driver takes a socket for closed when it is, or when a call of socket
\*     is under way and no connection has been asked for;
\*   - a TCP socket is opened as one;
\*   - a socket that has only been opened has sent nothing;
\*   - what the call that is under way, or has succeeded, asked for is on its way
\*     or has happened.
Sound(s, W, c, sh, T, k) ==
    /\ OpensFirst(W, s)
    /\ Opening(W, s) => /\ {c.SR, sh} \subseteq Early /\ T \subseteq Early
                        /\ c.SR = "CLOSED" => sh = "CLOSED" /\ T \subseteq {"CLOSED"}
    /\ sh = "CLOSED" => Dead(W, c, s) \/ (c.SR \in Early /\ ~Issues(W, s, "CONNECT"))
    /\ "CLOSED" \in T /\ sh # "CLOSED" => Dead(W, c, s)
    /\ s \in Tcp => c.SR # "UDP" /\ (Opening(W, s) => c.MR = "TCP" \/ ModeFirst(W, s))
    /\ c.SR = "INIT" => Unused(c)
    /\ k.ret \in {"running", "OK"} =>
         /\ k.op = "close" => Issues(W, s, "CLOSE") \/ Dead(W, c, s)
         /\ k.op = "socket" => /\ ~Moving(W, s)
                               /\ Opening(W, s) \/ c.SR \in {"INIT", "UDP"}
         /\ k.op = "disconnect" =>
              /\ ~Opening(W, s)
              /\ sh = "CLOSED" \/ "CLOSED" \in T \/ k.ret = "OK" => c.SR = "CLOSED"

\* The call goes on, ends without success, or ends as it should.
GoesOn(k, n, c) ==
    /\ n.op = k.op
    /\ \/ n.ret = k.ret
       \/ n.ret \notin {"running", "OK"}
       \/ k.ret = "running" /\ n.ret = "OK" /\ (k.op = "disconnect" => c.SR = "CLOSED")

\* Queues that follow one another serve as well, and so do registers that differ
\* only in what has been counted.
LEMMA SoundOn ==
    ASSUME NEW s, NEW W, NEW V, Alike(W, V, s), NEW c, NEW n, n.SR = c.SR,
           c.SR = "INIT" /\ Unused(c) => Unused(n),
           s \in Tcp /\ Opening(W, s) /\ (c.MR = "TCP" \/ ModeFirst(W, s)) =>
               n.MR = "TCP" \/ ModeFirst(V, s),
           NEW sh, NEW T, NEW U, U \subseteq T, NEW k, NEW l, GoesOn(k, l, c),
           Sound(s, W, c, sh, T, k)
    PROVE  Sound(s, V, n, sh, U, l)
<1>1. /\ Opening(V, s) <=> Opening(W, s)
      /\ Moving(V, s) <=> Moving(W, s)
      /\ Issues(V, s, "CONNECT") <=> Issues(W, s, "CONNECT")
      /\ Issues(V, s, "CLOSE") <=> Issues(W, s, "CLOSE")
      /\ OpensFirst(W, s) => OpensFirst(V, s)
  BY AlikeFacts DEF Moves
<1>2. Dead(V, n, s) <=> Dead(W, c, s)
  BY <1>1 DEF Dead
<1>3. l.ret \in {"running", "OK"} =>
         /\ l.op = "close" => Issues(V, s, "CLOSE") \/ Dead(V, n, s)
         /\ l.op = "socket" => ~Moving(V, s) /\ (Opening(V, s) \/ n.SR \in {"INIT", "UDP"})
         /\ l.op = "disconnect" =>
              /\ ~Opening(V, s)
              /\ sh = "CLOSED" \/ "CLOSED" \in U \/ l.ret = "OK" => n.SR = "CLOSED"
  BY <1>1, <1>2 DEF Sound, GoesOn
<1>4. /\ OpensFirst(V, s)
      /\ Opening(V, s) => /\ {n.SR, sh} \subseteq Early /\ U \subseteq Early
                          /\ n.SR = "CLOSED" => sh = "CLOSED" /\ U \subseteq {"CLOSED"}
      /\ sh = "CLOSED" => Dead(V, n, s) \/ (n.SR \in Early /\ ~Issues(V, s, "CONNECT"))
      /\ "CLOSED" \in U /\ sh # "CLOSED" => Dead(V, n, s)
  BY <1>1, <1>2 DEF Sound
<1>5. /\ s \in Tcp => n.SR # "UDP" /\ (Opening(V, s) => n.MR = "TCP" \/ ModeFirst(V, s))
      /\ n.SR = "INIT" => Unused(n)
  BY <1>1 DEF Sound
<1>6. QED
  BY <1>3, <1>4, <1>5 DEF Sound

\* The driver learns the status it has read.
LEMMA SoundRead ==
    ASSUME NEW s, NEW W, NEW c, NEW sh, NEW x, NEW k, Sound(s, W, c, sh, {x}, k)
    PROVE  Sound(s, W, c, x, {}, k)
  BY DEF Sound, Dead

\* The status is read, into the command or into the driver's copy.
LEMMA SoundSample ==
    ASSUME NEW s, NEW W, NEW c, NEW sh, NEW k, Sound(s, W, c, sh, {}, k)
    PROVE  Sound(s, W, c, sh, {c.SR}, k) /\ Sound(s, W, c, c.SR, {}, k)
<1>1. Sound(s, W, c, sh, {c.SR}, k)
  BY DEF Sound, Dead
<1>2. QED
  BY <1>1, SoundRead

\* A call that fails gives up the commands it has not queued.
LEMMA SoundLess ==
    ASSUME NEW s, NEW W, NEW V, Less(W, V, s), NEW c, NEW sh, NEW T, NEW k,
           NEW l, l.ret \notin {"running", "OK"}, Sound(s, W, c, sh, T, k)
    PROVE  Sound(s, V, c, sh, T, l)
<1>1. /\ Opening(V, s) => Opening(W, s)
      /\ Issues(V, s, "CONNECT") => Issues(W, s, "CONNECT")
      /\ OpensFirst(W, s) => OpensFirst(V, s)
      /\ Opening(V, s) /\ ModeFirst(W, s) => ModeFirst(V, s)
  BY DEF Opening, Less
<1>2. Dead(W, c, s) => Dead(V, c, s)
  BY <1>1 DEF Dead
<1>3. QED
  BY <1>1, <1>2 DEF Sound

\* A call adds commands behind those that wait.
LEMMA SoundLonger ==
    ASSUME NEW s, NEW W, Queue(W), NEW p, Queue(p), ~Opening(p, s), OpensFirst(p, s),
           NEW c, NEW sh, NEW T, NEW k, Sound(s, W, c, sh, T, k),
           Issues(p, s, "CONNECT") => sh # "CLOSED",
           NEW l, \/ l.op = "connect"
                  \/ l.op = "close" /\ Issues(p, s, "CLOSE")
                  \/ l.op = "disconnect" /\ l.ret = "running" /\ sh \notin Early
    PROVE  Sound(s, W \o p, c, sh, T, l)
<1> DEFINE V == W \o p
<1>1. /\ \A cr : Issues(V, s, cr) <=> Issues(W, s, cr) \/ Issues(p, s, cr)
      /\ OpensFirst(V, s) <=> /\ OpensFirst(W, s) /\ OpensFirst(p, s)
                              /\ ~(Moving(W, s) /\ Opening(p, s))
      /\ ModeFirst(V, s) <=> ModeFirst(W, s) \/ (~Opening(W, s) /\ ModeFirst(p, s))
  BY JoinedOrders
<1> HIDE DEF V
<1>2. /\ Opening(V, s) <=> Opening(W, s)
      /\ Issues(V, s, "CONNECT") <=> Issues(W, s, "CONNECT") \/ Issues(p, s, "CONNECT")
      /\ Issues(p, s, "CLOSE") => Issues(V, s, "CLOSE")
  BY <1>1 DEF Opening
<1>3. Dead(V, c, s) <=> Dead(W, c, s)
  BY <1>2 DEF Dead
<1>4. "CLOSED" \in Early
  BY DEF Early
<1>5. Sound(s, V, c, sh, T, l)
  BY <1>1, <1>2, <1>3, <1>4 DEF Sound, Dead
<1>6. QED
  BY <1>5 DEF V

\* socket begins when nothing waits and the driver takes the socket for closed.
LEMMA SoundSocket ==
    ASSUME NEW s, NEW c, NEW sh, sh = "CLOSED", NEW k, Sound(s, <<>>, c, sh, {}, k),
           NEW V, OpensFirst(V, s), Opening(V, s), ~Moving(V, s), ModeFirst(V, s),
           NEW l, l.op = "socket"
    PROVE  Sound(s, V, c, sh, {}, l)
<1>1. ~Issues(V, s, "CONNECT")
  BY DEF Moving, Moves
<1>2. c.SR \in Early /\ "CLOSED" \in Early
  BY DEF Sound, Dead, Early
<1>3. QED
  BY <1>1, <1>2 DEF Sound

\* The command that Sn_CR holds.
Held(c, s) == IF c.CR = "NONE" THEN <<>> ELSE <<Command(s, c.CR)>>

\* It is the first of those that wait.
LEMMA HeldFirst ==
    ASSUME NEW s \in Sock, NEW c, NEW X, Queue(X), NEW W, W = Held(c, s) \o X
    PROVE  /\ Queue(Held(c, s)) /\ Queue(W)
           /\ c.CR = "NONE" => W = X
           /\ c.CR # "NONE" =>
                /\ \A cr : Issues(W, s, cr) <=> c.CR = cr \/ Issues(X, s, cr)
                /\ OpensFirst(W, s) => /\ OpensFirst(X, s)
                                       /\ c.CR \in Moves => ~Opening(X, s)
                /\ ModeFirst(W, s) <=> c.CR # "OPEN" /\ ModeFirst(X, s)
<1>1. CASE c.CR = "NONE"
  <2>1. Held(c, s) = <<>>
    BY <1>1 DEF Held
  <2>2. QED
    BY <1>1, <2>1, NoCommands, JoinedWithNothing
<1>2. CASE c.CR # "NONE"
  <2> DEFINE x == Command(s, c.CR)
             a == <<x>>
  <2>1. /\ WellFormed(x) /\ Orders(x, s) /\ x.val.CR = c.CR /\ ~SetsMode(x, s)
    BY <1>2, CommandFormed
  <2>2. Held(c, s) = a
    BY <1>2 DEF Held
  <2> HIDE DEF x
  <2>3. /\ Queue(a) /\ OpensFirst(a, s)
        /\ \A cr : Issues(a, s, cr) <=> Orders(x, s) /\ x.val.CR = cr
        /\ ModeFirst(a, s) <=> SetsMode(x, s)
    BY <2>1, SingleOrder
  <2> HIDE DEF a
  <2>4. W = a \o X
    BY <2>2
  <2>5. /\ Queue(W)
        /\ \A cr : Issues(W, s, cr) <=> Issues(a, s, cr) \/ Issues(X, s, cr)
        /\ OpensFirst(W, s) <=> /\ OpensFirst(a, s) /\ OpensFirst(X, s)
                                /\ ~(Moving(a, s) /\ Opening(X, s))
        /\ ModeFirst(W, s) <=> ModeFirst(a, s) \/ (~Opening(a, s) /\ ModeFirst(X, s))
    BY <2>3, <2>4, JoinedOrders
  <2>6. c.CR \in Moves => Moving(a, s)
    BY <2>1, <2>3 DEF Moving
  <2>7. Opening(a, s) <=> c.CR = "OPEN"
    BY <2>1, <2>3 DEF Opening
  <2>8. QED
    BY <1>2, <2>1, <2>2, <2>3, <2>5, <2>6, <2>7
<1>3. QED
  BY <1>1, <1>2

\* The chip carries out the first command, or the network changes the status.
LEMMA SoundChip ==
    ASSUME NEW s \in Sock, NEW c, NEW n, ChipStep(s, c, n), n.MR = c.MR,
           NEW X, Queue(X), NEW W, W = Held(c, s) \o X, NEW V, V = Held(n, s) \o X,
           NEW sh, NEW T, NEW k, Sound(s, W, c, sh, T, k)
    PROVE  Sound(s, V, n, sh, T, k)
<1>1. GoesOn(k, k, c)
  BY DEF GoesOn
<1>2. c.CR # "NONE" =>
         /\ \A cr : Issues(W, s, cr) <=> c.CR = cr \/ Issues(X, s, cr)
         /\ OpensFirst(W, s) => /\ OpensFirst(X, s)
                                /\ c.CR \in Moves => ~Opening(X, s)
         /\ ModeFirst(W, s) <=> c.CR # "OPEN" /\ ModeFirst(X, s)
  BY HeldFirst
<1>3. n.CR = "NONE" => V = X
  BY HeldFirst
<1>4. n.CR = c.CR => V = W
  BY DEF Held
<1>5. c.CR \in Moves =>
         /\ ~Opening(X, s) /\ OpensFirst(X, s) /\ c.CR # "NONE" /\ Moving(W, s)
         /\ \A cr \in Moves : Issues(W, s, cr) <=> c.CR = cr \/ Issues(X, s, cr)
         /\ ~Opening(W, s)
  <2>1. ASSUME c.CR \in Moves  PROVE  c.CR # "NONE" /\ c.CR # "OPEN"
    BY <2>1 DEF Moves
  <2>2. ASSUME c.CR \in Moves  PROVE  Moving(W, s)
    BY <1>2, <2>1, <2>2 DEF Moving
  <2>3. ASSUME c.CR \in Moves  PROVE  ~Opening(X, s) /\ OpensFirst(X, s)
    BY <1>2, <2>1, <2>3 DEF Sound
  <2>4. ASSUME c.CR \in Moves  PROVE  ~Opening(W, s)
    BY <1>2, <2>1, <2>3, <2>4 DEF Opening
  <2>5. QED
    BY <1>2, <2>1, <2>2, <2>3, <2>4
<1>6. CASE c.CR = "OPEN" /\ n.CR = "NONE" /\ Unused(n) /\ n.SR = IF c.MR = "TCP" THEN "INIT" ELSE "UDP"
  <2>1. Opening(W, s) /\ ~ModeFirst(W, s) /\ OpensFirst(X, s)
    BY <1>2, <1>6 DEF Opening, Sound
  <2>2. /\ Issues(X, s, "CONNECT") => Issues(W, s, "CONNECT")
        /\ Issues(W, s, "CLOSE") => Issues(X, s, "CLOSE")
        /\ Moving(X, s) => Moving(W, s)
    BY <1>2, <1>6 DEF Moving
  <2>3. ~Dead(W, c, s)
    BY <2>1 DEF Dead
  <2>4. {"INIT", "UDP"} \subseteq Early
    BY DEF Early
  <2>5. Sound(s, X, n, sh, T, k)
    BY <1>6, <2>1, <2>2, <2>3, <2>4 DEF Sound
  <2>6. QED
    BY <1>3, <1>6, <2>5
<1>7. CASE /\ c.CR \in Moves /\ n.CR = "NONE" /\ (n.SR = "INIT" => Unused(n))
           /\ c.SR = "CLOSED" => n.SR = "CLOSED"
           /\ c.SR \in Early /\ c.CR # "CONNECT" => n.SR \in Early
           /\ n.SR = "UDP" => c.SR = "UDP"
           /\ c.CR = "CLOSE" => n.SR = "CLOSED"
  <2>1. /\ Issues(X, s, "CONNECT") => Issues(W, s, "CONNECT")
        /\ c.CR = "CONNECT" => Issues(W, s, "CONNECT")
        /\ Issues(W, s, "CLOSE") => c.CR = "CLOSE" \/ Issues(X, s, "CLOSE")
    BY <1>5, <1>7 DEF Moves
  <2>2. Dead(W, c, s) \/ n.SR = "CLOSED" => Dead(X, n, s)
    BY <1>5, <1>7 DEF Dead
  <2>3. ~Opening(X, s) /\ OpensFirst(X, s) /\ Moving(W, s)
    BY <1>5, <1>7
  <2>4. Sound(s, X, n, sh, T, k)
    BY <1>7, <2>1, <2>2, <2>3 DEF Sound
  <2>5. QED
    BY <1>3, <1>7, <2>4
<1>8. CASE c.CR \in {"SEND", "RECV"} /\ n.CR = "NONE" /\ n.SR = c.SR /\ (n.SR = "INIT" => (Unused(c) => Unused(n)))
  <2>1. \A cr \in LifeOrders : Issues(X, s, cr) <=> Issues(W, s, cr)
    BY <1>2, <1>8 DEF LifeOrders, Moves
  <2>2. Alike(W, X, s) /\ (ModeFirst(W, s) => ModeFirst(X, s))
    BY <1>2, <1>8, <2>1 DEF Alike
  <2>3. Sound(s, X, n, sh, T, k)
    BY <1>1, <1>8, <2>2, SoundOn
  <2>4. QED
    BY <1>3, <1>8, <2>3
<1>9. CASE n.CR = c.CR /\ n.SR = c.SR /\ (n.SR = "INIT" => (Unused(c) => Unused(n)))
  <2>1. Alike(W, W, s)
    BY FollowsOn
  <2>2. Sound(s, W, n, sh, T, k)
    BY <1>1, <1>9, <2>1, SoundOn
  <2>3. QED
    BY <1>4, <1>9, <2>2
<1>10. CASE n.CR = c.CR /\ c.SR \notin Early /\ n.SR \notin {"INIT", "UDP"}
  <2>1. c.SR # "CLOSED" /\ c.SR # "INIT" /\ c.SR # "UDP" /\ ~Dead(W, c, s)
    BY <1>10 DEF Early, Dead
  <2>2. Sound(s, W, n, sh, T, k)
    BY <1>10, <2>1 DEF Sound
  <2>3. QED
    BY <1>4, <1>10, <2>2
<1>11. CASE n.CR = c.CR /\ s \in Tcp /\ c.SR # "CLOSED" /\ ~Unused(c) /\ n.SR = "CLOSED"
  <2>1. c.SR \notin Early
    BY <1>11 DEF Sound, Early
  <2>2. QED
    BY <1>10, <1>11, <2>1
<1>12. CASE c.CR = "CONNECT" /\ n.CR = "NONE" /\ n.SR = IF c.SR = "INIT" THEN "SYNSENT" ELSE c.SR
  <2>1. c.CR \in Moves /\ n.SR # "INIT"
    BY <1>12 DEF Moves
  <2>2. QED
    BY <1>7, <1>12, <2>1
<1>13. CASE /\ n.SR = "INIT" => c.SR = "INIT" /\ (Unused(c) => Unused(n))
            /\ c.CR = "DISCON" /\ n.CR = "NONE"
            /\ n.SR = IF c.SR \in {"ESTABLISHED", "CLOSE_WAIT"} THEN "FIN_WAIT" ELSE c.SR
  <2>1. c.CR \in Moves /\ (n.SR = "INIT" => Unused(n))
    BY <1>13 DEF Moves, Sound
  <2>2. c.SR \in Early => n.SR = c.SR
    BY <1>13 DEF Early
  <2>3. QED
    BY <1>7, <1>13, <2>1, <2>2
<1>14. CASE c.CR = "CLOSE" /\ n.CR = "NONE" /\ n.SR = "CLOSED"
  <2>1. c.CR \in Moves /\ n.SR \in Early
    BY <1>14 DEF Moves, Early
  <2>2. QED
    BY <1>7, <1>14, <2>1
<1>15. QED
  BY <1>6, <1>8, <1>9, <1>10, <1>11, <1>12, <1>13, <1>14 DEF ChipStep

\* What the chip has still to carry out for socket s: the command it holds, those on
\* their way, and those that the call k has still to queue.
Waiting(r, d, k, s) == Held(r, s) \o (Line(d) \o k.todo)

\* The status that the completed command will make known.
Seen(d, s) ==
    IF /\ d.bus = "done" /\ d.run.cmd_type = "READ_REG" /\ d.run.sn = s
       /\ "SR" \in DOMAIN d.run.val
    THEN {d.run.val.SR} ELSE {}

FineFor(s, ch, d, c) ==
    /\ Repeatable(d, s)
    /\ Sound(s, Waiting(ch[s], d, c[s], s), ch[s], d.sk[s].SR, Seen(d, s), c[s])

Fine(ch, d, c) == ~d.fails => \A s \in Sock : FineFor(s, ch, d, c)

\* A call queues commands of its own socket, all of them before it returns.
Own(c) ==
    \A s \in Sock : /\ \A i \in 1 .. Len(c[s].todo) : c[s].todo[i].sn = s
                    /\ c[s].ret # "running" => c[s].todo = <<>>

\* The inductive invariant.
LifeInv == Base({}) /\ Own(call) /\ Fine(chip, Now(TRUE), call)

\* What waits is a queue.
LEMMA WaitingIs ==
    ASSUME NEW s \in Sock, NEW r, NEW d, Driver(d), Busy(d), NEW k, Queue(k.todo)
    PROVE  /\ Queue(Held(r, s)) /\ Queue(Line(d)) /\ Queue(Line(d) \o k.todo)
           /\ Queue(Waiting(r, d, k, s))
<1>1. Queue(Line(d))
  BY LineIs
<1>2. Queue(Line(d) \o k.todo)
  BY <1>1, Joined
<1> DEFINE X == Line(d) \o k.todo
           W == Held(r, s) \o X
<1>3. Queue(X)
  BY <1>2
<1> HIDE DEF X
<1>4. Queue(Held(r, s)) /\ Queue(W)
  BY <1>3, HeldFirst
<1>5. QED
  BY <1>1, <1>2, <1>4 DEF W, X, Waiting

\* What waits follows what waited if the part of the driver does.
LEMMA WaitingOn ==
    ASSUME NEW s \in Sock, NEW r, NEW n, n.CR = r.CR, NEW d, Driver(d), Busy(d),
           NEW e, Driver(e), Busy(e), NEW k, Queue(k.todo), NEW l, Queue(l.todo),
           Follows(Line(d) \o k.todo, Line(e) \o l.todo, s)
    PROVE  Follows(Waiting(r, d, k, s), Waiting(n, e, l, s), s)
<1> DEFINE X == Line(d) \o k.todo
           Y == Line(e) \o l.todo
<1>1. Queue(X) /\ Queue(Y) /\ Queue(Held(r, s)) /\ Held(n, s) = Held(r, s)
  BY WaitingIs DEF Held
<1>2. Follows(X, Y, s)
  OBVIOUS
<1> HIDE DEF X, Y
<1>3. Follows(Held(r, s) \o X, Held(r, s) \o Y, s)
  BY <1>1, <1>2, FollowsJoined
<1>4. QED
  BY <1>1, <1>3 DEF X, Y, Waiting

\* The same call goes on as it is.
LEMMA WaitingSame ==
    ASSUME NEW s \in Sock, NEW r, NEW n, n.CR = r.CR, NEW d, Driver(d), Busy(d),
           NEW e, Driver(e), Busy(e), NEW k, Queue(k.todo), Follows(Line(d), Line(e), s)
    PROVE  Follows(Waiting(r, d, k, s), Waiting(n, e, k, s), s)
<1>1. Queue(Line(d)) /\ Queue(Line(e))
  BY LineIs
<1>2. Follows(Line(d) \o k.todo, Line(e) \o k.todo, s)
  BY <1>1, FollowsJoined
<1>3. QED
  BY <1>2, WaitingOn

\* A handler that concerns no socket's life keeps all this.
LEMMA FineServes ==
    ASSUME NEW s \in Sock, NEW ch, NEW d, Driver(d), Busy(d), NEW e, Serves(d, e, s),
           ~e.fails, NEW c, Queue(c[s].todo), FineFor(s, ch, d, c)
    PROVE  FineFor(s, ch, e, c)
<1>1. /\ Driver(e) /\ Busy(e) /\ e.sk[s].SR = d.sk[s].SR /\ Follows(Line(d), Line(e), s)
      /\ Repeatable(d, s) => Repeatable(e, s)
  BY DEF Serves
<1>2. Seen(e, s) \subseteq Seen(d, s)
  BY DEF Serves, Seen
<1> DEFINE W == Waiting(ch[s], d, c[s], s)
           V == Waiting(ch[s], e, c[s], s)
<1>3. Follows(W, V, s)
  BY <1>1, WaitingSame
<1>4. Sound(s, W, ch[s], d.sk[s].SR, Seen(d, s), c[s]) /\ Repeatable(d, s)
  BY DEF FineFor
<1> HIDE DEF W, V
<1>5. GoesOn(c[s], c[s], ch[s])
  BY DEF GoesOn
<1>6. Alike(W, V, s) /\ (ModeFirst(W, s) => ModeFirst(V, s))
  BY <1>3 DEF Follows
<1>7. Sound(s, V, ch[s], d.sk[s].SR, Seen(e, s), c[s])
  BY <1>2, <1>4, <1>5, <1>6, SoundOn
<1>8. QED
  BY <1>1, <1>4, <1>7 DEF FineFor, V

\* A handler begins with what holds, and its end is the next state.
LEMMA FineStarts ==
    ASSUME NEW ch, NEW c, NEW d, NEW e, e.q = d.q, e.run = d.run, e.bus = d.bus,
           e.sk = d.sk, e.fails = d.fails, Fine(ch, d, c)
    PROVE  Fine(ch, e, c)
<1>1. Line(e) = Line(d)
  BY DEF Line
<1>2. \A s : Repeatable(e, s) = Repeatable(d, s) /\ Seen(e, s) = Seen(d, s)
  BY DEF Repeatable, Seen
<1>3. QED
  BY <1>1, <1>2 DEF Fine, FineFor, Waiting

\* The state that a handler has led to is the next one.
LEMMA FineEnds ==
    ASSUME NEW e, Become(e), Fine(chip', e, call')
    PROVE  Fine(chip, Now(TRUE), call)'
<1> DEFINE n == [q |-> command_queue', run |-> running_cmd', bus |-> bus', sk |-> sockets',
                 fails |-> enqueueFails', err |-> failures', hal |-> TRUE]
<1>1. n.q = e.q /\ n.run = e.run /\ n.bus = e.bus /\ n.sk = e.sk /\ n.fails = e.fails
  BY DEF Become
<1>2. Now(TRUE)' = n
  BY DEF Now
<1> HIDE DEF n
<1>3. Fine(chip', n, call')
  BY <1>1, FineStarts
<1>4. QED
  BY <1>2, <1>3

\* The plans are queues.
LEMMA TodoIs ==
    ASSUME Tasks(call), NEW s \in Sock
    PROVE  Queue(call[s].todo)
  BY DEF Tasks, Plan

\* A handler that keeps what holds of every socket.
LEMMA HandlerFine ==
    ASSUME NEW sole, Inv(sole), Fine(chip, Now(TRUE), call), NEW hal \in HalOutcomes, NEW e, Become(e),
           UNCHANGED <<chip, call>>,
           ~e.fails => /\ ~Now(hal).fails
                       /\ \A s \in Sock : FineFor(s, chip, Now(hal), call) =>
                                              FineFor(s, chip, e, call)
    PROVE  Fine(chip, Now(TRUE), call)'
<1>1. /\ Now(hal).q = Now(TRUE).q /\ Now(hal).run = Now(TRUE).run
      /\ Now(hal).bus = Now(TRUE).bus /\ Now(hal).sk = Now(TRUE).sk
      /\ Now(hal).fails = Now(TRUE).fails
  BY DEF Now
<1>2. Fine(chip, Now(hal), call)
  BY <1>1, FineStarts
<1>3. Fine(chip, e, call)
  BY <1>2 DEF Fine
<1>4. QED
  BY <1>3, FineEnds

\* One that concerns no socket's life.
LEMMA ServingFine ==
    ASSUME NEW sole, Base(sole), Fine(chip, Now(TRUE), call), NEW hal \in HalOutcomes, NEW e, Become(e),
           UNCHANGED <<chip, call>>, \A s \in Sock : Serves(Now(hal), e, s)
    PROVE  Fine(chip, Now(TRUE), call)'
<1>1. Inv(sole) /\ Tasks(call)
  BY DEF Base
<1>2. Holds(Now(hal), chip, sole)
  BY <1>1, HandlerStarts
<1> DEFINE d == Now(hal)
<1>3. Driver(d) /\ Busy(d)
  BY <1>2 DEF Holds
<1> HIDE DEF d
<1>4. ASSUME ~e.fails, NEW s \in Sock
      PROVE  ~d.fails /\ (FineFor(s, chip, d, call) => FineFor(s, chip, e, call))
  <2>1. Serves(d, e, s)
    BY DEF d
  <2>2. Queue(call[s].todo)
    BY <1>1, TodoIs
  <2>3. QED
    BY <1>3, <1>4, <2>1, <2>2, FineServes DEF Serves
<1>5. 0 \in Sock
  BY DriverAssumption DEF Sock
<1>6. QED
  BY <1>1, <1>4, <1>5, HandlerFine DEF d

\* send and sendto.
LEMMA SendFine ==
    ASSUME NEW sole, Base(sole), Fine(chip, Now(TRUE), call), NEW t \in Sock, NEW len, NEW dst,
           Send(t, len, dst), UNCHANGED call
    PROVE  Fine(chip, Now(TRUE), call)'
<1>1. UNCHANGED <<chip, call>>
  BY DEF Send
<1>2. PICK hal \in HalOutcomes : \E new, buf :
          \/ Become(SendPending(Now(hal), t))
          \/ Become(SendPending([Now(hal) EXCEPT !.sk[t].tx_buf_queue = new,
                                                 !.sk[t].tx_buf = buf], t))
  BY DEF Send
<1>3. PICK new, buf :
          \/ Become(SendPending(Now(hal), t))
          \/ Become(SendPending([Now(hal) EXCEPT !.sk[t].tx_buf_queue = new,
                                                 !.sk[t].tx_buf = buf], t))
  BY <1>2
<1> DEFINE d == Now(hal)
           f == [d EXCEPT !.sk[t].tx_buf_queue = new, !.sk[t].tx_buf = buf]
<1>4. Holds(d, chip, sole) /\ DOMAIN d = DriverFields
  BY HandlerStarts DEF Base
<1>5. Become(SendPending(d, t)) \/ Become(SendPending(f, t))
  BY <1>3
<1>6. \A e : (\A s \in Sock : Serves(d, e, s)) /\ Become(e) => Fine(chip, Now(TRUE), call)'
  BY <1>1, ServingFine
<1> HIDE DEF d
<1>7. Driver(d) /\ Busy(d) /\ Shadows(d.sk)
  BY <1>4 DEF Holds, Driver
<1>8. SameOrders(d, f)
  BY <1>4, <1>7 DEF DriverFields, SameOrders, Shadows
<1> HIDE DEF f
<1>9. ASSUME NEW s \in Sock
      PROVE  Serves(d, SendPending(d, t), s) /\ Serves(d, SendPending(f, t), s)
  <2>1. Serves(d, SendPending(d, t), s)
    BY <1>7, PendingServes
  <2>2. Serves(d, f, s)
    BY <1>7, <1>8, SameOrdersServe
  <2>3. Driver(f) /\ Busy(f)
    BY <2>2 DEF Serves
  <2>4. Serves(f, SendPending(f, t), s)
    BY <2>3, PendingServes
  <2>5. QED
    BY <1>7, <2>1, <2>2, <2>4, ServesOn
<1>10. QED
  BY <1>5, <1>6, <1>9

\* recv and recvfrom.
LEMMA RecvFine ==
    ASSUME NEW sole, Base(sole), Fine(chip, Now(TRUE), call), NEW t \in Sock, Recv(t) \/ RecvFrom(t),
           UNCHANGED call
    PROVE  Fine(chip, Now(TRUE), call)'
<1>1. UNCHANGED <<chip, call>>
  BY DEF Recv, RecvFrom
<1>2. PICK hal \in HalOutcomes : \E new :
          \/ Become(ReceivePending(Now(hal), t))
          \/ Become(ReceivePending([Now(hal) EXCEPT !.sk[t].rx_buf_queue = new], t))
  BY DEF Recv, RecvFrom
<1>3. PICK new :
          \/ Become(ReceivePending(Now(hal), t))
          \/ Become(ReceivePending([Now(hal) EXCEPT !.sk[t].rx_buf_queue = new], t))
  BY <1>2
<1> DEFINE d == Now(hal)
           f == [d EXCEPT !.sk[t].rx_buf_queue = new]
<1>4. Holds(d, chip, sole) /\ DOMAIN d = DriverFields
  BY HandlerStarts DEF Base
<1>5. Become(ReceivePending(d, t)) \/ Become(ReceivePending(f, t))
  BY <1>3
<1>6. \A e : (\A s \in Sock : Serves(d, e, s)) /\ Become(e) => Fine(chip, Now(TRUE), call)'
  BY <1>1, ServingFine
<1> HIDE DEF d
<1>7. Driver(d) /\ Busy(d) /\ Shadows(d.sk)
  BY <1>4 DEF Holds, Driver
<1>8. SameOrders(d, f)
  BY <1>4, <1>7 DEF DriverFields, SameOrders, Shadows
<1> HIDE DEF f
<1>9. ASSUME NEW s \in Sock
      PROVE  Serves(d, ReceivePending(d, t), s) /\ Serves(d, ReceivePending(f, t), s)
  <2>1. Serves(d, ReceivePending(d, t), s)
    BY <1>7, PendingServes
  <2>2. Serves(d, f, s)
    BY <1>7, <1>8, SameOrdersServe
  <2>3. Driver(f) /\ Busy(f)
    BY <2>2 DEF Serves
  <2>4. Serves(f, ReceivePending(f, t), s)
    BY <2>3, PendingServes
  <2>5. QED
    BY <1>7, <2>1, <2>2, <2>4, ServesOn
<1>10. QED
  BY <1>5, <1>6, <1>9

\* The interrupt of a completed transfer.
LEMMA CompleteFine ==
    ASSUME NEW sole, Base(sole), Fine(chip, Now(TRUE), call), SpiComplete, UNCHANGED call
    PROVE  Fine(chip, Now(TRUE), call)'
<1>1. Inv(sole) /\ Tasks(call) /\ UNCHANGED <<chip, call>>
  BY DEF Base, SpiComplete
<1>2. PICK hal \in HalOutcomes : Become(Start(Handled(Now(hal)))) /\ bus = "done"
  BY DEF SpiComplete
<1> DEFINE d == Now(hal)
           e == Start(Handled(d))
<1>3. Holds(d, chip, sole) /\ d.bus = "done"
  BY <1>1, <1>2, HandlerStarts
<1>4. Become(e) /\ e = Start(Handled(d))
  BY <1>2
<1> HIDE DEF d, e
<1>5. /\ Driver(d) /\ Busy(d)
      /\ d.run.cmd_type = "READ_SIR" => d.run.val.SIR \subseteq Sock
  BY <1>3 DEF Holds
<1>6. Driver(e) /\ Busy(e)
  <2>1. Driver(Handled(d))
    BY <1>3, <1>5, HandledKeeps
  <2> DEFINE f == Handled(d)
  <2>2. Driver(f) /\ e = Start(f)
    BY <1>4, <2>1
  <2> HIDE DEF f
  <2>3. PICK s : s = 0
    OBVIOUS
  <2>4. QED
    BY <2>2, StartServes
<1>7. ASSUME NEW s \in Sock
      PROVE  /\ e.sk[s].SR = StatusRead(d, s) /\ e.bus # "done"
             /\ ~e.fails => ~d.fails /\ Follows(Line(d), Line(e), s) /\ Repeatable(e, s)
  BY <1>3, <1>4, <1>5, CompletionServes
<1>8. ASSUME ~e.fails, NEW s \in Sock, FineFor(s, chip, d, call)  PROVE  FineFor(s, chip, e, call)
  <2> DEFINE W == Waiting(chip[s], d, call[s], s)
             V == Waiting(chip[s], e, call[s], s)
             T == Seen(d, s)
  <2>1. Queue(call[s].todo)
    BY <1>1, TodoIs
  <2>2. Follows(W, V, s)
    BY <1>5, <1>6, <1>7, <1>8, <2>1, WaitingSame
  <2>3. Sound(s, W, chip[s], d.sk[s].SR, T, call[s])
    BY <1>8 DEF FineFor
  <2>4. V = Waiting(chip[s], e, call[s], s)
    OBVIOUS
  <2> HIDE DEF W, V
  <2>5. GoesOn(call[s], call[s], chip[s])
    BY DEF GoesOn
  <2>6. Sound(s, V, chip[s], d.sk[s].SR, T, call[s])
    BY <2>2, <2>3, <2>5, SoundOn DEF Follows
  <2>7. Sound(s, V, chip[s], StatusRead(d, s), {}, call[s])
    <3>1. CASE d.run.cmd_type = "READ_REG" /\ d.run.sn = s /\ "SR" \in DOMAIN d.run.val
      <4>1. T = {d.run.val.SR} /\ StatusRead(d, s) = d.run.val.SR
        BY <1>3, <3>1 DEF Seen, StatusRead
      <4> HIDE DEF T
      <4>2. QED
        BY <2>6, <4>1, SoundRead
    <3>2. CASE ~(d.run.cmd_type = "READ_REG" /\ d.run.sn = s /\ "SR" \in DOMAIN d.run.val)
      <4>1. T = {} /\ StatusRead(d, s) = d.sk[s].SR
        BY <3>2 DEF Seen, StatusRead
      <4>2. QED
        BY <2>6, <4>1
    <3>3. QED
      BY <3>1, <3>2
  <2>8. Seen(e, s) = {}
    BY <1>7 DEF Seen
  <2>9. QED
    BY <1>7, <1>8, <2>4, <2>7, <2>8 DEF FineFor
<1>9. ~e.fails => ~d.fails
  <2>1. 0 \in Sock
    BY DriverAssumption DEF Sock
  <2>2. QED
    BY <1>7, <2>1
<1>10. QED
  BY <1>1, <1>4, <1>8, <1>9, HandlerFine DEF d

\* The interrupt of a failed transfer.
LEMMA ErrorFine ==
    ASSUME NEW sole, SureWrites, Base(sole), Fine(chip, Now(TRUE), call), SpiError, UNCHANGED call
    PROVE  Fine(chip, Now(TRUE), call)'
<1>1. Inv(sole) /\ Tasks(call) /\ UNCHANGED <<chip, call>>
  BY DEF Base, SpiError
<1> DEFINE d == Now(TRUE)
           e == Failed(d)
<1>2. /\ Become(e) /\ e = Failed(d) /\ TRUE \in HalOutcomes
      /\ bus \in {"shift", "poll"} \/ (bus = "done" /\ running_cmd.cmd_type \in LateErrors)
  BY DEF SpiError, HalOutcomes
<1>3. /\ Holds(d, chip, sole)
      /\ d.bus \in {"shift", "poll"} \/ (d.bus = "done" /\ d.run.cmd_type \in LateErrors)
  BY <1>1, <1>2, HandlerStarts
<1> HIDE DEF d, e
<1>4. Driver(d) /\ Busy(d)
  BY <1>3 DEF Holds
<1>5. Driver(e) /\ Busy(e)
  <2>1. Holds(e, chip, sole)
    BY <1>2, <1>3, FailureHolds DEF Busy
  <2>2. QED
    BY <2>1 DEF Holds
<1>6. ASSUME NEW s \in Sock
      PROVE  /\ e.sk = d.sk /\ e.bus = "none"
             /\ ~e.fails => ~d.fails /\ (Repeatable(d, s) => Follows(Line(d), Line(e), s))
  BY <1>2, <1>3, <1>4, FailureServes
<1>7. ASSUME ~e.fails, NEW s \in Sock, FineFor(s, chip, d, call)  PROVE  FineFor(s, chip, e, call)
  <2> DEFINE W == Waiting(chip[s], d, call[s], s)
             V == Waiting(chip[s], e, call[s], s)
  <2>1. Queue(call[s].todo)
    BY <1>1, TodoIs
  <2>2. Follows(Line(d), Line(e), s)
    BY <1>6, <1>7 DEF FineFor
  <2>3. Follows(W, V, s)
    BY <1>4, <1>5, <2>1, <2>2, WaitingSame
  <2>4. Sound(s, W, chip[s], d.sk[s].SR, Seen(d, s), call[s])
    BY <1>7 DEF FineFor
  <2>5. V = Waiting(chip[s], e, call[s], s)
    OBVIOUS
  <2> HIDE DEF W, V
  <2>6. GoesOn(call[s], call[s], chip[s]) /\ Seen(e, s) = {} /\ {} \subseteq Seen(d, s)
    BY <1>6 DEF GoesOn, Seen
  <2>7. Sound(s, V, chip[s], d.sk[s].SR, Seen(e, s), call[s])
    BY <2>3, <2>4, <2>6, SoundOn DEF Follows
  <2>8. QED
    BY <1>6, <2>5, <2>7 DEF FineFor, Repeatable
<1>8. ~e.fails => ~d.fails
  <2>1. 0 \in Sock
    BY DriverAssumption DEF Sock
  <2>2. QED
    BY <1>6, <2>1
<1>9. QED
  BY <1>1, <1>2, <1>7, <1>8, HandlerFine DEF d

\* The EXTI interrupt.
LEMMA ExtiFine ==
    ASSUME NEW sole, Base(sole), Fine(chip, Now(TRUE), call), Exti, UNCHANGED call
    PROVE  Fine(chip, Now(TRUE), call)'
<1>1. Inv(sole) /\ UNCHANGED <<chip, call>>
  BY DEF Base, Exti
<1>2. PICK hal \in HalOutcomes : Become(PushFront(Now(hal), ReadSir))
  BY DEF Exti
<1> DEFINE d == Now(hal)
           e == PushFront(d, ReadSir)
<1>3. Holds(d, chip, sole) /\ Become(e) /\ e = PushFront(d, ReadSir)
  BY <1>1, <1>2, HandlerStarts
<1> HIDE DEF d, e
<1>4. \A s \in Sock : Serves(d, e, s)
  BY <1>3, SirServes DEF Holds
<1>5. QED
  BY <1>1, <1>3, <1>4, ServingFine DEF d

\* The timer interrupt.
LEMMA TimerFine ==
    ASSUME NEW sole, Base(sole), Fine(chip, Now(TRUE), call), Timer, UNCHANGED call
    PROVE  Fine(chip, Now(TRUE), call)'
<1>1. Inv(sole) /\ UNCHANGED <<chip, call>>
  BY DEF Base, Timer
<1>2. PICK hal \in HalOutcomes : Become(PushBacks(Restarted(Now(hal)), TimerCommands))
  BY DEF Timer
<1> DEFINE d == Now(hal)
           l == TimerCommands
           e == PushBacks(Restarted(d), l)
<1>3. Holds(d, chip, sole) /\ Become(e) /\ e = PushBacks(Restarted(d), l)
  BY <1>1, <1>2, HandlerStarts
<1>4. Queue(l) /\ l # <<>> /\ AllForData(l)
  BY TimerQueue
<1> HIDE DEF d, e, l
<1>5. \A s \in Sock : Serves(d, e, s)
  BY <1>3, <1>4, TimerServes DEF Holds
<1>6. QED
  BY <1>1, <1>3, <1>5, ServingFine DEF d

\* The chip and the network.
LEMMA ChipFine ==
    ASSUME NEW sole, Base(sole), Fine(chip, Now(TRUE), call), UNCHANGED <<driver, call>>,
           NEW t \in Sock, ChipMoves(t)
    PROVE  Fine(chip, Now(TRUE), call)'
<1> DEFINE d == Now(TRUE)
<1>1. Become(d)
  BY DEF Become, Now, driver
<1>2. Driver(d) /\ Busy(d) /\ Tasks(call) /\ call' = call
  BY DEF Base, Inv, Holds
<1> HIDE DEF d
<1>3. ASSUME NEW s \in Sock, FineFor(s, chip, d, call)  PROVE  FineFor(s, chip', d, call)
  <2> DEFINE c == chip[s]
             n == chip'[s]
             X == Line(d) \o call[s].todo
             W == Waiting(c, d, call[s], s)
             V == Waiting(n, d, call[s], s)
             sh == d.sk[s].SR
             T == Seen(d, s)
             k == call[s]
  <2>1. Repeatable(d, s) /\ Sound(s, W, c, sh, T, k)
    BY <1>3 DEF FineFor
  <2>2. Queue(X)
    BY <1>2, TodoIs, WaitingIs
  <2>3. W = Held(c, s) \o X /\ V = Held(n, s) \o X
    BY DEF Waiting
  <2>4. n = c \/ (n.MR = c.MR /\ ChipStep(s, c, n))
    BY DEF ChipMoves
  <2> HIDE DEF X
  <2>5. CASE n = c
    BY <1>3, <2>5 DEF FineFor
  <2>6. CASE n.MR = c.MR /\ ChipStep(s, c, n)
    <3> HIDE DEF W, V, c, n, sh, T, k
    <3>1. Sound(s, V, n, sh, T, k)
      BY <2>1, <2>2, <2>3, <2>6, SoundChip
    <3>2. QED
      BY <2>1, <3>1 DEF FineFor, V, n, sh, T, k
  <2>7. QED
    BY <2>4, <2>5, <2>6
<1>4. Fine(chip, d, call)
  BY DEF d
<1>5. Fine(chip', d, call')
  BY <1>2, <1>3, <1>4 DEF Fine
<1>6. QED
  BY <1>1, <1>5, FineEnds

\* What a transfer brings: at most one status, into the command or the driver's copy.
LEMMA TransferReads ==
    ASSUME NEW sole, Inv(sole), Transfer, NEW s \in Sock,
           NEW T, T = IF /\ running_cmd'.cmd_type = "READ_REG" /\ running_cmd'.sn = s
                         /\ "SR" \in DOMAIN running_cmd'.val
                      THEN {running_cmd'.val.SR} ELSE {}
    PROVE  /\ bus \in {"shift", "poll"} /\ bus' = "done"
           /\ UNCHANGED <<command_queue, enqueueFails, failures>>
           /\ \/ sockets'[s].SR = sockets[s].SR /\ T \in {{}, {chip[s].SR}}
              \/ sockets'[s].SR = chip[s].SR /\ T = {}
<1>1. /\ bus \in {"shift", "poll"} /\ bus' = "done"
      /\ UNCHANGED <<command_queue, enqueueFails, failures>>
  BY DEF Transfer, TransferWriteReg, TransferWriteBuf, TransferReadReg, TransferReadSir,
         TransferCheckRcv, TransferCheckTxFsr, TransferReadBuf, TransferReadSoc, TransferPoll,
         Fetch, Shifting
<1>2. WellFormed(running_cmd) /\ Shadows(sockets)
  BY <1>1, TransferStarts
<1>3. CASE TransferReadReg
  <2> DEFINE regs == Shadow(chip[running_cmd.sn])
             val  == [r \in DOMAIN running_cmd.val |-> regs[r]]
  <2>1. running_cmd' = [running_cmd EXCEPT !.val = val, !.hdr = FALSE] /\ sockets' = sockets
    BY <1>3 DEF TransferReadReg, Fetch
  <2>2. regs.SR = chip[running_cmd.sn].SR
    BY DEF Shadow
  <2> HIDE DEF regs
  <2>3. "SR" \in DOMAIN val => val.SR = chip[running_cmd.sn].SR
    BY <2>2
  <2> HIDE DEF val
  <2>4. running_cmd'.val = val /\ running_cmd'.sn = running_cmd.sn
    BY <1>2, <2>1 DEF WellFormed, Fields
  <2>5. QED
    BY <1>1, <2>1, <2>3, <2>4
<1>4. CASE TransferReadSoc
  <2>1. /\ running_cmd' = running_cmd /\ running_cmd.cmd_type = "READ_SOC"
        /\ sockets' = [sockets EXCEPT ![running_cmd.sn] =
                           Overlay(Shadow(chip[running_cmd.sn]), @)]
    BY <1>4 DEF TransferReadSoc, Shifting
  <2>2. T = {}
    BY <2>1
  <2>3. Overlay(Shadow(chip[s]), sockets[s]).SR = chip[s].SR
    BY DEF Overlay, Shadow
  <2>4. sockets'[s].SR \in {sockets[s].SR, chip[s].SR}
    BY <1>2, <2>1, <2>3 DEF Shadows
  <2>5. QED
    BY <1>1, <2>2, <2>4
<1>5. CASE TransferReadBuf
  <2>1. PICK buf : sockets' = [sockets EXCEPT ![running_cmd.sn].rx_buf = buf]
    BY <1>5 DEF TransferReadBuf
  <2>2. running_cmd' = running_cmd /\ running_cmd.cmd_type = "READ_BUF"
    BY <1>5 DEF TransferReadBuf, Shifting
  <2>3. sockets'[s].SR = sockets[s].SR
    BY <1>2, <2>1 DEF Shadows
  <2>4. QED
    BY <1>1, <2>2, <2>3
<1>6. CASE \/ TransferWriteReg \/ TransferWriteBuf \/ TransferReadSir
           \/ TransferCheckRcv \/ TransferCheckTxFsr \/ TransferPoll
  <2>1. sockets' = sockets
    BY <1>6 DEF TransferWriteReg, TransferWriteBuf, TransferReadSir, TransferCheckRcv,
                TransferCheckTxFsr, TransferPoll, Fetch
  <2>2. running_cmd'.cmd_type = running_cmd.cmd_type
    BY <1>2, <1>6 DEF TransferWriteReg, TransferWriteBuf, TransferReadSir, TransferCheckRcv,
                      TransferCheckTxFsr, TransferPoll, Fetch, WellFormed, Fields
  <2>3. running_cmd.cmd_type # "READ_REG"
    <3>1. CASE TransferPoll
      <4>1. Now(TRUE).bus = "poll" /\ Now(TRUE).run = running_cmd
        BY <3>1 DEF TransferPoll, Now
      <4>2. QED
        BY <4>1 DEF Inv, Holds, Busy, IsCommandWrite
    <3>2. QED
      BY <1>6, <3>1 DEF TransferWriteReg, TransferWriteBuf, TransferReadSir, TransferCheckRcv,
                        TransferCheckTxFsr, Fetch, Shifting
  <2>4. QED
    BY <1>1, <2>1, <2>2, <2>3
<1>7. QED
  BY <1>3, <1>4, <1>5, <1>6 DEF Transfer

\* A command that reaches Sn_CR goes on waiting there; every other one is done, and
\* the mode, if it was set, is that of the socket.
LEMMA TransferFollows ==
    ASSUME NEW s \in Sock, NEW d, Driver(d), Busy(d), d.bus \in {"shift", "poll"},
           NEW e, Driver(e), Busy(e), e.bus = "done", e.q = d.q, NEW k, Queue(k.todo),
           NEW c, NEW n,
           n.CR = IF d.bus = "shift" /\ Orders(d.run, s) THEN d.run.val.CR ELSE c.CR,
           n.MR = IF d.bus = "shift" /\ SetsMode(d.run, s) THEN d.run.val.MR ELSE c.MR,
           d.bus = "shift" /\ Orders(d.run, s) => c.CR = "NONE",
           NEW W, W = Waiting(c, d, k, s), NEW V, V = Waiting(n, e, k, s)
    PROVE  /\ Alike(W, V, s)
           /\ s \in Tcp /\ (c.MR = "TCP" \/ ModeFirst(W, s)) => n.MR = "TCP" \/ ModeFirst(V, s)
<1> DEFINE a == <<d.run>>
           q == d.q
           X == q \o k.todo
<1>1. /\ Queue(q) /\ WellFormed(d.run) /\ Queue(a) /\ Line(e) = q
      /\ d.bus # "shift" => Line(d) = q
      /\ d.bus = "shift" => Line(d) = a \o q
  BY LineIs
<1>2. /\ OpensFirst(a, s) /\ (ModeFirst(a, s) <=> SetsMode(d.run, s))
      /\ \A cr : Issues(a, s, cr) <=> Orders(d.run, s) /\ d.run.val.CR = cr
  BY <1>1, SingleOrder
<1>3. /\ Orders(d.run, s) => d.run.val.CR # "NONE" /\ ~SetsMode(d.run, s)
      /\ SetsMode(d.run, s) /\ s \in Tcp => d.run.val.MR = "TCP"
  BY <1>1 DEF Orders, SetsMode, IsCommandWrite, WellFormed, Settable
<1>4. Queue(X)
  BY <1>1, Joined
<1> HIDE DEF a, q
<1>5. CASE d.bus = "poll" \/ (~Orders(d.run, s) /\ ~SetsMode(d.run, s))
  <2>1. ~Orders(d.run, s) /\ ~SetsMode(d.run, s) => Plain(a, s)
    BY <1>2 DEF Plain
  <2>2. Follows(Line(d), Line(e), s)
    BY <1>1, <1>5, <2>1, PlainPut, FollowsOn
  <2>3. n.CR = c.CR /\ n.MR = c.MR
    BY <1>5
  <2>4. Follows(W, V, s)
    BY <2>2, <2>3, WaitingSame
  <2>5. QED
    BY <2>3, <2>4 DEF Follows
<1>6. CASE d.bus = "shift" /\ Orders(d.run, s)
  <2> DEFINE b == Held(n, s)
             x == Command(s, d.run.val.CR)
  <2>1. n.CR = d.run.val.CR /\ c.CR = "NONE" /\ n.CR # "NONE" /\ n.MR = c.MR
    BY <1>3, <1>6
  <2>2. b = <<x>>
    BY <2>1 DEF Held
  <2>3. WellFormed(x) /\ Orders(x, s) /\ x.val.CR = d.run.val.CR /\ ~SetsMode(x, s)
    BY <2>1, CommandFormed
  <2> HIDE DEF x, b
  <2>4. /\ Queue(b) /\ OpensFirst(b, s) /\ (ModeFirst(b, s) <=> SetsMode(x, s))
        /\ \A cr : Issues(b, s, cr) <=> Orders(x, s) /\ x.val.CR = cr
    BY <2>2, <2>3, SingleOrder
  <2>5. Follows(a, b, s)
    BY <1>2, <1>3, <1>6, <2>3, <2>4 DEF Follows, Alike
  <2>6. Follows(a \o X, b \o X, s)
    BY <1>1, <1>4, <2>4, <2>5, FollowsJoined
  <2>7. V = b \o X
    BY <1>1 DEF Waiting, b, X
  <2>8. W = a \o X
    <3>1. Held(c, s) = <<>> /\ Line(d) = a \o q
      BY <1>1, <1>6, <2>1 DEF Held
    <3> DEFINE t == k.todo
               Y == (a \o q) \o t
    <3>2. Queue(t)
      OBVIOUS
    <3>3. W = <<>> \o Y
      BY <3>1 DEF Waiting
    <3> HIDE DEF t
    <3>4. Y = a \o (q \o t)
      BY <1>1, <3>2, JoinedTwice
    <3>5. Queue(Y)
      BY <1>1, <3>2, Joined
    <3> HIDE DEF Y
    <3>6. W = Y
      BY <3>3, <3>5, JoinedWithNothing
    <3>7. QED
      BY <3>4, <3>6 DEF X, t
  <2>9. QED
    BY <2>1, <2>6, <2>7, <2>8 DEF Follows
<1>7. CASE d.bus = "shift" /\ SetsMode(d.run, s)
  <2>1. ~Orders(d.run, s)
    BY <1>3, <1>7
  <2>2. n.CR = c.CR /\ (s \in Tcp => n.MR = "TCP")
    BY <1>3, <1>7, <2>1
  <2>3. Alike(a, <<>>, s)
    BY <1>2, <2>1, NothingOrdered DEF Alike
  <2>4. Alike(a \o X, <<>> \o X, s)
    BY <1>1, <1>4, <2>3, NoCommands, FollowsJoined
  <2> DEFINE h == Held(c, s)
             t == k.todo
             Y == (a \o q) \o t
  <2>a. Queue(t)
    OBVIOUS
  <2> HIDE DEF t
  <2>5. Y = a \o (q \o t)
    BY <1>1, <2>a, JoinedTwice
  <2>6. Alike(Y, X, s)
    BY <1>4, <2>4, <2>5, JoinedWithNothing DEF X, t
  <2>7. Queue(Y) /\ Queue(h)
    BY <1>1, <1>4, <2>a, Joined, HeldFirst
  <2>8. W = h \o Y
    BY <1>1, <1>7 DEF Waiting, t
  <2>9. V = h \o X
    BY <1>1, <2>2 DEF Waiting, Held, X
  <2> HIDE DEF X, Y, h
  <2>10. Alike(h \o Y, h \o X, s)
    BY <1>4, <2>6, <2>7, FollowsJoined
  <2>11. QED
    BY <2>2, <2>8, <2>9, <2>10
<1>8. QED
  BY <1>5, <1>6, <1>7

\* The transfers on the bus.
LEMMA TransferFine ==
    ASSUME NEW sole, SureWrites, Base(sole), Inv(sole)', Fine(chip, Now(TRUE), call), Transfer, UNCHANGED call
    PROVE  Fine(chip, Now(TRUE), call)'
<1> DEFINE d == Now(TRUE)
           e == [q |-> command_queue', run |-> running_cmd', bus |-> bus', sk |-> sockets',
                 fails |-> enqueueFails', err |-> failures', hal |-> TRUE]
<1>1. Inv(sole) /\ Tasks(call) /\ Wired(chip) /\ call' = call
  BY DEF Base
<1>2. /\ d.q = command_queue /\ d.run = running_cmd /\ d.bus = bus /\ d.sk = sockets
      /\ d.fails = enqueueFails /\ Driver(d) /\ Busy(d)
  BY <1>1 DEF Inv, Holds, Now
<1>3. Driver(e) /\ Busy(e)
  BY DEF Inv, Holds, Now
<1>4. /\ e.q = command_queue' /\ e.run = running_cmd' /\ e.bus = bus' /\ e.sk = sockets'
      /\ e.fails = enqueueFails' /\ Become(e)
  BY DEF Become
<1>5. 0 \in Sock
  BY DriverAssumption DEF Sock
<1>6. /\ d.bus \in {"shift", "poll"} /\ e.bus = "done" /\ e.q = d.q
      /\ e.fails = d.fails
  BY <1>1, <1>2, <1>4, <1>5, TransferReads
<1>7. Fine(chip, d, call)
  OBVIOUS
<1> HIDE DEF d, e
<1>8. ASSUME ~d.fails, NEW s \in Sock, FineFor(s, chip, d, call)
      PROVE  FineFor(s, chip', e, call)
  <2> DEFINE c == chip[s]
             n == chip'[s]
             k == call[s]
             W == Waiting(c, d, k, s)
             V == Waiting(n, e, k, s)
             T == Seen(e, s)
             sh == d.sk[s].SR
  <2>1. Queue(k.todo)
    BY <1>1, TodoIs
  <2>2. /\ n.SR = c.SR /\ (Unused(c) => Unused(n))
        /\ n.MR = IF d.bus = "shift" /\ SetsMode(d.run, s) THEN d.run.val.MR ELSE c.MR
        /\ n.CR = IF d.bus = "shift" /\ Orders(d.run, s) THEN d.run.val.CR ELSE c.CR
    BY <1>1, <1>2, TransferMoves DEF Unused
  <2>3. d.bus = "shift" /\ Orders(d.run, s) => c.CR = "NONE"
    <3>1. CommandRegisterFree
      BY <1>1, <1>2, <1>8, InvOrdersWait
    <3>2. QED
      BY <1>2, <3>1 DEF CommandRegisterFree, Orders
  <2>4. Sound(s, W, c, sh, {}, k)
    <3>1. Seen(d, s) = {}
      BY <1>6 DEF Seen
    <3>2. QED
      BY <1>8, <3>1 DEF FineFor
  <2>5. \/ e.sk[s].SR = sh /\ T \in {{}, {c.SR}}
        \/ e.sk[s].SR = c.SR /\ T = {}
    <3>1. T = IF /\ running_cmd'.cmd_type = "READ_REG" /\ running_cmd'.sn = s
                 /\ "SR" \in DOMAIN running_cmd'.val
              THEN {running_cmd'.val.SR} ELSE {}
      BY <1>4, <1>6 DEF Seen
    <3> HIDE DEF T
    <3>2. \/ sockets'[s].SR = sockets[s].SR /\ T \in {{}, {chip[s].SR}}
          \/ sockets'[s].SR = chip[s].SR /\ T = {}
      BY <1>1, <3>1, TransferReads
    <3>3. QED
      BY <1>2, <1>4, <3>2
  <2>6. W = Waiting(c, d, k, s) /\ V = Waiting(n, e, k, s)
    OBVIOUS
  <2> HIDE DEF W, V, c, n, k, T, sh
  <2>7. /\ Alike(W, V, s)
        /\ s \in Tcp /\ (c.MR = "TCP" \/ ModeFirst(W, s)) => n.MR = "TCP" \/ ModeFirst(V, s)
    BY <1>2, <1>3, <1>6, <2>1, <2>2, <2>3, <2>6, TransferFollows
  <2>8. GoesOn(k, k, c)
    BY DEF GoesOn
  <2>9. Sound(s, V, n, sh, {}, k)
    BY <2>2, <2>4, <2>7, <2>8, SoundOn
  <2>10. Sound(s, V, n, e.sk[s].SR, T, k)
    <3>1. Sound(s, V, n, sh, {n.SR}, k) /\ Sound(s, V, n, n.SR, {}, k)
      BY <2>9, SoundSample
    <3>2. QED
      BY <2>2, <2>5, <2>9, <3>1
  <2>11. Repeatable(e, s)
    BY <1>6 DEF Repeatable
  <2>12. QED
    BY <2>10, <2>11 DEF FineFor, V, n, k, T
<1>9. Fine(chip', e, call')
  BY <1>1, <1>6, <1>7, <1>8 DEF Fine
<1>10. QED
  BY <1>4, <1>9, FineEnds

\* A step of the task of socket t.
LEMMA TaskFine ==
    ASSUME NEW sole, Inv(sole), Fine(chip, Now(TRUE), call), NEW hal \in HalOutcomes, NEW e, Become(e),
           chip' = chip, NEW t \in Sock, \A s \in Sock : s # t => call'[s] = call[s],
           ~e.fails => ~Now(hal).fails,
           \A s \in Sock : s # t /\ ~e.fails /\ FineFor(s, chip, Now(hal), call) =>
                               FineFor(s, chip, e, call),
           ~e.fails /\ FineFor(t, chip, Now(hal), call) => FineFor(t, chip, e, call')
    PROVE  Fine(chip, Now(TRUE), call)'
<1>1. /\ Now(hal).q = Now(TRUE).q /\ Now(hal).run = Now(TRUE).run
      /\ Now(hal).bus = Now(TRUE).bus /\ Now(hal).sk = Now(TRUE).sk
      /\ Now(hal).fails = Now(TRUE).fails
  BY DEF Now
<1>2. Fine(chip, Now(hal), call)
  BY <1>1, FineStarts
<1>3. \A s \in Sock : s # t /\ FineFor(s, chip, e, call) => FineFor(s, chip, e, call')
  BY DEF FineFor
<1>4. Fine(chip', e, call')
  BY <1>2, <1>3 DEF Fine
<1>5. QED
  BY <1>4, FineEnds

\* One that leaves the driver alone.
LEMMA CallFine ==
    ASSUME NEW sole, Inv(sole), Fine(chip, Now(TRUE), call), UNCHANGED <<driver, chip>>,
           NEW t \in Sock, \A s \in Sock : s # t => call'[s] = call[s],
           ~enqueueFails /\ FineFor(t, chip, Now(TRUE), call) =>
               FineFor(t, chip, Now(TRUE), call')
    PROVE  Fine(chip, Now(TRUE), call)'
<1>1. Become(Now(TRUE)) /\ TRUE \in HalOutcomes /\ Now(TRUE).fails = enqueueFails
  BY DEF Become, Now, driver, HalOutcomes
<1>2. QED
  BY <1>1, TaskFine

\* What a call has still to queue comes last.
LEMMA WaitingSplit ==
    ASSUME NEW s \in Sock, NEW r, NEW d, Driver(d), Busy(d), NEW k, Queue(k.todo),
           NEW l, l.todo = <<>>
    PROVE  /\ Queue(Waiting(r, d, l, s))
           /\ Waiting(r, d, k, s) = Waiting(r, d, l, s) \o k.todo
<1> DEFINE h == Held(r, s)
           q == Line(d)
           p == k.todo
<1>1. Queue(h) /\ Queue(q) /\ Queue(p)
  BY WaitingIs
<1>2. Waiting(r, d, k, s) = h \o (q \o p) /\ Waiting(r, d, l, s) = h \o (q \o <<>>)
  BY DEF Waiting
<1> HIDE DEF h, q, p
<1>3. q \o <<>> = q /\ Queue(h \o q) /\ (h \o q) \o p = h \o (q \o p)
  <2>1. q \o <<>> = q
    BY <1>1, JoinedWithNothing
  <2>2. Queue(h \o q)
    BY <1>1, Joined
  <2>3. (h \o q) \o p = h \o (q \o p)
    BY <1>1, JoinedTwice
  <2>4. QED
    BY <2>1, <2>2, <2>3
<1>4. Waiting(r, d, l, s) = h \o q
  BY <1>2, <1>3
<1>5. QED
  BY <1>2, <1>3, <1>4 DEF p

\* A call that gives up what it has not queued leaves less.
LEMMA WaitingLess ==
    ASSUME NEW s \in Sock, NEW r, NEW d, Driver(d), Busy(d), NEW k, Queue(k.todo),
           NEW l, l.todo = <<>>, NEW W, W = Waiting(r, d, k, s), NEW V, V = Waiting(r, d, l, s)
    PROVE  Less(W, V, s) /\ (k.todo = <<>> => W = V)
<1> DEFINE p == k.todo
<1>1. Queue(V) /\ W = V \o p /\ Queue(p)
  BY WaitingSplit
<1>2. ASSUME k.todo = <<>>  PROVE W = V
  BY <1>2 DEF Waiting
<1>3. p = k.todo
  OBVIOUS
<1> HIDE DEF p
<1>4. /\ \A cr : Issues(W, s, cr) <=> Issues(V, s, cr) \/ Issues(p, s, cr)
      /\ OpensFirst(W, s) <=> /\ OpensFirst(V, s) /\ OpensFirst(p, s)
                              /\ ~(Moving(V, s) /\ Opening(p, s))
      /\ ModeFirst(W, s) <=> ModeFirst(V, s) \/ (~Opening(V, s) /\ ModeFirst(p, s))
  BY <1>1, JoinedOrders
<1>5. Less(W, V, s)
  BY <1>4 DEF Less
<1>6. QED
  BY <1>2, <1>5

\* A call begins: its commands come behind those that wait.
LEMMA BeginFine ==
    ASSUME NEW sole, Base(sole), Own(call), Fine(chip, Now(TRUE), call), UNCHANGED <<driver, chip>>,
           NEW t \in Sock, Idling(t), NEW op, NEW p, Plan(p), Begin(t, op, p),
           \A W, T : Queue(W) /\ Sound(t, W, chip[t], sockets[t].SR, T, call[t]) =>
                         Sound(t, W \o p, chip[t], sockets[t].SR, T, call'[t])
    PROVE  Fine(chip, Now(TRUE), call)'
<1> DEFINE d == Now(TRUE)
<1>1. Inv(sole) /\ Tasks(call) /\ Driver(d) /\ Busy(d) /\ d.sk = sockets
  BY DEF Base, Inv, Holds, Now
<1> HIDE DEF d
<1>2. /\ \A s \in Sock : s # t => call'[s] = call[s]
      /\ call'[t].todo = p
  BY <1>1, BeginFacts
<1>3. call[t].todo = <<>>
  BY DEF Own, Idling
<1>4. Queue(p)
  BY DEF Plan
<1>5. ASSUME FineFor(t, chip, d, call)  PROVE  FineFor(t, chip, d, call')
  <2> DEFINE k == call[t]
             l == call'[t]
             W == Waiting(chip[t], d, k, t)
             V == Waiting(chip[t], d, l, t)
  <2>1. Queue(W) /\ V = W \o p
    <3>1. k.todo = <<>> /\ l.todo = p
      BY <1>2, <1>3
    <3> DEFINE r == chip[t]
    <3> HIDE DEF k, l, r
    <3>2. /\ Queue(Waiting(r, d, k, t))
          /\ Waiting(r, d, l, t) = Waiting(r, d, k, t) \o l.todo
      BY <1>1, <1>4, <3>1, WaitingSplit
    <3>3. QED
      BY <3>1, <3>2 DEF r
  <2>2. Sound(t, W, chip[t], sockets[t].SR, Seen(d, t), k)
    BY <1>1, <1>5 DEF FineFor
  <2> HIDE DEF W, V
  <2>3. Sound(t, V, chip[t], sockets[t].SR, Seen(d, t), l)
    BY <2>1, <2>2
  <2>4. QED
    BY <1>1, <1>5, <2>3 DEF FineFor, V
<1>6. QED
  BY <1>1, <1>2, <1>5, CallFine DEF d

\* A call returns: with success when it has queued everything and the status is as
\* it should be, or with what it has not queued given up.
LEMMA ReturnFine ==
    ASSUME NEW sole, Base(sole), Fine(chip, Now(TRUE), call), UNCHANGED <<driver, chip>>,
           NEW t \in Sock, NEW ret, Return(t, ret),
           \/ ret \notin {"running", "OK"}
           \/ /\ ret = "OK" /\ call[t].ret = "running" /\ call[t].todo = <<>>
              /\ call[t].op = "disconnect" => sockets[t].SR = "CLOSED"
    PROVE  Fine(chip, Now(TRUE), call)'
<1> DEFINE d == Now(TRUE)
<1>1. Inv(sole) /\ Tasks(call) /\ Driver(d) /\ Busy(d) /\ d.sk = sockets
  BY DEF Base, Inv, Holds, Now
<1> HIDE DEF d
<1>2. /\ \A s \in Sock : s # t => call'[s] = call[s]
      /\ call'[t].op = call[t].op /\ call'[t].ret = ret /\ call'[t].todo = <<>>
  BY <1>1, ReturnFacts
<1>3. ASSUME FineFor(t, chip, d, call)  PROVE  FineFor(t, chip, d, call')
  <2> DEFINE old == call[t]
             new == call'[t]
             p == old.todo
             c == chip[t]
             sh == sockets[t].SR
             T == Seen(d, t)
             A == Waiting(c, d, old, t)
             B == Waiting(c, d, new, t)
  <2>1. Queue(p)
    BY <1>1, TodoIs
  <2>2. Less(A, B, t) /\ (p = <<>> => A = B)
    <3>1. new.todo = <<>> /\ Queue(old.todo) /\ p = old.todo
      BY <1>2, <2>1
    <3>2. A = Waiting(c, d, old, t) /\ B = Waiting(c, d, new, t)
      OBVIOUS
    <3> HIDE DEF old, new, c, p, sh, T, A, B
    <3>3. QED
      BY <1>1, <3>1, <3>2, WaitingLess
  <2>3. Sound(t, A, c, sh, T, old)
    BY <1>1, <1>3 DEF FineFor
  <2> HIDE DEF A, B
  <2>4. Sound(t, B, c, sh, T, new)
    <3>1. CASE ret \notin {"running", "OK"}
      <4>1. new.ret \notin {"running", "OK"}
        BY <1>2, <3>1
      <4> HIDE DEF old, new, c, sh, T
      <4>2. QED
        BY <2>2, <2>3, <4>1, SoundLess
    <3>2. CASE /\ ret = "OK" /\ old.ret = "running" /\ p = <<>>
               /\ old.op = "disconnect" => sh = "CLOSED"
      <4>1. A = B
        BY <2>2, <3>2
      <4>2. old.op = "disconnect" => c.SR = "CLOSED"
        BY <2>3, <3>2 DEF Sound
      <4>3. GoesOn(old, new, c) /\ Alike(A, B, t)
        BY <1>2, <3>2, <4>1, <4>2, FollowsOn DEF GoesOn
      <4> HIDE DEF old, new, c, sh, T, p
      <4>4. QED
        BY <2>3, <4>1, <4>3, SoundOn
    <3>3. QED
      BY <3>1, <3>2
  <2>5. QED
    BY <1>1, <1>3, <2>4 DEF FineFor, B
<1>4. QED
  BY <1>1, <1>2, <1>3, CallFine DEF d

\* What the calls have to queue orders what they are for.
LEMMA PlansOrder ==
    ASSUME NEW s \in Sock
    PROVE  /\ \A cr \in Moves : LET p == <<Command(s, cr)>>
                                IN  /\ OpensFirst(p, s) /\ ~Opening(p, s)
                                    /\ \A x : Issues(p, s, x) <=> x = cr
           /\ LET p == <<SetReg(s, [DIPR |-> 1, DPORT |-> 1]), Command(s, "CONNECT")>>
              IN  OpensFirst(p, s) /\ ~Opening(p, s)
           /\ /\ OpensFirst(OpenCommands(s), s) /\ Opening(OpenCommands(s), s)
              /\ ~Moving(OpenCommands(s), s) /\ ModeFirst(OpenCommands(s), s)
<1>1. ASSUME NEW cr \in Moves, NEW p, p = <<Command(s, cr)>>
      PROVE  OpensFirst(p, s) /\ ~Opening(p, s) /\ \A x : Issues(p, s, x) <=> x = cr
  <2> DEFINE c == Command(s, cr)
  <2>1. WellFormed(c) /\ Orders(c, s) /\ c.val.CR = cr /\ cr # "OPEN"
    BY CommandFormed DEF Moves
  <2>2. p = <<c>>
    BY <1>1
  <2> HIDE DEF c
  <2>3. OpensFirst(p, s) /\ \A x : Issues(p, s, x) <=> Orders(c, s) /\ c.val.CR = x
    BY <2>1, <2>2, SingleOrder
  <2>4. QED
    BY <2>1, <2>3 DEF Opening
<1>2. ASSUME NEW p, p = <<SetReg(s, [DIPR |-> 1, DPORT |-> 1]), Command(s, "CONNECT")>>
      PROVE  OpensFirst(p, s) /\ ~Opening(p, s)
  <2> DEFINE a == SetReg(s, [DIPR |-> 1, DPORT |-> 1])
             b == Command(s, "CONNECT")
             l == <<a, b>>
  <2>1. b.val.CR = "CONNECT"
    BY CommandFormed
  <2>2. ~Orders(a, s)
    BY DEF Orders, IsCommandWrite, SetReg, Cmd
  <2> HIDE DEF a, b
  <2>3. Len(l) = 2 /\ l[1] = a /\ l[2] = b
    OBVIOUS
  <2>4. p = l
    BY <1>2 DEF a, b
  <2> HIDE DEF l
  <2>5. \A i \in 1 .. Len(l) : ~(Orders(l[i], s) /\ l[i].val.CR = "OPEN")
    BY <2>1, <2>2, <2>3
  <2>6. QED
    BY <2>4, <2>5 DEF OpensFirst, Opening, Issues
<1>3. /\ OpensFirst(OpenCommands(s), s) /\ Opening(OpenCommands(s), s)
      /\ ~Moving(OpenCommands(s), s) /\ ModeFirst(OpenCommands(s), s)
  <2> DEFINE a == SetReg(s, [MR |-> IF s \in Tcp THEN "TCP" ELSE "UDP"])
             b == Command(s, "OPEN")
             x == GetReg(s, {"TX_FSR", "TX_WR"})
             y == GetReg(s, {"RX_RSR", "RX_RD"})
             l == <<a, b, x, y>>
  <2>1. Orders(b, s) /\ b.val.CR = "OPEN"
    BY CommandFormed
  <2>2. ~Orders(a, s) /\ SetsMode(a, s)
    BY DEF Orders, IsCommandWrite, SetsMode, SetReg, Cmd
  <2>3. ~Orders(x, s) /\ ~Orders(y, s)
    BY DEF Orders, IsCommandWrite, GetReg, Cmd
  <2>4. OpenCommands(s) = l
    BY DEF OpenCommands
  <2> HIDE DEF a, b, x, y
  <2>5. Len(l) = 4 /\ l[1] = a /\ l[2] = b /\ l[3] = x /\ l[4] = y
    OBVIOUS
  <2> HIDE DEF l
  <2>6. \A i \in 1 .. Len(l) : Orders(l[i], s) <=> i = 2
    BY <2>1, <2>2, <2>3, <2>5
  <2>7. OpensFirst(l, s) /\ Opening(l, s) /\ ~Moving(l, s)
    BY <2>1, <2>5, <2>6 DEF OpensFirst, Opening, Moving, Issues, Moves
  <2>8. ModeFirst(l, s)
    <3>1. 1 \in 1 .. Len(l) /\ 1 .. 1 - 1 = {}
      BY <2>5
    <3>2. QED
      BY <2>2, <2>5, <3>1 DEF ModeFirst
  <2>9. QED
    BY <2>4, <2>7, <2>8
<1>4. QED
  BY <1>1, <1>2, <1>3

\* connect, disconnect and close add their command behind those that wait.
LEMMA CallsFine ==
    ASSUME NEW sole, Base(sole), Own(call), Fine(chip, Now(TRUE), call), NEW t \in Sock,
           Connect(t) \/ Disconnect(t) \/ Close(t)
    PROVE  Fine(chip, Now(TRUE), call)'
<1>1. UNCHANGED <<driver, chip>> /\ Idling(t) /\ Tasks(call)
  BY DEF Connect, Disconnect, Close, vars, driver, Base
<1>2. ASSUME NEW op, NEW p, Plan(p), OpensFirst(p, t), ~Opening(p, t), Begin(t, op, p),
             Issues(p, t, "CONNECT") => sockets[t].SR # "CLOSED",
             \/ op = "connect"
             \/ op = "close" /\ Issues(p, t, "CLOSE")
             \/ op = "disconnect" /\ sockets[t].SR \notin Early
      PROVE  Fine(chip, Now(TRUE), call)'
  <2>1. call'[t].op = op /\ call'[t].ret = "running"
    BY <1>1, <1>2, BeginFacts
  <2> DEFINE c == chip[t]
             sh == sockets[t].SR
             k == call[t]
             l == call'[t]
  <2>2. Queue(p)
    BY <1>2 DEF Plan
  <2>3. ASSUME NEW W, Queue(W), NEW T, Sound(t, W, c, sh, T, k)
        PROVE  Sound(t, W \o p, c, sh, T, l)
    <3>1. \/ l.op = "connect"
          \/ l.op = "close" /\ Issues(p, t, "CLOSE")
          \/ l.op = "disconnect" /\ l.ret = "running" /\ sh \notin Early
      BY <1>2, <2>1
    <3>2. Issues(p, t, "CONNECT") => sh # "CLOSED"
      BY <1>2
    <3> HIDE DEF c, sh, k, l
    <3>3. QED
      BY <1>2, <2>2, <2>3, <3>1, <3>2, SoundLonger
  <2>4. QED
    BY <1>1, <1>2, <2>3, BeginFine
<1>3. CASE Connect(t)
  <2> DEFINE p == <<SetReg(t, [DIPR |-> 1, DPORT |-> 1]), Command(t, "CONNECT")>>
  <2>1. Plan(p)
    BY LifePlans
  <2>2. OpensFirst(p, t) /\ ~Opening(p, t)
    BY PlansOrder
  <2>3. Begin(t, "connect", p) /\ sockets[t].SR # "CLOSED"
    BY <1>3 DEF Connect
  <2> HIDE DEF p
  <2>4. QED
    BY <1>2, <2>1, <2>2, <2>3
<1>4. CASE Disconnect(t)
  <2> DEFINE p == <<Command(t, "DISCON")>>
  <2>1. Plan(p)
    BY LifePlans
  <2>2. OpensFirst(p, t) /\ ~Opening(p, t) /\ ~Issues(p, t, "CONNECT")
    BY PlansOrder DEF Moves
  <2>3. Begin(t, "disconnect", p) /\ sockets[t].SR \notin Early
    BY <1>4 DEF Disconnect, Early
  <2> HIDE DEF p
  <2>4. QED
    BY <1>2, <2>1, <2>2, <2>3
<1>5. CASE Close(t)
  <2> DEFINE p == <<Command(t, "CLOSE")>>
  <2>1. Plan(p)
    BY LifePlans
  <2>2. OpensFirst(p, t) /\ ~Opening(p, t) /\ ~Issues(p, t, "CONNECT") /\ Issues(p, t, "CLOSE")
    BY PlansOrder DEF Moves
  <2>3. Begin(t, "close", p)
    BY <1>5 DEF Close
  <2> HIDE DEF p
  <2>4. QED
    BY <1>2, <2>1, <2>2, <2>3
<1>6. QED
  BY <1>3, <1>4, <1>5

\* socket begins with nothing left in the driver.
LEMMA SocketCallFine ==
    ASSUME NEW sole, WhenSettled, Base(sole), Own(call), Fine(chip, Now(TRUE), call), NEW t \in Sock,
           SocketCall(t)
    PROVE  Fine(chip, Now(TRUE), call)'
<1> DEFINE d == Now(TRUE)
           e == [d EXCEPT !.sk = sockets']
<1>1. /\ command_queue = <<>> /\ bus = "none" /\ chip[t].CR = "NONE"
      /\ sockets[t].SR = "CLOSED" /\ Idling(t) /\ Begin(t, "socket", OpenCommands(t))
      /\ UNCHANGED <<command_queue, running_cmd, bus, enqueueFails, failures, chip>>
      /\ sockets' = [sockets EXCEPT ![t] =
             [@ EXCEPT !.tx_buf_queue = <<>>, !.rx_buf_queue = <<>>,
                       !.is_sending = FALSE, !.is_receiving = FALSE]]
  BY DEF SocketCall, Settled
<1>2. /\ Inv(sole) /\ Tasks(call) /\ Holds(d, chip, sole) /\ DOMAIN d = DriverFields /\ d.q = <<>>
      /\ d.run = running_cmd /\ d.bus = "none" /\ d.sk = sockets /\ d.fails = enqueueFails
      /\ d.err = failures
  BY <1>1 DEF Base, Inv, Now, DriverFields
<1> HIDE DEF d
<1>3. Driver(d) /\ Busy(d) /\ Shadows(sockets)
  BY <1>2 DEF Holds, Driver
<1>4. /\ DOMAIN e = DriverFields /\ e.q = <<>> /\ e.run = d.run /\ e.bus = "none"
      /\ e.sk = sockets' /\ e.fails = d.fails /\ e.err = d.err /\ e.hal = d.hal
  BY <1>2 DEF DriverFields
<1> HIDE DEF e
<1>5. /\ Shadows(sockets')
      /\ \A s \in Sock : sockets'[s].CR = sockets[s].CR /\ sockets'[s].SR = sockets[s].SR
  <2>1. \A s \in Sock : s # t => sockets'[s] = sockets[s]
    BY <1>1, <1>3 DEF Shadows
  <2>2. /\ DOMAIN sockets' = Sock /\ DOMAIN sockets'[t] = DOMAIN sockets[t]
        /\ sockets'[t].CR = sockets[t].CR /\ sockets'[t].SR = sockets[t].SR
        /\ sockets'[t].is_receiving = FALSE
    BY <1>1, <1>3 DEF Shadows
  <2>3. QED
    BY <1>3, <2>1, <2>2 DEF Shadows
<1>6. SameOrders(d, e)
  BY <1>2, <1>4, <1>5 DEF SameOrders
<1>7. Become(e) /\ chip' = chip /\ TRUE \in HalOutcomes
  BY <1>1, <1>2, <1>4 DEF Become, HalOutcomes
<1>8. Plan(OpenCommands(t))
  <2>1. "OPEN" # "NONE"
    OBVIOUS
  <2>2. QED
    BY <2>1, LifePlans
<1>9. /\ \A s \in Sock : s # t => call'[s] = call[s]
      /\ call'[t].op = "socket" /\ call'[t].todo = OpenCommands(t)
  BY <1>1, <1>2, <1>8, BeginFacts
<1>10. ASSUME NEW s \in Sock, ~e.fails, FineFor(s, chip, d, call)
       PROVE  FineFor(s, chip, e, call)
  <2>1. Serves(d, e, s)
    BY <1>3, <1>6, SameOrdersServe
  <2>2. Queue(call[s].todo)
    BY <1>2, TodoIs
  <2>3. QED
    BY <1>3, <1>10, <2>1, <2>2, FineServes
<1>11. ASSUME FineFor(t, chip, d, call)  PROVE  FineFor(t, chip, e, call')
  <2>1. Held(chip[t], t) = <<>> /\ call[t].todo = <<>>
    BY <1>1 DEF Held, Own, Idling
  <2>2. Line(d) = <<>> /\ Line(e) = <<>>
    <3>1. Driver(e) /\ Busy(e)
      BY <1>3, <1>6, SameOrdersServe DEF Serves
    <3>2. QED
      BY <1>2, <1>3, <1>4, <3>1, LineIs
  <2>3. Queue(OpenCommands(t)) /\ Queue(<<>>)
    BY <1>8, NoCommands DEF Plan
  <2>4. Waiting(chip[t], d, call[t], t) = <<>>
    BY <2>1, <2>2, <2>3, JoinedWithNothing DEF Waiting
  <2>5. Waiting(chip[t], e, call'[t], t) = OpenCommands(t)
    BY <1>9, <2>1, <2>2, <2>3, JoinedWithNothing DEF Waiting
  <2>6. Seen(d, t) = {} /\ Seen(e, t) = {}
    BY <1>2, <1>4 DEF Seen
  <2>7. Sound(t, <<>>, chip[t], sockets[t].SR, {}, call[t])
    BY <1>2, <1>11, <2>4, <2>6 DEF FineFor
  <2> DEFINE c == chip[t]
             sh == sockets[t].SR
             k == call[t]
             l == call'[t]
             V == OpenCommands(t)
  <2>8. OpensFirst(V, t) /\ Opening(V, t) /\ ~Moving(V, t) /\ ModeFirst(V, t)
    BY PlansOrder
  <2>9. sh = "CLOSED" /\ l.op = "socket" /\ Sound(t, <<>>, c, sh, {}, k)
    BY <1>1, <1>9, <2>7
  <2> HIDE DEF c, sh, k, l, V
  <2>10. Sound(t, V, c, sh, {}, l)
    BY <2>8, <2>9, SoundSocket
  <2>11. Repeatable(e, t)
    BY <1>4 DEF Repeatable
  <2>12. QED
    BY <1>2, <1>4, <1>5, <2>5, <2>6, <2>10, <2>11 DEF FineFor, c, sh, l, V
<1>12. QED
  BY <1>2, <1>4, <1>7, <1>9, <1>10, <1>11, TaskFine DEF d

\* A command that a call queues comes behind what waits for the bus and in front of
\* what the call has still to queue.
LEMMA PushFollows ==
    ASSUME NEW d, Driver(d), Busy(d), NEW e, Driver(e), Busy(e), NEW l, Queue(l),
           NEW p, Queue(p), NEW q, Queue(q), NEW s,
           Follows(Line(d) \o l, Line(e), s), Follows(p, l \o q, s)
    PROVE  Follows(Line(d) \o p, Line(e) \o q, s)
<1> DEFINE D == Line(d)
           E == Line(e)
           x == l \o q
<1>1. Queue(D) /\ Queue(E) /\ Queue(x) /\ Queue(D \o l)
  BY LineIs, Joined
<1>2. Follows(D \o l, E, s) /\ Follows(p, x, s)
  OBVIOUS
<1> HIDE DEF D, E
<1>3. (D \o l) \o q = D \o x
  BY <1>1, JoinedTwice
<1> HIDE DEF x
<1>4. Follows(D \o p, D \o x, s)
  BY <1>1, <1>2, FollowsJoined
<1> DEFINE y == D \o l
<1>5. Queue(y) /\ Follows(y, E, s) /\ y \o q = D \o x
  BY <1>1, <1>2, <1>3
<1> HIDE DEF y
<1>6. Follows(y \o q, E \o q, s)
  BY <1>1, <1>5, FollowsJoined
<1>7. Follows(D \o p, E \o q, s)
  BY <1>4, <1>5, <1>6, FollowsOn
<1>8. QED
  BY <1>7 DEF D, E

\* A blocking call queues a command of its socket.
LEMMA PushFine ==
    ASSUME NEW sole, Base(sole), Fine(chip, Now(TRUE), call), chip' = chip, NEW t \in Sock,
           NEW c, WellFormed(c), c.sn = t, NEW hal \in HalOutcomes,
           Become(PushBacks(Now(hal), <<c>>)),
           \A s \in Sock : s # t => call'[s] = call[s],
           call'[t].op = call[t].op, call'[t].ret = call[t].ret, Queue(call'[t].todo),
           Follows(call[t].todo, <<c>> \o call'[t].todo, t)
    PROVE  Fine(chip, Now(TRUE), call)'
<1> DEFINE d == Now(hal)
           l == <<c>>
           e == PushBacks(d, l)
<1>1. Inv(sole) /\ Tasks(call)
  BY DEF Base
<1>2. Driver(d) /\ Busy(d)
  BY <1>1, HandlerStarts DEF Holds
<1>3. Queue(l) /\ l # <<>> /\ Len(l) = 1 /\ l[1] = c
  BY OneCommand
<1>4. Become(e)
  OBVIOUS
<1>5. e = PushBacks(d, l)
  OBVIOUS
<1>6. Follows(call[t].todo, l \o call'[t].todo, t)
  OBVIOUS
<1> HIDE DEF d, l, e
<1>7. ASSUME NEW s
      PROVE  /\ Driver(e) /\ Busy(e) /\ e.sk = d.sk
             /\ ~Idle(d) => e.run = d.run /\ e.bus = d.bus
             /\ Idle(d) => e.bus # "done"
             /\ ~e.fails => /\ ~d.fails /\ Follows(Line(d) \o l, Line(e), s)
                            /\ Repeatable(d, s) => Repeatable(e, s)
  BY <1>2, <1>3, <1>5, PushBacksServe
<1>8. ASSUME NEW s \in Sock, s # t, ~e.fails, FineFor(s, chip, d, call)
      PROVE  FineFor(s, chip, e, call)
  <2>1. Plain(l, s)
    BY <1>3, <1>8, PlainQueue
  <2>2. Queue(Line(d)) /\ Queue(call[s].todo)
    BY <1>1, <1>2, LineIs, TodoIs
  <2>3. Follows(Line(d), Line(d) \o l, s)
    BY <1>3, <2>1, <2>2, PlainPut
  <2>4. Serves(d, e, s)
    BY <1>7, <2>3, FollowsOn DEF Serves
  <2>5. QED
    BY <1>2, <1>8, <2>2, <2>4, FineServes
<1>9. ASSUME ~e.fails, FineFor(t, chip, d, call)  PROVE  FineFor(t, chip, e, call')
  <2> DEFINE r == chip[t]
             k == call[t]
             n == call'[t]
             sh == d.sk[t].SR
             T == Seen(d, t)
             U == Seen(e, t)
             p == k.todo
             q == n.todo
             W == Waiting(r, d, k, t)
             V == Waiting(r, e, n, t)
  <2>1. Queue(p) /\ Queue(q)
    BY <1>1, TodoIs
  <2>2. Follows(p, l \o q, t)
    BY <1>6
  <2>3. n.op = k.op /\ n.ret = k.ret /\ p = k.todo /\ q = n.todo
    OBVIOUS
  <2>4. U \subseteq T
    BY <1>7 DEF Seen
  <2>5. Sound(t, W, r, sh, T, k) /\ Repeatable(e, t)
    BY <1>7, <1>9 DEF FineFor
  <2>6. W = Waiting(r, d, k, t) /\ V = Waiting(r, e, n, t)
    OBVIOUS
  <2> HIDE DEF r, k, n, sh, T, U, p, q, W, V
  <2>7. Follows(Line(d) \o p, Line(e) \o q, t)
    <3>1. Driver(e) /\ Busy(e) /\ Follows(Line(d) \o l, Line(e), t)
      BY <1>7, <1>9
    <3>2. QED
      BY <1>2, <1>3, <2>1, <2>2, <3>1, PushFollows
  <2>8. Follows(W, V, t)
    <3>1. Driver(e) /\ Busy(e)
      BY <1>7
    <3>2. Follows(Line(d) \o k.todo, Line(e) \o n.todo, t) /\ Queue(k.todo) /\ Queue(n.todo)
      BY <2>1, <2>3, <2>7
    <3>3. Follows(Waiting(r, d, k, t), Waiting(r, e, n, t), t)
      BY <1>2, <3>1, <3>2, WaitingOn
    <3>4. QED
      BY <2>6, <3>3
  <2>9. GoesOn(k, n, r)
    BY <2>3 DEF GoesOn
  <2>10. Alike(W, V, t) /\ (ModeFirst(W, t) => ModeFirst(V, t))
    BY <2>8 DEF Follows
  <2>11. Sound(t, V, r, sh, U, n)
    BY <2>4, <2>5, <2>9, <2>10, SoundOn
  <2>12. e.sk[t].SR = sh
    BY <1>7 DEF sh
  <2>13. QED
    BY <2>5, <2>11, <2>12 DEF FineFor, V, r, n, U
<1>10. ~e.fails => ~d.fails
  BY <1>7
<1>11. QED
  BY <1>1, <1>4, <1>8, <1>9, <1>10, TaskFine DEF d

\* The next command of a call's plan, or the queue is full.
LEMMA EnqueueFine ==
    ASSUME NEW sole, Base(sole), Own(call), Fine(chip, Now(TRUE), call), NEW t \in Sock, Enqueue(t)
    PROVE  Fine(chip, Now(TRUE), call)'
<1> DEFINE k == call[t]
           h == Head(k.todo)
           q == Tail(k.todo)
           r == [k EXCEPT !.todo = q]
<1>1. /\ Tasks(call) /\ chip' = chip /\ k.todo # <<>> /\ QueueCommand(t, h, r)
  BY DEF Base, Enqueue
<1>2. CASE Return(t, "QUEUE_FULL") /\ UNCHANGED driver
  BY <1>1, <1>2, ReturnFine
<1>3. CASE /\ \E hal \in HalOutcomes : Become(PushBacks(Now(hal), <<h>>))
           /\ call' = [call EXCEPT ![t] = r]
  <2>1. PICK hal \in HalOutcomes : Become(PushBacks(Now(hal), <<h>>))
    BY <1>3
  <2>2. WellFormed(h) /\ Plan(q) /\ k.todo = <<h>> \o q
    BY <1>1, WaitsFormed
  <2>3. h.sn = t
    <3>1. Queue(k.todo) /\ \A i \in 1 .. Len(k.todo) : k.todo[i].sn = t
      BY <1>1, TodoIs DEF Own
    <3>2. 1 \in 1 .. Len(k.todo) /\ h = k.todo[1]
      <4>1. k.todo \in Seq(Range(k.todo))
        BY <3>1 DEF Queue
      <4> DEFINE p == k.todo
      <4>2. p \in Seq(Range(p)) /\ p # <<>>
        BY <1>1, <4>1
      <4> HIDE DEF p
      <4>3. 1 \in 1 .. Len(p) /\ Head(p) = p[1]
        BY <4>2
      <4>4. QED
        BY <4>3 DEF p
    <3>3. QED
      BY <3>1, <3>2
  <2>4. /\ \A s \in Sock : s # t => call'[s] = call[s]
        /\ call'[t].op = call[t].op /\ call'[t].ret = call[t].ret
        /\ call'[t].todo = r.todo
    BY <1>1, <1>3, ContinueFacts
  <2>5. r.todo = q
    BY <1>1 DEF Tasks
  <2>6. Queue(call'[t].todo)
    BY <2>2, <2>4, <2>5 DEF Plan
  <2>7. Follows(call[t].todo, <<h>> \o call'[t].todo, t)
    BY <2>2, <2>4, <2>5, FollowsOn
  <2> HIDE DEF h
  <2>8. QED
    BY <1>1, <2>1, <2>2, <2>3, <2>4, <2>6, <2>7, PushFine
<1>4. QED
  BY <1>1, <1>2, <1>3 DEF QueueCommand

\* The polling loops: the status is as it should be, is asked for once more, or is
\* given up.
LEMMA PollFine ==
    ASSUME NEW sole, Base(sole), Fine(chip, Now(TRUE), call), NEW t \in Sock, PollNoIT(t) \/ PollWithIT(t)
    PROVE  Fine(chip, Now(TRUE), call)'
<1> DEFINE k == call[t]
           c == ReadStatus(t)
           r == [k EXCEPT !.polled = TRUE]
<1>1. Tasks(call) /\ chip' = chip /\ k.ret = "running" /\ k.todo = <<>>
  BY DEF Base, PollNoIT, PollWithIT, Idling, vars
<1>2. ASSUME NEW ret, Return(t, ret), UNCHANGED driver,
             ret = "OK" => (k.op = "disconnect" => sockets[t].SR = "CLOSED"),
             ret # "running"
      PROVE  Fine(chip, Now(TRUE), call)'
  BY <1>1, <1>2, ReturnFine
<1>3. CASE /\ \E hal \in HalOutcomes : Become(PushBacks(Now(hal), <<c>>))
           /\ call' = [call EXCEPT ![t] = r]
  <2>1. PICK hal \in HalOutcomes : Become(PushBacks(Now(hal), <<c>>))
    BY <1>3
  <2>2. WellFormed(c) /\ c.cmd_type = "READ_REG" /\ c.sn = t
    <3>1. {"SR"} \subseteq Registers
      BY DEF Registers
    <3>2. QED
      BY <3>1, ReadsFormed DEF ReadStatus
  <2>3. /\ \A s \in Sock : s # t => call'[s] = call[s]
        /\ call'[t].op = call[t].op /\ call'[t].ret = call[t].ret
        /\ call'[t].todo = r.todo
    BY <1>1, <1>3, ContinueFacts
  <2>4. r.todo = <<>>
    BY <1>1 DEF Tasks
  <2>5. Queue(<<>>)
    BY NoCommands
  <2> HIDE DEF c
  <2>6. Follows(<<>>, <<c>> \o <<>>, t)
    <3> DEFINE a == <<c>>
    <3>1. Queue(a) /\ Len(a) = 1 /\ a[1] = c
      BY <2>2, OneCommand
    <3> HIDE DEF a
    <3>2. \A i \in 1 .. Len(a) : ForData(a[i])
      BY <2>2, <3>1 DEF ForData
    <3>3. Plain(a, t)
      BY <3>1, <3>2, PlainQueue
    <3>4. Follows(<<>>, a \o <<>>, t)
      BY <2>5, <3>1, <3>3, PlainPut
    <3>5. QED
      BY <3>4 DEF a
  <2>7. Queue(call'[t].todo) /\ Follows(call[t].todo, <<c>> \o call'[t].todo, t)
    BY <1>1, <2>3, <2>4, <2>5, <2>6
  <2>8. QED
    BY <1>1, <2>1, <2>2, <2>3, <2>7, PushFine
<1>4. CASE PollNoIT(t)
  <2>1. CASE Return(t, "OK") /\ UNCHANGED driver /\ sockets[t].SR = Wanted(t)
    <3>1. k.op = "disconnect" => Wanted(t) = "CLOSED"
      BY DEF Wanted
    <3>2. QED
      BY <1>2, <2>1, <3>1
  <2>2. CASE (Return(t, "TIMEOUT") \/ Return(t, "QUEUE_FULL")) /\ UNCHANGED driver
    BY <1>2, <2>2
  <2>3. QED
    BY <1>3, <1>4, <2>1, <2>2 DEF PollNoIT, QueueCommand
<1>5. CASE PollWithIT(t)
  <2>1. UNCHANGED driver /\ k.op = "connect"
    BY <1>5 DEF PollWithIT, vars
  <2>2. Return(t, "OK") \/ Return(t, "TCP_TIMEOUT") \/ Return(t, "TIMEOUT")
    BY <1>5 DEF PollWithIT
  <2>3. QED
    BY <1>2, <2>1, <2>2
<1>6. QED
  BY <1>4, <1>5

\* The plans of the calls hold commands of their own socket, and a call returns when
\* it has queued all of them or given them up.
LEMMA OwnStays ==
    ASSUME Tasks(call), Own(call), NEW t \in Sock, Calls(t) \/ Waits(t)
    PROVE  Own(call')
<1>1. ASSUME \A s \in Sock : s # t => call'[s] = call[s],
             \A i \in 1 .. Len(call'[t].todo) : call'[t].todo[i].sn = t,
             call'[t].ret # "running" => call'[t].todo = <<>>
      PROVE  Own(call')
  BY <1>1 DEF Own
<1>2. ASSUME NEW op, NEW p, Plan(p), Begin(t, op, p), \A i \in 1 .. Len(p) : p[i].sn = t
      PROVE  Own(call')
  BY <1>1, <1>2, BeginFacts
<1>3. ASSUME NEW ret, Return(t, ret)  PROVE  Own(call')
  <2>1. (\A s \in Sock : s # t => call'[s] = call[s]) /\ call'[t].todo = <<>>
    BY <1>3, ReturnFacts
  <2>2. Len(<<>>) = 0
    BY EmptySeq
  <2>3. QED
    BY <1>1, <2>1, <2>2
<1>4. CASE Calls(t)
  <2>1. "CONNECT" # "NONE" /\ "DISCON" # "NONE" /\ "CLOSE" # "NONE"
    OBVIOUS
  <2>2. /\ Plan(OpenCommands(t)) /\ Plan(<<Command(t, "DISCON")>>) /\ Plan(<<Command(t, "CLOSE")>>)
        /\ Plan(<<SetReg(t, [DIPR |-> 1, DPORT |-> 1]), Command(t, "CONNECT")>>)
    BY <2>1, LifePlans
  <2>3. /\ \A val : SetReg(t, val).sn = t
        /\ \A cr : Command(t, cr).sn = t
        /\ \A regs : GetReg(t, regs).sn = t
    BY DEF Command, SetReg, GetReg, Cmd
  <2>4. \A i \in 1 .. Len(OpenCommands(t)) : OpenCommands(t)[i].sn = t
    <3> DEFINE a == SetReg(t, [MR |-> IF t \in Tcp THEN "TCP" ELSE "UDP"])
               b == Command(t, "OPEN")
               x == GetReg(t, {"TX_FSR", "TX_WR"})
               y == GetReg(t, {"RX_RSR", "RX_RD"})
    <3>1. a.sn = t /\ b.sn = t /\ x.sn = t /\ y.sn = t
      BY <2>3
    <3>2. OpenCommands(t) = <<a, b, x, y>>
      BY DEF OpenCommands
    <3> HIDE DEF a, b, x, y
    <3>3. \A i \in 1 .. Len(<<a, b, x, y>>) : <<a, b, x, y>>[i].sn = t
      BY <3>1
    <3>4. QED
      BY <3>2, <3>3
  <2>5. \A cr : \A i \in 1 .. Len(<<Command(t, cr)>>) : <<Command(t, cr)>>[i].sn = t
    <3>1. ASSUME NEW c, c.sn = t  PROVE \A i \in 1 .. Len(<<c>>) : <<c>>[i].sn = t
      BY <3>1
    <3>2. QED
      BY <2>3, <3>1
  <2>6. LET p == <<SetReg(t, [DIPR |-> 1, DPORT |-> 1]), Command(t, "CONNECT")>>
        IN  \A i \in 1 .. Len(p) : p[i].sn = t
    <3>1. ASSUME NEW a, NEW b, a.sn = t, b.sn = t
          PROVE  \A i \in 1 .. Len(<<a, b>>) : <<a, b>>[i].sn = t
      BY <3>1
    <3>2. QED
      BY <2>3, <3>1
  <2>7. QED
    BY <1>2, <1>4, <2>2, <2>4, <2>5, <2>6 DEF Calls, SocketCall, Connect, Disconnect, Close
<1>5. ASSUME NEW r, call' = [call EXCEPT ![t] = r],
             \/ call[t].todo # <<>> /\ r = [call[t] EXCEPT !.todo = Tail(@)]
             \/ call[t].todo = <<>> /\ r = [call[t] EXCEPT !.polled = TRUE]
      PROVE  Own(call')
  <2>1. /\ \A s \in Sock : s # t => call'[s] = call[s]
        /\ call'[t].ret = call[t].ret /\ call'[t].todo = r.todo
    BY <1>5, ContinueFacts
  <2>2. CASE call[t].todo = <<>> /\ r = [call[t] EXCEPT !.polled = TRUE]
    <3>1. r.todo = <<>> /\ Len(<<>>) = 0
      BY <2>2, EmptySeq DEF Tasks
    <3>2. QED
      BY <1>1, <2>1, <3>1
  <2>3. CASE call[t].todo # <<>> /\ r = [call[t] EXCEPT !.todo = Tail(@)]
    <3> DEFINE p == call[t].todo
    <3>1. r.todo = Tail(p)
      BY <2>3 DEF Tasks
    <3>2. Queue(p) /\ p # <<>> /\ \A i \in 1 .. Len(p) : p[i].sn = t
      BY <2>3, TodoIs DEF Own
    <3> HIDE DEF p
    <3>3. p \in Seq(Range(p))
      BY <3>2 DEF Queue
    <3>4. Len(Tail(p)) = Len(p) - 1 /\ \A i \in 1 .. Len(Tail(p)) : Tail(p)[i] = p[i + 1]
      BY <3>2, <3>3
    <3>5. \A i \in 1 .. Len(Tail(p)) : Tail(p)[i].sn = t
      BY <3>2, <3>3, <3>4
    <3>6. call[t].ret = "running"
      BY <2>3 DEF Own
    <3>7. QED
      BY <1>1, <2>1, <3>1, <3>5, <3>6
  <2>4. QED
    BY <1>5, <2>2, <2>3
<1>6. CASE Enqueue(t)
  BY <1>3, <1>5, <1>6 DEF Enqueue, QueueCommand
<1>7. CASE PollNoIT(t)
  BY <1>3, <1>5, <1>7 DEF PollNoIT, QueueCommand
<1>8. CASE PollWithIT(t)
  BY <1>3, <1>8 DEF PollWithIT
<1>9. QED
  BY <1>4, <1>6, <1>7, <1>8 DEF Waits

\* Before the first call every socket is closed, and nothing waits.
LEMMA LifeAtStart == LifeInit => LifeInv
<1> SUFFICES ASSUME LifeInit PROVE LifeInv
  OBVIOUS
<1>1. Base({})
  BY BaseAtStart
<1> DEFINE d == Now(TRUE)
           closed == Overlay(Opened("CLOSED"), [MR |-> "NONE"])
           rest == [tx_buf |-> [a \in 0 .. TxBufLen - 1 |-> Junk], tx_buf_queue |-> <<>>,
                    rx_buf |-> [a \in 0 .. RxBufLen - 1 |-> Junk], rx_buf_queue |-> <<>>,
                    is_sending |-> FALSE, is_receiving |-> FALSE]
           none == [op |-> "none", ret |-> "OK", todo |-> <<>>, polled |-> FALSE]
<1>2. d.q = <<>> /\ d.bus = "none" /\ d.sk = sockets /\ Driver(d) /\ Busy(d)
  BY <1>1 DEF Base, Inv, Holds, Now, LifeInit
<1>3. /\ chip = [s \in Sock |-> closed]
      /\ sockets = [s \in Sock |-> Overlay(Shadow(closed), rest)]
      /\ call = [s \in Sock |-> none]
  BY DEF LifeInit
<1>4. none.op = "none" /\ none.todo = <<>>
  OBVIOUS
<1>5. closed.CR = "NONE" /\ closed.SR = "CLOSED"
  BY DEF Opened, Overlay
<1>6. DOMAIN rest = {"tx_buf", "tx_buf_queue", "rx_buf", "rx_buf_queue",
                     "is_sending", "is_receiving"}
  OBVIOUS
<1> HIDE DEF closed, rest, none, d
<1>7. Overlay(Shadow(closed), rest).SR = "CLOSED"
  BY <1>5, <1>6 DEF Overlay, Shadow
<1>8. Own(call)
  <2>1. Len(<<>>) = 0
    BY EmptySeq
  <2>2. QED
    BY <1>3, <1>4, <2>1 DEF Own
<1>9. ASSUME NEW s \in Sock  PROVE FineFor(s, chip, d, call)
  <2>1. /\ chip[s].CR = "NONE" /\ chip[s].SR = "CLOSED" /\ d.sk[s].SR = "CLOSED"
        /\ call[s].op = "none" /\ call[s].todo = <<>>
    BY <1>2, <1>3, <1>4, <1>5, <1>7
  <2>2. Queue(<<>>)
    BY NoCommands
  <2>3. Line(d) = <<>>
    BY <1>2, LineIs
  <2>4. Waiting(chip[s], d, call[s], s) = <<>>
    BY <2>1, <2>2, <2>3, JoinedWithNothing DEF Waiting, Held
  <2>5. Seen(d, s) = {} /\ Repeatable(d, s)
    BY <1>2 DEF Seen, Repeatable
  <2>6. OpensFirst(<<>>, s) /\ \A cr : ~Issues(<<>>, s, cr)
    BY NothingOrdered
  <2>7. Sound(s, <<>>, chip[s], d.sk[s].SR, {}, call[s])
    BY <2>1, <2>6 DEF Sound, Dead, Opening
  <2>8. QED
    BY <2>4, <2>5, <2>7 DEF FineFor
<1>10. QED
  BY <1>1, <1>8, <1>9 DEF LifeInv, Fine, d

\* Every step keeps the invariant.
LEMMA LifeStep ==
    ASSUME WhenSettled, SureWrites, LifeInv, [LifeNext]_allvars
    PROVE  LifeInv'
<1>1. Base({}) /\ Own(call) /\ Fine(chip, Now(TRUE), call) /\ Inv({})
  BY DEF LifeInv, Base
<1>2. Base({})' /\ Inv({})'
  BY <1>1, BaseStep DEF Base, LifeInv, Alone
<1>3. call' = call => Own(call')
  BY <1>1
<1>4. ASSUME NEW s \in Sock, Calls(s) \/ Waits(s)  PROVE LifeInv'
  <2>1. Own(call')
    BY <1>1, <1>4, OwnStays DEF Base
  <2>2. Fine(chip, Now(TRUE), call)'
    BY <1>1, <1>4, SocketCallFine, CallsFine, EnqueueFine, PollFine DEF Calls, Waits
  <2>3. QED
    BY <1>2, <2>1, <2>2 DEF LifeInv
<1>5. CASE \/ \E s \in Sock : ConnectionSteps(s) \/ PeerReset(s)
           \/ Network /\ UNCHANGED call
  <2>1. PICK s \in Sock : UNCHANGED <<driver, call>> /\ ChipMoves(s)
    BY <1>1, <1>5, ChipSideMoves DEF Base
  <2>2. Fine(chip, Now(TRUE), call)'
    BY <1>1, <2>1, ChipFine
  <2>3. QED
    BY <1>2, <1>3, <2>1, <2>2 DEF LifeInv
<1>6. CASE DataCall
  <2>1. PICK s \in Sock : (\E len, dst : Send(s, len, dst)) \/ Recv(s) \/ RecvFrom(s)
    BY <1>6 DEF DataCall
  <2>2. call' = call
    BY <1>6 DEF DataCall, lifecycle
  <2>3. Fine(chip, Now(TRUE), call)'
    BY <1>1, <2>1, <2>2, SendFine, RecvFine
  <2>4. QED
    BY <1>2, <1>3, <2>2, <2>3 DEF LifeInv
<1>7. CASE Transfer /\ UNCHANGED lifecycle
  <2>1. call' = call
    BY <1>7 DEF lifecycle
  <2>2. Fine(chip, Now(TRUE), call)'
    BY <1>1, <1>2, <1>7, <2>1, TransferFine
  <2>3. QED
    BY <1>2, <1>3, <2>1, <2>2 DEF LifeInv
<1>8. CASE (SpiComplete \/ SpiError \/ Exti \/ Timer) /\ UNCHANGED lifecycle
  <2>1. call' = call
    BY <1>8 DEF lifecycle
  <2>2. Fine(chip, Now(TRUE), call)'
    BY <1>1, <1>8, <2>1, CompleteFine, ErrorFine, ExtiFine, TimerFine
  <2>3. QED
    BY <1>2, <1>3, <2>1, <2>2 DEF LifeInv
<1>9. CASE UNCHANGED allvars
  <2>1. UNCHANGED <<driver, chip, call>>
    BY <1>9 DEF allvars, vars, lifecycle
  <2>2. Become(Now(TRUE)) /\ Fine(chip', Now(TRUE), call')
    BY <1>1, <2>1 DEF Become, Now, driver
  <2>3. Fine(chip, Now(TRUE), call)'
    BY <2>2, FineEnds
  <2>4. QED
    BY <1>2, <1>3, <2>1, <2>3 DEF LifeInv
<1>10. QED
  BY <1>4, <1>5, <1>6, <1>7, <1>8, <1>9 DEF LifeNext

\* The invariant says where a socket at rest has been left.
LEMMA LifeInvHolds ==
    ASSUME LifeInv, ~enqueueFails
    PROVE  LastCallHolds
<1> SUFFICES ASSUME NEW s \in Sock, Quiet(s), call[s].ret = "OK"
             PROVE  /\ call[s].op \in {"close", "disconnect"} => chip[s].SR = "CLOSED"
                    /\ call[s].op = "socket" => chip[s].SR \in {"INIT", "UDP"}
  BY DEF LastCallHolds
<1> DEFINE d == Now(TRUE)
<1>1. /\ Driver(d) /\ Busy(d) /\ Own(call) /\ FineFor(s, chip, d, call)
      /\ d.q = command_queue /\ d.bus = bus /\ d.sk = sockets
  BY DEF LifeInv, Base, Inv, Holds, Fine, Now
<1> HIDE DEF d
<1>2. d.q = <<>> /\ d.bus = "none" /\ chip[s].CR = "NONE" /\ call[s].todo = <<>>
  BY <1>1 DEF Quiet, Settled, Own, Idling
<1>3. Line(d) = <<>>
  BY <1>1, <1>2, LineIs
<1>4. Queue(<<>>)
  BY NoCommands
<1>5. Waiting(chip[s], d, call[s], s) = <<>>
  BY <1>2, <1>3, <1>4, JoinedWithNothing DEF Waiting, Held
<1>6. Sound(s, <<>>, chip[s], d.sk[s].SR, Seen(d, s), call[s])
  BY <1>1, <1>5 DEF FineFor
<1>7. \A cr : ~Issues(<<>>, s, cr)
  BY NothingOrdered
<1>8. QED
  BY <1>6, <1>7 DEF Sound, Dead, Opening

\* socket, disconnect, close: when everything has come to rest the chip is where the
\* last call that reported success left it, whatever the interrupts, the other
\* sockets, the peer and the calls before it have done meanwhile.
THEOREM LastCallStands ==
    ASSUME WhenSettled, "WRITE_REG" \notin LateErrors
    PROVE  LifeSpec => [](~enqueueFails => LastCallHolds)
<1>1. LifeInv /\ [LifeNext]_allvars => LifeInv'
  BY LifeStep DEF SureWrites
<1>2. LifeInv => (~enqueueFails => LastCallHolds)
  BY LifeInvHolds
<1>3. QED
  BY <1>1, <1>2, LifeAtStart, PTL DEF LifeSpec
================================================================================
