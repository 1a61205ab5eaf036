--------------------------- MODULE W5500Driver_proofs ---------------------------
(***************************************************************************)
(* Proofs about the command queue of the driver, for every number of       *)
(* sockets, every queue size and all buffers: the bus never stands still   *)
(* with commands waiting unless a transfer failed, and, as long as no      *)
(* command was dropped by a full queue, is_receiving stands for exactly    *)
(* one CHECK_RCV and Sn_CR is written only while it is free; and, as long  *)
(* as no transfer has failed either, is_sending stands for exactly one     *)
(* SEND, from the queue to the look at its outcome, and what a queued      *)
(* transfer takes from a send buffer is the oldest segment.                *)
(***************************************************************************)
EXTENDS W5500Driver, TLAPS, FiniteSetTheorems, SequenceTheorems, WellFoundedInduction

-------------------------------------------------------------------------------
(***************************************************************************)
(* Commands and queues of commands.                                        *)
(***************************************************************************)
Fields == {"cmd_type", "sn", "val", "ptr", "len", "hdr"}

Types == {"WRITE_REG", "WRITE_BUF", "READ_REG", "READ_BUF", "READ_SIR", "READ_SOC",
          "CHECK_RCV", "CHECK_TX_FSR"}

\* The registers a read can ask for.
Registers == {"CR", "IR", "SR", "TX_FSR", "TX_WR", "RX_RSR", "RX_RD"}

\* The registers a write can address.
Writable == {"MR", "CR", "IR", "DIPR", "DPORT", "TX_WR", "RX_RD"}

\* What the driver writes: a write to Sn_CR or Sn_MR writes nothing else, a command
\* is never empty, and the mode is the one the socket is used in.
Settable(s, val) ==
    /\ DOMAIN val \subseteq Writable
    /\ "CR" \in DOMAIN val => DOMAIN val = {"CR"} /\ val.CR # "NONE"
    /\ "MR" \in DOMAIN val => DOMAIN val = {"MR"} /\ (s \in Tcp => val.MR = "TCP")

\* A command the driver queues: only the common registers have no socket, what
\* a read returns is never the driver's own bookkeeping, and only a READ_REG asks
\* for Sn_CR or Sn_SR.
WellFormed(c) ==
    /\ DOMAIN c = Fields
    /\ c.cmd_type \in Types
    /\ c.cmd_type # "READ_SIR" => c.sn \in Sock
    /\ c.cmd_type = "WRITE_REG" => Settable(c.sn, c.val)
    /\ c.cmd_type = "READ_REG" => DOMAIN c.val \subseteq Registers
    /\ c.cmd_type \in {"CHECK_RCV", "CHECK_TX_FSR"} =>
           DOMAIN c.val \subseteq Registers \ {"CR", "SR"}

Queue(q) == q \in Seq(Range(q)) /\ \A i \in 1 .. Len(q) : WellFormed(q[i])

\* What the two invariants look for in a queue.
Asks(c, s)   == c.cmd_type = "CHECK_RCV" /\ c.sn = s
Looks(c, s)  == c.cmd_type = "READ_REG" /\ c.sn = s /\ "CR" \in DOMAIN c.val
Orders(c, s) == IsCommandWrite(c) /\ c.sn = s

\* The commands of data calls and interrupts write neither the mode nor any command
\* but SEND and RECV.
ForData(c) ==
    c.cmd_type = "WRITE_REG" =>
        /\ "MR" \notin DOMAIN c.val
        /\ "CR" \in DOMAIN c.val => c.val.CR \in {"SEND", "RECV"}
AllForData(q) == \A i \in 1 .. Len(q) : ForData(q[i])

Never(q, s) == \A i \in 1 .. Len(q) : ~Asks(q[i], s)
Once(q, s)  == \E k \in 1 .. Len(q) : \A i \in 1 .. Len(q) : Asks(q[i], s) <=> i = k

\* Sn_CR is read before the next command is written to it.
LooksFirst(q, s) ==
    \E k \in 1 .. Len(q) : /\ Looks(q[k], s)
                           /\ \A j \in 1 .. k - 1 : ~Orders(q[j], s)

-------------------------------------------------------------------------------
(***************************************************************************)
(* The inductive invariant, on a state d of the driver.  In the middle of  *)
(* a handler, done says that the command on the bus has had its effect and *)
(* only waits to be replaced.                                              *)
(***************************************************************************)
Shadows(sk) ==
    /\ DOMAIN sk = Sock
    /\ \A s \in Sock : /\ {"CR", "SR", "is_receiving"} \subseteq DOMAIN sk[s]
                       /\ sk[s].is_receiving \in BOOLEAN

\* The parts of a state that hold all along, also within a handler.
Driver(d) ==
    /\ DOMAIN d = {"q", "run", "bus", "sk", "fails", "err", "hal"}
    /\ Queue(d.q) /\ Shadows(d.sk)
    /\ d.fails \in BOOLEAN /\ d.err \in Nat /\ d.hal \in BOOLEAN

\* The bus is busy with a command, or failed, or there is nothing to do.
Busy(d) ==
    /\ d.bus \in {"none", "shift", "poll", "done"}
    /\ (d.bus = "none") = Idle(d)
    /\ ~Idle(d) => WellFormed(d.run)
    /\ d.bus = "poll" => IsCommandWrite(d.run)
    /\ Idle(d) /\ d.q # <<>> => d.err > 0

NoneLeft(d, done, s) == (done \/ ~Asks(d.run, s)) /\ Never(d.q, s)
OneLeft(d, done, s) ==
    \/ ~done /\ Asks(d.run, s) /\ Never(d.q, s)
    \/ (done \/ ~Asks(d.run, s)) /\ Once(d.q, s)

\* is_receiving stands for a CHECK_RCV to come: for one at least, and for the sockets of
\* sole for exactly one.  A socket that is closed and opened again may have more.
Receiving(d, done, sole) ==
    \A s \in Sock :
        /\ d.sk[s].is_receiving => ~NoneLeft(d, done, s)
        /\ s \in sole => IF d.sk[s].is_receiving THEN OneLeft(d, done, s)
                                                  ELSE NoneLeft(d, done, s)

\* A command in the chip's register is known to the driver, or the register
\* will be read before the next command is written.
Known(d, done, ch) ==
    \A s \in Sock : ch[s].CR # "NONE" =>
        \/ d.sk[s].CR # "NONE"
        \/ ~done /\ Looks(d.run, s)
        \/ LooksFirst(d.q, s)

\* The command on the bus is written to a free register, which is read next;
\* a register that was read empty is still empty; a poll has its reason.
OnTheBus(d, ch) ==
    /\ d.bus = "shift" /\ IsCommandWrite(d.run) =>
           ch[d.run.sn].CR = "NONE" /\ LooksFirst(d.q, d.run.sn)
    /\ d.bus = "done" /\ d.run.cmd_type = "READ_REG" /\ "CR" \in DOMAIN d.run.val =>
           (d.run.val.CR = "NONE" => ch[d.run.sn].CR = "NONE")
    /\ d.bus = "poll" => d.sk[d.run.sn].CR # "NONE"

\* A write that failed after its bytes had moved would be repeated, although
\* the chip has the command already.
SureWrites == "WRITE_REG" \notin LateErrors

Kept(d, done, ch, sole) ==
    /\ Receiving(d, done, sole)
    /\ SureWrites => Known(d, done, ch) /\ OnTheBus(d, ch)

Chip(ch) == DOMAIN ch = Sock /\ \A s \in Sock : {"CR", "IR"} \subseteq DOMAIN ch[s]

Holds(d, ch, sole) ==
    /\ Driver(d) /\ Busy(d) /\ Chip(ch)
    /\ d.bus = "done" /\ d.run.cmd_type = "READ_SIR" => d.run.val.SIR \subseteq Sock
    /\ ~d.fails => Kept(d, FALSE, ch, sole)

Inv(sole) == Holds(Now(TRUE), chip, sole)

-------------------------------------------------------------------------------
(***************************************************************************)
(* Queues of commands, and what the invariants look for in them.           *)
(***************************************************************************)
\* A sequence over any set of well-formed commands is a queue.
LEMMA QueueOver ==
    ASSUME NEW S, NEW q \in Seq(S), \A i \in 1 .. Len(q) : WellFormed(q[i])
    PROVE  Queue(q)
<1>1. Len(q) \in Nat /\ q \in [1 .. Len(q) -> S] /\ DOMAIN q = 1 .. Len(q)
  BY LenProperties
<1>2. q \in [1 .. Len(q) -> Range(q)]
  BY <1>1 DEF Range
<1>3. q \in Seq(Range(q))
  BY <1>1, <1>2, SeqDef
<1>4. QED
  BY <1>3 DEF Queue

\* A queue is a sequence, indexed from 1.
LEMMA QueueIsSequence ==
    ASSUME NEW q, Queue(q)
    PROVE  /\ q \in Seq(Range(q)) /\ Len(q) \in Nat /\ DOMAIN q = 1 .. Len(q)
           /\ \A i \in 1 .. Len(q) : WellFormed(q[i])
  BY LenProperties DEF Queue

\* The empty queue holds nothing.
LEMMA NoCommands ==
    Queue(<<>>) /\ \A s : Never(<<>>, s) /\ ~Once(<<>>, s) /\ ~LooksFirst(<<>>, s)
<1>1. <<>> \in Seq({}) /\ Len(<<>>) = 0
  BY EmptySeq
<1>2. Queue(<<>>)
  <2> DEFINE e == <<>>
  <2>1. e \in Seq({}) /\ \A i \in 1 .. Len(e) : WellFormed(e[i])
    BY <1>1
  <2> HIDE DEF e
  <2>2. Queue(e)
    BY <2>1, QueueOver
  <2>3. QED
    BY <2>2 DEF e
<1>3. QED
  BY <1>1, <1>2 DEF Never, Once, LooksFirst

\* Two queues, one behind the other, are a queue.
LEMMA Joined ==
    ASSUME NEW p, Queue(p), NEW q, Queue(q)
    PROVE  /\ Queue(p \o q) /\ Len(p \o q) = Len(p) + Len(q)
           /\ \A i \in 1 .. Len(p) : (p \o q)[i] = p[i]
           /\ \A i \in 1 .. Len(q) : (p \o q)[i + Len(p)] = q[i]
           /\ \A i \in 1 .. Len(p \o q) : i \in 1 .. Len(p) \/ i - Len(p) \in 1 .. Len(q)
<1> DEFINE S == Range(p) \cup Range(q)
<1>1. Len(p) \in Nat /\ Len(q) \in Nat
  BY QueueIsSequence
<1>2. p \in Seq(S) /\ q \in Seq(S)
  BY QueueIsSequence, SeqMonotonic
<1> HIDE DEF S
<1>3. /\ p \o q \in Seq(S) /\ Len(p \o q) = Len(p) + Len(q)
      /\ \A i \in 1 .. Len(p) + Len(q) :
            (p \o q)[i] = IF i <= Len(p) THEN p[i] ELSE q[i - Len(p)]
  BY <1>2, ConcatProperties
<1>4. \A i \in 1 .. Len(p) : (p \o q)[i] = p[i]
  BY <1>1, <1>3
<1>5. \A i \in 1 .. Len(q) : (p \o q)[i + Len(p)] = q[i]
  BY <1>1, <1>3
<1>6. \A i \in 1 .. Len(p \o q) : i \in 1 .. Len(p) \/ i - Len(p) \in 1 .. Len(q)
  BY <1>1, <1>3
<1>7. \A i \in 1 .. Len(p \o q) : WellFormed((p \o q)[i])
  <2>1. TAKE i \in 1 .. Len(p \o q)
  <2>2. CASE i \in 1 .. Len(p)
    BY <2>2, <1>4, QueueIsSequence
  <2>3. CASE i - Len(p) \in 1 .. Len(q)
    <3>1. (p \o q)[i] = q[i - Len(p)]
      BY <1>1, <1>3, <2>3
    <3>2. QED
      BY <3>1, <2>3, QueueIsSequence
  <2>4. QED
    BY <1>6, <2>2, <2>3
<1>8. Queue(p \o q)
  BY <1>3, <1>7, QueueOver
<1>9. QED
  BY <1>3, <1>4, <1>5, <1>6, <1>8

\* What two queues, one behind the other, hold.
LEMMA JoinedHolds ==
    ASSUME NEW p, Queue(p), NEW q, Queue(q), NEW s
    PROVE  /\ Never(p \o q, s) <=> Never(p, s) /\ Never(q, s)
           /\ Once(p, s) /\ Never(q, s) => Once(p \o q, s)
           /\ Never(p, s) /\ Once(q, s) => Once(p \o q, s)
           /\ LooksFirst(p, s) => LooksFirst(p \o q, s)
           /\ (\A i \in 1 .. Len(p) : ~Orders(p[i], s)) /\ LooksFirst(q, s)
                 => LooksFirst(p \o q, s)
<1> DEFINE r == p \o q
<1>1. /\ Len(p) \in Nat /\ Len(q) \in Nat /\ Len(r) = Len(p) + Len(q)
      /\ \A i \in 1 .. Len(p) : r[i] = p[i]
      /\ \A i \in 1 .. Len(q) : r[i + Len(p)] = q[i]
  <2>1. Len(p) \in Nat /\ Len(q) \in Nat
    BY QueueIsSequence
  <2>2. QED
    BY <2>1, Joined
<1>2. \A i \in 1 .. Len(r) : \/ i \in 1 .. Len(p) /\ r[i] = p[i]
                             \/ /\ i - Len(p) \in 1 .. Len(q)
                                /\ r[i] = q[i - Len(p)] /\ i = (i - Len(p)) + Len(p)
  <2>1. TAKE i \in 1 .. Len(r)
  <2>2. CASE i \in 1 .. Len(p)
    BY <2>2, <1>1
  <2>3. CASE ~(i \in 1 .. Len(p))
    <3>1. i - Len(p) \in 1 .. Len(q) /\ (i - Len(p)) + Len(p) = i
      BY <2>3, <1>1
    <3>2. QED
      BY <3>1, <1>1
  <2>4. QED
    BY <2>2, <2>3
<1>3. /\ \A i \in 1 .. Len(p) : i \in 1 .. Len(r)
      /\ \A i \in 1 .. Len(q) : i + Len(p) \in 1 .. Len(r)
  BY <1>1
<1> HIDE DEF r
<1>4. Never(r, s) <=> Never(p, s) /\ Never(q, s)
  <2>1. Never(p, s) /\ Never(q, s) => Never(r, s)
    BY <1>2 DEF Never
  <2>2. Never(r, s) => Never(p, s) /\ Never(q, s)
    BY <1>1, <1>3 DEF Never
  <2>3. QED
    BY <2>1, <2>2
<1>5. ASSUME Once(p, s), Never(q, s)  PROVE  Once(r, s)
  <2>1. PICK k \in 1 .. Len(p) : \A i \in 1 .. Len(p) : Asks(p[i], s) <=> i = k
    BY <1>5 DEF Once
  <2>2. \A i \in 1 .. Len(r) : Asks(r[i], s) <=> i = k
    BY <1>1, <1>2, <1>5, <2>1 DEF Never
  <2>3. QED
    BY <1>3, <2>2 DEF Once
<1>6. ASSUME Never(p, s), Once(q, s)  PROVE  Once(r, s)
  <2>1. PICK k \in 1 .. Len(q) : \A i \in 1 .. Len(q) : Asks(q[i], s) <=> i = k
    BY <1>6 DEF Once
  <2>2. \A i \in 1 .. Len(r) : Asks(r[i], s) <=> i = k + Len(p)
    BY <1>1, <1>2, <1>6, <2>1 DEF Never
  <2>3. QED
    BY <1>3, <2>2 DEF Once
<1>7. ASSUME LooksFirst(p, s)  PROVE  LooksFirst(r, s)
  <2>1. PICK k \in 1 .. Len(p) : /\ Looks(p[k], s)
                                 /\ \A j \in 1 .. k - 1 : ~Orders(p[j], s)
    BY <1>7 DEF LooksFirst
  <2>2. \A j \in 1 .. k - 1 : j \in 1 .. Len(p)
    BY <1>1
  <2>3. QED
    BY <1>1, <1>3, <2>1, <2>2 DEF LooksFirst
<1>8. ASSUME \A i \in 1 .. Len(p) : ~Orders(p[i], s), LooksFirst(q, s)
      PROVE  LooksFirst(r, s)
  <2>1. PICK k \in 1 .. Len(q) : /\ Looks(q[k], s)
                                 /\ \A j \in 1 .. k - 1 : ~Orders(q[j], s)
    BY <1>8 DEF LooksFirst
  <2>2. k + Len(p) \in 1 .. Len(r) /\ Looks(r[k + Len(p)], s)
    BY <1>1, <1>3, <2>1
  <2>3. \A j \in 1 .. (k + Len(p)) - 1 :
           /\ j \in 1 .. Len(r)
           /\ j - Len(p) \in 1 .. Len(q) => j - Len(p) \in 1 .. k - 1
    BY <1>1
  <2>4. \A j \in 1 .. (k + Len(p)) - 1 : ~Orders(r[j], s)
    BY <1>2, <1>8, <2>1, <2>3
  <2>5. QED
    BY <2>2, <2>4 DEF LooksFirst
<1>9. QED
  BY <1>4, <1>5, <1>6, <1>7, <1>8 DEF r

\* Two queues for data, one behind the other.
LEMMA JoinedForData ==
    ASSUME NEW p, Queue(p), NEW q, Queue(q), AllForData(p), AllForData(q)
    PROVE  AllForData(p \o q)
<1> DEFINE r == p \o q
<1>1. /\ \A i \in 1 .. Len(p) : r[i] = p[i]
      /\ \A i \in 1 .. Len(q) : r[i + Len(p)] = q[i]
      /\ \A i \in 1 .. Len(r) : i \in 1 .. Len(p) \/ i - Len(p) \in 1 .. Len(q)
  BY Joined
<1>2. Len(p) \in Nat /\ Len(q) \in Nat
  BY QueueIsSequence
<1> HIDE DEF r
<1>3. ASSUME NEW i \in 1 .. Len(r)  PROVE  ForData(r[i])
  <2>1. CASE i \in 1 .. Len(p)
    BY <1>1, <2>1 DEF AllForData
  <2>2. CASE i - Len(p) \in 1 .. Len(q)
    <3>1. (i - Len(p)) + Len(p) = i
      BY <1>2
    <3>2. QED
      BY <1>1, <2>2, <3>1 DEF AllForData
  <2>3. QED
    BY <1>1, <2>1, <2>2
<1>4. QED
  BY <1>3 DEF AllForData, r

\* A queue of one command.
LEMMA OneCommand ==
    ASSUME NEW c, WellFormed(c)
    PROVE  /\ Queue(<<c>>) /\ Len(<<c>>) = 1 /\ <<c>>[1] = c
           /\ \A s : /\ Never(<<c>>, s) <=> ~Asks(c, s)
                     /\ Asks(c, s) => Once(<<c>>, s)
                     /\ Looks(c, s) => LooksFirst(<<c>>, s)
<1> DEFINE q == <<c>>
<1>1. q \in Seq({c}) /\ Len(q) = 1 /\ q[1] = c /\ \A i \in 1 .. Len(q) : i = 1
  OBVIOUS
<1> HIDE DEF q
<1>2. \A i \in 1 .. Len(q) : WellFormed(q[i])
  BY <1>1
<1>3. Queue(q)
  BY <1>1, <1>2, QueueOver
<1>4. 1 \in 1 .. Len(q) /\ 1 .. 1 - 1 = {}
  BY <1>1
<1>5. ASSUME NEW s
      PROVE  /\ Never(q, s) <=> ~Asks(c, s)
             /\ Asks(c, s) => Once(q, s)
             /\ Looks(c, s) => LooksFirst(q, s)
  BY <1>1, <1>4 DEF Never, Once, LooksFirst
<1>6. QED
  BY <1>1, <1>3, <1>5 DEF q

\* What a queue holds with a command in front of it.
LEMMA FrontHolds ==
    ASSUME NEW q, Queue(q), NEW c, WellFormed(c)
    PROVE  /\ Queue(<<c>> \o q) /\ <<c>> \o q # <<>>
           /\ \A s :
                /\ Never(<<c>> \o q, s) <=> ~Asks(c, s) /\ Never(q, s)
                /\ ~Asks(c, s) /\ Once(q, s) => Once(<<c>> \o q, s)
                /\ Asks(c, s) /\ Never(q, s) => Once(<<c>> \o q, s)
                /\ Looks(c, s) => LooksFirst(<<c>> \o q, s)
                /\ ~Orders(c, s) /\ LooksFirst(q, s) => LooksFirst(<<c>> \o q, s)
<1>1. Queue(<<c>>) /\ Len(<<c>>) = 1 /\ <<c>>[1] = c
  BY OneCommand
<1>2. \A i \in 1 .. Len(<<c>>) : <<c>>[i] = c
  BY <1>1
<1>3. Queue(<<c>> \o q) /\ Len(<<c>> \o q) = 1 + Len(q)
  BY <1>1, Joined
<1>4. Len(q) \in Nat /\ 1 + Len(q) # 0
  BY QueueIsSequence
<1>5. <<c>> \o q # <<>>
  BY <1>3, <1>4, EmptySeq
<1>6. ASSUME NEW s
      PROVE  /\ Never(<<c>> \o q, s) <=> ~Asks(c, s) /\ Never(q, s)
             /\ ~Asks(c, s) /\ Once(q, s) => Once(<<c>> \o q, s)
             /\ Asks(c, s) /\ Never(q, s) => Once(<<c>> \o q, s)
             /\ Looks(c, s) => LooksFirst(<<c>> \o q, s)
             /\ ~Orders(c, s) /\ LooksFirst(q, s) => LooksFirst(<<c>> \o q, s)
  <2>1. /\ Never(<<c>>, s) <=> ~Asks(c, s)
        /\ Asks(c, s) => Once(<<c>>, s)
        /\ Looks(c, s) => LooksFirst(<<c>>, s)
    BY OneCommand
  <2>2. ~Orders(c, s) => \A i \in 1 .. Len(<<c>>) : ~Orders(<<c>>[i], s)
    BY <1>2
  <2>3. QED
    BY <1>1, <2>1, <2>2, JoinedHolds
<1>7. QED
  BY <1>3, <1>5, <1>6

\* The first command of a queue, and what the rest holds.
LEMMA HeadHolds ==
    ASSUME NEW q, Queue(q), q # <<>>
    PROVE  /\ WellFormed(Head(q)) /\ Queue(Tail(q)) /\ q = <<Head(q)>> \o Tail(q)
           /\ \A s :
                /\ Never(q, s) <=> ~Asks(Head(q), s) /\ Never(Tail(q), s)
                /\ Once(q, s) => \/ Asks(Head(q), s) /\ Never(Tail(q), s)
                                 \/ ~Asks(Head(q), s) /\ Once(Tail(q), s)
                /\ LooksFirst(q, s) => \/ Looks(Head(q), s)
                                       \/ ~Orders(Head(q), s) /\ LooksFirst(Tail(q), s)
<1> DEFINE c == Head(q)
           t == Tail(q)
           S == Range(q)
<1>1. q \in Seq(S) /\ Len(q) \in Nat /\ \A i \in 1 .. Len(q) : WellFormed(q[i])
  BY QueueIsSequence
<1> HIDE DEF S
<1>2. /\ c \in S /\ t \in Seq(S) /\ Len(t) = Len(q) - 1 /\ Len(q) # 0
      /\ \A i \in 1 .. Len(q) - 1 : t[i] = q[i + 1]
      /\ c = q[1]
  BY <1>1, HeadTailProperties, EmptySeq
<1>3. /\ 1 \in 1 .. Len(q)
      /\ \A i \in 1 .. Len(t) : i + 1 \in 1 .. Len(q) /\ t[i] = q[i + 1]
      /\ \A i \in 1 .. Len(q) : i = 1 \/ (i - 1 \in 1 .. Len(t) /\ (i - 1) + 1 = i)
  BY <1>1, <1>2
<1>4. q = <<c>> \o t
  <2>1. <<c>> \in Seq(S) /\ Len(<<c>>) = 1 /\ <<c>>[1] = c
    BY <1>2
  <2> DEFINE r == <<c>> \o t
  <2>2. /\ r \in Seq(S) /\ Len(r) = 1 + Len(t)
        /\ \A i \in 1 .. 1 + Len(t) : r[i] = IF i <= 1 THEN <<c>>[i] ELSE t[i - 1]
    BY <1>2, <2>1, ConcatProperties
  <2> HIDE DEF r
  <2>3. Len(r) = Len(q) /\ \A i \in 1 .. Len(q) : q[i] = r[i]
    BY <1>1, <1>2, <1>3, <2>1, <2>2
  <2>4. q = r
    BY <1>1, <2>2, <2>3, SeqEqual
  <2>5. QED
    BY <2>4 DEF r
<1>5. WellFormed(c) /\ \A i \in 1 .. Len(t) : WellFormed(t[i])
  BY <1>1, <1>2, <1>3
<1>6. Queue(t)
  BY <1>2, <1>5, QueueOver
<1> HIDE DEF c, t
<1>7. ASSUME NEW s  PROVE  Never(q, s) <=> ~Asks(c, s) /\ Never(t, s)
  BY <1>4, <1>5, <1>6, FrontHolds
<1>8. ASSUME NEW s, Once(q, s)
      PROVE  (Asks(c, s) /\ Never(t, s)) \/ (~Asks(c, s) /\ Once(t, s))
  <2>1. PICK k \in 1 .. Len(q) : \A i \in 1 .. Len(q) : Asks(q[i], s) <=> i = k
    BY <1>8 DEF Once
  <2>2. CASE k = 1
    <3>1. Asks(c, s)
      BY <1>2, <1>3, <2>1, <2>2
    <3>2. \A i \in 1 .. Len(t) : i + 1 # 1
      OBVIOUS
    <3>3. \A i \in 1 .. Len(t) : ~Asks(t[i], s)
      BY <1>3, <2>1, <2>2, <3>2
    <3>4. QED
      BY <3>1, <3>3 DEF Never
  <2>3. CASE k # 1
    <3>1. ~Asks(c, s)
      BY <1>2, <1>3, <2>1, <2>3
    <3>2. k - 1 \in 1 .. Len(t) /\ \A i \in 1 .. Len(t) : i + 1 = k <=> i = k - 1
      BY <1>3, <2>3
    <3>3. \A i \in 1 .. Len(t) : Asks(t[i], s) <=> i = k - 1
      BY <1>3, <2>1, <3>2
    <3>4. QED
      BY <3>1, <3>2, <3>3 DEF Once
  <2>4. QED
    BY <2>2, <2>3
<1>9. ASSUME NEW s, LooksFirst(q, s)
      PROVE  Looks(c, s) \/ (~Orders(c, s) /\ LooksFirst(t, s))
  <2>1. PICK k \in 1 .. Len(q) : /\ Looks(q[k], s)
                                 /\ \A j \in 1 .. k - 1 : ~Orders(q[j], s)
    BY <1>9 DEF LooksFirst
  <2>2. CASE k = 1
    BY <1>2, <2>1, <2>2
  <2>3. CASE k # 1
    <3>1. k - 1 \in 1 .. Len(t) /\ (k - 1) + 1 = k /\ 1 \in 1 .. k - 1
      BY <1>3, <2>3
    <3>2. ~Orders(c, s) /\ Looks(t[k - 1], s)
      BY <1>2, <1>3, <2>1, <3>1
    <3>3. \A j \in 1 .. (k - 1) - 1 : j \in 1 .. Len(t) /\ j + 1 \in 1 .. k - 1
      BY <3>1, <1>1, <1>2
    <3>4. \A j \in 1 .. (k - 1) - 1 : ~Orders(t[j], s)
      BY <1>3, <2>1, <3>3
    <3>5. QED
      BY <3>1, <3>2, <3>4 DEF LooksFirst
  <2>4. QED
    BY <2>2, <2>3
<1>10. QED
  BY <1>4, <1>5, <1>6, <1>7, <1>8, <1>9 DEF c, t

-------------------------------------------------------------------------------
(***************************************************************************)
(* The steps of a handler.                                                 *)
(***************************************************************************)
DriverFields == {"q", "run", "bus", "sk", "fails", "err", "hal"}

\* queuePushFront puts the command in front or counts a failure.
LEMMA PutInFront ==
    ASSUME NEW d, Driver(d), NEW c, WellFormed(c), NEW e, e = InFront(d, c)
    PROVE  /\ Driver(e) /\ e.run = d.run /\ e.bus = d.bus /\ e.sk = d.sk
           /\ e.err = d.err /\ e.hal = d.hal
           /\ ~e.fails => ~d.fails /\ e.q = <<c>> \o d.q
<1>1. DOMAIN d = DriverFields /\ Queue(d.q) /\ Shadows(d.sk)
      /\ d.fails \in BOOLEAN /\ d.err \in Nat /\ d.hal \in BOOLEAN
  BY DEF Driver, DriverFields
<1>2. CASE Full(d)
  <2>1. e = [d EXCEPT !.fails = TRUE]
    BY <1>2 DEF InFront
  <2>2. /\ DOMAIN e = DriverFields /\ e.q = d.q /\ e.run = d.run /\ e.bus = d.bus
        /\ e.sk = d.sk /\ e.err = d.err /\ e.hal = d.hal /\ e.fails = TRUE
    BY <1>1, <2>1 DEF DriverFields
  <2>3. QED
    BY <1>1, <2>2 DEF Driver, DriverFields
<1>3. CASE ~Full(d)
  <2>1. e = [d EXCEPT !.q = <<c>> \o d.q]
    BY <1>3 DEF InFront
  <2>2. /\ DOMAIN e = DriverFields /\ e.q = <<c>> \o d.q /\ e.run = d.run /\ e.bus = d.bus
        /\ e.sk = d.sk /\ e.err = d.err /\ e.hal = d.hal /\ e.fails = d.fails
    BY <1>1, <2>1 DEF DriverFields
  <2>3. Queue(e.q)
    BY <1>1, <2>2, FrontHolds
  <2>4. QED
    BY <1>1, <2>2, <2>3 DEF Driver, DriverFields
<1>4. QED
  BY <1>2, <1>3

\* handleSPIFailure frees the bus and keeps the command, or counts a failure.
LEMMA FailedKeeps ==
    ASSUME NEW d, Driver(d), WellFormed(d.run), NEW e, e = Failed(d)
    PROVE  /\ Driver(e) /\ Idle(e) /\ e.run = IDLE_COMMAND /\ e.bus = "none"
           /\ e.sk = d.sk /\ e.err > 0
           /\ ~e.fails => ~d.fails /\ e.q = <<d.run>> \o d.q
<1> DEFINE f == InFront(d, d.run)
<1>1. /\ Driver(f) /\ f.sk = d.sk /\ f.err = d.err
      /\ ~f.fails => ~d.fails /\ f.q = <<d.run>> \o d.q
  BY PutInFront
<1>2. e = [f EXCEPT !.run = IDLE_COMMAND, !.bus = "none", !.err = f.err + 1]
  BY DEF Failed
<1> HIDE DEF f
<1>3. /\ DOMAIN f = DriverFields /\ Queue(f.q) /\ Shadows(f.sk)
      /\ f.fails \in BOOLEAN /\ f.err \in Nat /\ f.hal \in BOOLEAN
  BY <1>1 DEF Driver, DriverFields
<1>4. /\ DOMAIN e = DriverFields /\ e.q = f.q /\ e.run = IDLE_COMMAND /\ e.bus = "none"
      /\ e.sk = f.sk /\ e.err = f.err + 1 /\ e.hal = f.hal /\ e.fails = f.fails
  BY <1>2, <1>3 DEF DriverFields
<1>5. Driver(e) /\ e.err > 0
  BY <1>3, <1>4 DEF Driver, DriverFields
<1>6. IDLE_COMMAND.cmd_type = "IDLE"
  BY DEF IDLE_COMMAND, Cmd
<1>7. Idle(e)
  BY <1>4, <1>6 DEF Idle
<1>8. QED
  BY <1>1, <1>4, <1>5, <1>7

\* The capacity of the command queue is a number.
LEMMA CapacityIsNumber == COMMAND_QUEUE_SIZE \in Nat
<1>1. COMMAND_QUEUE_SIZE \in Nat \ {0}
  BY DriverAssumption
<1>2. QED
  BY <1>1

\* Commands appended to the queue are all there or a failure is counted.
LEMMA Appended ==
    ASSUME NEW d, Driver(d), NEW l, Queue(l), NEW e, e = AppendAll(d, l)
    PROVE  /\ Driver(e) /\ e.run = d.run /\ e.bus = d.bus /\ e.sk = d.sk
           /\ e.err = d.err /\ e.hal = d.hal
           /\ ~e.fails => ~d.fails /\ e.q = d.q \o l
<1>1. DOMAIN d = DriverFields /\ Queue(d.q) /\ Shadows(d.sk)
      /\ d.fails \in BOOLEAN /\ d.err \in Nat /\ d.hal \in BOOLEAN
  BY DEF Driver, DriverFields
<1> DEFINE room == COMMAND_QUEUE_SIZE - Len(d.q)
           n == IF Len(l) < room THEN Len(l) ELSE room
           p == SubSeq(l, 1, n)
<1>2. e = [d EXCEPT !.q = d.q \o p, !.fails = d.fails \/ Len(l) > room]
  BY DEF AppendAll
<1>3. Len(d.q) \in Nat /\ Len(l) \in Nat
  BY <1>1, QueueIsSequence
<1>4. l \in Seq(Range(l)) /\ \A i \in 1 .. Len(l) : WellFormed(l[i])
  BY QueueIsSequence
<1>5. room \in Int /\ n \in Int /\ n <= Len(l) /\ (~(Len(l) > room) => n = Len(l))
  <2>1. room \in Int
    BY <1>3, CapacityIsNumber
  <2> HIDE DEF room
  <2>2. QED
    BY <1>3, <2>1
<1> HIDE DEF room, n
<1>6. \A i \in 1 .. n : i \in 1 .. Len(l) /\ l[i] \in Range(l)
  BY <1>3, <1>4, <1>5, ElementOfSeq
<1>7. /\ p \in Seq(Range(l))
      /\ Len(p) = IF 1 <= n THEN n - 1 + 1 ELSE 0
      /\ \A i \in 1 .. n - 1 + 1 : p[i] = l[1 + i - 1]
  BY <1>5, <1>6, SubSeqProperties
<1> HIDE DEF p
<1>8. \A i \in 1 .. Len(p) : i \in 1 .. Len(l) /\ p[i] = l[i]
  BY <1>3, <1>5, <1>7
<1>9. Queue(p)
  BY <1>4, <1>7, <1>8, QueueOver
<1>10. Queue(d.q \o p)
  BY <1>1, <1>9, Joined
<1>11. ~(Len(l) > room) => p = l
  BY <1>3, <1>4, <1>5, <1>7, <1>8, SeqEqual
<1>12. /\ DOMAIN e = DriverFields /\ e.q = d.q \o p /\ e.run = d.run /\ e.bus = d.bus
       /\ e.sk = d.sk /\ e.err = d.err /\ e.hal = d.hal
       /\ e.fails = (d.fails \/ Len(l) > room)
  BY <1>1, <1>2 DEF DriverFields
<1>13. e.fails \in BOOLEAN
  BY <1>1, <1>12
<1>14. Driver(e)
  BY <1>1, <1>10, <1>12, <1>13 DEF Driver, DriverFields
<1>15. QED
  BY <1>11, <1>12, <1>14

\* The commands the driver queues are well formed.
LEMMA Commands ==
    ASSUME NEW s \in Sock
    PROVE  /\ \A val : Settable(s, val) =>
                  /\ WellFormed(SetReg(s, val)) /\ SetReg(s, val).cmd_type = "WRITE_REG"
           /\ WellFormed(GetReg(s, {"CR"})) /\ Looks(GetReg(s, {"CR"}), s)
           /\ GetReg(s, {"CR"}).cmd_type = "READ_REG"
           /\ \A ptr, len : /\ WellFormed(SetBuf(s, ptr, len)) /\ WellFormed(GetBuf(s, ptr, len))
                            /\ SetBuf(s, ptr, len).cmd_type = "WRITE_BUF"
                            /\ GetBuf(s, ptr, len).cmd_type = "READ_BUF"
           /\ WellFormed(ReadSoc(s)) /\ ReadSoc(s).cmd_type = "READ_SOC"
           /\ WellFormed(CheckRcv(s)) /\ CheckRcv(s).cmd_type = "CHECK_RCV"
           /\ CheckRcv(s).sn = s
           /\ WellFormed(CheckTxFsr(s)) /\ CheckTxFsr(s).cmd_type = "CHECK_TX_FSR"
           /\ WellFormed(ReadSir) /\ ReadSir.cmd_type = "READ_SIR"
<1>1. ASSUME NEW type \in Types
      PROVE  /\ DOMAIN Cmd(type, s) = Fields /\ Cmd(type, s).cmd_type = type
             /\ Cmd(type, s).sn = s /\ Cmd(type, s).val = NoRegs
  BY DEF Cmd, Fields
<1>2. DOMAIN NoRegs = {}
  BY DEF NoRegs
<1>3. ASSUME NEW val, Settable(s, val)
      PROVE  WellFormed(SetReg(s, val)) /\ SetReg(s, val).cmd_type = "WRITE_REG"
  <2>1. /\ DOMAIN SetReg(s, val) = Fields /\ SetReg(s, val).cmd_type = "WRITE_REG"
        /\ SetReg(s, val).sn = s /\ SetReg(s, val).val = val
    BY <1>1 DEF SetReg, Fields, Types
  <2>2. QED
    BY <1>3, <2>1 DEF WellFormed, IsCommandWrite, Types
<1>4. /\ WellFormed(GetReg(s, {"CR"})) /\ Looks(GetReg(s, {"CR"}), s)
      /\ GetReg(s, {"CR"}).cmd_type = "READ_REG"
  <2> DEFINE c == GetReg(s, {"CR"})
             val == [r \in {"CR"} |-> Unread[r]]
  <2>1. DOMAIN val = {"CR"}
    OBVIOUS
  <2> HIDE DEF val
  <2>2. /\ DOMAIN c = Fields /\ c.cmd_type = "READ_REG"
        /\ c.sn = s /\ c.val = val
    BY <1>1 DEF GetReg, Fields, Types, val
  <2> HIDE DEF c
  <2>3. WellFormed(c) /\ Looks(c, s)
    BY <2>1, <2>2 DEF WellFormed, IsCommandWrite, Types, Registers, Looks
  <2>4. QED
    BY <2>2, <2>3 DEF c
<1>5. ASSUME NEW ptr, NEW len
      PROVE  /\ WellFormed(SetBuf(s, ptr, len)) /\ WellFormed(GetBuf(s, ptr, len))
             /\ SetBuf(s, ptr, len).cmd_type = "WRITE_BUF"
             /\ GetBuf(s, ptr, len).cmd_type = "READ_BUF"
  <2>1. /\ DOMAIN SetBuf(s, ptr, len) = Fields /\ SetBuf(s, ptr, len).cmd_type = "WRITE_BUF"
        /\ SetBuf(s, ptr, len).sn = s
    BY <1>1 DEF SetBuf, Fields, Types
  <2>2. /\ DOMAIN GetBuf(s, ptr, len) = Fields /\ GetBuf(s, ptr, len).cmd_type = "READ_BUF"
        /\ GetBuf(s, ptr, len).sn = s
    BY <1>1 DEF GetBuf, Fields, Types
  <2>3. QED
    BY <2>1, <2>2 DEF WellFormed, IsCommandWrite, Types
<1>6. WellFormed(ReadSoc(s)) /\ ReadSoc(s).cmd_type = "READ_SOC"
  BY <1>1 DEF ReadSoc, WellFormed, IsCommandWrite, Types
<1>7. /\ WellFormed(CheckRcv(s)) /\ CheckRcv(s).cmd_type = "CHECK_RCV"
      /\ CheckRcv(s).sn = s
  BY <1>1, <1>2 DEF CheckRcv, WellFormed, IsCommandWrite, Types
<1>8. WellFormed(CheckTxFsr(s)) /\ CheckTxFsr(s).cmd_type = "CHECK_TX_FSR"
  BY <1>1, <1>2 DEF CheckTxFsr, WellFormed, IsCommandWrite, Types
<1>9. WellFormed(ReadSir) /\ ReadSir.cmd_type = "READ_SIR"
  BY DEF ReadSir, Cmd, WellFormed, IsCommandWrite, Types, Fields
<1>10. QED
  BY <1>3, <1>4, <1>5, <1>6, <1>7, <1>8, <1>9

\* dmaTXCompleteCallback puts the next command on the bus: it may only write to
\* a register that is known to be free, and it leaves a read of it in front.
LEMMA Started ==
    ASSUME NEW d, Driver(d), NEW ch, NEW e, e = Start(d)
    PROVE  /\ Driver(e) /\ Busy(e) /\ e.sk = d.sk /\ e.bus # "done"
           /\ Idle(e) /\ d.q # <<>> => e.err > 0
           /\ ~e.fails =>
                /\ ~d.fails
                /\ \A s : NoneLeft(e, FALSE, s) <=> Never(d.q, s)
                /\ \A s : Once(d.q, s) => OneLeft(e, FALSE, s)
                /\ Known(d, TRUE, ch) => Known(e, FALSE, ch) /\ OnTheBus(e, ch)
<1>1. DOMAIN d = DriverFields /\ Queue(d.q) /\ Shadows(d.sk)
      /\ d.fails \in BOOLEAN /\ d.err \in Nat /\ d.hal \in BOOLEAN
  BY DEF Driver, DriverFields
<1>2. IDLE_COMMAND.cmd_type = "IDLE"
  BY DEF IDLE_COMMAND, Cmd
<1>3. CASE d.q = <<>>
  <2>1. e = [d EXCEPT !.run = IDLE_COMMAND, !.bus = "none"]
    BY <1>3 DEF Start
  <2>2. /\ DOMAIN e = DriverFields /\ e.q = <<>> /\ e.run = IDLE_COMMAND /\ e.bus = "none"
        /\ e.sk = d.sk /\ e.err = d.err /\ e.hal = d.hal /\ e.fails = d.fails
    BY <1>1, <1>3, <2>1 DEF DriverFields
  <2>3. Driver(e)
    BY <1>1, <1>3, <2>2 DEF Driver, DriverFields
  <2>4. Busy(e)
    BY <1>2, <2>2 DEF Busy, Idle
  <2>5. \A s : ~Asks(e.run, s) /\ ~Looks(e.run, s)
    BY <1>2, <2>2 DEF Asks, Looks
  <2>6. Known(d, TRUE, ch) => Known(e, FALSE, ch)
    BY <1>3, <2>2 DEF Known
  <2>7. OnTheBus(e, ch)
    BY <2>2 DEF OnTheBus
  <2>8. QED
    BY <1>3, <2>2, <2>3, <2>4, <2>5, <2>6, <2>7 DEF NoneLeft, OneLeft
<1>4. CASE d.q # <<>>
  <2> DEFINE c == Head(d.q)
             t == Tail(d.q)
             p == [d EXCEPT !.q = Tail(d.q), !.run = c]
             b == [p EXCEPT !.bus = "shift"]
             w == [p EXCEPT !.bus = "poll"]
             g == GetReg(c.sn, {"CR"})
  <2>1. WellFormed(c) /\ Queue(t) /\ d.q = <<c>> \o t
    BY <1>1, <1>4, HeadHolds
  <2>2. /\ \A s : Never(d.q, s) <=> ~Asks(c, s) /\ Never(t, s)
        /\ \A s : Once(d.q, s) => \/ Asks(c, s) /\ Never(t, s)
                                  \/ ~Asks(c, s) /\ Once(t, s)
        /\ \A s : LooksFirst(d.q, s) => \/ Looks(c, s)
                                        \/ ~Orders(c, s) /\ LooksFirst(t, s)
    BY <1>1, <1>4, HeadHolds
  <2>3. e = IF ~d.hal THEN Failed(p)
            ELSE IF ~IsCommandWrite(c) THEN b
            ELSE IF d.sk[c.sn].CR # "NONE" THEN InFront(w, c)
            ELSE InFront(b, g)
    BY <1>4 DEF Start
  <2> HIDE DEF c, t
  <2>4. /\ DOMAIN p = DriverFields /\ p.q = t /\ p.run = c /\ p.sk = d.sk
        /\ p.err = d.err /\ p.hal = d.hal /\ p.fails = d.fails
    BY <1>1 DEF DriverFields, t
  <2> HIDE DEF p
  <2>5. Driver(p)
    BY <1>1, <2>1, <2>4 DEF Driver, DriverFields
  <2>6. /\ DOMAIN b = DriverFields /\ b.q = t /\ b.run = c /\ b.sk = d.sk /\ b.bus = "shift"
        /\ b.err = d.err /\ b.hal = d.hal /\ b.fails = d.fails
    BY <2>4 DEF DriverFields
  <2>7. /\ DOMAIN w = DriverFields /\ w.q = t /\ w.run = c /\ w.sk = d.sk /\ w.bus = "poll"
        /\ w.err = d.err /\ w.hal = d.hal /\ w.fails = d.fails
    BY <2>4 DEF DriverFields
  <2> HIDE DEF b, w
  <2>8. Driver(b) /\ Driver(w)
    BY <1>1, <2>1, <2>6, <2>7 DEF Driver, DriverFields
  <2>9. c.cmd_type \in Types /\ c.cmd_type # "IDLE"
    BY <2>1 DEF WellFormed, Types
  <2>10. IsCommandWrite(c) =>
            /\ c.sn \in Sock /\ WellFormed(g) /\ Looks(g, c.sn)
            /\ g.cmd_type = "READ_REG"
    BY <2>1, Commands DEF IsCommandWrite, WellFormed
  <2>11. IsCommandWrite(c) => \A s : ~Asks(c, s) /\ ~Looks(c, s)
    BY DEF IsCommandWrite, Asks, Looks
  <2>12. CASE ~d.hal
    <3>1. e = Failed(p)
      BY <2>3, <2>12
    <3>2. /\ Driver(e) /\ Idle(e) /\ e.run = IDLE_COMMAND /\ e.bus = "none"
          /\ e.sk = d.sk /\ e.err > 0
          /\ ~e.fails => ~d.fails /\ e.q = d.q
      BY <2>1, <2>4, <2>5, <3>1, FailedKeeps
    <3>3. Busy(e)
      BY <3>2 DEF Busy
    <3>4. \A s : ~Asks(e.run, s)
      BY <1>2, <3>2 DEF Asks
    <3>5. ~e.fails /\ Known(d, TRUE, ch) => Known(e, FALSE, ch)
      BY <3>2 DEF Known
    <3>6. OnTheBus(e, ch)
      BY <3>2 DEF OnTheBus
    <3>7. QED
      BY <3>2, <3>3, <3>4, <3>5, <3>6 DEF NoneLeft, OneLeft
  <2>13. CASE d.hal /\ ~IsCommandWrite(c)
    <3>1. e = b
      BY <2>3, <2>13
    <3>2. Busy(e) /\ ~Idle(e)
      BY <2>1, <2>6, <2>9, <3>1 DEF Busy, Idle
    <3>3. OnTheBus(e, ch)
      BY <2>6, <2>13, <3>1 DEF OnTheBus
    <3>4. Known(d, TRUE, ch) => Known(e, FALSE, ch)
      BY <2>2, <2>6, <3>1 DEF Known
    <3>5. \A s : NoneLeft(e, FALSE, s) <=> Never(d.q, s)
      BY <2>2, <2>6, <3>1 DEF NoneLeft
    <3>6. \A s : Once(d.q, s) => OneLeft(e, FALSE, s)
      BY <2>2, <2>6, <3>1 DEF OneLeft
    <3>7. QED
      BY <2>6, <2>8, <3>1, <3>2, <3>3, <3>4, <3>5, <3>6
  <2>14. CASE d.hal /\ IsCommandWrite(c) /\ d.sk[c.sn].CR # "NONE"
    <3>1. e = InFront(w, c)
      BY <2>3, <2>14
    <3>2. /\ Driver(e) /\ e.run = c /\ e.bus = "poll" /\ e.sk = d.sk
          /\ ~e.fails => ~d.fails /\ e.q = d.q
      BY <2>1, <2>7, <2>8, <3>1, PutInFront
    <3>3. Busy(e) /\ ~Idle(e)
      BY <2>1, <2>9, <2>14, <3>2 DEF Busy, Idle
    <3>4. ~e.fails /\ Known(d, TRUE, ch) => Known(e, FALSE, ch)
      BY <3>2 DEF Known
    <3>5. OnTheBus(e, ch)
      BY <2>14, <3>2 DEF OnTheBus
    <3>6. QED
      BY <2>11, <2>14, <3>2, <3>3, <3>4, <3>5 DEF NoneLeft, OneLeft
  <2>15. CASE d.hal /\ IsCommandWrite(c) /\ d.sk[c.sn].CR = "NONE"
    <3>1. e = InFront(b, g)
      BY <2>3, <2>15
    <3>2. /\ Driver(e) /\ e.run = c /\ e.bus = "shift" /\ e.sk = d.sk
          /\ ~e.fails => ~d.fails /\ e.q = <<g>> \o t
      BY <2>6, <2>8, <2>10, <2>15, <3>1, PutInFront
    <3>3. Busy(e) /\ ~Idle(e)
      BY <2>1, <2>9, <3>2 DEF Busy, Idle
    <3>4. \A s : ~Asks(g, s) /\ ~Orders(g, s)
      BY <2>10, <2>15 DEF Asks, Orders, IsCommandWrite
    <3>5. /\ \A s : Never(<<g>> \o t, s) <=> Never(t, s)
          /\ \A s : Once(t, s) => Once(<<g>> \o t, s)
          /\ \A s : LooksFirst(t, s) => LooksFirst(<<g>> \o t, s)
          /\ LooksFirst(<<g>> \o t, c.sn)
      BY <2>1, <2>10, <2>15, <3>4, FrontHolds
    <3>6. ASSUME ~e.fails, NEW s  PROVE  NoneLeft(e, FALSE, s) <=> Never(d.q, s)
      BY <2>2, <3>2, <3>5, <3>6 DEF NoneLeft
    <3>7. ASSUME ~e.fails, NEW s, Once(d.q, s)  PROVE  OneLeft(e, FALSE, s)
      BY <2>2, <2>11, <2>15, <3>2, <3>5, <3>7 DEF OneLeft
    <3>8. ASSUME ~e.fails, Known(d, TRUE, ch)  PROVE  Known(e, FALSE, ch) /\ OnTheBus(e, ch)
      <4>1. \A s : LooksFirst(d.q, s) => s # c.sn /\ LooksFirst(t, s)
        BY <2>2, <2>11, <2>15 DEF Orders
      <4>2. ch[c.sn].CR = "NONE"
        BY <2>10, <2>15, <3>8, <4>1 DEF Known
      <4>3. OnTheBus(e, ch)
        BY <3>2, <3>5, <3>8, <4>2 DEF OnTheBus
      <4>4. Known(e, FALSE, ch)
        BY <3>2, <3>5, <3>8, <4>1 DEF Known
      <4>5. QED
        BY <4>3, <4>4
    <3>9. QED
      BY <3>2, <3>3, <3>6, <3>7, <3>8
  <2>16. QED
    BY <1>1, <2>12, <2>13, <2>14, <2>15
<1>5. QED
  BY <1>3, <1>4

\* queuePushBack of a list, kickStartCommands included: what the driver still
\* has to do grows by the list.
LEMMA PushedBack ==
    ASSUME NEW d, Driver(d), Busy(d), NEW l, Queue(l), l # <<>>, NEW ch,
           NEW done \in BOOLEAN, done => ~Idle(d), NEW e, e = PushBacks(d, l)
    PROVE  /\ Driver(e) /\ Busy(e) /\ e.sk = d.sk
           /\ ~Idle(d) => e.run = d.run /\ e.bus = d.bus
           /\ Idle(d) => e.bus # "done"
           /\ ~e.fails =>
                /\ ~d.fails
                /\ \A s : NoneLeft(e, done, s) <=> Never(l, s) /\ NoneLeft(d, done, s)
                /\ \A s : Never(l, s) /\ OneLeft(d, done, s) => OneLeft(e, done, s)
                /\ \A s : Once(l, s) /\ NoneLeft(d, done, s) => OneLeft(e, done, s)
                /\ Known(d, done, ch) => Known(e, done, ch)
                /\ Known(d, done, ch) /\ OnTheBus(d, ch) => OnTheBus(e, ch)
<1>1. DOMAIN d = DriverFields /\ Queue(d.q) /\ Shadows(d.sk)
      /\ d.fails \in BOOLEAN /\ d.err \in Nat /\ d.hal \in BOOLEAN
  BY DEF Driver, DriverFields
<1>2. CASE d.q = <<>> /\ Idle(d)
  <2> DEFINE h == Head(l)
             t == Tail(l)
             f == [d EXCEPT !.q = <<h>>]
             g == Start(f)
  <2>1. WellFormed(h) /\ Queue(t)
    BY HeadHolds
  <2>2. /\ \A s : Never(l, s) <=> ~Asks(h, s) /\ Never(t, s)
        /\ \A s : Once(l, s) => \/ Asks(h, s) /\ Never(t, s)
                                \/ ~Asks(h, s) /\ Once(t, s)
    BY HeadHolds
  <2>3. e = AppendAll(g, t)
    BY <1>2 DEF PushBacks
  <2> HIDE DEF h, t
  <2>4. /\ Queue(<<h>>) /\ <<h>> # <<>>
        /\ \A s : /\ Never(<<h>>, s) <=> ~Asks(h, s)
                  /\ Asks(h, s) => Once(<<h>>, s)
    BY <2>1, OneCommand
  <2>5. /\ DOMAIN f = DriverFields /\ f.q = <<h>> /\ f.sk = d.sk
        /\ f.err = d.err /\ f.hal = d.hal /\ f.fails = d.fails
    BY <1>1 DEF DriverFields
  <2> HIDE DEF f
  <2>6. Driver(f)
    BY <1>1, <2>4, <2>5 DEF Driver, DriverFields
  <2>7. /\ Driver(g) /\ Busy(g) /\ g.sk = d.sk /\ g.bus # "done" /\ (Idle(g) => g.err > 0)
        /\ ~g.fails =>
             /\ ~d.fails
             /\ \A s : NoneLeft(g, FALSE, s) <=> Never(<<h>>, s)
             /\ \A s : Once(<<h>>, s) => OneLeft(g, FALSE, s)
             /\ Known(f, TRUE, ch) => Known(g, FALSE, ch) /\ OnTheBus(g, ch)
    BY <2>4, <2>5, <2>6, Started
  <2> HIDE DEF g
  <2>8. /\ Driver(e) /\ e.run = g.run /\ e.bus = g.bus /\ e.sk = g.sk /\ e.err = g.err
        /\ ~e.fails => ~g.fails /\ e.q = g.q \o t
    BY <2>1, <2>3, <2>7, Appended
  <2>9. Busy(e)
    BY <2>7, <2>8 DEF Busy, Idle
  <2>10. Queue(g.q)
    BY <2>7 DEF Driver
  <2>11. /\ \A s : Never(g.q \o t, s) <=> Never(g.q, s) /\ Never(t, s)
         /\ \A s : Once(g.q, s) /\ Never(t, s) => Once(g.q \o t, s)
         /\ \A s : Never(g.q, s) /\ Once(t, s) => Once(g.q \o t, s)
         /\ \A s : LooksFirst(g.q, s) => LooksFirst(g.q \o t, s)
    BY <2>1, <2>10, JoinedHolds
  <2>12. /\ \A s : ~LooksFirst(d.q, s) /\ ~Once(d.q, s) /\ NoneLeft(d, done, s)
         /\ \A s : ~Asks(d.run, s) /\ ~Looks(d.run, s)
    BY <1>2, NoCommands DEF Idle, Asks, Looks, NoneLeft
  <2>13. ~done
    BY <1>2
  <2>14. ASSUME ~e.fails, NEW s  PROVE  NoneLeft(e, done, s) <=> Never(l, s)
    BY <2>2, <2>4, <2>7, <2>8, <2>11, <2>13, <2>14 DEF NoneLeft
  <2>15. ASSUME ~e.fails, NEW s, Once(l, s)  PROVE  OneLeft(e, done, s)
    <3>1. CASE Asks(h, s) /\ Never(t, s)
      BY <2>4, <2>7, <2>8, <2>11, <2>13, <2>15, <3>1 DEF OneLeft
    <3>2. CASE ~Asks(h, s) /\ Once(t, s)
      BY <2>4, <2>7, <2>8, <2>11, <2>13, <2>15, <3>2 DEF OneLeft, NoneLeft
    <3>3. QED
      BY <2>2, <2>15, <3>1, <3>2
  <2>16. \A s : ~OneLeft(d, done, s)
    BY <2>12 DEF OneLeft
  <2>17. ASSUME ~e.fails, Known(d, done, ch)  PROVE  Known(e, done, ch) /\ OnTheBus(e, ch)
    <3>1. Known(f, TRUE, ch)
      BY <2>5, <2>12, <2>17 DEF Known
    <3>2. Known(g, FALSE, ch) /\ OnTheBus(g, ch)
      BY <2>7, <2>8, <2>17, <3>1
    <3>3. Known(e, done, ch)
      BY <2>8, <2>11, <2>13, <2>17, <3>2 DEF Known
    <3>4. OnTheBus(e, ch)
      BY <2>8, <2>11, <2>17, <3>2 DEF OnTheBus
    <3>5. QED
      BY <3>3, <3>4
  <2>18. QED
    BY <1>2, <2>7, <2>8, <2>9, <2>12, <2>14, <2>15, <2>16, <2>17
<1>3. CASE ~(d.q = <<>> /\ Idle(d))
  <2>1. e = AppendAll(d, l)
    BY <1>3 DEF PushBacks
  <2>2. /\ Driver(e) /\ e.run = d.run /\ e.bus = d.bus /\ e.sk = d.sk /\ e.err = d.err
        /\ ~e.fails => ~d.fails /\ e.q = d.q \o l
    BY <2>1, Appended
  <2>3. Busy(e) /\ (Idle(d) => e.bus # "done")
    BY <1>3, <2>2 DEF Busy, Idle
  <2>4. /\ \A s : Never(d.q \o l, s) <=> Never(d.q, s) /\ Never(l, s)
        /\ \A s : Once(d.q, s) /\ Never(l, s) => Once(d.q \o l, s)
        /\ \A s : Never(d.q, s) /\ Once(l, s) => Once(d.q \o l, s)
        /\ \A s : LooksFirst(d.q, s) => LooksFirst(d.q \o l, s)
    BY <1>1, JoinedHolds
  <2>5. ASSUME ~e.fails, NEW s
        PROVE  NoneLeft(e, done, s) <=> Never(l, s) /\ NoneLeft(d, done, s)
    BY <2>2, <2>4, <2>5 DEF NoneLeft
  <2>6. ASSUME ~e.fails, NEW s, Never(l, s), OneLeft(d, done, s)
        PROVE  OneLeft(e, done, s)
    BY <2>2, <2>4, <2>6 DEF OneLeft
  <2>7. ASSUME ~e.fails, NEW s, Once(l, s), NoneLeft(d, done, s)
        PROVE  OneLeft(e, done, s)
    BY <2>2, <2>4, <2>7 DEF OneLeft, NoneLeft
  <2>8. ASSUME ~e.fails, Known(d, done, ch)  PROVE  Known(e, done, ch)
    BY <2>2, <2>4, <2>8 DEF Known
  <2>9. ASSUME ~e.fails, OnTheBus(d, ch)  PROVE  OnTheBus(e, ch)
    BY <2>2, <2>4, <2>9 DEF OnTheBus
  <2>10. QED
    BY <2>2, <2>3, <2>5, <2>6, <2>7, <2>8, <2>9
<1>4. QED
  BY <1>2, <1>3

\* queuePushFront, kickStartCommands included, of a READ_SIR.
LEMMA PushedFront ==
    ASSUME NEW sole, NEW d, Driver(d), Busy(d), NEW ch, NEW e, e = PushFront(d, ReadSir)
    PROVE  /\ Driver(e) /\ Busy(e) /\ e.sk = d.sk
           /\ e.bus = "done" => e.run = d.run /\ d.bus = "done"
           /\ ~e.fails => ~d.fails /\ (Kept(d, FALSE, ch, sole) => Kept(e, FALSE, ch, sole))
<1> DEFINE c == ReadSir
<1>1. DOMAIN d = DriverFields /\ Queue(d.q) /\ Shadows(d.sk)
      /\ d.fails \in BOOLEAN /\ d.err \in Nat /\ d.hal \in BOOLEAN
  BY DEF Driver, DriverFields
<1>2. c.cmd_type = "READ_SIR"
  BY DEF ReadSir, Cmd
<1>3. WellFormed(c) /\ \A s : ~Asks(c, s) /\ ~Orders(c, s)
  BY <1>2 DEF WellFormed, ReadSir, Cmd, IsCommandWrite, Types, Fields, Asks, Orders
<1> HIDE DEF c
<1>4. CASE d.q = <<>> /\ Idle(d)
  <2> DEFINE f == [d EXCEPT !.q = <<c>>]
  <2>1. e = Start(f)
    BY <1>4 DEF PushFront, c
  <2>2. Queue(<<c>>) /\ \A s : Never(<<c>>, s)
    BY <1>3, OneCommand
  <2>3. /\ DOMAIN f = DriverFields /\ f.q = <<c>> /\ f.sk = d.sk
        /\ f.err = d.err /\ f.hal = d.hal /\ f.fails = d.fails
    BY <1>1 DEF DriverFields
  <2> HIDE DEF f
  <2>4. Driver(f)
    BY <1>1, <2>2, <2>3 DEF Driver, DriverFields
  <2>5. /\ Driver(e) /\ Busy(e) /\ e.sk = d.sk /\ e.bus # "done"
        /\ ~e.fails =>
             /\ ~d.fails
             /\ \A s : NoneLeft(e, FALSE, s)
             /\ Known(f, TRUE, ch) => Known(e, FALSE, ch) /\ OnTheBus(e, ch)
    BY <2>1, <2>2, <2>3, <2>4, Started
  <2>6. /\ \A s : ~LooksFirst(d.q, s) /\ ~Once(d.q, s)
        /\ \A s : NoneLeft(d, FALSE, s) /\ ~Asks(d.run, s) /\ ~Looks(d.run, s)
    BY <1>4, NoCommands DEF Idle, Asks, Looks, NoneLeft
  <2>7. ASSUME ~e.fails, Kept(d, FALSE, ch, sole)  PROVE  Kept(e, FALSE, ch, sole)
    <3>1. Known(d, FALSE, ch) => Known(f, TRUE, ch)
      BY <2>3, <2>6 DEF Known
    <3>2. Receiving(e, FALSE, sole)
      BY <2>5, <2>6, <2>7 DEF Receiving, Kept, OneLeft
    <3>3. QED
      BY <2>5, <2>7, <3>1, <3>2 DEF Kept
  <2>8. QED
    BY <2>5, <2>7
<1>5. CASE ~(d.q = <<>> /\ Idle(d))
  <2>1. e = InFront(d, c)
    BY <1>5 DEF PushFront, c
  <2>2. /\ Driver(e) /\ e.run = d.run /\ e.bus = d.bus /\ e.sk = d.sk /\ e.err = d.err
        /\ ~e.fails => ~d.fails /\ e.q = <<c>> \o d.q
    BY <1>3, <2>1, PutInFront
  <2>3. Busy(e)
    BY <1>5, <2>2 DEF Busy, Idle
  <2>4. /\ \A s : Never(<<c>> \o d.q, s) <=> Never(d.q, s)
        /\ \A s : Once(d.q, s) => Once(<<c>> \o d.q, s)
        /\ \A s : LooksFirst(d.q, s) => LooksFirst(<<c>> \o d.q, s)
    BY <1>1, <1>3, FrontHolds
  <2>5. ASSUME ~e.fails, Kept(d, FALSE, ch, sole)  PROVE  Kept(e, FALSE, ch, sole)
    <3>1. Receiving(e, FALSE, sole)
      BY <2>2, <2>4, <2>5 DEF Receiving, Kept, OneLeft, NoneLeft
    <3>2. Known(d, FALSE, ch) => Known(e, FALSE, ch)
      BY <2>2, <2>4, <2>5 DEF Known
    <3>3. OnTheBus(d, ch) => OnTheBus(e, ch)
      BY <2>2, <2>4, <2>5 DEF OnTheBus
    <3>4. QED
      BY <2>5, <3>1, <3>2, <3>3 DEF Kept
  <2>6. QED
    BY <2>2, <2>3, <2>5
<1>6. QED
  BY <1>4, <1>5

-------------------------------------------------------------------------------
(***************************************************************************)
(* The parts of the handlers.                                              *)
(***************************************************************************)
\* A part of a handler keeps the command on the bus and what holds of a state.
Continues(d, e, done, ch, sole) ==
    /\ Driver(e) /\ Busy(e)
    /\ ~Idle(d) => e.run = d.run /\ e.bus = d.bus
    /\ Idle(d) => e.bus # "done"
    /\ ~e.fails => ~d.fails /\ (Kept(d, done, ch, sole) => Kept(e, done, ch, sole))

\* One part after the other is a part.
LEMMA ContinuesOn ==
    ASSUME NEW sole, NEW d, NEW e, NEW f, NEW done, NEW ch,
           Continues(d, e, done, ch, sole), Continues(e, f, done, ch, sole)
    PROVE  Continues(d, f, done, ch, sole)
<1>1. ~Idle(d) => ~Idle(e) /\ e.run = d.run /\ e.bus = d.bus
  BY DEF Continues, Idle
<1>2. QED
  BY <1>1 DEF Continues

\* A change of the sockets' buffers and segment queues is a part.
LEMMA Untouched ==
    ASSUME NEW sole, NEW d, Driver(d), Busy(d), NEW done, NEW ch, NEW e, DOMAIN e = DriverFields,
           e.q = d.q, e.run = d.run, e.bus = d.bus, e.err = d.err, e.hal = d.hal,
           e.fails \in BOOLEAN, ~e.fails => ~d.fails, Shadows(e.sk),
           \A s \in Sock : /\ e.sk[s].CR = d.sk[s].CR
                           /\ e.sk[s].is_receiving = d.sk[s].is_receiving
    PROVE  Continues(d, e, done, ch, sole)
<1>1. Driver(e)
  BY DEF Driver, DriverFields
<1>2. Busy(e)
  BY DEF Busy, Idle
<1>3. Receiving(d, done, sole) => Receiving(e, done, sole)
  BY DEF Receiving, OneLeft, NoneLeft
<1>4. Known(d, done, ch) => Known(e, done, ch)
  BY DEF Known
<1>5. OnTheBus(d, ch) => OnTheBus(e, ch)
  <2>1. d.bus = "poll" => d.run.sn \in Sock
    BY DEF Busy, Idle, WellFormed, IsCommandWrite
  <2>2. QED
    BY <2>1 DEF OnTheBus
<1>6. Idle(d) => e.bus # "done"
  BY DEF Busy
<1>7. QED
  BY <1>1, <1>2, <1>3, <1>4, <1>5, <1>6 DEF Continues, Kept

\* The commands of a transmission: none asks for received data.
LEMMA TransmitCommands ==
    ASSUME NEW s \in Sock, NEW ptr, NEW len, NEW wr, NEW to, NEW tcp \in BOOLEAN,
           NEW l, l = (IF tcp THEN <<>>
                       ELSE <<SetReg(s, [DIPR |-> to]), SetReg(s, [DPORT |-> to])>>)
                      \o <<SetBuf(s, ptr, len), SetReg(s, [TX_WR |-> wr]),
                           SetReg(s, [CR |-> "SEND"])>>
    PROVE  Queue(l) /\ l # <<>> /\ AllForData(l) /\ \A t : Never(l, t)
<1> DEFINE a == SetReg(s, [DIPR |-> to])
           b == SetReg(s, [DPORT |-> to])
           x == SetBuf(s, ptr, len)
           y == SetReg(s, [TX_WR |-> wr])
           z == SetReg(s, [CR |-> "SEND"])
           p == IF tcp THEN <<>> ELSE <<a, b>>
           q == <<x, y, z>>
<1>1. /\ Settable(s, [DIPR |-> to]) /\ Settable(s, [DPORT |-> to])
      /\ Settable(s, [TX_WR |-> wr]) /\ Settable(s, [CR |-> "SEND"])
  BY DEF Settable, Writable
<1>2. /\ \A c \in {a, b, y, z} : WellFormed(c) /\ c.cmd_type = "WRITE_REG"
      /\ WellFormed(x) /\ x.cmd_type = "WRITE_BUF"
  BY <1>1, Commands
<1>3. \A c \in {a, b, x, y, z} : WellFormed(c) /\ ForData(c) /\ \A t : ~Asks(c, t)
  <2>1. /\ a.val = [DIPR |-> to] /\ b.val = [DPORT |-> to] /\ y.val = [TX_WR |-> wr]
        /\ z.val = [CR |-> "SEND"]
    BY DEF SetReg, Cmd
  <2>2. ForData(a) /\ ForData(b) /\ ForData(x) /\ ForData(y) /\ ForData(z)
    BY <1>2, <2>1 DEF ForData
  <2>3. QED
    BY <1>2, <2>2 DEF Asks
<1>4. l = p \o q
  OBVIOUS
<1> HIDE DEF a, b, x, y, z
<1>5. q \in Seq({x, y, z}) /\ Len(q) = 3 /\ \A i \in 1 .. Len(q) : q[i] \in {x, y, z}
  OBVIOUS
<1> HIDE DEF q
<1>6. Queue(q) /\ AllForData(q) /\ \A t : Never(q, t)
  BY <1>3, <1>5, QueueOver DEF Never, AllForData
<1>7. Queue(p) /\ AllForData(p) /\ \A t : Never(p, t)
  <2>1. CASE tcp
    <3>1. p = <<>> /\ Len(p) = 0
      BY <2>1
    <3>2. QED
      BY <3>1, NoCommands DEF AllForData
  <2>2. CASE ~tcp
    <3>1. p \in Seq({a, b}) /\ Len(p) = 2 /\ \A i \in 1 .. Len(p) : p[i] \in {a, b}
      BY <2>2
    <3> HIDE DEF p
    <3>2. QED
      BY <1>3, <3>1, QueueOver DEF Never, AllForData
  <2>3. QED
    BY <2>1, <2>2
<1> HIDE DEF p
<1> DEFINE r == p \o q
<1>8. Queue(r) /\ Len(r) = Len(p) + Len(q)
  BY <1>6, <1>7, Joined
<1>9. AllForData(r) /\ \A t : Never(r, t)
  BY <1>6, <1>7, JoinedHolds, JoinedForData
<1> HIDE DEF r
<1>10. Len(p) \in Nat
  BY <1>7, QueueIsSequence
<1>11. Len(r) # 0
  BY <1>5, <1>8, <1>10
<1>12. r # <<>>
  BY <1>11, EmptySeq
<1>13. l = r
  BY <1>4 DEF r
<1>14. QED
  BY <1>8, <1>9, <1>12, <1>13

\* The commands of a reception: one asks for what has arrived since.
LEMMA ReceiveCommands ==
    ASSUME NEW s \in Sock, NEW ptr, NEW len, NEW rd,
           NEW l, l = <<GetBuf(s, ptr, len), SetReg(s, [RX_RD |-> rd]),
                        SetReg(s, [CR |-> "RECV"]), SetReg(s, [CR |-> "RECV"]), CheckRcv(s)>>
    PROVE  /\ Queue(l) /\ l # <<>> /\ AllForData(l)
           /\ Once(l, s) /\ \A t : t # s => Never(l, t)
<1> DEFINE x == GetBuf(s, ptr, len)
           y == SetReg(s, [RX_RD |-> rd])
           z == SetReg(s, [CR |-> "RECV"])
           c == CheckRcv(s)
<1>1. Settable(s, [RX_RD |-> rd]) /\ Settable(s, [CR |-> "RECV"])
  BY DEF Settable, Writable
<1>2. /\ \A k \in {y, z} : WellFormed(k) /\ k.cmd_type = "WRITE_REG"
      /\ WellFormed(x) /\ x.cmd_type = "READ_BUF"
      /\ WellFormed(c) /\ c.cmd_type = "CHECK_RCV" /\ c.sn = s
  BY <1>1, Commands
<1>3. /\ \A k \in {x, y, z} : WellFormed(k) /\ \A t : ~Asks(k, t)
      /\ \A t : Asks(c, t) <=> t = s
  BY <1>2 DEF Asks
<1>a. ForData(x) /\ ForData(y) /\ ForData(z) /\ ForData(c)
  <2>1. y.val = [RX_RD |-> rd] /\ z.val = [CR |-> "RECV"]
    BY DEF SetReg, Cmd
  <2>2. QED
    BY <1>2, <2>1 DEF ForData
<1>4. l = <<x, y, z, z, c>>
  OBVIOUS
<1> HIDE DEF x, y, z, c
<1>5. /\ l \in Seq({x, y, z, c}) /\ Len(l) = 5 /\ l[5] = c
      /\ \A i \in 1 .. 5 : i # 5 => l[i] \in {x, y, z}
  BY <1>4
<1>6. \A i \in 1 .. Len(l) : WellFormed(l[i])
  BY <1>2, <1>3, <1>5
<1>7. Queue(l) /\ l # <<>>
  <2>1. Queue(l)
    BY <1>5, <1>6, QueueOver
  <2>2. QED
    BY <1>4, <2>1
<1>8. Once(l, s)
  <2>1. \A i \in 1 .. Len(l) : Asks(l[i], s) <=> i = 5
    BY <1>3, <1>5
  <2>2. QED
    BY <1>5, <2>1 DEF Once
<1>9. \A t : t # s => Never(l, t)
  BY <1>3, <1>5 DEF Never
<1>10. AllForData(l)
  BY <1>5, <1>a DEF AllForData
<1>11. QED
  BY <1>7, <1>8, <1>9, <1>10

\* Two states differ in the buffers, segment queues and flags of the sockets only.
SameOrders(d, f) ==
    /\ DOMAIN f = DriverFields /\ f.q = d.q /\ f.run = d.run /\ f.bus = d.bus
    /\ f.err = d.err /\ f.hal = d.hal /\ f.fails = d.fails
    /\ Shadows(f.sk)
    /\ \A t \in Sock : f.sk[t].CR = d.sk[t].CR /\ f.sk[t].SR = d.sk[t].SR

\* sendPendingData changes nothing, or sets is_sending, writes a header and queues
\* a transmission.
LEMMA SendPendingIs ==
    ASSUME NEW d, Driver(d), NEW s \in Sock, NEW e, e = SendPending(d, s)
    PROVE  \/ e = d
           \/ \E f, l : /\ e = PushBacks(f, l) /\ SameOrders(d, f)
                        /\ \A t \in Sock : f.sk[t].is_receiving = d.sk[t].is_receiving
                        /\ Queue(l) /\ l # <<>> /\ AllForData(l) /\ \A t : Never(l, t)
<1> DEFINE sk  == d.sk[s]
           seg == Head(sk.tx_buf_queue)
           len == seg.end_index - seg.start_index
           wr  == (sk.TX_WR + len - Hdr) % PtrMod
           l   == (IF s \in Tcp THEN <<>> ELSE SetDestination(s, seg))
                  \o <<SetBuf(s, seg.start_index, len), SetReg(s, [TX_WR |-> wr]),
                       SetReg(s, [CR |-> "SEND"])>>
           f   == [d EXCEPT !.sk[s].is_sending = TRUE,
                            !.sk[s].tx_buf = BufWrite(@, seg.start_index, Header(sk.TX_WR))]
<1>1. e = d \/ e = PushBacks(f, l)
  BY DEF SendPending
<1>2. DOMAIN d = DriverFields /\ Shadows(d.sk)
  BY DEF Driver, DriverFields
<1>3. Queue(l) /\ l # <<>> /\ AllForData(l) /\ \A t : Never(l, t)
  <2> HIDE DEF seg, len, wr
  <2> DEFINE tcp == s \in Tcp
  <2>1. /\ tcp \in BOOLEAN
        /\ l = (IF tcp THEN <<>>
                ELSE <<SetReg(s, [DIPR |-> seg.dst]), SetReg(s, [DPORT |-> seg.dst])>>)
               \o <<SetBuf(s, seg.start_index, len), SetReg(s, [TX_WR |-> wr]),
                    SetReg(s, [CR |-> "SEND"])>>
    BY DEF SetDestination
  <2> HIDE DEF l, tcp
  <2>2. QED
    BY <2>1, TransmitCommands
<1>4. /\ SameOrders(d, f)
      /\ \A t \in Sock : f.sk[t].is_receiving = d.sk[t].is_receiving
  BY <1>2 DEF DriverFields, Shadows, SameOrders
<1> HIDE DEF f, l
<1>5. QED
  BY <1>1, <1>3, <1>4

\* sendPendingData is a part of a handler.
LEMMA SendContinues ==
    ASSUME NEW sole, NEW d, Driver(d), Busy(d), NEW s \in Sock, NEW ch,
           NEW done \in BOOLEAN, done => ~Idle(d), NEW e, e = SendPending(d, s)
    PROVE  Continues(d, e, done, ch, sole)
<1>1. Continues(d, d, done, ch, sole)
  BY DEF Continues, Busy
<1>2. ASSUME NEW f, NEW l, e = PushBacks(f, l), SameOrders(d, f),
             \A t \in Sock : f.sk[t].is_receiving = d.sk[t].is_receiving,
             Queue(l), l # <<>>, \A t : Never(l, t)
      PROVE  Continues(d, e, done, ch, sole)
  <2>1. f.fails \in BOOLEAN
    BY <1>2 DEF SameOrders, Driver
  <2>2. Continues(d, f, done, ch, sole)
    BY <1>2, <2>1, Untouched DEF SameOrders
  <2>3. Driver(f) /\ Busy(f) /\ (done => ~Idle(f))
    BY <1>2, <2>2 DEF Continues, Idle, SameOrders
  <2>4. /\ Driver(e) /\ Busy(e) /\ e.sk = f.sk
        /\ ~Idle(f) => e.run = f.run /\ e.bus = f.bus
        /\ Idle(f) => e.bus # "done"
        /\ ~e.fails =>
             /\ ~f.fails
             /\ \A t : NoneLeft(f, done, t) <=> NoneLeft(e, done, t)
             /\ \A t : OneLeft(f, done, t) => OneLeft(e, done, t)
             /\ Known(f, done, ch) => Known(e, done, ch)
             /\ Known(f, done, ch) /\ OnTheBus(f, ch) => OnTheBus(e, ch)
    BY <1>2, <2>3, PushedBack
  <2>5. ~e.fails /\ Receiving(f, done, sole) => Receiving(e, done, sole)
    BY <2>4 DEF Receiving
  <2>6. Continues(f, e, done, ch, sole)
    BY <2>4, <2>5 DEF Continues, Kept
  <2>7. QED
    BY <2>2, <2>6, ContinuesOn
<1>3. QED
  BY <1>1, <1>2, SendPendingIs

\* d with is_receiving set for socket s, and the commands of a reception.
Receives(d, s, f, l) ==
    /\ SameOrders(d, f) /\ ~d.sk[s].is_receiving /\ f.sk[s].is_receiving
    /\ \A t \in Sock : t # s => f.sk[t].is_receiving = d.sk[t].is_receiving
    /\ Queue(l) /\ l # <<>> /\ AllForData(l)
    /\ Once(l, s) /\ \A t : t # s => Never(l, t)

\* receivePendingData changes nothing, or sets is_receiving, writes a header and
\* queues a reception that ends with a CHECK_RCV.
LEMMA ReceivePendingIs ==
    ASSUME NEW d, Driver(d), NEW s \in Sock, NEW e, e = ReceivePending(d, s)
    PROVE  \/ e = d
           \/ \E f, l : e = PushBacks(f, l) /\ Receives(d, s, f, l)
<1> DEFINE sk  == d.sk[s]
           at  == BufferIndex(sk.rx_buf_queue, RxBufLen, sk.RX_RSR + Hdr)
           len == sk.RX_RSR + Hdr
           rd  == (sk.RX_RD + sk.RX_RSR) % PtrMod
           l   == <<GetBuf(s, at, len), SetReg(s, [RX_RD |-> rd]),
                    SetReg(s, [CR |-> "RECV"]), SetReg(s, [CR |-> "RECV"]), CheckRcv(s)>>
           f   == [d EXCEPT !.sk[s].is_receiving = TRUE,
                            !.sk[s].rx_buf = BufWrite(@, at, Header(sk.RX_RD))]
<1>1. e = d \/ (e = PushBacks(f, l) /\ ~sk.is_receiving)
  BY DEF ReceivePending
<1>2. DOMAIN d = DriverFields /\ Shadows(d.sk)
  BY DEF Driver, DriverFields
<1>3. Queue(l) /\ l # <<>> /\ AllForData(l) /\ Once(l, s) /\ \A t : t # s => Never(l, t)
  <2> HIDE DEF at, len, rd
  <2>1. l = <<GetBuf(s, at, len), SetReg(s, [RX_RD |-> rd]),
              SetReg(s, [CR |-> "RECV"]), SetReg(s, [CR |-> "RECV"]), CheckRcv(s)>>
    OBVIOUS
  <2> HIDE DEF l
  <2>2. QED
    BY <2>1, ReceiveCommands
<1>4. /\ SameOrders(d, f) /\ f.sk[s].is_receiving
      /\ \A t \in Sock : t # s => f.sk[t].is_receiving = d.sk[t].is_receiving
  BY <1>2 DEF DriverFields, Shadows, SameOrders
<1> HIDE DEF f, l, at, len, rd
<1>5. ASSUME ~sk.is_receiving  PROVE  Receives(d, s, f, l)
  BY <1>3, <1>4, <1>5 DEF Receives
<1>6. QED
  BY <1>1, <1>5

\* receivePendingData is a part of a handler: is_receiving and CHECK_RCV come
\* together.
LEMMA ReceiveContinues ==
    ASSUME NEW sole, NEW d, Driver(d), Busy(d), NEW s \in Sock, NEW ch,
           NEW done \in BOOLEAN, done => ~Idle(d), NEW e, e = ReceivePending(d, s)
    PROVE  Continues(d, e, done, ch, sole)
<1>1. Continues(d, d, done, ch, sole)
  BY DEF Continues, Busy
<1>2. DOMAIN d = DriverFields /\ Queue(d.q) /\ Shadows(d.sk)
      /\ d.fails \in BOOLEAN /\ d.err \in Nat /\ d.hal \in BOOLEAN
  BY DEF Driver, DriverFields
<1>3. ASSUME NEW f, NEW l, e = PushBacks(f, l), Receives(d, s, f, l)
      PROVE  Continues(d, e, done, ch, sole)
  <2>a. /\ SameOrders(d, f) /\ ~d.sk[s].is_receiving /\ f.sk[s].is_receiving
        /\ \A t \in Sock : t # s => f.sk[t].is_receiving = d.sk[t].is_receiving
        /\ Queue(l) /\ l # <<>> /\ Once(l, s) /\ \A t : t # s => Never(l, t)
    BY <1>3 DEF Receives
  <2>1. Driver(f)
    BY <1>2, <2>a DEF Driver, DriverFields, SameOrders
  <2>2. Busy(f) /\ (done => ~Idle(f))
    BY <2>a DEF Busy, Idle, SameOrders
  <2>3. /\ Driver(e) /\ Busy(e) /\ e.sk = f.sk
        /\ ~Idle(f) => e.run = f.run /\ e.bus = f.bus
        /\ Idle(f) => e.bus # "done"
        /\ ~e.fails =>
             /\ ~f.fails
             /\ \A t : NoneLeft(e, done, t) <=> Never(l, t) /\ NoneLeft(f, done, t)
             /\ \A t : Never(l, t) /\ OneLeft(f, done, t) => OneLeft(e, done, t)
             /\ \A t : Once(l, t) /\ NoneLeft(f, done, t) => OneLeft(e, done, t)
             /\ Known(f, done, ch) => Known(e, done, ch)
             /\ Known(f, done, ch) /\ OnTheBus(f, ch) => OnTheBus(e, ch)
    BY <1>3, <2>a, <2>1, <2>2, PushedBack
  <2>4. /\ \A t : NoneLeft(d, done, t) <=> NoneLeft(f, done, t)
        /\ \A t : OneLeft(d, done, t) => OneLeft(f, done, t)
        /\ Known(d, done, ch) => Known(f, done, ch)
        /\ OnTheBus(d, ch) => OnTheBus(f, ch)
    <3>1. d.bus = "poll" => d.run.sn \in Sock
      BY DEF Busy, Idle, WellFormed, IsCommandWrite
    <3>2. QED
      BY <2>a, <3>1 DEF NoneLeft, OneLeft, Known, OnTheBus, SameOrders
  <2>b. ~Never(l, s)
    BY <2>a DEF Never, Once
  <2>5. ASSUME ~e.fails, Receiving(d, done, sole), NEW t \in Sock
        PROVE  /\ e.sk[t].is_receiving => ~NoneLeft(e, done, t)
               /\ t \in sole => IF e.sk[t].is_receiving THEN OneLeft(e, done, t)
                                                       ELSE NoneLeft(e, done, t)
    <3>1. /\ d.sk[t].is_receiving => ~NoneLeft(d, done, t)
          /\ t \in sole => IF d.sk[t].is_receiving THEN OneLeft(d, done, t)
                                                  ELSE NoneLeft(d, done, t)
      BY <2>5 DEF Receiving
    <3>2. CASE t = s
      BY <2>a, <2>b, <2>3, <2>4, <2>5, <3>1, <3>2
    <3>3. CASE t # s
      BY <2>a, <2>3, <2>4, <2>5, <3>1, <3>3
    <3>4. QED
      BY <3>2, <3>3
  <2>6. ~e.fails /\ Receiving(d, done, sole) => Receiving(e, done, sole)
    BY <2>5 DEF Receiving
  <2>7. /\ Idle(d) <=> Idle(f)
        /\ f.run = d.run /\ f.bus = d.bus /\ f.fails = d.fails
    BY <2>a DEF Idle, SameOrders
  <2>8. QED
    BY <2>3, <2>4, <2>6, <2>7 DEF Continues, Kept
<1>4. QED
  BY <1>1, <1>3, ReceivePendingIs

\* A command in front that neither asks for received data nor writes Sn_CR is
\* a part of a handler that was called for the command on the bus.
LEMMA FrontContinues ==
    ASSUME NEW sole, NEW d, Driver(d), Busy(d), ~Idle(d), NEW c, WellFormed(c),
           \A s : ~Asks(c, s) /\ ~Orders(c, s), NEW ch, NEW done, NEW e, e = InFront(d, c)
    PROVE  Continues(d, e, done, ch, sole)
<1>1. /\ Driver(e) /\ e.run = d.run /\ e.bus = d.bus /\ e.sk = d.sk
      /\ e.err = d.err /\ e.hal = d.hal
      /\ ~e.fails => ~d.fails /\ e.q = <<c>> \o d.q
  BY PutInFront
<1>2. Queue(d.q)
  BY DEF Driver
<1>3. /\ \A s : Never(<<c>> \o d.q, s) <=> Never(d.q, s)
      /\ \A s : Once(d.q, s) => Once(<<c>> \o d.q, s)
      /\ \A s : LooksFirst(d.q, s) => LooksFirst(<<c>> \o d.q, s)
  BY <1>2, FrontHolds
<1>4. Busy(e)
  BY <1>1 DEF Busy, Idle
<1>5. ~e.fails /\ Receiving(d, done, sole) => Receiving(e, done, sole)
  BY <1>1, <1>3 DEF Receiving, OneLeft, NoneLeft
<1>6. ~e.fails /\ Known(d, done, ch) => Known(e, done, ch)
  BY <1>1, <1>3 DEF Known
<1>7. ~e.fails /\ OnTheBus(d, ch) => OnTheBus(e, ch)
  BY <1>1, <1>3 DEF OnTheBus
<1>8. QED
  BY <1>1, <1>4, <1>5, <1>6, <1>7 DEF Continues, Kept

\* The socket's segments may be taken out of its queue and is_sending reset.
LEMMA SegmentsTaken ==
    ASSUME NEW sole, NEW d, Driver(d), Busy(d), NEW s \in Sock, NEW ch, NEW done, NEW queue,
           NEW e, e = [d EXCEPT !.sk[s].is_sending = FALSE, !.sk[s].tx_buf_queue = queue]
    PROVE  Continues(d, e, done, ch, sole)
<1>1. DOMAIN d = DriverFields /\ Shadows(d.sk) /\ d.fails \in BOOLEAN
  BY DEF Driver, DriverFields
<1>2. /\ DOMAIN e = DriverFields /\ e.q = d.q /\ e.run = d.run /\ e.bus = d.bus
      /\ e.err = d.err /\ e.hal = d.hal /\ e.fails = d.fails
      /\ Shadows(e.sk)
      /\ \A t \in Sock : /\ e.sk[t].CR = d.sk[t].CR
                         /\ e.sk[t].is_receiving = d.sk[t].is_receiving
  BY <1>1 DEF DriverFields, Shadows
<1>3. QED
  BY <1>1, <1>2, Untouched

\* SENDOK and TIMEOUT are handled in parts.
LEMMA FlagContinues ==
    ASSUME NEW sole, NEW d, Driver(d), Busy(d), ~Idle(d), NEW s \in Sock, NEW ch, NEW done \in BOOLEAN
    PROVE  Continues(d, OnTimeout(d, s), done, ch, sole) /\ Continues(d, OnSendOk(d, s), done, ch, sole)
<1> DEFINE e == [d EXCEPT !.sk[s].is_sending = FALSE,
                          !.sk[s].tx_buf_queue = Popped(d.sk[s].tx_buf_queue)]
           f == [d EXCEPT !.sk[s].is_sending = FALSE, !.sk[s].tx_buf_queue = <<>>]
<1>1. DOMAIN d = DriverFields /\ Shadows(d.sk)
  BY DEF Driver, DriverFields
<1>2. [d EXCEPT !.sk[s].is_sending = FALSE, !.sk[s].tx_buf_queue = Popped(@)] = e
  BY <1>1 DEF DriverFields, Shadows
<1>3. Continues(d, e, done, ch, sole) /\ Continues(d, f, done, ch, sole)
  BY SegmentsTaken
<1>4. /\ OnSendOk(d, s) = SendPending(e, s)
      /\ OnTimeout(d, s) = f \/ OnTimeout(d, s) = SendPending(e, s)
  BY <1>2 DEF OnSendOk, OnTimeout
<1> HIDE DEF e, f
<1>5. Driver(e) /\ Busy(e) /\ ~Idle(e)
  BY <1>3 DEF Continues, Idle
<1>6. Continues(e, SendPending(e, s), done, ch, sole)
  BY <1>5, SendContinues
<1>7. QED
  BY <1>3, <1>4, <1>6, ContinuesOn

-------------------------------------------------------------------------------
(***************************************************************************)
(* The handlers.                                                           *)
(***************************************************************************)
\* The handler of a READ_SOC works through the flags in parts.
LEMMA ReadSocContinues ==
    ASSUME NEW sole, NEW d, Driver(d), Busy(d), ~Idle(d), d.run.sn \in Sock,
           NEW ch, NEW done \in BOOLEAN
    PROVE  Continues(d, OnReadSoc(d), done, ch, sole)
<1> DEFINE s  == d.run.sn
           IR == d.sk[s].IR
           d1 == IF "RECV" \in IR THEN ReceivePending(d, s) ELSE d
           d2 == IF "TIMEOUT" \in IR THEN OnTimeout(d1, s) ELSE d1
           d3 == IF "SENDOK" \in IR THEN OnSendOk(d2, s) ELSE d2
           c  == SetReg(s, [IR |-> IR])
<1>1. OnReadSoc(d) = InFront(d3, c)
  BY DEF OnReadSoc
<1>2. \A e : Driver(e) /\ Busy(e) => Continues(e, e, done, ch, sole)
  BY DEF Continues, Busy
<1>3. \A e, f : Continues(e, f, done, ch, sole) /\ ~Idle(e) => Driver(f) /\ Busy(f) /\ ~Idle(f)
  BY DEF Continues, Idle
<1>4. Continues(d, d1, done, ch, sole)
  <2> HIDE DEF IR
  <2>1. Continues(d, ReceivePending(d, s), done, ch, sole)
    BY ReceiveContinues
  <2>2. QED
    BY <1>2, <2>1
<1> HIDE DEF d1
<1>5. Driver(d1) /\ Busy(d1) /\ ~Idle(d1)
  BY <1>3, <1>4
<1>6. Continues(d1, d2, done, ch, sole)
  <2> HIDE DEF IR
  <2>1. Continues(d1, OnTimeout(d1, s), done, ch, sole)
    BY <1>5, FlagContinues
  <2>2. QED
    BY <1>2, <1>5, <2>1
<1> HIDE DEF d2
<1>7. Driver(d2) /\ Busy(d2) /\ ~Idle(d2)
  BY <1>3, <1>5, <1>6
<1>8. Continues(d2, d3, done, ch, sole)
  <2> HIDE DEF IR
  <2>1. Continues(d2, OnSendOk(d2, s), done, ch, sole)
    BY <1>7, FlagContinues
  <2>2. QED
    BY <1>2, <1>7, <2>1
<1> HIDE DEF d3
<1>9. Driver(d3) /\ Busy(d3) /\ ~Idle(d3)
  BY <1>3, <1>7, <1>8
<1>10. WellFormed(c) /\ \A t : ~Asks(c, t) /\ ~Orders(c, t)
  <2>1. DOMAIN [IR |-> IR] = {"IR"} /\ Settable(s, [IR |-> IR])
    BY DEF Settable, Writable
  <2>2. /\ WellFormed(c) /\ c.cmd_type = "WRITE_REG"
    BY <2>1, Commands
  <2>3. c.val = [IR |-> IR]
    BY DEF SetReg, Cmd
  <2>4. QED
    BY <2>1, <2>2, <2>3 DEF Asks, Orders, IsCommandWrite
<1> HIDE DEF c
<1>11. Continues(d3, OnReadSoc(d), done, ch, sole)
  BY <1>1, <1>9, <1>10, FrontContinues
<1>12. QED
  BY <1>4, <1>6, <1>8, <1>11, ContinuesOn

\* The sockets are finitely many.
LEMMA SocketsAreFinite == Sock \subseteq Nat /\ IsFiniteSet(Sock)
<1>1. NSock \in 1 .. 8
  BY DriverAssumption
<1>2. NSock - 1 \in Int
  BY <1>1
<1>3. IsFiniteSet(0 .. NSock - 1) /\ 0 .. NSock - 1 \subseteq Nat
  BY <1>2, FS_Interval
<1>4. QED
  BY <1>3 DEF Sock

\* Ascending lists as many sockets as there are.
LEMMA AscendingList ==
    ASSUME NEW S, S \subseteq Sock
    PROVE  /\ Cardinality(S) \in Nat /\ Len(Ascending(S)) = Cardinality(S)
           /\ DOMAIN Ascending(S) = 1 .. Cardinality(S)
<1>1. IsFiniteSet(S)
  BY SocketsAreFinite, FS_Subset
<1>2. Cardinality(S) \in Nat
  BY <1>1, FS_CardinalityType
<1>3. QED
  BY <1>2 DEF Ascending

\* A set of numbers has a least one.
LEMMA LeastOfSet ==
    ASSUME NEW S, S \subseteq Nat, S # {}
    PROVE  \E m \in S : \A n \in S : m <= n
<1> DEFINE R == OpToRel(<, Nat)
<1>1. \A x, y \in Nat : <<y, x>> \in R <=> y < x
  BY DEF OpToRel
<1> HIDE DEF R
<1>2. IsWellFoundedOn(R, Nat)
  BY NatLessThanWellFounded DEF R
<1>3. PICK m \in S : \A n \in S : <<n, m>> \notin R
  BY <1>2, WFMin
<1>4. ASSUME NEW n \in S  PROVE  m <= n
  <2>1. m \in Nat /\ n \in Nat /\ ~(n < m)
    BY <1>1, <1>3
  <2>2. QED
    BY <2>1
<1>5. QED
  BY <1>4

\* A set that holds 0 and the successors of its members holds every natural number.
LEMMA SetInduction ==
    ASSUME NEW T, 0 \in T, \A n \in Nat : n \in T => n + 1 \in T
    PROVE  Nat \subseteq T
<1> SUFFICES ASSUME Nat \ T # {}  PROVE  FALSE
  OBVIOUS
<1> DEFINE S == Nat \ T
<1>1. S \subseteq Nat /\ S # {}
  OBVIOUS
<1> HIDE DEF S
<1>2. PICK x \in S : \A y \in S : x <= y
  BY <1>1, LeastOfSet
<1>3. x \in Nat \ T /\ \A y \in Nat \ T : ~(y < x)
  <2>1. x \in Nat \ T
    BY DEF S
  <2>2. ASSUME NEW y \in Nat \ T  PROVE  ~(y < x)
    <3>1. x <= y
      BY <1>2 DEF S
    <3>2. QED
      BY <2>1, <3>1
  <2>3. QED
    BY <2>1, <2>2
<1>4. x # 0 /\ x - 1 \in Nat /\ x - 1 < x /\ (x - 1) + 1 = x
  BY <1>3
<1>5. x - 1 \in T
  BY <1>3, <1>4
<1>6. QED
  BY <1>3, <1>4, <1>5

\* Ascending lists members of the set: below the i-th there are i - 1 others.
LEMMA AscendingMembers ==
    ASSUME NEW S, S \subseteq Sock, NEW i \in 1 .. Cardinality(S)
    PROVE  Ascending(S)[i] \in S
<1> DEFINE Below(s) == {t \in S : t < s}
           T == {n \in Nat : n < Cardinality(S) => \E s \in S : Cardinality(Below(s)) = n}
<1>1. IsFiniteSet(S) /\ S \subseteq Nat
  BY SocketsAreFinite, FS_Subset
<1>2. Cardinality(S) \in Nat
  BY <1>1, FS_CardinalityType
<1>3. 0 \in T
  <2>1. ASSUME 0 < Cardinality(S)  PROVE  \E s \in S : Cardinality(Below(s)) = 0
    <3>1. S # {}
      BY <2>1, FS_EmptySet
    <3>2. PICK m \in S : \A n \in S : m <= n
      BY <1>1, <3>1, LeastOfSet
    <3>3. Below(m) = {}
      <4>1. \A t \in S : ~(t < m)
        <5>1. TAKE t \in S
        <5>2. t \in Nat /\ m \in Nat /\ m <= t
          BY <1>1, <3>2
        <5>3. QED
          BY <5>2
      <4>2. QED
        BY <4>1
    <3>4. QED
      BY <3>3, FS_EmptySet
  <2>2. QED
    BY <2>1
<1>4. ASSUME NEW n \in Nat, n \in T  PROVE  n + 1 \in T
  <2>1. ASSUME n + 1 < Cardinality(S)
        PROVE  \E s \in S : Cardinality(Below(s)) = n + 1
    <3>1. PICK s \in S : Cardinality(Below(s)) = n
      <4>1. n < Cardinality(S)
        BY <1>2, <2>1
      <4>2. QED
        BY <1>4, <4>1
    <3> DEFINE R == {t \in S : s < t}
               B == Below(s)
    <3>2. B \subseteq S /\ s \notin B
      BY <1>1
    <3>3. IsFiniteSet(B)
      BY <1>1, <3>2, FS_Subset
    <3>4. Cardinality(B \cup {s}) = n + 1
      BY <3>1, <3>2, <3>3, FS_AddElement
    <3>5. R # {}
      <4>1. R = {} => S = B \cup {s}
        <5>1. \A t \in S : t < s \/ t = s \/ s < t
          <6>1. TAKE t \in S
          <6>2. t \in Nat /\ s \in Nat
            BY <1>1
          <6>3. QED
            BY <6>2
        <5>2. QED
          BY <5>1
      <4>2. Cardinality(B \cup {s}) # Cardinality(S)
        BY <1>2, <2>1, <3>4
      <4>3. QED
        BY <4>1, <4>2
    <3>6. R \subseteq Nat /\ R \subseteq S
      BY <1>1
    <3>7. PICK m \in R : \A t \in R : m <= t
      <4> HIDE DEF R
      <4>1. QED
        BY <3>5, <3>6, LeastOfSet
    <3>8. Below(m) = B \cup {s}
      <4>1. ASSUME NEW t \in S  PROVE  t < m <=> (t < s \/ t = s)
        <5>1. t \in Nat /\ s \in Nat /\ m \in Nat /\ s < m
          BY <1>1, <3>7
        <5>2. s < t => m <= t
          BY <3>7
        <5>3. QED
          BY <5>1, <5>2
      <4>2. QED
        BY <4>1
    <3>9. QED
      BY <3>4, <3>6, <3>8
  <2>2. QED
    BY <2>1
<1>5. Nat \subseteq T
  <2> HIDE DEF T
  <2>1. QED
    BY <1>3, <1>4, SetInduction
<1>6. i - 1 \in Nat /\ i - 1 < Cardinality(S)
  BY <1>2
<1>7. \E s \in S : Cardinality({t \in S : t < s}) = i - 1
  BY <1>5, <1>6
<1>8. Ascending(S)[i] = CHOOSE s \in S : Cardinality({t \in S : t < s}) = i - 1
  BY DEF Ascending
<1>9. QED
  BY <1>7, <1>8

\* The handler of a READ_SIR puts READ_SOCs in front.
LEMMA ReadSirIs ==
    ASSUME NEW d, Driver(d), d.run.val.SIR \subseteq Sock, NEW e, e = OnReadSir(d)
    PROVE  \E p : /\ Queue(p) /\ \A i \in 1 .. Len(p) : p[i].cmd_type = "READ_SOC"
                  /\ DOMAIN e = DriverFields /\ e.q = p \o d.q /\ e.run = d.run
                  /\ e.bus = d.bus /\ e.err = d.err /\ e.hal = d.hal
                  /\ e.fails \in BOOLEAN /\ (~e.fails => ~d.fails)
                  /\ Shadows(e.sk)
                  /\ \A t \in Sock : /\ e.sk[t].CR = d.sk[t].CR /\ e.sk[t].SR = d.sk[t].SR
                                     /\ e.sk[t].is_receiving = d.sk[t].is_receiving
<1> DEFINE SIR     == d.run.val.SIR
           flagged == Ascending(SIR)
           room    == COMMAND_QUEUE_SIZE - Len(d.q)
           n       == IF Len(flagged) < room THEN Len(flagged) ELSE room
           pushed  == SubSeq(flagged, 1, n)
           r       == [i \in DOMAIN pushed |-> ReadSoc(pushed[i])]
           p       == Reverse(r)
           sk      == [s \in Sock |-> [d.sk[s] EXCEPT !.spi = d.sk[s].spi \/ s \in SIR]]
<1>1. DOMAIN d = DriverFields /\ Queue(d.q) /\ Shadows(d.sk)
      /\ d.fails \in BOOLEAN /\ d.err \in Nat /\ d.hal \in BOOLEAN
  BY DEF Driver, DriverFields
<1>2. e = [d EXCEPT !.q = p \o d.q, !.fails = d.fails \/ Len(flagged) > room, !.sk = sk]
  BY DEF OnReadSir
<1>3. /\ Len(flagged) \in Nat /\ \A i \in 1 .. Len(flagged) : flagged[i] \in Sock
  BY AscendingList, AscendingMembers
<1>4. Len(d.q) \in Nat
  BY <1>1, QueueIsSequence
<1> HIDE DEF SIR, flagged
<1>5. n \in Int /\ n <= Len(flagged)
  <2>1. room \in Int
    BY <1>4, CapacityIsNumber
  <2> HIDE DEF room
  <2>2. QED
    BY <1>3, <2>1
<1> HIDE DEF room, n
<1>6. \A i \in 1 .. n : i \in 1 .. Len(flagged) /\ flagged[i] \in Sock
  BY <1>3, <1>5
<1>7. pushed \in Seq(Sock)
  BY <1>5, <1>6, SubSeqProperties
<1> HIDE DEF pushed
<1>8. /\ Len(pushed) \in Nat /\ DOMAIN pushed = 1 .. Len(pushed)
      /\ \A i \in 1 .. Len(pushed) : pushed[i] \in Sock
  BY <1>7, LenProperties, ElementOfSeq
<1> DEFINE L == {ReadSoc(s) : s \in Sock}
<1>9. /\ Len(r) = Len(pushed)
      /\ \A i \in 1 .. Len(pushed) : r[i] \in L
  BY <1>8
<1> HIDE DEF r
<1>10. p = [i \in 1 .. Len(pushed) |-> r[(Len(pushed) - i) + 1]]
  BY <1>9 DEF Reverse
<1>11. \A i \in 1 .. Len(pushed) : (Len(pushed) - i) + 1 \in 1 .. Len(pushed)
  BY <1>8
<1>12. p \in [1 .. Len(pushed) -> L] /\ Len(p) = Len(pushed)
  BY <1>8, <1>9, <1>10, <1>11
<1>13. p \in Seq(L)
  BY <1>8, <1>12, SeqDef
<1>14. \A i \in 1 .. Len(p) : p[i] \in L
  BY <1>12
<1> HIDE DEF p
<1>15. \A c \in L : WellFormed(c) /\ c.cmd_type = "READ_SOC"
  <2>1. \A s \in Sock : WellFormed(ReadSoc(s)) /\ ReadSoc(s).cmd_type = "READ_SOC"
    BY Commands
  <2>2. QED
    BY <2>1
<1> HIDE DEF L
<1>16. Queue(p) /\ \A i \in 1 .. Len(p) : p[i].cmd_type = "READ_SOC"
  BY <1>13, <1>14, <1>15, QueueOver
<1>17. Shadows(sk) /\ \A s \in Sock : /\ sk[s].CR = d.sk[s].CR /\ sk[s].SR = d.sk[s].SR
                                      /\ sk[s].is_receiving = d.sk[s].is_receiving
  BY <1>1 DEF Shadows
<1> HIDE DEF sk
<1>18. /\ DOMAIN e = DriverFields /\ e.q = p \o d.q /\ e.run = d.run /\ e.bus = d.bus
       /\ e.sk = sk /\ e.err = d.err /\ e.hal = d.hal
       /\ e.fails = (d.fails \/ Len(flagged) > room)
  BY <1>1, <1>2 DEF DriverFields
<1>19. e.fails \in BOOLEAN /\ (~e.fails => ~d.fails)
  BY <1>1, <1>18
<1>20. QED
  BY <1>16, <1>17, <1>18, <1>19

\* The handler of a READ_SIR is a part.
LEMMA ReadSirContinues ==
    ASSUME NEW sole, NEW d, Driver(d), Busy(d), ~Idle(d), d.run.val.SIR \subseteq Sock,
           NEW ch, NEW done
    PROVE  Continues(d, OnReadSir(d), done, ch, sole)
<1> DEFINE e == OnReadSir(d)
<1>1. PICK p : /\ Queue(p) /\ \A i \in 1 .. Len(p) : p[i].cmd_type = "READ_SOC"
               /\ DOMAIN e = DriverFields /\ e.q = p \o d.q /\ e.run = d.run
               /\ e.bus = d.bus /\ e.err = d.err /\ e.hal = d.hal
               /\ e.fails \in BOOLEAN /\ (~e.fails => ~d.fails)
               /\ Shadows(e.sk)
               /\ \A t \in Sock : /\ e.sk[t].CR = d.sk[t].CR
                                  /\ e.sk[t].is_receiving = d.sk[t].is_receiving
  BY ReadSirIs
<1> HIDE DEF e
<1>2. Queue(d.q) /\ d.err \in Nat /\ d.hal \in BOOLEAN
  BY DEF Driver
<1>3. \A t : Never(p, t) /\ \A i \in 1 .. Len(p) : ~Orders(p[i], t)
  BY <1>1 DEF Never, Asks, Orders, IsCommandWrite
<1>4. Queue(p \o d.q)
  BY <1>1, <1>2, Joined
<1>5. /\ \A t : Never(p \o d.q, t) <=> Never(d.q, t)
      /\ \A t : Once(d.q, t) => Once(p \o d.q, t)
      /\ \A t : LooksFirst(d.q, t) => LooksFirst(p \o d.q, t)
  BY <1>1, <1>2, <1>3, JoinedHolds
<1>6. Driver(e)
  BY <1>1, <1>2, <1>4 DEF Driver, DriverFields
<1>7. Busy(e)
  BY <1>1 DEF Busy, Idle
<1>8. Receiving(d, done, sole) => Receiving(e, done, sole)
  BY <1>1, <1>5 DEF Receiving, OneLeft, NoneLeft
<1>9. Known(d, done, ch) => Known(e, done, ch)
  BY <1>1, <1>5 DEF Known
<1>10. OnTheBus(d, ch) => OnTheBus(e, ch)
  <2>1. d.bus = "poll" => d.run.sn \in Sock
    BY DEF Busy, Idle, WellFormed, IsCommandWrite
  <2>2. QED
    BY <1>1, <1>5, <2>1 DEF OnTheBus
<1>11. Continues(d, e, done, ch, sole)
  BY <1>1, <1>6, <1>7, <1>8, <1>9, <1>10 DEF Continues, Kept
<1>12. QED
  BY <1>11 DEF e

\* What the timer asks for is a queue without a CHECK_RCV.
LEMMA TimerQueue ==
    /\ Queue(TimerCommands) /\ TimerCommands # <<>> /\ AllForData(TimerCommands)
    /\ \A s : Never(TimerCommands, s)
<1> DEFINE S == {s \in Sock : sockets[s].SR = "ESTABLISHED"}
           established == Ascending(S)
           p == [i \in DOMAIN established |-> CheckTxFsr(established[i])]
           q == <<ReadSir>>
           r == p \o q
           L == {CheckTxFsr(s) : s \in Sock}
<1>1. TimerCommands = r
  BY DEF TimerCommands
<1>2. /\ Cardinality(S) \in Nat /\ DOMAIN established = 1 .. Cardinality(S)
      /\ \A i \in 1 .. Cardinality(S) : established[i] \in Sock
  BY AscendingList, AscendingMembers
<1> HIDE DEF S, established
<1>3. p \in [1 .. Cardinality(S) -> L] /\ Len(p) = Cardinality(S)
  BY <1>2
<1>4. p \in Seq(L) /\ \A i \in 1 .. Len(p) : p[i] \in L
  BY <1>2, <1>3, SeqDef
<1>5. \A c \in L : WellFormed(c) /\ ForData(c) /\ \A t : ~Asks(c, t)
  <2>1. \A s \in Sock : WellFormed(CheckTxFsr(s)) /\ CheckTxFsr(s).cmd_type = "CHECK_TX_FSR"
    BY Commands
  <2>2. \A c \in L : WellFormed(c) /\ c.cmd_type = "CHECK_TX_FSR"
    BY <2>1
  <2>3. QED
    BY <2>2 DEF Asks, ForData
<1> HIDE DEF L, p
<1>6. Queue(p) /\ AllForData(p) /\ \A t : Never(p, t)
  BY <1>4, <1>5, QueueOver DEF Never, AllForData
<1>7. WellFormed(ReadSir) /\ ReadSir.cmd_type = "READ_SIR"
  BY DEF ReadSir, Cmd, WellFormed, IsCommandWrite, Types, Fields
<1>8. Queue(q) /\ Len(q) = 1 /\ AllForData(q) /\ \A t : Never(q, t)
  <2>1. ForData(ReadSir) /\ \A t : ~Asks(ReadSir, t)
    BY <1>7 DEF Asks, ForData
  <2>2. Queue(q) /\ Len(q) = 1 /\ q[1] = ReadSir /\ \A t : Never(q, t)
    BY <1>7, <2>1, OneCommand
  <2>3. QED
    BY <2>1, <2>2 DEF AllForData
<1>9. Queue(r) /\ Len(r) = Len(p) + Len(q) /\ AllForData(r) /\ \A t : Never(r, t)
  BY <1>6, <1>8, Joined, JoinedHolds, JoinedForData
<1> HIDE DEF q, r
<1>10. Len(p) \in Nat
  BY <1>6, QueueIsSequence
<1>11. Len(r) # 0
  BY <1>8, <1>9, <1>10
<1>12. r # <<>>
  BY <1>11, EmptySeq
<1>13. QED
  BY <1>1, <1>9, <1>12

\* What a read returned is stored over the shadow registers.
LEMMA OverlayFacts ==
    ASSUME NEW val, DOMAIN val \subseteq Registers,
           NEW c, {"CR", "SR", "is_receiving"} \subseteq DOMAIN c
    PROVE  /\ {"CR", "SR", "is_receiving"} \subseteq DOMAIN Overlay(val, c)
           /\ Overlay(val, c).is_receiving = c.is_receiving
           /\ Overlay(val, c).CR = IF "CR" \in DOMAIN val THEN val.CR ELSE c.CR
           /\ Overlay(val, c).SR = IF "SR" \in DOMAIN val THEN val.SR ELSE c.SR
<1>1. DOMAIN Overlay(val, c) = DOMAIN val \cup DOMAIN c
  BY DEF Overlay
<1>2. \A r \in DOMAIN val \cup DOMAIN c :
         Overlay(val, c)[r] = IF r \in DOMAIN val THEN val[r] ELSE c[r]
  BY DEF Overlay
<1>3. "is_receiving" \notin DOMAIN val
  BY DEF Registers
<1>4. QED
  BY <1>1, <1>2, <1>3

\* The command on the bus was no read that the driver waits for.
LEMMA OtherCommandsDone ==
    ASSUME NEW sole, NEW d, Driver(d), Busy(d), NEW ch,
           d.run.cmd_type # "CHECK_RCV",
           SureWrites => \A s \in Sock : Looks(d.run, s) /\ ch[s].CR # "NONE"
                                              => d.sk[s].CR # "NONE",
           Kept(d, FALSE, ch, sole)
    PROVE  Kept(d, TRUE, ch, sole)
<1>1. \A s : ~Asks(d.run, s)
  BY DEF Asks
<1>2. Receiving(d, TRUE, sole)
  BY <1>1 DEF Kept, Receiving, OneLeft, NoneLeft
<1>3. SureWrites /\ Known(d, FALSE, ch) => Known(d, TRUE, ch)
  BY DEF Known
<1>4. QED
  BY <1>2, <1>3 DEF Kept

\* A READ_REG is handled: the register is known.
LEMMA ReadRegHandled ==
    ASSUME NEW sole, NEW d, Driver(d), Busy(d), d.bus = "done", d.run.cmd_type = "READ_REG",
           NEW ch, NEW e, e = OnReadReg(d)
    PROVE  /\ Driver(e) /\ Busy(e) /\ e.q = d.q /\ e.run = d.run /\ e.bus = d.bus
           /\ e.fails = d.fails /\ (Kept(d, FALSE, ch, sole) => Kept(e, TRUE, ch, sole))
           /\ \A t \in Sock : e.sk[t].SR = IF d.run.sn = t /\ "SR" \in DOMAIN d.run.val
                                          THEN d.run.val.SR ELSE d.sk[t].SR
<1> DEFINE s == d.run.sn
           val == d.run.val
<1>1. DOMAIN d = DriverFields /\ Queue(d.q) /\ Shadows(d.sk)
      /\ d.fails \in BOOLEAN /\ d.err \in Nat /\ d.hal \in BOOLEAN
  BY DEF Driver, DriverFields
<1>2. WellFormed(d.run)
  BY DEF Busy, Idle
<1>3. s \in Sock /\ DOMAIN val \subseteq Registers
  BY <1>2 DEF WellFormed
<1>4. e = [d EXCEPT !.sk[s] = Overlay(val, d.sk[s])]
  BY <1>1 DEF OnReadReg, DriverFields
<1> HIDE DEF s, val
<1>5. /\ {"CR", "SR", "is_receiving"} \subseteq DOMAIN Overlay(val, d.sk[s])
      /\ Overlay(val, d.sk[s]).is_receiving = d.sk[s].is_receiving
      /\ Overlay(val, d.sk[s]).CR = (IF "CR" \in DOMAIN val THEN val.CR ELSE d.sk[s].CR)
      /\ Overlay(val, d.sk[s]).SR = (IF "SR" \in DOMAIN val THEN val.SR ELSE d.sk[s].SR)
  BY <1>1, <1>3, OverlayFacts DEF Shadows
<1>6. /\ DOMAIN e = DriverFields /\ e.q = d.q /\ e.run = d.run /\ e.bus = d.bus
      /\ e.err = d.err /\ e.hal = d.hal /\ e.fails = d.fails
      /\ DOMAIN e.sk = Sock /\ e.sk[s] = Overlay(val, d.sk[s])
      /\ \A t \in Sock : t # s => e.sk[t] = d.sk[t]
  BY <1>1, <1>3, <1>4 DEF DriverFields, Shadows
<1>7. Shadows(e.sk)
  BY <1>1, <1>5, <1>6 DEF Shadows
<1>8. Driver(e)
  BY <1>1, <1>6, <1>7 DEF Driver, DriverFields
<1>9. Busy(e)
  BY <1>6 DEF Busy, Idle
<1>10. ASSUME Kept(d, FALSE, ch, sole)  PROVE  Kept(e, TRUE, ch, sole)
  <2>1. \A t \in Sock : e.sk[t].is_receiving = d.sk[t].is_receiving
    BY <1>5, <1>6
  <2>2. Receiving(e, FALSE, sole)
    BY <1>6, <1>10, <2>1 DEF Receiving, OneLeft, NoneLeft, Kept
  <2>3. OnTheBus(d, ch) => OnTheBus(e, ch)
    BY <1>6 DEF OnTheBus
  <2>4. SureWrites /\ "CR" \in DOMAIN val /\ val.CR = "NONE" => ch[s].CR = "NONE"
    BY <1>10 DEF OnTheBus, Kept, s, val
  <2>5. \A t \in Sock : Looks(d.run, t) => t = s /\ "CR" \in DOMAIN val
    BY DEF Looks, s, val
  <2>6. SureWrites => \A t \in Sock : Looks(e.run, t) /\ ch[t].CR # "NONE"
                                          => e.sk[t].CR # "NONE"
    BY <1>5, <1>6, <2>4, <2>5
  <2>7. SureWrites => Known(e, FALSE, ch)
    <3>1. ASSUME SureWrites, NEW t \in Sock, ch[t].CR # "NONE"
          PROVE  e.sk[t].CR # "NONE" \/ Looks(e.run, t) \/ LooksFirst(e.q, t)
      <4>1. d.sk[t].CR # "NONE" \/ Looks(d.run, t) \/ LooksFirst(d.q, t)
        BY <1>10, <3>1 DEF Kept, Known
      <4>2. CASE t = s
        BY <1>5, <1>6, <2>4, <3>1, <4>1, <4>2
      <4>3. CASE t # s
        BY <1>6, <4>1, <4>3
      <4>4. QED
        BY <4>2, <4>3
    <3>2. QED
      BY <3>1 DEF Known
  <2>8. Kept(e, FALSE, ch, sole)
    BY <1>10, <2>2, <2>3, <2>7 DEF Kept
  <2>9. QED
    BY <1>6, <1>8, <1>9, <2>6, <2>8, OtherCommandsDone
<1>11. \A t \in Sock : e.sk[t].SR = IF d.run.sn = t /\ "SR" \in DOMAIN d.run.val
                                   THEN d.run.val.SR ELSE d.sk[t].SR
  <2>1. \A t \in Sock : e.sk[t].SR = IF s = t /\ "SR" \in DOMAIN val
                                   THEN val.SR ELSE d.sk[t].SR
    BY <1>5, <1>6
  <2>2. QED
    BY <2>1 DEF s, val
<1>12. QED
  BY <1>6, <1>8, <1>9, <1>10, <1>11

\* A READ_BUF is handled: the received bytes are a segment.
LEMMA ReadBufHandled ==
    ASSUME NEW sole, NEW d, Driver(d), Busy(d), d.bus = "done", d.run.cmd_type = "READ_BUF",
           NEW ch, NEW e, e = OnReadBuf(d)
    PROVE  /\ Continues(d, e, FALSE, ch, sole) /\ e.q = d.q
           /\ \A t \in Sock : e.sk[t].SR = d.sk[t].SR
<1> DEFINE s   == d.run.sn
           seg == [start_index |-> d.run.ptr, end_index |-> d.run.ptr + d.run.len]
           f   == [d EXCEPT !.sk[s].rx_buf_queue = Append(@, seg)]
           g   == [d EXCEPT !.fails = TRUE]
<1>1. DOMAIN d = DriverFields /\ Shadows(d.sk) /\ d.fails \in BOOLEAN
  BY DEF Driver, DriverFields
<1>2. e = f \/ e = g
  BY DEF OnReadBuf
<1> HIDE DEF s, seg
<1>3. /\ DOMAIN f = DriverFields /\ f.q = d.q /\ f.run = d.run /\ f.bus = d.bus
      /\ f.err = d.err /\ f.hal = d.hal /\ f.fails = d.fails
      /\ Shadows(f.sk)
      /\ \A t \in Sock : /\ f.sk[t].CR = d.sk[t].CR /\ f.sk[t].SR = d.sk[t].SR
                         /\ f.sk[t].is_receiving = d.sk[t].is_receiving
  BY <1>1 DEF DriverFields, Shadows
<1>4. /\ DOMAIN g = DriverFields /\ g.q = d.q /\ g.run = d.run /\ g.bus = d.bus
      /\ g.err = d.err /\ g.hal = d.hal /\ g.fails = TRUE /\ g.sk = d.sk
  BY <1>1 DEF DriverFields
<1> HIDE DEF f, g
<1>5. Continues(d, f, FALSE, ch, sole)
  BY <1>1, <1>3, Untouched
<1>6. Continues(d, g, FALSE, ch, sole)
  BY <1>1, <1>4, Untouched
<1>7. QED
  BY <1>2, <1>3, <1>4, <1>5, <1>6

\* CHECK_RCV and CHECK_TX_FSR store what they read; a CHECK_RCV resets
\* is_receiving too.
Stored(d) ==
    IF d.run.cmd_type = "CHECK_RCV"
    THEN [d EXCEPT !.sk[d.run.sn] = Overlay(d.run.val, @),
                   !.sk[d.run.sn].is_receiving = FALSE]
    ELSE [d EXCEPT !.sk[d.run.sn] = Overlay(d.run.val, @)]

\* What CHECK_RCV and CHECK_TX_FSR store keeps what holds of a state, with the
\* command done.
LEMMA CheckStored ==
    ASSUME NEW sole, NEW d, Driver(d), Busy(d), d.bus = "done",
           d.run.cmd_type \in {"CHECK_RCV", "CHECK_TX_FSR"}, NEW ch, NEW e, e = Stored(d)
    PROVE  /\ Driver(e) /\ Busy(e) /\ ~Idle(e) /\ e.run = d.run /\ e.bus = d.bus
           /\ e.fails = d.fails /\ (Kept(d, FALSE, ch, sole) => Kept(e, TRUE, ch, sole))
           /\ e.q = d.q /\ \A t \in Sock : e.sk[t].SR = d.sk[t].SR
<1> DEFINE s == d.run.sn
           val == d.run.val
           rcv == d.run.cmd_type = "CHECK_RCV"
           o == Overlay(val, d.sk[s])
<1>1. DOMAIN d = DriverFields /\ Queue(d.q) /\ Shadows(d.sk)
      /\ d.fails \in BOOLEAN /\ d.err \in Nat /\ d.hal \in BOOLEAN
  BY DEF Driver, DriverFields
<1>2. WellFormed(d.run) /\ ~Idle(d)
  BY DEF Busy, Idle
<1>3. s \in Sock /\ DOMAIN val \subseteq Registers \ {"CR", "SR"}
  BY <1>2 DEF WellFormed
<1> DEFINE x == [d EXCEPT !.sk[s] = o]
           y == [x EXCEPT !.sk[s].is_receiving = FALSE]
<1>4. e = IF rcv THEN y ELSE x
  BY DEF Stored
<1> HIDE DEF s, val, rcv
<1>5. {"CR", "SR", "is_receiving"} \subseteq DOMAIN d.sk[s]
  BY <1>1, <1>3 DEF Shadows
<1>6. /\ {"CR", "SR", "is_receiving"} \subseteq DOMAIN o
      /\ o.is_receiving = d.sk[s].is_receiving /\ o.CR = d.sk[s].CR /\ o.SR = d.sk[s].SR
  BY <1>3, <1>5, OverlayFacts
<1> HIDE DEF o
<1>7. /\ DOMAIN x = DriverFields /\ x.q = d.q /\ x.run = d.run /\ x.bus = d.bus
       /\ x.err = d.err /\ x.hal = d.hal /\ x.fails = d.fails
       /\ DOMAIN x.sk = Sock /\ x.sk[s] = o
       /\ \A t \in Sock : t # s => x.sk[t] = d.sk[t]
  BY <1>1, <1>3 DEF DriverFields, Shadows
<1> HIDE DEF x
<1>8. /\ DOMAIN y = DriverFields /\ y.q = d.q /\ y.run = d.run /\ y.bus = d.bus
       /\ y.err = d.err /\ y.hal = d.hal /\ y.fails = d.fails
       /\ DOMAIN y.sk = Sock /\ y.sk[s] = [o EXCEPT !.is_receiving = FALSE]
       /\ \A t \in Sock : t # s => y.sk[t] = d.sk[t]
  BY <1>3, <1>7 DEF DriverFields
<1> HIDE DEF y
<1>9. /\ DOMAIN e = DriverFields /\ e.q = d.q /\ e.run = d.run /\ e.bus = d.bus
      /\ e.err = d.err /\ e.hal = d.hal /\ e.fails = d.fails
      /\ DOMAIN e.sk = Sock
      /\ e.sk[s] = IF rcv THEN [o EXCEPT !.is_receiving = FALSE] ELSE o
      /\ \A t \in Sock : t # s => e.sk[t] = d.sk[t]
  <2>1. CASE rcv
    <3>1. e = y
      BY <1>4, <2>1
    <3>2. QED
      BY <1>8, <2>1, <3>1
  <2>2. CASE ~rcv
    <3>1. e = x
      BY <1>4, <2>2
    <3>2. QED
      BY <1>7, <2>2, <3>1
  <2>3. QED
    BY <2>1, <2>2
<1> DEFINE new == [o EXCEPT !.is_receiving = FALSE]
<1>10. DOMAIN new = DOMAIN o /\ new.CR = o.CR /\ new.SR = o.SR /\ new.is_receiving = FALSE
  BY <1>6
<1> HIDE DEF new
<1>11. /\ {"CR", "SR", "is_receiving"} \subseteq DOMAIN e.sk[s]
      /\ e.sk[s].CR = d.sk[s].CR /\ e.sk[s].SR = d.sk[s].SR
      /\ e.sk[s].is_receiving = IF rcv THEN FALSE ELSE d.sk[s].is_receiving
  <2>1. e.sk[s] = IF rcv THEN new ELSE o
    BY <1>9 DEF new
  <2>2. CASE rcv
    BY <1>6, <1>10, <2>1, <2>2
  <2>3. CASE ~rcv
    BY <1>6, <2>1, <2>3
  <2>4. QED
    BY <2>2, <2>3
<1>12. Shadows(e.sk)
  BY <1>1, <1>9, <1>11 DEF Shadows
<1>13. Driver(e)
  BY <1>1, <1>9, <1>12 DEF Driver, DriverFields
<1>14. Busy(e) /\ ~Idle(e)
  BY <1>2, <1>9 DEF Busy, Idle
<1>15. \A t \in Sock : e.sk[t].CR = d.sk[t].CR /\ e.sk[t].SR = d.sk[t].SR
  BY <1>9, <1>11
<1>16. \A t : ~Looks(d.run, t)
  BY DEF Looks
<1>17. Known(d, FALSE, ch) => Known(e, TRUE, ch)
  BY <1>9, <1>15, <1>16 DEF Known
<1>18. OnTheBus(d, ch) => OnTheBus(e, ch)
  BY <1>9 DEF OnTheBus
<1>19. ASSUME Receiving(d, FALSE, sole), NEW t \in Sock
       PROVE  /\ e.sk[t].is_receiving => ~NoneLeft(e, TRUE, t)
              /\ t \in sole => IF e.sk[t].is_receiving THEN OneLeft(e, TRUE, t)
                                                      ELSE NoneLeft(e, TRUE, t)
  <2>1. /\ d.sk[t].is_receiving => ~NoneLeft(d, FALSE, t)
        /\ t \in sole => IF d.sk[t].is_receiving THEN OneLeft(d, FALSE, t)
                                                ELSE NoneLeft(d, FALSE, t)
    BY <1>19 DEF Receiving
  <2>2. CASE rcv /\ t = s
    <3>1. Asks(d.run, t) /\ ~e.sk[t].is_receiving
      BY <1>11, <2>2 DEF Asks, rcv, s
    <3>2. t \in sole => NoneLeft(e, TRUE, t)
      BY <1>9, <2>1, <3>1 DEF OneLeft, NoneLeft
    <3>3. QED
      BY <3>1, <3>2
  <2>3. CASE ~(rcv /\ t = s)
    <3>1. ~Asks(d.run, t)
      BY <2>3 DEF Asks, rcv, s
    <3>2. e.sk[t].is_receiving = d.sk[t].is_receiving
      BY <1>9, <1>11, <2>3
    <3>3. QED
      BY <1>9, <2>1, <3>1, <3>2 DEF OneLeft, NoneLeft
  <2>4. QED
    BY <2>2, <2>3
<1>20. Receiving(d, FALSE, sole) => Receiving(e, TRUE, sole)
  BY <1>19 DEF Receiving
<1>21. QED
  BY <1>9, <1>13, <1>14, <1>15, <1>17, <1>18, <1>20 DEF Kept

\* Every handler keeps what holds of a state, with its command done.
LEMMA HandledKeeps ==
    ASSUME NEW sole, NEW d, Driver(d), Busy(d), d.bus = "done",
           d.run.cmd_type = "READ_SIR" => d.run.val.SIR \subseteq Sock,
           NEW ch, NEW e, e = Handled(d)
    PROVE  /\ Driver(e) /\ Busy(e) /\ ~Idle(e)
           /\ ~e.fails => ~d.fails /\ (Kept(d, FALSE, ch, sole) => Kept(e, TRUE, ch, sole))
<1>1. WellFormed(d.run) /\ ~Idle(d)
  BY DEF Busy, Idle
<1>2. d.run.cmd_type \in Types
  BY <1>1 DEF WellFormed
<1>3. ASSUME d.run.cmd_type \notin {"CHECK_RCV", "READ_REG"}, Kept(d, FALSE, ch, sole)
      PROVE  Kept(d, TRUE, ch, sole)
  BY <1>3, OtherCommandsDone DEF Looks
<1>4. ASSUME d.run.cmd_type \notin {"CHECK_RCV", "READ_REG"}, Continues(d, e, TRUE, ch, sole)
      PROVE  /\ Driver(e) /\ Busy(e) /\ ~Idle(e)
             /\ ~e.fails => ~d.fails /\ (Kept(d, FALSE, ch, sole) => Kept(e, TRUE, ch, sole))
  BY <1>1, <1>3, <1>4 DEF Continues, Idle
<1>5. CASE d.run.cmd_type = "READ_REG"
  <2>1. e = OnReadReg(d)
    BY <1>5 DEF Handled
  <2>2. /\ Driver(e) /\ Busy(e) /\ e.run = d.run /\ e.fails = d.fails
        /\ Kept(d, FALSE, ch, sole) => Kept(e, TRUE, ch, sole)
    BY <1>5, <2>1, ReadRegHandled
  <2>3. QED
    BY <1>1, <2>2 DEF Idle
<1>6. CASE d.run.cmd_type = "READ_BUF"
  <2>1. e = OnReadBuf(d)
    BY <1>6 DEF Handled
  <2>2. Continues(d, e, FALSE, ch, sole)
    BY <1>6, <2>1, ReadBufHandled
  <2>3. Driver(e) /\ Busy(e) /\ ~Idle(e) /\ e.run = d.run
    BY <1>1, <2>2 DEF Continues, Idle
  <2>4. ~e.fails => ~d.fails /\ (Kept(d, FALSE, ch, sole) => Kept(e, FALSE, ch, sole))
    BY <2>2 DEF Continues
  <2>5. Kept(e, FALSE, ch, sole) => Kept(e, TRUE, ch, sole)
    BY <1>6, <2>3, OtherCommandsDone DEF Looks
  <2>6. QED
    BY <2>3, <2>4, <2>5
<1>7. CASE d.run.cmd_type = "READ_SIR"
  <2>1. e = OnReadSir(d)
    BY <1>7 DEF Handled
  <2>2. Continues(d, e, TRUE, ch, sole)
    BY <1>1, <1>7, <2>1, ReadSirContinues
  <2>3. QED
    BY <1>4, <1>7, <2>2
<1>8. CASE d.run.cmd_type = "READ_SOC"
  <2>1. e = OnReadSoc(d)
    BY <1>8 DEF Handled
  <2>2. d.run.sn \in Sock
    BY <1>1, <1>8 DEF WellFormed
  <2>3. Continues(d, e, TRUE, ch, sole)
    BY <1>1, <2>1, <2>2, ReadSocContinues
  <2>4. QED
    BY <1>4, <1>8, <2>3
<1>9. CASE d.run.cmd_type \in {"CHECK_RCV", "CHECK_TX_FSR"}
  <2> DEFINE s == d.run.sn
             f == Stored(d)
  <2>1. s \in Sock
    BY <1>1, <1>9 DEF WellFormed
  <2>2. d.run.cmd_type = "CHECK_RCV" => e = ReceivePending(f, s)
    BY DEF Handled, OnCheckRcv, Stored
  <2>3. d.run.cmd_type = "CHECK_TX_FSR" => e = SendPending(f, s)
    BY DEF Handled, OnCheckTxFsr, Stored
  <2>4. e = ReceivePending(f, s) \/ e = SendPending(f, s)
    BY <1>9, <2>2, <2>3
  <2>5. /\ Driver(f) /\ Busy(f) /\ ~Idle(f)
        /\ f.fails = d.fails /\ (Kept(d, FALSE, ch, sole) => Kept(f, TRUE, ch, sole))
    BY <1>9, CheckStored
  <2> HIDE DEF f, s
  <2>6. Continues(f, e, TRUE, ch, sole)
    BY <2>1, <2>4, <2>5, ReceiveContinues, SendContinues
  <2>7. QED
    BY <2>5, <2>6 DEF Continues, Idle
<1>10. CASE d.run.cmd_type \in {"WRITE_REG", "WRITE_BUF"}
  <2>1. e = d
    BY <1>10 DEF Handled
  <2>2. QED
    BY <1>1, <1>3, <1>10, <2>1
<1>11. QED
  BY <1>2, <1>5, <1>6, <1>7, <1>8, <1>9, <1>10 DEF Types

\* With its command done, the driver starts the next one.
LEMMA StartedKeeps ==
    ASSUME NEW sole, NEW d, Driver(d), NEW ch, NEW e, e = Start(d)
    PROVE  /\ Driver(e) /\ Busy(e) /\ e.bus # "done"
           /\ Idle(e) /\ d.q # <<>> => e.err > 0
           /\ ~e.fails => ~d.fails /\ (Kept(d, TRUE, ch, sole) => Kept(e, FALSE, ch, sole))
<1>1. /\ Driver(e) /\ Busy(e) /\ e.sk = d.sk /\ e.bus # "done"
      /\ Idle(e) /\ d.q # <<>> => e.err > 0
      /\ ~e.fails =>
           /\ ~d.fails
           /\ \A s : NoneLeft(e, FALSE, s) <=> Never(d.q, s)
           /\ \A s : Once(d.q, s) => OneLeft(e, FALSE, s)
           /\ Known(d, TRUE, ch) => Known(e, FALSE, ch) /\ OnTheBus(e, ch)
  BY Started
<1>2. ~e.fails /\ Receiving(d, TRUE, sole) => Receiving(e, FALSE, sole)
  BY <1>1 DEF Receiving, OneLeft, NoneLeft
<1>3. QED
  BY <1>1, <1>2 DEF Kept

\* Wiznet_Timer_Callback keeps what holds of a state.
LEMMA TimerKeeps ==
    ASSUME NEW sole, NEW d, Driver(d), Busy(d), NEW ch, NEW l, Queue(l), l # <<>>,
           \A s : Never(l, s), NEW e, e = PushBacks(Restarted(d), l)
    PROVE  /\ Driver(e) /\ Busy(e)
           /\ e.bus = "done" => e.run = d.run /\ d.bus = "done"
           /\ ~e.fails => ~d.fails /\ (Kept(d, FALSE, ch, sole) => Kept(e, FALSE, ch, sole))
<1> DEFINE f == Restarted(d)
<1>1. /\ Driver(f) /\ Busy(f)
      /\ f.bus = "done" => f.run = d.run /\ d.bus = "done"
      /\ ~f.fails => ~d.fails /\ (Kept(d, FALSE, ch, sole) => Kept(f, FALSE, ch, sole))
  <2>1. CASE Idle(d) /\ d.q # <<>>
    <3>1. f = Start(d)
      BY <2>1 DEF Restarted
    <3>2. Kept(d, FALSE, ch, sole) => Kept(d, TRUE, ch, sole)
      BY <2>1, OtherCommandsDone DEF Idle, Looks
    <3> HIDE DEF f
    <3>3. /\ Driver(f) /\ Busy(f) /\ f.bus # "done"
          /\ ~f.fails => ~d.fails /\ (Kept(d, TRUE, ch, sole) => Kept(f, FALSE, ch, sole))
      BY <3>1, StartedKeeps
    <3>4. QED
      BY <3>2, <3>3
  <2>2. CASE ~(Idle(d) /\ d.q # <<>>)
    <3>1. f = d
      BY <2>2 DEF Restarted
    <3>2. QED
      BY <3>1
  <2>3. QED
    BY <2>1, <2>2
<1> HIDE DEF f
<1>2. e = PushBacks(f, l)
  BY DEF f
<1>3. /\ Driver(e) /\ Busy(e) /\ e.sk = f.sk
      /\ ~Idle(f) => e.run = f.run /\ e.bus = f.bus
      /\ Idle(f) => e.bus # "done"
      /\ ~e.fails =>
           /\ ~f.fails
           /\ \A s : NoneLeft(f, FALSE, s) <=> NoneLeft(e, FALSE, s)
           /\ \A s : OneLeft(f, FALSE, s) => OneLeft(e, FALSE, s)
           /\ Known(f, FALSE, ch) => Known(e, FALSE, ch)
           /\ Known(f, FALSE, ch) /\ OnTheBus(f, ch) => OnTheBus(e, ch)
  <2>1. PICK done \in BOOLEAN : done = FALSE
    OBVIOUS
  <2>2. /\ Driver(e) /\ Busy(e) /\ e.sk = f.sk
        /\ ~Idle(f) => e.run = f.run /\ e.bus = f.bus
        /\ Idle(f) => e.bus # "done"
        /\ ~e.fails =>
             /\ ~f.fails
             /\ \A s : NoneLeft(f, done, s) <=> NoneLeft(e, done, s)
             /\ \A s : OneLeft(f, done, s) => OneLeft(e, done, s)
             /\ Known(f, done, ch) => Known(e, done, ch)
             /\ Known(f, done, ch) /\ OnTheBus(f, ch) => OnTheBus(e, ch)
    BY <1>1, <1>2, <2>1, PushedBack
  <2>3. QED
    BY <2>1, <2>2
<1>4. ~e.fails /\ Receiving(f, FALSE, sole) => Receiving(e, FALSE, sole)
  BY <1>3 DEF Receiving
<1>5. QED
  BY <1>1, <1>3, <1>4 DEF Kept

-------------------------------------------------------------------------------
(***************************************************************************)
(* The invariant is kept by what changes the driver, the bus or the chip.  *)
(***************************************************************************)
\* A part of a handler keeps the invariant.
LEMMA ContinuesHolds ==
    ASSUME NEW sole, NEW d, NEW ch, Holds(d, ch, sole), NEW e, Continues(d, e, FALSE, ch, sole)
    PROVE  Holds(e, ch, sole)
<1>1. Driver(e) /\ Busy(e) /\ Chip(ch) /\ (~e.fails => Kept(e, FALSE, ch, sole))
  BY DEF Continues, Holds
<1>2. e.bus = "done" => e.run = d.run /\ d.bus = "done"
  BY DEF Continues
<1>3. QED
  BY <1>1, <1>2 DEF Holds

\* The outcome of a HAL call to come is not a part of what holds.
LEMMA SameHolds ==
    ASSUME NEW sole, NEW d, NEW ch, Holds(d, ch, sole), NEW e, DOMAIN e = DriverFields, e.hal \in BOOLEAN,
           e.q = d.q, e.run = d.run, e.bus = d.bus, e.sk = d.sk, e.fails = d.fails,
           e.err = d.err
    PROVE  Holds(e, ch, sole)
<1>1. Driver(e)
  BY DEF Holds, Driver, DriverFields
<1>2. Busy(e)
  BY DEF Holds, Busy, Idle
<1>3. Kept(d, FALSE, ch, sole) => Kept(e, FALSE, ch, sole)
  BY DEF Kept, Receiving, OneLeft, NoneLeft, Known, OnTheBus
<1>4. QED
  BY <1>1, <1>2, <1>3 DEF Holds

\* The chip accepts commands and raises flags.
LEMMA ChipHolds ==
    ASSUME NEW sole, NEW d, NEW old, Holds(d, old, sole), NEW new, Chip(new),
           \A s \in Sock : new[s].CR \in {old[s].CR, "NONE"}
    PROVE  Holds(d, new, sole)
<1>1. Known(d, FALSE, old) => Known(d, FALSE, new)
  BY DEF Known
<1>2. d.bus # "none" /\ d.run.cmd_type # "READ_SIR" => d.run.sn \in Sock
  BY DEF Holds, Busy, Idle, WellFormed
<1>3. OnTheBus(d, old) => OnTheBus(d, new)
  BY <1>2 DEF OnTheBus, IsCommandWrite
<1>4. QED
  BY <1>1, <1>3 DEF Holds, Kept

\* The bytes of a transfer move: a command reaches the chip, or what is read
\* reaches the command's buffer or the shadow registers.
LEMMA TransferHolds ==
    ASSUME NEW sole, NEW d, NEW old, Holds(d, old, sole), d.bus \in {"shift", "poll"},
           NEW e, DOMAIN e = DriverFields, e.q = d.q, e.fails = d.fails, e.err = d.err,
           e.hal = d.hal, e.bus = "done", WellFormed(e.run),
           e.run.cmd_type = d.run.cmd_type, e.run.sn = d.run.sn,
           e.run.cmd_type = "READ_SIR" => e.run.val.SIR \subseteq Sock,
           e.run.cmd_type = "READ_REG" =>
               /\ DOMAIN e.run.val = DOMAIN d.run.val
               /\ "CR" \in DOMAIN e.run.val => e.run.val.CR = old[d.run.sn].CR,
           Shadows(e.sk),
           \A s \in Sock : /\ e.sk[s].is_receiving = d.sk[s].is_receiving
                           /\ e.sk[s].CR \in {d.sk[s].CR, old[s].CR},
           NEW new, Chip(new),
           \A s \in Sock : \/ new[s].CR = old[s].CR
                           \/ d.bus = "shift" /\ Orders(d.run, s)
    PROVE  Holds(e, new, sole)
<1>1. Driver(e)
  BY DEF Holds, Driver, DriverFields
<1>2. Busy(e)
  BY DEF Holds, Busy, Idle
<1>3. \A s : Asks(e.run, s) <=> Asks(d.run, s)
  BY DEF Asks
<1>4. \A s : Looks(d.run, s) => Looks(e.run, s)
  BY DEF Looks
<1>5. Receiving(d, FALSE, sole) => Receiving(e, FALSE, sole)
  BY <1>3 DEF Receiving, OneLeft, NoneLeft
<1>6. ASSUME Known(d, FALSE, old), OnTheBus(d, old)  PROVE  Known(e, FALSE, new)
  <2>1. ASSUME NEW s \in Sock, new[s].CR # "NONE"
        PROVE  e.sk[s].CR # "NONE" \/ Looks(e.run, s) \/ LooksFirst(e.q, s)
    <3>1. CASE new[s].CR = old[s].CR
      BY <1>4, <1>6, <2>1, <3>1 DEF Known
    <3>2. CASE d.bus = "shift" /\ Orders(d.run, s)
      BY <1>6, <3>2 DEF OnTheBus, Orders
    <3>3. QED
      BY <3>1, <3>2
  <2>2. QED
    BY <2>1 DEF Known
<1>7. ASSUME OnTheBus(d, old)  PROVE  OnTheBus(e, new)
  <2>1. ASSUME e.run.cmd_type = "READ_REG", "CR" \in DOMAIN e.run.val
        PROVE  e.run.val.CR = new[e.run.sn].CR
    <3>1. e.run.sn \in Sock
      BY <2>1 DEF WellFormed
    <3>2. ~Orders(d.run, d.run.sn)
      BY <2>1 DEF Orders, IsCommandWrite
    <3>3. QED
      BY <2>1, <3>1, <3>2
  <2>2. QED
    BY <2>1 DEF OnTheBus
<1>8. QED
  BY <1>1, <1>2, <1>5, <1>6, <1>7 DEF Holds, Kept

\* A transfer failed: its command waits in front of the others.
LEMMA FailureHolds ==
    ASSUME NEW sole, NEW d, NEW ch, Holds(d, ch, sole), d.bus # "none",
           d.bus = "done" => d.run.cmd_type \in LateErrors, NEW e, e = Failed(d)
    PROVE  Holds(e, ch, sole)
<1>1. Driver(d) /\ Queue(d.q) /\ ~Idle(d) /\ WellFormed(d.run)
  BY DEF Holds, Busy, Driver
<1>2. /\ Driver(e) /\ Idle(e) /\ e.run = IDLE_COMMAND /\ e.bus = "none"
      /\ e.sk = d.sk /\ e.err > 0
      /\ ~e.fails => ~d.fails /\ e.q = <<d.run>> \o d.q
  BY <1>1, FailedKeeps
<1>3. Busy(e)
  BY <1>2 DEF Busy
<1>4. /\ \A s : /\ Never(<<d.run>> \o d.q, s) <=> ~Asks(d.run, s) /\ Never(d.q, s)
                /\ ~Asks(d.run, s) /\ Once(d.q, s) => Once(<<d.run>> \o d.q, s)
                /\ Asks(d.run, s) /\ Never(d.q, s) => Once(<<d.run>> \o d.q, s)
                /\ Looks(d.run, s) => LooksFirst(<<d.run>> \o d.q, s)
                /\ ~Orders(d.run, s) /\ LooksFirst(d.q, s) => LooksFirst(<<d.run>> \o d.q, s)
  BY <1>1, FrontHolds
<1>5. \A s : ~Asks(e.run, s)
  BY <1>2 DEF Asks, Idle
<1>6. ~e.fails /\ Receiving(d, FALSE, sole) => Receiving(e, FALSE, sole)
  BY <1>2, <1>4, <1>5 DEF Receiving, OneLeft, NoneLeft
<1>7. OnTheBus(e, ch)
  BY <1>2 DEF OnTheBus
<1>8. ASSUME ~e.fails, SureWrites, Known(d, FALSE, ch), OnTheBus(d, ch)
      PROVE  Known(e, FALSE, ch)
  <2>1. ASSUME NEW s \in Sock, ch[s].CR # "NONE", d.sk[s].CR = "NONE"
        PROVE  LooksFirst(<<d.run>> \o d.q, s)
    <3>1. ~Orders(d.run, s)
      <4>1. CASE d.bus = "shift"
        BY <1>8, <2>1, <4>1 DEF OnTheBus, Orders
      <4>2. CASE d.bus = "poll"
        BY <1>8, <2>1, <4>2 DEF OnTheBus, Orders
      <4>3. CASE d.bus = "done"
        BY <1>8, <4>3 DEF SureWrites, Orders, IsCommandWrite
      <4>4. QED
        BY <4>1, <4>2, <4>3 DEF Holds, Busy
    <3>2. QED
      BY <1>4, <1>8, <2>1, <3>1 DEF Known
  <2>2. QED
    BY <1>2, <1>8, <2>1 DEF Known
<1>9. QED
  BY <1>2, <1>3, <1>6, <1>7, <1>8 DEF Holds, Kept

\* A completed transfer is handled and the next one started.
LEMMA CompletionHolds ==
    ASSUME NEW sole, NEW d, NEW ch, Holds(d, ch, sole), d.bus = "done", NEW e, e = Start(Handled(d))
    PROVE  Holds(e, ch, sole)
<1> DEFINE f == Handled(d)
<1>1. Driver(d) /\ Busy(d) /\ Chip(ch)
      /\ (d.run.cmd_type = "READ_SIR" => d.run.val.SIR \subseteq Sock)
      /\ (~d.fails => Kept(d, FALSE, ch, sole))
  BY DEF Holds
<1>2. Driver(f) /\ (~f.fails => Kept(f, TRUE, ch, sole))
  BY <1>1, HandledKeeps
<1>3. e = Start(f)
  OBVIOUS
<1> HIDE DEF f
<1>4. /\ Driver(e) /\ Busy(e) /\ e.bus # "done"
      /\ ~e.fails => ~f.fails /\ (Kept(f, TRUE, ch, sole) => Kept(e, FALSE, ch, sole))
  BY <1>2, <1>3, StartedKeeps
<1>5. QED
  BY <1>1, <1>2, <1>4 DEF Holds

-------------------------------------------------------------------------------
(***************************************************************************)
(* The actions.                                                            *)
(***************************************************************************)
\* Whatever the HAL call of a handler will return, the handler starts from a
\* state of which the invariant holds.
LEMMA HandlerStarts ==
    ASSUME NEW sole, Inv(sole), NEW hal \in HalOutcomes
    PROVE  /\ Holds(Now(hal), chip, sole) /\ DOMAIN Now(hal) = DriverFields
           /\ Now(hal).q = command_queue /\ Now(hal).run = running_cmd
           /\ Now(hal).bus = bus /\ Now(hal).sk = sockets
           /\ Now(hal).fails = enqueueFails /\ Now(hal).err = failures
<1>1. hal \in BOOLEAN
  BY DEF HalOutcomes
<1>2. ASSUME NEW h \in BOOLEAN
      PROVE  /\ DOMAIN Now(h) = DriverFields /\ Now(h).hal = h
             /\ Now(h).q = command_queue /\ Now(h).run = running_cmd
             /\ Now(h).bus = bus /\ Now(h).sk = sockets
             /\ Now(h).fails = enqueueFails /\ Now(h).err = failures
  BY DEF Now, DriverFields
<1>3. Holds(Now(hal), chip, sole)
  BY <1>1, <1>2, SameHolds DEF Inv
<1>4. QED
  BY <1>1, <1>2, <1>3

\* A handler that ends in a state of which the invariant holds leaves it so.
LEMMA HandlerEnds ==
    ASSUME NEW sole, NEW e, Holds(e, chip', sole), Become(e)
    PROVE  Inv(sole)'
<1> DEFINE n == [q |-> command_queue', run |-> running_cmd', bus |-> bus', sk |-> sockets',
                 fails |-> enqueueFails', err |-> failures', hal |-> TRUE]
<1>1. /\ DOMAIN n = DriverFields /\ n.hal = TRUE
      /\ n.q = command_queue' /\ n.run = running_cmd' /\ n.bus = bus' /\ n.sk = sockets'
      /\ n.fails = enqueueFails' /\ n.err = failures'
  BY DEF DriverFields
<1> HIDE DEF n
<1>2. /\ n.q = e.q /\ n.run = e.run /\ n.bus = e.bus /\ n.sk = e.sk
      /\ n.fails = e.fails /\ n.err = e.err
  BY <1>1 DEF Become
<1>3. Holds(n, chip', sole)
  BY <1>1, <1>2, SameHolds
<1>4. QED
  BY <1>3 DEF Inv, Now, n

\* The driver's state is left alone.
LEMMA DriverStays ==
    ASSUME NEW sole, Inv(sole), UNCHANGED driver, Chip(chip'),
           \A s \in Sock : chip'[s].CR \in {chip[s].CR, "NONE"}
    PROVE  Inv(sole)'
<1>1. Holds(Now(TRUE), chip', sole)
  BY ChipHolds DEF Inv
<1>2. Become(Now(TRUE))
  BY DEF Become, Now, driver
<1>3. QED
  BY <1>1, <1>2, HandlerEnds

\* In the beginning the bus is free and nothing waits.
LEMMA InvAtStart == ASSUME NEW sole PROVE Init => Inv(sole)
<1> SUFFICES ASSUME Init PROVE Inv(sole)
  OBVIOUS
<1> DEFINE d == Now(TRUE)
           first(s) == Opened(IF s \in Tcp THEN "ESTABLISHED" ELSE "UDP")
           rest == [tx_buf |-> [a \in 0 .. TxBufLen - 1 |-> Junk], tx_buf_queue |-> <<>>,
                    rx_buf |-> [a \in 0 .. RxBufLen - 1 |-> Junk], rx_buf_queue |-> <<>>,
                    is_sending |-> FALSE, is_receiving |-> FALSE]
<1>1. /\ DOMAIN d = DriverFields /\ d.q = <<>> /\ d.run = IDLE_COMMAND /\ d.bus = "none"
      /\ d.sk = sockets /\ d.fails \in BOOLEAN /\ d.err \in Nat /\ d.hal \in BOOLEAN
  BY DEF Now, Init, DriverFields
<1>2. /\ chip = [s \in Sock |-> first(s)]
      /\ sockets = [s \in Sock |-> Overlay(Shadow(first(s)), rest)]
  BY DEF Init
<1>3. /\ rest.is_receiving = FALSE
      /\ DOMAIN rest = {"tx_buf", "tx_buf_queue", "rx_buf", "rx_buf_queue",
                        "is_sending", "is_receiving"}
  OBVIOUS
<1> HIDE DEF d, rest
<1>4. \A s : first(s).CR = "NONE" /\ {"CR", "IR"} \subseteq DOMAIN first(s)
  BY DEF Opened
<1>5. \A c : DOMAIN Shadow(c) = {"CR", "IR", "SR", "TX_FSR", "TX_WR", "RX_RSR", "RX_RD", "spi"}
  BY DEF Shadow
<1> HIDE DEF first
<1>6. \A s \in Sock : /\ {"CR", "SR", "is_receiving"} \subseteq DOMAIN sockets[s]
                      /\ sockets[s].is_receiving = FALSE
  BY <1>2, <1>3, <1>5 DEF Overlay
<1>7. Chip(chip) /\ Shadows(sockets) /\ \A s \in Sock : chip[s].CR = "NONE"
  BY <1>2, <1>4, <1>6 DEF Chip, Shadows
<1>8. Driver(d)
  <2>1. Queue(d.q)
    BY <1>1, NoCommands
  <2>2. QED
    BY <1>1, <1>7, <2>1 DEF Driver, DriverFields
<1>9. IDLE_COMMAND.cmd_type = "IDLE"
  BY DEF IDLE_COMMAND, Cmd
<1>10. Busy(d)
  BY <1>1, <1>9 DEF Busy, Idle
<1>11. Receiving(d, FALSE, sole)
  BY <1>1, <1>6, <1>9, NoCommands DEF Receiving, NoneLeft, Asks
<1>12. Known(d, FALSE, chip)
  BY <1>7 DEF Known
<1>13. OnTheBus(d, chip)
  BY <1>1 DEF OnTheBus
<1>14. QED
  BY <1>1, <1>7, <1>8, <1>10, <1>11, <1>12, <1>13 DEF Inv, Holds, Kept, d

\* The buffers and segment queues of a socket change.
LEMMA BuffersHold ==
    ASSUME NEW sole, NEW d, NEW ch, Holds(d, ch, sole), NEW s \in Sock, NEW e, DOMAIN e = DriverFields,
           e.q = d.q, e.run = d.run, e.bus = d.bus, e.err = d.err, e.hal = d.hal,
           e.fails = d.fails, DOMAIN e.sk = DOMAIN d.sk, DOMAIN e.sk[s] = DOMAIN d.sk[s],
           e.sk[s].CR = d.sk[s].CR, e.sk[s].is_receiving = d.sk[s].is_receiving,
           \A t \in Sock : t # s => e.sk[t] = d.sk[t]
    PROVE  Holds(e, ch, sole)
<1>1. Driver(d) /\ Busy(d) /\ Shadows(d.sk) /\ d.fails \in BOOLEAN
  BY DEF Holds, Driver
<1>2. \A t \in Sock : /\ e.sk[t].CR = d.sk[t].CR
                      /\ e.sk[t].is_receiving = d.sk[t].is_receiving
                      /\ DOMAIN e.sk[t] = DOMAIN d.sk[t]
  OBVIOUS
<1>3. Shadows(e.sk)
  BY <1>1, <1>2 DEF Shadows
<1>4. Continues(d, e, FALSE, ch, sole)
  BY <1>1, <1>2, <1>3, Untouched
<1>5. QED
  BY <1>4, ContinuesHolds

\* Sending and receiving what is pending keep the invariant.
LEMMA PendingHolds ==
    ASSUME NEW sole, NEW d, NEW ch, Holds(d, ch, sole), NEW s \in Sock
    PROVE  Holds(SendPending(d, s), ch, sole) /\ Holds(ReceivePending(d, s), ch, sole)
<1>1. Driver(d) /\ Busy(d)
  BY DEF Holds
<1>2. \A e : e = SendPending(d, s) => Continues(d, e, FALSE, ch, sole)
  BY <1>1, SendContinues
<1>3. \A e : e = ReceivePending(d, s) => Continues(d, e, FALSE, ch, sole)
  BY <1>1, ReceiveContinues
<1>4. QED
  BY <1>2, <1>3, ContinuesHolds

\* send and sendto.
LEMMA SendKeepsInv ==
    ASSUME NEW sole, Inv(sole), NEW s \in Sock, NEW len, NEW dst, Send(s, len, dst)
    PROVE  Inv(sole)'
<1>1. chip' = chip
  BY DEF Send
<1>a. PICK hal \in HalOutcomes : \E new, buf :
          \/ Become(SendPending(Now(hal), s))
          \/ Become(SendPending([Now(hal) EXCEPT !.sk[s].tx_buf_queue = new,
                                                 !.sk[s].tx_buf = buf], s))
  BY DEF Send
<1>2. PICK new, buf :
          \/ Become(SendPending(Now(hal), s))
          \/ Become(SendPending([Now(hal) EXCEPT !.sk[s].tx_buf_queue = new,
                                                 !.sk[s].tx_buf = buf], s))
  BY <1>a
<1> DEFINE d == Now(hal)
           e == [d EXCEPT !.sk[s].tx_buf_queue = new, !.sk[s].tx_buf = buf]
<1>3. Holds(d, chip, sole) /\ DOMAIN d = DriverFields
  BY HandlerStarts
<1>4. Become(SendPending(d, s)) \/ Become(SendPending(e, s))
  BY <1>2
<1> HIDE DEF d
<1>5. DOMAIN d.sk = Sock
  BY <1>3 DEF Holds, Driver, Shadows
<1>6. /\ DOMAIN e = DriverFields /\ e.q = d.q /\ e.run = d.run /\ e.bus = d.bus
      /\ e.err = d.err /\ e.hal = d.hal /\ e.fails = d.fails
      /\ DOMAIN e.sk = DOMAIN d.sk /\ DOMAIN e.sk[s] = DOMAIN d.sk[s]
      /\ e.sk[s].CR = d.sk[s].CR /\ e.sk[s].is_receiving = d.sk[s].is_receiving
      /\ \A t \in Sock : t # s => e.sk[t] = d.sk[t]
  BY <1>3, <1>5 DEF DriverFields
<1> HIDE DEF e
<1>7. Holds(e, chip, sole)
  BY <1>3, <1>6, BuffersHold
<1>8. Holds(SendPending(d, s), chip', sole) /\ Holds(SendPending(e, s), chip', sole)
  BY <1>1, <1>3, <1>7, PendingHolds
<1>9. QED
  BY <1>4, <1>8, HandlerEnds

\* recv and recvfrom.
LEMMA RecvKeepsInv ==
    ASSUME NEW sole, Inv(sole), NEW s \in Sock, Recv(s) \/ RecvFrom(s)
    PROVE  Inv(sole)'
<1>1. chip' = chip
  BY DEF Recv, RecvFrom
<1>a. PICK hal \in HalOutcomes : \E new :
          \/ Become(ReceivePending(Now(hal), s))
          \/ Become(ReceivePending([Now(hal) EXCEPT !.sk[s].rx_buf_queue = new], s))
  BY DEF Recv, RecvFrom
<1>2. PICK new :
          \/ Become(ReceivePending(Now(hal), s))
          \/ Become(ReceivePending([Now(hal) EXCEPT !.sk[s].rx_buf_queue = new], s))
  BY <1>a
<1> DEFINE d == Now(hal)
           e == [d EXCEPT !.sk[s].rx_buf_queue = new]
<1>3. Holds(d, chip, sole) /\ DOMAIN d = DriverFields
  BY HandlerStarts
<1>4. Become(ReceivePending(d, s)) \/ Become(ReceivePending(e, s))
  BY <1>2
<1> HIDE DEF d
<1>5. DOMAIN d.sk = Sock
  BY <1>3 DEF Holds, Driver, Shadows
<1>6. /\ DOMAIN e = DriverFields /\ e.q = d.q /\ e.run = d.run /\ e.bus = d.bus
      /\ e.err = d.err /\ e.hal = d.hal /\ e.fails = d.fails
      /\ DOMAIN e.sk = DOMAIN d.sk /\ DOMAIN e.sk[s] = DOMAIN d.sk[s]
      /\ e.sk[s].CR = d.sk[s].CR /\ e.sk[s].is_receiving = d.sk[s].is_receiving
      /\ \A t \in Sock : t # s => e.sk[t] = d.sk[t]
  BY <1>3, <1>5 DEF DriverFields
<1> HIDE DEF e
<1>7. Holds(e, chip, sole)
  BY <1>3, <1>6, BuffersHold
<1>8. Holds(ReceivePending(d, s), chip', sole) /\ Holds(ReceivePending(e, s), chip', sole)
  BY <1>1, <1>3, <1>7, PendingHolds
<1>9. QED
  BY <1>4, <1>8, HandlerEnds

\* The interrupts: completion, error, EXTI and the timer.
LEMMA InterruptsKeepInv ==
    ASSUME NEW sole, Inv(sole), Interrupts
    PROVE  Inv(sole)'
<1>1. chip' = chip
  BY DEF Interrupts, SpiComplete, SpiError, Exti, Timer
<1>2. CASE SpiComplete
  <2>1. PICK hal \in HalOutcomes : Become(Start(Handled(Now(hal)))) /\ bus = "done"
    BY <1>2 DEF SpiComplete
  <2>2. Holds(Now(hal), chip, sole) /\ Now(hal).bus = "done"
    BY <2>1, HandlerStarts
  <2>3. Holds(Start(Handled(Now(hal))), chip', sole)
    BY <1>1, <2>2, CompletionHolds
  <2>4. QED
    BY <2>1, <2>3, HandlerEnds
<1>3. CASE SpiError
  <2>1. Become(Failed(Now(TRUE))) /\ TRUE \in HalOutcomes
    BY <1>3 DEF SpiError, HalOutcomes
  <2>2. /\ Holds(Now(TRUE), chip, sole) /\ Now(TRUE).bus # "none"
        /\ Now(TRUE).bus = "done" => Now(TRUE).run.cmd_type \in LateErrors
    BY <1>3, <2>1, HandlerStarts DEF SpiError
  <2>3. Holds(Failed(Now(TRUE)), chip', sole)
    BY <1>1, <2>2, FailureHolds
  <2>4. QED
    BY <2>1, <2>3, HandlerEnds
<1>4. CASE Exti
  <2>1. PICK hal \in HalOutcomes : Become(PushFront(Now(hal), ReadSir))
    BY <1>4 DEF Exti
  <2> DEFINE d == Now(hal)
             e == PushFront(d, ReadSir)
  <2>2. Holds(d, chip, sole)
    BY HandlerStarts
  <2>3. Become(e)
    BY <2>1
  <2> HIDE DEF d
  <2>4. /\ Driver(e) /\ Busy(e)
        /\ e.bus = "done" => e.run = d.run /\ d.bus = "done"
        /\ ~e.fails => ~d.fails /\ (Kept(d, FALSE, chip, sole) => Kept(e, FALSE, chip, sole))
    BY <2>2, PushedFront DEF Holds
  <2> HIDE DEF e
  <2>5. Holds(e, chip', sole)
    BY <1>1, <2>2, <2>4 DEF Holds
  <2>6. QED
    BY <2>3, <2>5, HandlerEnds
<1>5. CASE Timer
  <2>1. PICK hal \in HalOutcomes : Become(PushBacks(Restarted(Now(hal)), TimerCommands))
    BY <1>5 DEF Timer
  <2> DEFINE d == Now(hal)
             l == TimerCommands
             e == PushBacks(Restarted(d), l)
  <2>2. Holds(d, chip, sole)
    BY HandlerStarts
  <2>3. Become(e)
    BY <2>1
  <2>4. Queue(l) /\ l # <<>> /\ \A s : Never(l, s)
    BY TimerQueue
  <2> HIDE DEF d, l
  <2>5. /\ Driver(e) /\ Busy(e)
        /\ e.bus = "done" => e.run = d.run /\ d.bus = "done"
        /\ ~e.fails => ~d.fails /\ (Kept(d, FALSE, chip, sole) => Kept(e, FALSE, chip, sole))
    BY <2>2, <2>4, TimerKeeps DEF Holds
  <2> HIDE DEF e
  <2>6. Holds(e, chip', sole)
    BY <1>1, <2>2, <2>5 DEF Holds
  <2>7. QED
    BY <2>3, <2>6, HandlerEnds
<1>6. QED
  BY <1>2, <1>3, <1>4, <1>5 DEF Interrupts

\* What a transfer starts from and leaves: the command on the bus is well
\* formed, and the driver changes in what the transfer brings.
LEMMA TransferEnds ==
    ASSUME NEW sole, Inv(sole), bus \in {"shift", "poll"}, bus' = "done",
           UNCHANGED <<command_queue, enqueueFails, failures>>,
           WellFormed(running_cmd'), running_cmd'.cmd_type = running_cmd.cmd_type,
           running_cmd'.sn = running_cmd.sn,
           running_cmd'.cmd_type = "READ_SIR" => running_cmd'.val.SIR \subseteq Sock,
           running_cmd'.cmd_type = "READ_REG" =>
               /\ DOMAIN running_cmd'.val = DOMAIN running_cmd.val
               /\ "CR" \in DOMAIN running_cmd'.val =>
                      running_cmd'.val.CR = chip[running_cmd.sn].CR,
           Shadows(sockets'),
           \A s \in Sock : /\ sockets'[s].is_receiving = sockets[s].is_receiving
                           /\ sockets'[s].CR \in {sockets[s].CR, chip[s].CR},
           Chip(chip'),
           \A s \in Sock : \/ chip'[s].CR = chip[s].CR
                           \/ bus = "shift" /\ Orders(running_cmd, s)
    PROVE  Inv(sole)'
<1> DEFINE d == Now(TRUE)
           e == [q |-> command_queue', run |-> running_cmd', bus |-> bus', sk |-> sockets',
                 fails |-> enqueueFails', err |-> failures', hal |-> TRUE]
<1>1. /\ Holds(d, chip, sole) /\ d.q = command_queue /\ d.run = running_cmd /\ d.bus = bus
      /\ d.sk = sockets /\ d.fails = enqueueFails /\ d.err = failures /\ d.hal = TRUE
  BY DEF Inv, Now
<1>2. /\ DOMAIN e = DriverFields /\ e.hal = TRUE
      /\ e.q = command_queue' /\ e.run = running_cmd' /\ e.bus = bus' /\ e.sk = sockets'
      /\ e.fails = enqueueFails' /\ e.err = failures'
  BY DEF DriverFields
<1> HIDE DEF d, e
<1>3. Holds(e, chip', sole)
  <2>1. /\ e.q = d.q /\ e.fails = d.fails /\ e.err = d.err /\ e.hal = d.hal
        /\ e.bus = "done" /\ d.bus \in {"shift", "poll"}
    BY <1>1, <1>2
  <2>2. /\ WellFormed(e.run) /\ e.run.cmd_type = d.run.cmd_type /\ e.run.sn = d.run.sn
        /\ e.run.cmd_type = "READ_SIR" => e.run.val.SIR \subseteq Sock
        /\ e.run.cmd_type = "READ_REG" =>
               /\ DOMAIN e.run.val = DOMAIN d.run.val
               /\ "CR" \in DOMAIN e.run.val => e.run.val.CR = chip[d.run.sn].CR
    BY <1>1, <1>2
  <2>3. /\ Shadows(e.sk)
        /\ \A s \in Sock : /\ e.sk[s].is_receiving = d.sk[s].is_receiving
                           /\ e.sk[s].CR \in {d.sk[s].CR, chip[s].CR}
        /\ \A s \in Sock : \/ chip'[s].CR = chip[s].CR
                           \/ d.bus = "shift" /\ Orders(d.run, s)
    BY <1>1, <1>2
  <2> DEFINE new == chip'
  <2>4. /\ Chip(new)
        /\ \A s \in Sock : \/ new[s].CR = chip[s].CR
                           \/ d.bus = "shift" /\ Orders(d.run, s)
    BY <2>3
  <2> HIDE DEF new
  <2>5. Holds(e, new, sole)
    BY <1>1, <1>2, <2>1, <2>2, <2>3, <2>4, TransferHolds
  <2>6. QED
    BY <2>5 DEF new
<1>4. QED
  BY <1>3 DEF Inv, Now, e

\* What is known of the state when a transfer moves its bytes.
LEMMA TransferStarts ==
    ASSUME NEW sole, Inv(sole), bus \in {"shift", "poll"}
    PROVE  /\ WellFormed(running_cmd) /\ Shadows(sockets) /\ Chip(chip)
           /\ running_cmd.cmd_type # "READ_SIR" => running_cmd.sn \in Sock
<1>1. Holds(Now(TRUE), chip, sole) /\ Now(TRUE).bus = bus /\ Now(TRUE).run = running_cmd
      /\ Now(TRUE).sk = sockets
  BY DEF Inv, Now
<1>2. QED
  BY <1>1 DEF Holds, Busy, Driver, WellFormed

\* Registers and buffers are written.
LEMMA WritesKeepInv ==
    ASSUME NEW sole, Inv(sole), TransferWriteReg \/ TransferWriteBuf
    PROVE  Inv(sole)'
<1> DEFINE s == running_cmd.sn
<1>1. /\ bus = "shift" /\ bus' = "done" /\ running_cmd.cmd_type \in {"WRITE_REG", "WRITE_BUF"}
      /\ UNCHANGED <<command_queue, enqueueFails, failures, running_cmd, sockets>>
  BY DEF TransferWriteReg, TransferWriteBuf, Shifting
<1>2. WellFormed(running_cmd) /\ Shadows(sockets) /\ Chip(chip) /\ s \in Sock
  BY <1>1, TransferStarts
<1>3. PICK c : chip' = [chip EXCEPT ![s] = c]
               /\ {"CR", "IR"} \subseteq DOMAIN c
               /\ (c.CR = chip[s].CR \/ Orders(running_cmd, s))
  <2>1. {"CR", "IR"} \subseteq DOMAIN chip[s]
    BY <1>2 DEF Chip
  <2>2. CASE TransferWriteReg
    <3> DEFINE regs == running_cmd.val
               c == WriteReg(chip[s], regs)
    <3>1. chip' = [chip EXCEPT ![s] = c] /\ running_cmd.cmd_type = "WRITE_REG"
      BY <2>2 DEF TransferWriteReg, ChipBecomes, Shifting
    <3>2. "CR" \in DOMAIN regs => Orders(running_cmd, s)
      BY <3>1 DEF Orders, IsCommandWrite
    <3> HIDE DEF regs
    <3>3. {"CR", "IR"} \subseteq DOMAIN c /\ (c.CR = chip[s].CR \/ Orders(running_cmd, s))
      <4>1. CASE "IR" \in DOMAIN regs
        <5>1. c = [chip[s] EXCEPT !.IR = chip[s].IR \ regs.IR]
          BY <4>1 DEF WriteReg
        <5>2. QED
          BY <2>1, <5>1
      <4>2. CASE "IR" \notin DOMAIN regs
        <5>1. c = Overlay(regs, chip[s])
          BY <4>2 DEF WriteReg
        <5>2. {"CR", "IR"} \subseteq DOMAIN c
          BY <2>1, <5>1 DEF Overlay
        <5>3. "CR" \notin DOMAIN regs => c.CR = chip[s].CR
          BY <2>1, <5>1 DEF Overlay
        <5>4. QED
          BY <3>2, <5>2, <5>3
      <4>3. QED
        BY <4>1, <4>2
    <3>4. QED
      BY <3>1, <3>3
  <2>3. CASE TransferWriteBuf
    <3>1. PICK mem : chip' = [chip EXCEPT ![s].tx_mem = mem]
      BY <2>3 DEF TransferWriteBuf, ChipBecomes
    <3> DEFINE c == [chip[s] EXCEPT !.tx_mem = mem]
    <3>2. chip' = [chip EXCEPT ![s] = c]
      BY <3>1
    <3>3. {"CR", "IR"} \subseteq DOMAIN c /\ c.CR = chip[s].CR
      BY <2>1
    <3>4. QED
      BY <3>2, <3>3
  <2>4. QED
    BY <2>2, <2>3
<1>4. Chip(chip')
  BY <1>2, <1>3 DEF Chip
<1>5. \A t \in Sock : chip'[t].CR = chip[t].CR \/ Orders(running_cmd, t)
  BY <1>2, <1>3 DEF Chip
<1>6. QED
  BY <1>1, <1>2, <1>4, <1>5, TransferEnds

\* Registers are read into the command's own buffer.
LEMMA FetchesKeepInv ==
    ASSUME NEW sole, Inv(sole), TransferReadReg \/ TransferReadSir \/ TransferCheckRcv \/ TransferCheckTxFsr
    PROVE  Inv(sole)'
<1> DEFINE s == running_cmd.sn
<1>1. PICK val :
        /\ \/ /\ running_cmd.cmd_type = "READ_REG"
              /\ val = [r \in DOMAIN running_cmd.val |-> Shadow(chip[s])[r]]
           \/ running_cmd.cmd_type = "READ_SIR" /\ val = [SIR |-> Flagged(chip)]
           \/ /\ running_cmd.cmd_type \in {"CHECK_RCV", "CHECK_TX_FSR"}
              /\ DOMAIN val \subseteq Registers \ {"CR", "SR"}
        /\ bus = "shift" /\ bus' = "done"
        /\ running_cmd' = [running_cmd EXCEPT !.val = val, !.hdr = FALSE]
        /\ UNCHANGED <<command_queue, enqueueFails, failures, sockets, chip>>
  <2>1. CASE TransferReadReg
    BY <2>1 DEF TransferReadReg, Fetch, Shifting
  <2>2. CASE TransferReadSir
    BY <2>2 DEF TransferReadSir, Fetch, Shifting
  <2>3. CASE TransferCheckRcv
    <3> DEFINE v == [RX_RSR |-> RxSize(chip[s]), RX_RD |-> chip[s].RX_RD]
    <3>1. DOMAIN v \subseteq Registers \ {"CR", "SR"}
      BY DEF Registers
    <3>2. Fetch("CHECK_RCV", v)
      BY <2>3 DEF TransferCheckRcv
    <3> HIDE DEF v
    <3>3. QED
      BY <3>1, <3>2 DEF Fetch, Shifting
  <2>4. CASE TransferCheckTxFsr
    <3> DEFINE v == [TX_FSR |-> TxFree(chip[s]), TX_WR |-> chip[s].TX_WR]
    <3>1. DOMAIN v \subseteq Registers \ {"CR", "SR"}
      BY DEF Registers
    <3>2. Fetch("CHECK_TX_FSR", v)
      BY <2>4 DEF TransferCheckTxFsr
    <3> HIDE DEF v
    <3>3. QED
      BY <3>1, <3>2 DEF Fetch, Shifting
  <2>5. QED
    BY <2>1, <2>2, <2>3, <2>4
<1>2. /\ WellFormed(running_cmd) /\ Shadows(sockets) /\ Chip(chip)
      /\ running_cmd.cmd_type # "READ_SIR" => s \in Sock
  BY <1>1, TransferStarts
<1> DEFINE c == running_cmd'
<1>3. /\ DOMAIN c = Fields /\ c.cmd_type = running_cmd.cmd_type /\ c.sn = running_cmd.sn
      /\ c.val = val
  BY <1>1, <1>2 DEF WellFormed, Fields
<1>4. c.cmd_type = "READ_REG" =>
          /\ DOMAIN val = DOMAIN running_cmd.val
          /\ "CR" \in DOMAIN val => val.CR = chip[s].CR
  BY <1>1, <1>3 DEF Shadow
<1>5. c.cmd_type = "READ_SIR" => c.val.SIR \subseteq Sock
  BY <1>1, <1>3 DEF Flagged
<1>6. WellFormed(c)
  <2>1. c.cmd_type # "WRITE_REG"
    BY <1>1, <1>3
  <2>2. c.cmd_type \in Types /\ (c.cmd_type # "READ_SIR" => c.sn \in Sock)
    BY <1>2, <1>3 DEF WellFormed
  <2>3. c.cmd_type = "READ_REG" => DOMAIN c.val \subseteq Registers
    BY <1>2, <1>3, <1>4 DEF WellFormed
  <2>4. c.cmd_type \in {"CHECK_RCV", "CHECK_TX_FSR"} =>
            DOMAIN c.val \subseteq Registers \ {"CR", "SR"}
    BY <1>1, <1>3
  <2>5. QED
    BY <1>3, <2>1, <2>2, <2>3, <2>4 DEF WellFormed
<1>7. QED
  BY <1>1, <1>2, <1>3, <1>4, <1>5, <1>6, TransferEnds

\* Received bytes land in the receive buffer, the block of socket registers in
\* the shadow registers; a poll changes nothing.
LEMMA ReadsKeepInv ==
    ASSUME NEW sole, Inv(sole), TransferReadBuf \/ TransferReadSoc \/ TransferPoll
    PROVE  Inv(sole)'
<1> DEFINE s == running_cmd.sn
<1>1. /\ bus \in {"shift", "poll"} /\ bus' = "done"
      /\ UNCHANGED <<command_queue, enqueueFails, failures, running_cmd, chip>>
  BY DEF TransferReadBuf, TransferReadSoc, TransferPoll, Shifting
<1>2. /\ WellFormed(running_cmd) /\ Shadows(sockets) /\ Chip(chip)
      /\ running_cmd.cmd_type # "READ_SIR" => s \in Sock
  BY <1>1, TransferStarts
<1>3. running_cmd.cmd_type # "READ_SIR"
  <2>1. CASE TransferPoll
    <3>1. Busy(Now(TRUE)) /\ Now(TRUE).bus = "poll" /\ Now(TRUE).run = running_cmd
      BY <2>1 DEF TransferPoll, Inv, Holds, Now
    <3>2. QED
      BY <3>1 DEF Busy, IsCommandWrite
  <2>2. CASE TransferReadBuf \/ TransferReadSoc
    BY <2>2 DEF TransferReadBuf, TransferReadSoc, Shifting
  <2>3. QED
    BY <2>1, <2>2
<1>4. running_cmd.cmd_type # "READ_REG" \/ "CR" \notin DOMAIN running_cmd.val
  <2>1. CASE TransferPoll
    <3>1. Busy(Now(TRUE)) /\ Now(TRUE).bus = "poll" /\ Now(TRUE).run = running_cmd
      BY <2>1 DEF TransferPoll, Inv, Holds, Now
    <3>2. QED
      BY <3>1 DEF Busy, IsCommandWrite
  <2>2. CASE TransferReadBuf \/ TransferReadSoc
    BY <2>2 DEF TransferReadBuf, TransferReadSoc, Shifting
  <2>3. QED
    BY <2>1, <2>2
<1>5. /\ DOMAIN sockets = Sock
      /\ \A t \in Sock : {"CR", "SR", "is_receiving"} \subseteq DOMAIN sockets[t]
                         /\ sockets[t].is_receiving \in BOOLEAN
  BY <1>2 DEF Shadows
<1>6. /\ Shadows(sockets')
      /\ \A t \in Sock : /\ sockets'[t].is_receiving = sockets[t].is_receiving
                         /\ sockets'[t].CR \in {sockets[t].CR, chip[t].CR}
  <2>1. CASE TransferPoll
    BY <1>2, <2>1 DEF TransferPoll
  <2>2. CASE TransferReadBuf
    <3>1. PICK buf : sockets' = [sockets EXCEPT ![s].rx_buf = buf]
      BY <2>2 DEF TransferReadBuf
    <3>2. QED
      BY <1>2, <1>3, <1>5, <3>1 DEF Shadows
  <2>3. CASE TransferReadSoc
    <3> DEFINE new == Overlay(Shadow(chip[s]), sockets[s])
    <3>1. sockets' = [sockets EXCEPT ![s] = new]
      BY <2>3 DEF TransferReadSoc
    <3>2. /\ DOMAIN Shadow(chip[s])
             = {"CR", "IR", "SR", "TX_FSR", "TX_WR", "RX_RSR", "RX_RD", "spi"}
          /\ Shadow(chip[s]).CR = chip[s].CR
      BY DEF Shadow
    <3>3. /\ {"CR", "SR", "is_receiving"} \subseteq DOMAIN new
          /\ new.is_receiving = sockets[s].is_receiving /\ new.CR = chip[s].CR
      BY <1>2, <1>3, <1>5, <3>2 DEF Overlay
    <3> HIDE DEF new
    <3>4. QED
      BY <1>2, <1>3, <1>5, <3>1, <3>3 DEF Shadows
  <2>4. QED
    BY <2>1, <2>2, <2>3
<1>7. QED
  BY <1>1, <1>2, <1>3, <1>4, <1>6, TransferEnds

\* The chip carries out commands, and the network delivers or fails.
LEMMA NetworkKeepsInv ==
    ASSUME NEW sole, Inv(sole), Network
    PROVE  Inv(sole)'
<1>1. Chip(chip)
  BY DEF Inv, Holds
<1>2. PICK s \in Sock : \/ Accept(s) \/ SendDone(s) \/ SendTimeout(s) \/ PeerAck(s) \/ PeerFin(s)
                        \/ \E len \in ArriveLens : Arrive(s, len)
  BY DEF Network
<1>3. {"CR", "IR"} \subseteq DOMAIN chip[s]
  BY <1>1 DEF Chip
<1>4. UNCHANGED driver
  BY <1>2 DEF Accept, SendDone, SendTimeout, PeerAck, PeerFin, Arrive, ChipOnly
<1>5. PICK c : /\ chip' = [chip EXCEPT ![s] = c] /\ DOMAIN c = DOMAIN chip[s]
               /\ c.CR \in {chip[s].CR, "NONE"}
  <2>1. CASE Accept(s)
    <3>1. /\ DOMAIN AcceptSend(chip[s]) = DOMAIN chip[s] /\ AcceptSend(chip[s]).CR = "NONE"
          /\ DOMAIN AcceptRecv(chip[s]) = DOMAIN chip[s] /\ AcceptRecv(chip[s]).CR = "NONE"
      BY <1>3 DEF AcceptSend, AcceptRecv
    <3>2. \/ chip' = [chip EXCEPT ![s] = AcceptSend(chip[s])]
          \/ chip' = [chip EXCEPT ![s] = AcceptRecv(chip[s])]
      BY <2>1 DEF Accept, ChipBecomes
    <3>3. QED
      BY <3>1, <3>2
  <2>2. CASE SendDone(s)
    <3> DEFINE c == [chip[s] EXCEPT !.sending = FALSE, !.outbound = <<>>,
                         !.IR = @ \cup {"SENDOK"},
                         !.acked = IF s \in Tcp THEN @ ELSE chip[s].TX_RD]
    <3>1. chip' = [chip EXCEPT ![s] = c]
      BY <2>2 DEF SendDone, ChipBecomes
    <3>2. DOMAIN c = DOMAIN chip[s] /\ c.CR = chip[s].CR
      BY <1>3
    <3>3. QED
      BY <3>1, <3>2
  <2>3. CASE SendTimeout(s)
    <3> DEFINE c == [chip[s] EXCEPT !.sending = FALSE, !.outbound = <<>>,
                         !.IR = @ \cup {"TIMEOUT"}, !.acked = chip[s].TX_RD,
                         !.SR = IF s \in Tcp THEN "CLOSED" ELSE @]
    <3>1. chip' = [chip EXCEPT ![s] = c]
      BY <2>3 DEF SendTimeout, ChipBecomes
    <3>2. DOMAIN c = DOMAIN chip[s] /\ c.CR = chip[s].CR
      BY <1>3
    <3>3. QED
      BY <3>1, <3>2
  <2>4. CASE PeerAck(s)
    <3> DEFINE c == [chip[s] EXCEPT !.acked = chip[s].TX_RD]
    <3>1. chip' = [chip EXCEPT ![s] = c]
      BY <2>4 DEF PeerAck, ChipBecomes
    <3>2. DOMAIN c = DOMAIN chip[s] /\ c.CR = chip[s].CR
      BY <1>3
    <3>3. QED
      BY <3>1, <3>2
  <2>5. CASE PeerFin(s)
    <3> DEFINE c == [chip[s] EXCEPT !.SR = "CLOSE_WAIT", !.IR = @ \cup {"DISCON"}]
    <3>1. chip' = [chip EXCEPT ![s] = c]
      BY <1>1, <2>5 DEF PeerFin, ChipBecomes, Chip
    <3>2. DOMAIN c = DOMAIN chip[s] /\ c.CR = chip[s].CR
      BY <1>3
    <3>3. QED
      BY <3>1, <3>2
  <2>6. ASSUME NEW len \in ArriveLens, Arrive(s, len)
        PROVE  \E c : /\ chip' = [chip EXCEPT ![s] = c] /\ DOMAIN c = DOMAIN chip[s]
                      /\ c.CR \in {chip[s].CR, "NONE"}
    <3>1. PICK bytes : chip' = [chip EXCEPT ![s] = Deposit(chip[s], bytes)]
      BY <2>6 DEF Arrive, ChipBecomes
    <3>2. DOMAIN Deposit(chip[s], bytes) = DOMAIN chip[s] /\ Deposit(chip[s], bytes).CR = chip[s].CR
      BY <1>3 DEF Deposit
    <3>3. QED
      BY <3>1, <3>2
  <2>7. QED
    BY <1>2, <2>1, <2>2, <2>3, <2>4, <2>5, <2>6
<1>6. Chip(chip')
  BY <1>1, <1>5 DEF Chip
<1>7. \A t \in Sock : chip'[t].CR \in {chip[t].CR, "NONE"}
  BY <1>1, <1>5 DEF Chip
<1>8. QED
  BY <1>4, <1>6, <1>7, DriverStays

-------------------------------------------------------------------------------
(***************************************************************************)
(* The theorems.                                                           *)
(***************************************************************************)
\* Every step keeps the invariant.
LEMMA InvStep == ASSUME NEW sole PROVE Inv(sole) /\ [Next]_vars => Inv(sole)'
<1> SUFFICES ASSUME Inv(sole), [Next]_vars PROVE Inv(sole)'
  OBVIOUS
<1>1. CASE Application
  <2>1. PICK s \in Sock : \/ \E len, dst : Send(s, len, dst)
                          \/ Recv(s) \/ RecvFrom(s)
    BY <1>1 DEF Application
  <2>2. QED
    BY <2>1, SendKeepsInv, RecvKeepsInv
<1>2. CASE Transfer
  BY <1>2, WritesKeepInv, FetchesKeepInv, ReadsKeepInv DEF Transfer
<1>3. CASE Interrupts
  BY <1>3, InterruptsKeepInv
<1>4. CASE Network
  BY <1>4, NetworkKeepsInv
<1>5. CASE UNCHANGED vars
  <2>1. Chip(chip)
    BY DEF Inv, Holds
  <2>2. UNCHANGED driver /\ chip' = chip
    BY <1>5 DEF vars
  <2>3. Chip(chip') /\ \A s \in Sock : chip'[s].CR \in {chip[s].CR, "NONE"}
    BY <2>1, <2>2
  <2>4. QED
    BY <2>2, <2>3, DriverStays
<1>6. QED
  BY <1>1, <1>2, <1>3, <1>4, <1>5 DEF Next

\* The inductive invariant of the command queue, the bus and Sn_CR.
THEOREM DriverInvariant == Spec => []Inv(Sock)
<1>1. Init => Inv(Sock)
  BY InvAtStart
<1>2. Inv(Sock) /\ [Next]_vars => Inv(Sock)'
  BY InvStep
<1>3. QED
  BY <1>1, <1>2, PTL DEF Spec

\* The invariant says when commands may wait while the bus stands still.
LEMMA InvNeverStalls == ASSUME NEW sole PROVE Inv(sole) => StallNeedsFailure
<1>1. Now(TRUE).q = command_queue /\ Now(TRUE).err = failures
  BY DEF Now
<1>2. QED
  BY <1>1 DEF Inv, Holds, Busy, StallNeedsFailure

\* kickStartCommands and dmaTXCompleteCallback: commands wait while the bus
\* stands still only if a transfer has failed.
THEOREM NeverStallsByItself == Spec => []StallNeedsFailure
<1>1. Inv(Sock) => StallNeedsFailure
  BY InvNeverStalls
<1>2. QED
  BY <1>1, DriverInvariant, PTL

\* How many commands of a queue ask for what has arrived.
LEMMA AsksCounted ==
    ASSUME NEW q, Queue(q), NEW s
    PROVE  /\ Never(q, s) => Cardinality({i \in DOMAIN q : Asks(q[i], s)}) = 0
           /\ Once(q, s) => Cardinality({i \in DOMAIN q : Asks(q[i], s)}) = 1
<1> DEFINE asking == {i \in DOMAIN q : Asks(q[i], s)}
<1>1. DOMAIN q = 1 .. Len(q)
  BY QueueIsSequence
<1>2. ASSUME Never(q, s)  PROVE  Cardinality(asking) = 0
  <2>1. asking = {}
    BY <1>1, <1>2 DEF Never
  <2>2. QED
    BY <2>1, FS_EmptySet
<1>3. ASSUME Once(q, s)  PROVE  Cardinality(asking) = 1
  <2>1. PICK k \in 1 .. Len(q) : \A i \in 1 .. Len(q) : Asks(q[i], s) <=> i = k
    BY <1>3 DEF Once
  <2>2. asking = {k}
    BY <1>1, <2>1
  <2>3. QED
    BY <2>2, FS_Singleton
<1>4. QED
  BY <1>2, <1>3

\* The commands on the bus or behind it, as ReceivingOnce looks at them.
Outstanding == (IF bus \in {"shift", "done"} THEN <<running_cmd>> ELSE <<>>)
                   \o command_queue

\* The invariant counts the CHECK_RCVs.
LEMMA InvCounts ==
    ASSUME NEW sole, Inv(sole), ~enqueueFails, NEW s \in Sock
    PROVE  /\ sockets[s].is_receiving
                 => \E i \in DOMAIN Outstanding : Asks(Outstanding[i], s)
           /\ s \in sole => Cardinality({i \in DOMAIN Outstanding : Asks(Outstanding[i], s)})
                               = IF sockets[s].is_receiving THEN 1 ELSE 0
<1> DEFINE d == Now(TRUE)
           u == Outstanding
<1>1. /\ Driver(d) /\ Busy(d) /\ Receiving(d, FALSE, sole) /\ d.q = command_queue
      /\ d.run = running_cmd /\ d.bus = bus /\ d.sk = sockets
  BY DEF Inv, Holds, Kept, Now
<1> HIDE DEF d
<1>2. Queue(command_queue)
  BY <1>1 DEF Driver
<1>3. /\ Queue(u)
      /\ NoneLeft(d, FALSE, s) <=> Never(u, s)
      /\ OneLeft(d, FALSE, s) => Once(u, s)
  <2>1. CASE bus \in {"shift", "done"}
    <3>1. u = <<running_cmd>> \o command_queue
      BY <2>1 DEF Outstanding
    <3>2. WellFormed(running_cmd)
      BY <1>1, <2>1 DEF Busy
    <3>3. QED
      BY <1>1, <1>2, <3>1, <3>2, FrontHolds DEF NoneLeft, OneLeft
  <2>2. CASE bus \notin {"shift", "done"}
    <3>1. u = command_queue
      BY <1>2, <2>2, QueueIsSequence, ConcatEmptySeq DEF Outstanding
    <3>2. ~Asks(running_cmd, s)
      BY <1>1, <2>2 DEF Busy, Idle, IsCommandWrite, Asks
    <3>3. QED
      BY <1>1, <1>2, <3>1, <3>2 DEF NoneLeft, OneLeft
  <2>3. QED
    BY <2>1, <2>2
<1> HIDE DEF u
<1>4. /\ sockets[s].is_receiving => ~Never(u, s)
      /\ s \in sole => IF sockets[s].is_receiving THEN Once(u, s) ELSE Never(u, s)
  BY <1>1, <1>3 DEF Receiving
<1>5. sockets[s].is_receiving => \E i \in DOMAIN u : Asks(u[i], s)
  BY <1>3, <1>4, QueueIsSequence DEF Never
<1>6. s \in sole => Cardinality({i \in DOMAIN u : Asks(u[i], s)})
                       = IF sockets[s].is_receiving THEN 1 ELSE 0
  BY <1>3, <1>4, AsksCounted
<1>7. QED
  BY <1>5, <1>6 DEF u

\* ... for every socket, when none is excepted.
LEMMA InvReceivesOnce ==
    ASSUME Inv(Sock), ~enqueueFails
    PROVE  ReceivingOnce
<1>1. \A s \in Sock : Cardinality({i \in DOMAIN Outstanding : Asks(Outstanding[i], s)})
                          = IF sockets[s].is_receiving THEN 1 ELSE 0
  BY InvCounts
<1>2. QED
  BY <1>1 DEF ReceivingOnce, Asks, Outstanding

\* receivePendingData: as long as the full queue has dropped no command,
\* is_receiving stands for exactly one CHECK_RCV still to come, whatever fails.
THEOREM ReceivesOnce == Spec => [](~enqueueFails => ReceivingOnce)
<1>1. Inv(Sock) => (~enqueueFails => ReceivingOnce)
  BY InvReceivesOnce
<1>2. QED
  BY <1>1, DriverInvariant, PTL

\* The invariant keeps Sn_CR from being written while a command is in it.
LEMMA InvOrdersWait ==
    ASSUME NEW sole, SureWrites, Inv(sole), ~enqueueFails
    PROVE  CommandRegisterFree
<1>1. Now(TRUE).run = running_cmd /\ Now(TRUE).bus = bus /\ Now(TRUE).fails = enqueueFails
  BY DEF Now
<1>2. QED
  BY <1>1 DEF Inv, Holds, Kept, OnTheBus, CommandRegisterFree

\* dmaTXCompleteCallback: as long as the full queue has dropped no command,
\* Sn_CR is written only while it is free, if a write that has reached the chip
\* is not reported as failed.
THEOREM OrdersWait ==
    ASSUME "WRITE_REG" \notin LateErrors
    PROVE  Spec => [](~enqueueFails => CommandRegisterFree)
<1>1. Inv(Sock) => (~enqueueFails => CommandRegisterFree)
  BY InvOrdersWait DEF SureWrites
<1>2. QED
  BY <1>1, DriverInvariant, PTL

-------------------------------------------------------------------------------
(***************************************************************************)
(* The commands on their way to the chip.                                  *)
(***************************************************************************)
\* Queues one behind the other may be put together in any order of steps.
LEMMA JoinedTwice ==
    ASSUME NEW p, Queue(p), NEW q, Queue(q), NEW r, Queue(r)
    PROVE  (p \o q) \o r = p \o (q \o r)
<1> DEFINE S == Range(p) \cup Range(q) \cup Range(r)
<1>1. p \in Seq(S) /\ q \in Seq(S) /\ r \in Seq(S)
  BY QueueIsSequence, SeqMonotonic
<1> HIDE DEF S
<1>2. QED
  BY <1>1, ConcatAssociative

\* The empty queue in front or behind changes nothing.
LEMMA JoinedWithNothing ==
    ASSUME NEW q, Queue(q)
    PROVE  <<>> \o q = q /\ q \o <<>> = q
  BY QueueIsSequence, ConcatEmptySeq

\* The commands of a state d that have not reached the chip yet.
Line(d) == (IF d.bus = "shift" THEN <<d.run>> ELSE <<>>) \o d.q

\* The commands on their way are a queue.
LEMMA LineIs ==
    ASSUME NEW d, Driver(d), Busy(d)
    PROVE  /\ Queue(d.q) /\ Queue(Line(d))
           /\ d.bus # "shift" => Line(d) = d.q
           /\ d.bus = "shift" => Line(d) = <<d.run>> \o d.q
           /\ d.bus \in {"shift", "poll"} => WellFormed(d.run) /\ Queue(<<d.run>>)
<1>1. Queue(d.q)
  BY DEF Driver
<1>2. d.bus \in {"shift", "poll"} => WellFormed(d.run)
  BY DEF Busy
<1>3. d.bus \in {"shift", "poll"} => Queue(<<d.run>>)
  BY <1>2, OneCommand
<1>4. d.bus # "shift" => Line(d) = d.q
  BY <1>1, JoinedWithNothing DEF Line
<1>5. d.bus = "shift" => Line(d) = <<d.run>> \o d.q
  BY DEF Line
<1>6. d.bus = "shift" => Queue(<<d.run>> \o d.q)
  BY <1>1, <1>3, Joined
<1>7. QED
  BY <1>1, <1>2, <1>3, <1>4, <1>5, <1>6

-------------------------------------------------------------------------------
(***************************************************************************)
(* The SEND commands on their way, and the writes that clear flags.        *)
(***************************************************************************)
Bit(b) == IF b THEN 1 ELSE 0

\* How many SEND commands of socket s a queue holds.
Sends(q, s) == Cardinality({i \in DOMAIN q : IsSend(q[i], s)})

\* A write to Sn_IR clears flags; the handler that queues one puts it on the bus.
Clears(c, s) == c.cmd_type = "WRITE_REG" /\ c.sn = s /\ "IR" \in DOMAIN c.val
NoClear(q)   == \A i \in 1 .. Len(q) : \A s \in Sock : ~Clears(q[i], s)

\* The SENDs of two queues, one behind the other, add up.
LEMMA SendsAddUp ==
    ASSUME NEW p, Queue(p), NEW q, Queue(q), NEW s
    PROVE  /\ Sends(p, s) \in Nat /\ Sends(q, s) \in Nat
           /\ Sends(p \o q, s) = Sends(p, s) + Sends(q, s)
<1> DEFINE r == p \o q
           m == Len(p)
           A == {i \in 1 .. m : IsSend(p[i], s)}
           B == {i \in 1 .. Len(q) : IsSend(q[i], s)}
           C == {i \in 1 .. Len(r) : IsSend(r[i], s)}
           D == {i + m : i \in B}
           f == [i \in B |-> i + m]
<1>1. /\ m \in Nat /\ Len(q) \in Nat /\ DOMAIN p = 1 .. m /\ DOMAIN q = 1 .. Len(q)
  BY QueueIsSequence
<1>2. /\ Queue(r) /\ Len(r) = m + Len(q)
      /\ \A i \in 1 .. m : r[i] = p[i]
      /\ \A i \in 1 .. Len(q) : r[i + m] = q[i]
      /\ \A i \in 1 .. Len(r) : i \in 1 .. m \/ i - m \in 1 .. Len(q)
  BY Joined
<1>3. DOMAIN r = 1 .. Len(r)
  BY <1>2, QueueIsSequence
<1> HIDE DEF r, m
<1>4. IsFiniteSet(A) /\ IsFiniteSet(B)
  <2>1. IsFiniteSet(1 .. m) /\ IsFiniteSet(1 .. Len(q))
    BY <1>1, FS_Interval
  <2>2. QED
    BY <2>1, FS_Subset
<1>5. Cardinality(A) \in Nat /\ Cardinality(B) \in Nat
  BY <1>4, FS_CardinalityType
<1>6. IsFiniteSet(D) /\ Cardinality(D) = Cardinality(B)
  <2>1. f \in [B -> D] /\ \A i \in B : f[i] = i + m
    OBVIOUS
  <2>2. \A i, j \in B : f[i] = f[j] => i = j
    BY <1>1, <2>1
  <2>3. \A k \in D : \E i \in B : f[i] = k
    BY <2>1
  <2> HIDE DEF f
  <2>4. f \in Bijection(B, D)
    BY <2>1, <2>2, <2>3 DEF Bijection, Injection, Surjection, IsInjective
  <2>5. ExistsBijection(B, D)
    BY <2>4 DEF ExistsBijection
  <2>6. QED
    BY <1>4, <2>5, FS_Bijection
<1>7. C = A \cup D
  <2>1. \A i \in C : i \in A \cup D
    <3>1. TAKE i \in C
    <3>2. CASE i \in 1 .. m
      BY <1>2, <3>2
    <3>3. CASE i - m \in 1 .. Len(q)
      <4>1. i = (i - m) + m
        BY <1>1, <1>2
      <4>2. i - m \in B
        BY <1>2, <3>3, <4>1
      <4>3. QED
        BY <4>1, <4>2
    <3>4. QED
      BY <1>2, <3>2, <3>3
  <2>2. \A i \in A : i \in C
    BY <1>1, <1>2
  <2>3. \A i \in B : i + m \in C
    BY <1>1, <1>2
  <2>4. QED
    BY <2>1, <2>2, <2>3
<1>8. A \cap D = {}
  BY <1>1
<1> HIDE DEF A, B, C, D
<1>9. Cardinality(C) = Cardinality(A) + Cardinality(B)
  <2>1. Cardinality(A \cup D) = Cardinality(A) + Cardinality(D) - Cardinality(A \cap D)
    BY <1>4, <1>6, FS_Union
  <2>2. Cardinality(A \cap D) = 0
    BY <1>8, FS_EmptySet
  <2> DEFINE x == Cardinality(A \cap D)
             y == Cardinality(D)
  <2>3. x = 0 /\ y = Cardinality(B)
    BY <1>6, <2>2
  <2>4. Cardinality(C) = Cardinality(A) + y - x
    BY <1>7, <2>1
  <2> HIDE DEF x, y
  <2>5. QED
    BY <1>5, <2>3, <2>4
<1>10. Sends(p, s) = Cardinality(A) /\ Sends(q, s) = Cardinality(B) /\ Sends(r, s) = Cardinality(C)
  BY <1>1, <1>3 DEF Sends, A, B, C
<1>11. QED
  BY <1>5, <1>9, <1>10 DEF r

\* What one command, or none, counts for.
LEMMA SendsOfOne ==
    ASSUME NEW c, WellFormed(c), NEW s
    PROVE  /\ Sends(<<>>, s) = 0 /\ NoClear(<<>>)
           /\ Queue(<<c>>) /\ Sends(<<c>>, s) = Bit(IsSend(c, s))
           /\ NoClear(<<c>>) <=> \A t \in Sock : ~Clears(c, t)
<1> DEFINE q == <<c>>
           A == {i \in DOMAIN q : IsSend(q[i], s)}
<1>1. Queue(q) /\ Len(q) = 1 /\ q[1] = c
  BY OneCommand
<1>2. DOMAIN q = {1}
  OBVIOUS
<1> HIDE DEF q
<1>3. Cardinality({}) = 0 /\ Cardinality({1}) = 1
  BY FS_EmptySet, FS_Singleton
<1>4. Sends(q, s) = Bit(IsSend(c, s))
  <2>1. CASE IsSend(c, s)
    <3>1. A = {1}
      BY <1>1, <1>2, <2>1
    <3>2. QED
      BY <1>3, <2>1, <3>1 DEF Sends, Bit
  <2>2. CASE ~IsSend(c, s)
    <3>1. A = {}
      BY <1>1, <1>2, <2>2
    <3>2. QED
      BY <1>3, <2>2, <3>1 DEF Sends, Bit
  <2>3. QED
    BY <2>1, <2>2
<1>5. NoClear(q) <=> \A t \in Sock : ~Clears(c, t)
  <2>1. \A i \in 1 .. Len(q) : i = 1
    BY <1>1
  <2>2. 1 \in 1 .. Len(q)
    BY <1>1
  <2>3. QED
    BY <1>1, <2>1, <2>2 DEF NoClear
<1>6. Len(<<>>) = 0
  BY EmptySeq
<1>7. NoClear(<<>>)
  BY <1>6 DEF NoClear
<1>8. Sends(<<>>, s) = 0
  <2>1. {i \in DOMAIN <<>> : IsSend(<<>>[i], s)} = {}
    OBVIOUS
  <2>2. QED
    BY <1>3, <2>1 DEF Sends
<1>9. QED
  BY <1>1, <1>4, <1>5, <1>7, <1>8 DEF q

\* Two queues, one behind the other, clear flags if one of them does.
LEMMA ClearsJoined ==
    ASSUME NEW p, Queue(p), NEW q, Queue(q)
    PROVE  NoClear(p \o q) <=> NoClear(p) /\ NoClear(q)
<1> DEFINE r == p \o q
           m == Len(p)
<1>1. m \in Nat /\ Len(q) \in Nat
  BY QueueIsSequence
<1>2. /\ Len(r) = m + Len(q)
      /\ \A i \in 1 .. m : r[i] = p[i]
      /\ \A i \in 1 .. Len(q) : r[i + m] = q[i]
      /\ \A i \in 1 .. Len(r) : i \in 1 .. m \/ i - m \in 1 .. Len(q)
  BY Joined
<1> HIDE DEF r, m
<1>3. \A i \in 1 .. Len(r) : \/ i \in 1 .. m /\ r[i] = p[i]
                             \/ i - m \in 1 .. Len(q) /\ r[i] = q[i - m]
  <2>1. TAKE i \in 1 .. Len(r)
  <2>2. i - m \in 1 .. Len(q) => (i - m) + m = i
    BY <1>1, <1>2
  <2>3. QED
    BY <1>2, <2>2
<1>4. ASSUME NoClear(p), NoClear(q)  PROVE  NoClear(r)
  BY <1>3, <1>4 DEF NoClear, m
<1>5. /\ \A i \in 1 .. m : i \in 1 .. Len(r)
      /\ \A i \in 1 .. Len(q) : i + m \in 1 .. Len(r)
  BY <1>1, <1>2
<1>6. ASSUME NoClear(r)  PROVE  NoClear(p) /\ NoClear(q)
  BY <1>2, <1>5, <1>6 DEF NoClear, m
<1>7. QED
  BY <1>4, <1>6 DEF r

\* A queue without a SEND, and one with a single SEND.
LEMMA SendsOfFew ==
    ASSUME NEW q, Queue(q), NEW s
    PROVE  /\ (\A i \in 1 .. Len(q) : ~IsSend(q[i], s)) => Sends(q, s) = 0
           /\ (\E k \in 1 .. Len(q) : \A i \in 1 .. Len(q) : IsSend(q[i], s) <=> i = k)
                 => Sends(q, s) = 1
<1> DEFINE A == {i \in DOMAIN q : IsSend(q[i], s)}
<1>1. DOMAIN q = 1 .. Len(q)
  BY QueueIsSequence
<1>2. ASSUME \A i \in 1 .. Len(q) : ~IsSend(q[i], s)  PROVE  Sends(q, s) = 0
  <2>1. A = {}
    BY <1>1, <1>2
  <2>2. QED
    BY <2>1, FS_EmptySet DEF Sends
<1>3. ASSUME NEW k \in 1 .. Len(q), \A i \in 1 .. Len(q) : IsSend(q[i], s) <=> i = k
      PROVE  Sends(q, s) = 1
  <2>1. A = {k}
    BY <1>1, <1>3
  <2>2. QED
    BY <2>1, FS_Singleton DEF Sends
<1>4. QED
  BY <1>2, <1>3

\* Taking the command in front of a queue leaves the rest.
LEMMA FrontTaken ==
    ASSUME NEW q, Queue(q), NEW c, WellFormed(c)
    PROVE  Head(<<c>> \o q) = c /\ Tail(<<c>> \o q) = q
<1> DEFINE S == Range(q) \cup {c}
           r == <<c>> \o q
<1>1. q \in Seq(S) /\ Len(q) \in Nat
  BY QueueIsSequence, SeqMonotonic
<1> HIDE DEF S
<1>2. /\ Queue(r) /\ r # <<>> /\ Queue(<<c>>) /\ Len(<<c>>) = 1 /\ <<c>>[1] = c
  BY OneCommand, FrontHolds
<1>3. /\ Len(r) = 1 + Len(q) /\ \A i \in 1 .. 1 : r[i] = <<c>>[i]
      /\ \A i \in 1 .. Len(q) : r[i + 1] = q[i]
  BY <1>2, Joined
<1> HIDE DEF r
<1>4. /\ Head(r) = r[1] /\ Tail(r) \in Seq(Range(r)) /\ Len(Tail(r)) = Len(r) - 1
      /\ \A i \in 1 .. Len(r) - 1 : Tail(r)[i] = r[i + 1]
  <2>1. r \in Seq(Range(r))
    BY <1>2, QueueIsSequence
  <2>2. QED
    BY <1>2, <2>1, HeadTailProperties
<1>5. Head(r) = c
  BY <1>2, <1>3, <1>4
<1> DEFINE t == Tail(r)
           T == Range(r) \cup S
<1>6. t \in Seq(T) /\ q \in Seq(T)
  BY <1>1, <1>4, SeqMonotonic
<1>7. Len(t) = Len(q) /\ \A i \in 1 .. Len(q) : t[i] = q[i]
  BY <1>1, <1>3, <1>4
<1> HIDE DEF t, T
<1>8. t = q
  BY <1>6, <1>7, SeqEqual
<1>9. QED
  BY <1>5, <1>8 DEF r, t

\* As long as nothing has failed, dmaTXCompleteCallback takes the first command,
\* or polls for it, or puts a read of Sn_CR behind it.
LEMMA StartIs ==
    ASSUME NEW d, Driver(d), NEW e, e = Start(d), ~e.fails, e.err = 0
    PROVE  /\ ~d.fails /\ d.err = 0 /\ e.sk = d.sk
           /\ \/ d.q = <<>> /\ e.q = <<>> /\ e.bus = "none"
              \/ /\ d.q # <<>> /\ e.run = Head(d.q) /\ e.bus = "shift"
                 /\ ~IsCommandWrite(e.run) /\ e.q = Tail(d.q)
              \/ /\ d.q # <<>> /\ e.run = Head(d.q) /\ e.bus = "poll"
                 /\ IsCommandWrite(e.run) /\ e.q = d.q
              \/ /\ d.q # <<>> /\ e.run = Head(d.q) /\ e.bus = "shift"
                 /\ IsCommandWrite(e.run)
                 /\ e.q = <<GetReg(e.run.sn, {"CR"})>> \o Tail(d.q)
<1>1. DOMAIN d = DriverFields /\ Queue(d.q) /\ Shadows(d.sk)
      /\ d.fails \in BOOLEAN /\ d.err \in Nat /\ d.hal \in BOOLEAN
  BY DEF Driver, DriverFields
<1>2. CASE d.q = <<>>
  <2>1. e = [d EXCEPT !.run = IDLE_COMMAND, !.bus = "none"]
    BY <1>2 DEF Start
  <2>2. /\ e.q = <<>> /\ e.bus = "none" /\ e.sk = d.sk /\ e.err = d.err /\ e.fails = d.fails
    BY <1>1, <1>2, <2>1 DEF DriverFields
  <2>3. QED
    BY <1>2, <2>2
<1>3. CASE d.q # <<>>
  <2> DEFINE c == Head(d.q)
             t == Tail(d.q)
             p == [d EXCEPT !.q = Tail(d.q), !.run = c]
             b == [p EXCEPT !.bus = "shift"]
             w == [p EXCEPT !.bus = "poll"]
             g == GetReg(c.sn, {"CR"})
  <2>1. WellFormed(c) /\ Queue(t) /\ d.q = <<c>> \o t
    BY <1>1, <1>3, HeadHolds
  <2>2. e = IF ~d.hal THEN Failed(p)
            ELSE IF ~IsCommandWrite(c) THEN b
            ELSE IF d.sk[c.sn].CR # "NONE" THEN InFront(w, c)
            ELSE InFront(b, g)
    BY <1>3 DEF Start
  <2>a. IsCommandWrite(c) => c.sn \in Sock /\ WellFormed(g)
    BY <2>1, Commands DEF IsCommandWrite, WellFormed
  <2> HIDE DEF c, t
  <2>3. /\ DOMAIN p = DriverFields /\ p.q = t /\ p.run = c /\ p.sk = d.sk
        /\ p.err = d.err /\ p.hal = d.hal /\ p.fails = d.fails
    BY <1>1 DEF DriverFields, t
  <2> HIDE DEF p
  <2>4. Driver(p)
    BY <1>1, <2>1, <2>3 DEF Driver, DriverFields
  <2>5. /\ DOMAIN b = DriverFields /\ b.q = t /\ b.run = c /\ b.sk = d.sk /\ b.bus = "shift"
        /\ b.err = d.err /\ b.hal = d.hal /\ b.fails = d.fails
    BY <2>3 DEF DriverFields
  <2>6. /\ DOMAIN w = DriverFields /\ w.q = t /\ w.run = c /\ w.sk = d.sk /\ w.bus = "poll"
        /\ w.err = d.err /\ w.hal = d.hal /\ w.fails = d.fails
    BY <2>3 DEF DriverFields
  <2> HIDE DEF b, w, g
  <2>7. Driver(b) /\ Driver(w)
    BY <1>1, <2>1, <2>5, <2>6 DEF Driver, DriverFields
  <2>8. CASE ~d.hal
    <3>1. e = Failed(p)
      BY <2>2, <2>8
    <3>2. e.err > 0
      BY <2>1, <2>3, <2>4, <3>1, FailedKeeps
    <3>3. QED
      BY <3>2
  <2>9. CASE d.hal /\ ~IsCommandWrite(c)
    <3>1. e = b
      BY <2>2, <2>9
    <3>2. QED
      BY <1>3, <2>5, <2>9, <3>1 DEF c, t
  <2>10. CASE d.hal /\ IsCommandWrite(c) /\ d.sk[c.sn].CR # "NONE"
    <3>1. e = InFront(w, c)
      BY <2>2, <2>10
    <3>2. /\ e.run = c /\ e.bus = "poll" /\ e.sk = d.sk /\ e.err = d.err
          /\ ~d.fails /\ e.q = d.q
      BY <2>1, <2>6, <2>7, <3>1, PutInFront
    <3>3. QED
      BY <1>3, <2>10, <3>2 DEF c
  <2>11. CASE d.hal /\ IsCommandWrite(c) /\ d.sk[c.sn].CR = "NONE"
    <3>1. e = InFront(b, g)
      BY <2>2, <2>11
    <3>2. /\ e.run = c /\ e.bus = "shift" /\ e.sk = d.sk /\ e.err = d.err
          /\ ~d.fails /\ e.q = <<g>> \o t
      BY <2>a, <2>5, <2>7, <2>11, <3>1, PutInFront
    <3>3. QED
      BY <1>3, <2>11, <3>2 DEF c, t, g
  <2>12. QED
    BY <1>1, <2>8, <2>9, <2>10, <2>11
<1>4. QED
  BY <1>2, <1>3

-------------------------------------------------------------------------------
(***************************************************************************)
(* Parts of a handler that keep the balance of is_sending and SENDs.       *)
(***************************************************************************)
SendShadows(sk) ==
    \A s \in Sock : {"IR", "is_sending"} \subseteq DOMAIN sk[s] /\ sk[s].is_sending \in BOOLEAN

\* The outcomes of a SEND, and those a write on the bus is about to clear.
Outcomes == {"SENDOK", "TIMEOUT"}
Covered(d, s) ==
    IF d.bus = "shift" /\ Clears(d.run, s) THEN d.run.val.IR \cap Outcomes ELSE {}

\* What is_sending stands for, apart from a SEND still on its way to the chip.
Gap(d, s) == Bit(d.sk[s].is_sending) - Sends(Line(d), s)

\* Nothing was dropped and no transfer failed.
Well(d) == ~d.fails /\ d.err = 0

Even(d, e) ==
    /\ Driver(e) /\ Busy(e) /\ SendShadows(e.sk)
    /\ ~Idle(d) => e.run = d.run /\ e.bus = d.bus
    /\ Idle(d) => e.bus # "done"
    /\ \A s \in Sock : e.sk[s].IR = d.sk[s].IR
    /\ Well(e) => /\ Well(d)
                  /\ NoClear(d.q) =>
                         /\ NoClear(e.q)
                         /\ \A s \in Sock : Gap(e, s) = Gap(d, s) /\ Covered(e, s) = Covered(d, s)

\* One part after the other.
LEMMA EvenOn ==
    ASSUME NEW d, Driver(d), Busy(d), SendShadows(d.sk), NEW e, NEW f
    PROVE  Even(d, d) /\ (Even(d, e) /\ Even(e, f) => Even(d, f))
<1>1. Even(d, d)
  BY DEF Even, Busy
<1>2. ASSUME Even(d, e), Even(e, f)  PROVE  Even(d, f)
  <2>1. ~Idle(d) => ~Idle(e) /\ e.run = d.run /\ e.bus = d.bus
    BY <1>2 DEF Even, Idle
  <2>2. /\ ~Idle(d) => f.run = d.run /\ f.bus = d.bus
        /\ Idle(d) => f.bus # "done"
    BY <1>2, <2>1 DEF Even
  <2> HIDE DEF Idle
  <2>3. Well(f) => Well(d)
    BY <1>2 DEF Even
  <2>4. ASSUME Well(f), NoClear(d.q)
        PROVE  NoClear(f.q) /\ \A s \in Sock : Gap(f, s) = Gap(d, s) /\ Covered(f, s) = Covered(d, s)
    <3>1. /\ Well(e) /\ NoClear(e.q)
          /\ \A s \in Sock : Gap(e, s) = Gap(d, s) /\ Covered(e, s) = Covered(d, s)
      BY <1>2, <2>4 DEF Even
    <3>2. /\ NoClear(f.q)
          /\ \A s \in Sock : Gap(f, s) = Gap(e, s) /\ Covered(f, s) = Covered(e, s)
      BY <1>2, <2>4, <3>1 DEF Even
    <3>3. QED
      BY <3>1, <3>2
  <2>5. /\ Driver(f) /\ Busy(f) /\ SendShadows(f.sk)
        /\ \A s \in Sock : f.sk[s].IR = d.sk[s].IR
    BY <1>2 DEF Even
  <2>6. QED
    BY <2>2, <2>3, <2>4, <2>5 DEF Even
<1>3. QED
  BY <1>1, <1>2

\* The next command goes to the bus, none of them a write to Sn_IR.
LEMMA StartEven ==
    ASSUME NEW d, Driver(d), NEW e, e = Start(d), Well(e), NoClear(d.q)
    PROVE  /\ Well(d) /\ NoClear(e.q)
           /\ \A s \in Sock : Sends(Line(e), s) = Sends(d.q, s) /\ Covered(e, s) = {}
<1>1. Queue(d.q) /\ Driver(e) /\ Busy(e)
  BY Started DEF Driver
<1>2. /\ ~d.fails /\ d.err = 0 /\ e.sk = d.sk
      /\ \/ d.q = <<>> /\ e.q = <<>> /\ e.bus = "none"
         \/ /\ d.q # <<>> /\ e.run = Head(d.q) /\ e.bus = "shift"
            /\ ~IsCommandWrite(e.run) /\ e.q = Tail(d.q)
         \/ /\ d.q # <<>> /\ e.run = Head(d.q) /\ e.bus = "poll"
            /\ IsCommandWrite(e.run) /\ e.q = d.q
         \/ /\ d.q # <<>> /\ e.run = Head(d.q) /\ e.bus = "shift"
            /\ IsCommandWrite(e.run)
            /\ e.q = <<GetReg(e.run.sn, {"CR"})>> \o Tail(d.q)
  BY StartIs DEF Well
<1>3. /\ e.bus # "shift" => Line(e) = e.q
      /\ e.bus = "shift" => Line(e) = <<e.run>> \o e.q
  BY <1>1, LineIs
<1>4. CASE d.q = <<>> /\ e.q = <<>> /\ e.bus = "none"
  BY <1>2, <1>3, <1>4 DEF Well, Covered
<1>5. CASE d.q # <<>> /\ e.run = Head(d.q)
  <2> DEFINE c == Head(d.q)
             t == Tail(d.q)
             g == GetReg(c.sn, {"CR"})
  <2>1. WellFormed(c) /\ Queue(t) /\ d.q = <<c>> \o t
    BY <1>1, <1>5, HeadHolds
  <2>2. e.run = c
    BY <1>5
  <2>3. \/ e.bus = "shift" /\ e.q = t
        \/ e.bus = "poll" /\ e.q = d.q
        \/ e.bus = "shift" /\ IsCommandWrite(c) /\ e.q = <<g>> \o t
    BY <1>2, <1>5
  <2>4. IsCommandWrite(c) => WellFormed(g) /\ g.cmd_type = "READ_REG"
    BY <2>1, Commands DEF IsCommandWrite, WellFormed
  <2> HIDE DEF c, t, g
  <2>5. Queue(<<c>>)
    BY <2>1, SendsOfOne
  <2>6. NoClear(<<c>>) /\ NoClear(t)
    BY <2>1, <2>5, ClearsJoined
  <2>7. \A s \in Sock : ~Clears(c, s)
    BY <2>1, <2>6, SendsOfOne
  <2>8. Well(d) /\ \A s \in Sock : Covered(e, s) = {}
    BY <1>2, <2>2, <2>7 DEF Well, Covered
  <2>9. CASE e.bus = "shift" /\ e.q = t
    BY <1>3, <2>1, <2>2, <2>6, <2>8, <2>9
  <2>10. CASE e.bus = "poll" /\ e.q = d.q
    BY <1>3, <2>8, <2>10
  <2>11. CASE e.bus = "shift" /\ IsCommandWrite(c) /\ e.q = <<g>> \o t
    <3>1. \A s \in Sock : ~Clears(g, s) /\ ~IsSend(g, s)
      BY <2>4, <2>11 DEF Clears, IsSend, IsCommandWrite
    <3>2. /\ Queue(<<g>>) /\ NoClear(<<g>>)
          /\ \A s \in Sock : Sends(<<g>>, s) = 0
      BY <2>4, <2>11, <3>1, SendsOfOne DEF Bit
    <3>3. NoClear(e.q) /\ Queue(e.q)
      <4>1. NoClear(<<g>> \o t)
        BY <2>1, <2>6, <3>2, ClearsJoined
      <4>2. Queue(<<g>> \o t)
        BY <2>1, <3>2, Joined
      <4>3. QED
        BY <2>11, <4>1, <4>2
    <3>4. ASSUME NEW s \in Sock  PROVE  Sends(Line(e), s) = Sends(d.q, s)
      <4> DEFINE n == Sends(<<c>>, s)
                 k == Sends(t, s)
      <4>1. /\ n \in Nat /\ k \in Nat /\ Sends(d.q, s) = n + k
        BY <2>1, <2>5, SendsAddUp
      <4>2. Sends(e.q, s) = Sends(<<g>>, s) + k
        BY <2>1, <2>11, <3>2, SendsAddUp
      <4>3. Sends(Line(e), s) = n + Sends(e.q, s)
        <5>1. Line(e) = <<c>> \o e.q
          BY <1>3, <2>2, <2>11
        <5>2. Sends(<<c>> \o e.q, s) = Sends(<<c>>, s) + Sends(e.q, s)
          BY <2>5, <3>3, SendsAddUp
        <5>3. QED
          BY <5>1, <5>2
      <4> HIDE DEF n, k
      <4>4. QED
        BY <3>2, <4>1, <4>2, <4>3
    <3>5. QED
      BY <2>8, <3>3, <3>4
  <2>12. QED
    BY <2>3, <2>9, <2>10, <2>11
<1>6. QED
  BY <1>2, <1>4, <1>5

\* Commands appended to the queue come behind all that are on their way.
LEMMA LineGrows ==
    ASSUME NEW d, Driver(d), Busy(d), NEW l, Queue(l),
           NEW e, e.run = d.run, e.bus = d.bus, e.q = d.q \o l
    PROVE  Line(e) = Line(d) \o l /\ \A s : Sends(Line(e), s) = Sends(Line(d), s) + Sends(l, s)
<1> DEFINE a == <<d.run>>
           q == d.q
           m == Line(d)
<1>1. /\ Queue(q) /\ Queue(m)
      /\ d.bus # "shift" => m = q
      /\ d.bus = "shift" => m = a \o q /\ Queue(a)
  BY LineIs
<1>2. e.q = q \o l /\ e.run = d.run
  OBVIOUS
<1>3. /\ e.bus = "shift" => Line(e) = a \o e.q
      /\ e.bus # "shift" => Line(e) = <<>> \o e.q
  BY DEF Line
<1> HIDE DEF a, q, m
<1>4. Queue(q \o l)
  BY <1>1, Joined
<1>5. ASSUME d.bus = "shift"  PROVE  Line(e) = m \o l
  <2>1. (a \o q) \o l = a \o (q \o l)
    BY <1>1, <1>5, JoinedTwice
  <2>2. Line(e) = a \o e.q /\ m = a \o q
    BY <1>1, <1>3, <1>5
  <2>3. Line(e) = a \o (q \o l)
    BY <1>2, <2>2
  <2>4. Line(e) = (a \o q) \o l
    BY <2>1, <2>3
  <2>5. QED
    BY <2>2, <2>4
<1>6. ASSUME d.bus # "shift"  PROVE  Line(e) = m \o l
  <2>1. <<>> \o (q \o l) = q \o l
    BY <1>4, JoinedWithNothing
  <2>2. Line(e) = <<>> \o e.q /\ m = q
    BY <1>1, <1>3, <1>6
  <2>3. Line(e) = q \o l
    BY <1>2, <2>1, <2>2
  <2>4. QED
    BY <2>2, <2>3
<1>7. Line(e) = m \o l
  BY <1>5, <1>6 DEF m
<1>8. \A s : Sends(m \o l, s) = Sends(m, s) + Sends(l, s)
  BY <1>1, SendsAddUp
<1>9. QED
  BY <1>7, <1>8 DEF m

\* queuePushBack of a list that clears no flag: the SENDs on their way grow by
\* those of the list.
LEMMA PushBacksEven ==
    ASSUME NEW d, Driver(d), Busy(d), NEW l, Queue(l), l # <<>>, NoClear(l),
           NEW e, e = PushBacks(d, l)
    PROVE  /\ Driver(e) /\ Busy(e) /\ e.sk = d.sk
           /\ ~Idle(d) => e.run = d.run /\ e.bus = d.bus
           /\ Idle(d) => e.bus # "done"
           /\ Well(e) => /\ Well(d)
                         /\ NoClear(d.q) =>
                              /\ NoClear(e.q)
                              /\ \A s \in Sock :
                                   /\ Sends(Line(e), s) = Sends(Line(d), s) + Sends(l, s)
                                   /\ Covered(e, s) = Covered(d, s)
<1>1. DOMAIN d = DriverFields /\ Queue(d.q) /\ Shadows(d.sk)
      /\ d.fails \in BOOLEAN /\ d.err \in Nat /\ d.hal \in BOOLEAN
  BY DEF Driver, DriverFields
<1>2. /\ Driver(e) /\ Busy(e) /\ e.sk = d.sk
      /\ ~Idle(d) => e.run = d.run /\ e.bus = d.bus
      /\ Idle(d) => e.bus # "done"
  <2>1. PICK done \in BOOLEAN : done = FALSE
    OBVIOUS
  <2>2. PICK ch : ch = chip
    OBVIOUS
  <2>3. QED
    BY <2>1, <2>2, PushedBack
<1>4. CASE d.q = <<>> /\ Idle(d)
  <2> DEFINE h == Head(l)
             t == Tail(l)
             f == [d EXCEPT !.q = <<h>>]
             g == Start(f)
  <2>1. WellFormed(h) /\ Queue(t) /\ l = <<h>> \o t
    BY HeadHolds
  <2>2. e = AppendAll(g, t)
    BY <1>4 DEF PushBacks
  <2> HIDE DEF h, t
  <2>3. Queue(<<h>>) /\ <<h>> # <<>>
    BY <2>1, OneCommand
  <2>4. NoClear(<<h>>) /\ NoClear(t)
    BY <2>1, <2>3, ClearsJoined
  <2>5. /\ DOMAIN f = DriverFields /\ f.q = <<h>> /\ f.sk = d.sk
        /\ f.err = d.err /\ f.hal = d.hal /\ f.fails = d.fails
    BY <1>1 DEF DriverFields
  <2> HIDE DEF f
  <2>6. Driver(f)
    BY <1>1, <2>3, <2>5 DEF Driver, DriverFields
  <2>7. Driver(g) /\ Busy(g)
    BY <2>6, Started
  <2>8. Well(g) => /\ Well(f) /\ NoClear(g.q)
                   /\ \A s \in Sock : Sends(Line(g), s) = Sends(f.q, s) /\ Covered(g, s) = {}
    BY <2>4, <2>5, <2>6, StartEven
  <2> HIDE DEF g
  <2>9. /\ e.run = g.run /\ e.bus = g.bus /\ e.err = g.err
        /\ ~e.fails => ~g.fails /\ e.q = g.q \o t
    <3>1. Queue(t)
      BY <2>1
    <3>2. QED
      BY <2>2, <2>7, <3>1, Appended
  <2>10. d.bus = "none" /\ Line(d) = <<>>
    <3>1. d.bus = "none"
      BY <1>4 DEF Busy
    <3>2. QED
      BY <1>4, <3>1, LineIs
  <2>11. ASSUME Well(e)
         PROVE  /\ Well(d) /\ NoClear(e.q)
                /\ \A s \in Sock : Sends(Line(e), s) = Sends(Line(d), s) + Sends(l, s)
                                   /\ Covered(e, s) = Covered(d, s)
    <3>1. Well(g) /\ e.q = g.q \o t
      BY <2>9, <2>11 DEF Well
    <3>2. Well(d)
      BY <2>5, <2>8, <3>1 DEF Well
    <3>3. NoClear(e.q)
      <4>1. Queue(g.q) /\ NoClear(g.q) /\ Queue(t) /\ NoClear(t)
        BY <2>1, <2>4, <2>7, <2>8, <3>1 DEF Driver
      <4>2. NoClear(g.q \o t)
        BY <4>1, ClearsJoined
      <4>3. QED
        BY <3>1, <4>2
    <3>4. \A s : Sends(Line(e), s) = Sends(Line(g), s) + Sends(t, s)
      <4>1. Queue(t)
        BY <2>1
      <4>2. QED
        BY <2>7, <2>9, <3>1, <4>1, LineGrows
    <3>5. ASSUME NEW s \in Sock
          PROVE  Sends(Line(e), s) = Sends(Line(d), s) + Sends(l, s)
      <4> DEFINE n == Sends(<<h>>, s)
                 k == Sends(t, s)
      <4>1. /\ n \in Nat /\ k \in Nat
            /\ Sends(l, s) = n + k
        BY <2>1, <2>3, SendsAddUp
      <4>2. Sends(Line(e), s) = n + k
        BY <2>5, <2>8, <3>1, <3>4
      <4>3. Sends(Line(d), s) = 0
        BY <2>1, <2>10, SendsOfOne
      <4> HIDE DEF n, k
      <4>4. QED
        BY <4>1, <4>2, <4>3
    <3>6. \A s \in Sock : Covered(e, s) = Covered(d, s)
      BY <2>8, <2>9, <2>10, <3>1 DEF Covered
    <3>7. QED
      BY <3>2, <3>3, <3>5, <3>6
  <2>12. QED
    BY <1>2, <2>11
<1>5. CASE ~(d.q = <<>> /\ Idle(d))
  <2>1. e = AppendAll(d, l)
    BY <1>5 DEF PushBacks
  <2>2. /\ e.run = d.run /\ e.bus = d.bus /\ e.err = d.err
        /\ ~e.fails => ~d.fails /\ e.q = d.q \o l
    BY <2>1, Appended
  <2>3. ASSUME Well(e), NoClear(d.q)
        PROVE  /\ NoClear(e.q)
               /\ \A s \in Sock : Sends(Line(e), s) = Sends(Line(d), s) + Sends(l, s)
                                  /\ Covered(e, s) = Covered(d, s)
    <3>1. e.q = d.q \o l
      BY <2>2, <2>3 DEF Well
    <3>2. NoClear(d.q \o l)
      BY <1>1, <2>3, ClearsJoined
    <3>3. \A s : Sends(Line(e), s) = Sends(Line(d), s) + Sends(l, s)
      BY <2>2, <3>1, LineGrows
    <3>4. \A s \in Sock : Covered(e, s) = Covered(d, s)
      BY <2>2 DEF Covered
    <3>5. QED
      BY <3>1, <3>2, <3>3, <3>4
  <2>4. Well(e) => Well(d)
    BY <2>2 DEF Well
  <2>5. QED
    BY <1>2, <2>3, <2>4
<1>6. QED
  BY <1>4, <1>5

\* is_sending and the SENDs queued along with it balance.
LEMMA QueuedEven ==
    ASSUME NEW d, Driver(d), Busy(d), SendShadows(d.sk), NEW f, SameOrders(d, f),
           SendShadows(f.sk), \A t \in Sock : f.sk[t].IR = d.sk[t].IR,
           NEW l, Queue(l), l # <<>>, NoClear(l),
           \A t \in Sock : Sends(l, t) = Bit(f.sk[t].is_sending) - Bit(d.sk[t].is_sending),
           NEW e, e = PushBacks(f, l)
    PROVE  Even(d, e)
<1>1. Driver(f) /\ Busy(f) /\ (Idle(f) <=> Idle(d))
  BY DEF SameOrders, Driver, Busy, Idle, DriverFields
<1>2. /\ Driver(e) /\ Busy(e) /\ e.sk = f.sk
      /\ ~Idle(f) => e.run = f.run /\ e.bus = f.bus
      /\ Idle(f) => e.bus # "done"
      /\ Well(e) => /\ Well(f)
                    /\ NoClear(f.q) =>
                         /\ NoClear(e.q)
                         /\ \A s \in Sock :
                              /\ Sends(Line(e), s) = Sends(Line(f), s) + Sends(l, s)
                              /\ Covered(e, s) = Covered(f, s)
  BY <1>1, PushBacksEven
<1>3. Line(f) = Line(d) /\ \A s : Covered(f, s) = Covered(d, s)
  BY DEF SameOrders, Line, Covered
<1>4. f.q = d.q /\ f.run = d.run /\ f.bus = d.bus /\ f.err = d.err /\ f.fails = d.fails
  BY DEF SameOrders
<1>5. Well(f) <=> Well(d)
  BY <1>4 DEF Well
<1>6. Queue(Line(d))
  BY LineIs
<1>7. ASSUME Well(e), NoClear(d.q), NEW s \in Sock
      PROVE  Gap(e, s) = Gap(d, s) /\ Covered(e, s) = Covered(d, s)
  <2> DEFINE n == Sends(Line(d), s)
             x == Bit(f.sk[s].is_sending)
             y == Bit(d.sk[s].is_sending)
  <2>1. n \in Nat /\ x \in Nat /\ y \in Nat
    <3>1. n \in Nat
      BY <1>6, SendsAddUp
    <3>2. QED
      BY <3>1 DEF Bit
  <2>2. Sends(Line(e), s) = n + (x - y)
    BY <1>2, <1>3, <1>4, <1>7
  <2>3. Covered(e, s) = Covered(d, s)
    BY <1>2, <1>3, <1>4, <1>7
  <2>4. Gap(e, s) = x - Sends(Line(e), s) /\ Gap(d, s) = y - n
    BY <1>2 DEF Gap
  <2> HIDE DEF n, x, y
  <2>5. Gap(e, s) = Gap(d, s)
    BY <2>1, <2>2, <2>4
  <2>6. QED
    BY <2>3, <2>5
<1>8. Well(e) => Well(d) /\ (NoClear(d.q) => NoClear(e.q))
  BY <1>2, <1>4, <1>5
<1>9. \A s \in Sock : e.sk[s].IR = d.sk[s].IR
  BY <1>2
<1>10. SendShadows(e.sk)
  BY <1>2
<1>11. ~Idle(d) => e.run = d.run /\ e.bus = d.bus
  BY <1>1, <1>2, <1>4
<1>12. Idle(d) => e.bus # "done"
  BY <1>1, <1>2
<1>13. QED
  BY <1>2, <1>7, <1>8, <1>9, <1>10, <1>11, <1>12 DEF Even

\* One command of a queue is a SEND, of socket s, and none clears a flag.
SendsFor(q, s) == NoClear(q) /\ \A t \in Sock : Sends(q, t) = Bit(t = s)

\* The commands of a transmission: one is a SEND, and none clears a flag.
LEMMA TransmitSends ==
    ASSUME NEW s \in Sock, NEW ptr, NEW len, NEW wr, NEW to, NEW tcp \in BOOLEAN,
           NEW l, l = (IF tcp THEN <<>>
                       ELSE <<SetReg(s, [DIPR |-> to]), SetReg(s, [DPORT |-> to])>>)
                      \o <<SetBuf(s, ptr, len), SetReg(s, [TX_WR |-> wr]),
                           SetReg(s, [CR |-> "SEND"])>>
    PROVE  SendsFor(l, s)
<1> DEFINE a == SetReg(s, [DIPR |-> to])
           b == SetReg(s, [DPORT |-> to])
           x == SetBuf(s, ptr, len)
           y == SetReg(s, [TX_WR |-> wr])
           z == SetReg(s, [CR |-> "SEND"])
           p == IF tcp THEN <<>> ELSE <<a, b>>
           q == <<x, y, z>>
<1>1. /\ Settable(s, [DIPR |-> to]) /\ Settable(s, [DPORT |-> to])
      /\ Settable(s, [TX_WR |-> wr]) /\ Settable(s, [CR |-> "SEND"])
  BY DEF Settable, Writable
<1>2. /\ \A c \in {a, b, y, z} : WellFormed(c) /\ c.cmd_type = "WRITE_REG"
      /\ WellFormed(x) /\ x.cmd_type = "WRITE_BUF"
  BY <1>1, Commands
<1>3. /\ a.val = [DIPR |-> to] /\ b.val = [DPORT |-> to] /\ y.val = [TX_WR |-> wr]
      /\ z.val = [CR |-> "SEND"] /\ z.sn = s
  BY DEF SetReg, Cmd
<1>4. /\ \A c \in {a, b, x, y, z} : \A t : ~Clears(c, t)
      /\ \A c \in {a, b, x, y} : \A t : ~IsSend(c, t)
      /\ \A t : IsSend(z, t) <=> t = s
  BY <1>2, <1>3 DEF Clears, IsSend, IsCommandWrite
<1>5. l = p \o q
  OBVIOUS
<1> HIDE DEF a, b, x, y, z
<1>6. /\ q \in Seq({x, y, z}) /\ Len(q) = 3 /\ q[1] = x /\ q[2] = y /\ q[3] = z
      /\ \A i \in 1 .. Len(q) : i = 1 \/ i = 2 \/ i = 3
  OBVIOUS
<1> HIDE DEF q
<1>7. Queue(q) /\ NoClear(q)
  <2>1. \A i \in 1 .. Len(q) : WellFormed(q[i]) /\ \A t : ~Clears(q[i], t)
    BY <1>2, <1>4, <1>6
  <2>2. QED
    BY <1>6, <2>1, QueueOver DEF NoClear
<1>8. ASSUME NEW t \in Sock  PROVE  Sends(q, t) = Bit(t = s)
  <2>1. CASE t = s
    <3>1. 3 \in 1 .. Len(q) /\ \A i \in 1 .. Len(q) : IsSend(q[i], t) <=> i = 3
      BY <1>4, <1>6, <2>1
    <3>2. Sends(q, t) = 1
      BY <1>7, <3>1, SendsOfFew
    <3>3. QED
      BY <2>1, <3>2 DEF Bit
  <2>2. CASE t # s
    <3>1. \A i \in 1 .. Len(q) : ~IsSend(q[i], t)
      BY <1>4, <1>6, <2>2
    <3>2. Sends(q, t) = 0
      BY <1>7, <3>1, SendsOfFew
    <3>3. QED
      BY <2>2, <3>2 DEF Bit
  <2>3. QED
    BY <2>1, <2>2
<1>9. Queue(p) /\ NoClear(p) /\ \A t \in Sock : Sends(p, t) = 0
  <2>1. CASE tcp
    <3>1. p = <<>>
      BY <2>1
    <3>2. QED
      BY <1>2, <3>1, SendsOfOne, NoCommands
  <2>2. CASE ~tcp
    <3>1. p \in Seq({a, b}) /\ Len(p) = 2 /\ \A i \in 1 .. Len(p) : p[i] \in {a, b}
      BY <2>2
    <3> HIDE DEF p
    <3>2. \A i \in 1 .. Len(p) : WellFormed(p[i]) /\ \A t : ~Clears(p[i], t) /\ ~IsSend(p[i], t)
      BY <1>2, <1>4, <3>1
    <3>3. Queue(p) /\ NoClear(p)
      BY <3>1, <3>2, QueueOver DEF NoClear
    <3>4. QED
      BY <3>2, <3>3, SendsOfFew
  <2>3. QED
    BY <2>1, <2>2
<1> HIDE DEF p
<1>10. NoClear(p \o q)
  BY <1>7, <1>9, ClearsJoined
<1>11. ASSUME NEW t \in Sock  PROVE  Sends(p \o q, t) = Bit(t = s)
  <2>1. Sends(p \o q, t) = Sends(p, t) + Sends(q, t)
    BY <1>7, <1>9, SendsAddUp
  <2>2. QED
    BY <1>8, <1>9, <2>1 DEF Bit
<1>12. QED
  BY <1>5, <1>10, <1>11 DEF SendsFor

\* The commands of a reception: none is a SEND, and none clears a flag.
LEMMA ReceiveSends ==
    ASSUME NEW s \in Sock, NEW ptr, NEW len, NEW rd,
           NEW l, l = <<GetBuf(s, ptr, len), SetReg(s, [RX_RD |-> rd]),
                        SetReg(s, [CR |-> "RECV"]), SetReg(s, [CR |-> "RECV"]), CheckRcv(s)>>
    PROVE  NoClear(l) /\ \A t : Sends(l, t) = 0
<1> DEFINE x == GetBuf(s, ptr, len)
           y == SetReg(s, [RX_RD |-> rd])
           z == SetReg(s, [CR |-> "RECV"])
           c == CheckRcv(s)
<1>1. Settable(s, [RX_RD |-> rd]) /\ Settable(s, [CR |-> "RECV"])
  BY DEF Settable, Writable
<1>2. /\ \A k \in {y, z} : WellFormed(k) /\ k.cmd_type = "WRITE_REG"
      /\ WellFormed(x) /\ x.cmd_type = "READ_BUF"
      /\ WellFormed(c) /\ c.cmd_type = "CHECK_RCV" /\ c.sn = s
  BY <1>1, Commands
<1>3. y.val = [RX_RD |-> rd] /\ z.val = [CR |-> "RECV"]
  BY DEF SetReg, Cmd
<1>4. \A k \in {x, y, z, c} : WellFormed(k) /\ \A t : ~Clears(k, t) /\ ~IsSend(k, t)
  BY <1>2, <1>3 DEF Clears, IsSend, IsCommandWrite
<1>5. l = <<x, y, z, z, c>>
  OBVIOUS
<1> HIDE DEF x, y, z, c
<1>6. l \in Seq({x, y, z, c}) /\ \A i \in 1 .. Len(l) : l[i] \in {x, y, z, c}
  BY <1>5
<1>7. Queue(l) /\ NoClear(l)
  BY <1>4, <1>6, QueueOver DEF NoClear
<1>8. QED
  BY <1>4, <1>6, <1>7, SendsOfFew

\* sendPendingData keeps the balance: is_sending is set along with a SEND.
LEMMA SendPendingEven ==
    ASSUME NEW d, Driver(d), Busy(d), SendShadows(d.sk), NEW s \in Sock,
           NEW e, e = SendPending(d, s)
    PROVE  Even(d, e)
<1> DEFINE sk  == d.sk[s]
           seg == Head(sk.tx_buf_queue)
           len == seg.end_index - seg.start_index
           wr  == (sk.TX_WR + len - Hdr) % PtrMod
           l   == (IF s \in Tcp THEN <<>> ELSE SetDestination(s, seg))
                  \o <<SetBuf(s, seg.start_index, len), SetReg(s, [TX_WR |-> wr]),
                       SetReg(s, [CR |-> "SEND"])>>
           f   == [d EXCEPT !.sk[s].is_sending = TRUE,
                            !.sk[s].tx_buf = BufWrite(@, seg.start_index, Header(sk.TX_WR))]
<1>1. e = d \/ (e = PushBacks(f, l) /\ ~sk.is_sending)
  BY DEF SendPending
<1>2. DOMAIN d = DriverFields /\ Shadows(d.sk)
  BY DEF Driver, DriverFields
<1>3. /\ Queue(l) /\ l # <<>> /\ NoClear(l)
      /\ Sends(l, s) = 1 /\ \A t \in Sock : t # s => Sends(l, t) = 0
  <2> HIDE DEF seg, len, wr
  <2> DEFINE tcp == s \in Tcp
  <2>1. /\ tcp \in BOOLEAN
        /\ l = (IF tcp THEN <<>>
                ELSE <<SetReg(s, [DIPR |-> seg.dst]), SetReg(s, [DPORT |-> seg.dst])>>)
               \o <<SetBuf(s, seg.start_index, len), SetReg(s, [TX_WR |-> wr]),
                    SetReg(s, [CR |-> "SEND"])>>
    BY DEF SetDestination
  <2> HIDE DEF l, tcp, f, sk
  <2>2. Queue(l) /\ l # <<>>
    BY <2>1, TransmitCommands
  <2>3. SendsFor(l, s)
    BY <2>1, TransmitSends
  <2>4. QED
    BY <2>2, <2>3 DEF SendsFor, Bit
<1>4. /\ SameOrders(d, f) /\ f.sk[s].is_sending = TRUE
      /\ \A t \in Sock : /\ f.sk[t].IR = d.sk[t].IR /\ DOMAIN f.sk[t] = DOMAIN d.sk[t]
                         /\ t # s => f.sk[t].is_sending = d.sk[t].is_sending
  BY <1>2 DEF DriverFields, Shadows, SameOrders, SendShadows
<1> HIDE DEF f, l
<1>5. CASE e = d
  BY <1>5, EvenOn
<1>6. CASE e = PushBacks(f, l) /\ ~sk.is_sending
  <2>1. SendShadows(f.sk)
    BY <1>4 DEF SendShadows
  <2>2. \A t \in Sock : Sends(l, t) = Bit(f.sk[t].is_sending) - Bit(d.sk[t].is_sending)
    <3>1. TAKE t \in Sock
    <3>2. CASE t = s
      BY <1>3, <1>4, <1>6, <3>2 DEF Bit
    <3>3. CASE t # s
      <4>1. Sends(l, t) = 0
        BY <1>3, <3>3
      <4>2. f.sk[t].is_sending = d.sk[t].is_sending
        BY <1>4, <3>3
      <4>3. QED
        BY <4>1, <4>2 DEF Bit
    <3>4. QED
      BY <3>2, <3>3
  <2>3. QED
    BY <1>3, <1>4, <1>6, <2>1, <2>2, QueuedEven
<1>7. QED
  BY <1>1, <1>5, <1>6

\* receivePendingData keeps the balance: it sends nothing.
LEMMA ReceivePendingEven ==
    ASSUME NEW d, Driver(d), Busy(d), SendShadows(d.sk), NEW s \in Sock,
           NEW e, e = ReceivePending(d, s)
    PROVE  Even(d, e)
<1> DEFINE sk  == d.sk[s]
           at  == BufferIndex(sk.rx_buf_queue, RxBufLen, sk.RX_RSR + Hdr)
           len == sk.RX_RSR + Hdr
           rd  == (sk.RX_RD + sk.RX_RSR) % PtrMod
           l   == <<GetBuf(s, at, len), SetReg(s, [RX_RD |-> rd]),
                    SetReg(s, [CR |-> "RECV"]), SetReg(s, [CR |-> "RECV"]), CheckRcv(s)>>
           f   == [d EXCEPT !.sk[s].is_receiving = TRUE,
                            !.sk[s].rx_buf = BufWrite(@, at, Header(sk.RX_RD))]
<1>1. e = d \/ e = PushBacks(f, l)
  BY DEF ReceivePending
<1>2. DOMAIN d = DriverFields /\ Shadows(d.sk)
  BY DEF Driver, DriverFields
<1>3. Queue(l) /\ l # <<>> /\ NoClear(l) /\ \A t : Sends(l, t) = 0
  <2> HIDE DEF at, len, rd
  <2>1. l = <<GetBuf(s, at, len), SetReg(s, [RX_RD |-> rd]),
              SetReg(s, [CR |-> "RECV"]), SetReg(s, [CR |-> "RECV"]), CheckRcv(s)>>
    OBVIOUS
  <2> HIDE DEF l
  <2>2. QED
    BY <2>1, ReceiveCommands, ReceiveSends
<1>4. /\ SameOrders(d, f)
      /\ \A t \in Sock : /\ f.sk[t].IR = d.sk[t].IR /\ DOMAIN f.sk[t] = DOMAIN d.sk[t]
                         /\ f.sk[t].is_sending = d.sk[t].is_sending
  BY <1>2 DEF DriverFields, Shadows, SameOrders, SendShadows
<1> HIDE DEF f, l, at, len, rd
<1>5. CASE e = d
  BY <1>5, EvenOn
<1>6. CASE e = PushBacks(f, l)
  <2>1. SendShadows(f.sk)
    BY <1>4 DEF SendShadows
  <2>2. \A t \in Sock : Sends(l, t) = Bit(f.sk[t].is_sending) - Bit(d.sk[t].is_sending)
    BY <1>3, <1>4 DEF Bit
  <2>3. QED
    BY <1>3, <1>4, <1>6, <2>1, <2>2, QueuedEven
<1>7. QED
  BY <1>1, <1>5, <1>6

\* A change of neither the queue nor is_sending keeps the balance.
LEMMA SameEven ==
    ASSUME NEW d, Driver(d), Busy(d), NEW e, Driver(e), Busy(e),
           e.q = d.q, e.run = d.run, e.bus = d.bus, e.err = d.err, ~e.fails => ~d.fails,
           SendShadows(e.sk),
           \A s \in Sock : /\ e.sk[s].is_sending = d.sk[s].is_sending
                           /\ e.sk[s].IR = d.sk[s].IR
    PROVE  Even(d, e)
<1>1. Line(e) = Line(d) /\ \A s : Covered(e, s) = Covered(d, s)
  BY DEF Line, Covered
<1>2. \A s \in Sock : Gap(e, s) = Gap(d, s)
  BY <1>1 DEF Gap
<1>3. Well(e) => Well(d)
  BY DEF Well
<1>4. Idle(d) => e.bus # "done"
  BY DEF Busy
<1>5. QED
  BY <1>1, <1>2, <1>3, <1>4 DEF Even

-------------------------------------------------------------------------------
(***************************************************************************)
(* The handler of a READ_SOC, which looks at the outcome of a SEND.        *)
(***************************************************************************)
\* Socket s is no longer sending.
Freed(d, f, s) ==
    /\ Driver(f) /\ Busy(f) /\ SendShadows(f.sk)
    /\ f.q = d.q /\ f.run = d.run /\ f.bus = d.bus /\ f.err = d.err /\ f.fails = d.fails
    /\ \A t \in Sock : f.sk[t].IR = d.sk[t].IR
    /\ ~f.sk[s].is_sending
    /\ \A t \in Sock : t # s => f.sk[t].is_sending = d.sk[t].is_sending

\* A handler part that looks at n outcomes of the SENDs of socket s.
Settles(d, e, s, n) ==
    /\ Driver(e) /\ Busy(e) /\ SendShadows(e.sk)
    /\ e.run = d.run /\ e.bus = d.bus
    /\ \A t \in Sock : e.sk[t].IR = d.sk[t].IR
    /\ Well(e) => /\ Well(d)
                  /\ NoClear(d.q) =>
                         /\ NoClear(e.q)
                         /\ \A t \in Sock : t # s => Gap(e, t) = Gap(d, t)
                         /\ n = 0 => Gap(e, s) = Gap(d, s)
                         /\ n = 1 /\ Gap(d, s) = 1 => Gap(e, s) = 0

\* A part that keeps the balance looks at no outcome.
LEMMA EvenSettles ==
    ASSUME NEW d, ~Idle(d), NEW s \in Sock, NEW e, Even(d, e)
    PROVE  Settles(d, e, s, 0)
<1> HIDE DEF Idle
<1>1. QED
  BY DEF Even, Settles

\* One part after the other.
LEMMA SettlesOn ==
    ASSUME NEW d, NEW e, NEW f, NEW s \in Sock, NEW m \in {0, 1}, NEW n \in {0, 1},
           Settles(d, e, s, m), Settles(e, f, s, n)
    PROVE  Settles(d, f, s, m + n)
<1>1. ASSUME Well(f)
      PROVE  /\ Well(d)
             /\ NoClear(d.q) =>
                  /\ NoClear(f.q)
                  /\ \A t \in Sock : t # s => Gap(f, t) = Gap(d, t)
                  /\ m + n = 0 => Gap(f, s) = Gap(d, s)
                  /\ m + n = 1 /\ Gap(d, s) = 1 => Gap(f, s) = 0
  <2>1. /\ Well(e)
        /\ NoClear(e.q) =>
             /\ NoClear(f.q)
             /\ \A t \in Sock : t # s => Gap(f, t) = Gap(e, t)
             /\ n = 0 => Gap(f, s) = Gap(e, s)
             /\ n = 1 /\ Gap(e, s) = 1 => Gap(f, s) = 0
    BY <1>1 DEF Settles
  <2>2. /\ Well(d)
        /\ NoClear(d.q) =>
             /\ NoClear(e.q)
             /\ \A t \in Sock : t # s => Gap(e, t) = Gap(d, t)
             /\ m = 0 => Gap(e, s) = Gap(d, s)
             /\ m = 1 /\ Gap(d, s) = 1 => Gap(e, s) = 0
    BY <2>1 DEF Settles
  <2>3. /\ m + n = 0 => m = 0 /\ n = 0
        /\ m + n = 1 => (m = 0 /\ n = 1) \/ (m = 1 /\ n = 0)
    OBVIOUS
  <2>4. QED
    BY <2>1, <2>2, <2>3
<1>2. /\ Driver(f) /\ Busy(f) /\ SendShadows(f.sk)
      /\ f.run = d.run /\ f.bus = d.bus
      /\ \A t \in Sock : f.sk[t].IR = d.sk[t].IR
  BY DEF Settles
<1>3. QED
  BY <1>1, <1>2 DEF Settles

\* With is_sending reset, the rest keeps the balance.
LEMMA FreedSettles ==
    ASSUME NEW d, Driver(d), Busy(d), ~Idle(d), SendShadows(d.sk), NEW s \in Sock,
           NEW f, Freed(d, f, s), NEW e, Even(f, e)
    PROVE  Settles(d, e, s, 1)
<1>1. /\ f.q = d.q /\ f.run = d.run /\ f.bus = d.bus /\ f.err = d.err /\ f.fails = d.fails
      /\ \A t \in Sock : f.sk[t].IR = d.sk[t].IR
  BY DEF Freed
<1>2. ~Idle(f)
  BY <1>1 DEF Idle
<1>3. Line(f) = Line(d)
  BY <1>1 DEF Line
<1>4. \A t \in Sock : t # s => Gap(f, t) = Gap(d, t)
  BY <1>3 DEF Gap, Freed
<1>5. Gap(d, s) = 1 => Gap(f, s) = 0
  <2> DEFINE n == Sends(Line(d), s)
  <2>1. n \in Nat
    <3>1. Queue(Line(d))
      BY LineIs
    <3>2. QED
      BY <3>1, SendsAddUp
  <2>2. Gap(d, s) = Bit(d.sk[s].is_sending) - n /\ Gap(f, s) = Bit(f.sk[s].is_sending) - n
    BY <1>3 DEF Gap
  <2> HIDE DEF n
  <2>3. Bit(d.sk[s].is_sending) \in {0, 1} /\ Bit(f.sk[s].is_sending) = 0
    BY DEF Bit, Freed
  <2>4. QED
    BY <2>1, <2>2, <2>3
<1>6. Well(f) <=> Well(d)
  BY <1>1 DEF Well
<1>7. /\ Driver(e) /\ Busy(e) /\ SendShadows(e.sk) /\ e.run = f.run /\ e.bus = f.bus
      /\ \A t \in Sock : e.sk[t].IR = f.sk[t].IR
      /\ Well(e) => /\ Well(f)
                    /\ NoClear(f.q) => NoClear(e.q) /\ \A t \in Sock : Gap(e, t) = Gap(f, t)
  BY <1>2 DEF Even
<1> HIDE DEF Idle
<1>8. QED
  BY <1>1, <1>4, <1>5, <1>6, <1>7 DEF Settles

\* SENDOK and TIMEOUT look at one outcome.
LEMMA FlagSettles ==
    ASSUME NEW d, Driver(d), Busy(d), ~Idle(d), SendShadows(d.sk), NEW s \in Sock
    PROVE  Settles(d, OnTimeout(d, s), s, 1) /\ Settles(d, OnSendOk(d, s), s, 1)
<1> DEFINE e == [d EXCEPT !.sk[s].is_sending = FALSE,
                          !.sk[s].tx_buf_queue = Popped(d.sk[s].tx_buf_queue)]
           f == [d EXCEPT !.sk[s].is_sending = FALSE, !.sk[s].tx_buf_queue = <<>>]
<1>1. DOMAIN d = DriverFields /\ Shadows(d.sk)
  BY DEF Driver, DriverFields
<1>2. [d EXCEPT !.sk[s].is_sending = FALSE, !.sk[s].tx_buf_queue = Popped(@)] = e
  BY <1>1 DEF DriverFields, Shadows
<1>3. /\ OnSendOk(d, s) = SendPending(e, s)
      /\ OnTimeout(d, s) = f \/ OnTimeout(d, s) = SendPending(e, s)
  BY <1>2 DEF OnSendOk, OnTimeout
<1>4. ASSUME NEW queue, NEW g,
             g = [d EXCEPT !.sk[s].is_sending = FALSE, !.sk[s].tx_buf_queue = queue]
      PROVE  Freed(d, g, s)
  <2>1. /\ DOMAIN g = DriverFields /\ g.q = d.q /\ g.run = d.run /\ g.bus = d.bus
        /\ g.err = d.err /\ g.hal = d.hal /\ g.fails = d.fails
        /\ DOMAIN g.sk = Sock
        /\ \A t \in Sock : /\ DOMAIN g.sk[t] = DOMAIN d.sk[t]
                           /\ g.sk[t].is_receiving = d.sk[t].is_receiving
                           /\ g.sk[t].IR = d.sk[t].IR
                           /\ t # s => g.sk[t].is_sending = d.sk[t].is_sending
        /\ g.sk[s].is_sending = FALSE
    BY <1>1, <1>4 DEF DriverFields, Shadows, SendShadows
  <2>2. Shadows(g.sk) /\ SendShadows(g.sk)
    BY <1>1, <2>1 DEF Shadows, SendShadows
  <2>3. Driver(g) /\ Busy(g)
    BY <2>1, <2>2 DEF Driver, DriverFields, Busy, Idle
  <2>4. QED
    BY <2>1, <2>2, <2>3 DEF Freed
<1>5. Freed(d, e, s) /\ Freed(d, f, s)
  BY <1>4
<1> HIDE DEF e, f
<1>6. Driver(e) /\ Busy(e) /\ SendShadows(e.sk) /\ Driver(f) /\ Busy(f) /\ SendShadows(f.sk)
  BY <1>5 DEF Freed
<1>7. Even(e, SendPending(e, s)) /\ Even(f, f)
  BY <1>6, SendPendingEven, EvenOn
<1>8. QED
  BY <1>3, <1>5, <1>7, FreedSettles

\* The handler of a READ_SOC looks at the outcomes the flags tell of.
LEMMA ReadSocSettles ==
    ASSUME NEW d, Driver(d), Busy(d), ~Idle(d), SendShadows(d.sk), d.run.sn \in Sock
    PROVE  \E g : /\ OnReadSoc(d) = InFront(g, SetReg(d.run.sn, [IR |-> d.sk[d.run.sn].IR]))
                  /\ Settles(d, g, d.run.sn, Bit("TIMEOUT" \in d.sk[d.run.sn].IR)
                                                 + Bit("SENDOK" \in d.sk[d.run.sn].IR))
<1> DEFINE s  == d.run.sn
           IR == d.sk[s].IR
           m  == Bit("TIMEOUT" \in IR)
           n  == Bit("SENDOK" \in IR)
           d1 == IF "RECV" \in IR THEN ReceivePending(d, s) ELSE d
           d2 == IF "TIMEOUT" \in IR THEN OnTimeout(d1, s) ELSE d1
           d3 == IF "SENDOK" \in IR THEN OnSendOk(d2, s) ELSE d2
<1>1. OnReadSoc(d) = InFront(d3, SetReg(s, [IR |-> IR]))
  BY DEF OnReadSoc
<1>2. m \in {0, 1} /\ n \in {0, 1}
  BY DEF Bit
<1>3. Even(d, d1)
  <2> HIDE DEF IR
  <2>1. Even(d, ReceivePending(d, s))
    BY ReceivePendingEven
  <2>2. Even(d, d)
    BY EvenOn
  <2>3. QED
    BY <2>1, <2>2
<1> HIDE DEF d1
<1>4. Settles(d, d1, s, 0)
  BY <1>3, EvenSettles
<1>5. Driver(d1) /\ Busy(d1) /\ ~Idle(d1) /\ SendShadows(d1.sk)
  BY <1>4 DEF Settles, Idle
<1>6. Settles(d1, d2, s, m)
  <2>1. Settles(d1, OnTimeout(d1, s), s, 1)
    BY <1>5, FlagSettles
  <2>2. Settles(d1, d1, s, 0)
    BY <1>5, EvenOn, EvenSettles
  <2>3. CASE "TIMEOUT" \in IR
    <3>1. m = 1 /\ d2 = OnTimeout(d1, s)
      BY <2>3 DEF Bit
    <3>2. QED
      BY <2>1, <3>1
  <2>4. CASE "TIMEOUT" \notin IR
    <3>1. m = 0 /\ d2 = d1
      BY <2>4 DEF Bit
    <3>2. QED
      BY <2>2, <3>1
  <2>5. QED
    BY <2>3, <2>4
<1> HIDE DEF d2, m
<1>7. Driver(d2) /\ Busy(d2) /\ ~Idle(d2) /\ SendShadows(d2.sk)
  BY <1>5, <1>6 DEF Settles, Idle
<1>8. Settles(d2, d3, s, n)
  <2>1. Settles(d2, OnSendOk(d2, s), s, 1)
    BY <1>7, FlagSettles
  <2>2. Settles(d2, d2, s, 0)
    BY <1>7, EvenOn, EvenSettles
  <2>3. CASE "SENDOK" \in IR
    <3>1. n = 1 /\ d3 = OnSendOk(d2, s)
      BY <2>3 DEF Bit
    <3>2. QED
      BY <2>1, <3>1
  <2>4. CASE "SENDOK" \notin IR
    <3>1. n = 0 /\ d3 = d2
      BY <2>4 DEF Bit
    <3>2. QED
      BY <2>2, <3>1
  <2>5. QED
    BY <2>3, <2>4
<1> HIDE DEF d3, n
<1>9. Settles(d, d2, s, m)
  <2>1. PICK z \in {0, 1} : z = 0
    OBVIOUS
  <2>2. Settles(d, d2, s, z + m)
    BY <1>2, <1>4, <1>6, <2>1, SettlesOn
  <2>3. z + m = m
    BY <1>2, <2>1
  <2>4. QED
    BY <2>2, <2>3
<1>10. Settles(d, d3, s, m + n)
  BY <1>2, <1>8, <1>9, SettlesOn
<1>11. QED
  BY <1>1, <1>10 DEF m, n

\* When the write that clears the flags is on the bus, it stands for the outcome
\* that was looked at.
LEMMA ReadSocEnds ==
    ASSUME NEW d, Driver(d), Busy(d), ~Idle(d), d.bus = "done", SendShadows(d.sk),
           NEW s \in Sock, d.run.sn = s, NEW e, e = Start(OnReadSoc(d))
    PROVE  /\ SendShadows(e.sk)
           /\ Well(e) => /\ Well(d)
                         /\ NoClear(d.q) =>
                              /\ NoClear(e.q)
                              /\ Covered(e, s) = d.sk[s].IR \cap Outcomes
                              /\ \A t \in Sock : t # s => /\ Gap(e, t) = Gap(d, t)
                                                          /\ Covered(e, t) = {}
                              /\ Covered(e, s) = {} => Gap(e, s) = Gap(d, s)
                              /\ Covered(e, s) # {} /\ Covered(e, s) # Outcomes
                                   /\ Gap(d, s) = 1 => Gap(e, s) = 0
<1> DEFINE IR == d.sk[s].IR
           c  == SetReg(s, [IR |-> IR])
           n  == Bit("TIMEOUT" \in IR) + Bit("SENDOK" \in IR)
<1>1. PICK g : OnReadSoc(d) = InFront(g, c) /\ Settles(d, g, s, n)
  BY ReadSocSettles
<1>2. /\ WellFormed(c) /\ c.cmd_type = "WRITE_REG" /\ c.sn = s /\ DOMAIN c.val = {"IR"}
      /\ c.val.IR = IR
  <2>1. DOMAIN [IR |-> IR] = {"IR"} /\ Settable(s, [IR |-> IR])
    BY DEF Settable, Writable
  <2>2. WellFormed(c) /\ c.cmd_type = "WRITE_REG"
    BY <2>1, Commands
  <2>3. QED
    BY <2>1, <2>2 DEF SetReg, Cmd
<1>3. /\ n = 0 <=> IR \cap Outcomes = {}
      /\ IR \cap Outcomes # {} /\ IR \cap Outcomes # Outcomes => n = 1
  BY DEF Bit, Outcomes
<1> HIDE DEF c, n
<1> DEFINE h == InFront(g, c)
<1>4. Driver(g) /\ g.bus = "done" /\ SendShadows(g.sk)
  BY <1>1 DEF Settles
<1>5. /\ Driver(h) /\ h.sk = g.sk /\ h.err = g.err
      /\ ~h.fails => ~g.fails /\ h.q = <<c>> \o g.q
  BY <1>2, <1>4, PutInFront
<1>6. e = Start(h)
  BY <1>1
<1> HIDE DEF h
<1>7. Driver(e) /\ Busy(e) /\ e.sk = h.sk
  BY <1>5, <1>6, Started
<1>8. ASSUME Well(e)
      PROVE  /\ Well(g) /\ e.bus = "shift" /\ e.run = c /\ e.q = g.q
  <2>1. /\ ~h.fails /\ h.err = 0
        /\ \/ h.q = <<>>
           \/ /\ h.q # <<>> /\ e.run = Head(h.q) /\ e.bus = "shift"
              /\ ~IsCommandWrite(e.run) /\ e.q = Tail(h.q)
           \/ h.q # <<>> /\ e.run = Head(h.q) /\ IsCommandWrite(e.run)
    BY <1>5, <1>6, <1>8, StartIs DEF Well
  <2>2. h.q = <<c>> \o g.q /\ Well(g)
    BY <1>5, <2>1 DEF Well
  <2>3. /\ <<c>> \o g.q # <<>> /\ Head(<<c>> \o g.q) = c /\ Tail(<<c>> \o g.q) = g.q
    <3>1. Queue(g.q)
      BY <1>4 DEF Driver
    <3>2. QED
      BY <1>2, <3>1, FrontHolds, FrontTaken
  <2>4. ~IsCommandWrite(c)
    BY <1>2 DEF IsCommandWrite
  <2>5. QED
    BY <2>1, <2>2, <2>3, <2>4
<1>9. SendShadows(e.sk)
  BY <1>4, <1>5, <1>7
<1>10. ASSUME Well(e), NoClear(d.q)
       PROVE  /\ NoClear(e.q)
              /\ Covered(e, s) = IR \cap Outcomes
              /\ \A t \in Sock : t # s => Covered(e, t) = {}
              /\ \A t \in Sock : Gap(e, t) = Gap(g, t)
  <2>1. NoClear(g.q)
    BY <1>1, <1>8, <1>10 DEF Settles
  <2>2. Covered(e, s) = IR \cap Outcomes /\ \A t \in Sock : t # s => Covered(e, t) = {}
    BY <1>2, <1>8, <1>10 DEF Covered, Clears
  <2>3. ASSUME NEW t \in Sock  PROVE  Gap(e, t) = Gap(g, t)
    <3> DEFINE k == Sends(g.q, t)
    <3>1. /\ Queue(<<c>>) /\ Queue(g.q) /\ Sends(<<c>>, t) = 0
      <4>1. ~IsSend(c, t)
        BY <1>2 DEF IsSend, IsCommandWrite
      <4>2. QED
        BY <1>2, <1>4, <4>1, SendsOfOne DEF Bit, Driver
    <3>2. k \in Nat /\ Sends(<<c>> \o g.q, t) = Sends(<<c>>, t) + k
      BY <3>1, SendsAddUp
    <3>3. Line(e) = <<c>> \o g.q
      BY <1>8, <1>10 DEF Line
    <3>4. Line(g) = g.q
      BY <1>4, <3>1, JoinedWithNothing DEF Line
    <3> HIDE DEF k
    <3>5. Sends(Line(e), t) = k /\ Sends(Line(g), t) = k
      BY <3>1, <3>2, <3>3, <3>4 DEF k
    <3>6. e.sk = g.sk
      BY <1>5, <1>7
    <3>7. QED
      BY <3>5, <3>6 DEF Gap
  <2>4. QED
    BY <1>8, <1>10, <2>1, <2>2, <2>3
<1>11. Well(g) => /\ Well(d)
                  /\ NoClear(d.q) =>
                       /\ \A t \in Sock : t # s => Gap(g, t) = Gap(d, t)
                       /\ n = 0 => Gap(g, s) = Gap(d, s)
                       /\ n = 1 /\ Gap(d, s) = 1 => Gap(g, s) = 0
  BY <1>1 DEF Settles
<1> HIDE DEF IR
<1>12. ASSUME Well(e), NoClear(d.q)
       PROVE  /\ \A t \in Sock : t # s => Gap(e, t) = Gap(d, t)
              /\ Covered(e, s) = {} => Gap(e, s) = Gap(d, s)
              /\ Covered(e, s) # {} /\ Covered(e, s) # Outcomes /\ Gap(d, s) = 1
                     => Gap(e, s) = 0
  BY <1>3, <1>8, <1>10, <1>11, <1>12
<1>13. Well(e) => Well(d)
  BY <1>8, <1>11
<1>14. IR = d.sk[s].IR
  BY DEF IR
<1>15. QED
  BY <1>9, <1>10, <1>12, <1>13, <1>14

-------------------------------------------------------------------------------
(***************************************************************************)
(* The other handlers.                                                     *)
(***************************************************************************)
\* With the command on the bus done, the balance is that of the queue.
Balanced(d, e) ==
    /\ Driver(e) /\ SendShadows(e.sk) /\ e.bus = d.bus
    /\ Well(e) => /\ Well(d)
                  /\ NoClear(d.q) => NoClear(e.q) /\ \A s \in Sock : Gap(e, s) = Gap(d, s)

\* A change of neither the queue nor is_sending, followed by a part that keeps the
\* balance.
LEMMA ThenEven ==
    ASSUME NEW d, NEW f, Driver(f), Busy(f), ~Idle(f), SendShadows(f.sk),
           f.q = d.q, f.run = d.run, f.bus = d.bus, f.err = d.err, ~f.fails => ~d.fails,
           \A s \in Sock : f.sk[s].is_sending = d.sk[s].is_sending,
           NEW e, Even(f, e)
    PROVE  Balanced(d, e)
<1>1. Line(f) = Line(d)
  BY DEF Line
<1>2. \A s \in Sock : Gap(f, s) = Gap(d, s)
  BY <1>1 DEF Gap
<1>3. Well(f) => Well(d)
  BY DEF Well
<1> HIDE DEF Idle
<1>4. /\ Driver(e) /\ SendShadows(e.sk) /\ e.bus = f.bus
      /\ Well(e) => /\ Well(f)
                    /\ NoClear(f.q) => NoClear(e.q) /\ \A s \in Sock : Gap(e, s) = Gap(f, s)
  BY DEF Even
<1>5. QED
  BY <1>2, <1>3, <1>4 DEF Balanced

\* What a read returned touches no is_sending.
LEMMA OverlaySends ==
    ASSUME NEW val, DOMAIN val \subseteq Registers,
           NEW c, {"IR", "is_sending"} \subseteq DOMAIN c
    PROVE  /\ {"IR", "is_sending"} \subseteq DOMAIN Overlay(val, c)
           /\ Overlay(val, c).is_sending = c.is_sending
<1>1. DOMAIN Overlay(val, c) = DOMAIN val \cup DOMAIN c
  BY DEF Overlay
<1>2. \A r \in DOMAIN val \cup DOMAIN c :
         Overlay(val, c)[r] = IF r \in DOMAIN val THEN val[r] ELSE c[r]
  BY DEF Overlay
<1>3. "is_sending" \notin DOMAIN val
  BY DEF Registers
<1>4. QED
  BY <1>1, <1>2, <1>3

\* What READ_REG, CHECK_RCV and CHECK_TX_FSR store touches no is_sending.
LEMMA StoredSends ==
    ASSUME NEW d, Driver(d), SendShadows(d.sk), d.run.sn \in Sock,
           DOMAIN d.run.val \subseteq Registers, NEW e, e = Stored(d) \/ e = OnReadReg(d)
    PROVE  /\ e.q = d.q /\ e.run = d.run /\ e.bus = d.bus /\ e.err = d.err /\ e.fails = d.fails
           /\ SendShadows(e.sk)
           /\ \A t \in Sock : e.sk[t].is_sending = d.sk[t].is_sending
<1> DEFINE s == d.run.sn
           val == d.run.val
           o == Overlay(val, d.sk[s])
           x == [d EXCEPT !.sk[s] = o]
           y == [x EXCEPT !.sk[s].is_receiving = FALSE]
<1>1. DOMAIN d = DriverFields /\ DOMAIN d.sk = Sock
  BY DEF Driver, DriverFields, Shadows
<1>2. e = x \/ e = y
  BY DEF Stored, OnReadReg
<1>3. {"IR", "is_sending"} \subseteq DOMAIN o /\ o.is_sending = d.sk[s].is_sending
  BY OverlaySends DEF SendShadows
<1> HIDE DEF s, val, o
<1>a. s \in Sock
  BY DEF s
<1>4. /\ DOMAIN x = DriverFields /\ x.q = d.q /\ x.run = d.run /\ x.bus = d.bus
      /\ x.err = d.err /\ x.fails = d.fails
      /\ DOMAIN x.sk = Sock /\ x.sk[s] = o
      /\ \A t \in Sock : t # s => x.sk[t] = d.sk[t]
  BY <1>1, <1>a DEF DriverFields
<1> HIDE DEF x
<1>5. /\ y.q = d.q /\ y.run = d.run /\ y.bus = d.bus
      /\ y.err = d.err /\ y.fails = d.fails
      /\ DOMAIN y.sk = Sock /\ y.sk[s] = [o EXCEPT !.is_receiving = FALSE]
      /\ \A t \in Sock : t # s => y.sk[t] = d.sk[t]
  BY <1>4, <1>a DEF DriverFields
<1> HIDE DEF y
<1>6. /\ {"IR", "is_sending"} \subseteq DOMAIN e.sk[s]
      /\ e.sk[s].is_sending = d.sk[s].is_sending
  <2>1. CASE e = x
    BY <1>3, <1>4, <2>1
  <2>2. CASE e = y
    BY <1>3, <1>5, <2>2
  <2>3. QED
    BY <1>2, <2>1, <2>2
<1>7. /\ e.q = d.q /\ e.run = d.run /\ e.bus = d.bus /\ e.err = d.err /\ e.fails = d.fails
      /\ \A t \in Sock : t # s => e.sk[t] = d.sk[t]
  <2>1. CASE e = x
    BY <1>4, <2>1
  <2>2. CASE e = y
    BY <1>5, <2>2
  <2>3. QED
    BY <1>2, <2>1, <2>2
<1>8. SendShadows(e.sk)
  BY <1>6, <1>7 DEF SendShadows
<1>9. \A t \in Sock : e.sk[t].is_sending = d.sk[t].is_sending
  BY <1>6, <1>7
<1>10. QED
  BY <1>7, <1>8, <1>9

\* The handler of a READ_SIR queues READ_SOCs.
LEMMA ReadSirBalanced ==
    ASSUME NEW d, Driver(d), Busy(d), SendShadows(d.sk), d.bus = "done",
           d.run.val.SIR \subseteq Sock, NEW e, e = OnReadSir(d)
    PROVE  Balanced(d, e)
<1>1. PICK p : /\ Queue(p) /\ \A i \in 1 .. Len(p) : p[i].cmd_type = "READ_SOC"
               /\ DOMAIN e = DriverFields /\ e.q = p \o d.q /\ e.run = d.run
               /\ e.bus = d.bus /\ e.err = d.err /\ e.hal = d.hal
               /\ e.fails \in BOOLEAN /\ (~e.fails => ~d.fails)
               /\ Shadows(e.sk)
               /\ \A t \in Sock : /\ e.sk[t].CR = d.sk[t].CR /\ e.sk[t].SR = d.sk[t].SR
                                  /\ e.sk[t].is_receiving = d.sk[t].is_receiving
  BY ReadSirIs
<1>2. Queue(d.q) /\ d.err \in Nat /\ d.hal \in BOOLEAN
  BY DEF Driver
<1>3. \A s \in Sock : /\ e.sk[s].is_sending = d.sk[s].is_sending
                      /\ DOMAIN e.sk[s] = DOMAIN d.sk[s]
  <2> DEFINE SIR == d.run.val.SIR
             sk  == [s \in Sock |-> [d.sk[s] EXCEPT !.spi = @ \/ s \in SIR]]
  <2>1. DOMAIN d = DriverFields
    BY DEF Driver, DriverFields
  <2>2. e.sk = sk
    BY <2>1 DEF OnReadSir, DriverFields
  <2> HIDE DEF SIR
  <2>3. \A s \in Sock : sk[s].is_sending = d.sk[s].is_sending /\ DOMAIN sk[s] = DOMAIN d.sk[s]
    BY DEF SendShadows
  <2>4. QED
    BY <2>2, <2>3
<1>4. SendShadows(e.sk)
  BY <1>3 DEF SendShadows
<1>5. NoClear(p) /\ \A s : Sends(p, s) = 0
  <2>1. \A i \in 1 .. Len(p) : \A s : ~Clears(p[i], s) /\ ~IsSend(p[i], s)
    BY <1>1 DEF Clears, IsSend, IsCommandWrite
  <2>2. NoClear(p)
    BY <2>1 DEF NoClear
  <2>3. \A s : Sends(p, s) = 0
    BY <1>1, <2>1, SendsOfFew
  <2>4. QED
    BY <2>2, <2>3
<1> HIDE DEF OnReadSir
<1>6. Queue(p \o d.q)
  BY <1>1, <1>2, Joined
<1>7. Driver(e)
  BY <1>1, <1>2, <1>6 DEF Driver, DriverFields
<1>8. NoClear(d.q) => NoClear(e.q)
  <2>1. NoClear(p \o d.q) <=> NoClear(p) /\ NoClear(d.q)
    BY <1>1, <1>2, ClearsJoined
  <2>2. QED
    BY <1>1, <1>5, <2>1
<1>9. ASSUME NEW s \in Sock  PROVE  Gap(e, s) = Gap(d, s)
  <2> DEFINE k == Sends(d.q, s)
  <2>1. k \in Nat /\ Sends(p \o d.q, s) = Sends(p, s) + k
    BY <1>1, <1>2, SendsAddUp
  <2>2. Line(d) = d.q /\ Line(e) = p \o d.q
    BY <1>1, <1>2, <1>6, JoinedWithNothing DEF Line
  <2> HIDE DEF k
  <2>3. Sends(Line(e), s) = k /\ Sends(Line(d), s) = k
    BY <1>5, <2>1, <2>2 DEF k
  <2>4. QED
    BY <1>3, <2>3 DEF Gap
<1>10. Well(e) => Well(d)
  BY <1>1 DEF Well
<1>11. QED
  BY <1>1, <1>4, <1>7, <1>8, <1>9, <1>10 DEF Balanced

\* Every handler but that of a READ_SOC keeps the balance.
LEMMA HandledBalanced ==
    ASSUME NEW d, Driver(d), Busy(d), SendShadows(d.sk), d.bus = "done",
           d.run.cmd_type # "READ_SOC",
           d.run.cmd_type = "READ_SIR" => d.run.val.SIR \subseteq Sock,
           NEW e, e = Handled(d)
    PROVE  Balanced(d, e)
<1>1. WellFormed(d.run) /\ ~Idle(d)
  BY DEF Busy
<1>2. d.run.cmd_type \in Types
  BY <1>1 DEF WellFormed
<1>a. PICK ch : ch = chip
  OBVIOUS
<1>3. CASE d.run.cmd_type = "READ_REG"
  <2>1. e = OnReadReg(d)
    BY <1>3 DEF Handled
  <2>2. Driver(e) /\ Busy(e)
    BY <1>3, <1>a, <2>1, ReadRegHandled
  <2>3. d.run.sn \in Sock /\ DOMAIN d.run.val \subseteq Registers
    BY <1>1, <1>3 DEF WellFormed
  <2>4. /\ e.q = d.q /\ e.run = d.run /\ e.bus = d.bus /\ e.err = d.err /\ e.fails = d.fails
        /\ SendShadows(e.sk)
        /\ \A t \in Sock : e.sk[t].is_sending = d.sk[t].is_sending
    BY <2>1, <2>3, StoredSends
  <2>5. Even(e, e) /\ ~Idle(e)
    BY <1>1, <2>2, <2>4, EvenOn DEF Idle
  <2>6. QED
    BY <2>2, <2>4, <2>5, ThenEven
<1>4. CASE d.run.cmd_type = "READ_BUF"
  <2> DEFINE s   == d.run.sn
             seg == [start_index |-> d.run.ptr, end_index |-> d.run.ptr + d.run.len]
             f   == [d EXCEPT !.sk[s].rx_buf_queue = Append(@, seg)]
             g   == [d EXCEPT !.fails = TRUE]
  <2>1. DOMAIN d = DriverFields /\ Shadows(d.sk) /\ d.fails \in BOOLEAN
    BY DEF Driver, DriverFields
  <2>2. e = OnReadBuf(d)
    BY <1>4 DEF Handled
  <2>3. e = f \/ e = g
    BY <2>2 DEF OnReadBuf
  <2>4. Driver(e) /\ Busy(e) /\ e.run = d.run
    <3>1. PICK c : c = chip
      OBVIOUS
    <3>2. Continues(d, e, FALSE, c, {})
      BY <1>4, <2>2, ReadBufHandled
    <3>3. QED
      BY <1>1, <3>2 DEF Continues
  <2> HIDE DEF s, seg
  <2>5. /\ f.q = d.q /\ f.bus = d.bus /\ f.err = d.err /\ (~f.fails => ~d.fails)
        /\ \A t \in Sock : /\ f.sk[t].is_sending = d.sk[t].is_sending
                           /\ DOMAIN f.sk[t] = DOMAIN d.sk[t]
    BY <2>1 DEF DriverFields, Shadows, SendShadows
  <2>6. g.q = d.q /\ g.bus = d.bus /\ g.err = d.err /\ g.fails = TRUE /\ g.sk = d.sk
    BY <2>1 DEF DriverFields
  <2> HIDE DEF f, g
  <2>7. /\ e.q = d.q /\ e.bus = d.bus /\ e.err = d.err /\ (~e.fails => ~d.fails)
        /\ \A t \in Sock : /\ e.sk[t].is_sending = d.sk[t].is_sending
                           /\ DOMAIN e.sk[t] = DOMAIN d.sk[t]
    BY <2>3, <2>5, <2>6
  <2>8. SendShadows(e.sk)
    BY <2>7 DEF SendShadows
  <2>9. Even(e, e) /\ ~Idle(e)
    BY <1>1, <2>4, <2>8, EvenOn DEF Idle
  <2>10. QED
    BY <2>4, <2>7, <2>8, <2>9, ThenEven
<1>5. CASE d.run.cmd_type = "READ_SIR"
  <2>1. e = OnReadSir(d)
    BY <1>5 DEF Handled
  <2>2. QED
    BY <1>5, <2>1, ReadSirBalanced
<1>6. CASE d.run.cmd_type \in {"CHECK_RCV", "CHECK_TX_FSR"}
  <2> DEFINE s == d.run.sn
             f == Stored(d)
  <2>1. s \in Sock /\ DOMAIN d.run.val \subseteq Registers
    BY <1>1, <1>6 DEF WellFormed
  <2>2. d.run.cmd_type = "CHECK_RCV" => e = ReceivePending(f, s)
    BY DEF Handled, OnCheckRcv, Stored
  <2>3. d.run.cmd_type = "CHECK_TX_FSR" => e = SendPending(f, s)
    BY DEF Handled, OnCheckTxFsr, Stored
  <2>4. e = ReceivePending(f, s) \/ e = SendPending(f, s)
    BY <1>6, <2>2, <2>3
  <2>5. Driver(f) /\ Busy(f) /\ ~Idle(f)
    BY <1>6, <1>a, CheckStored
  <2>6. /\ f.q = d.q /\ f.run = d.run /\ f.bus = d.bus /\ f.err = d.err /\ f.fails = d.fails
        /\ SendShadows(f.sk)
        /\ \A t \in Sock : f.sk[t].is_sending = d.sk[t].is_sending
    BY <2>1, StoredSends
  <2> HIDE DEF f, s
  <2>7. Even(f, e)
    BY <2>1, <2>4, <2>5, <2>6, ReceivePendingEven, SendPendingEven
  <2>8. QED
    BY <2>5, <2>6, <2>7, ThenEven
<1>7. CASE d.run.cmd_type \in {"WRITE_REG", "WRITE_BUF"}
  <2>1. e = d
    BY <1>7 DEF Handled
  <2>2. Even(d, d)
    BY EvenOn
  <2>3. QED
    BY <1>1, <2>1, <2>2, ThenEven
<1>8. QED
  BY <1>2, <1>3, <1>4, <1>5, <1>6, <1>7 DEF Types

-------------------------------------------------------------------------------
(***************************************************************************)
(* The invariant of transmission.                                          *)
(***************************************************************************)
\* What is_sending of socket s stands for, next to the chip's socket c: a SEND in
\* Sn_CR, one being carried out, or an outcome no write on the bus is about to
\* clear.  There is one of the two outcomes at most, a write that clears one
\* leaves nothing under way, and the outcomes a READ_SOC has fetched are still there.
SentFor(d, c, s) ==
    /\ Gap(d, s) = Bit(c.CR = "SEND") + Bit(c.sending)
                       + Bit(~(c.IR \cap Outcomes \subseteq Covered(d, s)))
    /\ Covered(d, s) # {} => c.CR # "SEND" /\ ~c.sending
    /\ ~(Outcomes \subseteq c.IR)
    /\ d.bus = "done" /\ d.run.cmd_type = "READ_SOC" /\ d.run.sn = s =>
           d.sk[s].IR \cap Outcomes \subseteq c.IR

\* The chip's socket is used for data, until it is closed.
ForUse(c) ==
    /\ {"CR", "IR", "SR", "sending"} \subseteq DOMAIN c
    /\ c.sending \in BOOLEAN /\ c.SR \in Open \cup {"CLOSED"}

Sent(d, ch) ==
    /\ SendShadows(d.sk)
    /\ \A s \in Sock : ForUse(ch[s])
    /\ Well(d) => /\ NoClear(d.q)
                  /\ \A s \in Sock : ch[s].SR # "CLOSED" => SentFor(d, ch[s], s)

\* A part that keeps the balance keeps the invariant.
LEMMA EvenSent ==
    ASSUME NEW d, Driver(d), Busy(d), NEW ch, Sent(d, ch), NEW e, Even(d, e)
    PROVE  Sent(e, ch)
<1>1. ASSUME Well(e), NEW s \in Sock, ch[s].SR # "CLOSED"  PROVE  SentFor(e, ch[s], s)
  <2>1. NoClear(d.q) /\ SentFor(d, ch[s], s)
    BY <1>1 DEF Even, Sent
  <2>2. Gap(e, s) = Gap(d, s) /\ Covered(e, s) = Covered(d, s) /\ e.sk[s].IR = d.sk[s].IR
    BY <1>1, <2>1 DEF Even
  <2>3. e.bus = "done" => d.bus = "done" /\ e.run = d.run
    BY DEF Even
  <2>4. QED
    BY <2>1, <2>2, <2>3 DEF SentFor
<1>2. Well(e) => NoClear(e.q)
  BY DEF Even, Sent
<1>3. SendShadows(e.sk) /\ \A s \in Sock : ForUse(ch[s])
  BY DEF Even, Sent
<1>4. QED
  BY <1>1, <1>2, <1>3 DEF Sent

\* What is_sending can stand for, when it stands for an outcome.
LEMMA OutcomeAlone ==
    ASSUME NEW d, Driver(d), Busy(d), SendShadows(d.sk), NEW s \in Sock,
           NEW c, ForUse(c), SentFor(d, c, s), ~(c.IR \cap Outcomes \subseteq Covered(d, s))
    PROVE  Gap(d, s) = 1 /\ c.CR # "SEND" /\ ~c.sending
<1> DEFINE n == Sends(Line(d), s)
           x == Bit(d.sk[s].is_sending)
<1>1. n \in Nat /\ x \in {0, 1}
  <2>1. Queue(Line(d))
    BY LineIs
  <2>2. n \in Nat
    BY <2>1, SendsAddUp
  <2>3. QED
    BY <2>2 DEF Bit
<1>2. Gap(d, s) = x - n
  BY DEF Gap
<1>3. Gap(d, s) = Bit(c.CR = "SEND") + Bit(c.sending) + 1
  BY DEF SentFor, Bit
<1> HIDE DEF n, x
<1>4. QED
  BY <1>1, <1>2, <1>3 DEF Bit

\* A completed transfer is handled and the next one started.
LEMMA CompletionSent ==
    ASSUME NEW sole, NEW d, NEW ch, Holds(d, ch, sole), Sent(d, ch), d.bus = "done",
           NEW e, e = Start(Handled(d))
    PROVE  Sent(e, ch)
<1> DEFINE f == Handled(d)
<1>1. /\ Driver(d) /\ Busy(d) /\ SendShadows(d.sk) /\ ~Idle(d) /\ WellFormed(d.run)
      /\ d.run.cmd_type = "READ_SIR" => d.run.val.SIR \subseteq Sock
  BY DEF Holds, Sent, Busy
<1>2. \A s \in Sock : ForUse(ch[s]) /\ Covered(d, s) = {}
  BY DEF Sent, Covered
<1>3. CASE d.run.cmd_type = "READ_SOC"
  <2> DEFINE r == d.run.sn
  <2>1. r \in Sock
    BY <1>1, <1>3 DEF WellFormed
  <2>2. e = Start(OnReadSoc(d))
    BY <1>3 DEF Handled
  <2>3. /\ SendShadows(e.sk)
        /\ Well(e) => /\ Well(d)
                      /\ NoClear(d.q) =>
                           /\ NoClear(e.q)
                           /\ Covered(e, r) = d.sk[r].IR \cap Outcomes
                           /\ \A t \in Sock : t # r => /\ Gap(e, t) = Gap(d, t)
                                                       /\ Covered(e, t) = {}
                           /\ Covered(e, r) = {} => Gap(e, r) = Gap(d, r)
                           /\ Covered(e, r) # {} /\ Covered(e, r) # Outcomes
                                /\ Gap(d, r) = 1 => Gap(e, r) = 0
    BY <1>1, <2>1, <2>2, ReadSocEnds
  <2>4. e.bus # "done"
    <3>1. PICK g : g = OnReadSoc(d)
      OBVIOUS
    <3>2. Driver(g)
      <4>1. PICK done \in BOOLEAN : done = TRUE
        OBVIOUS
      <4>2. Continues(d, OnReadSoc(d), done, ch, sole)
        BY <1>1, <2>1, ReadSocContinues
      <4>3. QED
        BY <3>1, <4>2 DEF Continues
    <3>3. e = Start(g)
      BY <2>2, <3>1
    <3>4. QED
      BY <3>2, <3>3, Started
  <2> HIDE DEF r
  <2>5. ASSUME Well(e)  PROVE  Well(d) /\ NoClear(d.q) /\ NoClear(e.q)
    BY <2>3, <2>5 DEF Sent
  <2>6. ASSUME Well(e), NEW s \in Sock, ch[s].SR # "CLOSED"  PROVE  SentFor(e, ch[s], s)
    <3> DEFINE c == ch[s]
    <3>1. SentFor(d, c, s) /\ Covered(d, s) = {} /\ ForUse(c)
      BY <1>2, <2>5, <2>6 DEF Sent
    <3> HIDE DEF c
    <3>2. CASE Covered(e, s) = {}
      <4>1. Gap(e, s) = Gap(d, s)
        BY <2>3, <2>5, <2>6, <3>2
      <4>2. QED
        BY <2>4, <3>1, <3>2, <4>1 DEF SentFor, c
    <3>3. CASE Covered(e, s) # {}
      <4>1. s = r /\ Covered(e, s) = d.sk[s].IR \cap Outcomes
        BY <2>3, <2>5, <2>6, <3>3
      <4>2. Covered(e, s) \subseteq c.IR \cap Outcomes
        BY <1>3, <3>1, <4>1 DEF SentFor, r
      <4>3. ~(Outcomes \subseteq c.IR)
        BY <3>1 DEF SentFor
      <4>4. Covered(e, s) # Outcomes /\ c.IR \cap Outcomes = Covered(e, s)
        BY <3>3, <4>2, <4>3 DEF Outcomes
      <4>5. ~(c.IR \cap Outcomes \subseteq Covered(d, s))
        BY <3>1, <3>3, <4>4
      <4>6. Gap(d, s) = 1 /\ c.CR # "SEND" /\ ~c.sending
        BY <1>1, <3>1, <4>5, OutcomeAlone
      <4>7. Gap(e, s) = 0
        BY <2>3, <2>5, <2>6, <3>3, <4>1, <4>4, <4>6
      <4>8. QED
        BY <2>4, <4>3, <4>4, <4>6, <4>7 DEF SentFor, Bit, c
    <3>4. QED
      BY <3>2, <3>3
  <2>7. QED
    BY <1>2, <2>3, <2>5, <2>6 DEF Sent
<1>4. CASE d.run.cmd_type # "READ_SOC"
  <2>1. Balanced(d, f)
    BY <1>1, <1>4, HandledBalanced
  <2>2. e = Start(f)
    OBVIOUS
  <2> HIDE DEF f
  <2>3. /\ Driver(f) /\ SendShadows(f.sk) /\ f.bus = "done"
        /\ Well(f) => /\ Well(d)
                      /\ NoClear(d.q) =>
                           NoClear(f.q) /\ \A s \in Sock : Gap(f, s) = Gap(d, s)
    BY <2>1 DEF Balanced
  <2>4. Driver(e) /\ Busy(e) /\ e.sk = f.sk /\ e.bus # "done"
    BY <2>2, <2>3, Started
  <2>5. ASSUME Well(e)
        PROVE  /\ Well(d) /\ NoClear(d.q) /\ NoClear(e.q)
               /\ \A s \in Sock : Gap(e, s) = Gap(d, s) /\ Covered(e, s) = {}
    <3>1. Well(f)
      <4>1. ~e.fails /\ e.err = 0
        BY <2>5 DEF Well
      <4>2. QED
        BY <2>2, <2>3, <4>1, StartIs DEF Well
    <3>2. /\ Well(d) /\ NoClear(d.q)
          /\ NoClear(f.q) /\ \A s \in Sock : Gap(f, s) = Gap(d, s)
      BY <2>3, <3>1 DEF Sent
    <3>3. /\ NoClear(e.q)
          /\ \A s \in Sock : Sends(Line(e), s) = Sends(f.q, s) /\ Covered(e, s) = {}
      BY <2>2, <2>3, <2>5, <3>2, StartEven
    <3>4. Line(f) = f.q
      <4>1. Queue(f.q)
        BY <2>3 DEF Driver
      <4>2. QED
        BY <2>3, <4>1, JoinedWithNothing DEF Line
    <3>5. \A s \in Sock : Gap(e, s) = Gap(f, s)
      BY <2>4, <3>3, <3>4 DEF Gap
    <3>6. QED
      BY <3>2, <3>3, <3>5
  <2>6. ASSUME Well(e), NEW s \in Sock, ch[s].SR # "CLOSED"  PROVE  SentFor(e, ch[s], s)
    <3>1. SentFor(d, ch[s], s)
      BY <2>5, <2>6 DEF Sent
    <3>2. Gap(e, s) = Gap(d, s) /\ Covered(e, s) = {} /\ Covered(d, s) = {}
      BY <1>2, <2>5, <2>6
    <3>3. QED
      BY <2>4, <3>1, <3>2 DEF SentFor
  <2>7. QED
    BY <1>2, <2>3, <2>4, <2>5, <2>6 DEF Sent
<1>5. QED
  BY <1>3, <1>4

-------------------------------------------------------------------------------
(***************************************************************************)
(* The chip, the network and the bus keep the invariant.                   *)
(***************************************************************************)
\* Only the commands, the flags and the bookkeeping of a state matter.
LEMMA SameSent ==
    ASSUME NEW d, NEW ch, Sent(d, ch), NEW e, e.q = d.q, e.run = d.run, e.bus = d.bus,
           e.fails = d.fails, e.err = d.err, SendShadows(e.sk),
           \A s \in Sock : /\ e.sk[s].is_sending = d.sk[s].is_sending
                           /\ e.sk[s].IR = d.sk[s].IR
    PROVE  Sent(e, ch)
<1>1. Line(e) = Line(d) /\ \A s : Covered(e, s) = Covered(d, s)
  BY DEF Line, Covered
<1>2. \A s \in Sock : Gap(e, s) = Gap(d, s)
  BY <1>1 DEF Gap
<1>3. Well(e) <=> Well(d)
  BY DEF Well
<1>4. \A s \in Sock : SentFor(d, ch[s], s) => SentFor(e, ch[s], s)
  BY <1>1, <1>2 DEF SentFor
<1>5. QED
  BY <1>3, <1>4 DEF Sent

\* A SEND being carried out is all that is_sending stands for.
LEMMA SendingAlone ==
    ASSUME NEW d, Driver(d), Busy(d), SendShadows(d.sk), NEW s \in Sock,
           NEW c, ForUse(c), SentFor(d, c, s), c.sending
    PROVE  /\ Gap(d, s) = 1 /\ c.CR # "SEND" /\ c.IR \cap Outcomes = {}
           /\ Covered(d, s) = {}
<1> DEFINE n == Sends(Line(d), s)
           x == Bit(d.sk[s].is_sending)
           y == Bit(~(c.IR \cap Outcomes \subseteq Covered(d, s)))
<1>1. n \in Nat /\ x \in {0, 1} /\ y \in {0, 1}
  <2>1. Queue(Line(d))
    BY LineIs
  <2>2. n \in Nat
    BY <2>1, SendsAddUp
  <2>3. QED
    BY <2>2 DEF Bit
<1>2. Gap(d, s) = x - n
  BY DEF Gap
<1>3. Gap(d, s) = Bit(c.CR = "SEND") + 1 + y
  BY DEF SentFor, Bit
<1>4. Covered(d, s) = {}
  BY DEF SentFor
<1>5. y = 0 => c.IR \cap Outcomes = {}
  BY <1>4 DEF Bit
<1> HIDE DEF n, x, y
<1>6. QED
  BY <1>1, <1>2, <1>3, <1>4, <1>5 DEF Bit

\* The chip changes one socket.
LEMMA ChipSent ==
    ASSUME NEW d, NEW old, Sent(d, old), DOMAIN old = Sock, NEW s \in Sock, NEW c,
           ForUse(c), c.SR # "CLOSED" => old[s].SR # "CLOSED",
           Well(d) /\ c.SR # "CLOSED" /\ SentFor(d, old[s], s) => SentFor(d, c, s),
           NEW new, new = [old EXCEPT ![s] = c]
    PROVE  Sent(d, new)
<1>1. new[s] = c /\ \A t \in Sock : t # s => new[t] = old[t]
  OBVIOUS
<1>2. \A t \in Sock : ForUse(new[t])
  BY <1>1 DEF Sent
<1>3. ASSUME Well(d), NEW t \in Sock, new[t].SR # "CLOSED"  PROVE  SentFor(d, new[t], t)
  BY <1>1, <1>3 DEF Sent
<1>4. QED
  BY <1>2, <1>3 DEF Sent

\* The chip keeps what is_sending stands for.
LEMMA SameOutcomes ==
    ASSUME NEW d, NEW s, NEW c, SentFor(d, c, s), NEW n,
           n.CR = "SEND" <=> c.CR = "SEND", n.sending = c.sending,
           n.IR \cap Outcomes = c.IR \cap Outcomes
    PROVE  SentFor(d, n, s)
<1>1. \A S : (n.IR \cap Outcomes \subseteq S) <=> (c.IR \cap Outcomes \subseteq S)
  OBVIOUS
<1>2. Outcomes \subseteq n.IR <=> Outcomes \subseteq c.IR
  BY DEF Outcomes
<1>3. \A S : S \cap Outcomes \subseteq n.IR <=> S \cap Outcomes \subseteq c.IR
  OBVIOUS
<1>4. Bit(n.CR = "SEND") = Bit(c.CR = "SEND")
  BY DEF Bit
<1>5. QED
  BY <1>1, <1>2, <1>3, <1>4 DEF SentFor

\* The chip carries out commands, and the network delivers or fails.
LEMMA NetworkSent ==
    ASSUME NEW d, Driver(d), Busy(d), Sent(d, chip), Chip(chip), Network
    PROVE  Sent(d, chip')
<1>1. PICK s \in Sock : \/ Accept(s) \/ SendDone(s) \/ SendTimeout(s) \/ PeerAck(s) \/ PeerFin(s)
                        \/ \E len \in ArriveLens : Arrive(s, len)
  BY DEF Network
<1> DEFINE c == chip[s]
<1>2. ForUse(c) /\ DOMAIN chip = Sock /\ SendShadows(d.sk)
  BY DEF Sent, Chip
<1>3. PICK n : /\ chip' = [chip EXCEPT ![s] = n]
               /\ ForUse(n) /\ (n.SR # "CLOSED" => c.SR # "CLOSED")
               /\ n.SR # "CLOSED" /\ SentFor(d, c, s) => SentFor(d, n, s)
  <2>1. CASE Accept(s)
    <3>1. CASE c.CR = "SEND" /\ ~c.sending /\ chip' = [chip EXCEPT ![s] = AcceptSend(c)]
      <4> DEFINE n == AcceptSend(c)
      <4>1. /\ n.CR = "NONE" /\ n.SR = c.SR /\ n.IR = c.IR /\ DOMAIN n = DOMAIN c
            /\ n.sending \in BOOLEAN /\ (c.SR # "CLOSED" => n.sending = TRUE)
        BY <1>2 DEF AcceptSend, ForUse, Open
      <4> HIDE DEF n
      <4>2. ForUse(n)
        BY <1>2, <4>1 DEF ForUse
      <4>3. n.SR # "CLOSED" /\ SentFor(d, c, s) => SentFor(d, n, s)
        BY <3>1, <4>1 DEF SentFor, Bit
      <4>4. QED
        BY <3>1, <4>1, <4>2, <4>3 DEF n
    <3>2. CASE c.CR = "RECV" /\ chip' = [chip EXCEPT ![s] = AcceptRecv(c)]
      <4> DEFINE n == AcceptRecv(c)
      <4>1. /\ n.CR = "NONE" /\ n.SR = c.SR /\ n.IR = c.IR /\ DOMAIN n = DOMAIN c
            /\ n.sending = c.sending
        BY <1>2 DEF AcceptRecv, ForUse
      <4> HIDE DEF n
      <4>2. ForUse(n)
        BY <1>2, <4>1 DEF ForUse
      <4>3. SentFor(d, c, s) => SentFor(d, n, s)
        BY <3>2, <4>1, SameOutcomes
      <4>4. QED
        BY <3>2, <4>1, <4>2, <4>3 DEF n
    <3>3. QED
      BY <2>1, <3>1, <3>2 DEF Accept, ChipBecomes
  <2>2. CASE SendDone(s)
    <3> DEFINE n == [c EXCEPT !.sending = FALSE, !.outbound = <<>>,
                         !.IR = @ \cup {"SENDOK"},
                         !.acked = IF s \in Tcp THEN @ ELSE c.TX_RD]
    <3>1. chip' = [chip EXCEPT ![s] = n] /\ c.sending
      BY <2>2 DEF SendDone, ChipBecomes
    <3>2. /\ DOMAIN n = DOMAIN c /\ n.CR = c.CR /\ n.SR = c.SR /\ n.sending = FALSE
          /\ n.IR = c.IR \cup {"SENDOK"}
      BY <1>2 DEF ForUse
    <3> HIDE DEF n
    <3>3. ForUse(n)
      BY <1>2, <3>2 DEF ForUse
    <3>4. SentFor(d, c, s) => SentFor(d, n, s)
      <4>1. SUFFICES ASSUME SentFor(d, c, s) PROVE SentFor(d, n, s)
        OBVIOUS
      <4> HIDE DEF c
      <4>2. Gap(d, s) = 1 /\ c.CR # "SEND" /\ c.IR \cap Outcomes = {} /\ Covered(d, s) = {}
        BY <1>2, <3>1, <4>1, SendingAlone
      <4>3. n.IR \cap Outcomes = {"SENDOK"} /\ ~(Outcomes \subseteq n.IR)
        BY <3>2, <4>2 DEF Outcomes
      <4>4. Gap(d, s) = Bit(n.CR = "SEND") + Bit(n.sending)
                            + Bit(~(n.IR \cap Outcomes \subseteq Covered(d, s)))
        BY <3>2, <4>2, <4>3 DEF Bit
      <4>5. \A S : S \subseteq c.IR => S \subseteq n.IR
        BY <3>2
      <4>6. QED
        BY <4>1, <4>2, <4>3, <4>4, <4>5 DEF SentFor
    <3>5. QED
      BY <3>1, <3>2, <3>3, <3>4
  <2>3. CASE SendTimeout(s)
    <3> DEFINE n == [c EXCEPT !.sending = FALSE, !.outbound = <<>>,
                         !.IR = @ \cup {"TIMEOUT"}, !.acked = c.TX_RD,
                         !.SR = IF s \in Tcp THEN "CLOSED" ELSE @]
    <3>1. chip' = [chip EXCEPT ![s] = n] /\ (s \notin Tcp => c.sending)
      BY <2>3 DEF SendTimeout, ChipBecomes
    <3>2. /\ DOMAIN n = DOMAIN c /\ n.CR = c.CR /\ n.sending = FALSE
          /\ n.SR = IF s \in Tcp THEN "CLOSED" ELSE c.SR
          /\ n.IR = c.IR \cup {"TIMEOUT"}
      BY <1>2 DEF ForUse
    <3> HIDE DEF n
    <3>3. ForUse(n) /\ (n.SR # "CLOSED" => c.SR # "CLOSED")
      BY <1>2, <3>2 DEF ForUse
    <3>4. n.SR # "CLOSED" /\ SentFor(d, c, s) => SentFor(d, n, s)
      <4>1. SUFFICES ASSUME n.SR # "CLOSED", SentFor(d, c, s) PROVE SentFor(d, n, s)
        OBVIOUS
      <4>a. c.sending
        BY <3>1, <3>2, <4>1
      <4> HIDE DEF c
      <4>2. Gap(d, s) = 1 /\ c.CR # "SEND" /\ c.IR \cap Outcomes = {} /\ Covered(d, s) = {}
        BY <1>2, <4>1, <4>a, SendingAlone
      <4>3. n.IR \cap Outcomes = {"TIMEOUT"} /\ ~(Outcomes \subseteq n.IR)
        BY <3>2, <4>2 DEF Outcomes
      <4>4. Gap(d, s) = Bit(n.CR = "SEND") + Bit(n.sending)
                            + Bit(~(n.IR \cap Outcomes \subseteq Covered(d, s)))
        BY <3>2, <4>2, <4>3 DEF Bit
      <4>5. \A S : S \subseteq c.IR => S \subseteq n.IR
        BY <3>2
      <4>6. QED
        BY <4>1, <4>2, <4>3, <4>4, <4>5 DEF SentFor
    <3>5. QED
      BY <3>1, <3>3, <3>4
  <2>4. CASE PeerAck(s)
    <3> DEFINE n == [c EXCEPT !.acked = c.TX_RD]
    <3>1. chip' = [chip EXCEPT ![s] = n]
      BY <2>4 DEF PeerAck, ChipBecomes
    <3>2. /\ DOMAIN n = DOMAIN c /\ n.CR = c.CR /\ n.SR = c.SR /\ n.sending = c.sending
          /\ n.IR = c.IR
      BY <1>2 DEF ForUse
    <3> HIDE DEF n
    <3>3. ForUse(n)
      BY <1>2, <3>2 DEF ForUse
    <3>4. SentFor(d, c, s) => SentFor(d, n, s)
      BY <3>2, SameOutcomes
    <3>5. QED
      BY <3>1, <3>2, <3>3, <3>4
  <2>5. CASE PeerFin(s)
    <3> DEFINE n == [c EXCEPT !.SR = "CLOSE_WAIT", !.IR = @ \cup {"DISCON"}]
    <3>1. chip' = [chip EXCEPT ![s] = n] /\ c.SR = "ESTABLISHED"
      BY <1>2, <2>5 DEF PeerFin, ChipBecomes
    <3>2. /\ DOMAIN n = DOMAIN c /\ n.CR = c.CR /\ n.SR = "CLOSE_WAIT" /\ n.sending = c.sending
          /\ n.IR = c.IR \cup {"DISCON"}
      BY <1>2 DEF ForUse
    <3> HIDE DEF n
    <3>3. ForUse(n)
      BY <1>2, <3>2 DEF ForUse, Open
    <3>4. n.IR \cap Outcomes = c.IR \cap Outcomes
      BY <3>2 DEF Outcomes
    <3>5. SentFor(d, c, s) => SentFor(d, n, s)
      BY <3>2, <3>4, SameOutcomes
    <3>6. QED
      BY <3>1, <3>3, <3>5
  <2>6. ASSUME NEW len \in ArriveLens, Arrive(s, len)
        PROVE  \E n : /\ chip' = [chip EXCEPT ![s] = n]
                      /\ ForUse(n) /\ (n.SR # "CLOSED" => c.SR # "CLOSED")
                      /\ n.SR # "CLOSED" /\ SentFor(d, c, s) => SentFor(d, n, s)
    <3>1. PICK bytes : chip' = [chip EXCEPT ![s] = Deposit(c, bytes)]
      BY <2>6 DEF Arrive, ChipBecomes
    <3> DEFINE n == Deposit(c, bytes)
    <3>2. /\ DOMAIN n = DOMAIN c /\ n.CR = c.CR /\ n.SR = c.SR /\ n.sending = c.sending
          /\ n.IR = c.IR \cup {"RECV"}
      BY <1>2 DEF ForUse, Deposit
    <3> HIDE DEF n
    <3>3. ForUse(n)
      BY <1>2, <3>2 DEF ForUse
    <3>4. n.IR \cap Outcomes = c.IR \cap Outcomes
      BY <3>2 DEF Outcomes
    <3>5. SentFor(d, c, s) => SentFor(d, n, s)
      BY <3>2, <3>4, SameOutcomes
    <3>6. QED
      BY <3>1, <3>2, <3>3, <3>5 DEF n
  <2>7. QED
    BY <1>1, <2>1, <2>2, <2>3, <2>4, <2>5, <2>6
<1>4. QED
  BY <1>2, <1>3, ChipSent

-------------------------------------------------------------------------------
(***************************************************************************)
(* The transfers.                                                          *)
(***************************************************************************)
\* The SEND on the bus, and what its transfer, or any other, does to the chip's
\* socket: from o to n.
Carrying(d, s) == d.bus = "shift" /\ IsSend(d.run, s)
Carried(d, o, n, s) ==
    /\ n.CR = "SEND" <=> Carrying(d, s) \/ o.CR = "SEND"
    /\ Carrying(d, s) => o.CR # "SEND"
    /\ n.IR \cap Outcomes = (o.IR \cap Outcomes) \ Covered(d, s)

\* Once the transfer is over, the command on the bus is no longer on its way.
LEMMA CarriedGap ==
    ASSUME NEW d, Driver(d), Busy(d), SendShadows(d.sk), d.bus \in {"shift", "poll"},
           NEW e, e.q = d.q, e.bus = "done", NEW s \in Sock,
           e.sk[s].is_sending = d.sk[s].is_sending
    PROVE  /\ Gap(e, s) = Gap(d, s) + Bit(Carrying(d, s)) /\ Gap(d, s) \in Int
           /\ Covered(e, s) = {}
<1> DEFINE n == Sends(d.q, s)
           x == Bit(d.sk[s].is_sending)
           y == Bit(Carrying(d, s))
           m == Sends(Line(d), s)
<1>1. Queue(d.q) /\ WellFormed(d.run) /\ Queue(<<d.run>>)
  BY LineIs
<1>2. n \in Nat /\ x \in Nat /\ y \in Nat
  <2>1. n \in Nat
    BY <1>1, SendsAddUp
  <2>2. QED
    BY <2>1 DEF Bit
<1>3. m = y + n
  <2>1. CASE d.bus = "shift"
    <3>1. Line(d) = <<d.run>> \o d.q
      BY <2>1 DEF Line
    <3>2. Sends(<<d.run>> \o d.q, s) = Sends(<<d.run>>, s) + Sends(d.q, s)
      BY <1>1, SendsAddUp
    <3>3. Sends(<<d.run>>, s) = Bit(IsSend(d.run, s))
      BY <1>1, SendsOfOne
    <3>4. y = Bit(IsSend(d.run, s))
      BY <2>1 DEF Carrying, Bit
    <3>5. QED
      BY <3>1, <3>2, <3>3, <3>4
  <2>2. CASE d.bus # "shift"
    <3>1. Line(d) = d.q
      BY <2>2, LineIs
    <3>2. y = 0
      BY <2>2 DEF Carrying, Bit
    <3>3. QED
      BY <1>2, <3>1, <3>2
  <2>3. QED
    BY <2>1, <2>2
<1>4. Line(e) = d.q
  BY <1>1, JoinedWithNothing DEF Line
<1>5. Gap(e, s) = x - n /\ Gap(d, s) = x - m
  BY <1>4 DEF Gap
<1> HIDE DEF n, x, y, m
<1>6. Gap(e, s) = Gap(d, s) + y /\ Gap(d, s) \in Int
  BY <1>2, <1>3, <1>5
<1>7. Covered(e, s) = {}
  BY DEF Covered
<1>8. QED
  BY <1>6, <1>7 DEF y

\* A transfer takes one SEND at most from the line to the chip, or clears what
\* the write on the bus is to clear.
LEMMA TransferSent ==
    ASSUME NEW d, Driver(d), Busy(d), NEW old, Sent(d, old), d.bus \in {"shift", "poll"},
           NEW e, e.q = d.q, e.fails = d.fails, e.err = d.err, e.bus = "done",
           SendShadows(e.sk), \A s \in Sock : e.sk[s].is_sending = d.sk[s].is_sending,
           NEW new,
           \A s \in Sock : /\ ForUse(new[s]) /\ new[s].SR = old[s].SR
                           /\ new[s].sending = old[s].sending
                           /\ Well(d) => Carried(d, old[s], new[s], s)
                           /\ e.run.cmd_type = "READ_SOC" /\ e.run.sn = s =>
                                  e.sk[s].IR \cap Outcomes \subseteq new[s].IR
    PROVE  Sent(e, new)
<1>1. Well(e) <=> Well(d)
  BY DEF Well
<1>2. ASSUME Well(e), NEW s \in Sock, new[s].SR # "CLOSED"  PROVE  SentFor(e, new[s], s)
  <2> DEFINE o == old[s]
             n == new[s]
             k == Bit(Carrying(d, s))
  <2>1. SentFor(d, o, s) /\ Carried(d, o, n, s) /\ n.sending = o.sending /\ SendShadows(d.sk)
    BY <1>1, <1>2 DEF Sent
  <2>2. e.run.cmd_type = "READ_SOC" /\ e.run.sn = s => e.sk[s].IR \cap Outcomes \subseteq n.IR
    OBVIOUS
  <2> HIDE DEF o, n
  <2>3. /\ Gap(e, s) = Gap(d, s) + k /\ Gap(d, s) \in Int
        /\ Covered(e, s) = {}
    BY <2>1, CarriedGap
  <2>4. Bit(n.CR = "SEND") = Bit(o.CR = "SEND") + k
    BY <2>1 DEF Carried, Bit
  <2>5. Bit(n.sending) = Bit(o.sending)
    BY <2>1
  <2>6. Bit(~(n.IR \cap Outcomes \subseteq {})) = Bit(~(o.IR \cap Outcomes \subseteq Covered(d, s)))
    <3>1. (n.IR \cap Outcomes \subseteq {}) <=> (o.IR \cap Outcomes \subseteq Covered(d, s))
      BY <2>1 DEF Carried
    <3>2. QED
      BY <3>1 DEF Bit
  <2>7. ~(Outcomes \subseteq n.IR)
    <3>1. ~(Outcomes \subseteq o.IR)
      BY <2>1 DEF SentFor
    <3>2. n.IR \cap Outcomes \subseteq o.IR
      BY <2>1 DEF Carried
    <3>3. QED
      BY <3>1, <3>2
  <2>8. Gap(e, s) = Bit(n.CR = "SEND") + Bit(n.sending)
                        + Bit(~(n.IR \cap Outcomes \subseteq Covered(e, s)))
    <3> DEFINE a == Bit(o.CR = "SEND")
               b == Bit(o.sending)
               c == Bit(~(o.IR \cap Outcomes \subseteq Covered(d, s)))
    <3>1. Gap(d, s) = a + b + c
      BY <2>1 DEF SentFor
    <3>2. a \in Int /\ b \in Int /\ c \in Int /\ k \in Int
      BY DEF Bit
    <3>3. /\ Bit(n.CR = "SEND") = a + k /\ Bit(n.sending) = b
          /\ Bit(~(n.IR \cap Outcomes \subseteq Covered(e, s))) = c
      BY <2>3, <2>4, <2>5, <2>6
    <3> HIDE DEF a, b, c, k
    <3>4. QED
      BY <2>3, <3>1, <3>2, <3>3
  <2>9. QED
    BY <2>2, <2>3, <2>7, <2>8 DEF SentFor, n
<1>3. Well(e) => NoClear(e.q)
  BY <1>1 DEF Sent
<1>4. QED
  BY <1>2, <1>3 DEF Sent

\* The invariant, of the variables.
SentInv == Sent(Now(TRUE), chip)

\* The state a handler starts from.
LEMMA SentStarts ==
    ASSUME NEW sole, Inv(sole), SentInv, NEW hal \in HalOutcomes
    PROVE  Sent(Now(hal), chip)
<1>1. /\ Now(hal).q = command_queue /\ Now(hal).run = running_cmd
      /\ Now(hal).bus = bus /\ Now(hal).sk = sockets
      /\ Now(hal).fails = enqueueFails /\ Now(hal).err = failures
  BY HandlerStarts
<1>2. /\ Now(TRUE).q = command_queue /\ Now(TRUE).run = running_cmd
      /\ Now(TRUE).bus = bus /\ Now(TRUE).sk = sockets
      /\ Now(TRUE).fails = enqueueFails /\ Now(TRUE).err = failures
  BY DEF Now
<1> DEFINE d == Now(TRUE)
           e == Now(hal)
<1>3. Sent(d, chip) /\ SendShadows(d.sk)
  BY DEF SentInv, Sent
<1>4. /\ e.q = d.q /\ e.run = d.run /\ e.bus = d.bus /\ e.fails = d.fails /\ e.err = d.err
      /\ e.sk = d.sk
  BY <1>1, <1>2
<1> HIDE DEF d, e
<1>5. Sent(e, chip)
  BY <1>3, <1>4, SameSent
<1>6. QED
  BY <1>5 DEF e

\* The state a handler ends in.
LEMMA SentEnds ==
    ASSUME NEW e, Sent(e, chip'), Become(e)
    PROVE  SentInv'
<1> DEFINE n == [q |-> command_queue', run |-> running_cmd', bus |-> bus', sk |-> sockets',
                 fails |-> enqueueFails', err |-> failures', hal |-> TRUE]
<1>1. /\ n.q = e.q /\ n.run = e.run /\ n.bus = e.bus /\ n.sk = e.sk
      /\ n.fails = e.fails /\ n.err = e.err
  BY DEF Become
<1> HIDE DEF n
<1>2. Sent(n, chip')
  <2>1. SendShadows(n.sk)
    BY <1>1 DEF Sent
  <2> DEFINE ch == chip'
  <2>2. Sent(e, ch)
    OBVIOUS
  <2> HIDE DEF ch
  <2>3. Sent(n, ch)
    BY <1>1, <2>1, <2>2, SameSent
  <2>4. QED
    BY <2>3 DEF ch
<1>3. QED
  BY <1>2 DEF SentInv, Now, n

\* The state a transfer ends in.
LEMMA TransferSends ==
    ASSUME NEW sole, Inv(sole), SentInv, bus \in {"shift", "poll"}, bus' = "done",
           UNCHANGED <<command_queue, enqueueFails, failures>>,
           SendShadows(sockets'),
           \A s \in Sock : sockets'[s].is_sending = sockets[s].is_sending,
           \A s \in Sock : /\ ForUse(chip'[s]) /\ chip'[s].SR = chip[s].SR
                           /\ chip'[s].sending = chip[s].sending
                           /\ Well(Now(TRUE)) => Carried(Now(TRUE), chip[s], chip'[s], s),
           \A s \in Sock : running_cmd'.cmd_type = "READ_SOC" /\ running_cmd'.sn = s =>
                               sockets'[s].IR \cap Outcomes \subseteq chip'[s].IR
    PROVE  SentInv'
<1> DEFINE d == Now(TRUE)
           e == [q |-> command_queue', run |-> running_cmd', bus |-> bus', sk |-> sockets',
                 fails |-> enqueueFails', err |-> failures', hal |-> TRUE]
           new == chip'
<1>1. /\ Driver(d) /\ Busy(d) /\ Sent(d, chip) /\ d.q = command_queue /\ d.run = running_cmd
      /\ d.bus = bus /\ d.sk = sockets /\ d.fails = enqueueFails /\ d.err = failures
  BY DEF Inv, Holds, SentInv, Now
<1>2. /\ e.q = command_queue' /\ e.run = running_cmd' /\ e.bus = bus' /\ e.sk = sockets'
      /\ e.fails = enqueueFails' /\ e.err = failures'
  OBVIOUS
<1>3. \A s \in Sock : /\ ForUse(new[s]) /\ new[s].SR = chip[s].SR
                      /\ new[s].sending = chip[s].sending
                      /\ Well(d) => Carried(d, chip[s], new[s], s)
                      /\ running_cmd'.cmd_type = "READ_SOC" /\ running_cmd'.sn = s =>
                             sockets'[s].IR \cap Outcomes \subseteq new[s].IR
  OBVIOUS
<1> HIDE DEF d, e, new
<1>4. Sent(e, new)
  <2>1. /\ e.q = d.q /\ e.fails = d.fails /\ e.err = d.err /\ e.bus = "done"
        /\ d.bus \in {"shift", "poll"} /\ SendShadows(e.sk)
        /\ \A s \in Sock : e.sk[s].is_sending = d.sk[s].is_sending
    BY <1>1, <1>2
  <2>2. \A s \in Sock : /\ ForUse(new[s]) /\ new[s].SR = chip[s].SR
                        /\ new[s].sending = chip[s].sending
                        /\ Well(d) => Carried(d, chip[s], new[s], s)
                        /\ e.run.cmd_type = "READ_SOC" /\ e.run.sn = s =>
                               e.sk[s].IR \cap Outcomes \subseteq new[s].IR
    BY <1>2, <1>3
  <2>3. QED
    BY <1>1, <2>1, <2>2, TransferSent
<1>5. QED
  BY <1>4 DEF SentInv, Now, e, new

\* What is known of the state when a transfer moves its bytes.
LEMMA SentTransferStarts ==
    ASSUME NEW sole, Inv(sole), SentInv, bus \in {"shift", "poll"}
    PROVE  /\ SendShadows(sockets) /\ Chip(chip) /\ \A s \in Sock : ForUse(chip[s])
           /\ SureWrites /\ Well(Now(TRUE)) /\ bus = "shift" /\ IsCommandWrite(running_cmd) =>
                  chip[running_cmd.sn].CR = "NONE"
           /\ bus = "poll" => IsCommandWrite(running_cmd)
           /\ \A s : /\ Carrying(Now(TRUE), s) <=> bus = "shift" /\ IsSend(running_cmd, s)
                     /\ Covered(Now(TRUE), s) =
                            IF bus = "shift" /\ Clears(running_cmd, s)
                            THEN running_cmd.val.IR \cap Outcomes ELSE {}
<1> DEFINE d == Now(TRUE)
<1>1. /\ Holds(d, chip, sole) /\ Sent(d, chip) /\ d.run = running_cmd
      /\ d.bus = bus /\ d.sk = sockets
  BY DEF Inv, SentInv, Now
<1> HIDE DEF d
<1>2. SureWrites /\ Well(d) /\ bus = "shift" /\ IsCommandWrite(running_cmd) =>
          chip[running_cmd.sn].CR = "NONE"
  BY <1>1 DEF Holds, Kept, OnTheBus, Well
<1>3. bus = "poll" => IsCommandWrite(running_cmd)
  BY <1>1 DEF Holds, Busy
<1>4. \A s : /\ Carrying(d, s) <=> bus = "shift" /\ IsSend(running_cmd, s)
             /\ Covered(d, s) = IF bus = "shift" /\ Clears(running_cmd, s)
                                THEN running_cmd.val.IR \cap Outcomes ELSE {}
  BY <1>1 DEF Carrying, Covered
<1>5. SendShadows(sockets) /\ Chip(chip) /\ \A s \in Sock : ForUse(chip[s])
  BY <1>1 DEF Sent, Holds
<1>6. QED
  BY <1>2, <1>3, <1>4, <1>5 DEF d

\* A transfer that writes no register carries nothing to the chip.
LEMMA NothingCarried ==
    ASSUME NEW sole, Inv(sole), SentInv, bus \in {"shift", "poll"},
           bus = "poll" \/ running_cmd.cmd_type # "WRITE_REG", NEW s, NEW o, NEW n,
           n.CR = o.CR, n.IR = o.IR
    PROVE  Carried(Now(TRUE), o, n, s)
<1>1. ~Carrying(Now(TRUE), s) /\ Covered(Now(TRUE), s) = {}
  <2>1. /\ Carrying(Now(TRUE), s) <=> bus = "shift" /\ IsSend(running_cmd, s)
        /\ Covered(Now(TRUE), s) = IF bus = "shift" /\ Clears(running_cmd, s)
                                   THEN running_cmd.val.IR \cap Outcomes ELSE {}
    BY SentTransferStarts
  <2>2. QED
    BY <2>1 DEF IsSend, IsCommandWrite, Clears
<1>2. QED
  BY <1>1 DEF Carried

\* Registers and buffers are written: what the chip has become.
LEMMA WritesCarry ==
    ASSUME NEW sole, SureWrites, Inv(sole), SentInv, TransferWriteReg \/ TransferWriteBuf
    PROVE  \A t \in Sock : /\ ForUse(chip'[t]) /\ chip'[t].SR = chip[t].SR
                           /\ chip'[t].sending = chip[t].sending
                           /\ Well(Now(TRUE)) => Carried(Now(TRUE), chip[t], chip'[t], t)
<1> DEFINE s == running_cmd.sn
           d == Now(TRUE)
<1>1. /\ bus = "shift" /\ bus' = "done" /\ running_cmd.cmd_type \in {"WRITE_REG", "WRITE_BUF"}
      /\ UNCHANGED <<command_queue, enqueueFails, failures, running_cmd, sockets>>
  BY DEF TransferWriteReg, TransferWriteBuf, Shifting
<1>2. WellFormed(running_cmd) /\ s \in Sock
  BY <1>1, TransferStarts
<1>3. /\ SendShadows(sockets) /\ DOMAIN chip = Sock /\ \A t \in Sock : ForUse(chip[t])
      /\ Well(d) /\ IsCommandWrite(running_cmd) => chip[s].CR = "NONE"
      /\ \A t : /\ Carrying(d, t) <=> IsSend(running_cmd, t)
                /\ Covered(d, t) = IF Clears(running_cmd, t)
                                   THEN running_cmd.val.IR \cap Outcomes ELSE {}
  BY <1>1, SentTransferStarts DEF Chip
<1> HIDE DEF d
<1>4. PICK c : /\ chip' = [chip EXCEPT ![s] = c]
               /\ ForUse(c) /\ c.SR = chip[s].SR /\ c.sending = chip[s].sending
               /\ Well(d) => Carried(d, chip[s], c, s)
  <2> DEFINE o == chip[s]
  <2>1. ForUse(o)
    BY <1>2, <1>3
  <2>2. CASE TransferWriteReg
    <3> DEFINE regs == running_cmd.val
               c == WriteReg(o, regs)
    <3>1. chip' = [chip EXCEPT ![s] = c] /\ running_cmd.cmd_type = "WRITE_REG"
      BY <2>2 DEF TransferWriteReg, ChipBecomes, Shifting
    <3>2. /\ DOMAIN regs \subseteq Writable
          /\ "CR" \in DOMAIN regs => DOMAIN regs = {"CR"}
      BY <1>2, <3>1 DEF WellFormed, Settable
    <3>3. /\ Carrying(d, s) <=> "CR" \in DOMAIN regs /\ regs.CR = "SEND"
          /\ Covered(d, s) = IF "IR" \in DOMAIN regs THEN regs.IR \cap Outcomes ELSE {}
          /\ Well(d) /\ "CR" \in DOMAIN regs => o.CR = "NONE"
      BY <1>3, <3>1 DEF IsSend, IsCommandWrite, Clears
    <3> HIDE DEF regs, o
    <3>4. CASE "IR" \in DOMAIN regs
      <4>1. c = [o EXCEPT !.IR = o.IR \ regs.IR]
        BY <3>4 DEF WriteReg
      <4>2. /\ DOMAIN c = DOMAIN o /\ c.CR = o.CR /\ c.SR = o.SR /\ c.sending = o.sending
            /\ c.IR = o.IR \ regs.IR
        BY <2>1, <4>1 DEF ForUse
      <4> HIDE DEF c
      <4>3. ForUse(c)
        BY <2>1, <4>2 DEF ForUse
      <4>4. ~Carrying(d, s) /\ Covered(d, s) = regs.IR \cap Outcomes
        BY <3>2, <3>3, <3>4
      <4>5. Carried(d, o, c, s)
        BY <4>2, <4>4 DEF Carried
      <4>6. QED
        BY <3>1, <4>2, <4>3, <4>5 DEF o
    <3>5. CASE "IR" \notin DOMAIN regs
      <4>1. c = Overlay(regs, o)
        BY <3>5 DEF WriteReg
      <4>2. /\ DOMAIN c = DOMAIN regs \cup DOMAIN o
            /\ \A r \in DOMAIN regs \cup DOMAIN o : c[r] = IF r \in DOMAIN regs THEN regs[r] ELSE o[r]
        BY <4>1 DEF Overlay
      <4> HIDE DEF c
      <4>3. "SR" \notin DOMAIN regs /\ "sending" \notin DOMAIN regs
        BY <3>2 DEF Writable
      <4>4. /\ {"CR", "IR", "SR", "sending"} \subseteq DOMAIN c
            /\ c.SR = o.SR /\ c.sending = o.sending /\ c.IR = o.IR
            /\ c.CR = IF "CR" \in DOMAIN regs THEN regs.CR ELSE o.CR
        BY <2>1, <3>5, <4>2, <4>3 DEF ForUse
      <4>5. ForUse(c)
        BY <2>1, <4>4 DEF ForUse
      <4>6. Well(d) => Carried(d, o, c, s)
        BY <3>3, <3>5, <4>4 DEF Carried
      <4>7. QED
        BY <3>1, <4>4, <4>5, <4>6 DEF o
    <3>6. QED
      BY <3>4, <3>5
  <2>3. CASE TransferWriteBuf
    <3>1. PICK mem : chip' = [chip EXCEPT ![s].tx_mem = mem]
      BY <2>3 DEF TransferWriteBuf, ChipBecomes
    <3> DEFINE c == [o EXCEPT !.tx_mem = mem]
    <3>2. chip' = [chip EXCEPT ![s] = c]
      BY <3>1
    <3>3. /\ DOMAIN c = DOMAIN o /\ c.CR = o.CR /\ c.SR = o.SR /\ c.sending = o.sending
          /\ c.IR = o.IR
      BY <2>1 DEF ForUse
    <3>4. running_cmd.cmd_type # "WRITE_REG"
      BY <2>3 DEF TransferWriteBuf, Shifting
    <3> HIDE DEF c, o
    <3>5. Carried(d, o, c, s)
      BY <1>1, <3>3, <3>4, NothingCarried DEF d
    <3>6. ForUse(c)
      BY <2>1, <3>3 DEF ForUse
    <3>7. QED
      BY <3>2, <3>3, <3>5, <3>6 DEF o
  <2>4. QED
    BY <2>2, <2>3
<1>5. \A t \in Sock : /\ ForUse(chip'[t]) /\ chip'[t].SR = chip[t].SR
                      /\ chip'[t].sending = chip[t].sending
                      /\ Well(d) => Carried(d, chip[t], chip'[t], t)
  <2>1. TAKE t \in Sock
  <2>2. CASE t = s
    BY <1>2, <1>3, <1>4, <2>2
  <2>3. CASE t # s
    <3>1. chip'[t] = chip[t]
      BY <1>3, <1>4, <2>3
    <3>2. ~Carrying(d, t) /\ Covered(d, t) = {}
      BY <1>3, <2>3 DEF IsSend, Clears
    <3>3. Carried(d, chip[t], chip'[t], t)
      BY <3>1, <3>2 DEF Carried
    <3>4. QED
      BY <1>3, <3>1, <3>3
  <2>4. QED
    BY <2>2, <2>3
<1>6. QED
  BY <1>5 DEF d

\* A write keeps the invariant.
LEMMA WritesSent ==
    ASSUME NEW sole, SureWrites, Inv(sole), SentInv, TransferWriteReg \/ TransferWriteBuf
    PROVE  SentInv'
<1>1. /\ bus = "shift" /\ bus' = "done" /\ running_cmd.cmd_type \in {"WRITE_REG", "WRITE_BUF"}
      /\ UNCHANGED <<command_queue, enqueueFails, failures, running_cmd, sockets>>
  BY DEF TransferWriteReg, TransferWriteBuf, Shifting
<1>2. SendShadows(sockets)
  BY <1>1, SentTransferStarts
<1>3. \A t \in Sock : /\ ForUse(chip'[t]) /\ chip'[t].SR = chip[t].SR
                      /\ chip'[t].sending = chip[t].sending
                      /\ Well(Now(TRUE)) => Carried(Now(TRUE), chip[t], chip'[t], t)
  BY WritesCarry
<1>4. /\ SendShadows(sockets') /\ \A t \in Sock : sockets'[t].is_sending = sockets[t].is_sending
      /\ running_cmd'.cmd_type # "READ_SOC"
  BY <1>1, <1>2
<1>5. QED
  BY <1>1, <1>3, <1>4, TransferSends

\* Registers are read into the command's own buffer.
LEMMA FetchesSent ==
    ASSUME NEW sole, Inv(sole), SentInv,
           TransferReadReg \/ TransferReadSir \/ TransferCheckRcv \/ TransferCheckTxFsr
    PROVE  SentInv'
<1>a. PICK type, val : /\ type \in {"READ_REG", "READ_SIR", "CHECK_RCV", "CHECK_TX_FSR"}
                       /\ Fetch(type, val)
  <2>1. CASE TransferReadReg
    BY <2>1 DEF TransferReadReg
  <2>2. CASE TransferReadSir
    BY <2>2 DEF TransferReadSir
  <2>3. CASE TransferCheckRcv
    BY <2>3 DEF TransferCheckRcv
  <2>4. CASE TransferCheckTxFsr
    BY <2>4 DEF TransferCheckTxFsr
  <2>5. QED
    BY <2>1, <2>2, <2>3, <2>4
<1>1. /\ running_cmd.cmd_type \in {"READ_REG", "READ_SIR", "CHECK_RCV", "CHECK_TX_FSR"}
      /\ bus = "shift" /\ bus' = "done"
      /\ running_cmd' = [running_cmd EXCEPT !.val = val, !.hdr = FALSE]
      /\ UNCHANGED <<command_queue, enqueueFails, failures, sockets, chip>>
  BY <1>a DEF Fetch, Shifting
<1>2. /\ WellFormed(running_cmd) /\ SendShadows(sockets) /\ \A t \in Sock : ForUse(chip[t])
  BY <1>1, TransferStarts, SentTransferStarts
<1>3. running_cmd'.cmd_type = running_cmd.cmd_type
  BY <1>1, <1>2 DEF WellFormed, Fields
<1>4. \A t \in Sock : Carried(Now(TRUE), chip[t], chip'[t], t)
  BY <1>1, NothingCarried
<1>5. /\ SendShadows(sockets') /\ \A t \in Sock : sockets'[t].is_sending = sockets[t].is_sending
      /\ running_cmd'.cmd_type # "READ_SOC"
      /\ \A t \in Sock : /\ ForUse(chip'[t]) /\ chip'[t].SR = chip[t].SR
                         /\ chip'[t].sending = chip[t].sending
  BY <1>1, <1>2, <1>3
<1>6. QED
  BY <1>1, <1>4, <1>5, TransferSends

\* Received bytes land in the receive buffer, the block of socket registers in
\* the shadow registers; a poll changes nothing.
LEMMA ReadsSent ==
    ASSUME NEW sole, Inv(sole), SentInv, TransferReadBuf \/ TransferReadSoc \/ TransferPoll
    PROVE  SentInv'
<1> DEFINE s == running_cmd.sn
<1>1. /\ bus \in {"shift", "poll"} /\ bus' = "done"
      /\ UNCHANGED <<command_queue, enqueueFails, failures, running_cmd, chip>>
      /\ bus = "poll" \/ running_cmd.cmd_type \in {"READ_BUF", "READ_SOC"}
  BY DEF TransferReadBuf, TransferReadSoc, TransferPoll, Shifting
<1>2. /\ WellFormed(running_cmd) /\ SendShadows(sockets) /\ \A t \in Sock : ForUse(chip[t])
      /\ DOMAIN sockets = Sock
      /\ bus = "poll" => running_cmd.cmd_type = "WRITE_REG"
  BY <1>1, TransferStarts, SentTransferStarts DEF IsCommandWrite, Shadows
<1>3. running_cmd.cmd_type # "READ_SIR" /\ s \in Sock
  BY <1>1, <1>2 DEF WellFormed
<1>4. \A t \in Sock : Carried(Now(TRUE), chip[t], chip'[t], t)
  BY <1>1, NothingCarried
<1>5. /\ SendShadows(sockets') /\ \A t \in Sock : sockets'[t].is_sending = sockets[t].is_sending
      /\ running_cmd'.cmd_type = "READ_SOC" => sockets'[s].IR = chip[s].IR
  <2>1. CASE TransferPoll
    BY <1>1, <1>2, <2>1 DEF TransferPoll
  <2>2. CASE TransferReadBuf
    <3>1. PICK buf : sockets' = [sockets EXCEPT ![s].rx_buf = buf]
      BY <2>2 DEF TransferReadBuf
    <3>2. running_cmd'.cmd_type # "READ_SOC"
      BY <1>1, <2>2 DEF TransferReadBuf, Shifting
    <3>3. \A t \in Sock : /\ DOMAIN sockets'[t] = DOMAIN sockets[t]
                          /\ sockets'[t].is_sending = sockets[t].is_sending
      BY <1>2, <1>3, <3>1
    <3>4. QED
      BY <1>2, <3>2, <3>3 DEF SendShadows
  <2>3. CASE TransferReadSoc
    <3> DEFINE new == Overlay(Shadow(chip[s]), sockets[s])
    <3>1. sockets' = [sockets EXCEPT ![s] = new]
      BY <2>3 DEF TransferReadSoc
    <3>2. /\ DOMAIN Shadow(chip[s])
             = {"CR", "IR", "SR", "TX_FSR", "TX_WR", "RX_RSR", "RX_RD", "spi"}
          /\ Shadow(chip[s]).IR = chip[s].IR
      BY DEF Shadow
    <3>3. /\ {"IR", "is_sending"} \subseteq DOMAIN new
          /\ new.is_sending = sockets[s].is_sending /\ new.IR = chip[s].IR
      BY <1>2, <1>3, <3>2 DEF Overlay, SendShadows
    <3> HIDE DEF new
    <3>4. QED
      BY <1>2, <1>3, <3>1, <3>3 DEF SendShadows
  <2>4. QED
    BY <2>1, <2>2, <2>3
<1>6. \A t \in Sock : running_cmd'.cmd_type = "READ_SOC" /\ running_cmd'.sn = t =>
                          sockets'[t].IR \cap Outcomes \subseteq chip'[t].IR
  BY <1>1, <1>5
<1>7. \A t \in Sock : /\ ForUse(chip'[t]) /\ chip'[t].SR = chip[t].SR
                      /\ chip'[t].sending = chip[t].sending
  BY <1>1, <1>2
<1>8. QED
  BY <1>1, <1>4, <1>5, <1>6, <1>7, TransferSends

-------------------------------------------------------------------------------
(***************************************************************************)
(* The interrupts and the calls.                                           *)
(***************************************************************************)
\* queuePushFront of a READ_SIR, kickStartCommands included, sends nothing.
LEMMA FrontEven ==
    ASSUME NEW d, Driver(d), Busy(d), SendShadows(d.sk), NEW e, e = PushFront(d, ReadSir)
    PROVE  Even(d, e)
<1> DEFINE c == ReadSir
<1>1. /\ DOMAIN d = DriverFields /\ Queue(d.q) /\ Shadows(d.sk)
      /\ d.fails \in BOOLEAN /\ d.err \in Nat /\ d.hal \in BOOLEAN
  BY DEF Driver, DriverFields
<1>2. WellFormed(c) /\ c.cmd_type = "READ_SIR"
  BY DEF ReadSir, Cmd, WellFormed, IsCommandWrite, Types, Fields
<1>3. Driver(e) /\ Busy(e) /\ e.sk = d.sk
  <2>1. PICK ch : ch = chip
    OBVIOUS
  <2>2. QED
    BY <2>1, PushedFront
<1> HIDE DEF c
<1>4. \A s : Sends(<<c>>, s) = 0 /\ NoClear(<<c>>) /\ Queue(<<c>>)
  <2>1. \A s : ~IsSend(c, s) /\ ~Clears(c, s)
    BY <1>2 DEF IsSend, IsCommandWrite, Clears
  <2>2. QED
    BY <1>2, <2>1, SendsOfOne DEF Bit
<1>5. CASE d.q = <<>> /\ Idle(d)
  <2> DEFINE f == [d EXCEPT !.q = <<c>>]
  <2>1. e = Start(f)
    BY <1>5 DEF PushFront, c
  <2>2. /\ DOMAIN f = DriverFields /\ f.q = <<c>> /\ f.sk = d.sk
        /\ f.err = d.err /\ f.hal = d.hal /\ f.fails = d.fails
    BY <1>1 DEF DriverFields
  <2> HIDE DEF f
  <2>3. Driver(f)
    BY <1>1, <1>4, <2>2 DEF Driver, DriverFields
  <2>4. e.bus # "done"
    <3>1. PICK ch : ch = chip
      OBVIOUS
    <3>2. QED
      BY <2>1, <2>3, Started
  <2>5. ASSUME Well(e)
        PROVE  /\ Well(d) /\ NoClear(e.q)
               /\ \A s \in Sock : Gap(e, s) = Gap(d, s) /\ Covered(e, s) = Covered(d, s)
    <3>1. /\ Well(f) /\ NoClear(e.q)
          /\ \A s \in Sock : Sends(Line(e), s) = Sends(f.q, s) /\ Covered(e, s) = {}
      BY <1>4, <2>1, <2>2, <2>3, <2>5, StartEven
    <3>2. d.bus = "none" /\ Line(d) = <<>>
      <4>1. d.bus = "none"
        BY <1>5 DEF Busy
      <4>2. QED
        BY <1>5, <4>1, LineIs
    <3>3. \A s \in Sock : Sends(Line(d), s) = 0 /\ Covered(d, s) = {}
      BY <1>2, <3>2, SendsOfOne DEF Covered
    <3>4. \A s \in Sock : Sends(Line(e), s) = Sends(Line(d), s)
      BY <1>4, <2>2, <3>1, <3>3
    <3>5. Well(d)
      BY <2>2, <3>1 DEF Well
    <3>6. QED
      BY <1>3, <3>1, <3>3, <3>4, <3>5 DEF Gap
  <2>6. QED
    BY <1>3, <1>5, <2>4, <2>5 DEF Even
<1>6. CASE ~(d.q = <<>> /\ Idle(d))
  <2>1. e = InFront(d, c)
    BY <1>6 DEF PushFront, c
  <2>2. /\ e.run = d.run /\ e.bus = d.bus /\ e.err = d.err
        /\ ~e.fails => ~d.fails /\ e.q = <<c>> \o d.q
    BY <1>2, <2>1, PutInFront
  <2>3. Queue(<<c>> \o d.q) /\ Queue(<<c>>)
    BY <1>1, <1>4, Joined
  <2>4. \A s : Sends(<<c>> \o d.q, s) = Sends(d.q, s) /\ Sends(d.q, s) \in Nat
    <3>1. TAKE s
    <3>2. Sends(<<c>> \o d.q, s) = Sends(<<c>>, s) + Sends(d.q, s) /\ Sends(d.q, s) \in Nat
      BY <1>1, <2>3, SendsAddUp
    <3>3. QED
      BY <1>4, <3>2
  <2>5. ASSUME Well(e), NEW s \in Sock
        PROVE  Sends(Line(e), s) = Sends(Line(d), s) /\ Covered(e, s) = Covered(d, s)
    <3>1. e.q = <<c>> \o d.q
      BY <2>2, <2>5 DEF Well
    <3>2. CASE d.bus = "shift"
      <4>1. Queue(<<d.run>>) /\ Line(d) = <<d.run>> \o d.q /\ Line(e) = <<d.run>> \o e.q
        BY <2>2, <3>2, LineIs DEF Line
      <4>2. Queue(e.q)
        BY <2>3, <3>1
      <4>3. Sends(<<d.run>> \o d.q, s) = Sends(<<d.run>>, s) + Sends(d.q, s)
        BY <1>1, <4>1, SendsAddUp
      <4>4. Sends(<<d.run>> \o e.q, s) = Sends(<<d.run>>, s) + Sends(e.q, s)
        BY <4>1, <4>2, SendsAddUp
      <4>5. QED
        BY <2>2, <2>4, <3>1, <4>1, <4>3, <4>4 DEF Covered
    <3>3. CASE d.bus # "shift"
      <4>1. Line(d) = d.q /\ Line(e) = e.q
        BY <1>3, <2>2, <3>3, LineIs
      <4>2. QED
        BY <2>2, <2>4, <3>1, <3>3, <4>1 DEF Covered
    <3>4. QED
      BY <3>2, <3>3
  <2>6. \A s \in Sock : Well(e) => Gap(e, s) = Gap(d, s) /\ Covered(e, s) = Covered(d, s)
    BY <1>3, <2>5 DEF Gap
  <2>7. ASSUME Well(e), NoClear(d.q)  PROVE  NoClear(e.q)
    <3>1. NoClear(<<c>> \o d.q)
      BY <1>1, <1>4, <2>3, <2>7, ClearsJoined
    <3>2. QED
      BY <2>2, <2>7, <3>1 DEF Well
  <2>8. Well(e) => Well(d)
    BY <2>2 DEF Well
  <2>9. Idle(d) => e.bus # "done"
    BY <2>2 DEF Busy
  <2>10. QED
    BY <1>3, <2>2, <2>6, <2>7, <2>8, <2>9 DEF Even
<1>7. QED
  BY <1>5, <1>6

\* The timer's commands send nothing and clear no flag.
LEMMA TimerSends == NoClear(TimerCommands) /\ \A s : Sends(TimerCommands, s) = 0
<1> DEFINE S == {s \in Sock : sockets[s].SR = "ESTABLISHED"}
           established == Ascending(S)
           p == [i \in DOMAIN established |-> CheckTxFsr(established[i])]
           q == <<ReadSir>>
           r == p \o q
           L == {CheckTxFsr(s) : s \in Sock}
<1>1. TimerCommands = r
  BY DEF TimerCommands
<1>2. /\ Cardinality(S) \in Nat /\ DOMAIN established = 1 .. Cardinality(S)
      /\ \A i \in 1 .. Cardinality(S) : established[i] \in Sock
  BY AscendingList, AscendingMembers
<1> HIDE DEF S, established
<1>3. p \in [1 .. Cardinality(S) -> L] /\ Len(p) = Cardinality(S)
  BY <1>2
<1>4. p \in Seq(L) /\ \A i \in 1 .. Len(p) : p[i] \in L
  BY <1>2, <1>3, SeqDef
<1>5. \A c \in L : WellFormed(c) /\ c.cmd_type = "CHECK_TX_FSR"
  BY Commands
<1> HIDE DEF L, p
<1>6. Queue(p) /\ \A i \in 1 .. Len(p) : p[i].cmd_type = "CHECK_TX_FSR"
  BY <1>4, <1>5, QueueOver
<1>7. NoClear(p) /\ \A s : Sends(p, s) = 0
  <2>1. \A s : \A i \in 1 .. Len(p) : ~IsSend(p[i], s)
    BY <1>6 DEF IsSend, IsCommandWrite
  <2>2. \A s : Sends(p, s) = 0
    BY <1>6, <2>1, SendsOfFew
  <2>3. QED
    BY <1>6, <2>2 DEF NoClear, Clears
<1>8. WellFormed(ReadSir) /\ ReadSir.cmd_type = "READ_SIR"
  BY DEF ReadSir, Cmd, WellFormed, IsCommandWrite, Types, Fields
<1>9. Queue(q) /\ NoClear(q) /\ \A s : Sends(q, s) = 0
  <2>1. \A s : ~IsSend(ReadSir, s) /\ ~Clears(ReadSir, s)
    BY <1>8 DEF IsSend, IsCommandWrite, Clears
  <2>2. QED
    BY <1>8, <2>1, SendsOfOne DEF Bit
<1> HIDE DEF q
<1>10. NoClear(r) /\ \A s : Sends(r, s) = 0
  BY <1>6, <1>7, <1>9, ClearsJoined, SendsAddUp
<1>11. QED
  BY <1>1, <1>10

\* The interrupts: completion, error, EXTI and the timer.
LEMMA InterruptsSent ==
    ASSUME NEW sole, Inv(sole), SentInv, Interrupts
    PROVE  SentInv'
<1>1. chip' = chip
  BY DEF Interrupts, SpiComplete, SpiError, Exti, Timer
<1>2. CASE SpiComplete
  <2>1. PICK hal \in HalOutcomes : Become(Start(Handled(Now(hal)))) /\ bus = "done"
    BY <1>2 DEF SpiComplete
  <2> DEFINE d == Now(hal)
             e == Start(Handled(d))
  <2>2. Holds(d, chip, sole) /\ d.bus = "done" /\ Sent(d, chip)
    BY <2>1, HandlerStarts, SentStarts
  <2>3. Become(e)
    BY <2>1
  <2> HIDE DEF d
  <2>4. Sent(e, chip)
    BY <2>2, CompletionSent
  <2> HIDE DEF e
  <2>5. QED
    BY <1>1, <2>3, <2>4, SentEnds
<1>3. CASE SpiError
  <2>1. Become(Failed(Now(TRUE))) /\ bus # "none"
    BY <1>3 DEF SpiError
  <2> DEFINE d == Now(TRUE)
             e == Failed(d)
  <2>2. Holds(d, chip, sole) /\ d.bus # "none" /\ Sent(d, chip)
    BY <2>1 DEF Inv, SentInv, Now
  <2>3. Become(e)
    BY <2>1
  <2> HIDE DEF d
  <2>4. Driver(d) /\ WellFormed(d.run)
    BY <2>2 DEF Holds, Busy
  <2>5. e.sk = d.sk /\ e.err > 0
    BY <2>4, FailedKeeps
  <2> HIDE DEF e
  <2>6. Sent(e, chip)
    BY <2>2, <2>5 DEF Sent, Well
  <2>7. QED
    BY <1>1, <2>3, <2>6, SentEnds
<1>4. CASE Exti
  <2>1. PICK hal \in HalOutcomes : Become(PushFront(Now(hal), ReadSir))
    BY <1>4 DEF Exti
  <2> DEFINE d == Now(hal)
             e == PushFront(d, ReadSir)
  <2>2. Driver(d) /\ Busy(d) /\ Sent(d, chip) /\ SendShadows(d.sk)
    BY HandlerStarts, SentStarts DEF Holds, Sent
  <2>3. Become(e)
    BY <2>1
  <2> HIDE DEF d
  <2>4. Even(d, e)
    BY <2>2, FrontEven
  <2> HIDE DEF e
  <2>5. Sent(e, chip)
    BY <2>2, <2>4, EvenSent
  <2>6. QED
    BY <1>1, <2>3, <2>5, SentEnds
<1>5. CASE Timer
  <2>1. PICK hal \in HalOutcomes : Become(PushBacks(Restarted(Now(hal)), TimerCommands))
    BY <1>5 DEF Timer
  <2> DEFINE d == Now(hal)
             l == TimerCommands
             f == Restarted(d)
             e == PushBacks(f, l)
  <2>2. Driver(d) /\ Busy(d) /\ Sent(d, chip) /\ SendShadows(d.sk)
    BY HandlerStarts, SentStarts DEF Holds, Sent
  <2>3. Become(e)
    BY <2>1
  <2>4. Queue(l) /\ l # <<>> /\ NoClear(l) /\ \A s : Sends(l, s) = 0
    BY TimerQueue, TimerSends
  <2> HIDE DEF d, l
  <2>5. \/ f = d
        \/ Idle(d) /\ d.q # <<>> /\ f = Start(d)
    BY DEF Restarted
  <2> HIDE DEF f
  <2>6. CASE f = d
    <3>1. Even(d, e)
      <4>1. e = PushBacks(d, l)
        BY <2>6 DEF e
      <4>2. SameOrders(d, d) /\ \A t \in Sock : Sends(l, t) = Bit(d.sk[t].is_sending) - Bit(d.sk[t].is_sending)
        BY <2>2, <2>4 DEF SameOrders, Driver, DriverFields, Bit
      <4> HIDE DEF e
      <4>3. QED
        BY <2>2, <2>4, <4>1, <4>2, QueuedEven
    <3> HIDE DEF e
    <3>2. Sent(e, chip)
      BY <2>2, <3>1, EvenSent
    <3>3. QED
      BY <1>1, <2>3, <3>2, SentEnds
  <2>7. CASE Idle(d) /\ d.q # <<>> /\ f = Start(d)
    <3>1. Driver(f) /\ Busy(f) /\ f.sk = d.sk
      <4>1. PICK ch : ch = chip
        OBVIOUS
      <4>2. QED
        BY <2>2, <2>7, Started
    <3>2. ~Well(f)
      <4>1. d.err # 0
        BY <2>2, <2>7 DEF Busy
      <4>2. QED
        BY <2>2, <2>7, <4>1, StartIs DEF Well
    <3>3. e.sk = f.sk /\ ~Well(e)
      BY <2>4, <3>1, <3>2, PushBacksEven
    <3> HIDE DEF e
    <3>4. Sent(e, chip)
      BY <2>2, <3>1, <3>3 DEF Sent
    <3>5. QED
      BY <1>1, <2>3, <3>4, SentEnds
  <2>8. QED
    BY <2>5, <2>6, <2>7
<1>6. QED
  BY <1>2, <1>3, <1>4, <1>5 DEF Interrupts

\* The buffers and segment queues of a socket change.
LEMMA BuffersSent ==
    ASSUME NEW d, NEW ch, Sent(d, ch), NEW s \in Sock, NEW e,
           e.q = d.q, e.run = d.run, e.bus = d.bus, e.err = d.err, e.fails = d.fails,
           DOMAIN e.sk[s] = DOMAIN d.sk[s], e.sk[s].IR = d.sk[s].IR,
           e.sk[s].is_sending = d.sk[s].is_sending,
           \A t \in Sock : t # s => e.sk[t] = d.sk[t]
    PROVE  Sent(e, ch)
<1>1. \A t \in Sock : /\ e.sk[t].IR = d.sk[t].IR
                      /\ e.sk[t].is_sending = d.sk[t].is_sending
                      /\ DOMAIN e.sk[t] = DOMAIN d.sk[t]
  OBVIOUS
<1>2. SendShadows(e.sk)
  BY <1>1 DEF Sent, SendShadows
<1>3. QED
  BY <1>1, <1>2, SameSent

\* Sending and receiving what is pending keep the invariant.
LEMMA PendingSent ==
    ASSUME NEW sole, NEW d, NEW ch, Holds(d, ch, sole), Sent(d, ch), NEW s \in Sock
    PROVE  Sent(SendPending(d, s), ch) /\ Sent(ReceivePending(d, s), ch)
<1>1. Driver(d) /\ Busy(d) /\ SendShadows(d.sk)
  BY DEF Holds, Sent
<1>2. \A e : e = SendPending(d, s) => Even(d, e)
  BY <1>1, SendPendingEven
<1>3. \A e : e = ReceivePending(d, s) => Even(d, e)
  BY <1>1, ReceivePendingEven
<1>4. QED
  BY <1>1, <1>2, <1>3, EvenSent

\* send and sendto.
LEMMA SendSent ==
    ASSUME NEW sole, Inv(sole), SentInv, NEW s \in Sock, NEW len, NEW dst, Send(s, len, dst)
    PROVE  SentInv'
<1>1. chip' = chip
  BY DEF Send
<1>a. PICK hal \in HalOutcomes : \E new, buf :
          \/ Become(SendPending(Now(hal), s))
          \/ Become(SendPending([Now(hal) EXCEPT !.sk[s].tx_buf_queue = new,
                                                 !.sk[s].tx_buf = buf], s))
  BY DEF Send
<1>2. PICK new, buf :
          \/ Become(SendPending(Now(hal), s))
          \/ Become(SendPending([Now(hal) EXCEPT !.sk[s].tx_buf_queue = new,
                                                 !.sk[s].tx_buf = buf], s))
  BY <1>a
<1> DEFINE d == Now(hal)
           e == [d EXCEPT !.sk[s].tx_buf_queue = new, !.sk[s].tx_buf = buf]
<1>3. Holds(d, chip, sole) /\ DOMAIN d = DriverFields /\ Sent(d, chip)
  BY HandlerStarts, SentStarts
<1>4. Become(SendPending(d, s)) \/ Become(SendPending(e, s))
  BY <1>2
<1> HIDE DEF d
<1>5. DOMAIN d.sk = Sock /\ {"IR", "is_sending"} \subseteq DOMAIN d.sk[s]
  BY <1>3 DEF Holds, Driver, Shadows, Sent, SendShadows
<1>6. /\ DOMAIN e = DriverFields /\ e.q = d.q /\ e.run = d.run /\ e.bus = d.bus
      /\ e.err = d.err /\ e.hal = d.hal /\ e.fails = d.fails
      /\ DOMAIN e.sk = DOMAIN d.sk /\ DOMAIN e.sk[s] = DOMAIN d.sk[s]
      /\ e.sk[s].CR = d.sk[s].CR /\ e.sk[s].is_receiving = d.sk[s].is_receiving
      /\ e.sk[s].IR = d.sk[s].IR /\ e.sk[s].is_sending = d.sk[s].is_sending
      /\ \A t \in Sock : t # s => e.sk[t] = d.sk[t]
  BY <1>3, <1>5 DEF DriverFields
<1> HIDE DEF e
<1>7. Holds(e, chip, sole) /\ Sent(e, chip)
  BY <1>3, <1>6, BuffersHold, BuffersSent
<1>8. Sent(SendPending(d, s), chip') /\ Sent(SendPending(e, s), chip')
  BY <1>1, <1>3, <1>7, PendingSent
<1>9. QED
  BY <1>4, <1>8, SentEnds

\* recv and recvfrom.
LEMMA RecvSent ==
    ASSUME NEW sole, Inv(sole), SentInv, NEW s \in Sock, Recv(s) \/ RecvFrom(s)
    PROVE  SentInv'
<1>1. chip' = chip
  BY DEF Recv, RecvFrom
<1>a. PICK hal \in HalOutcomes : \E new :
          \/ Become(ReceivePending(Now(hal), s))
          \/ Become(ReceivePending([Now(hal) EXCEPT !.sk[s].rx_buf_queue = new], s))
  BY DEF Recv, RecvFrom
<1>2. PICK new :
          \/ Become(ReceivePending(Now(hal), s))
          \/ Become(ReceivePending([Now(hal) EXCEPT !.sk[s].rx_buf_queue = new], s))
  BY <1>a
<1> DEFINE d == Now(hal)
           e == [d EXCEPT !.sk[s].rx_buf_queue = new]
<1>3. Holds(d, chip, sole) /\ DOMAIN d = DriverFields /\ Sent(d, chip)
  BY HandlerStarts, SentStarts
<1>4. Become(ReceivePending(d, s)) \/ Become(ReceivePending(e, s))
  BY <1>2
<1> HIDE DEF d
<1>5. DOMAIN d.sk = Sock /\ {"IR", "is_sending"} \subseteq DOMAIN d.sk[s]
  BY <1>3 DEF Holds, Driver, Shadows, Sent, SendShadows
<1>6. /\ DOMAIN e = DriverFields /\ e.q = d.q /\ e.run = d.run /\ e.bus = d.bus
      /\ e.err = d.err /\ e.hal = d.hal /\ e.fails = d.fails
      /\ DOMAIN e.sk = DOMAIN d.sk /\ DOMAIN e.sk[s] = DOMAIN d.sk[s]
      /\ e.sk[s].CR = d.sk[s].CR /\ e.sk[s].is_receiving = d.sk[s].is_receiving
      /\ e.sk[s].IR = d.sk[s].IR /\ e.sk[s].is_sending = d.sk[s].is_sending
      /\ \A t \in Sock : t # s => e.sk[t] = d.sk[t]
  BY <1>3, <1>5 DEF DriverFields
<1> HIDE DEF e
<1>7. Holds(e, chip, sole) /\ Sent(e, chip)
  BY <1>3, <1>6, BuffersHold, BuffersSent
<1>8. Sent(ReceivePending(d, s), chip') /\ Sent(ReceivePending(e, s), chip')
  BY <1>1, <1>3, <1>7, PendingSent
<1>9. QED
  BY <1>4, <1>8, SentEnds

-------------------------------------------------------------------------------
(***************************************************************************)
(* The invariant holds all along, and says what is_sending stands for.     *)
(***************************************************************************)
\* In the beginning nothing is sent.
LEMMA SentAtStart == Init => SentInv
<1> SUFFICES ASSUME Init PROVE SentInv
  OBVIOUS
<1> DEFINE d == Now(TRUE)
           first(s) == Opened(IF s \in Tcp THEN "ESTABLISHED" ELSE "UDP")
           rest == [tx_buf |-> [a \in 0 .. TxBufLen - 1 |-> Junk], tx_buf_queue |-> <<>>,
                    rx_buf |-> [a \in 0 .. RxBufLen - 1 |-> Junk], rx_buf_queue |-> <<>>,
                    is_sending |-> FALSE, is_receiving |-> FALSE]
<1>1. d.q = <<>> /\ d.bus = "none" /\ d.sk = sockets
  BY DEF Now, Init
<1>2. /\ chip = [s \in Sock |-> first(s)]
      /\ sockets = [s \in Sock |-> Overlay(Shadow(first(s)), rest)]
  BY DEF Init
<1>3. /\ rest.is_sending = FALSE
      /\ DOMAIN rest = {"tx_buf", "tx_buf_queue", "rx_buf", "rx_buf_queue",
                        "is_sending", "is_receiving"}
  OBVIOUS
<1> HIDE DEF d, rest
<1>4. \A s : /\ {"CR", "IR", "SR", "sending"} \subseteq DOMAIN first(s)
             /\ first(s).CR = "NONE" /\ first(s).IR = {} /\ first(s).sending = FALSE
             /\ first(s).SR \in Open
  BY DEF Opened, Open
<1>5. \A c : DOMAIN Shadow(c) = {"CR", "IR", "SR", "TX_FSR", "TX_WR", "RX_RSR", "RX_RD", "spi"}
  BY DEF Shadow
<1> HIDE DEF first
<1>6. \A s \in Sock : /\ {"IR", "is_sending"} \subseteq DOMAIN sockets[s]
                      /\ sockets[s].is_sending = FALSE
  BY <1>2, <1>3, <1>5 DEF Overlay
<1>7. SendShadows(sockets) /\ \A s \in Sock : ForUse(chip[s])
  BY <1>2, <1>4, <1>6 DEF SendShadows, ForUse
<1>8. Line(d) = <<>> /\ Sends(<<>>, 0) = 0 /\ \A s \in Sock : Covered(d, s) = {}
  <2>1. Line(d) = <<>>
    BY <1>1, NoCommands, JoinedWithNothing DEF Line
  <2>2. QED
    BY <1>1, <2>1, NoCommands, SendsOfFew DEF Covered
<1>9. NoClear(<<>>) /\ \A s : Sends(<<>>, s) = 0
  BY NoCommands, SendsOfFew DEF NoClear
<1>10. \A s \in Sock : SentFor(d, chip[s], s)
  <2>1. TAKE s \in Sock
  <2>2. Gap(d, s) = 0
    BY <1>1, <1>6, <1>8, <1>9 DEF Gap, Bit
  <2>3. chip[s].CR = "NONE" /\ chip[s].IR = {} /\ chip[s].sending = FALSE
    BY <1>2, <1>4
  <2>4. QED
    BY <1>1, <1>8, <2>2, <2>3 DEF SentFor, Bit, Outcomes
<1>11. QED
  BY <1>1, <1>7, <1>9, <1>10 DEF SentInv, Sent, d

\* Every step keeps the invariant.
LEMMA SentStep ==
    ASSUME NEW sole PROVE SureWrites /\ Inv(sole) /\ SentInv /\ [Next]_vars => SentInv'
<1> SUFFICES ASSUME SureWrites, Inv(sole), SentInv, [Next]_vars PROVE SentInv'
  OBVIOUS
<1>1. CASE Application
  <2>1. PICK s \in Sock : \/ \E len, dst : Send(s, len, dst)
                          \/ Recv(s) \/ RecvFrom(s)
    BY <1>1 DEF Application
  <2>2. QED
    BY <2>1, SendSent, RecvSent
<1>2. CASE Transfer
  BY <1>2, WritesSent, FetchesSent, ReadsSent DEF Transfer
<1>3. CASE Interrupts
  BY <1>3, InterruptsSent
<1>4. CASE Network
  <2> DEFINE d == Now(TRUE)
  <2>1. UNCHANGED driver
    BY <1>4 DEF Network, Accept, SendDone, SendTimeout, PeerAck, PeerFin, Arrive, ChipOnly
  <2>2. Become(d)
    BY <2>1 DEF Become, Now, driver
  <2>3. Driver(d) /\ Busy(d) /\ Chip(chip) /\ Sent(d, chip)
    BY DEF Inv, SentInv, Holds
  <2> HIDE DEF d
  <2>4. Sent(d, chip')
    BY <1>4, <2>3, NetworkSent
  <2>5. QED
    BY <2>2, <2>4, SentEnds
<1>5. CASE UNCHANGED vars
  <2> DEFINE d == Now(TRUE)
  <2>1. Become(d) /\ chip' = chip /\ Sent(d, chip)
    BY <1>5 DEF Become, Now, driver, vars, SentInv
  <2> HIDE DEF d
  <2>2. QED
    BY <2>1, SentEnds
<1>6. QED
  BY <1>1, <1>2, <1>3, <1>4, <1>5 DEF Next

\* How many of three stages there are.
LEMMA StagesCounted ==
    ASSUME NEW a \in BOOLEAN, NEW b \in BOOLEAN, NEW c \in BOOLEAN,
           NEW stages, stages = <<a, b, c>>
    PROVE  Cardinality({i \in DOMAIN stages : stages[i]}) = Bit(a) + Bit(b) + Bit(c)
<1> DEFINE A == IF a THEN {1} ELSE {}
           B == IF b THEN A \cup {2} ELSE A
           C == IF c THEN B \cup {3} ELSE B
           S == {i \in DOMAIN stages : stages[i]}
<1>1. S = C
  OBVIOUS
<1>2. IsFiniteSet(A) /\ Cardinality(A) = Bit(a)
  BY FS_EmptySet, FS_Singleton DEF Bit
<1>3. IsFiniteSet(B) /\ Cardinality(B) = Bit(a) + Bit(b)
  <2>1. 2 \notin A /\ Bit(a) \in Nat
    BY DEF Bit
  <2> HIDE DEF A
  <2>2. QED
    BY <1>2, <2>1, FS_AddElement DEF Bit
<1>4. Cardinality(C) = Bit(a) + Bit(b) + Bit(c)
  <2>1. 3 \notin B /\ Bit(a) + Bit(b) \in Nat
    BY DEF Bit
  <2> HIDE DEF A, B
  <2>2. QED
    BY <1>3, <2>1, FS_AddElement DEF Bit
<1>5. QED
  BY <1>1, <1>4

\* A flag is cleared by a command on its way only if a write on the bus clears it.
LEMMA UnseenIs ==
    ASSUME NEW sole, Inv(sole), NoClear(command_queue), NEW s \in Sock
    PROVE  Unseen(s) <=> ~(chip[s].IR \cap Outcomes \subseteq Covered(Now(TRUE), s))
<1> DEFINE d == Now(TRUE)
<1>1. /\ Driver(d) /\ Busy(d) /\ d.q = command_queue /\ d.bus = bus /\ d.run = running_cmd
      /\ Line(d) = Pending
  BY DEF Inv, Holds, Now, Line, Pending
<1> HIDE DEF d
<1>2. /\ Queue(d.q) /\ Queue(Pending)
      /\ bus # "shift" => Pending = d.q
      /\ bus = "shift" => Pending = <<d.run>> \o d.q /\ Queue(<<d.run>>)
  BY <1>1, LineIs
<1>3. DOMAIN Pending = 1 .. Len(Pending)
  BY <1>2, QueueIsSequence
<1>4. ASSUME NEW flag \in Outcomes
      PROVE  (\E i \in DOMAIN Pending : Clears(Pending[i], s) /\ flag \in Pending[i].val.IR)
                <=> flag \in Covered(d, s)
  <2>1. CASE bus # "shift"
    BY <1>1, <1>2, <1>3, <2>1 DEF Covered, NoClear
  <2>2. CASE bus = "shift"
    <3> DEFINE r == d.run
    <3>1. WellFormed(r)
      BY <1>1, <2>2, LineIs
    <3>2. Len(<<r>>) = 1 /\ <<r>>[1] = r
      BY <3>1, OneCommand
    <3>3. /\ Len(Pending) = 1 + Len(d.q)
          /\ Pending[1] = r
          /\ \A i \in 1 .. Len(Pending) : i = 1 \/ i - 1 \in 1 .. Len(d.q)
          /\ \A i \in 1 .. Len(d.q) : Pending[i + 1] = d.q[i]
      <4> HIDE DEF r
      <4>1. /\ Len(<<r>> \o d.q) = 1 + Len(d.q)
            /\ \A i \in 1 .. 1 : (<<r>> \o d.q)[i] = <<r>>[i]
            /\ \A i \in 1 .. Len(d.q) : (<<r>> \o d.q)[i + 1] = d.q[i]
            /\ \A i \in 1 .. Len(<<r>> \o d.q) : i \in 1 .. 1 \/ i - 1 \in 1 .. Len(d.q)
        BY <1>2, <2>2, <3>2, Joined DEF r
      <4>2. Pending = <<r>> \o d.q
        BY <1>2, <2>2 DEF r
      <4>3. QED
        BY <3>2, <4>1, <4>2
    <3>4. Len(d.q) \in Nat
      BY <1>2, QueueIsSequence
    <3>5. \A i \in 1 .. Len(Pending) : i # 1 => ~Clears(Pending[i], s)
      <4>1. TAKE i \in 1 .. Len(Pending)
      <4>2. i # 1 => i - 1 \in 1 .. Len(d.q) /\ (i - 1) + 1 = i
        BY <3>3, <3>4
      <4>3. \A j \in 1 .. Len(d.q) : ~Clears(d.q[j], s)
        BY <1>1 DEF NoClear
      <4>4. QED
        BY <3>3, <4>2, <4>3
    <3>6. 1 \in DOMAIN Pending
      BY <1>3, <3>3, <3>4
    <3>7. flag \in Covered(d, s) <=> Clears(r, s) /\ flag \in r.val.IR
      BY <1>1, <2>2 DEF Covered
    <3> HIDE DEF r
    <3>8. QED
      BY <1>3, <3>3, <3>5, <3>6, <3>7
  <2>3. QED
    BY <2>1, <2>2
<1>5. Unseen(s) <=> \E flag \in chip[s].IR \cap Outcomes :
                       ~(\E i \in DOMAIN Pending : Clears(Pending[i], s) /\ flag \in Pending[i].val.IR)
  BY DEF Unseen, Outcomes, Clears
<1>6. QED
  BY <1>4, <1>5 DEF d

\* The invariant counts what is_sending stands for.
LEMMA SentInvSendsOnce ==
    ASSUME NEW sole, Inv(sole), SentInv, failures = 0, ~enqueueFails
    PROVE  SendingOnce
<1> SUFFICES ASSUME NEW s \in Sock, chip[s].SR # "CLOSED"
             PROVE  LET onTheWay == {i \in DOMAIN Pending : IsSend(Pending[i], s)}
                        stages   == <<chip[s].CR = "SEND", chip[s].sending, Unseen(s)>>
                    IN  Cardinality(onTheWay) + Cardinality({i \in DOMAIN stages : stages[i]})
                            = IF sockets[s].is_sending THEN 1 ELSE 0
  BY DEF SendingOnce
<1> DEFINE d == Now(TRUE)
           a == chip[s].CR = "SEND"
           b == chip[s].sending
           c == Unseen(s)
           stages == <<a, b, c>>
           m == Sends(Line(d), s)
           x == Bit(sockets[s].is_sending)
<1>1. /\ Driver(d) /\ Busy(d) /\ Sent(d, chip) /\ d.q = command_queue /\ d.sk = sockets
      /\ Line(d) = Pending /\ Well(d)
  BY DEF Inv, Holds, SentInv, Now, Line, Pending, Well
<1>2. NoClear(command_queue) /\ SentFor(d, chip[s], s) /\ b \in BOOLEAN
  BY <1>1 DEF Sent, ForUse
<1>3. c <=> ~(chip[s].IR \cap Outcomes \subseteq Covered(d, s))
  BY <1>2, UnseenIs
<1>4. c \in BOOLEAN
  BY DEF Unseen
<1>5. Cardinality({i \in DOMAIN stages : stages[i]}) = Bit(a) + Bit(b) + Bit(c)
  <2>1. a \in BOOLEAN
    OBVIOUS
  <2> HIDE DEF a, b, c
  <2>2. QED
    BY <1>2, <1>4, <2>1, StagesCounted
<1>6. Gap(d, s) = Bit(a) + Bit(b) + Bit(c)
  BY <1>2, <1>3 DEF SentFor, Bit
<1>7. Gap(d, s) = x - m
  BY <1>1 DEF Gap
<1>8. Cardinality({i \in DOMAIN Pending : IsSend(Pending[i], s)}) = m
  BY <1>1 DEF Sends
<1>9. m \in Nat /\ x \in Nat /\ Bit(a) + Bit(b) + Bit(c) \in Nat
  <2>1. Queue(Line(d))
    BY <1>1, LineIs
  <2>2. m \in Nat
    BY <2>1, SendsAddUp
  <2>3. \A p : Bit(p) \in Nat
    BY DEF Bit
  <2> HIDE DEF m, a, b, c
  <2>4. QED
    BY <2>2, <2>3
<1>10. m + (Bit(a) + Bit(b) + Bit(c)) = x
  <2> DEFINE y == Bit(a) + Bit(b) + Bit(c)
  <2>1. x - m = y /\ y \in Nat
    BY <1>6, <1>7, <1>9
  <2> HIDE DEF x, m, y
  <2>2. m + y = x
    BY <1>9, <2>1
  <2>3. QED
    BY <2>2 DEF y
<1>11. x = IF sockets[s].is_sending THEN 1 ELSE 0
  BY DEF Bit
<1> HIDE DEF x, m, d
<1>12. QED
  BY <1>5, <1>8, <1>10, <1>11

\* sendPendingData and the handling of SENDOK and TIMEOUT: as long as no transfer
\* has failed and the full queue has dropped no command, is_sending stands for
\* exactly one SEND on its way, in the chip, or answered but not looked at.
THEOREM SendsOnce ==
    ASSUME "WRITE_REG" \notin LateErrors
    PROVE  Spec => [](failures = 0 /\ ~enqueueFails => SendingOnce)
<1>1. Inv(Sock) /\ SentInv /\ [Next]_vars => SentInv'
  BY SentStep DEF SureWrites
<1>2. Inv(Sock) /\ SentInv => (failures = 0 /\ ~enqueueFails => SendingOnce)
  BY SentInvSendsOnce
<1>3. QED
  BY <1>1, <1>2, SentAtStart, DriverInvariant, PTL DEF Spec

-------------------------------------------------------------------------------
(***************************************************************************)
(* The transfers to the transmit memory.                                   *)
(***************************************************************************)
Fills(c, s)  == c.cmd_type = "WRITE_BUF" /\ c.sn = s
NoFill(q, s) == \A i \in 1 .. Len(q) : ~Fills(q[i], s)

\* The place of the oldest segment of the socket sk, which is being sent, and a
\* transfer from there.
Oldest(ptr, len, sk) ==
    /\ sk.is_sending /\ sk.tx_buf_queue # <<>>
    /\ ptr = Head(sk.tx_buf_queue).start_index
    /\ len = Head(sk.tx_buf_queue).end_index - ptr
OfOldest(c, sk) == Oldest(c.ptr, c.len, sk)

\* All that fills transmit memory of socket s is of its oldest segment, and has
\* its SEND behind it.
Fits(q, s, sk) ==
    \A i \in 1 .. Len(q) : Fills(q[i], s) =>
        OfOldest(q[i], sk) /\ \E j \in i + 1 .. Len(q) : IsSend(q[j], s)

\* Where the commands of p and of q, one behind the other, are in r.
Joint(p, q, r) ==
    /\ Len(p) \in Nat /\ Len(q) \in Nat /\ Len(r) = Len(p) + Len(q)
    /\ \A i \in 1 .. Len(p) : i \in 1 .. Len(r) /\ r[i] = p[i]
    /\ \A i \in 1 .. Len(q) : i + Len(p) \in 1 .. Len(r) /\ r[i + Len(p)] = q[i]
    /\ \A i \in 1 .. Len(r) : \/ i \in 1 .. Len(p) /\ r[i] = p[i]
                              \/ \E k \in 1 .. Len(q) : i = k + Len(p) /\ r[i] = q[k]

\* The commands of two queues, one behind the other.
LEMMA JoinedAt ==
    ASSUME NEW p, Queue(p), NEW q, Queue(q)
    PROVE  Joint(p, q, p \o q)
<1> DEFINE r == p \o q
           m == Len(p)
           n == Len(q)
<1>1. m \in Nat /\ n \in Nat
  BY QueueIsSequence
<1>2. /\ Len(r) = m + n
      /\ \A i \in 1 .. m : r[i] = p[i]
      /\ \A i \in 1 .. n : r[i + m] = q[i]
      /\ \A i \in 1 .. Len(r) : i \in 1 .. m \/ i - m \in 1 .. n
  BY Joined
<1> HIDE DEF r, m, n
<1>3. \A i \in 1 .. n : i + m \in 1 .. Len(r) /\ r[i + m] = q[i]
  BY <1>1, <1>2
<1>4. \A i \in 1 .. m : i \in 1 .. Len(r) /\ r[i] = p[i]
  BY <1>1, <1>2
<1>5. ASSUME NEW i \in 1 .. Len(r)
      PROVE  \/ i \in 1 .. m /\ r[i] = p[i]
             \/ \E k \in 1 .. n : i = k + m /\ r[i] = q[k]
  <2>1. CASE i \in 1 .. m
    BY <1>2, <2>1
  <2>2. CASE i - m \in 1 .. n
    <3>1. i = (i - m) + m
      BY <1>1
    <3>2. r[i] = q[i - m]
      BY <1>2, <2>2, <3>1
    <3>3. QED
      BY <2>2, <3>1, <3>2
  <2>3. QED
    BY <1>2, <2>1, <2>2
<1>6. QED
  BY <1>1, <1>2, <1>3, <1>4, <1>5 DEF Joint, r, m, n

\* Transfers fit in a queue of which they are a part.
LEMMA FitsJoined ==
    ASSUME NEW p, Queue(p), NEW q, Queue(q), NEW s, NEW sk
    PROVE  /\ Fits(p, s, sk) /\ Fits(q, s, sk) => Fits(p \o q, s, sk)
           /\ Fits(p \o q, s, sk) => Fits(q, s, sk)
<1> DEFINE r == p \o q
           m == Len(p)
           n == Len(q)
<1>1. /\ m \in Nat /\ n \in Nat /\ Len(r) = m + n
      /\ \A i \in 1 .. m : i \in 1 .. Len(r) /\ r[i] = p[i]
      /\ \A i \in 1 .. n : i + m \in 1 .. Len(r) /\ r[i + m] = q[i]
      /\ \A i \in 1 .. Len(r) : \/ i \in 1 .. m /\ r[i] = p[i]
                                \/ \E k \in 1 .. n : i = k + m /\ r[i] = q[k]
  <2>1. Joint(p, q, r)
    BY JoinedAt
  <2> HIDE DEF r
  <2>2. QED
    BY <2>1 DEF Joint
<1> HIDE DEF r
<1>2. ASSUME Fits(p, s, sk), Fits(q, s, sk), NEW i \in 1 .. Len(r), Fills(r[i], s)
      PROVE  OfOldest(r[i], sk) /\ \E j \in i + 1 .. Len(r) : IsSend(r[j], s)
  <2>1. CASE i \in 1 .. m /\ r[i] = p[i]
    <3>1. OfOldest(p[i], sk)
      BY <1>2, <2>1 DEF Fits
    <3>2. PICK j \in i + 1 .. m : IsSend(p[j], s)
      BY <1>2, <2>1 DEF Fits
    <3>3. j \in i + 1 .. Len(r) /\ j \in 1 .. m
      BY <1>1, <2>1, <3>2
    <3>4. r[j] = p[j]
      BY <1>1, <3>3
    <3>5. QED
      BY <2>1, <3>1, <3>2, <3>3, <3>4
  <2>2. ASSUME NEW k \in 1 .. n, i = k + m, r[i] = q[k]
        PROVE  OfOldest(r[i], sk) /\ \E j \in i + 1 .. Len(r) : IsSend(r[j], s)
    <3>1. OfOldest(q[k], sk)
      BY <1>2, <2>2 DEF Fits
    <3>2. PICK j \in k + 1 .. n : IsSend(q[j], s)
      BY <1>2, <2>2 DEF Fits
    <3>3. j + m \in i + 1 .. Len(r) /\ j \in 1 .. n
      BY <1>1, <2>2, <3>2
    <3>4. r[j + m] = q[j]
      BY <1>1, <3>3
    <3>5. QED
      BY <2>2, <3>1, <3>2, <3>3, <3>4
  <2>3. QED
    BY <1>1, <2>1, <2>2
<1>3. ASSUME Fits(r, s, sk), NEW k \in 1 .. n, Fills(q[k], s)
      PROVE  OfOldest(q[k], sk) /\ \E j \in k + 1 .. n : IsSend(q[j], s)
  <2>1. k + m \in 1 .. Len(r) /\ r[k + m] = q[k]
    BY <1>1
  <2>2. OfOldest(q[k], sk)
    BY <1>3, <2>1 DEF Fits
  <2>3. PICK j \in (k + m) + 1 .. Len(r) : IsSend(r[j], s)
    BY <1>3, <2>1 DEF Fits
  <2>4. j \in 1 .. Len(r) /\ ~(j \in 1 .. m)
    BY <1>1, <2>3
  <2>5. PICK i \in 1 .. n : j = i + m /\ r[j] = q[i]
    BY <1>1, <2>4
  <2>6. i \in k + 1 .. n
    BY <1>1, <2>3, <2>5
  <2>7. QED
    BY <2>2, <2>3, <2>5, <2>6
<1>4. QED
  BY <1>2, <1>3 DEF Fits, r

\* Commands that fill nothing may come between others.
LEMMA FitsBetween ==
    ASSUME NEW p, Queue(p), NEW q, Queue(q), NEW x, Queue(x), NEW s, NEW sk,
           NoFill(x, s), Fits(p \o q, s, sk)
    PROVE  Fits(p \o (x \o q), s, sk)
<1> DEFINE r == p \o q
           m == Len(p)
           n == Len(q)
<1>1. /\ m \in Nat /\ n \in Nat /\ Len(r) = m + n
      /\ \A i \in 1 .. m : i \in 1 .. Len(r) /\ r[i] = p[i]
      /\ \A i \in 1 .. n : i + m \in 1 .. Len(r) /\ r[i + m] = q[i]
      /\ \A i \in 1 .. Len(r) : \/ i \in 1 .. m /\ r[i] = p[i]
                                \/ \E k \in 1 .. n : i = k + m /\ r[i] = q[k]
  <2>1. Joint(p, q, r)
    BY JoinedAt
  <2> HIDE DEF r
  <2>2. QED
    BY <2>1 DEF Joint
<1> DEFINE y == x \o q
           l == Len(x)
<1>2. /\ l \in Nat /\ Len(y) = l + n
      /\ \A i \in 1 .. l : i \in 1 .. Len(y) /\ y[i] = x[i]
      /\ \A i \in 1 .. n : i + l \in 1 .. Len(y) /\ y[i + l] = q[i]
      /\ \A i \in 1 .. Len(y) : \/ i \in 1 .. l /\ y[i] = x[i]
                                \/ \E k \in 1 .. n : i = k + l /\ y[i] = q[k]
  <2>1. Joint(x, q, y)
    BY JoinedAt
  <2> HIDE DEF y
  <2>2. QED
    BY <2>1 DEF Joint
<1>3. Queue(y)
  BY Joined
<1> HIDE DEF r, y
<1> DEFINE z == p \o y
<1>4. /\ Len(z) = m + Len(y)
      /\ \A i \in 1 .. m : i \in 1 .. Len(z) /\ z[i] = p[i]
      /\ \A i \in 1 .. Len(y) : i + m \in 1 .. Len(z) /\ z[i + m] = y[i]
      /\ \A i \in 1 .. Len(z) : \/ i \in 1 .. m /\ z[i] = p[i]
                                \/ \E k \in 1 .. Len(y) : i = k + m /\ z[i] = y[k]
  <2>1. Joint(p, y, z)
    BY <1>3, JoinedAt
  <2> HIDE DEF z
  <2>2. QED
    BY <2>1 DEF Joint
<1> HIDE DEF z, m, n, l
<1>5. Fits(r, s, sk)
  BY DEF r
\* Where a command of r is in z.
<1>6. ASSUME NEW j \in 1 .. Len(r)
      PROVE  \E h \in 1 .. Len(z) : z[h] = r[j] /\ h >= j /\ (j > m => h = j + l)
  <2>1. CASE j \in 1 .. m /\ r[j] = p[j]
    BY <1>1, <1>4, <2>1
  <2>2. ASSUME NEW k \in 1 .. n, j = k + m, r[j] = q[k]
        PROVE  \E h \in 1 .. Len(z) : z[h] = r[j] /\ h >= j /\ (j > m => h = j + l)
    <3>1. k + l \in 1 .. Len(y) /\ y[k + l] = q[k]
      BY <1>2
    <3>2. (k + l) + m \in 1 .. Len(z) /\ z[(k + l) + m] = q[k]
      BY <1>4, <3>1
    <3>3. (k + l) + m = j + l /\ j + l >= j
      BY <1>1, <1>2, <2>2
    <3>4. QED
      BY <2>2, <3>2, <3>3
  <2>3. QED
    BY <1>1, <2>1, <2>2
<1>7. ASSUME NEW i \in 1 .. Len(z), Fills(z[i], s)
      PROVE  OfOldest(z[i], sk) /\ \E j \in i + 1 .. Len(z) : IsSend(z[j], s)
  <2>1. CASE i \in 1 .. m /\ z[i] = p[i]
    <3>1. i \in 1 .. Len(r) /\ r[i] = p[i]
      BY <1>1, <2>1
    <3>2. OfOldest(r[i], sk) /\ \E j \in i + 1 .. Len(r) : IsSend(r[j], s)
      BY <1>5, <1>7, <2>1, <3>1 DEF Fits
    <3>3. PICK j \in i + 1 .. Len(r) : IsSend(r[j], s)
      BY <3>2
    <3>4. j \in 1 .. Len(r)
      BY <2>1, <3>3
    <3>5. PICK h \in 1 .. Len(z) : z[h] = r[j] /\ h >= j
      BY <1>6, <3>4
    <3>6. h \in i + 1 .. Len(z)
      BY <1>1, <1>2, <1>4, <2>1, <3>3, <3>5
    <3>7. QED
      BY <2>1, <3>1, <3>2, <3>3, <3>5, <3>6
  <2>2. ASSUME NEW k \in 1 .. Len(y), i = k + m, z[i] = y[k]
        PROVE  OfOldest(z[i], sk) /\ \E j \in i + 1 .. Len(z) : IsSend(z[j], s)
    <3>1. ~(k \in 1 .. l /\ y[k] = x[k])
      BY <1>7, <2>2 DEF NoFill, l
    <3>2. PICK g \in 1 .. n : k = g + l /\ y[k] = q[g]
      BY <1>2, <2>2, <3>1
    <3>3. g + m \in 1 .. Len(r) /\ r[g + m] = q[g]
      BY <1>1, <3>2
    <3>4. OfOldest(q[g], sk) /\ \E j \in (g + m) + 1 .. Len(r) : IsSend(r[j], s)
      BY <1>5, <1>7, <2>2, <3>2, <3>3 DEF Fits
    <3>5. PICK j \in (g + m) + 1 .. Len(r) : IsSend(r[j], s)
      BY <3>4
    <3>6. j \in 1 .. Len(r) /\ j > m
      BY <1>1, <3>2, <3>5
    <3>7. PICK h \in 1 .. Len(z) : z[h] = r[j] /\ h = j + l
      BY <1>6, <3>6
    <3>8. h \in i + 1 .. Len(z)
      BY <1>1, <1>2, <2>2, <3>2, <3>5, <3>7
    <3>9. QED
      BY <2>2, <3>2, <3>4, <3>5, <3>7, <3>8
  <2>3. QED
    BY <1>4, <1>7, <2>1, <2>2
<1>8. QED
  BY <1>7 DEF Fits, z, y

\* What a queue without transfers fits, and what fits without a SEND, or with nothing
\* being sent.
LEMMA FillsNothing ==
    ASSUME NEW q, Queue(q), NEW s, NEW sk
    PROVE  /\ NoFill(q, s) => Fits(q, s, sk)
           /\ Fits(q, s, sk) /\ Sends(q, s) = 0 => NoFill(q, s)
           /\ Fits(q, s, sk) /\ ~sk.is_sending => NoFill(q, s)
           /\ \A c : Fits(q, s, sk) /\ c.is_sending = sk.is_sending
                        /\ c.tx_buf_queue = sk.tx_buf_queue => Fits(q, s, c)
<1>1. NoFill(q, s) => Fits(q, s, sk)
  BY DEF NoFill, Fits
<1>2. Fits(q, s, sk) /\ ~sk.is_sending => NoFill(q, s)
  BY DEF NoFill, Fits, OfOldest, Oldest
<1>3. ASSUME Fits(q, s, sk), Sends(q, s) = 0  PROVE  NoFill(q, s)
  <2> DEFINE A == {i \in DOMAIN q : IsSend(q[i], s)}
  <2>1. DOMAIN q = 1 .. Len(q) /\ Len(q) \in Nat
    BY QueueIsSequence
  <2>2. IsFiniteSet(A)
    <3>1. IsFiniteSet(1 .. Len(q))
      BY <2>1, FS_Interval
    <3>2. QED
      BY <2>1, <3>1, FS_Subset
  <2>3. Cardinality(A) = 0
    BY <1>3 DEF Sends
  <2>4. A = {}
    BY <2>2, <2>3, FS_EmptySet
  <2>5. ASSUME NEW i \in 1 .. Len(q), Fills(q[i], s)  PROVE  FALSE
    <3>1. PICK j \in i + 1 .. Len(q) : IsSend(q[j], s)
      BY <1>3, <2>5 DEF Fits
    <3>2. j \in DOMAIN q
      BY <2>1, <2>5, <3>1
    <3>3. QED
      BY <2>4, <3>1, <3>2
  <2>6. QED
    BY <2>5 DEF NoFill
<1>4. ASSUME NEW c, Fits(q, s, sk), c.is_sending = sk.is_sending,
             c.tx_buf_queue = sk.tx_buf_queue
      PROVE  Fits(q, s, c)
  BY <1>4 DEF Fits, OfOldest, Oldest
<1>5. QED
  BY <1>1, <1>2, <1>3, <1>4

\* Queues without transfers, one behind the other, and a command that fills nothing.
LEMMA FillsJoined ==
    ASSUME NEW p, Queue(p), NEW q, Queue(q), NEW s
    PROVE  NoFill(p, s) /\ NoFill(q, s) => NoFill(p \o q, s)
<1> DEFINE r == p \o q
           m == Len(p)
           n == Len(q)
<1>1. \A i \in 1 .. Len(r) : \/ i \in 1 .. m /\ r[i] = p[i]
                             \/ \E k \in 1 .. n : i = k + m /\ r[i] = q[k]
  <2>1. Joint(p, q, r)
    BY JoinedAt
  <2> HIDE DEF r
  <2>2. QED
    BY <2>1 DEF Joint
<1> HIDE DEF r
<1>2. NoFill(p, s) /\ NoFill(q, s) => NoFill(r, s)
  BY <1>1 DEF NoFill
<1>3. QED
  BY <1>2 DEF r

\* The empty queue, and a single command that is no transfer, fill nothing.
LEMMA FillsOfOne ==
    ASSUME NEW s
    PROVE  /\ NoFill(<<>>, s)
           /\ \A c : c.cmd_type # "WRITE_BUF" => NoFill(<<c>>, s)
<1>1. NoFill(<<>>, s)
  BY DEF NoFill
<1>2. ASSUME NEW c, c.cmd_type # "WRITE_BUF"  PROVE  NoFill(<<c>>, s)
  <2>1. \A i \in 1 .. Len(<<c>>) : <<c>>[i] = c
    OBVIOUS
  <2>2. QED
    BY <1>2, <2>1 DEF NoFill, Fills
<1>3. QED
  BY <1>1, <1>2

\* The commands of a transmission fill memory with the segment they are for, and no
\* memory of another socket.
LEMMA TransmitFits ==
    ASSUME NEW s \in Sock, NEW ptr, NEW len, NEW wr, NEW to, NEW tcp \in BOOLEAN,
           NEW l, l = (IF tcp THEN <<>>
                       ELSE <<SetReg(s, [DIPR |-> to]), SetReg(s, [DPORT |-> to])>>)
                      \o <<SetBuf(s, ptr, len), SetReg(s, [TX_WR |-> wr]),
                           SetReg(s, [CR |-> "SEND"])>>
    PROVE  /\ \A sk : Oldest(ptr, len, sk) => Fits(l, s, sk)
           /\ \A t : t # s => NoFill(l, t)
<1> DEFINE a == SetReg(s, [DIPR |-> to])
           b == SetReg(s, [DPORT |-> to])
           x == SetBuf(s, ptr, len)
           y == SetReg(s, [TX_WR |-> wr])
           z == SetReg(s, [CR |-> "SEND"])
           p == IF tcp THEN <<>> ELSE <<a, b>>
           q == <<x, y, z>>
<1>1. /\ Settable(s, [DIPR |-> to]) /\ Settable(s, [DPORT |-> to])
      /\ Settable(s, [TX_WR |-> wr]) /\ Settable(s, [CR |-> "SEND"])
  BY DEF Settable, Writable
<1>2. /\ \A c \in {a, b, y, z} : WellFormed(c) /\ c.cmd_type = "WRITE_REG"
      /\ WellFormed(x) /\ x.cmd_type = "WRITE_BUF"
  BY <1>1, Commands
<1>3. z.val = [CR |-> "SEND"] /\ z.sn = s /\ x.sn = s
  BY DEF SetReg, SetBuf, Cmd
<1>4. /\ \A c \in {a, b, y, z} : \A t : ~Fills(c, t)
      /\ \A t : t # s => ~Fills(x, t)
      /\ IsSend(z, s)
  BY <1>2, <1>3 DEF Fills, IsSend, IsCommandWrite
<1>5. l = p \o q
  OBVIOUS
<1> HIDE DEF a, b, x, y, z
<1>6. /\ q \in Seq({x, y, z}) /\ Len(q) = 3 /\ q[1] = x /\ q[2] = y /\ q[3] = z
      /\ \A i \in 1 .. Len(q) : i = 1 \/ i = 2 \/ i = 3
  OBVIOUS
<1> HIDE DEF q
<1>7. /\ Queue(q) /\ \A t : t # s => NoFill(q, t)
      /\ \A sk : OfOldest(x, sk) => Fits(q, s, sk)
  <2>1. Queue(q)
    <3>1. \A i \in 1 .. Len(q) : WellFormed(q[i])
      BY <1>2, <1>6
    <3>2. QED
      BY <1>6, <3>1, QueueOver
  <2>2. ASSUME NEW sk, OfOldest(x, sk)  PROVE  Fits(q, s, sk)
    <3>1. 3 \in 2 .. Len(q)
      BY <1>6
    <3>2. ASSUME NEW i \in 1 .. Len(q), Fills(q[i], s)
          PROVE  OfOldest(q[i], sk) /\ \E j \in i + 1 .. Len(q) : IsSend(q[j], s)
      <4>1. i = 1
        BY <1>4, <1>6, <3>2
      <4>2. QED
        BY <1>4, <1>6, <2>2, <3>1, <4>1
    <3>3. QED
      BY <3>2 DEF Fits
  <2>3. \A t : t # s => NoFill(q, t)
    BY <1>4, <1>6 DEF NoFill
  <2>4. QED
    BY <2>1, <2>2, <2>3
<1>8. Queue(p) /\ \A t : NoFill(p, t)
  <2>1. CASE tcp
    <3>1. p = <<>>
      BY <2>1
    <3>2. QED
      BY <3>1, NoCommands, FillsOfOne
  <2>2. CASE ~tcp
    <3>1. p \in Seq({a, b}) /\ Len(p) = 2 /\ \A i \in 1 .. Len(p) : p[i] \in {a, b}
      BY <2>2
    <3> HIDE DEF p
    <3>2. \A i \in 1 .. Len(p) : WellFormed(p[i]) /\ \A t : ~Fills(p[i], t)
      BY <1>2, <1>4, <3>1
    <3>3. Queue(p)
      BY <3>1, <3>2, QueueOver
    <3>4. QED
      BY <3>2, <3>3 DEF NoFill
  <2>3. QED
    BY <2>1, <2>2
<1> HIDE DEF p
<1>9. \A sk : Fits(p, s, sk)
  BY <1>8, FillsNothing
<1>10. \A sk : OfOldest(x, sk) => Fits(p \o q, s, sk)
  BY <1>7, <1>8, <1>9, FitsJoined
<1>11. \A t : t # s => NoFill(p \o q, t)
  BY <1>7, <1>8, FillsJoined
<1>12. x.ptr = ptr /\ x.len = len
  BY DEF x, SetBuf, Cmd
<1>13. QED
  BY <1>5, <1>10, <1>11, <1>12 DEF OfOldest

\* The commands of a reception, and those of the timer, fill no transmit memory.
LEMMA ReceiveFits ==
    ASSUME NEW s \in Sock, NEW ptr, NEW len, NEW rd,
           NEW l, l = <<GetBuf(s, ptr, len), SetReg(s, [RX_RD |-> rd]),
                        SetReg(s, [CR |-> "RECV"]), SetReg(s, [CR |-> "RECV"]), CheckRcv(s)>>
    PROVE  \A t : NoFill(l, t)
<1> DEFINE x == GetBuf(s, ptr, len)
           y == SetReg(s, [RX_RD |-> rd])
           z == SetReg(s, [CR |-> "RECV"])
           c == CheckRcv(s)
<1>1. Settable(s, [RX_RD |-> rd]) /\ Settable(s, [CR |-> "RECV"])
  BY DEF Settable, Writable
<1>2. /\ \A k \in {y, z} : k.cmd_type = "WRITE_REG"
      /\ x.cmd_type = "READ_BUF" /\ c.cmd_type = "CHECK_RCV"
  BY <1>1, Commands
<1>3. \A k \in {x, y, z, c} : \A t : ~Fills(k, t)
  BY <1>2 DEF Fills
<1>4. l = <<x, y, z, z, c>>
  OBVIOUS
<1> HIDE DEF x, y, z, c
<1>5. \A i \in 1 .. Len(l) : l[i] \in {x, y, z, c}
  BY <1>4
<1>6. QED
  BY <1>3, <1>5 DEF NoFill

\* The timer's commands fill no transmit memory.
LEMMA TimerFits == \A s : NoFill(TimerCommands, s)
<1> DEFINE S == {s \in Sock : sockets[s].SR = "ESTABLISHED"}
           established == Ascending(S)
           p == [i \in DOMAIN established |-> CheckTxFsr(established[i])]
           q == <<ReadSir>>
           r == p \o q
           L == {CheckTxFsr(s) : s \in Sock}
<1>1. TimerCommands = r
  BY DEF TimerCommands
<1>2. /\ Cardinality(S) \in Nat /\ DOMAIN established = 1 .. Cardinality(S)
      /\ \A i \in 1 .. Cardinality(S) : established[i] \in Sock
  BY AscendingList, AscendingMembers
<1> HIDE DEF S, established
<1>3. p \in [1 .. Cardinality(S) -> L] /\ Len(p) = Cardinality(S)
  BY <1>2
<1>4. p \in Seq(L) /\ \A i \in 1 .. Len(p) : p[i] \in L
  BY <1>2, <1>3, SeqDef
<1>5. \A c \in L : WellFormed(c) /\ c.cmd_type = "CHECK_TX_FSR"
  BY Commands
<1> HIDE DEF L, p
<1>6. Queue(p) /\ \A i \in 1 .. Len(p) : p[i].cmd_type = "CHECK_TX_FSR"
  BY <1>4, <1>5, QueueOver
<1>7. \A s : NoFill(p, s)
  BY <1>6 DEF NoFill, Fills
<1>8. WellFormed(ReadSir) /\ ReadSir.cmd_type = "READ_SIR"
  BY DEF ReadSir, Cmd, WellFormed, IsCommandWrite, Types, Fields
<1>9. Queue(q) /\ \A s : NoFill(q, s)
  BY <1>8, OneCommand, FillsOfOne
<1> HIDE DEF q
<1>10. \A s : NoFill(r, s)
  BY <1>6, <1>7, <1>9, FillsJoined
<1>11. QED
  BY <1>1, <1>10

-------------------------------------------------------------------------------
(***************************************************************************)
(* Starting and queueing commands.                                         *)
(***************************************************************************)
\* The next command goes to the bus: what fitted the queue, with more behind it, fits
\* what is on its way.
LEMMA StartFits ==
    ASSUME NEW d, Driver(d), NEW e, e = Start(d), Well(e), NEW t, Queue(t), NEW s, NEW sk,
           Fits(d.q \o t, s, sk)
    PROVE  Fits(Line(e) \o t, s, sk)
<1>1. Queue(d.q) /\ Driver(e) /\ Busy(e)
  BY Started DEF Driver
<1>2. \/ d.q = <<>> /\ e.q = <<>> /\ e.bus = "none"
      \/ /\ d.q # <<>> /\ e.run = Head(d.q) /\ e.bus = "shift"
         /\ ~IsCommandWrite(e.run) /\ e.q = Tail(d.q)
      \/ /\ d.q # <<>> /\ e.run = Head(d.q) /\ e.bus = "poll"
         /\ IsCommandWrite(e.run) /\ e.q = d.q
      \/ /\ d.q # <<>> /\ e.run = Head(d.q) /\ e.bus = "shift"
         /\ IsCommandWrite(e.run)
         /\ e.q = <<GetReg(e.run.sn, {"CR"})>> \o Tail(d.q)
  BY StartIs DEF Well
<1>3. /\ e.bus # "shift" => Line(e) = e.q
      /\ e.bus = "shift" => Line(e) = <<e.run>> \o e.q
  BY <1>1, LineIs
<1>4. CASE d.q = <<>> /\ e.q = <<>> /\ e.bus = "none"
  BY <1>3, <1>4
<1>5. CASE d.q # <<>> /\ e.run = Head(d.q)
  <2> DEFINE c == Head(d.q)
             r == Tail(d.q)
             g == GetReg(c.sn, {"CR"})
  <2>1. WellFormed(c) /\ Queue(r) /\ d.q = <<c>> \o r
    BY <1>1, <1>5, HeadHolds
  <2>2. e.run = c
    BY <1>5
  <2>3. \/ e.bus = "shift" /\ e.q = r
        \/ e.bus = "poll" /\ e.q = d.q
        \/ e.bus = "shift" /\ IsCommandWrite(c) /\ e.q = <<g>> \o r
    BY <1>2, <1>5
  <2>4. IsCommandWrite(c) => WellFormed(g) /\ g.cmd_type = "READ_REG"
    BY <2>1, Commands DEF IsCommandWrite, WellFormed
  <2> HIDE DEF c, r, g
  <2>5. CASE Line(e) = d.q
    BY <2>5
  <2>6. CASE e.bus = "shift" /\ IsCommandWrite(c) /\ e.q = <<g>> \o r
    <3>1. Queue(<<c>>) /\ Queue(<<g>>) /\ NoFill(<<g>>, s)
      BY <2>1, <2>4, <2>6, OneCommand, FillsOfOne
    <3>2. Queue(r \o t) /\ Queue(<<g>> \o r)
      BY <2>1, <3>1, Joined
    <3>3. (<<c>> \o r) \o t = <<c>> \o (r \o t)
      BY <2>1, <3>1, JoinedTwice
    <3>4. Fits(<<c>> \o (r \o t), s, sk)
      BY <2>1, <3>3
    <3>5. Fits(<<c>> \o (<<g>> \o (r \o t)), s, sk)
      BY <3>1, <3>2, <3>4, FitsBetween
    <3>6. (<<g>> \o r) \o t = <<g>> \o (r \o t)
      BY <2>1, <3>1, JoinedTwice
    <3>7. (<<c>> \o (<<g>> \o r)) \o t = <<c>> \o ((<<g>> \o r) \o t)
      BY <3>1, <3>2, JoinedTwice
    <3>8. Line(e) = <<c>> \o (<<g>> \o r)
      BY <1>3, <2>2, <2>6
    <3>9. QED
      BY <3>5, <3>6, <3>7, <3>8
  <2>7. QED
    BY <1>3, <2>1, <2>2, <2>3, <2>5, <2>6
<1>6. QED
  BY <1>2, <1>4, <1>5

\* queuePushBack of a list: what is on its way and the list fit, hence both together.
LEMMA PushBacksFit ==
    ASSUME NEW d, Driver(d), Busy(d), NEW l, Queue(l), l # <<>>,
           NEW e, e = PushBacks(d, l), Well(e), NEW s, NEW sk,
           Fits(Line(d), s, sk), Fits(l, s, sk)
    PROVE  Fits(Line(e), s, sk)
<1>1. DOMAIN d = DriverFields /\ Queue(d.q) /\ Shadows(d.sk)
      /\ d.fails \in BOOLEAN /\ d.err \in Nat /\ d.hal \in BOOLEAN
  BY DEF Driver, DriverFields
<1>4. CASE d.q = <<>> /\ Idle(d)
  <2> DEFINE h == Head(l)
             t == Tail(l)
             f == [d EXCEPT !.q = <<h>>]
             g == Start(f)
  <2>1. WellFormed(h) /\ Queue(t) /\ l = <<h>> \o t
    BY HeadHolds
  <2>2. e = AppendAll(g, t)
    BY <1>4 DEF PushBacks
  <2> HIDE DEF h, t
  <2>3. Queue(<<h>>) /\ <<h>> # <<>>
    BY <2>1, OneCommand
  <2>5. /\ DOMAIN f = DriverFields /\ f.q = <<h>> /\ f.sk = d.sk
        /\ f.err = d.err /\ f.hal = d.hal /\ f.fails = d.fails
    BY <1>1 DEF DriverFields
  <2> HIDE DEF f
  <2>6. Driver(f)
    BY <1>1, <2>3, <2>5 DEF Driver, DriverFields
  <2>7. Driver(g) /\ Busy(g)
    BY <2>6, Started
  <2>a. g = Start(f)
    OBVIOUS
  <2> HIDE DEF g
  <2>9. /\ e.run = g.run /\ e.bus = g.bus /\ e.err = g.err
        /\ ~e.fails => ~g.fails /\ e.q = g.q \o t
    <3>1. Queue(t)
      BY <2>1
    <3>2. QED
      BY <2>2, <2>7, <3>1, Appended
  <2>10. Well(g) /\ e.q = g.q \o t
    BY <2>9 DEF Well
  <2>11. Fits(f.q \o t, s, sk)
    BY <2>1, <2>5
  <2>12. Queue(t)
    BY <2>1
  <2>13. Fits(Line(g) \o t, s, sk)
    BY <2>6, <2>a, <2>10, <2>11, <2>12, StartFits
  <2>14. Line(e) = Line(g) \o t
    BY <2>7, <2>9, <2>10, <2>12, LineGrows
  <2>15. QED
    BY <2>13, <2>14
<1>5. CASE ~(d.q = <<>> /\ Idle(d))
  <2>1. e = AppendAll(d, l)
    BY <1>5 DEF PushBacks
  <2>2. /\ e.run = d.run /\ e.bus = d.bus
        /\ e.q = d.q \o l
    BY <2>1, Appended DEF Well
  <2>3. Line(e) = Line(d) \o l
    BY <2>2, LineGrows
  <2>4. Queue(Line(d))
    BY LineIs
  <2>5. QED
    BY <2>3, <2>4, FitsJoined
<1>6. QED
  BY <1>4, <1>5

-------------------------------------------------------------------------------
(***************************************************************************)
(* The parts of a handler.                                                 *)
(***************************************************************************)
\* A queue of segments is a sequence.
Segs(q) == \E S : q \in Seq(S)

\* It stays one when a segment is taken, and the oldest one is still the oldest when
\* another is appended.
LEMMA SegsKept ==
    /\ Segs(<<>>)
    /\ \A q : Segs(q) => Segs(Popped(q))
    /\ \A q, x : Segs(q) => Segs(Append(q, x))
    /\ \A q, x : Segs(q) /\ q # <<>> => Append(q, x) # <<>> /\ Head(Append(q, x)) = Head(q)
<1>1. Segs(<<>>)
  BY EmptySeq DEF Segs
<1>2. ASSUME NEW q, Segs(q)  PROVE  Segs(Popped(q))
  <2>1. PICK S : q \in Seq(S)
    BY <1>2 DEF Segs
  <2>2. CASE q = <<>>
    BY <1>1, <2>2 DEF Popped
  <2>3. CASE q # <<>>
    <3>1. Tail(q) \in Seq(S)
      BY <2>1, <2>3, HeadTailProperties
    <3>2. QED
      BY <2>3, <3>1 DEF Popped, Segs
  <2>4. QED
    BY <2>2, <2>3
<1>3. ASSUME NEW q, NEW x, Segs(q)
      PROVE  /\ Segs(Append(q, x))
             /\ q # <<>> => Append(q, x) # <<>> /\ Head(Append(q, x)) = Head(q)
  <2>1. PICK S : q \in Seq(S)
    BY <1>3 DEF Segs
  <2> DEFINE T == S \cup {x}
             r == Append(q, x)
  <2>2. q \in Seq(T) /\ x \in T
    BY <2>1, SeqMonotonic
  <2> HIDE DEF T
  <2>3. /\ r \in Seq(T) /\ Len(r) = Len(q) + 1
        /\ \A i \in 1 .. Len(q) : r[i] = q[i]
    BY <2>2, AppendProperties
  <2>4. Segs(r)
    BY <2>3 DEF Segs
  <2> HIDE DEF r
  <2>5. ASSUME q # <<>>  PROVE  r # <<>> /\ Head(r) = Head(q)
    <3>1. Len(q) \in Nat /\ Len(q) # 0
      BY <2>2, <2>5, LenProperties, EmptySeq
    <3>2. r # <<>>
      BY <2>3, <3>1, EmptySeq
    <3>3. Head(r) = r[1] /\ Head(q) = q[1]
      BY <2>2, <2>3, <2>5, <3>2, HeadTailProperties
    <3>4. 1 \in 1 .. Len(q)
      BY <3>1
    <3>5. QED
      BY <2>3, <3>2, <3>3, <3>4
  <2>6. QED
    BY <2>4, <2>5 DEF r
<1>4. QED
  BY <1>1, <1>2, <1>3

\* The shadow registers a transmission depends on.
Segmented(sk) ==
    \A s \in Sock : {"SR", "tx_buf_queue"} \subseteq DOMAIN sk[s] /\ Segs(sk[s].tx_buf_queue)

\* All transfers to transmit memory on their way are those of oldest segments, each
\* with its SEND behind it, except for a socket known to be closed.
Neat(d) ==
    /\ Segmented(d.sk)
    /\ Well(d) => \A s \in Sock : d.sk[s].SR # "CLOSED" => Fits(Line(d), s, d.sk[s])

SameStatus(d, e) == \A s \in Sock : e.sk[s].SR = d.sk[s].SR

\* Only the commands, is_sending, the segments and the status matter.
LEMMA SameNeat ==
    ASSUME NEW d, Driver(d), Busy(d), Neat(d), NEW e, e.q = d.q, e.run = d.run, e.bus = d.bus,
           Well(e) => Well(d),
           \A s \in Sock : /\ {"SR", "tx_buf_queue"} \subseteq DOMAIN e.sk[s]
                           /\ e.sk[s].tx_buf_queue = d.sk[s].tx_buf_queue
                           /\ e.sk[s].is_sending = d.sk[s].is_sending
                           /\ d.sk[s].SR = "CLOSED" => e.sk[s].SR = "CLOSED"
    PROVE  Neat(e)
<1>1. Queue(Line(d)) /\ Line(e) = Line(d)
  BY LineIs DEF Line
<1>2. Segmented(e.sk)
  BY DEF Neat, Segmented
<1>3. ASSUME Well(e), NEW s \in Sock, e.sk[s].SR # "CLOSED"  PROVE  Fits(Line(e), s, e.sk[s])
  <2>1. Fits(Line(d), s, d.sk[s])
    BY <1>3 DEF Neat
  <2>2. Fits(Line(d), s, e.sk[s])
    BY <1>1, <2>1, FillsNothing
  <2>3. QED
    BY <1>1, <2>2
<1>4. QED
  BY <1>2, <1>3 DEF Neat

\* A list is queued along with a change of the sockets.
LEMMA QueuedNeat ==
    ASSUME NEW d, Driver(d), Busy(d), NEW f, SameOrders(d, f), Segmented(f.sk),
           NEW l, Queue(l), l # <<>>, NEW e, e = PushBacks(f, l),
           Well(d) => \A s \in Sock : f.sk[s].SR # "CLOSED" =>
                          Fits(Line(d), s, f.sk[s]) /\ Fits(l, s, f.sk[s])
    PROVE  Neat(e) /\ SameStatus(f, e)
<1>1. Driver(f) /\ Busy(f)
  BY DEF SameOrders, Driver, Busy, Idle, DriverFields
<1>2. Line(f) = Line(d) /\ (Well(f) <=> Well(d))
  BY DEF SameOrders, Line, Well
<1>3. Driver(e) /\ Busy(e) /\ e.sk = f.sk
  <2>1. PICK done \in BOOLEAN : done = FALSE
    OBVIOUS
  <2>2. PICK ch : ch = chip
    OBVIOUS
  <2>3. QED
    BY <1>1, <2>1, <2>2, PushedBack
<1>4. Well(e) => Well(f)
  <2>1. CASE f.q = <<>> /\ Idle(f)
    <3> DEFINE h == Head(l)
               t == Tail(l)
               g == [f EXCEPT !.q = <<h>>]
               k == Start(g)
    <3>1. WellFormed(h) /\ Queue(t)
      BY HeadHolds
    <3>2. e = AppendAll(k, t)
      BY <2>1 DEF PushBacks
    <3>3. Queue(<<h>>)
      BY <3>1, OneCommand
    <3> HIDE DEF h, t
    <3>4. /\ DOMAIN g = DriverFields /\ g.q = <<h>> /\ g.sk = f.sk
          /\ g.err = f.err /\ g.hal = f.hal /\ g.fails = f.fails
      BY <1>1 DEF Driver, DriverFields
    <3>a. k = Start(g)
      OBVIOUS
    <3> HIDE DEF g, k
    <3>5. Driver(g)
      BY <1>1, <3>3, <3>4 DEF Driver, DriverFields
    <3>6. Driver(k)
      BY <3>5, <3>a, Started
    <3>7. e.err = k.err /\ (~e.fails => ~k.fails)
      BY <3>1, <3>2, <3>6, Appended
    <3>8. ASSUME Well(e)  PROVE  Well(f)
      <4>1. ~k.fails /\ k.err = 0
        BY <3>7, <3>8 DEF Well
      <4>2. QED
        BY <3>4, <3>5, <3>a, <4>1, StartIs DEF Well
    <3>9. QED
      BY <3>8
  <2>2. CASE ~(f.q = <<>> /\ Idle(f))
    <3>1. e = AppendAll(f, l)
      BY <2>2 DEF PushBacks
    <3>2. QED
      BY <1>1, <3>1, Appended DEF Well
  <2>3. QED
    BY <2>1, <2>2
<1>5. ASSUME Well(e), NEW s \in Sock, e.sk[s].SR # "CLOSED"  PROVE  Fits(Line(e), s, e.sk[s])
  BY <1>1, <1>2, <1>3, <1>4, <1>5, PushBacksFit
<1>6. QED
  BY <1>3, <1>5 DEF Neat, SameStatus

\* sendPendingData queues the transfer of the oldest segment, when nothing is being
\* sent: no other transfer is on its way then.
LEMMA SendPendingNeat ==
    ASSUME NEW d, Driver(d), Busy(d), SendShadows(d.sk), Neat(d), NEW s \in Sock,
           NEW e, e = SendPending(d, s)
    PROVE  Neat(e) /\ SameStatus(d, e)
<1> DEFINE sk  == d.sk[s]
           seg == Head(sk.tx_buf_queue)
           len == seg.end_index - seg.start_index
           wr  == (sk.TX_WR + len - Hdr) % PtrMod
           l   == (IF s \in Tcp THEN <<>> ELSE SetDestination(s, seg))
                  \o <<SetBuf(s, seg.start_index, len), SetReg(s, [TX_WR |-> wr]),
                       SetReg(s, [CR |-> "SEND"])>>
           f   == [d EXCEPT !.sk[s].is_sending = TRUE,
                            !.sk[s].tx_buf = BufWrite(@, seg.start_index, Header(sk.TX_WR))]
<1>1. \/ e = d
      \/ e = PushBacks(f, l) /\ ~sk.is_sending /\ sk.SR \in Open /\ sk.tx_buf_queue # <<>>
  BY DEF SendPending
<1>2. DOMAIN d = DriverFields /\ Shadows(d.sk) /\ Segmented(d.sk)
  BY DEF Driver, DriverFields, Neat
<1>4. /\ SameOrders(d, f) /\ f.sk[s].is_sending = TRUE
      /\ f.sk[s].tx_buf_queue = sk.tx_buf_queue
      /\ \A t \in Sock : /\ DOMAIN f.sk[t] = DOMAIN d.sk[t]
                         /\ f.sk[t].tx_buf_queue = d.sk[t].tx_buf_queue
                         /\ f.sk[t].SR = d.sk[t].SR
                         /\ t # s => f.sk[t] = d.sk[t]
  BY <1>2 DEF DriverFields, Shadows, SameOrders, SendShadows, Segmented
<1>5. Segmented(f.sk)
  BY <1>2, <1>4 DEF Segmented
<1> HIDE DEF f
<1>3. ASSUME sk.tx_buf_queue # <<>>
      PROVE  Queue(l) /\ l # <<>> /\ Fits(l, s, f.sk[s]) /\ \A t : t # s => NoFill(l, t)
  <2>1. Oldest(seg.start_index, len, f.sk[s])
    <3>1. f.sk[s].tx_buf_queue = sk.tx_buf_queue
      BY <1>4
    <3>2. QED
      BY <1>3, <1>4, <3>1 DEF Oldest
  <2> HIDE DEF seg, len, wr
  <2> DEFINE tcp == s \in Tcp
  <2>2. /\ tcp \in BOOLEAN
        /\ l = (IF tcp THEN <<>>
                ELSE <<SetReg(s, [DIPR |-> seg.dst]), SetReg(s, [DPORT |-> seg.dst])>>)
               \o <<SetBuf(s, seg.start_index, len), SetReg(s, [TX_WR |-> wr]),
                    SetReg(s, [CR |-> "SEND"])>>
    BY DEF SetDestination
  <2> HIDE DEF l, tcp, sk
  <2>3. Queue(l) /\ l # <<>>
    BY <2>2, TransmitCommands
  <2>4. \A t : t # s => NoFill(l, t)
    BY <2>2, TransmitFits
  <2>5. \A o : Oldest(seg.start_index, len, o) => Fits(l, s, o)
    BY <2>2, TransmitFits
  <2>6. QED
    BY <2>1, <2>3, <2>4, <2>5
<1> HIDE DEF l
<1>6. CASE e = d
  BY <1>6 DEF SameStatus
<1>7. CASE e = PushBacks(f, l) /\ ~sk.is_sending /\ sk.SR \in Open /\ sk.tx_buf_queue # <<>>
  <2>1. Queue(l) /\ l # <<>> /\ Fits(l, s, f.sk[s]) /\ \A t : t # s => NoFill(l, t)
    BY <1>3, <1>7
  <2>2. Queue(Line(d))
    BY LineIs
  <2>3. ASSUME Well(d), NEW t \in Sock, f.sk[t].SR # "CLOSED"
        PROVE  Fits(Line(d), t, f.sk[t]) /\ Fits(l, t, f.sk[t])
    <3>1. Fits(Line(d), t, d.sk[t])
      BY <1>4, <2>3 DEF Neat
    <3>2. CASE t = s
      <4>1. NoFill(Line(d), t)
        BY <1>7, <2>2, <3>1, <3>2, FillsNothing
      <4>2. Fits(Line(d), t, f.sk[t])
        BY <2>2, <4>1, FillsNothing
      <4>3. QED
        BY <2>1, <3>2, <4>2
    <3>3. CASE t # s
      <4>1. Fits(l, t, f.sk[t])
        BY <2>1, <3>3, FillsNothing
      <4>2. QED
        BY <1>4, <3>1, <3>3, <4>1
    <3>4. QED
      BY <3>2, <3>3
  <2>4. Neat(e) /\ SameStatus(f, e)
    BY <1>4, <1>5, <1>7, <2>1, <2>3, QueuedNeat
  <2>5. QED
    BY <1>4, <2>4 DEF SameStatus
<1>8. QED
  BY <1>1, <1>6, <1>7

\* receivePendingData fills no transmit memory.
LEMMA ReceivePendingNeat ==
    ASSUME NEW d, Driver(d), Busy(d), SendShadows(d.sk), Neat(d), NEW s \in Sock,
           NEW e, e = ReceivePending(d, s)
    PROVE  Neat(e) /\ SameStatus(d, e)
<1> DEFINE sk  == d.sk[s]
           at  == BufferIndex(sk.rx_buf_queue, RxBufLen, sk.RX_RSR + Hdr)
           len == sk.RX_RSR + Hdr
           rd  == (sk.RX_RD + sk.RX_RSR) % PtrMod
           l   == <<GetBuf(s, at, len), SetReg(s, [RX_RD |-> rd]),
                    SetReg(s, [CR |-> "RECV"]), SetReg(s, [CR |-> "RECV"]), CheckRcv(s)>>
           f   == [d EXCEPT !.sk[s].is_receiving = TRUE,
                            !.sk[s].rx_buf = BufWrite(@, at, Header(sk.RX_RD))]
<1>1. e = d \/ e = PushBacks(f, l)
  BY DEF ReceivePending
<1>2. DOMAIN d = DriverFields /\ Shadows(d.sk) /\ Segmented(d.sk)
  BY DEF Driver, DriverFields, Neat
<1>3. Queue(l) /\ l # <<>> /\ \A t : NoFill(l, t)
  <2> HIDE DEF at, len, rd
  <2>1. l = <<GetBuf(s, at, len), SetReg(s, [RX_RD |-> rd]),
              SetReg(s, [CR |-> "RECV"]), SetReg(s, [CR |-> "RECV"]), CheckRcv(s)>>
    OBVIOUS
  <2> HIDE DEF l
  <2>2. QED
    BY <2>1, ReceiveCommands, ReceiveFits
<1>4. /\ SameOrders(d, f)
      /\ \A t \in Sock : /\ DOMAIN f.sk[t] = DOMAIN d.sk[t]
                         /\ f.sk[t].tx_buf_queue = d.sk[t].tx_buf_queue
                         /\ f.sk[t].is_sending = d.sk[t].is_sending
                         /\ f.sk[t].SR = d.sk[t].SR
  BY <1>2 DEF DriverFields, Shadows, SameOrders, SendShadows, Segmented
<1>5. Segmented(f.sk)
  BY <1>2, <1>4 DEF Segmented
<1> HIDE DEF f, l, at, len, rd
<1>6. CASE e = d
  BY <1>6 DEF SameStatus
<1>7. CASE e = PushBacks(f, l)
  <2>1. Queue(Line(d))
    BY LineIs
  <2>2. ASSUME Well(d), NEW t \in Sock, f.sk[t].SR # "CLOSED"
        PROVE  Fits(Line(d), t, f.sk[t]) /\ Fits(l, t, f.sk[t])
    <3>1. Fits(Line(d), t, d.sk[t])
      BY <1>4, <2>2 DEF Neat
    <3>2. Fits(Line(d), t, f.sk[t])
      BY <1>4, <2>1, <3>1, FillsNothing
    <3>3. QED
      BY <1>3, <3>2, FillsNothing
  <2>3. Neat(e) /\ SameStatus(f, e)
    BY <1>3, <1>4, <1>5, <1>7, <2>2, QueuedNeat
  <2>4. QED
    BY <1>4, <2>3 DEF SameStatus
<1>8. QED
  BY <1>1, <1>6, <1>7

\* Starting the next command changes no socket.
LEMMA StartNeat ==
    ASSUME NEW d, Driver(d), d.bus # "shift", Neat(d), NEW e, e = Start(d)
    PROVE  Neat(e) /\ SameStatus(d, e)
<1>1. Driver(e) /\ Busy(e) /\ e.sk = d.sk /\ Queue(d.q)
  BY Started DEF Driver
<1>2. Line(d) = d.q
  BY <1>1, JoinedWithNothing DEF Line
<1>3. ASSUME Well(e), NEW s \in Sock, e.sk[s].SR # "CLOSED"  PROVE  Fits(Line(e), s, e.sk[s])
  <2>1. Well(d)
    BY <1>3, StartIs DEF Well
  <2>2. Fits(d.q, s, d.sk[s])
    BY <1>1, <1>2, <1>3, <2>1 DEF Neat
  <2> DEFINE n == <<>>
  <2>3. Queue(n) /\ d.q \o n = d.q /\ Line(e) \o n = Line(e)
    BY <1>1, NoCommands, JoinedWithNothing, LineIs
  <2> HIDE DEF n
  <2>4. Fits(d.q \o n, s, d.sk[s])
    BY <2>2, <2>3
  <2>5. Fits(Line(e) \o n, s, d.sk[s])
    BY <1>3, <2>3, <2>4, StartFits
  <2>6. QED
    BY <1>1, <2>3, <2>5
<1>4. QED
  BY <1>1, <1>3 DEF Neat, SameStatus

\* A command put in front of the queue that fills nothing.
LEMMA InFrontNeat ==
    ASSUME NEW d, Driver(d), Busy(d), Neat(d), NEW c, WellFormed(c), c.cmd_type # "WRITE_BUF",
           NEW e, e = InFront(d, c)
    PROVE  Neat(e) /\ SameStatus(d, e) /\ Driver(e) /\ e.run = d.run /\ e.bus = d.bus
<1>1. /\ Driver(e) /\ e.sk = d.sk /\ e.err = d.err /\ e.run = d.run /\ e.bus = d.bus
      /\ ~e.fails => ~d.fails /\ e.q = <<c>> \o d.q
  BY PutInFront
<1>2. /\ Queue(d.q) /\ Queue(<<c>>)
      /\ d.bus # "shift" => Line(d) = d.q
      /\ d.bus = "shift" => Line(d) = <<d.run>> \o d.q /\ Queue(<<d.run>>)
  BY LineIs, OneCommand
<1>3. \A s : NoFill(<<c>>, s)
  BY FillsOfOne
<1>4. ASSUME Well(e), NEW s \in Sock, e.sk[s].SR # "CLOSED"  PROVE  Fits(Line(e), s, e.sk[s])
  <2>1. Fits(Line(d), s, d.sk[s]) /\ e.q = <<c>> \o d.q
    BY <1>1, <1>4 DEF Neat, Well
  <2>2. CASE d.bus = "shift"
    <3>1. Fits(<<d.run>> \o d.q, s, d.sk[s])
      BY <1>2, <2>1, <2>2
    <3>2. Fits(<<d.run>> \o (<<c>> \o d.q), s, d.sk[s])
      BY <1>2, <1>3, <2>2, <3>1, FitsBetween
    <3>3. Line(e) = <<d.run>> \o (<<c>> \o d.q)
      BY <1>1, <2>1, <2>2 DEF Line
    <3>4. QED
      BY <1>1, <3>2, <3>3
  <2>3. CASE d.bus # "shift"
    <3>1. Fits(<<c>>, s, d.sk[s]) /\ Fits(d.q, s, d.sk[s])
      BY <1>2, <1>3, <2>1, <2>3, FillsNothing
    <3>2. Fits(<<c>> \o d.q, s, d.sk[s])
      BY <1>2, <3>1, FitsJoined
    <3>3. Line(e) = <<c>> \o d.q
      <4>1. Queue(<<c>> \o d.q)
        BY <1>2, Joined
      <4>2. Line(e) = <<>> \o (<<c>> \o d.q)
        BY <1>1, <2>1, <2>3 DEF Line
      <4>3. QED
        BY <4>1, <4>2, JoinedWithNothing
    <3>4. QED
      BY <1>1, <3>2, <3>3
  <2>4. QED
    BY <2>2, <2>3
<1>5. QED
  BY <1>1, <1>4 DEF Neat, SameStatus

\* An outcome takes the oldest segment away: its SEND is over, hence nothing on its
\* way is of that segment.
LEMMA FlagNeat ==
    ASSUME NEW d, Driver(d), Busy(d), ~Idle(d), SendShadows(d.sk), Neat(d), NEW s \in Sock,
           Well(d) /\ d.sk[s].SR # "CLOSED" => Gap(d, s) = 1
    PROVE  /\ Neat(OnTimeout(d, s)) /\ SameStatus(d, OnTimeout(d, s))
           /\ Neat(OnSendOk(d, s)) /\ SameStatus(d, OnSendOk(d, s))
<1> DEFINE e == [d EXCEPT !.sk[s].is_sending = FALSE,
                          !.sk[s].tx_buf_queue = Popped(d.sk[s].tx_buf_queue)]
           f == [d EXCEPT !.sk[s].is_sending = FALSE, !.sk[s].tx_buf_queue = <<>>]
<1>1. DOMAIN d = DriverFields /\ Shadows(d.sk) /\ Segmented(d.sk)
  BY DEF Driver, DriverFields, Neat
<1>2. [d EXCEPT !.sk[s].is_sending = FALSE, !.sk[s].tx_buf_queue = Popped(@)] = e
  BY <1>1 DEF DriverFields, Shadows
<1>3. /\ OnSendOk(d, s) = SendPending(e, s)
      /\ OnTimeout(d, s) = f \/ OnTimeout(d, s) = SendPending(e, s)
  BY <1>2 DEF OnSendOk, OnTimeout
<1>4. ASSUME Well(d), d.sk[s].SR # "CLOSED"  PROVE  NoFill(Line(d), s)
  <2> DEFINE n == Sends(Line(d), s)
             x == Bit(d.sk[s].is_sending)
  <2>1. Queue(Line(d))
    BY LineIs
  <2>2. n \in Nat /\ x \in {0, 1} /\ x - n = 1
    BY <1>4, <2>1, SendsAddUp DEF Bit, Gap
  <2> HIDE DEF n, x
  <2>3. n = 0
    BY <2>2
  <2>4. Fits(Line(d), s, d.sk[s])
    BY <1>4 DEF Neat
  <2>5. QED
    BY <2>1, <2>3, <2>4, FillsNothing DEF n
<1>5. ASSUME NEW queue, Segs(queue), NEW g,
             g = [d EXCEPT !.sk[s].is_sending = FALSE, !.sk[s].tx_buf_queue = queue]
      PROVE  Driver(g) /\ Busy(g) /\ SendShadows(g.sk) /\ Neat(g) /\ SameStatus(d, g)
  <2>1. /\ DOMAIN g = DriverFields /\ g.q = d.q /\ g.run = d.run /\ g.bus = d.bus
        /\ g.err = d.err /\ g.hal = d.hal /\ g.fails = d.fails
        /\ DOMAIN g.sk = Sock
        /\ \A t \in Sock : /\ DOMAIN g.sk[t] = DOMAIN d.sk[t]
                           /\ g.sk[t].is_receiving = d.sk[t].is_receiving
                           /\ g.sk[t].SR = d.sk[t].SR
                           /\ t # s => g.sk[t] = d.sk[t]
        /\ g.sk[s].is_sending = FALSE /\ g.sk[s].tx_buf_queue = queue
    BY <1>1, <1>5 DEF DriverFields, Shadows, SendShadows, Segmented
  <2>2. Shadows(g.sk) /\ SendShadows(g.sk) /\ Segmented(g.sk)
    BY <1>1, <1>5, <2>1 DEF Shadows, SendShadows, Segmented
  <2>3. Driver(g) /\ Busy(g)
    BY <2>1, <2>2 DEF Driver, DriverFields, Busy, Idle
  <2>4. Line(g) = Line(d) /\ Queue(Line(d)) /\ (Well(g) <=> Well(d))
    BY <2>1, LineIs DEF Line, Well
  <2>5. ASSUME Well(g), NEW t \in Sock, g.sk[t].SR # "CLOSED"  PROVE  Fits(Line(g), t, g.sk[t])
    <3>1. CASE t = s
      BY <1>4, <2>1, <2>4, <2>5, <3>1, FillsNothing
    <3>2. CASE t # s
      BY <2>1, <2>4, <2>5, <3>2 DEF Neat
    <3>3. QED
      BY <3>1, <3>2
  <2>6. QED
    BY <2>1, <2>2, <2>3, <2>5 DEF Neat, SameStatus
<1>6. Segs(<<>>) /\ Segs(Popped(d.sk[s].tx_buf_queue))
  BY <1>1, SegsKept DEF Segmented
<1>7. /\ Driver(e) /\ Busy(e) /\ SendShadows(e.sk) /\ Neat(e) /\ SameStatus(d, e)
      /\ Neat(f) /\ SameStatus(d, f)
  BY <1>5, <1>6
<1> HIDE DEF e, f
<1>8. Neat(SendPending(e, s)) /\ SameStatus(e, SendPending(e, s))
  BY <1>7, SendPendingNeat
<1>9. SameStatus(d, SendPending(e, s))
  BY <1>7, <1>8 DEF SameStatus
<1>10. QED
  BY <1>3, <1>7, <1>8, <1>9

\* The handler of a READ_SOC, which sees one outcome at most, the one that is_sending
\* stands for.
LEMMA ReadSocNeat ==
    ASSUME NEW d, Driver(d), Busy(d), ~Idle(d), SendShadows(d.sk), Neat(d),
           NEW s \in Sock, d.run.sn = s, Well(d) => NoClear(d.q),
           Well(d) /\ d.sk[s].SR # "CLOSED" /\ d.sk[s].IR \cap Outcomes # {} =>
               Gap(d, s) = 1 /\ ~(Outcomes \subseteq d.sk[s].IR),
           NEW e, e = OnReadSoc(d)
    PROVE  Driver(e) /\ e.run = d.run /\ e.bus = d.bus /\ Neat(e) /\ SameStatus(d, e)
<1> DEFINE IR == d.sk[s].IR
           c  == SetReg(s, [IR |-> IR])
           d1 == IF "RECV" \in IR THEN ReceivePending(d, s) ELSE d
           d2 == IF "TIMEOUT" \in IR THEN OnTimeout(d1, s) ELSE d1
           d3 == IF "SENDOK" \in IR THEN OnSendOk(d2, s) ELSE d2
<1>1. e = InFront(d3, c)
  BY DEF OnReadSoc
<1>2. WellFormed(c) /\ c.cmd_type = "WRITE_REG"
  <2>1. Settable(s, [IR |-> IR])
    BY DEF Settable, Writable
  <2>2. QED
    BY <2>1, Commands
<1>3. Even(d, d1) /\ Neat(d1) /\ SameStatus(d, d1)
  <2> HIDE DEF IR
  <2>1. /\ Even(d, ReceivePending(d, s))
        /\ Neat(ReceivePending(d, s)) /\ SameStatus(d, ReceivePending(d, s))
    BY ReceivePendingEven, ReceivePendingNeat
  <2>2. Even(d, d) /\ SameStatus(d, d)
    BY EvenOn DEF SameStatus
  <2>3. QED
    BY <2>1, <2>2
<1> HIDE DEF d1, c
<1>4. /\ Driver(d1) /\ Busy(d1) /\ ~Idle(d1) /\ SendShadows(d1.sk)
      /\ d1.run = d.run /\ d1.bus = d.bus
      /\ Well(d1) => Well(d) /\ Gap(d1, s) = Gap(d, s)
  BY <1>3 DEF Even, Idle
<1>5. ASSUME IR \cap Outcomes # {}
      PROVE  Well(d1) /\ d1.sk[s].SR # "CLOSED" => Gap(d1, s) = 1 /\ ~(Outcomes \subseteq IR)
  BY <1>3, <1>4, <1>5 DEF SameStatus
<1>6. /\ Driver(d2) /\ Busy(d2) /\ ~Idle(d2) /\ SendShadows(d2.sk)
      /\ d2.run = d1.run /\ d2.bus = d1.bus /\ (Well(d2) => Well(d1))
      /\ Neat(d2) /\ SameStatus(d1, d2)
  <2>1. CASE "TIMEOUT" \in IR
    <3>1. d2 = OnTimeout(d1, s)
      BY <2>1
    <3> HIDE DEF d2
    <3>2. Settles(d1, d2, s, 1)
      BY <1>4, <3>1, FlagSettles
    <3>3. IR \cap Outcomes # {}
      BY <2>1 DEF Outcomes
    <3> HIDE DEF IR
    <3>4. Neat(d2) /\ SameStatus(d1, d2)
      BY <1>3, <1>4, <1>5, <3>1, <3>3, FlagNeat
    <3>5. QED
      BY <1>4, <3>2, <3>4 DEF Settles, Idle
  <2>2. CASE "TIMEOUT" \notin IR
    BY <1>3, <1>4, <2>2 DEF SameStatus
  <2>3. QED
    BY <2>1, <2>2
<1>7. "TIMEOUT" \notin IR => d2 = d1
  OBVIOUS
<1> HIDE DEF d2
<1>8. /\ Driver(d3) /\ Busy(d3) /\ d3.run = d2.run /\ d3.bus = d2.bus
      /\ Neat(d3) /\ SameStatus(d2, d3)
  <2>1. CASE "SENDOK" \in IR
    <3>1. d3 = OnSendOk(d2, s)
      BY <2>1
    <3> HIDE DEF d3
    <3>2. Settles(d2, d3, s, 1)
      BY <1>6, <3>1, FlagSettles
    <3>3. IR \cap Outcomes # {} /\ ("TIMEOUT" \in IR => Outcomes \subseteq IR)
      BY <2>1 DEF Outcomes
    <3>4. Well(d2) /\ d2.sk[s].SR # "CLOSED" => Gap(d2, s) = 1
      <4>1. Well(d2) /\ d2.sk[s].SR # "CLOSED" => Well(d1) /\ d1.sk[s].SR # "CLOSED"
        BY <1>6 DEF SameStatus
      <4>2. QED
        BY <1>5, <1>7, <3>3, <4>1
    <3> HIDE DEF IR
    <3>5. Neat(d3) /\ SameStatus(d2, d3)
      BY <1>6, <3>1, <3>4, FlagNeat
    <3>6. QED
      BY <3>2, <3>5 DEF Settles
  <2>2. CASE "SENDOK" \notin IR
    BY <1>6, <2>2 DEF SameStatus
  <2>3. QED
    BY <2>1, <2>2
<1> HIDE DEF d3, IR
<1>9. Neat(e) /\ SameStatus(d3, e) /\ Driver(e) /\ e.run = d3.run /\ e.bus = d3.bus
  <2>1. c.cmd_type # "WRITE_BUF"
    BY <1>2
  <2>2. QED
    BY <1>1, <1>2, <1>8, <2>1, InFrontNeat
<1>10. SameStatus(d, e)
  BY <1>3, <1>6, <1>8, <1>9 DEF SameStatus
<1>11. QED
  BY <1>4, <1>6, <1>8, <1>9, <1>10

\* What READ_REG, CHECK_RCV and CHECK_TX_FSR store touches no segment, and the status
\* only when that was read.
LEMMA StoredNeat ==
    ASSUME NEW d, Driver(d), Segmented(d.sk), NEW s \in Sock, d.run.sn = s,
           DOMAIN d.run.val \subseteq Registers, NEW e, e = Stored(d) \/ e = OnReadReg(d)
    PROVE  /\ \A t \in Sock : /\ {"SR", "tx_buf_queue"} \subseteq DOMAIN e.sk[t]
                              /\ e.sk[t].tx_buf_queue = d.sk[t].tx_buf_queue
                              /\ t # s => e.sk[t].SR = d.sk[t].SR
           /\ e.sk[s].SR = IF "SR" \in DOMAIN d.run.val THEN d.run.val.SR ELSE d.sk[s].SR
<1> DEFINE val == d.run.val
           o == Overlay(val, d.sk[s])
           x == [d EXCEPT !.sk[s] = o]
           y == [x EXCEPT !.sk[s].is_receiving = FALSE]
<1>1. DOMAIN d = DriverFields /\ DOMAIN d.sk = Sock
  BY DEF Driver, DriverFields, Shadows
<1>2. e = x \/ e = y
  BY DEF Stored, OnReadReg
<1>3. /\ {"SR", "tx_buf_queue"} \subseteq DOMAIN o
      /\ o.tx_buf_queue = d.sk[s].tx_buf_queue
      /\ o.SR = IF "SR" \in DOMAIN val THEN val.SR ELSE d.sk[s].SR
  <2>1. /\ DOMAIN o = DOMAIN val \cup DOMAIN d.sk[s]
        /\ \A r \in DOMAIN val \cup DOMAIN d.sk[s] :
              o[r] = IF r \in DOMAIN val THEN val[r] ELSE d.sk[s][r]
    BY DEF Overlay
  <2>2. {"SR", "tx_buf_queue"} \subseteq DOMAIN d.sk[s] /\ "tx_buf_queue" \notin DOMAIN val
    BY DEF Segmented, Registers
  <2> HIDE DEF o, val
  <2>3. QED
    BY <2>1, <2>2
<1> HIDE DEF val, o
<1>4. /\ DOMAIN x = DriverFields /\ DOMAIN x.sk = Sock /\ x.sk[s] = o
      /\ \A t \in Sock : t # s => x.sk[t] = d.sk[t]
  BY <1>1 DEF DriverFields
<1> HIDE DEF x
<1>5. /\ y.sk[s] = [o EXCEPT !.is_receiving = FALSE]
      /\ \A t \in Sock : t # s => y.sk[t] = d.sk[t]
  BY <1>4 DEF DriverFields
<1> HIDE DEF y
<1>6. /\ DOMAIN e.sk[s] = DOMAIN o /\ e.sk[s].tx_buf_queue = o.tx_buf_queue
      /\ e.sk[s].SR = o.SR
  <2>1. CASE e = x
    BY <1>4, <2>1
  <2>2. CASE e = y
    BY <1>3, <1>5, <2>2
  <2>3. QED
    BY <1>2, <2>1, <2>2
<1>7. \A t \in Sock : t # s => e.sk[t] = d.sk[t]
  <2>1. CASE e = x
    BY <1>4, <2>1
  <2>2. CASE e = y
    BY <1>5, <2>2
  <2>3. QED
    BY <1>2, <2>1, <2>2
<1>8. \A t \in Sock : {"SR", "tx_buf_queue"} \subseteq DOMAIN d.sk[t]
  BY DEF Segmented
<1>9. QED
  BY <1>3, <1>6, <1>7, <1>8 DEF val

\* READ_SOCs in front of the queue fill nothing.
LEMMA ReadSirNeat ==
    ASSUME NEW d, Driver(d), Busy(d), SendShadows(d.sk), Neat(d), d.bus = "done",
           d.run.val.SIR \subseteq Sock, NEW e, e = OnReadSir(d)
    PROVE  Neat(e) /\ SameStatus(d, e) /\ Driver(e) /\ e.bus = d.bus
<1>1. PICK p : /\ Queue(p) /\ \A i \in 1 .. Len(p) : p[i].cmd_type = "READ_SOC"
               /\ DOMAIN e = DriverFields /\ e.q = p \o d.q /\ e.run = d.run
               /\ e.bus = d.bus /\ e.err = d.err /\ e.hal = d.hal
               /\ e.fails \in BOOLEAN /\ (~e.fails => ~d.fails)
               /\ Shadows(e.sk)
               /\ \A t \in Sock : /\ e.sk[t].CR = d.sk[t].CR /\ e.sk[t].SR = d.sk[t].SR
                                  /\ e.sk[t].is_receiving = d.sk[t].is_receiving
  BY ReadSirIs
<1>2. Queue(d.q) /\ Segmented(d.sk)
  BY DEF Driver, Neat
<1>3. \A s \in Sock : /\ e.sk[s].is_sending = d.sk[s].is_sending
                      /\ e.sk[s].tx_buf_queue = d.sk[s].tx_buf_queue
                      /\ DOMAIN e.sk[s] = DOMAIN d.sk[s]
  <2> DEFINE SIR == d.run.val.SIR
             sk  == [s \in Sock |-> [d.sk[s] EXCEPT !.spi = @ \/ s \in SIR]]
  <2>1. DOMAIN d = DriverFields
    BY DEF Driver, DriverFields
  <2>2. e.sk = sk
    BY <2>1 DEF OnReadSir, DriverFields
  <2> HIDE DEF SIR
  <2>3. \A s \in Sock : /\ sk[s].is_sending = d.sk[s].is_sending
                        /\ sk[s].tx_buf_queue = d.sk[s].tx_buf_queue
                        /\ DOMAIN sk[s] = DOMAIN d.sk[s]
    BY <1>2 DEF SendShadows, Segmented
  <2>4. QED
    BY <2>2, <2>3
<1> HIDE DEF OnReadSir
<1>4. Segmented(e.sk)
  BY <1>2, <1>3 DEF Segmented
<1>5. \A s : NoFill(p, s)
  BY <1>1 DEF NoFill, Fills
<1>6. Queue(p \o d.q)
  BY <1>1, <1>2, Joined
<1>7. Line(d) = d.q /\ Line(e) = p \o d.q
  BY <1>1, <1>2, <1>6, JoinedWithNothing DEF Line
<1>8. ASSUME Well(e), NEW s \in Sock, e.sk[s].SR # "CLOSED"  PROVE  Fits(Line(e), s, e.sk[s])
  <2>1. Fits(d.q, s, d.sk[s])
    BY <1>1, <1>7, <1>8 DEF Neat, Well
  <2>2. Fits(d.q, s, e.sk[s])
    BY <1>2, <1>3, <2>1, FillsNothing
  <2>3. Fits(p, s, e.sk[s])
    BY <1>1, <1>5, FillsNothing
  <2>4. Fits(p \o d.q, s, e.sk[s])
    BY <1>1, <1>2, <2>2, <2>3, FitsJoined
  <2>5. QED
    BY <1>7, <2>4
<1>9. d.err \in Nat /\ d.hal \in BOOLEAN
  BY DEF Driver
<1>10. Driver(e)
  BY <1>1, <1>6, <1>9 DEF Driver, DriverFields
<1>11. QED
  BY <1>1, <1>4, <1>8, <1>10 DEF Neat, SameStatus

-------------------------------------------------------------------------------
(***************************************************************************)
(* The invariant of the transfers to transmit memory.                      *)
(***************************************************************************)
\* Only a closed socket is taken for closed.
Fresh(d, ch) == \A s \in Sock : d.sk[s].SR = "CLOSED" => ch[s].SR = "CLOSED"

\* The flags a READ_SOC has fetched tell of one outcome at most, that of the SEND that
\* is_sending stands for; a status that was fetched is no older than the one known.
Fetched(d, ch) ==
    LET s == d.run.sn
    IN  /\ /\ d.bus = "done" /\ d.run.cmd_type = "READ_SOC" /\ Well(d)
           /\ d.sk[s].SR # "CLOSED" /\ d.sk[s].IR \cap Outcomes # {}
           => Gap(d, s) = 1 /\ ~(Outcomes \subseteq d.sk[s].IR)
        /\ d.bus = "done" /\ d.run.cmd_type = "READ_REG" /\ "SR" \in DOMAIN d.run.val
           => /\ d.run.val.SR = "CLOSED" => ch[s].SR = "CLOSED"
              /\ d.sk[s].SR = "CLOSED" => d.run.val.SR = "CLOSED"

Firm(d, ch) == Neat(d) /\ Fresh(d, ch) /\ Fetched(d, ch)

\* Handlers keep what is known of the transfers and of closed sockets.
LEMMA HandledNeat ==
    ASSUME NEW d, Driver(d), Busy(d), SendShadows(d.sk), d.bus = "done",
           Well(d) => NoClear(d.q),
           d.run.cmd_type = "READ_SIR" => d.run.val.SIR \subseteq Sock,
           NEW ch, Firm(d, ch), NEW e, e = Handled(d)
    PROVE  Driver(e) /\ e.bus = "done" /\ Neat(e) /\ Fresh(e, ch)
<1>1. WellFormed(d.run) /\ ~Idle(d) /\ Neat(d) /\ Fresh(d, ch) /\ Segmented(d.sk)
  BY DEF Busy, Firm, Neat
<1>2. d.run.cmd_type \in Types
  BY <1>1 DEF WellFormed
<1>a. PICK c : c = chip
  OBVIOUS
<1>b. ASSUME NEW f, SameStatus(d, f)  PROVE  Fresh(f, ch)
  BY <1>1, <1>b DEF SameStatus, Fresh
<1>3. CASE d.run.cmd_type = "READ_REG"
  <2> DEFINE s == d.run.sn
  <2>1. e = OnReadReg(d)
    BY <1>3 DEF Handled
  <2>2. Driver(e) /\ Busy(e)
    BY <1>3, <1>a, <2>1, ReadRegHandled
  <2>3. s \in Sock /\ DOMAIN d.run.val \subseteq Registers
    BY <1>1, <1>3 DEF WellFormed
  <2>4. /\ e.q = d.q /\ e.run = d.run /\ e.bus = d.bus /\ e.err = d.err /\ e.fails = d.fails
        /\ \A t \in Sock : e.sk[t].is_sending = d.sk[t].is_sending
    BY <2>1, <2>3, StoredSends
  <2>5. /\ \A t \in Sock : /\ {"SR", "tx_buf_queue"} \subseteq DOMAIN e.sk[t]
                           /\ e.sk[t].tx_buf_queue = d.sk[t].tx_buf_queue
                           /\ t # s => e.sk[t].SR = d.sk[t].SR
        /\ e.sk[s].SR = IF "SR" \in DOMAIN d.run.val THEN d.run.val.SR ELSE d.sk[s].SR
    BY <1>1, <2>1, <2>3, StoredNeat
  <2>6. "SR" \in DOMAIN d.run.val => /\ d.run.val.SR = "CLOSED" => ch[s].SR = "CLOSED"
                                     /\ d.sk[s].SR = "CLOSED" => d.run.val.SR = "CLOSED"
    BY <1>3 DEF Firm, Fetched
  <2> HIDE DEF s
  <2>7. \A t \in Sock : /\ e.sk[t].SR = "CLOSED" => ch[t].SR = "CLOSED"
                        /\ d.sk[t].SR = "CLOSED" => e.sk[t].SR = "CLOSED"
    BY <1>1, <2>5, <2>6 DEF Fresh
  <2>8. Well(e) => Well(d)
    BY <2>4 DEF Well
  <2>9. Neat(e)
    BY <1>1, <2>4, <2>5, <2>7, <2>8, SameNeat
  <2>10. QED
    BY <2>2, <2>4, <2>7, <2>9 DEF Fresh
<1>4. CASE d.run.cmd_type = "READ_BUF"
  <2> DEFINE s   == d.run.sn
             seg == [start_index |-> d.run.ptr, end_index |-> d.run.ptr + d.run.len]
             f   == [d EXCEPT !.sk[s].rx_buf_queue = Append(@, seg)]
             g   == [d EXCEPT !.fails = TRUE]
  <2>1. DOMAIN d = DriverFields /\ Shadows(d.sk) /\ d.fails \in BOOLEAN
    BY DEF Driver, DriverFields
  <2>2. e = OnReadBuf(d)
    BY <1>4 DEF Handled
  <2>3. e = f \/ e = g
    BY <2>2 DEF OnReadBuf
  <2>4. Driver(e) /\ Busy(e) /\ e.run = d.run
    <3>1. Continues(d, e, FALSE, c, {})
      BY <1>4, <2>2, ReadBufHandled
    <3>2. QED
      BY <1>1, <3>1 DEF Continues
  <2> HIDE DEF s, seg
  <2>5. /\ f.q = d.q /\ f.bus = d.bus /\ f.err = d.err /\ (~f.fails => ~d.fails)
        /\ \A t \in Sock : /\ f.sk[t].is_sending = d.sk[t].is_sending
                           /\ f.sk[t].tx_buf_queue = d.sk[t].tx_buf_queue
                           /\ f.sk[t].SR = d.sk[t].SR
                           /\ DOMAIN f.sk[t] = DOMAIN d.sk[t]
    BY <1>1, <2>1 DEF DriverFields, Shadows, SendShadows, Segmented
  <2>6. g.q = d.q /\ g.bus = d.bus /\ g.err = d.err /\ g.fails = TRUE /\ g.sk = d.sk
    BY <2>1 DEF DriverFields
  <2> HIDE DEF f, g
  <2>7. /\ e.q = d.q /\ e.bus = d.bus /\ e.err = d.err /\ (~e.fails => ~d.fails)
        /\ \A t \in Sock : /\ e.sk[t].is_sending = d.sk[t].is_sending
                           /\ e.sk[t].tx_buf_queue = d.sk[t].tx_buf_queue
                           /\ e.sk[t].SR = d.sk[t].SR
                           /\ DOMAIN e.sk[t] = DOMAIN d.sk[t]
    BY <2>3, <2>5, <2>6
  <2>8. \A t \in Sock : {"SR", "tx_buf_queue"} \subseteq DOMAIN e.sk[t]
    BY <1>1, <2>7 DEF Segmented
  <2>9. Well(e) => Well(d)
    BY <2>7 DEF Well
  <2>10. Neat(e)
    BY <1>1, <2>4, <2>7, <2>8, <2>9, SameNeat
  <2>11. QED
    BY <1>b, <2>4, <2>7, <2>10 DEF SameStatus
<1>5. CASE d.run.cmd_type = "READ_SIR"
  <2>1. e = OnReadSir(d)
    BY <1>5 DEF Handled
  <2>2. Neat(e) /\ SameStatus(d, e) /\ Driver(e) /\ e.bus = d.bus
    BY <1>1, <1>5, <2>1, ReadSirNeat
  <2>3. QED
    BY <1>b, <2>2
<1>6. CASE d.run.cmd_type \in {"CHECK_RCV", "CHECK_TX_FSR"}
  <2> DEFINE s == d.run.sn
             f == Stored(d)
  <2>1. s \in Sock /\ DOMAIN d.run.val \subseteq Registers \ {"CR", "SR"}
    BY <1>1, <1>6 DEF WellFormed
  <2>2. d.run.cmd_type = "CHECK_RCV" => e = ReceivePending(f, s)
    BY DEF Handled, OnCheckRcv, Stored
  <2>3. d.run.cmd_type = "CHECK_TX_FSR" => e = SendPending(f, s)
    BY DEF Handled, OnCheckTxFsr, Stored
  <2>4. e = ReceivePending(f, s) \/ e = SendPending(f, s)
    BY <1>6, <2>2, <2>3
  <2>5. Driver(f) /\ Busy(f) /\ ~Idle(f)
    BY <1>6, <1>a, CheckStored
  <2>6. /\ f.q = d.q /\ f.run = d.run /\ f.bus = d.bus /\ f.err = d.err /\ f.fails = d.fails
        /\ SendShadows(f.sk)
        /\ \A t \in Sock : f.sk[t].is_sending = d.sk[t].is_sending
    BY <2>1, StoredSends
  <2>7. \A t \in Sock : /\ {"SR", "tx_buf_queue"} \subseteq DOMAIN f.sk[t]
                        /\ f.sk[t].tx_buf_queue = d.sk[t].tx_buf_queue
                        /\ f.sk[t].SR = d.sk[t].SR
    <3>1. /\ \A t \in Sock : /\ {"SR", "tx_buf_queue"} \subseteq DOMAIN f.sk[t]
                             /\ f.sk[t].tx_buf_queue = d.sk[t].tx_buf_queue
                             /\ t # s => f.sk[t].SR = d.sk[t].SR
          /\ f.sk[s].SR = IF "SR" \in DOMAIN d.run.val THEN d.run.val.SR ELSE d.sk[s].SR
      BY <1>1, <2>1, StoredNeat
    <3>2. QED
      BY <2>1, <3>1
  <2> HIDE DEF f, s
  <2>8. Well(f) => Well(d)
    BY <2>6 DEF Well
  <2>9. Neat(f) /\ SameStatus(d, f)
    BY <1>1, <2>6, <2>7, <2>8, SameNeat DEF SameStatus
  <2>10. Neat(e) /\ SameStatus(f, e)
    BY <2>1, <2>4, <2>5, <2>6, <2>9, ReceivePendingNeat, SendPendingNeat
  <2>11. Even(f, e)
    BY <2>1, <2>4, <2>5, <2>6, ReceivePendingEven, SendPendingEven
  <2>12. Driver(e) /\ e.bus = f.bus
    BY <2>5, <2>11 DEF Even
  <2>13. SameStatus(d, e)
    BY <2>9, <2>10 DEF SameStatus
  <2>14. QED
    BY <1>b, <2>6, <2>10, <2>12, <2>13
<1>7. CASE d.run.cmd_type = "READ_SOC"
  <2> DEFINE s == d.run.sn
  <2>1. e = OnReadSoc(d) /\ s \in Sock
    BY <1>1, <1>7 DEF Handled, WellFormed
  <2>2. Well(d) /\ d.sk[s].SR # "CLOSED" /\ d.sk[s].IR \cap Outcomes # {} =>
            Gap(d, s) = 1 /\ ~(Outcomes \subseteq d.sk[s].IR)
    BY <1>7 DEF Firm, Fetched
  <2>3. s = d.run.sn
    OBVIOUS
  <2> HIDE DEF s
  <2>4. Driver(e) /\ e.bus = d.bus /\ Neat(e) /\ SameStatus(d, e)
    BY <1>1, <2>1, <2>2, <2>3, ReadSocNeat
  <2>5. QED
    BY <1>b, <2>4
<1>8. CASE d.run.cmd_type \in {"WRITE_REG", "WRITE_BUF"}
  <2>1. e = d
    BY <1>8 DEF Handled
  <2>2. QED
    BY <1>1, <2>1
<1>9. QED
  BY <1>2, <1>3, <1>4, <1>5, <1>6, <1>7, <1>8 DEF Types

\* A completed transfer is handled and the next one started.
LEMMA CompletionFirm ==
    ASSUME NEW sole, NEW d, NEW ch, Holds(d, ch, sole), Sent(d, ch), Firm(d, ch), d.bus = "done",
           NEW e, e = Start(Handled(d))
    PROVE  Firm(e, ch)
<1> DEFINE f == Handled(d)
<1>1. /\ Driver(d) /\ Busy(d) /\ SendShadows(d.sk) /\ (Well(d) => NoClear(d.q))
      /\ d.run.cmd_type = "READ_SIR" => d.run.val.SIR \subseteq Sock
  BY DEF Holds, Sent
<1>2. Driver(f) /\ f.bus = "done" /\ Neat(f) /\ Fresh(f, ch)
  BY <1>1, HandledNeat
<1>3. e = Start(f)
  OBVIOUS
<1> HIDE DEF f
<1>4. e.bus # "done"
  BY <1>2, <1>3, Started
<1>5. Neat(e) /\ SameStatus(f, e)
  BY <1>2, <1>3, StartNeat
<1>6. QED
  BY <1>2, <1>4, <1>5 DEF Firm, Fresh, Fetched, SameStatus

\* Only the commands, the counters and the sockets matter.
LEMMA SameFirm ==
    ASSUME NEW d, NEW ch, Firm(d, ch), NEW e, e.q = d.q, e.run = d.run, e.bus = d.bus,
           e.fails = d.fails, e.err = d.err, e.sk = d.sk
    PROVE  Firm(e, ch)
<1>1. Line(e) = Line(d)
  BY DEF Line
<1>2. \A s : Gap(e, s) = Gap(d, s)
  BY <1>1 DEF Gap
<1>3. Well(e) <=> Well(d)
  BY DEF Well
<1>4. Neat(e)
  BY <1>1, <1>3 DEF Firm, Neat
<1>5. Fresh(e, ch)
  BY DEF Firm, Fresh
<1>6. Fetched(e, ch)
  BY <1>2, <1>3 DEF Firm, Fetched
<1>7. QED
  BY <1>4, <1>5, <1>6 DEF Firm

\* What the chip does matters only when it opens a closed socket.
LEMMA ChipFirm ==
    ASSUME NEW d, Busy(d), NEW ch, Firm(d, ch),
           NEW new, \A s \in Sock : ch[s].SR = "CLOSED" => new[s].SR = "CLOSED"
    PROVE  Firm(d, new)
<1>1. Fresh(d, new)
  BY DEF Firm, Fresh
<1>2. d.bus = "done" /\ d.run.cmd_type = "READ_REG" => d.run.sn \in Sock
  BY DEF Busy, Idle, WellFormed
<1>3. Fetched(d, new)
  BY <1>2 DEF Firm, Fetched
<1>4. QED
  BY <1>1, <1>3 DEF Firm

\* The invariant, of the variables.
FirmInv == Firm(Now(TRUE), chip)

\* The state a handler starts from.
LEMMA FirmStarts ==
    ASSUME NEW sole, Inv(sole), FirmInv, NEW hal \in HalOutcomes
    PROVE  Firm(Now(hal), chip)
<1>1. /\ Now(hal).q = command_queue /\ Now(hal).run = running_cmd
      /\ Now(hal).bus = bus /\ Now(hal).sk = sockets
      /\ Now(hal).fails = enqueueFails /\ Now(hal).err = failures
  BY HandlerStarts
<1>2. /\ Now(TRUE).q = command_queue /\ Now(TRUE).run = running_cmd
      /\ Now(TRUE).bus = bus /\ Now(TRUE).sk = sockets
      /\ Now(TRUE).fails = enqueueFails /\ Now(TRUE).err = failures
  BY DEF Now
<1> DEFINE d == Now(TRUE)
           e == Now(hal)
<1>3. Firm(d, chip)
  BY DEF FirmInv
<1>4. /\ e.q = d.q /\ e.run = d.run /\ e.bus = d.bus /\ e.fails = d.fails /\ e.err = d.err
      /\ e.sk = d.sk
  BY <1>1, <1>2
<1> HIDE DEF d, e
<1>5. Firm(e, chip)
  BY <1>3, <1>4, SameFirm
<1>6. QED
  BY <1>5 DEF e

\* The state a handler ends in.
LEMMA FirmEnds ==
    ASSUME NEW e, Firm(e, chip'), Become(e)
    PROVE  FirmInv'
<1> DEFINE n == [q |-> command_queue', run |-> running_cmd', bus |-> bus', sk |-> sockets',
                 fails |-> enqueueFails', err |-> failures', hal |-> TRUE]
<1>1. /\ n.q = e.q /\ n.run = e.run /\ n.bus = e.bus /\ n.sk = e.sk
      /\ n.fails = e.fails /\ n.err = e.err
  BY DEF Become
<1> HIDE DEF n
<1>2. Firm(n, chip')
  <2> DEFINE ch == chip'
  <2>1. Firm(e, ch)
    OBVIOUS
  <2> HIDE DEF ch
  <2>2. Firm(n, ch)
    BY <1>1, <2>1, SameFirm
  <2>3. QED
    BY <2>2 DEF ch
<1>3. QED
  BY <1>2 DEF FirmInv, Now, n

\* What was fetched is as true after a part that keeps the balance and the status.
LEMMA FirmOn ==
    ASSUME NEW d, Driver(d), Busy(d), NEW ch, Sent(d, ch), Firm(d, ch),
           NEW e, Even(d, e), Neat(e), SameStatus(d, e)
    PROVE  Firm(e, ch)
<1>1. Fresh(e, ch)
  BY DEF Firm, Fresh, SameStatus
<1>2. CASE e.bus = "done"
  <2>1. d.bus = "done" /\ e.run = d.run
    BY <1>2 DEF Even
  <2> DEFINE s == d.run.sn
  <2>2. ASSUME d.run.cmd_type = "READ_SOC", Well(e), e.sk[s].SR # "CLOSED",
               e.sk[s].IR \cap Outcomes # {}
        PROVE  Gap(e, s) = 1 /\ ~(Outcomes \subseteq e.sk[s].IR)
    <3>1. s \in Sock
      BY <2>2, <2>1 DEF Busy, Idle, WellFormed
    <3>2. Well(d) /\ NoClear(d.q)
      BY <2>2 DEF Even, Sent
    <3>3. Gap(e, s) = Gap(d, s) /\ e.sk[s].IR = d.sk[s].IR
      BY <2>2, <3>1, <3>2 DEF Even
    <3>4. d.sk[s].SR # "CLOSED"
      BY <2>2, <3>1 DEF SameStatus
    <3>5. QED
      BY <2>1, <2>2, <3>2, <3>3, <3>4 DEF Firm, Fetched
  <2>3. ASSUME d.run.cmd_type = "READ_REG", "SR" \in DOMAIN d.run.val
        PROVE  /\ d.run.val.SR = "CLOSED" => ch[s].SR = "CLOSED"
               /\ e.sk[s].SR = "CLOSED" => d.run.val.SR = "CLOSED"
    <3>1. s \in Sock
      BY <2>3, <2>1 DEF Busy, Idle, WellFormed
    <3>2. QED
      BY <2>1, <2>3, <3>1 DEF Firm, Fetched, SameStatus
  <2>4. Fetched(e, ch)
    BY <2>1, <2>2, <2>3 DEF Fetched
  <2>5. QED
    BY <1>1, <2>4 DEF Firm
<1>3. CASE e.bus # "done"
  BY <1>1, <1>3 DEF Firm, Fetched
<1>4. QED
  BY <1>2, <1>3

\* queuePushFront of a READ_SIR fills nothing.
LEMMA FrontNeat ==
    ASSUME NEW d, Driver(d), Busy(d), Neat(d), NEW e, e = PushFront(d, ReadSir)
    PROVE  Neat(e) /\ SameStatus(d, e)
<1> DEFINE c == ReadSir
<1>1. WellFormed(c) /\ c.cmd_type = "READ_SIR"
  BY DEF ReadSir, Cmd, WellFormed, IsCommandWrite, Types, Fields
<1>2. e = IF d.q = <<>> /\ Idle(d) THEN Start([d EXCEPT !.q = <<c>>]) ELSE InFront(d, c)
  BY DEF PushFront
<1> HIDE DEF c
<1>3. CASE d.q = <<>> /\ Idle(d)
  <2> DEFINE f == [d EXCEPT !.q = <<c>>]
  <2>1. e = Start(f)
    BY <1>2, <1>3
  <2>2. /\ DOMAIN d = DriverFields /\ Shadows(d.sk) /\ d.fails \in BOOLEAN
        /\ d.err \in Nat /\ d.hal \in BOOLEAN
    BY DEF Driver, DriverFields
  <2>3. /\ DOMAIN f = DriverFields /\ f.q = <<c>> /\ f.sk = d.sk /\ f.bus = d.bus
        /\ f.err = d.err /\ f.hal = d.hal /\ f.fails = d.fails
    BY <2>2 DEF DriverFields
  <2> HIDE DEF f
  <2>4. Queue(<<c>>)
    BY <1>1, OneCommand
  <2>5. Driver(f)
    BY <2>2, <2>3, <2>4 DEF Driver, DriverFields
  <2>6. f.bus = "none"
    BY <1>3, <2>3 DEF Busy
  <2>7. Line(f) = <<c>>
    BY <2>3, <2>4, <2>6, JoinedWithNothing DEF Line
  <2>8. \A s : NoFill(<<c>>, s)
    BY <1>1, FillsOfOne
  <2>9. \A s, sk : Fits(Line(f), s, sk)
    BY <2>4, <2>7, <2>8, FillsNothing
  <2>10. Neat(f)
    BY <2>3, <2>9 DEF Neat
  <2>11. Neat(e) /\ SameStatus(f, e)
    BY <2>1, <2>5, <2>6, <2>10, StartNeat
  <2>12. QED
    BY <2>3, <2>11 DEF SameStatus
<1>4. CASE ~(d.q = <<>> /\ Idle(d))
  <2>1. e = InFront(d, c)
    BY <1>2, <1>4
  <2>2. c.cmd_type # "WRITE_BUF"
    BY <1>1
  <2>3. QED
    BY <1>1, <2>1, <2>2, InFrontNeat
<1>5. QED
  BY <1>3, <1>4

\* The timer restarts a bus that stands still, and queues commands that fill nothing.
LEMMA TimerFirm ==
    ASSUME NEW d, NEW ch, Driver(d), Busy(d), Sent(d, ch), Firm(d, ch),
           NEW e, e = PushBacks(Restarted(d), TimerCommands)
    PROVE  Firm(e, ch)
<1> DEFINE l == TimerCommands
           f == Restarted(d)
<1>1. Queue(l) /\ l # <<>> /\ (\A s : NoFill(l, s)) /\ NoClear(l) /\ \A s : Sends(l, s) = 0
  BY TimerQueue, TimerSends, TimerFits
<1>2. e = PushBacks(f, l)
  OBVIOUS
<1> HIDE DEF l
<1>3. \/ f = d
      \/ Idle(d) /\ d.q # <<>> /\ f = Start(d)
  BY DEF Restarted
<1> HIDE DEF f
<1>4. \A s, sk : Fits(l, s, sk)
  BY <1>1, FillsNothing
<1>5. SendShadows(d.sk) /\ Neat(d) /\ Segmented(d.sk)
  BY DEF Sent, Firm, Neat
<1>6. CASE f = d
  <2>1. e = PushBacks(d, l)
    BY <1>2, <1>6
  <2>2. SameOrders(d, d) /\ \A t \in Sock : Sends(l, t) = Bit(d.sk[t].is_sending) - Bit(d.sk[t].is_sending)
    BY <1>1 DEF SameOrders, Driver, DriverFields, Bit
  <2>3. Even(d, e)
    BY <1>1, <1>5, <2>1, <2>2, QueuedEven
  <2>4. Well(d) => \A s \in Sock : d.sk[s].SR # "CLOSED" =>
                       Fits(Line(d), s, d.sk[s]) /\ Fits(l, s, d.sk[s])
    BY <1>4, <1>5 DEF Neat
  <2>5. Neat(e) /\ SameStatus(d, e)
    BY <1>1, <1>5, <2>1, <2>2, <2>4, QueuedNeat
  <2>6. QED
    BY <2>3, <2>5, FirmOn
<1>7. CASE Idle(d) /\ d.q # <<>> /\ f = Start(d)
  <2>1. Driver(f) /\ Busy(f) /\ f.sk = d.sk /\ f.bus # "done"
    <3>1. PICK x : x = chip
      OBVIOUS
    <3>2. QED
      BY <1>7, <3>1, Started
  <2>2. ~Well(f)
    <3>1. d.err # 0
      BY <1>7 DEF Busy
    <3>2. QED
      BY <1>7, <3>1, StartIs DEF Well
  <2>3. e.sk = f.sk /\ ~Well(e)
    BY <1>1, <1>2, <2>1, <2>2, PushBacksEven
  <2>4. Neat(e)
    BY <1>5, <2>1, <2>3 DEF Neat
  <2>5. Fresh(e, ch)
    BY <2>1, <2>3 DEF Firm, Fresh
  <2>6. e.bus # "done"
    <3>1. SameOrders(f, f) /\ SendShadows(f.sk)
      BY <1>5, <2>1 DEF SameOrders, Driver, DriverFields
    <3>2. \A t \in Sock : Sends(l, t) = Bit(f.sk[t].is_sending) - Bit(f.sk[t].is_sending)
      BY <1>1 DEF Bit
    <3>3. Even(f, e)
      BY <1>1, <1>2, <2>1, <3>1, <3>2, QueuedEven
    <3>4. QED
      BY <2>1, <3>3 DEF Even
  <2>7. QED
    BY <2>4, <2>5, <2>6 DEF Firm, Fetched
<1>8. QED
  BY <1>3, <1>6, <1>7

\* The interrupts: completion, error, EXTI and the timer.
LEMMA InterruptsFirm ==
    ASSUME NEW sole, Inv(sole), SentInv, FirmInv, Interrupts
    PROVE  FirmInv'
<1>1. chip' = chip
  BY DEF Interrupts, SpiComplete, SpiError, Exti, Timer
<1>2. CASE SpiComplete
  <2>1. PICK hal \in HalOutcomes : Become(Start(Handled(Now(hal)))) /\ bus = "done"
    BY <1>2 DEF SpiComplete
  <2> DEFINE d == Now(hal)
             e == Start(Handled(d))
  <2>2. Holds(d, chip, sole) /\ d.bus = "done" /\ Sent(d, chip) /\ Firm(d, chip)
    BY <2>1, HandlerStarts, SentStarts, FirmStarts
  <2>3. Become(e)
    BY <2>1
  <2> HIDE DEF d
  <2>4. Firm(e, chip)
    BY <2>2, CompletionFirm
  <2> HIDE DEF e
  <2>5. QED
    BY <1>1, <2>3, <2>4, FirmEnds
<1>3. CASE SpiError
  <2>1. Become(Failed(Now(TRUE))) /\ bus # "none"
    BY <1>3 DEF SpiError
  <2> DEFINE d == Now(TRUE)
             e == Failed(d)
  <2>2. Holds(d, chip, sole) /\ d.bus # "none" /\ Firm(d, chip)
    BY <2>1 DEF Inv, FirmInv, Now
  <2>3. Become(e)
    BY <2>1
  <2> HIDE DEF d
  <2>4. Driver(d) /\ WellFormed(d.run)
    BY <2>2 DEF Holds, Busy
  <2>5. e.sk = d.sk /\ e.err > 0 /\ e.bus = "none"
    BY <2>4, FailedKeeps
  <2> HIDE DEF e
  <2>6. Firm(e, chip)
    BY <2>2, <2>5 DEF Firm, Neat, Fresh, Fetched, Well
  <2>7. QED
    BY <1>1, <2>3, <2>6, FirmEnds
<1>4. CASE Exti
  <2>1. PICK hal \in HalOutcomes : Become(PushFront(Now(hal), ReadSir))
    BY <1>4 DEF Exti
  <2> DEFINE d == Now(hal)
             e == PushFront(d, ReadSir)
  <2>2. Driver(d) /\ Busy(d) /\ Sent(d, chip) /\ SendShadows(d.sk) /\ Firm(d, chip)
    BY HandlerStarts, SentStarts, FirmStarts DEF Holds, Sent
  <2>3. Become(e)
    BY <2>1
  <2> HIDE DEF d
  <2>4. Even(d, e)
    BY <2>2, FrontEven
  <2>5. Neat(e) /\ SameStatus(d, e)
    BY <2>2, FrontNeat DEF Firm
  <2> HIDE DEF e
  <2>6. Firm(e, chip)
    BY <2>2, <2>4, <2>5, FirmOn
  <2>7. QED
    BY <1>1, <2>3, <2>6, FirmEnds
<1>5. CASE Timer
  <2>1. PICK hal \in HalOutcomes : Become(PushBacks(Restarted(Now(hal)), TimerCommands))
    BY <1>5 DEF Timer
  <2> DEFINE d == Now(hal)
             e == PushBacks(Restarted(d), TimerCommands)
  <2>2. Driver(d) /\ Busy(d) /\ Sent(d, chip) /\ Firm(d, chip)
    BY HandlerStarts, SentStarts, FirmStarts DEF Holds
  <2>3. Become(e)
    BY <2>1
  <2> HIDE DEF d
  <2>4. Firm(e, chip)
    BY <2>2, TimerFirm
  <2> HIDE DEF e
  <2>5. QED
    BY <1>1, <2>3, <2>4, FirmEnds
<1>6. QED
  BY <1>2, <1>3, <1>4, <1>5 DEF Interrupts

\* The buffers of a socket change, and a segment may be appended to those to send.
LEMMA BuffersFirm ==
    ASSUME NEW d, NEW ch, Driver(d), Busy(d), Firm(d, ch), NEW s \in Sock, NEW e,
           e.q = d.q, e.run = d.run, e.bus = d.bus, e.err = d.err, e.fails = d.fails,
           DOMAIN e.sk[s] = DOMAIN d.sk[s], e.sk[s].IR = d.sk[s].IR, e.sk[s].SR = d.sk[s].SR,
           e.sk[s].is_sending = d.sk[s].is_sending,
           \/ e.sk[s].tx_buf_queue = d.sk[s].tx_buf_queue
           \/ \E seg : e.sk[s].tx_buf_queue = Append(d.sk[s].tx_buf_queue, seg),
           \A t \in Sock : t # s => e.sk[t] = d.sk[t]
    PROVE  Firm(e, ch)
<1>1. Neat(d) /\ Segmented(d.sk) /\ Fresh(d, ch) /\ Fetched(d, ch)
  BY DEF Firm, Neat
<1>2. Line(e) = Line(d) /\ Queue(Line(d))
  BY LineIs DEF Line
<1>3. Well(e) <=> Well(d)
  BY DEF Well
<1>4. \A t \in Sock : /\ e.sk[t].SR = d.sk[t].SR /\ e.sk[t].IR = d.sk[t].IR
                      /\ e.sk[t].is_sending = d.sk[t].is_sending
                      /\ DOMAIN e.sk[t] = DOMAIN d.sk[t]
  OBVIOUS
<1>5. Segs(d.sk[s].tx_buf_queue)
  BY <1>1 DEF Segmented
<1>6. /\ Segs(e.sk[s].tx_buf_queue)
      /\ d.sk[s].tx_buf_queue # <<>> => /\ e.sk[s].tx_buf_queue # <<>>
                                        /\ Head(e.sk[s].tx_buf_queue) = Head(d.sk[s].tx_buf_queue)
  <2>1. CASE e.sk[s].tx_buf_queue = d.sk[s].tx_buf_queue
    BY <1>5, <2>1
  <2>2. CASE \E seg : e.sk[s].tx_buf_queue = Append(d.sk[s].tx_buf_queue, seg)
    <3> DEFINE a == d.sk[s].tx_buf_queue
               b == e.sk[s].tx_buf_queue
    <3>1. PICK seg : b = Append(a, seg)
      BY <2>2
    <3>2. Segs(a)
      BY <1>5
    <3> HIDE DEF a, b
    <3>3. Segs(b) /\ (a # <<>> => b # <<>> /\ Head(b) = Head(a))
      BY <3>1, <3>2, SegsKept
    <3>4. QED
      BY <3>3 DEF a, b
  <2>3. QED
    BY <2>1, <2>2
<1>7. Segmented(e.sk)
  BY <1>1, <1>4, <1>6 DEF Segmented
<1>8. ASSUME Well(e), NEW t \in Sock, e.sk[t].SR # "CLOSED"  PROVE  Fits(Line(e), t, e.sk[t])
  <2>1. Fits(Line(d), t, d.sk[t])
    BY <1>1, <1>3, <1>4, <1>8 DEF Neat
  <2>2. CASE t = s
    <3>1. \A c : OfOldest(c, d.sk[s]) => OfOldest(c, e.sk[s])
      BY <1>4, <1>6 DEF OfOldest, Oldest
    <3>2. QED
      BY <1>2, <2>1, <2>2, <3>1 DEF Fits
  <2>3. CASE t # s
    BY <1>2, <2>1, <2>3
  <2>4. QED
    BY <2>2, <2>3
<1>9. Fresh(e, ch)
  BY <1>1, <1>4 DEF Fresh
<1>10. \A t \in Sock : Gap(e, t) = Gap(d, t)
  BY <1>2, <1>4 DEF Gap
<1>11. Fetched(e, ch)
  <2>1. d.bus = "done" /\ d.run.cmd_type \in {"READ_SOC", "READ_REG"} => d.run.sn \in Sock
    BY DEF Busy, Idle, WellFormed
  <2>2. QED
    BY <1>1, <1>3, <1>4, <1>10, <2>1 DEF Fetched
<1>12. QED
  BY <1>7, <1>8, <1>9, <1>11 DEF Firm, Neat

\* Sending and receiving what is pending keep the invariant.
LEMMA PendingFirm ==
    ASSUME NEW sole, NEW d, NEW ch, Holds(d, ch, sole), Sent(d, ch), Firm(d, ch), NEW s \in Sock
    PROVE  Firm(SendPending(d, s), ch) /\ Firm(ReceivePending(d, s), ch)
<1>1. Driver(d) /\ Busy(d) /\ SendShadows(d.sk) /\ Neat(d)
  BY DEF Holds, Sent, Firm
<1>2. \A e : e = SendPending(d, s) => Even(d, e) /\ Neat(e) /\ SameStatus(d, e)
  BY <1>1, SendPendingEven, SendPendingNeat
<1>3. \A e : e = ReceivePending(d, s) => Even(d, e) /\ Neat(e) /\ SameStatus(d, e)
  BY <1>1, ReceivePendingEven, ReceivePendingNeat
<1>4. QED
  BY <1>1, <1>2, <1>3, FirmOn

\* send and sendto.
LEMMA SendFirm ==
    ASSUME NEW sole, Inv(sole), SentInv, FirmInv, NEW s \in Sock, NEW len, NEW dst, Send(s, len, dst)
    PROVE  FirmInv'
<1>1. chip' = chip
  BY DEF Send
<1>a. PICK hal \in HalOutcomes : \E seg, buf :
          \/ Become(SendPending(Now(hal), s))
          \/ Become(SendPending([Now(hal) EXCEPT !.sk[s].tx_buf_queue = Append(@, seg),
                                                 !.sk[s].tx_buf = buf], s))
  BY DEF Send
<1>2. PICK seg, buf :
          \/ Become(SendPending(Now(hal), s))
          \/ Become(SendPending([Now(hal) EXCEPT !.sk[s].tx_buf_queue = Append(@, seg),
                                                 !.sk[s].tx_buf = buf], s))
  BY <1>a
<1> DEFINE d == Now(hal)
           e == [d EXCEPT !.sk[s].tx_buf_queue = Append(@, seg), !.sk[s].tx_buf = buf]
<1>3. Holds(d, chip, sole) /\ DOMAIN d = DriverFields /\ Sent(d, chip) /\ Firm(d, chip)
  BY HandlerStarts, SentStarts, FirmStarts
<1>4. Become(SendPending(d, s)) \/ Become(SendPending(e, s))
  BY <1>2
<1> HIDE DEF d
<1>5. DOMAIN d.sk = Sock /\ {"IR", "is_sending", "SR", "tx_buf_queue"} \subseteq DOMAIN d.sk[s]
  BY <1>3 DEF Holds, Driver, Shadows, Sent, SendShadows, Firm, Neat, Segmented
<1>6. /\ DOMAIN e = DriverFields /\ e.q = d.q /\ e.run = d.run /\ e.bus = d.bus
      /\ e.err = d.err /\ e.hal = d.hal /\ e.fails = d.fails
      /\ DOMAIN e.sk = DOMAIN d.sk /\ DOMAIN e.sk[s] = DOMAIN d.sk[s]
      /\ e.sk[s].CR = d.sk[s].CR /\ e.sk[s].is_receiving = d.sk[s].is_receiving
      /\ e.sk[s].IR = d.sk[s].IR /\ e.sk[s].is_sending = d.sk[s].is_sending
      /\ e.sk[s].SR = d.sk[s].SR
      /\ e.sk[s].tx_buf_queue = Append(d.sk[s].tx_buf_queue, seg)
      /\ \A t \in Sock : t # s => e.sk[t] = d.sk[t]
  BY <1>3, <1>5 DEF DriverFields
<1> HIDE DEF e
<1>7. Holds(e, chip, sole) /\ Sent(e, chip)
  BY <1>3, <1>6, BuffersHold, BuffersSent
<1>8. Firm(e, chip)
  <2>1. Driver(d) /\ Busy(d)
    BY <1>3 DEF Holds
  <2>2. \E x : e.sk[s].tx_buf_queue = Append(d.sk[s].tx_buf_queue, x)
    BY <1>6
  <2>3. /\ e.q = d.q /\ e.run = d.run /\ e.bus = d.bus /\ e.err = d.err /\ e.fails = d.fails
        /\ DOMAIN e.sk[s] = DOMAIN d.sk[s] /\ e.sk[s].IR = d.sk[s].IR /\ e.sk[s].SR = d.sk[s].SR
        /\ e.sk[s].is_sending = d.sk[s].is_sending
        /\ \A t \in Sock : t # s => e.sk[t] = d.sk[t]
    BY <1>6
  <2>4. QED
    BY <1>3, <2>1, <2>2, <2>3, BuffersFirm
<1>9. Firm(SendPending(d, s), chip') /\ Firm(SendPending(e, s), chip')
  BY <1>1, <1>3, <1>7, <1>8, PendingFirm
<1>10. QED
  BY <1>4, <1>9, FirmEnds

\* recv and recvfrom.
LEMMA RecvFirm ==
    ASSUME NEW sole, Inv(sole), SentInv, FirmInv, NEW s \in Sock, Recv(s) \/ RecvFrom(s)
    PROVE  FirmInv'
<1>1. chip' = chip
  BY DEF Recv, RecvFrom
<1>a. PICK hal \in HalOutcomes : \E new :
          \/ Become(ReceivePending(Now(hal), s))
          \/ Become(ReceivePending([Now(hal) EXCEPT !.sk[s].rx_buf_queue = new], s))
  BY DEF Recv, RecvFrom
<1>2. PICK new :
          \/ Become(ReceivePending(Now(hal), s))
          \/ Become(ReceivePending([Now(hal) EXCEPT !.sk[s].rx_buf_queue = new], s))
  BY <1>a
<1> DEFINE d == Now(hal)
           e == [d EXCEPT !.sk[s].rx_buf_queue = new]
<1>3. Holds(d, chip, sole) /\ DOMAIN d = DriverFields /\ Sent(d, chip) /\ Firm(d, chip)
  BY HandlerStarts, SentStarts, FirmStarts
<1>4. Become(ReceivePending(d, s)) \/ Become(ReceivePending(e, s))
  BY <1>2
<1> HIDE DEF d
<1>5. DOMAIN d.sk = Sock /\ {"IR", "is_sending", "SR", "tx_buf_queue"} \subseteq DOMAIN d.sk[s]
  BY <1>3 DEF Holds, Driver, Shadows, Sent, SendShadows, Firm, Neat, Segmented
<1>6. /\ DOMAIN e = DriverFields /\ e.q = d.q /\ e.run = d.run /\ e.bus = d.bus
      /\ e.err = d.err /\ e.hal = d.hal /\ e.fails = d.fails
      /\ DOMAIN e.sk = DOMAIN d.sk /\ DOMAIN e.sk[s] = DOMAIN d.sk[s]
      /\ e.sk[s].CR = d.sk[s].CR /\ e.sk[s].is_receiving = d.sk[s].is_receiving
      /\ e.sk[s].IR = d.sk[s].IR /\ e.sk[s].is_sending = d.sk[s].is_sending
      /\ e.sk[s].SR = d.sk[s].SR /\ e.sk[s].tx_buf_queue = d.sk[s].tx_buf_queue
      /\ \A t \in Sock : t # s => e.sk[t] = d.sk[t]
  BY <1>3, <1>5 DEF DriverFields
<1> HIDE DEF e
<1>7. Holds(e, chip, sole) /\ Sent(e, chip)
  BY <1>3, <1>6, BuffersHold, BuffersSent
<1>8. Firm(e, chip)
  <2>1. Driver(d) /\ Busy(d)
    BY <1>3 DEF Holds
  <2>2. QED
    BY <1>3, <1>6, <2>1, BuffersFirm
<1>9. Firm(ReceivePending(d, s), chip') /\ Firm(ReceivePending(e, s), chip')
  BY <1>1, <1>3, <1>7, <1>8, PendingFirm
<1>10. QED
  BY <1>4, <1>9, FirmEnds

\* A transfer has moved its bytes: its command is no longer on its way, and what was
\* fetched is what the chip holds.
LEMMA TransferFirm ==
    ASSUME NEW sole, NEW d, NEW ch, Driver(d), Busy(d), Firm(d, ch), d.bus \in {"shift", "poll"},
           NEW e, NEW new, Holds(e, new, sole), Sent(e, new),
           e.q = d.q, e.bus = "done", e.fails = d.fails, e.err = d.err,
           \A t \in Sock : /\ {"SR", "tx_buf_queue"} \subseteq DOMAIN e.sk[t]
                           /\ e.sk[t].tx_buf_queue = d.sk[t].tx_buf_queue
                           /\ e.sk[t].is_sending = d.sk[t].is_sending
                           /\ new[t].SR = ch[t].SR
                           /\ e.sk[t].SR = d.sk[t].SR \/ e.sk[t].SR = new[t].SR,
           e.run.cmd_type = "READ_SOC" => /\ e.sk[e.run.sn].IR = new[e.run.sn].IR
                                          /\ e.sk[e.run.sn].SR = new[e.run.sn].SR,
           e.run.cmd_type = "READ_REG" /\ "SR" \in DOMAIN e.run.val =>
               e.run.val.SR = new[e.run.sn].SR
    PROVE  Firm(e, new)
<1>1. Neat(d) /\ Segmented(d.sk) /\ Fresh(d, ch)
  BY DEF Firm, Neat
<1>2. \A t \in Sock : /\ e.sk[t].SR = "CLOSED" => new[t].SR = "CLOSED"
                      /\ d.sk[t].SR = "CLOSED" => e.sk[t].SR = "CLOSED"
  BY <1>1 DEF Fresh
<1>3. Driver(e) /\ Busy(e) /\ Queue(d.q) /\ Queue(Line(d))
  BY LineIs DEF Holds
<1>4. Line(e) = d.q
  BY <1>3, JoinedWithNothing DEF Line
<1>5. Well(e) <=> Well(d)
  BY DEF Well
<1>6. ASSUME Well(e), NEW t \in Sock, e.sk[t].SR # "CLOSED"  PROVE  Fits(Line(e), t, e.sk[t])
  <2>1. Fits(Line(d), t, d.sk[t])
    BY <1>1, <1>2, <1>5, <1>6 DEF Neat
  <2>2. Fits(d.q, t, d.sk[t])
    <3>1. CASE d.bus = "shift"
      <4>1. Line(d) = <<d.run>> \o d.q /\ Queue(<<d.run>>)
        BY <3>1, LineIs
      <4>2. QED
        BY <1>3, <2>1, <4>1, FitsJoined
    <3>2. CASE d.bus # "shift"
      <4>1. Line(d) = d.q
        BY <3>2, LineIs
      <4>2. QED
        BY <2>1, <4>1
    <3>3. QED
      BY <3>1, <3>2
  <2>3. Fits(d.q, t, e.sk[t])
    BY <1>3, <2>2, FillsNothing
  <2>4. QED
    BY <1>4, <2>3
<1>7. Segmented(e.sk)
  BY <1>1 DEF Segmented
<1>8. Fresh(e, new)
  BY <1>2 DEF Fresh
<1>9. Fetched(e, new)
  <2> DEFINE s == e.run.sn
  <2>1. ASSUME e.run.cmd_type = "READ_SOC", Well(e), e.sk[s].SR # "CLOSED",
               e.sk[s].IR \cap Outcomes # {}
        PROVE  Gap(e, s) = 1 /\ ~(Outcomes \subseteq e.sk[s].IR)
    <3>1. s \in Sock
      BY <1>3, <2>1 DEF Busy, Idle, WellFormed
    <3>2. ForUse(new[s]) /\ SentFor(e, new[s], s) /\ SendShadows(e.sk)
      BY <2>1, <3>1 DEF Sent
    <3>3. Covered(e, s) = {}
      BY DEF Covered
    <3>4. ~(new[s].IR \cap Outcomes \subseteq Covered(e, s))
      BY <2>1, <3>3
    <3>5. Gap(e, s) = 1
      BY <1>3, <3>1, <3>2, <3>4, OutcomeAlone
    <3>6. QED
      BY <2>1, <3>2, <3>5 DEF SentFor
  <2>2. ASSUME e.run.cmd_type = "READ_REG", "SR" \in DOMAIN e.run.val
        PROVE  /\ e.run.val.SR = "CLOSED" => new[s].SR = "CLOSED"
               /\ e.sk[s].SR = "CLOSED" => e.run.val.SR = "CLOSED"
    <3>1. s \in Sock
      BY <1>3, <2>2 DEF Busy, Idle, WellFormed
    <3>2. QED
      BY <1>2, <2>2, <3>1
  <2>3. QED
    BY <2>1, <2>2 DEF Fetched
<1>10. QED
  BY <1>6, <1>7, <1>8, <1>9 DEF Firm, Neat

\* The state a transfer ends in.
LEMMA TransferFirms ==
    ASSUME NEW sole, Inv(sole), FirmInv, Inv(sole)', SentInv', bus \in {"shift", "poll"}, bus' = "done",
           UNCHANGED <<command_queue, enqueueFails, failures>>,
           \A t \in Sock : /\ {"SR", "tx_buf_queue"} \subseteq DOMAIN sockets'[t]
                           /\ sockets'[t].tx_buf_queue = sockets[t].tx_buf_queue
                           /\ sockets'[t].is_sending = sockets[t].is_sending
                           /\ chip'[t].SR = chip[t].SR
                           /\ sockets'[t].SR = sockets[t].SR \/ sockets'[t].SR = chip'[t].SR,
           running_cmd'.cmd_type = "READ_SOC" =>
               /\ sockets'[running_cmd'.sn].IR = chip'[running_cmd'.sn].IR
               /\ sockets'[running_cmd'.sn].SR = chip'[running_cmd'.sn].SR,
           running_cmd'.cmd_type = "READ_REG" /\ "SR" \in DOMAIN running_cmd'.val =>
               running_cmd'.val.SR = chip'[running_cmd'.sn].SR
    PROVE  FirmInv'
<1> DEFINE d == Now(TRUE)
           e == [q |-> command_queue', run |-> running_cmd', bus |-> bus', sk |-> sockets',
                 fails |-> enqueueFails', err |-> failures', hal |-> TRUE]
           new == chip'
<1>1. /\ Driver(d) /\ Busy(d) /\ Firm(d, chip) /\ d.q = command_queue /\ d.run = running_cmd
      /\ d.bus = bus /\ d.sk = sockets /\ d.fails = enqueueFails /\ d.err = failures
  BY DEF Inv, Holds, FirmInv, Now
<1>2. /\ e.q = command_queue' /\ e.run = running_cmd' /\ e.bus = bus' /\ e.sk = sockets'
      /\ e.fails = enqueueFails' /\ e.err = failures'
  OBVIOUS
<1>3. Holds(e, new, sole) /\ Sent(e, new)
  BY DEF Inv, SentInv, Now
<1>4. \A t \in Sock : /\ {"SR", "tx_buf_queue"} \subseteq DOMAIN sockets'[t]
                      /\ sockets'[t].tx_buf_queue = sockets[t].tx_buf_queue
                      /\ sockets'[t].is_sending = sockets[t].is_sending
                      /\ new[t].SR = chip[t].SR
                      /\ sockets'[t].SR = sockets[t].SR \/ sockets'[t].SR = new[t].SR
  OBVIOUS
<1>5. /\ running_cmd'.cmd_type = "READ_SOC" =>
             /\ sockets'[running_cmd'.sn].IR = new[running_cmd'.sn].IR
             /\ sockets'[running_cmd'.sn].SR = new[running_cmd'.sn].SR
      /\ running_cmd'.cmd_type = "READ_REG" /\ "SR" \in DOMAIN running_cmd'.val =>
             running_cmd'.val.SR = new[running_cmd'.sn].SR
  OBVIOUS
<1> HIDE DEF d, e, new
<1>6. Firm(e, new)
  <2>1. /\ e.q = d.q /\ e.fails = d.fails /\ e.err = d.err /\ e.bus = "done"
        /\ d.bus \in {"shift", "poll"}
    BY <1>1, <1>2
  <2>2. \A t \in Sock : /\ {"SR", "tx_buf_queue"} \subseteq DOMAIN e.sk[t]
                        /\ e.sk[t].tx_buf_queue = d.sk[t].tx_buf_queue
                        /\ e.sk[t].is_sending = d.sk[t].is_sending
                        /\ new[t].SR = chip[t].SR
                        /\ e.sk[t].SR = d.sk[t].SR \/ e.sk[t].SR = new[t].SR
    BY <1>1, <1>2, <1>4
  <2>3. /\ e.run.cmd_type = "READ_SOC" => /\ e.sk[e.run.sn].IR = new[e.run.sn].IR
                                          /\ e.sk[e.run.sn].SR = new[e.run.sn].SR
        /\ e.run.cmd_type = "READ_REG" /\ "SR" \in DOMAIN e.run.val =>
               e.run.val.SR = new[e.run.sn].SR
    BY <1>2, <1>5
  <2>4. QED
    BY <1>1, <1>3, <2>1, <2>2, <2>3, TransferFirm
<1>7. QED
  BY <1>6 DEF FirmInv, Now, e, new

\* What is known of the sockets when a transfer moves its bytes.
LEMMA FirmSockets ==
    ASSUME FirmInv
    PROVE  \A t \in Sock : {"SR", "tx_buf_queue"} \subseteq DOMAIN sockets[t]
  BY DEF FirmInv, Firm, Neat, Segmented, Now

\* Registers and buffers are written.
LEMMA WritesFirm ==
    ASSUME NEW sole, SureWrites, Inv(sole), SentInv, FirmInv, Inv(sole)', SentInv', TransferWriteReg \/ TransferWriteBuf
    PROVE  FirmInv'
<1>1. /\ bus = "shift" /\ bus' = "done" /\ running_cmd.cmd_type \in {"WRITE_REG", "WRITE_BUF"}
      /\ UNCHANGED <<command_queue, enqueueFails, failures, running_cmd, sockets>>
  BY DEF TransferWriteReg, TransferWriteBuf, Shifting
<1>2. \A t \in Sock : chip'[t].SR = chip[t].SR
  BY WritesCarry
<1>3. \A t \in Sock : /\ {"SR", "tx_buf_queue"} \subseteq DOMAIN sockets'[t]
                      /\ sockets'[t].tx_buf_queue = sockets[t].tx_buf_queue
                      /\ sockets'[t].is_sending = sockets[t].is_sending
                      /\ chip'[t].SR = chip[t].SR
                      /\ sockets'[t].SR = sockets[t].SR \/ sockets'[t].SR = chip'[t].SR
  BY <1>1, <1>2, FirmSockets
<1>4. running_cmd'.cmd_type # "READ_SOC" /\ running_cmd'.cmd_type # "READ_REG"
  BY <1>1
<1>5. QED
  BY <1>1, <1>3, <1>4, TransferFirms

\* Registers are read into the command's own buffer.
LEMMA FetchesFirm ==
    ASSUME NEW sole, Inv(sole), SentInv, FirmInv, Inv(sole)', SentInv',
           TransferReadReg \/ TransferReadSir \/ TransferCheckRcv \/ TransferCheckTxFsr
    PROVE  FirmInv'
<1>1. PICK type, val : /\ type \in {"READ_REG", "READ_SIR", "CHECK_RCV", "CHECK_TX_FSR"}
                       /\ Fetch(type, val)
                       /\ type = "READ_REG" /\ "SR" \in DOMAIN val =>
                              val.SR = chip[running_cmd.sn].SR
  <2>1. CASE TransferReadReg
    <3> DEFINE regs == Shadow(chip[running_cmd.sn])
               val  == [r \in DOMAIN running_cmd.val |-> regs[r]]
    <3>1. Fetch("READ_REG", val)
      BY <2>1 DEF TransferReadReg
    <3>2. regs.SR = chip[running_cmd.sn].SR
      BY DEF Shadow
    <3> HIDE DEF regs
    <3>3. "SR" \in DOMAIN val => val.SR = chip[running_cmd.sn].SR
      BY <3>2
    <3> HIDE DEF val
    <3>4. QED
      BY <3>1, <3>3
  <2>2. CASE TransferReadSir
    BY <2>2 DEF TransferReadSir
  <2>3. CASE TransferCheckRcv
    BY <2>3 DEF TransferCheckRcv
  <2>4. CASE TransferCheckTxFsr
    BY <2>4 DEF TransferCheckTxFsr
  <2>5. QED
    BY <2>1, <2>2, <2>3, <2>4
<1>2. /\ running_cmd.cmd_type = type /\ bus = "shift" /\ bus' = "done"
      /\ running_cmd' = [running_cmd EXCEPT !.val = val, !.hdr = FALSE]
      /\ UNCHANGED <<command_queue, enqueueFails, failures, sockets, chip>>
  BY <1>1 DEF Fetch, Shifting
<1>3. WellFormed(running_cmd)
  BY <1>2, TransferStarts
<1>4. running_cmd'.cmd_type = type /\ running_cmd'.sn = running_cmd.sn /\ running_cmd'.val = val
  BY <1>2, <1>3 DEF WellFormed, Fields
<1>5. \A t \in Sock : /\ {"SR", "tx_buf_queue"} \subseteq DOMAIN sockets'[t]
                      /\ sockets'[t].tx_buf_queue = sockets[t].tx_buf_queue
                      /\ sockets'[t].is_sending = sockets[t].is_sending
                      /\ chip'[t].SR = chip[t].SR
                      /\ sockets'[t].SR = sockets[t].SR \/ sockets'[t].SR = chip'[t].SR
  BY <1>2, FirmSockets
<1>6. running_cmd'.cmd_type # "READ_SOC"
  BY <1>1, <1>4
<1>7. running_cmd'.cmd_type = "READ_REG" /\ "SR" \in DOMAIN running_cmd'.val =>
          running_cmd'.val.SR = chip'[running_cmd'.sn].SR
  BY <1>1, <1>2, <1>4
<1>8. QED
  BY <1>2, <1>5, <1>6, <1>7, TransferFirms

\* Received bytes land in the receive buffer, the block of socket registers in
\* the shadow registers; a poll changes nothing.
LEMMA ReadsFirm ==
    ASSUME NEW sole, Inv(sole), SentInv, FirmInv, Inv(sole)', SentInv', TransferReadBuf \/ TransferReadSoc \/ TransferPoll
    PROVE  FirmInv'
<1> DEFINE s == running_cmd.sn
<1>1. /\ bus \in {"shift", "poll"} /\ bus' = "done"
      /\ UNCHANGED <<command_queue, enqueueFails, failures, running_cmd, chip>>
      /\ bus = "poll" \/ running_cmd.cmd_type \in {"READ_BUF", "READ_SOC"}
  BY DEF TransferReadBuf, TransferReadSoc, TransferPoll, Shifting
<1>2. /\ WellFormed(running_cmd) /\ DOMAIN sockets = Sock
      /\ bus = "poll" => running_cmd.cmd_type = "WRITE_REG"
  BY <1>1, TransferStarts, SentTransferStarts DEF IsCommandWrite, Shadows
<1>3. s \in Sock
  BY <1>1, <1>2 DEF WellFormed
<1>4. \A t \in Sock : {"SR", "tx_buf_queue"} \subseteq DOMAIN sockets[t]
  BY FirmSockets
<1>5. SendShadows(sockets)
  BY <1>1, SentTransferStarts
<1>6. /\ \A t \in Sock : /\ {"SR", "tx_buf_queue"} \subseteq DOMAIN sockets'[t]
                         /\ sockets'[t].tx_buf_queue = sockets[t].tx_buf_queue
                         /\ sockets'[t].is_sending = sockets[t].is_sending
                         /\ sockets'[t].SR = sockets[t].SR \/ sockets'[t].SR = chip[t].SR
      /\ running_cmd.cmd_type = "READ_SOC" => /\ sockets'[s].IR = chip[s].IR
                                              /\ sockets'[s].SR = chip[s].SR
  <2>1. CASE TransferPoll
    <3>1. sockets' = sockets /\ running_cmd.cmd_type # "READ_SOC"
      BY <1>2, <2>1 DEF TransferPoll
    <3>2. QED
      BY <1>4, <3>1
  <2>2. CASE TransferReadBuf
    <3>1. PICK buf : sockets' = [sockets EXCEPT ![s].rx_buf = buf]
      BY <2>2 DEF TransferReadBuf
    <3>2. running_cmd.cmd_type # "READ_SOC"
      BY <2>2 DEF TransferReadBuf, Shifting
    <3>3. \A t \in Sock : /\ DOMAIN sockets'[t] = DOMAIN sockets[t]
                          /\ sockets'[t].is_sending = sockets[t].is_sending
                          /\ sockets'[t].tx_buf_queue = sockets[t].tx_buf_queue
                          /\ sockets'[t].SR = sockets[t].SR
      BY <1>2, <1>3, <1>4, <1>5, <3>1 DEF SendShadows
    <3>4. QED
      BY <1>4, <3>2, <3>3
  <2>3. CASE TransferReadSoc
    <3> DEFINE new == Overlay(Shadow(chip[s]), sockets[s])
    <3>1. sockets' = [sockets EXCEPT ![s] = new]
      BY <2>3 DEF TransferReadSoc
    <3>2. /\ DOMAIN Shadow(chip[s])
             = {"CR", "IR", "SR", "TX_FSR", "TX_WR", "RX_RSR", "RX_RD", "spi"}
          /\ Shadow(chip[s]).IR = chip[s].IR /\ Shadow(chip[s]).SR = chip[s].SR
      BY DEF Shadow
    <3>3. /\ {"IR", "SR", "is_sending", "tx_buf_queue"} \subseteq DOMAIN new
          /\ new.is_sending = sockets[s].is_sending
          /\ new.tx_buf_queue = sockets[s].tx_buf_queue
          /\ new.IR = chip[s].IR /\ new.SR = chip[s].SR
      BY <1>3, <1>4, <1>5, <3>2 DEF Overlay, SendShadows
    <3> HIDE DEF new
    <3>4. QED
      BY <1>2, <1>3, <1>4, <3>1, <3>3
  <2>4. QED
    BY <2>1, <2>2, <2>3
<1>7. \A t \in Sock : /\ {"SR", "tx_buf_queue"} \subseteq DOMAIN sockets'[t]
                      /\ sockets'[t].tx_buf_queue = sockets[t].tx_buf_queue
                      /\ sockets'[t].is_sending = sockets[t].is_sending
                      /\ chip'[t].SR = chip[t].SR
                      /\ sockets'[t].SR = sockets[t].SR \/ sockets'[t].SR = chip'[t].SR
  BY <1>1, <1>6
<1>8. running_cmd'.cmd_type # "READ_REG"
  BY <1>1, <1>2
<1>9. running_cmd'.cmd_type = "READ_SOC" =>
          /\ sockets'[running_cmd'.sn].IR = chip'[running_cmd'.sn].IR
          /\ sockets'[running_cmd'.sn].SR = chip'[running_cmd'.sn].SR
  BY <1>1, <1>6
<1>10. QED
  BY <1>1, <1>7, <1>8, <1>9, TransferFirms

\* The chip opens no closed socket.
LEMMA NetworkFirm ==
    ASSUME NEW sole, Inv(sole), SentInv, FirmInv, Network
    PROVE  FirmInv'
<1> DEFINE d == Now(TRUE)
<1>1. UNCHANGED driver
  BY DEF Network, Accept, SendDone, SendTimeout, PeerAck, PeerFin, Arrive, ChipOnly
<1>2. Become(d)
  BY <1>1 DEF Become, Now, driver
<1>3. Firm(d, chip) /\ Busy(d) /\ DOMAIN chip = Sock /\ \A s \in Sock : ForUse(chip[s])
  BY DEF Inv, SentInv, FirmInv, Holds, Sent, Chip
<1> HIDE DEF d
<1>4. PICK s \in Sock : Accept(s) \/ SendDone(s) \/ SendTimeout(s) \/ PeerAck(s)
                            \/ PeerFin(s) \/ \E len : Arrive(s, len)
  BY DEF Network
<1>5. PICK c : chip' = [chip EXCEPT ![s] = c] /\ (chip[s].SR = "CLOSED" => c.SR = "CLOSED")
  <2> DEFINE o == chip[s]
  <2>1. {"CR", "IR", "SR", "sending"} \subseteq DOMAIN o
    BY <1>3 DEF ForUse
  <2>2. CASE Accept(s)
    <3>1. chip' = [chip EXCEPT ![s] = AcceptSend(o)] \/ chip' = [chip EXCEPT ![s] = AcceptRecv(o)]
      BY <2>2 DEF Accept, ChipBecomes
    <3> HIDE DEF o
    <3>2. AcceptSend(o).SR = o.SR /\ AcceptRecv(o).SR = o.SR
      BY <2>1 DEF AcceptSend, AcceptRecv
    <3>3. QED
      BY <3>1, <3>2 DEF o
  <2>3. CASE SendDone(s)
    <3> DEFINE x == [o EXCEPT !.sending = FALSE, !.outbound = <<>>, !.IR = @ \cup {"SENDOK"},
                              !.acked = IF s \in Tcp THEN @ ELSE o.TX_RD]
    <3>1. chip' = [chip EXCEPT ![s] = x]
      BY <2>3 DEF SendDone, ChipBecomes
    <3> HIDE DEF o
    <3>2. x.SR = o.SR
      BY <2>1
    <3> HIDE DEF x
    <3>3. QED
      BY <3>1, <3>2 DEF o
  <2>4. CASE SendTimeout(s)
    <3> DEFINE x == [o EXCEPT !.sending = FALSE, !.outbound = <<>>, !.IR = @ \cup {"TIMEOUT"},
                              !.acked = o.TX_RD, !.SR = IF s \in Tcp THEN "CLOSED" ELSE @]
    <3>1. chip' = [chip EXCEPT ![s] = x]
      BY <2>4 DEF SendTimeout, ChipBecomes
    <3> HIDE DEF o
    <3>2. x.SR = IF s \in Tcp THEN "CLOSED" ELSE o.SR
      BY <2>1
    <3> HIDE DEF x
    <3>3. QED
      BY <3>1, <3>2 DEF o
  <2>5. CASE PeerAck(s)
    <3>1. chip' = [chip EXCEPT ![s] = [o EXCEPT !.acked = o.TX_RD]]
      BY <2>5 DEF PeerAck, ChipBecomes
    <3> HIDE DEF o
    <3>2. [o EXCEPT !.acked = o.TX_RD].SR = o.SR
      BY <2>1
    <3>3. QED
      BY <3>1, <3>2 DEF o
  <2>6. CASE PeerFin(s)
    <3>1. /\ chip' = [chip EXCEPT ![s] = [o EXCEPT !.SR = "CLOSE_WAIT", !.IR = @ \cup {"DISCON"}]]
          /\ o.SR # "CLOSED"
      BY <2>6 DEF PeerFin, ChipBecomes
    <3> HIDE DEF o
    <3>2. QED
      BY <3>1 DEF o
  <2>7. CASE \E len : Arrive(s, len)
    <3>1. /\ \E bytes : chip' = [chip EXCEPT ![s] = Deposit(o, bytes)]
          /\ o.SR # "CLOSED"
      BY <2>7 DEF Arrive, ChipBecomes
    <3> HIDE DEF o
    <3>2. QED
      BY <3>1 DEF o
  <2>8. QED
    BY <1>4, <2>2, <2>3, <2>4, <2>5, <2>6, <2>7
<1> DEFINE new == chip'
<1>6. \A t \in Sock : chip[t].SR = "CLOSED" => new[t].SR = "CLOSED"
  <2>1. TAKE t \in Sock
  <2>2. CASE t = s
    BY <1>3, <1>5, <2>2
  <2>3. CASE t # s
    BY <1>3, <1>5, <2>3
  <2>4. QED
    BY <2>2, <2>3
<1> HIDE DEF new
<1>7. Firm(d, new)
  BY <1>3, <1>6, ChipFirm
<1>8. QED
  BY <1>2, <1>7, FirmEnds DEF new

\* In the beginning nothing fills memory and no socket is closed.
LEMMA FirmAtStart == Init => FirmInv
<1> SUFFICES ASSUME Init PROVE FirmInv
  OBVIOUS
<1> DEFINE d == Now(TRUE)
           first(s) == Opened(IF s \in Tcp THEN "ESTABLISHED" ELSE "UDP")
           rest == [tx_buf |-> [a \in 0 .. TxBufLen - 1 |-> Junk], tx_buf_queue |-> <<>>,
                    rx_buf |-> [a \in 0 .. RxBufLen - 1 |-> Junk], rx_buf_queue |-> <<>>,
                    is_sending |-> FALSE, is_receiving |-> FALSE]
<1>1. d.q = <<>> /\ d.bus = "none" /\ d.sk = sockets
  BY DEF Now, Init
<1>2. sockets = [s \in Sock |-> Overlay(Shadow(first(s)), rest)]
  BY DEF Init
<1>3. /\ rest.tx_buf_queue = <<>>
      /\ DOMAIN rest = {"tx_buf", "tx_buf_queue", "rx_buf", "rx_buf_queue",
                        "is_sending", "is_receiving"}
  OBVIOUS
<1> HIDE DEF d, rest
<1>4. \A s : first(s).SR # "CLOSED"
  BY DEF Opened
<1>5. \A c : /\ DOMAIN Shadow(c) = {"CR", "IR", "SR", "TX_FSR", "TX_WR", "RX_RSR", "RX_RD", "spi"}
             /\ Shadow(c).SR = c.SR
  BY DEF Shadow
<1> HIDE DEF first
<1>6. \A s \in Sock : /\ {"SR", "tx_buf_queue"} \subseteq DOMAIN sockets[s]
                      /\ sockets[s].tx_buf_queue = <<>> /\ sockets[s].SR # "CLOSED"
  <2>1. TAKE s \in Sock
  <2>2. sockets[s] = Overlay(Shadow(first(s)), rest)
    BY <1>2
  <2> DEFINE a == Shadow(first(s))
  <2>3. /\ DOMAIN a = {"CR", "IR", "SR", "TX_FSR", "TX_WR", "RX_RSR", "RX_RD", "spi"}
        /\ a.SR # "CLOSED"
    BY <1>4, <1>5
  <2> HIDE DEF a
  <2>4. /\ DOMAIN Overlay(a, rest) = DOMAIN a \cup DOMAIN rest
        /\ Overlay(a, rest).SR = a.SR /\ Overlay(a, rest).tx_buf_queue = rest.tx_buf_queue
    BY <1>3, <2>3 DEF Overlay
  <2>5. QED
    BY <1>3, <2>2, <2>3, <2>4 DEF a
<1>7. Line(d) = <<>>
  BY <1>1, NoCommands, JoinedWithNothing DEF Line
<1>8. \A s, sk : Fits(<<>>, s, sk)
  BY NoCommands, FillsOfOne, FillsNothing
<1>9. Segmented(d.sk)
  BY <1>1, <1>6, SegsKept DEF Segmented
<1>10. Neat(d)
  BY <1>7, <1>8, <1>9 DEF Neat
<1>11. Fresh(d, chip) /\ Fetched(d, chip)
  BY <1>1, <1>6 DEF Fresh, Fetched
<1>12. QED
  BY <1>10, <1>11 DEF FirmInv, Firm, d

\* Every step keeps the invariant.
LEMMA FirmStep ==
    ASSUME NEW sole
    PROVE  SureWrites /\ Inv(sole) /\ SentInv /\ FirmInv /\ Inv(sole)' /\ SentInv' /\ [Next]_vars
             => FirmInv'
<1> SUFFICES ASSUME SureWrites, Inv(sole), SentInv, FirmInv, Inv(sole)', SentInv', [Next]_vars
             PROVE  FirmInv'
  OBVIOUS
<1>1. CASE Application
  <2>1. PICK s \in Sock : \/ \E len, dst : Send(s, len, dst)
                          \/ Recv(s) \/ RecvFrom(s)
    BY <1>1 DEF Application
  <2>2. QED
    BY <2>1, SendFirm, RecvFirm
<1>2. CASE Transfer
  BY <1>2, WritesFirm, FetchesFirm, ReadsFirm DEF Transfer
<1>3. CASE Interrupts
  BY <1>3, InterruptsFirm
<1>4. CASE Network
  BY <1>4, NetworkFirm
<1>5. CASE UNCHANGED vars
  <2> DEFINE d == Now(TRUE)
  <2>1. Become(d) /\ chip' = chip /\ Firm(d, chip)
    BY <1>5 DEF Become, Now, driver, vars, FirmInv
  <2> HIDE DEF d
  <2>2. QED
    BY <2>1, FirmEnds
<1>6. QED
  BY <1>1, <1>2, <1>3, <1>4, <1>5 DEF Next

\* The transfers on their way are those of the oldest segments.
LEMMA FirmInvFillsOldest ==
    ASSUME NEW sole, Inv(sole), FirmInv, failures = 0, ~enqueueFails
    PROVE  WriteBufIsOldest
<1> DEFINE d == Now(TRUE)
<1>1. /\ Driver(d) /\ Busy(d) /\ Firm(d, chip) /\ Well(d) /\ d.sk = sockets
      /\ Pending = Line(d)
  BY DEF Inv, FirmInv, Holds, Well, Now, Pending, Line
<1> HIDE DEF d
<1>2. Queue(Pending)
  BY <1>1, LineIs
<1> DEFINE q == Pending
<1>3. DOMAIN q = 1 .. Len(q)
  BY <1>2, QueueIsSequence
<1>4. \A s \in Sock : sockets[s].SR # "CLOSED" => Fits(q, s, sockets[s])
  BY <1>1 DEF Firm, Neat
<1>5. \A i \in 1 .. Len(q) : WellFormed(q[i])
  BY <1>2 DEF Queue
<1> HIDE DEF q
<1>6. ASSUME NEW i \in DOMAIN q, q[i].cmd_type = "WRITE_BUF", sockets[q[i].sn].SR # "CLOSED"
      PROVE  OfOldest(q[i], sockets[q[i].sn])
  <2>1. q[i].sn \in Sock
    BY <1>3, <1>5, <1>6 DEF WellFormed
  <2>2. QED
    BY <1>3, <1>4, <1>6, <2>1 DEF Fits, Fills
<1>7. QED
  BY <1>6 DEF WriteBufIsOldest, OfOldest, Oldest, q

\* sendPendingData, and the handling of SENDOK and TIMEOUT: as long as no transfer has
\* failed and the full queue has dropped no command, a transfer to the transmit memory of
\* an open socket is that of its oldest segment, which the application has not got back.
THEOREM FillsOldest ==
    ASSUME "WRITE_REG" \notin LateErrors
    PROVE  Spec => [](failures = 0 /\ ~enqueueFails => WriteBufIsOldest)
<1>0. Init => Inv(Sock)
  BY InvAtStart
<1>1. Inv(Sock) /\ [Next]_vars => Inv(Sock)'
  BY InvStep
<1>2. Inv(Sock) /\ SentInv /\ [Next]_vars => SentInv'
  BY SentStep DEF SureWrites
<1>3. Inv(Sock) /\ SentInv /\ FirmInv /\ Inv(Sock)' /\ SentInv' /\ [Next]_vars => FirmInv'
  BY FirmStep DEF SureWrites
<1>4. Inv(Sock) /\ FirmInv => (failures = 0 /\ ~enqueueFails => WriteBufIsOldest)
  BY FirmInvFillsOldest
<1>5. QED
  BY <1>0, <1>1, <1>2, <1>3, <1>4, SentAtStart, FirmAtStart, PTL DEF Spec
================================================================================
