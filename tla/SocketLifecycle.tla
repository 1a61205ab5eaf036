---------------------------- MODULE SocketLifecycle ----------------------------
(***************************************************************************)
(* socket, connect, disconnect and close (socket.cpp) with their polling   *)
(* loops (w5500.cpp), on top of the driver core and the data calls of      *)
(* W5500Driver.  One task owns each socket; its blocking call queues       *)
(* register commands one critical section at a time and then looks at the  *)
(* shadow status register until the chip is where it wants it, while       *)
(* interrupts, the chip and the network go on.  A socket is opened and     *)
(* closed several times, so that commands, flags and data of one life may  *)
(* reach the next.                                                         *)
(***************************************************************************)
EXTENDS W5500Driver

CONSTANTS
    MaxLives,       \* bound: calls of socket per socket
    MaxPolls,       \* bound: reads of Sn_SR queued at a time by a polling loop
    MaxQueued,      \* bound: commands waiting when the timer ticks
    PollTimeouts,   \* the polling loops may reach their time limits
    WhenSettled     \* the application opens a socket again only when nothing of
                    \* its previous life is left in the driver or in Sn_IR

ASSUME LifecycleAssumption ==
    MaxLives \in Nat /\ MaxPolls \in Nat \ {0} /\ MaxQueued \in Nat
    /\ {PollTimeouts, WhenSettled} \subseteq BOOLEAN

VARIABLES
    call,       \* per socket, the last blocking call: its name, what it returned
                \* ("running" while it is under way), the commands it still has
                \* to queue before it waits and whether it has asked for the
                \* status yet
    life        \* history: calls of socket and OPENs the chip carried out, what
                \* had been accepted and had arrived by then, and whether the
                \* connection came up and how often its end was signalled since

lifecycle == <<call, life>>
allvars == <<vars, lifecycle>>

-------------------------------------------------------------------------------
Idling(s) == call[s].ret # "running"
Begin(s, op, todo) ==
    call' = [call EXCEPT ![s] = [op |-> op, ret |-> "running", todo |-> todo, polled |-> FALSE]]
Return(s, ret) ==
    call' = [call EXCEPT ![s] = [op |-> @.op, ret |-> ret, todo |-> <<>>, polled |-> FALSE]]

Command(s, cr) == SetReg(s, [CR |-> cr])

\* What socket queues before it polls: the mode (with port and interrupt mask,
\* which nothing depends on, in one write), OPEN, and two reads for the pointers
\* that OPEN has set.
OpenCommands(s) ==
    <<SetReg(s, [MR |-> IF s \in Tcp THEN "TCP" ELSE "UDP"]), Command(s, "OPEN"),
      GetReg(s, {"TX_FSR", "TX_WR"}), GetReg(s, {"RX_RSR", "RX_RD"})>>

\* Nothing of the socket is queued, on the bus or flagged.
Settled(s) ==
    /\ command_queue = <<>> /\ bus = "none" /\ ~exti
    /\ chip[s].CR = "NONE" /\ chip[s].IR = {}

\* Mutant: the queues keep what they hold.
SocketCallKeepsQueues(s) ==
    /\ Idling(s) /\ life[s].calls < MaxLives
    /\ sockets[s].SR = "CLOSED"
    /\ WhenSettled => Settled(s)
    /\ sockets' = [sockets EXCEPT ![s] = [@ EXCEPT !.is_sending = FALSE, !.is_receiving = FALSE]]
    /\ Begin(s, "socket", OpenCommands(s))
    /\ life' = [life EXCEPT ![s].calls = @ + 1]
    /\ UNCHANGED <<command_queue, running_cmd, bus, enqueueFails, failures, chip, exti,
                   network>>

\* socket: the queues and flags of the previous life are cleared first.
SocketCall(s) ==
    /\ Idling(s) /\ life[s].calls < MaxLives
    /\ sockets[s].SR = "CLOSED"
    /\ WhenSettled => Settled(s)
    /\ sockets' = [sockets EXCEPT ![s] =
           [@ EXCEPT !.tx_buf_queue = <<>>, !.rx_buf_queue = <<>>,
                     !.is_sending = FALSE, !.is_receiving = FALSE]]
    /\ Begin(s, "socket", OpenCommands(s))
    /\ life' = [life EXCEPT ![s].calls = @ + 1]
    /\ UNCHANGED <<command_queue, running_cmd, bus, enqueueFails, failures, chip, exti,
                   network>>

Connect(s) ==
    /\ Idling(s) /\ s \in Tcp /\ sockets[s].SR = "INIT"
    /\ Begin(s, "connect", <<SetReg(s, [DIPR |-> 1, DPORT |-> 1]),
                             Command(s, "CONNECT")>>)
    /\ UNCHANGED <<vars, life>>

Disconnect(s) ==
    /\ Idling(s) /\ sockets[s].SR \in {"ESTABLISHED", "CLOSE_WAIT"}
    /\ Begin(s, "disconnect", <<Command(s, "DISCON")>>)
    /\ UNCHANGED <<vars, life>>

Close(s) ==
    /\ Idling(s) /\ life[s].calls > 0
    /\ Begin(s, "close", <<Command(s, "CLOSE")>>)
    /\ UNCHANGED <<vars, life>>

\* enqueueSetReg, enqueueGetReg: a full queue ends the call, else it goes on
\* to next.
QueueCommand(s, c, next) ==
    IF Full(Now(TRUE))
    THEN Return(s, "QUEUE_FULL") /\ UNCHANGED driver
    ELSE /\ \E hal \in HalOutcomes : Become(PushBacks(Now(hal), <<c>>))
         /\ call' = [call EXCEPT ![s] = next]

Enqueue(s) ==
    /\ call[s].todo # <<>> /\ QueueCommand(s, Head(call[s].todo), [call[s] EXCEPT !.todo = Tail(@)])
    /\ UNCHANGED <<chip, exti, network, life>>

-------------------------------------------------------------------------------
Wanted(s) ==
    CASE call[s].op = "socket" -> IF s \in Tcp THEN "INIT" ELSE "UDP"
      [] OTHER -> "CLOSED"

ReadStatus(s) == GetReg(s, {"SR"})

\* Bound on the reads of Sn_SR that wait in the queue.
PollBound(s) ==
    Cardinality({i \in DOMAIN command_queue : command_queue[i] = ReadStatus(s)}) < MaxPolls

\* The limits, seconds, are long for the bus: they pass when it is at rest and
\* the chip is not where it is wanted.
TimeLimit == PollTimeouts /\ command_queue = <<>> /\ bus = "none" /\ ~exti

\* Mutant: one reading is enough.
PollNoITOnce(s) ==
    /\ ~Idling(s) /\ call[s].op # "connect" /\ call[s].todo = <<>>
    /\ IF call[s].polled /\ command_queue = <<>> /\ bus = "none"
       THEN Return(s, "OK") /\ UNCHANGED driver
       ELSE PollBound(s) /\ QueueCommand(s, ReadStatus(s), [call[s] EXCEPT !.polled = TRUE])
    /\ UNCHANGED <<chip, exti, network, life>>

\* pollRegNoIT: the shadow is looked at before anything is read.
PollNoIT(s) ==
    /\ ~Idling(s) /\ call[s].op # "connect" /\ call[s].todo = <<>>
    /\ \/ /\ sockets[s].SR = Wanted(s)
          /\ Return(s, "OK") /\ UNCHANGED driver
       \/ /\ sockets[s].SR # Wanted(s) /\ PollBound(s)
          /\ QueueCommand(s, ReadStatus(s), [call[s] EXCEPT !.polled = TRUE])
       \/ /\ sockets[s].SR # Wanted(s)
          /\ TimeLimit /\ call[s].polled
          /\ Return(s, "TIMEOUT") /\ UNCHANGED driver
    /\ UNCHANGED <<chip, exti, network, life>>

\* Mutant: whatever follows SOCK_INIT is taken for a connection.
PollWithITAnyStatus(s) ==
    /\ ~Idling(s) /\ call[s].op = "connect" /\ call[s].todo = <<>>
    /\ sockets[s].SR # "INIT" /\ Return(s, "OK")
    /\ UNCHANGED <<vars, life>>

\* pollRegWithIT, which queues nothing: an interrupt must bring the status.
PollWithIT(s) ==
    /\ ~Idling(s) /\ call[s].op = "connect" /\ call[s].todo = <<>>
    /\ \/ /\ sockets[s].SR # "INIT"
          /\ Return(s, IF sockets[s].SR = "ESTABLISHED" THEN "OK" ELSE "TCP_TIMEOUT")
       \/ /\ sockets[s].SR = "INIT" /\ TimeLimit
          /\ Return(s, "TIMEOUT")
    /\ UNCHANGED <<vars, life>>

-------------------------------------------------------------------------------
(***************************************************************************)
(* The chip's side of a connection.  Flags in Sn_IR stay until the host    *)
(* clears them, whatever happens to the socket.                            *)
(***************************************************************************)
ChipSets(s, c) == ChipBecomes([chip EXCEPT ![s] = c])
NotHost == ChipOnly /\ UNCHANGED <<wire, arrived, call>>

AcceptOpen(s) ==
    LET c == chip[s]
    IN  /\ c.CR = "OPEN" /\ NotHost
        /\ ChipSets(s, Overlay([Opened(IF c.MR = "TCP" THEN "INIT" ELSE "UDP") EXCEPT
                                    !.IR = c.IR, !.tx_mem = c.tx_mem, !.rx_mem = c.rx_mem],
                                [MR |-> c.MR]))
        /\ life' = [life EXCEPT ![s] =
               [@ EXCEPT !.opens = @ + 1, !.accepted = Len(accepted[s]),
                         !.arrived = Len(arrived[s]), !.up = FALSE, !.ended = 0]]

AcceptConnect(s) ==
    LET c == chip[s]
    IN  /\ c.CR = "CONNECT" /\ NotHost /\ UNCHANGED life
        /\ ChipSets(s, [c EXCEPT !.CR = "NONE", !.SR = IF @ = "INIT" THEN "SYNSENT" ELSE @])

AcceptDiscon(s) ==
    LET c == chip[s]
    IN  /\ c.CR = "DISCON" /\ NotHost /\ UNCHANGED life
        /\ ChipSets(s, [c EXCEPT !.CR = "NONE", !.SR =
               IF @ \in {"ESTABLISHED", "CLOSE_WAIT"} THEN "FIN_WAIT" ELSE @])

AcceptClose(s) ==
    /\ chip[s].CR = "CLOSE" /\ NotHost /\ UNCHANGED life
    /\ ChipSets(s, [chip[s] EXCEPT !.CR = "NONE", !.SR = "CLOSED", !.sending = FALSE,
                                   !.outbound = <<>>])

Connected(s) ==
    /\ chip[s].SR = "SYNSENT" /\ NotHost
    /\ ChipSets(s, [chip[s] EXCEPT !.SR = "ESTABLISHED", !.IR = @ \cup {"CON"}])
    /\ life' = [life EXCEPT ![s].up = TRUE]

\* History: the peer's FIN is one end of a connection, CLOSED another.
NoteEnds ==
    life' = [s \in Sock |->
        IF chip[s].SR' # chip[s].SR /\ chip[s].SR' \in {"CLOSE_WAIT", "CLOSED"}
        THEN [life[s] EXCEPT !.ended = @ + 1] ELSE life[s]]

\* Nobody answers, or the peer refuses.
ConnectFails(s) ==
    /\ chip[s].SR = "SYNSENT" /\ NotHost
    /\ \E flag \in {"TIMEOUT", "DISCON"} :
         ChipSets(s, [chip[s] EXCEPT !.SR = "CLOSED", !.IR = @ \cup {flag}])
    /\ NoteEnds

\* The peer resets the connection.
PeerReset(s) ==
    /\ NetworkFaults /\ chip[s].SR \in {"ESTABLISHED", "CLOSE_WAIT"}
    /\ NotHost
    /\ ChipSets(s, [chip[s] EXCEPT !.SR = "CLOSED", !.IR = @ \cup {"DISCON"},
                                   !.sending = FALSE, !.outbound = <<>>])
    /\ NoteEnds

Disconnected(s) ==
    /\ chip[s].SR = "FIN_WAIT" /\ NotHost
    /\ ChipSets(s, [chip[s] EXCEPT !.SR = "CLOSED", !.IR = @ \cup {"DISCON"}])
    /\ NoteEnds

-------------------------------------------------------------------------------
LifeInit ==
    LET closed == Overlay(Opened("CLOSED"), [MR |-> "NONE"])
    IN  /\ command_queue = <<>> /\ running_cmd = IDLE_COMMAND /\ bus = "none"
        /\ chip = [s \in Sock |-> closed]
        /\ sockets = [s \in Sock |-> Overlay(Shadow(closed),
                         [tx_buf |-> [a \in 0 .. TxBufLen - 1 |-> Junk], tx_buf_queue |-> <<>>,
                          rx_buf |-> [a \in 0 .. RxBufLen - 1 |-> Junk], rx_buf_queue |-> <<>>,
                          is_sending |-> FALSE, is_receiving |-> FALSE])]
        /\ enqueueFails = FALSE /\ failures = 0 /\ exti = FALSE
        /\ accepted = [s \in Sock |-> <<>>] /\ wire = [s \in Sock |-> <<>>]
        /\ arrived = [s \in Sock |-> <<>>] /\ read = [s \in Sock |-> <<>>]
        /\ call = [s \in Sock |-> [op |-> "none", ret |-> "OK", todo |-> <<>>, polled |-> FALSE]]
        /\ life = [s \in Sock |-> [calls |-> 0, opens |-> 0, accepted |-> 0, arrived |-> 0,
                                   up |-> FALSE, ended |-> 0]]

\* Data calls are made by the task that owns the socket, so not during a call.
DataCall ==
    /\ \E s \in Sock :
         /\ Idling(s)
         /\ \/ \E len \in SendLens, dst \in IF s \in Tcp THEN {0} ELSE Dst : Send(s, len, dst)
            \/ Recv(s)
            \/ RecvFrom(s)
    /\ UNCHANGED lifecycle

Calls(s) ==
    SocketCall(s) \/ Connect(s) \/ Disconnect(s) \/ Close(s)

Waits(s) == Enqueue(s) \/ PollNoIT(s) \/ PollWithIT(s)

ConnectionSteps(s) ==
    \/ AcceptOpen(s) \/ AcceptConnect(s) \/ AcceptDiscon(s) \/ AcceptClose(s)
    \/ Connected(s) \/ ConnectFails(s) \/ Disconnected(s)

LifeNext ==
    \/ \E s \in Sock : Calls(s) \/ Waits(s) \/ ConnectionSteps(s) \/ PeerReset(s)
    \/ DataCall
    \/ (Transfer \/ SpiComplete \/ SpiError \/ Exti) /\ UNCHANGED lifecycle
    \/ Len(command_queue) <= MaxQueued /\ Timer /\ UNCHANGED lifecycle
    \/ Network /\ NoteEnds /\ UNCHANGED call

LifeSpec == LifeInit /\ [][LifeNext]_allvars

LifeFairness ==
    /\ WF_vars(Transfer \/ SpiComplete) /\ WF_vars(Exti) /\ WF_vars(Timer)
    /\ \A s \in Sock :
        /\ WF_allvars(Waits(s))
        /\ WF_vars(Accept(s) \/ SendDone(s)) /\ WF_vars(ConnectionSteps(s))
LifeFairSpec == LifeSpec /\ LifeFairness

-------------------------------------------------------------------------------
\* Messages of a stream of items, by their numbers.
Numbers(s, log, from) ==
    {IF s \in Tcp THEN log[i][1] ELSE log[i].data[1][1] : i \in from + 1 .. Len(log)}

\* What a call returns or the chip transmits belongs to the connection it is
\* returned or transmitted on, not to the socket's previous life.
LifetimesApart ==
    [][\A s \in Sock :
         /\ \A n \in Numbers(s, read[s]', Len(read[s])) : n > life[s].arrived
         /\ \A n \in Numbers(s, wire[s]', Len(wire[s])) : n > life[s].accepted]_allvars

\* connect reports success only when the connection came up, and a refusal only
\* when it did not or ended again.
ConnectTells ==
    [][\A s \in Sock :
         ~Idling(s) /\ call[s].op = "connect" =>
           /\ call[s].ret' = "OK" => life[s].up
           /\ call[s].ret' = "TCP_TIMEOUT" => life[s].ended > 0]_allvars

\* Every call returns, without a time limit.
CallsReturn == \A s \in Sock : ~Idling(s) ~> Idling(s)

Quiet(s) == Settled(s) /\ Idling(s)

\* When everything has come to rest, the chip is where the last call left it.
LastCallHolds ==
    \A s \in Sock : Quiet(s) /\ call[s].ret = "OK" =>
        CASE call[s].op \in {"close", "disconnect"} -> chip[s].SR = "CLOSED"
          [] call[s].op = "socket" -> chip[s].SR \in {"INIT", "UDP"}
          [] OTHER -> TRUE

\* When everything has come to rest the shadow status is the chip's, unless the
\* end of the connection was signalled twice: one flag stands for both.
StatusKnown ==
    \A s \in Sock : Quiet(s) /\ chip[s].SR \notin {"SYNSENT", "FIN_WAIT"} =>
        \/ sockets[s].SR = chip[s].SR
        \/ life[s].ended > 1
===============================================================================
