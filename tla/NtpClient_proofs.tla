----------------------------- MODULE NtpClient_proofs -----------------------------
(***************************************************************************)
(* Proof that the time an NTP client returns is current.                   *)
(***************************************************************************)
EXTENDS NtpClient, TLAPS

ServerAnswer ==
    [src : Servers, size : {"fits"}, mode : {"server"},
     stratum : {"synchronized", "unsynchronized"}, transmit_time : 0 .. Word - 1]

NtpTyped ==
    /\ status \in {"UDP", "CLOSED"} /\ inbox \in Seq(Strays \cup ServerAnswer)
    /\ g_ntp_config \in [ntp_server : Servers \cup {"0.0.0.0"}, max_retries : 0 .. NtpRetryMod - 1]
    /\ g_ntp_initialized \in BOOLEAN /\ alone \in BOOLEAN
    /\ request \in [pc : {"idle", "send", "wait"}, retry : 0 .. NtpRetryMod - 1]
    /\ clock \in Nat /\ asked \in 0 .. clock

\* What a synchronized server sends at Unix time t
SentAt(t) == (t + NTP_EPOCH_OFFSET) % Word

\* Not an answer a synchronized server gave before or after the times given
Current(d, from, to) ==
    d \in ServerAnswer /\ d.stratum = "synchronized" =>
        \E t \in from .. to : d.transmit_time = SentAt(t)

\* While a call is under way that started alone, every answer in the socket was
\* given since then; a client that is initialized has the address of a server.
ServerKnown ==
    /\ g_ntp_initialized => g_ntp_config.ntp_server \in Servers
    /\ ~NtpIdle => g_ntp_initialized
InboxCurrent == ~NtpIdle /\ alone => \A k \in DOMAIN inbox : Current(inbox[k], asked, clock)
NtpInv == NtpTyped /\ ServerKnown /\ InboxCurrent

-------------------------------------------------------------------------------
\* A remainder is below its divisor.
LEMMA Remainder == \A a \in Nat, b \in Nat \ {0} : a % b \in 0 .. b - 1
  OBVIOUS

\* The end of a round keeps the types of the call under way, and ends the call or
\* starts the next round.
LEMMA AgainTyped ==
    ASSUME NtpTyped, NtpAgain
    PROVE  request' \in [pc : {"idle", "send"}, retry : 0 .. NtpRetryMod - 1]
<1> DEFINE next == (request.retry + 1) % NtpRetryMod
<1>0. request.retry + 1 \in Nat /\ NtpRetryMod \in Nat \ {0}
  <2>1. request.retry \in 0 .. NtpRetryMod - 1
    BY DEF NtpTyped
  <2>2. QED
    BY <2>1, NtpAssumption
<1>1. next \in 0 .. NtpRetryMod - 1
  BY <1>0, Remainder
<1>2. request' = [pc |-> "send", retry |-> next] \/ request' = NoRequest
  BY DEF NtpAgain, NtpReturns
<1>3. 0 \in 0 .. NtpRetryMod - 1
  BY NtpAssumption
<1> HIDE DEF next
<1>4. QED
  BY <1>1, <1>2, <1>3 DEF NoRequest

\* What the socket may hold after each thing that happens to it, and its status
LEMMA SocketTyped ==
    ASSUME NtpTyped,
           \/ \E newPort \in BOOLEAN : Opens(newPort) \/ OpenFails(newPort)
           \/ CloseFails \/ Lost \/ (inbox # <<>> /\ Receives)
           \/ \E request_ : Sends(request_)
           \/ \E d \in Strays \cup ServerAnswer : Arrives(d)
           \/ UNCHANGED network
    PROVE  status' \in {"UDP", "CLOSED"} /\ inbox' \in Seq(Strays \cup ServerAnswer)
<1> DEFINE D == Strays \cup ServerAnswer
<1>1. inbox \in Seq(D) /\ status \in {"UDP", "CLOSED"} /\ <<>> \in Seq(D)
  BY DEF NtpTyped
<1> HIDE DEF D
<1>2. inbox # <<>> => Tail(inbox) \in Seq(D)
  BY <1>1
<1>3. \A d \in D : Append(inbox, d) \in Seq(D)
  BY <1>1
<1>4. QED
  BY <1>1, <1>2, <1>3
     DEF D, Opens, OpenFails, CloseFails, Closes, Lost, Receives, Sends, Arrives, network

\* A server's answer is what NtpServe makes of a request, and shows the present time
\* if it comes from a synchronized server.
LEMMA ServedAnswer ==
    ASSUME NtpTyped, NtpServe
    PROVE  \E d \in ServerAnswer :
             /\ Arrives(d)
             /\ d.stratum = "synchronized" => d.transmit_time = SentAt(clock)
<1>1. PICK m \in flight, synchronized \in BOOLEAN :
        /\ m.server \in Servers
        /\ Answered(m, [src |-> m.server, size |-> "fits", mode |-> "server",
                        stratum |-> IF synchronized THEN "synchronized" ELSE "unsynchronized",
                        transmit_time |-> IF synchronized THEN (clock + NTP_EPOCH_OFFSET) % Word
                                          ELSE 0])
  BY DEF NtpServe
<1> DEFINE now == (clock + NTP_EPOCH_OFFSET) % Word
           d == [src |-> m.server, size |-> "fits", mode |-> "server",
                 stratum |-> IF synchronized THEN "synchronized" ELSE "unsynchronized",
                 transmit_time |-> IF synchronized THEN now ELSE 0]
<1>2. now \in 0 .. Word - 1 /\ 0 \in 0 .. Word - 1
  <2>1. clock + NTP_EPOCH_OFFSET \in Nat /\ Word \in Nat \ {0}
    BY NtpAssumption DEF NtpTyped
  <2>2. QED
    BY <2>1, Remainder
<1>3. Arrives(d) /\ now = SentAt(clock)
  BY <1>1 DEF Answered, SentAt
<1> HIDE DEF now
<1>4. d \in ServerAnswer
  BY <1>1, <1>2 DEF ServerAnswer
<1>5. d.stratum = "synchronized" => d.transmit_time = now
  BY DEF d
<1>6. QED
  BY <1>3, <1>4, <1>5

-------------------------------------------------------------------------------
\* Every step keeps the types.
LEMMA NtpTypedStep == NtpTyped /\ [NtpNext]_ntpVars => NtpTyped'
<1> SUFFICES ASSUME NtpTyped, [NtpNext]_ntpVars  PROVE  NtpTyped'
  OBVIOUS
<1> DEFINE Socket == status \in {"UDP", "CLOSED"} /\ inbox \in Seq(Strays \cup ServerAnswer)
           Rest == /\ g_ntp_config \in [ntp_server : Servers \cup {"0.0.0.0"},
                                        max_retries : 0 .. NtpRetryMod - 1]
                   /\ g_ntp_initialized \in BOOLEAN /\ alone \in BOOLEAN
                   /\ request \in [pc : {"idle", "send", "wait"}, retry : 0 .. NtpRetryMod - 1]
                   /\ clock \in Nat /\ asked \in 0 .. clock
<1>a. Rest
  BY DEF NtpTyped
<1>b. 0 \in 0 .. NtpRetryMod - 1 /\ NTP_MAX_RETRIES \in 0 .. NtpRetryMod - 1
      /\ NtpRetrySettings \subseteq 0 .. NtpRetryMod - 1
  BY NtpAssumption DEF NTP_MAX_RETRIES
<1>c. NoRequest \in [pc : {"idle", "send", "wait"}, retry : 0 .. NtpRetryMod - 1]
  BY <1>b DEF NoRequest
<1> HIDE DEF Socket
<1>d. SUFFICES Socket' /\ Rest'
  BY DEF Socket, NtpTyped
<1>1. CASE NtpInit
  <2>1. Socket'
    BY <1>1, SocketTyped DEF NtpInit, Socket
  <2>2. PICK server \in Servers, retries \in NtpRetrySettings :
          g_ntp_config' = [ntp_server |-> server,
                           max_retries |-> IF retries = 0 THEN NTP_MAX_RETRIES ELSE retries]
    BY <1>1 DEF NtpInit
  <2>3. (IF retries = 0 THEN NTP_MAX_RETRIES ELSE retries) \in 0 .. NtpRetryMod - 1
    BY <1>b
  <2>4. g_ntp_config' \in [ntp_server : Servers \cup {"0.0.0.0"}, max_retries : 0 .. NtpRetryMod - 1]
    BY <2>2, <2>3
  <2>5. g_ntp_initialized' \in BOOLEAN /\ UNCHANGED <<request, clock, asked, alone>>
    BY <1>1, <1>a DEF NtpInit
  <2>6. QED
    BY <2>1, <2>4, <2>5, <1>a
<1>2. CASE NtpSet
  <2>1. Socket'
    BY <1>2, SocketTyped DEF NtpSet, Socket
  <2>2. QED
    BY <1>2, <2>1, <1>a, <1>b DEF NtpSet, ntp_set_server, ntp_set_max_retries
<1>3. CASE NtpClose
  <2>1. Socket'
    BY <1>3, SocketTyped DEF NtpClose, Socket
  <2>2. QED
    BY <1>3, <2>1, <1>a DEF NtpClose
<1>4. CASE NtpGetTime
  <2>1. Socket'
    BY <1>4, SocketTyped DEF NtpGetTime, Socket
  <2>2. /\ UNCHANGED <<g_ntp_config, g_ntp_initialized, clock>>
        /\ asked' \in {clock, asked}
        /\ request' \in {request, [pc |-> "send", retry |-> 0]}
    BY <1>4 DEF NtpGetTime
  <2>3. alone' \in BOOLEAN
    BY <1>4, <1>a, Zenon DEF NtpGetTime, Fresh
  <2>4. request' \in [pc : {"idle", "send", "wait"}, retry : 0 .. NtpRetryMod - 1]
    BY <2>2, <1>a, <1>b
  <2>5. QED
    BY <2>1, <2>2, <2>3, <2>4, <1>a
<1>5. CASE NtpSend
  <2>1. Socket'
    BY <1>5, SocketTyped DEF NtpSend, Socket
  <2>2. request' \in [pc : {"idle", "send", "wait"}, retry : 0 .. NtpRetryMod - 1]
    BY <1>5, <1>a, <1>c, AgainTyped DEF NtpSend, NtpReturns
  <2>3. QED
    BY <1>5, <2>1, <2>2, <1>a DEF NtpSend
<1>6. CASE NtpPoll
  <2>1. Socket'
    BY <1>6, SocketTyped DEF NtpPoll, Receivable, Socket
  <2>2. QED
    BY <1>6, <2>1, <1>a, <1>c DEF NtpPoll, NtpReturns
<1>7. CASE NtpWaitOver
  <2>1. Socket'
    BY <1>7, SocketTyped DEF NtpWaitOver, Socket
  <2>2. QED
    BY <1>7, <2>1, <1>a, AgainTyped DEF NtpWaitOver
<1>8. CASE NtpNetwork
  <2>1. Socket'
    BY <1>8, SocketTyped, ServedAnswer DEF NtpNetwork, Stray, Socket
  <2>2. QED
    BY <1>8, <2>1, <1>a DEF NtpNetwork
<1>9. CASE NtpTick
  <2>1. Socket'
    BY <1>9, SocketTyped DEF NtpTick, Socket
  <2>2. QED
    BY <1>9, <2>1, <1>a DEF NtpTick
<1>10. CASE UNCHANGED ntpVars
  <2>1. Socket'
    BY <1>10, SocketTyped DEF ntpVars, Socket
  <2>2. QED
    BY <1>10, <2>1, <1>a DEF ntpVars
<1>11. QED
  BY <1>1, <1>2, <1>3, <1>4, <1>5, <1>6, <1>7, <1>8, <1>9, <1>10 DEF NtpNext

\* An initialized client has the address of a server, after every step.
LEMMA ServerKnownStep ==
    NtpTyped /\ ServerKnown /\ [NtpNext]_ntpVars => ServerKnown'
<1> SUFFICES ASSUME NtpTyped, ServerKnown, [NtpNext]_ntpVars  PROVE  ServerKnown'
  OBVIOUS
<1> USE DEF ServerKnown, NtpIdle
<1>1. CASE NtpInit
  BY <1>1 DEF NtpInit
<1>2. CASE NtpSet
  BY <1>2 DEF NtpSet, ntp_set_server, ntp_set_max_retries, NtpTyped
<1>3. CASE NtpClose
  BY <1>3 DEF NtpClose
<1>4. CASE NtpGetTime
  BY <1>4 DEF NtpGetTime
<1>5. CASE NtpSend \/ NtpPoll \/ NtpWaitOver
  BY <1>5 DEF NtpSend, NtpPoll, NtpWaitOver
<1>6. CASE NtpNetwork \/ NtpTick \/ UNCHANGED ntpVars
  BY <1>6 DEF NtpNetwork, NtpTick, ntpVars
<1>7. QED
  BY <1>1, <1>2, <1>3, <1>4, <1>5, <1>6 DEF NtpNext

\* What was current stays current while the call goes on and time passes.
LEMMA StaysCurrent ==
    ASSUME NtpTyped, asked' = asked, clock' \in {clock, clock + 1}, NEW d, Current(d, asked, clock)
    PROVE  Current(d, asked', clock')
<1>1. CASE ~(d \in ServerAnswer /\ d.stratum = "synchronized")
  BY <1>1 DEF Current
<1>2. CASE d \in ServerAnswer /\ d.stratum = "synchronized"
  <2>1. PICK t \in asked .. clock : d.transmit_time = SentAt(t)
    BY <1>2 DEF Current
  <2>2. t \in asked' .. clock'
    BY <2>1 DEF NtpTyped
  <2>3. QED
    BY <2>1, <2>2 DEF Current, SentAt
<1>3. QED
  BY <1>1, <1>2

\* Whatever is received during the call was sent since it started.
LEMMA InboxCurrentStep ==
    NtpTyped /\ ServerKnown /\ InboxCurrent /\ [NtpNext]_ntpVars => InboxCurrent'
<1> SUFFICES ASSUME NtpTyped, InboxCurrent, [NtpNext]_ntpVars, ~NtpIdle', alone'
             PROVE  \A k \in DOMAIN inbox' : Current(inbox'[k], asked', clock')
  BY Zenon DEF InboxCurrent
<1>a. ASSUME ~NtpIdle, UNCHANGED <<asked, alone>>, clock' \in {clock, clock + 1}, NEW d,
             NEW k \in DOMAIN inbox, d = inbox[k]
      PROVE  Current(d, asked', clock')
  BY <1>a, StaysCurrent DEF InboxCurrent
<1>b. inbox \in Seq(Strays \cup ServerAnswer)
  BY DEF NtpTyped
<1>1. CASE NtpInit \/ NtpSet \/ NtpClose
  BY <1>1 DEF NtpInit, NtpSet, NtpClose, NtpIdle
<1>2. CASE NtpGetTime
  <2>1. \A k \in DOMAIN inbox' : inbox'[k] \in Strays
    BY <1>2 DEF NtpGetTime, NtpIdle, Fresh
  <2>2. \A d \in Strays : d \notin ServerAnswer
    BY NetworkAssumption DEF ServerAnswer
  <2>3. QED
    BY <2>1, <2>2 DEF Current
<1>3. CASE NtpSend \/ NtpWaitOver \/ NtpTick \/ UNCHANGED ntpVars
  <2>1. UNCHANGED <<asked, alone, inbox>> /\ clock' \in {clock, clock + 1}
    BY <1>3 DEF NtpSend, NtpWaitOver, NtpTick, ntpVars, network, Sends
  <2>2. ~NtpIdle
    BY <1>3 DEF NtpSend, NtpWaitOver, NtpTick, ntpVars, NtpIdle
  <2>3. QED
    BY <2>1, <2>2, <1>a
<1>4. CASE NtpPoll
  <2>1. UNCHANGED <<asked, alone, clock>> /\ inbox # <<>> /\ inbox' = Tail(inbox)
    BY <1>4 DEF NtpPoll, Receivable, Receives
  <2>2. ~NtpIdle
    BY <1>4 DEF NtpPoll, NtpIdle
  <2>3. ASSUME NEW k \in DOMAIN inbox'  PROVE  Current(inbox'[k], asked', clock')
    <3>1. k + 1 \in DOMAIN inbox /\ inbox'[k] = inbox[k + 1]
      BY <2>1, <1>b
    <3>2. QED
      BY <3>1, <2>1, <2>2, <1>a
  <2>4. QED
    BY <2>3
<1>5. CASE NtpNetwork
  <2>1. UNCHANGED <<asked, alone, clock>> /\ ~NtpIdle
    BY <1>5 DEF NtpNetwork, NtpIdle
  <2>2. CASE Lost
    <3>1. UNCHANGED inbox
      BY <2>2 DEF Lost
    <3>2. QED
      BY <3>1, <2>1, <1>a
  <2>3. ASSUME NEW d \in Strays \cup ServerAnswer, Arrives(d),
               d \in ServerAnswer /\ d.stratum = "synchronized" => d.transmit_time = SentAt(clock)
        PROVE  \A k \in DOMAIN inbox' : Current(inbox'[k], asked', clock')
    <3>1. inbox' = Append(inbox, d)
      BY <2>3 DEF Arrives
    <3>2. Current(d, asked', clock')
      <4>1. clock \in asked' .. clock'
        BY <2>1 DEF NtpTyped
      <4>2. QED
        BY <4>1, <2>1, <2>3 DEF Current, SentAt
    <3>3. ASSUME NEW k \in DOMAIN inbox'  PROVE  Current(inbox'[k], asked', clock')
      <4>1. (k \in DOMAIN inbox /\ inbox'[k] = inbox[k]) \/ inbox'[k] = d
        BY <3>1, <1>b
      <4>2. QED
        BY <4>1, <3>2, <2>1, <1>a
    <3>4. QED
      BY <3>3
  <2>4. CASE Stray
    <3>1. PICK d \in Strays : Arrives(d)
      BY <2>4 DEF Stray
    <3>2. d \notin ServerAnswer
      BY NetworkAssumption DEF ServerAnswer
    <3>3. QED
      BY <3>1, <3>2, <2>3
  <2>5. CASE NtpServe
    BY <2>5, ServedAnswer, <2>3
  <2>6. QED
    BY <1>5, <2>2, <2>4, <2>5 DEF NtpNetwork
<1>6. QED
  BY <1>1, <1>2, <1>3, <1>4, <1>5 DEF NtpNext

-------------------------------------------------------------------------------
\* The client is typed, knows its server and holds current answers, always.
THEOREM NtpInvariant == NtpSpec => []NtpInv
<1>1. NetworkInit /\ NtpInitial => NtpInv
  <2> SUFFICES ASSUME NetworkInit, NtpInitial  PROVE  NtpInv
    OBVIOUS
  <2>1. 0 \in 0 .. NtpRetryMod - 1
    BY NtpAssumption
  <2>2. NtpTyped
    <3>1. g_ntp_config \in [ntp_server : Servers \cup {"0.0.0.0"}, max_retries : 0 .. NtpRetryMod - 1]
      BY <2>1 DEF NtpInitial
    <3>2. request \in [pc : {"idle", "send", "wait"}, retry : 0 .. NtpRetryMod - 1]
      BY <2>1 DEF NtpInitial, NoRequest
    <3>3. /\ status = "CLOSED" /\ inbox = <<>> /\ clock = 0 /\ asked = 0
          /\ g_ntp_initialized \in BOOLEAN /\ alone \in BOOLEAN
      BY DEF NetworkInit, NtpInitial
    <3>4. QED
      BY <3>1, <3>2, <3>3 DEF NtpTyped
  <2>3. NtpIdle /\ ~g_ntp_initialized
    BY DEF NtpInitial, NtpIdle, NoRequest
  <2>4. QED
    BY <2>2, <2>3 DEF NtpInv, ServerKnown, InboxCurrent
<1>2. NtpInv /\ [NtpNext]_ntpVars => NtpInv'
  BY NtpTypedStep, ServerKnownStep, InboxCurrentStep DEF NtpInv
<1>3. QED
  BY <1>1, <1>2, PTL DEF NtpSpec

\* A step that ends a call with a time has accepted an answer of the server.
LEMMA SuccessIsAnswer ==
    ASSUME NtpInv, [NtpNext]_ntpVars, timestamp' # timestamp, timestamp'.ret = "OK"
    PROVE  /\ NtpPoll /\ NtpAccepts(Head(inbox))
           /\ timestamp'.time = ntp_to_unix_timestamp(Head(inbox).transmit_time)
<1>1. ~NtpInit /\ ~NtpSet /\ ~NtpClose /\ ~NtpNetwork /\ ~NtpTick /\ ~UNCHANGED ntpVars
  BY DEF NtpInit, NtpSet, NtpClose, NtpNetwork, NtpTick, ntpVars
<1>g. ~NtpGetTime
  <2>1. NtpGetTime => timestamp' = [ret |-> "SOCKET_FAIL", time |-> 0]
    BY DEF NtpGetTime
  <2>2. QED
    BY <2>1
<1>2. ~NtpSend /\ ~NtpWaitOver
  <2>1. NtpSend \/ NtpWaitOver => timestamp'.ret \in {"NETWORK", "TIMEOUT"}
    BY DEF NtpSend, NtpWaitOver, NtpAgain, NtpReturns
  <2>2. QED
    BY <2>1
<1>3. NtpPoll
  BY <1>1, <1>g, <1>2 DEF NtpNext
<1>4. QED
  BY <1>3 DEF NtpPoll, NtpReturns

\* A time ntp_get_time returns lies between the start and the end of the call, for
\* every number of retries, every width of the seconds and every epoch.
THEOREM NtpTimeIsTrue == NtpSpec => NtpTimeIsCurrent
<1> DEFINE True == timestamp' # timestamp /\ timestamp'.ret = "OK" /\ alone
                   /\ clock + NTP_EPOCH_OFFSET < Word
                   => timestamp'.time \in asked .. clock
<1>1. ASSUME NtpInv, [NtpNext]_ntpVars, timestamp' # timestamp, timestamp'.ret = "OK", alone,
             clock + NTP_EPOCH_OFFSET < Word
      PROVE  timestamp'.time \in asked .. clock
  <2> DEFINE d == Head(inbox)
  <2>1. /\ ~NtpIdle /\ inbox # <<>> /\ NtpAccepts(d)
        /\ timestamp'.time = ntp_to_unix_timestamp(d.transmit_time)
    BY <1>1, SuccessIsAnswer DEF NtpPoll, NtpIdle, Receivable
  <2>2. d.src \in Servers /\ d.stratum = "synchronized"
    BY <1>1, <2>1 DEF NtpInv, ServerKnown, NtpAccepts
  <2>3. 1 \in DOMAIN inbox /\ d = inbox[1] /\ d \in Strays \cup ServerAnswer
    BY <1>1, <2>1 DEF NtpInv, NtpTyped
  <2>4. Current(d, asked, clock) /\ d \in ServerAnswer
    BY <1>1, <2>1, <2>2, <2>3, NetworkAssumption DEF NtpInv, InboxCurrent
  <2>5. PICK t \in asked .. clock : d.transmit_time = (t + NTP_EPOCH_OFFSET) % Word
    BY <2>2, <2>4 DEF Current, SentAt
  <2>6. t \in Nat /\ t + NTP_EPOCH_OFFSET \in 0 .. Word - 1
    BY <1>1, <2>5, NtpAssumption DEF NtpInv, NtpTyped
  <2>7. (t + NTP_EPOCH_OFFSET) % Word = t + NTP_EPOCH_OFFSET
    BY <2>6, NtpAssumption
  <2>8. ntp_to_unix_timestamp(d.transmit_time) = t
    BY <2>5, <2>6, <2>7, NtpAssumption DEF ntp_to_unix_timestamp
  <2>9. QED
    BY <2>1, <2>5, <2>8
<1>2. NtpInv /\ [NtpNext]_ntpVars => [True]_ntpVars
  BY <1>1
<1>3. QED
  BY <1>2, NtpInvariant, PTL DEF NtpSpec, NtpTimeIsCurrent
===============================================================================
