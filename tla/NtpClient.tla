------------------------------- MODULE NtpClient -------------------------------
(***************************************************************************)
(* The NTP client (ntp_client.c): one task asks a server for the time,     *)
(* with retries and polling.  A step of the task goes from one call of     *)
(* sendto or recvfrom to the next; answers arrive and time passes in       *)
(* between.  Times are seconds; fractions, versions and the other fields   *)
(* of a packet are left out, and every answer is a whole packet.           *)
(***************************************************************************)
EXTENDS UdpNetwork

CONSTANTS
    NtpRetrySettings,   \* values for max_retries
    NtpRetryMod,        \* the retry counter counts modulo this (2^8)
    Word,               \* seconds count modulo this (2^32)
    NTP_EPOCH_OFFSET,   \* seconds from the NTP epoch to the Unix epoch
    MaxClock            \* bound: Unix time at which the clock stops

NTP_MAX_RETRIES == 3    \* what ntp_init takes for a max_retries of 0

ASSUME NtpAssumption ==
    /\ NtpRetryMod \in Nat \ {0} /\ NtpRetrySettings \subseteq 0 .. NtpRetryMod - 1
    /\ NTP_MAX_RETRIES < NtpRetryMod
    /\ Word \in Nat \ {0} /\ NTP_EPOCH_OFFSET \in 0 .. Word - 1 /\ MaxClock \in Nat

VARIABLES
    g_ntp_config,       \* [ntp_server, max_retries]
    g_ntp_initialized,
    request,            \* the call under way: [pc, retry]; pc is "idle", "send" or
                        \* "wait"
    timestamp,          \* what the last call returned: [ret, time]
    clock,              \* Unix time by the servers' clocks
    asked,              \* history: the time when the call under way started
    alone               \* history: nothing of an earlier call was under way then

ntpVars == <<network, g_ntp_config, g_ntp_initialized, request, timestamp, clock, asked, alone>>

NoRequest == [pc |-> "idle", retry |-> 0]

NtpInitial ==
    /\ g_ntp_config = [ntp_server |-> "0.0.0.0", max_retries |-> 0]
    /\ g_ntp_initialized = FALSE /\ request = NoRequest
    /\ timestamp = [ret |-> "none", time |-> 0]
    /\ clock = 0 /\ asked = 0 /\ alone = TRUE

NtpIdle == request.pc = "idle"

NtpReturns(ret, time) == request' = NoRequest /\ timestamp' = [ret |-> ret, time |-> time]

-------------------------------------------------------------------------------
\* ntp_init: the configuration is taken over even if socket then fails.
NtpInit ==
    /\ NtpIdle
    /\ \E server \in Servers, retries \in NtpRetrySettings :
         g_ntp_config' = [ntp_server |-> server,
                          max_retries |-> IF retries = 0 THEN NTP_MAX_RETRIES ELSE retries]
    /\ \/ Opens(TRUE) /\ g_ntp_initialized' = TRUE
       \/ OpenFails(TRUE) /\ UNCHANGED g_ntp_initialized
    /\ UNCHANGED <<request, timestamp, clock, asked, alone>>

\* ntp_set_server, and ntp_set_max_retries, which takes 0 as it is
ntp_set_server == \E server \in Servers : g_ntp_config' = [g_ntp_config EXCEPT !.ntp_server = server]
ntp_set_max_retries ==
    \E retries \in NtpRetrySettings : g_ntp_config' = [g_ntp_config EXCEPT !.max_retries = retries]

NtpSet ==
    /\ NtpIdle /\ (ntp_set_server \/ ntp_set_max_retries)
    /\ UNCHANGED <<network, g_ntp_initialized, request, timestamp, clock, asked, alone>>

\* ntp_close leaves the client initialized, so that the next call opens the
\* socket again.
NtpClose ==
    /\ NtpIdle /\ CloseFails
    /\ UNCHANGED <<g_ntp_config, g_ntp_initialized, request, timestamp, clock, asked, alone>>

\* ntp_get_time and ntp_get_response up to the first sendto; the second check of
\* the socket comes to nothing new.
NtpGetTime ==
    /\ NtpIdle
    /\ \/ /\ g_ntp_initialized
          /\ IF status = "UDP" THEN UNCHANGED network ELSE Opens(FALSE)
          /\ request' = [pc |-> "send", retry |-> 0]
          /\ asked' = clock /\ alone' = Fresh(inbox', flight')
          /\ UNCHANGED timestamp
       \/ /\ IF ~g_ntp_initialized THEN UNCHANGED network
             ELSE status # "UDP" /\ OpenFails(FALSE)
          /\ timestamp' = [ret |-> "SOCKET_FAIL", time |-> 0]
          /\ UNCHANGED <<request, asked, alone>>
    /\ UNCHANGED <<g_ntp_config, g_ntp_initialized, clock>>

-------------------------------------------------------------------------------
\* The end of a round of the retry loop.
NtpAgain ==
    LET retry == (request.retry + 1) % NtpRetryMod
    IN  IF retry <= g_ntp_config.max_retries
        THEN request' = [pc |-> "send", retry |-> retry] /\ UNCHANGED timestamp
        ELSE NtpReturns("TIMEOUT", 0)

\* sendto takes the request, or fails; if the last attempt fails the call ends.
NtpSend ==
    /\ request.pc = "send"
    /\ \/ /\ Sends([server |-> g_ntp_config.ntp_server])
          /\ request' = [request EXCEPT !.pc = "wait"]
          /\ UNCHANGED timestamp
       \/ /\ UNCHANGED network
          /\ IF request.retry = g_ntp_config.max_retries THEN NtpReturns("NETWORK", 0) ELSE NtpAgain
    /\ UNCHANGED <<g_ntp_config, g_ntp_initialized, clock, asked, alone>>

\* Mutant: the stratum is not looked at.
NtpBelievesAll(d) == d.src = g_ntp_config.ntp_server /\ d.mode = "server"

\* The peer is the server, and _ntp_parse_response has no complaint.
NtpAccepts(d) ==
    /\ d.src = g_ntp_config.ntp_server
    /\ d.mode = "server" /\ d.stratum = "synchronized"

ntp_to_unix_timestamp(seconds) ==
    IF seconds >= NTP_EPOCH_OFFSET THEN seconds - NTP_EPOCH_OFFSET ELSE 0

\* A recvfrom of the polling loop that returns something.
NtpPoll ==
    /\ request.pc = "wait" /\ Receivable /\ Receives
    /\ IF NtpAccepts(Head(inbox))
       THEN NtpReturns("OK", ntp_to_unix_timestamp(Head(inbox).transmit_time))
       ELSE UNCHANGED <<request, timestamp>>
    /\ UNCHANGED <<g_ntp_config, g_ntp_initialized, clock, asked, alone>>

\* timeout_ms have passed.
NtpWaitOver ==
    /\ request.pc = "wait" /\ NtpAgain
    /\ UNCHANGED <<network, g_ntp_config, g_ntp_initialized, clock, asked, alone>>

-------------------------------------------------------------------------------
\* A server answers with its time, or with zero while it has none.
NtpServe ==
    \E m \in flight, synchronized \in BOOLEAN :
      /\ m.server \in Servers
      /\ Answered(m, [src |-> m.server, size |-> "fits", mode |-> "server",
                      stratum |-> IF synchronized THEN "synchronized" ELSE "unsynchronized",
                      transmit_time |-> IF synchronized THEN (clock + NTP_EPOCH_OFFSET) % Word
                                        ELSE 0])

NtpNetwork ==
    /\ NtpServe \/ Stray \/ Lost
    /\ UNCHANGED <<g_ntp_config, g_ntp_initialized, request, timestamp, clock, asked, alone>>

NtpTick ==
    /\ clock < MaxClock /\ clock' = clock + 1
    /\ UNCHANGED <<network, g_ntp_config, g_ntp_initialized, request, timestamp, asked, alone>>

NtpNext ==
    \/ NtpInit \/ NtpSet \/ NtpClose \/ NtpGetTime
    \/ NtpSend \/ NtpPoll \/ NtpWaitOver
    \/ NtpNetwork \/ NtpTick

NtpSpec == NetworkInit /\ NtpInitial /\ [][NtpNext]_ntpVars

-------------------------------------------------------------------------------
\* While seconds since 1900 fit in a word, a call of ntp_get_time that succeeds
\* returns a time between its start and its end, for every order of losses,
\* retries, strays and answers of servers that are not synchronized - provided
\* no answer to an earlier call was still under way when it started.
NtpTimeIsCurrent ==
    [][timestamp' # timestamp /\ timestamp'.ret = "OK" /\ alone /\ clock + NTP_EPOCH_OFFSET < Word
       => timestamp'.time \in asked .. clock]_ntpVars

\* A call that is under way returns, unless max_retries is the highest value of
\* the counter, which never exceeds it.
NtpCallsReturn == ~NtpIdle /\ g_ntp_config.max_retries < NtpRetryMod - 1 ~> NtpIdle
===============================================================================
