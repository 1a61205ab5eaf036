------------------------------- MODULE DnsClient -------------------------------
(***************************************************************************)
(* The DNS client (dns_client.c): one task resolves names one after the    *)
(* other, each query with retries and polling, an alias followed by a      *)
(* query of its own.  A step of the task goes from one call of sendto or   *)
(* recvfrom to the next; answers arrive in between.  A message is reduced  *)
(* to what the client makes of it (DnsMessage has its bytes), and the      *)
(* transaction id is left out: the client never compares it.               *)
(***************************************************************************)
EXTENDS UdpNetwork

CONSTANTS
    Names,          \* host names
    ValidNames,     \* those _dns_is_valid_hostname accepts
    Zone,           \* what servers say of each name: "ip", "none", "nxdomain" or
                    \* the name it is an alias of
    RetrySettings,  \* values for max_retries
    RetryMod,       \* the retry counter counts modulo this (2^8)
    max_depth,      \* queries per call (5)
    MaxCalls        \* bound: calls of dns_resolve_a

ASSUME DnsAssumption ==
    /\ ValidNames \subseteq Names /\ Zone \in [Names -> {"ip", "none", "nxdomain"} \cup Names]
    /\ Names \cap {"ip", "none", "nxdomain", "garbage"} = {}
    /\ RetryMod \in Nat \ {0} /\ RetrySettings \subseteq 0 .. RetryMod - 1
    /\ max_depth \in Nat \ {0} /\ MaxCalls \in Nat

VARIABLES
    g_dns_config,       \* [dns_server, max_retries, buffers]: buffers is FALSE
                        \* until dns_init has copied a configuration
    g_dns_initialized,
    query,              \* the call under way: [pc, hostname, current_name, retry,
                        \* depth]; pc is "idle", "send" or "wait"
    untouched,          \* history: each query of the call under way started when
                        \* nothing of an earlier one was under way
    answer,             \* what the last call returned: [ret, name, ip, untouched]
    calls               \* history: calls of dns_resolve_a

dnsVars == <<network, g_dns_config, g_dns_initialized, query, answer, calls, untouched>>

NoQuery == [pc |-> "idle", hostname |-> "", current_name |-> "", retry |-> 0, depth |-> 0]

DnsInitial ==
    /\ g_dns_config = [dns_server |-> "0.0.0.0", max_retries |-> 0, buffers |-> FALSE]
    /\ g_dns_initialized = FALSE /\ query = NoQuery
    /\ answer = [ret |-> "none", name |-> "", ip |-> "", untouched |-> TRUE]
    /\ calls = 0 /\ untouched = TRUE

DnsIdle == query.pc = "idle"

DnsReturns(ret, ip) ==
    /\ query' = NoQuery
    /\ answer' = [ret |-> ret, name |-> query.hostname, ip |-> ip, untouched |-> untouched]

-------------------------------------------------------------------------------
\* dns_init: the configuration is taken over even if socket then fails.
DnsInit ==
    /\ DnsIdle
    /\ \E server \in Servers, retries \in RetrySettings :
         g_dns_config' = [dns_server |-> server, max_retries |-> retries, buffers |-> TRUE]
    /\ \/ Opens(TRUE) /\ g_dns_initialized' = TRUE
       \/ OpenFails(TRUE) /\ UNCHANGED g_dns_initialized
    /\ UNCHANGED <<query, answer, calls, untouched>>

\* dns_set_server and dns_set_max_retries, before dns_init, too
dns_set_server == \E server \in Servers : g_dns_config' = [g_dns_config EXCEPT !.dns_server = server]
dns_set_max_retries ==
    \E retries \in RetrySettings : g_dns_config' = [g_dns_config EXCEPT !.max_retries = retries]

DnsSet ==
    /\ DnsIdle /\ (dns_set_server \/ dns_set_max_retries)
    /\ UNCHANGED <<network, g_dns_initialized, query, answer, calls, untouched>>

\* dns_close, which ignores what close returns
DnsClose ==
    /\ DnsIdle /\ g_dns_initialized
    /\ CloseFails
    /\ g_dns_initialized' = FALSE
    /\ UNCHANGED <<g_dns_config, query, answer, calls, untouched>>

\* _dns_query up to its first sendto, for a call that so far has had no (clean)
\* or some answer of an earlier query under way
Query(hostname, name, depth, clean) ==
    LET refusal == IF ~g_dns_initialized THEN {"SOCKET_FAIL"}
                   ELSE IF name \notin ValidNames THEN {"INVALID_PARAM"} ELSE {}
    IN  /\ untouched' = (clean /\ Fresh(inbox', flight'))
        /\ \/ \E ret \in refusal :
                /\ query' = NoQuery
                /\ answer' = [ret |-> ret, name |-> hostname, ip |-> "", untouched |-> clean]
           \/ /\ refusal = {}
              /\ query' = [pc |-> "send", hostname |-> hostname, current_name |-> name,
                           retry |-> 0, depth |-> depth]
              /\ UNCHANGED answer

\* dns_resolve_a, which opens the socket again if it is not open; without the
\* buffers of a configuration socket refuses.
DnsResolve(hostname) ==
    /\ DnsIdle /\ calls < MaxCalls /\ calls' = calls + 1
    /\ \/ /\ \/ status = "UDP" /\ UNCHANGED network
             \/ status # "UDP" /\ g_dns_config.buffers /\ Opens(FALSE)
          /\ Query(hostname, hostname, 0, TRUE)
       \/ /\ status # "UDP"
          /\ IF g_dns_config.buffers THEN OpenFails(FALSE) ELSE UNCHANGED network
          /\ answer' = [ret |-> "SOCKET_FAIL", name |-> hostname, ip |-> "", untouched |-> FALSE]
          /\ UNCHANGED <<query, untouched>>
    /\ UNCHANGED <<g_dns_config, g_dns_initialized>>

-------------------------------------------------------------------------------
\* The end of a round of the retry loop.
DnsAgain ==
    LET retry == (query.retry + 1) % RetryMod
    IN  IF retry <= g_dns_config.max_retries
        THEN query' = [query EXCEPT !.pc = "send", !.retry = retry] /\ UNCHANGED answer
        ELSE DnsReturns("TIMEOUT", "")

\* sendto takes the query, or fails; if the last attempt fails the call ends.
DnsSend ==
    /\ query.pc = "send"
    /\ \/ /\ Sends([name |-> query.current_name, server |-> g_dns_config.dns_server])
          /\ query' = [query EXCEPT !.pc = "wait"]
          /\ UNCHANGED answer
       \/ /\ UNCHANGED network
          /\ IF query.retry = g_dns_config.max_retries THEN DnsReturns("NETWORK", "") ELSE DnsAgain
    /\ UNCHANGED <<g_dns_config, g_dns_initialized, calls, untouched>>

\* Mutant: whoever answers is believed.
FromAnybody(d) == d.says \notin {"nxdomain", "garbage"}

\* The peer is the server, and _dns_parse_response has no complaint: what the
\* server reports as an error is one.
Accepted(d) == d.src = g_dns_config.dns_server /\ d.says \notin {"nxdomain", "garbage"}

\* Mutant: aliases are followed for ever.
FollowWithoutEnd(d) ==
    IF d.says \in Names
    THEN Query(query.hostname, d.says, query.depth, untouched)
    ELSE /\ IF d.says = "ip" THEN DnsReturns("OK", d.ip) ELSE DnsReturns("NAME_NOT_FOUND", "")
         /\ UNCHANGED untouched

\* What dns_resolve_a makes of an answer: an address ends the call, an alias
\* starts the next query.
Follow(d) ==
    IF d.says \in Names /\ query.depth + 1 < max_depth
    THEN Query(query.hostname, d.says, query.depth + 1, untouched)
    ELSE /\ IF d.says = "ip" THEN DnsReturns("OK", d.ip) ELSE DnsReturns("NAME_NOT_FOUND", "")
         /\ UNCHANGED untouched

\* A recvfrom of the polling loop that returns something.
DnsPoll ==
    /\ query.pc = "wait" /\ Receivable /\ Receives
    /\ IF Accepted(Head(inbox))
       THEN Follow(Head(inbox))
       ELSE UNCHANGED <<query, answer, untouched>>
    /\ UNCHANGED <<g_dns_config, g_dns_initialized, calls>>

\* timeout_ms have passed.
DnsWaitOver ==
    /\ query.pc = "wait" /\ DnsAgain
    /\ UNCHANGED <<network, g_dns_config, g_dns_initialized, calls, untouched>>

-------------------------------------------------------------------------------
\* A server answers; the address of a name is the name itself.
DnsServe ==
    \E m \in flight :
      /\ m.server \in Servers
      /\ Answered(m, [src |-> m.server, size |-> "fits", says |-> Zone[m.name], ip |-> m.name])

DnsNetwork ==
    /\ DnsServe \/ Stray \/ Lost
    /\ UNCHANGED <<g_dns_config, g_dns_initialized, query, answer, calls, untouched>>

DnsNext ==
    \/ DnsInit \/ DnsSet \/ DnsClose
    \/ \E hostname \in Names : DnsResolve(hostname)
    \/ DnsSend \/ DnsPoll \/ DnsWaitOver
    \/ DnsNetwork

DnsSpec == NetworkInit /\ DnsInitial /\ [][DnsNext]_dnsVars

-------------------------------------------------------------------------------
\* What servers say of the names a name is an alias of: aliases[n] after n steps.
aliases(name) ==
    LET chain[n \in 0 .. max_depth - 1] ==
          IF n = 0 THEN name
          ELSE IF chain[n - 1] \in Names THEN Zone[chain[n - 1]] ELSE chain[n - 1]
    IN  chain

\* An address dns_resolve_a returns is that of the last name in the chain of
\* aliases that starts at the name asked for, and a name is reported as not found
\* only if that chain has no address within max_depth queries, for every order of
\* losses, late answers, retries and strays - provided no answer to an earlier
\* query was still under way when a query of the call started.
DnsResultIsTrue ==
    answer.untouched =>
      LET chain == aliases(answer.name)
          found(ip) == \E n \in DOMAIN chain : chain[n] = ip /\ Zone[ip] = "ip"
      IN  /\ answer.ret = "OK" => found(answer.ip)
          /\ answer.ret = "NAME_NOT_FOUND" => \A name \in Names : ~found(name)

\* A call that is under way returns, unless max_retries is the highest value of
\* the counter, which never exceeds it.
DnsCallsReturn == ~DnsIdle /\ g_dns_config.max_retries < RetryMod - 1 ~> DnsIdle
===============================================================================
