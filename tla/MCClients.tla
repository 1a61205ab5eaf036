------------------------------- MODULE MCClients -------------------------------
(***************************************************************************)
(* Instances of the clients above the sockets for TLC.  They share         *)
(* nothing, so one run takes them side by side: side says which of them a  *)
(* behaviour is about, and the variables of the others keep their values.  *)
(***************************************************************************)
EXTENDS DnsClient, NtpClient, UdpClient, DnsMessage, WebSocketClient

VARIABLE side

dnsOwn == <<g_dns_config, g_dns_initialized, query, answer, calls, untouched>>
ntpOwn == <<g_ntp_config, g_ntp_initialized, request, timestamp, clock, asked, alone>>
udpOwn == <<dest_ip, g_udp_initialized, closed>>
vars == <<side, network, dnsOwn, ntpOwn, udpOwn, messageVars, wsVars>>

\* "a" is an alias of itself, "c" one of "d".
MCNames == {"a", "c", "d", "f", "g", "_"}
MCValidNames == MCNames \ {"_"}
MCZone == [n \in MCNames |-> CASE n = "a" -> "a" [] n = "c" -> "d" [] n = "f" -> "nxdomain"
                              [] n = "g" -> "none" [] OTHER -> "ip"]

\* A datagram of another host, which claims to be an answer.
MCStrays == {[src |-> "10.0.0.9", size |-> size, says |-> "ip", ip |-> "stray", mode |-> "server",
              stratum |-> "synchronized", transmit_time |-> 0] : size \in {"fits", "long"}}

MCFrames == <<2, 0>>

MCTargets == {<<97>>, <<98, Dot, 97>>}

Init ==
    /\ side \in {"dns", "ntp", "udp", "message", "ws"}
    /\ NetworkInit /\ DnsInitial /\ NtpInitial /\ UdpInitial /\ WsInitial
    /\ IF side = "message" THEN MessageInit
       ELSE hostname = <<>> /\ message = <<>> /\ places = {} /\ records = <<>>

\* A step of one side
Dns(A) == side = "dns" /\ A /\ UNCHANGED <<side, ntpOwn, udpOwn, messageVars, wsVars>>
Ntp(A) == side = "ntp" /\ A /\ UNCHANGED <<side, dnsOwn, udpOwn, messageVars, wsVars>>
Udp(A) == side = "udp" /\ A /\ UNCHANGED <<side, dnsOwn, ntpOwn, messageVars, wsVars>>
Text(A) == side = "message" /\ A /\ UNCHANGED <<side, network, dnsOwn, ntpOwn, udpOwn, wsVars>>
Ws(A) == side = "ws" /\ A /\ UNCHANGED <<side, network, dnsOwn, ntpOwn, udpOwn, messageVars>>

Next == Dns(DnsNext) \/ Ntp(NtpNext) \/ Udp(UdpNext) \/ Text(MessageNext) \/ Ws(WsNext)

\* Time passes, the interrupt handler runs, and so does the task: it gets on with a
\* call it has begun and calls ws_client_process again and again.
Fairness ==
    /\ WF_vars(Dns(DnsSend) \/ Ntp(NtpSend) \/ Ws(WsInterrupt))
    /\ WF_vars(Dns(DnsWaitOver) \/ Ntp(NtpWaitOver) \/ Ws(WsTime))
    /\ WF_vars(Ws(WsProcess))
    /\ WF_vars(Ws(WsConnected \/ WsHandshakeOver \/ WsDelayOver))

ClientSpec == Init /\ [][Next]_vars /\ Fairness

\* A call of the DNS or the NTP client returns, however messages are lost, late or
\* wrong and aliases lead in circles, unless max_retries is the highest value of
\* the retry counter, which never exceeds it.
ClientCallsReturn == DnsCallsReturn /\ NtpCallsReturn
===============================================================================
