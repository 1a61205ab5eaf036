------------------------------- MODULE UdpClient -------------------------------
(***************************************************************************)
(* The UDP client (udp_client.c): it opens a socket, sends datagrams to    *)
(* one destination and closes the socket.  A call is a step; nothing is    *)
(* received.                                                               *)
(***************************************************************************)
EXTENDS UdpNetwork

VARIABLES
    dest_ip,            \* g_udp_config, reduced to the destination
    g_udp_initialized,
    closed              \* history: udp_client_close has succeeded, and
                        \* udp_client_init has not been called since

udpVars == <<network, dest_ip, g_udp_initialized, closed>>

UdpInitial == dest_ip = "0.0.0.0" /\ g_udp_initialized = FALSE /\ closed = FALSE

\* udp_client_init: the configuration is taken over even if socket then fails.
UdpInit ==
    /\ dest_ip' \in Servers /\ closed' = FALSE
    /\ \/ Opens(TRUE) /\ g_udp_initialized' = TRUE
       \/ OpenFails(TRUE) /\ UNCHANGED g_udp_initialized

\* udp_client_send, which opens the socket again if it is not open; then sendto
\* takes the datagram, or does not.
UdpSend ==
    /\ g_udp_initialized
    /\ \/ Sends([server |-> dest_ip])
       \/ /\ status # "UDP"
          /\ \/ status' = "UDP" /\ inbox' = <<>> /\ flight' = flight \cup {[server |-> dest_ip]}
             \/ Opens(FALSE)
             \/ OpenFails(FALSE)
    /\ UNCHANGED <<dest_ip, g_udp_initialized, closed>>

UdpSetDest == dest_ip' \in Servers /\ UNCHANGED <<network, g_udp_initialized, closed>>

\* Mutant: the client counts as initialized after it was closed.
UdpCloseStaysReady ==
    /\ g_udp_initialized
    /\ \/ Closes /\ closed' = TRUE
       \/ CloseFails /\ UNCHANGED closed
    /\ UNCHANGED <<dest_ip, g_udp_initialized>>

\* udp_client_close: when close fails the client stays initialized.
UdpClose ==
    /\ g_udp_initialized
    /\ \/ Closes /\ g_udp_initialized' = FALSE /\ closed' = TRUE
       \/ CloseFails /\ UNCHANGED <<g_udp_initialized, closed>>
    /\ UNCHANGED dest_ip

UdpNext ==
    \/ UdpInit \/ UdpSend \/ UdpSetDest \/ UdpClose
    \/ Lost /\ UNCHANGED <<dest_ip, g_udp_initialized, closed>>

UdpSpec == NetworkInit /\ UdpInitial /\ [][UdpNext]_udpVars

-------------------------------------------------------------------------------
\* Once udp_client_close has succeeded, the socket is not opened and nothing is
\* sent before udp_client_init is called again, whatever failed before.
UdpStaysClosed ==
    [][closed /\ closed' => status' = "CLOSED" /\ flight' \subseteq flight]_udpVars
===============================================================================
