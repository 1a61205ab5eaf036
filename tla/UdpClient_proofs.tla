----------------------------- MODULE UdpClient_proofs -----------------------------
(***************************************************************************)
(* Proof that a UDP client that was closed stays closed.                   *)
(***************************************************************************)
EXTENDS UdpClient, TLAPS

\* A client whose udp_client_close has succeeded is not initialized, so that
\* udp_client_send refuses, and its socket is closed, so that nothing arrives.
UdpInv == closed => ~g_udp_initialized /\ status = "CLOSED"

-------------------------------------------------------------------------------
\* A closed client stays as UdpInv says: only udp_client_init initializes it, and
\* that call ends the time in which it counts as closed.
LEMMA UdpInvStep == UdpInv /\ [UdpNext]_udpVars => UdpInv'
<1> SUFFICES ASSUME UdpInv, [UdpNext]_udpVars  PROVE  UdpInv'
  OBVIOUS
<1> USE DEF UdpInv
<1>1. CASE UdpInit
  BY <1>1 DEF UdpInit
<1>2. CASE UdpSend
  BY <1>2 DEF UdpSend
<1>3. CASE UdpSetDest
  BY <1>3 DEF UdpSetDest, network
<1>4. CASE UdpClose
  BY <1>4 DEF UdpClose, Closes
<1>5. CASE Lost /\ UNCHANGED <<dest_ip, g_udp_initialized, closed>>
  BY <1>5 DEF Lost
<1>6. CASE UNCHANGED udpVars
  BY <1>6 DEF udpVars, network
<1>7. QED
  BY <1>1, <1>2, <1>3, <1>4, <1>5, <1>6 DEF UdpNext

\* No step of a closed client that leaves it closed opens its socket or sends.
LEMMA UdpQuietStep ==
    ASSUME UdpInv, [UdpNext]_udpVars, closed, closed'
    PROVE  status' = "CLOSED" /\ flight' \subseteq flight
<1>1. ~g_udp_initialized /\ status = "CLOSED"
  BY DEF UdpInv
<1>2. status' = "CLOSED"
  BY UdpInvStep DEF UdpInv
<1>3. flight' \subseteq flight
  <2>1. ~UdpInit /\ ~UdpSend /\ ~UdpClose
    BY <1>1 DEF UdpInit, UdpSend, UdpClose
  <2>2. CASE UdpSetDest
    BY <2>2 DEF UdpSetDest, network
  <2>3. CASE Lost
    BY <2>3 DEF Lost
  <2>4. CASE UNCHANGED udpVars
    BY <2>4 DEF udpVars, network
  <2>5. QED
    BY <2>1, <2>2, <2>3, <2>4 DEF UdpNext
<1>4. QED
  BY <1>2, <1>3

\* The client is in a state of UdpInv whenever it runs.
THEOREM UdpInvariant == UdpSpec => []UdpInv
<1>1. NetworkInit /\ UdpInitial => UdpInv
  BY DEF UdpInitial, UdpInv
<1>2. QED
  BY <1>1, UdpInvStep, PTL DEF UdpSpec

\* Once udp_client_close has succeeded the socket stays closed and nothing is sent
\* until udp_client_init is called, whatever servers and destinations there are.
THEOREM UdpClosedIsQuiet == UdpSpec => UdpStaysClosed
<1> DEFINE Quiet == closed /\ closed' => status' = "CLOSED" /\ flight' \subseteq flight
<1>1. UdpInv /\ [UdpNext]_udpVars => [Quiet]_udpVars
  BY UdpQuietStep
<1>2. QED
  BY <1>1, UdpInvariant, PTL DEF UdpSpec, UdpStaysClosed
===============================================================================
