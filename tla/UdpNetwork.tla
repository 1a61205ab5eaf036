------------------------------- MODULE UdpNetwork -------------------------------
(***************************************************************************)
(* What the UDP clients see below them: one socket, with the calls of      *)
(* socket.cpp reduced to their outcomes, and a network in which requests   *)
(* and answers are lost, delayed and reordered.  A request is in flight    *)
(* until it is lost or its answer is at the socket.                        *)
(***************************************************************************)
EXTENDS Naturals, Sequences

CONSTANTS
    Servers,    \* servers that answer requests
    Strays,     \* datagrams of somebody else, which may come at any time
    MaxInbox    \* bound: datagrams waiting in the socket

VARIABLES
    status,     \* getSocketStatus: "UDP" or "CLOSED"
    inbox,      \* the datagrams recvfrom has not returned yet, oldest first
    flight      \* requests that are neither answered nor lost

network == <<status, inbox, flight>>

ASSUME NetworkAssumption ==
    /\ MaxInbox \in Nat \ {0}
    /\ \A d \in Strays : d.src \notin Servers

NetworkInit == status = "CLOSED" /\ inbox = <<>> /\ flight = {}

\* socket(), on a closed socket or on an open one: what was received is dropped,
\* and on a new source port nothing that is under way reaches it any more.
Opens(newPort) ==
    /\ status' = "UDP" /\ inbox' = <<>>
    /\ flight' = IF newPort THEN {} ELSE flight

\* It fails at once, or after some of its commands were queued.
OpenFails(newPort) ==
    \/ UNCHANGED network
    \/ /\ status' \in {"UDP", "CLOSED"} /\ inbox' = <<>>
       /\ flight' \in {flight, IF newPort THEN {} ELSE flight}

\* close(); when it fails the socket may be closed nevertheless.
Closes == status' = "CLOSED" /\ UNCHANGED <<inbox, flight>>
CloseFails == Closes \/ UNCHANGED network

\* sendto()
Sends(request) ==
    /\ status = "UDP" /\ flight' = flight \cup {request}
    /\ UNCHANGED <<status, inbox>>

\* recvfrom() returns the oldest datagram, unless it is longer than the caller's
\* buffer: then it returns nothing and the datagram stays where it is.
Receivable == inbox # <<>> /\ Head(inbox).size # "long"
Receives == inbox' = Tail(inbox) /\ UNCHANGED <<status, flight>>

\* Nothing of an earlier request is under way or waits to be received.
Fresh(waiting, requests) == requests = {} /\ \A k \in DOMAIN waiting : waiting[k] \in Strays

-------------------------------------------------------------------------------
Arrives(datagram) ==
    /\ status = "UDP" /\ Len(inbox) < MaxInbox
    /\ inbox' = Append(inbox, datagram)
    /\ UNCHANGED status

\* The server's answer to a request arrives.
Answered(request, answer) == Arrives(answer) /\ flight' = flight \ {request}

Stray == \E d \in Strays : Arrives(d) /\ UNCHANGED flight

Lost == \E m \in flight : flight' = flight \ {m} /\ UNCHANGED <<status, inbox>>
===============================================================================
