----------------------------- MODULE WebSocketClient -----------------------------
(***************************************************************************)
(* The WebSocket client (websocket_client.c): one task connects, sends,    *)
(* processes and closes, the interrupt handler sets event flags through    *)
(* the socket's callback, and a server sends frames, cut anywhere, and     *)
(* ends connections.  What it sent on an earlier connection may be read on *)
(* a later one.  Calls of socket.cpp are reduced to their outcomes; a call *)
(* of the client is one step unless it waits in the middle.                *)
(***************************************************************************)
EXTENDS Naturals, Sequences, FiniteSets

CONSTANTS
    WsLens,     \* payload lengths of data frames
    WsBuffers,  \* lengths of the buffers the application sends and receives with
    MaxFrames,  \* bounds: frames the server may send on the first connection, the second ...
    MaxStale,   \* bound: pieces of an earlier connection that get into a new one
    MaxSaid     \* bound: frames on a connection before the task stops sending

ASSUME WsAssumption ==
    /\ \A len \in WsLens \cup WsBuffers : len \in Nat /\ len <= 65535
    /\ MaxFrames \in Seq(Nat) /\ MaxStale \in Nat /\ MaxSaid \in Nat

VARIABLES
    g_ws_initialized, g_ws_state,
    flags,      \* g_timeout_flag, g_disconnect_req_flag, g_disconnect_suc_flag that are set
    pc,         \* the task: "idle", "connecting", "handshake", or "delay" while it
                \* waits before it disconnects
    waited,     \* CLOSING, and 5 s have passed since g_close_time
    tcp,        \* the chip's Sn_SR: "CLOSED", "INIT", "ESTABLISHED" or "CLOSE_WAIT"
    sr,         \* its shadow, as getSocketStatus has it
    ir,         \* Sn_IR flags the interrupt handler has not read: DISCON, TIMEOUT
    rx,         \* what recv has not returned yet, a record for each piece: opcode, len and
                \* part of its frame, and conn, the connection it was sent on
    conns,      \* connections so far
    server,     \* [answer, left, owed]: its answer to the handshake, "none" so far,
                \* "accepted" or "refused"; the frames it may still send; and the
                \* piece that ends the message it is in the middle of
    said,       \* history: what the client sent on it: [opcode, len, header]
    sent,       \* history: lengths of the data frames the server sent on it
    taken,      \* history: the data frames the client read on it: [len, room, kept], with
                \* the room of the application's buffer and whether the payload was copied
    whole,      \* history: each recv on it returned exactly one message, sent on it
    fresh       \* history: no recv on it returned anything sent on an earlier one

wsVars == <<g_ws_initialized, g_ws_state, flags, pc, waited, tcp, sr, ir, rx, conns, server,
            said, sent, taken, whole, fresh>>
taskVars == <<g_ws_initialized, g_ws_state, flags, pc, waited>>
socketVars == <<tcp, sr, ir, rx>>
readVars == <<taken, whole, fresh>>
historyVars == <<conns, server, said, sent, readVars>>

DATA == 2
CLOSE == 8
PING == 9
PONG == 10
HTTP == 16                              \* the handshake and its answers
REFUSED == 17
Answers == {HTTP, REFUSED}

RxTemp == 2048                          \* sizeof(ws_rx_temp)
NoBuffer == 65536                       \* buffer == NULL; no uint16_t len

NewServer(left) == [answer |-> "none", left |-> left, owed |-> <<>>]

WsInitial ==
    /\ g_ws_initialized = FALSE /\ g_ws_state = "DISCONNECTED" /\ flags = {}
    /\ pc = "idle" /\ waited = FALSE
    /\ tcp = "CLOSED" /\ sr = "CLOSED" /\ ir = {} /\ rx = <<>>
    /\ conns = 0 /\ server = NewServer(0) /\ said = <<>> /\ sent = <<>> /\ taken = <<>>
    /\ whole = TRUE /\ fresh = TRUE

-------------------------------------------------------------------------------
\* ws_create_frame_header, without the masking key
ws_create_frame_header(opcode, len) ==
    IF len < 126 THEN <<128 + opcode, 128 + len>>
    ELSE <<128 + opcode, 128 + 126, len \div 256, len % 256>>

\* The header of a server's frame, and the part of ws_process_internal that reads it.
\* An answer to a handshake begins with "HT".
ServerHeader(opcode, len) ==
    IF opcode \in Answers THEN <<72, 84>>
    ELSE <<128 + opcode>> \o IF len < 126 THEN <<len>> ELSE <<126, len \div 256, len % 256>>

Opcode(header) == header[1] % 16
PayloadLen(header) ==
    IF header[2] % 128 = 126 THEN 256 * header[3] + header[4] ELSE header[2] % 128

\* What becomes of the payload: it is copied if there is a buffer and it fits.
Look(len, room) == [len |-> len, room |-> room, kept |-> room # NoBuffer /\ len <= room]

Message(opcode, len) == [opcode |-> opcode, len |-> len, header |-> ws_create_frame_header(opcode, len)]

\* send(), of a frame or of the handshake; it refuses when the shadow status is
\* another one or the buffer is full.
Says(opcode, len) ==
    \/ sr \in {"ESTABLISHED", "CLOSE_WAIT"} /\ said' = Append(said, Message(opcode, len))
    \/ UNCHANGED said

\* close() and disconnect(), on a socket whose status is a connection's; the chip
\* reports the end of a disconnection as an interrupt.  When they fail the command
\* may have had its effect nevertheless.
Closing(events) ==
    \/ tcp' = "CLOSED" /\ sr' = "CLOSED" /\ ir' \in {ir, ir \cup events}
    \/ tcp' \in {tcp, "CLOSED"} /\ sr' = sr /\ ir' \in {ir, ir \cup events}
CloseSocket == Closing({}) /\ UNCHANGED rx
Disconnect ==
    /\ IF sr \in {"ESTABLISHED", "CLOSE_WAIT"} THEN Closing({"DISCON"}) ELSE UNCHANGED <<tcp, sr, ir>>
    /\ UNCHANGED rx

\* The bytes of a piece: an answer is one of 129, and a frame is cut after the first
FrameSize(opcode, len) ==
    IF opcode \in Answers THEN 129 ELSE len + IF len < 126 THEN 2 ELSE 4
Size(p) == CASE p.part = "whole" -> FrameSize(p.opcode, p.len)
             [] p.part = "head" -> 1
             [] p.part = "tail" -> FrameSize(p.opcode, p.len) - 1

\* recv into ws_rx_temp returns the first n pieces: all segments up to the first one
\* that does not fit.  A segment is what arrived since the last reception, any number
\* of pieces, so anything that fits may be what is returned if not all does.
WsRecv(n) ==
    LET bytes[k \in 0 .. Len(rx)] == IF k = 0 THEN 0 ELSE bytes[k - 1] + Size(rx[k])
    IN  bytes[n] <= RxTemp /\ (bytes[Len(rx)] <= RxTemp => n = Len(rx))

\* They begin with a whole message; they are one message of this connection; they are
\* all of this connection.
WholeFirst(n) ==
    \/ rx[1].part = "whole"
    \/ rx[1].part = "head" /\ n > 1 /\ rx[2].part = "tail"
OneMessage(n) ==
    rx[1].conn = conns /\ WholeFirst(n) /\ n = IF rx[1].part = "whole" THEN 1 ELSE 2
Own(n) == \A k \in 1 .. n : rx[k].conn = conns

Takes(n) ==
    /\ rx' = SubSeq(rx, n + 1, Len(rx))
    /\ whole' = (whole /\ (n > 0 => OneMessage(n))) /\ fresh' = (fresh /\ Own(n))

-------------------------------------------------------------------------------
\* ws_client_init: an open connection is forgotten, not closed.
WsInit ==
    /\ pc = "idle"
    /\ g_ws_initialized' = TRUE /\ g_ws_state' = "DISCONNECTED" /\ flags' = {} /\ waited' = FALSE
    /\ UNCHANGED <<pc, socketVars, historyVars>>

\* ws_client_connect up to connect: close, if the socket is not closed, and
\* socket, which drops what was received; but a reception that is under way then
\* still puts what it reads into the queue.
WsConnect ==
    /\ pc = "idle" /\ g_ws_initialized /\ conns < Len(MaxFrames)
    /\ flags' = {}
    /\ conns' = conns + 1 /\ server' = NewServer(MaxFrames[conns + 1])
    /\ said' = <<>> /\ sent' = <<>> /\ taken' = <<>> /\ whole' = TRUE /\ fresh' = TRUE
    /\ \/ /\ tcp' = "INIT" /\ sr' = "INIT" /\ pc' = "connecting" /\ UNCHANGED g_ws_state
          /\ \E i \in 1 .. Len(rx) + 1, n \in 0 .. MaxStale :
               i + n <= Len(rx) + 1 /\ rx' = SubSeq(rx, i, i + n - 1)
       \/ /\ g_ws_state' = "DISCONNECTED" /\ UNCHANGED <<pc, rx>>
          /\ tcp' \in {"INIT", "CLOSED", tcp} /\ sr' \in {sr, tcp'}
    /\ waited' = FALSE /\ UNCHANGED <<g_ws_initialized, ir>>

\* connect, and the handshake is sent.  When either fails the socket is closed, which
\* may fail as well.
WsConnected ==
    /\ pc = "connecting"
    /\ \/ /\ tcp' = "ESTABLISHED" /\ sr' = "ESTABLISHED"
          /\ said' = <<Message(HTTP, 0)>> /\ pc' = "handshake"
          /\ UNCHANGED <<g_ws_state, ir>>
       \/ /\ \E reached \in {"INIT", "ESTABLISHED"} :
               tcp' \in {reached, "CLOSED"} /\ sr' \in {sr, reached, tcp'}
          /\ ir' \in {ir, ir \cup {"TIMEOUT"}}
          /\ g_ws_state' = "DISCONNECTED" /\ pc' = "idle"
          /\ UNCHANGED said
    /\ UNCHANGED <<g_ws_initialized, flags, waited, rx, conns, server, sent, readVars>>

\* The response is complete with the end of an answer in it, and accepts with a 101.
Complete(n) == \E k \in 1 .. n : rx[k].opcode \in Answers /\ rx[k].part # "head"
Switching(n) == \E k \in 1 .. n : rx[k].opcode = HTTP

\* Mutant: what has come after the answer is thrown away.
WsHandshakeFlushes ==
    /\ pc = "handshake" /\ pc' = "idle" /\ rx' = <<>>
    /\ \E n \in 1 .. Len(rx) :
         /\ WsRecv(n) /\ Complete(n)
         /\ whole' = (whole /\ OneMessage(n)) /\ fresh' = (fresh /\ Own(n))
         /\ IF Switching(n)
            THEN g_ws_state' = "CONNECTED" /\ UNCHANGED <<tcp, sr, ir>>
            ELSE g_ws_state' = "DISCONNECTED" /\ Closing({})
    /\ UNCHANGED <<g_ws_initialized, flags, waited, conns, server, said, sent, taken>>

\* The wait for the answer: what the calls of recv return is put together, the end of
\* an answer in it is recognized, and what came with it is dropped.
WsHandshake ==
    /\ pc = "handshake" /\ pc' = "idle"
    /\ \E n \in 1 .. Len(rx) :
         /\ WsRecv(n) /\ Complete(n) /\ Takes(n)
         /\ IF Switching(n)
            THEN g_ws_state' = "CONNECTED" /\ UNCHANGED <<tcp, sr, ir>>
            ELSE g_ws_state' = "DISCONNECTED" /\ Closing({})
    /\ UNCHANGED <<g_ws_initialized, flags, waited, conns, server, said, sent, taken>>

\* Mutant: the state stays what it was before the call.
WsHandshakeOverKeepsState ==
    /\ pc = "handshake" /\ pc' = "idle" /\ Closing({})
    /\ \E n \in 0 .. Len(rx) : WsRecv(n) /\ Takes(n)
    /\ UNCHANGED <<g_ws_state, g_ws_initialized, flags, waited, conns, server, said, sent, taken>>

\* 6 s have passed; no answer was recognized in what was received, if that began with
\* something else.
WsHandshakeOver ==
    /\ pc = "handshake" /\ pc' = "idle"
    /\ g_ws_state' = "DISCONNECTED" /\ Closing({})
    /\ \E n \in 0 .. Len(rx) : WsRecv(n) /\ Takes(n)
    /\ UNCHANGED <<g_ws_initialized, flags, waited, conns, server, said, sent, taken>>

\* ws_client_send_binary, ws_client_send_text
WsSend ==
    /\ pc = "idle" /\ g_ws_state = "CONNECTED" /\ Len(said) < MaxSaid
    /\ \E len \in WsBuffers : Says(DATA, len)
    /\ UNCHANGED <<taskVars, socketVars, conns, server, sent, readVars>>

\* ws_client_ping
WsPing ==
    /\ pc = "idle" /\ g_ws_state = "CONNECTED" /\ Len(said) < MaxSaid
    /\ Says(PING, 0)
    /\ UNCHANGED <<taskVars, socketVars, conns, server, sent, readVars>>

\* ws_client_close
WsClose ==
    /\ pc = "idle" /\ g_ws_state = "CONNECTED"
    /\ Says(CLOSE, 0)
    /\ g_ws_state' = "CLOSING" /\ waited' = FALSE
    /\ UNCHANGED <<g_ws_initialized, flags, pc, socketVars, conns, server, sent, readVars>>

-------------------------------------------------------------------------------
\* The exits of ws_client_process before it receives.
WsEnds == g_ws_state' = "DISCONNECTED" /\ waited' = FALSE
          /\ UNCHANGED <<pc, g_ws_initialized, historyVars>>

WsLost == sr # "ESTABLISHED" /\ WsEnds /\ UNCHANGED <<flags, socketVars>>

WsEvent ==
    /\ sr = "ESTABLISHED" /\ WsEnds
    /\ \/ "timeout" \in flags /\ flags' = flags \ {"timeout"} /\ CloseSocket
       \/ /\ "timeout" \notin flags /\ "req" \in flags
          /\ flags' = flags \ {"req"} /\ Disconnect
       \/ flags = {"suc"} /\ flags' = {} /\ CloseSocket

\* Mutant: only the server's close frame ends the wait for it.
WsCloseOverWithAnswer ==
    /\ sr = "ESTABLISHED" /\ flags = {} /\ g_ws_state = "CLOSING" /\ waited
    /\ rx # <<>> /\ rx[1].opcode = CLOSE
    /\ WsEnds /\ CloseSocket /\ UNCHANGED flags

WsCloseOver ==
    /\ sr = "ESTABLISHED" /\ flags = {} /\ g_ws_state = "CLOSING" /\ waited
    /\ WsEnds /\ CloseSocket /\ UNCHANGED flags

\* ws_process_internal: the first frame of what recv returns is looked at, and the rest
\* is dropped; so is a data frame when the application gave no buffer, or a small one.
\* The rest of a frame whose beginning is gone is taken for a frame of any kind, and
\* so may be the beginning of one whose rest is gone, with what follows.
WsReceive ==
    /\ sr = "ESTABLISHED" /\ flags = {} /\ g_ws_state = "CONNECTED"
    /\ UNCHANGED <<g_ws_initialized, g_ws_state, flags, waited, tcp, sr, ir, conns, server, sent>>
    /\ \E n \in 1 .. Len(rx) :
         LET header == ServerHeader(rx[1].opcode, rx[1].len)
             len == PayloadLen(header)
             opcodes == CASE WholeFirst(n) -> {Opcode(header)}
                          [] rx[1].part = "head" /\ n = 1 -> {}
                          [] OTHER -> {DATA, PING, PONG, CLOSE}
         IN  /\ WsRecv(n) /\ Takes(n)
             /\ \/ /\ DATA \in opcodes
                   /\ \E room \in WsBuffers \cup {NoBuffer} : taken' = Append(taken, Look(len, room))
                   /\ UNCHANGED <<pc, said>>
                \/ PING \in opcodes /\ Says(PONG, len) /\ UNCHANGED <<pc, taken>>
                \/ CLOSE \in opcodes /\ Says(CLOSE, 0) /\ pc' = "delay" /\ UNCHANGED taken
                \/ (opcodes = {} \/ PONG \in opcodes) /\ UNCHANGED <<pc, said, taken>>

\* Mutant: while it waits for the server's close frame the client still answers.
WsProcessAnswers ==
    \/ pc = "idle" /\ g_ws_initialized /\ (WsLost \/ WsEvent \/ WsCloseOver \/ WsReceive)
    \/ /\ pc = "idle" /\ sr = "ESTABLISHED" /\ g_ws_state = "CLOSING"
       /\ \E n \in 1 .. Len(rx) : WsRecv(n) /\ Takes(n) /\ rx[1].opcode = PING /\ Says(PONG, 0)
       /\ UNCHANGED <<taskVars, tcp, sr, ir, conns, server, sent, taken>>

\* ws_client_process
WsProcess == pc = "idle" /\ g_ws_initialized /\ (WsLost \/ WsEvent \/ WsCloseOver \/ WsReceive)

\* The client has acknowledged a close frame and waited 2 s.
WsDelayOver ==
    /\ pc = "delay" /\ pc' = "idle" /\ g_ws_state' = "DISCONNECTED" /\ Disconnect
    /\ UNCHANGED <<g_ws_initialized, flags, waited, historyVars>>

WsTime == g_ws_state = "CLOSING" /\ ~waited /\ waited' = TRUE
          /\ UNCHANGED <<g_ws_initialized, g_ws_state, flags, pc, socketVars, historyVars>>

-------------------------------------------------------------------------------
\* READ_SOC: the shadow status is read, and the flags become ws_socket_callback's.
WsInterrupt ==
    /\ ir # {} /\ ir' = {} /\ sr' = tcp
    /\ flags' = flags \cup (IF "TIMEOUT" \in ir THEN {"timeout"} ELSE {})
                      \cup (IF "DISCON" \notin ir THEN {}
                            ELSE IF tcp = "CLOSE_WAIT" THEN {"req"} ELSE {"suc"})
    /\ UNCHANGED <<g_ws_initialized, g_ws_state, pc, waited, tcp, rx, historyVars>>

\* The server answers the handshake, sends frames, each whole or in two pieces, none
\* after a close frame, and ends the connection in any way.
ServerSends(opcode, len) ==
    /\ tcp = "ESTABLISHED" /\ server.owed = <<>>
    /\ \E part \in {"whole", "head"} :
         LET piece(p) == [opcode |-> opcode, len |-> len, part |-> p, conn |-> conns]
         IN  /\ rx' = Append(rx, piece(part))
             /\ server' = [server EXCEPT
                  !.answer = CASE opcode = HTTP -> "accepted"
                               [] opcode = REFUSED -> "refused"
                               [] OTHER -> @,
                  !.left = CASE opcode \in Answers -> @ [] opcode = CLOSE -> 0
                             [] OTHER -> @ - 1,
                  !.owed = IF part = "head" THEN <<piece("tail")>> ELSE <<>>]
    /\ sent' = IF opcode = DATA THEN Append(sent, len) ELSE sent
    /\ UNCHANGED <<taskVars, tcp, sr, ir, conns, said, readVars>>

ServerAnswers ==
    /\ said # <<>> /\ server.answer = "none"
    /\ ServerSends(HTTP, 0) \/ ServerSends(REFUSED, 0)

ServerTalks ==
    /\ server.answer = "accepted" /\ server.left > 0
    /\ \/ \E len \in WsLens : ServerSends(DATA, len)
       \/ ServerSends(PING, 0) \/ ServerSends(CLOSE, 0)

ServerContinues ==
    /\ tcp = "ESTABLISHED" /\ server.owed # <<>>
    /\ rx' = rx \o server.owed /\ server' = [server EXCEPT !.owed = <<>>]
    /\ UNCHANGED <<taskVars, tcp, sr, ir, conns, said, sent, readVars>>

ServerEnds ==
    /\ \/ tcp = "ESTABLISHED" /\ tcp' = "CLOSE_WAIT" /\ ir' = ir \cup {"DISCON"}
       \/ /\ tcp \in {"ESTABLISHED", "CLOSE_WAIT"} /\ tcp' = "CLOSED"
          /\ \E event \in {"DISCON", "TIMEOUT"} : ir' = ir \cup {event}
    /\ UNCHANGED <<taskVars, sr, rx, historyVars>>

WsServer == ServerAnswers \/ ServerTalks \/ ServerContinues \/ ServerEnds

WsNext ==
    \/ WsInit \/ WsConnect \/ WsConnected \/ WsHandshake \/ WsHandshakeOver
    \/ WsSend \/ WsPing \/ WsClose \/ WsProcess \/ WsDelayOver
    \/ WsTime \/ WsInterrupt \/ WsServer

WsSpec == WsInitial /\ [][WsNext]_wsVars

-------------------------------------------------------------------------------
\* As long as every recv on a connection returned one message of it, the client looks
\* once, in order, at exactly the data frames the server sent on it, those that still
\* wait to be read excepted; it has their lengths, and hands each to the application
\* unless the buffer for it is missing or too small.  And a server reads every frame of
\* the client with the length it was written with.
WsDelivers ==
    /\ LET waiting == {k \in DOMAIN rx : /\ rx[k].conn = conns /\ rx[k].opcode = DATA
                                         /\ rx[k].part # "tail"}
           number(k) == Len(taken) + Cardinality({j \in waiting : j <= k})
       IN  whole =>
             /\ Len(sent) = Len(taken) + Cardinality(waiting)
             /\ \A k \in DOMAIN taken :
                  /\ taken[k].len = sent[k]
                  /\ taken[k].kept = (taken[k].room # NoBuffer /\ sent[k] <= taken[k].room)
             /\ \A k \in waiting : rx[k].len = sent[number(k)]
    /\ \A k \in DOMAIN said : PayloadLen(said[k].header) = said[k].len

\* When ws_client_connect has made the client CONNECTED, a handshake was sent on this
\* very connection and its server has accepted it, whatever state an earlier connection
\* left and however this one was reached; unless something the server sent on an
\* earlier connection was read on this one.
WsConnectedIsAccepted ==
    g_ws_state = "CONNECTED" /\ pc = "idle" =>
        said # <<>> /\ said[1].opcode = HTTP /\ (fresh => server.answer = "accepted")

\* After its close frame the client sends nothing on the connection, neither by
\* itself nor in answer to what it still receives.
WsQuietAfterClose ==
    [][said # <<>> /\ said[Len(said)].opcode = CLOSE => said' \in {said, <<>>}]_wsVars

\* A close that was begun, by the client or by the server, ends: the client is
\* DISCONNECTED or has a new connection.
WsEndIsNoticed ==
    (g_ws_state = "CLOSING" \/ (g_ws_state = "CONNECTED" /\ tcp # "ESTABLISHED"))
        ~> (g_ws_state = "DISCONNECTED" \/ (g_ws_state = "CONNECTED" /\ tcp = "ESTABLISHED"))
===============================================================================
