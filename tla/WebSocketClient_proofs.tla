-------------------------- MODULE WebSocketClient_proofs --------------------------
(***************************************************************************)
(* Proofs about the WebSocket client: what it believes of the connection,  *)
(* what it says after its close frame, and what it reads of what was sent. *)
(***************************************************************************)
EXTENDS WebSocketClient, TLAPS, FiniteSetTheorems, SequenceTheorems

Length == {n \in Nat : n <= 65535}
Kinds == {DATA, CLOSE, PING, HTTP, REFUSED}
Piece == [opcode : Kinds, len : Length, part : {"whole", "head", "tail"}, conn : Nat]
Server == [answer : {"none", "accepted", "refused"}, left : Nat, owed : Seq(Piece)]
Frame == {Message(opcode, len) : opcode \in {DATA, CLOSE, PING, PONG, HTTP}, len \in Length}
Looks == {Look(len, room) : len \in Length, room \in Nat}

WsTyped ==
    /\ g_ws_state \in {"DISCONNECTED", "CONNECTED", "CLOSING"}
    /\ pc \in {"idle", "connecting", "handshake", "delay"}
    /\ conns \in Nat /\ rx \in Seq(Piece) /\ server \in Server
    /\ said \in Seq(Frame) /\ sent \in Seq(Length) /\ taken \in Seq(Looks)
    /\ whole \in BOOLEAN /\ fresh \in BOOLEAN

\* What is owed is the rest of one frame.
Owes(owed) == owed # <<>> => Len(owed) = 1 /\ owed[1].part = "tail"

\* No piece is of a later connection, and an answer that accepts this connection's
\* handshake was sent by its server.
Known(r, c, answer) ==
    \A k \in DOMAIN r : /\ r[k].conn <= c
                        /\ r[k].conn = c /\ r[k].opcode = HTTP => answer = "accepted"

Stream ==
    /\ Owes(server.owed)
    /\ Known(rx, conns, server.answer) /\ Known(server.owed, conns, server.answer)

\* Nothing of r is of connection c; what is begins with an answer.
None(r, c) == \A k \in DOMAIN r : r[k].conn # c
AnswerFirst(r, c) ==
    \E k \in DOMAIN r : /\ r[k].conn = c /\ r[k].opcode \in Answers
                        /\ \A j \in 1 .. k - 1 : r[j].conn # c

\* What is known of a connection that is being set up
Phase ==
    /\ pc = "connecting" =>
         said = <<>> /\ None(rx, conns) /\ server.answer = "none" /\ server.owed = <<>>
    /\ pc = "handshake" =>
         /\ said = <<Message(HTTP, 0)>>
         /\ \/ None(rx, conns) /\ server.answer = "none" /\ server.owed = <<>>
            \/ AnswerFirst(rx, conns) /\ server.answer # "none"

Believed ==
    g_ws_state = "CONNECTED" /\ pc = "idle" =>
        said # <<>> /\ said[1].opcode = HTTP /\ (fresh => server.answer = "accepted")

\* Where the task can be after its close frame
Quiet ==
    said # <<>> /\ said[Len(said)].opcode = CLOSE =>
        pc = "delay" \/ (pc = "idle" /\ g_ws_state # "CONNECTED")

\* The data frames of connection c that wait in r, those of them up to k, and what
\* they, t and s have to do with each other when t was read and s sent
Begins(p, c) == p.conn = c /\ p.opcode = DATA /\ p.part # "tail"
Waiting(r, c) == {k \in DOMAIN r : Begins(r[k], c)}
Before(r, c, k) == {j \in Waiting(r, c) : j <= k}

Delivered(r, c, t, s) ==
    /\ Len(s) = Len(t) + Cardinality(Waiting(r, c))
    /\ \A k \in DOMAIN t : t[k] = Look(s[k], t[k].room)
    /\ \A k \in Waiting(r, c) : r[k].len = s[Len(t) + Cardinality(Before(r, c, k))]

\* What is left of r when n pieces were taken, whether those are one message, and
\* what waits of them
After(r, n) == SubSeq(r, n + 1, Len(r))
First(r) == IF r[1].opcode = DATA THEN {1} ELSE {}
FirstSize(r) == IF r[1].opcode = DATA THEN 1 ELSE 0
One(r, n) == IF r[1].part = "whole" THEN n = 1
             ELSE r[1].part = "head" /\ n = 2 /\ r[2].part = "tail"

WsInv ==
    /\ WsTyped /\ Stream /\ Phase /\ Believed /\ Quiet
    /\ whole => Delivered(rx, conns, taken, sent)

-------------------------------------------------------------------------------
\* A server reads the length a frame was written with.
LEMMA ClientLength ==
    \A opcode \in Nat, len \in Length : PayloadLen(ws_create_frame_header(opcode, len)) = len
<1> SUFFICES ASSUME NEW opcode \in Nat, NEW len \in Length
             PROVE  PayloadLen(ws_create_frame_header(opcode, len)) = len
  OBVIOUS
<1>1. CASE len < 126
  <2>1. (128 + len) % 128 = len
    BY <1>1 DEF Length
  <2>2. QED
    BY <1>1, <2>1 DEF PayloadLen, ws_create_frame_header
<1>2. CASE ~(len < 126)
  <2>1. (128 + 126) % 128 = 126 /\ 256 * (len \div 256) + (len % 256) = len
    BY DEF Length
  <2>2. QED
    BY <1>2, <2>1 DEF PayloadLen, ws_create_frame_header
<1>3. QED
  BY <1>1, <1>2

\* The client reads the length and the kind of a frame as the server wrote them, and
\* takes an answer for a close frame.
LEMMA ServerFrame ==
    ASSUME NEW opcode \in Kinds, NEW len \in Length
    PROVE  /\ PayloadLen(ServerHeader(opcode, len)) \in Length
           /\ opcode \notin Answers => PayloadLen(ServerHeader(opcode, len)) = len
           /\ Opcode(ServerHeader(opcode, len)) = IF opcode \in Answers THEN CLOSE ELSE opcode
<1> USE DEF DATA, CLOSE, PING, HTTP, REFUSED
<1>0. CASE opcode \in Answers
  <2>1. ServerHeader(opcode, len) = <<72, 84>>
    BY <1>0 DEF ServerHeader
  <2>2. 84 % 128 = 84 /\ 72 % 16 = 8
    OBVIOUS
  <2>3. QED
    BY <1>0, <2>1, <2>2 DEF PayloadLen, Opcode, Length
<1>a. ASSUME opcode \notin Answers
      PROVE  opcode \in {2, 8, 9} /\ (128 + opcode) % 16 = opcode
  <2>1. opcode = 2 \/ opcode = 8 \/ opcode = 9
    BY <1>a DEF Kinds, Answers
  <2>2. 130 % 16 = 2 /\ 136 % 16 = 8 /\ 137 % 16 = 9
    OBVIOUS
  <2>3. QED
    BY <2>1, <2>2
<1> DEFINE rest == IF len < 126 THEN <<len>> ELSE <<126, len \div 256, len % 256>>
           header == <<128 + opcode>> \o rest
<1>2. ASSUME opcode \notin Answers
      PROVE  header = ServerHeader(opcode, len) /\ header[1] = 128 + opcode /\ header[2] = rest[1]
  <2>1. header = ServerHeader(opcode, len)
    BY <1>2 DEF ServerHeader
  <2>2. header[1] = 128 + opcode /\ header[2] = rest[1]
    BY <1>a, <1>2 DEF Length
  <2>3. QED
    BY <2>1, <2>2
<1>3. CASE opcode \notin Answers /\ len < 126
  <2>1. len % 128 = len /\ rest[1] = len
    BY <1>3 DEF Length
  <2>2. (len % 128) # 126
    BY <1>3, <2>1
  <2> HIDE DEF rest, header
  <2>3. QED
    BY <1>2, <1>3, <1>a, <2>1, <2>2 DEF PayloadLen, Opcode
<1>4. CASE opcode \notin Answers /\ ~(len < 126)
  <2>1. 256 * (len \div 256) + (len % 256) = len
    BY <1>4 DEF Length
  <2>2. 126 % 128 = 126
    OBVIOUS
  <2>3. rest = <<126, len \div 256, len % 256>>
    BY <1>4
  <2>4. header[3] = len \div 256 /\ header[4] = len % 256
    BY <2>3, <1>4, <1>a DEF Length
  <2>5. rest[1] = 126
    BY <2>3
  <2> HIDE DEF header, rest
  <2>6. QED
    BY <1>2, <1>4, <1>a, <2>1, <2>2, <2>4, <2>5 DEF PayloadLen, Opcode
<1>5. QED
  BY <1>0, <1>3, <1>4

-------------------------------------------------------------------------------
Spoken == {DATA, CLOSE, PING, PONG, HTTP}

\* Saying something appends one frame of that kind, or nothing.
LEMMA SaysFrame ==
    ASSUME said \in Seq(Frame), NEW opcode \in Spoken, NEW len \in Length, Says(opcode, len)
    PROVE  /\ Message(opcode, len) \in Frame
           /\ said' \in Seq(Frame)
           /\ said' = said \/ said' = Append(said, Message(opcode, len))
<1>1. Message(opcode, len) \in Frame
  BY DEF Frame, Spoken
<1> DEFINE m == Message(opcode, len)
<1>2. said' = said \/ said' = Append(said, m)
  BY DEF Says
<1> HIDE DEF m
<1>3. m \in Frame => Append(said, m) \in Seq(Frame)
  OBVIOUS
<1>4. QED
  BY <1>1, <1>2, <1>3 DEF m

\* A contiguous part of what waits, and what is left when its beginning is taken
LEMMA PartOf ==
    ASSUME NEW r \in Seq(Piece), NEW i \in 1 .. Len(r) + 1, NEW j \in 0 .. Len(r), j >= i - 1
    PROVE  LET q == SubSeq(r, i, j)
           IN  /\ q \in Seq(Piece) /\ Len(q) = j + 1 - i
               /\ \A k \in DOMAIN q : i + k - 1 \in DOMAIN r /\ q[k] = r[i + k - 1]
<1> DEFINE q == SubSeq(r, i, j)
<1>0. /\ Len(r) \in Nat /\ DOMAIN r = 1 .. Len(r) /\ i \in Nat /\ j \in Nat
      /\ \A k \in 1 .. Len(r) : r[k] \in Piece
  OBVIOUS
<1>1. CASE i <= j
  <2>1. i \in 1 .. Len(r) /\ j \in i .. Len(r)
    BY <1>0, <1>1
  <2>2. /\ q \in Seq(Piece) /\ Len(q) = j - i + 1
        /\ \A k \in 1 .. j - i + 1 : q[k] = r[i + k - 1]
    BY <1>0, <2>1, SubSeqProperties
  <2> HIDE DEF q
  <2>3. DOMAIN q = 1 .. j - i + 1
    BY <2>2
  <2>4. QED
    BY <1>0, <2>1, <2>2, <2>3 DEF q
<1>2. CASE ~(i <= j)
  <2>1. q = <<>>
    BY <1>0, <1>2, SubSeqProperties
  <2>2. Len(q) = 0 /\ DOMAIN q = {} /\ q \in Seq(Piece)
    BY <2>1
  <2>3. j + 1 - i = 0
    BY <1>0, <1>2
  <2> HIDE DEF q
  <2>4. QED
    BY <2>2, <2>3 DEF q
<1>3. QED
  BY <1>1, <1>2

\* What is left after a receipt
LEMMA TakesPart ==
    ASSUME WsTyped, NEW n \in 0 .. Len(rx), Takes(n)
    PROVE  /\ rx' = After(rx, n)
           /\ rx' \in Seq(Piece) /\ Len(rx') = Len(rx) - n
           /\ \A k \in DOMAIN rx' : n + k \in DOMAIN rx /\ rx'[k] = rx[n + k]
           /\ whole' \in BOOLEAN /\ fresh' \in BOOLEAN
           /\ whole' => whole /\ (n > 0 => OneMessage(n))
           /\ fresh' => fresh /\ Own(n)
<1>1. rx \in Seq(Piece) /\ Len(rx) \in Nat /\ whole \in BOOLEAN /\ fresh \in BOOLEAN
  BY DEF WsTyped
<1>2. n + 1 \in 1 .. Len(rx) + 1 /\ Len(rx) \in 0 .. Len(rx) /\ Len(rx) >= n + 1 - 1
  BY <1>1
<1>3. rx' = After(rx, n)
  BY DEF Takes, After
<1>4. /\ rx' \in Seq(Piece) /\ Len(rx') = Len(rx) + 1 - (n + 1)
      /\ \A k \in DOMAIN rx' : n + 1 + k - 1 \in DOMAIN rx /\ rx'[k] = rx[n + 1 + k - 1]
  BY <1>1, <1>2, <1>3, PartOf DEF After
<1>5. Len(rx') = Len(rx) - n
  BY <1>1, <1>4
<1>6. \A k \in DOMAIN rx' : n + k \in DOMAIN rx /\ rx'[k] = rx[n + k]
  <2>1. \A k \in DOMAIN rx' : k \in Nat
    BY <1>4
  <2>2. \A k \in DOMAIN rx' : n + 1 + k - 1 = n + k
    BY <2>1
  <2>3. QED
    BY <1>4, <2>2
<1>7. /\ whole' \in BOOLEAN /\ fresh' \in BOOLEAN
      /\ whole' => whole /\ (n > 0 => OneMessage(n))
      /\ fresh' => fresh /\ Own(n)
  BY <1>1, Zenon DEF Takes
<1>8. QED
  BY <1>3, <1>4, <1>5, <1>6, <1>7

\* What the server sends is a piece of this connection at the end of what waits, whole
\* or with a tail that it owes from then on.
LEMMA ServerPiece ==
    ASSUME WsTyped, NEW opcode \in Kinds, NEW len \in Length,
           opcode \notin Answers => server.left > 0,
           ServerSends(opcode, len)
    PROVE  /\ server.owed = <<>> /\ server' \in Server
           /\ server'.answer = CASE opcode = HTTP -> "accepted"
                                 [] opcode = REFUSED -> "refused"
                                 [] OTHER -> server.answer
           /\ \E p \in Piece :
                /\ rx' = Append(rx, p) /\ p.opcode = opcode /\ p.len = len /\ p.conn = conns
                /\ \/ p.part = "whole" /\ server'.owed = <<>>
                   \/ /\ p.part = "head"
                      /\ \E q \in Piece : /\ q.opcode = opcode /\ q.part = "tail" /\ q.conn = conns
                                          /\ server'.owed = <<q>>
<1> DEFINE piece(part) == [opcode |-> opcode, len |-> len, part |-> part, conn |-> conns]
           answer == CASE opcode = HTTP -> "accepted"
                       [] opcode = REFUSED -> "refused"
                       [] OTHER -> server.answer
           left == CASE opcode \in Answers -> server.left
                     [] opcode = CLOSE -> 0
                     [] OTHER -> server.left - 1
           owed(part) == IF part = "head" THEN <<piece("tail")>> ELSE <<>>
<1>1. server \in Server /\ conns \in Nat
  BY DEF WsTyped
<1>2. PICK part \in {"whole", "head"} :
        /\ rx' = Append(rx, piece(part))
        /\ server' = [server EXCEPT !.answer = answer, !.left = left, !.owed = owed(part)]
  BY DEF ServerSends
<1>3. answer \in {"none", "accepted", "refused"}
  BY <1>1 DEF HTTP, REFUSED, Server
<1>4. left \in Nat
  BY <1>1 DEF Answers, HTTP, REFUSED, CLOSE, Server
<1>5. piece(part) \in Piece /\ piece("tail") \in Piece
  BY <1>1 DEF Piece
<1>6. owed(part) \in Seq(Piece)
  BY <1>5
<1> HIDE DEF answer, left, owed, piece
<1>7. server' \in Server /\ server'.answer = answer /\ server'.owed = owed(part)
  BY <1>1, <1>2, <1>3, <1>4, <1>6 DEF Server
<1>8. server.owed = <<>>
  BY DEF ServerSends
<1>9. /\ piece(part).opcode = opcode /\ piece(part).len = len /\ piece(part).part = part
      /\ piece(part).conn = conns
      /\ piece("tail").opcode = opcode /\ piece("tail").part = "tail" /\ piece("tail").conn = conns
  BY DEF piece
<1>10. \/ part = "whole" /\ owed(part) = <<>>
       \/ part = "head" /\ owed(part) = <<piece("tail")>>
  BY DEF owed
<1>11. QED
  BY <1>2, <1>5, <1>7, <1>8, <1>9, <1>10 DEF answer

\* What a server sends is the answer to a handshake or a frame after it.
LEMMA ServerSpeaks ==
    ASSUME WsTyped, ServerAnswers \/ ServerTalks
    PROVE  \E opcode \in Kinds, len \in Length :
             /\ ServerSends(opcode, len)
             /\ opcode \in Answers => said # <<>> /\ server.answer = "none"
             /\ opcode \notin Answers => server.answer = "accepted" /\ server.left > 0
<1>1. 0 \in Length
  BY DEF Length
<1>2. WsLens \subseteq Length
  BY WsAssumption DEF Length
<1>3. QED
  BY <1>1, <1>2
     DEF ServerAnswers, ServerTalks, Kinds, Answers, DATA, CLOSE, PING, HTTP, REFUSED

\* The piece that is owed is put at the end.
LEMMA ServerGoesOn ==
    ASSUME WsTyped, Owes(server.owed), ServerContinues
    PROVE  /\ Len(server.owed) = 1 /\ server.owed[1] \in Piece /\ server.owed[1].part = "tail"
           /\ rx' = Append(rx, server.owed[1])
           /\ server' \in Server /\ server'.answer = server.answer /\ server'.owed = <<>>
           /\ UNCHANGED <<g_ws_state, pc, conns, said, sent, taken, whole, fresh>>
<1>1. rx \in Seq(Piece) /\ server \in Server /\ server.owed \in Seq(Piece)
  BY DEF WsTyped, Server
<1>2. /\ server.owed # <<>> /\ rx' = rx \o server.owed
      /\ server' = [server EXCEPT !.owed = <<>>]
      /\ UNCHANGED <<g_ws_state, pc, conns, said, sent, taken, whole, fresh>>
  BY DEF ServerContinues, taskVars, readVars
<1>3. Len(server.owed) = 1 /\ server.owed[1].part = "tail" /\ server.owed[1] \in Piece
  BY <1>1, <1>2 DEF Owes
<1>4. rx \o server.owed = Append(rx, server.owed[1])
  <2> DEFINE one == server.owed
             p == server.owed[1]
  <2>1. one \in Seq(Piece) /\ rx \in Seq(Piece) /\ p \in Piece /\ Len(one) = 1 /\ one[1] = p
    BY <1>1, <1>3
  <2> HIDE DEF one, p
  <2>2. /\ rx \o one \in Seq(Piece) /\ Append(rx, p) \in Seq(Piece)
        /\ Len(rx \o one) = Len(Append(rx, p))
    BY <2>1, ConcatProperties, AppendProperties
  <2>3. \A k \in 1 .. Len(rx \o one) : (rx \o one)[k] = Append(rx, p)[k]
    BY <2>1, ConcatProperties, AppendProperties, LenProperties
  <2>4. rx \o one = Append(rx, p)
    BY <2>2, <2>3, SeqEqual
  <2>5. QED
    BY <2>4 DEF one, p
<1>5. server' \in Server /\ server'.answer = server.answer /\ server'.owed = <<>>
  <2>1. <<>> \in Seq(Piece)
    OBVIOUS
  <2>2. QED
    BY <1>1, <1>2, <2>1 DEF Server
<1>6. QED
  BY <1>2, <1>3, <1>4, <1>5

\* A new connection keeps, of what waits, a part or everything.
LEMMA ConnectKeeps ==
    ASSUME WsTyped, WsConnect
    PROVE  /\ rx' \in Seq(Piece)
           /\ \A k \in DOMAIN rx' : \E j \in DOMAIN rx : rx'[k] = rx[j]
           /\ conns' = conns + 1 /\ server' \in Server
           /\ server'.answer = "none" /\ server'.owed = <<>>
           /\ said' = <<>> /\ sent' = <<>> /\ taken' = <<>> /\ whole' = TRUE /\ fresh' = TRUE
           /\ g_ws_state' \in {g_ws_state, "DISCONNECTED"}
           /\ pc = "idle" /\ (pc' = "connecting" \/ (pc' = "idle" /\ g_ws_state' = "DISCONNECTED"))
<1>1. rx \in Seq(Piece) /\ Len(rx) \in Nat /\ conns \in Nat
  BY DEF WsTyped
<1>2. rx' \in Seq(Piece) /\ \A k \in DOMAIN rx' : \E j \in DOMAIN rx : rx'[k] = rx[j]
  <2>1. CASE rx' = rx
    BY <1>1, <2>1
  <2>2. ASSUME NEW i \in 1 .. Len(rx) + 1, NEW n \in 0 .. MaxStale,
               i + n <= Len(rx) + 1, rx' = SubSeq(rx, i, i + n - 1)
        PROVE  rx' \in Seq(Piece) /\ \A k \in DOMAIN rx' : \E j \in DOMAIN rx : rx'[k] = rx[j]
    <3>1. i + n - 1 \in 0 .. Len(rx) /\ i + n - 1 >= i - 1
      BY <1>1, <2>2, WsAssumption
    <3>2. QED
      BY <1>1, <2>2, <3>1, PartOf
  <2>3. rx' = rx \/ \E i \in 1 .. Len(rx) + 1, n \in 0 .. MaxStale :
                      i + n <= Len(rx) + 1 /\ rx' = SubSeq(rx, i, i + n - 1)
    BY DEF WsConnect
  <2>4. QED
    BY <2>1, <2>2, <2>3
<1>3. MaxFrames[conns + 1] \in Nat
  <2>1. conns + 1 \in 1 .. Len(MaxFrames)
    BY <1>1, WsAssumption DEF WsConnect
  <2>2. QED
    BY <2>1, WsAssumption
<1>4. /\ server' = NewServer(MaxFrames[conns + 1]) /\ conns' = conns + 1
      /\ said' = <<>> /\ sent' = <<>> /\ taken' = <<>> /\ whole' = TRUE /\ fresh' = TRUE
      /\ g_ws_state' \in {g_ws_state, "DISCONNECTED"}
      /\ pc = "idle" /\ (pc' = "connecting" \/ (pc' = "idle" /\ g_ws_state' = "DISCONNECTED"))
  BY DEF WsConnect
<1>5. server' \in Server /\ server'.answer = "none" /\ server'.owed = <<>>
  BY <1>3, <1>4 DEF NewServer, Server
<1>6. QED
  BY <1>2, <1>4, <1>5

\* The end of the wait for an answer
WaitEnds == WsHandshake \/ WsHandshakeOver

\* It takes what recv returns, and makes the client CONNECTED only for an HTTP answer.
LEMMA WaitEffect ==
    ASSUME WsTyped, WaitEnds
    PROVE  /\ pc = "handshake" /\ pc' = "idle" /\ g_ws_state' \in {"CONNECTED", "DISCONNECTED"}
           /\ UNCHANGED <<conns, server, said, sent, taken>>
           /\ \E n \in 0 .. Len(rx) :
                Takes(n) /\ (g_ws_state' = "CONNECTED" => \E k \in 1 .. n : rx[k].opcode = HTTP)
<1>1. Len(rx) \in Nat
  BY DEF WsTyped
<1>2. CASE WsHandshake
  <2>1. PICK n \in 1 .. Len(rx) :
          /\ Takes(n) /\ g_ws_state' \in {"CONNECTED", "DISCONNECTED"}
          /\ g_ws_state' = "CONNECTED" => Switching(n)
    BY <1>2 DEF WsHandshake
  <2>2. n \in 0 .. Len(rx)
    BY <1>1, <2>1
  <2>3. QED
    BY <1>2, <2>1, <2>2 DEF WsHandshake, Switching
<1>3. CASE WsHandshakeOver
  BY <1>3 DEF WsHandshakeOver
<1>4. QED
  BY <1>2, <1>3 DEF WaitEnds

\* The steps that leave the connection's history and what waits alone
StillSteps ==
    \/ WsInit \/ WsDelayOver \/ WsTime \/ WsInterrupt \/ ServerEnds
    \/ pc = "idle" /\ (WsLost \/ WsEvent \/ WsCloseOver)
    \/ UNCHANGED wsVars

\* A step is one of those, or one of the others the model names.
LEMMA StepKinds ==
    [WsNext]_wsVars =>
        \/ StillSteps \/ WaitEnds
        \/ WsConnect \/ WsConnected \/ WsSend \/ WsPing \/ WsClose
        \/ pc = "idle" /\ WsReceive
        \/ ServerAnswers \/ ServerTalks \/ ServerContinues
  BY DEF WsNext, WsProcess, WsServer, StillSteps, WaitEnds

\* Those steps keep or end what the client believes; none makes it CONNECTED, says
\* anything or begins to set a connection up.
LEMMA StillStep ==
    ASSUME WsTyped, StillSteps
    PROVE  /\ UNCHANGED <<rx, conns, server, said, sent, taken, whole, fresh>>
           /\ g_ws_state' \in {g_ws_state, "DISCONNECTED"}
           /\ pc' = pc \/ (pc' = "idle" /\ g_ws_state' = "DISCONNECTED")
<1> USE DEF historyVars, readVars, socketVars, taskVars
<1>1. CASE WsInit
  BY <1>1 DEF WsInit
<1>3. CASE WsDelayOver
  BY <1>3 DEF WsDelayOver, Disconnect
<1>4. CASE WsTime
  BY <1>4 DEF WsTime
<1>5. CASE WsInterrupt
  BY <1>5 DEF WsInterrupt
<1>6. CASE ServerEnds
  BY <1>6 DEF ServerEnds
<1>7. CASE WsLost
  BY <1>7 DEF WsLost, WsEnds
<1>8. CASE WsEvent
  BY <1>8 DEF WsEvent, WsEnds, CloseSocket, Disconnect
<1>9. CASE WsCloseOver
  BY <1>9 DEF WsCloseOver, WsEnds, CloseSocket
<1>10. CASE UNCHANGED wsVars
  BY <1>10 DEF wsVars
<1>11. QED
  BY <1>1, <1>3, <1>4, <1>5, <1>6, <1>7, <1>8, <1>9, <1>10 DEF StillSteps

\* So do the steps that only say something or set a connection up.
LEMMA OwnSteps ==
    ASSUME WsTyped, WsConnected \/ WsSend \/ WsPing \/ WsClose
    PROVE  UNCHANGED <<rx, conns, server, sent, taken, whole, fresh>>
  BY DEF WsConnected, WsSend, WsPing, WsClose, socketVars, readVars

-------------------------------------------------------------------------------
\* A receipt takes some pieces; the first frame of them, if it is whole, is looked at
\* if it is a data frame, and answered or not if it is another one.
LEMMA ReceiveEffect ==
    ASSUME WsTyped, WsReceive
    PROVE  /\ g_ws_state = "CONNECTED" /\ UNCHANGED <<g_ws_state, conns, server, sent>>
           /\ \E n \in 1 .. Len(rx), len \in Length :
                /\ Takes(n)
                /\ \/ /\ WholeFirst(n) => rx[1].opcode = DATA /\ len = rx[1].len
                      /\ \E room \in Nat : taken' = Append(taken, Look(len, room))
                      /\ UNCHANGED <<pc, said>>
                   \/ /\ WholeFirst(n) => rx[1].opcode # DATA
                      /\ UNCHANGED taken
                      /\ \/ Says(PONG, len) /\ pc' = pc
                         \/ Says(CLOSE, 0) /\ pc' = "delay"
                         \/ UNCHANGED <<pc, said>>
<1> DEFINE header == ServerHeader(rx[1].opcode, rx[1].len)
           len == PayloadLen(header)
           opcodes(n) == CASE WholeFirst(n) -> {Opcode(header)}
                           [] rx[1].part = "head" /\ n = 1 -> {}
                           [] OTHER -> {DATA, PING, PONG, CLOSE}
<1>1. PICK n \in 1 .. Len(rx) :
        /\ Takes(n)
        /\ \/ /\ DATA \in opcodes(n)
              /\ \E room \in WsBuffers \cup {NoBuffer} : taken' = Append(taken, Look(len, room))
              /\ UNCHANGED <<pc, said>>
           \/ PING \in opcodes(n) /\ Says(PONG, len) /\ UNCHANGED <<pc, taken>>
           \/ CLOSE \in opcodes(n) /\ Says(CLOSE, 0) /\ pc' = "delay" /\ UNCHANGED taken
           \/ (opcodes(n) = {} \/ PONG \in opcodes(n)) /\ UNCHANGED <<pc, said, taken>>
  BY DEF WsReceive
<1>2. rx \in Seq(Piece) /\ rx[1] \in Piece
  BY <1>1 DEF WsTyped
<1>3. rx[1].opcode \in Kinds /\ rx[1].len \in Length
  BY <1>2 DEF Piece
<1>4. /\ len \in Length /\ (rx[1].opcode \notin Answers => len = rx[1].len)
      /\ Opcode(header) = IF rx[1].opcode \in Answers THEN CLOSE ELSE rx[1].opcode
  BY <1>3, ServerFrame
<1>5. \A room \in WsBuffers \cup {NoBuffer} : room \in Nat
  BY WsAssumption DEF NoBuffer
<1>6. /\ Opcode(header) = DATA => rx[1].opcode = DATA /\ len = rx[1].len
      /\ Opcode(header) # DATA => rx[1].opcode # DATA
  BY <1>3, <1>4 DEF Kinds, Answers, DATA, CLOSE, PING, HTTP, REFUSED
<1>7. WholeFirst(n) => opcodes(n) = {Opcode(header)}
  <2> HIDE DEF header
  <2>1. ASSUME WholeFirst(n)  PROVE  ~(rx[1].part = "head" /\ n = 1)
    BY <1>1, <2>1 DEF WholeFirst
  <2>2. QED
    BY <2>1
<1>d. DATA # PING /\ DATA # CLOSE /\ DATA # PONG
  BY DEF DATA, PING, PONG, CLOSE
<1>8. g_ws_state = "CONNECTED" /\ UNCHANGED <<g_ws_state, conns, server, sent>>
  BY DEF WsReceive
<1> HIDE DEF header, len, opcodes
<1>9. CASE /\ DATA \in opcodes(n)
           /\ \E room \in WsBuffers \cup {NoBuffer} : taken' = Append(taken, Look(len, room))
           /\ UNCHANGED <<pc, said>>
  <2>1. WholeFirst(n) => rx[1].opcode = DATA /\ len = rx[1].len
    BY <1>6, <1>7, <1>9
  <2>2. QED
    BY <1>1, <1>4, <1>5, <1>8, <1>9, <2>1
<1>10. CASE /\ UNCHANGED taken
            /\ \/ PING \in opcodes(n) /\ Says(PONG, len) /\ UNCHANGED pc
               \/ CLOSE \in opcodes(n) /\ Says(CLOSE, 0) /\ pc' = "delay"
               \/ (opcodes(n) = {} \/ PONG \in opcodes(n)) /\ UNCHANGED <<pc, said>>
  <2>1. WholeFirst(n) => Opcode(header) # DATA
    BY <1>7, <1>10, <1>d
  <2>2. WholeFirst(n) => rx[1].opcode # DATA
    BY <1>6, <2>1
  <2>3. QED
    BY <1>1, <1>4, <1>8, <1>10, <2>2
<1>11. QED
  BY <1>1, <1>9, <1>10

\* It says a pong or a close frame, or nothing.
LEMMA ReceiveSays ==
    ASSUME WsTyped, WsReceive
    PROVE  \/ UNCHANGED <<said, pc>>
           \/ UNCHANGED pc /\ \E len \in Length : Says(PONG, len)
           \/ pc' = "delay" /\ Says(CLOSE, 0)
  BY ReceiveEffect

\* Every step keeps the types.
LEMMA WsTypedStep == WsTyped /\ Stream /\ [WsNext]_wsVars => WsTyped'
<1> SUFFICES ASSUME WsTyped, Stream, [WsNext]_wsVars  PROVE  WsTyped'
  OBVIOUS
<1>t. /\ g_ws_state \in {"DISCONNECTED", "CONNECTED", "CLOSING"}
      /\ pc \in {"idle", "connecting", "handshake", "delay"}
      /\ conns \in Nat /\ rx \in Seq(Piece) /\ server \in Server
      /\ said \in Seq(Frame) /\ sent \in Seq(Length) /\ taken \in Seq(Looks)
      /\ whole \in BOOLEAN /\ fresh \in BOOLEAN
  BY DEF WsTyped
<1>z. 0 \in Length
  BY DEF Length
<1>1. CASE StillSteps
  BY <1>1, <1>t, StillStep DEF WsTyped
<1>2. CASE WsConnect
  <2>1. /\ rx' \in Seq(Piece) /\ conns' = conns + 1 /\ server' \in Server
        /\ said' = <<>> /\ sent' = <<>> /\ taken' = <<>> /\ whole' = TRUE /\ fresh' = TRUE
        /\ g_ws_state' \in {g_ws_state, "DISCONNECTED"} /\ pc' \in {"connecting", "idle"}
    BY <1>2, ConnectKeeps
  <2>2. conns' \in Nat
    BY <2>1, <1>t
  <2>3. said' \in Seq(Frame) /\ sent' \in Seq(Length) /\ taken' \in Seq(Looks)
    BY <2>1
  <2>4. g_ws_state' \in {"DISCONNECTED", "CONNECTED", "CLOSING"}
        /\ pc' \in {"idle", "connecting", "handshake", "delay"}
    BY <2>1, <1>t
  <2>5. QED
    BY <2>1, <2>2, <2>3, <2>4 DEF WsTyped
<1>3. CASE WsConnected
  <2>1. Message(HTTP, 0) \in Frame
    BY <1>z DEF Frame
  <2>2. <<Message(HTTP, 0)>> \in Seq(Frame)
    BY <2>1
  <2>3. /\ said' \in {said, <<Message(HTTP, 0)>>} /\ g_ws_state' \in {g_ws_state, "DISCONNECTED"}
        /\ pc' \in {"handshake", "idle"}
    BY <1>3 DEF WsConnected
  <2>4. said' \in Seq(Frame)
    BY <2>2, <2>3, <1>t
  <2>5. QED
    BY <1>3, <2>3, <2>4, <1>t, OwnSteps DEF WsTyped
<1>4. CASE WaitEnds
  <2>1. PICK n \in 0 .. Len(rx) : Takes(n)
    BY <1>4, WaitEffect
  <2>2. rx' \in Seq(Piece) /\ whole' \in BOOLEAN /\ fresh' \in BOOLEAN
    BY <2>1, TakesPart
  <2>3. /\ g_ws_state' \in {"CONNECTED", "DISCONNECTED"} /\ pc' = "idle"
        /\ UNCHANGED <<conns, server, said, sent, taken>>
    BY <1>4, WaitEffect
  <2>4. QED
    BY <2>2, <2>3, <1>t DEF WsTyped
<1>5. CASE WsSend \/ WsPing \/ WsClose
  <2>1. \E opcode \in Spoken, len \in Length : Says(opcode, len)
    <3>1. \A len \in WsBuffers : len \in Length
      BY WsAssumption DEF Length
    <3>2. QED
      BY <1>5, <1>z, <3>1 DEF WsSend, WsPing, WsClose, Spoken
  <2>2. said' \in Seq(Frame)
    BY <2>1, <1>t, SaysFrame
  <2>3. g_ws_state' \in {g_ws_state, "CLOSING"} /\ UNCHANGED pc
    BY <1>5 DEF WsSend, WsPing, WsClose, taskVars
  <2>4. QED
    BY <1>5, <2>2, <2>3, <1>t, OwnSteps DEF WsTyped
<1>6. CASE pc = "idle" /\ WsReceive
  <2>1. PICK n \in 1 .. Len(rx), len \in Length :
          Takes(n) /\ (UNCHANGED taken \/ \E room \in Nat : taken' = Append(taken, Look(len, room)))
    BY <1>6, ReceiveEffect
  <2>2. n \in 0 .. Len(rx)
    BY <2>1, <1>t
  <2>3. rx' \in Seq(Piece) /\ whole' \in BOOLEAN /\ fresh' \in BOOLEAN
    BY <2>1, <2>2, TakesPart
  <2>4. taken' \in Seq(Looks)
    <3>1. \A room \in Nat : Look(len, room) \in Looks
      BY DEF Looks
    <3>2. \A x \in Looks : Append(taken, x) \in Seq(Looks)
      BY <1>t
    <3>3. QED
      BY <2>1, <3>1, <3>2, <1>t
  <2>5. said' \in Seq(Frame) /\ pc' \in {pc, "delay"}
    <3>1. PONG \in Spoken /\ CLOSE \in Spoken
      BY DEF Spoken
    <3>2. QED
      BY <1>6, <1>t, <1>z, <3>1, ReceiveSays, SaysFrame
  <2>6. UNCHANGED <<g_ws_state, conns, server, sent>>
    BY <1>6, ReceiveEffect
  <2>7. QED
    BY <2>3, <2>4, <2>5, <2>6, <1>t DEF WsTyped
<1>7. CASE ServerAnswers \/ ServerTalks
  <2>1. PICK opcode \in Kinds, len \in Length :
          ServerSends(opcode, len) /\ (opcode \notin Answers => server.left > 0)
    BY <1>7, ServerSpeaks
  <2>2. server' \in Server /\ \E p \in Piece : rx' = Append(rx, p)
    BY <2>1, ServerPiece
  <2>3. /\ sent' = IF opcode = DATA THEN Append(sent, len) ELSE sent
        /\ UNCHANGED <<g_ws_state, pc, conns, said, taken, whole, fresh>>
    BY <2>1 DEF ServerSends, taskVars, readVars
  <2>4. Append(sent, len) \in Seq(Length)
    BY <1>t
  <2>5. rx' \in Seq(Piece)
    BY <2>2, <1>t
  <2>6. QED
    BY <2>2, <2>3, <2>4, <2>5, <1>t DEF WsTyped
<1>8. CASE ServerContinues
  <2>1. /\ rx' = Append(rx, server.owed[1]) /\ server.owed[1] \in Piece /\ server' \in Server
        /\ UNCHANGED <<g_ws_state, pc, conns, said, sent, taken, whole, fresh>>
    BY <1>8, ServerGoesOn DEF Stream
  <2>2. rx' \in Seq(Piece)
    BY <2>1, <1>t
  <2>3. QED
    BY <2>1, <2>2, <1>t DEF WsTyped
<1>9. QED
  BY <1>1, <1>2, <1>3, <1>4, <1>5, <1>6, <1>7, <1>8, StepKinds

-------------------------------------------------------------------------------
\* What is known of pieces is known when one of this connection follows, and of fewer.
LEMMA KnownMore ==
    ASSUME NEW r \in Seq(Piece), NEW p \in Piece, NEW c, NEW answer, NEW before,
           Known(r, c, before), p.conn = c, p.opcode = HTTP => answer = "accepted",
           answer = before \/ (before = "none" /\ answer # "none")
    PROVE  Known(Append(r, p), c, answer)
<1> DEFINE s == Append(r, p)
<1>1. \A k \in DOMAIN s : s[k] = p \/ (k \in DOMAIN r /\ s[k] = r[k])
  OBVIOUS
<1>2. p.conn <= c
  BY DEF Piece
<1>3. \A k \in DOMAIN r : r[k].conn <= c /\ (r[k].conn = c /\ r[k].opcode = HTTP => answer = "accepted")
  BY DEF Known
<1> HIDE DEF s
<1>4. \A k \in DOMAIN s : s[k].conn <= c /\ (s[k].conn = c /\ s[k].opcode = HTTP => answer = "accepted")
  BY <1>1, <1>2, <1>3
<1>5. QED
  BY <1>4 DEF Known, s

LEMMA KnownLess ==
    ASSUME WsTyped, Known(rx, conns, server.answer), NEW n \in 0 .. Len(rx), Takes(n)
    PROVE  Known(rx', conns, server.answer)
  BY TakesPart DEF Known

\* Every step keeps the server's word.
LEMMA StreamStep == WsTyped /\ Stream /\ [WsNext]_wsVars => Stream'
<1> SUFFICES ASSUME WsTyped, Stream, [WsNext]_wsVars  PROVE  Stream'
  OBVIOUS
<1>t. /\ rx \in Seq(Piece) /\ server.owed \in Seq(Piece) /\ server \in Server /\ conns \in Nat
      /\ Len(rx) \in Nat
  BY DEF WsTyped, Server
<1>s. /\ Owes(server.owed)
      /\ Known(rx, conns, server.answer) /\ Known(server.owed, conns, server.answer)
  BY DEF Stream
<1>0. \A c, answer : Known(<<>>, c, answer) /\ Owes(<<>>)
  BY DEF Known, Owes
<1>1. CASE UNCHANGED <<rx, server, conns>>
  BY <1>1, <1>s DEF Stream
<1>2. CASE WsConnect
  <2>1. /\ server'.owed = <<>> /\ conns' = conns + 1
        /\ \A k \in DOMAIN rx' : \E j \in DOMAIN rx : rx'[k] = rx[j]
    BY <1>2, ConnectKeeps
  <2>2. \A j \in DOMAIN rx : rx[j] \in Piece /\ rx[j].conn <= conns
    BY <1>s, <1>t DEF Known
  <2>3. \A j \in DOMAIN rx : rx[j].conn <= conns + 1 /\ rx[j].conn # conns + 1
    BY <2>2, <1>t DEF Piece
  <2>4. Known(rx', conns', server'.answer)
    BY <2>1, <2>3 DEF Known
  <2>5. QED
    BY <2>1, <2>4, <1>0 DEF Stream
<1>3. CASE ServerAnswers \/ ServerTalks
  <2>1. PICK opcode \in Kinds, len \in Length :
          /\ ServerSends(opcode, len)
          /\ opcode \in Answers => server.answer = "none"
          /\ opcode \notin Answers => server.answer = "accepted" /\ server.left > 0
    BY <1>3, ServerSpeaks
  <2>2. PICK p \in Piece :
          /\ rx' = Append(rx, p) /\ p.opcode = opcode /\ p.conn = conns
          /\ \/ server'.owed = <<>>
             \/ \E q \in Piece : /\ q.opcode = opcode /\ q.part = "tail" /\ q.conn = conns
                                 /\ server'.owed = <<q>>
    BY <2>1, ServerPiece
  <2>3. /\ server'.answer = CASE opcode = HTTP -> "accepted"
                              [] opcode = REFUSED -> "refused"
                              [] OTHER -> server.answer
        /\ conns' = conns
    BY <2>1, ServerPiece DEF ServerSends
  <2>4. /\ opcode = HTTP => server'.answer = "accepted"
        /\ server'.answer = server.answer \/ (server.answer = "none" /\ server'.answer # "none")
    BY <2>1, <2>3 DEF Answers, HTTP, REFUSED
  <2>5. Known(rx', conns', server'.answer)
    BY <2>2, <2>3, <2>4, <1>s, <1>t, KnownMore
  <2>6. Owes(server'.owed) /\ Known(server'.owed, conns', server'.answer)
    <3>1. CASE server'.owed = <<>>
      BY <3>1, <1>0
    <3>2. ASSUME NEW q \in Piece, q.opcode = opcode, q.part = "tail", q.conn = conns,
                 server'.owed = <<q>>
          PROVE  Owes(server'.owed) /\ Known(server'.owed, conns', server'.answer)
      <4>1. Len(<<q>>) = 1 /\ DOMAIN <<q>> = {1} /\ <<q>>[1] = q
        OBVIOUS
      <4>2. q.conn <= conns
        BY <3>2, <1>t
      <4>3. QED
        BY <3>2, <4>1, <4>2, <2>3, <2>4 DEF Owes, Known
    <3>3. QED
      BY <2>2, <3>1, <3>2
  <2>7. QED
    BY <2>5, <2>6 DEF Stream
<1>4. CASE ServerContinues
  <2>1. /\ server.owed[1] \in Piece /\ Len(server.owed) = 1
        /\ rx' = Append(rx, server.owed[1]) /\ server'.answer = server.answer
        /\ server'.owed = <<>> /\ conns' = conns
    BY <1>4, <1>s, ServerGoesOn
  <2>2. \A k \in DOMAIN rx' : \/ k \in DOMAIN rx /\ rx'[k] = rx[k]
                              \/ rx'[k] = server.owed[1]
    BY <2>1, <1>t
  <2>3. 1 \in DOMAIN server.owed
    BY <2>1, <1>t
  <2>4. Known(rx', conns', server'.answer)
    BY <2>1, <2>2, <2>3, <1>s DEF Known
  <2>5. QED
    BY <2>1, <2>4, <1>0 DEF Stream
<1>5. CASE WsConnected \/ WsSend \/ WsPing \/ WsClose
  BY <1>1, <1>5, OwnSteps
<1>6. CASE WaitEnds
  <2>1. PICK n \in 0 .. Len(rx) : Takes(n)
    BY <1>6, WaitEffect
  <2>2. UNCHANGED <<conns, server>>
    BY <1>6, WaitEffect
  <2>3. QED
    BY <2>1, <2>2, <1>s, KnownLess DEF Stream
<1>7. CASE pc = "idle" /\ WsReceive
  <2>1. PICK n \in 1 .. Len(rx) : Takes(n)
    BY <1>7, ReceiveEffect
  <2>2. UNCHANGED <<conns, server>>
    BY <1>7, ReceiveEffect
  <2>3. n \in 0 .. Len(rx)
    BY <2>1, <1>t
  <2>4. QED
    BY <2>1, <2>2, <2>3, <1>s, KnownLess DEF Stream
<1>8. QED
  BY <1>1, <1>2, <1>3, <1>4, <1>5, <1>6, <1>7, StepKinds, StillStep

-------------------------------------------------------------------------------
\* What begins with an answer still does when more follows.
LEMMA AnswerStays ==
    ASSUME NEW r \in Seq(Piece), NEW p \in Piece, NEW c
    PROVE  /\ AnswerFirst(r, c) => AnswerFirst(Append(r, p), c)
           /\ None(r, c) /\ p.conn = c /\ p.opcode \in Answers => AnswerFirst(Append(r, p), c)
<1> DEFINE s == Append(r, p)
<1>1. /\ Len(r) \in Nat /\ DOMAIN r = 1 .. Len(r) /\ DOMAIN s = 1 .. Len(r) + 1
      /\ s[Len(r) + 1] = p /\ \A k \in 1 .. Len(r) : s[k] = r[k]
  OBVIOUS
<1> HIDE DEF s
<1>2. ASSUME AnswerFirst(r, c)  PROVE  AnswerFirst(s, c)
  <2>1. PICK k \in DOMAIN r : /\ r[k].conn = c /\ r[k].opcode \in Answers
                              /\ \A j \in 1 .. k - 1 : r[j].conn # c
    BY <1>2 DEF AnswerFirst
  <2>2. k \in DOMAIN s /\ s[k] = r[k] /\ \A j \in 1 .. k - 1 : s[j] = r[j]
    BY <1>1, <2>1
  <2>3. QED
    BY <2>1, <2>2 DEF AnswerFirst
<1>3. ASSUME None(r, c), p.conn = c, p.opcode \in Answers  PROVE  AnswerFirst(s, c)
  <2>1. Len(r) + 1 \in DOMAIN s /\ \A j \in 1 .. (Len(r) + 1) - 1 : s[j].conn # c
    BY <1>1, <1>3 DEF None
  <2>2. QED
    BY <1>1, <1>3, <2>1 DEF AnswerFirst
<1>4. QED
  BY <1>2, <1>3 DEF s

\* While a connection is set up nothing of it was received before the answer to the
\* handshake, and that is its first piece.
LEMMA PhaseStep == WsTyped /\ Stream /\ Phase /\ [WsNext]_wsVars => Phase'
<1> SUFFICES ASSUME WsTyped, Stream, Phase, [WsNext]_wsVars  PROVE  Phase'
  OBVIOUS
<1>t. /\ rx \in Seq(Piece) /\ server \in Server /\ conns \in Nat
      /\ pc \in {"idle", "connecting", "handshake", "delay"}
  BY DEF WsTyped
<1>1. CASE pc' \in {"idle", "delay"}
  BY <1>1 DEF Phase
<1>2. CASE UNCHANGED <<pc, rx, conns, said, server>>
  BY <1>2 DEF Phase
<1>3. CASE StillSteps
  BY <1>1, <1>2, <1>3, StillStep
<1>4. CASE WsConnect
  <2>1. /\ conns' = conns + 1 /\ server'.answer = "none" /\ server'.owed = <<>> /\ said' = <<>>
        /\ \A k \in DOMAIN rx' : \E j \in DOMAIN rx : rx'[k] = rx[j]
        /\ pc' \in {"connecting", "idle"}
    BY <1>4, ConnectKeeps
  <2>2. \A j \in DOMAIN rx : rx[j] \in Piece /\ rx[j].conn <= conns
    BY <1>t DEF Stream, Known
  <2>3. \A j \in DOMAIN rx : rx[j].conn # conns + 1
    BY <2>2, <1>t DEF Piece
  <2>4. None(rx', conns')
    BY <2>1, <2>3 DEF None
  <2>5. QED
    BY <2>1, <2>4 DEF Phase
<1>5. CASE WsConnected
  <2>1. CASE pc' = "handshake"
    <3>1. said' = <<Message(HTTP, 0)>> /\ pc = "connecting"
      BY <1>5, <2>1 DEF WsConnected
    <3>2. UNCHANGED <<rx, conns, server>>
      BY <1>5, OwnSteps
    <3>3. QED
      BY <2>1, <3>1, <3>2 DEF Phase
  <2>2. QED
    BY <1>1, <1>5, <2>1 DEF WsConnected
<1>6. CASE WaitEnds
  BY <1>1, <1>6, WaitEffect
<1>7. CASE WsSend \/ WsPing \/ WsClose
  BY <1>1, <1>7 DEF WsSend, WsPing, WsClose, taskVars
<1>8. CASE pc = "idle" /\ WsReceive
  BY <1>1, <1>8, ReceiveSays
<1>9. CASE ServerAnswers \/ ServerTalks
  <2>1. PICK opcode \in Kinds, len \in Length :
          /\ ServerSends(opcode, len)
          /\ opcode \in Answers => said # <<>> /\ server.answer = "none"
          /\ opcode \notin Answers => server.answer = "accepted" /\ server.left > 0
    BY <1>9, ServerSpeaks
  <2>2. PICK p \in Piece : rx' = Append(rx, p) /\ p.opcode = opcode /\ p.conn = conns
    BY <2>1, ServerPiece
  <2>3. UNCHANGED <<pc, said, conns>>
    BY <2>1 DEF ServerSends, taskVars
  <2>4. CASE pc = "handshake"
    <3>1. server'.answer # "none"
      <4>1. server'.answer = CASE opcode = HTTP -> "accepted"
                               [] opcode = REFUSED -> "refused"
                               [] OTHER -> server.answer
        BY <2>1, ServerPiece
      <4>2. QED
        BY <4>1, <2>1 DEF Answers
    <3>2. AnswerFirst(rx', conns')
      <4>1. CASE opcode \in Answers
        <5>1. None(rx, conns)
          BY <2>1, <2>4, <4>1 DEF Phase
        <5>2. QED
          BY <2>2, <2>3, <4>1, <5>1, <1>t, AnswerStays
      <4>2. CASE opcode \notin Answers
        <5>1. AnswerFirst(rx, conns)
          BY <2>1, <2>4, <4>2 DEF Phase
        <5>2. QED
          BY <2>2, <2>3, <5>1, <1>t, AnswerStays
      <4>3. QED
        BY <4>1, <4>2
    <3>3. QED
      BY <2>3, <2>4, <3>1, <3>2 DEF Phase
  <2>5. CASE pc = "connecting"
    BY <2>1, <2>5 DEF Phase
  <2>6. QED
    BY <1>1, <1>t, <2>3, <2>4, <2>5
<1>10. CASE ServerContinues
  <2>1. /\ server.owed # <<>> /\ server.owed[1] \in Piece
        /\ rx' = Append(rx, server.owed[1]) /\ server'.answer = server.answer
        /\ UNCHANGED <<pc, said, conns>>
    BY <1>10, ServerGoesOn DEF Stream, ServerContinues
  <2>2. CASE pc = "handshake"
    <3>1. AnswerFirst(rx, conns) /\ server.answer # "none"
      BY <2>1, <2>2 DEF Phase
    <3>2. AnswerFirst(rx', conns')
      BY <2>1, <3>1, <1>t, AnswerStays
    <3>3. QED
      BY <2>1, <2>2, <3>1, <3>2 DEF Phase
  <2>3. CASE pc = "connecting"
    BY <2>1, <2>3 DEF Phase
  <2>4. QED
    BY <1>1, <1>t, <2>1, <2>2, <2>3
<1>11. QED
  BY <1>3, <1>4, <1>5, <1>6, <1>7, <1>8, <1>9, <1>10, StepKinds

\* The client becomes CONNECTED only by an answer that accepts a handshake, which is
\* the one of this connection if what was read is; and the handshake stays the first
\* thing said.
LEMMA BelievedStep ==
    WsTyped /\ Stream /\ Phase /\ Believed /\ [WsNext]_wsVars => Believed'
<1> SUFFICES ASSUME WsTyped, Stream, Phase, Believed, [WsNext]_wsVars,
                    g_ws_state' = "CONNECTED", pc' = "idle"
             PROVE  said' # <<>> /\ said'[1].opcode = HTTP /\ (fresh' => server'.answer = "accepted")
  BY Zenon DEF Believed
<1>t. rx \in Seq(Piece) /\ said \in Seq(Frame) /\ server \in Server /\ Len(rx) \in Nat
  BY DEF WsTyped
<1>b. g_ws_state = "CONNECTED" /\ pc = "idle" =>
        said # <<>> /\ said[1].opcode = HTTP /\ (fresh => server.answer = "accepted")
  BY DEF Believed
<1>0. 0 \in Length
  BY DEF Length
<1>a. ASSUME NEW opcode \in Spoken, NEW len \in Length, Says(opcode, len), said # <<>>
      PROVE  said' # <<>> /\ said'[1] = said[1]
  <2>1. said' = said \/ said' = Append(said, Message(opcode, len))
    BY <1>a, <1>t, SaysFrame
  <2>2. QED
    BY <1>a, <2>1, <1>t
<1>1. CASE StillSteps
  BY <1>1, <1>b, StillStep
<1>2. CASE WsConnect
  BY <1>2, ConnectKeeps
<1>c. CASE WsConnected \/ WsClose
  BY <1>c DEF WsConnected, WsClose
<1>3. CASE WaitEnds
  <2>1. /\ pc = "handshake" /\ UNCHANGED <<conns, server, said>>
    BY <1>3, WaitEffect
  <2>2. said' # <<>> /\ said'[1].opcode = HTTP
    <3>1. said' = <<Message(HTTP, 0)>>
      BY <2>1 DEF Phase
    <3>2. QED
      BY <3>1 DEF Message
  <2>3. PICK n \in 0 .. Len(rx) : Takes(n) /\ \E k \in 1 .. n : rx[k].opcode = HTTP
    BY <1>3, WaitEffect
  <2>4. PICK k \in 1 .. n : rx[k].opcode = HTTP
    BY <2>3
  <2>5. k \in DOMAIN rx
    BY <2>3, <2>4, <1>t
  <2>6. ASSUME fresh'  PROVE  server'.answer = "accepted"
    <3>1. rx[k].conn = conns
      BY <2>3, <2>4, <2>6, TakesPart DEF Own
    <3>2. QED
      BY <2>1, <2>4, <2>5, <3>1 DEF Stream, Known
  <2>7. QED
    BY <2>2, <2>6
<1>4. CASE WsSend \/ WsPing
  <2>1. \E opcode \in Spoken, len \in Length : Says(opcode, len)
    <3>1. \A len \in WsBuffers : len \in Length
      BY WsAssumption DEF Length
    <3>2. QED
      BY <1>4, <1>0, <3>1 DEF WsSend, WsPing, Spoken
  <2>2. g_ws_state = "CONNECTED" /\ pc = "idle"
    BY <1>4 DEF WsSend, WsPing
  <2>3. UNCHANGED <<server, fresh>>
    BY <1>4, OwnSteps
  <2>4. QED
    BY <2>1, <2>2, <2>3, <1>a, <1>b
<1>5. CASE pc = "idle" /\ WsReceive
  <2>1. g_ws_state = "CONNECTED" /\ UNCHANGED server
    BY <1>5, ReceiveEffect
  <2>2. \/ UNCHANGED said
        \/ \E opcode \in Spoken, len \in Length : Says(opcode, len)
    BY <1>5, <1>0, ReceiveSays DEF Spoken
  <2>3. fresh' => fresh
    <3>1. PICK n \in 1 .. Len(rx) : Takes(n)
      BY <1>5, ReceiveEffect
    <3>2. n \in 0 .. Len(rx)
      BY <3>1, <1>t
    <3>3. QED
      BY <3>1, <3>2, TakesPart
  <2>4. QED
    BY <2>1, <2>2, <2>3, <1>5, <1>a, <1>b
<1>6. CASE ServerAnswers \/ ServerTalks
  <2>1. PICK opcode \in Kinds, len \in Length :
          /\ ServerSends(opcode, len)
          /\ opcode \in Answers => server.answer = "none"
          /\ opcode \notin Answers => server.answer = "accepted" /\ server.left > 0
    BY <1>6, ServerSpeaks
  <2>2. UNCHANGED <<g_ws_state, pc, said, fresh>>
    BY <2>1 DEF ServerSends, taskVars, readVars
  <2>3. server'.answer = CASE opcode = HTTP -> "accepted"
                           [] opcode = REFUSED -> "refused"
                           [] OTHER -> server.answer
    BY <2>1, ServerPiece
  <2>4. server.answer = "accepted" => server'.answer = "accepted"
    BY <2>1, <2>3 DEF Answers
  <2>5. QED
    BY <2>2, <2>4, <1>b
<1>7. CASE ServerContinues
  <2>1. UNCHANGED <<g_ws_state, pc, said, fresh>> /\ server'.answer = server.answer
    BY <1>7, ServerGoesOn DEF Stream
  <2>2. QED
    BY <2>1, <1>b
<1>8. QED
  BY <1>1, <1>2, <1>c, <1>3, <1>4, <1>5, <1>6, <1>7, StepKinds

-------------------------------------------------------------------------------
\* A frame that is no close frame is said only while none was, and after a close
\* frame the task waits or the client is not CONNECTED any more.
LEMMA QuietStep == WsTyped /\ Phase /\ Quiet /\ [WsNext]_wsVars => Quiet'
<1> SUFFICES ASSUME WsTyped, Phase, Quiet, [WsNext]_wsVars,
                    said' # <<>>, said'[Len(said')].opcode = CLOSE
             PROVE  pc' = "delay" \/ (pc' = "idle" /\ g_ws_state' # "CONNECTED")
  BY Zenon DEF Quiet
<1>t. /\ rx \in Seq(Piece) /\ said \in Seq(Frame)
  BY DEF WsTyped
<1>q. said # <<>> /\ said[Len(said)].opcode = CLOSE =>
        pc = "delay" \/ (pc = "idle" /\ g_ws_state # "CONNECTED")
  BY DEF Quiet
<1>0. 0 \in Length
  BY DEF Length
<1>a. ASSUME NEW opcode \in Spoken \ {CLOSE}, NEW len \in Length, Says(opcode, len)
      PROVE  said' = said
  <2>1. said' = said \/ said' = Append(said, Message(opcode, len))
    BY <1>a, <1>t, SaysFrame
  <2>2. CASE said' = Append(said, Message(opcode, len))
    <3>1. said'[Len(said')] = Message(opcode, len)
      BY <2>2, <1>t
    <3>2. QED
      BY <3>1 DEF Message
  <2>3. QED
    BY <2>1, <2>2
<1>1. CASE StillSteps
  BY <1>1, <1>q, StillStep
<1>2. CASE WsConnect
  BY <1>2, ConnectKeeps
<1>3. CASE WsConnected
  <2>1. CASE said' = <<Message(HTTP, 0)>>
    <3>1. said'[Len(said')].opcode = HTTP
      BY <2>1 DEF Message
    <3>2. QED
      BY <3>1 DEF HTTP, CLOSE
  <2>2. QED
    BY <1>3, <2>1 DEF WsConnected
<1>4. CASE WaitEnds
  <2>1. said' = <<Message(HTTP, 0)>>
    BY <1>4, WaitEffect DEF Phase
  <2>2. said'[Len(said')].opcode = HTTP
    BY <2>1 DEF Message
  <2>3. QED
    BY <2>2 DEF HTTP, CLOSE
<1>5. CASE WsSend \/ WsPing
  <2>1. \E opcode \in Spoken \ {CLOSE}, len \in Length : Says(opcode, len)
    <3>1. \A len \in WsBuffers : len \in Length
      BY WsAssumption DEF Length
    <3>2. DATA \in Spoken \ {CLOSE} /\ PING \in Spoken \ {CLOSE}
      BY DEF Spoken, DATA, PING, PONG, HTTP, CLOSE
    <3>3. QED
      BY <1>5, <1>0, <3>1, <3>2 DEF WsSend, WsPing
  <2>2. g_ws_state = "CONNECTED" /\ pc = "idle"
    BY <1>5 DEF WsSend, WsPing
  <2>3. QED
    BY <2>1, <2>2, <1>a, <1>q
<1>6. CASE WsClose
  BY <1>6 DEF WsClose
<1>7. CASE pc = "idle" /\ WsReceive
  <2>1. PONG \in Spoken \ {CLOSE}
    BY DEF Spoken, PONG, CLOSE
  <2>2. g_ws_state = "CONNECTED"
    BY <1>7, ReceiveEffect
  <2>3. UNCHANGED said \/ (\E len \in Length : Says(PONG, len)) \/ pc' = "delay"
    BY <1>7, ReceiveSays
  <2>4. QED
    BY <1>7, <2>1, <2>2, <2>3, <1>a, <1>q
<1>8. CASE ServerAnswers \/ ServerTalks \/ ServerContinues
  <2>1. UNCHANGED <<g_ws_state, pc, said>>
    BY <1>8 DEF ServerAnswers, ServerTalks, ServerContinues, ServerSends, taskVars
  <2>2. QED
    BY <2>1, <1>q
<1>9. QED
  BY <1>1, <1>2, <1>3, <1>4, <1>5, <1>6, <1>7, <1>8, StepKinds

-------------------------------------------------------------------------------
\* What waits is finite, and a frame that waits is counted up to itself.
LEMMA WaitingCount ==
    ASSUME NEW r \in Seq(Piece), NEW c
    PROVE  /\ IsFiniteSet(Waiting(r, c)) /\ Cardinality(Waiting(r, c)) \in Nat
           /\ \A k \in Waiting(r, c) :
                /\ IsFiniteSet(Before(r, c, k)) /\ k \in 1 .. Len(r)
                /\ Cardinality(Before(r, c, k)) \in 1 .. Cardinality(Waiting(r, c))
<1>1. Waiting(r, c) \subseteq 1 .. Len(r) /\ Len(r) \in Nat
  BY DEF Waiting
<1>2. IsFiniteSet(1 .. Len(r))
  BY <1>1, FS_Interval
<1>3. IsFiniteSet(Waiting(r, c))
  BY <1>1, <1>2, FS_Subset
<1>4. Cardinality(Waiting(r, c)) \in Nat
  BY <1>3, FS_CardinalityType
<1>5. ASSUME NEW k \in Waiting(r, c)
      PROVE  /\ IsFiniteSet(Before(r, c, k))
             /\ Cardinality(Before(r, c, k)) \in 1 .. Cardinality(Waiting(r, c))
  <2>1. k \in Before(r, c, k) /\ Before(r, c, k) \subseteq Waiting(r, c)
    BY <1>1 DEF Before
  <2>2. IsFiniteSet(Before(r, c, k)) /\ Cardinality(Before(r, c, k)) <= Cardinality(Waiting(r, c))
    BY <2>1, <1>3, FS_Subset
  <2>3. Cardinality(Before(r, c, k)) \in Nat /\ Cardinality(Before(r, c, k)) # 0
    BY <2>1, <2>2, FS_CardinalityType, FS_EmptySet
  <2>4. QED
    BY <2>2, <2>3, <1>4
<1>6. QED
  BY <1>1, <1>3, <1>4, <1>5

\* A piece that begins a data frame is one more that waits, the last one; another
\* piece changes nothing of what waits.
LEMMA WaitingAppend ==
    ASSUME NEW r \in Seq(Piece), NEW p \in Piece, NEW c
    PROVE  LET s == Append(r, p)
           IN  /\ \A k \in Waiting(r, c) : Before(s, c, k) = Before(r, c, k) /\ s[k] = r[k]
               /\ IF Begins(p, c)
                  THEN /\ Waiting(s, c) = Waiting(r, c) \cup {Len(s)}
                       /\ Cardinality(Waiting(s, c)) = Cardinality(Waiting(r, c)) + 1
                       /\ Before(s, c, Len(s)) = Waiting(s, c) /\ s[Len(s)] = p
                  ELSE Waiting(s, c) = Waiting(r, c)
<1> DEFINE s == Append(r, p)
<1>1. /\ Len(r) \in Nat /\ Len(s) = Len(r) + 1 /\ s[Len(s)] = p
      /\ DOMAIN s = DOMAIN r \cup {Len(s)} /\ DOMAIN r = 1 .. Len(r)
      /\ \A k \in DOMAIN r : s[k] = r[k]
  OBVIOUS
<1> HIDE DEF s
<1>2. Waiting(s, c) = IF Begins(p, c) THEN Waiting(r, c) \cup {Len(s)} ELSE Waiting(r, c)
  BY <1>1 DEF Waiting
<1>3. Waiting(r, c) \subseteq 1 .. Len(r)
  BY <1>1 DEF Waiting
<1>4. \A k \in Waiting(r, c) : Before(s, c, k) = Before(r, c, k) /\ s[k] = r[k]
  BY <1>1, <1>2, <1>3 DEF Before
<1>5. CASE Begins(p, c)
  <2>1. Len(s) \notin Waiting(r, c)
    BY <1>1, <1>3
  <2>2. Waiting(s, c) = Waiting(r, c) \cup {Len(s)}
    BY <1>2, <1>5
  <2>3. Cardinality(Waiting(s, c)) = Cardinality(Waiting(r, c)) + 1
    BY <2>1, <2>2, WaitingCount, FS_AddElement
  <2>4. Before(s, c, Len(s)) = Waiting(s, c)
    BY <1>1, <1>3, <2>2 DEF Before
  <2>5. QED
    BY <1>1, <1>4, <1>5, <2>2, <2>3, <2>4 DEF s
<1>6. CASE ~Begins(p, c)
  BY <1>2, <1>4, <1>6 DEF s
<1>7. QED
  BY <1>5, <1>6

\* Nothing has been sent or read on a connection none of whose pieces wait.
LEMMA NothingDelivered == ASSUME NEW r, NEW c, None(r, c)  PROVE  Delivered(r, c, <<>>, <<>>)
<1>1. Waiting(r, c) = {}
  BY DEF Waiting, None, Begins
<1>2. Cardinality(Waiting(r, c)) = 0
  BY <1>1, FS_EmptySet
<1>3. Len(<<>>) = Len(<<>>) + Cardinality(Waiting(r, c))
  BY <1>2
<1>4. \A k \in DOMAIN <<>> : <<>>[k] = Look(<<>>[k], <<>>[k].room)
  OBVIOUS
<1>5. \A k \in Waiting(r, c) : r[k].len = <<>>[Len(<<>>) + Cardinality(Before(r, c, k))]
  BY <1>1
<1>6. QED
  BY <1>3, <1>4, <1>5 DEF Delivered

\* A piece the server appends is counted as sent exactly when it begins a data frame.
LEMMA DeliveredAppend ==
    ASSUME NEW r \in Seq(Piece), NEW c, NEW t \in Seq(Looks), NEW s \in Seq(Length),
           NEW p \in Piece, Delivered(r, c, t, s)
    PROVE  Delivered(Append(r, p), c, t, IF Begins(p, c) THEN Append(s, p.len) ELSE s)
<1> DEFINE q == Append(r, p)
           n == Cardinality(Waiting(r, c))
<1>1. /\ n \in Nat /\ Len(t) \in Nat /\ Len(s) \in Nat /\ Len(s) = Len(t) + n
      /\ DOMAIN t = 1 .. Len(t) /\ p.len \in Length
  <2>1. n \in Nat
    BY WaitingCount
  <2>2. Len(s) = Len(t) + n
    BY DEF Delivered
  <2>3. Len(t) \in Nat /\ Len(s) \in Nat /\ DOMAIN t = 1 .. Len(t)
    OBVIOUS
  <2>4. p.len \in Length
    BY DEF Piece
  <2>5. QED
    BY <2>1, <2>2, <2>3, <2>4
<1>2. \A k \in Waiting(r, c) : /\ Before(q, c, k) = Before(r, c, k) /\ q[k] = r[k]
                               /\ Cardinality(Before(r, c, k)) \in 1 .. n /\ k \in 1 .. Len(r)
  BY WaitingAppend, WaitingCount
<1>3. CASE Begins(p, c)
  <2> DEFINE u == Append(s, p.len)
  <2>1. /\ Waiting(q, c) = Waiting(r, c) \cup {Len(q)} /\ Cardinality(Waiting(q, c)) = n + 1
        /\ Before(q, c, Len(q)) = Waiting(q, c) /\ q[Len(q)] = p
    BY <1>3, WaitingAppend
  <2>2. /\ Len(u) = Len(s) + 1 /\ u[Len(s) + 1] = p.len
        /\ \A k \in 1 .. Len(s) : u[k] = s[k]
    BY <1>1
  <2> HIDE DEF q, u, n
  <2>3. Len(u) = Len(t) + Cardinality(Waiting(q, c))
    BY <1>1, <2>1, <2>2
  <2>4. \A k \in DOMAIN t : t[k] = Look(u[k], t[k].room)
    BY <1>1, <2>2 DEF Delivered
  <2>5. \A k \in Waiting(r, c) : q[k].len = u[Len(t) + Cardinality(Before(q, c, k))]
    BY <1>1, <1>2, <2>2 DEF Delivered
  <2>6. q[Len(q)].len = u[Len(t) + Cardinality(Before(q, c, Len(q)))]
    BY <1>1, <2>1, <2>2
  <2>7. Delivered(q, c, t, u)
    BY <2>1, <2>3, <2>4, <2>5, <2>6 DEF Delivered
  <2>8. QED
    BY <1>3, <2>7 DEF q, u
<1>4. CASE ~Begins(p, c)
  <2>1. Waiting(q, c) = Waiting(r, c)
    BY <1>4, WaitingAppend
  <2> HIDE DEF q, n
  <2>2. Delivered(q, c, t, s)
    BY <1>2, <2>1 DEF Delivered
  <2>3. QED
    BY <1>4, <2>2 DEF q
<1>5. QED
  BY <1>3, <1>4

\* As many places are later by n as there are.
LEMMA LaterCount ==
    ASSUME NEW S, S \subseteq Nat, IsFiniteSet(S), NEW n \in Nat
    PROVE  IsFiniteSet({k + n : k \in S}) /\ Cardinality({k + n : k \in S}) = Cardinality(S)
<1> DEFINE T == {k + n : k \in S}
           f == [k \in S |-> k + n]
<1>1. f \in [S -> T]
  OBVIOUS
<1>2. \A k, j \in S : f[k] = f[j] => k = j
  OBVIOUS
<1>3. \A x \in T : \E k \in S : f[k] = x
  OBVIOUS
<1> HIDE DEF f, T
<1>4. f \in Bijection(S, T)
  BY <1>1, <1>2, <1>3 DEF Bijection, Injection, Surjection, IsInjective
<1>5. ExistsBijection(S, T)
  BY <1>4 DEF ExistsBijection
<1>6. QED
  BY <1>5, FS_Bijection DEF T

\* What waits after one message was taken: all that waited but that.
LEMMA WaitingLess ==
    ASSUME NEW r \in Seq(Piece), NEW c, NEW n \in 1 .. Len(r), r[1].conn = c, One(r, n)
    PROVE  /\ First(r) \subseteq Waiting(r, c)
           /\ Cardinality(Waiting(r, c)) = FirstSize(r) + Cardinality(Waiting(After(r, n), c))
           /\ \A k \in Waiting(After(r, n), c) :
                /\ k + n \in Waiting(r, c) /\ After(r, n)[k] = r[k + n]
                /\ Cardinality(Before(r, c, k + n))
                     = FirstSize(r) + Cardinality(Before(After(r, n), c, k))
<1> DEFINE q == After(r, n)
           first == First(r)
           size == FirstSize(r)
           later(S) == {k + n : k \in S}
<1> USE DEF First, FirstSize, One
<1>1. Len(r) \in Nat /\ n \in 1 .. 2 /\ DOMAIN r = 1 .. Len(r)
  OBVIOUS
<1>2. /\ q \in Seq(Piece) /\ DOMAIN q = 1 .. Len(r) - n
      /\ \A k \in DOMAIN q : q[k] = r[k + n]
  <2> USE DEF After
  <2>1. n + 1 \in 1 .. Len(r) + 1 /\ Len(r) \in 0 .. Len(r) /\ Len(r) >= n + 1 - 1
    BY <1>1
  <2>2. /\ q \in Seq(Piece) /\ Len(q) = Len(r) + 1 - (n + 1)
        /\ \A k \in DOMAIN q : q[k] = r[n + 1 + k - 1]
    BY <2>1, PartOf
  <2> HIDE DEF q
  <2>3. DOMAIN q = 1 .. Len(r) - n
    <3>1. Len(q) = Len(r) - n
      <4>1. Len(q) = Len(r) + 1 - (n + 1)
        BY <2>2
      <4>2. Len(r) \in Nat /\ n \in Nat
        BY <1>1
      <4>3. QED
        BY <4>1, <4>2
    <3>2. DOMAIN q = 1 .. Len(q)
      BY <2>2
    <3>3. QED
      BY <3>1, <3>2
  <2>4. \A k \in DOMAIN q : n + 1 + k - 1 = k + n
    BY <1>1, <2>3
  <2>5. QED
    BY <2>2, <2>3, <2>4
<1>3. 1 \in Waiting(r, c) <=> r[1].opcode = DATA
  BY <1>1 DEF Waiting, Begins
<1>4. 2 <= n => 2 \notin Waiting(r, c)
  BY <1>1 DEF Waiting, Begins
<1> HIDE DEF q
<1>5. /\ Waiting(q, c) \subseteq 1 .. Len(r) - n /\ Waiting(r, c) \subseteq 1 .. Len(r)
      /\ \A k \in 1 .. Len(r) - n : k \in Waiting(q, c) <=> k + n \in Waiting(r, c)
  BY <1>1, <1>2 DEF Waiting
<1>6. Waiting(r, c) = first \cup later(Waiting(q, c))
  <2>1. ASSUME NEW k \in Waiting(r, c)  PROVE  k \in first \cup later(Waiting(q, c))
    <3>1. CASE k <= n
      BY <1>1, <1>3, <1>4, <1>5, <2>1, <3>1
    <3>2. CASE ~(k <= n)
      <4>1. k - n \in 1 .. Len(r) - n /\ (k - n) + n = k
        BY <1>1, <1>5, <2>1, <3>2
      <4>2. k - n \in Waiting(q, c)
        BY <1>5, <2>1, <4>1
      <4>3. QED
        BY <4>1, <4>2
    <3>3. QED
      BY <3>1, <3>2
  <2>2. first \subseteq Waiting(r, c)
    BY <1>3
  <2>3. later(Waiting(q, c)) \subseteq Waiting(r, c)
    BY <1>5
  <2>4. QED
    BY <2>1, <2>2, <2>3
<1>7. ASSUME NEW S, S \subseteq Waiting(q, c), IsFiniteSet(S)
      PROVE  Cardinality(first \cup later(S)) = size + Cardinality(S)
  <2>1. S \subseteq Nat
    BY <1>1, <1>5, <1>7
  <2>2. IsFiniteSet(later(S)) /\ Cardinality(later(S)) = Cardinality(S)
    <3>1. n \in Nat
      BY <1>1
    <3> HIDE DEF q
    <3>2. QED
      BY <3>1, <1>7, <2>1, LaterCount, Zenon
  <2>3. 1 \notin later(S)
    BY <1>1, <1>5, <1>7
  <2>4. Cardinality(S) \in Nat
    BY <1>7, FS_CardinalityType
  <2> HIDE DEF later
  <2>5. CASE r[1].opcode = DATA
    <3>1. first \cup later(S) = later(S) \cup {1}
      BY <2>5
    <3>2. Cardinality(later(S) \cup {1}) = Cardinality(later(S)) + 1
      BY <2>2, <2>3, FS_AddElement
    <3>3. size = 1
      BY <2>5
    <3>4. Cardinality(first \cup later(S)) = Cardinality(S) + 1
      BY <2>2, <3>1, <3>2, Zenon
    <3> HIDE DEF size, first
    <3>5. 1 + Cardinality(S) = Cardinality(S) + 1
      BY <2>4
    <3>6. QED
      BY <3>3, <3>4, <3>5, Zenon
  <2>6. CASE r[1].opcode # DATA
    <3>1. first \cup later(S) = later(S)
      BY <2>6
    <3>2. QED
      BY <2>2, <2>4, <2>6, <3>1
  <2>7. QED
    BY <2>5, <2>6
<1>8. Cardinality(Waiting(r, c)) = size + Cardinality(Waiting(q, c))
  BY <1>2, <1>6, <1>7, WaitingCount
<1>9. ASSUME NEW k \in Waiting(q, c)
      PROVE  /\ k + n \in Waiting(r, c) /\ q[k] = r[k + n]
             /\ Cardinality(Before(r, c, k + n)) = size + Cardinality(Before(q, c, k))
  <2>1. k \in 1 .. Len(r) - n /\ k + n \in Waiting(r, c) /\ q[k] = r[k + n]
    BY <1>2, <1>5, <1>9
  <2>2. Before(r, c, k + n) = first \cup later(Before(q, c, k))
    <3>1. ASSUME NEW j \in Before(r, c, k + n)  PROVE  j \in first \cup later(Before(q, c, k))
      <4>1. j \in Waiting(r, c) /\ j <= k + n
        BY <3>1 DEF Before
      <4>2. CASE j \in first
        BY <4>2
      <4>3. CASE j \in later(Waiting(q, c))
        <5>1. PICK i \in Waiting(q, c) : j = i + n
          BY <4>3
        <5>2. i \in Nat /\ i <= k
          BY <1>1, <1>5, <2>1, <4>1, <5>1
        <5>3. i \in Before(q, c, k)
          BY <5>1, <5>2 DEF Before
        <5>4. QED
          BY <5>1, <5>3
      <4>4. QED
        BY <4>1, <4>2, <4>3, <1>6
    <3>2. ASSUME NEW j \in first \cup later(Before(q, c, k))  PROVE  j \in Before(r, c, k + n)
      <4>1. CASE j \in first
        <5>1. j = 1 /\ j \in Waiting(r, c) /\ 1 <= k + n
          BY <1>1, <1>3, <2>1, <4>1
        <5>2. QED
          BY <5>1 DEF Before
      <4>2. CASE j \in later(Before(q, c, k))
        <5>1. PICK i \in Before(q, c, k) : j = i + n
          BY <4>2
        <5>2. i \in Waiting(q, c) /\ i <= k
          BY <5>1 DEF Before
        <5>3. i \in 1 .. Len(r) - n /\ j \in Waiting(r, c)
          BY <1>5, <5>1, <5>2
        <5>4. j <= k + n
          BY <1>1, <2>1, <5>1, <5>2, <5>3
        <5>5. QED
          BY <5>3, <5>4 DEF Before
      <4>3. QED
        BY <3>2, <4>1, <4>2
    <3>3. QED
      BY <3>1, <3>2
  <2>3. Before(q, c, k) \subseteq Waiting(q, c) /\ IsFiniteSet(Before(q, c, k))
    BY <1>2, WaitingCount DEF Before
  <2>4. QED
    BY <2>1, <2>2, <2>3, <1>7
<1>10. first \subseteq Waiting(r, c)
  BY <1>3
<1>11. QED
  BY <1>8, <1>9, <1>10 DEF q

\* A receipt of one message takes the first frame that waits, if that is a data frame,
\* and nothing else that waits.
LEMMA DeliveredTaken ==
    ASSUME NEW r \in Seq(Piece), NEW c, NEW t \in Seq(Looks), NEW s \in Seq(Length),
           NEW n \in 1 .. Len(r), NEW room \in Nat,
           Delivered(r, c, t, s), r[1].conn = c, One(r, n)
    PROVE  Delivered(After(r, n), c,
                     IF r[1].opcode = DATA THEN Append(t, Look(r[1].len, room)) ELSE t, s)
<1> DEFINE q == After(r, n)
           size == FirstSize(r)
           first == First(r)
<1>1. /\ first \subseteq Waiting(r, c)
      /\ Cardinality(Waiting(r, c)) = size + Cardinality(Waiting(q, c))
      /\ \A k \in Waiting(q, c) :
           /\ k + n \in Waiting(r, c) /\ q[k] = r[k + n]
           /\ Cardinality(Before(r, c, k + n)) = size + Cardinality(Before(q, c, k))
  BY WaitingLess
<1>2. q \in Seq(Piece)
  <2>1. n + 1 \in 1 .. Len(r) + 1 /\ Len(r) \in 0 .. Len(r) /\ Len(r) >= n + 1 - 1
    OBVIOUS
  <2>2. QED
    BY <2>1, PartOf DEF After
<1> HIDE DEF q
<1>3. /\ Len(t) \in Nat /\ Cardinality(Waiting(q, c)) \in Nat
      /\ \A k \in Waiting(q, c) : Cardinality(Before(q, c, k)) \in Nat
  <2>1. /\ Cardinality(Waiting(q, c)) \in Nat
        /\ \A k \in Waiting(q, c) : Cardinality(Before(q, c, k)) \in Nat
    BY <1>2, WaitingCount
  <2>2. QED
    BY <2>1
<1> USE DEF First, FirstSize
<1>4. CASE r[1].opcode = DATA
  <2> DEFINE u == Append(t, Look(r[1].len, room))
  <2>0. 1 \in Waiting(r, c) /\ size = 1
    BY <1>1, <1>4
  <2>1. r[1].len = s[Len(t) + 1]
    <3>1. Before(r, c, 1) = {1}
      BY <2>0 DEF Before, Waiting
    <3>2. Cardinality({1}) = 1
      BY FS_Singleton
    <3>3. QED
      BY <2>0, <3>1, <3>2 DEF Delivered
  <2>2. /\ Len(u) = Len(t) + 1 /\ u[Len(t) + 1] = Look(r[1].len, room)
        /\ \A k \in DOMAIN t : u[k] = t[k]
        /\ DOMAIN u = DOMAIN t \cup {Len(t) + 1}
    <3>1. \A x \in Looks : /\ Len(Append(t, x)) = Len(t) + 1 /\ Append(t, x)[Len(t) + 1] = x
                           /\ \A k \in DOMAIN t : Append(t, x)[k] = t[k]
                           /\ DOMAIN Append(t, x) = DOMAIN t \cup {Len(t) + 1}
      OBVIOUS
    <3>2. r[1] \in Piece
      OBVIOUS
    <3>3. Look(r[1].len, room) \in Looks
      BY <3>2 DEF Piece, Looks
    <3>4. QED
      BY <3>1, <3>3
  <2> HIDE DEF u
  <2>3. \A k \in DOMAIN u : u[k] = Look(s[k], u[k].room)
    <3>1. Look(r[1].len, room).room = room
      BY DEF Look
    <3>2. \A k \in DOMAIN t : t[k] = Look(s[k], t[k].room)
      BY DEF Delivered
    <3>3. QED
      BY <2>1, <2>2, <3>1, <3>2
  <2>4. Len(s) = Len(u) + Cardinality(Waiting(q, c))
    BY <1>1, <1>3, <2>0, <2>2 DEF Delivered
  <2>5. \A k \in Waiting(q, c) : q[k].len = s[Len(u) + Cardinality(Before(q, c, k))]
    <3>1. ASSUME NEW k \in Waiting(q, c)
          PROVE  q[k].len = s[Len(u) + Cardinality(Before(q, c, k))]
      <4>1. q[k].len = s[Len(t) + Cardinality(Before(r, c, k + n))]
        BY <1>1, <3>1 DEF Delivered
      <4>2. Len(t) + Cardinality(Before(r, c, k + n)) = Len(u) + Cardinality(Before(q, c, k))
        BY <1>1, <1>3, <2>0, <2>2, <3>1
      <4>3. QED
        BY <4>1, <4>2
    <3>2. QED
      BY <3>1
  <2>6. Delivered(q, c, u, s)
    BY <2>3, <2>4, <2>5 DEF Delivered
  <2>7. QED
    BY <1>4, <2>6 DEF q, u
<1>5. CASE r[1].opcode # DATA
  <2>1. size = 0
    BY <1>5
  <2>2. Len(s) = Len(t) + Cardinality(Waiting(q, c))
    BY <1>1, <1>3, <2>1 DEF Delivered
  <2>3. \A k \in Waiting(q, c) : q[k].len = s[Len(t) + Cardinality(Before(q, c, k))]
    <3>1. ASSUME NEW k \in Waiting(q, c)
          PROVE  q[k].len = s[Len(t) + Cardinality(Before(q, c, k))]
      <4>1. q[k].len = s[Len(t) + Cardinality(Before(r, c, k + n))]
        BY <1>1, <3>1 DEF Delivered
      <4>2. Cardinality(Before(r, c, k + n)) = Cardinality(Before(q, c, k))
        BY <1>1, <1>3, <2>1, <3>1
      <4>3. QED
        BY <4>1, <4>2
    <3>2. QED
      BY <3>1
  <2>4. Delivered(q, c, t, s)
    BY <2>2, <2>3 DEF Delivered
  <2>5. QED
    BY <1>5, <2>4 DEF q
<1>6. QED
  BY <1>4, <1>5

\* OneMessage says how many pieces there are.
LEMMA OneMessageMeans ==
    ASSUME NEW n, OneMessage(n)
    PROVE  /\ WholeFirst(n) /\ rx[1].conn = conns
           /\ One(rx, n)
  BY DEF OneMessage, WholeFirst, One

\* While every receipt returned one message nothing is lost, added or reordered.
LEMMA DeliveredStep ==
    WsInv /\ [WsNext]_wsVars => (whole' => Delivered(rx', conns', taken', sent'))
<1> SUFFICES ASSUME WsInv, [WsNext]_wsVars, whole'  PROVE  Delivered(rx', conns', taken', sent')
  OBVIOUS
<1>t. /\ rx \in Seq(Piece) /\ sent \in Seq(Length) /\ taken \in Seq(Looks) /\ server \in Server
      /\ whole \in BOOLEAN /\ WsTyped /\ Stream /\ Phase /\ conns \in Nat /\ Len(rx) \in Nat
  BY DEF WsInv, WsTyped
<1>d. whole => Delivered(rx, conns, taken, sent)
  BY DEF WsInv
<1>1. CASE UNCHANGED <<rx, conns, taken, sent, whole>>
  BY <1>1, <1>d
<1>2. CASE WsConnect
  <2>1. /\ taken' = <<>> /\ sent' = <<>> /\ conns' = conns + 1
        /\ \A k \in DOMAIN rx' : \E j \in DOMAIN rx : rx'[k] = rx[j]
    BY <1>2, <1>t, ConnectKeeps
  <2>2. \A j \in DOMAIN rx : rx[j] \in Piece /\ rx[j].conn <= conns
    BY <1>t DEF Stream, Known
  <2>3. \A j \in DOMAIN rx : rx[j].conn # conns + 1
    BY <2>2, <1>t DEF Piece
  <2>4. None(rx', conns')
    BY <2>1, <2>3 DEF None
  <2>5. QED
    BY <2>1, <2>4, NothingDelivered
<1>3. CASE WaitEnds
  <2>1. /\ pc = "handshake" /\ UNCHANGED <<conns, taken, sent>>
    BY <1>3, <1>t, WaitEffect
  <2>2. PICK n \in 0 .. Len(rx) : Takes(n)
    BY <1>3, <1>t, WaitEffect
  <2>3. rx' = After(rx, n) /\ whole /\ (n > 0 => OneMessage(n))
    BY <2>2, <1>t, TakesPart
  <2>4. CASE n = 0
    <3>1. \A k \in DOMAIN rx' : rx'[k] = rx[k]
      <4>1. \A k \in DOMAIN rx' : k \in DOMAIN rx' /\ rx'[k] = rx[n + k]
        BY <2>2, <1>t, TakesPart
      <4>2. rx' \in Seq(Piece)
        BY <2>2, <1>t, TakesPart
      <4>3. \A k \in DOMAIN rx' : k \in Nat
        BY <4>2
      <4>4. QED
        BY <2>4, <4>1, <4>3
    <3>2. rx' \in Seq(Piece) /\ Len(rx') = Len(rx)
      BY <2>2, <2>4, <1>t, TakesPart
    <3>3. rx' = rx
      BY <3>1, <3>2, <1>t, SeqEqual
    <3>4. QED
      BY <2>1, <2>3, <3>3, <1>d
  <2>5. CASE n # 0
    <3>1. n \in 1 .. Len(rx) /\ OneMessage(n)
      BY <2>3, <2>5, <1>t
    <3>2. rx[1].conn = conns /\ 1 \in DOMAIN rx
      BY <3>1, <1>t, OneMessageMeans
    <3>3. rx[1].opcode \in Answers
      <4>1. ~None(rx, conns)
        BY <3>2 DEF None
      <4>2. PICK k \in DOMAIN rx : /\ rx[k].conn = conns /\ rx[k].opcode \in Answers
                                   /\ \A j \in 1 .. k - 1 : rx[j].conn # conns
        BY <2>1, <4>1, <1>t DEF Phase, AnswerFirst
      <4>3. ~(1 \in 1 .. k - 1)
        BY <3>2, <4>2
      <4>4. k = 1
        BY <4>2, <4>3, <1>t
      <4>5. QED
        BY <4>2, <4>4
    <3>4. rx[1].opcode # DATA
      BY <3>3 DEF DATA, Answers, HTTP, REFUSED
    <3>5. One(rx, n)
      BY <3>1, OneMessageMeans
    <3>6. 0 \in Nat
      OBVIOUS
    <3>7. Delivered(After(rx, n), conns,
                    IF rx[1].opcode = DATA THEN Append(taken, Look(rx[1].len, 0)) ELSE taken, sent)
      BY <2>3, <3>1, <3>2, <3>5, <3>6, <1>t, <1>d, DeliveredTaken
    <3>8. QED
      BY <2>1, <2>3, <3>4, <3>7
  <2>6. QED
    BY <2>4, <2>5
<1>4. CASE pc = "idle" /\ WsReceive
  <2>1. UNCHANGED <<conns, sent>>
    BY <1>4, <1>t, ReceiveEffect
  <2>2. PICK n \in 1 .. Len(rx), len \in Length :
          /\ Takes(n)
          /\ \/ /\ WholeFirst(n) => rx[1].opcode = DATA /\ len = rx[1].len
                /\ \E room \in Nat : taken' = Append(taken, Look(len, room))
             \/ (WholeFirst(n) => rx[1].opcode # DATA) /\ UNCHANGED taken
    BY <1>4, <1>t, ReceiveEffect
  <2>3. n \in 0 .. Len(rx) /\ n > 0
    BY <2>2, <1>t
  <2>4. rx' = After(rx, n) /\ whole /\ OneMessage(n)
    BY <2>2, <2>3, <1>t, TakesPart
  <2>5. WholeFirst(n) /\ rx[1].conn = conns /\ One(rx, n)
    BY <2>4, OneMessageMeans
  <2>6. \E room \in Nat :
          taken' = IF rx[1].opcode = DATA THEN Append(taken, Look(rx[1].len, room)) ELSE taken
    <3>1. 0 \in Nat
      OBVIOUS
    <3>2. QED
      BY <2>2, <2>5, <3>1
  <2>7. PICK room \in Nat :
          taken' = IF rx[1].opcode = DATA THEN Append(taken, Look(rx[1].len, room)) ELSE taken
    BY <2>6
  <2>8. Delivered(After(rx, n), conns,
                  IF rx[1].opcode = DATA THEN Append(taken, Look(rx[1].len, room)) ELSE taken, sent)
    BY <2>2, <2>4, <2>5, <2>7, <1>t, <1>d, DeliveredTaken
  <2>9. QED
    BY <2>1, <2>4, <2>7, <2>8
<1>5. CASE ServerAnswers \/ ServerTalks
  <2>1. PICK opcode \in Kinds, len \in Length :
          /\ ServerSends(opcode, len)
          /\ opcode \in Answers => server.answer = "none"
          /\ opcode \notin Answers => server.answer = "accepted" /\ server.left > 0
    BY <1>t, <1>5, ServerSpeaks
  <2>2. PICK p \in Piece : /\ rx' = Append(rx, p) /\ p.opcode = opcode /\ p.len = len
                           /\ p.conn = conns /\ p.part \in {"whole", "head"}
    BY <1>t, <2>1, ServerPiece
  <2>3. /\ sent' = (IF opcode = DATA THEN Append(sent, len) ELSE sent)
        /\ UNCHANGED <<conns, taken, whole>>
    BY <2>1 DEF ServerSends, readVars
  <2>4. Begins(p, conns) <=> opcode = DATA
    BY <2>2 DEF Begins
  <2>5. Delivered(Append(rx, p), conns, taken,
                  IF Begins(p, conns) THEN Append(sent, p.len) ELSE sent)
    BY <2>3, <1>t, <1>d, DeliveredAppend
  <2>6. QED
    BY <2>2, <2>3, <2>4, <2>5
<1>6. CASE ServerContinues
  <2>1. /\ server.owed[1] \in Piece /\ server.owed[1].part = "tail"
        /\ rx' = Append(rx, server.owed[1]) /\ UNCHANGED <<conns, taken, sent, whole>>
    BY <1>6, <1>t, ServerGoesOn DEF Stream
  <2>2. ~Begins(server.owed[1], conns)
    BY <2>1 DEF Begins
  <2>3. Delivered(Append(rx, server.owed[1]), conns, taken, sent)
    BY <2>1, <2>2, <1>t, <1>d, DeliveredAppend
  <2>4. QED
    BY <2>1, <2>3
<1>7. CASE StillSteps
  BY <1>t, <1>7, <1>1, StillStep
<1>8. CASE WsConnected \/ WsSend \/ WsPing \/ WsClose
  BY <1>t, <1>8, <1>1, OwnSteps
<1>9. QED
  BY <1>2, <1>3, <1>4, <1>5, <1>6, <1>7, <1>8, StepKinds

-------------------------------------------------------------------------------
\* The client and its connection are in a state of WsInv whenever it runs.
THEOREM WsInvariant == WsSpec => []WsInv
<1>1. WsInitial => WsInv
  <2> SUFFICES ASSUME WsInitial  PROVE  WsInv
    OBVIOUS
  <2> USE DEF WsInitial
  <2>1. WsTyped
    <3>1. server \in Server
      <4>1. server = [answer |-> "none", left |-> 0, owed |-> <<>>]
        BY DEF NewServer
      <4>2. \A owed \in Seq(Piece) : [answer |-> "none", left |-> 0, owed |-> owed] \in Server
        BY DEF Server
      <4>3. <<>> \in Seq(Piece)
        OBVIOUS
      <4>4. QED
        BY <4>1, <4>2, <4>3, Zenon
    <3>2. <<>> \in Seq(Piece) /\ <<>> \in Seq(Frame) /\ <<>> \in Seq(Length) /\ <<>> \in Seq(Looks)
      OBVIOUS
    <3>3. QED
      BY <3>1, <3>2 DEF WsTyped
  <2>2. Stream
    BY DEF NewServer, Stream, Owes, Known
  <2>3. Phase /\ Believed /\ Quiet
    BY DEF Phase, Believed, Quiet
  <2>4. Delivered(rx, conns, taken, sent)
    <3>1. rx = <<>> /\ taken = <<>> /\ sent = <<>> /\ None(<<>>, conns)
      BY DEF None
    <3>2. QED
      BY <3>1, NothingDelivered
  <2>5. QED
    BY <2>1, <2>2, <2>3, <2>4 DEF WsInv
<1>2. WsInv /\ [WsNext]_wsVars => WsInv'
  <2> SUFFICES ASSUME WsInv, [WsNext]_wsVars  PROVE  WsInv'
    OBVIOUS
  <2>1. WsTyped /\ Stream /\ Phase /\ Believed /\ Quiet
    BY DEF WsInv
  <2>2. WsTyped' /\ Stream' /\ Phase' /\ Believed' /\ Quiet'
    BY <2>1, WsTypedStep, StreamStep, PhaseStep, BelievedStep, QuietStep
  <2>3. QED
    BY <2>2, DeliveredStep DEF WsInv
<1>3. QED
  BY <1>1, <1>2, PTL DEF WsSpec

\* While each receipt returned one message of the connection, the client looks at the
\* data frames the server sent on it once and in order, knows their lengths, and hands
\* over those there is a large enough buffer for; its own frames are read as written.
THEOREM WsDeliversWhatIsSent == WsSpec => []WsDelivers
<1>1. WsInv => WsDelivers
  <2> SUFFICES ASSUME WsInv  PROVE  WsDelivers
    OBVIOUS
  <2>1. whole => Delivered(rx, conns, taken, sent)
    BY DEF WsInv
  <2>2. ASSUME NEW k \in DOMAIN said
        PROVE  PayloadLen(said[k].header) = said[k].len
    <3>1. said[k] \in Frame
      BY DEF WsInv, WsTyped
    <3>2. PICK opcode \in Spoken, len \in Length : said[k] = Message(opcode, len)
      BY <3>1 DEF Frame, Spoken
    <3>3. opcode \in Nat
      BY DEF Spoken, DATA, CLOSE, PING, PONG, HTTP
    <3>4. PayloadLen(ws_create_frame_header(opcode, len)) = len
      BY <3>3, ClientLength
    <3>5. QED
      BY <3>2, <3>4 DEF Message
  <2>3. ASSUME NEW k \in DOMAIN taken, taken[k] = Look(sent[k], taken[k].room)
        PROVE  /\ taken[k].len = sent[k]
               /\ taken[k].kept = (taken[k].room # NoBuffer /\ sent[k] <= taken[k].room)
    <3>1. /\ Look(sent[k], taken[k].room).len = sent[k]
          /\ Look(sent[k], taken[k].room).kept
               = (taken[k].room # NoBuffer /\ sent[k] <= taken[k].room)
      BY DEF Look
    <3>2. QED
      BY <2>3, <3>1, Zenon
  <2>4. QED
    BY <2>1, <2>2, <2>3 DEF WsDelivers, Delivered, Waiting, Before, Begins
<1>2. QED
  BY <1>1, WsInvariant, PTL

\* A CONNECTED client was accepted by the server of this connection, in answer to
\* the handshake it sent on it, unless it read what was sent on an earlier one.
THEOREM WsConnectedMeansAccepted == WsSpec => []WsConnectedIsAccepted
<1>1. WsInv => WsConnectedIsAccepted
  BY DEF WsInv, Believed, WsConnectedIsAccepted
<1>2. QED
  BY <1>1, WsInvariant, PTL

\* Nothing is said after a close frame, until a new connection begins.
THEOREM WsSilentAfterClose == WsSpec => WsQuietAfterClose
<1> DEFINE Silent == said # <<>> /\ said[Len(said)].opcode = CLOSE => said' \in {said, <<>>}
<1>1. WsInv /\ [WsNext]_wsVars => [Silent]_wsVars
  <2> SUFFICES ASSUME WsInv, [WsNext]_wsVars, said # <<>>, said[Len(said)].opcode = CLOSE
               PROVE  said' \in {said, <<>>}
    OBVIOUS
  <2>1. WsTyped /\ (pc = "delay" \/ (pc = "idle" /\ g_ws_state # "CONNECTED"))
    BY DEF WsInv, Quiet
  <2>2. CASE StillSteps
    BY <2>1, <2>2, StillStep
  <2>3. CASE WsConnect
    BY <2>3 DEF WsConnect
  <2>4. CASE WaitEnds
    BY <2>1, <2>4, WaitEffect
  <2>5. ~WsConnected /\ ~WsSend /\ ~WsPing /\ ~WsClose /\ ~(pc = "idle" /\ WsReceive)
    BY <2>1 DEF WsConnected, WsSend, WsPing, WsClose, WsReceive
  <2>6. CASE ServerAnswers \/ ServerTalks \/ ServerContinues
    BY <2>6 DEF ServerAnswers, ServerTalks, ServerContinues, ServerSends
  <2>7. QED
    BY <2>2, <2>3, <2>4, <2>5, <2>6, StepKinds
<1>2. QED
  BY <1>1, WsInvariant, PTL DEF WsSpec, WsQuietAfterClose
===============================================================================
