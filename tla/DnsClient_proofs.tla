----------------------------- MODULE DnsClient_proofs -----------------------------
(***************************************************************************)
(* Proof that what a call of the DNS client returns is true of the name it *)
(* was asked for.                                                          *)
(***************************************************************************)
EXTENDS DnsClient, TLAPS, NaturalsInduction, WellFoundedInduction

\* A set that holds 0 and the successors of its members holds every natural number.
LEMMA SetInduction ==
    ASSUME NEW T, 0 \in T, \A n \in Nat : n \in T => n + 1 \in T
    PROVE  Nat \subseteq T
<1> SUFFICES ASSUME Nat \ T # {}  PROVE  FALSE
  OBVIOUS
<1> DEFINE R == OpToRel(<, Nat)
<1>1. \A x, y \in Nat : <<y, x>> \in R <=> y < x
  BY DEF OpToRel
<1> HIDE DEF R
<1>2. IsWellFoundedOn(R, Nat)
  BY NatLessThanWellFounded DEF R
<1>3. PICK x \in Nat \ T : \A y \in Nat \ T : <<y, x>> \notin R
  BY <1>2, WFMin
<1>4. x # 0 /\ x - 1 \in Nat /\ x - 1 < x /\ (x - 1) + 1 = x
  BY <1>3
<1>5. x - 1 \in T
  BY <1>1, <1>3, <1>4
<1>6. QED
  BY <1>3, <1>4, <1>5

\* What follows a name in a chain of aliases
After(name) == IF name \in Names THEN Zone[name] ELSE name

\* The chain of aliases of a name is the function its definition describes.
LEMMA AliasChain ==
    ASSUME NEW name
    PROVE  /\ DOMAIN aliases(name) = 0 .. max_depth - 1 /\ aliases(name)[0] = name
           /\ \A n \in 1 .. max_depth - 1 : aliases(name)[n] = After(aliases(name)[n - 1])
<1> DEFINE Chain(f, k) ==
             f = [n \in 0 .. k |->
                    IF n = 0 THEN name
                    ELSE IF f[n - 1] \in Names THEN Zone[f[n - 1]] ELSE f[n - 1]]
           T == {k \in Nat : \E f : Chain(f, k)}
<1>1. 0 \in T
  <2> DEFINE f == [n \in 0 .. 0 |-> name]
  <2>1. Chain(f, 0)
    OBVIOUS
  <2>2. QED
    BY <2>1
<1>2. ASSUME NEW k \in Nat, k \in T
      PROVE  k + 1 \in T
  <2>1. PICK f : Chain(f, k)
    BY <1>2
  <2> DEFINE g == [n \in 0 .. k + 1 |-> IF n = k + 1 THEN After(f[k]) ELSE f[n]]
  <2>2. \A n \in 0 .. k : g[n] = f[n]
    OBVIOUS
  <2>3. ASSUME NEW n \in 0 .. k + 1
        PROVE  g[n] = IF n = 0 THEN name
                      ELSE IF g[n - 1] \in Names THEN Zone[g[n - 1]] ELSE g[n - 1]
    <3>1. CASE n = k + 1
      <4>1. g[n - 1] = f[k] /\ g[n] = After(f[k]) /\ n # 0
        BY <3>1
      <4>2. QED
        BY <4>1 DEF After
    <3>2. CASE n \in 0 .. k
      <4>1. f[n] = IF n = 0 THEN name
                   ELSE IF f[n - 1] \in Names THEN Zone[f[n - 1]] ELSE f[n - 1]
        BY <2>1, <3>2
      <4>2. g[n] = f[n] /\ (n # 0 => g[n - 1] = f[n - 1])
        BY <3>2
      <4>3. QED
        BY <4>1, <4>2
    <3>3. QED
      BY <3>1, <3>2
  <2>4. g = [n \in 0 .. k + 1 |-> g[n]]
    OBVIOUS
  <2> HIDE DEF g
  <2>5. Chain(g, k + 1)
    BY <2>3, <2>4, Zenon
  <2>6. k + 1 \in Nat
    OBVIOUS
  <2>7. QED
    BY <2>5, <2>6
<1>3. max_depth - 1 \in T
  <2> HIDE DEF T
  <2>1. Nat \subseteq T
    BY <1>1, <1>2, SetInduction
  <2>2. QED
    BY <2>1, DnsAssumption
<1>4. Chain(aliases(name), max_depth - 1)
  BY <1>3 DEF aliases
<1> DEFINE c == aliases(name)
<1>5. DOMAIN c = 0 .. max_depth - 1
  BY <1>4
<1>6. \A n \in 0 .. max_depth - 1 :
        c[n] = IF n = 0 THEN name ELSE IF c[n - 1] \in Names THEN Zone[c[n - 1]] ELSE c[n - 1]
  BY <1>4
<1> HIDE DEF c
<1>7. c[0] = name
  BY <1>6, DnsAssumption
<1>8. \A n \in 1 .. max_depth - 1 : c[n] = After(c[n - 1])
  BY <1>6, DnsAssumption DEF After
<1>9. QED
  BY <1>5, <1>7, <1>8 DEF c

-------------------------------------------------------------------------------
Datagram == Strays \cup [src : Servers, size : {"fits"}, ip : Names,
                         says : {"ip", "none", "nxdomain"} \cup Names]

Queries == [pc : {"idle", "send", "wait"}, hostname : Names \cup {""},
            current_name : Names \cup {""}, retry : Nat, depth : 0 .. max_depth - 1]

DnsTyped ==
    /\ inbox \in Seq(Datagram) /\ \A m \in flight : m.name \in Names
    /\ g_dns_config \in [dns_server : Servers \cup {"0.0.0.0"}, max_retries : Nat,
                         buffers : BOOLEAN]
    /\ query \in Queries
    /\ untouched \in BOOLEAN

\* A client that is initialized has the address of a server, and a call is under way
\* only in such a client, for names.
UnderWay ==
    /\ g_dns_initialized => g_dns_config.dns_server \in Servers
    /\ ~DnsIdle => /\ g_dns_initialized
                   /\ query.hostname \in Names /\ query.current_name \in Names

\* The name at place d of the chain of h is c, and each before it is an alias.
Reached(h, c, d) ==
    /\ aliases(h)[d] = c /\ c \in Names
    /\ \A n \in 0 .. d - 1 : aliases(h)[n] \in Names /\ Zone[aliases(h)[n]] \in Names

\* What is under way or waits is about c, unless it is a stray.
About(requests, waiting, c) ==
    /\ \A m \in requests : m.name = c
    /\ \A k \in DOMAIN waiting :
         waiting[k].src \in Servers => waiting[k].says = Zone[c] /\ waiting[k].ip = c

Faithful ==
    ~DnsIdle /\ untouched => /\ Reached(query.hostname, query.current_name, query.depth)
                             /\ About(flight, inbox, query.current_name)

\* Whether a result is true of a name
TrueOf(name, ret, ip) ==
    LET chain == aliases(name)
        found(i) == \E n \in DOMAIN chain : chain[n] = i /\ Zone[i] = "ip"
    IN  /\ ret = "OK" => found(ip)
        /\ ret = "NAME_NOT_FOUND" => \A i \in Names : ~found(i)

ResultTrue == answer.untouched => TrueOf(answer.name, answer.ret, answer.ip)

DnsInv == DnsTyped /\ UnderWay /\ Faithful /\ ResultTrue

-------------------------------------------------------------------------------
\* A call that ends at the last name of its chain, one that is no alias, or after
\* max_depth queries, has looked at every name the chain has.
LEMMA NothingFound ==
    ASSUME NEW h, NEW c, NEW d \in 0 .. max_depth - 1, Reached(h, c, d),
           Zone[c] = "none" \/ (Zone[c] \in Names /\ d + 1 = max_depth)
    PROVE  TrueOf(h, "NAME_NOT_FOUND", "")
<1> DEFINE a == aliases(h)
<1>1. /\ DOMAIN a = 0 .. max_depth - 1 /\ max_depth \in Nat
      /\ \A n \in 1 .. max_depth - 1 : a[n] = After(a[n - 1])
  BY AliasChain, DnsAssumption
<1>2. /\ a[d] = c /\ c \in Names
      /\ \A n \in 0 .. d - 1 : a[n] \in Names /\ Zone[a[n]] \in Names
  BY DEF Reached
<1> HIDE DEF a
<1>3. \A k \in Nat : d + 1 + k <= max_depth - 1 => a[d + 1 + k] \notin Names
  <2> DEFINE T == {k \in Nat : d + 1 + k <= max_depth - 1 => a[d + 1 + k] \notin Names}
  <2>1. 0 \in T
    <3> SUFFICES ASSUME d + 1 <= max_depth - 1  PROVE  a[d + 1] \notin Names
      OBVIOUS
    <3>1. a[d + 1] = After(a[d])
      <4>1. d + 1 \in 1 .. max_depth - 1 /\ (d + 1) - 1 = d
        BY <1>1
      <4>2. a[d + 1] = After(a[(d + 1) - 1])
        BY <1>1, <4>1
      <4>3. QED
        BY <4>1, <4>2
    <3>2. a[d + 1] = "none"
      BY <1>1, <1>2, <3>1 DEF After
    <3>3. QED
      BY <3>2, DnsAssumption
  <2>2. ASSUME NEW k \in Nat, k \in T
        PROVE  k + 1 \in T
    <3> SUFFICES ASSUME d + 1 + (k + 1) <= max_depth - 1  PROVE  a[d + 1 + (k + 1)] \notin Names
      OBVIOUS
    <3>1. a[d + 1 + k] \notin Names
      BY <1>1, <2>2
    <3>2. a[d + 1 + (k + 1)] = After(a[d + 1 + k])
      <4>1. /\ d + 1 + (k + 1) \in 1 .. max_depth - 1
            /\ (d + 1 + (k + 1)) - 1 = d + 1 + k
        BY <1>1
      <4>2. a[d + 1 + (k + 1)] = After(a[(d + 1 + (k + 1)) - 1])
        BY <1>1, <4>1
      <4>3. QED
        BY <4>1, <4>2
    <3>3. QED
      BY <3>1, <3>2 DEF After
  <2> HIDE DEF T
  <2>3. Nat \subseteq T
    BY <2>1, <2>2, SetInduction
  <2>4. QED
    BY <2>3 DEF T
<1>4. ASSUME NEW i \in Names, NEW n \in DOMAIN a, a[n] = i, Zone[i] = "ip"
      PROVE  FALSE
  <2>1. n \in 0 .. max_depth - 1 /\ n \in Nat
    BY <1>1
  <2>2. CASE n < d
    <3>1. Zone[i] \in Names
      BY <1>2, <1>4, <2>1, <2>2
    <3>2. QED
      BY <3>1, <1>4, DnsAssumption
  <2>3. CASE n = d
    BY <1>2, <1>4, <2>3, DnsAssumption
  <2>4. CASE n > d
    <3>1. PICK k \in Nat : d + 1 + k = n
      <4>1. n - (d + 1) \in Nat /\ d + 1 + (n - (d + 1)) = n
        BY <2>1, <2>4
      <4>2. QED
        BY <4>1
    <3>2. a[n] \notin Names
      <4>1. d + 1 + k <= max_depth - 1
        BY <1>1, <2>1, <3>1
      <4>2. a[d + 1 + k] \notin Names
        BY <1>3, <4>1
      <4>3. QED
        BY <3>1, <4>2
    <3>3. QED
      BY <3>2, <1>4
  <2>5. QED
    BY <2>1, <2>2, <2>3, <2>4
<1>5. QED
  BY <1>4 DEF TrueOf, a

\* A call that ends at a name with an address returns the address of a name of its chain.
LEMMA AddressFound ==
    ASSUME NEW h, NEW c, NEW d \in 0 .. max_depth - 1, Reached(h, c, d), Zone[c] = "ip"
    PROVE  TrueOf(h, "OK", c)
<1>1. DOMAIN aliases(h) = 0 .. max_depth - 1 /\ aliases(h)[d] = c
  BY AliasChain DEF Reached
<1>2. QED
  BY <1>1 DEF TrueOf

\* The target of an alias is the next name of the chain.
LEMMA AliasReached ==
    ASSUME NEW h, NEW c, NEW d \in 0 .. max_depth - 1, Reached(h, c, d),
           Zone[c] \in Names, d + 1 < max_depth
    PROVE  Reached(h, Zone[c], d + 1)
<1> DEFINE a == aliases(h)
<1>1. a[d + 1] = After(a[d])
  <2>1. d + 1 \in 1 .. max_depth - 1 /\ (d + 1) - 1 = d
    BY DnsAssumption
  <2>2. a[d + 1] = After(a[(d + 1) - 1])
    BY <2>1, AliasChain
  <2>3. QED
    BY <2>1, <2>2
<1>2. a[d] = c /\ c \in Names /\ \A n \in 0 .. d - 1 : a[n] \in Names /\ Zone[a[n]] \in Names
  BY DEF Reached
<1> HIDE DEF a
<1>3. a[d + 1] = Zone[c]
  BY <1>1, <1>2 DEF After
<1>4. ASSUME NEW n \in 0 .. (d + 1) - 1
      PROVE  a[n] \in Names /\ Zone[a[n]] \in Names
  <2>1. CASE n = d
    BY <1>2, <2>1
  <2>2. CASE n # d
    BY <1>2, <2>2
  <2>3. QED
    BY <2>1, <2>2
<1>5. QED
  BY <1>3, <1>4 DEF Reached, a

\* The chain of a name starts with it.
LEMMA HostReached == \A h \in Names : Reached(h, h, 0)
  BY AliasChain DEF Reached

\* A result that names no address and does not deny one is true of every name.
LEMMA NoAnswerTrue ==
    \A h, ip, ret : ret \notin {"OK", "NAME_NOT_FOUND"} => TrueOf(h, ret, ip)
  BY DEF TrueOf

-------------------------------------------------------------------------------
\* Where nothing of an earlier query is under way, what is there is about any name.
LEMMA FreshAbout ==
    ASSUME NEW requests, NEW waiting, NEW c, Fresh(waiting, requests)
    PROVE  About(requests, waiting, c)
  BY NetworkAssumption DEF Fresh, About

\* Receiving a datagram leaves the others as they were.
LEMMA AboutTail ==
    ASSUME NEW requests, NEW waiting \in Seq(Datagram), NEW c, About(requests, waiting, c),
           waiting # <<>>
    PROVE  About(requests, Tail(waiting), c)
<1>1. \A k \in DOMAIN Tail(waiting) : k + 1 \in DOMAIN waiting /\ Tail(waiting)[k] = waiting[k + 1]
  OBVIOUS
<1>2. QED
  BY <1>1 DEF About

\* A datagram that arrives is a stray or about the name as well.
LEMMA AboutAppend ==
    ASSUME NEW requests, NEW waiting \in Seq(Datagram), NEW c, About(requests, waiting, c),
           NEW d \in Datagram, d.src \in Servers => d.says = Zone[c] /\ d.ip = c,
           NEW fewer, fewer \subseteq requests
    PROVE  About(fewer, Append(waiting, d), c)
<1>1. \A k \in DOMAIN Append(waiting, d) :
        Append(waiting, d)[k] = d \/ (k \in DOMAIN waiting /\ Append(waiting, d)[k] = waiting[k])
  OBVIOUS
<1>2. QED
  BY <1>1 DEF About

-------------------------------------------------------------------------------
\* Starting a query leaves the client idle with a refusal, or waiting for what is
\* about a name it starts with.
LEMMA QueryEffect ==
    ASSUME NEW h \in Names, NEW name \in Names, NEW depth \in 0 .. max_depth - 1,
           NEW clean \in BOOLEAN, Query(h, name, depth, clean)
    PROVE  /\ untouched' = (clean /\ Fresh(inbox', flight'))
           /\ \/ /\ query' = NoQuery
                 /\ answer'.ret \notin {"OK", "NAME_NOT_FOUND"}
              \/ /\ g_dns_initialized /\ UNCHANGED answer
                 /\ query' = [pc |-> "send", hostname |-> h, current_name |-> name,
                              retry |-> 0, depth |-> depth]
<1>1. untouched' = (clean /\ Fresh(inbox', flight'))
  BY Zenon DEF Query
<1> DEFINE refusal == IF ~g_dns_initialized THEN {"SOCKET_FAIL"}
                      ELSE IF name \notin ValidNames THEN {"INVALID_PARAM"} ELSE {}
           started == [pc |-> "send", hostname |-> h, current_name |-> name,
                       retry |-> 0, depth |-> depth]
<1>2. \/ \E ret \in refusal :
           query' = NoQuery
           /\ answer' = [ret |-> ret, name |-> h, ip |-> "", untouched |-> clean]
      \/ refusal = {} /\ query' = started /\ UNCHANGED answer
  BY Zenon DEF Query
<1>3. \A ret \in refusal : ret \notin {"OK", "NAME_NOT_FOUND"}
  OBVIOUS
<1>4. refusal = {} => g_dns_initialized
  OBVIOUS
<1> HIDE DEF refusal, started
<1>5. \/ query' = NoQuery /\ answer'.ret \notin {"OK", "NAME_NOT_FOUND"}
      \/ g_dns_initialized /\ UNCHANGED answer /\ query' = started
  <2>1. CASE refusal = {} /\ query' = started /\ UNCHANGED answer
    BY <2>1, <1>4, Zenon
  <2>2. CASE \E ret \in refusal :
               query' = NoQuery
               /\ answer' = [ret |-> ret, name |-> h, ip |-> "", untouched |-> clean]
    <3>1. PICK ret \in refusal :
            query' = NoQuery
            /\ answer' = [ret |-> ret, name |-> h, ip |-> "", untouched |-> clean]
      BY <2>2
    <3>2. answer'.ret = ret
      BY <3>1
    <3>3. QED
      BY <3>1, <3>2, <1>3
  <2>3. QED
    BY <1>2, <2>1, <2>2
<1>6. QED
  BY <1>1, <1>5, Zenon DEF started

\* The end of a round starts the next one for the same name, or ends the call with
\* no answer.
LEMMA AgainEffect ==
    ASSUME DnsTyped, DnsAgain
    PROVE  \/ /\ query' \in Queries /\ query'.pc = "send" /\ UNCHANGED answer
              /\ query'.hostname = query.hostname /\ query'.current_name = query.current_name
              /\ query'.depth = query.depth
           \/ /\ query' = NoQuery
              /\ answer'.ret \notin {"OK", "NAME_NOT_FOUND"}
<1> DEFINE retry == (query.retry + 1) % RetryMod
<1>1. retry \in Nat
  <2>1. query.retry + 1 \in Nat /\ RetryMod \in Nat \ {0}
    <3>1. query.retry \in Nat
      BY DEF DnsTyped, Queries
    <3>2. QED
      BY <3>1, DnsAssumption
  <2>2. QED
    BY <2>1
<1>2. \/ query' = [query EXCEPT !.pc = "send", !.retry = retry] /\ UNCHANGED answer
      \/ DnsReturns("TIMEOUT", "")
  BY DEF DnsAgain
<1> HIDE DEF retry
<1>3. CASE query' = [query EXCEPT !.pc = "send", !.retry = retry] /\ UNCHANGED answer
  BY <1>1, <1>3 DEF DnsTyped, Queries
<1>4. CASE DnsReturns("TIMEOUT", "")
  BY <1>4 DEF DnsReturns
<1>5. QED
  BY <1>2, <1>3, <1>4

\* The idle client's record has the type of every query.
LEMMA NoQueryTyped == NoQuery \in Queries /\ NoQuery.pc = "idle"
  BY DnsAssumption DEF NoQuery, Queries

\* A call takes an answer to be the end of it, or an alias to query next.
LEMMA FollowEffect ==
    ASSUME DnsTyped, UnderWay, ~DnsIdle, NEW d \in Datagram, Follow(d)
    PROVE  \/ /\ d.says \in Names /\ query.depth + 1 < max_depth
              /\ Query(query.hostname, d.says, query.depth + 1, untouched)
           \/ /\ query' = NoQuery /\ UNCHANGED untouched
              /\ d.says \in Names => query.depth + 1 = max_depth
              /\ answer' = [ret |-> IF d.says = "ip" THEN "OK" ELSE "NAME_NOT_FOUND",
                            name |-> query.hostname,
                            ip |-> IF d.says = "ip" THEN d.ip ELSE "", untouched |-> untouched]
<1>1. query.depth \in 0 .. max_depth - 1 /\ max_depth \in Nat
  BY DnsAssumption DEF DnsTyped, Queries
<1>2. CASE d.says \in Names /\ query.depth + 1 < max_depth
  BY <1>2 DEF Follow
<1>3. CASE ~(d.says \in Names /\ query.depth + 1 < max_depth)
  <2>1. d.says \in Names => query.depth + 1 = max_depth
    BY <1>1, <1>3
  <2>2. /\ UNCHANGED untouched
        /\ IF d.says = "ip" THEN DnsReturns("OK", d.ip) ELSE DnsReturns("NAME_NOT_FOUND", "")
    BY <1>3 DEF Follow
  <2>3. QED
    BY <2>1, <2>2 DEF DnsReturns
<1>4. QED
  BY <1>2, <1>3

\* What a server answers is a datagram about the name it was asked for.
LEMMA ServedDatagram ==
    ASSUME DnsTyped, DnsServe
    PROVE  \E m \in flight, d \in Datagram :
             /\ Arrives(d) /\ flight' = flight \ {m}
             /\ d.says = Zone[m.name] /\ d.ip = m.name
<1>1. PICK m \in flight :
        /\ m.server \in Servers
        /\ Answered(m, [src |-> m.server, size |-> "fits", says |-> Zone[m.name], ip |-> m.name])
  BY DEF DnsServe
<1> DEFINE d == [src |-> m.server, size |-> "fits", says |-> Zone[m.name], ip |-> m.name]
<1>2. m.name \in Names /\ Zone[m.name] \in {"ip", "none", "nxdomain"} \cup Names
  BY DnsAssumption DEF DnsTyped
<1>3. d \in Datagram
  BY <1>1, <1>2 DEF Datagram
<1>4. Arrives(d) /\ flight' = flight \ {m}
  BY <1>1 DEF Answered
<1>5. d.says = Zone[m.name] /\ d.ip = m.name
  OBVIOUS
<1>6. QED
  BY <1>3, <1>4, <1>5

-------------------------------------------------------------------------------
\* What is under way and waits keeps its type whatever happens to the socket.
LEMMA SocketTyped ==
    ASSUME DnsTyped,
           \/ \E newPort \in BOOLEAN : Opens(newPort) \/ OpenFails(newPort)
           \/ CloseFails \/ Lost \/ (inbox # <<>> /\ Receives)
           \/ \E m : m.name \in Names /\ Sends(m)
           \/ \E d \in Datagram : Arrives(d) /\ flight' \subseteq flight
           \/ UNCHANGED network
    PROVE  inbox' \in Seq(Datagram) /\ \A m \in flight' : m.name \in Names
<1>1. inbox \in Seq(Datagram) /\ <<>> \in Seq(Datagram) /\ \A m \in flight : m.name \in Names
  BY DEF DnsTyped
<1>2. inbox # <<>> => Tail(inbox) \in Seq(Datagram)
  BY <1>1
<1>3. \A d \in Datagram : Append(inbox, d) \in Seq(Datagram)
  BY <1>1
<1>4. QED
  BY <1>1, <1>2, <1>3
     DEF Opens, OpenFails, CloseFails, Closes, Lost, Receives, Sends, Arrives, network

\* What the network does to a client adds a datagram or loses a request.
LEMMA NetworkEffect ==
    ASSUME DnsTyped, DnsServe \/ Stray \/ Lost
    PROVE  \/ \E d \in Datagram : /\ Arrives(d) /\ flight' \subseteq flight
                                  /\ \/ d.src \notin Servers
                                     \/ \E m \in flight : d.says = Zone[m.name] /\ d.ip = m.name
           \/ Lost
<1>1. CASE DnsServe
  <2>1. PICK m \in flight, d \in Datagram :
          /\ Arrives(d) /\ flight' = flight \ {m}
          /\ d.says = Zone[m.name] /\ d.ip = m.name
    BY <1>1, ServedDatagram
  <2>2. QED
    BY <2>1
<1>2. CASE Stray
  <2>1. PICK d \in Strays : Arrives(d) /\ UNCHANGED flight
    BY <1>2 DEF Stray
  <2>2. d \in Datagram /\ d.src \notin Servers
    BY NetworkAssumption DEF Datagram
  <2>3. QED
    BY <2>1, <2>2
<1>3. QED
  BY <1>1, <1>2

\* A call that begins opens the socket if it must, and queries the name or fails.
LEMMA ResolveEffect ==
    ASSUME NEW h \in Names, DnsResolve(h)
    PROVE  /\ UNCHANGED <<g_dns_config, g_dns_initialized>> /\ DnsIdle
           /\ UNCHANGED network \/ \E newPort \in BOOLEAN : Opens(newPort) \/ OpenFails(newPort)
           /\ \/ Query(h, h, 0, TRUE)
              \/ /\ UNCHANGED <<query, untouched>>
                 /\ answer'.ret \notin {"OK", "NAME_NOT_FOUND"}
<1>1. UNCHANGED <<g_dns_config, g_dns_initialized>> /\ DnsIdle
  BY DEF DnsResolve
<1>2. UNCHANGED network \/ \E newPort \in BOOLEAN : Opens(newPort) \/ OpenFails(newPort)
  <2>1. UNCHANGED network \/ Opens(FALSE) \/ OpenFails(FALSE)
    BY Zenon DEF DnsResolve
  <2>2. QED
    BY <2>1
<1>3. \/ Query(h, h, 0, TRUE)
      \/ UNCHANGED <<query, untouched>>
         /\ answer' = [ret |-> "SOCKET_FAIL", name |-> h, ip |-> "", untouched |-> FALSE]
  BY Zenon DEF DnsResolve
<1>4. \/ Query(h, h, 0, TRUE)
      \/ UNCHANGED <<query, untouched>> /\ answer'.ret \notin {"OK", "NAME_NOT_FOUND"}
  <2>1. CASE answer' = [ret |-> "SOCKET_FAIL", name |-> h, ip |-> "", untouched |-> FALSE]
    <3>1. answer'.ret = "SOCKET_FAIL"
      BY <2>1
    <3>2. answer'.ret \notin {"OK", "NAME_NOT_FOUND"}
      BY <3>1
    <3>3. QED
      BY <1>3, <3>2, Zenon
  <2>2. QED
    BY <1>3, <2>1, Zenon
<1>5. QED
  BY <1>1, <1>2, <1>4, Zenon

\* Every step keeps the types.
LEMMA DnsTypedStep == DnsTyped /\ UnderWay /\ [DnsNext]_dnsVars => DnsTyped'
<1> SUFFICES ASSUME DnsTyped, UnderWay, [DnsNext]_dnsVars  PROVE  DnsTyped'
  OBVIOUS
<1>t. /\ g_dns_config \in [dns_server : Servers \cup {"0.0.0.0"}, max_retries : Nat,
                           buffers : BOOLEAN]
      /\ query \in Queries /\ untouched \in BOOLEAN
  BY DEF DnsTyped
<1>d. 0 \in 0 .. max_depth - 1 /\ max_depth \in Nat
  BY DnsAssumption
<1> DEFINE Socket == inbox' \in Seq(Datagram) /\ \A m \in flight' : m.name \in Names
<1>1. CASE DnsInit
  <2>1. Socket
    BY <1>1, SocketTyped DEF DnsInit
  <2>2. PICK server \in Servers, retries \in RetrySettings :
          g_dns_config' = [dns_server |-> server, max_retries |-> retries, buffers |-> TRUE]
    BY <1>1 DEF DnsInit
  <2>3. retries \in Nat
    BY DnsAssumption
  <2>4. UNCHANGED <<query, untouched>>
    BY <1>1 DEF DnsInit
  <2>5. QED
    BY <2>1, <2>2, <2>3, <2>4, <1>t DEF DnsTyped
<1>2. CASE DnsSet
  <2>1. Socket
    BY <1>2, SocketTyped DEF DnsSet
  <2>2. g_dns_config' \in [dns_server : Servers \cup {"0.0.0.0"}, max_retries : Nat,
                           buffers : BOOLEAN]
    <3>1. CASE dns_set_server
      BY <3>1, <1>t DEF dns_set_server
    <3>2. CASE dns_set_max_retries
      <4>1. \A retries \in RetrySettings : retries \in Nat
        BY DnsAssumption
      <4>2. QED
        BY <3>2, <4>1, <1>t DEF dns_set_max_retries
    <3>3. QED
      BY <1>2, <3>1, <3>2 DEF DnsSet
  <2>3. UNCHANGED <<query, untouched>>
    BY <1>2 DEF DnsSet
  <2>4. QED
    BY <2>1, <2>2, <2>3, <1>t DEF DnsTyped
<1>3. CASE DnsClose
  <2>1. Socket
    BY <1>3, SocketTyped DEF DnsClose
  <2>2. UNCHANGED <<g_dns_config, query, untouched>>
    BY <1>3 DEF DnsClose
  <2>3. QED
    BY <2>1, <2>2, <1>t DEF DnsTyped
<1>q. ASSUME NEW h \in Names, NEW name \in Names, NEW depth \in 0 .. max_depth - 1,
             NEW clean \in BOOLEAN, Query(h, name, depth, clean)
      PROVE  query' \in Queries /\ untouched' \in BOOLEAN
  <2>1. \/ query' = NoQuery
        \/ query' = [pc |-> "send", hostname |-> h, current_name |-> name,
                     retry |-> 0, depth |-> depth]
    BY <1>q, QueryEffect
  <2>2. query' \in Queries
    <3>1. [pc |-> "send", hostname |-> h, current_name |-> name, retry |-> 0, depth |-> depth]
            \in Queries
      BY DEF Queries
    <3>2. QED
      BY <2>1, <3>1, NoQueryTyped
  <2>3. untouched' = (clean /\ Fresh(inbox', flight'))
    BY <1>q, QueryEffect, Zenon
  <2>4. untouched' \in BOOLEAN
    BY <2>3, Zenon
  <2>5. QED
    BY <2>2, <2>4
<1>4. ASSUME NEW h \in Names, DnsResolve(h)
      PROVE  DnsTyped'
  <2>1. Socket
    BY <1>4, ResolveEffect, SocketTyped
  <2>2. query' \in Queries /\ untouched' \in BOOLEAN
    <3>1. CASE Query(h, h, 0, TRUE)
      BY <3>1, <1>d, <1>q
    <3>2. CASE UNCHANGED <<query, untouched>>
      BY <3>2, <1>t
    <3>3. QED
      BY <3>1, <3>2, <1>4, ResolveEffect
  <2>3. UNCHANGED g_dns_config
    BY <1>4 DEF DnsResolve
  <2>4. QED
    BY <2>1, <2>2, <2>3, <1>t DEF DnsTyped
<1>5. CASE DnsSend
  <2>1. query.current_name \in Names
    BY <1>5 DEF DnsSend, UnderWay, DnsIdle
  <2>2. Socket
    BY <1>5, <2>1, SocketTyped DEF DnsSend
  <2>3. query' \in Queries
    BY <1>5, <1>t, AgainEffect, NoQueryTyped DEF DnsSend, DnsReturns, Queries
  <2>4. UNCHANGED <<g_dns_config, untouched>>
    BY <1>5 DEF DnsSend
  <2>5. QED
    BY <2>2, <2>3, <2>4, <1>t DEF DnsTyped
<1>6. CASE DnsPoll
  <2>1. Socket
    BY <1>6, SocketTyped DEF DnsPoll, Receivable
  <2>2. query' \in Queries /\ untouched' \in BOOLEAN
    <3>1. CASE UNCHANGED <<query, untouched>>
      BY <3>1, <1>t
    <3>2. CASE Follow(Head(inbox))
      <4>1. ~DnsIdle /\ inbox # <<>>
        BY <1>6 DEF DnsPoll, DnsIdle, Receivable
      <4>2. Head(inbox) \in Datagram
        BY <4>1 DEF DnsTyped
      <4>3. query.hostname \in Names /\ query.depth \in 0 .. max_depth - 1
        BY <4>1, <1>t DEF UnderWay, Queries
      <4>4. CASE query' = NoQuery /\ UNCHANGED untouched
        BY <4>4, NoQueryTyped, <1>t
      <4>5. CASE /\ Head(inbox).says \in Names /\ query.depth + 1 < max_depth
                 /\ Query(query.hostname, Head(inbox).says, query.depth + 1, untouched)
        <5>1. query.depth + 1 \in 0 .. max_depth - 1
          BY <4>3, <4>5, <1>d
        <5>2. QED
          BY <4>3, <4>5, <5>1, <1>q, <1>t
      <4>6. QED
        BY <3>2, <4>1, <4>2, <4>4, <4>5, FollowEffect
    <3>3. QED
      BY <1>6, <3>1, <3>2 DEF DnsPoll
  <2>3. UNCHANGED g_dns_config
    BY <1>6 DEF DnsPoll
  <2>4. QED
    BY <2>1, <2>2, <2>3, <1>t DEF DnsTyped
<1>7. CASE DnsWaitOver
  <2>1. Socket
    BY <1>7, SocketTyped DEF DnsWaitOver
  <2>2. query' \in Queries
    BY <1>7, AgainEffect, NoQueryTyped DEF DnsWaitOver
  <2>3. UNCHANGED <<g_dns_config, untouched>>
    BY <1>7 DEF DnsWaitOver
  <2>4. QED
    BY <2>1, <2>2, <2>3, <1>t DEF DnsTyped
<1>8. CASE DnsNetwork
  <2>1. Socket
    BY <1>8, NetworkEffect, SocketTyped DEF DnsNetwork
  <2>2. UNCHANGED <<g_dns_config, query, untouched>>
    BY <1>8 DEF DnsNetwork
  <2>3. QED
    BY <2>1, <2>2, <1>t DEF DnsTyped
<1>9. CASE UNCHANGED dnsVars
  BY <1>9 DEF dnsVars, network, DnsTyped
<1>10. QED
  BY <1>1, <1>2, <1>3, <1>4, <1>5, <1>6, <1>7, <1>8, <1>9 DEF DnsNext

\* Every step keeps what is known of the call that is under way.
LEMMA UnderWayStep == DnsTyped /\ UnderWay /\ [DnsNext]_dnsVars => UnderWay'
<1> SUFFICES ASSUME DnsTyped, UnderWay, [DnsNext]_dnsVars  PROVE  UnderWay'
  OBVIOUS
<1>t. /\ g_dns_config \in [dns_server : Servers \cup {"0.0.0.0"}, max_retries : Nat,
                           buffers : BOOLEAN]
      /\ query \in Queries
  BY DEF DnsTyped
<1>n. NoQuery.pc = "idle"
  BY NoQueryTyped
<1>a. ASSUME UNCHANGED <<g_dns_config, g_dns_initialized>>,
             \/ query' = NoQuery
             \/ /\ query'.hostname = query.hostname /\ query'.current_name = query.current_name
                /\ ~DnsIdle
             \/ UNCHANGED query
      PROVE  UnderWay'
  BY <1>a, <1>n DEF UnderWay, DnsIdle
<1>q. ASSUME UNCHANGED <<g_dns_config, g_dns_initialized>>,
             NEW h \in Names, NEW name \in Names, NEW depth \in 0 .. max_depth - 1,
             NEW clean \in BOOLEAN, Query(h, name, depth, clean)
      PROVE  UnderWay'
  <2>1. \/ query' = NoQuery
        \/ /\ g_dns_initialized
           /\ query' = [pc |-> "send", hostname |-> h, current_name |-> name,
                        retry |-> 0, depth |-> depth]
    BY <1>q, QueryEffect
  <2>2. QED
    BY <2>1, <1>q, <1>n DEF UnderWay, DnsIdle
<1>1. CASE DnsInit
  BY <1>1 DEF DnsInit, UnderWay, DnsIdle
<1>2. CASE DnsSet
  BY <1>2, <1>t DEF DnsSet, UnderWay, DnsIdle, dns_set_server, dns_set_max_retries
<1>3. CASE DnsClose
  BY <1>3 DEF DnsClose, UnderWay, DnsIdle
<1>4. ASSUME NEW h \in Names, DnsResolve(h)
      PROVE  UnderWay'
  <2>1. 0 \in 0 .. max_depth - 1
    BY DnsAssumption
  <2>2. QED
    BY <1>4, <1>a, <1>q, <2>1, ResolveEffect
<1>5. CASE DnsSend
  <2>1. UNCHANGED <<g_dns_config, g_dns_initialized>> /\ ~DnsIdle
    BY <1>5 DEF DnsSend, DnsIdle
  <2>2. \/ query' = NoQuery
        \/ query'.hostname = query.hostname /\ query'.current_name = query.current_name
    BY <1>5, <1>t, AgainEffect DEF DnsSend, DnsReturns, Queries
  <2>3. QED
    BY <2>1, <2>2, <1>a
<1>6. CASE DnsPoll
  <2>1. /\ UNCHANGED <<g_dns_config, g_dns_initialized>> /\ ~DnsIdle /\ inbox # <<>>
        /\ UNCHANGED query \/ Follow(Head(inbox))
    BY <1>6 DEF DnsPoll, DnsIdle, Receivable
  <2>2. CASE Follow(Head(inbox))
    <3>1. Head(inbox) \in Datagram /\ query.hostname \in Names /\ untouched \in BOOLEAN
          /\ query.depth \in 0 .. max_depth - 1
      <4>1. Head(inbox) \in Datagram
        BY <2>1 DEF DnsTyped
      <4>2. untouched \in BOOLEAN /\ query.hostname \in Names
        BY <2>1 DEF DnsTyped, UnderWay
      <4>3. query.depth \in 0 .. max_depth - 1
        BY <1>t DEF Queries
      <4>4. QED
        BY <4>1, <4>2, <4>3
    <3>2. CASE /\ Head(inbox).says \in Names /\ query.depth + 1 < max_depth
               /\ Query(query.hostname, Head(inbox).says, query.depth + 1, untouched)
      <4>1. query.depth + 1 \in 0 .. max_depth - 1
        BY <3>1, <3>2, DnsAssumption
      <4>2. QED
        BY <2>1, <3>1, <3>2, <4>1, <1>q
    <3>3. CASE query' = NoQuery
      BY <2>1, <3>3, <1>a
    <3>4. QED
      BY <2>1, <2>2, <3>1, <3>2, <3>3, FollowEffect
  <2>3. QED
    BY <2>1, <2>2, <1>a
<1>7. CASE DnsWaitOver
  <2>1. UNCHANGED <<g_dns_config, g_dns_initialized>> /\ ~DnsIdle
    BY <1>7 DEF DnsWaitOver, DnsIdle
  <2>2. QED
    BY <1>7, <2>1, <1>a, AgainEffect DEF DnsWaitOver
<1>8. CASE DnsNetwork
  BY <1>8, <1>a DEF DnsNetwork
<1>9. CASE UNCHANGED dnsVars
  BY <1>9, <1>a DEF dnsVars
<1>10. QED
  BY <1>1, <1>2, <1>3, <1>4, <1>5, <1>6, <1>7, <1>8, <1>9 DEF DnsNext

\* What is accepted is about the name the query under way is for.
LEMMA AcceptedAnswer ==
    ASSUME DnsTyped, UnderWay, Faithful, ~DnsIdle, untouched, inbox # <<>>,
           Accepted(Head(inbox))
    PROVE  /\ Reached(query.hostname, query.current_name, query.depth)
           /\ Head(inbox) \in Datagram /\ query.depth \in 0 .. max_depth - 1
           /\ Head(inbox).says = Zone[query.current_name]
           /\ Head(inbox).ip = query.current_name
           /\ Zone[query.current_name] \in {"ip", "none"} \cup Names
<1>1. inbox \in Seq(Datagram) /\ query \in Queries
  BY DEF DnsTyped
<1>2. Head(inbox) \in Datagram /\ 1 \in DOMAIN inbox /\ Head(inbox) = inbox[1]
  BY <1>1
<1>3. inbox[1].src \in Servers
  BY <1>2 DEF Accepted, UnderWay
<1>4. /\ Reached(query.hostname, query.current_name, query.depth)
      /\ About(flight, inbox, query.current_name)
  BY DEF Faithful
<1>5. inbox[1].says = Zone[query.current_name] /\ inbox[1].ip = query.current_name
  BY <1>2, <1>3, <1>4 DEF About
<1>6. Zone[query.current_name] \in {"ip", "none", "nxdomain"} \cup Names
  BY DnsAssumption DEF UnderWay
<1>7. inbox[1].says # "nxdomain"
  BY <1>2 DEF Accepted
<1>8. query.depth \in 0 .. max_depth - 1
  BY <1>1 DEF Queries
<1>9. QED
  BY <1>2, <1>4, <1>5, <1>6, <1>7, <1>8

\* Every step keeps a clean call on the chain of its name.
LEMMA FaithfulStep == DnsTyped /\ UnderWay /\ Faithful /\ [DnsNext]_dnsVars => Faithful'
<1> SUFFICES ASSUME DnsTyped, UnderWay, Faithful, [DnsNext]_dnsVars, ~DnsIdle', untouched'
             PROVE  /\ Reached(query'.hostname, query'.current_name, query'.depth)
                    /\ About(flight', inbox', query'.current_name)
  BY Zenon DEF Faithful
<1>t. inbox \in Seq(Datagram) /\ query \in Queries
  BY DEF DnsTyped
<1>i. query' # NoQuery /\ query'.pc # "idle"
  BY NoQueryTyped DEF DnsIdle
<1>f. ~DnsIdle /\ untouched => /\ Reached(query.hostname, query.current_name, query.depth)
                               /\ About(flight, inbox, query.current_name)
  BY DEF Faithful
<1>a. ASSUME UNCHANGED untouched, ~DnsIdle,
             /\ query'.hostname = query.hostname /\ query'.current_name = query.current_name
             /\ query'.depth = query.depth,
             About(flight, inbox, query.current_name) => About(flight', inbox', query.current_name)
      PROVE  /\ Reached(query'.hostname, query'.current_name, query'.depth)
             /\ About(flight', inbox', query'.current_name)
  BY <1>a, <1>f
<1>q. ASSUME NEW h \in Names, NEW name \in Names, NEW depth \in 0 .. max_depth - 1,
             NEW clean \in BOOLEAN, Query(h, name, depth, clean), clean => Reached(h, name, depth)
      PROVE  /\ Reached(query'.hostname, query'.current_name, query'.depth)
             /\ About(flight', inbox', query'.current_name)
  <2>1. query' = [pc |-> "send", hostname |-> h, current_name |-> name,
                  retry |-> 0, depth |-> depth]
    BY <1>q, <1>i, QueryEffect
  <2>2. clean /\ Fresh(inbox', flight')
    <3>1. untouched' = (clean /\ Fresh(inbox', flight'))
      BY <1>q, QueryEffect, Zenon
    <3>2. QED
      BY <3>1, Zenon
  <2>3. About(flight', inbox', name)
    BY <2>2, FreshAbout
  <2>4. query'.hostname = h /\ query'.current_name = name /\ query'.depth = depth
    BY <2>1
  <2>5. QED
    BY <1>q, <2>2, <2>3, <2>4
<1>1. CASE DnsInit \/ DnsSet \/ DnsClose
  BY <1>1, <1>i DEF DnsInit, DnsSet, DnsClose, DnsIdle
<1>2. ASSUME NEW h \in Names, DnsResolve(h)
      PROVE  /\ Reached(query'.hostname, query'.current_name, query'.depth)
             /\ About(flight', inbox', query'.current_name)
  <2>1. 0 \in 0 .. max_depth - 1
    BY DnsAssumption
  <2>2. ~UNCHANGED query
    BY <1>2, <1>i DEF DnsResolve, DnsIdle
  <2>3. Query(h, h, 0, TRUE)
    BY <1>2, <2>2, ResolveEffect, Zenon
  <2>4. QED
    BY <2>1, <2>3, <1>q, HostReached
<1>3. CASE DnsSend
  <2>1. UNCHANGED untouched /\ ~DnsIdle
    BY <1>3 DEF DnsSend, DnsIdle
  <2>2. CASE Sends([name |-> query.current_name, server |-> g_dns_config.dns_server])
             /\ query' = [query EXCEPT !.pc = "wait"]
    <3>1. /\ query'.hostname = query.hostname /\ query'.current_name = query.current_name
          /\ query'.depth = query.depth
      BY <2>2, <1>t DEF Queries
    <3> DEFINE m == [name |-> query.current_name, server |-> g_dns_config.dns_server]
    <3>2. flight' = flight \cup {m} /\ inbox' = inbox
      BY <2>2 DEF Sends
    <3>3. m.name = query.current_name
      OBVIOUS
    <3> HIDE DEF m
    <3>4. About(flight, inbox, query.current_name) => About(flight', inbox', query.current_name)
      BY <3>2, <3>3 DEF About
    <3>5. QED
      BY <2>1, <3>1, <3>4, <1>a
  <2>3. CASE UNCHANGED network /\ (DnsReturns("NETWORK", "") \/ DnsAgain)
    <3>1. UNCHANGED <<flight, inbox>>
      BY <2>3 DEF network
    <3>2. ~DnsReturns("NETWORK", "")
      BY <1>i DEF DnsReturns
    <3>3. QED
      BY <2>1, <2>3, <3>1, <3>2, <1>a, <1>i, AgainEffect
  <2>4. QED
    BY <1>3, <2>2, <2>3 DEF DnsSend
<1>4. CASE DnsPoll
  <2>1. ~DnsIdle /\ inbox # <<>> /\ inbox' = Tail(inbox) /\ flight' = flight
    BY <1>4 DEF DnsPoll, DnsIdle, Receivable, Receives
  <2>2. CASE UNCHANGED <<query, answer, untouched>>
    <3>1. About(flight, inbox, query.current_name) => About(flight', inbox', query.current_name)
      BY <2>1, <1>t, AboutTail
    <3>2. QED
      BY <2>1, <2>2, <3>1, <1>a
  <2>3. CASE Accepted(Head(inbox)) /\ Follow(Head(inbox))
    <3>1. Head(inbox) \in Datagram /\ query.hostname \in Names
      BY <2>1, <1>t DEF UnderWay
    <3>2. /\ Head(inbox).says \in Names /\ query.depth + 1 < max_depth
          /\ Query(query.hostname, Head(inbox).says, query.depth + 1, untouched)
      BY <2>1, <2>3, <3>1, <1>i, FollowEffect
    <3>3. query.depth \in 0 .. max_depth - 1
      BY <1>t DEF Queries
    <3>4. query.depth + 1 \in 0 .. max_depth - 1
      BY <3>2, <3>3, DnsAssumption
    <3>5. untouched => Reached(query.hostname, Head(inbox).says, query.depth + 1)
      <4> SUFFICES ASSUME untouched
                   PROVE  Reached(query.hostname, Head(inbox).says, query.depth + 1)
        OBVIOUS
      <4>1. /\ Reached(query.hostname, query.current_name, query.depth)
            /\ Head(inbox).says = Zone[query.current_name]
        BY <2>1, <2>3, AcceptedAnswer
      <4>2. QED
        BY <3>2, <3>3, <4>1, AliasReached
    <3>6. untouched \in BOOLEAN
      BY DEF DnsTyped
    <3>7. QED
      BY <3>1, <3>2, <3>4, <3>5, <3>6, <1>q
  <2>4. QED
    BY <1>4, <2>2, <2>3 DEF DnsPoll
<1>5. CASE DnsWaitOver
  <2>1. UNCHANGED <<flight, inbox, untouched>> /\ ~DnsIdle
    BY <1>5 DEF DnsWaitOver, DnsIdle, network
  <2>2. QED
    BY <1>5, <2>1, <1>a, <1>i, AgainEffect DEF DnsWaitOver
<1>6. CASE DnsNetwork
  <2>1. UNCHANGED <<query, untouched>> /\ ~DnsIdle /\ untouched
    BY <1>6 DEF DnsNetwork, DnsIdle
  <2>2. About(flight, inbox, query.current_name)
    BY <2>1, <1>f
  <2>3. CASE Lost
    <3>1. flight' \subseteq flight /\ inbox' = inbox
      BY <2>3 DEF Lost
    <3>2. About(flight', inbox', query.current_name)
      BY <2>2, <3>1 DEF About
    <3>3. QED
      BY <2>1, <3>2, <1>a
  <2>4. CASE \E d \in Datagram : /\ Arrives(d) /\ flight' \subseteq flight
                                 /\ \/ d.src \notin Servers
                                    \/ \E m \in flight : d.says = Zone[m.name] /\ d.ip = m.name
    <3>1. PICK d \in Datagram : /\ Arrives(d) /\ flight' \subseteq flight
                                /\ \/ d.src \notin Servers
                                   \/ \E m \in flight : d.says = Zone[m.name] /\ d.ip = m.name
      BY <2>4
    <3>2. d.src \in Servers => d.says = Zone[query.current_name] /\ d.ip = query.current_name
      BY <2>2, <3>1 DEF About
    <3>3. inbox' = Append(inbox, d)
      BY <3>1 DEF Arrives
    <3>4. About(flight', inbox', query.current_name)
      BY <2>2, <3>1, <3>2, <3>3, <1>t, AboutAppend
    <3>5. QED
      BY <2>1, <3>4, <1>a
  <2>5. QED
    BY <1>6, <2>3, <2>4, NetworkEffect DEF DnsNetwork
<1>7. CASE UNCHANGED dnsVars
  <2>1. UNCHANGED <<query, untouched, flight, inbox>>
    BY <1>7 DEF dnsVars, network
  <2>2. ~DnsIdle
    BY <2>1 DEF DnsIdle
  <2>3. QED
    BY <2>1, <2>2, <1>a
<1>8. QED
  BY <1>1, <1>2, <1>3, <1>4, <1>5, <1>6, <1>7 DEF DnsNext

\* Every step that returns something from a clean call returns what is true.
LEMMA ResultStep == DnsInv /\ [DnsNext]_dnsVars => ResultTrue'
<1> SUFFICES ASSUME DnsInv, [DnsNext]_dnsVars  PROVE  ResultTrue'
  OBVIOUS
<1>t. DnsTyped /\ UnderWay /\ Faithful /\ ResultTrue /\ query \in Queries
  BY DEF DnsInv, DnsTyped
<1>a. ASSUME UNCHANGED answer \/ answer'.ret \notin {"OK", "NAME_NOT_FOUND"}
      PROVE  ResultTrue'
  <2>1. CASE UNCHANGED answer
    BY <1>t, <2>1 DEF ResultTrue
  <2>2. CASE answer'.ret \notin {"OK", "NAME_NOT_FOUND"}
    BY <2>2, NoAnswerTrue DEF ResultTrue
  <2>3. QED
    BY <1>a, <2>1, <2>2
<1>1. CASE DnsInit \/ DnsSet \/ DnsClose \/ DnsNetwork \/ UNCHANGED dnsVars
  BY <1>1, <1>a DEF DnsInit, DnsSet, DnsClose, DnsNetwork, dnsVars
<1>2. ASSUME NEW h \in Names, DnsResolve(h)
      PROVE  ResultTrue'
  <2>1. 0 \in 0 .. max_depth - 1
    BY DnsAssumption
  <2>2. CASE Query(h, h, 0, TRUE)
    BY <2>1, <2>2, <1>a, QueryEffect
  <2>3. QED
    BY <1>2, <2>2, <1>a, ResolveEffect
<1>3. CASE DnsSend
  <2>1. CASE DnsReturns("NETWORK", "")
    <3>1. answer'.ret = "NETWORK"
      BY <2>1 DEF DnsReturns
    <3>2. QED
      BY <3>1, <1>a
  <2>2. QED
    BY <1>3, <2>1, <1>t, <1>a, AgainEffect DEF DnsSend
<1>4. CASE DnsPoll
  <2>1. ~DnsIdle /\ inbox # <<>>
    BY <1>4 DEF DnsPoll, DnsIdle, Receivable
  <2> DEFINE d == Head(inbox)
  <2>2. CASE Accepted(d) /\ Follow(d)
    <3>1. d \in Datagram /\ query.hostname \in Names /\ query.depth \in 0 .. max_depth - 1
      <4>1. d \in Datagram
        BY <2>1, <1>t DEF DnsTyped
      <4>2. query.depth \in 0 .. max_depth - 1
        BY <1>t DEF Queries
      <4>3. QED
        BY <2>1, <4>1, <4>2, <1>t DEF UnderWay
    <3>2. CASE /\ d.says \in Names /\ query.depth + 1 < max_depth
               /\ Query(query.hostname, d.says, query.depth + 1, untouched)
      <4>1. query.depth + 1 \in 0 .. max_depth - 1 /\ untouched \in BOOLEAN
        BY <3>1, <3>2, <1>t, DnsAssumption DEF DnsTyped
      <4>2. QED
        BY <3>1, <3>2, <4>1, <1>a, QueryEffect
    <3>3. CASE /\ d.says \in Names => query.depth + 1 = max_depth
               /\ answer' = [ret |-> IF d.says = "ip" THEN "OK" ELSE "NAME_NOT_FOUND",
                             name |-> query.hostname,
                             ip |-> IF d.says = "ip" THEN d.ip ELSE "", untouched |-> untouched]
      <4> SUFFICES ASSUME untouched
                   PROVE  TrueOf(answer'.name, answer'.ret, answer'.ip)
        BY <3>3 DEF ResultTrue
      <4>1. /\ Reached(query.hostname, query.current_name, query.depth)
            /\ d.says = Zone[query.current_name] /\ d.ip = query.current_name
            /\ Zone[query.current_name] \in {"ip", "none"} \cup Names
        BY <2>1, <2>2, <1>t, AcceptedAnswer
      <4>2. CASE d.says = "ip"
        <5>1. answer'.name = query.hostname /\ answer'.ret = "OK"
              /\ answer'.ip = query.current_name
          BY <3>3, <4>1, <4>2
        <5>2. QED
          BY <5>1, <4>1, <4>2, <3>1, AddressFound
      <4>3. CASE d.says # "ip"
        <5>1. answer'.name = query.hostname /\ answer'.ret = "NAME_NOT_FOUND"
              /\ answer'.ip = ""
          BY <3>3, <4>3
        <5>2. \/ Zone[query.current_name] = "none"
              \/ Zone[query.current_name] \in Names /\ query.depth + 1 = max_depth
          BY <3>3, <4>1, <4>3
        <5>3. QED
          BY <5>1, <5>2, <4>1, <3>1, NothingFound
      <4>4. QED
        BY <4>2, <4>3
    <3>4. QED
      BY <2>1, <2>2, <3>1, <3>2, <3>3, <1>t, FollowEffect
  <2>3. QED
    BY <1>4, <2>2, <1>a DEF DnsPoll
<1>5. CASE DnsWaitOver
  BY <1>5, <1>t, <1>a, AgainEffect DEF DnsWaitOver
<1>6. QED
  BY <1>1, <1>2, <1>3, <1>4, <1>5 DEF DnsNext

-------------------------------------------------------------------------------
\* The client is in a state of DnsInv whenever it runs.
THEOREM DnsInvariant == DnsSpec => []DnsInv
<1>1. NetworkInit /\ DnsInitial => DnsInv
  <2> SUFFICES ASSUME NetworkInit, DnsInitial  PROVE  DnsInv
    OBVIOUS
  <2>1. query.pc = "idle" /\ query \in Queries /\ ~g_dns_initialized /\ untouched \in BOOLEAN
        /\ answer.ret = "none"
    BY NoQueryTyped DEF DnsInitial
  <2>2. /\ inbox = <<>> /\ flight = {}
        /\ g_dns_config = [dns_server |-> "0.0.0.0", max_retries |-> 0, buffers |-> FALSE]
    BY DEF NetworkInit, DnsInitial
  <2>3. <<>> \in Seq(Datagram)
    OBVIOUS
  <2>4. DnsTyped
    BY <2>1, <2>2, <2>3 DEF DnsTyped
  <2>5. UnderWay /\ Faithful
    BY <2>1 DEF UnderWay, Faithful, DnsIdle
  <2>6. ResultTrue
    BY <2>1, NoAnswerTrue DEF ResultTrue
  <2>7. QED
    BY <2>4, <2>5, <2>6 DEF DnsInv
<1>2. DnsInv /\ [DnsNext]_dnsVars => DnsInv'
  <2> SUFFICES ASSUME DnsInv, [DnsNext]_dnsVars  PROVE  DnsInv'
    OBVIOUS
  <2>1. DnsTyped /\ UnderWay /\ Faithful /\ ResultTrue
    BY DEF DnsInv
  <2>2. DnsTyped' /\ UnderWay' /\ Faithful' /\ ResultTrue'
    BY <2>1, DnsTypedStep, UnderWayStep, FaithfulStep, ResultStep
  <2>3. QED
    BY <2>2 DEF DnsInv
<1>3. QED
  BY <1>1, <1>2, PTL DEF DnsSpec

\* What a call returns is true of the name it was asked for, whatever names, aliases,
\* servers and strays there are, unless an answer to an earlier query was under way.
THEOREM DnsTellsTheTruth == DnsSpec => []DnsResultIsTrue
<1>1. DnsInv => DnsResultIsTrue
  BY DEF DnsInv, ResultTrue, TrueOf, DnsResultIsTrue
<1>2. QED
  BY <1>1, DnsInvariant, PTL
===============================================================================
