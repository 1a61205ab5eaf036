------------------------------- MODULE DnsMessage -------------------------------
(***************************************************************************)
(* The bytes of DNS messages: how dns_client.c writes a name into a query  *)
(* and reads an answer, set against servers that write answers record by   *)
(* record and may compress every name (a pointer to an earlier place takes *)
(* the place of the rest of a name).  Bytes are numbers; positions count   *)
(* from 0 as in the code.                                                  *)
(***************************************************************************)
EXTENDS Integers, Sequences, FiniteSetsExt

CONSTANTS
    Letters,                \* bytes a label may hold
    OtherBytes,             \* bytes it may not hold
    DNS_MAX_LABEL_LENGTH,   \* 63
    DNS_MAX_NAME_LENGTH,    \* 255
    MaxJumps,               \* pointers followed in one name (10)
    Targets,                \* names a server may say another one is an alias of
    MaxHostname,            \* bound: bytes of a name asked for
    MaxRecords              \* bound: records of an answer

Dot == 46
Pointer == 192              \* the two high bits of a length byte
TypeA == 1
TypeCname == 5
TypeOther == 16

ASSUME MessageAssumption ==
    /\ Letters \cup OtherBytes \subseteq 1 .. 255 /\ Dot \notin Letters \cup OtherBytes
    /\ DNS_MAX_LABEL_LENGTH \in 1 .. 63 /\ {DNS_MAX_NAME_LENGTH, MaxJumps} \subseteq Nat

VARIABLES
    hostname,   \* the name asked for
    message,    \* the answer's bytes so far
    places,     \* where it holds names: [at, name, jumps], with the pointers on the
                \* way to the end of the name
    records     \* what it says: [type, ip, cname, jumps] for each record

messageVars == <<hostname, message, places, records>>

At(bytes, pos) == bytes[pos + 1]
Number(bytes, pos) == 256 * At(bytes, pos) + At(bytes, pos + 1)

-------------------------------------------------------------------------------
\* _dns_is_valid_hostname: between dots are labels of letters, none of them empty.
Ends(name) == {k \in 1 .. Len(name) : name[k] = Dot} \cup {0, Len(name) + 1}
LabelLength(name, k) == Min({e \in Ends(name) : e > k}) - k - 1

Valid(name) ==
    /\ Len(name) \in 1 .. DNS_MAX_NAME_LENGTH
    /\ \A k \in 1 .. Len(name) : name[k] \in Letters \cup {Dot}
    /\ \A k \in Ends(name) \ {Len(name) + 1} : LabelLength(name, k) \in 1 .. DNS_MAX_LABEL_LENGTH

\* _dns_encode_name: each label after its length, and a zero at the end.
EncodeName(name) ==
    [k \in 1 .. Len(name) + 2 |->
        IF k = Len(name) + 2 THEN 0
        ELSE IF k - 1 \in Ends(name) THEN LabelLength(name, k - 1) ELSE name[k - 1]]

\* Mutant: a name ends at the first pointer.
DecodeUpToPointer(bytes, offset) ==
    LET from[pos \in Nat, name \in Seq(Nat)] ==
          IF pos >= Len(bytes) \/ At(bytes, pos) = 0 \/ At(bytes, pos) >= Pointer THEN name
          ELSE from[pos + 1 + At(bytes, pos),
                    name \o (IF name = <<>> THEN <<>> ELSE <<Dot>>)
                         \o SubSeq(bytes, pos + 2, pos + 1 + At(bytes, pos))]
    IN  from[offset, <<>>]

\* _dns_decode_name, which ends without complaint after MaxJumps pointers.  A name that
\* is full takes no more, and what is left of its label is read as if labels began there.
DecodeName(bytes, offset) ==
    LET from[pos \in Nat, jumps \in Nat, name \in Seq(Nat)] ==
          LET len == At(bytes, pos)
              dot == IF Len(name) \in 1 .. DNS_MAX_NAME_LENGTH - 1 THEN <<Dot>> ELSE <<>>
              copied == Min({len, Len(bytes) - pos - 1,
                             DNS_MAX_NAME_LENGTH - Len(name) - Len(dot)})
          IN  IF pos >= Len(bytes) \/ jumps = MaxJumps THEN name
              ELSE IF len = 0 THEN name
              ELSE IF len >= Pointer
                   THEN from[256 * (len - Pointer) + At(bytes, pos + 1), jumps + 1, name]
              ELSE from[pos + 1 + copied, jumps,
                        name \o dot \o SubSeq(bytes, pos + 2, pos + 1 + copied)]
    IN  from[offset, 0, <<>>]

\* _dns_skip_name: the position after a name, or -1 if it has no end (FORMAT).
SkipName(bytes, offset) ==
    LET after[pos \in Nat] ==
          IF pos >= Len(bytes) THEN -1
          ELSE IF At(bytes, pos) >= Pointer THEN pos + 2
          ELSE IF At(bytes, pos) = 0 THEN pos + 1
          ELSE after[pos + 1 + At(bytes, pos)]
    IN  after[offset]

\* The loop of _dns_parse_response over the answers that are left: the first
\* address and the first alias are kept.
Failed(ret) == [ret |-> ret, ip |-> {}, cname |-> {}]

ParseRecords(bytes, start, ancount, found) ==
    LET parse[left \in Nat, pos \in Nat, got \in [ret : {"OK"}, ip : SUBSET Seq(Nat), cname : SUBSET Seq(Nat)]] ==
          LET after == SkipName(bytes, pos)
              type == Number(bytes, after)
              data == after + 10
              rdlength == Number(bytes, after + 8)
          IN  IF left = 0 \/ pos >= Len(bytes) THEN got
              ELSE IF after = -1 \/ data > Len(bytes) THEN Failed("FORMAT")
              ELSE IF data + rdlength > Len(bytes) THEN Failed("FORMAT")
              ELSE parse[left - 1, data + rdlength,
                         IF type = TypeA /\ rdlength = 4 /\ got.ip = {}
                         THEN [got EXCEPT !.ip = {SubSeq(bytes, data + 1, data + 4)}]
                         ELSE IF type = TypeCname /\ got.cname = {}
                         THEN [got EXCEPT !.cname = {DecodeName(bytes, data)}]
                         ELSE got]
    IN  parse[ancount, start, found]

\* _dns_parse_response
ParseResponse(bytes) ==
    LET rcode == At(bytes, 3) % 16
        questions == Number(bytes, 4)
        name == SkipName(bytes, 12)
    IN  IF rcode # 0 THEN Failed(IF rcode = 3 THEN "NAME_NOT_FOUND" ELSE "SERVER_ERROR")
        ELSE IF questions > 0 /\ Len(bytes) <= 12 THEN Failed("INVALID_PARAM")
        ELSE IF questions > 0 /\ (name = -1 \/ name + 4 > Len(bytes)) THEN Failed("FORMAT")
        ELSE ParseRecords(bytes, IF questions > 0 THEN name + 4 ELSE 12, Number(bytes, 6),
                          [ret |-> "OK", ip |-> {}, cname |-> {}])

-------------------------------------------------------------------------------
Header(rcode, questions) == <<0, 1, 129, 128 + rcode, 0, questions, 0, 0, 0, 0, 0, 0>>

\* The rest of a name from each of its labels on, written out from position at.
Written(name, at) ==
    {[at |-> at + k, name |-> SubSeq(name, k + 1, Len(name)), jumps |-> 0] :
        k \in Ends(name) \ {Len(name) + 1}}

\* The client asks for a valid name with the bytes of _dns_build_query; the answer
\* repeats the question or does not, and may report an error.
MessageInit ==
    /\ hostname \in UNION {[1 .. n -> Letters \cup OtherBytes \cup {Dot}] : n \in 0 .. MaxHostname}
    /\ records = <<>>
    /\ \/ ~Valid(hostname) /\ message = <<>> /\ places = {}
       \/ /\ Valid(hostname)
          /\ \E rcode \in {0, 2, 3} :
               \/ message = Header(rcode, 0) /\ places = {}
               \/ /\ message = Header(rcode, 1) \o EncodeName(hostname) \o <<0, TypeA, 0, 1>>
                  /\ places = Written(hostname, 12)

\* The ways to write a name at a position: in full, as a pointer, or as its first
\* label and a pointer.
Ways(name, at) ==
    LET to(p) == <<Pointer + p.at \div 256, p.at % 256>>
        first == LabelLength(name, 0)
    IN  {[bytes |-> EncodeName(name), jumps |-> 0, places |-> Written(name, at)]}
        \cup {[bytes |-> to(p), jumps |-> p.jumps + 1,
               places |-> {[at |-> at, name |-> name, jumps |-> p.jumps + 1]}] :
                p \in {q \in places : q.name = name}}
        \cup {[bytes |-> <<first>> \o SubSeq(name, 1, first) \o to(p), jumps |-> p.jumps + 1,
               places |-> {[at |-> at, name |-> name, jumps |-> p.jumps + 1]}] :
                p \in {q \in places : q.name = SubSeq(name, first + 2, Len(name))}}

\* The server adds a record for a name; target is what an alias stands for.
Adds(name, type, target) ==
    \E owner \in Ways(name, Len(message)) :
      LET count == Len(records) + 1
          put(rdata, jumps, more) ==
            /\ message' = [message EXCEPT ![8] = count] \o owner.bytes
                          \o <<0, type, 0, 1, 0, 0, 0, 60, 0, Len(rdata)>> \o rdata
            /\ places' = places \cup owner.places \cup more
            /\ records' = Append(records, [type |-> type, ip |-> rdata, cname |-> target,
                                           jumps |-> jumps])
      IN  IF type = TypeCname
          THEN \E way \in Ways(target, Len(message) + Len(owner.bytes) + 10) :
                 put(way.bytes, way.jumps, way.places)
          ELSE put(IF type = TypeA THEN <<10, 0, count, Pointer>> ELSE <<0, 0>>, 0, {})

MessageNext ==
    /\ message # <<>> /\ Len(records) < MaxRecords
    /\ UNCHANGED hostname
    /\ \E name \in {hostname} \cup {records[k].cname : k \in DOMAIN records} :
         \/ \E type \in {TypeA, TypeOther} : Adds(name, type, name)
         \/ \E target \in Targets : Adds(name, TypeCname, target)

-------------------------------------------------------------------------------
\* Reading gives back what was written: _dns_decode_name every name that needs
\* fewer than MaxJumps pointers, the question's first, and _dns_parse_response the
\* first address and the first alias of the answer, wherever compression was used
\* and whatever records are in between; or the error the server reports.
DnsParsesRight ==
    message # <<>> =>
      LET response == ParseResponse(message)
          first(type) == LET at == {k \in DOMAIN records : records[k].type = type}
                         IN  {records[k] : k \in {k \in at : \A j \in at : k <= j}}
      IN  /\ \A p \in places : p.jumps < MaxJumps => DecodeName(message, p.at) = p.name
          /\ message[4] # 128 => response.ret # "OK"
          /\ message[4] = 128 =>
               /\ response.ret = "OK"
               /\ response.ip = {r.ip : r \in first(TypeA)}
               /\ \A r \in first(TypeCname) : r.jumps < MaxJumps => response.cname = {r.cname}
               /\ first(TypeCname) = {} => response.cname = {}
===============================================================================
