----------------------------- MODULE DnsMessage -----------------------------
(***************************************************************************)
(* The messages both DNS clients make and take apart (async_dns_client.c,  *)
(* sync_dns_client.c): a request is built, the server (external) answers   *)
(* with CNAME and A records whose owners it writes as pointers, and        *)
(* possibly with others, and the answer is parsed.                         *)
(*                                                                         *)
(* A byte is below Byte, a multiple of 4 (256 in the code); the offset of  *)
(* byte m[i + 1] is i.  A name is the sequence of its characters, 0 being  *)
(* the dot.                                                                *)
(***************************************************************************)
EXTENDS Naturals, Sequences, SequencesExt

CONSTANTS
  Byte,
  Names,       \* bound: host names, as sequences of labels without a dot
  MaxRecords   \* bound: records of an answer

DNS_HOST == 1
DNS_CNAME == 5
Dot == 0
Unwritten == Byte    \* a byte nobody wrote

VARIABLES
  hostname,    \* what is asked for
  request, response,
  records,     \* history: the A records of the answer, [domain, ip]
  list,        \* the items the parser found
  pc

vars == <<hostname, request, response, records, list, pc>>

Dotted(labels) == IF labels = <<>> THEN <<>>
                  ELSE Tail(FlattenSeq([i \in 1..Len(labels) |-> <<Dot>> \o labels[i]]))
Labelled(labels) == FlattenSeq([i \in 1..Len(labels) |-> <<Len(labels[i])>> \o labels[i]])
Two(n) == <<n \div Byte, n % Byte>>

-----------------------------------------------------------------------------
(* The request                                                             *)

\* strtok drops empty labels, but length is that of the text and two bytes more.
dns_create_question(labels) ==
  LET written == Labelled(SelectSeq(labels, LAMBDA l : l # <<>>)) \o <<0>>
      length == Len(Dotted(labels)) + 2
  IN  written \o [i \in 1..(length - Len(written)) |-> Unwritten]

dns_build_request(labels) ==
  <<0, 0, 1, 0>> \o Two(1) \o <<0, 0, 0, 0, 0, 0>>
    \o dns_create_question(labels) \o Two(1) \o Two(1)

-----------------------------------------------------------------------------
(* The answer                                                              *)

is_pointer(flag) == flag >= 3 * (Byte \div 4)
At(m, p) == m[p + 1]
Short(m, p) == At(m, p) * Byte + At(m, p + 1)

\* A pointer is followed, by its low byte, and ends the name.
RECURSIVE dns_parse_name(_, _)
dns_parse_name(m, p) ==
  LET flag == At(m, p)
      next == p + flag + 1
  IN
  IF flag = 0 THEN <<>>
  ELSE IF is_pointer(flag) THEN dns_parse_name(m, At(m, p + 1))
  ELSE SubSeq(m, p + 2, next) \o (IF At(m, next) # 0 THEN <<Dot>> ELSE <<>>)
         \o dns_parse_name(m, next)

RECURSIVE SkipName(_, _)
SkipName(m, p) == IF At(m, p) = 0 THEN p + 1 ELSE SkipName(m, p + At(m, p) + 1)

\* The owner of a record is taken to have two bytes.  The data of a record that is neither
\* a CNAME nor an A record is not skipped.
RECURSIVE Items(_, _, _)
Items(m, p, answers) ==
  IF answers = 0 THEN <<>>
  ELSE LET type == Short(m, p + 2)
           datalen == Short(m, p + 10)
           data == p + 12
           next == IF type \in {DNS_CNAME, DNS_HOST} THEN data + datalen ELSE data
       IN
       (IF type = DNS_HOST /\ datalen = 4
        THEN <<[domain |-> dns_parse_name(m, p), ip |-> SubSeq(m, data + 1, data + 4)]>>
        ELSE <<>>) \o Items(m, next, answers - 1)

dns_parse_response(m) == Items(m, SkipName(m, 12) + 4, Short(m, 6))

-----------------------------------------------------------------------------
(* The server (external).  It adds records to its answer one by one: each  *)
(* is owned by the name the last CNAME led to.                             *)

Pointer(offset) == <<3 * (Byte \div 4) + offset \div Byte, offset % Byte>>
Record(owner, type, data) ==
  Pointer(owner) \o Two(type) \o Two(1) \o <<0, 0, 0, 9>> \o Two(Len(data)) \o data

\* The number of answers is in bytes 7 and 8.
Add(record) == response' = [response EXCEPT ![8] = @ + 1] \o record

Init ==
  /\ hostname \in Names
  /\ request = <<>> /\ response = <<>> /\ records = <<>> /\ list = <<>>
  /\ pc = [at |-> "new", owner |-> 12, name |-> <<>>]

Build ==
  /\ pc.at = "new"
  /\ request' = dns_build_request(hostname) /\ response' = request'
  /\ pc' = [at |-> "server", owner |-> 12, name |-> Dotted(hostname)]
  /\ UNCHANGED <<hostname, records, list>>

Room == pc.at = "server" /\ response[8] < MaxRecords

\* The data of a CNAME is written in full, or with a pointer to all but the first label of
\* the name asked for.
Cname(labels) ==
  /\ Room
  /\ \/ /\ Add(Record(pc.owner, DNS_CNAME, Labelled(labels) \o <<0>>))
        /\ pc' = [pc EXCEPT !.owner = Len(response) + 12, !.name = Dotted(labels)]
     \/ /\ Len(hostname) > 1
        /\ Add(Record(pc.owner, DNS_CNAME,
                      Labelled(SubSeq(labels, 1, 1)) \o Pointer(13 + Len(hostname[1]))))
        /\ pc' = [pc EXCEPT !.owner = Len(response) + 12,
                            !.name = Dotted(SubSeq(labels, 1, 1) \o Tail(hostname))]
  /\ UNCHANGED <<hostname, request, records, list>>

Host ==
  /\ Room
  /\ LET ip == <<10, 0, 0, response[8] + 1>> IN
     /\ Add(Record(pc.owner, DNS_HOST, ip))
     /\ records' = Append(records, [domain |-> pc.name, ip |-> ip])
  /\ UNCHANGED <<hostname, request, list, pc>>

dns_parse ==
  /\ pc.at = "server" /\ list' = dns_parse_response(response)
  /\ pc' = [pc EXCEPT !.at = "done"]
  /\ UNCHANGED <<hostname, request, response, records>>

Next ==
  \/ Build \/ Host \/ dns_parse \/ \E labels \in Names : Cname(labels)
  \/ pc.at = "done" /\ UNCHANGED vars

Spec == Init /\ [][Next]_vars

-----------------------------------------------------------------------------
(* Properties                                                              *)

\* The request asks for the name that was given, and for an A record of it: the bytes of
\* the question are all written and it is followed at once by the type and the class.
AskedRight ==
  request # <<>> =>
    /\ dns_parse_name(request, 12) = Dotted(hostname)
    /\ SkipName(request, 12) + 4 = Len(request) /\ Short(request, Len(request) - 4) = DNS_HOST

\* What the callback gets are the A records of the answer, in their order and with their
\* names, however the server compressed them, as long as the message is not longer than
\* the values a byte has (offsets beyond lose their high part).
ParsedRight == pc.at = "done" /\ Len(response) <= Byte => list = records
=============================================================================
