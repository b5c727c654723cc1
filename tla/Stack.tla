------------------------------- MODULE Stack --------------------------------
(***************************************************************************)
(* udp_icmp_arp_stack.c: hosts that take frames from netmap and answer ARP *)
(* requests for their address and pings, on a segment with a peer that     *)
(* asks.  The link is external: it brings a frame to the host it is for,   *)
(* or to all, and drops it where the ring is full.                         *)
(*                                                                         *)
(* The IP address of a host is its name.  A byte has 4 bits here, so that  *)
(* a word of the checksum has 8; an octet of a MAC address has two digits  *)
(* of 1 bit, and an address ETH_LEN octets.                                *)
(***************************************************************************)
EXTENDS Naturals, Sequences, SequencesExt, FiniteSets

CONSTANTS
  Hosts,      \* the machines that run the stack
  ETH_LEN,    \* octets of an address
  Data,       \* bound: what follows the ICMP header of a ping (identifier, seq, data)
  MaxAsked,   \* bound: frames the peer sends
  Room        \* slots of a ring

Byte == 16
Word == Byte * Byte
Digit == 2                 \* values of a digit
Colon == Digit             \* a character of an address: a digit or this

VARIABLES
  SELF_MAC,   \* host -> the octets of the text its address is configured with
  ring,       \* host -> frames received and not taken
  heard,      \* frames the peer received
  asked       \* history: frames the peer sent

vars == <<SELF_MAC, ring, heard, asked>>

-----------------------------------------------------------------------------
(* Addresses and checksums                                                 *)

\* One character: a digit goes to the low end of the octet (two digits wide), a colon ends
\* the octet, and nothing is read once ETH_LEN octets are there.
Eat(s, c) ==
  IF Len(s.mac) = ETH_LEN THEN s
  ELSE IF c = Colon THEN [mac |-> Append(s.mac, s.val), val |-> 0]
  ELSE [s EXCEPT !.val = (@ * Digit + c) % (Digit * Digit)]

\* The last octet ends with the text.
str2mac(text) ==
  LET end == FoldLeft(Eat, [mac |-> <<>>, val |-> 0], text) IN
  IF Len(end.mac) < ETH_LEN THEN Append(end.mac, end.val) ELSE end.mac

\* The words are little endian; the last byte of an odd number is the low byte of a word.
Words(b) ==
  [i \in 1..((Len(b) + 1) \div 2) |->
     b[2 * i - 1] + IF 2 * i <= Len(b) THEN Byte * b[2 * i] ELSE 0]

\* (BadCksum, which folds the carry only once, is a wrong variant no specification uses.)
BadCksum(b) ==
  LET sum == FoldLeft(+, 0, Words(b))
  IN  (Word - 1) - (((sum \div Word) + (sum % Word)) % Word)
in_cksum(b) ==
  LET sum == FoldLeft(+, 0, Words(b))
      once == (sum \div Word) + (sum % Word)
  IN  (Word - 1) - ((once + (once \div Word)) % Word)

Message(icmp) ==
  <<icmp.type, icmp.code, icmp.checkSum % Byte, icmp.checkSum \div Byte>> \o icmp.rest

-----------------------------------------------------------------------------
(* The link.  Addresses are sequences of octets, which are below Digit^2.  *)

PeerMac == [i \in 1..ETH_LEN |-> Digit * Digit]
Broadcast == [i \in 1..ETH_LEN |-> Digit * Digit + 1]

\* The text of an address, its octets (one or two digits each) parted by colons, and what
\* the text says.
Octets == {<<d>> : d \in 0..1} \cup {<<d, e>> : d, e \in 0..1}
Text(octets) == Tail(FlattenSeq([i \in 1..ETH_LEN |-> <<Colon>> \o octets[i]]))
Mac(h) == [i \in 1..ETH_LEN |-> FoldLeft(LAMBDA v, d : Digit * v + d, 0, SELF_MAC[h][i])]

Receive(f, h) == f.dst \in {Mac(h), Broadcast}
Bring(f, rings) ==
  [h \in Hosts |-> IF Receive(f, h) /\ Len(rings[h]) < Room THEN Append(rings[h], f) ELSE rings[h]]

nm_inject(f, rings) ==
  /\ ring' = Bring(f, rings)
  /\ heard' = IF f.dst \in {PeerMac, Broadcast} THEN Append(heard, f) ELSE heard

-----------------------------------------------------------------------------
(* The stack.  main takes one frame each time poll returns.                *)

arp_process(h, f, rest) ==
  IF f.arp.dst_ip = h /\ f.op = "request"
  THEN LET mac == str2mac(Text(SELF_MAC[h])) IN
       nm_inject([f EXCEPT !.op = "reply", !.dst = f.arp.src_mac, !.src = mac,
                           !.arp = [src_mac |-> mac, src_ip |-> h,
                                    dst_mac |-> f.arp.src_mac, dst_ip |-> f.arp.src_ip]], rest)
  ELSE ring' = rest /\ UNCHANGED heard

\* Whose address the ping is for is not looked at; the addresses change places.
icmp_process(h, f, rest) ==
  IF f.icmp.type = 8
  THEN LET ack == [f.icmp EXCEPT !.type = 0, !.code = 0, !.checkSum = 0] IN
       nm_inject([f EXCEPT !.dst = f.src, !.src = f.dst, !.ip = [src |-> f.ip.dst, dst |-> f.ip.src],
                           !.icmp = [ack EXCEPT !.checkSum = in_cksum(Message(ack))]], rest)
  ELSE ring' = rest /\ UNCHANGED heard

\* A datagram is printed; of other protocols nothing is done.
take(h) ==
  /\ ring[h] # <<>>
  /\ LET f == Head(ring[h])
         rest == [ring EXCEPT ![h] = Tail(@)]
     IN
     CASE f.proto = "ARP"  -> arp_process(h, f, rest)
       [] f.proto = "ICMP" -> icmp_process(h, f, rest)
       [] OTHER            -> ring' = rest /\ UNCHANGED heard
  /\ UNCHANGED <<SELF_MAC, asked>>

-----------------------------------------------------------------------------
(* The peer (external)                                                     *)

Number == Len(asked) + 1
Ask(f) ==
  /\ Len(asked) < MaxAsked
  /\ ring' = Bring(f, ring) /\ asked' = Append(asked, f)
  /\ UNCHANGED <<SELF_MAC, heard>>

Arp(h, op) ==
  [n |-> Number, proto |-> "ARP", op |-> op, dst |-> Broadcast, src |-> PeerMac,
   arp |-> [src_mac |-> PeerMac, src_ip |-> "peer", dst_mac |-> Broadcast, dst_ip |-> h]]

\* A ping goes to the address an ARP reply gave.  Its checksum is not looked at.
Ping(h, type, rest) ==
  \E i \in DOMAIN heard :
    /\ heard[i].proto = "ARP" /\ heard[i].arp.src_ip = h
    /\ Ask([n |-> Number, proto |-> "ICMP", dst |-> heard[i].arp.src_mac, src |-> PeerMac,
            ip |-> [src |-> "peer", dst |-> h],
            icmp |-> [type |-> type, code |-> 0, checkSum |-> 0, rest |-> rest]])

Init ==
  /\ SELF_MAC \in [Hosts -> [1..ETH_LEN -> Octets]]
  /\ \A g, h \in Hosts : g # h => Mac(g) # Mac(h)
  /\ ring = [h \in Hosts |-> <<>>] /\ heard = <<>> /\ asked = <<>>

Next ==
  \/ \E h \in Hosts : take(h)
  \/ \E h \in Hosts, op \in {"request", "reply"} : Ask(Arp(h, op))
  \/ \E h \in Hosts, rest \in Data, type \in {0, 8} : Ping(h, type, rest)
  \/ Ask([n |-> Number, proto |-> "UDP", dst |-> Broadcast, src |-> PeerMac])
  \/ Len(asked) = MaxAsked /\ (\A h \in Hosts : ring[h] = <<>>) /\ UNCHANGED vars

Spec == Init /\ [][Next]_vars

-----------------------------------------------------------------------------
(* Properties                                                              *)

Request(f) ==
  (f.proto = "ARP" /\ f.op = "request") \/ (f.proto = "ICMP" /\ f.icmp.type = 8)

\* An ARP reply gives the address the text of that host says, and a ping comes back from
\* the host it was sent to, with its data and a checksum that holds.
RightAnswer(f) ==
  LET q == asked[f.n] IN
  /\ Request(q) /\ ~Request(f) /\ f.dst = PeerMac
  /\ IF f.proto = "ARP"
     THEN /\ f.arp.src_ip = q.arp.dst_ip
          /\ f.src = Mac(q.arp.dst_ip) /\ f.arp.src_mac = f.src
          /\ f.arp.dst_mac = PeerMac /\ f.arp.dst_ip = "peer"
     ELSE /\ f.ip = [src |-> q.ip.dst, dst |-> "peer"] /\ f.src = Mac(q.ip.dst)
          /\ f.icmp.rest = q.icmp.rest /\ in_cksum(Message(f.icmp)) = 0

\* Every frame the peer hears is the right answer to a request of its own, at most one to
\* each, and answers are never answered: no frame of a stack comes to a stack.
Answers ==
  /\ \A i \in DOMAIN heard : RightAnswer(heard[i])
  /\ \A i, j \in DOMAIN heard : heard[i].n = heard[j].n => i = j
  /\ \A h \in Hosts : \A i \in DOMAIN ring[h] : ring[h][i].src = PeerMac
=============================================================================
