--------------------------- MODULE ServersProofs ----------------------------
(***************************************************************************)
(* The programs that live in an event loop, for any value of their         *)
(* constants.  The echo server answers every client with its own bytes,    *)
(* for any number of connections and any sizes of messages, buffers and    *)
(* sockets.  Replies reach the callbacks they are meant for, for any       *)
(* number of requests, channels and messages, as long as the program that  *)
(* uses the asynchronous interface of hiredis is careful.                  *)
(***************************************************************************)
EXTENDS Servers, SequenceTheorems, FiniteSetTheorems, TLAPS

-----------------------------------------------------------------------------
(* Sequences, one after the other                                          *)

Cat(s, t) == s \o t

LEMMA CatAssociative ==
  ASSUME NEW S, NEW x \in Seq(S), NEW y \in Seq(S), NEW z \in Seq(S)
  PROVE  Cat(Cat(x, y), z) = Cat(x, Cat(y, z))
  BY ConcatAssociative DEF Cat

-----------------------------------------------------------------------------
(* The echo server                                                         *)

EchoTypes ==
  /\ client \in [Conns -> {"new", "open", "closed"}]
  /\ item \in [Conns -> {"none", "recv_cb", "send_cb", "freed"}]
  /\ sent \in [Conns -> Nat]
  /\ got \in [Conns -> Seq(Nat)] /\ buffer \in [Conns -> Seq(Nat)]
  /\ up \in [Conns -> Seq(Nat)] /\ down \in [Conns -> Seq(Nat)]
  /\ blocked \subseteq Conns /\ client_cnt \in Nat

\* A sockitem holds bytes only while it is to write them, a socket no more than fit.
BuffersHeld ==
  \A c \in Conns : (item[c] # "send_cb" => buffer[c] = <<>>) /\ Len(down[c]) <= Room

\* Echoed, from before a client connects.
Line(g, d, b, u) == Cat(Cat(Cat(g, d), b), u)
Journey(c) == Line(got[c], down[c], buffer[c], up[c])
Bytes(n) == [i \in 1..n |-> i]
Kept == \A c \in Conns : client[c] # "closed" => Journey(c) = Bytes(sent[c])

LiveItems == {c \in Conns : item[c] \in {"recv_cb", "send_cb"}}

EchoInv == EchoTypes /\ BuffersHeld /\ Kept /\ Counted

-----------------------------------------------------------------------------
(* Sequences                                                               *)

\* The first n elements of a sequence and those after them are the sequence.
LEMMA Cut ==
  ASSUME NEW s \in Seq(Nat), NEW n \in 0..Len(s)
  PROVE  /\ First(s, n) \in Seq(Nat) /\ After(s, n) \in Seq(Nat)
         /\ Len(First(s, n)) = n /\ Len(After(s, n)) = Len(s) - n
         /\ Cat(First(s, n), After(s, n)) = s
<1>1. First(s, n) \in Seq(Nat) /\ Len(First(s, n)) = n
  BY SubSeqProperties DEF First
<1>2. After(s, n) \in Seq(Nat) /\ Len(After(s, n)) = Len(s) - n
  BY SubSeqProperties DEF After
<1>3. First(s, n) \o After(s, n) = SubSeq(s, 1, Len(s))
  <2>1. 1 \in 1 .. Len(s) + 1 /\ n \in 1 - 1 .. Len(s) /\ Len(s) \in n .. Len(s)
    BY LenProperties
  <2> QED BY <2>1, ConcatAdjacentSubSeq, Zenon DEF First, After
<1> QED BY <1>1, <1>2, <1>3, SubSeqFull DEF Cat

\* The numbers up to m, followed by the next n, are the numbers up to m + n.
LEMMA Next_n ==
  ASSUME NEW m \in Nat, NEW n \in Nat
  PROVE  /\ [i \in 1..n |-> m + i] \in Seq(Nat)
         /\ Bytes(m) \o [i \in 1..n |-> m + i] = Bytes(m + n)
  BY SMT DEF Bytes

-----------------------------------------------------------------------------
(* The steps of the echo server                                            *)

LEMMA CatClosed ==
  ASSUME NEW S, NEW x \in Seq(S), NEW y \in Seq(S)
  PROVE  Cat(x, y) \in Seq(S) /\ Cat(x, <<>>) = x /\ Len(Cat(x, y)) = Len(x) + Len(y)
  BY ConcatProperties, ConcatEmptySeq DEF Cat

\* Bytes that pass from one place to the next keep theirs in what is put together: from
\* the socket to the buffer, from there to the other socket, to the client, and on.
LEMMA Received ==
  ASSUME NEW S, NEW g \in Seq(S), NEW d \in Seq(S), NEW f \in Seq(S), NEW a \in Seq(S)
  PROVE  Line(g, d, f, a) = Line(g, d, <<>>, Cat(f, a))
  BY CatClosed, CatAssociative, SMTT(60) DEF Line

LEMMA Sent ==
  ASSUME NEW S, NEW g \in Seq(S), NEW d \in Seq(S), NEW u \in Seq(S),
         NEW f \in Seq(S), NEW a \in Seq(S)
  PROVE  Line(g, Cat(d, f), a, u) = Line(g, d, Cat(f, a), u)
  BY CatClosed, CatAssociative DEF Line

LEMMA ReadBack ==
  ASSUME NEW S, NEW g \in Seq(S), NEW b \in Seq(S), NEW u \in Seq(S),
         NEW f \in Seq(S), NEW a \in Seq(S)
  PROVE  Line(Cat(g, f), a, b, u) = Line(g, Cat(f, a), b, u)
  BY CatClosed, CatAssociative DEF Line

LEMMA Added ==
  ASSUME NEW S, NEW g \in Seq(S), NEW d \in Seq(S), NEW b \in Seq(S), NEW u \in Seq(S),
         NEW f \in Seq(S)
  PROVE  Line(g, d, b, Cat(u, f)) = Cat(Line(g, d, b, u), f)
<1>1. Cat(Cat(g, d), b) \in Seq(S)
  BY CatClosed
<1> QED BY <1>1, CatAssociative DEF Line

LEMMA LiveItemsFinite == IsFiniteSet(LiveItems) /\ Cardinality(LiveItems) \in Nat
  BY EchoAssumption, FS_Subset, FS_CardinalityType DEF LiveItems

LEMMA EchoInitHolds == EchoInit => EchoInv
<1> SUFFICES ASSUME EchoInit PROVE EchoInv
  OBVIOUS
<1>1. <<>> \in Seq(Nat) /\ Len(<<>>) = 0
  BY EmptySeq
<1>2. EchoTypes
  BY <1>1 DEF EchoTypes, EchoInit
<1>3. BuffersHeld
  BY <1>1, EchoAssumption DEF BuffersHeld, EchoInit
<1>4. Kept
  BY SMT DEF Kept, Journey, Line, Cat, Bytes, EchoInit
<1>5. Counted
  <2>1. LiveItems = {}
    BY DEF LiveItems, EchoInit
  <2> QED BY <2>1, FS_EmptySet DEF Counted, LiveItems, EchoInit
<1> QED BY <1>2, <1>3, <1>4, <1>5 DEF EchoInv

LEMMA AcceptStep ==
  ASSUME EchoInv, NEW c \in Conns, accept_cb(c)
  PROVE  EchoInv'
<1> USE DEF EchoInv, accept_cb, Ready
<1>1. EchoTypes'
  BY DEF EchoTypes
<1>2. BuffersHeld'
  BY DEF BuffersHeld, EchoTypes
<1>3. Kept'
  BY DEF Kept, Journey
<1>4. Counted'
  <2>1. LiveItems' = LiveItems \cup {c} /\ c \notin LiveItems
    BY DEF LiveItems, EchoTypes
  <2>2. Cardinality(LiveItems') = Cardinality(LiveItems) + 1
    BY <2>1, LiveItemsFinite, FS_AddElement
  <2> QED BY <2>2 DEF Counted, LiveItems
<1> QED BY <1>1, <1>2, <1>3, <1>4

LEMMA RecvStep ==
  ASSUME EchoInv, NEW c \in Conns, recv_cb(c)
  PROVE  EchoInv'
<1>1. CASE \E n \in 1..Least(Len(up[c]), Size) :
             /\ buffer' = [buffer EXCEPT ![c] = First(up[c], n)]
             /\ up' = [up EXCEPT ![c] = After(@, n)]
             /\ item' = [item EXCEPT ![c] = "send_cb"]
             /\ UNCHANGED client_cnt
  <2> PICK n \in 1..Least(Len(up[c]), Size) :
             /\ buffer' = [buffer EXCEPT ![c] = First(up[c], n)]
             /\ up' = [up EXCEPT ![c] = After(@, n)]
             /\ item' = [item EXCEPT ![c] = "send_cb"]
             /\ UNCHANGED client_cnt
    BY <1>1
  <2>1. n \in 0..Len(up[c]) /\ up[c] \in Seq(Nat)
    BY EchoAssumption DEF EchoInv, EchoTypes, Least
  <2>2. First(up[c], n) \in Seq(Nat) /\ After(up[c], n) \in Seq(Nat)
        /\ Cat(First(up[c], n), After(up[c], n)) = up[c]
    BY <2>1, Cut
  <2>3. EchoTypes'
    BY <2>2 DEF EchoInv, recv_cb, EchoTypes
  <2>4. BuffersHeld'
    BY DEF EchoInv, recv_cb, EchoTypes, BuffersHeld
  <2>5. buffer[c] = <<>>
    BY DEF EchoInv, recv_cb, Ready, BuffersHeld
  <2>6. Journey(c)' = Journey(c)
    <3>1. got[c] \in Seq(Nat) /\ down[c] \in Seq(Nat)
      BY DEF EchoInv, EchoTypes
    <3>2. Journey(c)' = Line(got[c], down[c], First(up[c], n), After(up[c], n))
      BY DEF EchoInv, recv_cb, EchoTypes, Journey
    <3>3. Journey(c) = Line(got[c], down[c], <<>>, Cat(First(up[c], n), After(up[c], n)))
      BY <2>2, <2>5 DEF Journey
    <3>4. Line(got[c], down[c], First(up[c], n), After(up[c], n))
          = Line(got[c], down[c], <<>>, Cat(First(up[c], n), After(up[c], n)))
      BY <2>2, <3>1, Received
    <3> QED BY <3>2, <3>3, <3>4, Zenon
  <2>7. Kept'
    BY <2>6 DEF EchoInv, recv_cb, EchoTypes, Kept, Journey
  <2>8. Counted'
    <3>1. LiveItems' = LiveItems
      BY DEF EchoInv, recv_cb, Ready, EchoTypes, LiveItems
    <3> QED BY <3>1 DEF EchoInv, recv_cb, Ready, Counted, LiveItems
  <2> QED BY <2>3, <2>4, <2>7, <2>8 DEF EchoInv
<1>2. CASE /\ up[c] = <<>> /\ client[c] = "closed"
           /\ item' = [item EXCEPT ![c] = "freed"] /\ client_cnt' = client_cnt - 1
           /\ UNCHANGED <<buffer, up>>
  <2>1. LiveItems' = LiveItems \ {c} /\ c \in LiveItems
    BY <1>2 DEF EchoInv, recv_cb, Ready, EchoTypes, LiveItems
  <2>2. Cardinality(LiveItems') = Cardinality(LiveItems) - 1 /\ Cardinality(LiveItems) # 0
    BY <2>1, LiveItemsFinite, FS_RemoveElement, FS_EmptySet
  <2>3. EchoTypes'
    BY <1>2, <2>2, LiveItemsFinite, SMTT(60) DEF EchoInv, recv_cb, EchoTypes, Counted, LiveItems
  <2>4. BuffersHeld' /\ Kept'
    BY <1>2 DEF EchoInv, recv_cb, Ready, EchoTypes, BuffersHeld, Kept, Journey
  <2>5. Counted'
    BY <1>2, <2>2 DEF EchoInv, recv_cb, Ready, Counted, LiveItems
  <2> QED BY <2>3, <2>4, <2>5 DEF EchoInv
<1> QED BY <1>1, <1>2 DEF recv_cb

LEMMA SendStep ==
  ASSUME EchoInv, NEW c \in Conns, send_cb(c)
  PROVE  EchoInv'
<1> DEFINE n == Least(Len(buffer[c]), Room - Len(down[c]))
<1>1. /\ c \in Conns /\ item[c] = "send_cb" /\ blocked \subseteq {c}
      /\ buffer[c] \in Seq(Nat) /\ down[c] \in Seq(Nat) /\ got[c] \in Seq(Nat)
      /\ up[c] \in Seq(Nat)
  BY DEF EchoInv, EchoTypes, send_cb
<1>2. n \in 0..Len(buffer[c]) /\ n <= Room - Len(down[c])
  BY <1>1, EchoAssumption, LenProperties, SMTT(60) DEF EchoInv, BuffersHeld, Least
<1>3. /\ First(buffer[c], n) \in Seq(Nat) /\ After(buffer[c], n) \in Seq(Nat)
      /\ Len(First(buffer[c], n)) = n
      /\ Cat(First(buffer[c], n), After(buffer[c], n)) = buffer[c]
  BY <1>1, <1>2, Cut
<1>4. /\ Cat(down[c], First(buffer[c], n)) \in Seq(Nat)
      /\ Len(Cat(down[c], First(buffer[c], n))) = Len(down[c]) + n
  <2> DEFINE f == First(buffer[c], n)
  <2>1. f \in Seq(Nat) /\ down[c] \in Seq(Nat) /\ Len(f) = n
    BY <1>1, <1>3
  <2> HIDE DEF n, f
  <2>2. Cat(down[c], f) \in Seq(Nat) /\ Len(Cat(down[c], f)) = Len(down[c]) + Len(f)
    BY <2>1, CatClosed
  <2> QED BY <2>1, <2>2 DEF f
<1> HIDE DEF n
<1>5. \/ /\ client[c] = "closed"
         /\ buffer' = [buffer EXCEPT ![c] = <<>>] /\ UNCHANGED down
      \/ /\ down' = [down EXCEPT ![c] = Cat(down[c], First(buffer[c], n))]
         /\ buffer' = [buffer EXCEPT ![c] = After(buffer[c], n)]
  BY DEF send_cb, Put, n, Cat
<1>6. <<>> \in Seq(Nat)
  BY EmptySeq
<1>7. /\ buffer' \in [Conns -> Seq(Nat)] /\ down' \in [Conns -> Seq(Nat)]
      /\ \A d \in Conns : d # c => buffer'[d] = buffer[d] /\ down'[d] = down[d]
      /\ Len(down'[c]) <= Room
  <2>1. \A d \in Conns : Len(down[d]) \in Nat /\ Len(down[d]) <= Room
    BY LenProperties DEF EchoInv, EchoTypes, BuffersHeld
  <2>2. buffer \in [Conns -> Seq(Nat)] /\ down \in [Conns -> Seq(Nat)]
        /\ Len(buffer[c]) \in Nat /\ n \in Nat /\ Room \in Nat
    BY <1>1, <1>2, LenProperties, EchoAssumption DEF EchoInv, EchoTypes
  <2>3. CASE buffer' = [buffer EXCEPT ![c] = <<>>] /\ UNCHANGED down
    BY <1>6, <2>1, <2>2, <2>3
  <2>4. CASE /\ down' = [down EXCEPT ![c] = Cat(down[c], First(buffer[c], n))]
             /\ buffer' = [buffer EXCEPT ![c] = After(buffer[c], n)]
    <3>1. buffer' \in [Conns -> Seq(Nat)] /\ down' \in [Conns -> Seq(Nat)]
      BY <1>3, <1>4, <2>2, <2>4
    <3>2. down'[c] = Cat(down[c], First(buffer[c], n))
      BY <2>2, <2>4
    <3>3. Len(down'[c]) <= Room
      BY <1>2, <1>4, <2>1, <2>2, <3>2
    <3> QED BY <2>2, <2>4, <3>1, <3>3
  <2> QED BY <1>5, <2>3, <2>4
<1>8. IF buffer'[c] = <<>>
      THEN item' = [item EXCEPT ![c] = "recv_cb"] /\ blocked' = {}
      ELSE UNCHANGED item /\ blocked' = {c}
  BY DEF send_cb
<1>9. UNCHANGED <<client, sent, got, up, client_cnt>>
  BY DEF send_cb
<1>10. EchoTypes'
  BY <1>7, <1>8, <1>9 DEF EchoInv, EchoTypes
<1>11. BuffersHeld'
  BY <1>1, <1>7, <1>8 DEF EchoInv, EchoTypes, BuffersHeld
<1>12. Kept'
  <2>1. ASSUME client[c] # "closed" PROVE Journey(c)' = Journey(c)
    <3>1. Journey(c)' = Line(got[c], Cat(down[c], First(buffer[c], n)), After(buffer[c], n), up[c])
      BY <1>1, <1>5, <1>9, <2>1 DEF EchoInv, EchoTypes, Journey
    <3>2. Journey(c) = Line(got[c], down[c], Cat(First(buffer[c], n), After(buffer[c], n)), up[c])
      BY <1>3 DEF Journey
    <3>3. Line(got[c], Cat(down[c], First(buffer[c], n)), After(buffer[c], n), up[c])
          = Line(got[c], down[c], Cat(First(buffer[c], n), After(buffer[c], n)), up[c])
      BY <1>1, <1>3, Sent, SMTT(60)
    <3> QED BY <3>1, <3>2, <3>3
  <2>2. \A d \in Conns : d # c => Journey(d)' = Journey(d)
    BY <1>7, <1>9 DEF Journey
  <2> QED BY <1>9, <2>1, <2>2 DEF EchoInv, Kept
<1>13. Counted'
  <2>1. LiveItems' = LiveItems
    BY <1>1, <1>8 DEF EchoInv, EchoTypes, LiveItems
  <2>2. client_cnt' = Cardinality(LiveItems')
    BY <1>9, <2>1 DEF EchoInv, Counted, LiveItems
  <2>3. \A d \in blocked' : d = c /\ item'[c] = "send_cb" /\ buffer'[c] # <<>>
    BY <1>1, <1>8
  <2> QED BY <2>2, <2>3 DEF Counted, LiveItems
<1> QED BY <1>10, <1>11, <1>12, <1>13 DEF EchoInv

LEMMA ServedStep ==
  ASSUME EchoInv, NEW c \in Conns, serve(c)
  PROVE  EchoInv'
<1>1. /\ got[c] \in Seq(Nat) /\ down[c] \in Seq(Nat) /\ buffer[c] \in Seq(Nat)
      /\ up[c] \in Seq(Nat) /\ sent[c] \in Nat /\ client[c] = "open"
      /\ UNCHANGED <<client, item, buffer, blocked, client_cnt>>
  BY DEF EchoInv, EchoTypes, serve
<1>2. Counted'
  BY <1>1 DEF EchoInv, Counted
<1>3. CASE /\ \E n \in 1..Len(down[c]) :
                /\ got' = [got EXCEPT ![c] = @ \o First(down[c], n)]
                /\ down' = [down EXCEPT ![c] = After(@, n)]
           /\ UNCHANGED <<sent, up>>
  <2> PICK n \in 1..Len(down[c]) :
                /\ got' = [got EXCEPT ![c] = Cat(got[c], First(down[c], n))]
                /\ down' = [down EXCEPT ![c] = After(down[c], n)]
    BY <1>3 DEF Cat
  <2>1. /\ First(down[c], n) \in Seq(Nat) /\ After(down[c], n) \in Seq(Nat)
        /\ Len(After(down[c], n)) = Len(down[c]) - n
        /\ Cat(First(down[c], n), After(down[c], n)) = down[c]
    <3>1. n \in 0..Len(down[c])
      BY <1>1, LenProperties
    <3> QED BY <1>1, <3>1, Cut
  <2>2. Cat(got[c], First(down[c], n)) \in Seq(Nat)
    BY <1>1, <2>1, CatClosed
  <2>3. EchoTypes'
    BY <1>1, <1>3, <2>1, <2>2 DEF EchoInv, EchoTypes
  <2>4. BuffersHeld'
    <3>1. Len(down[c]) \in Nat /\ Room \in Nat
      BY <1>1, LenProperties, EchoAssumption
    <3> QED BY <1>1, <2>1, <3>1, SMTT(150) DEF EchoInv, EchoTypes, BuffersHeld
  <2>5. Journey(c)' = Journey(c)
    <3>1. Journey(c)' = Line(Cat(got[c], First(down[c], n)), After(down[c], n), buffer[c], up[c])
      BY <1>1, <1>3 DEF EchoInv, EchoTypes, Journey
    <3>2. Journey(c) = Line(got[c], Cat(First(down[c], n), After(down[c], n)), buffer[c], up[c])
      BY <2>1 DEF Journey
    <3>3. Line(Cat(got[c], First(down[c], n)), After(down[c], n), buffer[c], up[c])
          = Line(got[c], Cat(First(down[c], n), After(down[c], n)), buffer[c], up[c])
      BY <1>1, <2>1, ReadBack, SMTT(90)
    <3> QED BY <3>1, <3>2, <3>3
  <2>6. \A d \in Conns : d # c => Journey(d)' = Journey(d)
    BY <1>1, <1>3 DEF Journey
  <2>7. Kept'
    BY <1>1, <1>3, <2>5, <2>6 DEF EchoInv, Kept
  <2> QED BY <1>2, <2>3, <2>4, <2>7 DEF EchoInv
<1>4. CASE /\ LET n == Least(Least(Message, Room - Len(up[c])), MaxBytes - sent[c]) IN
              /\ n > 0
              /\ up' = [up EXCEPT ![c] = @ \o [i \in 1..n |-> sent[c] + i]]
              /\ sent' = [sent EXCEPT ![c] = @ + n]
           /\ UNCHANGED <<got, down>>
  <2> DEFINE n == Least(Least(Message, Room - Len(up[c])), MaxBytes - sent[c])
             more == [i \in 1..n |-> sent[c] + i]
  <2>1. n \in Nat
    BY <1>1, <1>4, LenProperties, EchoAssumption, SMTT(60) DEF Least
  <2> HIDE DEF n
  <2>2. more \in Seq(Nat) /\ Cat(Bytes(sent[c]), more) = Bytes(sent[c] + n)
    BY <1>1, <2>1, Next_n DEF Cat
  <2> HIDE DEF more
  <2>3. up' = [up EXCEPT ![c] = Cat(up[c], more)] /\ sent' = [sent EXCEPT ![c] = sent[c] + n]
    BY <1>4 DEF n, more, Cat
  <2>4. EchoTypes'
    <3>1. Cat(up[c], more) \in Seq(Nat) /\ sent[c] + n \in Nat
      <4>1. up[c] \in Seq(Nat) /\ more \in Seq(Nat)
        BY <1>1, <2>2
      <4>2. Cat(up[c], more) \in Seq(Nat)
        BY <4>1, CatClosed
      <4> QED BY <1>1, <2>1, <4>2
    <3>2. up' \in [Conns -> Seq(Nat)] /\ sent' \in [Conns -> Nat]
      BY <2>3, <3>1 DEF EchoInv, EchoTypes
    <3> QED BY <1>1, <1>4, <3>2 DEF EchoInv, EchoTypes
  <2>5. BuffersHeld'
    BY <1>1, <1>4 DEF EchoInv, BuffersHeld
  <2>6. Journey(c)' = Bytes(sent'[c])
    <3>1. Journey(c)' = Line(got[c], down[c], buffer[c], Cat(up[c], more))
      BY <1>1, <1>4, <2>3 DEF EchoInv, EchoTypes, Journey
    <3>2. Line(got[c], down[c], buffer[c], Cat(up[c], more)) = Cat(Journey(c), more)
      BY <1>1, <2>2, Added, SMTT(60) DEF Journey
    <3>3. Journey(c) = Bytes(sent[c]) /\ sent'[c] = sent[c] + n
      BY <1>1, <2>3 DEF EchoInv, EchoTypes, Kept
    <3> QED BY <2>2, <3>1, <3>2, <3>3
  <2>7. \A d \in Conns : d # c => Journey(d)' = Journey(d) /\ sent'[d] = sent[d]
    BY <1>1, <1>4, <2>3 DEF EchoInv, EchoTypes, Journey
  <2>8. Kept'
    BY <1>1, <2>6, <2>7 DEF EchoInv, Kept
  <2> QED BY <1>2, <2>4, <2>5, <2>8 DEF EchoInv
<1> QED BY <1>3, <1>4 DEF serve

LEMMA OtherSteps ==
  ASSUME EchoInv, NEW c \in Conns, Die(c) \/ connect(c) \/ close(c)
  PROVE  EchoInv'
<1>1. CASE Die(c)
  BY <1>1 DEF EchoInv, EchoTypes, BuffersHeld, Kept, Journey, Counted, Die
<1>2. CASE connect(c)
  BY <1>2 DEF EchoInv, EchoTypes, BuffersHeld, Kept, Journey, Counted, connect
<1>3. CASE close(c)
  <2>1. <<>> \in Seq(Nat) /\ Len(<<>>) = 0 /\ Room \in Nat
    BY EmptySeq, EchoAssumption
  <2>2. EchoTypes' /\ BuffersHeld' /\ Counted'
    BY <1>3, <2>1 DEF EchoInv, EchoTypes, BuffersHeld, Counted, close
  <2>3. Kept'
    BY <1>3 DEF EchoInv, EchoTypes, Kept, Journey, close
  <2> QED BY <2>2, <2>3 DEF EchoInv
<1> QED BY <1>1, <1>2, <1>3

LEMMA EchoNextHolds ==
  ASSUME EchoInv, [EchoNext]_echoVars
  PROVE  EchoInv'
<1>1. CASE UNCHANGED echoVars
  BY <1>1 DEF EchoInv, EchoTypes, BuffersHeld, Kept, Journey, Counted, echoVars, kernel
<1>2. ASSUME NEW c \in Conns, Server(c) PROVE EchoInv'
  BY <1>2, AcceptStep, RecvStep, SendStep DEF Server
<1>3. ASSUME NEW c \in Conns, Die(c) \/ connect(c) \/ serve(c) \/ close(c) PROVE EchoInv'
  BY <1>3, ServedStep, OtherSteps
<1> QED BY <1>1, <1>2, <1>3 DEF EchoNext

LEMMA IInvServed == EchoInv => Served
<1> SUFFICES ASSUME EchoInv, NEW c \in Conns, client[c] = "open"
             PROVE  got[c] \o down[c] \o buffer[c] \o up[c] = [i \in 1..sent[c] |-> i]
  BY DEF EchoInv, Served, Echoed
<1> QED BY DEF EchoInv, Kept, Journey, Line, Cat, Bytes

\* What a client read, what is on the way and what the server holds of it are its bytes in
\* their order; client_cnt counts the sockitems; a send blocks for lack of room only.
THEOREM ServedHolds == EchoSpec => []Served
<1>1. EchoInit => EchoInv
  BY EchoInitHolds
<1>2. EchoInv /\ [EchoNext]_echoVars => EchoInv'
  BY EchoNextHolds
<1> QED BY <1>1, <1>2, IInvServed, PTL DEF EchoSpec

-----------------------------------------------------------------------------
(* The asynchronous interface of hiredis                                   *)

\* What the proofs assume of the program.  Without it the properties are false.
CarefulProgram == Careful = TRUE

-----------------------------------------------------------------------------
(* The invariant: what holds whatever is done with the context             *)

Written == [what : {"plain", "monitor"}, of : Seq(Nat)]
             \cup [what : {"sub", "unsub"}, of : Seq(Channels)]
Heard == [what : {"plain", "error", "monitor", "line"}, of : Seq(Nat)]
           \cup [what : {"sub", "message"}, of : Seq(Channels)]
           \cup [what : {"unsub"}, of : Seq(Channels), left : Nat]
Items == Written \cup Heard

Types ==
  /\ flags \subseteq {"connected", "disconnecting", "freeing", "subscribed", "monitoring"}
  /\ pc \in {"idle", "process", "callback", "drain", "freed"}
  /\ cb \in Requests \cup {None}
  /\ replies \in Seq(Requests \cup {None}) /\ invalid \in Seq(Requests \cup {None})
  /\ DOMAIN subs = Channels
  /\ subs = [ch \in Channels |-> [cb |-> subs[ch].cb, pending |-> subs[ch].pending]]
  /\ \A ch \in Channels : subs[ch].cb \in Requests \cup {None}
  /\ obuf \in Seq(Written) /\ wire \in Seq(Written)
  /\ back \in Seq(Heard) /\ rbuf \in Seq(Heard)
  /\ made \in [Requests -> Calls \cup {"", "refused"}] /\ calls \in [Requests -> 0..2]
  /\ serving \subseteq Channels \cup {None}

\* Requests are made in their order, and nothing happens before the first.
InTurn ==
  /\ \A q, r \in Requests : q < r /\ made[r] # "" => made[q] # ""
  /\ \A r \in Requests : made[r] \in {"", "refused"} => calls[r] = 0
  /\ (\A r \in Requests : made[r] = "") =>
       poll = {} /\ cb = None /\ "subscribed" \notin flags /\ pc \in {"idle", "drain", "freed"}

Alive == pc \notin {"drain", "freed"}

Running ==
  /\ ~Alive => Closing
  /\ pc = "freed" => replies = <<>> /\ invalid = <<>>
  /\ pc = "idle" => rbuf = <<>>
  /\ ~astray

-----------------------------------------------------------------------------
(* The invariant of a context that monitors                                *)

\* What was answered, in the order it is handled, and what is to be answered.
Near == rbuf \o back
Far == wire \o obuf

OfMonitor == {r \in Requests : made[r] = "monitor"}

Monitoring ==
  /\ "monitoring" \in flags /\ "subscribed" \notin flags
  /\ OfMonitor # {} /\ \A r \in Requests : made[r] \in {"", "refused", "monitor"}
  /\ \A m \in Range(Near) \cup Range(Far) : m.what \in {"monitor", "line"}
  /\ serving \subseteq {None} /\ invalid = <<>>
  /\ \A ch \in Channels : ~Listening(ch)
  /\ Range(replies) \subseteq OfMonitor \cup {None} /\ cb \in OfMonitor \cup {None}
  /\ lost => split

\* Until a read brings nothing complete there is always a callback for the next line.
Attentive ==
  "monitoring" \in flags /\ ~split =>
    /\ None \notin Range(replies)
    /\ pc = "idle" => replies # <<>>
    /\ pc = "callback" => cb # None
    /\ pc = "process" /\ cb = None => replies # <<>> /\ rbuf # <<>>

-----------------------------------------------------------------------------
(* The invariant of any other context                                      *)

Ordered(s, R) == \A i, j \in DOMAIN s : i < j => <<s[i], s[j]>> \in R
Less == {p \in Nat \X Nat : p[1] < p[2]}

Waiting == Range(replies) \cup Range(invalid)

\* The lists of callbacks: whose callback is not in them any more has run, once.
Lists ==
  /\ Waiting \subseteq {r \in Requests : made[r] = "plain"}
  /\ Ordered(replies, Less) /\ Ordered(invalid, Less)
  /\ \A q \in Range(replies), r \in Range(invalid) : q < r
  /\ \A r \in Requests : made[r] = "plain" => calls[r] = IF r \in Waiting THEN 0 ELSE 1

Subscribers == \A ch \in Channels : Listening(ch) => made[subs[ch].cb] = "sub"

IsReply(m) == m.what \in {"plain", "error"}

\* What may come in the order of a and b.  A plain reply behind one of a channel is of a
\* request made while subscribed, and nothing but messages is on its way with the answer to
\* an UNSUBSCRIBE, none of its channel behind it.
Follows(a, b) ==
  /\ IsReply(a) /\ IsReply(b) => a.of[1] < b.of[1]
  /\ IsArray(a) /\ IsReply(b) => b.of[1] \notin Range(replies)
  /\ a.what = "unsub" => b.what = "message" /\ b.of[1] # a.of[1]
  /\ b.what = "unsub" => a.what = "message"
Right == {p \in Items \X Items : Follows(p[1], p[2])}

\* Something on its way is for a request that waits, or for channels that have a callback.
Sound(m) ==
  \/ IsReply(m) /\ m.of[1] \in Waiting /\ m.of = <<m.of[1]>>
  \/ /\ IsArray(m) /\ "subscribed" \in flags
     /\ m.of # <<>> /\ \A i \in DOMAIN m.of : Listening(m.of[i])
     /\ m.what # "sub" => m.of = <<m.of[1]>>

OnTheWay ==
  /\ \A m \in Range(Near) \cup Range(Far) : Sound(m)
  /\ \A r \in Waiting : \E m \in Range(Near) \cup Range(Far) : IsReply(m) /\ m.of = <<r>>
  /\ Ordered(Near \o Far, Right)
  /\ \A m \in Range(Near) : m.what = "unsub" => m.of[1] \notin serving
  /\ \A m \in Range(Near) : m.what = "sub" => m.of = <<m.of[1]>>

Serving ==
  /\ None \notin serving /\ \A ch \in serving : Listening(ch)
  /\ serving # {} => \A m \in Range(Far) : IsReply(m) => m.of[1] \notin Range(replies)
  /\ "subscribed" \notin flags => serving = {} /\ invalid = <<>>

Matching ==
  /\ "monitoring" \notin flags /\ OfMonitor = {} /\ ~lost
  /\ Lists /\ Subscribers
  /\ Alive => OnTheWay /\ Serving

IInv == Types /\ InTurn /\ Running /\ (Monitoring \/ Matching) /\ Attentive

-----------------------------------------------------------------------------
(* Sequences, their elements and the order of these                        *)

LEMMA Elements ==
  ASSUME NEW S, NEW s \in Seq(S)
  PROVE  /\ Len(s) \in Nat /\ DOMAIN s = 1..Len(s)
         /\ Range(s) \subseteq S /\ \A i \in 1..Len(s) : s[i] \in Range(s) /\ s[i] \in S
         /\ \A x \in Range(s) : \E i \in 1..Len(s) : x = s[i]
         /\ s = <<>> <=> Len(s) = 0
         /\ s = <<>> <=> Range(s) = {}
<1>1. Len(s) \in Nat /\ DOMAIN s = 1..Len(s) /\ s \in [1..Len(s) -> S]
  BY LenProperties
<1>2. s = <<>> <=> Len(s) = 0
  BY <1>1, EmptySeq
<1>3. Range(s) = {s[i] : i \in 1..Len(s)}
  BY RangeEquality
<1>4. /\ Range(s) \subseteq S /\ \A i \in 1..Len(s) : s[i] \in Range(s) /\ s[i] \in S
      /\ \A x \in Range(s) : \E i \in 1..Len(s) : x = s[i]
  BY <1>1, <1>3
<1>5. s = <<>> <=> Range(s) = {}
  <2>1. Len(s) = 0 => 1..Len(s) = {}
    BY <1>1
  <2>2. Len(s) # 0 => 1 \in 1..Len(s)
    BY <1>1
  <2> QED BY <1>2, <1>3, <1>4, <2>1, <2>2
<1> QED BY <1>1, <1>2, <1>4, <1>5

LEMMA CatSeq ==
  ASSUME NEW S, NEW s \in Seq(S), NEW t \in Seq(S)
  PROVE  Cat(s, t) \in Seq(S) /\ Len(Cat(s, t)) = Len(s) + Len(t)
  BY ConcatProperties DEF Cat

LEMMA CatRange ==
  ASSUME NEW S, NEW s \in Seq(S), NEW t \in Seq(S)
  PROVE  Range(Cat(s, t)) = Range(s) \cup Range(t)
  BY RangeConcatenation DEF Cat

LEMMA CatLeft ==
  ASSUME NEW S, NEW s \in Seq(S), NEW t \in Seq(S), NEW i \in 1..Len(s)
  PROVE  Cat(s, t)[i] = s[i]
  BY ConcatProperties, LenProperties DEF Cat

LEMMA CatRight ==
  ASSUME NEW S, NEW s \in Seq(S), NEW t \in Seq(S), NEW i \in 1..Len(t)
  PROVE  Cat(s, t)[Len(s) + i] = t[i]
  BY ConcatProperties, LenProperties DEF Cat

LEMMA CatEmpty ==
  ASSUME NEW S, NEW s \in Seq(S)
  PROVE  Cat(s, <<>>) = s /\ Cat(<<>>, s) = s
  BY ConcatEmptySeq DEF Cat

LEMMA One ==
  ASSUME NEW S, NEW x \in S
  PROVE  <<x>> \in Seq(S) /\ Range(<<x>>) = {x} /\ Len(<<x>>) = 1 /\ <<x>>[1] = x
<1>1. <<x>> \in Seq(S) /\ Len(<<x>>) = 1 /\ <<x>>[1] = x
  BY SMT
<1>2. Range(<<x>>) = {<<x>>[i] : i \in 1..Len(<<x>>)}
  BY <1>1, RangeEquality, Zenon
<1>3. 1..1 = {1}
  OBVIOUS
<1> QED BY <1>1, <1>2, <1>3

\* What follows the head of a sequence.
LEMMA Rest ==
  ASSUME NEW S, NEW s \in Seq(S), s # <<>>
  PROVE  /\ Head(s) \in S /\ Tail(s) \in Seq(S) /\ Head(s) = s[1]
         /\ Range(s) = {Head(s)} \cup Range(Tail(s))
         /\ Len(Tail(s)) = Len(s) - 1 /\ \A i \in 1..Len(Tail(s)) : Tail(s)[i] = s[i + 1]
<1>1. /\ Head(s) \in S /\ Tail(s) \in Seq(S) /\ Len(Tail(s)) = Len(s) - 1
      /\ \A i \in 1..Len(Tail(s)) : Tail(s)[i] = s[i + 1]
  BY HeadTailProperties
<1>2. Head(s) = s[1] /\ Len(s) \in Nat /\ Len(s) # 0
  BY Elements
<1>3. Range(s) = {s[i] : i \in 1..Len(s)} /\ Range(Tail(s)) = {Tail(s)[i] : i \in 1..Len(Tail(s))}
  BY <1>1, RangeEquality
<1>4. \A i \in 1..Len(s) : i = 1 \/ (i - 1 \in 1..Len(Tail(s)) /\ Tail(s)[i - 1] = s[i])
  BY <1>1, <1>2
<1>5. Range(s) \subseteq {Head(s)} \cup Range(Tail(s))
  BY <1>2, <1>3, <1>4, SMTT(150)
<1>6. {Head(s)} \cup Range(Tail(s)) \subseteq Range(s)
  BY <1>1, <1>2, <1>3
<1> QED BY <1>1, <1>2, <1>5, <1>6

LEMMA TailOfCat ==
  ASSUME NEW S, NEW s \in Seq(S), NEW t \in Seq(S), s # <<>>
  PROVE  Head(Cat(s, t)) = Head(s) /\ Tail(Cat(s, t)) = Cat(Tail(s), t) /\ Cat(s, t) # <<>>
<1> DEFINE u == Cat(s, t)
           v == Cat(Tail(s), t)
<1>1. Len(s) \in Nat \ {0} /\ Len(t) \in Nat
  BY Elements
<1>2. u \in Seq(S) /\ Len(u) = Len(s) + Len(t)
  BY CatSeq
<1>3. u # <<>>
  <2> HIDE DEF u
  <2> QED BY <1>1, <1>2, Elements
<1>4. Head(s) = s[1] /\ Tail(s) \in Seq(S) /\ Len(Tail(s)) = Len(s) - 1
      /\ \A i \in 1..Len(s) - 1 : Tail(s)[i] = s[i + 1]
  BY Rest
<1>5. /\ Head(u) = u[1] /\ Tail(u) \in Seq(S) /\ Len(Tail(u)) = Len(s) + Len(t) - 1
      /\ \A i \in 1..Len(s) + Len(t) - 1 : Tail(u)[i] = u[i + 1]
  <2> HIDE DEF u
  <2> QED BY <1>2, <1>3, Rest
<1>6. v \in Seq(S) /\ Len(v) = Len(Tail(s)) + Len(t)
  BY <1>4, CatSeq, Zenon
<1>7. \A i \in 1..Len(s) : u[i] = s[i]
  BY CatLeft
<1>8. \A i \in 1..Len(t) : u[Len(s) + i] = t[i]
  BY CatRight
<1>9. \A i \in 1..Len(Tail(s)) : v[i] = Tail(s)[i]
  BY <1>4, CatLeft, Zenon
<1>10. ASSUME NEW i \in 1..Len(t) PROVE v[Len(Tail(s)) + i] = t[i]
  <2> DEFINE r == Tail(s)
  <2>1. r \in Seq(S)
    BY <1>4
  <2> HIDE DEF r
  <2>2. Cat(r, t)[Len(r) + i] = t[i]
    BY <2>1, CatRight
  <2> QED BY <2>2 DEF r
<1> HIDE DEF u, v
<1>11. Head(u) = Head(s)
  BY <1>1, <1>4, <1>5, <1>7
<1>12. ASSUME NEW i \in 1..Len(s) + Len(t) - 1
       PROVE  Tail(u)[i] = v[i]
  <2>1. CASE i \in 1..Len(s) - 1
    BY <1>1, <1>4, <1>5, <1>7, <1>9, <2>1
  <2>2. CASE i \notin 1..Len(s) - 1
    <3>1. PICK j \in 1..Len(t) : i + 1 = Len(s) + j /\ i = Len(s) - 1 + j
      <4> DEFINE j == i - (Len(s) - 1)
      <4>1. j \in 1..Len(t) /\ i + 1 = Len(s) + j /\ i = Len(s) - 1 + j
        BY <1>1, <2>2
      <4> HIDE DEF j
      <4> QED BY <4>1
    <3> QED BY <1>1, <1>4, <1>5, <1>8, <1>10, <3>1
  <2> QED BY <2>1, <2>2
<1>13. Tail(u) = v
  <2>1. Len(Tail(u)) = Len(v) /\ \A i \in 1..Len(Tail(u)) : Tail(u)[i] = v[i]
    BY <1>1, <1>4, <1>5, <1>6, <1>12
  <2> QED BY <1>5, <1>6, <2>1, SeqEqual, Zenon
<1> QED BY <1>3, <1>11, <1>13 DEF u, v

LEMMA OrderedCat ==
  ASSUME NEW S, NEW s \in Seq(S), NEW t \in Seq(S), NEW R
  PROVE  Ordered(Cat(s, t), R) <=>
           /\ Ordered(s, R) /\ Ordered(t, R)
           /\ \A x \in Range(s), y \in Range(t) : <<x, y>> \in R
<1> DEFINE u == Cat(s, t)
<1>1. u \in Seq(S) /\ Len(u) = Len(s) + Len(t)
  BY CatSeq
<1>2. \A i \in 1..Len(s) : u[i] = s[i]
  BY CatLeft
<1>3. \A i \in 1..Len(t) : u[Len(s) + i] = t[i]
  BY CatRight
<1> HIDE DEF u
<1>4. /\ Len(s) \in Nat /\ Len(t) \in Nat
      /\ DOMAIN s = 1..Len(s) /\ DOMAIN t = 1..Len(t) /\ DOMAIN u = 1..Len(s) + Len(t)
  BY <1>1, LenProperties
<1>5. ASSUME Ordered(u, R) PROVE Ordered(s, R)
  BY <1>2, <1>4, <1>5 DEF Ordered
<1>6. ASSUME Ordered(u, R), NEW i \in DOMAIN t, NEW j \in DOMAIN t, i < j
      PROVE  <<t[i], t[j]>> \in R
  <2>1. Len(s) + i \in DOMAIN u /\ Len(s) + j \in DOMAIN u /\ Len(s) + i < Len(s) + j
    BY <1>4, <1>6
  <2>2. u[Len(s) + i] = t[i] /\ u[Len(s) + j] = t[j]
    BY <1>3, <1>4
  <2>3. <<u[Len(s) + i], u[Len(s) + j]>> \in R
    BY <1>6, <2>1 DEF Ordered
  <2> QED BY <2>2, <2>3
<1>7. ASSUME Ordered(u, R), NEW x \in Range(s), NEW y \in Range(t)
      PROVE  <<x, y>> \in R
  <2> PICK i \in 1..Len(s), j \in 1..Len(t) : x = s[i] /\ y = t[j]
    BY Elements
  <2>1. i \in DOMAIN u /\ Len(s) + j \in DOMAIN u /\ i < Len(s) + j
    BY <1>4
  <2>2. <<u[i], u[Len(s) + j]>> \in R
    BY <1>7, <2>1 DEF Ordered
  <2> QED BY <1>2, <1>3, <2>2
<1>8. ASSUME Ordered(s, R), Ordered(t, R), \A x \in Range(s), y \in Range(t) : <<x, y>> \in R,
             NEW i \in DOMAIN u, NEW j \in DOMAIN u, i < j
      PROVE  <<u[i], u[j]>> \in R
  <2>1. \A k \in DOMAIN u : k \in 1..Len(s) \/ \E l \in 1..Len(t) : k = Len(s) + l
    <3> SUFFICES ASSUME NEW k \in DOMAIN u, k \notin 1..Len(s)
                 PROVE  \E l \in 1..Len(t) : k = Len(s) + l
      OBVIOUS
    <3>1. k - Len(s) \in 1..Len(t) /\ k = Len(s) + (k - Len(s))
      BY <1>4
    <3> QED BY <3>1
  <2>2. CASE i \in 1..Len(s) /\ j \in 1..Len(s)
    BY <1>2, <1>4, <1>8, <2>2 DEF Ordered
  <2>3. ASSUME i \in 1..Len(s), NEW l \in 1..Len(t), j = Len(s) + l
        PROVE  <<u[i], u[j]>> \in R
    <3>1. s[i] \in Range(s) /\ t[l] \in Range(t)
      BY <2>3, Elements
    <3>2. u[i] = s[i] /\ u[j] = t[l]
      BY <1>2, <1>3, <2>3
    <3> QED BY <1>8, <3>1, <3>2
  <2>4. ASSUME NEW k \in 1..Len(t), i = Len(s) + k, NEW l \in 1..Len(t), j = Len(s) + l
        PROVE  <<u[i], u[j]>> \in R
    <3>1. u[i] = t[k] /\ u[j] = t[l] /\ k < l
      BY <1>3, <1>4, <1>8, <2>4
    <3> QED BY <1>4, <1>8, <3>1 DEF Ordered
  <2>5. i \notin 1..Len(s) => j \notin 1..Len(s)
    BY <1>4, <1>8
  <2> QED BY <2>1, <2>2, <2>3, <2>4, <2>5
<1>9. Ordered(s, R) /\ Ordered(t, R) /\ (\A x \in Range(s), y \in Range(t) : <<x, y>> \in R)
      => Ordered(u, R)
  BY <1>8 DEF Ordered
<1>10. Ordered(u, R) => Ordered(t, R)
  BY <1>6 DEF Ordered
<1> QED BY <1>5, <1>7, <1>9, <1>10 DEF u

LEMMA OrderedShort ==
  ASSUME NEW S, NEW x \in S, NEW R
  PROVE  Ordered(<<>>, R) /\ Ordered(<<x>>, R)
<1>1. Len(<<x>>) = 1 /\ DOMAIN <<x>> = 1..1
  BY One, Elements
<1> QED BY <1>1 DEF Ordered

LEMMA OrderedRest ==
  ASSUME NEW S, NEW s \in Seq(S), NEW R, s # <<>>, Ordered(s, R)
  PROVE  Ordered(Tail(s), R) /\ \A y \in Range(Tail(s)) : <<Head(s), y>> \in R
<1>1. /\ Tail(s) \in Seq(S) /\ Head(s) = s[1] /\ Len(Tail(s)) = Len(s) - 1
      /\ \A i \in 1..Len(Tail(s)) : Tail(s)[i] = s[i + 1]
      /\ Len(s) \in Nat /\ DOMAIN s = 1..Len(s) /\ DOMAIN Tail(s) = 1..Len(Tail(s))
  BY Rest, Elements
<1>2. ASSUME NEW i \in DOMAIN Tail(s), NEW j \in DOMAIN Tail(s), i < j
      PROVE  <<Tail(s)[i], Tail(s)[j]>> \in R
  <2>1. i + 1 \in DOMAIN s /\ j + 1 \in DOMAIN s /\ i + 1 < j + 1
    BY <1>1, <1>2
  <2> QED BY <1>1, <2>1 DEF Ordered
<1>3. ASSUME NEW y \in Range(Tail(s))
      PROVE  <<Head(s), y>> \in R
  <2>0. Range(Tail(s)) = {Tail(s)[i] : i \in 1..Len(Tail(s))}
    BY <1>1, RangeEquality, Zenon
  <2> PICK i \in 1..Len(Tail(s)) : y = Tail(s)[i]
    BY <2>0
  <2>1. 1 \in DOMAIN s /\ i + 1 \in DOMAIN s /\ 1 < i + 1
    BY <1>1
  <2> QED BY <1>1, <2>1 DEF Ordered
<1> QED BY <1>2, <1>3 DEF Ordered

\* An order of a sequence is one of a sequence whose elements it holds for as well.
LEMMA OrderedOther ==
  ASSUME NEW S, NEW s \in Seq(S), NEW R, NEW Q, Ordered(s, R),
         \A x, y \in Range(s) : <<x, y>> \in R => <<x, y>> \in Q
  PROVE  Ordered(s, Q)
  BY Elements DEF Ordered

-----------------------------------------------------------------------------
(* Types                                                                   *)

LEMMA Channels1 == 1 \in Channels /\ Channels \subseteq Nat \ {0} /\ IsFiniteSet(Channels \cup {None})
<1>1. IsFiniteSet(1..MaxChannel)
  BY RedisAssumption, FS_Interval
<1>2. IsFiniteSet(Channels \cup {None})
  BY <1>1, FS_AddElement DEF Channels
<1> QED BY <1>2, RedisAssumption DEF Channels

\* What a command is given.
LEMMA ArgumentsAre ==
  ASSUME NEW what \in Calls, NEW chs \in Arguments(what)
  PROVE  /\ what = "sub" => chs # <<>> /\ chs \in Seq(Channels)
         /\ what = "unsub" => chs \in Seq(Channels) /\ \E ch \in Channels : chs = <<ch>>
         /\ what \notin {"sub", "unsub"} => chs = <<>>
<1>1. CASE what = "sub"
  <2>1. \/ chs = <<1>>
        \/ chs = [ch \in Channels |-> ch]
    BY <1>1 DEF Arguments
  <2>2. CASE chs = <<1>>
    <3>1. chs \in Seq(Channels) /\ Len(chs) = 1 /\ chs # <<>>
      BY <2>2, One, Elements, Channels1
    <3> QED BY <1>1, <3>1
  <2>3. CASE chs = [ch \in Channels |-> ch]
    <3>1. chs \in [1..MaxChannel -> Channels]
      BY <2>3 DEF Channels
    <3>2. chs \in Seq(Channels)
      BY <3>1, SeqDef, RedisAssumption
    <3>3. DOMAIN chs = Channels /\ Channels # {}
      BY <2>3, Channels1
    <3>4. chs # <<>>
      BY <3>2, <3>3, Elements
    <3> QED BY <1>1, <3>2, <3>4
  <2> QED BY <2>1, <2>2, <2>3
<1>2. CASE what = "unsub"
  <2> PICK ch \in Channels : chs = <<ch>>
    BY <1>2 DEF Arguments
  <2>1. chs \in Seq(Channels)
    BY One
  <2> QED BY <1>2, <2>1
<1>3. CASE what \notin {"sub", "unsub"}
  BY <1>3, EmptySeq DEF Arguments
<1> QED BY <1>1, <1>2, <1>3

Item(r, what, chs) == [what |-> what, of |-> IF chs = <<>> THEN <<r>> ELSE chs]

LEMMA ItemIs ==
  ASSUME NEW r \in Requests, NEW what \in Calls, NEW chs \in Arguments(what)
  PROVE  /\ Item(r, what, chs) \in Written
         /\ Item(r, what, chs).what = what
         /\ what \in {"plain", "monitor"} => Item(r, what, chs).of = <<r>>
         /\ what \in {"sub", "unsub"} => Item(r, what, chs).of = chs
<1>1. <<r>> \in Seq(Nat) /\ (what \in {"sub", "unsub"} => chs \in Seq(Channels))
  BY ArgumentsAre, One DEF Requests
<1>2. what \in {"sub", "unsub"} => chs # <<>>
  <2>1. ASSUME NEW ch \in Channels PROVE <<ch>> # <<>>
    BY Channels1, One, Elements
  <2> QED BY <2>1, ArgumentsAre
<1> QED BY <1>1, <1>2, ArgumentsAre DEF Item, Written, Calls

\* Every list with one more, or one less.
LEMMA Lists1 ==
  ASSUME NEW S, NEW s \in Seq(S), NEW x \in S
  PROVE  /\ Append(s, x) = Cat(s, <<x>>) /\ Append(s, x) \in Seq(S)
         /\ Range(Append(s, x)) = Range(s) \cup {x}
<1>1. Append(s, x) = Cat(s, <<x>>)
  BY AppendIsConcat DEF Cat
<1>2. <<x>> \in Seq(S) /\ Range(<<x>>) = {x}
  BY One
<1>3. Cat(s, <<x>>) \in Seq(S) /\ Range(Cat(s, <<x>>)) = Range(s) \cup Range(<<x>>)
  BY <1>2, CatSeq, CatRange, ZenonT(120)
<1> QED BY <1>1, <1>2, <1>3

LEMMA CommandTypes ==
  ASSUME Types, NEW r \in Requests, NEW what \in Calls, NEW chs \in Arguments(what),
         Command(r, what, chs)
  PROVE  Types'
<1> USE DEF Types
<1>1. CASE Refused(what)
  <2>1. made' \in [Requests -> Calls \cup {"", "refused"}]
    BY <1>1 DEF Command
  <2>2. UNCHANGED <<flags, pc, cb, books, obuf, rbuf, calls, wire, back, serving>>
    BY <1>1 DEF Command, server
  <2> QED BY <2>1, <2>2, ZenonT(60) DEF books
<1>2. CASE ~Refused(what)
  <2>1. Register(what, r, chs) /\ obuf' = Append(obuf, Item(r, what, chs))
    BY <1>2 DEF Command, Item
  <2>2. UNCHANGED <<pc, cb, rbuf, calls, wire, back, serving>>
    BY DEF Command, server
  <2>3. obuf' \in Seq(Written)
    BY <2>1, ItemIs, Lists1
  <2>4. Append(replies, r) \in Seq(Requests \cup {None}) /\ Append(invalid, r) \in Seq(Requests \cup {None})
    BY Lists1
  <2>5. replies' \in Seq(Requests \cup {None}) /\ invalid' \in Seq(Requests \cup {None})
    BY <2>1, <2>4 DEF Register, Queued
  <2>6. flags' \subseteq {"connected", "disconnecting", "freeing", "subscribed", "monitoring"}
    BY <2>1 DEF Register
  <2>7. made' \in [Requests -> Calls \cup {"", "refused"}]
    BY <1>2, ZenonT(60) DEF Command
  <2>8. subs' = [ch \in Channels |-> [cb |-> subs'[ch].cb, pending |-> subs'[ch].pending]]
        /\ \A ch \in Channels : subs'[ch].cb \in Requests \cup {None}
    BY <2>1, ZenonT(120) DEF Register, Enrol
  <2> QED BY <2>2, <2>3, <2>5, <2>6, <2>7, <2>8
<1> QED BY <1>1, <1>2

LEMMA CallBackType ==
  ASSUME calls \in [Requests -> 0..2], NEW r \in Requests \cup {None}, CallBack(r)
  PROVE  /\ calls' \in [Requests -> 0..2]
         /\ \A q \in Requests : q # r => calls'[q] = calls[q]
         /\ r # None /\ calls[r] = 0 => calls'[r] = 1
  BY DEF CallBack, Requests, None

\* The two parts of a sequence that is cut in two.
LEMMA CutInTwo ==
  ASSUME NEW S, NEW s \in Seq(S), NEW n \in 0..Len(s)
  PROVE  /\ SubSeq(s, 1, n) \in Seq(S) /\ SubSeq(s, n + 1, Len(s)) \in Seq(S)
         /\ Cat(SubSeq(s, 1, n), SubSeq(s, n + 1, Len(s))) = s
         /\ n > 0 => SubSeq(s, 1, n) # <<>>
<1>0. Len(s) \in Nat
  BY Elements
<1>1. \A i \in 1..n : s[i] \in S
  BY <1>0, Elements
<1>2. SubSeq(s, 1, n) \in Seq(S) /\ Len(SubSeq(s, 1, n)) = n
  BY <1>0, <1>1, SubSeqProperties
<1>3. \A i \in n + 1..Len(s) : s[i] \in S
  BY <1>0, Elements
<1>4. SubSeq(s, n + 1, Len(s)) \in Seq(S)
  BY <1>0, <1>3, SubSeqProperties
<1>5. 1 \in 1 .. Len(s) + 1 /\ n \in 1 - 1 .. Len(s) /\ Len(s) \in n .. Len(s)
  BY <1>0
<1>6. Cat(SubSeq(s, 1, n), SubSeq(s, n + 1, Len(s))) = SubSeq(s, 1, Len(s))
  BY <1>5, ConcatAdjacentSubSeq DEF Cat
<1>7. SubSeq(s, 1, Len(s)) = s
  BY SubSeqFull
<1>8. n > 0 => SubSeq(s, 1, n) # <<>>
  BY <1>2, Elements
<1> QED BY <1>2, <1>4, <1>6, <1>7, <1>8

LEMMA LeavingTypes ==
  ASSUME Types, Disconnect \/ Free \/ ConnectFails \/ NoReply \/ Return
  PROVE  Types'
<1>1. CASE Disconnect \/ Free \/ ConnectFails
  BY <1>1, ZenonT(60) DEF Types, Disconnect, Free, ConnectFails, Fail, books, server, history
<1>2. CASE NoReply
  <2>1. Append(replies, cb) \in Seq(Requests \cup {None})
    BY Lists1 DEF Types
  <2> QED BY <1>2, <2>1 DEF Types, NoReply, Again, server, history
<1>3. CASE Return
  BY <1>3 DEF Types, Return, books, server, history
<1> QED BY <1>1, <1>2, <1>3

LEMMA DrainTypes ==
  ASSUME Types, Drain
  PROVE  Types'
<1> USE DEF Types
<1>1. UNCHANGED <<flags, cb, obuf, rbuf, made, wire, back, serving>>
  BY DEF Drain, server
<1>2. CASE replies # <<>> /\ CallBack(Head(replies)) /\ replies' = Shift(replies)
           /\ UNCHANGED <<invalid, subs, pc>>
  BY <1>1, <1>2, Rest, CallBackType, ZenonT(150) DEF Shift
<1>3. CASE invalid # <<>> /\ CallBack(Head(invalid)) /\ invalid' = Shift(invalid)
           /\ UNCHANGED <<replies, subs, pc>>
  BY <1>1, <1>3, Rest, CallBackType, ZenonT(150) DEF Shift
<1>4. ASSUME NEW ch \in Channels, CallBack(subs[ch].cb), subs' = [subs EXCEPT ![ch].cb = None],
             UNCHANGED <<replies, invalid, pc>>
      PROVE  Types'
  <2>1. calls' \in [Requests -> 0..2]
    BY <1>4, CallBackType
  <2>2. \A x \in Channels : subs[x] = [cb |-> subs[x].cb, pending |-> subs[x].pending]
    BY Zenon
  <2>3. DOMAIN subs' = Channels /\ subs' = [x \in Channels |-> subs'[x]]
        /\ \A x \in Channels : subs'[x] = IF x = ch THEN [subs[x] EXCEPT !.cb = None] ELSE subs[x]
    BY <1>4, ZenonT(60)
  <2>4. ASSUME NEW x \in Channels
        PROVE  /\ subs'[x] = [cb |-> subs'[x].cb, pending |-> subs'[x].pending]
               /\ subs'[x].cb \in Requests \cup {None}
    <3>1. PICK c, p : c \in Requests \cup {None} /\ subs[x] = [cb |-> c, pending |-> p]
      <4>1. subs[x].cb \in Requests \cup {None}
        BY Zenon
      <4> QED BY <2>2, <4>1, ZenonT(120)
    <3> HIDE DEF Types
    <3>2. CASE x = ch
      <4>1. subs'[x] = [cb |-> None, pending |-> p]
        <5>1. [[cb |-> c, pending |-> p] EXCEPT !.cb = None] = [cb |-> None, pending |-> p]
          OBVIOUS
        <5>2. subs'[x] = [subs[x] EXCEPT !.cb = None]
          BY <2>3, <3>2
        <5> QED BY <3>1, <5>1, <5>2, Zenon
      <4> QED BY <3>1, <4>1
    <3>3. CASE x # ch
      <4>1. subs'[x] = [cb |-> c, pending |-> p]
        BY <2>3, <3>1, <3>3
      <4> QED BY <3>1, <4>1
    <3> QED BY <3>2, <3>3
  <2>5. subs' = [x \in Channels |-> [cb |-> subs'[x].cb, pending |-> subs'[x].pending]]
    BY <2>3, <2>4, Zenon
  <2>6. \A x \in Channels : subs'[x].cb \in Requests \cup {None}
    BY <2>4
  <2> QED BY <1>1, <1>4, <2>1, <2>3, <2>5, <2>6, Zenon
<1>5. CASE pc' = "freed" /\ UNCHANGED <<books, calls>>
  BY <1>1, <1>5 DEF books
<1> QED BY <1>2, <1>3, <1>4, <1>5 DEF Drain

\* What is on its way to the server, or from it, moves on.
LEMMA HandleWriteMoves ==
  ASSUME Types, HandleWrite
  PROVE  Types' /\ Far' = Far
<1> USE DEF Types
<1>1. UNCHANGED <<cb, books, rbuf, made, calls, back, serving>>
  BY DEF HandleWrite, history
<1>2. ASSUME NEW n \in 0..Len(obuf), wire' = wire \o SubSeq(obuf, 1, n),
             obuf' = SubSeq(obuf, n + 1, Len(obuf)), flags' = Connected, UNCHANGED pc
      PROVE  Types' /\ Far' = Far
  <2> DEFINE a == SubSeq(obuf, 1, n)
             b == SubSeq(obuf, n + 1, Len(obuf))
  <2>1. a \in Seq(Written) /\ b \in Seq(Written) /\ Cat(a, b) = obuf
    BY CutInTwo
  <2> HIDE DEF a, b
  <2>2. wire' = Cat(wire, a) /\ obuf' = b
    BY <1>2 DEF a, b, Cat
  <2>3. Cat(wire, a) \in Seq(Written)
    BY <2>1, CatSeq, CatRange
  <2>4. Cat(Cat(wire, a), b) = Cat(wire, Cat(a, b))
    <3>1. wire \in Seq(Written)
      BY Zenon
    <3> HIDE DEF Types
    <3>2. \A x, y, z \in Seq(Written) : Cat(Cat(x, y), z) = Cat(x, Cat(y, z))
      BY CatAssociative
    <3> QED BY <2>1, <3>1, <3>2
  <2>5. Far' = Far
    BY <2>1, <2>2, <2>4 DEF Far, Cat
  <2>6. flags' \subseteq {"connected", "disconnecting", "freeing", "subscribed", "monitoring"}
    BY <1>2 DEF Connected
  <2> QED BY <1>1, <1>2, <2>1, <2>2, <2>3, <2>5, <2>6 DEF books
<1>3. CASE Fail(Connected) /\ UNCHANGED <<wire, obuf, poll>>
  BY <1>1, <1>3 DEF Fail, Connected, books, Far
<1> QED BY <1>2, <1>3 DEF HandleWrite

LEMMA HandleReadMoves ==
  ASSUME Types, Running, HandleRead
  PROVE  Types' /\ Near' = Near
<1> USE DEF Types
<1>1. UNCHANGED <<books, obuf, made, calls, wire, serving>> /\ rbuf = <<>>
  BY DEF HandleRead, Running
<1>2. ASSUME NEW n \in 0..Len(back), rbuf' = SubSeq(back, 1, n),
             back' = SubSeq(back, n + 1, Len(back)), pc' = "process", cb' = None,
             flags' = Connected
      PROVE  Types' /\ Near' = Near
  <2> DEFINE a == SubSeq(back, 1, n)
             b == SubSeq(back, n + 1, Len(back))
  <2>1. a \in Seq(Heard) /\ b \in Seq(Heard) /\ Cat(a, b) = back
    BY CutInTwo
  <2> HIDE DEF a, b
  <2>2. rbuf' = a /\ back' = b
    BY <1>2 DEF a, b
  <2>3. Near' = Cat(a, b) /\ Near = Cat(<<>>, back)
    BY <1>1, <2>2 DEF Near, Cat
  <2>4. Near' = Near
    BY <2>1, <2>3, CatEmpty, Zenon
  <2>5. flags' \subseteq {"connected", "disconnecting", "freeing", "subscribed", "monitoring"}
    BY <1>2 DEF Connected
  <2> QED BY <1>1, <1>2, <2>1, <2>2, <2>4, <2>5 DEF books
<1>3. CASE Fail(Connected) /\ UNCHANGED <<rbuf, back, split, cb>>
  BY <1>1, <1>3 DEF Fail, Connected, books, Near
<1> QED BY <1>2, <1>3 DEF HandleRead

\* What the server answers to c, and for which channels it is listening then.
Answers(c, ans) ==
  /\ c.what = "sub" =>
       /\ serving' = serving \cup ToSet(c.of)
       /\ \A m \in Range(ans) : m.what = "sub" /\ \E i \in DOMAIN c.of : m.of = <<c.of[i]>>
  /\ c.what = "unsub" =>
       /\ serving' = serving \ ToSet(c.of)
       /\ \E n \in Nat : ans = <<[what |-> "unsub", of |-> c.of, left |-> n]>>
  /\ c.what = "monitor" => serving' = serving \cup {None} /\ ans = <<c>>
  /\ c.what = "plain" =>
       serving' = serving /\ ans \in {<<c>>, <<[what |-> "error", of |-> c.of]>>}

LEMMA WrittenIs ==
  ASSUME NEW c \in Written
  PROVE  /\ c.what \in Calls
         /\ c.what \in {"plain", "monitor"} => c \in Heard /\ c = [what |-> c.what, of |-> c.of]
              /\ c.of \in Seq(Nat)
         /\ c.what \in {"sub", "unsub"} => c.of \in Seq(Channels)
  BY DEF Written, Heard, Calls

LEMMA AnswerMoves ==
  ASSUME Types, NEW c \in Written, Answer(c)
  PROVE  /\ serving' \subseteq Channels \cup {None}
         /\ \E ans \in Seq(Heard) : back' = Cat(back, ans) /\ Answers(c, ans)
<1>1. CASE c.what = "sub"
  <2> DEFINE e(i) == [what |-> "sub", of |-> <<c.of[i]>>]
             ans == [i \in DOMAIN c.of |-> e(i)]
  <2>1. back' = Cat(back, ans) /\ serving' = serving \cup ToSet(c.of)
    BY <1>1 DEF Answer, Say, Cat
  <2>2. Len(c.of) \in Nat /\ DOMAIN c.of = 1..Len(c.of)
        /\ \A i \in 1..Len(c.of) : c.of[i] \in Channels
    BY <1>1, WrittenIs, Elements
  <2>3. \A i \in 1..Len(c.of) : e(i) \in Heard
    <3>1. \A i \in 1..Len(c.of) : <<c.of[i]>> \in Seq(Channels)
      BY <2>2, One
    <3> QED BY <3>1 DEF Heard
  <2>4. ans \in [1..Len(c.of) -> Heard]
    BY <2>2, <2>3
  <2> HIDE DEF e
  <2>5. ans \in Seq(Heard)
    BY <2>2, <2>4, SeqDef
  <2>6. \A m \in Range(ans) : m.what = "sub" /\ \E i \in DOMAIN c.of : m.of = <<c.of[i]>>
    <3>1. \A m \in Range(ans) : \E i \in DOMAIN c.of : m = e(i)
      BY DEF Range
    <3> QED BY <3>1 DEF e
  <2>7. ToSet(c.of) \subseteq Channels
    BY <2>2 DEF ToSet
  <2> HIDE DEF ans
  <2> QED BY <1>1, <2>1, <2>5, <2>6, <2>7 DEF Answers, Types
<1>2. CASE c.what = "unsub"
  <2> DEFINE n == Cardinality(serving')
             m == [what |-> "unsub", of |-> c.of, left |-> n]
  <2>1. serving' = serving \ ToSet(c.of) /\ back' = Cat(back, <<m>>)
    BY <1>2 DEF Answer, Say, Cat
  <2>2. serving' \subseteq Channels \cup {None}
    BY <2>1 DEF Types
  <2>3. n \in Nat
    BY <2>2, Channels1, FS_Subset, FS_CardinalityType
  <2> HIDE DEF n
  <2>4. m \in Heard
    BY <1>2, <2>3, WrittenIs DEF Heard
  <2>5. <<m>> \in Seq(Heard)
    BY <2>4, One
  <2>6. Answers(c, <<m>>)
    BY <1>2, <2>1, <2>3 DEF Answers
  <2> QED BY <2>1, <2>2, <2>5, <2>6
<1>3. CASE c.what = "monitor"
  <2>1. back' = Cat(back, <<c>>) /\ serving' = serving \cup {None}
    BY <1>3 DEF Answer, Say, Cat
  <2>2. <<c>> \in Seq(Heard)
    BY <1>3, WrittenIs, One
  <2> QED BY <1>3, <2>1, <2>2 DEF Answers, Types
<1>4. CASE c.what = "plain"
  <2> DEFINE m == IF serving \cap Channels = {} THEN c ELSE [c EXCEPT !.what = "error"]
  <2>1. serving' = serving /\ back' = Cat(back, <<m>>)
    BY <1>4 DEF Answer, Say, Cat
  <2>2. m \in {c, [what |-> "error", of |-> c.of]} /\ m \in Heard
    <3>1. c = [what |-> c.what, of |-> c.of] /\ c \in Heard /\ c.of \in Seq(Nat)
      BY <1>4, WrittenIs
    <3>2. [c EXCEPT !.what = "error"] = [what |-> "error", of |-> c.of]
      BY <3>1
    <3>3. [what |-> "error", of |-> c.of] \in Heard
      BY <3>1 DEF Heard
    <3> QED BY <3>1, <3>2, <3>3
  <2> HIDE DEF m
  <2>3. <<m>> \in Seq(Heard)
    BY <2>2, One
  <2>4. Answers(c, <<m>>)
    BY <1>4, <2>1, <2>2 DEF Answers
  <2> QED BY <2>1, <2>3, <2>4 DEF Types
<1> QED BY <1>1, <1>2, <1>3, <1>4, WrittenIs DEF Calls

LEMMA ServeMoves ==
  ASSUME Types, Serve
  PROVE  /\ Types' /\ Far # <<>> /\ Head(Far) \in Written /\ Far' = Tail(Far)
         /\ \E ans \in Seq(Heard) : Near' = Cat(Near, ans) /\ Answers(Head(Far), ans)
<1> DEFINE c == Head(wire)
<1>1. wire # <<>> /\ Answer(c) /\ wire' = Tail(wire)
      /\ UNCHANGED <<flags, pc, cb, books, obuf, rbuf, made, calls>>
  BY DEF Serve, history
<1>2. c \in Written /\ wire' \in Seq(Written)
  BY <1>1, Rest DEF Types
<1>3. Far # <<>> /\ Head(Far) = c /\ Far' = Tail(Far)
  <2>1. Far = Cat(wire, obuf) /\ Far' = Cat(Tail(wire), obuf)
    BY <1>1 DEF Far, Cat
  <2>2. wire \in Seq(Written) /\ obuf \in Seq(Written) /\ wire # <<>>
    BY <1>1 DEF Types
  <2> QED BY <2>1, <2>2, TailOfCat
<1> HIDE DEF c
<1>4. PICK ans \in Seq(Heard) : back' = Cat(back, ans) /\ Answers(c, ans)
  BY <1>1, <1>2, AnswerMoves
<1>5. serving' \subseteq Channels \cup {None}
  BY <1>1, <1>2, AnswerMoves
<1>6. back' \in Seq(Heard)
  BY <1>4, CatSeq, CatRange DEF Types
<1>7. Near' = Cat(Near, ans)
  <2>1. Near' = Cat(rbuf, Cat(back, ans)) /\ Near = Cat(rbuf, back)
    BY <1>1, <1>4 DEF Near, Cat
  <2>2. rbuf \in Seq(Heard) /\ back \in Seq(Heard)
    BY DEF Types
  <2> QED BY <2>1, <2>2, CatAssociative
<1>8. Types'
  BY <1>1, <1>2, <1>5, <1>6, ZenonT(60) DEF Types, books
<1> QED BY <1>2, <1>3, <1>4, <1>7, <1>8

LEMMA SpontaneousMoves ==
  ASSUME Types, Spontaneous
  PROVE  /\ Types' /\ Far' = Far
         /\ \/ Near' = Near
            \/ \E c \in serving, m \in Heard :
                 /\ Near' = Cat(Near, <<m>>)
                 /\ c = None => m = [what |-> "line", of |-> <<>>]
                 /\ c # None => m = [what |-> "message", of |-> <<c>>]
<1>1. UNCHANGED <<flags, pc, cb, books, obuf, rbuf, made, calls, wire, serving>>
  BY DEF Spontaneous, history
<1>2. Far' = Far
  BY <1>1 DEF Far
<1>3. CASE \E c \in serving :
             Say(<<IF c = None THEN [what |-> "line", of |-> <<>>]
                   ELSE [what |-> "message", of |-> <<c>>]>>)
  <2> PICK c \in serving :
             Say(<<IF c = None THEN [what |-> "line", of |-> <<>>]
                   ELSE [what |-> "message", of |-> <<c>>]>>)
    BY <1>3
  <2> DEFINE m == IF c = None THEN [what |-> "line", of |-> <<>>]
                  ELSE [what |-> "message", of |-> <<c>>]
  <2>1. m \in Heard
    <3>1. c # None => c \in Channels /\ <<c>> \in Seq(Channels)
      BY One DEF Types
    <3>2. <<>> \in Seq(Nat)
      BY EmptySeq
    <3> QED BY <3>1, <3>2 DEF Heard
  <2>2. back' = Cat(back, <<m>>)
    BY DEF Say, Cat
  <2>3. /\ c = None => m = [what |-> "line", of |-> <<>>]
        /\ c # None => m = [what |-> "message", of |-> <<c>>]
    OBVIOUS
  <2> HIDE DEF m
  <2>4. <<m>> \in Seq(Heard) /\ back' \in Seq(Heard)
    BY <2>1, <2>2, One, CatSeq, CatRange DEF Types
  <2>5. Near' = Cat(Near, <<m>>)
    <3>1. Near' = Cat(rbuf, Cat(back, <<m>>)) /\ Near = Cat(rbuf, back)
      BY <1>1, <2>2 DEF Near, Cat
    <3>2. rbuf \in Seq(Heard) /\ back \in Seq(Heard)
      BY DEF Types
    <3>3. \A x, y, z \in Seq(Heard) : Cat(Cat(x, y), z) = Cat(x, Cat(y, z))
      BY CatAssociative
    <3> QED BY <2>4, <3>1, <3>2, <3>3, ZenonT(60)
  <2>6. Types'
    BY <1>1, <2>4 DEF Types, books
  <2> QED BY <1>2, <2>1, <2>3, <2>5, <2>6
<1>4. CASE UNCHANGED back
  BY <1>1, <1>2, <1>4 DEF Types, Near, books
<1> QED BY <1>3, <1>4 DEF Spontaneous

\* The same for a list of callbacks, and for what comes from the server.
LEMMA Callbacks1 ==
  \A s \in Seq(Requests \cup {None}), x \in Requests \cup {None} :
    /\ Append(s, x) \in Seq(Requests \cup {None}) /\ Append(s, x) # <<>>
    /\ Range(Append(s, x)) = Range(s) \cup {x}
<1> SUFFICES ASSUME NEW s \in Seq(Requests \cup {None}), NEW x \in Requests \cup {None}
             PROVE  /\ Append(s, x) \in Seq(Requests \cup {None}) /\ Append(s, x) # <<>>
                    /\ Range(Append(s, x)) = Range(s) \cup {x}
  OBVIOUS
<1>1. /\ Append(s, x) \in Seq(Requests \cup {None})
      /\ Range(Append(s, x)) = Range(s) \cup {x}
  <2>1. Append(s, x) = Cat(s, <<x>>)
    BY AppendIsConcat DEF Cat
  <2>2. <<x>> \in Seq(Requests \cup {None}) /\ Range(<<x>>) = {x}
    BY One
  <2>3. Cat(s, <<x>>) \in Seq(Requests \cup {None})
        /\ Range(Cat(s, <<x>>)) = Range(s) \cup Range(<<x>>)
    BY <2>2, CatSeq, CatRange, ZenonT(120)
  <2> QED BY <2>1, <2>2, <2>3
<1>2. Append(s, x) # <<>>
  BY <1>1, Elements
<1> QED BY <1>1, <1>2

LEMMA CallbacksRest ==
  \A s \in Seq(Requests \cup {None}) : s # <<>> =>
    /\ Head(s) \in Requests \cup {None} /\ Tail(s) \in Seq(Requests \cup {None})
    /\ Range(s) = {Head(s)} \cup Range(Tail(s))
  BY Rest

LEMMA HeardCat ==
  \A s, t \in Seq(Heard) : Cat(s, t) \in Seq(Heard) /\ Range(Cat(s, t)) = Range(s) \cup Range(t)
  BY CatSeq, CatRange

-----------------------------------------------------------------------------
(* Steps that move no reply to a callback                                  *)

LEMMA BothWays ==
  ASSUME Types
  PROVE  /\ Near \in Seq(Heard) /\ Far \in Seq(Written)
         /\ Near \in Seq(Items) /\ Far \in Seq(Items)
         /\ Near \o Far = Cat(Near, Far) /\ Cat(Near, Far) \in Seq(Items)
<1>1. Near \in Seq(Heard) /\ Far \in Seq(Written)
  BY CatSeq, CatRange DEF Types, Near, Far, Cat
<1>2. Near \in Seq(Items) /\ Far \in Seq(Items)
  BY <1>1, SeqMonotonic DEF Items
<1> QED BY <1>1, <1>2, CatSeq, CatRange DEF Cat

Same ==
  /\ UNCHANGED <<replies, invalid, subs, calls, serving>> /\ Near' = Near /\ Far' = Far
  /\ flags' \cap {"subscribed", "monitoring"} = flags \cap {"subscribed", "monitoring"}

SameRequests ==
  /\ made' \in [Requests -> Calls \cup {"", "refused"}]
  /\ \A r \in Requests : made'[r] = made[r] \/ (made[r] = "" /\ made'[r] = "refused")

LEMMA SameMatching ==
  ASSUME Types, Matching, Same, SameRequests, UNCHANGED lost, Alive' => Alive
  PROVE  Matching'
<1>1. /\ "monitoring" \in flags' <=> "monitoring" \in flags
      /\ "subscribed" \in flags' <=> "subscribed" \in flags
      /\ Waiting' = Waiting /\ OfMonitor' = OfMonitor
      /\ \A ch : Listening(ch)' = Listening(ch)
  BY DEF Same, SameRequests, Waiting, OfMonitor, Listening, Types
<1>2. Lists'
  BY <1>1 DEF Matching, Lists, Same, SameRequests, Ordered
<1>3. Subscribers'
  <2> SUFFICES ASSUME NEW ch \in Channels, Listening(ch)' PROVE made'[subs'[ch].cb] = "sub"
    BY DEF Subscribers
  <2>1. Listening(ch) /\ subs'[ch].cb = subs[ch].cb /\ subs[ch].cb \in Requests
    BY <1>1 DEF Same, Types, Listening
  <2>2. made[subs[ch].cb] = "sub"
    BY <2>1 DEF Matching, Subscribers
  <2> QED BY <2>1, <2>2 DEF SameRequests
<1>4. \A m : Sound(m)' = Sound(m)
  BY <1>1 DEF Sound
<1>5. \A a, b : Follows(a, b)' = Follows(a, b)
  BY DEF Follows, Same
<1>6. Right' = Right
  BY <1>5 DEF Right
<1>7. OnTheWay => OnTheWay'
  BY <1>1, <1>4, <1>6 DEF OnTheWay, Same, Ordered
<1>8. Serving => Serving'
  BY <1>1 DEF Serving, Same
<1> QED BY <1>1, <1>2, <1>3, <1>7, <1>8 DEF Matching, Same

LEMMA SameMonitoring ==
  ASSUME Types, Monitoring, Same, SameRequests,
         cb' = cb \/ cb' = None, lost' => split'
  PROVE  Monitoring'
<1>1. "monitoring" \in flags' /\ "subscribed" \notin flags'
  BY DEF Same, Monitoring
<1>2. OfMonitor' = OfMonitor
  BY DEF SameRequests, OfMonitor
<1>3. \A ch : Listening(ch)' = Listening(ch)
  BY DEF Same, Listening
<1> QED BY <1>1, <1>2, <1>3 DEF Monitoring, Same, SameRequests

\* The same, as long as the counts of callbacks and the turns are right.
Busy == poll # {} \/ pc \in {"process", "callback"}

LEMMA SameInTurn ==
  ASSUME InTurn, UNCHANGED <<made, calls>>, cb' = cb \/ cb' = None,
         "subscribed" \in flags' => "subscribed" \in flags,
         Busy \/ (poll' \subseteq poll /\ pc' \in {pc, "drain"})
  PROVE  InTurn'
<1>1. Busy => \E r \in Requests : made[r] # ""
  BY DEF InTurn, Busy
<1> QED BY <1>1 DEF InTurn

LEMMA LeavingStep ==
  ASSUME IInv, Disconnect \/ Free \/ ConnectFails \/ Return
  PROVE  IInv'
<1>1. Types'
  BY LeavingTypes DEF IInv
<1>2. /\ UNCHANGED <<cb, books, obuf, rbuf, poll, history, server>>
      /\ flags \subseteq flags' /\ flags' \subseteq flags \cup {"disconnecting", "freeing"}
      /\ \/ pc' = pc \/ pc' = "drain"
         \/ pc = "callback" /\ pc' = "process"
      /\ pc' = "drain" => Closing'
      /\ pc # "freed" /\ (pc' = "drain" \/ Alive' = Alive)
      /\ pc \in {"callback", "process"} \/ pc' # "process"
  BY DEF Disconnect, Free, ConnectFails, Return, Fail, Closing, Alive
<1>3. Same /\ SameRequests
  BY <1>2 DEF IInv, Types, Same, SameRequests, books, history, server, Near, Far
<1>4. InTurn'
  BY <1>2, <1>3, SameInTurn DEF IInv, history, Busy, Same
<1>5. Running'
  <2>1. pc' = "freed" => pc = "freed"
    BY <1>2
  <2>2. pc' = "idle" => pc = "idle"
    BY <1>2
  <2>3. Closing => Closing'
    BY <1>2 DEF Closing
  <2> QED BY <1>2, <2>1, <2>2, <2>3 DEF IInv, Running, Alive, books, history
<1>6. Monitoring => Monitoring'
  BY <1>2, <1>3, SameMonitoring DEF IInv, history, Monitoring
<1>7. Matching => Matching'
  BY <1>2, <1>3, SameMatching DEF IInv, history, Alive
<1>8. Attentive'
  <2>1. "monitoring" \in flags' => "monitoring" \in flags
    BY <1>3 DEF Same
  <2> QED BY <1>2, <2>1 DEF IInv, Attentive, books, history
<1> QED BY <1>1, <1>4, <1>5, <1>6, <1>7, <1>8 DEF IInv

LEMMA HandleWriteStep ==
  ASSUME IInv, HandleWrite
  PROVE  IInv'
<1>1. Types' /\ Far' = Far
  BY HandleWriteMoves DEF IInv
<1>2. /\ UNCHANGED <<cb, books, rbuf, history, back, serving>> /\ pc = "idle" /\ poll # {}
      /\ flags \subseteq flags' /\ flags' \subseteq flags \cup {"connected", "disconnecting"}
      /\ \/ pc' = pc
         \/ pc' = "drain" /\ "disconnecting" \in flags'
  BY DEF HandleWrite, Fail, Connected
<1>3. Same /\ SameRequests
  BY <1>1, <1>2 DEF IInv, Types, Same, SameRequests, books, history, Near
<1>4. InTurn'
  BY <1>2, <1>3, SameInTurn DEF IInv, history, Busy, Same
<1>5. Running'
  BY <1>2 DEF IInv, Running, Alive, Closing, history
<1>6. Monitoring => Monitoring'
  BY <1>2, <1>3, SameMonitoring DEF IInv, history, Monitoring
<1>7. Matching => Matching'
  BY <1>2, <1>3, SameMatching DEF IInv, history, Alive
<1>8. Attentive'
  <2>1. "monitoring" \in flags' => "monitoring" \in flags
    BY <1>3 DEF Same
  <2> QED BY <1>2, <2>1 DEF IInv, Attentive, books, history
<1> QED BY <1>1, <1>4, <1>5, <1>6, <1>7, <1>8 DEF IInv

LEMMA HandleReadStep ==
  ASSUME IInv, HandleRead
  PROVE  IInv'
<1>1. Types' /\ Near' = Near
  BY HandleReadMoves DEF IInv
<1>2. /\ UNCHANGED <<books, obuf, made, calls, astray, lost, wire, serving, poll>>
      /\ pc = "idle" /\ poll # {} /\ rbuf = <<>>
      /\ flags \subseteq flags' /\ flags' \subseteq flags \cup {"connected", "disconnecting"}
      /\ \/ pc' = "process"
         \/ pc' = "drain" /\ "disconnecting" \in flags'
      /\ cb' = cb \/ cb' = None
  BY DEF HandleRead, Fail, Connected, IInv, Running
<1>3. Same /\ SameRequests
  BY <1>1, <1>2 DEF IInv, Types, Same, SameRequests, books, Far
<1>4. InTurn'
  BY <1>2, <1>3, SameInTurn DEF IInv, Busy, Same
<1>5. Running'
  BY <1>2 DEF IInv, Running, Alive, Closing
<1>6. Monitoring => Monitoring'
  <2>1. split => split'
    BY DEF HandleRead
  <2> QED BY <1>2, <1>3, <2>1, SameMonitoring DEF IInv, Monitoring
<1>7. Matching => Matching'
  BY <1>2, <1>3, SameMatching DEF IInv, Alive
<1>8. Attentive'
  <2>1. "monitoring" \in flags' => "monitoring" \in flags
    BY <1>3 DEF Same
  <2>2. CASE pc' = "drain"
    BY <1>2, <2>1, <2>2 DEF IInv, Attentive, books, HandleRead, Fail
  <2>3. CASE pc' = "process"
    <3> PICK n \in 0..Len(back) :
          rbuf' = SubSeq(back, 1, n) /\ split' = (split \/ (n = 0 /\ "monitoring" \in flags))
      BY <2>3 DEF HandleRead, Fail
    <3>1. n > 0 => rbuf' # <<>>
      BY CutInTwo DEF IInv, Types
    <3>2. Len(back) \in Nat
      BY Elements, ZenonT(120) DEF IInv, Types
    <3>3. "monitoring" \in flags' /\ ~split' => n > 0 /\ ~split
      <4>1. n = 0 \/ n > 0
        BY <3>2
      <4>2. "monitoring" \in flags' /\ ~split' => ~(n = 0) /\ ~split
        BY <2>1, Zenon
      <4> QED BY <4>1, <4>2
    <3> QED BY <1>2, <2>1, <2>3, <3>1, <3>3 DEF IInv, Attentive, books
  <2> QED BY <1>2, <2>2, <2>3
<1> QED BY <1>1, <1>4, <1>5, <1>6, <1>7, <1>8 DEF IInv

LEMMA NoReplyStep ==
  ASSUME IInv, NoReply
  PROVE  IInv'
<1>0. replies \in Seq(Requests \cup {None}) /\ cb \in Requests \cup {None}
  BY DEF IInv, Types
<1>1. Types'
  BY LeavingTypes DEF IInv
<1>2. /\ UNCHANGED <<flags, cb, invalid, subs, obuf, rbuf, poll, history, server>>
      /\ pc = "process" /\ rbuf = <<>>
      /\ \/ pc' = "drain" /\ "disconnecting" \in flags /\ UNCHANGED replies
         \/ pc' = "idle" /\ replies' = Again
  BY DEF NoReply, Quit
<1>4. SameRequests
  BY <1>2 DEF IInv, Types, SameRequests, history
<1>5. InTurn'
  BY <1>2, SameInTurn DEF IInv, history, Busy
<1>6. Running'
  BY <1>2 DEF IInv, Running, Alive, Closing, history
<1>7. Monitoring => Monitoring'
  <2> SUFFICES ASSUME Monitoring PROVE Monitoring'
    OBVIOUS
  <2>1. Range(replies') \subseteq OfMonitor \cup {None}
    <3>1. Range(Append(replies, cb)) = Range(replies) \cup {cb}
      BY <1>0, Callbacks1
    <3> QED BY <1>2, <3>1 DEF Again, Monitoring
  <2> QED BY <1>2, <2>1 DEF Monitoring, OfMonitor, Listening, Near, Far, history, server
<1>8. Matching => Matching'
  <2> SUFFICES ASSUME Matching PROVE Matching'
    OBVIOUS
  <2>1. replies' = replies
    BY <1>2 DEF Again, Matching
  <2>2. Same
    BY <1>2, <2>1 DEF Same, history, server, Near, Far
  <2> QED BY <1>2, <1>4, <2>2, SameMatching DEF IInv, history, Alive
<1>9. Attentive'
  <2> SUFFICES ASSUME "monitoring" \in flags, ~split, pc' = "idle"
               PROVE  None \notin Range(replies') /\ replies' # <<>>
    BY <1>2 DEF IInv, Attentive, history
  <2>1. cb # None
    BY <1>2 DEF IInv, Attentive
  <2>2. Range(Append(replies, cb)) = Range(replies) \cup {cb} /\ Append(replies, cb) # <<>>
    BY <1>0, Callbacks1
  <2> QED BY <1>2, <2>1, <2>2 DEF Again, IInv, Attentive
<1> QED BY <1>1, <1>5, <1>6, <1>7, <1>8, <1>9 DEF IInv

-----------------------------------------------------------------------------
(* Callbacks run when the context goes                                     *)

\* Taking the head off a list of callbacks and running it.
LEMMA Shifted ==
  ASSUME NEW s \in Seq(Requests \cup {None}), s # <<>>, Ordered(s, Less)
  PROVE  /\ Ordered(Tail(s), Less) /\ Head(s) \notin Range(Tail(s))
         /\ Range(s) = {Head(s)} \cup Range(Tail(s))
         /\ \A r \in Range(Tail(s)) : Head(s) < r
<1>1. Ordered(Tail(s), Less) /\ \A r \in Range(Tail(s)) : <<Head(s), r>> \in Less
  BY OrderedRest
<1>2. \A r \in Range(Tail(s)) : Head(s) < r /\ Head(s) \in Nat
  BY <1>1 DEF Less
<1> QED BY <1>1, <1>2, Rest

LEMMA ListsShift ==
  ASSUME Types, Lists, UNCHANGED made,
         \/ replies # <<>> /\ CallBack(Head(replies)) /\ replies' = Tail(replies) /\ UNCHANGED invalid
         \/ invalid # <<>> /\ CallBack(Head(invalid)) /\ invalid' = Tail(invalid) /\ UNCHANGED replies
  PROVE  Lists'
<1>1. CASE replies # <<>> /\ CallBack(Head(replies)) /\ replies' = Tail(replies) /\ UNCHANGED invalid
  <2> DEFINE h == Head(replies)
  <2>1. /\ Ordered(Tail(replies), Less) /\ h \notin Range(Tail(replies))
        /\ Range(replies) = {h} \cup Range(Tail(replies))
    BY <1>1, Shifted DEF Types, Lists
  <2>2. h \notin Range(invalid)
    <3>1. h \in Range(replies) /\ \A q \in Range(replies), r \in Range(invalid) : q < r
      BY <2>1 DEF Lists
    <3>2. h \in Nat
      BY <3>1 DEF Lists, Waiting, Requests
    <3> HIDE DEF h
    <3>3. ~(h < h)
      BY <3>2
    <3> QED BY <3>1, <3>3
  <2>3. h \in Requests /\ made[h] = "plain" /\ calls[h] = 0 /\ h # None
    BY <2>1 DEF Lists, Waiting, Requests, None
  <2>4. calls'[h] = 1 /\ \A q \in Requests : q # h => calls'[q] = calls[q]
    BY <1>1, <2>3, CallBackType DEF Types
  <2>5. Waiting' = Waiting \ {h}
    BY <1>1, <2>1, <2>2 DEF Waiting
  <2> QED BY <1>1, <2>1, <2>3, <2>4, <2>5 DEF Lists
<1>2. CASE invalid # <<>> /\ CallBack(Head(invalid)) /\ invalid' = Tail(invalid) /\ UNCHANGED replies
  <2> DEFINE h == Head(invalid)
  <2>1. /\ Ordered(Tail(invalid), Less) /\ h \notin Range(Tail(invalid))
        /\ Range(invalid) = {h} \cup Range(Tail(invalid))
    BY <1>2, Shifted DEF Types, Lists
  <2>2. h \notin Range(replies)
    <3>1. h \in Range(invalid) /\ \A q \in Range(replies), r \in Range(invalid) : q < r
      BY <2>1 DEF Lists
    <3>2. h \in Nat
      BY <3>1 DEF Lists, Waiting, Requests
    <3> HIDE DEF h
    <3>3. ~(h < h)
      BY <3>2
    <3> QED BY <3>1, <3>3
  <2>3. h \in Requests /\ made[h] = "plain" /\ calls[h] = 0 /\ h # None
    BY <2>1 DEF Lists, Waiting, Requests, None
  <2>4. calls'[h] = 1 /\ \A q \in Requests : q # h => calls'[q] = calls[q]
    BY <1>2, <2>3, CallBackType DEF Types
  <2>5. Waiting' = Waiting \ {h}
    BY <1>2, <2>1, <2>2 DEF Waiting
  <2> QED BY <1>2, <2>1, <2>3, <2>4, <2>5 DEF Lists
<1> QED BY <1>1, <1>2

\* Running the callback of a subscription changes no count of a plain command.
LEMMA ListsOther ==
  ASSUME Types, Lists, UNCHANGED <<made, replies, invalid>>,
         NEW r \in Requests \cup {None}, r # None => made[r] # "plain", CallBack(r)
  PROVE  Lists'
<1>1. \A q \in Requests : made[q] = "plain" => calls'[q] = calls[q]
  BY CallBackType DEF Types, CallBack
<1> QED BY <1>1 DEF Lists, Waiting, Ordered

LEMMA DrainStep ==
  ASSUME IInv, Drain
  PROVE  IInv'
<1>1. Types'
  BY DrainTypes DEF IInv
<1>2. /\ UNCHANGED <<flags, err, cb, obuf, rbuf, poll, made, astray, split, lost, server>>
      /\ pc = "drain" /\ ~Alive /\ ~Alive' /\ pc' \in {"drain", "freed"}
  BY DEF Drain, Alive
<1>3. \/ /\ replies # <<>> /\ CallBack(Head(replies)) /\ replies' = Tail(replies)
         /\ UNCHANGED <<invalid, subs, pc>>
      \/ /\ replies = <<>>
         /\ invalid # <<>> /\ CallBack(Head(invalid)) /\ invalid' = Tail(invalid)
         /\ UNCHANGED <<replies, subs, pc>>
      \/ /\ replies = <<>> /\ invalid = <<>>
         /\ \E ch \in Channels :
              Listening(ch) /\ CallBack(subs[ch].cb) /\ subs' = [subs EXCEPT ![ch].cb = None]
         /\ UNCHANGED <<replies, invalid, pc>>
      \/ replies = <<>> /\ invalid = <<>> /\ UNCHANGED <<books, calls>>
  BY DEF Drain, Shift
<1>0. /\ replies \in Seq(Requests \cup {None}) /\ invalid \in Seq(Requests \cup {None})
      /\ replies # <<>> => Range(replies) = {Head(replies)} \cup Range(Tail(replies))
      /\ invalid # <<>> => Range(invalid) = {Head(invalid)} \cup Range(Tail(invalid))
  BY CallbacksRest DEF IInv, Types
<1>4. Range(replies') \subseteq Range(replies) /\ Range(invalid') \subseteq Range(invalid)
  BY <1>0, <1>3 DEF books
<1>5. \A ch \in Channels : Listening(ch)' => Listening(ch) /\ subs'[ch].cb = subs[ch].cb
  <2>1. \/ subs' = subs
        \/ \E ch \in Channels : subs' = [subs EXCEPT ![ch].cb = None]
    BY <1>3 DEF books
  <2>2. CASE subs' = subs
    BY <2>2 DEF Listening
  <2>3. ASSUME NEW x \in Channels, subs' = [subs EXCEPT ![x].cb = None], NEW ch \in Channels,
               Listening(ch)'
        PROVE  Listening(ch) /\ subs'[ch].cb = subs[ch].cb
    <3>1. DOMAIN subs = Channels /\ subs[x] = [cb |-> subs[x].cb, pending |-> subs[x].pending]
      BY Zenon DEF IInv, Types
    <3>2. subs'[x].cb = None /\ (ch # x => subs'[ch] = subs[ch])
      <4>1. subs'[x] = [subs[x] EXCEPT !.cb = None] /\ (ch # x => subs'[ch] = subs[ch])
        BY <2>3, <3>1
      <4>2. [[cb |-> subs[x].cb, pending |-> subs[x].pending] EXCEPT !.cb = None]
              = [cb |-> None, pending |-> subs[x].pending]
        OBVIOUS
      <4>3. subs'[x] = [cb |-> None, pending |-> subs[x].pending]
        BY <3>1, <4>1, <4>2, Zenon
      <4> QED BY <4>1, <4>3
    <3> QED BY <2>3, <3>2 DEF Listening
  <2> QED BY <2>1, <2>2, <2>3
<1>6. \A r \in Requests : made[r] \in {"", "refused"} => calls'[r] = calls[r]
  <2>1. \/ UNCHANGED calls
        \/ \E q \in Requests \cup {None} :
              CallBack(q) /\ (q # None => made[q] \notin {"", "refused"})
    <3>1. CASE Monitoring
      <4>1. /\ replies # <<>> => Head(replies) \in OfMonitor \cup {None}
            /\ invalid = <<>> /\ \A ch \in Channels : ~Listening(ch)
        BY <1>0, <3>1 DEF Monitoring
      <4>2. OfMonitor \subseteq Requests /\ \A r \in OfMonitor : made[r] \notin {"", "refused"}
        BY DEF OfMonitor
      <4> QED BY <1>3, <4>1, <4>2
    <3>2. CASE Matching
      <4>1. /\ replies # <<>> => Head(replies) \in Waiting
            /\ invalid # <<>> => Head(invalid) \in Waiting
        BY <1>0 DEF Waiting
      <4>2. \A r \in Waiting : r \in Requests /\ made[r] = "plain"
        BY <3>2 DEF Matching, Lists
      <4>3. \A ch \in Channels : Listening(ch) =>
              subs[ch].cb \in Requests \cup {None} /\ made[subs[ch].cb] = "sub"
        BY <3>2 DEF Matching, Subscribers, IInv, Types
      <4> QED BY <1>3, <4>1, <4>2, <4>3
    <3> QED BY <3>1, <3>2 DEF IInv
  <2> QED BY <2>1, CallBackType DEF IInv, Types, CallBack
<1>7. InTurn'
  BY <1>2, <1>6 DEF IInv, InTurn
<1>8. Running'
  <2>1. pc' = "freed" => replies' = <<>> /\ invalid' = <<>>
    BY <1>2, <1>3 DEF books
  <2> QED BY <1>2, <2>1 DEF IInv, Running, Alive, Closing
<1>9. Monitoring => Monitoring'
  <2> SUFFICES ASSUME Monitoring PROVE Monitoring'
    OBVIOUS
  <2>1. invalid' = <<>>
    BY <1>3 DEF Monitoring, books
  <2> QED BY <1>2, <1>4, <1>5, <2>1 DEF Monitoring, OfMonitor, Near, Far, server
<1>10. Matching => Matching'
  <2> SUFFICES ASSUME Matching PROVE Matching'
    OBVIOUS
  <2>1. Lists'
    <3>1. CASE replies # <<>> /\ CallBack(Head(replies)) /\ replies' = Tail(replies)
               /\ UNCHANGED <<invalid, subs, pc>>
      BY <1>2, <3>1, ListsShift DEF IInv, Matching
    <3>2. CASE invalid # <<>> /\ CallBack(Head(invalid)) /\ invalid' = Tail(invalid)
               /\ UNCHANGED <<replies, subs, pc>>
      BY <1>2, <3>2, ListsShift DEF IInv, Matching
    <3>3. ASSUME NEW ch \in Channels, Listening(ch), CallBack(subs[ch].cb),
                 UNCHANGED <<replies, invalid>>
          PROVE  Lists'
      <4>1. made[subs[ch].cb] = "sub" /\ subs[ch].cb \in Requests \cup {None}
        BY <3>3 DEF Matching, Subscribers, IInv, Types
      <4> QED BY <1>2, <3>3, <4>1, ListsOther DEF IInv, Matching
    <3>4. CASE UNCHANGED <<books, calls>>
      BY <1>2, <3>4 DEF Matching, Lists, Waiting, Ordered, books
    <3> QED BY <1>3, <3>1, <3>2, <3>3, <3>4
  <2>2. Subscribers'
    BY <1>2, <1>5 DEF Matching, Subscribers
  <2> QED BY <1>2, <2>1, <2>2 DEF Matching, OfMonitor, server
<1>11. Attentive'
  <2>1. pc' # "idle" /\ pc' # "callback" /\ pc' # "process"
    BY <1>2
  <2> QED BY <1>2, <1>4, <2>1 DEF IInv, Attentive
<1> QED BY <1>1, <1>7, <1>8, <1>9, <1>10, <1>11 DEF IInv

-----------------------------------------------------------------------------
(* The server's steps                                                      *)

\* A step of the server changes nothing but what is on its way and whom it serves.
Serverside ==
  /\ UNCHANGED <<flags, pc, err, cb, books, obuf, rbuf, poll, history>>
  /\ Types' /\ Range(Far') \subseteq Range(Far)

LEMMA ServersideStep ==
  ASSUME IInv, Serverside,
         Monitoring => /\ \A m \in Range(Near') : m.what \in {"monitor", "line"}
                       /\ serving' \subseteq {None},
         Matching /\ Alive => OnTheWay' /\ Serving'
  PROVE  IInv'
<1> USE DEF Serverside
<1>1. InTurn' /\ Running' /\ Attentive'
  BY DEF IInv, InTurn, Running, Alive, Closing, Attentive, books, history
<1>2. Monitoring => Monitoring'
  BY DEF Monitoring, OfMonitor, Listening, books, history
<1>3. Matching => Matching'
  BY DEF Matching, OfMonitor, Lists, Waiting, Ordered, Subscribers, Listening, Alive, books, history
<1> QED BY <1>1, <1>2, <1>3 DEF IInv

LEMMA SpontaneousStep ==
  ASSUME IInv, Spontaneous
  PROVE  IInv'
<1>1. Types' /\ Far' = Far
  BY SpontaneousMoves DEF IInv
<1>2. /\ UNCHANGED <<flags, pc, err, cb, books, obuf, rbuf, poll, history, wire, serving>>
  BY DEF Spontaneous
<1>3. Serverside
  BY <1>1, <1>2 DEF Serverside
<1>4. CASE Near' = Near
  <2>1. Same /\ SameRequests /\ UNCHANGED lost /\ Alive' = Alive
    BY <1>1, <1>2, <1>4 DEF IInv, Types, Same, SameRequests, books, history, Alive
  <2>2. Matching => Matching'
    BY <2>1, SameMatching DEF IInv
  <2> QED BY <1>2, <1>3, <1>4, <2>1, <2>2, ServersideStep DEF Monitoring, Matching
<1>5. ASSUME NEW c \in serving, NEW m \in Heard, Near' = Cat(Near, <<m>>),
             c = None => m = [what |-> "line", of |-> <<>>],
             c # None => m = [what |-> "message", of |-> <<c>>]
      PROVE  IInv'
  <2>1. /\ Near \in Seq(Heard) /\ Range(Near') = Range(Near) \cup {m}
        /\ Near' \in Seq(Heard)
    <3>1. <<m>> \in Seq(Heard) /\ Range(<<m>>) = {m}
      BY One
    <3>2. Near \in Seq(Heard)
      BY BothWays DEF IInv
    <3> QED BY <1>5, <3>1, <3>2, HeardCat
  <2>2. ASSUME Monitoring, NEW x \in Range(Near') PROVE x.what \in {"monitor", "line"}
    <3>1. c = None /\ \A y \in Range(Near) : y.what \in {"monitor", "line"}
      BY <2>2 DEF Monitoring
    <3>2. m.what = "line"
      BY <1>5, <3>1
    <3> QED BY <2>1, <2>2, <3>1, <3>2
  <2>3. ASSUME Matching, Alive PROVE OnTheWay' /\ Serving'
    <3>1. /\ OnTheWay /\ Serving
          /\ c \in Channels /\ m.what = "message" /\ m.of = <<c>> /\ m.of[1] = c /\ m.of # <<>>
          /\ DOMAIN m.of = 1..1 /\ Listening(c) /\ serving # {} /\ "subscribed" \in flags
      <4>1. c \in Channels
        <5>1. serving \subseteq Channels \cup {None}
          BY DEF IInv, Types
        <5>2. None \notin serving
          BY <2>3 DEF Matching, Serving
        <5> QED BY <5>1, <5>2
      <4>2. <<c>> # <<>> /\ <<c>>[1] = c /\ DOMAIN <<c>> = 1..1
        BY <4>1, One, Elements
      <4> QED BY <1>5, <2>3, <4>1, <4>2 DEF Matching, Serving, None, Channels
    <3>2. Waiting' = Waiting /\ (\A ch : Listening(ch)' = Listening(ch)) /\ flags' = flags
          /\ (\A x : Sound(x)' = Sound(x)) /\ Right' = Right
      BY <1>2 DEF Waiting, Listening, Sound, Right, Follows, books
    <3>3. Sound(m)
      BY <3>1 DEF Sound, IsArray
    <3>4. Ordered(Cat(Near', Far'), Right)
      <4>1. Ordered(Cat(Near, Far), Right)
        BY <3>1, BothWays DEF OnTheWay, IInv
      <4>2. Ordered(Near, Right) /\ Ordered(Far, Right)
            /\ \A x \in Range(Near), y \in Range(Far) : <<x, y>> \in Right
        BY <4>1, BothWays, OrderedCat DEF IInv
      <4>3. m \in Items /\ <<m>> \in Seq(Items) /\ Range(<<m>>) = {m} /\ Ordered(<<m>>, Right)
        BY One, OrderedShort DEF Items
      <4>4. \A x \in Range(Near) : <<x, m>> \in Right
        <5> SUFFICES ASSUME NEW x \in Range(Near) PROVE <<x, m>> \in Right
          OBVIOUS
        <5>1. x \in Items
          BY BothWays, Elements DEF IInv
        <5>2. x.what = "unsub" => c # x.of[1]
          BY <3>1 DEF OnTheWay
        <5>3. Follows(x, m)
          BY <3>1, <5>2 DEF Follows, IsReply, IsArray
        <5> QED BY <4>3, <5>1, <5>3 DEF Right
      <4>5. \A y \in Range(Far) : <<m, y>> \in Right
        <5> SUFFICES ASSUME NEW y \in Range(Far) PROVE <<m, y>> \in Right
          OBVIOUS
        <5>1. y \in Items
          BY BothWays, Elements DEF IInv
        <5>2. IsReply(y) => y.of[1] \notin Range(replies)
          BY <3>1 DEF Serving
        <5>3. Follows(m, y)
          BY <3>1, <5>2 DEF Follows, IsReply, IsArray
        <5> QED BY <4>3, <5>1, <5>3 DEF Right
      <4>6. Ordered(Near', Right) /\ Near' \in Seq(Items)
        BY <1>5, <4>2, <4>3, <4>4, BothWays, OrderedCat, CatSeq, CatRange DEF IInv
      <4>7. \A x \in Range(Near'), y \in Range(Far) : <<x, y>> \in Right
        BY <2>1, <4>2, <4>5
      <4> QED BY <1>1, <4>2, <4>6, <4>7, BothWays, OrderedCat DEF IInv
    <3>5. OnTheWay'
      <4>1. Ordered(Near \o Far, Right)'
        BY <3>2, <3>4 DEF Cat, Ordered
      <4>2. serving' = serving
        BY <1>2
      <4> QED BY <1>1, <2>1, <3>1, <3>2, <3>3, <4>1, <4>2 DEF OnTheWay
    <3>6. Serving'
      BY <1>1, <1>2, <3>1, <3>2 DEF Serving, books
    <3> QED BY <3>5, <3>6
  <2> QED BY <1>2, <1>3, <2>2, <2>3, ServersideStep DEF Monitoring, Matching
<1> QED BY <1>4, <1>5, SpontaneousMoves DEF IInv

LEMMA OrderedAll ==
  ASSUME NEW S, NEW s \in Seq(S), NEW R, \A x, y \in Range(s) : <<x, y>> \in R
  PROVE  Ordered(s, R)
  BY Elements DEF Ordered

\* The answers are as sound as what they answer, and come in its place.
LEMMA AnswersAre ==
  ASSUME Types, Matching, Alive, NEW c \in Range(Far), NEW ans \in Seq(Heard), Answers(c, ans)
  PROVE  /\ c \in Written /\ c.what \in {"plain", "sub", "unsub"} /\ ans \in Seq(Items)
         /\ \A m \in Range(ans) : Sound(m)
         /\ \A m \in Range(ans), x \in Items : x.what # "unsub" /\ Follows(x, c) => Follows(x, m)
         /\ \A m \in Range(ans), y \in Items : y.what # "unsub" /\ Follows(c, y) => Follows(m, y)
         /\ Ordered(ans, Right)
         /\ IsReply(c) => \E m \in Range(ans) : IsReply(m) /\ m.of = c.of
         /\ \A m \in Range(ans) : m.what = "unsub" => m.of = c.of /\ c.what = "unsub"
         /\ \A m \in Range(ans) : m.what = "sub" => m.of = <<m.of[1]>>
<1>1. c \in Written /\ Sound(c)
  BY BothWays, Elements DEF Matching, OnTheWay
<1>2. c.what \in {"plain", "sub", "unsub"}
  BY <1>1, WrittenIs DEF Sound, Calls, IsReply, IsArray
<1>3. ans \in Seq(Items) /\ Range(ans) \subseteq Heard /\ Range(ans) \subseteq Items
  BY SeqMonotonic, Elements DEF Items
<1>4. CASE c.what = "sub"
  <2>1. ASSUME NEW m \in Range(ans)
        PROVE  m.what = "sub" /\ m.of = <<m.of[1]>> /\ Sound(m)
    <3> PICK i \in DOMAIN c.of : m.what = "sub" /\ m.of = <<c.of[i]>>
      BY <1>4 DEF Answers
    <3>1. c.of[i] \in Channels /\ Listening(c.of[i]) /\ "subscribed" \in flags
      BY <1>1, <1>4, WrittenIs, Elements DEF Sound, IsReply
    <3>2. m.of[1] = c.of[i] /\ DOMAIN m.of = 1..1 /\ m.of # <<>>
      BY <3>1, One, Elements
    <3> QED BY <3>1, <3>2 DEF Sound, IsArray
  <2>2. \A m \in Range(ans), x \in Items : x.what # "unsub" /\ Follows(x, c) => Follows(x, m)
    BY <2>1 DEF Follows, IsReply, IsArray
  <2>3. \A m \in Range(ans), y \in Items : y.what # "unsub" /\ Follows(c, y) => Follows(m, y)
    BY <1>4, <2>1 DEF Follows, IsReply, IsArray
  <2>4. \A m, x \in Range(ans) : <<m, x>> \in Right
    BY <1>3, <2>1 DEF Right, Follows, IsReply, IsArray
  <2>5. Ordered(ans, Right)
    BY <2>4, OrderedAll
  <2> QED BY <1>1, <1>3, <1>4, <2>1, <2>2, <2>3, <2>5 DEF IsReply
<1>5. CASE c.what = "unsub"
  <2> PICK n \in Nat : ans = <<[what |-> "unsub", of |-> c.of, left |-> n]>>
    BY <1>5 DEF Answers
  <2> DEFINE m == [what |-> "unsub", of |-> c.of, left |-> n]
  <2>1. m.what = "unsub" /\ m.of = c.of /\ m \in Heard
    BY <1>1, <1>5, WrittenIs DEF Heard
  <2> HIDE DEF m
  <2>2. ans = <<m>>
    BY DEF m
  <2>3. Range(ans) = {m} /\ Ordered(ans, Right)
    BY <2>1, <2>2, One, OrderedShort
  <2>4. Sound(m)
    BY <1>1, <1>5, <2>1 DEF Sound, IsReply, IsArray
  <2>5. \A x \in Items : x.what # "unsub" /\ Follows(x, c) => Follows(x, m)
    BY <1>5, <2>1 DEF Follows, IsReply, IsArray
  <2>6. \A y \in Items : y.what # "unsub" /\ Follows(c, y) => Follows(m, y)
    BY <1>5, <2>1 DEF Follows, IsReply, IsArray
  <2> QED BY <1>1, <1>3, <1>5, <2>1, <2>3, <2>4, <2>5, <2>6 DEF IsReply
<1>6. CASE c.what = "plain"
  <2> PICK m \in Range(ans) : Range(ans) = {m} /\ m.what \in {"plain", "error"} /\ m.of = c.of
                              /\ Ordered(ans, Right)
    <3>1. ASSUME NEW m \in Items, ans = <<m>>
          PROVE  Range(ans) = {m} /\ Ordered(ans, Right)
      BY <3>1, One, OrderedShort
    <3>2. CASE ans = <<c>>
      BY <1>1, <1>6, <3>1, <3>2 DEF Items
    <3>3. CASE ans = <<[what |-> "error", of |-> c.of]>>
      <4> DEFINE m == [what |-> "error", of |-> c.of]
      <4>1. m \in Items /\ m.what = "error" /\ m.of = c.of
        BY <1>1, <1>6, WrittenIs DEF Items, Heard
      <4> HIDE DEF m
      <4>2. ans = <<m>>
        BY <3>3 DEF m
      <4> QED BY <3>1, <4>1, <4>2
    <3> QED BY <1>6, <3>2, <3>3 DEF Answers
  <2>1. Sound(m)
    BY <1>1, <1>6 DEF Sound, IsReply, IsArray
  <2>2. \A x \in Items : x.what # "unsub" /\ Follows(x, c) => Follows(x, m)
    BY <1>6 DEF Follows, IsReply, IsArray
  <2>3. \A y \in Items : y.what # "unsub" /\ Follows(c, y) => Follows(m, y)
    BY <1>6 DEF Follows, IsReply, IsArray
  <2> QED BY <1>1, <1>3, <1>6, <2>1, <2>2, <2>3 DEF IsReply
<1> QED BY <1>2, <1>4, <1>5, <1>6

LEMMA ServeOnTheWay ==
  ASSUME Types, Types', Matching, Alive, UNCHANGED <<flags, books>>,
         Far # <<>>, Far' = Tail(Far),
         NEW ans \in Seq(Heard), Near' = Cat(Near, ans), Answers(Head(Far), ans)
  PROVE  OnTheWay' /\ Serving'
<1> DEFINE c == Head(Far)
<1>1. OnTheWay /\ Serving
  BY DEF Matching
<1>2. /\ Range(Far) = {c} \cup Range(Far') /\ c \in Range(Far)
      /\ Near \in Seq(Items) /\ Near' \in Seq(Items) /\ Far \in Seq(Items) /\ Far' \in Seq(Items)
  <2>1. /\ Near \in Seq(Items) /\ Far \in Seq(Items)
        /\ Near' \in Seq(Items) /\ Far' \in Seq(Items)
    <3>1. Near \in Seq(Heard) /\ Near \in Seq(Items) /\ Far \in Seq(Items)
      BY BothWays
    <3>2. Near' \in Seq(Heard) /\ Heard \subseteq Items
      BY <3>1, HeardCat DEF Items
    <3>3. Near' \in Seq(Items)
      BY <3>2, SeqMonotonic
    <3>4. Tail(Far) \in Seq(Items)
      BY <3>1, Rest
    <3> QED BY <3>1, <3>3, <3>4
  <2>2. Range(Far) = {c} \cup Range(Tail(Far))
    BY <2>1, Rest
  <2> QED BY <2>1, <2>2
<1> HIDE DEF c
<1>3. /\ c \in Written /\ c.what \in {"plain", "sub", "unsub"} /\ ans \in Seq(Items)
      /\ \A m \in Range(ans) : Sound(m)
      /\ \A m \in Range(ans), x \in Items : x.what # "unsub" /\ Follows(x, c) => Follows(x, m)
      /\ \A m \in Range(ans), y \in Items : y.what # "unsub" /\ Follows(c, y) => Follows(m, y)
      /\ Ordered(ans, Right)
      /\ IsReply(c) => \E m \in Range(ans) : IsReply(m) /\ m.of = c.of
      /\ \A m \in Range(ans) : m.what = "unsub" => m.of = c.of /\ c.what = "unsub"
      /\ \A m \in Range(ans) : m.what = "sub" => m.of = <<m.of[1]>>
  BY <1>2, AnswersAre DEF c
<1>4. Range(Near') = Range(Near) \cup Range(ans) /\ Range(ans) \subseteq Items
  <2>1. Near \in Seq(Heard)
    BY BothWays
  <2>2. Range(Near') = Range(Near) \cup Range(ans)
    BY <2>1, HeardCat
  <2> QED BY <1>3, <2>2, Elements
<1>5. /\ Waiting' = Waiting /\ \A ch : Listening(ch)' = Listening(ch)
      /\ (\A x : Sound(x)' = Sound(x)) /\ Right' = Right
  BY DEF Waiting, Listening, Sound, Right, Follows, books
<1>6. /\ Ordered(Near, Right) /\ Ordered(Far, Right)
      /\ \A x \in Range(Near), y \in Range(Far) : <<x, y>> \in Right
  <2>1. Ordered(Cat(Near, Far), Right)
    BY <1>1, BothWays DEF OnTheWay
  <2> QED BY <1>2, <2>1, OrderedCat
<1>7. Ordered(Far', Right) /\ \A y \in Range(Far') : <<c, y>> \in Right
  BY <1>2, <1>6, OrderedRest DEF c
<1>8. \A x \in Range(Near) : x \in Items /\ x.what # "unsub" /\ Follows(x, c)
  <2>1. \A x \in Range(Near) : x \in Items /\ Follows(x, c)
    BY <1>2, <1>6 DEF Right
  <2> QED BY <1>3, <2>1 DEF Follows
<1>9. \A y \in Range(Far') : y \in Items /\ Follows(c, y) /\ y.what # "unsub"
  <2>1. \A y \in Range(Far') : y \in Items /\ Follows(c, y)
    BY <1>7 DEF Right
  <2> QED BY <1>3, <2>1 DEF Follows
<1>10. \A m \in Range(ans) : /\ \A x \in Range(Near) : <<x, m>> \in Right
                             /\ \A y \in Range(Far') : <<m, y>> \in Right
  BY <1>3, <1>4, <1>8, <1>9 DEF Right
<1>11. Ordered(Cat(Near', Far'), Right)
  <2>1. Ordered(Near', Right)
    BY <1>2, <1>3, <1>6, <1>10, OrderedCat
  <2>2. \A x \in Range(Near'), y \in Range(Far') : <<x, y>> \in Right
    BY <1>2, <1>4, <1>6, <1>10
  <2> QED BY <1>2, <1>7, <2>1, <2>2, OrderedCat
<1>12. c.what \in {"sub", "unsub"} => c.of # <<>> /\ c.of \in Seq(Channels)
         /\ c.of[1] \in ToSet(c.of) /\ ToSet(c.of) \subseteq Channels
         /\ (\A ch \in ToSet(c.of) : Listening(ch)) /\ "subscribed" \in flags
  <2> SUFFICES ASSUME c.what \in {"sub", "unsub"}
      PROVE  c.of # <<>> /\ c.of \in Seq(Channels)
         /\ c.of[1] \in ToSet(c.of) /\ ToSet(c.of) \subseteq Channels
         /\ (\A ch \in ToSet(c.of) : Listening(ch)) /\ "subscribed" \in flags
    OBVIOUS
  <2>1. Sound(c) /\ c.of \in Seq(Channels)
    BY <1>1, <1>2, <1>3, WrittenIs DEF OnTheWay
  <2>2. c.of # <<>> /\ "subscribed" \in flags /\ \A i \in DOMAIN c.of : Listening(c.of[i])
    BY <2>1 DEF Sound, IsReply
  <2>3. 1 \in DOMAIN c.of /\ \A i \in DOMAIN c.of : c.of[i] \in Channels
    BY <2>1, <2>2, Elements
  <2> QED BY <2>1, <2>2, <2>3 DEF ToSet
<1>13. /\ c.what = "sub" => serving' = serving \cup ToSet(c.of)
       /\ c.what = "unsub" => serving' = serving \ ToSet(c.of)
       /\ c.what = "plain" => serving' = serving
  BY DEF Answers, c
<1>14. OnTheWay'
  <2>1. \A m \in Range(Near') \cup Range(Far') : Sound(m)
    BY <1>1, <1>2, <1>3, <1>4 DEF OnTheWay
  <2>2. \A r \in Waiting : \E m \in Range(Near') \cup Range(Far') : IsReply(m) /\ m.of = <<r>>
    BY <1>1, <1>2, <1>3, <1>4 DEF OnTheWay
  <2>3. \A m \in Range(Near') : m.what = "unsub" => m.of[1] \notin serving'
    BY <1>3, <1>4, <1>8, <1>12, <1>13
  <2>4. \A m \in Range(Near') : m.what = "sub" => m.of = <<m.of[1]>>
    BY <1>1, <1>3, <1>4 DEF OnTheWay
  <2>5. Ordered(Near \o Far, Right)'
    BY <1>5, <1>11 DEF Cat, Ordered
  <2> QED BY <1>5, <2>1, <2>2, <2>3, <2>4, <2>5 DEF OnTheWay
<1>15. Serving'
  <2>1. None \notin serving' /\ \A ch \in serving' : Listening(ch)
    BY <1>1, <1>3, <1>12, <1>13 DEF Serving, Channels, None
  <2>2. serving' # {} => \A m \in Range(Far') : IsReply(m) => m.of[1] \notin Range(replies)
    BY <1>1, <1>2, <1>3, <1>9, <1>13 DEF Serving, Follows, IsArray
  <2>3. "subscribed" \notin flags => serving' = {} /\ invalid = <<>>
    BY <1>1, <1>3, <1>12, <1>13 DEF Serving
  <2> QED BY <1>5, <2>1, <2>2, <2>3 DEF Serving, books
<1> QED BY <1>14, <1>15

LEMMA ServeStep ==
  ASSUME IInv, Serve
  PROVE  IInv'
<1>1. PICK ans \in Seq(Heard) : Near' = Cat(Near, ans) /\ Answers(Head(Far), ans)
  BY ServeMoves DEF IInv
<1>2. Types' /\ Far # <<>> /\ Head(Far) \in Written /\ Far' = Tail(Far)
  BY ServeMoves DEF IInv
<1>3. UNCHANGED <<flags, pc, err, cb, books, obuf, rbuf, poll, history>>
  BY DEF Serve
<1>4. Range(Far) = {Head(Far)} \cup Range(Far') /\ Near \in Seq(Heard)
  BY <1>2, BothWays, Rest DEF IInv
<1>5. Serverside
  BY <1>2, <1>3, <1>4 DEF Serverside
<1>6. ASSUME Monitoring
      PROVE  (\A m \in Range(Near') : m.what \in {"monitor", "line"}) /\ serving' \subseteq {None}
  <2>1. Head(Far).what = "monitor"
    BY <1>2, <1>4, <1>6 DEF Monitoring, Written
  <2>2. ans = <<Head(Far)>> /\ serving' = serving \cup {None} /\ Head(Far) \in Heard
    BY <1>1, <1>2, <2>1, WrittenIs DEF Answers
  <2>3. Range(ans) = {Head(Far)}
    BY <2>2, One
  <2>4. Range(Near') = Range(Near) \cup Range(ans)
    BY <1>1, <1>4, HeardCat
  <2> QED BY <1>6, <2>1, <2>2, <2>3, <2>4 DEF Monitoring
<1>7. Matching /\ Alive => OnTheWay' /\ Serving'
  BY <1>1, <1>2, <1>3, ServeOnTheWay DEF IInv
<1> QED BY <1>5, <1>6, <1>7, ServersideStep

-----------------------------------------------------------------------------
(* A command                                                               *)

LEMMA InFlightIs ==
  ASSUME Types
  PROVE  \A m \in Range(Near) \cup Range(Far) : \E i \in DOMAIN InFlight : InFlight[i] = m
<1>1. /\ obuf \in Seq(Items) /\ wire \in Seq(Items)
      /\ back \in Seq(Items) /\ rbuf \in Seq(Items)
  <2>1. /\ obuf \in Seq(Written) /\ wire \in Seq(Written)
        /\ back \in Seq(Heard) /\ rbuf \in Seq(Heard)
    BY Zenon DEF Types
  <2>2. Written \subseteq Items /\ Heard \subseteq Items
    BY DEF Items
  <2> QED BY <2>1, <2>2, SeqMonotonic, Zenon
<1>2. \A s, t \in Seq(Items) :
        Cat(s, t) \in Seq(Items) /\ Range(Cat(s, t)) = Range(s) \cup Range(t)
  BY CatSeq, CatRange
<1>3. InFlight = Cat(Cat(Cat(obuf, wire), back), rbuf)
      /\ Near = Cat(rbuf, back) /\ Far = Cat(wire, obuf)
  BY DEF InFlight, Near, Far, Cat
<1>4. InFlight \in Seq(Items) /\ Range(InFlight) = Range(Near) \cup Range(Far)
  BY <1>1, <1>2, <1>3
<1>5. \A m \in Range(InFlight) : \E i \in DOMAIN InFlight : InFlight[i] = m
  BY DEF Range
<1> QED BY <1>4, <1>5

\* What every command that is made finds, and does to the turns.
LEMMA CommandInTurn ==
  ASSUME Types, InTurn, NEW r \in Requests, NEW what \in Calls, NEW chs \in Arguments(what),
         Command(r, what, chs)
  PROVE  /\ InTurn' /\ calls[r] = 0
         /\ \A q \in Requests : made[q] # "" => q < r
         /\ Requests \subseteq Nat
<1>1. /\ made[r] = "" /\ (\A q \in Requests : q < r => made[q] # "") /\ UNCHANGED calls
      /\ \E v \in Calls \cup {"refused"} :
           made' = [made EXCEPT ![r] = v] /\ (v = "refused" \/ v = what)
  BY DEF Command
<1>2. Requests \subseteq Nat /\ made \in [Requests -> Calls \cup {"", "refused"}]
  <2>1. Requests \subseteq Nat
    BY RedisAssumption DEF Requests
  <2> QED BY <2>1, Zenon DEF Types
<1>3. calls[r] = 0
  BY <1>1 DEF InTurn
<1>4. ASSUME NEW q \in Requests, made[q] # "" PROVE q < r
  <2>1. q # r /\ ~(r < q)
    BY <1>1, <1>4 DEF InTurn
  <2>2. q \in Nat /\ r \in Nat
    BY <1>2, Zenon
  <2>3. \A a, b \in Nat : a # b /\ ~(b < a) => a < b
    OBVIOUS
  <2> QED BY <2>1, <2>2, <2>3, Zenon
<1>5. PICK v \in Calls \cup {"refused"} : made' = [made EXCEPT ![r] = v]
  BY <1>1
<1>6. made'[r] = v /\ v # "" /\ \A q \in Requests : q # r => made'[q] = made[q]
  BY <1>2, <1>5 DEF Calls
<1>7. \A q, p \in Requests : q < p /\ made'[p] # "" => made'[q] # ""
  BY <1>1, <1>6 DEF InTurn
<1>8. \A q \in Requests : made'[q] \in {"", "refused"} => calls'[q] = 0
  BY <1>1, <1>3, <1>6 DEF InTurn
<1>9. InTurn'
  BY <1>6, <1>7, <1>8 DEF InTurn
<1> QED BY <1>2, <1>3, <1>4, <1>9

LEMMA RefusedStep ==
  ASSUME IInv, NEW r \in Requests, NEW what \in Calls, NEW chs \in Arguments(what),
         Command(r, what, chs), Refused(what)
  PROVE  IInv'
<1>1. Types' /\ InTurn'
  BY CommandTypes, CommandInTurn DEF IInv
<1>2. /\ made[r] = "" /\ made' = [made EXCEPT ![r] = "refused"]
      /\ UNCHANGED <<flags, pc, cb, books, obuf, rbuf, poll, calls, astray, split, lost, server>>
  BY DEF Command
<1>3. Same /\ SameRequests
  BY <1>2 DEF IInv, Types, Same, SameRequests, books, server, Near, Far
<1>4. Running' /\ Attentive'
  BY <1>2 DEF IInv, Running, Attentive, Alive, Closing, books
<1>5. Monitoring => Monitoring'
  BY <1>2, <1>3, SameMonitoring DEF IInv, Monitoring
<1>6. Matching => Matching'
  BY <1>2, <1>3, SameMatching DEF IInv, Alive
<1> QED BY <1>1, <1>4, <1>5, <1>6 DEF IInv

\* What an accepted command finds and does, whatever it is.
Accepted(r, what, chs) ==
  /\ made[r] = "" /\ made' = [made EXCEPT ![r] = what]
  /\ Register(what, r, chs)
  /\ Near' = Near /\ Far' = Cat(Far, <<Item(r, what, chs)>>)
  /\ Range(Far') = Range(Far) \cup {Item(r, what, chs)}
  /\ UNCHANGED <<pc, cb, rbuf, calls, astray, split, lost, server>>
  /\ pc \in {"idle", "callback"}
  /\ \A m \in Range(Near) \cup Range(Far) : m.what # "unsub"
  /\ what = "unsub" => /\ Range(Near) = {} /\ Range(Far) = {} /\ Listening(chs[1])
                       /\ "subscribed" \in flags
  /\ what = "monitor" => \A q \in Requests : made[q] = ""
  /\ what # "monitor" => "monitoring" \notin flags

LEMMA AcceptedIs ==
  ASSUME IInv, CarefulProgram,
         NEW r \in Requests, NEW what \in Calls, NEW chs \in Arguments(what),
         Command(r, what, chs), ~Refused(what)
  PROVE  Accepted(r, what, chs) /\ Running'
<1> DEFINE it == Item(r, what, chs)
<1>1. /\ made[r] = "" /\ made' = [made EXCEPT ![r] = what] /\ Register(what, r, chs)
      /\ obuf' = Append(obuf, it)
      /\ UNCHANGED <<pc, cb, rbuf, calls, astray, split, lost, server>>
      /\ pc \in {"idle", "callback", "drain"}
  BY DEF Command, Item
<1>2. ~Closing /\ (what = "unsub" => "subscribed" \in flags)
  BY DEF Refused
<1>3. pc \in {"idle", "callback"}
  BY <1>1, <1>2 DEF IInv, Running, Alive
<1>4. Near' = Near
  BY <1>1 DEF Near, server
<1>5. it \in Written /\ obuf \in Seq(Written) /\ wire \in Seq(Written)
  <2>1. it \in Written
    BY ItemIs
  <2> QED BY <2>1, Zenon DEF IInv, Types
<1> HIDE DEF it
<1>6. Far' = Cat(Far, <<it>>) /\ Range(Far') = Range(Far) \cup {it}
  <2>1. <<it>> \in Seq(Written) /\ Range(<<it>>) = {it} /\ obuf' = Cat(obuf, <<it>>)
    <3>1. <<it>> \in Seq(Written) /\ Range(<<it>>) = {it}
      BY <1>5, One, Zenon
    <3>2. \A s \in Seq(Written), x \in Written : Append(s, x) = Cat(s, <<x>>)
      BY AppendIsConcat DEF Cat
    <3> QED BY <1>1, <1>5, <3>1, <3>2, Zenon
  <2>2. \A x, y, z \in Seq(Written) : Cat(Cat(x, y), z) = Cat(x, Cat(y, z))
    BY CatAssociative
  <2>3. \A s, t \in Seq(Written) :
          Cat(s, t) \in Seq(Written) /\ Range(Cat(s, t)) = Range(s) \cup Range(t)
    BY CatSeq, CatRange
  <2>4. Far = Cat(wire, obuf) /\ Far' = Cat(wire, Cat(obuf, <<it>>))
    BY <1>1, <2>1 DEF Far, Cat, server
  <2>5. Far' = Cat(Far, <<it>>)
    BY <1>5, <2>1, <2>2, <2>4
  <2> QED BY <1>5, <2>1, <2>3, <2>4, <2>5, ZenonT(150)
<1>7. /\ ~\E i \in DOMAIN InFlight : InFlight[i].what = "unsub"
      /\ what = "unsub" => InFlight = <<>> /\ Listening(chs[1])
      /\ what = "monitor" => \A q \in Requests : made[q] = ""
      /\ what # "monitor" => "monitoring" \notin flags
  BY DEF Command, Allowed, CarefulProgram
<1>8. /\ \A m \in Range(Near) \cup Range(Far) : m.what # "unsub"
      /\ InFlight = <<>> => Range(Near) \cup Range(Far) = {}
  <2>1. \A m \in Range(Near) \cup Range(Far) : \E i \in DOMAIN InFlight : InFlight[i] = m
    BY InFlightIs DEF IInv
  <2>2. InFlight = <<>> => DOMAIN InFlight = {}
    OBVIOUS
  <2> QED BY <1>7, <2>1, <2>2, Zenon
<1>9. Running'
  BY <1>1, <1>3 DEF IInv, Running, Alive
<1> QED BY <1>1, <1>2, <1>3, <1>4, <1>6, <1>7, <1>8, <1>9 DEF Accepted, it

\* MONITOR is the first command, so nothing is waiting or on its way.
LEMMA MonitorStep ==
  ASSUME IInv, NEW r \in Requests, Accepted(r, "monitor", <<>>), Types', InTurn', Running'
  PROVE  IInv'
<1>1. \A q \in Requests : made[q] = ""
  BY DEF Accepted
<1>2. cb = None /\ "subscribed" \notin flags /\ pc = "idle"
  BY <1>1 DEF Accepted, IInv, InTurn
<1>3. Matching
  BY <1>1 DEF IInv, Monitoring, OfMonitor
<1>4. Waiting = {} /\ replies = <<>> /\ invalid = <<>>
  <2>1. Waiting = {}
    BY <1>1, <1>3 DEF Matching, Lists
  <2>2. \A s \in Seq(Requests \cup {None}) : Range(s) = {} => s = <<>>
    BY Elements
  <2>3. Range(replies) = {} /\ Range(invalid) = {}
    BY <2>1 DEF Waiting
  <2>4. replies \in Seq(Requests \cup {None}) /\ invalid \in Seq(Requests \cup {None})
    BY DEF IInv, Types
  <2> QED BY <2>1, <2>2, <2>3, <2>4
<1>5. OnTheWay /\ Serving
  BY <1>2, <1>3 DEF Matching, Alive
<1>6. Range(Near) \cup Range(Far) = {}
  <2>1. \A m \in Range(Near) \cup Range(Far) : Sound(m)
    BY <1>5 DEF OnTheWay
  <2>2. \A m : ~Sound(m)
    BY <1>2, <1>4 DEF Sound
  <2> QED BY <2>1, <2>2
<1>7. serving = {}
  BY <1>2, <1>5 DEF Serving
<1>8. \A ch \in Channels : ~Listening(ch)
  <2> SUFFICES ASSUME NEW ch \in Channels, Listening(ch) PROVE FALSE
    OBVIOUS
  <2>1. made[subs[ch].cb] = "sub"
    BY <1>3 DEF Matching, Subscribers
  <2>2. subs[ch].cb \in Requests
    BY DEF IInv, Types, Listening
  <2> QED BY <1>1, <2>1, <2>2
<1>9. /\ flags' = flags \cup {"monitoring"} /\ UNCHANGED <<subs, invalid>>
      /\ replies' = Append(replies, r)
  BY <1>2 DEF Accepted, Register, Queued
<1>10. replies' # <<>> /\ Range(replies') = {r} /\ r # None
  <2>1. replies \in Seq(Requests \cup {None}) /\ Range(replies) = {}
    BY <1>4, Zenon DEF IInv, Types, Waiting
  <2>2. r # None
    BY DEF Requests, None
  <2> QED BY <1>9, <2>1, <2>2, Callbacks1
<1>11. /\ made'[r] = "monitor" /\ \A q \in Requests : q # r => made'[q] = ""
  BY <1>1, ZenonT(60) DEF Accepted, IInv, Types
<1>12. Range(Near') = {} /\ \A m \in Range(Far') : m.what = "monitor"
  <2>1. Item(r, "monitor", <<>>).what = "monitor"
    BY DEF Item
  <2> QED BY <1>6, <2>1 DEF Accepted
<1>13. Monitoring'
  <2>1. OfMonitor' = {r}
    BY <1>11 DEF OfMonitor
  <2>2. cb' = None /\ serving' = {} /\ ~lost'
    BY <1>2, <1>3, <1>7 DEF Accepted, server, Matching
  <2>3. \A ch \in Channels : ~Listening(ch)'
    BY <1>8, <1>9 DEF Listening
  <2> QED BY <1>2, <1>4, <1>9, <1>10, <1>11, <1>12, <2>1, <2>2, <2>3 DEF Monitoring
<1>14. Attentive'
  <2>1. pc' = "idle"
    BY <1>2 DEF Accepted
  <2> QED BY <1>10, <2>1 DEF Attentive
<1> QED BY <1>13, <1>14 DEF IInv

\* What is on its way stays in order when a command is added that is sound and may follow.
LEMMA OneMore ==
  ASSUME Types, OnTheWay, NEW it \in Written, Near' = Near, Far' = Cat(Far, <<it>>),
         \A m \in Range(Near) \cup Range(Far) : Sound(m)' /\ Follows(m, it)',
         Sound(it)', it.what # "unsub",
         \A x, y \in Range(Near) \cup Range(Far) : Follows(x, y) => Follows(x, y)',
         \A r \in Waiting' : r \in Waiting \/ (IsReply(it) /\ it.of = <<r>>),
         UNCHANGED serving
  PROVE  OnTheWay'
<1>1. /\ Near \in Seq(Items) /\ Far \in Seq(Items) /\ <<it>> \in Seq(Items)
      /\ Range(<<it>>) = {it} /\ it \in Items
  <2>1. it \in Items
    BY DEF Items
  <2> QED BY <2>1, BothWays, One
<1>2. \A s, t \in Seq(Items) :
        Cat(s, t) \in Seq(Items) /\ Range(Cat(s, t)) = Range(s) \cup Range(t)
  BY CatSeq, CatRange
<1>3. Range(Near') = Range(Near) /\ Range(Far') = Range(Far) \cup {it} /\ Far' \in Seq(Items)
  <2>1. /\ Cat(Far, <<it>>) \in Seq(Items)
        /\ Range(Cat(Far, <<it>>)) = Range(Far) \cup Range(<<it>>)
    BY <1>1, <1>2, Zenon
  <2> QED BY <1>1, <2>1, Zenon
<1>4. \A R : \A s, t \in Seq(Items) :
        Ordered(Cat(s, t), R) <=> /\ Ordered(s, R) /\ Ordered(t, R)
                                  /\ \A x \in Range(s), y \in Range(t) : <<x, y>> \in R
  BY OrderedCat
<1>5. /\ Ordered(Near, Right) /\ Ordered(Far, Right)
      /\ \A x \in Range(Near), y \in Range(Far) : <<x, y>> \in Right
  <2>1. Ordered(Cat(Near, Far), Right)
    BY BothWays DEF OnTheWay
  <2> QED BY <1>1, <1>4, <2>1
<1>6. \A R, Q : \A s \in Seq(Items) :
        Ordered(s, R) /\ (\A x, y \in Range(s) : <<x, y>> \in R => <<x, y>> \in Q) => Ordered(s, Q)
  BY OrderedOther
<1>7. \A x, y \in Range(Near) \cup Range(Far) : <<x, y>> \in Right => <<x, y>> \in Right'
  BY DEF Right
<1>8. Ordered(Near, Right') /\ Ordered(Far, Right')
      /\ \A x \in Range(Near), y \in Range(Far) : <<x, y>> \in Right'
  BY <1>1, <1>5, <1>6, <1>7
<1>9. \A x \in Range(Near) \cup Range(Far) : <<x, it>> \in Right'
  <2>1. \A x \in Range(Near) \cup Range(Far) : x \in Items
    BY <1>1, Elements
  <2> QED BY <1>1, <2>1 DEF Right
<1>10. Ordered(<<it>>, Right')
  <2>1. \A R : Ordered(<<it>>, R)
    BY <1>1, OrderedShort
  <2> QED BY <2>1
<1>11. Ordered(Far', Right')
  BY <1>1, <1>4, <1>8, <1>9, <1>10
<1>12. Ordered(Cat(Near', Far'), Right')
  BY <1>1, <1>3, <1>4, <1>8, <1>9, <1>11
<1>13. Ordered(Near \o Far, Right)'
  BY <1>12 DEF Cat, Ordered
<1>14. \A m \in Range(Near') \cup Range(Far') : Sound(m)'
  BY <1>3
<1>15. \A r \in Waiting' : \E m \in Range(Near') \cup Range(Far') : IsReply(m) /\ m.of = <<r>>
  <2>1. \A r \in Waiting : \E m \in Range(Near) \cup Range(Far) : IsReply(m) /\ m.of = <<r>>
    BY DEF OnTheWay
  <2> QED BY <1>3, <2>1
<1>16. /\ \A m \in Range(Near') : m.what = "unsub" => m.of[1] \notin serving'
       /\ \A m \in Range(Near') : m.what = "sub" => m.of = <<m.of[1]>>
  BY <1>3 DEF OnTheWay
<1> QED BY <1>13, <1>14, <1>15, <1>16 DEF OnTheWay

\* What a command that joins what is sent leaves to show, besides the callbacks' lists.
LEMMA JoinedStep ==
  ASSUME IInv, NEW r \in Requests, NEW what \in Calls, NEW chs \in Arguments(what),
         what # "monitor", Accepted(r, what, chs), Types', InTurn', Running',
         Lists', OnTheWay', Serving'
  PROVE  IInv'
<1>1. /\ "monitoring" \notin flags /\ Matching
      /\ made' = [made EXCEPT ![r] = what] /\ made[r] = "" /\ UNCHANGED lost
      /\ Register(what, r, chs)
  BY DEF Accepted, IInv, Monitoring
<1>2. "monitoring" \notin flags'
  BY <1>1 DEF Register
<1>3. made'[r] = what /\ \A q \in Requests : q # r => made'[q] = made[q]
  BY <1>1 DEF IInv, Types
<1>4. OfMonitor' = {}
  BY <1>1, <1>3 DEF Matching, OfMonitor
<1>5. Subscribers'
  <2> SUFFICES ASSUME NEW ch \in Channels, Listening(ch)' PROVE made'[subs'[ch].cb] = "sub"
    BY DEF Subscribers
  <2>1. CASE subs'[ch] = subs[ch]
    <3>1. Listening(ch) /\ made[subs[ch].cb] = "sub"
      BY <1>1, <2>1 DEF Listening, Matching, Subscribers
    <3>2. subs[ch].cb \in Requests
      BY <3>1 DEF IInv, Types, Listening
    <3> QED BY <1>1, <1>3, <2>1, <3>1, <3>2
  <2>2. CASE subs'[ch] # subs[ch]
    <3>1. what = "sub" /\ subs'[ch].cb = r
      BY <1>1, <2>2 DEF Register, Enrol
    <3> QED BY <1>3, <3>1
  <2> QED BY <2>1, <2>2
<1>6. Matching'
  BY <1>1, <1>2, <1>4, <1>5 DEF Matching
<1>7. Attentive'
  BY <1>2 DEF Attentive
<1> QED BY <1>6, <1>7 DEF IInv

LEMMA PlainStep ==
  ASSUME IInv, NEW r \in Requests, Accepted(r, "plain", <<>>), <<>> \in Arguments("plain"),
         Types', InTurn', Running',
         calls[r] = 0, \A q \in Requests : made[q] # "" => q < r, Requests \subseteq Nat
  PROVE  IInv'
<1> DEFINE it == Item(r, "plain", <<>>)
<1>1. /\ "monitoring" \notin flags /\ Matching
      /\ made' = [made EXCEPT ![r] = "plain"] /\ made[r] = ""
      /\ UNCHANGED <<flags, subs, calls, serving>>
      /\ Queued("plain", r)
  BY DEF Accepted, IInv, Monitoring, Register, server
<1>2. Lists /\ OnTheWay /\ Serving
  BY <1>1 DEF Matching, Alive, Accepted
<1>3. it \in Written /\ it.what = "plain" /\ it.of = <<r>> /\ IsReply(it) /\ ~IsArray(it) /\ it.of[1] = r
  <2>1. it \in Written /\ it.what = "plain" /\ it.of = <<r>>
    BY ItemIs, ZenonT(60) DEF Calls
  <2>2. <<r>>[1] = r
    OBVIOUS
  <2> HIDE DEF it
  <2> QED BY <2>1, <2>2 DEF IsReply, IsArray
<1>4. Near' = Near /\ Far' = Cat(Far, <<it>>) /\ Range(Far') = Range(Far) \cup {it}
      /\ \A m \in Range(Near) \cup Range(Far) : m.what # "unsub"
  BY DEF Accepted
<1> HIDE DEF it
<1>5. /\ replies \in Seq(Requests \cup {None}) /\ invalid \in Seq(Requests \cup {None})
      /\ Waiting \subseteq Requests /\ \A q \in Waiting : q < r /\ q \in Nat /\ made[q] = "plain"
  <2>1. replies \in Seq(Requests \cup {None}) /\ invalid \in Seq(Requests \cup {None})
    BY Zenon DEF IInv, Types
  <2>2. \A q \in Waiting : q \in Requests /\ made[q] = "plain"
    BY <1>2 DEF Lists
  <2> QED BY <2>1, <2>2
<1>6. \/ /\ "subscribed" \in flags /\ invalid' = Append(invalid, r) /\ replies' = replies
         /\ Range(invalid') = Range(invalid) \cup {r}
      \/ /\ "subscribed" \notin flags /\ replies' = Append(replies, r) /\ invalid' = invalid
         /\ Range(replies') = Range(replies) \cup {r} /\ Range(invalid) = {}
  <2>1. \A s \in Seq(Requests \cup {None}) : Range(Append(s, r)) = Range(s) \cup {r}
    BY Callbacks1
  <2>2. "subscribed" \notin flags => Range(invalid) = {}
    <3>1. \A s \in Seq(Requests \cup {None}) : s = <<>> => Range(s) = {}
      BY Elements
    <3> QED BY <1>2, <1>5, <3>1 DEF Serving
  <2> QED BY <1>1, <1>5, <2>1, <2>2 DEF Queued
<1>7. Waiting' = Waiting \cup {r} /\ r \notin Waiting
  BY <1>1, <1>5, <1>6 DEF Waiting
<1>8. Lists'
  <2>1. \A q \in Requests : made'[q] = IF q = r THEN "plain" ELSE made[q]
    BY <1>1 DEF IInv, Types
  <2>2. Waiting' \subseteq {q \in Requests : made'[q] = "plain"}
    BY <1>5, <1>7, <2>1
  <2>3. \A s \in Seq(Requests \cup {None}) :
          Ordered(s, Less) /\ (\A q \in Range(s) : q < r /\ q \in Nat) => Ordered(Append(s, r), Less)
    <3> SUFFICES ASSUME NEW s \in Seq(Requests \cup {None}), Ordered(s, Less),
                        \A q \in Range(s) : q < r /\ q \in Nat
                 PROVE  Ordered(Append(s, r), Less)
      OBVIOUS
    <3>1. <<r>> \in Seq(Requests \cup {None}) /\ Range(<<r>>) = {r} /\ Ordered(<<r>>, Less)
      BY One, OrderedShort
    <3>2. Append(s, r) = Cat(s, <<r>>)
      <4>1. \A x \in Requests \cup {None} : Append(s, x) = Cat(s, <<x>>)
        BY AppendIsConcat DEF Cat
      <4> QED BY <4>1, Zenon
    <3>3. \A x \in Range(s), y \in Range(<<r>>) : <<x, y>> \in Less
      BY <3>1 DEF Less
    <3>4. Ordered(Cat(s, <<r>>), Less)
      BY <3>1, <3>3, OrderedCat
    <3> QED BY <3>2, <3>4
  <2>4. Ordered(replies', Less) /\ Ordered(invalid', Less)
    <3>1. (\A q \in Range(replies) : q < r /\ q \in Nat) /\ (\A q \in Range(invalid) : q < r /\ q \in Nat)
      BY <1>5 DEF Waiting
    <3> QED BY <1>2, <1>5, <1>6, <2>3, <3>1 DEF Lists
  <2>5. \A q \in Range(replies'), p \in Range(invalid') : q < p
    <3>1. \A q \in Range(replies) : q < r
      BY <1>5 DEF Waiting
    <3> QED BY <1>2, <1>6, <3>1 DEF Lists
  <2>6. \A q \in Requests : made'[q] = "plain" => calls'[q] = IF q \in Waiting' THEN 0 ELSE 1
    BY <1>1, <1>2, <1>7, <2>1, ZenonT(60) DEF Lists
  <2> QED BY <2>2, <2>4, <2>5, <2>6 DEF Lists, Ordered
<1>9. \A ch : Listening(ch)' = Listening(ch)
  BY <1>1 DEF Listening
<1>10. \A m \in Range(Near) \cup Range(Far) :
         Sound(m) /\ Sound(m)' /\ (IsArray(m) => "subscribed" \in flags /\ replies' = replies)
         /\ (IsReply(m) => m.of[1] \in Waiting)
  <2> SUFFICES ASSUME NEW m \in Range(Near) \cup Range(Far)
               PROVE  Sound(m) /\ Sound(m)' /\ (IsArray(m) => "subscribed" \in flags /\ replies' = replies)
                      /\ (IsReply(m) => m.of[1] \in Waiting)
    OBVIOUS
  <2>1. Sound(m)
    BY <1>2 DEF OnTheWay
  <2> QED BY <1>1, <1>6, <1>7, <1>9, <2>1 DEF Sound, IsReply, IsArray
<1>11. Sound(it)'
  BY <1>3, <1>7 DEF Sound
<1>12. \A x, y \in Range(Near) \cup Range(Far) : Follows(x, y) => Follows(x, y)'
  BY <1>10 DEF Follows
<1>13. r \notin Range(replies) /\ \A m \in Range(Near) \cup Range(Far) : Follows(m, it)'
  <2>1. r \notin Range(replies)
    BY <1>7 DEF Waiting
  <2>2. \A m \in Range(Near) \cup Range(Far) : IsReply(m) => m.of[1] < r
    BY <1>5, <1>10
  <2> QED BY <1>3, <1>4, <1>10, <2>1, <2>2 DEF Follows
<1>14. OnTheWay'
  <2>1. \A q \in Waiting' : q \in Waiting \/ (IsReply(it) /\ it.of = <<q>>)
    BY <1>3, <1>7
  <2> QED BY <1>1, <1>2, <1>3, <1>4, <1>10, <1>11, <1>12, <1>13, <2>1, OneMore DEF IInv
<1>15. Serving'
  <2>1. None \notin serving' /\ \A ch \in serving' : Listening(ch)'
    BY <1>1, <1>2, <1>9 DEF Serving
  <2>2. serving' # {} => \A m \in Range(Far') : IsReply(m) => m.of[1] \notin Range(replies')
    BY <1>1, <1>2, <1>3, <1>4, <1>6, <1>13 DEF Serving
  <2>3. "subscribed" \notin flags' => serving' = {} /\ invalid' = <<>>
    BY <1>1, <1>2, <1>6 DEF Serving
  <2> QED BY <2>1, <2>2, <2>3 DEF Serving
<1> QED BY <1>8, <1>14, <1>15, JoinedStep DEF Calls

LEMMA SubStep ==
  ASSUME IInv, NEW r \in Requests, NEW chs \in Arguments("sub"), Accepted(r, "sub", chs),
         Types', InTurn', Running'
  PROVE  IInv'
<1> DEFINE it == Item(r, "sub", chs)
<1>1. /\ "monitoring" \notin flags /\ Matching
      /\ made' = [made EXCEPT ![r] = "sub"] /\ made[r] = ""
      /\ UNCHANGED <<replies, invalid, calls, serving>>
      /\ flags' = flags \cup {"subscribed"} /\ subs' = Enrol(chs, r)
  BY DEF Accepted, IInv, Monitoring, Register, server
<1>2. Lists /\ OnTheWay /\ Serving
  BY <1>1 DEF Matching, Alive, Accepted
<1>3. /\ it \in Written /\ it.what = "sub" /\ it.of = chs /\ ~IsReply(it) /\ IsArray(it)
      /\ chs # <<>> /\ chs \in Seq(Channels)
  <2>1. it \in Written /\ it.what = "sub" /\ it.of = chs /\ chs # <<>> /\ chs \in Seq(Channels)
    BY ItemIs, ArgumentsAre DEF Calls
  <2> HIDE DEF it
  <2> QED BY <2>1 DEF IsReply, IsArray
<1>4. Near' = Near /\ Far' = Cat(Far, <<it>>) /\ Range(Far') = Range(Far) \cup {it}
      /\ \A m \in Range(Near) \cup Range(Far) : m.what # "unsub"
  BY DEF Accepted
<1> HIDE DEF it
<1>5. Waiting' = Waiting
  BY <1>1 DEF Waiting
<1>6. Lists'
  <2>1. r \notin Waiting /\ \A q \in Requests : made'[q] = IF q = r THEN "sub" ELSE made[q]
    BY <1>1, <1>2, ZenonT(60) DEF IInv, Types, Lists
  <2>2. Waiting' \subseteq {q \in Requests : made'[q] = "plain"}
    BY <1>2, <1>5, <2>1 DEF Lists
  <2>3. \A q \in Requests : made'[q] = "plain" => calls'[q] = IF q \in Waiting' THEN 0 ELSE 1
    <3>1. \A q \in Requests : made'[q] = "plain" => made[q] = "plain"
      BY <2>1
    <3> QED BY <1>1, <1>2, <1>5, <3>1 DEF Lists
  <2>4. /\ Ordered(replies', Less) /\ Ordered(invalid', Less)
        /\ \A q \in Range(replies'), p \in Range(invalid') : q < p
    BY <1>1, <1>2, Zenon DEF Lists
  <2> QED BY <2>2, <2>3, <2>4 DEF Lists, Ordered
<1>7. \A ch \in Channels : Listening(ch) \/ ch \in ToSet(chs) => Listening(ch)'
  <2>1. r # None
    BY DEF Requests, None
  <2> QED BY <1>1, <2>1 DEF Listening, Enrol
<1>8. \A m \in Range(Near) \cup Range(Far) :
        Sound(m)' /\ Follows(m, it)' /\ (IsArray(m) => m.of \in Seq(Channels))
  <2> SUFFICES ASSUME NEW m \in Range(Near) \cup Range(Far)
               PROVE  Sound(m)' /\ Follows(m, it)' /\ (IsArray(m) => m.of \in Seq(Channels))
    OBVIOUS
  <2>1. Sound(m)
    BY <1>2 DEF OnTheWay
  <2>2. IsArray(m) => m.of \in Seq(Channels)
    <3>1. m \in Items
      BY BothWays, Elements DEF IInv
    <3> QED BY <3>1 DEF IsArray, Items, Written, Heard
  <2>3. IsArray(m) => \A i \in DOMAIN m.of : m.of[i] \in Channels
    BY <2>2, Elements
  <2>4. Sound(m)'
    BY <1>1, <1>5, <1>7, <2>1, <2>3 DEF Sound
  <2> QED BY <1>3, <1>4, <2>2, <2>4 DEF Follows
<1>9. Sound(it)'
  <2>1. \A i \in DOMAIN chs : chs[i] \in Channels /\ chs[i] \in ToSet(chs)
    BY <1>3, Elements DEF ToSet
  <2> QED BY <1>1, <1>3, <1>7, <2>1 DEF Sound
<1>10. \A x, y \in Range(Near) \cup Range(Far) : Follows(x, y) => Follows(x, y)'
  BY <1>1 DEF Follows
<1>11. OnTheWay'
  BY <1>1, <1>2, <1>3, <1>4, <1>5, <1>8, <1>9, <1>10, OneMore DEF IInv
<1>12. Serving'
  <2>1. serving \subseteq Channels
    BY <1>2 DEF Serving, IInv, Types
  <2> QED BY <1>1, <1>2, <1>3, <1>4, <1>7, <2>1 DEF Serving
<1> QED BY <1>6, <1>11, <1>12, JoinedStep DEF Calls

LEMMA UnsubStep ==
  ASSUME IInv, NEW r \in Requests, NEW chs \in Arguments("unsub"), Accepted(r, "unsub", chs),
         Types', InTurn', Running'
  PROVE  IInv'
<1> DEFINE it == Item(r, "unsub", chs)
<1>1. /\ "monitoring" \notin flags /\ Matching
      /\ made' = [made EXCEPT ![r] = "unsub"] /\ made[r] = ""
      /\ UNCHANGED <<flags, subs, replies, invalid, calls, serving>>
      /\ Range(Near) = {} /\ Range(Far) = {} /\ Listening(chs[1]) /\ "subscribed" \in flags
  BY DEF Accepted, IInv, Monitoring, Register, server
<1>2. Lists /\ OnTheWay /\ Serving
  BY <1>1 DEF Matching, Alive, Accepted
<1>3. PICK ch \in Channels : chs = <<ch>>
  BY ArgumentsAre DEF Calls
<1>4. it \in Written /\ it.what = "unsub" /\ it.of = <<ch>> /\ ~IsReply(it) /\ IsArray(it)
  <2>1. it \in Written /\ it.what = "unsub" /\ it.of = <<ch>>
    BY <1>3, ItemIs DEF Calls
  <2> HIDE DEF it
  <2> QED BY <2>1 DEF IsReply, IsArray
<1>5. Near' = Near /\ Far' = Cat(Far, <<it>>) /\ Range(Far') = {it}
  BY <1>1 DEF Accepted
<1> HIDE DEF it
<1>6. Waiting' = Waiting /\ \A c : Listening(c)' = Listening(c)
  BY <1>1 DEF Waiting, Listening
<1>7. Lists'
  <2>1. r \notin Waiting /\ \A q \in Requests : made'[q] = IF q = r THEN "unsub" ELSE made[q]
    BY <1>1, <1>2, ZenonT(60) DEF IInv, Types, Lists
  <2>2. Waiting' \subseteq {q \in Requests : made'[q] = "plain"}
    BY <1>2, <1>6, <2>1 DEF Lists
  <2>3. \A q \in Requests : made'[q] = "plain" => calls'[q] = IF q \in Waiting' THEN 0 ELSE 1
    <3>1. \A q \in Requests : made'[q] = "plain" => made[q] = "plain"
      BY <2>1
    <3> QED BY <1>1, <1>2, <1>6, <3>1 DEF Lists
  <2>4. /\ Ordered(replies', Less) /\ Ordered(invalid', Less)
        /\ \A q \in Range(replies'), p \in Range(invalid') : q < p
    BY <1>1, <1>2, Zenon DEF Lists
  <2> QED BY <2>2, <2>3, <2>4 DEF Lists, Ordered
<1>8. Sound(it)'
  <2>1. it.of[1] = ch /\ it.of # <<>> /\ DOMAIN it.of = 1..1
    <3>1. \A x \in Channels : <<x>>[1] = x /\ <<x>> # <<>> /\ DOMAIN <<x>> = 1..1
      OBVIOUS
    <3> QED BY <1>4, <3>1
  <2>2. Listening(ch)' /\ "subscribed" \in flags' /\ it.of = <<it.of[1]>>
    <3>1. chs[1] = ch
      BY <1>3
    <3> QED BY <1>1, <1>4, <1>6, <2>1, <3>1
  <2>3. \A i \in DOMAIN it.of : Listening(it.of[i])'
    <3>1. \A i \in 1..1 : i = 1
      OBVIOUS
    <3> QED BY <2>1, <2>2, <3>1
  <2> QED BY <1>4, <2>1, <2>2, <2>3 DEF Sound
<1>9. OnTheWay'
  <2>1. /\ Ordered(Near, Right') /\ Ordered(Far', Right')
        /\ Near \in Seq(Items) /\ Far' \in Seq(Items)
    <3>1. Near = <<>> /\ Far = <<>>
      <4>1. Near \in Seq(Items) /\ Far \in Seq(Items)
        BY BothWays DEF IInv
      <4>2. \A s \in Seq(Items) : Range(s) = {} => s = <<>>
        BY Elements
      <4> QED BY <1>1, <4>1, <4>2, Zenon
    <3>2. it \in Items
      BY <1>4 DEF Items
    <3>3. <<it>> \in Seq(Items) /\ <<>> \in Seq(Items) /\ Cat(<<>>, <<it>>) = <<it>>
      <4>1. <<it>> \in Seq(Items) /\ <<>> \in Seq(Items)
        BY <3>2, One, EmptySeq
      <4>2. \A s \in Seq(Items) : Cat(<<>>, s) = s
        BY CatEmpty
      <4> QED BY <4>1, <4>2, Zenon
    <3>4. \A R : Ordered(<<it>>, R) /\ Ordered(<<>>, R)
      BY <3>2, OrderedShort
    <3> QED BY <1>5, <3>1, <3>3, <3>4
  <2>2. \A R : \A s, t \in Seq(Items) :
          Ordered(s, R) /\ Ordered(t, R) /\ Range(s) = {} => Ordered(Cat(s, t), R)
    BY OrderedCat
  <2>3. Ordered(Cat(Near', Far'), Right')
    BY <1>1, <1>5, <2>1, <2>2
  <2>4. Ordered(Near \o Far, Right)'
    BY <2>3 DEF Cat, Ordered
  <2>5. Waiting = {}
    BY <1>1, <1>2 DEF OnTheWay
  <2> QED BY <1>1, <1>5, <1>6, <1>8, <2>4, <2>5 DEF OnTheWay
<1>10. Serving'
  BY <1>1, <1>2, <1>4, <1>5, <1>6 DEF Serving
<1> QED BY <1>7, <1>9, <1>10, JoinedStep DEF Calls

LEMMA CommandStep ==
  ASSUME IInv, CarefulProgram,
         NEW r \in Requests, NEW what \in Calls, NEW chs \in Arguments(what),
         Command(r, what, chs)
  PROVE  IInv'
<1>1. CASE Refused(what)
  BY <1>1, RefusedStep
<1>2. CASE ~Refused(what)
  <2>1. Types' /\ InTurn' /\ calls[r] = 0 /\ (\A q \in Requests : made[q] # "" => q < r)
        /\ Requests \subseteq Nat
    BY CommandTypes, CommandInTurn DEF IInv
  <2>2. Accepted(r, what, chs) /\ Running'
    BY <1>2, AcceptedIs
  <2>3. what \in {"plain", "monitor"} => chs = <<>>
    BY ArgumentsAre
  <2>4. CASE what = "plain"
    BY <2>1, <2>2, <2>3, <2>4, PlainStep
  <2>5. CASE what = "monitor"
    BY <2>1, <2>2, <2>3, <2>5, MonitorStep
  <2>6. CASE what = "sub"
    BY <2>1, <2>2, <2>6, SubStep
  <2>7. CASE what = "unsub"
    BY <2>1, <2>2, <2>7, UnsubStep
  <2> QED BY <2>4, <2>5, <2>6, <2>7 DEF Calls
<1> QED BY <1>1, <1>2

-----------------------------------------------------------------------------
(* A reply reaches its callback                                            *)

LEMMA OneReplyMoves ==
  ASSUME Types, OneReply
  PROVE  /\ rbuf # <<>> /\ Near # <<>> /\ Head(rbuf) = Head(Near)
         /\ Near' = Tail(Near) /\ Far' = Far
         /\ Head(Near) \in Heard /\ Head(Near) \in Range(Near)
         /\ rbuf' \in Seq(Heard)
<1>1. rbuf # <<>> /\ rbuf' = Tail(rbuf) /\ UNCHANGED <<obuf, server>>
  BY DEF OneReply
<1>2. rbuf \in Seq(Heard) /\ back \in Seq(Heard)
  BY Zenon DEF Types
<1>3. \A s, t \in Seq(Heard) : s # <<>> =>
        Head(Cat(s, t)) = Head(s) /\ Tail(Cat(s, t)) = Cat(Tail(s), t) /\ Cat(s, t) # <<>>
  BY TailOfCat
<1>4. \A s \in Seq(Heard) : s # <<>> =>
        Head(s) \in Heard /\ Tail(s) \in Seq(Heard) /\ Range(s) = {Head(s)} \cup Range(Tail(s))
  BY Rest
<1>5. Near = Cat(rbuf, back) /\ Near' = Cat(Tail(rbuf), back) /\ Far' = Far
  BY <1>1 DEF Near, Far, Cat, server
<1>6. Near # <<>> /\ Head(rbuf) = Head(Near) /\ Near' = Tail(Near)
  BY <1>1, <1>2, <1>3, <1>5, Zenon
<1>7. Near \in Seq(Heard)
  BY BothWays
<1> QED BY <1>1, <1>2, <1>4, <1>5, <1>6, <1>7

\* What is behind the head of what is on its way.
LEMMA Taken ==
  ASSUME Types, OnTheWay, Near # <<>>, Near' = Tail(Near), Far' = Far
  PROVE  /\ Range(Near) = {Head(Near)} \cup Range(Near')
         /\ \A x \in Range(Near') \cup Range(Far') : Follows(Head(Near), x)
         /\ Ordered(Cat(Near', Far'), Right) /\ Cat(Near', Far') \in Seq(Items)
<1> DEFINE u == Cat(Near, Far)
<1>1. Near \in Seq(Items) /\ Far \in Seq(Items) /\ u \in Seq(Items) /\ Ordered(u, Right)
  BY BothWays DEF OnTheWay
<1>2. \A s, t \in Seq(Items) : s # <<>> =>
        Head(Cat(s, t)) = Head(s) /\ Tail(Cat(s, t)) = Cat(Tail(s), t) /\ Cat(s, t) # <<>>
  BY TailOfCat
<1>3. u # <<>> /\ Head(u) = Head(Near) /\ Tail(u) = Cat(Near', Far')
  BY <1>1, <1>2, Zenon
<1>4. \A s \in Seq(Items) : s # <<>> =>
        Tail(s) \in Seq(Items) /\ Range(s) = {Head(s)} \cup Range(Tail(s))
  BY Rest
<1>5. \A R : \A s \in Seq(Items) : s # <<>> /\ Ordered(s, R) =>
        Ordered(Tail(s), R) /\ \A y \in Range(Tail(s)) : <<Head(s), y>> \in R
  BY OrderedRest
<1> HIDE DEF u
<1>6. /\ Ordered(Tail(u), Right) /\ \A y \in Range(Tail(u)) : <<Head(u), y>> \in Right
      /\ Tail(u) \in Seq(Items)
  BY <1>1, <1>3, <1>4, <1>5
<1>7. Near' \in Seq(Items) /\ Range(Near) = {Head(Near)} \cup Range(Near')
  BY <1>1, <1>4
<1>8. Range(Tail(u)) = Range(Near') \cup Range(Far')
  <2>1. \A s, t \in Seq(Items) : Range(Cat(s, t)) = Range(s) \cup Range(t)
    BY CatRange
  <2> QED BY <1>1, <1>3, <1>7, <2>1
<1>9. \A x \in Range(Near') \cup Range(Far') : Follows(Head(Near), x)
  BY <1>3, <1>6, <1>8 DEF Right
<1> QED BY <1>3, <1>6, <1>7, <1>9

LEMMA LessOnTheWay ==
  ASSUME Types, OnTheWay, Near # <<>>, Near' = Tail(Near), Far' = Far, UNCHANGED serving,
         \A x \in Range(Near') \cup Range(Far') : Sound(x)',
         \A r \in Waiting' : \E x \in Range(Near') \cup Range(Far') : IsReply(x) /\ x.of = <<r>>,
         Range(replies') \subseteq Range(replies)
  PROVE  OnTheWay'
<1>1. /\ Range(Near) = {Head(Near)} \cup Range(Near')
      /\ Ordered(Cat(Near', Far'), Right) /\ Cat(Near', Far') \in Seq(Items)
  BY Taken
<1>2. \A x, y : Follows(x, y) => Follows(x, y)'
  BY DEF Follows
<1>3. \A p : p \in Right => p \in Right'
  BY <1>2 DEF Right
<1>4. Ordered(Near \o Far, Right)'
  BY <1>1, <1>3 DEF Cat, Ordered
<1>5. /\ \A x \in Range(Near') : x.what = "unsub" => x.of[1] \notin serving'
      /\ \A x \in Range(Near') : x.what = "sub" => x.of = <<x.of[1]>>
  BY <1>1 DEF OnTheWay
<1> QED BY <1>4, <1>5 DEF OnTheWay

\* The first reply is for the first of those that wait.
LEMMA FirstOf ==
  ASSUME Types, Matching, Alive, Near # <<>>, Near' = Tail(Near), Far' = Far,
         NEW h \in Waiting, \A r \in Waiting : r = h \/ h < r,
         IsArray(Head(Near)) => h \in Range(replies)
  PROVE  IsReply(Head(Near)) /\ Head(Near).of = <<h>>
<1> DEFINE m == Head(Near)
<1>1. OnTheWay /\ Waiting \subseteq Nat
  <2>1. Requests \subseteq Nat
    BY RedisAssumption DEF Requests
  <2> QED BY <2>1 DEF Matching, Lists
<1>2. Range(Near) = {m} \cup Range(Near') /\ \A x \in Range(Near') \cup Range(Far') : Follows(m, x)
  BY <1>1, Taken
<1> HIDE DEF m
<1>3. Sound(m)
  BY <1>1, <1>2 DEF OnTheWay
<1>4. PICK x \in Range(Near) \cup Range(Far) : IsReply(x) /\ x.of = <<h>>
  BY <1>1 DEF OnTheWay
<1>5. CASE x = m
  BY <1>4, <1>5 DEF m
<1>6. CASE x # m
  <2>1. Follows(m, x) /\ x.of[1] = h
    BY <1>2, <1>4, <1>6
  <2>2. ~IsArray(m)
    BY <1>4, <2>1 DEF Follows, m
  <2>3. IsReply(m) /\ m.of[1] \in Waiting
    BY <1>3, <2>2 DEF Sound
  <2>4. m.of[1] < h
    BY <1>4, <2>1, <2>3 DEF Follows
  <2>5. \A a, b \in Nat : ~(a < b /\ (a = b \/ b < a))
    OBVIOUS
  <2> QED BY <1>1, <2>3, <2>4, <2>5
<1> QED BY <1>5, <1>6

\* When it has been given to its callback the others are as they were.
LEMMA ReplyMatched ==
  ASSUME Types, Matching, Alive, Near # <<>>, Near' = Tail(Near), Far' = Far,
         NEW h \in Waiting, IsReply(Head(Near)), Head(Near).of = <<h>>,
         Waiting' = Waiting \ {h}, Range(replies') \subseteq Range(replies),
         UNCHANGED <<flags, subs, serving>>,
         "subscribed" \notin flags => invalid' = invalid
  PROVE  OnTheWay' /\ Serving'
<1> DEFINE m == Head(Near)
<1>1. OnTheWay /\ Serving /\ Waiting \subseteq Nat
  <2>1. Requests \subseteq Nat
    BY RedisAssumption DEF Requests
  <2> QED BY <2>1 DEF Matching, Lists
<1>2. Range(Near) = {m} \cup Range(Near') /\ \A x \in Range(Near') \cup Range(Far') : Follows(m, x)
  BY <1>1, Taken
<1>3. IsReply(m) /\ m.of[1] = h /\ m.of = <<h>>
  <2>1. <<h>>[1] = h
    OBVIOUS
  <2> QED BY <2>1
<1> HIDE DEF m
<1>4. \A ch : Listening(ch)' = Listening(ch)
  BY DEF Listening
<1>5. ASSUME NEW x \in Range(Near') \cup Range(Far')
      PROVE  Sound(x)'
  <2>1. Sound(x) /\ Follows(m, x)
    BY <1>1, <1>2 DEF OnTheWay
  <2>2. IsReply(x) => h < x.of[1]
    BY <1>3, <2>1 DEF Follows
  <2>3. \A a, b \in Nat : a < b => a # b
    OBVIOUS
  <2>4. IsReply(x) /\ x.of[1] \in Waiting => x.of[1] \in Waiting'
    BY <1>1, <2>2, <2>3
  <2> QED BY <1>4, <2>1, <2>4 DEF Sound
<1>6. ASSUME NEW r \in Waiting'
      PROVE  \E x \in Range(Near') \cup Range(Far') : IsReply(x) /\ x.of = <<r>>
  <2>1. PICK x \in Range(Near) \cup Range(Far) : IsReply(x) /\ x.of = <<r>>
    BY <1>1 DEF OnTheWay
  <2>2. x.of[1] = r /\ r # h
    BY <2>1
  <2> QED BY <1>2, <1>3, <2>1, <2>2
<1>7. OnTheWay'
  BY <1>1, <1>5, <1>6, LessOnTheWay
<1>8. Serving'
  BY <1>1, <1>4 DEF Serving
<1> QED BY <1>7, <1>8

LEMMA NoRequest == None \notin Requests
  BY DEF Requests, None

LEMMA RunIs ==
  ASSUME Types, InTurn, Running, pc = "process", UNCHANGED made,
         NEW c \in Requests \cup {None}, NEW m, Run(c, m),
         c # None => made[c] \notin {"", "refused"} /\ Meant(c, m)
  PROVE  /\ calls' \in [Requests -> 0..2] /\ cb' = c
         /\ InTurn' /\ Running' /\ Alive' /\ pc' \in {"process", "callback"}
<1>1. cb' = c /\ CallBack(c) /\ pc' \in {"process", "callback"} /\ ~astray'
  BY DEF Run, Running
<1>2. calls \in [Requests -> 0..2]
  BY Zenon DEF Types
<1>3. calls' \in [Requests -> 0..2] /\ \A q \in Requests : q # c => calls'[q] = calls[q]
  BY <1>1, <1>2, CallBackType
<1>4. \A q \in Requests : made[q] \in {"", "refused"} => calls'[q] = calls[q]
  <2>1. ASSUME NEW q \in Requests, made[q] \in {"", "refused"} PROVE calls'[q] = calls[q]
    <3>1. q # c
      BY <2>1, NoRequest
    <3> QED BY <1>3, <3>1
  <2> QED BY <2>1
<1>5. \E r \in Requests : made[r] # ""
  BY DEF InTurn
<1>6. InTurn'
  BY <1>4, <1>5 DEF InTurn
<1>7. Alive' /\ Running'
  BY <1>1 DEF Running, Alive
<1> QED BY <1>1, <1>3, <1>6, <1>7

\* While monitoring: the head of the replies, or the callback that has just run, is called.
LEMMA MonitorReply ==
  ASSUME IInv, Monitoring, OneReply
  PROVE  IInv'
<1> DEFINE m == Head(rbuf)
<1>1. /\ pc = "process" /\ rbuf # <<>> /\ UNCHANGED <<obuf, poll, made, split, server>>
      /\ rbuf' = Tail(rbuf)
  BY DEF OneReply
<1>2. /\ m.what \in {"monitor", "line"} /\ Near # <<>> /\ Near' = Tail(Near) /\ Far' = Far
      /\ rbuf' \in Seq(Heard)
  <2>1. /\ Near # <<>> /\ m = Head(Near) /\ Near' = Tail(Near) /\ Far' = Far
        /\ Head(Near) \in Range(Near) /\ rbuf' \in Seq(Heard)
    BY OneReplyMoves DEF IInv
  <2> QED BY <2>1 DEF Monitoring
<1>3. Range(Near') \subseteq Range(Near)
  <2>1. \A s \in Seq(Heard) : s # <<>> => Range(s) = {Head(s)} \cup Range(Tail(s))
    BY Rest
  <2>2. Near \in Seq(Heard)
    BY BothWays DEF IInv
  <2> QED BY <1>2, <2>1, <2>2
<1>4. \/ /\ Expected /\ Run(Head(replies), m) /\ replies' = Tail(replies)
         /\ UNCHANGED <<flags, err, invalid, subs>>
      \/ /\ ~Expected /\ Run(cb, m) /\ UNCHANGED <<flags, err, books>>
  BY <1>2 DEF OneReply, Shift, IsArray, Monitoring
<1> HIDE DEF m
<1>5. /\ replies \in Seq(Requests \cup {None}) /\ cb \in Requests \cup {None}
      /\ replies # <<>> => /\ Head(replies) \in OfMonitor \cup {None}
                           /\ Tail(replies) \in Seq(Requests \cup {None})
                           /\ Range(replies) = {Head(replies)} \cup Range(Tail(replies))
  <2>1. replies \in Seq(Requests \cup {None}) /\ cb \in Requests \cup {None}
    BY Zenon DEF IInv, Types
  <2> QED BY <2>1, CallbacksRest DEF Monitoring
<1>6. PICK c \in OfMonitor \cup {None} :
        /\ Run(c, m) /\ UNCHANGED <<flags, invalid, subs>>
        /\ replies' \in Seq(Requests \cup {None}) /\ Range(replies') \subseteq Range(replies)
        /\ ~split => c # None
  <2>1. CASE Expected
    <3>1. Run(Head(replies), m) /\ replies' = Tail(replies) /\ UNCHANGED <<flags, invalid, subs>>
      BY <1>4, <2>1
    <3>2. ~split => None \notin Range(replies)
      BY DEF IInv, Attentive, Monitoring
    <3> QED BY <1>5, <2>1, <3>1, <3>2 DEF Expected
  <2>2. CASE ~Expected
    <3>1. Run(cb, m) /\ UNCHANGED <<flags, invalid, subs, replies>>
      BY <1>4, <2>2 DEF books
    <3>2. ~split => cb # None
      BY <1>1, <2>2 DEF IInv, Attentive, Monitoring, Expected
    <3>3. cb \in OfMonitor \cup {None}
      BY DEF Monitoring
    <3> QED BY <1>5, <3>1, <3>2, <3>3
  <2> QED BY <2>1, <2>2
<1>7. /\ c \in Requests \cup {None}
      /\ c # None => made[c] \notin {"", "refused"} /\ Meant(c, m)
  BY <1>2 DEF OfMonitor, Meant
<1>8. /\ calls' \in [Requests -> 0..2] /\ cb' = c
      /\ InTurn' /\ Running' /\ Alive' /\ pc' \in {"process", "callback"}
  BY <1>1, <1>6, <1>7, RunIs DEF IInv
<1>9. Types'
  <2>1. UNCHANGED <<flags, invalid, subs, obuf, wire, back, made, serving>>
    BY <1>1, <1>6 DEF server
  <2>2. cb' \in Requests \cup {None} /\ pc' \in {"idle", "process", "callback", "drain", "freed"}
    BY <1>7, <1>8
  <2>3. replies' \in Seq(Requests \cup {None}) /\ calls' \in [Requests -> 0..2]
        /\ rbuf' \in Seq(Heard)
    BY <1>2, <1>6, <1>8
  <2> QED BY <2>1, <2>2, <2>3, ZenonT(60) DEF IInv, Types
<1>10. Monitoring'
  <2>1. lost' => split'
    <3>1. lost' => lost \/ c = None
      BY <1>6 DEF Run
    <3> QED BY <1>1, <1>6, <3>1 DEF Monitoring
  <2>2. OfMonitor' = OfMonitor /\ \A ch : Listening(ch)' = Listening(ch)
    BY <1>1, <1>6 DEF OfMonitor, Listening
  <2>3. serving' = serving
    BY <1>1 DEF server
  <2> QED BY <1>1, <1>2, <1>3, <1>6, <1>8, <2>1, <2>2, <2>3 DEF Monitoring
<1>11. Attentive'
  <2> SUFFICES ASSUME ~split
               PROVE  /\ None \notin Range(replies') /\ pc' # "idle"
                      /\ cb' # None /\ pc' # "process"
    BY <1>1 DEF Attentive
  <2>1. None \notin Range(replies)
    BY DEF IInv, Attentive, Monitoring
  <2>2. c # None /\ pc' = "callback"
    BY <1>6 DEF Run
  <2> QED BY <1>6, <1>8, <2>1, <2>2
<1> QED BY <1>8, <1>9, <1>10, <1>11 DEF IInv

\* Otherwise: the head of a list of callbacks is called with its reply.
LEMMA ListReply ==
  ASSUME IInv, Matching, OneReply,
         \/ /\ Expected /\ Run(Head(replies), Head(rbuf)) /\ replies' = Tail(replies)
            /\ UNCHANGED <<flags, err, invalid, subs>>
         \/ /\ ~Expected /\ ~IsArray(Head(rbuf)) /\ "subscribed" \in flags /\ invalid # <<>>
            /\ Run(Head(invalid), Head(rbuf)) /\ invalid' = Tail(invalid)
            /\ UNCHANGED <<flags, err, replies, subs>>
  PROVE  IInv'
<1> DEFINE m == Head(rbuf)
<1>1. /\ pc = "process" /\ UNCHANGED <<obuf, poll, made, split, server>>
  BY DEF OneReply
<1>2. /\ m = Head(Near) /\ Near # <<>> /\ Near' = Tail(Near) /\ Far' = Far /\ rbuf' \in Seq(Heard)
  BY OneReplyMoves DEF IInv
<1> HIDE DEF m
<1>3. /\ replies \in Seq(Requests \cup {None}) /\ invalid \in Seq(Requests \cup {None})
  BY Zenon DEF IInv, Types
<1>4. Lists /\ OnTheWay /\ Serving /\ Alive
  BY <1>1 DEF Matching, Alive
<1>5. \A s \in Seq(Requests \cup {None}) : s # <<>> /\ Ordered(s, Less) =>
        /\ Head(s) \notin Range(Tail(s)) /\ Range(s) = {Head(s)} \cup Range(Tail(s))
        /\ \A r \in Range(Tail(s)) : Head(s) < r
        /\ Tail(s) \in Seq(Requests \cup {None})
  BY Shifted, CallbacksRest
<1>6. PICK h \in Waiting :
        /\ Run(h, m) /\ UNCHANGED <<flags, subs>>
        /\ replies' \in Seq(Requests \cup {None}) /\ invalid' \in Seq(Requests \cup {None})
        /\ Range(replies') \subseteq Range(replies)
        /\ Waiting' = Waiting \ {h} /\ \A r \in Waiting : r = h \/ h < r
        /\ IsArray(m) => h \in Range(replies)
        /\ "subscribed" \notin flags => invalid' = invalid
        /\ Lists'
  <2>1. CASE Expected /\ Run(Head(replies), m) /\ replies' = Tail(replies)
             /\ UNCHANGED <<flags, err, invalid, subs>>
    <3> DEFINE h == Head(replies)
    <3>1. /\ h \notin Range(replies') /\ Range(replies) = {h} \cup Range(replies')
          /\ \A r \in Range(replies') : h < r
          /\ replies' \in Seq(Requests \cup {None}) /\ replies # <<>>
      BY <1>3, <1>4, <1>5, <2>1 DEF Expected, Lists
    <3>2. Lists'
      BY <1>1, <1>4, <2>1, <3>1, ListsShift DEF Run, IInv
    <3>3. Run(h, m) /\ invalid' = invalid /\ UNCHANGED <<flags, subs>>
      BY <2>1
    <3> HIDE DEF h
    <3>4. h \in Range(replies) /\ \A r \in Range(invalid) : h < r
      BY <1>4, <3>1 DEF Lists
    <3>5. h \notin Range(invalid)
      <4>1. h \in Nat
        BY <1>4, <3>4 DEF Lists, Waiting, Requests
      <4>2. ~(h < h)
        BY <4>1
      <4> QED BY <3>4, <4>2
    <3>6. h \in Waiting /\ Waiting' = Waiting \ {h} /\ \A r \in Waiting : r = h \/ h < r
      BY <3>1, <3>3, <3>4, <3>5 DEF Waiting
    <3> QED BY <1>3, <3>1, <3>2, <3>3, <3>4, <3>6
  <2>2. CASE /\ ~Expected /\ ~IsArray(m) /\ "subscribed" \in flags /\ invalid # <<>>
             /\ Run(Head(invalid), m) /\ invalid' = Tail(invalid)
             /\ UNCHANGED <<flags, err, replies, subs>>
    <3> DEFINE h == Head(invalid)
    <3>1. /\ h \notin Range(invalid') /\ Range(invalid) = {h} \cup Range(invalid')
          /\ \A r \in Range(invalid') : h < r
          /\ invalid' \in Seq(Requests \cup {None})
      BY <1>3, <1>4, <1>5, <2>2 DEF Lists
    <3>2. Lists'
      BY <1>1, <1>4, <2>2, ListsShift DEF Run, IInv
    <3>3. Run(h, m) /\ replies' = replies /\ UNCHANGED <<flags, subs>>
      BY <2>2
    <3> HIDE DEF h
    <3>4. Range(replies) = {}
      <4>1. \A s \in Seq(Requests \cup {None}) : s = <<>> => Range(s) = {}
        BY Elements
      <4> QED BY <1>3, <2>2, <4>1 DEF Expected
    <3>5. h \in Waiting /\ Waiting' = Waiting \ {h} /\ \A r \in Waiting : r = h \/ h < r
      BY <3>1, <3>3, <3>4 DEF Waiting
    <3> QED BY <1>3, <2>2, <3>1, <3>2, <3>3, <3>5
  <2> QED BY <2>1, <2>2 DEF m
<1>7. IsReply(m) /\ m.of = <<h>>
  BY <1>2, <1>4, <1>6, FirstOf DEF IInv
<1>8. h \in Requests /\ made[h] = "plain" /\ h \in Requests \cup {None}
  BY <1>4 DEF Lists
<1>9. made[h] \notin {"", "refused"} /\ Meant(h, m)
  BY <1>7, <1>8 DEF Meant, IsReply
<1>10. /\ calls' \in [Requests -> 0..2] /\ cb' = h
       /\ InTurn' /\ Running' /\ Alive' /\ pc' \in {"process", "callback"}
  BY <1>1, <1>6, <1>8, <1>9, RunIs DEF IInv
<1>11. Types'
  <2>1. UNCHANGED <<flags, subs, obuf, wire, back, made, serving>>
    BY <1>1, <1>6 DEF server
  <2>2. cb' \in Requests \cup {None} /\ pc' \in {"idle", "process", "callback", "drain", "freed"}
    BY <1>8, <1>10
  <2>3. /\ replies' \in Seq(Requests \cup {None}) /\ invalid' \in Seq(Requests \cup {None})
        /\ calls' \in [Requests -> 0..2] /\ rbuf' \in Seq(Heard)
    BY <1>2, <1>6, <1>10
  <2> QED BY <2>1, <2>2, <2>3, ZenonT(60) DEF IInv, Types
<1>12. OnTheWay' /\ Serving'
  <2>1. serving' = serving
    BY <1>1 DEF server
  <2> QED BY <1>2, <1>4, <1>6, <1>7, <2>1, ReplyMatched DEF IInv
<1>13. Matching'
  <2>1. "monitoring" \notin flags' /\ OfMonitor' = {}
    BY <1>1, <1>6 DEF Matching, OfMonitor
  <2>2. ~lost'
    BY <1>6, <1>8, NoRequest DEF Run, Matching
  <2>3. Subscribers'
    BY <1>1, <1>6 DEF Matching, Subscribers, Listening
  <2> QED BY <1>6, <1>12, <2>1, <2>2, <2>3 DEF Matching
<1>14. Attentive'
  BY <1>13 DEF Attentive, Matching
<1> QED BY <1>10, <1>11, <1>13, <1>14 DEF IInv

\* A message of a channel goes to the callback of the channel, which may go with it.
LEMMA ChannelReply ==
  ASSUME IInv, Matching, OneReply, ~Expected, IsArray(Head(rbuf)), "subscribed" \in flags,
         ForChannel(Head(rbuf), Head(rbuf).of[1]), UNCHANGED <<err, replies, invalid>>
  PROVE  IInv'
<1> DEFINE m == Head(rbuf)
           ch == m.of[1]
<1>1. /\ pc = "process" /\ UNCHANGED <<obuf, poll, made, split, server>>
  BY DEF OneReply
<1>2. /\ m = Head(Near) /\ Near # <<>> /\ Near' = Tail(Near) /\ Far' = Far /\ rbuf' \in Seq(Heard)
      /\ m \in Heard /\ m \in Range(Near)
  BY OneReplyMoves DEF IInv
<1>3. ForChannel(m, ch) /\ IsArray(m)
  OBVIOUS
<1> HIDE DEF m
<1>4. Lists /\ OnTheWay /\ Serving /\ Alive
  BY <1>1 DEF Matching, Alive
<1>5. Sound(m)
  BY <1>2, <1>4 DEF OnTheWay
<1>6. ch \in Channels /\ Listening(ch) /\ (m.what # "sub" => m.of = <<ch>>) /\ ~IsReply(m)
  <2>1. ~IsReply(m) /\ m.of \in Seq(Channels)
    BY <1>2, <1>3 DEF IsReply, IsArray, Heard
  <2>2. m.of # <<>> /\ (\A i \in DOMAIN m.of : Listening(m.of[i])) /\ (m.what # "sub" => m.of = <<m.of[1]>>)
    BY <1>5, <2>1 DEF Sound
  <2>3. 1 \in DOMAIN m.of /\ m.of[1] \in Channels
    BY <2>1, <2>2, Elements
  <2> QED BY <2>1, <2>2, <2>3
<1>7. /\ Run(subs[ch].cb, m) /\ subs' = OfChannel(m, ch)
      /\ flags' = IF m.what = "unsub" /\ m.left = 0 /\ \A c \in Channels : subs'[c].cb = None
                  THEN flags \ {"subscribed"} ELSE flags
  BY <1>3, <1>6 DEF ForChannel
<1> DEFINE q == subs[ch].cb
<1>8. q \in Requests /\ made[q] = "sub" /\ q \in Requests \cup {None}
  <2>1. subs[ch].cb \in Requests \cup {None} /\ subs[ch].cb # None
    BY <1>6, Zenon DEF IInv, Types, Listening
  <2> QED BY <1>6, <2>1 DEF Matching, Subscribers
<1>9. made[q] \notin {"", "refused"} /\ Meant(q, m)
  BY <1>3, <1>8 DEF Meant, IsArray
<1>10. /\ calls' \in [Requests -> 0..2] /\ cb' = q
       /\ InTurn' /\ Running' /\ Alive' /\ pc' \in {"process", "callback"}
  BY <1>1, <1>7, <1>8, <1>9, RunIs DEF IInv
\* The channels' entries keep their form, and only that of ch may lose its callback.
<1>11. /\ DOMAIN subs' = Channels
       /\ \A c \in Channels : /\ \E p : subs'[c] = [cb |-> subs'[c].cb, pending |-> p]
                              /\ subs'[c].cb \in {subs[c].cb, None}
                              /\ c # ch \/ m.what # "unsub" => subs'[c].cb = subs[c].cb
  <2>1. DOMAIN subs = Channels
        /\ \A c \in Channels : subs[c] = [cb |-> subs[c].cb, pending |-> subs[c].pending]
    BY Zenon DEF IInv, Types
  <2>2. ASSUME NEW c, NEW p
        PROVE  /\ \A d : [[cb |-> c, pending |-> p] EXCEPT !.cb = d] = [cb |-> d, pending |-> p]
               /\ \A d : [[cb |-> c, pending |-> p] EXCEPT !.pending = d] = [cb |-> c, pending |-> d]
    OBVIOUS
  <2>3. CASE m.what = "sub"
    <3>1. subs' = [subs EXCEPT ![ch].pending = @ - 1]
      BY <1>7, <2>3 DEF OfChannel
    <3>2. \A c \in Channels : subs'[c] = IF c = ch THEN [subs[c] EXCEPT !.pending = @ - 1] ELSE subs[c]
      BY <1>6, <2>1, <3>1
    <3>3. \A c \in Channels : \E p : subs'[c] = [cb |-> subs[c].cb, pending |-> p]
      <4> SUFFICES ASSUME NEW c \in Channels PROVE \E p : subs'[c] = [cb |-> subs[c].cb, pending |-> p]
        OBVIOUS
      <4>1. CASE c = ch
        <5>1. PICK d : subs'[c] = [subs[c] EXCEPT !.pending = d]
          BY <3>2, <4>1
        <5>2. subs'[c] = [cb |-> subs[c].cb, pending |-> d]
          BY <2>1, <2>2, <5>1, Zenon
        <5> QED BY <5>2
      <4>2. CASE c # ch
        BY <2>1, <3>2, <4>2, Zenon
      <4> QED BY <4>1, <4>2
    <3>4. DOMAIN subs' = Channels
      BY <2>1, <3>1
    <3>5. \A c, p, s : s = [cb |-> c, pending |-> p] => s.cb = c
      OBVIOUS
    <3> QED BY <3>3, <3>4, <3>5
  <2>4. CASE m.what = "unsub" /\ subs[ch].pending = 0
    <3>1. subs' = [subs EXCEPT ![ch].cb = None]
      BY <1>7, <2>4 DEF OfChannel
    <3>2. /\ subs'[ch] = [subs[ch] EXCEPT !.cb = None] /\ DOMAIN subs' = Channels
          /\ \A c \in Channels : c # ch => subs'[c] = subs[c]
      BY <1>6, <2>1, <3>1
    <3>3. subs'[ch] = [cb |-> None, pending |-> subs[ch].pending]
      BY <1>6, <2>1, <2>2, <3>2, Zenon
    <3>4. \A c, p, s : s = [cb |-> c, pending |-> p] => s.cb = c
      OBVIOUS
    <3> QED BY <1>6, <2>1, <2>4, <3>2, <3>3, <3>4
  <2>5. CASE m.what # "sub" /\ ~(m.what = "unsub" /\ subs[ch].pending = 0)
    <3>1. subs' = subs
      BY <1>7, <2>5 DEF OfChannel
    <3> QED BY <2>1, <3>1
  <2> QED BY <2>3, <2>4, <2>5
<1> HIDE DEF q
<1>12. Types'
  <2>1. UNCHANGED <<replies, invalid, obuf, wire, back, made, serving>>
    BY <1>1, SMTT(60) DEF server
  <2>2. /\ cb' \in Requests \cup {None} /\ pc' \in {"idle", "process", "callback", "drain", "freed"}
        /\ calls' \in [Requests -> 0..2] /\ rbuf' \in Seq(Heard)
        /\ flags' \subseteq {"connected", "disconnecting", "freeing", "subscribed", "monitoring"}
    BY <1>2, <1>7, <1>8, <1>10, Zenon DEF IInv, Types
  <2>3. \A c \in Channels : subs'[c].cb \in Requests \cup {None}
    BY <1>11 DEF IInv, Types
  <2>4. subs' = [c \in Channels |-> [cb |-> subs'[c].cb, pending |-> subs'[c].pending]]
    <3>1. \A c, p, s : s = [cb |-> c, pending |-> p] => s.pending = p
      OBVIOUS
    <3>2. ASSUME NEW c \in Channels
          PROVE  subs'[c] = [cb |-> subs'[c].cb, pending |-> subs'[c].pending]
      <4>1. PICK p : subs'[c] = [cb |-> subs'[c].cb, pending |-> p]
        BY <1>11
      <4>2. subs'[c].pending = p
        BY <3>1, <4>1, Zenon
      <4> QED BY <4>1, <4>2, Zenon
    <3>3. subs = [c \in Channels |-> subs[c]]
      <4>1. subs = [c \in Channels |-> [cb |-> subs[c].cb, pending |-> subs[c].pending]]
        BY ZenonT(60) DEF IInv, Types
      <4> DEFINE e(c) == [cb |-> subs[c].cb, pending |-> subs[c].pending]
      <4>2. subs = [c \in Channels |-> e(c)]
        BY <4>1, SMTT(60)
      <4> HIDE DEF e
      <4> QED BY <4>2
    <3>4. subs' = [c \in Channels |-> subs'[c]]
      BY <1>7, <3>3, Zenon DEF OfChannel
    <3> QED BY <3>2, <3>4, Zenon
  <2>5. DOMAIN subs' = Channels
    BY <1>11
  <2> QED BY <2>1, <2>2, <2>3, <2>4, <2>5, ZenonT(60) DEF IInv, Types
<1>13. Lists'
  <2>1. CallBack(q) /\ made[q] # "plain"
    BY <1>7, <1>8 DEF Run, q
  <2> QED BY <1>1, <1>4, <1>8, <2>1, ListsOther DEF IInv
<1>14. Subscribers'
  BY <1>1, <1>11 DEF Matching, Subscribers, Listening

<1>15. /\ Range(Near) = {m} \cup Range(Near')
       /\ \A x \in Range(Near') \cup Range(Far') : Follows(m, x) /\ Sound(x) /\ x \in Items
  <2>1. Range(Near) = {m} \cup Range(Near') /\ \A x \in Range(Near') \cup Range(Far') : Follows(m, x)
    BY <1>2, <1>4, Taken DEF IInv
  <2>2. \A x \in Range(Near) \cup Range(Far) : Sound(x) /\ x \in Items
    <3>1. \A s \in Seq(Items) : \A x \in Range(s) : x \in Items
      BY Elements
    <3>2. Near \in Seq(Items) /\ Far \in Seq(Items)
      BY BothWays DEF IInv
    <3> QED BY <1>4, <3>1, <3>2 DEF OnTheWay
  <2> QED BY <1>2, <2>1, <2>2
<1>16. /\ Waiting' = Waiting /\ Range(replies') = Range(replies) /\ serving' = serving
       /\ replies' = replies /\ invalid' = invalid
  BY <1>1 DEF Waiting, server
<1>17. ASSUME NEW r \in Waiting
       PROVE  \E x \in Range(Near') \cup Range(Far') : IsReply(x) /\ x.of = <<r>>
  <2>1. PICK x \in Range(Near) \cup Range(Far) : IsReply(x) /\ x.of = <<r>>
    BY <1>4 DEF OnTheWay
  <2> QED BY <1>2, <1>6, <1>15, <2>1
<1>18. ASSUME m.what # "unsub" PROVE OnTheWay' /\ Serving'
  <2>1. flags' = flags
    BY <1>7, <1>18
  <2>2. \A c \in Channels : Listening(c) => Listening(c)'
    BY <1>11, <1>18 DEF Listening
  <2>3. ASSUME NEW x \in Range(Near') \cup Range(Far')
        PROVE  Sound(x)'
    <3>1. Sound(x) /\ x \in Items
      BY <1>15
    <3>2. IsArray(x) => \A i \in DOMAIN x.of : x.of[i] \in Channels
      <4>1. IsArray(x) => x.of \in Seq(Channels)
        BY <3>1 DEF IsArray, Items, Written, Heard
      <4>2. \A s \in Seq(Channels) : \A i \in DOMAIN s : s[i] \in Channels
        BY Elements
      <4> QED BY <4>1, <4>2
    <3> QED BY <1>16, <2>1, <2>2, <3>1, <3>2 DEF Sound
  <2>4. OnTheWay'
    BY <1>2, <1>4, <1>16, <1>17, <2>3, LessOnTheWay DEF IInv
  <2>5. Serving'
    <3>1. serving \subseteq Channels
      BY <1>4 DEF Serving, IInv, Types
    <3> QED BY <1>2, <1>4, <1>16, <2>1, <2>2, <3>1 DEF Serving
  <2> QED BY <2>4, <2>5
<1>19. ASSUME m.what = "unsub" PROVE OnTheWay' /\ Serving'
  <2>1. ASSUME NEW x \in Range(Near') \cup Range(Far')
        PROVE  x.what = "message" /\ x.of[1] # ch /\ ~IsReply(x) /\ x.of[1] \in Channels /\ Listening(x.of[1])
               /\ x.of # <<>> /\ DOMAIN x.of = 1..1 /\ x.of = <<x.of[1]>> /\ IsArray(x)
    <3>1. x.what = "message" /\ x.of[1] # ch /\ Sound(x) /\ x \in Items
      BY <1>15, <1>19, <2>1 DEF Follows
    <3>2. ~IsReply(x) /\ IsArray(x) /\ x.of \in Seq(Channels)
      BY <3>1 DEF IsReply, IsArray, Items, Written, Heard
    <3>3. x.of # <<>> /\ x.of = <<x.of[1]>> /\ \A i \in DOMAIN x.of : Listening(x.of[i])
      BY <3>1, <3>2 DEF Sound
    <3>4. Len(x.of) = 1
      <4>1. \A y : Len(<<y>>) = 1
        OBVIOUS
      <4> QED BY <3>3, <4>1, Zenon
    <3>5. DOMAIN x.of = 1..1 /\ x.of[1] \in Channels
      BY <3>2, <3>4, Elements
    <3> QED BY <3>1, <3>2, <3>3, <3>5
  <2>2. Waiting = {}
    BY <1>17, <2>1
  <2>3. \A c \in Channels : c # ch /\ Listening(c) => Listening(c)'
    BY <1>11 DEF Listening
  <2>4. "subscribed" \in flags' \/ ((\A c \in Channels : ~Listening(c)') /\ Waiting = {})
    BY <1>7, <2>2 DEF Listening
  <2>5. ASSUME NEW x \in Range(Near') \cup Range(Far')
        PROVE  Sound(x)'
    <3>1. Listening(x.of[1])' /\ "subscribed" \in flags'
      BY <2>1, <2>3, <2>4
    <3>2. \A i \in 1..1 : i = 1
      OBVIOUS
    <3>3. \A i \in DOMAIN x.of : Listening(x.of[i])'
      BY <2>1, <3>1, <3>2
    <3> QED BY <2>1, <3>1, <3>3 DEF Sound
  <2>6. OnTheWay'
    BY <1>2, <1>4, <1>16, <1>17, <2>5, LessOnTheWay DEF IInv
  <2>7. \A c \in serving : c \in Channels /\ Listening(c)'
    <3>1. \A c \in serving : c \in Channels /\ Listening(c)
      BY <1>4 DEF Serving, IInv, Types
    <3>2. ch \notin serving
      BY <1>2, <1>4, <1>19 DEF OnTheWay
    <3> QED BY <2>3, <3>1, <3>2
  <2>8. "subscribed" \notin flags' => serving' = {} /\ invalid' = <<>>
    <3>1. invalid = <<>>
      <4>1. invalid \in Seq(Requests \cup {None}) /\ Range(invalid) = {}
        BY <2>2, Zenon DEF IInv, Types, Waiting
      <4>2. \A s \in Seq(Requests \cup {None}) : Range(s) = {} => s = <<>>
        BY Elements
      <4> QED BY <4>1, <4>2
    <3> QED BY <1>16, <2>4, <2>7, <3>1
  <2>9. Serving'
    <3>1. None \notin serving
      BY <1>4 DEF Serving
    <3> QED BY <1>16, <2>1, <2>7, <2>8, <3>1 DEF Serving
  <2> QED BY <2>6, <2>9
<1>20. Matching'
  <2>1. "monitoring" \notin flags' /\ OfMonitor' = {}
    BY <1>1, <1>7 DEF Matching, OfMonitor
  <2>2. ~lost'
    BY <1>7, <1>8, NoRequest DEF Run, Matching, q
  <2> QED BY <1>13, <1>14, <1>18, <1>19, <2>1, <2>2, SMTT(60) DEF Matching
<1>21. Attentive'
  BY <1>20 DEF Attentive, Matching
<1> QED BY <1>10, <1>12, <1>20, <1>21 DEF IInv

\* An error nobody waits for ends the connection.
LEMMA ErrorReply ==
  ASSUME IInv, Matching, OneReply, Fail(flags), UNCHANGED <<cb, books, history>>
  PROVE  IInv'
<1>1. /\ pc = "process" /\ UNCHANGED <<obuf, poll, made, split, server, cb, books, calls, astray, lost>>
      /\ pc' = "drain" /\ flags' = flags \cup {"disconnecting"}
  BY DEF OneReply, Fail, history
<1>2. rbuf' \in Seq(Heard)
  BY OneReplyMoves DEF IInv
<1>3. Types'
  <2>1. UNCHANGED <<cb, replies, invalid, subs, obuf, wire, back, made, calls, serving>>
    BY <1>1 DEF server, books
  <2>2. /\ flags' \subseteq {"connected", "disconnecting", "freeing", "subscribed", "monitoring"}
        /\ pc' \in {"idle", "process", "callback", "drain", "freed"}
    BY <1>1 DEF IInv, Types
  <2> QED BY <1>2, <2>1, <2>2 DEF IInv, Types
<1>4. InTurn'
  <2>1. \E r \in Requests : made[r] # ""
    BY <1>1 DEF IInv, InTurn
  <2> QED BY <1>1, <2>1 DEF IInv, InTurn
<1>5. Running' /\ ~Alive'
  BY <1>1 DEF IInv, Running, Alive, Closing
<1>6. Matching'
  BY <1>1, <1>5 DEF Matching, OfMonitor, Lists, Waiting, Ordered, Subscribers, Listening, books
<1>7. Attentive'
  BY <1>6 DEF Attentive, Matching
<1> QED BY <1>3, <1>4, <1>5, <1>6, <1>7 DEF IInv

LEMMA OneReplyStep ==
  ASSUME IInv, OneReply
  PROVE  IInv'
<1> DEFINE m == Head(rbuf)
<1>1. CASE Monitoring
  BY <1>1, MonitorReply
<1>2. CASE Matching
  <2>1. m \in Range(Near) /\ pc = "process"
    BY OneReplyMoves DEF IInv, OneReply
  <2>2. Sound(m) /\ Serving /\ "monitoring" \notin flags
    BY <1>2, <2>1 DEF Matching, OnTheWay, Alive
  <2>3. \A s \in Seq(Requests \cup {None}) : s = <<>> => Range(s) = {}
    BY Elements
  <2>4. replies \in Seq(Requests \cup {None}) /\ invalid \in Seq(Requests \cup {None})
    BY Zenon DEF IInv, Types
  <2> HIDE DEF m
  <2>5. ~Expected /\ ~IsArray(m) => invalid # <<>> /\ "subscribed" \in flags
    <3>1. ~Expected /\ ~IsArray(m) => Range(invalid) # {}
      BY <2>2, <2>3, <2>4 DEF Sound, Waiting, Expected
    <3> QED BY <2>2, <2>3, <2>4, <3>1 DEF Serving
  <2>6. IsArray(m) => "subscribed" \in flags
    <3>1. IsArray(m) => ~IsReply(m)
      BY DEF IsArray, IsReply
    <3> QED BY <2>2, <3>1 DEF Sound
  <2>7. \/ /\ Expected /\ Run(Head(replies), m) /\ replies' = Tail(replies)
           /\ UNCHANGED <<flags, err, invalid, subs>>
        \/ Fail(flags) /\ UNCHANGED <<cb, books, history>>
        \/ /\ ~Expected /\ IsArray(m) /\ "subscribed" \in flags
           /\ ForChannel(m, m.of[1]) /\ UNCHANGED <<err, replies, invalid>>
        \/ /\ ~Expected /\ ~IsArray(m) /\ "subscribed" \in flags /\ invalid # <<>>
           /\ Run(Head(invalid), m) /\ invalid' = Tail(invalid)
           /\ UNCHANGED <<flags, err, replies, subs>>
    BY <2>2, <2>5, <2>6 DEF OneReply, Shift, m
  <2> QED BY <1>2, <2>7, ListReply, ErrorReply, ChannelReply DEF m
<1> QED BY <1>1, <1>2 DEF IInv

-----------------------------------------------------------------------------
(* The theorems                                                            *)

LEMMA InitHolds == Init => IInv
<1> SUFFICES ASSUME Init PROVE IInv
  OBVIOUS
<1> USE DEF Init
<1>1. \A S : <<>> \in Seq(S)
  BY EmptySeq
<1>2. Range(<<>>) = {} /\ \A R : Ordered(<<>>, R)
  <2>1. <<>> \in Seq({}) /\ {} # {{}}
    BY <1>1
  <2>2. Range(<<>>) = {}
    BY <2>1, Elements
  <2>3. \A R : Ordered(<<>>, R)
    <3>1. \A R : Ordered(<<0>>, R) /\ Ordered(<<>>, R)
      BY OrderedShort
    <3> QED BY <3>1
  <2> QED BY <2>2, <2>3
<1>3. Types
  <2>1. DOMAIN subs = Channels /\ \A ch \in Channels : subs[ch].cb = None /\ subs[ch].pending = 0
    OBVIOUS
  <2>2. subs = [ch \in Channels |-> [cb |-> subs[ch].cb, pending |-> subs[ch].pending]]
    BY <2>1
  <2>3. /\ \A ch \in Channels : subs[ch].cb \in Requests \cup {None}
        /\ made \in [Requests -> Calls \cup {"", "refused"}]
    BY <2>1
  <2>6. calls \in [Requests -> 0..2]
    <3>1. calls = [r \in Requests |-> 0]
      OBVIOUS
    <3> HIDE DEF Init
    <3> QED BY <3>1
  <2>4. /\ replies \in Seq(Requests \cup {None}) /\ invalid \in Seq(Requests \cup {None})
        /\ obuf \in Seq(Written) /\ wire \in Seq(Written)
        /\ back \in Seq(Heard) /\ rbuf \in Seq(Heard)
    BY <1>1, Zenon
  <2>5. /\ flags \subseteq {"connected", "disconnecting", "freeing", "subscribed", "monitoring"}
        /\ pc \in {"idle", "process", "callback", "drain", "freed"}
        /\ cb \in Requests \cup {None} /\ serving \subseteq Channels \cup {None}
    OBVIOUS
  <2> HIDE DEF Init
  <2> QED BY <2>1, <2>2, <2>3, <2>4, <2>5, <2>6, Zenon DEF Types
<1>4. InTurn /\ Running
  BY DEF InTurn, Running, Alive
<1>5. Near = <<>> /\ Far = <<>> /\ Near \o Far = <<>>
  <2>1. <<>> \o <<>> = <<>>
    BY <1>1, CatEmpty DEF Cat
  <2> QED BY <2>1 DEF Near, Far
<1>6. Waiting = {} /\ Lists
  BY <1>2 DEF Waiting, Lists
<1>7. Subscribers
  BY DEF Subscribers, Listening
<1>8. OnTheWay
  BY <1>2, <1>5, <1>6 DEF OnTheWay
<1>9. Serving
  BY DEF Serving
<1>10. Matching /\ Attentive
  BY <1>6, <1>7, <1>8, <1>9 DEF Matching, OfMonitor, Attentive
<1> QED BY <1>3, <1>4, <1>10 DEF IInv

LEMMA NextHolds ==
  ASSUME IInv, CarefulProgram, [Next]_vars
  PROVE  IInv'
<1>1. CASE UNCHANGED vars
  <2>1. Same /\ SameRequests
    BY <1>1 DEF vars, Same, SameRequests, books, history, server, Near, Far, IInv, Types
  <2>2. UNCHANGED <<flags, pc, cb, replies, invalid, subs, obuf, rbuf, poll, made, calls, astray,
                    split, lost, wire, back, serving>>
    BY <1>1 DEF vars, books, history, server
  <2>3. Types' /\ InTurn' /\ Running' /\ Attentive'
    BY <2>2, ZenonT(150) DEF IInv, Types, InTurn, Running, Alive, Closing, Attentive
  <2>4. Monitoring => Monitoring'
    BY <2>1, <2>2, SameMonitoring DEF IInv, Monitoring
  <2>5. Matching => Matching'
    BY <2>1, <2>2, SameMatching DEF IInv, Alive
  <2> QED BY <2>3, <2>4, <2>5 DEF IInv
<1>2. CASE Commands
  BY <1>2, CommandStep DEF Commands
<1>3. CASE Disconnect \/ Free \/ ConnectFails \/ Return
  BY <1>3, LeavingStep
<1>4. CASE HandleWrite
  BY <1>4, HandleWriteStep
<1>5. CASE HandleRead
  BY <1>5, HandleReadStep
<1>6. CASE OneReply
  BY <1>6, OneReplyStep
<1>7. CASE NoReply
  BY <1>7, NoReplyStep
<1>8. CASE Drain
  BY <1>8, DrainStep
<1>9. CASE Serve
  BY <1>9, ServeStep
<1>10. CASE Spontaneous
  BY <1>10, SpontaneousStep
<1> QED BY <1>1, <1>2, <1>3, <1>4, <1>5, <1>6, <1>7, <1>8, <1>9, <1>10 DEF Next, Handler

LEMMA InvariantHolds == CarefulProgram => (Spec => []IInv)
<1> SUFFICES ASSUME CarefulProgram PROVE Spec => []IInv
  OBVIOUS
<1>1. IInv /\ [Next]_vars => IInv'
  BY NextHolds
<1> QED BY <1>1, InitHolds, PTL DEF Spec

LEMMA IInvCallbacksRight == IInv => CallbacksRight
<1> SUFFICES ASSUME IInv PROVE CallbacksRight
  OBVIOUS
<1>1. Types /\ InTurn /\ Running
  BY DEF IInv
<1>2. TypeOK
  <2>1. \A s \in Seq(Requests \cup {None}) : \A r \in Range(s) : r \in Requests \cup {None}
    BY Elements
  <2>2. \A s \in Seq(Written) : \A i \in DOMAIN s : s[i] \in Written
    BY Elements
  <2>3. \A m \in Written : m.what \in Calls
    BY WrittenIs
  <2> QED BY <1>1, <2>1, <2>2, <2>3 DEF Types, TypeOK
<1>3. NeverAborts /\ RightCallback
  BY <1>1 DEF Types, Running, NeverAborts, RightCallback
<1>4. NobodyForgotten
  <2> SUFFICES ASSUME pc = "freed", NEW r \in Requests, made[r] = "plain" PROVE calls[r] = 1
    BY DEF NobodyForgotten
  <2>1. Lists
    BY DEF IInv, Monitoring, Matching
  <2>2. \A s \in Seq(Requests \cup {None}) : s = <<>> => Range(s) = {}
    BY Elements
  <2>3. Waiting = {}
    BY <1>1, <2>2 DEF Waiting, Running, Types
  <2> QED BY <2>1, <2>3 DEF Lists
<1>5. LinesHeard
  BY DEF IInv, Monitoring, Matching, LinesHeard
<1> QED BY <1>2, <1>3, <1>4, <1>5 DEF CallbacksRight

\* Every reply goes to the callback of its command, in whatever order commands, replies and
\* messages come and callbacks make further calls; no assertion fails; nobody is forgotten.
THEOREM CallbacksAreRight == CarefulProgram => (Spec => []CallbacksRight)
  BY InvariantHolds, IInvCallbacksRight, PTL

\* A step that is not a command runs one callback, if any.
LEMMA OneCallBack ==
  ASSUME IInv, [Next]_vars, ~Commands
  PROVE  /\ UNCHANGED made
         /\ UNCHANGED calls \/ \E c \in Requests \cup {None} : CallBack(c)
<1>0. /\ replies # <<>> => Head(replies) \in Requests \cup {None}
      /\ invalid # <<>> => Head(invalid) \in Requests \cup {None}
      /\ cb \in Requests \cup {None} /\ \A ch \in Channels : subs[ch].cb \in Requests \cup {None}
  BY CallbacksRest DEF IInv, Types
<1>1. CASE Drain
  BY <1>0, <1>1 DEF Drain
<1>2. CASE OneReply
  <2>1. UNCHANGED made
    BY <1>2 DEF OneReply
  <2>2. CASE UNCHANGED history
    BY <2>1, <2>2 DEF history
  <2>3. ASSUME NEW m, \/ Expected /\ Run(Head(replies), m)
                      \/ Run(IF invalid = <<>> THEN cb ELSE Head(invalid), m)
                      \/ Run(cb, m)
        PROVE  \E c \in Requests \cup {None} : CallBack(c)
    BY <1>0, <2>3 DEF Run, Expected
  <2>4. ASSUME IsArray(Head(rbuf)), "subscribed" \in flags,
               ForChannel(Head(rbuf), Head(rbuf).of[1])
        PROVE  \E c \in Requests \cup {None} : CallBack(c)
    <3> DEFINE m == Head(rbuf)
    <3>1. m \in Heard /\ m \in Range(Near) /\ pc = "process"
      BY <1>2, OneReplyMoves DEF IInv, OneReply
    <3>2. ~IsReply(m) /\ m.of \in Seq(Channels)
      BY <2>4, <3>1 DEF IsReply, IsArray, Heard
    <3>3. Sound(m)
      BY <2>4, <3>1 DEF IInv, Monitoring, Matching, OnTheWay, Alive
    <3> HIDE DEF m
    <3>4. m.of[1] \in Channels
      BY <3>2, <3>3, Elements DEF Sound
    <3>5. Run(cb, m) \/ Run(subs[m.of[1]].cb, m)
      BY <2>4 DEF ForChannel, m
    <3> QED BY <1>0, <3>4, <3>5 DEF Run
  <2> QED BY <1>2, <2>1, <2>2, <2>3, <2>4 DEF OneReply
<1>3. CASE UNCHANGED <<made, calls>>
  BY <1>3
<1>4. \/ Drain \/ OneReply \/ UNCHANGED <<made, calls>>
  BY DEF Next, Handler, Disconnect, Free, ConnectFails, HandleWrite, HandleRead, NoReply, Return,
         Serve, Spontaneous, vars, history
<1> QED BY <1>1, <1>2, <1>3, <1>4

Verdict(v) == CASE v = "" -> "none" [] v = "refused" -> "no" [] OTHER -> "yes"
Verdicts == [r \in Requests |-> Verdict(made[r])]
PlainCalls == [r \in Requests |-> IF Plain(r) THEN calls[r] ELSE 0]

LEMMA VerdictsIs ==
  /\ Verdicts = [r \in Requests |-> CASE made[r] = "" -> "none"
                                      [] made[r] = "refused" -> "no"
                                      [] OTHER -> "yes"]
  /\ Verdicts' = [r \in Requests |-> CASE made[r] = "" -> "none"
                                       [] made[r] = "refused" -> "no"
                                       [] OTHER -> "yes"]'
  BY DEF Verdicts, Verdict

\* A command decides what is said of its request.
LEMMA DecideStep ==
  ASSUME IInv, NEW r \in Requests, NEW what \in Calls, NEW chs \in Arguments(what),
         Command(r, what, chs)
  PROVE  /\ Verdicts[r] = "none"
         /\ \E v \in {"yes", "no"} : Verdicts' = [Verdicts EXCEPT ![r] = v]
         /\ UNCHANGED PlainCalls
<1>1. PICK v \in Calls \cup {"refused"} : made' = [made EXCEPT ![r] = v]
  BY DEF Command
<1>2. made[r] = "" /\ UNCHANGED calls /\ calls[r] = 0
  BY CommandInTurn DEF Command, IInv
<1>3. made'[r] = v /\ v # "" /\ \A q \in Requests : q # r => made'[q] = made[q]
  BY <1>1 DEF IInv, Types, Calls
<1>4. Verdicts[r] = "none"
  BY <1>2 DEF Verdicts, Verdict
<1>5. Verdict(v) \in {"yes", "no"}
  BY <1>3 DEF Verdict
<1>6. Verdicts' = [Verdicts EXCEPT ![r] = Verdict(v)]
  BY <1>3 DEF Verdicts
<1>7. \A q \in Requests : (IF Plain(q) THEN calls[q] ELSE 0)' = IF Plain(q) THEN calls[q] ELSE 0
  BY <1>2, <1>3 DEF Plain
<1>8. UNCHANGED PlainCalls
  BY <1>7 DEF PlainCalls
<1> QED BY <1>4, <1>5, <1>6, <1>8

\* Any other step is the callback of a plain command, its first, or does not show.
LEMMA CalledStep ==
  ASSUME IInv, IInv', UNCHANGED made, NEW c \in Requests \cup {None}, CallBack(c)
  PROVE  \/ UNCHANGED PlainCalls
         \/ \E r \in Requests : /\ Verdicts[r] = "yes" /\ PlainCalls[r] = 0
                                /\ PlainCalls' = [PlainCalls EXCEPT ![r] = 1]
<1>1. CASE c = None
  BY <1>1 DEF CallBack, PlainCalls, Plain
<1>2. ASSUME c # None, made[c] # "plain"
      PROVE  UNCHANGED PlainCalls
  <2>1. c \in Requests /\ calls' = [calls EXCEPT ![c] = IF @ = 2 THEN 2 ELSE @ + 1]
        /\ calls \in [Requests -> 0..2]
    BY <1>2 DEF CallBack, IInv, Types
  <2>2. calls'[c] # 0 /\ \A q \in Requests : q # c => calls'[q] = calls[q]
    BY <2>1
  <2>3. made[c] # "refused"
    BY <2>1, <2>2 DEF IInv, InTurn
  <2>4. \A q \in Requests : (IF Plain(q) THEN calls[q] ELSE 0)' = IF Plain(q) THEN calls[q] ELSE 0
    BY <1>2, <2>2, <2>3 DEF Plain
  <2> QED BY <2>4 DEF PlainCalls
<1>3. ASSUME c # None, made[c] = "plain"
      PROVE  \E r \in Requests : /\ Verdicts[r] = "yes" /\ PlainCalls[r] = 0
                                 /\ PlainCalls' = [PlainCalls EXCEPT ![r] = 1]
  <2>1. c \in Requests /\ calls' = [calls EXCEPT ![c] = IF @ = 2 THEN 2 ELSE @ + 1]
        /\ calls \in [Requests -> 0..2]
    BY <1>3 DEF CallBack, IInv, Types
  <2>2. Lists'
    BY <1>3, <2>1 DEF IInv, Monitoring, Matching
  <2>3. calls'[c] \in {0, 1}
    BY <1>3, <2>1, <2>2 DEF Lists
  <2>4. calls[c] = 0 /\ calls'[c] = 1 /\ \A q \in Requests : q # c => calls'[q] = calls[q]
    BY <2>1, <2>3
  <2>5. PlainCalls' = [PlainCalls EXCEPT ![c] = 1]
    BY <1>3, <2>1, <2>4 DEF PlainCalls, Plain
  <2> QED BY <1>3, <2>1, <2>4, <2>5 DEF Verdicts, Verdict, PlainCalls, Plain
<1> QED BY <1>1, <1>2, <1>3

\* An accepted command is called back at most once, and a refused one never.
THEOREM ContextImplementsAsyncRequest == CarefulProgram => (Spec => ImplementsAsyncRequest)
<1> SUFFICES ASSUME CarefulProgram PROVE Spec => ImplementsAsyncRequest
  OBVIOUS
<1>1. Init => Promise!Init
  BY DEF Init, Promise!Init
<1>2. IInv /\ IInv' /\ [Next]_vars =>
        [Promise!Next]_<<[r \in Requests |-> CASE made[r] = "" -> "none"
                                               [] made[r] = "refused" -> "no"
                                               [] OTHER -> "yes"],
                         [r \in Requests |-> IF Plain(r) THEN calls[r] ELSE 0]>>
  <2> SUFFICES ASSUME IInv, IInv', [Next]_vars
               PROVE  Promise!Next \/ UNCHANGED <<Verdicts, PlainCalls>>
    BY VerdictsIs DEF PlainCalls
  <2>1. CASE Commands
    <3>1. PICK r \in Requests :
            /\ Verdicts[r] = "none" /\ UNCHANGED PlainCalls
            /\ \E v \in {"yes", "no"} : Verdicts' = [Verdicts EXCEPT ![r] = v]
      BY <2>1, DecideStep DEF Commands
    <3>2. Promise!Decide(r)
      BY <3>1, VerdictsIs DEF Promise!Decide, PlainCalls
    <3> QED BY <3>2 DEF Promise!Next
  <2>2. CASE ~Commands
    <3>1. UNCHANGED made /\ (UNCHANGED calls \/ \E c \in Requests \cup {None} : CallBack(c))
      BY <2>2, OneCallBack
    <3>2. UNCHANGED Verdicts
      BY <3>1 DEF Verdicts
    <3>3. CASE UNCHANGED calls
      BY <3>1, <3>2, <3>3 DEF PlainCalls, Plain
    <3>4. CASE \E c \in Requests \cup {None} : CallBack(c)
      <4>1. UNCHANGED PlainCalls \/ \E r \in Requests : Promise!CallBack(r)
        BY <3>1, <3>2, <3>4, CalledStep, VerdictsIs DEF Promise!CallBack, PlainCalls
      <4> QED BY <3>2, <4>1 DEF Promise!Next
    <3> QED BY <3>1, <3>3, <3>4
  <2> QED BY <2>1, <2>2
<1>3. Spec => []IInv
  BY InvariantHolds
<1> QED BY <1>1, <1>2, <1>3, PTL DEF Spec, ImplementsAsyncRequest, Promise!Spec

=============================================================================
