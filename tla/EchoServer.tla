----------------------------- MODULE EchoServer -----------------------------
(***************************************************************************)
(* The reactor of epollTest_multiport.c, one thread that accepts, reads    *)
(* and writes back, and the client program it is tested with.  A byte is   *)
(* named by its place in what its connection sent.  The sockets are the    *)
(* kernel's: each direction holds Room bytes, and only the client's side   *)
(* does not block.                                                         *)
(***************************************************************************)
EXTENDS Naturals, Sequences, FiniteSets

CONSTANTS
  Conns,      \* bound: connections the client makes
  MaxBytes,   \* bound: bytes a connection sends
  Message,    \* bytes the client sends at once
  Size,       \* MAX_BUFFER_SIZE, what the server reads at once
  Room        \* bytes a socket holds

ASSUME EchoAssumption ==
  IsFiniteSet(Conns) /\ MaxBytes \in Nat /\ {Message, Size, Room} \subseteq Nat \ {0}

VARIABLES
  client,     \* connection -> "new", "open" or "closed"
  sent, got,  \* history: bytes the client's kernel took, bytes the client read
  item,       \* connection -> state of its sockitem: "none" before accept, else the
              \* callback, "recv_cb" or "send_cb", or "freed"
  buffer,     \* the sendbuffer of each sockitem
  up, down,   \* bytes on their way to and from the server
  blocked,    \* the connections (one at most) a send is blocked on
  client_cnt,
  reset,      \* closed connections that were sent what the client did not read
  killed      \* SIGPIPE has ended the server, which does not ignore it

kernel == <<reset, killed>>
echoVars == <<client, sent, got, item, buffer, up, down, blocked, client_cnt, kernel>>

First(s, n) == SubSeq(s, 1, n)
After(s, n) == SubSeq(s, n + 1, Len(s))
Least(m, n) == IF m < n THEN m ELSE n

-----------------------------------------------------------------------------
(* The server.  A blocked send stops the loop.                             *)

Ready(c, callback) == ~killed /\ blocked = {} /\ item[c] = callback

accept_cb(c) ==
  /\ Ready(c, "none") /\ client[c] # "new"
  /\ item' = [item EXCEPT ![c] = "recv_cb"] /\ client_cnt' = client_cnt + 1
  /\ UNCHANGED <<client, sent, got, buffer, up, down, blocked, kernel>>

\* Bytes are read before the end, or the error, of the connection is seen.
recv_cb(c) ==
  /\ Ready(c, "recv_cb")
  /\ \/ \E n \in 1..Least(Len(up[c]), Size) :
          /\ buffer' = [buffer EXCEPT ![c] = First(up[c], n)]
          /\ up' = [up EXCEPT ![c] = After(@, n)]
          /\ item' = [item EXCEPT ![c] = "send_cb"]
          /\ UNCHANGED client_cnt
     \/ /\ up[c] = <<>> /\ client[c] = "closed"
        /\ item' = [item EXCEPT ![c] = "freed"] /\ client_cnt' = client_cnt - 1
        /\ UNCHANGED <<buffer, up>>
  /\ UNCHANGED <<client, sent, got, down, blocked, kernel>>

\* send takes what there is room for and blocks until it has taken all, or until the
\* client is gone; then the callback is recv_cb again.  Its result is not looked at.
\* Wrong variants of the definition that follows, here and below, are named Bad...; no
\* specification uses them.  This one, on a socket that does not block, drops the rest.
BadPut(c) ==
  LET n == Least(Len(buffer[c]), Room - Len(down[c])) IN
  /\ down' = [down EXCEPT ![c] = @ \o First(buffer[c], n)]
  /\ buffer' = [buffer EXCEPT ![c] = <<>>]
Put(c) ==
  LET n == Least(Len(buffer[c]), Room - Len(down[c])) IN
  /\ down' = [down EXCEPT ![c] = @ \o First(buffer[c], n)]
  /\ buffer' = [buffer EXCEPT ![c] = After(@, n)]

send_cb(c) ==
  /\ ~killed /\ item[c] = "send_cb" /\ blocked \subseteq {c}
  /\ IF client[c] = "closed"
     THEN buffer' = [buffer EXCEPT ![c] = <<>>] /\ reset' = reset \cup {c} /\ UNCHANGED down
     ELSE Put(c) /\ UNCHANGED reset
  /\ IF buffer'[c] = <<>>
     THEN item' = [item EXCEPT ![c] = "recv_cb"] /\ blocked' = {}
     ELSE UNCHANGED item /\ blocked' = {c}
  /\ UNCHANGED <<client, sent, got, up, client_cnt, killed>>

\* A send on a connection its peer has reset ends the process; what happens after that
\* is not followed.
Die(c) ==
  /\ ~killed /\ item[c] = "send_cb" /\ blocked \subseteq {c} /\ c \in reset
  /\ killed' = TRUE
  /\ UNCHANGED <<client, sent, got, item, buffer, up, down, blocked, client_cnt, reset>>

-----------------------------------------------------------------------------
(* The client                                                              *)

\* The loop makes a connection and then serves the events of those it has.
connect(c) ==
  /\ ~killed /\ client[c] = "new" /\ client' = [client EXCEPT ![c] = "open"]
  /\ UNCHANGED <<sent, got, item, buffer, up, down, blocked, client_cnt, kernel>>

\* A readable connection is read, a connection that is only writable is written to;
\* what the kernel has no room for is not sent again.
serve(c) ==
  /\ ~killed /\ client[c] = "open"
  /\ \/ \E n \in 1..Len(down[c]) :
          /\ got' = [got EXCEPT ![c] = @ \o First(down[c], n)]
          /\ down' = [down EXCEPT ![c] = After(@, n)]
          /\ UNCHANGED <<sent, up>>
     \/ /\ down[c] = <<>>
        /\ LET n == Least(Least(Message, Room - Len(up[c])), MaxBytes - sent[c]) IN
           /\ n > 0
           /\ up' = [up EXCEPT ![c] = @ \o [i \in 1..n |-> sent[c] + i]]
           /\ sent' = [sent EXCEPT ![c] = @ + n]
        /\ UNCHANGED <<got, down>>
  /\ UNCHANGED <<client, item, buffer, blocked, client_cnt, kernel>>

\* A client that has read all it sent, or any other, may be ended.  Bytes it has not read
\* reset the connection, as do bytes that come later.
close(c) ==
  /\ ~killed /\ client[c] = "open" /\ client' = [client EXCEPT ![c] = "closed"]
  /\ down' = [down EXCEPT ![c] = <<>>]
  /\ reset' = IF down[c] # <<>> THEN reset \cup {c} ELSE reset
  /\ UNCHANGED <<sent, got, item, buffer, up, blocked, client_cnt, killed>>

-----------------------------------------------------------------------------
EchoInit ==
  /\ client = [c \in Conns |-> "new"] /\ item = [c \in Conns |-> "none"]
  /\ sent = [c \in Conns |-> 0] /\ got = [c \in Conns |-> <<>>]
  /\ buffer = [c \in Conns |-> <<>>]
  /\ up = [c \in Conns |-> <<>>] /\ down = [c \in Conns |-> <<>>]
  /\ blocked = {} /\ client_cnt = 0 /\ reset = {} /\ killed = FALSE

Server(c) == accept_cb(c) \/ recv_cb(c) \/ send_cb(c)
EchoNext ==
  \/ \E c \in Conns : Server(c) \/ Die(c) \/ connect(c) \/ serve(c) \/ close(c)
  \/ (killed \/ \A c \in Conns : item[c] = "freed") /\ UNCHANGED echoVars

EchoSpec == EchoInit /\ [][EchoNext]_echoVars

\* Sockets wake the loop for every event (level triggered, or armed anew), and the client
\* reads what comes.
EchoFairness == \A c \in Conns : SF_echoVars(Server(c)) /\ WF_echoVars(serve(c))

-----------------------------------------------------------------------------
(* Properties                                                              *)

\* Nothing is lost, doubled or reordered on a connection while its client is there: what
\* it read, what is on the way and what the server holds are its bytes in their order.
Echoed ==
  \A c \in Conns : client[c] = "open" =>
    got[c] \o down[c] \o buffer[c] \o up[c] = [i \in 1..sent[c] |-> i]

\* client_cnt counts the sockitems, and a send is blocked only for lack of room.
Counted ==
  /\ client_cnt = Cardinality({c \in Conns : item[c] \in {"recv_cb", "send_cb"}})
  /\ \A c \in blocked : item[c] = "send_cb" /\ buffer[c] # <<>>

\* The two together: what the server answers and what it knows of its connections.
Served == Echoed /\ Counted

\* Every byte is read back unless its client is closed, and every closed connection is
\* freed: the send that blocks the loop ends because the client reads.  All this holds as
\* long as no client is closed with bytes of it unanswered or unread, which can end the
\* server for all the others (epollTest_multiport.c:48).
Answered ==
  \A c \in Conns :
    (client[c] # "new") ~>
      killed \/ (client[c] = "closed" /\ item[c] = "freed") \/ Len(got[c]) = sent[c]
=============================================================================
