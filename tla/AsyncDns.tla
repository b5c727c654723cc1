------------------------------ MODULE AsyncDns ------------------------------
(***************************************************************************)
(* The asynchronous DNS client of                                          *)
(* 10_async_request_pool_by_epoll/async_dns_client.c.  A caller commits    *)
(* requests, each with a UDP socket of its own that is registered with one *)
(* epoll instance; a thread waits there, receives, and runs the callbacks. *)
(* The kernel's sockets and the network, which loses, delays and           *)
(* duplicates answers, are external.                                       *)
(***************************************************************************)
EXTENDS Integers, Sequences, FiniteSets

CONSTANTS
  Requests,    \* the commits, named by the ep_arg each allocates
  MaxFds,      \* bound: file descriptors the process can have for sockets
  Ports,       \* local UDP ports
  MaxEvents,   \* ASYNC_CLIENT_NUM, 1024 in the code
  Nothing, Error

Fds == 1..MaxFds

ASSUME SizesAssumption == MaxFds \in Nat /\ MaxEvents \in Nat \ {0}
ASSUME NamesAssumption == Nothing \notin Requests /\ Error \notin Requests

VARIABLES
  stage,    \* of each commit: "new", "sent" (the request is out), "accepted", "refused"
  fdOf,     \* sockfd of the ep_arg; 0 before the socket is made
  port,     \* the local port connect() chose for it
  sock,     \* sock[fd]: whose socket fd is
  epoll,    \* epoll[fd]: the ep_arg registered for fd
  inbox,    \* inbox[fd]: what the next recvfrom gets: the answer to a request, or Error.
            \* Later datagrams wait behind it; nobody reads them.
  net,      \* answers on their way
  batch,    \* the events epoll_wait returned and the loop has not finished with
  pc,       \* where the thread is with the first of them
  got,      \* what it received
  freed,    \* the ep_args that were freed
  calls,    \* how often each request was called back
  result,   \* with what
  exited    \* the process has called exit

commit == <<stage, fdOf, port>>
kernel == <<sock, epoll, inbox>>
proc == <<batch, pc, got, freed>>
answers == <<calls, result>>
vars == <<commit, kernel, net, proc, answers, exited>>

Answer == [to : Ports, of : Requests]
Steps == {"wait", "receive", "call", "remove", "close", "free"}

TypeOK ==
  /\ stage \in [Requests -> {"new", "sent", "accepted", "refused"}]
  /\ fdOf \in [Requests -> Fds \cup {0}] /\ port \in [Requests -> Ports \cup {Nothing}]
  /\ sock \in [Fds -> Requests \cup {Nothing}]
  /\ epoll \in [Fds -> Requests \cup {Nothing}]
  /\ inbox \in [Fds -> Requests \cup {Nothing, Error}]
  /\ net \subseteq Answer
  /\ batch \in Seq(Requests) /\ pc \in Steps /\ (pc = "wait" <=> batch = <<>>)
  /\ got \in Requests \cup {Nothing} /\ freed \subseteq Requests
  /\ calls \in [Requests -> 0..1] /\ result \in [Requests -> Requests \cup {Nothing}]
  /\ exited \in BOOLEAN

\* dns_async_client_init has made the epoll instance and the thread.
Init ==
  /\ stage = [r \in Requests |-> "new"]
  /\ fdOf = [r \in Requests |-> 0] /\ port = [r \in Requests |-> Nothing]
  /\ sock = [fd \in Fds |-> Nothing] /\ epoll = sock /\ inbox = sock
  /\ net = {} /\ batch = <<>> /\ pc = "wait" /\ got = Nothing /\ freed = {}
  /\ calls = [r \in Requests |-> 0] /\ result = [r \in Requests |-> Nothing]
  /\ exited = FALSE

-----------------------------------------------------------------------------
(* Committing a request.  One commit at a time: strtok and srandom, which  *)
(* build the question, are not for several threads.                        *)

Free == {fd \in Fds : sock[fd] = Nothing}
InUse(p) == \E fd \in Fds : sock[fd] # Nothing /\ port[sock[fd]] = p
Committing == \E r \in Requests : stage[r] = "sent"

\* Up to sendto.  The kernel takes the lowest free descriptor and any free port; the
\* request may be lost, and nobody looks whether it was sent at all.
Send(r) ==
  /\ ~exited /\ ~Committing /\ stage[r] = "new"
  /\ \E fd \in Free, p \in Ports :
       /\ \A g \in Free : fd =< g
       /\ ~InUse(p)
       /\ sock' = [sock EXCEPT ![fd] = r]
       /\ fdOf' = [fdOf EXCEPT ![r] = fd]
       /\ port' = [port EXCEPT ![r] = p]
       /\ net' = net \/ net' = net \cup {[to |-> p, of |-> r]}
  /\ stage' = [stage EXCEPT ![r] = "sent"]
  /\ UNCHANGED <<epoll, inbox, proc, answers, exited>>

\* The ep_arg is allocated and registered.
Register(r) ==
  /\ ~exited /\ stage[r] = "sent"
  /\ epoll' = [epoll EXCEPT ![fdOf[r]] = r]
  /\ stage' = [stage EXCEPT ![r] = "accepted"]
  /\ UNCHANGED <<fdOf, port, sock, inbox, net, proc, answers, exited>>

\* calloc or epoll_ctl fails; the socket stays open.
RegisterFails(r) ==
  /\ ~exited /\ stage[r] = "sent"
  /\ stage' = [stage EXCEPT ![r] = "refused"]
  /\ UNCHANGED <<fdOf, port, kernel, net, proc, answers, exited>>

\* Without a descriptor for the socket the process ends.
NoSocket(r) ==
  /\ ~exited /\ ~Committing /\ stage[r] = "new" /\ Free = {}
  /\ exited' = TRUE
  /\ UNCHANGED <<commit, kernel, net, proc, answers>>

-----------------------------------------------------------------------------
(* The network                                                             *)

\* An answer reaches the socket that has its port now, and may come again.
Arrive(a) ==
  /\ ~exited
  /\ \E fd \in Fds :
       /\ sock[fd] # Nothing /\ port[sock[fd]] = a.to
       /\ inbox' = [inbox EXCEPT ![fd] = IF @ = Nothing THEN a.of ELSE @]
  /\ net' \in {net, net \ {a}}
  /\ UNCHANGED <<commit, sock, epoll, proc, answers, exited>>

Lose(a) ==
  /\ net' = net \ {a}
  /\ UNCHANGED <<commit, kernel, proc, answers, exited>>

\* An ICMP error or a datagram with a wrong checksum makes the socket readable and
\* recvfrom fail.
Disturb ==
  /\ ~exited
  /\ \E fd \in Fds : sock[fd] # Nothing /\ inbox' = [inbox EXCEPT ![fd] = Error]
  /\ UNCHANGED <<commit, sock, epoll, net, proc, answers, exited>>

-----------------------------------------------------------------------------
(* The thread.  Operators named Bad... are wrong variants of the definition *)
(* that follows them; no specification uses them.                          *)

Ready == {fd \in Fds : epoll[fd] # Nothing /\ inbox[fd] # Nothing}
BatchSize == IF Cardinality(Ready) =< MaxEvents THEN Cardinality(Ready) ELSE MaxEvents

\* An interrupted wait changes nothing, and other errors need an epfd that is none.
EpollWait ==
  /\ ~exited /\ pc = "wait" /\ Ready # {}
  /\ \E s \in [1..BatchSize -> Ready] :
       /\ \A i, j \in 1..BatchSize : i # j => s[i] # s[j]
       /\ batch' = [i \in 1..BatchSize |-> epoll[s[i]]]
  /\ pc' = "receive"
  /\ UNCHANGED <<commit, kernel, net, got, freed, answers, exited>>

\* What the loop does with an event, in this order.
BadOrder ==
  [receive |-> "call", call |-> "close", close |-> "remove", remove |-> "free"]
BadEarlyFree ==
  [receive |-> "call", call |-> "free", remove |-> "close", close |-> "free"]
Order == [receive |-> "call", call |-> "remove", remove |-> "close", close |-> "free"]

BadEventFd == fdOf[batch[Len(batch)]]
EventFd == fdOf[Head(batch)]

\* recvfrom and dns_parse_response; a failed recvfrom leaves the buffer empty, which
\* is parsed as an answer without records.
Receive ==
  /\ ~exited /\ pc = "receive" /\ pc' = Order.receive
  /\ got' = IF inbox[EventFd] \in Requests THEN inbox[EventFd] ELSE Nothing
  /\ inbox' = [inbox EXCEPT ![EventFd] = Nothing]
  /\ UNCHANGED <<commit, sock, epoll, net, batch, freed, answers, exited>>


CallBack ==
  /\ ~exited /\ pc = "call" /\ pc' = Order.call
  /\ calls' = [calls EXCEPT ![Head(batch)] = @ + 1]
  /\ result' = [result EXCEPT ![Head(batch)] = got]
  /\ UNCHANGED <<commit, kernel, net, batch, got, freed, exited>>

Remove ==
  /\ ~exited /\ pc = "remove" /\ pc' = Order.remove
  /\ epoll' = [epoll EXCEPT ![EventFd] = Nothing]
  /\ UNCHANGED <<commit, sock, inbox, net, batch, got, freed, answers, exited>>

\* Closing a socket also takes it out of the epoll set.
Close ==
  /\ ~exited /\ pc = "close" /\ pc' = Order.close
  /\ sock' = [sock EXCEPT ![EventFd] = Nothing]
  /\ epoll' = [epoll EXCEPT ![EventFd] = Nothing]
  /\ inbox' = [inbox EXCEPT ![EventFd] = Nothing]
  /\ UNCHANGED <<commit, net, batch, got, freed, answers, exited>>

FreeArg ==
  /\ ~exited /\ pc = "free"
  /\ freed' = freed \cup {Head(batch)}
  /\ batch' = Tail(batch)
  /\ pc' = IF Tail(batch) = <<>> THEN "wait" ELSE "receive"
  /\ UNCHANGED <<commit, kernel, net, got, answers, exited>>

Thread == EpollWait \/ Receive \/ CallBack \/ Remove \/ Close \/ FreeArg

Next ==
  \/ \E r \in Requests : Send(r) \/ Register(r) \/ RegisterFails(r) \/ NoSocket(r)
  \/ \E a \in net : Arrive(a) \/ Lose(a)
  \/ Disturb
  \/ Thread

\* The thread runs; nothing makes the caller commit or an answer arrive.
Spec == Init /\ [][Next]_vars /\ WF_vars(Thread)
-----------------------------------------------------------------------------
(* Safety                                                                  *)

Unanswered(r) == stage[r] = "accepted" /\ calls[r] = 0

\* A request that was accepted and not called back yet can still be answered: its
\* socket is open and registered for it, whatever descriptors were reused since
\* (async_dns_client.c:385-388, 472).
UnansweredIsWatched ==
  \A r \in Requests : Unanswered(r) => sock[fdOf[r]] = r /\ epoll[fdOf[r]] = r

\* No event's ep_arg is used after it was freed, or twice: those of the batch are
\* different, still allocated and, but for the first, not called back yet; none in the
\* epoll set is freed (async_dns_client.c:372, 391).
EventsAreLive ==
  /\ \A i, j \in 1..Len(batch) : i # j => batch[i] # batch[j]
  /\ \A i \in 1..Len(batch) : batch[i] \notin freed /\ (i > 1 => Unanswered(batch[i]))
  /\ \A fd \in Fds : epoll[fd] \notin freed

\* An open socket waits for an answer or is about to be closed, unless it is that
\* of a commit that runs or was refused (async_dns_client.c:388, 464, 475).
SocketsHaveUse ==
  \A fd \in Fds, r \in Requests : sock[fd] = r =>
    /\ fdOf[r] = fd
    /\ \/ stage[r] \in {"sent", "refused"} \/ Unanswered(r)
       \/ pc \in {"remove", "close"} /\ Head(batch) = r

\* What the thread and the commits leave behind is alive and of use
\* (async_dns_client.c:372, 383, 388, 391, 464, 475).
NothingStale == TypeOK /\ EventsAreLive /\ SocketsHaveUse

\* A callback gets an answer that was sent to its socket's port.  It may be the answer
\* to an earlier request that had this port: the id of the header is never compared
\* (async_dns_client.c:378-383).
AnswerOfMyPort == \A r \in Requests : result[r] \in Requests => port[result[r]] = port[r]

\* The caller sees at most one callback for what was accepted, and none for what was
\* refused (async_dns_client.c:383, 475).
Interface ==
  INSTANCE AsyncRequest
    WITH verdict <- [r \in Requests |-> CASE stage[r] = "accepted" -> "yes"
                                          [] stage[r] = "refused" -> "no"
                                          [] OTHER -> "none"]
ImplementsAsyncRequest == Interface!Spec

(* Liveness                                                                *)

\* What has arrived for an accepted request, or before it was accepted, is passed to
\* its callback, unless the process ends (async_dns_client.c:357-383, 461-472).
ArrivedIsCalledBack ==
  \A r \in Requests :
    Unanswered(r) /\ inbox[fdOf[r]] # Nothing ~> calls[r] = 1 \/ exited
=============================================================================
