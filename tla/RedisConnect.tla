---------------------------- MODULE RedisConnect ----------------------------
(***************************************************************************)
(* How a context of hiredis gets its socket (net.c) and loses it: every    *)
(* system call that may fail is a step.  Descriptors are numbers, the      *)
(* kernel gives the lowest that is free, and 0 is open before the program  *)
(* begins.  The program opens and closes descriptors of its own meanwhile. *)
(***************************************************************************)
EXTENDS Integers, FiniteSets, FiniteSetsExt

CONSTANTS
  MaxFd,      \* bound: descriptors the kernel has
  MaxAddr,    \* bound: addresses a name resolves to
  Retries     \* REDIS_CONNECT_RETRIES

ASSUME ConnectAssumption == MaxFd \in Nat

VARIABLES
  c,          \* the redisContext, NoContext before it is made and after it is freed
  syscall,    \* the next system call, "idle" outside of a call
  addrs,      \* addresses left, the one tried included
  reuses,     \* addresses in use so far
  ret,        \* what the last call that connects returned
  fds,        \* descriptor -> "closed", or who it belongs to: "context" or "program"
  astray,     \* history: descriptors of the program the context has closed
  stale       \* history: a reconnection has ended before there was a socket

context == <<c, syscall, addrs, reuses, ret>>
kernel == <<fds, astray>>
connectVars == <<context, kernel, stale>>

NoContext == [fd |-> -1, err |-> "none"]
\* The functions of the interface: only a blocking context has a timeout, only one that
\* does not block an address of its own, which it may share.
Ways ==
  {w \in [block : BOOLEAN, unix : BOOLEAN, timeout : {"none", "good", "bad"},
          source : BOOLEAN, reuse : BOOLEAN] :
     /\ w.timeout # "none" => w.block
     /\ w.source => ~w.block /\ ~w.unix
     /\ w.reuse => w.source}

-----------------------------------------------------------------------------
(* The kernel (external)                                                   *)

Unused == {fd \in DOMAIN fds : fds[fd] = "closed"}
OpenFor(fd, who) == fds' = [fds EXCEPT ![fd] = who]
CloseAny(fd) ==
  IF fd \in DOMAIN fds
  THEN /\ fds' = [fds EXCEPT ![fd] = "closed"]
       /\ astray' = IF fds[fd] = "program" THEN astray \cup {fd} ELSE astray
  ELSE UNCHANGED kernel

-----------------------------------------------------------------------------
(* How a call ends                                                         *)

Return(value) == syscall' = "idle" /\ ret' = value /\ UNCHANGED <<addrs, reuses>>

\* The socket is closed before the call returns.
ClosedFd(d) == [d EXCEPT !.fd = -1]
Quit(e) == c' = [ClosedFd(c) EXCEPT !.err = e] /\ CloseAny(c.fd) /\ Return("ERR") /\ UNCHANGED stale

\* The socket, if there is one, stays.
Leave(e) == c' = [c EXCEPT !.err = e] /\ Return("ERR") /\ UNCHANGED kernel
LeaveSilently == Leave(c.err)

Goto(step) == syscall' = step /\ UNCHANGED <<ret, stale>>

-----------------------------------------------------------------------------
(* _redisContextConnectTcp, redisContextConnectUnix                        *)

\* Before the first system call, with what is there of d.  A bad timeout is found here if
\* there is no path of a socket to go to.
Start(d) ==
  /\ addrs' = 0 /\ reuses' = 0
  /\ IF d.timeout = "bad" /\ ~d.unix
     THEN c' = [d EXCEPT !.err = "IO"] /\ syscall' = "idle" /\ ret' = "ERR" /\ stale' = (stale \/ d.fd > 0)
     ELSE c' = d /\ syscall' = (IF d.unix THEN "socket" ELSE "resolve") /\ UNCHANGED <<ret, stale>>

NoSocketMade == stale' = (stale \/ c.fd > 0)

getaddrinfo ==
  /\ syscall = "resolve"
  /\ \/ \E n \in 1..MaxAddr : addrs' = n
        /\ Goto("socket") /\ UNCHANGED <<c, reuses, kernel>>
     \/ Leave("OTHER") /\ NoSocketMade

socket ==
  /\ syscall = "socket"
  /\ \/ /\ Unused # {}
        /\ c' = [c EXCEPT !.fd = Min(Unused)] /\ OpenFor(Min(Unused), "context")
        /\ Goto("nonblock") /\ UNCHANGED <<addrs, reuses, astray>>
     \/ addrs > 1 /\ addrs' = addrs - 1 /\ UNCHANGED <<c, syscall, reuses, ret, kernel, stale>>
     \/ addrs <= 1 /\ Leave(IF c.unix THEN "IO" ELSE "OTHER") /\ NoSocketMade

\* redisSetBlocking(c, 0)
fcntl ==
  /\ syscall = "nonblock"
  /\ \/ Quit("IO")
     \/ /\ ~(c.unix /\ c.timeout = "bad")
        /\ Goto(IF c.source THEN "bind" ELSE "connect") /\ UNCHANGED <<c, addrs, reuses, kernel>>
     \/ c.unix /\ c.timeout = "bad" /\ LeaveSilently /\ UNCHANGED stale

bind ==
  /\ syscall = "bind"
  /\ \/ Goto("connect") /\ UNCHANGED <<c, addrs, reuses, kernel>>
     \/ Leave("OTHER") /\ UNCHANGED stale
     \/ c.reuse /\ LeaveSilently /\ UNCHANGED stale

\* After connect: what is left is the same for both kinds of socket but for one option.
Connected(d) == c' = [d EXCEPT !.connected = TRUE] /\ Return("OK") /\ UNCHANGED <<kernel, stale>>
OnwardAfterConnect ==
  IF c.block THEN Goto("block") /\ UNCHANGED <<c, addrs, reuses, kernel>>
  ELSE IF c.unix THEN Connected(c)
  ELSE Goto("nodelay") /\ UNCHANGED <<c, addrs, reuses, kernel>>

connect ==
  /\ syscall = "connect"
  /\ \/ OnwardAfterConnect                        \* done, or in progress and nobody waits
     \/ c.block /\ Goto("wait") /\ UNCHANGED <<c, addrs, reuses, kernel>>
     \/ Quit("IO")                                \* refused, say
     \/ /\ ~c.unix /\ addrs > 1                   \* EHOSTUNREACH: the next address
        /\ addrs' = addrs - 1 /\ c' = ClosedFd(c) /\ CloseAny(c.fd)
        /\ Goto("socket") /\ UNCHANGED reuses
     \/ ~c.unix /\ addrs = 1 /\ Quit("OTHER")     \* and there is none
     \/ /\ c.reuse /\ reuses + 1 < Retries        \* EADDRNOTAVAIL: the same again
        /\ reuses' = reuses + 1 /\ c' = ClosedFd(c) /\ CloseAny(c.fd)
        /\ Goto("socket") /\ UNCHANGED addrs
     \/ c.reuse /\ reuses + 1 = Retries /\ LeaveSilently /\ UNCHANGED stale

\* redisContextWaitReady: the time is up, the socket has an error, or it is connected.
poll ==
  /\ syscall = "wait"
  /\ \/ Quit("IO")
     \/ Leave("IO") /\ UNCHANGED stale
     \/ OnwardAfterConnect

\* redisSetBlocking(c, 1)
fcntlBack ==
  /\ syscall = "block"
  /\ \/ Quit("IO")
     \/ IF c.unix THEN Connected(c) ELSE Goto("nodelay") /\ UNCHANGED <<c, addrs, reuses, kernel>>

setsockopt ==
  /\ syscall = "nodelay"
  /\ Quit("IO") \/ Connected(c)

-----------------------------------------------------------------------------
(* The interface                                                           *)

\* redisConnect and the other functions that make a context; calloc makes its descriptor 0.
Connect ==
  /\ c = NoContext
  /\ \E way \in Ways :
       Start([fd |-> 0, err |-> "", connected |-> FALSE, block |-> way.block, unix |-> way.unix,
              timeout |-> way.timeout, source |-> way.source, reuse |-> way.reuse])
  /\ UNCHANGED kernel

\* A descriptor the caller has connected.  Its kind is that of a name and a port, since
\* that is 0, so that redisReconnect never finds that it knows too little.
redisConnectFd ==
  /\ c = NoContext
  /\ \E fd \in DOMAIN fds \ {0} :
       /\ fds[fd] = "program" /\ OpenFor(fd, "context")
       /\ c' = [fd |-> fd, err |-> "", connected |-> TRUE, block |-> TRUE, unix |-> FALSE,
                timeout |-> "none", source |-> FALSE, reuse |-> FALSE]
  /\ syscall' = "idle" /\ ret' = "OK" /\ UNCHANGED <<addrs, reuses, astray, stale>>

Usable == c # NoContext /\ syscall = "idle"

CloseOwn == IF c.fd > 0 THEN CloseAny(c.fd) ELSE UNCHANGED kernel

\* The number of the closed socket stays until there is a new one.
redisReconnect == Usable /\ CloseOwn /\ Start([c EXCEPT !.err = ""])

redisFree ==
  /\ Usable /\ CloseOwn
  /\ c' = NoContext /\ Return("none") /\ UNCHANGED stale

redisFreeKeepFd ==
  /\ Usable /\ c' = NoContext /\ Return("none")
  /\ IF c.fd > 0 /\ fds[c.fd] = "context" THEN OpenFor(c.fd, "program") ELSE UNCHANGED fds
  /\ UNCHANGED <<astray, stale>>

\* redisSetTimeout, redisEnableKeepAlive
SetOption ==
  /\ Usable
  /\ \E e \in {c.err, "IO", "OTHER"} : c' = [c EXCEPT !.err = e]
  /\ UNCHANGED <<syscall, addrs, reuses, ret, kernel, stale>>

\* The rest of the program, other threads among it.
Program ==
  /\ \/ Unused # {} /\ OpenFor(Min(Unused), "program")
     \/ \E fd \in DOMAIN fds \ {0} : fds[fd] = "program" /\ OpenFor(fd, "closed")
  /\ UNCHANGED <<context, astray, stale>>

-----------------------------------------------------------------------------
ConnectInit ==
  /\ c = NoContext /\ syscall = "idle" /\ addrs = 0 /\ reuses = 0 /\ ret = "none"
  /\ fds = [fd \in 0..MaxFd |-> IF fd = 0 THEN "program" ELSE "closed"]
  /\ astray = {} /\ stale = FALSE

ConnectNext ==
  \/ getaddrinfo \/ socket \/ fcntl \/ bind \/ connect \/ poll \/ fcntlBack \/ setsockopt
  \/ Connect \/ redisConnectFd \/ redisReconnect \/ redisFree \/ redisFreeKeepFd \/ SetOption
  \/ Program

ConnectSpec == ConnectInit /\ [][ConnectNext]_connectVars

-----------------------------------------------------------------------------
(* Properties                                                              *)

\* No socket is forgotten, whatever call failed: an open one is the context's.  And the
\* context closes no descriptor of the program, nor keeps the number of a closed one,
\* unless a reconnection ended before it had a socket (hiredis.c:629, net.c:305-337).
OwnSocket ==
  /\ \A fd \in DOMAIN fds : fds[fd] = "context" => c # NoContext /\ c.fd = fd
  /\ ~stale => astray = {}
  /\ ~stale /\ Usable /\ c.fd > 0 => fds[c.fd] = "context"

\* What a call returns and the context's err tell whether there is a connection, but for
\* three failures that set no err: SO_REUSEADDR, too many addresses in use, and a bad
\* timeout for a path (net.c:353-359, 383-384, 457-458).
Truthful ==
  Usable =>
    /\ c.err = "" /\ ret = "OK" => c.connected /\ c.fd > 0 /\ (~stale => fds[c.fd] = "context")
    /\ c.err = "" /\ ret = "ERR" => c.reuse \/ (c.unix /\ c.timeout = "bad")

\* A socket is its context's, and the program is told whether there is one
\* (net.c:265-477, hiredis.c:604-651).
SocketRight == OwnSocket /\ Truthful
=============================================================================
