------------------------------ MODULE ConnPool ------------------------------
(***************************************************************************)
(* The connection pool of 6_connections_pool_for_mysql/ConnPool.cpp.       *)
(* Every method holds m_mutex from entry to return and gives it up only    *)
(* inside m_cond.wait / wait_for, so one action is one stretch of code run *)
(* under the lock: an entry, or the code after a wake-up.                  *)
(*                                                                         *)
(* Clients follow the interface's rules: the pool is initialised before    *)
(* it is used, nobody calls it after its destructor, and a client returns  *)
(* connections it was given (or one the pool does not know, which putConn  *)
(* must refuse).                                                           *)
(***************************************************************************)
EXTENDS Naturals, Sequences, FiniteSets

CONSTANTS
  Clients,   \* threads that call takeConn and putConn
  Conns,     \* addresses a Conn object may have
  MinConn,   \* min_conn, 2 in the code
  MaxConn,   \* m_max_conn, the constructor's argument
  MaxHold,   \* bound: connections a client keeps at a time (1 in TestDemo)
  Calls      \* bound: takeConn calls of one client

ASSUME ClientsAssumption == IsFiniteSet(Clients)
ASSUME SizesAssumption ==
  MinConn \in Nat /\ MaxConn \in Nat \ {0} /\ MaxHold \in Nat /\ Calls \in Nat

VARIABLES
  free,     \* m_free_list, front first
  busy,     \* m_busy_list, read only for membership
  cur,      \* m_cur_conn
  ready,    \* init() has returned
  abort,    \* m_abort, set by the destructor
  pc,       \* where each client is: see TypeOK
  timed,    \* timed[t]: t's pending takeConn has a timeout (timeout_ms >= 0)
  held,     \* held[t]: the connections client t was given and keeps
  calls     \* calls[t]: takeConn calls t has made

vars == <<free, busy, cur, ready, abort, pc, timed, held, calls>>

Cap == IF MinConn > MaxConn THEN MinConn ELSE MaxConn

Listed == {free[i] : i \in 1..Len(free)}
Waiting == {t \in Clients : pc[t] = "waiting"}               \* in m_cond's queue
Awake == {t \in Clients : pc[t] = "woken" \/ pc[t] = "expired"} \* wants m_mutex back

TypeOK ==
  /\ free \in Seq(Conns) /\ busy \subseteq Conns /\ cur \in 0..Cap
  /\ ready \in BOOLEAN /\ abort \in BOOLEAN
  /\ pc \in [Clients -> {"idle", "waiting", "woken", "expired"}]
  /\ timed \in [Clients -> BOOLEAN]
  /\ held \in [Clients -> SUBSET Conns]
  /\ calls \in [Clients -> 0..Calls]

Init ==
  /\ free = <<>> /\ busy = {} /\ cur = 0
  /\ ready = FALSE /\ abort = FALSE
  /\ pc = [t \in Clients |-> "idle"]
  /\ timed = [t \in Clients |-> FALSE]
  /\ held = [t \in Clients |-> {}]
  /\ calls = [t \in Clients |-> 0]

-----------------------------------------------------------------------------
(* Operators named Bad... are wrong variants of the definition that follows *)
(* them; no specification uses them.  They show that the properties below   *)
(* tell the code from a plausible mistake in it.                            *)

\* A connection is counted before its init() is known to have succeeded.
BadCountMade(k) == cur + IF k < MinConn THEN k + 1 ELSE k
CountMade(k) == cur + k

\* init(): min_conn connections, whatever the maximum is; at the first one that
\* fails it returns, keeping those made before (the demo goes on all the same).
InitPool ==
  /\ ~ready /\ ~abort
  /\ \E k \in 0..MinConn :
       /\ cur' = CountMade(k)
       /\ \E s \in [1..k -> Conns] :
            /\ \A i, j \in 1..k : s[i] = s[j] => i = j
            /\ free' = free \o s
  /\ ready' = TRUE
  /\ UNCHANGED <<busy, abort, pc, timed, held, calls>>

\* The front is read but not popped.
BadPopped == free
Popped == Tail(free)

\* The end of takeConn: the front of the free list goes to the busy list and
\* to the caller.
HandOver(t) ==
  /\ free # <<>>
  /\ free' = Popped
  /\ busy' = busy \cup {Head(free)}
  /\ held' = [held EXCEPT ![t] = @ \cup {Head(free)}]

Call(t) ==
  /\ ready /\ ~abort /\ pc[t] = "idle"
  /\ Cardinality(held[t]) < MaxHold /\ calls[t] < Calls
  /\ calls' = [calls EXCEPT ![t] = @ + 1]

BadCanGrow == cur =< MaxConn
CanGrow == cur < MaxConn

TakeFree(t) ==
  /\ Call(t)
  /\ HandOver(t)
  /\ UNCHANGED <<cur, ready, abort, pc, timed>>

\* No free connection and room for one more: it is made, appended and taken.
TakeNew(t) ==
  /\ free = <<>> /\ CanGrow /\ Call(t)
  /\ \E c \in Conns \ busy :
       /\ busy' = busy \cup {c}
       /\ held' = [held EXCEPT ![t] = @ \cup {c}]
  /\ cur' = cur + 1
  /\ UNCHANGED <<free, ready, abort, pc, timed>>

\* The new connection cannot reach the server: it is deleted, nullptr returned.
TakeNewFails(t) ==
  /\ free = <<>> /\ CanGrow /\ Call(t)
  /\ UNCHANGED <<free, busy, cur, ready, abort, pc, timed, held>>

TakeWaits(t) ==
  /\ free = <<>> /\ ~CanGrow /\ Call(t)
  /\ pc' = [pc EXCEPT ![t] = "waiting"]
  /\ \E b \in BOOLEAN : timed' = [timed EXCEPT ![t] = b]
  /\ UNCHANGED <<free, busy, cur, ready, abort, held>>

\* A condition variable may wake a waiter nobody notified.
Spurious(t) ==
  /\ pc[t] = "waiting" /\ pc' = [pc EXCEPT ![t] = "woken"]
  /\ UNCHANGED <<free, busy, cur, ready, abort, timed, held, calls>>

\* The timeout passes; the clock is read after a notification as well.
Expire(t) ==
  /\ timed[t] /\ pc[t] \in {"waiting", "woken"}
  /\ pc' = [pc EXCEPT ![t] = "expired"]
  /\ UNCHANGED <<free, busy, cur, ready, abort, timed, held, calls>>

\* Back under the lock, the predicate of the wait is read again: a connection
\* is free ...
WakeTakes(t) ==
  /\ t \in Awake /\ ~abort
  /\ HandOver(t)
  /\ pc' = [pc EXCEPT ![t] = "idle"]
  /\ UNCHANGED <<cur, ready, abort, timed, calls>>

\* ... or the pool is being destroyed: nullptr ...
WakeAborts(t) ==
  /\ t \in Awake /\ abort
  /\ pc' = [pc EXCEPT ![t] = "idle"]
  /\ UNCHANGED <<free, busy, cur, ready, abort, timed, held, calls>>

\* ... or neither: wait goes back to sleep, wait_for returns false after its
\* timeout and takeConn returns nullptr.
WakeFindsNone(t) ==
  /\ t \in Awake /\ ~abort /\ free = <<>>
  /\ pc' = [pc EXCEPT ![t] = IF pc[t] = "woken" THEN "waiting" ELSE "idle"]
  /\ UNCHANGED <<free, busy, cur, ready, abort, timed, held, calls>>

\* The notification is forgotten.
BadNotify == pc' = pc

\* notify_one: one sleeping waiter wakes, if there is one.
NotifyOne ==
  \/ Waiting = {} /\ pc' = pc
  \/ \E t \in Waiting : pc' = [pc EXCEPT ![t] = "woken"]

NotifyAll == pc' = [t \in Clients |-> IF pc[t] = "waiting" THEN "woken" ELSE pc[t]]

PutConn(t, c) ==
  /\ ready /\ ~abort /\ pc[t] = "idle"
  /\ c \in held[t] /\ c \in busy
  /\ busy' = busy \ {c}
  /\ free' = Append(free, c)
  /\ held' = [held EXCEPT ![t] = @ \ {c}]
  /\ NotifyOne
  /\ UNCHANGED <<cur, ready, abort, timed, calls>>

\* putConn of something that is not in the busy list only writes to the log.
PutUnknown(t, c) ==
  /\ ready /\ ~abort /\ pc[t] = "idle" /\ c \notin busy
  /\ UNCHANGED vars

\* ~ConnPool: the free connections are deleted, those in use are not.  It does
\* not wait for the clients it wakes.
Destroy ==
  /\ ready /\ ~abort
  /\ abort' = TRUE
  /\ NotifyAll
  /\ free' = <<>>
  /\ UNCHANGED <<busy, cur, ready, timed, held, calls>>

\* Every client has made its calls and returned what it took, or the pool is
\* gone and nobody is inside it.
Finished ==
  /\ \A t \in Clients : pc[t] = "idle"
  /\ abort \/ \A t \in Clients : calls[t] = Calls /\ held[t] = {}
  /\ UNCHANGED vars

Take(t) == TakeFree(t) \/ TakeNew(t) \/ TakeNewFails(t) \/ TakeWaits(t)
Wake(t) == WakeTakes(t) \/ WakeAborts(t) \/ WakeFindsNone(t)

Next ==
  \/ InitPool \/ Destroy \/ Finished
  \/ \E t \in Clients : Take(t) \/ Spurious(t) \/ Expire(t) \/ Wake(t)
  \/ \E t \in Clients, c \in Conns : PutConn(t, c) \/ PutUnknown(t, c)

Spec == Init /\ [][Next]_vars

\* A woken thread gets the mutex, a timeout passes, a client returns what it took.
FairSpec ==
  /\ Spec
  /\ \A t \in Clients :
       WF_vars(Wake(t)) /\ WF_vars(Expire(t)) /\ WF_vars(\E c \in Conns : PutConn(t, c))

-----------------------------------------------------------------------------
(* Properties                                                              *)

\* No wake-up is lost: while a client sleeps in takeConn (ConnPool.cpp:64,69), every
\* free connection has a client already awake that will look at the free list.  A
\* sleeper next to a connection that nobody is coming for would sleep for ever.
NoLostWakeup == Waiting # {} => Len(free) =< Cardinality(Awake)

\* A connection has one place: listed once as free, or busy and kept by exactly
\* one client; two clients never share one (ConnPool.cpp:95-98, 114-115).
Exclusive ==
  /\ \A i, j \in 1..Len(free) : free[i] = free[j] => i = j
  /\ Listed \cap busy = {}
  /\ busy = UNION {held[t] : t \in Clients}
  /\ \A t, u \in Clients : t # u => held[t] \cap held[u] = {}

\* m_cur_conn counts the connections that exist, which is what the decision to
\* grow or to wait relies on (ConnPool.cpp:39, 58, 85).
Accounting == ~abort => cur = Len(free) + Cardinality(busy)

\* The pool's own records: no more connections than Cap, and their true number
\* (ConnPool.cpp:28, 39, 58, 85).
RecordsRight == TypeOK /\ Accounting

\* Every takeConn returns: with a connection, after its timeout, or because the
\* pool is destroyed (ConnPool.cpp:60-71, 89-93).
TakeReturns == \A t \in Clients : pc[t] # "idle" ~> pc[t] = "idle"

\* The pool implements Lease: idle connections are the free list's, a lease is
\* what takeConn returned and putConn has not taken back.
LeaseSpec == INSTANCE Lease WITH idle <- Listed, lease <- held, closed <- abort,
                                 Limit <- Cap
ImplementsLease == LeaseSpec!Spec
=============================================================================
