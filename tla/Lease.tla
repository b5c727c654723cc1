------------------------------- MODULE Lease -------------------------------
(***************************************************************************)
(* What a connection pool promises its clients, without queues, locks or   *)
(* condition variables: a connection is idle or leased to one client,      *)
(* there are never more than Limit connections, and a closed pool leases   *)
(* nothing.  ConnPool is shown to implement this specification.            *)
(***************************************************************************)
EXTENDS Naturals, FiniteSets

CONSTANTS Clients, Conns, Limit

VARIABLES idle,    \* the connections nobody uses
          lease,   \* lease[t]: the connections client t uses
          closed   \* TRUE once the pool is gone

vars == <<idle, lease, closed>>

Leased == UNION {lease[t] : t \in Clients}

Init == /\ idle = {}
        /\ lease = [t \in Clients |-> {}]
        /\ closed = FALSE

\* The pool is stocked once, before anything is leased.
Stock == /\ ~closed /\ idle = {} /\ Leased = {}
         /\ \E S \in SUBSET Conns : Cardinality(S) =< Limit /\ idle' = S
         /\ UNCHANGED <<lease, closed>>

Grant(t, c) == /\ ~closed /\ c \in idle
               /\ idle' = idle \ {c}
               /\ lease' = [lease EXCEPT ![t] = @ \cup {c}]
               /\ UNCHANGED closed

\* A connection made on demand goes to the client that asked for it.
GrantNew(t, c) == /\ ~closed /\ c \notin idle \cup Leased
                  /\ Cardinality(idle \cup Leased) < Limit
                  /\ lease' = [lease EXCEPT ![t] = @ \cup {c}]
                  /\ UNCHANGED <<idle, closed>>

Return(t, c) == /\ ~closed /\ c \in lease[t]
                /\ lease' = [lease EXCEPT ![t] = @ \ {c}]
                /\ idle' = idle \cup {c}
                /\ UNCHANGED closed

Close == /\ ~closed
         /\ closed' = TRUE /\ idle' = {}
         /\ UNCHANGED lease

Next == \/ Stock \/ Close
        \/ \E t \in Clients, c \in Conns :
              Grant(t, c) \/ GrantNew(t, c) \/ Return(t, c)

Spec == Init /\ [][Next]_vars
=============================================================================
