----------------------------- MODULE SyncQueue ------------------------------
(***************************************************************************)
(* The blocking queue of condTest.cpp.  Take gives a reference to a node   *)
(* it has removed from the list; the value is read after the lock is gone. *)
(* Each call is one step of the thread that holds the lock, except where   *)
(* it waits.  What a freed node holds is not defined.                      *)
(***************************************************************************)
EXTENDS Naturals, Sequences, FiniteSets

CONSTANTS
  Takers,    \* the threads that take
  Puts,      \* bound: values the other thread puts, 1..Puts in this order
  Wanted     \* values each of the takers takes

ASSUME QueueAssumption == IsFiniteSet(Takers) /\ Puts \in Nat /\ Wanted \in Nat

Garbage == 0

VARIABLES
  queue,     \* _queue
  put,       \* values put so far
  waiting,   \* takers blocked on _notEmpty
  holds,     \* taker -> the values taken and not yet read (one at most)
  taken,     \* history: values in the order they left the queue
  read       \* history: taker -> what it read: [value, of]

queueVars == <<queue, put, waiting, holds, taken, read>>

Busy(th) == holds[th] # <<>>
Done(th) == Len(read[th]) = Wanted
Awake(th) == th \notin waiting /\ ~Busy(th) /\ ~Done(th)

-----------------------------------------------------------------------------
\* notify_one wakes one of the takers that wait.  (BadNotify, which wakes one only when the
\* queue was empty, is a wrong variant no specification uses.)
BadNotify == IF waiting = {} \/ Len(queue) > 0 THEN waiting' = waiting
             ELSE \E th \in waiting : waiting' = waiting \ {th}
Notify == IF waiting = {} THEN waiting' = waiting
          ELSE \E th \in waiting : waiting' = waiting \ {th}

Put ==
  /\ put < Puts
  /\ queue' = Append(queue, put + 1) /\ put' = put + 1
  /\ Notify
  /\ UNCHANGED <<holds, taken, read>>

Take(th) ==
  /\ Awake(th)
  /\ IF queue = <<>>
     THEN waiting' = waiting \cup {th} /\ UNCHANGED <<queue, holds, taken>>
     ELSE /\ queue' = Tail(queue) /\ taken' = Append(taken, Head(queue))
          /\ holds' = [holds EXCEPT ![th] = <<Head(queue)>>]
          /\ UNCHANGED waiting
  /\ UNCHANGED <<put, read>>

\* The node is freed: it may hold its value still, one put since, or anything else.
Read(th) ==
  /\ Busy(th)
  /\ \E v \in {Garbage, holds[th][1]} \cup (holds[th][1] + 1)..put :
       read' = [read EXCEPT ![th] = Append(@, [value |-> v, of |-> holds[th][1]])]
  /\ holds' = [holds EXCEPT ![th] = <<>>]
  /\ UNCHANGED <<queue, put, waiting, taken>>

-----------------------------------------------------------------------------
QueueInit ==
  /\ queue = <<>> /\ put = 0 /\ waiting = {} /\ taken = <<>>
  /\ holds = [th \in Takers |-> <<>>] /\ read = [th \in Takers |-> <<>>]

QueueNext ==
  \/ Put \/ \E th \in Takers : Take(th) \/ Read(th)
  \/ put = Puts /\ (\A th \in Takers : Done(th)) /\ UNCHANGED queueVars

QueueSpec == QueueInit /\ [][QueueNext]_queueVars

-----------------------------------------------------------------------------
(* Properties                                                              *)

\* What a taker has taken: what it has read, or is to read.
Mine(th) == {read[th][i].of : i \in DOMAIN read[th]} \cup {holds[th][i] : i \in DOMAIN holds[th]}

\* Values leave the queue in the order they were put, and each goes to one taker, once.
\* (That the taker read that value cannot be said.)
InOrder ==
  /\ taken \o queue = [i \in 1..put |-> i]
  /\ UNION {Mine(th) : th \in Takers} = 1..Len(taken)
  /\ \A t1, t2 \in Takers : t1 # t2 => Mine(t1) \cap Mine(t2) = {}
  /\ \A th \in Takers : Cardinality(Mine(th)) = Len(read[th]) + Len(holds[th])

\* When every taker waits or has all it wants, nothing a taker wants is in the queue: a
\* value is never left behind by a lost wakeup.
NoneLeft ==
  (\A th \in Takers : th \in waiting \/ Done(th)) /\ waiting # {} => queue = <<>>

\* Threads that share a queue get each value once and never sleep next to one
\* (condTest.cpp:17-33, 58-74).
QueueRight == InOrder /\ NoneLeft
=============================================================================
