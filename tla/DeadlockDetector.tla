-------------------------- MODULE DeadlockDetector --------------------------
(***************************************************************************)
(* 11_deadlock_detector/deadlock_detector.c: hooks around                  *)
(* pthread_mutex_lock and pthread_mutex_unlock keep a graph of which       *)
(* thread waits for which mutex and which thread holds it; a detector      *)
(* thread looks for a cycle in it.                                         *)
(*                                                                         *)
(* The graph has a mutex of its own and each access to it is one action;   *)
(* the real lock and unlock happen outside of it, as actions of their own, *)
(* so what the graph says and what is true can differ in between.          *)
(***************************************************************************)
EXTENDS Naturals, Sequences, FiniteSets

CONSTANTS
  Threads,   \* threads of the program that uses the detector
  Mutexes,   \* its mutexes
  None       \* NULL

ASSUME NoneAssumption == None \notin Threads /\ None \notin Mutexes
ASSUME ThreadsAssumption == IsFiniteSet(Threads)

VARIABLES
  owner,     \* owner[m]: the thread that has the real mutex m
  pc,        \* pc[t]: where t is in the hooks, see TypeOK
  arg,       \* arg[t]: the mutex t is locking or unlocking
  vertexes,  \* graph.vertex_list, in list order
  locks,     \* graph.lock_list: the mutexes that have a node
  waiting,   \* waiting[t]: vertex.waitting
  holder,    \* holder[m]: resource_lock.holder
  used,      \* used[m]: resource_lock.used
  reported   \* the detector has printed a cycle

real == <<owner, pc, arg>>
graph == <<vertexes, locks, waiting, holder, used>>
vars == <<real, graph, reported>>

Known == {vertexes[i] : i \in 1..Len(vertexes)}

TypeOK ==
  /\ owner \in [Mutexes -> Threads \cup {None}]
     \* locking: before_lock is done, the real lock is not;  locked: the real
     \* lock is, after_lock is not;  unlocked: the real unlock is done,
     \* after_unlock is not
  /\ pc \in [Threads -> {"idle", "locking", "locked", "unlocked"}]
  /\ arg \in [Threads -> Mutexes \cup {None}]
  /\ vertexes \in Seq(Threads) /\ locks \subseteq Mutexes
  /\ waiting \in [Threads -> Mutexes \cup {None}]
  /\ holder \in [Mutexes -> Threads \cup {None}]
  /\ used \in [Mutexes -> Nat]
  /\ reported \in BOOLEAN

Init ==
  /\ owner = [m \in Mutexes |-> None]
  /\ pc = [t \in Threads |-> "idle"] /\ arg = [t \in Threads |-> None]
  /\ vertexes = <<>> /\ locks = {}
  /\ waiting = [t \in Threads |-> None]
  /\ holder = [m \in Mutexes |-> None] /\ used = [m \in Mutexes |-> 0]
  /\ reported = FALSE

-----------------------------------------------------------------------------
(* Operators named Bad... are wrong variants of the definition that follows *)
(* them, used by no specification: plausible mistakes that the properties   *)
(* below catch.                                                             *)

\* Only the thread that makes the node is counted as a user.
BadCountUser(m) == IF m \in locks THEN used ELSE [used EXCEPT ![m] = 1]
CountUser(m) == [used EXCEPT ![m] = IF m \in locks THEN @ + 1 ELSE 1]

\* A thread is not recorded as waiting if the mutex is held.
BadWaits(t, m) == IF owner[m] = None THEN [waiting EXCEPT ![t] = m] ELSE waiting
Waits(t, m) == [waiting EXCEPT ![t] = m]

\* before_lock: t and m get their nodes if they have none (a new one has no
\* holder and no user), then t waits for m, whether or not m is free.
BeforeLock(t, m) ==
  /\ pc[t] = "idle"
  /\ vertexes' = IF t \in Known THEN vertexes ELSE Append(vertexes, t)
  /\ locks' = locks \cup {m}
  /\ holder' = IF m \in locks THEN holder ELSE [holder EXCEPT ![m] = None]
  /\ used' = CountUser(m)
  /\ waiting' = Waits(t, m)
  /\ pc' = [pc EXCEPT ![t] = "locking"] /\ arg' = [arg EXCEPT ![t] = m]
  /\ UNCHANGED <<owner, reported>>

RealLock(t) ==
  /\ pc[t] = "locking" /\ owner[arg[t]] = None
  /\ owner' = [owner EXCEPT ![arg[t]] = t]
  /\ pc' = [pc EXCEPT ![t] = "locked"]
  /\ UNCHANGED <<arg, graph, reported>>

\* t is still shown as waiting.
BadWaitsNoMore(t) == waiting
WaitsNoMore(t) == [waiting EXCEPT ![t] = None]

AfterLock(t) ==
  /\ pc[t] = "locked"
  /\ holder' = [holder EXCEPT ![arg[t]] = t]
  /\ waiting' = WaitsNoMore(t)
  /\ pc' = [pc EXCEPT ![t] = "idle"] /\ arg' = [arg EXCEPT ![t] = None]
  /\ UNCHANGED <<owner, vertexes, locks, used, reported>>

\* A thread unlocks what it owns; others may lock it before after_unlock.
RealUnlock(t, m) ==
  /\ pc[t] = "idle" /\ owner[m] = t
  /\ owner' = [owner EXCEPT ![m] = None]
  /\ pc' = [pc EXCEPT ![t] = "unlocked"] /\ arg' = [arg EXCEPT ![t] = m]
  /\ UNCHANGED <<graph, reported>>

LocksInUse(m) == IF used[m] = 1 THEN locks \ {m} ELSE locks

\* The node keeps its old holder.
BadNoHolder(m) == holder
NoHolder(m) == [holder EXCEPT ![m] = None]

\* after_unlock: no holder, one user less, no node without users.
AfterUnlock(t) ==
  LET m == arg[t]
  IN  /\ pc[t] = "unlocked"
      /\ used' = [used EXCEPT ![m] = @ - 1]
      /\ holder' = NoHolder(m)
      /\ locks' = LocksInUse(m)
      /\ pc' = [pc EXCEPT ![t] = "idle"] /\ arg' = [arg EXCEPT ![t] = None]
      /\ UNCHANGED <<owner, vertexes, waiting, reported>>

-----------------------------------------------------------------------------
\* get_wait_vertex: the holder of what t waits for, an edge of the graph.
WaitVertex(t) == IF waiting[t] = None THEN None ELSE holder[waiting[t]]

\* search_cross: follow the edges from v, marking vertices, up to the end or to
\* a marked one.  The result: that vertex or None, and the marks.
SearchCross(v) ==
  LET walk[seen \in SUBSET Threads] ==
        [u \in Threads \cup {None} |->
           IF u = None \/ u \in seen THEN [cross |-> u, visited |-> seen]
           ELSE walk[seen \cup {u}][WaitVertex(u)]]
  IN  walk[{}][v]

\* Only the first vertex is searched from.
BadScan == IF vertexes = <<>> THEN None ELSE SearchCross(vertexes[1]).cross

\* detector_routine's scan of the vertex list from position i; vertices marked by
\* a search that found nothing are skipped.
Scan ==
  LET from[i \in 1..Len(vertexes) + 1] ==
        IF i > Len(vertexes) THEN None
        ELSE LET found == SearchCross(vertexes[i])
                 unseen == {j \in i..Len(vertexes) : vertexes[j] \notin found.visited}
             IN  IF found.cross # None THEN found.cross
                 ELSE IF unseen = {} THEN None
                 ELSE from[CHOOSE j \in unseen : \A k \in unseen : j =< k]
  IN  from[1]

Detect ==
  /\ Scan # None
  /\ reported' = TRUE
  /\ UNCHANGED <<real, graph>>

Step(t) == RealLock(t) \/ AfterLock(t) \/ AfterUnlock(t)

Next ==
  \/ Detect
  \/ \E t \in Threads : Step(t)
  \/ \E t \in Threads, m \in Mutexes : BeforeLock(t, m) \/ RealUnlock(t, m)

Spec == Init /\ [][Next]_vars

\* A thread inside a hook goes on, and the detector runs every five seconds.
FairSpec ==
  /\ Spec /\ WF_vars(Detect)
  /\ \A t \in Threads : WF_vars(AfterLock(t)) /\ WF_vars(AfterUnlock(t))

-----------------------------------------------------------------------------
(* Properties                                                              *)

\* A set of threads of which each waits for a mutex another of the set owns.
Deadlocked(S) == S # {} /\ \A t \in S : pc[t] = "locking" /\ owner[arg[t]] \in S

\* A set of threads the edges of the graph do not leave: it contains a cycle.
GraphCycle(S) == S # {} /\ \A t \in S : WaitVertex(t) \in S

\* The assertions of after_lock and after_unlock: the nodes they look up exist, and a
\* thread's waitting pointer never leads to a freed node (deadlock_detector.c:174,189,202).
NodesAlive ==
  \A t \in Threads :
     /\ pc[t] \in {"locking", "locked"} => t \in Known
     /\ pc[t] # "idle" => arg[t] \in locks
     /\ waiting[t] # None => waiting[t] \in locks /\ waiting[t] = arg[t]

\* A node's used counts the threads that wait for its mutex, have it, or are giving
\* it back, so it is freed after the last one (deadlock_detector.c:23, 63, 72, 195).
UsedCounts ==
  \A m \in Mutexes :
     LET users == {t \in Threads : pc[t] \in {"locking", "unlocked"} /\ arg[t] = m}
         count == Cardinality(users) + IF owner[m] = None THEN 0 ELSE 1
     IN  /\ m \in locks => used[m] = count
         /\ m \in locks <=> count > 0

\* The holder of a node owns the mutex, or is just giving it back: the graph may
\* forget an owner but it never names a wrong one (deadlock_detector.c:21).
HolderOwns ==
  \A m \in locks :
     holder[m] # None =>
        \/ owner[m] = holder[m] /\ ~(pc[holder[m]] = "locked" /\ arg[holder[m]] = m)
        \/ pc[holder[m]] = "unlocked" /\ arg[holder[m]] = m

\* What the hooks record is true and none of their assertions fails
\* (deadlock_detector.c:21, 63, 72, 174, 189, 195, 202).
RecordsRight == TypeOK /\ NodesAlive /\ UsedCounts /\ HolderOwns

\* What the detector reports is a deadlock: a cycle of the graph is a set of
\* threads that really wait for each other (deadlock_detector.c:239-252).
NoFalseAlarm == \A S \in SUBSET Threads : GraphCycle(S) => Deadlocked(S)

\* A deadlock that was printed is there, and stays there (deadlock_detector.c:280-283).
ReportIsTrue == reported => \E S \in SUBSET Threads : Deadlocked(S)

\* The scan, with its skipping of marked vertices, finds a cycle exactly when there
\* is one; from the vertex it returns, print_cycle comes back to that vertex instead
\* of running off the graph (deadlock_detector.c:254-265, 275-288).
ScanIsExact ==
  /\ Scan # None <=> \E S \in SUBSET Threads : GraphCycle(S)
  /\ Scan # None => Scan \in SearchCross(WaitVertex(Scan)).visited

\* A cycle in the graph whose mutexes nobody is just giving back is reported.
CleanCycleReported ==
  (\E S \in SUBSET Threads :
      /\ GraphCycle(S)
      /\ \A t \in S, u \in Threads : pc[u] = "unlocked" => arg[u] # waiting[t])
   ~> reported

\* The detector "checks in a loop whether the graph has a cycle" (line 267), with edges
\* recorded "to avoid errors caused by the order of threads" (line 62).
DeadlockReported == (\E S \in SUBSET Threads : Deadlocked(S)) ~> reported
=============================================================================
