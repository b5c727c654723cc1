----------------------- MODULE DeadlockDetectorProofs -----------------------
(***************************************************************************)
(* What is proved of DeadlockDetector for any number of threads and        *)
(* mutexes: the detector's records stay well formed, every node is counted *)
(* and freed correctly, the scan finds exactly the cycles of the graph,    *)
(* and what is printed is a deadlock that lasts.                           *)
(***************************************************************************)
EXTENDS DeadlockDetector, SequenceTheorems, FiniteSetTheorems, WellFoundedInduction, TLAPS

\* Where a thread is in the hooks decides what it waits for and what it owns.
Hooks ==
  \A t \in Threads :
     /\ pc[t] = "idle" <=> arg[t] = None
     /\ waiting[t] # None <=> pc[t] \in {"locking", "locked"}
     /\ waiting[t] # None => waiting[t] = arg[t] /\ t \in Known
     /\ pc[t] = "locked" => owner[arg[t]] = t

\* HolderOwns for every mutex, with or without a node.
AnyHolderOwns ==
  \A m \in Mutexes :
     holder[m] # None =>
        \/ owner[m] = holder[m] /\ ~(pc[holder[m]] = "locked" /\ arg[holder[m]] = m)
        \/ pc[holder[m]] = "unlocked" /\ arg[holder[m]] = m

Users(m) == {t \in Threads : pc[t] \in {"locking", "unlocked"} /\ arg[t] = m}
Count(m) == Cardinality(Users(m)) + IF owner[m] = None THEN 0 ELSE 1

Counted ==
  \A m \in Mutexes : /\ m \in locks => used[m] = Count(m)
                     /\ m \in locks <=> Count(m) > 0

IInv == TypeOK /\ Hooks /\ Counted

-----------------------------------------------------------------------------
(* Counting the users of a mutex                                           *)

\* A mutex has finitely many users, and their count is a natural number.
LEMMA UsersFinite ==
  ASSUME NEW m
  PROVE  /\ IsFiniteSet(Users(m)) /\ Cardinality(Users(m)) \in Nat
         /\ IsFiniteSet(Users(m)') /\ Cardinality(Users(m)') \in Nat
         /\ Count(m) \in Nat /\ Count(m)' \in Nat
<1>1. Users(m) \subseteq Threads /\ Users(m)' \subseteq Threads BY DEF Users
<1>2. /\ IsFiniteSet(Users(m)) /\ Cardinality(Users(m)) \in Nat
      /\ IsFiniteSet(Users(m)') /\ Cardinality(Users(m)') \in Nat
  BY <1>1, ThreadsAssumption, FS_Subset, FS_CardinalityType
<1> QED BY <1>2 DEF Count

\* A thread in a hook, and a mutex somebody owns, keep the node alive.
LEMMA UsersKeepNode ==
  ASSUME IInv, NEW t \in Threads, pc[t] # "idle"
  PROVE  arg[t] \in locks /\ arg[t] \in Mutexes /\ used[arg[t]] = Count(arg[t])
<1> DEFINE m == arg[t]
<1>1. m \in Mutexes BY DEF IInv, TypeOK, Hooks
<1>2. Count(m) > 0
  <2>1. CASE pc[t] = "locked"
    <3>1. owner[m] # None BY <2>1, NoneAssumption DEF IInv, Hooks
    <3> QED BY <3>1, UsersFinite DEF Count
  <2>2. CASE pc[t] # "locked"
    <3>1. t \in Users(m) BY <2>2 DEF IInv, TypeOK, Users
    <3>2. Cardinality(Users(m)) # 0 BY <3>1, UsersFinite, FS_EmptySet
    <3> QED BY <3>2, UsersFinite DEF Count
  <2> QED BY <2>1, <2>2
<1> QED BY <1>1, <1>2 DEF IInv, Counted

\* Before the first hook runs the graph is empty.
LEMMA InitIInv == Init => IInv /\ AnyHolderOwns
<1> SUFFICES ASSUME Init PROVE IInv /\ AnyHolderOwns
  OBVIOUS
<1>1. TypeOK BY EmptySeq DEF Init, TypeOK
<1>2. Hooks /\ AnyHolderOwns BY DEF Init, Hooks, AnyHolderOwns
<1>3. ASSUME NEW m \in Mutexes PROVE Count(m) = 0 /\ m \notin locks
  <2>1. Users(m) = {} BY DEF Init, Users
  <2> QED BY <1>3, <2>1, FS_EmptySet DEF Init, Count
<1> QED BY <1>1, <1>2, <1>3 DEF IInv, Counted

\* Every hook keeps the records in step with where its thread is.
LEMMA IInvStep == IInv /\ [Next]_vars => IInv'
<1> SUFFICES ASSUME IInv, [Next]_vars PROVE IInv'
  OBVIOUS
<1>T. TypeOK /\ Hooks /\ Counted BY DEF IInv
<1>1. ASSUME NEW t \in Threads, NEW m \in Mutexes, BeforeLock(t, m) PROVE IInv'
  <2>1. vertexes' \in Seq(Threads) /\ Known' = Known \cup {t}
    <3>1. CASE t \in Known BY <1>1, <3>1, <1>T DEF BeforeLock, CountUser, Waits, Known, TypeOK
    <3>2. CASE t \notin Known
      <4>1. vertexes' = Append(vertexes, t) BY <1>1, <3>2 DEF BeforeLock, CountUser, Waits
      <4>2. /\ vertexes' \in Seq(Threads) /\ Len(vertexes') = Len(vertexes) + 1
            /\ \A i \in 1..Len(vertexes) : vertexes'[i] = vertexes[i]
            /\ vertexes'[Len(vertexes) + 1] = t
        BY <4>1, <1>T, AppendProperties DEF TypeOK
      <4>3. Len(vertexes) \in Nat BY <1>T DEF TypeOK
      <4> QED BY <4>2, <4>3 DEF Known
    <3> QED BY <3>1, <3>2
  <2>2. TypeOK' BY <1>1, <1>T, <2>1 DEF BeforeLock, CountUser, Waits, TypeOK
  <2>3. Hooks' BY <1>1, <1>T, <2>1, NoneAssumption DEF BeforeLock, CountUser, Waits, Hooks, TypeOK
  <2>4. ASSUME NEW n \in Mutexes
        PROVE  /\ n \in locks' => used'[n] = Count(n)'
               /\ n \in locks' <=> Count(n)' > 0
    <3>1. CASE n = m
      <4>1. Users(n)' = Users(n) \cup {t} /\ t \notin Users(n)
        BY <1>1, <1>T, <3>1 DEF BeforeLock, CountUser, Waits, Users, TypeOK
      <4>2. Count(n)' = Count(n) + 1
        <5>1. Cardinality(Users(n)') = Cardinality(Users(n)) + 1
          BY <4>1, UsersFinite, FS_AddElement
        <5>2. owner' = owner BY <1>1 DEF BeforeLock, CountUser, Waits
        <5> QED BY <5>1, <5>2, UsersFinite DEF Count
      <4>3. n \notin locks => Count(n) = 0 BY <1>T, UsersFinite DEF Counted
      <4>4. used'[n] = IF n \in locks THEN used[n] + 1 ELSE 1
        BY <1>1, <1>T, <3>1 DEF BeforeLock, CountUser, Waits, TypeOK
      <4>5. used'[n] = Count(n)' BY <4>2, <4>3, <4>4, <1>T, UsersFinite DEF Counted
      <4> QED BY <1>1, <3>1, <4>2, <4>5, UsersFinite DEF BeforeLock, CountUser, Waits
    <3>2. CASE n # m
      <4>1. Users(n)' = Users(n) BY <1>1, <1>T, <3>2 DEF BeforeLock, CountUser, Waits, Users, TypeOK, Hooks
      <4>2. Count(n)' = Count(n) BY <1>1, <4>1 DEF BeforeLock, CountUser, Waits, Count
      <4> QED BY <1>1, <1>T, <3>2, <4>2 DEF BeforeLock, CountUser, Waits, Counted, TypeOK
    <3> QED BY <3>1, <3>2
  <2> QED BY <2>2, <2>3, <2>4 DEF IInv, Counted
<1>2. ASSUME NEW t \in Threads, RealLock(t) PROVE IInv'
  <2> DEFINE m == arg[t]
  <2>1. m \in Mutexes BY <1>2, <1>T DEF RealLock, TypeOK, Hooks
  <2>2. TypeOK' BY <1>2, <1>T DEF RealLock, TypeOK, graph
  <2>3. Hooks'
    <3>1. \A u \in Threads : u # t /\ pc[u] = "locked" => arg[u] # m
      BY <1>2, <1>T, NoneAssumption DEF RealLock, Hooks
    <3> QED BY <1>2, <1>T, <2>1, <3>1 DEF RealLock, Hooks, TypeOK, Known, graph
  <2>4. ASSUME NEW n \in Mutexes PROVE Count(n)' = Count(n)
    <3>1. CASE n = m
      <4>1. Users(n)' = Users(n) \ {t} /\ t \in Users(n)
        BY <1>2, <1>T, <3>1 DEF RealLock, Users, TypeOK
      <4>2. Cardinality(Users(n)') = Cardinality(Users(n)) - 1
        BY <4>1, UsersFinite, FS_RemoveElement
      <4>3. owner[n] = None /\ owner'[n] # None
        BY <1>2, <1>T, <3>1, NoneAssumption DEF RealLock, TypeOK
      <4> QED BY <4>2, <4>3, UsersFinite DEF Count
    <3>2. CASE n # m
      <4>1. Users(n)' = Users(n) BY <1>2, <1>T, <3>2 DEF RealLock, Users, TypeOK
      <4>2. owner'[n] = owner[n] BY <1>2, <1>T, <3>2 DEF RealLock, TypeOK
      <4> QED BY <4>1, <4>2 DEF Count
    <3> QED BY <3>1, <3>2
  <2>5. Counted' BY <1>2, <1>T, <2>4 DEF RealLock, Counted, graph
  <2> QED BY <2>2, <2>3, <2>5 DEF IInv
<1>3. ASSUME NEW t \in Threads, AfterLock(t) PROVE IInv'
  <2>1. TypeOK' BY <1>3, <1>T DEF AfterLock, WaitsNoMore, TypeOK
  <2>2. Hooks' BY <1>3, <1>T, NoneAssumption DEF AfterLock, WaitsNoMore, Hooks, TypeOK, Known
  <2>3. ASSUME NEW n \in Mutexes PROVE Count(n)' = Count(n)
    <3>1. Users(n)' = Users(n)
      BY <1>3, <1>T, NoneAssumption DEF AfterLock, WaitsNoMore, Users, TypeOK
    <3> QED BY <1>3, <3>1 DEF AfterLock, WaitsNoMore, Count
  <2>4. Counted' BY <1>3, <1>T, <2>3 DEF AfterLock, WaitsNoMore, Counted
  <2> QED BY <2>1, <2>2, <2>4 DEF IInv
<1>4. ASSUME NEW t \in Threads, NEW m \in Mutexes, RealUnlock(t, m) PROVE IInv'
  <2>1. TypeOK' BY <1>4, <1>T DEF RealUnlock, TypeOK, graph
  <2>2. Hooks'
    <3>1. \A u \in Threads : pc[u] = "locked" => arg[u] # m
      BY <1>4, <1>T DEF RealUnlock, Hooks
    <3> QED BY <1>4, <1>T, <3>1, NoneAssumption DEF RealUnlock, Hooks, TypeOK, Known, graph
  <2>3. ASSUME NEW n \in Mutexes PROVE Count(n)' = Count(n)
    <3>1. CASE n = m
      <4>1. Users(n)' = Users(n) \cup {t} /\ t \notin Users(n)
        BY <1>4, <1>T, <3>1 DEF RealUnlock, Users, TypeOK
      <4>2. Cardinality(Users(n)') = Cardinality(Users(n)) + 1
        BY <4>1, UsersFinite, FS_AddElement
      <4>3. owner[n] # None /\ owner'[n] = None
        BY <1>4, <1>T, <3>1, NoneAssumption DEF RealUnlock, TypeOK
      <4> QED BY <4>2, <4>3, UsersFinite DEF Count
    <3>2. CASE n # m
      <4>1. Users(n)' = Users(n)
        BY <1>4, <1>T, <3>2 DEF RealUnlock, Users, TypeOK, Hooks
      <4>2. owner'[n] = owner[n] BY <1>4, <1>T, <3>2 DEF RealUnlock, TypeOK
      <4> QED BY <4>1, <4>2 DEF Count
    <3> QED BY <3>1, <3>2
  <2>4. Counted' BY <1>4, <1>T, <2>3 DEF RealUnlock, Counted, graph
  <2> QED BY <2>1, <2>2, <2>4 DEF IInv
<1>5. ASSUME NEW t \in Threads, AfterUnlock(t) PROVE IInv'
  <2>0. PICK m \in Mutexes : m = arg[t] BY <1>5, UsersKeepNode DEF AfterUnlock, LocksInUse, NoHolder
  <2>1. m \in locks /\ used[m] = Count(m) BY <1>5, <2>0, UsersKeepNode DEF AfterUnlock, LocksInUse, NoHolder
  <2>2. Users(m)' = Users(m) \ {t} /\ t \in Users(m)
    BY <1>5, <1>T, <2>0, NoneAssumption DEF AfterUnlock, LocksInUse, NoHolder, Users, TypeOK
  <2>3. Cardinality(Users(m)') = Cardinality(Users(m)) - 1
    BY <2>2, UsersFinite, FS_RemoveElement
  <2>4. Count(m)' = Count(m) - 1 BY <1>5, <2>3, UsersFinite DEF AfterUnlock, LocksInUse, NoHolder, Count
  <2>5. used[m] - 1 \in Nat BY <2>1, <2>4, UsersFinite
  <2>6. TypeOK' BY <1>5, <1>T, <2>0, <2>5 DEF AfterUnlock, LocksInUse, NoHolder, TypeOK
  <2>7. Hooks' BY <1>5, <1>T, NoneAssumption DEF AfterUnlock, LocksInUse, NoHolder, Hooks, TypeOK, Known
  <2>8. ASSUME NEW n \in Mutexes
        PROVE  /\ n \in locks' => used'[n] = Count(n)'
               /\ n \in locks' <=> Count(n)' > 0
    <3>1. CASE n = m
      <4>1. used'[n] = used[n] - 1 BY <1>5, <1>T, <2>0, <3>1 DEF AfterUnlock, LocksInUse, NoHolder, TypeOK
      <4>2. n \in locks' <=> used[n] # 1 BY <1>5, <2>0, <2>1, <3>1 DEF AfterUnlock, LocksInUse, NoHolder
      <4> QED BY <2>1, <2>4, <3>1, <4>1, <4>2, UsersFinite
    <3>2. CASE n # m
      <4>1. Users(n)' = Users(n)
        BY <1>5, <1>T, <2>0, <3>2, NoneAssumption DEF AfterUnlock, LocksInUse, NoHolder, Users, TypeOK
      <4>2. Count(n)' = Count(n) BY <1>5, <4>1 DEF AfterUnlock, LocksInUse, NoHolder, Count
      <4> QED BY <1>5, <1>T, <2>0, <3>2, <4>2 DEF AfterUnlock, LocksInUse, NoHolder, Counted, TypeOK
    <3> QED BY <3>1, <3>2
  <2> QED BY <2>6, <2>7, <2>8 DEF IInv, Counted
<1>6. CASE Detect \/ UNCHANGED vars
  <2>1. /\ UNCHANGED <<owner, pc, arg, vertexes, locks, waiting, holder, used>>
        /\ reported' \in BOOLEAN
    BY <1>6, <1>T DEF Detect, vars, real, graph, TypeOK
  <2>2. TypeOK' /\ Hooks' BY <1>T, <2>1 DEF TypeOK, Hooks, Known
  <2>3. \A n \in Mutexes : Count(n)' = Count(n) BY <2>1 DEF Count, Users
  <2> QED BY <1>T, <2>1, <2>2, <2>3 DEF IInv, Counted
<1> QED BY <1>1, <1>2, <1>3, <1>4, <1>5, <1>6 DEF Next, Step

\* The detector's records are well typed; in particular used never goes below zero
\* (deadlock_detector.c:72).
THEOREM TypeCorrect == Spec => []TypeOK
<1>1. Spec => []IInv BY InitIInv, IInvStep, PTL DEF Spec
<1> QED BY <1>1, PTL DEF IInv

\* No assertion of the hooks fails and no waitting pointer dangles, for any number of
\* threads (deadlock_detector.c:174, 189, 202).
THEOREM NodesStayAlive == Spec => []NodesAlive
<1>1. IInv => NodesAlive
  <2> SUFFICES ASSUME IInv, NEW t \in Threads
               PROVE  /\ pc[t] \in {"locking", "locked"} => t \in Known
                      /\ pc[t] # "idle" => arg[t] \in locks
                      /\ waiting[t] # None => waiting[t] \in locks /\ waiting[t] = arg[t]
    BY DEF NodesAlive
  <2> QED BY UsersKeepNode DEF IInv, Hooks
<1>2. Spec => []IInv BY InitIInv, IInvStep, PTL DEF Spec
<1> QED BY <1>1, <1>2, PTL

\* A node counts its users and is freed after the last of them
\* (deadlock_detector.c:63, 72, 195-203).
THEOREM UsedIsUsers == Spec => []UsedCounts
<1>1. IInv => UsedCounts BY DEF IInv, Counted, Count, Users, UsedCounts
<1>2. Spec => []IInv BY InitIInv, IInvStep, PTL DEF Spec
<1> QED BY <1>1, <1>2, PTL

-----------------------------------------------------------------------------
(* What the graph says is true                                             *)

\* No step names a holder that neither owns the mutex nor is giving it back.
LEMMA HolderStep == IInv /\ AnyHolderOwns /\ [Next]_vars => AnyHolderOwns'
<1> SUFFICES ASSUME IInv, AnyHolderOwns, [Next]_vars PROVE AnyHolderOwns'
  OBVIOUS
<1>T. TypeOK /\ Hooks BY DEF IInv
<1>1. ASSUME NEW t \in Threads, NEW m \in Mutexes, BeforeLock(t, m) PROVE AnyHolderOwns'
  BY <1>1, <1>T DEF BeforeLock, CountUser, Waits, AnyHolderOwns, TypeOK
<1>2. ASSUME NEW t \in Threads, RealLock(t) PROVE AnyHolderOwns'
  <2>1. arg[t] \in Mutexes BY <1>2, <1>T DEF RealLock, TypeOK, Hooks
  <2> QED BY <1>2, <1>T, <2>1 DEF RealLock, AnyHolderOwns, TypeOK, graph
<1>3. ASSUME NEW t \in Threads, AfterLock(t) PROVE AnyHolderOwns'
  <2>1. arg[t] \in Mutexes /\ owner[arg[t]] = t BY <1>3, <1>T DEF AfterLock, WaitsNoMore, TypeOK, Hooks
  <2> QED BY <1>3, <1>T, <2>1 DEF AfterLock, WaitsNoMore, AnyHolderOwns, TypeOK
<1>4. ASSUME NEW t \in Threads, NEW m \in Mutexes, RealUnlock(t, m) PROVE AnyHolderOwns'
  BY <1>4, <1>T DEF RealUnlock, AnyHolderOwns, TypeOK, graph
<1>5. ASSUME NEW t \in Threads, AfterUnlock(t) PROVE AnyHolderOwns'
  <2>1. arg[t] \in Mutexes BY <1>5, <1>T DEF AfterUnlock, LocksInUse, NoHolder, TypeOK, Hooks
  <2> QED BY <1>5, <1>T, <2>1 DEF AfterUnlock, LocksInUse, NoHolder, AnyHolderOwns, TypeOK
<1>6. CASE Detect \/ UNCHANGED vars
  BY <1>6 DEF Detect, vars, real, graph, AnyHolderOwns
<1> QED BY <1>1, <1>2, <1>3, <1>4, <1>5, <1>6 DEF Next, Step

\* The holder recorded for a node owns its mutex or is just giving it back: the graph
\* forgets owners but never invents one (deadlock_detector.c:21, 66-74).
THEOREM HolderIsOwner == Spec => []HolderOwns
<1>1. IInv /\ AnyHolderOwns => HolderOwns
  BY DEF IInv, TypeOK, AnyHolderOwns, HolderOwns
<1>2. Spec => [](IInv /\ AnyHolderOwns) BY InitIInv, IInvStep, HolderStep, PTL DEF Spec
<1> QED BY <1>1, <1>2, PTL

\* A cycle of the graph is a deadlock: each of its threads waits for a mutex the next
\* one really owns (deadlock_detector.c:76-78, 239-252).  Along the cycle every
\* holder is itself waiting, hence not giving anything back, so HolderOwns says that
\* it owns; and a thread that already has the mutex is not shown waiting for another.
LEMMA CyclesDeadlock == IInv /\ AnyHolderOwns => NoFalseAlarm
<1> SUFFICES ASSUME IInv, AnyHolderOwns, NEW S \in SUBSET Threads, GraphCycle(S)
             PROVE  Deadlocked(S)
  BY DEF NoFalseAlarm
<1>1. ASSUME NEW t \in S PROVE pc[t] = "locking" /\ owner[arg[t]] \in S
  <2>1. WaitVertex(t) \in S /\ WaitVertex(t) # None
    BY NoneAssumption DEF GraphCycle
  <2>2. waiting[t] # None /\ holder[waiting[t]] = WaitVertex(t)
    BY <2>1 DEF WaitVertex
  <2>3. waiting[t] = arg[t] /\ arg[t] \in Mutexes /\ pc[t] \in {"locking", "locked"}
    BY <2>2 DEF IInv, Hooks, TypeOK
  <2> DEFINE u == WaitVertex(t)
  <2>4. waiting[u] # None
    BY <2>1, NoneAssumption DEF GraphCycle, WaitVertex
  <2>5. pc[u] # "unlocked" BY <2>1, <2>4 DEF IInv, Hooks
  <2>6. owner[arg[t]] = u /\ ~(pc[u] = "locked" /\ arg[u] = arg[t])
    BY <2>1, <2>2, <2>3, <2>5 DEF AnyHolderOwns
  <2>7. pc[t] # "locked"
    <3>1. ASSUME pc[t] = "locked" PROVE FALSE
      <4>1. owner[arg[t]] = t BY <3>1 DEF IInv, Hooks
      <4> QED BY <2>6, <3>1, <4>1
    <3> QED BY <3>1
  <2> QED BY <2>1, <2>3, <2>6, <2>7
<1> QED BY <1>1 DEF GraphCycle, Deadlocked

\* A cycle that the graph shows is a deadlock (deadlock_detector.c:239-252).
THEOREM CycleIsDeadlock == Spec => []NoFalseAlarm
<1>1. Spec => [](IInv /\ AnyHolderOwns) BY InitIInv, IInvStep, HolderStep, PTL DEF Spec
<1> QED BY <1>1, CyclesDeadlock, PTL

\* A deadlock is for ever: no thread in it can take a step, and no other thread
\* unlocks a mutex that one of its threads owns.
LEMMA DeadlockStays == IInv /\ [Next]_vars => \A S \in SUBSET Threads : Deadlocked(S) => Deadlocked(S)'
<1> SUFFICES ASSUME IInv, [Next]_vars, NEW S \in SUBSET Threads, Deadlocked(S)
             PROVE  Deadlocked(S)'
  OBVIOUS
<1>T. TypeOK /\ Hooks BY DEF IInv
<1>D. \A t \in S : /\ pc[t] = "locking" /\ arg[t] \in Mutexes
                   /\ owner[arg[t]] \in S /\ owner[arg[t]] # None
  BY <1>T, NoneAssumption DEF Deadlocked, TypeOK, Hooks
<1>1. ASSUME NEW t \in Threads, NEW m \in Mutexes, BeforeLock(t, m)
      PROVE  \A u \in S : pc'[u] = pc[u] /\ arg'[u] = arg[u] /\ owner'[arg[u]] = owner[arg[u]]
  BY <1>1, <1>T, <1>D DEF BeforeLock, CountUser, Waits, TypeOK
<1>2. ASSUME NEW t \in Threads, RealLock(t)
      PROVE  \A u \in S : pc'[u] = pc[u] /\ arg'[u] = arg[u] /\ owner'[arg[u]] = owner[arg[u]]
  BY <1>2, <1>T, <1>D DEF RealLock, TypeOK
<1>3. ASSUME NEW t \in Threads, AfterLock(t) \/ AfterUnlock(t)
      PROVE  \A u \in S : pc'[u] = pc[u] /\ arg'[u] = arg[u] /\ owner'[arg[u]] = owner[arg[u]]
  BY <1>3, <1>T, <1>D DEF AfterLock, WaitsNoMore, AfterUnlock, LocksInUse, NoHolder, TypeOK
<1>4. ASSUME NEW t \in Threads, NEW m \in Mutexes, RealUnlock(t, m)
      PROVE  \A u \in S : pc'[u] = pc[u] /\ arg'[u] = arg[u] /\ owner'[arg[u]] = owner[arg[u]]
  BY <1>4, <1>T, <1>D DEF RealUnlock, TypeOK
<1>5. CASE Detect \/ UNCHANGED vars
  BY <1>5 DEF Detect, vars, real, Deadlocked
<1>6. ASSUME \A u \in S : pc'[u] = pc[u] /\ arg'[u] = arg[u] /\ owner'[arg[u]] = owner[arg[u]]
      PROVE  Deadlocked(S)'
  BY <1>6, <1>D DEF Deadlocked
<1> QED BY <1>1, <1>2, <1>3, <1>4, <1>5, <1>6 DEF Next, Step

\* A deadlock is never resolved.
THEOREM DeadlockIsStable ==
  Spec => [][\A S \in SUBSET Threads : Deadlocked(S) => Deadlocked(S)']_vars
<1>1. Spec => []IInv BY InitIInv, IInvStep, PTL DEF Spec
<1> QED BY <1>1, DeadlockStays, PTL DEF Spec

-----------------------------------------------------------------------------
(* Induction.  The library's theorems about it take an operator, which no  *)
(* prover instantiates; a set of numbers does as well.                     *)

\* A set of numbers has a least one.
LEMMA LeastOf ==
  ASSUME NEW A, A \subseteq Nat, A # {}
  PROVE  \E n \in A : \A m \in A : n =< m
<1> DEFINE R == {ss \in Nat \X Nat : ss[1] < ss[2]}
<1>1. IsWellFoundedOn(R, Nat)
  BY NatLessThanWellFounded DEF OpToRel
<1>2. PICK n \in A : \A m \in A : <<m, n>> \notin R
  <2> HIDE DEF R
  <2> QED BY <1>1, WFMin
<1>3. ASSUME NEW m \in A PROVE n =< m
  <2>1. <<m, n>> \in Nat \X Nat /\ ~(m < n)
    BY <1>2
  <2> QED BY <2>1
<1> QED BY <1>3

\* Every number is reached from 0 by steps of one.
LEMMA AllNumbers ==
  ASSUME NEW P, 0 \in P, \A n \in P : n + 1 \in P
  PROVE  Nat \subseteq P
<1> SUFFICES ASSUME Nat \ P # {} PROVE FALSE
  OBVIOUS
<1>1. PICK n \in Nat \ P : \A m \in Nat \ P : n =< m
  BY LeastOf
<1>2. n # 0 /\ n - 1 \in Nat
  BY <1>1
<1>3. n - 1 \in P
  BY <1>1, <1>2
<1>4. (n - 1) + 1 \in P
  BY <1>3
<1> QED BY <1>1, <1>2, <1>4

-----------------------------------------------------------------------------
(* The search: where a walk along the edges ends                           *)

\* What walk is made of: a step, with f for the steps that follow.
Walked(f) ==
  [seen \in SUBSET Threads |->
     [u \in Threads \cup {None} |->
        IF u = None \/ u \in seen THEN [cross |-> u, visited |-> seen]
        ELSE f[seen \cup {u}][WaitVertex(u)]]]
Walk == CHOOSE walk : walk = Walked(walk)

LEMMA SearchIsWalk == ASSUME NEW v PROVE SearchCross(v) = Walk[{}][v]
  BY DEF SearchCross, Walk, Walked

LEMMA EdgeType == TypeOK => \A t \in Threads : WaitVertex(t) \in Threads \cup {None}
  BY DEF TypeOK, WaitVertex

\* A thread that is marked is one less to mark.
LEMMA Fewer ==
  ASSUME NEW seen \in SUBSET Threads, NEW u \in Threads \ seen
  PROVE  /\ Cardinality(Threads \ seen) \in Nat
         /\ Cardinality(Threads \ (seen \cup {u})) = Cardinality(Threads \ seen) - 1
<1>1. IsFiniteSet(Threads \ seen) /\ Cardinality(Threads \ seen) \in Nat
  BY ThreadsAssumption, FS_Subset, FS_CardinalityType
<1>2. Threads \ (seen \cup {u}) = (Threads \ seen) \ {u}
  OBVIOUS
<1>3. ASSUME NEW S, IsFiniteSet(S), NEW x \in S PROVE Cardinality(S \ {x}) = Cardinality(S) - 1
  BY <1>3, FS_RemoveElement
<1> QED BY <1>1, <1>2, <1>3

\* The recursion is well founded: there is a function that walk's equation defines.
LEMMA WalkIs == ASSUME TypeOK PROVE Walk = Walked(Walk)
<1> DEFINE Left(seen) == Cardinality(Threads \ seen)
           Right(g, n) == \A seen \in SUBSET Threads : Left(seen) =< n => g[seen] = Walked(g)[seen]
           P == {n \in Nat : \E g : Right(g, n)}
<1>1. \A seen \in SUBSET Threads : Left(seen) \in Nat
  BY ThreadsAssumption, FS_Subset, FS_CardinalityType
<1>2. ASSUME NEW f, NEW g, NEW seen \in SUBSET Threads,
             \A u \in Threads \ seen : \A w \in Threads \cup {None} :
               f[seen \cup {u}][w] = g[seen \cup {u}][w]
      PROVE  Walked(f)[seen] = Walked(g)[seen]
  BY <1>2, EdgeType DEF Walked
<1>3. 0 \in P
  <2>1. ASSUME NEW g PROVE Right(Walked(g), 0)
    <3> SUFFICES ASSUME NEW seen \in SUBSET Threads, Left(seen) =< 0
                 PROVE  Walked(g)[seen] = Walked(Walked(g))[seen]
      OBVIOUS
    <3>1. IsFiniteSet(Threads \ seen) /\ Left(seen) = 0
      <4>1. IsFiniteSet(Threads \ seen)
        BY ThreadsAssumption, FS_Subset
      <4>2. Left(seen) = 0
        <5> HIDE DEF Left
        <5> QED BY <1>1
      <4> QED BY <4>1, <4>2
    <3>2. Threads \ seen = {}
      BY <3>1, FS_EmptySet
    <3> QED BY <3>2, <1>2
  <2> QED BY <2>1
<1>4. ASSUME NEW n \in P PROVE n + 1 \in P
  <2>1. PICK g : Right(g, n)
    OBVIOUS
  <2>2. Right(Walked(g), n + 1)
    <3> SUFFICES ASSUME NEW seen \in SUBSET Threads, Left(seen) =< n + 1
                 PROVE  Walked(g)[seen] = Walked(Walked(g))[seen]
      OBVIOUS
    <3>1. ASSUME NEW u \in Threads \ seen PROVE g[seen \cup {u}] = Walked(g)[seen \cup {u}]
      <4>1. Left(seen \cup {u}) =< n
        BY <1>1, Fewer
      <4> QED BY <2>1, <4>1
    <3>2. \A u \in Threads \ seen : \A w \in Threads \cup {None} :
            g[seen \cup {u}][w] = Walked(g)[seen \cup {u}][w]
      BY <3>1
    <3> HIDE DEF Walked
    <3> QED BY <3>2, <1>2
  <2> QED BY <2>2
<1>5. Cardinality(Threads) \in P
  <2> HIDE DEF P
  <2>1. Cardinality(Threads) \in Nat
    BY ThreadsAssumption, FS_CardinalityType
  <2> QED BY <1>3, <1>4, <2>1, AllNumbers
<1>6. PICK g : \A seen \in SUBSET Threads : g[seen] = Walked(g)[seen]
  <2>1. \A seen \in SUBSET Threads : Left(seen) =< Cardinality(Threads)
    BY ThreadsAssumption, FS_Subset
  <2> QED BY <1>5, <2>1
<1>7. Walked(g) = Walked(Walked(g))
  <2>1. ASSUME NEW seen \in SUBSET Threads PROVE Walked(g)[seen] = Walked(Walked(g))[seen]
    <3>1. \A u \in Threads \ seen : seen \cup {u} \in SUBSET Threads
      OBVIOUS
    <3> QED BY <3>1, <1>2, <1>6
  <2>2. \A f : Walked(f) = [seen \in SUBSET Threads |-> Walked(f)[seen]]
    BY DEF Walked
  <2> HIDE DEF Walked
  <2> QED BY <2>1, <2>2
<1> QED BY <1>7 DEF Walk

\* One step of the walk.
LEMMA WalkStep ==
  ASSUME TypeOK, NEW seen \in SUBSET Threads, NEW u \in Threads \cup {None}
  PROVE  Walk[seen][u] = IF u = None \/ u \in seen THEN [cross |-> u, visited |-> seen]
                         ELSE Walk[seen \cup {u}][WaitVertex(u)]
<1>1. \A f : Walked(f)[seen][u] = IF u = None \/ u \in seen THEN [cross |-> u, visited |-> seen]
                                  ELSE f[seen \cup {u}][WaitVertex(u)]
  BY DEF Walked
<1>2. Walked(Walk) = Walk
  BY WalkIs
<1> HIDE DEF Walked, Walk
<1>3. Walked(Walk)[seen][u] = Walk[seen][u]
  BY <1>2
<1> QED BY <1>1, <1>3

\* What is marked leads nowhere else.
Closed(seen, u) == \A x \in seen : WaitVertex(x) \in seen \cup {u}

\* Whoever can go on from a vertex that is marked comes to u.
LeadTo(seen, u) ==
  \A X \in SUBSET Threads, x \in seen :
    (\A y \in X : WaitVertex(y) \in X \cup {None}) /\ WaitVertex(x) \in X => u \in X \cup {None}

\* What a walk that has marked seen and is at u comes to.
Outcome(seen, u) ==
  LET r == Walk[seen][u] IN
  /\ r.visited \in SUBSET Threads /\ seen \subseteq r.visited /\ u \in r.visited \cup {None}
  /\ r.cross \in r.visited \cup {None}
  /\ Closed(seen, u) => Closed(r.visited, r.cross)
  /\ LeadTo(seen, u) /\ r.cross # None =>
       \A X \in SUBSET Threads :
         (\A y \in X : WaitVertex(y) \in X \cup {None}) /\ WaitVertex(r.cross) \in X => r.cross \in X
  /\ r.cross = None => \A S \in SUBSET Threads : GraphCycle(S) => u \notin S /\ S \cap r.visited \subseteq seen

LEMMA OutcomeEnd ==
  ASSUME TypeOK, NEW seen \in SUBSET Threads, NEW u \in seen \cup {None}
  PROVE  Outcome(seen, u)
<1>1. Walk[seen][u] = [cross |-> u, visited |-> seen]
  BY WalkStep
<1>2. \A S \in SUBSET Threads : None \notin S
  BY NoneAssumption
<1>3. /\ Walk[seen][u].cross = u /\ Walk[seen][u].visited = seen
  BY <1>1
<1> HIDE DEF Walk
<1> QED BY <1>2, <1>3 DEF Outcome, LeadTo

LEMMA OutcomeStep ==
  ASSUME TypeOK, NEW seen \in SUBSET Threads, NEW u \in Threads \ seen,
         Outcome(seen \cup {u}, WaitVertex(u))
  PROVE  Outcome(seen, u)
<1> DEFINE r == Walk[seen][u]
           w == WaitVertex(u)
<1>1. r = Walk[seen \cup {u}][w]
  BY WalkStep, NoneAssumption
<1>2. w \in Threads \cup {None} /\ u # None
  BY EdgeType, NoneAssumption
<1> HIDE DEF Walk, r
<1>3. /\ r.visited \in SUBSET Threads /\ seen \subseteq r.visited /\ u \in r.visited
      /\ r.cross \in r.visited \cup {None}
  BY <1>1 DEF Outcome
<1>4. Closed(seen, u) => Closed(r.visited, r.cross)
  <2>1. Closed(seen, u) => Closed(seen \cup {u}, w)
    BY DEF Closed
  <2> QED BY <1>1, <2>1 DEF Outcome
<1>5. LeadTo(seen, u) => LeadTo(seen \cup {u}, w)
  BY <1>2 DEF LeadTo
<1>6. ASSUME r.cross = None, NEW S \in SUBSET Threads, GraphCycle(S)
      PROVE  u \notin S /\ S \cap r.visited \subseteq seen
  <2>1. w \notin S /\ S \cap r.visited \subseteq seen \cup {u}
    BY <1>1, <1>6 DEF Outcome
  <2> QED BY <1>6, <2>1 DEF GraphCycle
<1> QED BY <1>1, <1>3, <1>4, <1>5, <1>6 DEF Outcome, r

\* Every walk comes to its outcome, since it marks a vertex at each step.
LEMMA OutcomeHolds ==
  ASSUME TypeOK, NEW seen \in SUBSET Threads, NEW u \in Threads \cup {None}
  PROVE  Outcome(seen, u)
<1> DEFINE Left(s) == Cardinality(Threads \ s)
           P == {n \in Nat : \A s \in SUBSET Threads, x \in Threads \cup {None} :
                               Left(s) = n => Outcome(s, x)}
<1>1. \A s \in SUBSET Threads : IsFiniteSet(Threads \ s) /\ Left(s) \in Nat
  BY ThreadsAssumption, FS_Subset, FS_CardinalityType
<1>2. 0 \in P
  <2> SUFFICES ASSUME NEW s \in SUBSET Threads, NEW x \in Threads \cup {None}, Left(s) = 0
               PROVE  Outcome(s, x)
    OBVIOUS
  <2>1. Threads \ s = {}
    BY <1>1, FS_EmptySet
  <2> QED BY <2>1, OutcomeEnd
<1>3. ASSUME NEW n \in P PROVE n + 1 \in P
  <2> SUFFICES ASSUME NEW s \in SUBSET Threads, NEW x \in Threads \cup {None}, Left(s) = n + 1
               PROVE  Outcome(s, x)
    OBVIOUS
  <2>1. CASE x \in s \cup {None}
    BY <2>1, OutcomeEnd
  <2>2. CASE x \notin s \cup {None}
    <3>1. Left(s \cup {x}) = n
      BY <2>2, Fewer
    <3>2. WaitVertex(x) \in Threads \cup {None}
      BY <2>2, EdgeType
    <3>3. Outcome(s \cup {x}, WaitVertex(x))
      BY <2>2, <3>1, <3>2
    <3> QED BY <2>2, <3>3, OutcomeStep
  <2> QED BY <2>1, <2>2
<1>4. Left(seen) \in P
  <2>1. Left(seen) \in Nat
    BY <1>1
  <2> HIDE DEF P
  <2> QED BY <1>2, <1>3, <2>1, AllNumbers
<1> QED BY <1>4

LEMMA SearchIs ==
  ASSUME TypeOK, NEW v \in Threads
  PROVE  LET r == SearchCross(v) IN
         /\ r.visited \in SUBSET Threads /\ v \in r.visited
         /\ r.cross \in r.visited \cup {None}
         /\ \A x \in r.visited : WaitVertex(x) \in r.visited \cup {r.cross}
         /\ r.cross # None => \A X \in SUBSET Threads :
              (\A y \in X : WaitVertex(y) \in X \cup {None}) /\ WaitVertex(r.cross) \in X => r.cross \in X
         /\ r.cross = None => \A S \in SUBSET Threads : GraphCycle(S) => S \cap r.visited = {}
<1>1. SearchCross(v) = Walk[{}][v]
  BY SearchIsWalk
<1>2. Outcome({}, v) /\ v # None
  BY OutcomeHolds, NoneAssumption
<1>3. Closed({}, v) /\ LeadTo({}, v)
  BY DEF Closed, LeadTo
<1> HIDE DEF Walk
<1> QED BY <1>1, <1>2, <1>3 DEF Outcome, Closed

-----------------------------------------------------------------------------
(* The scan of the list of vertexes                                        *)

\* The positions after i whose vertexes the search from there does not mark.
Follow(i) == {j \in i..Len(vertexes) : vertexes[j] \notin SearchCross(vertexes[i]).visited}

\* What the scan is made of: a search, with f for those that follow.
Scanned(f) ==
  [i \in 1..Len(vertexes) + 1 |->
     IF i > Len(vertexes) THEN None
     ELSE LET found == SearchCross(vertexes[i])
              unseen == {j \in i..Len(vertexes) : vertexes[j] \notin found.visited}
          IN  IF found.cross # None THEN found.cross
              ELSE IF unseen = {} THEN None
              ELSE f[CHOOSE j \in unseen : \A k \in unseen : j =< k]]
From == CHOOSE from : from = Scanned(from)

LEMMA ScanIsFrom == Scan = From[1]
  BY DEF Scan, From, Scanned

\* The least of what is not yet marked, which comes after what was searched from.
Then(i) == CHOOSE j \in Follow(i) : \A k \in Follow(i) : j =< k

LEMMA ThenIs ==
  ASSUME TypeOK, NEW i \in 1..Len(vertexes), Follow(i) # {}
  PROVE  /\ Then(i) \in Follow(i) /\ \A k \in Follow(i) : Then(i) =< k
         /\ Then(i) \in i + 1 .. Len(vertexes)
<1>1. Len(vertexes) \in Nat /\ vertexes[i] \in Threads
  BY DEF TypeOK
<1>2. Follow(i) \subseteq Nat
  BY <1>1 DEF Follow
<1>3. Then(i) \in Follow(i) /\ \A k \in Follow(i) : Then(i) =< k
  BY <1>2, LeastOf DEF Then
<1>4. i \notin Follow(i)
  BY <1>1, SearchIs DEF Follow
<1> QED BY <1>1, <1>3, <1>4 DEF Follow

LEMMA ScannedAt ==
  ASSUME TypeOK, NEW i \in 1..Len(vertexes), NEW f
  PROVE  Scanned(f)[i] = IF SearchCross(vertexes[i]).cross # None THEN SearchCross(vertexes[i]).cross
                         ELSE IF Follow(i) = {} THEN None ELSE f[Then(i)]
<1>1. i \in 1..Len(vertexes) + 1 /\ ~(i > Len(vertexes))
  BY DEF TypeOK
<1> QED BY <1>1 DEF Scanned, Follow, Then

LEMMA ScannedEnd ==
  ASSUME TypeOK, NEW f
  PROVE  Scanned(f)[Len(vertexes) + 1] = None
<1>1. Len(vertexes) \in Nat
  BY DEF TypeOK
<1>2. Len(vertexes) + 1 \in 1..Len(vertexes) + 1 /\ Len(vertexes) + 1 > Len(vertexes)
  BY <1>1
<1> QED BY <1>2 DEF Scanned

\* Again there is a function that the equation defines, since the scan moves forward.
LEMMA FromIs == ASSUME TypeOK PROVE From = Scanned(From)
<1> DEFINE L == Len(vertexes)
           Right(g, n) == \A i \in 1..L + 1 : i + n > L => g[i] = Scanned(g)[i]
           P == {n \in Nat : \E g : Right(g, n)}
<1>1. L \in Nat
  BY DEF TypeOK
<1>2. ASSUME NEW f, NEW g, NEW i \in 1..L + 1,
             i =< L /\ Follow(i) # {} => f[Then(i)] = g[Then(i)]
      PROVE  Scanned(f)[i] = Scanned(g)[i]
  <2>1. CASE i = L + 1
    BY <2>1, ScannedEnd
  <2>2. CASE i # L + 1
    <3>1. i \in 1..L
      BY <1>1, <2>2
    <3> QED BY <1>1, <1>2, <3>1, ScannedAt
  <2> QED BY <2>1, <2>2
<1>3. 0 \in P
  <2>1. ASSUME NEW g, NEW i \in 1..L + 1, i + 0 > L PROVE Scanned(g)[i] = Scanned(Scanned(g))[i]
    <3>1. i = L + 1
      BY <1>1, <2>1
    <3> QED BY <3>1, ScannedEnd
  <2>2. \A g : Right(Scanned(g), 0)
    BY <2>1
  <2> QED BY <2>2
<1>4. ASSUME NEW n \in P PROVE n + 1 \in P
  <2>1. PICK g : Right(g, n)
    OBVIOUS
  <2>2. Right(Scanned(g), n + 1)
    <3> SUFFICES ASSUME NEW i \in 1..L + 1, i + (n + 1) > L
                 PROVE  Scanned(g)[i] = Scanned(Scanned(g))[i]
      OBVIOUS
    <3>1. ASSUME i =< L, Follow(i) # {} PROVE g[Then(i)] = Scanned(g)[Then(i)]
      <4>1. Then(i) \in i + 1 .. L
        BY <1>1, <3>1, ThenIs
      <4>2. Then(i) \in 1..L + 1 /\ Then(i) + n > L
        BY <1>1, <4>1
      <4> QED BY <2>1, <4>2
    <3> HIDE DEF Scanned
    <3> QED BY <3>1, <1>2
  <2> QED BY <2>2
<1>5. L \in P
  <2> HIDE DEF P
  <2> QED BY <1>1, <1>3, <1>4, AllNumbers
<1>6. PICK g : \A i \in 1..L + 1 : g[i] = Scanned(g)[i]
  <2>1. \A i \in 1..L + 1 : i + L > L
    BY <1>1
  <2> QED BY <1>5, <2>1
<1>7. Scanned(g) = Scanned(Scanned(g))
  <2>1. ASSUME NEW i \in 1..L + 1 PROVE Scanned(g)[i] = Scanned(Scanned(g))[i]
    <3>1. i =< L /\ Follow(i) # {} => Then(i) \in 1..L + 1
      BY <1>1, ThenIs
    <3>2. i =< L /\ Follow(i) # {} => g[Then(i)] = Scanned(g)[Then(i)]
      BY <1>6, <3>1
    <3> HIDE DEF Scanned
    <3> QED BY <1>2, <3>2
  <2>2. \A f : Scanned(f) = [i \in 1..L + 1 |-> Scanned(f)[i]]
    BY DEF Scanned
  <2> HIDE DEF Scanned
  <2> QED BY <2>1, <2>2
<1> QED BY <1>7 DEF From

\* No cycle comes by the vertexes before position i.
Clear(i) == \A S \in SUBSET Threads, j \in 1..i - 1 : GraphCycle(S) => vertexes[j] \notin S

\* What the scan finds from position i on is what a search found, and if it finds nothing
\* then no cycle comes by any vertex.
Covers(i) ==
  /\ From[i] # None => \E k \in 1..Len(vertexes) : From[i] = SearchCross(vertexes[k]).cross
  /\ From[i] = None /\ Clear(i) => Clear(Len(vertexes) + 1)

LEMMA CoversEnd == TypeOK => Covers(Len(vertexes) + 1)
<1> SUFFICES ASSUME TypeOK PROVE Covers(Len(vertexes) + 1)
  OBVIOUS
<1>1. From[Len(vertexes) + 1] = None
  <2>1. Scanned(From)[Len(vertexes) + 1] = None
    BY ScannedEnd
  <2> HIDE DEF From
  <2> QED BY <2>1, FromIs
<1> HIDE DEF From
<1> QED BY <1>1 DEF Covers

LEMMA CoversStep ==
  ASSUME TypeOK, NEW i \in 1..Len(vertexes),
         \A j \in i + 1 .. Len(vertexes) : Covers(j)
  PROVE  Covers(i)
<1> HIDE DEF From
<1> DEFINE L == Len(vertexes)
           r == SearchCross(vertexes[i])
<1>1. L \in Nat /\ \A j \in 1..L : vertexes[j] \in Threads
  BY DEF TypeOK
<1>2. From[i] = IF r.cross # None THEN r.cross ELSE IF Follow(i) = {} THEN None ELSE From[Then(i)]
  BY FromIs, ScannedAt
<1>3. r.cross = None => \A S \in SUBSET Threads : GraphCycle(S) => S \cap r.visited = {}
  BY <1>1, SearchIs
<1>4. \A j \in i..L : j \notin Follow(i) => vertexes[j] \in r.visited
  BY DEF Follow
<1> HIDE DEF L, r
<1>5. CASE r.cross # None
  BY <1>2, <1>5 DEF Covers, L, r
<1>6. CASE r.cross = None /\ Follow(i) = {}
  <2>1. Clear(i) => Clear(L + 1)
    <3> SUFFICES ASSUME Clear(i), NEW S \in SUBSET Threads, NEW j \in 1..L, GraphCycle(S)
                 PROVE  vertexes[j] \notin S
      BY <1>1 DEF Clear
    <3>1. CASE j \in 1..i - 1
      BY <3>1 DEF Clear
    <3>2. CASE j \in i..L
      BY <1>3, <1>4, <1>6, <3>2
    <3> QED BY <1>1, <3>1, <3>2 DEF L
  <2> QED BY <1>2, <1>6, <2>1 DEF Covers, L
<1>7. CASE r.cross = None /\ Follow(i) # {}
  <2>1. Then(i) \in i + 1 .. L /\ \A k \in Follow(i) : Then(i) =< k
    BY <1>7, ThenIs DEF L
  <2>2. Clear(i) => Clear(Then(i))
    <3> SUFFICES ASSUME Clear(i), NEW S \in SUBSET Threads, NEW j \in 1..Then(i) - 1, GraphCycle(S)
                 PROVE  vertexes[j] \notin S
      BY DEF Clear
    <3>1. CASE j \in 1..i - 1
      BY <3>1 DEF Clear
    <3>2. CASE j \in i..Then(i) - 1
      <4>1. j \in i..L /\ ~(Then(i) =< j)
        BY <1>1, <2>1, <3>2 DEF L
      <4> QED BY <1>3, <1>4, <1>7, <2>1, <4>1
    <3> QED BY <1>1, <2>1, <3>1, <3>2 DEF L
  <2>3. Covers(Then(i))
    BY <2>1 DEF L
  <2> QED BY <1>2, <1>7, <2>2, <2>3 DEF Covers, L
<1> QED BY <1>5, <1>6, <1>7

LEMMA CoversFirst == TypeOK => Covers(1)
<1> SUFFICES ASSUME TypeOK PROVE Covers(1)
  OBVIOUS
<1> DEFINE L == Len(vertexes)
           P == {n \in Nat : \A i \in 1..L + 1 : i + n > L => Covers(i)}
<1>1. L \in Nat
  BY DEF TypeOK
<1>2. 0 \in P
  <2>1. \A i \in 1..L + 1 : i + 0 > L => i = L + 1
    BY <1>1
  <2> QED BY <2>1, CoversEnd
<1>3. ASSUME NEW n \in P PROVE n + 1 \in P
  <2> SUFFICES ASSUME NEW i \in 1..L + 1, i + (n + 1) > L PROVE Covers(i)
    OBVIOUS
  <2>1. CASE i = L + 1
    BY <2>1, CoversEnd
  <2>2. CASE i # L + 1
    <3>1. i \in 1..L /\ \A j \in i + 1 .. L : j \in 1..L + 1 /\ j + n > L
      BY <1>1, <2>2
    <3> QED BY <3>1, CoversStep
  <2> QED BY <2>1, <2>2
<1>4. L \in P
  <2> HIDE DEF P
  <2> QED BY <1>1, <1>2, <1>3, AllNumbers
<1> QED BY <1>1, <1>4

\* Whoever is in a cycle waits and has a vertex.
LEMMA ScanExact ==
  ASSUME TypeOK, \A t \in Threads : waiting[t] # None => t \in Known
  PROVE  ScanIsExact
<1> HIDE DEF From
<1>1. Covers(1) /\ Clear(1)
  BY CoversFirst DEF Clear
<1>2. Scan = From[1]
  BY ScanIsFrom
<1> HIDE DEF Scan
<1>3. ASSUME Scan = None, NEW S \in SUBSET Threads, GraphCycle(S) PROVE FALSE
  <2>1. Clear(Len(vertexes) + 1)
    BY <1>1, <1>2, <1>3 DEF Covers
  <2>2. PICK t \in S : WaitVertex(t) \in S
    BY <1>3 DEF GraphCycle
  <2>3. t \in Known
    BY <2>2, NoneAssumption DEF WaitVertex
  <2>4. PICK j \in 1..Len(vertexes) : vertexes[j] = t
    BY <2>3 DEF Known
  <2>5. j \in 1..(Len(vertexes) + 1) - 1
    BY DEF TypeOK
  <2> QED BY <1>3, <2>1, <2>4, <2>5 DEF Clear
<1>4. ASSUME Scan # None
      PROVE  /\ \E S \in SUBSET Threads : GraphCycle(S)
             /\ Scan \in SearchCross(WaitVertex(Scan)).visited
  <2>1. PICK k \in 1..Len(vertexes) : Scan = SearchCross(vertexes[k]).cross
    BY <1>1, <1>2, <1>4 DEF Covers
  <2> DEFINE r == SearchCross(vertexes[k])
  <2>2. vertexes[k] \in Threads
    BY DEF TypeOK
  <2>3. /\ r.visited \in SUBSET Threads /\ vertexes[k] \in r.visited /\ Scan \in r.visited
        /\ \A x \in r.visited : WaitVertex(x) \in r.visited
        /\ \A X \in SUBSET Threads :
             (\A y \in X : WaitVertex(y) \in X \cup {None}) /\ WaitVertex(Scan) \in X => Scan \in X
    BY <1>4, <2>1, <2>2, SearchIs
  <2>4. GraphCycle(r.visited)
    BY <2>3 DEF GraphCycle
  <2> DEFINE w == WaitVertex(Scan)
             q == SearchCross(w)
  <2>5. w \in Threads
    BY <2>3
  <2>6. /\ q.visited \in SUBSET Threads /\ w \in q.visited
        /\ \A x \in q.visited : WaitVertex(x) \in q.visited \cup {None}
    <3> HIDE DEF w
    <3>1. /\ q.visited \in SUBSET Threads /\ w \in q.visited
          /\ q.cross \in q.visited \cup {None}
          /\ \A x \in q.visited : WaitVertex(x) \in q.visited \cup {q.cross}
      BY <2>5, SearchIs
    <3> QED BY <3>1
  <2> HIDE DEF r, q
  <2> QED BY <2>3, <2>4, <2>6 DEF q
<1> QED BY <1>3, <1>4 DEF ScanIsExact
-----------------------------------------------------------------------------
(* What the detector prints                                                *)

\* The scan finds a cycle exactly when the graph has one, and starts to print it at a
\* vertex the printing comes back to (deadlock_detector.c:239-265, 275-288).
THEOREM ScanFindsCycles == Spec => []ScanIsExact
<1>1. IInv => ScanIsExact
  BY ScanExact DEF IInv, Hooks
<1>2. Spec => []IInv
  BY InitIInv, IInvStep, PTL DEF Spec
<1> QED BY <1>1, <1>2, PTL

\* What the detector has printed is a deadlock that is still there
\* (deadlock_detector.c:267-295): the scan found a cycle, the cycle was a deadlock, and no
\* step since has resolved it.
THEOREM ReportsAreTrue == Spec => []ReportIsTrue
<1>1. Init => ReportIsTrue
  BY DEF Init, ReportIsTrue
<1>2. IInv /\ AnyHolderOwns /\ ReportIsTrue /\ [Next]_vars => ReportIsTrue'
  <2> SUFFICES ASSUME IInv, AnyHolderOwns, ReportIsTrue, [Next]_vars, reported'
               PROVE  \E S \in SUBSET Threads : Deadlocked(S)'
    BY DEF ReportIsTrue
  <2>1. \A S \in SUBSET Threads : Deadlocked(S) => Deadlocked(S)'
    BY DeadlockStays
  <2>2. CASE reported
    BY <2>1, <2>2 DEF ReportIsTrue
  <2>3. CASE Detect
    <3>1. ScanIsExact
      BY ScanExact DEF IInv, Hooks
    <3>2. PICK S \in SUBSET Threads : GraphCycle(S)
      BY <2>3, <3>1 DEF Detect, ScanIsExact
    <3>3. Deadlocked(S)
      BY <3>2, CyclesDeadlock DEF NoFalseAlarm
    <3> QED BY <2>1, <3>3
  <2>4. CASE ~Detect
    <3>1. reported' = reported
      BY <2>4 DEF Next, Step, BeforeLock, RealLock, AfterLock, RealUnlock, AfterUnlock, vars
    <3> QED BY <2>2, <3>1
  <2> QED BY <2>3, <2>4
<1> QED BY <1>1, <1>2, InitIInv, IInvStep, HolderStep, PTL DEF Spec

\* The hooks' records are true, and no assertion fails (deadlock_detector.c:21-72, 174-203).
THEOREM RecordsAreRight == Spec => []RecordsRight
<1>1. TypeOK /\ NodesAlive /\ UsedCounts /\ HolderOwns => RecordsRight BY DEF RecordsRight
<1> QED BY <1>1, TypeCorrect, NodesStayAlive, UsedIsUsers, HolderIsOwner, PTL
=============================================================================
