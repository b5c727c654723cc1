-------------------------- MODULE ThreadPoolProofs --------------------------
(***************************************************************************)
(* What is proved of ThreadPool for any number of workers, clients, tasks  *)
(* and sizes.                                                              *)
(*                                                                         *)
(* The type invariant bounds the busy count and the length of the list.    *)
(* That it is inductive rests on counting: the busy count is the number of *)
(* running workers, those are live, the live workers are the listed ones,  *)
(* each listed once, and the list is never made longer than Cap.           *)
(***************************************************************************)
EXTENDS ThreadPool, SequenceTheorems, FiniteSetTheorems, TLAPS

Members(q) == {q[i] : i \in 1..Len(q)}
Running == {t \in Threads : pc[t] = "running"}

\* What else holds in every state and is needed for that: who keeps the mutex is
\* about to read its predicate, only listed workers are flagged, who runs has a task,
\* and a pool that was not initialised has no worker and no task.
Shape ==
  /\ mutex # NoThread => pc[mutex] = "ready"
  /\ term \subseteq Listed
  /\ \A t \in Threads : pc[t] = "running" => job[t] # 0
  /\ phase = "new" => thds = <<>> /\ tasks = <<>>

IInv == TypeOK /\ ListIsCrew /\ BusyCount /\ Shape

-----------------------------------------------------------------------------
(* Lemmas about the operators of the model                                 *)

\* Cap bounds what init() and activeSomeThread may hire.
LEMMA CapType == Cap \in Nat /\ MinThds =< Cap /\ MaxThds =< Cap
BY SizesAssumption DEF Cap

\* A list of workers without repetitions is as long as the set of its members.
LEMMA CrewSize ==
  ASSUME TypeOK, ListIsCrew
  PROVE  /\ IsFiniteSet(Listed) /\ Cardinality(Listed) = Len(thds)
         /\ IsFiniteSet(Running) /\ Cardinality(Running) =< Len(thds)
         /\ Cardinality(Running) \in Nat
<1>1. thds \in Seq(Threads) /\ Len(thds) \in Nat BY DEF TypeOK
<1>2. thds \in Bijection(1..Len(thds), Listed)
  <2>1. thds \in [1..Len(thds) -> Listed] BY <1>1 DEF Listed
  <2> QED BY <2>1 DEF ListIsCrew, Listed, Bijection, Injection, Surjection, IsInjective
<1>3. ExistsBijection(1..Len(thds), Listed) BY <1>2 DEF ExistsBijection
<1>4. IsFiniteSet(Listed) /\ Cardinality(Listed) = Len(thds)
  BY <1>1, <1>3, FS_NatBijection, FS_CountingElements
<1>5. Running \in SUBSET Listed BY DEF Running, ListIsCrew, Unused
<1>6. IsFiniteSet(Running) /\ Cardinality(Running) =< Len(thds) BY <1>4, <1>5, FS_Subset
<1> QED BY <1>4, <1>6, FS_CardinalityType

\* New workers are appended to the list, each once, and were not there before.
LEMMA HireFacts ==
  ASSUME TypeOK, ListIsCrew, NEW k \in Nat, NEW s \in Hired(k)
  PROVE  /\ s \in Seq(Threads) /\ Len(s) = k
         /\ thds \o s \in Seq(Threads) /\ Len(thds \o s) = Len(thds) + k
         /\ \A i \in 1..Len(thds) + k :
              (thds \o s)[i] = IF i =< Len(thds) THEN thds[i] ELSE s[i - Len(thds)]
         /\ Members(thds \o s) = Listed \cup {s[i] : i \in 1..k}
         /\ \A i, j \in 1..Len(thds \o s) : (thds \o s)[i] = (thds \o s)[j] => i = j
         /\ \A i \in 1..k : s[i] \in Unused
<1>1. s \in [1..k -> Unused] /\ \A i, j \in 1..k : s[i] = s[j] => i = j BY DEF Hired
<1>2. s \in Seq(Unused) /\ Len(s) = k BY <1>1
<1>3. s \in Seq(Threads) BY <1>1 DEF Unused
<1>4. thds \in Seq(Threads) /\ Len(thds) \in Nat BY DEF TypeOK
<1>5. /\ thds \o s \in Seq(Threads) /\ Len(thds \o s) = Len(thds) + k
      /\ \A i \in 1..Len(thds) + k :
           (thds \o s)[i] = IF i =< Len(thds) THEN thds[i] ELSE s[i - Len(thds)]
  BY <1>2, <1>3, <1>4, ConcatProperties
<1>6. Members(thds \o s) = Listed \cup {s[i] : i \in 1..k}
  <2>1. \A i \in 1..Len(thds) : (thds \o s)[i] = thds[i] /\ i \in 1..Len(thds) + k
    BY <1>4, <1>5
  <2>2. \A i \in 1..k : (thds \o s)[i + Len(thds)] = s[i] /\ i + Len(thds) \in 1..Len(thds) + k
    BY <1>4, <1>5
  <2>3. \A i \in 1..Len(thds) + k : (thds \o s)[i] \in Listed \cup {s[j] : j \in 1..k}
    <3> TAKE i \in 1..Len(thds) + k
    <3>1. CASE i \in 1..Len(thds) BY <2>1, <3>1 DEF Listed
    <3>2. CASE i - Len(thds) \in 1..k BY <1>4, <1>5, <3>2
    <3>3. i \in 1..Len(thds) \/ i - Len(thds) \in 1..k BY <1>4
    <3> QED BY <3>1, <3>2, <3>3, Zenon
  <2>4. Len(thds \o s) = Len(thds) + k BY <1>5
  <2>5. \A u \in Listed : \E i \in 1..Len(thds \o s) : (thds \o s)[i] = u
    BY <2>1, <2>4 DEF Listed
  <2>6. \A j \in 1..k : \E i \in 1..Len(thds \o s) : (thds \o s)[i] = s[j] BY <2>2, <2>4
  <2>7. \A i \in 1..Len(thds \o s) : (thds \o s)[i] \in Listed \cup {s[j] : j \in 1..k}
    BY <2>3, <2>4
  <2> DEFINE all == {(thds \o s)[i] : i \in 1..Len(thds \o s)}
             new == {s[i] : i \in 1..k}
  <2>8. all \subseteq Listed \cup new BY <2>7
  <2>9. Listed \subseteq all BY <2>5
  <2>10. new \subseteq all BY <2>6
  <2> HIDE DEF all, new
  <2>11. all = Listed \cup new BY <2>8, <2>9, <2>10
  <2> QED BY <2>11 DEF all, new, Members
<1>7. \A i, j \in 1..Len(thds \o s) : (thds \o s)[i] = (thds \o s)[j] => i = j
  <2>1. \A i \in 1..Len(thds), j \in 1..k : thds[i] # s[j]
    BY <1>1 DEF ListIsCrew, Listed
  <2>2. \A i, j \in 1..Len(thds) : thds[i] = thds[j] => i = j BY DEF ListIsCrew
  <2> QED BY <2>1, <2>2, <1>1, <1>4, <1>5
<1> QED BY <1>1, <1>2, <1>3, <1>5, <1>6, <1>7

\* A listed worker has one place; without it the list has its other members, in order.
LEMMA PlaceFacts ==
  ASSUME TypeOK, NEW t \in Listed
  PROVE  Place(t) \in 1..Len(thds) /\ thds[Place(t)] = t
<1>1. \E i \in 1..Len(thds) : thds[i] = t BY DEF Listed
<1> QED BY <1>1 DEF Place

\* The list without a listed worker has the other workers, each once.
LEMMA WithoutFacts ==
  ASSUME TypeOK, ListIsCrew, NEW t \in Listed
  PROVE  /\ Without(t) \in Seq(Threads) /\ Len(Without(t)) = Len(thds) - 1
         /\ Members(Without(t)) = Listed \ {t}
         /\ \A i, j \in 1..Len(Without(t)) : Without(t)[i] = Without(t)[j] => i = j
<1> DEFINE p == Place(t)
           w == Without(t)
           n == Len(thds)
<1>1. thds \in Seq(Threads) /\ n \in Nat /\ \A i \in 1..n : thds[i] \in Threads BY DEF TypeOK
<1>2. p \in 1..n /\ thds[p] = t BY PlaceFacts
<1>3. w = [i \in 1..n - 1 |-> thds[IF i < p THEN i ELSE i + 1]] BY DEF Without
<1>4. \A i \in 1..n - 1 : (IF i < p THEN i ELSE i + 1) \in 1..n \ {p} BY <1>1, <1>2
<1>5. w \in [1..n - 1 -> Threads] BY <1>1, <1>3, <1>4
<1>6. w \in Seq(Threads) /\ Len(w) = n - 1 BY <1>1, <1>2, <1>5, SMTT(60)
<1>7. \A i, j \in 1..n : thds[i] = thds[j] => i = j BY DEF ListIsCrew
<1>8. Members(w) = Listed \ {t}
  <2>1. \A i \in 1..n - 1 : w[i] \in Listed \ {t}
    BY <1>1, <1>2, <1>3, <1>4, <1>7 DEF Listed
  <2>2. ASSUME NEW u \in Listed \ {t} PROVE \E i \in 1..n - 1 : w[i] = u
    <3>1. PICK j \in 1..n : thds[j] = u BY DEF Listed
    <3>2. j # p BY <1>2, <3>1
    <3>3. CASE j < p BY <3>1, <3>3, <1>1, <1>2, <1>3
    <3>4. CASE j > p
      <4>1. j - 1 \in 1..n - 1 /\ ~(j - 1 < p) /\ (j - 1) + 1 = j BY <1>1, <1>2, <3>4
      <4>2. w[j - 1] = thds[j] BY <1>3, <4>1
      <4> QED BY <3>1, <4>1, <4>2
    <3> QED BY <3>2, <3>3, <3>4, <1>1, <1>2
  <2> QED BY <2>1, <2>2, <1>6 DEF Members
<1>9. \A i, j \in 1..Len(w) : w[i] = w[j] => i = j
  <2> SUFFICES ASSUME NEW i \in 1..n - 1, NEW j \in 1..n - 1, w[i] = w[j] PROVE i = j
    BY <1>6
  <2>1. (IF i < p THEN i ELSE i + 1) = (IF j < p THEN j ELSE j + 1) BY <1>3, <1>4, <1>7
  <2> QED BY <2>1, <1>1, <1>2
<1> QED BY <1>6, <1>8, <1>9

\* The crew does not grow beyond Cap, nor shrink below MinThds.
LEMMA GrowFacts ==
  ASSUME TypeOK, NEW b \in Nat, NEW n \in Nat
  PROVE  GrowBy(b, n) \in Nat /\ Len(thds) + GrowBy(b, n) =< Cap
<1>1. Len(thds) \in Nat /\ Len(thds) =< Cap BY DEF TypeOK
<1> QED BY <1>1, CapType, SizesAssumption DEF GrowBy

\* Shrinking flags workers only down to MinThds.
LEMMA ShrinkFacts ==
  ASSUME TypeOK, NEW b \in Nat
  PROVE  /\ ShrinkBy(b) \in Nat /\ ShrinkBy(b) =< Len(thds)
         /\ ShrinkBy(b) # 0 => Len(thds) - ShrinkBy(b) >= MinThds
<1>1. Len(thds) \in Nat /\ Len(thds) \div 2 \in Nat BY DEF TypeOK
<1> QED BY <1>1, SizesAssumption DEF ShrinkBy

-----------------------------------------------------------------------------
(* The inductive invariant                                                 *)

\* A pool that was not initialised has no workers and no tasks.
LEMMA InitIInv == Init => IInv
<1> SUFFICES ASSUME Init PROVE IInv OBVIOUS
<1>1. TypeOK
  <2>1. <<>> \in Seq(1..NTasks) /\ <<>> \in Seq(Threads) /\ Len(thds) = 0 BY DEF Init
  <2> QED BY <2>1, CapType, SizesAssumption DEF Init, TypeOK
<1>2. Listed = {} /\ Unused = Threads /\ Len(thds) = 0 BY DEF Init, Listed, Unused
<1>3. {t \in Threads : pc[t] = "running"} = {} BY DEF Init
<1>4. BusyCount BY <1>3, FS_EmptySet DEF Init, BusyCount
<1> QED BY <1>1, <1>2, <1>4 DEF Init, IInv, ListIsCrew, Shape

\* A step that neither changes the list nor lets a worker come, go, take or finish.
LEMMA SameCrew ==
  ASSUME ListIsCrew, BusyCount, thds' = thds, busyNum' = busyNum,
         \A t \in Threads : /\ pc'[t] = "none" <=> pc[t] = "none"
                            /\ pc'[t] = "running" <=> pc[t] = "running"
  PROVE  ListIsCrew' /\ BusyCount'
<1>1. Unused' = Unused /\ Listed' = Listed BY DEF Unused, Listed
<1>2. {t \in Threads : pc[t] = "running"}' = {t \in Threads : pc[t] = "running"} OBVIOUS
<1> QED BY <1>1, <1>2 DEF ListIsCrew, BusyCount

\* No step leaves the types, loses a worker or miscounts the busy ones.
LEMMA IInvStep == IInv /\ [Next]_vars => IInv'
<1> SUFFICES ASSUME IInv, [Next]_vars PROVE IInv' OBVIOUS
<1>T. TypeOK /\ ListIsCrew /\ BusyCount /\ Shape BY DEF IInv
<1>S. /\ tasks \in Seq(1..NTasks) /\ thds \in Seq(Threads) /\ Len(thds) \in Nat
      /\ pc \in [Threads -> {"none", "ready", "asleep", "running"}]
      /\ busyNum \in Nat /\ accepted \in Nat /\ Cap \in Nat /\ MinThds \in Nat
  BY <1>T, CapType, SizesAssumption DEF TypeOK
<1>L. Listed = Members(thds) /\ Listed' = Members(thds') BY DEF Listed, Members
<1>1. CASE InitPool
  <2>1. PICK s \in Hired(MinThds) :
          /\ thds' = thds \o s
          /\ pc' = [t \in Threads |-> IF \E i \in 1..MinThds : s[i] = t
                                      THEN "ready" ELSE pc[t]]
    BY <1>1 DEF InitPool
  <2>2. thds = <<>> /\ Len(thds) = 0 BY <1>1, <1>T DEF InitPool, Shape
  <2>3. TypeOK'
    BY <1>1, <1>T, <1>S, <2>1, <2>2, HireFacts, CapType DEF InitPool, TypeOK, queue
  <2>4. ListIsCrew'
    <3>1. Unused' = Unused \ {s[i] : i \in 1..MinThds}
      BY <2>1, <1>S DEF Unused
    <3>2. Listed' = Listed \cup {s[i] : i \in 1..MinThds}
      BY <2>1, <1>T, <1>S, HireFacts, <1>L
    <3>3. \A i \in 1..MinThds : s[i] \in Unused BY <1>T, <1>S, HireFacts
    <3>4. Listed' = Threads \ Unused' BY <1>T, <3>1, <3>2, <3>3 DEF ListIsCrew, Unused
    <3> QED BY <2>1, <1>T, <1>S, <3>4, HireFacts, SMTT(60) DEF ListIsCrew
  <2>5. BusyCount'
    <3>1. \A i \in 1..MinThds : pc[s[i]] = "none"
      BY <1>T, <1>S, HireFacts DEF Unused
    <3>2. {t \in Threads : pc[t] = "running"}' = {t \in Threads : pc[t] = "running"}
      BY <2>1, <3>1
    <3> QED BY <1>1, <1>T, <3>2 DEF InitPool, BusyCount
  <2>6. Shape'
    <3>1. Listed = {} BY <2>2 DEF Listed
    <3>2. term = {} BY <1>T, <3>1 DEF Shape
    <3>3. \A t \in Threads : pc'[t] = "running" => job'[t] # 0
      BY <1>1, <1>T, <1>S, <2>1 DEF InitPool, Shape
    <3> QED BY <1>1, <1>T, <3>2, <3>3 DEF InitPool, Shape, TypeOK
  <2> QED BY <2>3, <2>4, <2>5, <2>6 DEF IInv
<1>2. CASE AcceptTask
  <2>1. /\ pc' \in [Threads -> {"none", "ready", "asleep", "running"}]
        /\ \A t \in Threads : pc'[t] = pc[t] \/ (pc[t] = "asleep" /\ pc'[t] = "ready")
    BY <1>2, <1>S DEF AcceptTask, NotifyOne, Sleepers
  <2>2. tasks' \in Seq(1..NTasks) /\ accepted' \in 0..NTasks
    <3>1. accepted + 1 \in 1..NTasks
      BY <1>2, <1>S, <1>T, SizesAssumption DEF AcceptTask, TypeOK
    <3> QED BY <1>2, <1>S, <3>1 DEF AcceptTask, Enqueue
  <2>3. TypeOK' BY <1>2, <1>T, <2>1, <2>2 DEF AcceptTask, TypeOK, crew
  <2>4. ListIsCrew' /\ BusyCount' BY <1>2, <1>T, <2>1, SameCrew DEF AcceptTask, crew
  <2>5. Shape' BY <1>2, <1>T, <2>1 DEF AcceptTask, Shape, crew, Listed
  <2> QED BY <2>3, <2>4, <2>5 DEF IInv
<1>3. CASE Destroy
  <2>1. /\ pc' \in [Threads -> {"none", "ready", "asleep", "running"}]
        /\ \A t \in Threads : pc'[t] = pc[t] \/ (pc[t] = "asleep" /\ pc'[t] = "ready")
    BY <1>3, <1>S DEF Destroy, NotifyAllWorkers
  <2>2. Listed \subseteq Threads BY <1>S DEF Listed
  <2>3. TypeOK' BY <1>3, <1>T, <2>1, <2>2 DEF Destroy, TypeOK, queue
  <2>4. ListIsCrew' /\ BusyCount' BY <1>3, <1>T, <2>1, SameCrew DEF Destroy
  <2>5. Shape' BY <1>3, <1>T, <2>1 DEF Destroy, Shape, Listed, queue
  <2> QED BY <2>3, <2>4, <2>5 DEF IInv
<1>4. CASE DtorSpurious \/ DtorSleepsAgain
  <2>1. TypeOK' BY <1>4, <1>T DEF DtorSpurious, DtorSleepsAgain, TypeOK, queue, crew
  <2>2. ListIsCrew' /\ BusyCount'
    BY <1>4, <1>T, SameCrew DEF DtorSpurious, DtorSleepsAgain, crew
  <2>3. Shape' BY <1>4, <1>T DEF DtorSpurious, DtorSleepsAgain, Shape, Listed, queue, crew
  <2> QED BY <2>1, <2>2, <2>3 DEF IInv
<1>5. CASE DtorEnds
  <2>1. dropped' \subseteq 1..NTasks /\ tasks' \in Seq(1..NTasks)
    <3>1. \A i \in 1..Len(tasks) : tasks[i] \in 1..NTasks BY <1>S, ElementOfSeq
    <3>2. dropped' = {tasks[i] : i \in 1..Len(tasks)} /\ tasks' = <<>> BY <1>5 DEF DtorEnds
    <3>3. <<>> \in Seq(1..NTasks) OBVIOUS
    <3> QED BY <3>1, <3>2, <3>3
  <2>2. TypeOK' BY <1>5, <1>T, <2>1 DEF DtorEnds, TypeOK, crew
  <2>3. ListIsCrew' /\ BusyCount' BY <1>5, <1>T, SameCrew DEF DtorEnds, crew
  <2>4. Shape' BY <1>5, <1>T DEF DtorEnds, Shape, Listed, crew
  <2> QED BY <2>2, <2>3, <2>4 DEF IInv
<1>6. ASSUME NEW t \in Threads, Sleep(t) \/ SpuriousWake(t) PROVE IInv'
  <2>1. /\ pc' \in [Threads -> {"none", "ready", "asleep", "running"}]
        /\ \A u \in Threads : pc'[u] = pc[u] \/ {pc'[u], pc[u]} = {"asleep", "ready"}
    BY <1>6, <1>S DEF Sleep, SpuriousWake, Decides
  <2>2. TypeOK' BY <1>6, <1>T, <2>1 DEF Sleep, SpuriousWake, TypeOK, queue, crew
  <2>3. ListIsCrew' /\ BusyCount'
    <3>1. \A u \in Threads : /\ pc'[u] = "none" <=> pc[u] = "none"
                             /\ pc'[u] = "running" <=> pc[u] = "running"
      BY <2>1
    <3> QED BY <1>6, <1>T, <3>1, SameCrew DEF Sleep, SpuriousWake, crew
  <2>4. Shape'
    BY <1>6, <1>T, <1>S, <2>1 DEF Sleep, SpuriousWake, Decides, Shape, Listed, TypeOK, queue, crew
  <2> QED BY <2>2, <2>3, <2>4 DEF IInv
<1>7. ASSUME NEW t \in Threads, TakeTask(t) PROVE IInv'
  <2> DEFINE k == GrowBy(busyNum + 1, Len(tasks) - 1)
  <2>1. Len(tasks) \in Nat /\ tasks # <<>> /\ pc[t] = "ready" /\ Len(tasks) - 1 \in Nat
    BY <1>7, <1>S DEF TakeTask, Decides
  <2>2. k \in Nat /\ Len(thds) + k =< Cap
    <3>1. \A b, n \in Nat : GrowBy(b, n) \in Nat /\ Len(thds) + GrowBy(b, n) =< Cap
      BY <1>T, GrowFacts
    <3>2. busyNum + 1 \in Nat BY <1>S
    <3> QED BY <3>1, <3>2, <2>1
  <2> HIDE DEF k
  <2>3. PICK s \in Hired(k) :
          /\ thds' = thds \o s
          /\ pc' = [u \in Threads |-> IF u = t THEN "running"
                                      ELSE IF \E i \in 1..k : s[i] = u THEN "ready"
                                      ELSE pc[u]]
    BY <1>7 DEF TakeTask, k
  <2>4. \A i \in 1..k : s[i] \in Threads /\ pc[s[i]] = "none" /\ s[i] # t
    BY <1>T, <2>1, <2>2, HireFacts DEF Unused
  <2>5. Running' = Running \cup {t} /\ t \notin Running
    BY <1>S, <2>1, <2>3, <2>4 DEF Running
  <2>6. busyNum' = Cardinality(Running')
    <3>1. busyNum = Cardinality(Running) BY <1>T DEF BusyCount, Running
    <3>2. IsFiniteSet(Running) BY <1>T, CrewSize
    <3>3. Cardinality(Running \cup {t}) = Cardinality(Running) + 1
      BY <3>2, <2>5, FS_AddElement
    <3> QED BY <1>7, <3>1, <3>3, <2>5 DEF TakeTask
  <2>7. busyNum' \in 0..Cap
    <3>1. Running' \in SUBSET Listed
      BY <1>T, <2>1, <2>5 DEF ListIsCrew, Unused, Running
    <3>2. IsFiniteSet(Listed) /\ Cardinality(Listed) = Len(thds) BY <1>T, CrewSize
    <3>3. Cardinality(Running') =< Len(thds) BY <3>1, <3>2, FS_Subset
    <3>4. Len(thds) =< Cap BY <1>T DEF TypeOK
    <3> QED BY <1>7, <1>S, <2>6, <3>3, <3>4 DEF TakeTask
  <2>8. TypeOK'
    <3>1. Head(tasks) \in 1..NTasks /\ Tail(tasks) \in Seq(1..NTasks)
      BY <1>S, <2>1, HeadTailProperties
    <3>2. thds' \in Seq(Threads) /\ Len(thds') =< Cap
      BY <1>T, <2>2, <2>3, HireFacts
    <3>3. pc' \in [Threads -> {"none", "ready", "asleep", "running"}]
      BY <1>S, <2>3
    <3> QED BY <1>7, <1>T, <2>7, <3>1, <3>2, <3>3, SMTT(60) DEF TakeTask, TypeOK
  <2>9. ListIsCrew'
    <3>1. Unused' = Unused \ {s[i] : i \in 1..k}
      BY <1>S, <2>1, <2>3, <2>4 DEF Unused
    <3>2. Listed' = Listed \cup {s[i] : i \in 1..k}
      BY <2>2, <2>3, <1>T, HireFacts, <1>L
    <3>3. \A i \in 1..k : s[i] \in Unused BY <1>T, <2>2, HireFacts
    <3>4. Listed' = Threads \ Unused' BY <1>T, <3>1, <3>2, <3>3 DEF ListIsCrew, Unused
    <3> QED BY <2>2, <2>3, <1>T, <3>4, HireFacts DEF ListIsCrew
  <2>10. BusyCount' BY <2>6 DEF BusyCount, Running
  <2>11. Shape'
    <3>1. Listed \subseteq Listed' BY <2>2, <2>3, <1>T, HireFacts, <1>L
    <3>2. phase # "new" BY <1>T, <2>1 DEF Shape
    <3>3. \A u \in Threads : pc'[u] = "running" => job'[u] # 0
      <4>1. job' = [job EXCEPT ![t] = Head(tasks)] BY <1>7 DEF TakeTask
      <4>2. Head(tasks) \in 1..NTasks BY <1>S, <2>1, HeadTailProperties
      <4>3. \A u \in Threads : pc'[u] = "running" => u = t \/ pc[u] = "running"
        BY <2>5 DEF Running
      <4> QED BY <1>T, <4>1, <4>2, <4>3 DEF Shape, TypeOK
    <3> QED BY <1>7, <1>T, <3>1, <3>2, <3>3 DEF TakeTask, Shape
  <2> QED BY <2>8, <2>9, <2>10, <2>11 DEF IInv
<1>8. ASSUME NEW t \in Threads, Exit(t) PROVE IInv'
  <2>1. t \in Listed /\ pc[t] = "ready" BY <1>8, <1>T DEF Exit, Decides, Shape
  <2>2. thds' = Without(t) /\ pc' = [pc EXCEPT ![t] = "none"] BY <1>8 DEF Exit
  <2>3. TypeOK'
    <3>1. thds' \in Seq(Threads) /\ Len(thds') =< Cap
      BY <1>T, <1>S, <2>1, <2>2, WithoutFacts DEF TypeOK
    <3>2. dtor' \in {"none", "asleep", "awake"} BY <1>8, <1>T DEF Exit, TellDtor, TypeOK
    <3> QED BY <1>8, <1>T, <3>1, <3>2 DEF Exit, TypeOK, queue
  <2>4. Listed' = Listed \ {t} BY <2>1, <2>2, <1>T, WithoutFacts, <1>L
  <2>5. Unused' = Unused \cup {t} BY <1>S, <2>2 DEF Unused
  <2>6. ListIsCrew' BY <1>T, <2>1, <2>2, <2>4, <2>5, WithoutFacts DEF ListIsCrew
  <2>7. BusyCount'
    <3>1. {u \in Threads : pc[u] = "running"}' = {u \in Threads : pc[u] = "running"}
      BY <1>S, <2>1, <2>2
    <3> QED BY <1>8, <1>T, <3>1 DEF Exit, BusyCount
  <2>8. Shape'
    <3>1. phase # "new" BY <1>T, <1>S, <2>1 DEF Shape, Listed
    <3> QED BY <1>8, <1>T, <1>S, <2>4, <3>1 DEF Exit, Shape, queue
  <2> QED BY <2>3, <2>6, <2>7, <2>8 DEF IInv
<1>9. ASSUME NEW t \in Threads, FinishTask(t) PROVE IInv'
  <2>1. pc[t] = "running" /\ pc' = [pc EXCEPT ![t] = "ready"] /\ mutex' = t /\ thds' = thds
    BY <1>9 DEF FinishTask
  <2>2. Running' = Running \ {t} /\ t \in Running BY <1>S, <2>1 DEF Running
  <2>3. busyNum' = Cardinality(Running') /\ busyNum' \in Nat /\ busyNum' = busyNum - 1
    <3>1. busyNum = Cardinality(Running) BY <1>T DEF BusyCount, Running
    <3>2. IsFiniteSet(Running) BY <1>T, CrewSize
    <3>3. IsFiniteSet(Running \ {t}) /\ Cardinality(Running \ {t}) = Cardinality(Running) - 1
      BY <3>2, <2>2, FS_RemoveElement
    <3>4. Cardinality(Running \ {t}) \in Nat BY <3>3, FS_CardinalityType
    <3> QED BY <1>9, <3>1, <3>3, <3>4, <2>2 DEF FinishTask, OneLessBusy
  <2>4. term' \subseteq Listed
    <3>1. ShrinkBy(OneLessBusy) \in Nat /\ ShrinkBy(OneLessBusy) =< Len(thds)
      BY <1>T, <1>9, <2>3, ShrinkFacts DEF FinishTask
    <3> QED BY <1>9, <1>T, <1>S, <3>1 DEF FinishTask, Shape, Listed
  <2>5. TypeOK'
    <3>1. busyNum' \in 0..Cap BY <1>T, <1>S, <2>3 DEF TypeOK
    <3>2. done' \subseteq 1..NTasks
      <4>1. job[t] \in 1..NTasks BY <1>T, <2>1, SizesAssumption DEF TypeOK, Shape
      <4> QED BY <1>9, <1>T, <4>1 DEF FinishTask, TypeOK
    <3>3. job' \in [Threads -> 0..NTasks] BY <1>9, <1>T, SizesAssumption DEF FinishTask, TypeOK
    <3>4. Listed \subseteq Threads BY <1>S DEF Listed
    <3>5. pc' \in [Threads -> {"none", "ready", "asleep", "running"}] BY <1>S, <2>1
    <3>6. wait' \in [Clients -> {"no", "asleep", "returned"}]
      BY <1>9, <1>T DEF FinishTask, TellClients, TypeOK
    <3> QED BY <1>9, <1>T, <2>4, <3>1, <3>2, <3>3, <3>4, <3>5, <3>6
         DEF FinishTask, TypeOK, queue
  <2>6. ListIsCrew'
    <3>1. Unused' = Unused /\ Listed' = Listed BY <1>S, <2>1 DEF Unused, Listed
    <3> QED BY <1>T, <2>1, <3>1 DEF ListIsCrew
  <2>7. BusyCount' BY <2>3 DEF BusyCount, Running
  <2>8. Shape'
    <3>1. Listed' = Listed /\ pc'[t] = "ready" BY <1>S, <2>1 DEF Listed
    <3>2. phase' = phase /\ tasks' = tasks BY <1>9 DEF FinishTask, queue
    <3>3. \A u \in Threads : pc'[u] = "running" => job'[u] # 0
      BY <1>9, <1>T, <1>S, <2>1 DEF FinishTask, Shape, TypeOK
    <3> QED BY <1>T, <2>1, <2>4, <3>1, <3>2, <3>3 DEF Shape
  <2> QED BY <2>5, <2>6, <2>7, <2>8 DEF IInv
<1>10. ASSUME NEW c \in Clients, WaitAll(c) \/ SpuriousReturn(c) PROVE IInv'
  <2>1. wait' \in [Clients -> {"no", "asleep", "returned"}]
    BY <1>10, <1>T DEF WaitAll, SpuriousReturn, TypeOK
  <2>2. TypeOK' BY <1>10, <1>T, <2>1 DEF WaitAll, SpuriousReturn, TypeOK, queue, crew
  <2>3. ListIsCrew' /\ BusyCount'
    BY <1>10, <1>T, SameCrew DEF WaitAll, SpuriousReturn, crew
  <2>4. Shape' BY <1>10, <1>T DEF WaitAll, SpuriousReturn, Shape, Listed, queue, crew
  <2> QED BY <2>2, <2>3, <2>4 DEF IInv
<1>11. CASE UNCHANGED vars
  <2>1. ListIsCrew' /\ BusyCount' BY <1>11, <1>T, SameCrew DEF vars, crew
  <2> QED BY <1>11, <1>T, <2>1 DEF vars, queue, crew, IInv, TypeOK, Shape, Listed
<1> QED
  BY <1>1, <1>2, <1>3, <1>4, <1>5, <1>6, <1>7, <1>8, <1>9, <1>10, <1>11
     DEF Next, Decide, Dtor, Finished

\* The invariant that the theorems below rest on.
LEMMA InvariantHolds == Spec => []IInv
<1>1. Init => IInv BY InitIInv
<1>2. IInv /\ [Next]_vars => IInv' BY IInvStep
<1> QED BY <1>1, <1>2, PTL DEF Spec

\* Every variable keeps its type; the crew and the busy count stay within Cap.
THEOREM TypeCorrect == Spec => []TypeOK
<1>1. IInv => TypeOK BY DEF IInv
<1> QED BY <1>1, InvariantHolds, PTL

\* m_busy_thd_num is the number of workers that run a task (ThreadPool.cpp:149, 161).
THEOREM BusyIsRunning == Spec => []BusyCount
<1>1. IInv => BusyCount BY DEF IInv
<1> QED BY <1>1, InvariantHolds, PTL

\* m_thd_list is the list of the live workers (ThreadPool.cpp:40, 136).
THEOREM ListIsAlive == Spec => []ListIsCrew
<1>1. IInv => ListIsCrew BY DEF IInv
<1> QED BY <1>1, InvariantHolds, PTL

-----------------------------------------------------------------------------
(* The crew is kept                                                        *)

Prefix(q, n) == {q[i] : i \in 1..n}

\* A flagged worker that leaves makes the flagged prefix one shorter.
LEMMA PrefixWithout ==
  ASSUME TypeOK, ListIsCrew, NEW n \in 0..Len(thds), NEW t \in Prefix(thds, n)
  PROVE  /\ t \in Listed /\ n - 1 \in 0..Len(thds) - 1
         /\ Prefix(Without(t), n - 1) = Prefix(thds, n) \ {t}
<1> DEFINE p == Place(t)
           w == Without(t)
<1>1. Len(thds) \in Nat BY DEF TypeOK
<1>2. PICK j \in 1..n : thds[j] = t BY DEF Prefix
<1>3. t \in Listed BY <1>1, <1>2 DEF Listed
<1>4. p \in 1..n /\ thds[p] = t
  <2>1. p \in 1..Len(thds) /\ thds[p] = t BY <1>3, PlaceFacts
  <2> QED BY <2>1, <1>1, <1>2 DEF ListIsCrew
<1>5. \A i \in 1..n - 1 : w[i] = thds[IF i < p THEN i ELSE i + 1] BY <1>1 DEF Without
<1>6. \A i, j2 \in 1..n : thds[i] = thds[j2] => i = j2 BY <1>1 DEF ListIsCrew
<1>7. ASSUME NEW i \in 1..n - 1 PROVE w[i] \in Prefix(thds, n) \ {t}
  <2>1. (IF i < p THEN i ELSE i + 1) \in 1..n \ {p} BY <1>1, <1>4
  <2> QED BY <2>1, <1>4, <1>5, <1>6 DEF Prefix
<1>8. ASSUME NEW u \in Prefix(thds, n) \ {t} PROVE \E i \in 1..n - 1 : w[i] = u
  <2>1. PICK i \in 1..n : thds[i] = u BY DEF Prefix
  <2>2. i # p BY <2>1, <1>4
  <2>3. CASE i < p
    <3>1. i \in 1..n - 1 BY <2>3, <1>4
    <3> QED BY <3>1, <2>1, <2>3, <1>5
  <2>4. CASE i > p
    <3>1. i - 1 \in 1..n - 1 /\ ~(i - 1 < p) /\ (i - 1) + 1 = i BY <2>4, <1>4
    <3> QED BY <3>1, <2>1, <1>5
  <2> QED BY <2>2, <2>3, <2>4, <1>4
<1>9. Prefix(w, n - 1) = Prefix(thds, n) \ {t} BY <1>7, <1>8 DEF Prefix
<1> QED BY <1>1, <1>3, <1>4, <1>9

\* CrewKept in terms of Prefix.
Kept(n) == term = Prefix(thds, n) /\ Len(thds) - n >= MinThds

\* CrewKept says that some prefix of the list is what is flagged.
LEMMA CrewKeptIsKept == CrewKept <=> (phase = "running" => \E n \in 0..Len(thds) : Kept(n))
BY DEF CrewKept, Kept, Prefix

\* Hiring appends, a leaving worker is in the prefix, and shrinking flags a prefix.
LEMMA CrewKeptStep ==
  IInv /\ CrewKept /\ [Next]_vars => CrewKept'
<1> SUFFICES ASSUME IInv, CrewKept, [Next]_vars, phase' = "running"
             PROVE  \E n \in 0..Len(thds') : Kept(n)'
  BY DEF CrewKept, Kept, Prefix
<1>T. TypeOK /\ ListIsCrew /\ Shape /\ Len(thds) \in Nat /\ MinThds \in Nat
  BY SizesAssumption DEF IInv, TypeOK
<1>1. CASE phase = "running"
  <2>1. PICK n \in 0..Len(thds) : Kept(n) BY <1>1, CrewKeptIsKept
  <2>2. CASE thds' = thds /\ term' = term
    <3>1. Kept(n)' BY <2>1, <2>2 DEF Kept, Prefix
    <3> QED BY <2>1, <2>2, <3>1
  <2>3. ASSUME NEW t \in Threads, TakeTask(t) PROVE \E m \in 0..Len(thds') : Kept(m)'
    <3> DEFINE k == GrowBy(busyNum + 1, Len(tasks) - 1)
    <3>1. k \in Nat
      <4>1. \A b, i \in Nat : GrowBy(b, i) \in Nat BY <1>T, GrowFacts
      <4>2. tasks \in Seq(1..NTasks) /\ tasks # <<>> /\ busyNum \in Nat
        BY <2>3, <1>T, CapType DEF TakeTask, TypeOK
      <4>3. busyNum + 1 \in Nat /\ Len(tasks) - 1 \in Nat BY <4>2
      <4> QED BY <4>1, <4>3
    <3> HIDE DEF k
    <3>2. PICK s \in Hired(k) : thds' = thds \o s BY <2>3 DEF TakeTask, k
    <3>3. Len(thds') = Len(thds) + k /\ \A i \in 1..Len(thds) : thds'[i] = thds[i]
      BY <1>T, <3>1, <3>2, HireFacts
    <3>4. Prefix(thds', n) = Prefix(thds, n) BY <2>1, <3>3, <1>T DEF Prefix
    <3>5. term' = term BY <2>3 DEF TakeTask
    <3>6. term' = Prefix(thds', n) /\ Len(thds') - n >= MinThds /\ n \in 0..Len(thds')
      BY <2>1, <3>1, <3>3, <3>4, <3>5, <1>T DEF Kept
    <3> QED BY <3>6 DEF Kept, Prefix
  <2>4. ASSUME NEW t \in Threads, Exit(t) PROVE \E m \in 0..Len(thds') : Kept(m)'
    <3>1. t \in term /\ term' = term \ {t} /\ thds' = Without(t) BY <2>4 DEF Exit
    <3>2. t \in Prefix(thds, n) BY <2>1, <3>1 DEF Kept
    <3>3. /\ t \in Listed /\ n - 1 \in 0..Len(thds) - 1
          /\ Prefix(Without(t), n - 1) = Prefix(thds, n) \ {t}
      BY <1>T, <3>2, PrefixWithout
    <3>4. Len(thds') = Len(thds) - 1 BY <1>T, <3>1, <3>3, WithoutFacts
    <3>5. /\ term' = Prefix(thds', n - 1) /\ Len(thds') - (n - 1) >= MinThds
          /\ n - 1 \in 0..Len(thds')
      BY <2>1, <3>1, <3>3, <3>4, <1>T DEF Kept
    <3> QED BY <3>5 DEF Kept, Prefix
  <2>5. ASSUME NEW t \in Threads, FinishTask(t) PROVE \E m \in 0..Len(thds') : Kept(m)'
    <3> DEFINE k == ShrinkBy(OneLessBusy)
               m == IF k > n THEN k ELSE n
    <3>1. thds' = thds /\ term' = term \cup Prefix(thds, k) BY <2>5 DEF FinishTask, Prefix
    <3>2. OneLessBusy \in Nat
      <4>1. IInv' BY IInvStep
      <4>2. busyNum' \in 0..Cap BY <4>1 DEF IInv, TypeOK
      <4> QED BY <2>5, <4>2, CapType DEF FinishTask
    <3>3. k \in Nat /\ k =< Len(thds) /\ (k # 0 => Len(thds) - k >= MinThds)
      BY <1>T, <3>2, ShrinkFacts
    <3> HIDE DEF k
    <3>4. m \in 0..Len(thds) /\ Len(thds) - m >= MinThds BY <2>1, <3>3, <1>T DEF Kept
    <3>5. Prefix(thds, n) \cup Prefix(thds, k) = Prefix(thds, m) BY <3>3 DEF Prefix
    <3>6. term' = Prefix(thds', m) /\ Len(thds') - m >= MinThds /\ m \in 0..Len(thds')
      BY <2>1, <3>1, <3>4, <3>5 DEF Kept
    <3> HIDE DEF m
    <3> QED BY <3>6 DEF Kept, Prefix
  <2>6. \/ thds' = thds /\ term' = term
        \/ \E t \in Threads : TakeTask(t) \/ Exit(t) \/ FinishTask(t)
    <3>1. InitPool => FALSE BY <1>1 DEF InitPool
    <3>2. AcceptTask \/ DtorSpurious \/ Dtor \/ Finished => thds' = thds /\ term' = term
      BY DEF AcceptTask, DtorSpurious, Dtor, DtorSleepsAgain, DtorEnds, Finished, vars, crew
    <3>3. Destroy => FALSE BY DEF Destroy
    <3>4. \A t \in Threads : Sleep(t) \/ SpuriousWake(t) => thds' = thds /\ term' = term
      BY DEF Sleep, SpuriousWake, crew
    <3>5. \A c \in Clients : WaitAll(c) \/ SpuriousReturn(c) => thds' = thds /\ term' = term
      BY DEF WaitAll, SpuriousReturn, crew
    <3>6. UNCHANGED vars => thds' = thds /\ term' = term BY DEF vars, crew
    <3> QED BY <3>1, <3>2, <3>3, <3>4, <3>5, <3>6 DEF Next, Decide
  <2> QED BY <2>2, <2>3, <2>4, <2>5, <2>6
<1>2. CASE phase # "running"
  <2>1. InitPool
    BY <1>2 DEF Next, Decide, Dtor, Finished, vars, AcceptTask, Destroy, DtorSpurious,
       DtorSleepsAgain, DtorEnds, Sleep, TakeTask, Exit, FinishTask, SpuriousWake, WaitAll,
       SpuriousReturn
  <2>2. PICK s \in Hired(MinThds) : thds' = thds \o s BY <2>1 DEF InitPool
  <2>3. thds = <<>> /\ Len(thds) = 0 /\ term' = term BY <2>1, <1>T DEF InitPool, Shape
  <2>4. Len(thds') = MinThds BY <1>T, <2>2, <2>3, HireFacts
  <2>5. term' = {} BY <2>3, <1>T DEF Shape, Listed
  <2>6. Prefix(thds', 0) = {} BY DEF Prefix
  <2>7. 0 \in 0..Len(thds') /\ term' = Prefix(thds', 0) /\ Len(thds') - 0 >= MinThds
    BY <2>4, <2>5, <2>6, <1>T
  <2> QED BY <2>7 DEF Kept, Prefix
<1> QED BY <1>1, <1>2

\* While the pool runs, MinThds workers are not flagged: repeated shrinking and
\* growing never takes the crew below its minimum (ThreadPool.cpp:67-75).
THEOREM MinimumIsKept == Spec => []CrewKept
<1>1. Init => CrewKept BY DEF Init, CrewKept
<1> QED BY <1>1, InvariantHolds, CrewKeptStep, PTL DEF Spec

-----------------------------------------------------------------------------
(* The end of the pool                                                     *)

\* From the destructor's entry on no client waits and none begins to; only the
\* destructor sets dtor.
Closed ==
  /\ phase \in {"closing", "destroyed"} => \A c \in Clients : wait[c] # "asleep"
  /\ dtor # "none" => phase = "closing"
  /\ NobodyLeft

\* An empty list means that no worker is alive.
LEMMA EmptyListNoCrew ==
  ASSUME ListIsCrew, thds = <<>>
  PROVE  Unused = Threads
<1>1. Listed = {} BY DEF Listed
<1> QED BY <1>1 DEF ListIsCrew, Unused

\* The destructor returns only when the list is empty, and nothing starts after it.
LEMMA ClosedStep == IInv /\ Closed /\ [Next]_vars => Closed'
<1> SUFFICES ASSUME IInv, Closed, [Next]_vars PROVE Closed' OBVIOUS
<1>T. TypeOK /\ ListIsCrew BY DEF IInv
<1>1. CASE InitPool \/ AcceptTask
  BY <1>1 DEF InitPool, AcceptTask, Closed, NobodyLeft
<1>2. CASE Destroy BY <1>2 DEF Destroy, Closed, NobodyLeft
<1>3. CASE DtorSpurious \/ DtorSleepsAgain
  BY <1>3 DEF DtorSpurious, DtorSleepsAgain, Closed, NobodyLeft, Unused
<1>4. CASE DtorEnds
  <2>1. phase = "closing" BY <1>4 DEF DtorEnds, Closed
  <2>2. Unused = Threads BY <1>4, <1>T, EmptyListNoCrew DEF DtorEnds, CrewGone
  <2> QED BY <1>4, <2>1, <2>2 DEF DtorEnds, Closed, NobodyLeft, Unused
<1>5. ASSUME NEW t \in Threads, Decide(t) \/ FinishTask(t) \/ SpuriousWake(t) PROVE Closed'
  <2>1. pc[t] # "none" BY <1>5 DEF Decide, Sleep, TakeTask, Exit, Decides, FinishTask, SpuriousWake
  <2>2. phase # "destroyed" BY <2>1 DEF Closed, NobodyLeft, Unused
  <2>3. phase' = phase /\ (dtor' # "none" => dtor # "none")
    BY <1>5 DEF Decide, Sleep, TakeTask, Exit, TellDtor, FinishTask, SpuriousWake
  <2>4. wait' = wait \/ wait' = TellClients
    BY <1>5 DEF Decide, Sleep, TakeTask, Exit, FinishTask, SpuriousWake
  <2>5. \A c \in Clients : wait'[c] = "asleep" => wait[c] = "asleep"
    BY <2>4 DEF TellClients
  <2> QED BY <2>2, <2>3, <2>5 DEF Closed, NobodyLeft
<1>6. ASSUME NEW c \in Clients, WaitAll(c) \/ SpuriousReturn(c) PROVE Closed'
  <2>1. CASE WaitAll(c) BY <2>1 DEF WaitAll, Closed, NobodyLeft
  <2>2. CASE SpuriousReturn(c)
    <3>1. \A d \in Clients : wait'[d] = "asleep" => wait[d] = "asleep"
      BY <2>2, <1>T DEF SpuriousReturn, TypeOK
    <3> QED BY <2>2, <3>1 DEF SpuriousReturn, Closed, NobodyLeft, Unused
  <2> QED BY <1>6, <2>1, <2>2
<1>7. CASE UNCHANGED vars BY <1>7 DEF vars, Closed, NobodyLeft, Unused
<1> QED BY <1>1, <1>2, <1>3, <1>4, <1>5, <1>6, <1>7 DEF Next, Dtor, Finished

\* When the destructor has returned no worker is alive, nobody has the mutex and no
\* client waits (ThreadPool.cpp:24).
THEOREM NobodyIsLeft == Spec => []NobodyLeft
<1>1. Init => Closed BY DEF Init, Closed, NobodyLeft
<1>2. Closed => NobodyLeft BY DEF Closed
<1> QED BY <1>1, <1>2, InvariantHolds, ClosedStep, PTL DEF Spec

-----------------------------------------------------------------------------
(* The tasks                                                               *)

Taken == accepted - Len(tasks)
Jobs == {job[t] : t \in Running}

\* OnceInOrder in these terms, and what it takes to be inductive.
Once ==
  /\ phase # "destroyed" => /\ \A i \in 1..Len(tasks) : tasks[i] = Taken + i
                            /\ done \cup Jobs = 1..Taken
  /\ phase = "destroyed" => done \cup dropped = 1..accepted
  /\ done \cap Jobs = {} /\ (done \cup Jobs) \cap dropped = {}
  /\ \A t, u \in Running : t # u => job[t] # job[u]
  /\ Taken \in Nat
  /\ phase # "destroyed" => dropped = {}

\* Once implies the property of the runs.
LEMMA OnceIsOnce == Once => OnceInOrder
BY DEF Once, OnceInOrder, Taken, Jobs, Running

\* A step that touches no task.
LEMMA SameTasks ==
  ASSUME Once, tasks' = tasks, accepted' = accepted, done' = done, dropped' = dropped,
         job' = job, Running' = Running, phase' = "destroyed" <=> phase = "destroyed"
  PROVE  Once'
<1>1. Taken' = Taken /\ Jobs' = Jobs BY DEF Taken, Jobs
<1> QED BY <1>1 DEF Once

\* A task moves from the end of the list to its front, to one worker and to done.
LEMMA OnceStep == IInv /\ Closed /\ Once /\ [Next]_vars => Once'
<1> SUFFICES ASSUME IInv, Closed, Once, [Next]_vars PROVE Once' OBVIOUS
<1>T. TypeOK /\ ListIsCrew /\ Shape BY DEF IInv
<1>S. /\ tasks \in Seq(1..NTasks) /\ Len(tasks) \in Nat /\ accepted \in Nat
      /\ pc \in [Threads -> {"none", "ready", "asleep", "running"}]
      /\ job \in [Threads -> 0..NTasks]
  BY <1>T, SizesAssumption DEF TypeOK
<1>1. CASE InitPool
  <2>1. PICK s \in Hired(MinThds) :
          pc' = [t \in Threads |-> IF \E i \in 1..MinThds : s[i] = t
                                   THEN "ready" ELSE pc[t]]
    BY <1>1 DEF InitPool
  <2>2. \A i \in 1..MinThds : pc[s[i]] = "none"
    BY <1>T, SizesAssumption, HireFacts DEF Unused
  <2>3. Running' = Running BY <2>1, <2>2 DEF Running
  <2> QED BY <1>1, <2>3, SameTasks DEF InitPool, queue
<1>2. CASE AcceptTask
  <2>1. tasks' = Append(tasks, accepted + 1) /\ accepted' = accepted + 1
    BY <1>2 DEF AcceptTask, Enqueue
  <2>2. /\ Len(tasks') = Len(tasks) + 1
        /\ \A i \in 1..Len(tasks) : tasks'[i] = tasks[i]
        /\ tasks'[Len(tasks) + 1] = accepted + 1
    BY <2>1, <1>S
  <2>3. Taken' = Taken BY <2>1, <2>2, <1>S DEF Taken
  <2>4. Running' = Running
    BY <1>2, <1>S DEF AcceptTask, NotifyOne, Sleepers, Running
  <2>5. Jobs' = Jobs BY <1>2, <2>4 DEF AcceptTask, Jobs
  <2>6. phase # "destroyed" /\ phase' = phase BY <1>2 DEF AcceptTask
  <2>7. \A i \in 1..Len(tasks') : tasks'[i] = Taken' + i
    <3> TAKE i \in 1..Len(tasks')
    <3>1. CASE i \in 1..Len(tasks) BY <3>1, <2>2, <2>3, <2>6 DEF Once
    <3>2. CASE i = Len(tasks) + 1 BY <3>2, <2>2, <2>3, <1>S DEF Taken
    <3> QED BY <3>1, <3>2, <2>2, <1>S
  <2>8. done' = done /\ dropped' = dropped /\ job' = job BY <1>2 DEF AcceptTask
  <2> QED BY <2>3, <2>4, <2>5, <2>6, <2>7, <2>8 DEF Once
<1>3. CASE Destroy
  <2>1. Running' = Running BY <1>3, <1>S DEF Destroy, NotifyAllWorkers, Running
  <2> QED BY <1>3, <2>1, SameTasks DEF Destroy, queue
<1>4. CASE DtorSpurious \/ DtorSleepsAgain
  <2>1. Running' = Running BY <1>4 DEF DtorSpurious, DtorSleepsAgain, Running
  <2> QED BY <1>4, <2>1, SameTasks DEF DtorSpurious, DtorSleepsAgain, queue
<1>5. CASE DtorEnds
  <2>1. phase = "closing" BY <1>5 DEF DtorEnds, Closed
  <2>2. Unused = Threads BY <1>5, <1>T, EmptyListNoCrew DEF DtorEnds, CrewGone
  <2>3. Running = {} /\ Running' = {} BY <1>5, <2>2 DEF DtorEnds, Running, Unused
  <2>4. Jobs = {} /\ Jobs' = {} BY <2>3 DEF Jobs
  <2>5. done = 1..Taken /\ \A i \in 1..Len(tasks) : tasks[i] = Taken + i
    BY <2>1, <2>4 DEF Once
  <2>6. Taken \in Nat /\ accepted = Taken + Len(tasks) BY <1>S DEF Once, Taken
  <2>7. dropped' = {tasks[i] : i \in 1..Len(tasks)} /\ tasks' = <<>> /\ phase' = "destroyed"
    BY <1>5 DEF DtorEnds
  <2>8. dropped' = (Taken + 1)..accepted
    <3>1. \A i \in 1..Len(tasks) : tasks[i] \in (Taken + 1)..accepted BY <2>5, <2>6, <1>S
    <3>2. \A j \in (Taken + 1)..accepted : j - Taken \in 1..Len(tasks) /\ tasks[j - Taken] = j
      BY <2>5, <2>6, <1>S, SMTT(60)
    <3> QED BY <2>7, <3>1, <3>2
  <2>9. done' = done /\ accepted' = accepted BY <1>5 DEF DtorEnds
  <2>10. Taken' \in Nat BY <2>7, <2>9, <1>S DEF Taken
  <2>11. done' \cup dropped' = 1..accepted' /\ done' \cap dropped' = {}
    BY <2>5, <2>6, <2>8, <2>9, <1>S
  <2> QED BY <2>3, <2>4, <2>7, <2>10, <2>11 DEF Once
<1>6. ASSUME NEW t \in Threads, Sleep(t) \/ SpuriousWake(t) \/ Exit(t) PROVE Once'
  <2>1. Running' = Running
    BY <1>6, <1>S DEF Sleep, SpuriousWake, Exit, Decides, Running
  <2> QED BY <1>6, <2>1, SameTasks DEF Sleep, SpuriousWake, Exit, queue
<1>7. ASSUME NEW t \in Threads, TakeTask(t) PROVE Once'
  <2>1. tasks # <<>> /\ pc[t] = "ready" /\ tasks' = Tail(tasks) /\ accepted' = accepted
    BY <1>7 DEF TakeTask, Decides
  <2>2. phase # "destroyed" /\ phase' = phase
    BY <1>7, <2>1 DEF TakeTask, Closed, NobodyLeft, Unused
  <2>3. /\ Len(tasks') = Len(tasks) - 1 /\ Len(tasks) > 0 /\ Head(tasks) = tasks[1]
        /\ \A i \in 1..Len(tasks) - 1 : tasks'[i] = tasks[i + 1]
    BY <1>S, <2>1, HeadTailProperties
  <2>4. Head(tasks) = Taken + 1 BY <1>S, <2>2, <2>3 DEF Once
  <2>5. Taken' = Taken + 1 /\ Taken \in Nat BY <1>S, <2>1, <2>3 DEF Taken, Once
  <2>6. Running' = Running \cup {t} /\ t \notin Running
    <3> DEFINE k == GrowBy(busyNum + 1, Len(tasks) - 1)
    <3>1. k \in Nat
      <4>1. \A b, i \in Nat : GrowBy(b, i) \in Nat BY <1>T, GrowFacts
      <4>2. busyNum + 1 \in Nat /\ Len(tasks) - 1 \in Nat
        BY <1>S, <1>T, <2>3, CapType DEF TypeOK
      <4> QED BY <4>1, <4>2
    <3> HIDE DEF k
    <3>2. PICK s \in Hired(k) :
            pc' = [u \in Threads |-> IF u = t THEN "running"
                                     ELSE IF \E i \in 1..k : s[i] = u THEN "ready"
                                     ELSE pc[u]]
      BY <1>7 DEF TakeTask, k
    <3>3. \A i \in 1..k : pc[s[i]] = "none" BY <1>T, <3>1, HireFacts DEF Unused
    <3> QED BY <1>S, <2>1, <3>2, <3>3 DEF Running
  <2>7. job' = [job EXCEPT ![t] = Taken + 1] BY <1>7, <2>4 DEF TakeTask
  <2>8. Running \subseteq Threads BY DEF Running
  <2>9. Jobs' = Jobs \cup {Taken + 1}
    BY <1>S, <2>6, <2>7, <2>8 DEF Jobs
  <2>10. \A u \in Running : job'[u] = job[u] /\ job[u] \in 1..Taken /\ job'[t] = Taken + 1
    BY <1>S, <2>2, <2>6, <2>7, <2>8 DEF Once, Jobs
  <2>11. done' = done /\ dropped' = dropped /\ dropped = {} BY <1>7, <2>2 DEF TakeTask, Once
  <2>12. done \subseteq 1..Taken /\ Taken + 1 \notin 1..Taken BY <2>2, <2>5 DEF Once
  <2>13. \A i \in 1..Len(tasks') : tasks'[i] = Taken' + i
    BY <1>S, <2>2, <2>3, <2>5 DEF Once
  <2>14. done' \cup Jobs' = 1..Taken'
    <3>1. done \cup Jobs = 1..Taken BY <2>2 DEF Once
    <3>2. 1..Taken + 1 = 1..Taken \cup {Taken + 1} BY <2>5
    <3> QED BY <2>5, <2>9, <2>11, <3>1, <3>2
  <2>15. done' \cap Jobs' = {} BY <2>9, <2>11, <2>12 DEF Once
  <2>16. \A u, v \in Running' : u # v => job'[u] # job'[v]
    BY <2>5, <2>6, <2>10 DEF Once
  <2> QED BY <2>2, <2>5, <2>11, <2>13, <2>14, <2>15, <2>16 DEF Once
<1>8. ASSUME NEW t \in Threads, FinishTask(t) PROVE Once'
  <2>1. /\ pc[t] = "running" /\ pc' = [pc EXCEPT ![t] = "ready"]
        /\ done' = done \cup {job[t]} /\ job' = [job EXCEPT ![t] = 0]
        /\ tasks' = tasks /\ accepted' = accepted /\ phase' = phase /\ dropped' = dropped
    BY <1>8 DEF FinishTask, queue
  <2>2. Running' = Running \ {t} /\ t \in Running /\ Running \subseteq Threads
    BY <1>S, <2>1 DEF Running
  <2>3. \A u \in Running' : job'[u] = job[u] BY <1>S, <2>1, <2>2
  <2>4. Jobs' = Jobs \ {job[t]} /\ job[t] \in Jobs
    BY <2>2, <2>3 DEF Jobs, Once
  <2>5. Taken' = Taken BY <2>1 DEF Taken
  <2>6. done' \cup Jobs' = done \cup Jobs /\ done' \cap Jobs' = {}
    BY <2>1, <2>4 DEF Once
  <2>7. phase # "destroyed" BY <2>1 DEF Closed, NobodyLeft, Unused
  <2> QED BY <2>1, <2>2, <2>3, <2>5, <2>6, <2>7 DEF Once
<1>9. ASSUME NEW c \in Clients, WaitAll(c) \/ SpuriousReturn(c) PROVE Once'
  <2>1. Running' = Running BY <1>9 DEF WaitAll, SpuriousReturn, Running
  <2> QED BY <1>9, <2>1, SameTasks DEF WaitAll, SpuriousReturn, queue
<1>10. CASE UNCHANGED vars
  <2>1. Running' = Running BY <1>10 DEF vars, Running
  <2> QED BY <1>10, <2>1, SameTasks DEF vars, queue
<1> QED BY <1>1, <1>2, <1>3, <1>4, <1>5, <1>6, <1>7, <1>8, <1>9, <1>10
        DEF Next, Decide, Dtor, Finished

\* Every accepted task is in one place, and tasks are taken in the order in which they
\* were handed in; none is run twice, none is lost (ThreadPool.cpp:107, 147).
THEOREM EachTaskOnce == Spec => []OnceInOrder
<1>1. Init => Closed /\ Once
  <2> SUFFICES ASSUME Init PROVE Closed /\ Once OBVIOUS
  <2>1. Running = {} /\ Len(tasks) = 0 BY DEF Init, Running
  <2>2. accepted = 0 BY DEF Init
  <2>3. Jobs = {} /\ Taken = 0 BY <2>1, <2>2 DEF Jobs, Taken
  <2> QED BY <2>1, <2>3 DEF Init, Closed, NobodyLeft, Once
<1>2. Once => OnceInOrder BY OnceIsOnce
<1> QED BY <1>1, <1>2, InvariantHolds, ClosedStep, OnceStep, PTL DEF Spec

-----------------------------------------------------------------------------
(* Wake-ups in a pool of a fixed size                                      *)

\* A pool whose minimum is not below its maximum hires nobody after init() and flags
\* nobody before its destructor.
Fixed == phase = "running" => term = {} /\ Len(thds) = MinThds

\* Fixed is an invariant of such a pool.
LEMMA FixedStep ==
  ASSUME MinThds >= MaxThds
  PROVE  IInv /\ Fixed /\ [Next]_vars => Fixed'
<1> SUFFICES ASSUME IInv, Fixed, [Next]_vars, phase' = "running"
             PROVE  term' = {} /\ Len(thds') = MinThds
  BY DEF Fixed
<1>T. TypeOK /\ ListIsCrew /\ Shape /\ Len(thds) \in Nat /\ MinThds \in Nat \ {0} /\ MaxThds \in Nat
  BY SizesAssumption DEF IInv, TypeOK
<1>1. CASE InitPool
  <2>1. PICK s \in Hired(MinThds) : thds' = thds \o s BY <1>1 DEF InitPool
  <2>2. thds = <<>> /\ Len(thds) = 0 /\ term' = term BY <1>1, <1>T DEF InitPool, Shape
  <2>3. Len(thds') = MinThds BY <1>T, <2>1, <2>2, HireFacts
  <2>4. term' = {} BY <2>2, <1>T DEF Shape, Listed
  <2> QED BY <2>3, <2>4
<1>2. ASSUME NEW t \in Threads, TakeTask(t) PROVE term' = {} /\ Len(thds') = MinThds
  <2> DEFINE k == GrowBy(busyNum + 1, Len(tasks) - 1)
  <2>1. term = {} /\ Len(thds) = MinThds /\ term' = term
    <3>1. phase = "running" BY <1>2 DEF TakeTask
    <3> QED BY <1>2, <3>1 DEF TakeTask, Fixed
  <2>2. k = 0 BY <2>1, <1>T DEF GrowBy
  <2>3. PICK s \in Hired(0) : thds' = thds \o s BY <1>2, <2>2 DEF TakeTask
  <2>4. Len(thds') = Len(thds) + 0 BY <1>T, <2>3, HireFacts
  <2> QED BY <2>1, <2>4, <1>T
<1>3. ASSUME NEW t \in Threads, Exit(t) PROVE FALSE BY <1>3 DEF Exit, Fixed
<1>4. ASSUME NEW t \in Threads, FinishTask(t) PROVE term' = {} /\ Len(thds') = MinThds
  <2>1. /\ phase = "running" /\ thds' = thds
        /\ term' = term \cup {thds[i] : i \in 1..ShrinkBy(OneLessBusy)}
    BY <1>4 DEF FinishTask
  <2>2. term = {} /\ Len(thds) = MinThds BY <2>1 DEF Fixed
  <2>3. ShrinkBy(OneLessBusy) = 0
    <3>1. Len(thds) \div 2 =< MinThds BY <2>2, <1>T
    <3> QED BY <2>2, <3>1, <1>T DEF ShrinkBy
  <2> QED BY <2>1, <2>2, <2>3
<1>5. AcceptTask \/ DtorSpurious \/ Dtor \/ Finished \/ UNCHANGED vars
      => phase' = phase /\ term' = term /\ thds' = thds
  BY DEF AcceptTask, DtorSpurious, Dtor, DtorSleepsAgain, DtorEnds, Finished, vars, crew
<1>6. Destroy => FALSE BY DEF Destroy
<1>7. \A t \in Threads : Sleep(t) \/ SpuriousWake(t) => phase' = phase /\ term' = term /\ thds' = thds
  BY DEF Sleep, SpuriousWake, crew
<1>8. \A c \in Clients : WaitAll(c) \/ SpuriousReturn(c)
                         => phase' = phase /\ term' = term /\ thds' = thds
  BY DEF WaitAll, SpuriousReturn, crew
<1> QED BY <1>1, <1>2, <1>3, <1>4, <1>5, <1>6, <1>7, <1>8 DEF Next, Decide, Fixed

\* The ready workers are finitely many; one that comes or goes changes their number
\* by one.
LEMMA ReadyCount ==
  ASSUME TypeOK, NEW t \in Threads
  PROVE  /\ IsFiniteSet(Ready) /\ Cardinality(Ready) \in Nat
         /\ t \notin Ready => Cardinality(Ready \cup {t}) = Cardinality(Ready) + 1
         /\ t \in Ready => Cardinality(Ready \ {t}) = Cardinality(Ready) - 1
<1>1. IsFiniteSet(Ready) BY ThreadsAssumption, FS_Subset DEF Ready
<1> QED BY <1>1, FS_CardinalityType, FS_AddElement, FS_RemoveElement

\* A task is announced to a sleeper, and a worker that leaves Ready takes a task or
\* finds none.
LEMMA WakeupStep == IInv /\ Fixed /\ Fixed' /\ NoLostWakeup /\ [Next]_vars => NoLostWakeup'
<1> SUFFICES ASSUME IInv, Fixed, Fixed', NoLostWakeup, [Next]_vars,
                    phase' = "running", Sleepers' # {}
             PROVE  Len(tasks') =< Cardinality(Ready')
  BY DEF NoLostWakeup
<1>T. TypeOK /\ Shape BY DEF IInv
<1>S. /\ tasks \in Seq(1..NTasks) /\ Len(tasks) \in Nat
      /\ pc \in [Threads -> {"none", "ready", "asleep", "running"}]
  BY <1>T DEF TypeOK
<1>0. phase = "running" \/ InitPool
  BY DEF Next, Decide, Dtor, DtorSleepsAgain, DtorEnds, Finished, vars, AcceptTask, Destroy,
     DtorSpurious, Sleep, TakeTask, Exit, FinishTask, SpuriousWake, WaitAll, SpuriousReturn
<1>1. CASE InitPool
  <2>1. tasks' = <<>> BY <1>1, <1>T DEF InitPool, Shape, queue
  <2>2. PICK t : t \in Sleepers' OBVIOUS
  <2>3. IsFiniteSet(Ready') BY ThreadsAssumption, FS_Subset DEF Ready
  <2>4. Cardinality(Ready') \in Nat BY <2>3, FS_CardinalityType
  <2> QED BY <2>1, <2>4
<1>2. ASSUME phase = "running", AcceptTask PROVE Len(tasks') =< Cardinality(Ready')
  <2>1. Len(tasks') = Len(tasks) + 1 BY <1>2, <1>S DEF AcceptTask, Enqueue
  <2>2. Sleepers # {} BY <1>2, <1>S DEF AcceptTask, NotifyOne, Sleepers
  <2>3. PICK t \in Sleepers : pc' = [pc EXCEPT ![t] = "ready"]
    BY <1>2, <2>2 DEF AcceptTask, NotifyOne
  <2>4. Ready' = Ready \cup {t} /\ t \notin Ready /\ t \in Threads
    BY <1>S, <2>3 DEF Ready, Sleepers
  <2>5. Len(tasks) =< Cardinality(Ready) BY <1>2, <2>2 DEF NoLostWakeup
  <2> QED BY <1>T, <1>S, <2>1, <2>4, <2>5, ReadyCount
<1>3. ASSUME NEW t \in Threads, Sleep(t) PROVE Len(tasks') =< Cardinality(Ready')
  <2>1. tasks' = <<>> /\ Len(tasks') = 0 BY <1>3 DEF Sleep, NothingToDo, queue
  <2>2. IsFiniteSet(Ready') BY ThreadsAssumption, FS_Subset DEF Ready
  <2>3. Cardinality(Ready') \in Nat BY <2>2, FS_CardinalityType
  <2> QED BY <2>1, <2>3
<1>4. ASSUME phase = "running", NEW t \in Threads, TakeTask(t)
      PROVE  Len(tasks') =< Cardinality(Ready')
  <2> DEFINE k == GrowBy(busyNum + 1, Len(tasks) - 1)
  <2>1. tasks # <<>> /\ tasks' = Tail(tasks) /\ pc[t] = "ready"
    BY <1>4 DEF TakeTask, Decides
  <2>2. Len(tasks') = Len(tasks) - 1 BY <1>S, <2>1, HeadTailProperties
  <2>3. k \in Nat
    <3>1. \A b, i \in Nat : GrowBy(b, i) \in Nat BY <1>T, GrowFacts
    <3>2. busyNum \in Nat /\ Len(tasks) - 1 \in Nat
      BY <1>S, <1>T, <2>1, <2>2, CapType DEF TypeOK
    <3>3. busyNum + 1 \in Nat BY <3>2
    <3> QED BY <3>1, <3>2, <3>3
  <2> HIDE DEF k
  <2>4. PICK s \in Hired(k) :
          /\ thds' = thds \o s
          /\ pc' = [u \in Threads |-> IF u = t THEN "running"
                                      ELSE IF \E i \in 1..k : s[i] = u THEN "ready"
                                      ELSE pc[u]]
    BY <1>4 DEF TakeTask, k
  <2>5. k = 0
    <3>1. Len(thds') = Len(thds) + k /\ Len(thds) \in Nat
      BY <1>T, <2>3, <2>4, HireFacts, SMTT(60) DEF IInv, TypeOK
    <3>2. Len(thds) = MinThds /\ Len(thds') = MinThds BY <1>4 DEF Fixed
    <3> QED BY <2>3, <3>1, <3>2
  <2>6. pc' = [pc EXCEPT ![t] = "running"]
    <3>1. \A u \in Threads : ~\E i \in 1..k : s[i] = u BY <2>5
    <3>2. pc' = [u \in Threads |-> IF u = t THEN "running" ELSE pc[u]] BY <2>4, <3>1
    <3> QED BY <1>S, <3>2
  <2>7. Ready' = Ready \ {t} /\ t \in Ready /\ Sleepers # {}
    BY <1>S, <2>1, <2>6 DEF Ready, Sleepers
  <2>8. Len(tasks) =< Cardinality(Ready) BY <1>4, <2>7 DEF NoLostWakeup
  <2> QED BY <1>T, <1>S, <2>2, <2>7, <2>8, ReadyCount
<1>5. ASSUME phase = "running", NEW t \in Threads, Exit(t) PROVE FALSE
  BY <1>5 DEF Exit, Fixed
<1>6. ASSUME phase = "running", NEW t \in Threads, FinishTask(t) \/ SpuriousWake(t)
      PROVE  Len(tasks') =< Cardinality(Ready')
  <2>1. /\ pc[t] \in {"running", "asleep"} /\ pc' = [pc EXCEPT ![t] = "ready"]
        /\ tasks' = tasks
    BY <1>6 DEF FinishTask, SpuriousWake, queue
  <2>2. Ready' = Ready \cup {t} /\ t \notin Ready /\ Sleepers # {}
    BY <1>S, <2>1 DEF Ready, Sleepers
  <2>3. Len(tasks) =< Cardinality(Ready) BY <1>6, <2>2 DEF NoLostWakeup
  <2> QED BY <1>T, <1>S, <2>1, <2>2, <2>3, ReadyCount
<1>7. ASSUME phase = "running", pc' = pc, tasks' = tasks
      PROVE  Len(tasks') =< Cardinality(Ready')
  <2>1. Ready' = Ready /\ Sleepers' = Sleepers BY <1>7 DEF Ready, Sleepers
  <2> QED BY <1>7, <2>1 DEF NoLostWakeup
<1>8. DtorSpurious \/ DtorSleepsAgain \/ Finished \/ UNCHANGED vars => pc' = pc /\ tasks' = tasks
  BY DEF DtorSpurious, DtorSleepsAgain, Finished, vars, queue
<1>9. \A c \in Clients : WaitAll(c) \/ SpuriousReturn(c) => pc' = pc /\ tasks' = tasks
  BY DEF WaitAll, SpuriousReturn, queue
<1>10. ~Destroy /\ ~DtorEnds BY DEF Destroy, DtorEnds
<1> QED BY <1>0, <1>1, <1>2, <1>3, <1>4, <1>5, <1>6, <1>7, <1>8, <1>9, <1>10
        DEF Next, Decide, Dtor

\* In a pool of a fixed size no wake-up is lost: while a worker sleeps, every queued
\* task has a worker that is awake and will look at the list (ThreadPool.cpp:108, 132).
THEOREM NoWakeupIsLost ==
  ASSUME MinThds >= MaxThds
  PROVE  Spec => []NoLostWakeup
<1>1. Init => Fixed /\ NoLostWakeup BY DEF Init, Fixed, NoLostWakeup
<1>2. IInv /\ Fixed /\ [Next]_vars => Fixed' BY FixedStep
<1> QED BY <1>1, <1>2, InvariantHolds, WakeupStep, PTL DEF Spec

\* The pool's knowledge of its workers is true (ThreadPool.cpp:24, 40, 136, 149, 161).
THEOREM CrewIsKnown == Spec => []CrewKnown
<1>1. TypeOK /\ BusyCount /\ ListIsCrew /\ NobodyLeft => CrewKnown BY DEF CrewKnown
<1> QED BY <1>1, TypeCorrect, BusyIsRunning, ListIsAlive, NobodyIsLeft, PTL
=============================================================================
