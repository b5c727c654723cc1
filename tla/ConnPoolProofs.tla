--------------------------- MODULE ConnPoolProofs ---------------------------
(***************************************************************************)
(* What is proved of ConnPool for any number of clients, connections and   *)
(* sizes: its types, that no wake-up is lost, that no connection is        *)
(* shared, that the count is right, and that it implements Lease.          *)
(***************************************************************************)
EXTENDS ConnPool, SequenceTheorems, FiniteSetTheorems, TLAPS

\* Before init() has run nobody has called the pool; after the destructor its free
\* list stays empty.
Fresh ==
  /\ ~ready => /\ free = <<>> /\ busy = {} /\ cur = 0
               /\ \A t \in Clients : pc[t] = "idle" /\ held[t] = {}
  /\ abort => free = <<>>

-----------------------------------------------------------------------------
(* The type invariant                                                      *)

\* Cap bounds what init() and takeConn may make.
LEMMA CapType == Cap \in Nat /\ MinConn =< Cap /\ MaxConn =< Cap
BY SizesAssumption DEF Cap

\* Notifications keep the type of pc.
LEMMA NotifyType ==
  ASSUME TypeOK
  PROVE  /\ NotifyOne => pc' \in [Clients -> {"idle", "waiting", "woken", "expired"}]
         /\ NotifyAll => pc' \in [Clients -> {"idle", "waiting", "woken", "expired"}]
BY DEF TypeOK, NotifyOne, NotifyAll, Waiting

\* Taking the front of the free list keeps the types and shortens the list by one.
LEMMA HandOverType ==
  ASSUME TypeOK, NEW t \in Clients, HandOver(t)
  PROVE  /\ free' \in Seq(Conns) /\ busy' \subseteq Conns
         /\ held' \in [Clients -> SUBSET Conns]
         /\ Head(free) \in Conns /\ Len(free') = Len(free) - 1
<1>1. free \in Seq(Conns) /\ free # <<>> BY DEF TypeOK, HandOver, Popped
<1>2. Head(free) \in Conns /\ Tail(free) \in Seq(Conns) /\ Len(Tail(free)) = Len(free) - 1
  BY <1>1, HeadTailProperties
<1> QED BY <1>2 DEF TypeOK, HandOver, Popped

\* No step leaves the types, and none touches an uninitialised or a destroyed pool.
LEMMA TypeStep == TypeOK /\ Fresh /\ [Next]_vars => TypeOK' /\ Fresh'
<1> SUFFICES ASSUME TypeOK, Fresh, [Next]_vars PROVE TypeOK' /\ Fresh'
  OBVIOUS
<1> USE DEF TypeOK, Fresh
<1>1. CASE InitPool
  <2>0. PICK k \in 0..MinConn : /\ cur' = cur + k
                                /\ \E s \in [1..k -> Conns] : free' = free \o s
    BY <1>1 DEF InitPool, CountMade
  <2>1. PICK s \in [1..k -> Conns] : free' = free \o s BY <2>0
  <2>2. k \in Nat /\ k =< Cap BY CapType, SizesAssumption
  <2>3. s \in Seq(Conns) BY <2>2
  <2>4. free' \in Seq(Conns) BY <2>1, <2>3, ConcatProperties
  <2>5. cur' \in 0..Cap BY <1>1, <2>0, <2>2, CapType DEF InitPool, CountMade
  <2> QED BY <1>1, <2>4, <2>5 DEF InitPool, CountMade
<1>2. CASE Destroy
  <2>1. free' \in Seq(Conns) BY <1>2, EmptySeq DEF Destroy
  <2> QED BY <1>2, <2>1, NotifyType DEF Destroy
<1>3. ASSUME NEW t \in Clients, Take(t) PROVE TypeOK' /\ Fresh'
  <2>1. /\ ready /\ calls' \in [Clients -> 0..Calls]
    BY <1>3, SizesAssumption, SMTT(60) DEF Take, TakeFree, TakeNew, TakeNewFails, TakeWaits, Call
  <2>2. CASE TakeFree(t) BY <2>1, <2>2, HandOverType DEF TakeFree
  <2>3. CASE TakeNew(t)
    <3>1. cur' \in 0..Cap BY <2>3, CapType, SizesAssumption DEF TakeNew, CanGrow
    <3> QED BY <2>1, <2>3, <3>1 DEF TakeNew
  <2>4. CASE TakeNewFails(t) BY <2>1, <2>4 DEF TakeNewFails
  <2>5. CASE TakeWaits(t) BY <2>1, <2>5 DEF TakeWaits
  <2> QED BY <1>3, <2>2, <2>3, <2>4, <2>5 DEF Take
<1>4. ASSUME NEW t \in Clients, Spurious(t) PROVE TypeOK' /\ Fresh'
  BY <1>4 DEF Spurious
<1>5. ASSUME NEW t \in Clients, Expire(t) PROVE TypeOK' /\ Fresh'
  BY <1>5 DEF Expire
<1>6. ASSUME NEW t \in Clients, Wake(t) PROVE TypeOK' /\ Fresh'
  <2>1. CASE WakeTakes(t) BY <2>1, HandOverType DEF WakeTakes, Awake
  <2>2. CASE WakeAborts(t) BY <2>2 DEF WakeAborts, Awake
  <2>3. CASE WakeFindsNone(t) BY <2>3 DEF WakeFindsNone, Awake
  <2> QED BY <1>6, <2>1, <2>2, <2>3 DEF Wake
<1>7. ASSUME NEW t \in Clients, NEW c \in Conns, PutConn(t, c) PROVE TypeOK' /\ Fresh'
  <2>1. free' \in Seq(Conns) BY <1>7, AppendProperties DEF PutConn
  <2> QED BY <1>7, <2>1, NotifyType DEF PutConn
<1>8. CASE UNCHANGED vars BY <1>8 DEF vars
<1>9. ASSUME NEW t \in Clients, NEW c \in Conns, PutUnknown(t, c) PROVE TypeOK' /\ Fresh'
  BY <1>8, <1>9 DEF PutUnknown
<1>10. CASE Finished BY <1>8, <1>10 DEF Finished
<1> QED BY <1>1, <1>2, <1>3, <1>4, <1>5, <1>6, <1>7, <1>8, <1>9, <1>10 DEF Next

\* A new pool has no connection and no client inside.
LEMMA InitType == Init => TypeOK /\ Fresh
<1> SUFFICES ASSUME Init PROVE TypeOK /\ Fresh
  OBVIOUS
<1>1. free \in Seq(Conns) BY EmptySeq DEF Init
<1>2. cur \in 0..Cap BY CapType DEF Init
<1>3. calls \in [Clients -> 0..Calls] BY SizesAssumption DEF Init
<1> QED BY <1>1, <1>2, <1>3 DEF Init, TypeOK, Fresh

\* Every variable keeps its type; in particular m_cur_conn never passes the larger of
\* min_conn and m_max_conn (ConnPool.cpp:28, 58).
THEOREM TypeCorrect == Spec => []TypeOK
<1>1. Spec => [](TypeOK /\ Fresh) BY InitType, TypeStep, PTL DEF Spec
<1> QED BY <1>1, PTL

-----------------------------------------------------------------------------
(* No lost wake-up                                                         *)

\* What moving one client does to the sets of sleeping and awake clients.
LEMMA AwakeFinite ==
  /\ IsFiniteSet(Awake) /\ Cardinality(Awake) \in Nat
  /\ IsFiniteSet(Awake') /\ Cardinality(Awake') \in Nat
<1>1. Awake \subseteq Clients /\ Awake' \subseteq Clients BY DEF Awake
<1> QED BY <1>1, ClientsAssumption, FS_Subset, FS_CardinalityType

\* A notified sleeper is one more awake client.
LEMMA WakesOne ==
  ASSUME TypeOK, NEW t \in Waiting, pc' = [pc EXCEPT ![t] = "woken"]
  PROVE  Cardinality(Awake') = Cardinality(Awake) + 1
<1>1. Awake' = Awake \cup {t} /\ t \notin Awake BY DEF TypeOK, Awake, Waiting
<1> QED BY <1>1, AwakeFinite, FS_AddElement

\* A client that returns is one awake client less.
LEMMA LeavesAwake ==
  ASSUME TypeOK, NEW t \in Awake, pc' = [pc EXCEPT ![t] = "idle"]
  PROVE  Cardinality(Awake') = Cardinality(Awake) - 1 /\ Waiting' = Waiting
<1>1. Awake' = Awake \ {t} BY DEF TypeOK, Awake
<1>2. Waiting' = Waiting BY DEF TypeOK, Awake, Waiting
<1> QED BY <1>1, <1>2, AwakeFinite, FS_RemoveElement

\* A step that adds a free connection or takes an awake client away does not leave a
\* sleeper alone with a free connection.
LEMMA NoLostWakeupStep ==
  TypeOK /\ Fresh /\ NoLostWakeup /\ [Next]_vars => NoLostWakeup'
<1> SUFFICES ASSUME TypeOK, Fresh, NoLostWakeup, [Next]_vars, Waiting' # {}
             PROVE  Len(free') =< Cardinality(Awake')
  BY DEF NoLostWakeup
<1>a. Len(free) \in Nat BY DEF TypeOK
<1>b. ASSUME free' = <<>> PROVE Len(free') =< Cardinality(Awake')
  BY <1>b, AwakeFinite
<1>c. ASSUME free' = free, pc' = pc PROVE Len(free') =< Cardinality(Awake')
  <2>1. Waiting' = Waiting /\ Awake' = Awake BY <1>c DEF Waiting, Awake
  <2> QED BY <1>c, <2>1 DEF NoLostWakeup
<1>1. CASE InitPool
  <2>1. pc' = pc /\ \A t \in Clients : pc[t] = "idle" BY <1>1 DEF InitPool, CountMade, Fresh
  <2> QED BY <2>1 DEF Waiting
<1>2. CASE Destroy BY <1>2, <1>b DEF Destroy
<1>3. ASSUME NEW t \in Clients, Take(t) PROVE Len(free') =< Cardinality(Awake')
  <2>1. CASE TakeFree(t)
    <3>1. pc' = pc /\ Len(free') = Len(free) - 1 BY <2>1, HandOverType DEF TakeFree
    <3>2. Waiting' = Waiting /\ Awake' = Awake BY <3>1 DEF Waiting, Awake
    <3> QED BY <3>1, <3>2, <1>a, AwakeFinite DEF NoLostWakeup
  <2>2. CASE TakeNew(t) BY <2>2, <1>b DEF TakeNew
  <2>3. CASE TakeNewFails(t) BY <2>3, <1>b DEF TakeNewFails
  <2>4. CASE TakeWaits(t) BY <2>4, <1>b DEF TakeWaits
  <2> QED BY <1>3, <2>1, <2>2, <2>3, <2>4 DEF Take
<1>4. ASSUME NEW t \in Clients, Spurious(t) PROVE Len(free') =< Cardinality(Awake')
  <2>1. t \in Waiting BY <1>4 DEF Spurious, Waiting
  <2>2. Cardinality(Awake') = Cardinality(Awake) + 1 /\ free' = free
    BY <1>4, <2>1, WakesOne DEF Spurious
  <2> QED BY <2>1, <2>2, <1>a, AwakeFinite DEF NoLostWakeup
<1>5. ASSUME NEW t \in Clients, Expire(t) PROVE Len(free') =< Cardinality(Awake')
  <2>1. Awake' = Awake \cup {t} /\ Waiting' \subseteq Waiting
    BY <1>5 DEF Expire, Awake, Waiting, TypeOK
  <2>2. Cardinality(Awake') >= Cardinality(Awake)
    BY <2>1, AwakeFinite, FS_AddElement
  <2>3. free' = free BY <1>5 DEF Expire
  <2> QED BY <2>1, <2>2, <2>3, <1>a, AwakeFinite DEF NoLostWakeup
<1>6. ASSUME NEW t \in Clients, Wake(t) PROVE Len(free') =< Cardinality(Awake')
  <2>1. CASE WakeTakes(t)
    <3>1. Cardinality(Awake') = Cardinality(Awake) - 1 /\ Waiting' = Waiting
      BY <2>1, LeavesAwake DEF WakeTakes
    <3>2. Len(free') = Len(free) - 1 BY <2>1, HandOverType DEF WakeTakes
    <3> QED BY <3>1, <3>2, <1>a, AwakeFinite DEF NoLostWakeup
  <2>2. CASE WakeAborts(t) BY <2>2, <1>b DEF WakeAborts, Fresh
  <2>3. CASE WakeFindsNone(t) BY <2>3, <1>b DEF WakeFindsNone
  <2> QED BY <1>6, <2>1, <2>2, <2>3 DEF Wake
<1>7. ASSUME NEW t \in Clients, NEW c \in Conns, PutConn(t, c)
      PROVE  Len(free') =< Cardinality(Awake')
  <2>1. Len(free') = Len(free) + 1 BY <1>7, AppendProperties DEF PutConn, TypeOK
  <2>2. PICK w \in Waiting : pc' = [pc EXCEPT ![w] = "woken"]
    <3>1. CASE pc' = pc BY <1>7, <3>1 DEF PutConn, NotifyOne, Waiting
    <3> QED BY <1>7, <3>1 DEF PutConn, NotifyOne, Waiting
  <2>3. Cardinality(Awake') = Cardinality(Awake) + 1 BY <2>2, WakesOne
  <2> QED BY <2>1, <2>2, <2>3, <1>a, AwakeFinite DEF NoLostWakeup
<1>8. CASE UNCHANGED vars BY <1>8, <1>c DEF vars
<1>9. ASSUME NEW t \in Clients, NEW c \in Conns, PutUnknown(t, c)
      PROVE  Len(free') =< Cardinality(Awake')
  BY <1>8, <1>9 DEF PutUnknown
<1>10. CASE Finished BY <1>8, <1>10 DEF Finished
<1> QED BY <1>1, <1>2, <1>3, <1>4, <1>5, <1>6, <1>7, <1>8, <1>9, <1>10 DEF Next

\* A client asleep in takeConn is never left next to a free connection that nobody
\* awake will look at: the count of free connections against awake clients is
\* inductive together with the types (ConnPool.cpp:54-73, 114-116).
THEOREM NoWakeupIsLost == Spec => []NoLostWakeup
<1>1. Init => NoLostWakeup BY DEF Init, NoLostWakeup, Waiting
<1> QED BY <1>1, InitType, TypeStep, NoLostWakeupStep, PTL DEF Spec

-----------------------------------------------------------------------------
(* Every connection has one place                                          *)

\* Taking the front of a list without repetitions.
LEMMA HandOverPlaces ==
  ASSUME TypeOK, Exclusive, NEW t \in Clients, HandOver(t)
  PROVE  /\ Head(free) \in Listed /\ Listed' = Listed \ {Head(free)}
         /\ \A i, j \in 1..Len(free') : free'[i] = free'[j] => i = j
<1>1. free \in Seq(Conns) /\ free # <<>> /\ free' = Tail(free) BY DEF TypeOK, HandOver, Popped
<1>2. /\ Len(free) \in Nat \ {0} /\ Len(free') = Len(free) - 1
      /\ Head(free) = free[1]
      /\ \A i \in 1..Len(free') : free'[i] = free[i + 1]
  BY <1>1, HeadTailProperties, EmptySeq
<1>3. \A i, j \in 1..Len(free) : free[i] = free[j] => i = j BY DEF Exclusive
<1>4. Head(free) \in Listed BY <1>2 DEF Listed
<1>5. \A i, j \in 1..Len(free') : free'[i] = free'[j] => i = j
  <2> SUFFICES ASSUME NEW i \in 1..Len(free'), NEW j \in 1..Len(free'), free'[i] = free'[j]
               PROVE  i = j
    OBVIOUS
  <2>1. i + 1 \in 1..Len(free) /\ j + 1 \in 1..Len(free) BY <1>2
  <2>2. free[i + 1] = free[j + 1] BY <1>2
  <2>3. i + 1 = j + 1 BY <1>3, <2>1, <2>2
  <2> QED BY <2>3
<1>6. Listed' \subseteq Listed \ {Head(free)}
  <2> SUFFICES ASSUME NEW i \in 1..Len(free') PROVE free'[i] \in Listed \ {Head(free)}
    BY DEF Listed
  <2>1. i + 1 \in 1..Len(free) /\ 1 \in 1..Len(free) /\ i + 1 # 1 BY <1>2
  <2>2. free[i + 1] # free[1] BY <1>3, <2>1
  <2> QED BY <1>2, <2>1, <2>2 DEF Listed
<1>7. Listed \ {Head(free)} \subseteq Listed'
  <2> SUFFICES ASSUME NEW i \in 1..Len(free), free[i] # Head(free)
               PROVE  \E j \in 1..Len(free') : free'[j] = free[i]
    BY DEF Listed
  <2>1. i # 1 BY <1>2
  <2>2. i - 1 \in 1..Len(free') BY <1>2, <2>1
  <2>3. free'[i - 1] = free[(i - 1) + 1] BY <1>2, <2>2
  <2>4. free'[i - 1] = free[i] BY <2>3
  <2> QED BY <2>2, <2>4
<1> QED BY <1>4, <1>5, <1>6, <1>7

\* Appending a connection that is not in the list.
LEMMA AppendPlaces ==
  ASSUME TypeOK, Exclusive, NEW c \in Conns, c \notin Listed, free' = Append(free, c)
  PROVE  /\ Listed' = Listed \cup {c}
         /\ \A i, j \in 1..Len(free') : free'[i] = free'[j] => i = j
<1>1. /\ Len(free) \in Nat /\ Len(free') = Len(free) + 1
      /\ \A i \in 1..Len(free) : free'[i] = free[i]
      /\ free'[Len(free) + 1] = c
  BY AppendProperties DEF TypeOK
<1>2. \A i \in 1..Len(free) : free[i] # c BY DEF Listed
<1>3. \A i \in 1..Len(free') : i \in 1..Len(free) \/ i = Len(free) + 1 BY <1>1
<1>4. Listed' = Listed \cup {c} BY <1>1, <1>3 DEF Listed
<1>5. \A i, j \in 1..Len(free') : free'[i] = free'[j] => i = j
  BY <1>1, <1>2, <1>3 DEF Exclusive
<1> QED BY <1>4, <1>5

\* A client that is given a connection nobody keeps.
LEMMA LeaseGrows ==
  ASSUME TypeOK, Exclusive, NEW t \in Clients, NEW c, c \notin busy,
         busy' = busy \cup {c}, held' = [held EXCEPT ![t] = @ \cup {c}]
  PROVE  /\ busy' = UNION {held'[u] : u \in Clients}
         /\ \A u, w \in Clients : u # w => held'[u] \cap held'[w] = {}
<1>1. /\ \A u \in Clients : held'[u] = IF u = t THEN held[u] \cup {c} ELSE held[u]
      /\ \A u \in Clients : c \notin held[u]
  BY ZenonT(60) DEF TypeOK, Exclusive
<1> QED BY <1>1 DEF Exclusive

\* A client that gives back a connection it keeps.
LEMMA LeaseShrinks ==
  ASSUME TypeOK, Exclusive, NEW t \in Clients, NEW c \in held[t],
         busy' = busy \ {c}, held' = [held EXCEPT ![t] = @ \ {c}]
  PROVE  /\ busy' = UNION {held'[u] : u \in Clients}
         /\ \A u, w \in Clients : u # w => held'[u] \cap held'[w] = {}
<1>1. /\ \A u \in Clients : held'[u] = IF u = t THEN held[u] \ {c} ELSE held[u]
      /\ \A u \in Clients : u # t => c \notin held[u]
  BY DEF TypeOK, Exclusive
<1>2. busy' \subseteq UNION {held'[u] : u \in Clients}
  <2> SUFFICES ASSUME NEW d \in busy, d # c PROVE \E u \in Clients : d \in held'[u]
    OBVIOUS
  <2>1. PICK u \in Clients : d \in held[u] BY DEF Exclusive
  <2> QED BY <1>1, <2>1
<1>3. UNION {held'[u] : u \in Clients} \subseteq busy'
  <2> SUFFICES ASSUME NEW u \in Clients, NEW d \in held'[u] PROVE d \in busy'
    OBVIOUS
  <2>1. d \in held[u] /\ d # c BY <1>1
  <2>2. d \in busy BY <2>1 DEF Exclusive
  <2> QED BY <2>1, <2>2
<1>4. \A u, w \in Clients : u # w => held'[u] \cap held'[w] = {}
  BY <1>1 DEF Exclusive
<1> QED BY <1>2, <1>3, <1>4

\* No step puts a connection in two places.
LEMMA ExclusiveStep == TypeOK /\ Fresh /\ Exclusive /\ [Next]_vars => Exclusive'
<1> SUFFICES ASSUME TypeOK, Fresh, Exclusive, [Next]_vars PROVE Exclusive'
  OBVIOUS
<1>a. ASSUME UNCHANGED <<free, busy, held>> PROVE Exclusive'
  BY <1>a DEF Exclusive, Listed
<1>b. ASSUME NEW t \in Clients, HandOver(t) PROVE Exclusive'
  <2>1. Head(free) \notin busy BY <1>b, HandOverPlaces DEF Exclusive
  <2> QED BY <1>b, <2>1, HandOverPlaces, LeaseGrows DEF HandOver, Popped, Exclusive
<1>1. CASE InitPool
  <2>1. free = <<>> /\ busy = {} /\ \A t \in Clients : held[t] = {}
    BY <1>1 DEF InitPool, CountMade, Fresh
  <2>2. PICK k \in 0..MinConn :
               \E s \in [1..k -> Conns] : /\ \A i, j \in 1..k : s[i] = s[j] => i = j
                                         /\ free' = free \o s
    BY <1>1 DEF InitPool, CountMade
  <2>3. PICK s \in [1..k -> Conns] : /\ \A i, j \in 1..k : s[i] = s[j] => i = j
                                     /\ free' = free \o s
    BY <2>2
  <2>4. k \in Nat /\ s \in Seq(Conns) /\ Len(s) = k BY SizesAssumption
  <2>5. free' = s BY <2>1, <2>3, <2>4, ConcatEmptySeq
  <2> QED BY <1>1, <2>1, <2>3, <2>4, <2>5 DEF InitPool, CountMade, Exclusive
<1>2. CASE Destroy BY <1>2 DEF Destroy, Exclusive, Listed
<1>3. ASSUME NEW t \in Clients, Take(t) PROVE Exclusive'
  <2>1. CASE TakeFree(t) BY <2>1, <1>b DEF TakeFree
  <2>2. CASE TakeNew(t)
    <3>1. PICK c \in Conns \ busy : /\ busy' = busy \cup {c}
                                    /\ held' = [held EXCEPT ![t] = @ \cup {c}]
      BY <2>2 DEF TakeNew
    <3>2. free = <<>> /\ free' = free BY <2>2 DEF TakeNew
    <3>3. Listed' = {} /\ \A i, j \in 1..Len(free') : free'[i] = free'[j] => i = j
      BY <3>2 DEF Listed
    <3>4. /\ busy' = UNION {held'[u] : u \in Clients}
          /\ \A u, w \in Clients : u # w => held'[u] \cap held'[w] = {}
      BY <3>1, LeaseGrows
    <3> QED BY <3>3, <3>4 DEF Exclusive
  <2>3. CASE TakeNewFails(t) BY <2>3, <1>a DEF TakeNewFails
  <2>4. CASE TakeWaits(t) BY <2>4, <1>a DEF TakeWaits
  <2> QED BY <1>3, <2>1, <2>2, <2>3, <2>4 DEF Take
<1>4. ASSUME NEW t \in Clients, Spurious(t) \/ Expire(t) PROVE Exclusive'
  BY <1>4, <1>a DEF Spurious, Expire
<1>5. ASSUME NEW t \in Clients, Wake(t) PROVE Exclusive'
  BY <1>5, <1>a, <1>b DEF Wake, WakeTakes, WakeAborts, WakeFindsNone
<1>6. ASSUME NEW t \in Clients, NEW c \in Conns, PutConn(t, c) PROVE Exclusive'
  <2>1. c \notin Listed BY <1>6 DEF PutConn, Exclusive
  <2>2. /\ free' = Append(free, c) /\ c \in held[t]
        /\ busy' = busy \ {c} /\ held' = [held EXCEPT ![t] = @ \ {c}]
    BY <1>6 DEF PutConn
  <2> QED BY <2>1, <2>2, AppendPlaces, LeaseShrinks DEF Exclusive
<1>7. CASE UNCHANGED vars BY <1>7, <1>a DEF vars
<1>8. ASSUME NEW t \in Clients, NEW c \in Conns, PutUnknown(t, c) PROVE Exclusive'
  BY <1>7, <1>8 DEF PutUnknown
<1>9. CASE Finished BY <1>7, <1>9 DEF Finished
<1> QED BY <1>1, <1>2, <1>3, <1>4, <1>5, <1>6, <1>7, <1>8, <1>9 DEF Next

\* A new pool has no connection in two places.
LEMMA InitExclusive == Init => Exclusive
BY DEF Init, Exclusive, Listed

\* No connection is ever in two places or with two clients, and none that a client
\* keeps is missing from the busy list (ConnPool.cpp:95-98, 110-115).
THEOREM NoSharedConnection == Spec => []Exclusive
<1> QED BY InitType, TypeStep, InitExclusive, ExclusiveStep, PTL DEF Spec

-----------------------------------------------------------------------------
(* Counting connections                                                    *)

Counted == IsFiniteSet(busy) /\ Accounting

\* Every step that makes or moves connections keeps the count right.
LEMMA CountedStep == TypeOK /\ Fresh /\ Exclusive /\ Counted /\ [Next]_vars => Counted'
<1> SUFFICES ASSUME TypeOK, Fresh, Exclusive, Counted, [Next]_vars PROVE Counted'
  OBVIOUS
<1> USE DEF Counted, Accounting
<1>a. ASSUME UNCHANGED <<free, busy, cur, abort>> PROVE Counted'
  BY <1>a
<1>b. /\ Len(free) \in Nat /\ cur \in Nat /\ Cardinality(busy) \in Nat
  BY CapType, FS_CardinalityType DEF TypeOK
<1>c. ASSUME NEW t \in Clients, HandOver(t), UNCHANGED <<cur, abort>> PROVE Counted'
  <2>1. Head(free) \notin busy /\ busy' = busy \cup {Head(free)}
    BY <1>c, HandOverPlaces DEF Exclusive, HandOver, Popped
  <2>2. IsFiniteSet(busy') /\ Cardinality(busy') = Cardinality(busy) + 1
    BY <2>1, FS_AddElement
  <2>3. Len(free') = Len(free) - 1 BY <1>c, HandOverType
  <2> QED BY <1>b, <1>c, <2>2, <2>3
<1>1. CASE InitPool
  <2>1. free = <<>> /\ busy = {} /\ cur = 0 /\ busy' = {}
    BY <1>1 DEF InitPool, CountMade, Fresh
  <2>2. PICK k \in 0..MinConn : /\ cur' = cur + k
                                /\ \E s \in [1..k -> Conns] : free' = free \o s
    BY <1>1 DEF InitPool, CountMade
  <2>3. PICK s \in [1..k -> Conns] : free' = free \o s BY <2>2
  <2>4. k \in Nat /\ s \in Seq(Conns) /\ Len(s) = k BY SizesAssumption
  <2>5. free' = s BY <2>1, <2>3, <2>4, ConcatEmptySeq
  <2> QED BY <2>1, <2>2, <2>4, <2>5, FS_EmptySet
<1>2. CASE Destroy BY <1>2 DEF Destroy
<1>3. ASSUME NEW t \in Clients, Take(t) PROVE Counted'
  <2>1. CASE TakeFree(t) BY <2>1, <1>c DEF TakeFree
  <2>2. CASE TakeNew(t)
    <3>1. PICK c \in Conns \ busy : busy' = busy \cup {c} BY <2>2 DEF TakeNew
    <3>2. IsFiniteSet(busy') /\ Cardinality(busy') = Cardinality(busy) + 1
      BY <3>1, FS_AddElement
    <3> QED BY <2>2, <1>b, <3>2 DEF TakeNew
  <2>3. CASE TakeNewFails(t) BY <2>3, <1>a DEF TakeNewFails
  <2>4. CASE TakeWaits(t) BY <2>4, <1>a DEF TakeWaits
  <2> QED BY <1>3, <2>1, <2>2, <2>3, <2>4 DEF Take
<1>4. ASSUME NEW t \in Clients, Spurious(t) \/ Expire(t) PROVE Counted'
  BY <1>4, <1>a DEF Spurious, Expire
<1>5. ASSUME NEW t \in Clients, Wake(t) PROVE Counted'
  BY <1>5, <1>a, <1>c DEF Wake, WakeTakes, WakeAborts, WakeFindsNone
<1>6. ASSUME NEW t \in Clients, NEW c \in Conns, PutConn(t, c) PROVE Counted'
  <2>1. Len(free') = Len(free) + 1 BY <1>6, AppendProperties DEF PutConn, TypeOK
  <2>2. IsFiniteSet(busy') /\ Cardinality(busy') = Cardinality(busy) - 1
    BY <1>6, FS_RemoveElement DEF PutConn
  <2> QED BY <1>6, <1>b, <2>1, <2>2 DEF PutConn
<1>7. CASE UNCHANGED vars BY <1>7, <1>a DEF vars
<1>8. ASSUME NEW t \in Clients, NEW c \in Conns, PutUnknown(t, c) PROVE Counted'
  BY <1>7, <1>8 DEF PutUnknown
<1>9. CASE Finished BY <1>7, <1>9 DEF Finished
<1> QED BY <1>1, <1>2, <1>3, <1>4, <1>5, <1>6, <1>7, <1>8, <1>9 DEF Next

IInv == TypeOK /\ Fresh /\ Exclusive /\ Counted

\* The invariant the refinement rests on.
LEMMA InvariantHolds == Spec => []IInv
<1>1. Init => Counted BY FS_EmptySet DEF Init, Counted, Accounting
<1> QED BY <1>1, InitType, TypeStep, InitExclusive, ExclusiveStep, CountedStep, PTL
    DEF Spec, IInv

\* m_cur_conn is the number of connections that exist, in the free list or in use
\* (ConnPool.cpp:39, 58, 85).
THEOREM CurIsCount == Spec => []Accounting
<1>1. IInv => Accounting BY DEF IInv, Counted
<1> QED BY <1>1, InvariantHolds, PTL

-----------------------------------------------------------------------------
(* ConnPool implements Lease                                               *)

\* The leased connections of the abstract specification are the busy list.
LEMMA LeasedIsBusy == Exclusive => LeaseSpec!Leased = busy
BY DEF Exclusive, LeaseSpec!Leased

\* The instance of Lease has its own name for Cardinality.
LEMMA SameCardinality == \A S : LeaseSpec!Cardinality(S) = Cardinality(S)
BY DEF Cardinality, LeaseSpec!Cardinality

\* Every step of the pool is a step of Lease or leaves its variables alone.
LEMMA LeaseStep == IInv /\ IInv' /\ [Next]_vars => [LeaseSpec!Next]_LeaseSpec!vars
<1> SUFFICES ASSUME IInv, IInv', [Next]_vars PROVE [LeaseSpec!Next]_LeaseSpec!vars
  OBVIOUS
<1>T. TypeOK /\ Fresh /\ Exclusive /\ Counted BY DEF IInv
<1>L. LeaseSpec!Leased = busy BY <1>T, LeasedIsBusy
<1>a. ASSUME UNCHANGED <<free, held, abort>> PROVE [LeaseSpec!Next]_LeaseSpec!vars
  BY <1>a DEF LeaseSpec!vars, Listed
<1>b. ASSUME NEW t \in Clients, HandOver(t), UNCHANGED abort, ~abort
      PROVE  LeaseSpec!Next
  <2>1. Head(free) \in Conns BY <1>T, <1>b, HandOverType
  <2>2. LeaseSpec!Grant(t, Head(free))
    BY <1>T, <1>b, HandOverPlaces DEF HandOver, Popped, LeaseSpec!Grant
  <2> QED BY <2>1, <2>2 DEF LeaseSpec!Next
<1>1. CASE InitPool
  <2>1. free = <<>> /\ busy = {} /\ UNCHANGED <<held, abort>> /\ ~abort
    BY <1>1, <1>T DEF InitPool, CountMade, Fresh
  <2>2. PICK k \in 0..MinConn : \E s \in [1..k -> Conns] : free' = free \o s
    BY <1>1 DEF InitPool, CountMade
  <2>3. PICK s \in [1..k -> Conns] : free' = free \o s BY <2>2
  <2>4. k \in Nat /\ k =< Cap /\ s \in Seq(Conns) /\ Len(s) = k
    BY CapType, SizesAssumption
  <2>5. free' = s BY <2>1, <2>3, <2>4, ConcatEmptySeq
  <2>6. Listed' = {s[i] : i \in 1..k} BY <2>4, <2>5 DEF Listed
  <2>7. ExistsSurjection(1..k, Listed')
    <3>1. s \in [1..k -> Listed'] BY <2>6
    <3>2. \A c \in Listed' : \E i \in 1..k : s[i] = c BY <2>6
    <3> QED BY <3>1, <3>2 DEF ExistsSurjection, Surjection
  <2>8. Cardinality(Listed') =< k BY <2>4, <2>7, FS_SurjCardinalityBound
  <2>9. IsFiniteSet(Listed')
    <3>1. PICK f : f \in Surjection(1..k, Listed') BY <2>7 DEF ExistsSurjection
    <3> QED BY <2>4, <3>1, FS_Surjection, FS_Interval
  <2>10. Cardinality(Listed') =< Cap BY <2>4, <2>8, <2>9, CapType, FS_CardinalityType
  <2>11. Listed' \in SUBSET Conns /\ Listed = {} BY <2>1, <2>6, SMTT(60) DEF Listed
  <2>12. LeaseSpec!Stock BY <1>L, <2>1, <2>10, <2>11, SameCardinality DEF LeaseSpec!Stock
  <2> QED BY <2>12 DEF LeaseSpec!Next
<1>2. CASE Destroy
  <2>1. Listed' = {} BY <1>2 DEF Destroy, Listed
  <2>2. LeaseSpec!Close BY <1>2, <2>1 DEF Destroy, LeaseSpec!Close
  <2> QED BY <2>2 DEF LeaseSpec!Next
<1>3. ASSUME NEW t \in Clients, Take(t) PROVE [LeaseSpec!Next]_LeaseSpec!vars
  <2>1. CASE TakeFree(t) BY <2>1, <1>b DEF TakeFree, Call
  <2>2. CASE TakeNew(t)
    <3>1. PICK c \in Conns \ busy : held' = [held EXCEPT ![t] = @ \cup {c}]
      BY <2>2 DEF TakeNew
    <3>2. free = <<>> /\ free' = free /\ ~abort /\ abort' = abort
      BY <2>2 DEF TakeNew, Call
    <3>3. Listed = {} /\ Listed' = {} BY <3>2 DEF Listed
    <3>4. Cardinality(busy) = cur /\ cur < MaxConn
      BY <2>2, <3>2, <1>T, FS_CardinalityType DEF TakeNew, CanGrow, Counted, Accounting
    <3>5. Cardinality(busy) < Cap
      BY <3>4, <1>T, CapType, SizesAssumption DEF TypeOK
    <3>6. Listed \cup LeaseSpec!Leased = busy BY <1>L, <3>3
    <3>7. LeaseSpec!GrantNew(t, c)
      BY <3>1, <3>2, <3>3, <3>5, <3>6, SameCardinality DEF LeaseSpec!GrantNew
    <3> QED BY <3>7 DEF LeaseSpec!Next
  <2>3. CASE TakeNewFails(t) BY <2>3, <1>a DEF TakeNewFails
  <2>4. CASE TakeWaits(t) BY <2>4, <1>a DEF TakeWaits
  <2> QED BY <1>3, <2>1, <2>2, <2>3, <2>4 DEF Take
<1>4. ASSUME NEW t \in Clients, Spurious(t) \/ Expire(t)
      PROVE  [LeaseSpec!Next]_LeaseSpec!vars
  BY <1>4, <1>a DEF Spurious, Expire
<1>5. ASSUME NEW t \in Clients, Wake(t) PROVE [LeaseSpec!Next]_LeaseSpec!vars
  BY <1>5, <1>a, <1>b DEF Wake, WakeTakes, WakeAborts, WakeFindsNone
<1>6. ASSUME NEW t \in Clients, NEW c \in Conns, PutConn(t, c) PROVE LeaseSpec!Next
  <2>1. c \notin Listed BY <1>6, <1>T DEF PutConn, Exclusive
  <2>2. Listed' = Listed \cup {c} BY <1>6, <1>T, <2>1, AppendPlaces DEF PutConn
  <2>3. LeaseSpec!Return(t, c) BY <1>6, <2>2 DEF PutConn, LeaseSpec!Return
  <2> QED BY <2>3 DEF LeaseSpec!Next
<1>7. CASE UNCHANGED vars BY <1>7, <1>a DEF vars
<1>8. ASSUME NEW t \in Clients, NEW c \in Conns, PutUnknown(t, c)
      PROVE  [LeaseSpec!Next]_LeaseSpec!vars
  BY <1>7, <1>8 DEF PutUnknown
<1>9. CASE Finished BY <1>7, <1>9 DEF Finished
<1> QED BY <1>1, <1>2, <1>3, <1>4, <1>5, <1>6, <1>7, <1>8, <1>9 DEF Next

\* takeConn and putConn lease connections as Lease says: one client at a time, never
\* more than Cap connections, none from a destroyed pool (ConnPool.cpp:49-124).
THEOREM PoolImplementsLease == Spec => ImplementsLease
<1>1. Init => LeaseSpec!Init BY DEF Init, LeaseSpec!Init, Listed
<1> QED BY <1>1, InvariantHolds, LeaseStep, PTL DEF Spec, ImplementsLease, LeaseSpec!Spec

\* The number of connections is bounded and known (ConnPool.cpp:28, 39, 58, 85).
THEOREM RecordsAreRight == Spec => []RecordsRight
<1>1. TypeOK /\ Accounting => RecordsRight BY DEF RecordsRight
<1> QED BY <1>1, TypeCorrect, CurIsCount, PTL
=============================================================================
