---------------------------- MODULE PartsProofs -----------------------------
(***************************************************************************)
(* The parts that MCParts runs with variables of their own, for any value  *)
(* of their constants: the leak detector tells the truth; a queue hands    *)
(* over each value once and leaves none to sleepers; a pattern search      *)
(* finds the first occurrence; a socket of hiredis is its context's; a     *)
(* MySQL connection gives each client what is its own; a method of the     *)
(* Redis wrapper gives the reply to its own command; a string of hiredis   *)
(* is what was put into it, within its memory, and its hash table finds    *)
(* what was put there last.  Each part has an inductive invariant, a lemma *)
(* for each of its actions and a theorem.                                  *)
(***************************************************************************)
EXTENDS MemLeak, SyncQueue, Kmp, Connections, Data,
        SequenceTheorems, FiniteSetTheorems, WellFoundedInduction, TLAPS

-----------------------------------------------------------------------------
(* The leak detector                                                       *)

\* What is left of a call on address a: the file to make, the file and the block to give
\* back, or the block alone.
Opening(a) == <<[op |-> "open", ptr |-> a]>>
Freeing(a) == [i \in 1..2 |-> [op |-> Steps[i], ptr |-> a]]
Ending(a) == <<[op |-> "free", ptr |-> a]>>

Inside(th) == doing[th] # <<>>
Op(th) == Head(doing[th]).op
Ptr(th) == Head(doing[th]).ptr

LeakTypes ==
  /\ heap \subseteq Addresses /\ live \subseteq Addresses /\ files \subseteq Addresses
  /\ DOMAIN doing = Threads /\ doing = [th \in Threads |-> doing[th]]
  /\ \A th \in Threads : Inside(th) =>
       /\ Ptr(th) \in Addresses
       /\ doing[th] \in {Opening(Ptr(th)), Freeing(Ptr(th)), Ending(Ptr(th))}

\* An address belongs to the program, to one call, or to the allocator.  (Only the address
\* of a double free may belong to a call and to the allocator.)
Apart ==
  /\ live \subseteq heap
  /\ \A th \in Threads : Inside(th) =>
       Ptr(th) \notin live /\ (twice = {} \/ Op(th) = "open" => Ptr(th) \in heap)
  /\ \A t1, t2 \in Threads : t1 # t2 /\ Inside(t1) /\ Inside(t2) => Ptr(t1) # Ptr(t2)

\* A file is there for what the program holds and for what a call is about to unlink.
Filed ==
  /\ live \subseteq files
  /\ \A a \in files \ live : \E th \in Threads : Inside(th) /\ Op(th) = "unlink" /\ Ptr(th) = a
  /\ \A th \in Threads : Inside(th) /\ Op(th) = "unlink" => Ptr(th) \in files \cup twice

LeakInv == LeakTypes /\ Apart /\ Filed /\ NoFalseAlarm

-----------------------------------------------------------------------------
\* What a call does first, and what is left of it then.
LEMMA CallSteps ==
  ASSUME NEW a
  PROVE  /\ Opening(a) # <<>> /\ Freeing(a) # <<>> /\ Ending(a) # <<>>
         /\ Head(Opening(a)) = [op |-> "open", ptr |-> a] /\ Tail(Opening(a)) = <<>>
         /\ Head(Freeing(a)) = [op |-> "unlink", ptr |-> a] /\ Tail(Freeing(a)) = Ending(a)
         /\ Head(Ending(a)) = [op |-> "free", ptr |-> a] /\ Tail(Ending(a)) = <<>>
<1> DEFINE un == [op |-> "unlink", ptr |-> a]
           fr == [op |-> "free", ptr |-> a]
           op == [op |-> "open", ptr |-> a]
<1>1. ASSUME NEW x PROVE <<x>> # <<>> /\ Head(<<x>>) = x /\ Tail(<<x>>) = <<>> BY SMT
<1>2. ASSUME NEW x, NEW y, NEW s, s = <<x, y>>
      PROVE  s # <<>> /\ Head(s) = x /\ Tail(s) = <<y>>
  BY <1>2, SMT
<1>3. Freeing(a) = <<un, fr>>
  <2>1. Freeing(a)[1] = un /\ Freeing(a)[2] = fr BY SMT DEF Freeing, Steps
  <2>2. Freeing(a) = [i \in 1..2 |-> Freeing(a)[i]] BY SMT DEF Freeing
  <2> HIDE DEF un, fr
  <2> QED BY <2>1, <2>2, SMT
<1>4. Opening(a) = <<op>> /\ Ending(a) = <<fr>> BY DEF Opening, Ending
<1> HIDE DEF un, fr, op
<1>5. Opening(a) # <<>> /\ Head(Opening(a)) = op /\ Tail(Opening(a)) = <<>> BY <1>1, <1>4
<1>6. Ending(a) # <<>> /\ Head(Ending(a)) = fr /\ Tail(Ending(a)) = <<>> BY <1>1, <1>4
<1>7. Freeing(a) # <<>> /\ Head(Freeing(a)) = un /\ Tail(Freeing(a)) = <<fr>> BY <1>2, <1>3
<1> QED BY <1>4, <1>5, <1>6, <1>7 DEF un, fr, op

\* Only th's call changes, to what is left of it.
LEMMA OneCall ==
  ASSUME LeakTypes, NEW th \in Threads, NEW rest, doing' = [doing EXCEPT ![th] = rest]
  PROVE  /\ doing'[th] = rest /\ \A u \in Threads \ {th} : doing'[u] = doing[u]
         /\ DOMAIN doing' = Threads /\ doing' = [u \in Threads |-> doing'[u]]
  BY SMT DEF LeakTypes

LEMMA LeakInitHolds == Init => LeakInv
  BY SMT DEF Init, LeakInv, LeakTypes, Apart, Filed, NoFalseAlarm, Inside

LEMMA MallocStep == ASSUME LeakInv, NEW th \in Threads, __malloc(th) PROVE LeakInv'
<1>1. PICK a \in Addresses \ heap :
        heap' = heap \cup {a} /\ doing' = [doing EXCEPT ![th] = Opening(a)]
  BY DEF __malloc, Opening
<1>2. /\ doing[th] = <<>> /\ twice = {}
      /\ live' = live /\ files' = files /\ printed' = printed /\ twice' = twice
  BY DEF __malloc
<1>3. /\ doing'[th] = Opening(a) /\ \A u \in Threads \ {th} : doing'[u] = doing[u]
      /\ DOMAIN doing' = Threads /\ doing' = [u \in Threads |-> doing'[u]]
  BY <1>1, OneCall DEF LeakInv
<1>4. ~Inside(th) /\ Inside(th)' /\ Op(th)' = "open" /\ Ptr(th)' = a
  BY <1>2, <1>3, CallSteps DEF Inside, Op, Ptr
<1>5. \A u \in Threads \ {th} : Inside(u)' = Inside(u) /\ Op(u)' = Op(u) /\ Ptr(u)' = Ptr(u)
  BY <1>3 DEF Inside, Op, Ptr
<1>6. LeakTypes' BY <1>1, <1>2, <1>3, <1>4, <1>5 DEF LeakInv, LeakTypes
<1>7. Apart' BY <1>1, <1>2, <1>4, <1>5 DEF LeakInv, Apart
<1>8. Filed' BY <1>2, <1>4, <1>5 DEF LeakInv, Filed
<1> QED BY <1>2, <1>6, <1>7, <1>8 DEF LeakInv, NoFalseAlarm

LEMMA OpenStep == ASSUME LeakInv, NEW th \in Threads, open(th) PROVE LeakInv'
<1> DEFINE a == Ptr(th)
<1>1. Inside(th) /\ Op(th) = "open" BY DEF open, Does, Inside, Op
<1>2. a \in Addresses /\ doing[th] = Opening(a)
  <2>1. doing[th] \in {Opening(a), Freeing(a), Ending(a)} /\ a \in Addresses
    BY <1>1 DEF LeakInv, LeakTypes
  <2> QED BY <1>1, <2>1, CallSteps DEF Op
<1>3. /\ files' = files \cup {a} /\ live' = live \cup {a} /\ heap' = heap
      /\ printed' = printed /\ twice' = twice
  BY DEF open, Ptr
<1>4. /\ doing'[th] = <<>> /\ \A u \in Threads \ {th} : doing'[u] = doing[u]
      /\ DOMAIN doing' = Threads /\ doing' = [u \in Threads |-> doing'[u]]
  BY <1>2, OneCall, CallSteps DEF open, Finished, LeakInv
<1>5. ~Inside(th)' BY <1>4 DEF Inside
<1>6. \A u \in Threads \ {th} : Inside(u)' = Inside(u) /\ Op(u)' = Op(u) /\ Ptr(u)' = Ptr(u)
  BY <1>4 DEF Inside, Op, Ptr
<1>7. LeakTypes' BY <1>2, <1>3, <1>4, <1>5, <1>6 DEF LeakInv, LeakTypes
<1>8. Apart' BY <1>1, <1>3, <1>5, <1>6 DEF LeakInv, Apart
<1>9. Filed' BY <1>1, <1>3, <1>5, <1>6 DEF LeakInv, Filed
<1> QED BY <1>3, <1>7, <1>8, <1>9 DEF LeakInv, NoFalseAlarm

LEMMA FreeBeginsStep == ASSUME LeakInv, NEW th \in Threads, __free(th) PROVE LeakInv'
<1>1. PICK a \in live \cup (Addresses \ heap) :
        /\ live' = live \ {a} /\ twice' = twice \cup ({a} \ live)
        /\ doing' = [doing EXCEPT ![th] = Freeing(a)]
  BY DEF __free, Freeing
<1>2. /\ doing[th] = <<>> /\ twice = {}
      /\ heap' = heap /\ files' = files /\ printed' = printed
  BY DEF __free
<1>3. /\ doing'[th] = Freeing(a) /\ \A u \in Threads \ {th} : doing'[u] = doing[u]
      /\ DOMAIN doing' = Threads /\ doing' = [u \in Threads |-> doing'[u]]
  BY <1>1, OneCall DEF LeakInv
<1>4. ~Inside(th) /\ Inside(th)' /\ Op(th)' = "unlink" /\ Ptr(th)' = a
  BY <1>2, <1>3, CallSteps DEF Inside, Op, Ptr
<1>5. \A u \in Threads \ {th} : Inside(u)' = Inside(u) /\ Op(u)' = Op(u) /\ Ptr(u)' = Ptr(u)
  BY <1>3 DEF Inside, Op, Ptr
<1>6. a \in Addresses BY <1>1 DEF LeakInv, LeakTypes
<1>7. LeakTypes' BY <1>1, <1>2, <1>3, <1>4, <1>5, <1>6 DEF LeakInv, LeakTypes
<1>8. \A u \in Threads : Inside(u) => Ptr(u) # a /\ Ptr(u) \in heap
  BY <1>1, <1>2 DEF LeakInv, Apart
<1>9. (twice' = {} => a \in live) /\ a \notin live' /\ (a \in live => a \in heap)
  BY <1>1, <1>2 DEF LeakInv, Apart
<1>10. Apart' BY <1>1, <1>2, <1>4, <1>5, <1>8, <1>9 DEF LeakInv, Apart
<1>11. Filed'
  <2>1. live' \subseteq files' BY <1>1, <1>2 DEF LeakInv, Filed
  <2>2. ASSUME NEW q \in (files \ live)'
        PROVE  \E u \in Threads : (Inside(u) /\ Op(u) = "unlink" /\ Ptr(u) = q)'
    <3>1. CASE q = a BY <3>1, <1>4
    <3>2. CASE q # a
      <4>1. q \in files \ live BY <2>2, <3>2, <1>1, <1>2
      <4>2. PICK u \in Threads : Inside(u) /\ Op(u) = "unlink" /\ Ptr(u) = q
        BY <4>1 DEF LeakInv, Filed
      <4>3. u # th BY <4>2, <1>4
      <4> QED BY <4>2, <4>3, <1>5
    <3> QED BY <3>1, <3>2
  <2>3. a \in files' \cup twice' BY <1>1, <1>2 DEF LeakInv, Filed
  <2>4. \A u \in Threads : (Inside(u) /\ Op(u) = "unlink" => Ptr(u) \in files \cup twice)'
    BY <2>3, <1>1, <1>2, <1>4, <1>5 DEF LeakInv, Filed
  <2> QED BY <2>1, <2>2, <2>4 DEF Filed
<1> QED BY <1>1, <1>2, <1>7, <1>10, <1>11 DEF LeakInv, NoFalseAlarm

LEMMA UnlinkStep == ASSUME LeakInv, NEW th \in Threads, unlink(th) PROVE LeakInv'
<1> DEFINE a == Ptr(th)
<1>1. Inside(th) /\ Op(th) = "unlink" BY DEF unlink, Does, Inside, Op
<1>2. a \in Addresses /\ doing[th] = Freeing(a)
  <2>1. doing[th] \in {Opening(a), Freeing(a), Ending(a)} /\ a \in Addresses
    BY <1>1 DEF LeakInv, LeakTypes
  <2> QED BY <1>1, <2>1, CallSteps DEF Op
<1>3. /\ files' = files \ {a} /\ printed' = printed \cup ({a} \ files)
      /\ heap' = heap /\ live' = live /\ twice' = twice
  BY DEF unlink, Ptr
<1>4. /\ doing'[th] = Ending(a) /\ \A u \in Threads \ {th} : doing'[u] = doing[u]
      /\ DOMAIN doing' = Threads /\ doing' = [u \in Threads |-> doing'[u]]
  BY <1>2, OneCall, CallSteps DEF unlink, Finished, LeakInv
<1>5. Inside(th)' /\ Op(th)' = "free" /\ Ptr(th)' = a BY <1>4, CallSteps DEF Inside, Op, Ptr
<1>6. \A u \in Threads \ {th} : Inside(u)' = Inside(u) /\ Op(u)' = Op(u) /\ Ptr(u)' = Ptr(u)
  BY <1>4 DEF Inside, Op, Ptr
<1>7. LeakTypes' BY <1>2, <1>3, <1>4, <1>5, <1>6 DEF LeakInv, LeakTypes
<1>8. a \notin live /\ \A u \in Threads \ {th} : Inside(u) => Ptr(u) # a
  BY <1>1 DEF LeakInv, Apart
<1>9. Apart' BY <1>1, <1>3, <1>5, <1>6 DEF LeakInv, Apart
<1>10. Filed' BY <1>1, <1>3, <1>5, <1>6, <1>8 DEF LeakInv, Filed
<1>11. NoFalseAlarm' BY <1>1, <1>3 DEF LeakInv, Filed, NoFalseAlarm
<1> QED BY <1>7, <1>9, <1>10, <1>11 DEF LeakInv

LEMMA FreeStep == ASSUME LeakInv, NEW th \in Threads, free(th) PROVE LeakInv'
<1> DEFINE a == Ptr(th)
<1>1. Inside(th) /\ Op(th) = "free" BY DEF free, Does, Inside, Op
<1>2. doing[th] = Ending(a)
  <2>1. doing[th] \in {Opening(a), Freeing(a), Ending(a)} BY <1>1 DEF LeakInv, LeakTypes
  <2> QED BY <1>1, <2>1, CallSteps DEF Op
<1>3. heap' = heap \ {a} /\ UNCHANGED <<live, files, printed, twice>> BY DEF free, Ptr
<1>4. /\ doing'[th] = <<>> /\ \A u \in Threads \ {th} : doing'[u] = doing[u]
      /\ DOMAIN doing' = Threads /\ doing' = [u \in Threads |-> doing'[u]]
  BY <1>2, OneCall, CallSteps DEF free, Finished, LeakInv
<1>5. ~Inside(th)' BY <1>4 DEF Inside
<1>6. \A u \in Threads \ {th} : Inside(u)' = Inside(u) /\ Op(u)' = Op(u) /\ Ptr(u)' = Ptr(u)
  BY <1>4 DEF Inside, Op, Ptr
<1>7. LeakTypes' BY <1>3, <1>4, <1>5, <1>6 DEF LeakInv, LeakTypes
<1>8. a \notin live /\ \A u \in Threads \ {th} : Inside(u) => Ptr(u) # a
  BY <1>1 DEF LeakInv, Apart
<1>9. Apart' BY <1>3, <1>5, <1>6, <1>8 DEF LeakInv, Apart
<1>10. Filed' BY <1>1, <1>3, <1>5, <1>6 DEF LeakInv, Filed
<1> QED BY <1>3, <1>7, <1>9, <1>10 DEF LeakInv, NoFalseAlarm

LEMMA LeakStep == LeakInv /\ [Next]_vars => LeakInv'
<1> SUFFICES ASSUME LeakInv, [Next]_vars PROVE LeakInv' OBVIOUS
<1>1. CASE UNCHANGED vars
  BY <1>1 DEF vars, LeakInv, LeakTypes, Apart, Filed, NoFalseAlarm, Inside, Op, Ptr
<1>2. CASE \E th \in Threads : __malloc(th) \/ open(th) \/ __free(th) \/ unlink(th) \/ free(th)
  BY <1>2, MallocStep, OpenStep, FreeBeginsStep, UnlinkStep, FreeStep
<1> QED BY <1>1, <1>2 DEF Next

\* The detector tells the truth: what the program holds has its file, any other file is of a
\* block being freed, and what is printed as freed twice was (memleak_detector.c:11-35).
THEOREM TruthIsTold == Spec => []ToldTheTruth
<1>1. LeakInv => ToldTheTruth
  <2> SUFFICES ASSUME LeakInv PROVE ToldTheTruth OBVIOUS
  <2>1. ASSUME NEW a \in files \ live
        PROVE  \E th \in Threads : \E i \in DOMAIN doing[th] : doing[th][i].ptr = a
    <3>1. PICK th \in Threads : Inside(th) /\ Op(th) = "unlink" /\ Ptr(th) = a
      BY DEF LeakInv, Filed
    <3>2. doing[th] = Freeing(a)
      <4>1. doing[th] \in {Opening(a), Freeing(a), Ending(a)} BY <3>1 DEF LeakInv, LeakTypes
      <4> QED BY <3>1, <4>1, CallSteps DEF Op
    <3>3. 1 \in DOMAIN Freeing(a) /\ Freeing(a)[1].ptr = a BY SMT DEF Freeing
    <3> QED BY <3>2, <3>3
  <2> QED BY <2>1 DEF LeakInv, Filed, ToldTheTruth, FilesTell
<1> QED BY <1>1, LeakInitHolds, LeakStep, PTL DEF Spec

-----------------------------------------------------------------------------
(* The queue of condTest.cpp                                               *)

\* A taker that will take again.
Due == {th \in Takers \ waiting : Len(read[th]) + Len(holds[th]) < Wanted}

QueueTypes ==
  /\ put \in 0..Puts /\ queue \in Seq(Nat) /\ taken \in Seq(Nat) /\ waiting \subseteq Takers
  /\ DOMAIN holds = Takers /\ DOMAIN read = Takers
  /\ \A th \in Takers : holds[th] \in Seq(Nat) /\ Len(holds[th]) =< 1
  /\ \A th \in Takers : read[th] \in Seq([value : Nat, of : Nat])
  /\ \A th \in Takers : Len(read[th]) + Len(holds[th]) =< Wanted

\* A taker that waits has nothing in hand, and wants more.
Waiters == \A th \in waiting : holds[th] = <<>> /\ Len(read[th]) < Wanted

\* While somebody waits, every value in the queue has a taker that will come for it.
Expected == waiting # {} => Len(queue) =< Cardinality(Due)

QueueInv == QueueTypes /\ InOrder /\ Waiters /\ Expected

\* Two sequences that make up 1..n, number by number.
MakeUp(s, u, n) ==
  /\ n = Len(s) + Len(u)
  /\ \A i \in 1..Len(s) : s[i] = i
  /\ \A i \in 1..Len(u) : u[i] = Len(s) + i

LEMMA Numbered ==
  ASSUME NEW s \in Seq(Nat), NEW u \in Seq(Nat), NEW n \in Nat
  PROVE  s \o u = [i \in 1..n |-> i] <=> MakeUp(s, u, n)
<1> DEFINE st == s \o u
<1>1. /\ Len(s) \in Nat /\ Len(u) \in Nat
      /\ st \in Seq(Nat) /\ Len(st) = Len(s) + Len(u)
      /\ \A i \in 1..Len(s) + Len(u) : st[i] = IF i <= Len(s) THEN s[i] ELSE u[i - Len(s)]
  BY ConcatProperties, LenProperties
<1>2. st = [i \in 1..Len(s) + Len(u) |-> st[i]] /\ DOMAIN st = 1..Len(s) + Len(u)
  BY <1>1, LenProperties
<1>3. \A i \in 1..Len(u) : Len(s) + i \in 1..Len(s) + Len(u) /\ st[Len(s) + i] = u[i]
  BY <1>1
<1>4. \A i \in 1..Len(s) : i \in 1..Len(s) + Len(u) /\ st[i] = s[i]
  BY <1>1
<1> HIDE DEF st
<1>5. ASSUME st = [i \in 1..n |-> i]
      PROVE  /\ n = Len(s) + Len(u)
             /\ \A i \in 1..Len(s) : s[i] = i
             /\ \A i \in 1..Len(u) : u[i] = Len(s) + i
  <2>1. DOMAIN st = 1..n
    BY <1>5
  <2>2. n = Len(s) + Len(u)
    <3>1. \A a, b \in Nat : 1..a = 1..b => a = b
      <4> SUFFICES ASSUME NEW a \in Nat, NEW b \in Nat, 1..a = 1..b PROVE a =< b
        OBVIOUS
      <4> QED OBVIOUS
    <3> QED BY <1>1, <1>2, <2>1, <3>1
  <2> QED BY <1>1, <1>3, <1>4, <1>5, <2>2
<1>6. ASSUME n = Len(s) + Len(u), \A i \in 1..Len(s) : s[i] = i,
             \A i \in 1..Len(u) : u[i] = Len(s) + i
      PROVE  st = [i \in 1..n |-> i]
  <2>1. \A i \in 1..n : st[i] = i
    <3> SUFFICES ASSUME NEW i \in 1..n PROVE st[i] = i
      OBVIOUS
    <3>1. CASE i \in 1..Len(s)
      BY <1>4, <1>6, <3>1
    <3>2. CASE i \notin 1..Len(s)
      <4>1. i - Len(s) \in 1..Len(u) /\ Len(s) + (i - Len(s)) = i
        BY <1>1, <1>6, <3>2
      <4> QED BY <1>3, <1>6, <4>1
    <3> QED BY <3>1, <3>2
  <2> QED BY <1>2, <1>6, <2>1
<1> QED BY <1>5, <1>6 DEF st, MakeUp

LEMMA DueFinite == IsFiniteSet(Due) /\ Cardinality(Due) \in Nat
  BY QueueAssumption, FS_Subset, FS_CardinalityType DEF Due
LEMMA DueFinite_ == IsFiniteSet(Due)' /\ Cardinality(Due)' \in Nat
  BY QueueAssumption, FS_Subset, FS_CardinalityType DEF Due

LEMMA QueueInitHolds == QueueInit => QueueInv
<1> SUFFICES ASSUME QueueInit PROVE QueueInv
  OBVIOUS
<1>1. \A S : <<>> \in Seq(S) /\ Len(<<>>) = 0
  BY EmptySeq
<1>2. QueueTypes
  BY <1>1, QueueAssumption DEF QueueTypes, QueueInit
<1>3. \A th \in Takers : Mine(th) = {}
  BY <1>1 DEF Mine, QueueInit
<1>4. InOrder
  <2>1. taken \o queue = [i \in 1..put |-> i]
    BY <1>1, Numbered DEF QueueInit, MakeUp
  <2>2. UNION {Mine(th) : th \in Takers} = {}
    BY <1>3
  <2>3. 1..Len(taken) = {}
    BY <1>1 DEF QueueInit
  <2> QED BY <1>1, <1>3, <2>1, <2>2, <2>3, FS_EmptySet DEF InOrder, QueueInit
<1> QED BY <1>2, <1>4 DEF QueueInv, Waiters, Expected, QueueInit

LEMMA PutStep == QueueInv /\ Put => QueueInv'
<1> SUFFICES ASSUME QueueInv, Put PROVE QueueInv'
  OBVIOUS
<1>1. /\ put < Puts /\ queue' = Append(queue, put + 1) /\ put' = put + 1
      /\ UNCHANGED <<holds, taken, read>> /\ waiting' \subseteq waiting
      /\ waiting = {} \/ \E th \in waiting : waiting' = waiting \ {th}
  BY DEF Put, Notify
<1>2. queue' \in Seq(Nat) /\ Len(queue') = Len(queue) + 1
  BY <1>1, AppendProperties DEF QueueInv, QueueTypes
<1>3. QueueTypes'
  BY <1>1, <1>2, QueueAssumption DEF QueueInv, QueueTypes
<1>4. \A th \in Takers : Mine(th)' = Mine(th)
  BY <1>1 DEF Mine
<1>5. InOrder'
  <2>1. (taken \o queue)' = [i \in 1..put' |-> i]
    <3>1. /\ queue \in Seq(Nat) /\ taken \in Seq(Nat) /\ put \in Nat
          /\ taken \o queue = [i \in 1..put |-> i]
      BY DEF QueueInv, QueueTypes, InOrder
    <3>2. /\ Append(queue, put + 1) \in Seq(Nat) /\ Len(Append(queue, put + 1)) = Len(queue) + 1
          /\ \A i \in 1..Len(queue) : Append(queue, put + 1)[i] = queue[i]
          /\ Append(queue, put + 1)[Len(queue) + 1] = put + 1
      BY <3>1, AppendProperties
    <3>3. /\ put = Len(taken) + Len(queue) /\ Len(taken) \in Nat /\ Len(queue) \in Nat
          /\ \A i \in 1..Len(taken) : taken[i] = i
          /\ \A i \in 1..Len(queue) : queue[i] = Len(taken) + i
      BY <3>1, Numbered, LenProperties DEF MakeUp
    <3> DEFINE q == Append(queue, put + 1)
    <3> HIDE DEF q
    <3>4. \A i \in 1..Len(q) : q[i] = Len(taken) + i
      BY <3>2, <3>3 DEF q
    <3>5. taken \o q = [i \in 1..put + 1 |-> i]
      <4>1. q \in Seq(Nat) /\ put + 1 \in Nat /\ put + 1 = Len(taken) + Len(q)
        BY <3>1, <3>2, <3>3 DEF q
      <4>2. \A i \in 1..Len(taken) : taken[i] = i
        BY <3>3
      <4>3. taken \in Seq(Nat)
        BY <3>1
      <4> HIDE DEF q
      <4>4. MakeUp(taken, q, put + 1)
        BY <3>4, <4>1, <4>2 DEF MakeUp
      <4> QED BY <4>1, <4>3, <4>4, Numbered
    <3> QED BY <1>1, <3>5 DEF q
  <2>2. UNION {Mine(th)' : th \in Takers} = UNION {Mine(th) : th \in Takers}
    BY <1>4
  <2> QED BY <1>1, <1>4, <2>1, <2>2 DEF QueueInv, InOrder
<1>6. Waiters'
  BY <1>1 DEF QueueInv, Waiters
<1>7. Expected'
  <2> SUFFICES ASSUME waiting' # {} PROVE Len(queue') =< Cardinality(Due')
    BY DEF Expected
  <2>1. PICK th \in waiting : waiting' = waiting \ {th}
    BY <1>1
  <2>2. Due' = Due \cup {th} /\ th \notin Due
    <3>1. holds[th] = <<>> /\ Len(read[th]) < Wanted /\ Len(<<>>) = 0 /\ Len(read[th]) \in Nat
      BY DEF QueueInv, Waiters, QueueTypes
    <3> QED BY <1>1, <2>1, <3>1, SMTT(60) DEF Due, QueueInv, QueueTypes
  <2>3. Cardinality(Due') = Cardinality(Due) + 1
    BY <2>2, DueFinite, FS_AddElement
  <2>4. Len(queue) =< Cardinality(Due) /\ Len(queue) \in Nat
    BY <2>1 DEF QueueInv, Expected, QueueTypes
  <2> QED BY <1>2, <2>3, <2>4, DueFinite
<1> QED BY <1>3, <1>5, <1>6, <1>7 DEF QueueInv

\* A value that moves from the queue to a taker is the next one.
LEMMA TakeStep == ASSUME QueueInv, NEW th \in Takers, Take(th) PROVE QueueInv'
<1>3. holds[th] = <<>> /\ Len(read[th]) < Wanted
  <2>1. holds[th] = <<>> /\ Len(read[th]) # Wanted
    BY DEF Take, Awake, Busy, Done
  <2>2. Len(read[th]) + Len(holds[th]) =< Wanted /\ Len(read[th]) \in Nat /\ Len(holds[th]) = 0
    BY <2>1, LenProperties, EmptySeq DEF QueueInv, QueueTypes
  <2> QED BY <2>1, <2>2, QueueAssumption
<1>1. CASE queue = <<>>
  <2>1. waiting' = waiting \cup {th} /\ UNCHANGED <<queue, holds, taken, put, read>>
    BY <1>1 DEF Take
  <2>2. \A u \in Takers : Mine(u)' = Mine(u)
    BY <2>1 DEF Mine
  <2>6. UNION {Mine(u)' : u \in Takers} = UNION {Mine(u) : u \in Takers}
    BY <2>2
  <2>7. InOrder'
    BY <2>1, <2>2, <2>6 DEF QueueInv, InOrder
  <2>3. QueueTypes' /\ InOrder'
    BY <2>1, <2>7 DEF QueueInv, QueueTypes
  <2>4. Waiters'
    BY <1>3, <2>1 DEF QueueInv, Waiters
  <2>5. Expected'
    BY <1>1, <2>1, DueFinite_, EmptySeq DEF Expected
  <2> QED BY <2>3, <2>4, <2>5 DEF QueueInv
<1>2. CASE queue # <<>>
  <2> DEFINE v == Head(queue)
  <2>1. /\ queue' = Tail(queue) /\ taken' = Append(taken, v) /\ holds' = [holds EXCEPT ![th] = <<v>>]
        /\ UNCHANGED <<waiting, put, read>> /\ holds[th] = <<>> /\ th \notin waiting
    BY <1>2 DEF Take, Awake, Busy
  <2>2. /\ v \in Nat /\ queue' \in Seq(Nat) /\ Len(queue') = Len(queue) - 1
        /\ taken' \in Seq(Nat) /\ Len(taken') = Len(taken) + 1
    BY <1>2, <2>1, HeadTailProperties, AppendProperties, SMTT(60) DEF QueueInv, QueueTypes
  <2>10. /\ <<v>> \in Seq(Nat) /\ Len(<<v>>) = 1
         /\ \A u \in Takers : holds'[u] = IF u = th THEN <<v>> ELSE holds[u]
         /\ DOMAIN holds' = Takers
    BY <2>1, <2>2 DEF QueueInv, QueueTypes
  <2>11. Len(read[th]) + 1 =< Wanted
    <3>1. Len(read[th]) \in Nat
      BY LenProperties DEF QueueInv, QueueTypes
    <3> QED BY <1>3, <3>1, QueueAssumption
  <2>3. QueueTypes'
    <3> HIDE DEF v
    <3>1. \A u \in Takers :
            /\ holds'[u] \in Seq(Nat) /\ Len(holds'[u]) =< 1
            /\ Len(read'[u]) + Len(holds'[u]) =< Wanted
      <4> SUFFICES ASSUME NEW u \in Takers
                   PROVE  /\ holds'[u] \in Seq(Nat) /\ Len(holds'[u]) =< 1
                          /\ Len(read'[u]) + Len(holds'[u]) =< Wanted
        OBVIOUS
      <4>1. CASE u = th
        BY <2>1, <2>10, <2>11, <4>1
      <4>2. CASE u # th
        <5>1. holds'[u] = holds[u] /\ read'[u] = read[u]
          BY <2>1, <2>10, <4>2
        <5> QED BY <5>1 DEF QueueInv, QueueTypes
      <4> QED BY <4>1, <4>2
    <3> QED BY <2>1, <2>2, <2>10, <3>1 DEF QueueInv, QueueTypes
  <2>4. taken' \o queue' = [i \in 1..put' |-> i] /\ v = Len(taken) + 1
    <3>1. /\ queue \in Seq(Nat) /\ taken \in Seq(Nat) /\ put \in Nat
          /\ taken \o queue = [i \in 1..put |-> i]
      BY DEF QueueInv, QueueTypes, InOrder
    <3>2. /\ put = Len(taken) + Len(queue) /\ Len(taken) \in Nat /\ Len(queue) \in Nat
          /\ \A i \in 1..Len(taken) : taken[i] = i
          /\ \A i \in 1..Len(queue) : queue[i] = Len(taken) + i
      BY <3>1, Numbered, LenProperties DEF MakeUp
    <3>3. Len(queue) # 0 /\ Head(queue) = queue[1]
      BY <1>2, <3>1, EmptySeq
    <3>4. v = Len(taken) + 1
      BY <3>2, <3>3
    <3>5. /\ \A i \in 1..Len(queue) - 1 : Tail(queue)[i] = queue[i + 1]
          /\ \A i \in 1..Len(taken) : Append(taken, v)[i] = taken[i]
          /\ Append(taken, v)[Len(taken) + 1] = v
      BY <1>2, <2>2, <3>1, HeadTailProperties, AppendProperties
    <3> HIDE DEF v
    <3>6. \A i \in 1..Len(taken') : taken'[i] = i
      BY <2>1, <2>2, <3>2, <3>4, <3>5
    <3>7. \A i \in 1..Len(queue') : queue'[i] = Len(taken') + i
      <4> SUFFICES ASSUME NEW i \in 1..Len(queue') PROVE queue'[i] = Len(taken') + i
        OBVIOUS
      <4>1. i \in 1..Len(queue) - 1 /\ i + 1 \in 1..Len(queue)
        BY <2>2, <3>2
      <4> QED BY <2>1, <2>2, <3>2, <3>5, <4>1
    <3>8. put' = Len(taken') + Len(queue') /\ put' \in Nat
      BY <2>1, <2>2, <3>1, <3>2
    <3> QED BY <2>2, <3>4, <3>6, <3>7, <3>8, Numbered, ZenonT(60) DEF MakeUp
  <2>5. Mine(th)' = Mine(th) \cup {v} /\ \A t2 \in Takers \ {th} : Mine(t2)' = Mine(t2)
    BY <2>1, SMTT(60) DEF Mine, QueueInv, QueueTypes
  <2>6. v \notin UNION {Mine(u) : u \in Takers} /\ Len(taken) \in Nat
    <3>1. Len(taken) \in Nat /\ UNION {Mine(u) : u \in Takers} = 1..Len(taken)
      BY LenProperties DEF QueueInv, InOrder, QueueTypes
    <3> HIDE DEF v
    <3>2. Len(taken) + 1 \notin 1..Len(taken)
      BY <3>1
    <3> QED BY <2>4, <3>1, <3>2
  <2>7. InOrder'
    <3>1. UNION {Mine(u)' : u \in Takers} = 1..Len(taken')
      <4>1. UNION {Mine(u)' : u \in Takers} = (UNION {Mine(u) : u \in Takers}) \cup {v}
        BY <2>5
      <4>2. UNION {Mine(u) : u \in Takers} = 1..Len(taken)
        BY DEF QueueInv, InOrder
      <4> HIDE DEF v
      <4>3. 1..Len(taken') = 1..Len(taken) \cup {v}
        BY <2>2, <2>4, <2>6
      <4> QED BY <4>1, <4>2, <4>3
    <3>2. \A t1, t2 \in Takers : t1 # t2 => Mine(t1)' \cap Mine(t2)' = {}
      BY <2>5, <2>6 DEF QueueInv, InOrder
    <3>3. \A u \in Takers : Cardinality(Mine(u)') = Len(read'[u]) + Len(holds'[u])
      <4>1. IsFiniteSet(Mine(th)) /\ Cardinality(Mine(th)) = Len(read[th])
        <5>1. Mine(th) \subseteq 1..Len(taken)
          BY DEF QueueInv, InOrder
        <5>2. IsFiniteSet(1..Len(taken))
          BY <2>6, FS_Interval
        <5>3. IsFiniteSet(Mine(th))
          BY <5>1, <5>2, FS_Subset
        <5>4. Len(read[th]) \in Nat /\ Len(holds[th]) = 0
          BY <2>1, LenProperties, EmptySeq DEF QueueInv, QueueTypes
        <5>5. Cardinality(Mine(th)) = Len(read[th]) + Len(holds[th])
          BY DEF QueueInv, InOrder
        <5> QED BY <5>3, <5>4, <5>5
      <4>2. Cardinality(Mine(th)') = Len(read[th]) + 1
        BY <2>5, <2>6, <4>1, FS_AddElement
      <4>3. \A u \in Takers \ {th} : holds'[u] = holds[u]
        BY <2>1 DEF QueueInv, QueueTypes
      <4>4. Len(holds'[th]) = 1
        BY <2>1 DEF QueueInv, QueueTypes
      <4> QED BY <2>1, <2>5, <4>2, <4>3, <4>4 DEF QueueInv, InOrder
    <3> QED BY <2>4, <3>1, <3>2, <3>3 DEF InOrder
  <2>8. Waiters'
    BY <2>1 DEF QueueInv, Waiters, QueueTypes
  <2>9. Expected'
    <3> SUFFICES ASSUME waiting' # {} PROVE Len(queue') =< Cardinality(Due')
      BY DEF Expected
    <3> HIDE DEF v
    <3>1. \A u \in Takers \ {th} : u \in Due' <=> u \in Due
      BY <2>1, <2>10 DEF Due
    <3>2. Due' \subseteq Takers /\ Due \subseteq Takers
      BY DEF Due
    <3>3. th \in Due /\ Len(read[th]) + 1 =< Wanted
      <4>1. Len(holds[th]) = 0 /\ Len(read[th]) \in Nat
        BY <2>1, LenProperties, EmptySeq DEF QueueInv, QueueTypes
      <4>2. Len(read[th]) + Len(holds[th]) < Wanted
        BY <1>3, <4>1
      <4>3. th \in Takers \ waiting
        BY <2>1
      <4> QED BY <2>11, <4>2, <4>3 DEF Due
    <3>4. Due' = Due \/ Due' = Due \ {th}
      <4>1. CASE th \in Due'
        BY <3>1, <3>2, <3>3, <4>1
      <4>2. CASE th \notin Due'
        BY <3>1, <3>2, <3>3, <4>2
      <4> QED BY <4>1, <4>2
    <3>5. Cardinality(Due \ {th}) = Cardinality(Due) - 1
      BY <3>3, DueFinite, FS_RemoveElement
    <3>6. Len(queue) \in Nat /\ Len(queue) =< Cardinality(Due)
      BY <2>1, LenProperties DEF QueueInv, QueueTypes, Expected
    <3>7. Cardinality(Due') >= Cardinality(Due) - 1
      BY <3>4, <3>5, DueFinite
    <3>8. Len(queue') = Len(queue) - 1 /\ Cardinality(Due) \in Nat /\ Cardinality(Due') \in Nat
      BY <2>2, DueFinite, DueFinite_
    <3> QED BY <3>6, <3>7, <3>8
  <2> QED BY <2>3, <2>7, <2>8, <2>9 DEF QueueInv
<1> QED BY <1>1, <1>2

LEMMA ReadStep == ASSUME QueueInv, NEW th \in Takers, Read(th) PROVE QueueInv'
<1>1. PICK v \in {Garbage, holds[th][1]} \cup (holds[th][1] + 1)..put :
        read' = [read EXCEPT ![th] = Append(@, [value |-> v, of |-> holds[th][1]])]
  BY DEF Read
<1>2. holds' = [holds EXCEPT ![th] = <<>>] /\ UNCHANGED <<queue, put, waiting, taken>> /\ holds[th] # <<>>
  BY DEF Read, Busy
<1> DEFINE w == holds[th][1]
           e == [value |-> v, of |-> w]
<1>3. Len(holds[th]) = 1 /\ w \in Nat /\ v \in Nat /\ holds[th] = <<w>>
  <2>1. holds[th] \in Seq(Nat) /\ Len(holds[th]) =< 1 /\ put \in Nat
    BY DEF QueueInv, QueueTypes
  <2>2. Len(holds[th]) = 1 /\ holds[th][1] \in Nat
    <3>1. Len(holds[th]) \in Nat \ {0}
      BY <1>2, <2>1, EmptySeq
    <3>3. \A n \in Nat \ {0} : n =< 1 => n = 1
      OBVIOUS
    <3>2. Len(holds[th]) = 1
      BY <2>1, <3>1, <3>3
    <3> QED BY <2>1, <3>2, ElementOfSeq
  <2> QED BY <2>1, <2>2 DEF Garbage
<1> HIDE DEF w
<1>4. /\ read'[th] = Append(read[th], e) /\ read'[th] \in Seq([value : Nat, of : Nat])
      /\ Len(read'[th]) = Len(read[th]) + 1
      /\ \A u \in Takers \ {th} : read'[u] = read[u] /\ holds'[u] = holds[u]
      /\ holds'[th] = <<>>
  BY <1>1, <1>2, <1>3, AppendProperties DEF QueueInv, QueueTypes, w
<1>12. \A u \in Takers : Len(read'[u]) + Len(holds'[u]) = Len(read[u]) + Len(holds[u])
  <2>1. Len(holds'[th]) = 0 /\ Len(read[th]) \in Nat
    BY <1>4, LenProperties, EmptySeq DEF QueueInv, QueueTypes
  <2>2. Len(read'[th]) + Len(holds'[th]) = Len(read[th]) + Len(holds[th])
    BY <1>3, <1>4, <2>1
  <2> QED BY <1>4, <2>2
<1>5. QueueTypes'
  <2>1. \A u \in Takers :
          holds'[u] \in Seq(Nat) /\ Len(holds'[u]) =< 1 /\ read'[u] \in Seq([value : Nat, of : Nat])
    <3>1. holds'[th] \in Seq(Nat) /\ Len(holds'[th]) = 0
      BY <1>4, EmptySeq
    <3>4. 0 =< 1
      OBVIOUS
    <3> SUFFICES ASSUME NEW u \in Takers
                 PROVE  /\ holds'[u] \in Seq(Nat) /\ Len(holds'[u]) =< 1
                        /\ read'[u] \in Seq([value : Nat, of : Nat])
      OBVIOUS
    <3>2. CASE u = th
      BY <1>4, <3>1, <3>2, <3>4
    <3>3. CASE u # th
      BY <1>4, <3>3 DEF QueueInv, QueueTypes
    <3> QED BY <3>2, <3>3
  <2> QED BY <1>1, <1>2, <1>12, <2>1 DEF QueueInv, QueueTypes
<1>6. \A u \in Takers : Mine(u)' = Mine(u)
  <2>1. Mine(th)' = Mine(th)
    <3>1. Mine(th) = {read[th][i].of : i \in DOMAIN read[th]} \cup {w}
      BY <1>3 DEF Mine, w
    <3> DEFINE Reads == [value : Nat, of : Nat]
    <3>6. read[th] \in Seq(Reads) /\ e \in Reads /\ e.of = w
      BY <1>3 DEF QueueInv, QueueTypes
    <3>7. DOMAIN read[th] = 1..Len(read[th]) /\ DOMAIN read'[th] = 1..Len(read'[th]) /\ Len(read[th]) \in Nat
      BY <1>4, <3>6, LenProperties
    <3> HIDE DEF Reads, e
    <3>8. /\ \A i \in 1..Len(read[th]) : read'[th][i] = read[th][i]
          /\ read'[th][Len(read[th]) + 1] = e
      BY <1>4, <3>6, AppendProperties
    <3>2. DOMAIN read'[th] = DOMAIN read[th] \cup {Len(read[th]) + 1}
      BY <1>4, <3>7
    <3>3. \A i \in DOMAIN read[th] : read'[th][i] = read[th][i]
      BY <3>7, <3>8
    <3>4. read'[th][Len(read[th]) + 1].of = w
      BY <3>6, <3>8
    <3>5. Mine(th)' = {read'[th][i].of : i \in DOMAIN read'[th]}
      BY <1>4, SMTT(60) DEF Mine
    <3> QED BY <3>1, <3>2, <3>3, <3>4, <3>5
  <2>2. \A u \in Takers \ {th} : Mine(u)' = Mine(u)
    BY <1>4 DEF Mine
  <2> QED BY <2>1, <2>2
<1>8. InOrder'
  <2>1. UNION {Mine(u)' : u \in Takers} = UNION {Mine(u) : u \in Takers}
    BY <1>6
  <2> QED BY <1>2, <1>6, <1>12, <2>1 DEF QueueInv, InOrder
<1>9. Waiters'
  BY <1>2, <1>4 DEF QueueInv, Waiters, QueueTypes
<1>10. Due' = Due
  BY <1>2, <1>12 DEF Due
<1>11. Expected'
  BY <1>2, <1>10 DEF QueueInv, Expected
<1> QED BY <1>5, <1>8, <1>9, <1>11 DEF QueueInv

LEMMA QueueInvRight == QueueInv => QueueRight
<1> SUFFICES ASSUME QueueInv, \A th \in Takers : th \in waiting \/ Done(th), waiting # {}
             PROVE  queue = <<>>
  BY DEF QueueInv, QueueRight, NoneLeft
<1>1. Due = {}
  BY DEF Due, Done, QueueInv, QueueTypes
<1>2. Len(queue) = 0
  BY <1>1, FS_EmptySet DEF QueueInv, Expected, QueueTypes
<1> QED BY <1>2, EmptySeq DEF QueueInv, QueueTypes

\* Threads that share a queue get each value once, in the order it was put, and none sleeps
\* while a value it wants is there (Take and Put, condTest.cpp:17-33, 58-74).
THEOREM QueueIsRight == QueueSpec => []QueueRight
<1>1. QueueInv /\ [QueueNext]_queueVars => QueueInv'
  <2>1. QueueInv /\ UNCHANGED queueVars => QueueInv'
    <3> SUFFICES ASSUME QueueInv, UNCHANGED queueVars PROVE QueueInv'
      OBVIOUS
    <3>1. UNCHANGED <<queue, put, waiting, holds, taken, read>>
      BY DEF queueVars
    <3>2. \A u \in Takers : Mine(u)' = Mine(u)
      BY <3>1 DEF Mine
    <3>3. UNION {Mine(u)' : u \in Takers} = UNION {Mine(u) : u \in Takers}
      BY <3>2
    <3>4. Due' = Due
      BY <3>1 DEF Due
    <3> QED BY <3>1, <3>2, <3>3, <3>4 DEF QueueInv, QueueTypes, InOrder, Waiters, Expected
  <2> QED BY <2>1, PutStep, TakeStep, ReadStep DEF QueueNext
<1> QED BY <1>1, QueueInitHolds, QueueInvRight, PTL DEF QueueSpec

-----------------------------------------------------------------------------
(* The pattern search                                                      *)

\* The first k characters of the pattern are the last k of its first m.
Border(k, m) == k < m /\ \A i \in 1..k : pattern[i] = pattern[m - k + i]

\* The pattern is in the text after i characters.
Here(i) == i + Len(pattern) <= Len(text) /\ \A k \in 1..Len(pattern) : text[i + k] = pattern[k]

SearchTypes ==
  /\ Len(text) \in Nat /\ Len(pattern) \in Nat \ {0}
  /\ text \in Seq(Chars) /\ pattern \in Seq(Chars) /\ next \in Seq(Nat)
  /\ prefixTail \in Nat /\ subfixTail \in 1..Len(pattern) /\ Len(next) = subfixTail
  /\ t \in 0..Len(text) /\ p \in 0..t /\ result \in Int
  /\ result = Searching => p < Len(pattern)
  /\ Making => t = 0 /\ p = 0 /\ result = Searching

\* An entry is the length of the longest border of a prefix.
TableRight ==
  \A m \in 1..subfixTail :
    next[m] < m /\ Border(next[m], m) /\ \A k \in Nat : Border(k, m) => k <= next[m]

\* make_next has come to a border of the prefix entered last, and no longer one goes on with
\* the next character.
PrefixRight ==
  /\ Border(prefixTail, subfixTail)
  /\ Making => \A k \in Nat : k > prefixTail /\ Border(k, subfixTail) =>
                                pattern[k + 1] # pattern[subfixTail + 1]

\* kmp has matched p characters that end at t, and passed no occurrence.
TextRight ==
  /\ result = Searching =>
       /\ \A i \in 1..p : text[t - p + i] = pattern[i]
       /\ \A i \in 0..(t - p - 1) : ~Here(i)
  /\ result # Searching =>
       \/ result = -1 /\ \A i \in Nat : ~Here(i)
       \/ result \in Nat /\ Here(result) /\ \A i \in 0..(result - 1) : ~Here(i)

SearchInv == SearchTypes /\ TableRight /\ PrefixRight /\ TextRight

-----------------------------------------------------------------------------
\* An occurrence, character by character.
LEMMA HereIsOccurs ==
  ASSUME SearchTypes, NEW i \in Nat
  PROVE  Here(i) <=> Occurs(i)
<1> DEFINE n == Len(pattern)
           s == SubSeq(text, i + 1, i + n)
<1>1. n \in Nat /\ Len(text) \in Nat /\ text \in Seq(Chars) /\ pattern \in Seq(Chars)
  BY DEF SearchTypes
<1>2. ASSUME i + n <= Len(text)
      PROVE  s \in Seq(Chars) /\ Len(s) = n /\ \A k \in 1..n : s[k] = text[i + k]
  <2>1. \A k \in (i + 1)..(i + n) : text[k] \in Chars
    BY <1>1, <1>2, ElementOfSeq
  <2>2. i + 1 \in Int /\ i + n \in Int
    BY <1>1
  <2>3. /\ s \in Seq(Chars)
        /\ Len(s) = IF i + 1 <= i + n THEN i + n - (i + 1) + 1 ELSE 0
        /\ \A k \in 1..(i + n - (i + 1) + 1) : s[k] = text[i + 1 + k - 1]
    BY <2>1, <2>2, SubSeqProperties
  <2> HIDE DEF s
  <2>4. i + n - (i + 1) + 1 = n
    BY <1>1
  <2>5. \A k \in 1..n : i + 1 + k - 1 = i + k
    BY <1>1
  <2>6. Len(s) = n
    BY <1>1, <2>3, <2>4
  <2> QED BY <2>3, <2>4, <2>5, <2>6
<1>3. ASSUME Here(i) PROVE Occurs(i)
  <2>1. i + n <= Len(text)
    BY <1>3 DEF Here
  <2>2. \A k \in 1..Len(s) : s[k] = pattern[k]
    BY <1>2, <1>3, <2>1 DEF Here
  <2>3. s = pattern
    BY <1>1, <1>2, <2>1, <2>2, SeqEqual
  <2> QED BY <2>1, <2>3 DEF Occurs
<1>4. ASSUME Occurs(i) PROVE Here(i)
  BY <1>2, <1>4 DEF Occurs, Here
<1> QED BY <1>3, <1>4

\* A border of a border is a border, and the shorter of two borders is one of the longer.
LEMMA Borders ==
  ASSUME NEW j \in Nat, NEW k \in Nat, NEW m \in Nat, j < k, Border(k, m)
  PROVE  Border(j, k) <=> Border(j, m)
<1>1. k < m /\ \A i \in 1..k : pattern[i] = pattern[m - k + i]
  BY DEF Border
<1>2. ASSUME NEW i \in 1..j
      PROVE  k - j + i \in 1..k /\ pattern[k - j + i] = pattern[m - j + i]
  <2>1. k - j + i \in 1..k /\ m - k + (k - j + i) = m - j + i
    BY <1>1
  <2> QED BY <1>1, <2>1
<1> QED BY <1>1, <1>2 DEF Border

\* A border that goes on with the next character is a longer one of a longer prefix.
LEMMA LongerBorder ==
  ASSUME NEW k \in Nat, NEW m \in Nat
  PROVE  Border(k + 1, m + 1) <=> Border(k, m) /\ pattern[k + 1] = pattern[m + 1]
<1>1. ASSUME Border(k + 1, m + 1) PROVE Border(k, m) /\ pattern[k + 1] = pattern[m + 1]
  <2>1. k + 1 < m + 1 /\ \A i \in 1..(k + 1) : pattern[i] = pattern[m + 1 - (k + 1) + i]
    BY <1>1 DEF Border
  <2>2. ASSUME NEW i \in 1..(k + 1) PROVE pattern[i] = pattern[m - k + i]
    <3>1. m + 1 - (k + 1) + i = m - k + i
      OBVIOUS
    <3> QED BY <2>1, <3>1
  <2>3. k + 1 \in 1..(k + 1) /\ m - k + (k + 1) = m + 1
    OBVIOUS
  <2>4. \A i \in 1..k : i \in 1..(k + 1)
    OBVIOUS
  <2> QED BY <2>1, <2>2, <2>3, <2>4 DEF Border
<1>2. ASSUME Border(k, m), pattern[k + 1] = pattern[m + 1] PROVE Border(k + 1, m + 1)
  <2>1. k < m /\ \A i \in 1..k : pattern[i] = pattern[m - k + i]
    BY <1>2 DEF Border
  <2>2. ASSUME NEW i \in 1..(k + 1) PROVE pattern[i] = pattern[m + 1 - (k + 1) + i]
    <3>1. m + 1 - (k + 1) + i = m - k + i
      OBVIOUS
    <3>2. CASE i = k + 1
      <4>1. m - k + i = m + 1
        BY <3>2
      <4> QED BY <1>2, <3>1, <3>2, <4>1
    <3>3. CASE i \in 1..k
      BY <2>1, <3>1, <3>3
    <3> QED BY <3>2, <3>3
  <2> QED BY <2>1, <2>2 DEF Border
<1> QED BY <1>1, <1>2

LEMMA NoBorder == ASSUME NEW m \in Nat, m > 0 PROVE Border(0, m)
BY DEF Border

-----------------------------------------------------------------------------
LEMMA SearchInitHolds == SearchInit => SearchInv
<1> SUFFICES ASSUME SearchInit PROVE SearchInv
  OBVIOUS
<1>1. PICK n \in 0..MaxText : text \in [1..n -> Chars]
  BY DEF SearchInit
<1>2. PICK m \in 1..MaxPattern : pattern \in [1..m -> Chars]
  BY DEF SearchInit
<1>3. text \in Seq(Chars) /\ Len(text) = n /\ pattern \in Seq(Chars) /\ Len(pattern) = m
  BY <1>1, <1>2
<1>4. n \in Nat /\ m \in Nat \ {0}
  OBVIOUS
<1>5. next \in Seq(Nat) /\ Len(next) = 1 /\ next[1] = 0
  BY DEF SearchInit
<1>6. SearchTypes
  BY <1>3, <1>4, <1>5 DEF SearchTypes, SearchInit, Searching, Making
<1>7. TableRight
  BY <1>5 DEF TableRight, Border, SearchInit
<1>8. PrefixRight
  BY DEF PrefixRight, Border, SearchInit
<1>9. TextRight
  BY DEF TextRight, SearchInit
<1> QED BY <1>6, <1>7, <1>8, <1>9 DEF SearchInv

-----------------------------------------------------------------------------
(* make_next                                                               *)

LEMMA FallBackStep == SearchInv /\ FallBack => SearchInv'
<1> SUFFICES ASSUME SearchInv, FallBack PROVE SearchInv'
  OBVIOUS
<1> DEFINE k0 == prefixTail
           s == subfixTail
<1>1. /\ Making /\ k0 > 0 /\ pattern[s + 1] # pattern[k0 + 1] /\ prefixTail' = next[k0]
      /\ UNCHANGED <<text, pattern, next, subfixTail, t, p, result>>
  BY DEF FallBack, Extends, Shorter
<1>2. k0 \in Nat /\ s \in 1..Len(pattern) /\ Len(pattern) \in Nat /\ k0 < s /\ Border(k0, s)
  BY DEF SearchInv, SearchTypes, PrefixRight, Border
<1>3. /\ k0 \in 1..s /\ next[k0] \in Nat /\ next[k0] < k0 /\ Border(next[k0], k0)
      /\ \A k \in Nat : Border(k, k0) => k <= next[k0]
  <2>1. k0 \in 1..s
    BY <1>1, <1>2
  <2>2. next[k0] \in Nat
    BY <2>1, ElementOfSeq DEF SearchInv, SearchTypes
  <2> QED BY <2>1, <2>2 DEF SearchInv, TableRight
<1>4. SearchTypes'
  BY <1>1, <1>3 DEF SearchInv, SearchTypes, Making
<1>5. \A k, m \in Nat : Border(k, m)' <=> Border(k, m)
  BY <1>1 DEF Border
<1>6. TableRight'
  BY <1>1 DEF SearchInv, TableRight, Border
<1>7. Border(next[k0], s)
  BY <1>2, <1>3, Borders
<1>8. ASSUME NEW k \in Nat, k > next[k0], Border(k, s)
      PROVE  pattern[k + 1] # pattern[s + 1]
  <2>1. CASE k > k0
    BY <1>1, <1>8, <2>1 DEF SearchInv, PrefixRight
  <2>2. CASE k = k0
    BY <1>1, <2>2
  <2>3. CASE k < k0
    <3>1. Border(k, k0)
      BY <1>2, <1>8, <2>3, Borders
    <3> QED BY <1>3, <1>8, <3>1
  <2> QED BY <1>2, <2>1, <2>2, <2>3
<1>9. PrefixRight'
  BY <1>1, <1>3, <1>7, <1>8 DEF PrefixRight, Border, Making
<1>10. TextRight'
  BY <1>1 DEF SearchInv, TextRight, Here
<1> QED BY <1>4, <1>6, <1>9, <1>10 DEF SearchInv

LEMMA EnterStep == SearchInv /\ Enter => SearchInv'
<1> SUFFICES ASSUME SearchInv, Enter PROVE SearchInv'
  OBVIOUS
<1> DEFINE k0 == prefixTail
           s == subfixTail
           k1 == prefixTail'
<1>1. /\ Making /\ (k0 = 0 \/ pattern[s + 1] = pattern[k0 + 1])
      /\ k1 = IF pattern[s + 1] = pattern[k0 + 1] THEN k0 + 1 ELSE k0
      /\ next' = Append(next, k1) /\ subfixTail' = s + 1
      /\ UNCHANGED <<text, pattern, t, p, result>>
  BY DEF Enter, Extends
<1>2. /\ k0 \in Nat /\ s \in 1..Len(pattern) /\ Len(pattern) \in Nat /\ s < Len(pattern)
      /\ k0 < s /\ Border(k0, s)
      /\ \A k \in Nat : k > k0 /\ Border(k, s) => pattern[k + 1] # pattern[s + 1]
  BY <1>1 DEF SearchInv, SearchTypes, PrefixRight, Border, Making
<1>3. k1 \in Nat /\ k1 =< s /\ Border(k1, s + 1)
  <2>1. CASE pattern[s + 1] = pattern[k0 + 1]
    BY <1>1, <1>2, <2>1, LongerBorder
  <2>2. CASE pattern[s + 1] # pattern[k0 + 1]
    BY <1>1, <1>2, <2>2, NoBorder
  <2> QED BY <2>1, <2>2
<1>4. ASSUME NEW k \in Nat, Border(k, s + 1) PROVE k =< k1
  <2>1. CASE k = 0
    BY <1>3, <2>1
  <2>2. CASE k > 0
    <3>1. PICK j \in Nat : k = j + 1
      <4>1. k - 1 \in Nat /\ k = (k - 1) + 1
        BY <2>2
      <4> QED BY <4>1
    <3>2. Border(j, s) /\ pattern[j + 1] = pattern[s + 1]
      <4>1. Border(j + 1, s + 1) /\ s \in Nat
        BY <1>2, <1>4, <3>1
      <4> QED BY <4>1, LongerBorder
    <3>3. j =< k0
      BY <1>2, <3>1, <3>2
    <3>4. CASE j < k0
      BY <1>1, <1>2, <3>1, <3>4
    <3>5. CASE j = k0
      BY <1>1, <3>1, <3>2, <3>5
    <3> QED BY <1>2, <3>1, <3>3, <3>4, <3>5
  <2> QED BY <2>1, <2>2
<1>5. /\ next' \in Seq(Nat) /\ Len(next') = s + 1 /\ next'[s + 1] = k1
      /\ \A m \in 1..s : next'[m] = next[m]
  <2>1. next \in Seq(Nat) /\ Len(next) = s
    BY DEF SearchInv, SearchTypes
  <2> HIDE DEF k1
  <2> QED BY <1>1, <1>3, <2>1, AppendProperties
<1>6. SearchTypes'
  BY <1>1, <1>2, <1>3, <1>5 DEF SearchInv, SearchTypes, Making
<1>7. \A k, m : Border(k, m)' <=> Border(k, m)
  BY <1>1 DEF Border
<1>8. TableRight'
  <2>1. ASSUME NEW m \in 1..(s + 1)
        PROVE  next'[m] < m /\ Border(next'[m], m) /\ \A k \in Nat : Border(k, m) => k <= next'[m]
    <3>1. CASE m = s + 1
      <4>1. next'[m] = k1 /\ k1 < m
        BY <1>2, <1>3, <1>5, <3>1
      <4> HIDE DEF k1
      <4> QED BY <1>3, <1>4, <3>1, <4>1
    <3>2. CASE m \in 1..s
      <4>1. next'[m] = next[m]
        BY <1>5, <3>2
      <4>2. next[m] < m /\ Border(next[m], m) /\ \A k \in Nat : Border(k, m) => k <= next[m]
        BY <3>2 DEF SearchInv, TableRight
      <4> QED BY <4>1, <4>2
    <3> QED BY <1>2, <3>1, <3>2
  <2>2. pattern' = pattern /\ subfixTail' = s + 1
    BY <1>1
  <2> QED BY <2>1, <2>2 DEF TableRight, Border
<1>9. PrefixRight'
  <2>1. \A k \in Nat : k > k1 => ~Border(k, s + 1)
    BY <1>3, <1>4
  <2> QED BY <1>1, <1>3, <2>1 DEF PrefixRight, Border
<1>10. TextRight'
  BY <1>1 DEF SearchInv, TextRight, Here
<1> QED BY <1>6, <1>8, <1>9, <1>10 DEF SearchInv

-----------------------------------------------------------------------------
(* kmp                                                                     *)

\* Nothing of the pattern or of its table changes.
LEMMA TableStays ==
  ASSUME SearchInv, UNCHANGED <<pattern, next, prefixTail, subfixTail>>, ~Making
  PROVE  TableRight' /\ PrefixRight'
<1>1. TableRight'
  BY DEF SearchInv, TableRight, Border
<1>2. PrefixRight'
  BY DEF SearchInv, PrefixRight, Border, Making
<1> QED BY <1>1, <1>2

\* After a mismatch the pattern is at no place before that where its longest border is.
LEMMA Skipped ==
  ASSUME SearchInv, Going, text[t + 1] # pattern[p + 1], p > 0,
         NEW i \in Nat, i < t - next[p]
  PROVE  ~Here(i)
<1>1. /\ t \in Nat /\ p \in 1..t /\ p < Len(pattern) /\ Len(pattern) \in Nat
      /\ subfixTail = Len(pattern)
      /\ \A k \in 1..p : text[t - p + k] = pattern[k]
      /\ \A k \in 0..(t - p - 1) : ~Here(k)
  <2>1. result = Searching /\ Len(pattern) \in Nat /\ Len(text) \in Nat
    BY DEF SearchInv, SearchTypes, Going
  <2>2. t \in 0..Len(text) /\ p \in 0..t /\ p < Len(pattern)
    BY <2>1 DEF SearchInv, SearchTypes
  <2>3. subfixTail = Len(pattern)
    BY <2>1 DEF SearchInv, SearchTypes, Going, Making
  <2>4. /\ \A k \in 1..p : text[t - p + k] = pattern[k]
        /\ \A k \in 0..(t - p - 1) : ~Here(k)
    BY <2>1 DEF SearchInv, TextRight
  <2>5. t \in Nat /\ p \in 1..t
    BY <2>1, <2>2
  <2> QED BY <2>1, <2>2, <2>3, <2>4, <2>5
<1>2. /\ next[p] \in Nat /\ next[p] < p
      /\ \A k \in Nat : Border(k, p) => k <= next[p]
  <2>1. p \in 1..subfixTail
    BY <1>1
  <2>2. next[p] \in Nat
    BY <2>1, ElementOfSeq DEF SearchInv, SearchTypes
  <2> QED BY <2>1, <2>2 DEF SearchInv, TableRight
<1> SUFFICES ASSUME Here(i) PROVE FALSE
  OBVIOUS
<1>3. \A k \in 1..Len(pattern) : text[i + k] = pattern[k]
  BY DEF Here
<1>4. i \notin 0..(t - p - 1)
  BY <1>1
<1>5. CASE i = t - p
  <2>1. p + 1 \in 1..Len(pattern) /\ i + (p + 1) = t + 1
    BY <1>1, <1>5
  <2> QED BY <1>3, <2>1
<1>6. CASE i > t - p
  <2> DEFINE j == t - i
  <2>1. j \in Nat /\ next[p] < j /\ j < p
    BY <1>1, <1>2, <1>6
  <2>2. ASSUME NEW k \in 1..j PROVE pattern[k] = pattern[p - j + k]
    <3>1. p - j + k \in 1..p /\ t - p + (p - j + k) = i + k /\ k \in 1..Len(pattern)
      BY <1>1, <2>1, SMTT(60)
    <3> QED BY <1>1, <1>3, <3>1
  <2>3. Border(j, p)
    BY <2>1, <2>2 DEF Border
  <2> HIDE DEF j
  <2> QED BY <1>2, <2>1, <2>3
<1> QED BY <1>1, <1>4, <1>5, <1>6

LEMMA MismatchStep == SearchInv /\ Mismatch => SearchInv'
<1> SUFFICES ASSUME SearchInv, Mismatch PROVE SearchInv'
  OBVIOUS
<1>1. /\ Going /\ text[t + 1] # pattern[p + 1]
      /\ UNCHANGED <<text, pattern, next, prefixTail, subfixTail, result>>
  BY DEF Mismatch
<1>2. /\ t \in Nat /\ t < Len(text) /\ Len(text) \in Nat /\ p \in 0..t /\ p < Len(pattern)
      /\ Len(pattern) \in Nat /\ subfixTail = Len(pattern) /\ ~Making /\ result = Searching
      /\ \A k \in 1..p : text[t - p + k] = pattern[k]
      /\ \A k \in 0..(t - p - 1) : ~Here(k)
  BY <1>1 DEF SearchInv, SearchTypes, TextRight, Going, Making
<1>3. TableRight' /\ PrefixRight'
  BY <1>1, <1>2, TableStays
<1>4. \A i \in Nat : Here(i)' <=> Here(i)
  BY <1>1 DEF Here
<1>5. CASE p = 0
  <2>1. t' = t + 1 /\ p' = 0
    BY <1>5 DEF Mismatch
  <2>2. SearchTypes'
    BY <1>1, <1>2, <2>1 DEF SearchInv, SearchTypes, Making
  <2>3. ~Here(t)
    <3>1. 1 \in 1..Len(pattern)
      BY <1>2
    <3> QED BY <1>1, <1>5, <3>1 DEF Here
  <2>4. \A i \in 0..(t' - p' - 1) : ~Here(i)
    BY <1>2, <1>5, <2>1, <2>3
  <2>5. TextRight'
    BY <1>1, <1>2, <2>1, <2>4 DEF TextRight, Here
  <2> QED BY <1>3, <2>2, <2>5 DEF SearchInv
<1>6. CASE p # 0
  <2>1. t' = t /\ p' = next[p] /\ p > 0
    BY <1>2, <1>6 DEF Mismatch
  <2>2. next[p] \in Nat /\ next[p] < p /\ Border(next[p], p)
    <3>1. p \in 1..subfixTail
      BY <1>2, <1>6
    <3>2. next[p] \in Nat
      BY <3>1, ElementOfSeq DEF SearchInv, SearchTypes
    <3> QED BY <3>1, <3>2 DEF SearchInv, TableRight
  <2>3. SearchTypes'
    BY <1>1, <1>2, <2>1, <2>2, SMTT(60) DEF SearchInv, SearchTypes, Making
  <2>4. ASSUME NEW k \in 1..next[p] PROVE text[t - next[p] + k] = pattern[k]
    <3>1. p - next[p] + k \in 1..p /\ t - p + (p - next[p] + k) = t - next[p] + k
      BY <1>2, <2>2, SMTT(60)
    <3>2. pattern[k] = pattern[p - next[p] + k]
      BY <2>2 DEF Border
    <3> QED BY <1>2, <3>1, <3>2
  <2>5. \A i \in 0..(t - next[p] - 1) : ~Here(i)
    BY <1>1, <1>2, <2>1, <2>2, Skipped, SMTT(60)
  <2>6. TextRight'
    BY <1>1, <1>2, <2>1, <2>4, <2>5 DEF TextRight, Here
  <2> QED BY <1>3, <2>3, <2>6 DEF SearchInv
<1> QED BY <1>5, <1>6

LEMMA MatchStep == SearchInv /\ Match => SearchInv'
<1> SUFFICES ASSUME SearchInv, Match PROVE SearchInv'
  OBVIOUS
<1>1. /\ Going /\ text[t + 1] = pattern[p + 1] /\ p' = p + 1 /\ t' = t + 1
      /\ result' = IF p + 1 = Len(pattern) THEN t + 1 - Len(pattern) ELSE Searching
      /\ UNCHANGED <<text, pattern, next, prefixTail, subfixTail>>
  <2>1. p' = p + 1 /\ t' = t + 1
    BY DEF Match
  <2>2. result' = IF p' = Len(pattern) THEN t' - Len(pattern) ELSE Searching
    BY DEF Match
  <2>3. result' = IF p + 1 = Len(pattern) THEN t + 1 - Len(pattern) ELSE Searching
    <3>1. p \in Nat /\ t \in Nat /\ Len(pattern) \in Nat
      BY DEF SearchInv, SearchTypes
    <3> QED BY <2>1, <2>2, <3>1
  <2> QED BY <2>1, <2>3 DEF Match
<1>2. /\ t \in Nat /\ t < Len(text) /\ Len(text) \in Nat /\ p \in 0..t /\ p < Len(pattern)
      /\ Len(pattern) \in Nat /\ subfixTail = Len(pattern) /\ ~Making /\ result = Searching
      /\ \A k \in 1..p : text[t - p + k] = pattern[k]
      /\ \A k \in 0..(t - p - 1) : ~Here(k)
  BY <1>1 DEF SearchInv, SearchTypes, TextRight, Going, Making
<1>3. TableRight' /\ PrefixRight'
  BY <1>1, <1>2, TableStays
<1>4. SearchTypes'
  BY <1>1, <1>2 DEF SearchInv, SearchTypes, Making, Searching
<1>5. ASSUME NEW k \in 1..(p + 1) PROVE text[t - p + k] = pattern[k]
  <2>1. CASE k = p + 1
    <3>1. t - p + k = t + 1
      BY <1>2, <2>1
    <3> QED BY <1>1, <2>1, <3>1
  <2>2. CASE k \in 1..p
    BY <1>2, <2>2
  <2> QED BY <1>2, <2>1, <2>2
<1>6. t' - p' = t - p /\ t + 1 - (p + 1) = t - p
  BY <1>1, <1>2
<1>7. CASE p + 1 = Len(pattern)
  <2>1. result' = t - p /\ t - p \in Nat /\ result' # Searching
    <3>1. result' = t + 1 - Len(pattern)
      BY <1>1, <1>7
    <3>2. t \in Nat /\ p \in 0..t
      BY <1>2
    <3>3. result' = t - p
      BY <1>7, <3>1, <3>2
    <3> QED BY <3>2, <3>3 DEF Searching
  <2>2. Here(t - p)
    BY <1>2, <1>5, <1>7 DEF Here
  <2>3. \A i : Here(i)' <=> Here(i)
    BY <1>1 DEF Here
  <2>4. \A i \in 0..(t - p - 1) : ~Here(i)
    BY <1>2
  <2>5. TextRight'
    BY <2>1, <2>2, <2>3, <2>4 DEF TextRight
  <2> QED BY <1>3, <1>4, <2>5 DEF SearchInv
<1>8. CASE p + 1 # Len(pattern)
  <2>1. result' = Searching
    BY <1>1, <1>8
  <2> QED BY <1>1, <1>2, <1>3, <1>4, <1>5, <1>6, <2>1 DEF SearchInv, TextRight, Here
<1> QED BY <1>7, <1>8

LEMMA EndStep == SearchInv /\ End => SearchInv'
<1> SUFFICES ASSUME SearchInv, End PROVE SearchInv'
  OBVIOUS
<1>1. /\ ~Making /\ result = Searching /\ t = Len(text) /\ result' = -1
      /\ UNCHANGED <<text, pattern, next, prefixTail, subfixTail, t, p>>
  BY DEF End
<1>2. TableRight' /\ PrefixRight' /\ SearchTypes'
  BY <1>1, TableStays DEF SearchInv, SearchTypes, Making, Searching
<1>3. ASSUME NEW i \in Nat PROVE ~Here(i)
  <2>1. /\ p < Len(pattern) /\ Len(pattern) \in Nat /\ p \in Nat /\ t \in Nat
        /\ \A k \in 0..(t - p - 1) : ~Here(k)
    BY <1>1 DEF SearchInv, SearchTypes, TextRight
  <2>2. CASE i \in 0..(t - p - 1)
    BY <2>1, <2>2
  <2>3. CASE i > t - p - 1
    BY <1>1, <2>1, <2>3 DEF Here
  <2> QED BY <2>1, <2>2, <2>3
<1>4. TextRight'
  BY <1>1, <1>3 DEF TextRight, Here, Searching
<1> QED BY <1>2, <1>4 DEF SearchInv

-----------------------------------------------------------------------------
LEMMA SearchInvRight == SearchInv => SearchRight
<1> SUFFICES ASSUME SearchInv PROVE SearchRight
  OBVIOUS
<1>1. /\ SearchTypes /\ Len(text) \in Nat /\ Len(pattern) \in Nat /\ Len(pattern) > 0
      /\ t \in Nat /\ t =< Len(text) /\ p \in 0..t
  BY DEF SearchInv, SearchTypes
<1>2. \A i \in Nat : Here(i) <=> Occurs(i)
  BY <1>1, HereIsOccurs
<1>3. FirstFound
  <2> SUFFICES ASSUME result # Searching
               PROVE  IF \E i \in 0..(Len(text) - Len(pattern)) : Occurs(i)
                      THEN Occurs(result) /\ \A i \in 0..(result - 1) : ~Occurs(i)
                      ELSE result = -1
    BY DEF FirstFound
  <2>1. CASE result = -1 /\ \A i \in Nat : ~Here(i)
    BY <1>1, <1>2, <2>1
  <2>2. CASE result \in Nat /\ Here(result) /\ \A i \in 0..(result - 1) : ~Here(i)
    <3>1. result \in 0..(Len(text) - Len(pattern))
      BY <1>1, <2>2 DEF Here
    <3> QED BY <1>1, <1>2, <2>2, <3>1
  <2> QED BY <2>1, <2>2 DEF SearchInv, TextRight
<1>4. NoneSkipped
  <2> SUFFICES ASSUME result = Searching
               PROVE  /\ SubSeq(text, t - p + 1, t) = SubSeq(pattern, 1, p)
                      /\ \A i \in 0..(t - p - 1) : ~Occurs(i)
    BY DEF NoneSkipped
  <2>1. p < Len(pattern) /\ \A i \in 1..p : text[t - p + i] = pattern[i]
    BY DEF SearchInv, SearchTypes, TextRight
  <2>2. \A i \in 0..(t - p - 1) : ~Occurs(i)
    <3>1. \A i \in 0..(t - p - 1) : i \in Nat /\ ~Here(i)
      BY DEF SearchInv, TextRight
    <3> QED BY <1>2, <3>1
  <2> DEFINE x == SubSeq(text, t - p + 1, t)
             y == SubSeq(pattern, 1, p)
  <2>3. text \in Seq(Chars) /\ pattern \in Seq(Chars)
    BY <1>1 DEF SearchTypes
  <2>4. x \in Seq(Chars) /\ Len(x) = p /\ \A i \in 1..p : x[i] = text[t - p + i]
    <3>1. \A i \in (t - p + 1)..t : text[i] \in Chars
      BY <1>1, <2>3, ElementOfSeq
    <3>2. t - p + 1 \in Int /\ t \in Int
      BY <1>1
    <3>3. /\ x \in Seq(Chars)
          /\ Len(x) = IF t - p + 1 <= t THEN t - (t - p + 1) + 1 ELSE 0
          /\ \A i \in 1..(t - (t - p + 1) + 1) : x[i] = text[(t - p + 1) + i - 1]
      BY <3>1, <3>2, SubSeqProperties
    <3> HIDE DEF x
    <3>4. t - (t - p + 1) + 1 = p /\ (t - p + 1 <= t <=> p # 0)
      BY <1>1
    <3>5. \A i \in 1..p : (t - p + 1) + i - 1 = t - p + i
      BY <1>1
    <3> QED BY <3>3, <3>4, <3>5
  <2>5. y \in Seq(Chars) /\ Len(y) = p /\ \A i \in 1..p : y[i] = pattern[i]
    <3>1. \A i \in 1..p : pattern[i] \in Chars
      BY <1>1, <2>1, <2>3, ElementOfSeq
    <3>2. /\ y \in Seq(Chars)
          /\ Len(y) = IF 1 <= p THEN p - 1 + 1 ELSE 0
          /\ \A i \in 1..(p - 1 + 1) : y[i] = pattern[1 + i - 1]
      BY <1>1, <3>1, SubSeqProperties
    <3> HIDE DEF y
    <3>3. p - 1 + 1 = p /\ \A i \in 1..p : 1 + i - 1 = i
      BY <1>1
    <3> QED BY <1>1, <3>2, <3>3
  <2> HIDE DEF x, y
  <2>6. x = y
    BY <2>1, <2>4, <2>5, SeqEqual
  <2> QED BY <2>2, <2>6 DEF x, y
<1> QED BY <1>3, <1>4 DEF SearchRight

\* A search gives the first occurrence of any pattern in any text, and going back by the
\* table misses none on the way (make_next and kmp, kmp.c:30-83).
THEOREM SearchIsRight == SearchSpec => []SearchRight
<1>1. SearchInv /\ UNCHANGED searchVars => SearchInv'
  BY DEF SearchInv, SearchTypes, TableRight, PrefixRight, TextRight, Border, Here, Making, searchVars
<1>2. SearchInv /\ [SearchNext]_searchVars => SearchInv'
  BY <1>1, FallBackStep, EnterStep, MismatchStep, MatchStep, EndStep DEF SearchNext
<1> QED BY <1>2, SearchInitHolds, SearchInvRight, PTL DEF SearchSpec

-----------------------------------------------------------------------------
(* The socket of a context of hiredis                                      *)

Fds == 0..MaxFd
Errors == {"", "IO", "OTHER"}
Contexts ==
  [fd : Int, err : Errors, connected : BOOLEAN, block : BOOLEAN, unix : BOOLEAN,
   timeout : {"none", "good", "bad"}, source : BOOLEAN, reuse : BOOLEAN]

\* The system calls before there is a socket, and those after.
Before == {"resolve", "socket"}
Since == {"nonblock", "bind", "connect", "wait", "block", "nodelay"}

ConnectTypes ==
  /\ c \in Contexts \cup {NoContext} /\ syscall \in {"idle"} \cup Before \cup Since
  /\ fds \in [Fds -> {"closed", "context", "program"}] /\ fds[0] = "program"
  /\ stale \in BOOLEAN

\* InsideCall a call there is a context, without an error yet, and it has a socket from the
\* system call socket on.
InCall ==
  /\ syscall # "idle" => c # NoContext /\ c.err = ""
  /\ syscall \in Before => \A fd \in Fds : fds[fd] # "context"
  /\ syscall \in Since => c.fd \in Fds /\ fds[c.fd] = "context"

\* What the last call told: a connection was made with a socket, or it failed.
Told ==
  Usable =>
    /\ ret \in {"OK", "ERR"}
    /\ ret = "OK" => c.connected /\ c.fd > 0
    /\ c.err = "" /\ ret = "ERR" => c.reuse \/ (c.unix /\ c.timeout = "bad")

ConnectInv == ConnectTypes /\ InCall /\ OwnSocket /\ Told

-----------------------------------------------------------------------------
LEMMA LeastOf ==
  ASSUME NEW A, A \subseteq Nat, A # {}
  PROVE  \E n \in A : \A m \in A : n =< m
<1> DEFINE R == {ss \in Nat \X Nat : ss[1] < ss[2]}
<1>1. IsWellFoundedOn(R, Nat)
  BY NatLessThanWellFounded DEF OpToRel
<1>2. PICK n \in A : \A m \in A : <<m, n>> \notin R
  <2> HIDE DEF R
  <2> QED BY <1>1, WFMin
<1>3. ASSUME NEW m \in A PROVE n =< m
  <2>1. <<m, n>> \in Nat \X Nat /\ ~(m < n)
    BY <1>2
  <2> QED BY <2>1
<1> QED BY <1>3

\* The kernel gives a descriptor that is closed.
LEMMA LowestIsUnused ==
  ASSUME ConnectTypes, Unused # {}
  PROVE  Min(Unused) \in Fds \ {0} /\ fds[Min(Unused)] = "closed"
<1>1. Unused \subseteq Nat
  BY ConnectAssumption DEF ConnectTypes, Unused, Fds
<1>2. \E x \in Unused : \A y \in Unused : x =< y
  BY <1>1, LeastOf
<1>3. Min(Unused) \in Unused
  BY <1>2 DEF Min
<1> QED BY <1>3 DEF ConnectTypes, Unused

\* The context closes the socket it has, or may be wrong about, when it is stale.
LEMMA Closing ==
  ASSUME ConnectTypes, OwnSocket, c # NoContext, c.fd \in Fds => c.fd # 0, CloseAny(c.fd)
  PROVE  /\ fds' \in [Fds -> {"closed", "context", "program"}] /\ fds'[0] = "program"
         /\ \A fd \in Fds : fds'[fd] # "context"
         /\ (~stale /\ (c.fd \in Fds => fds[c.fd] = "context")) => astray' = {}
<1>1. CASE c.fd \in Fds
  <2>1. fds' = [fds EXCEPT ![c.fd] = "closed"] /\
        astray' = IF fds[c.fd] = "program" THEN astray \cup {c.fd} ELSE astray
    BY <1>1 DEF CloseAny, ConnectTypes
  <2> QED BY <1>1, <2>1 DEF ConnectTypes, OwnSocket
<1>2. CASE c.fd \notin Fds
  <2>1. UNCHANGED <<fds, astray>>
    BY <1>2 DEF CloseAny, ConnectTypes, kernel
  <2> QED BY <1>2, <2>1 DEF ConnectTypes, OwnSocket
<1> QED BY <1>1, <1>2

LEMMA ContextIsNotNone == \A d \in Contexts : d # NoContext
<1> SUFFICES ASSUME NEW d \in Contexts, d = NoContext PROVE FALSE
  OBVIOUS
<1>1. d.err \in Errors /\ NoContext.err = "none"
  BY DEF Contexts, NoContext
<1> QED BY <1>1 DEF Errors

\* What becomes of a context when a field of it is set.
LEMMA FieldsSet ==
  ASSUME NEW d \in Contexts
  PROVE  /\ \A n \in Int : LET e == [d EXCEPT !.fd = n] IN
              e \in Contexts /\ e.fd = n /\ e.err = d.err
         /\ \A x \in Errors : LET e == [d EXCEPT !.err = x] IN
              e \in Contexts /\ e.err = x /\ e.fd = d.fd
         /\ LET e == [d EXCEPT !.connected = TRUE] IN
              e \in Contexts /\ e.connected = TRUE /\ e.fd = d.fd
         /\ LET e == [d EXCEPT !.fd = -1] IN
              e \in Contexts /\ e.fd = -1 /\ e.err = d.err
<1>1. ASSUME NEW n \in Int
      PROVE  LET e == [d EXCEPT !.fd = n] IN e \in Contexts /\ e.fd = n /\ e.err = d.err
  BY DEF Contexts
<1>2. ASSUME NEW x \in Errors
      PROVE  LET e == [d EXCEPT !.err = x] IN e \in Contexts /\ e.err = x /\ e.fd = d.fd
  BY DEF Contexts
<1>3. LET e == [d EXCEPT !.connected = TRUE] IN
        e \in Contexts /\ e.connected = TRUE /\ e.fd = d.fd
  BY DEF Contexts
<1>4. LET e == [d EXCEPT !.fd = -1] IN e \in Contexts /\ e.fd = -1 /\ e.err = d.err
  <2> DEFINE n == -1
  <2>1. n \in Int
    OBVIOUS
  <2> HIDE DEF n
  <2>2. LET e == [d EXCEPT !.fd = n] IN e \in Contexts /\ e.fd = n /\ e.err = d.err
    BY <1>1, <2>1
  <2> QED BY <2>2 DEF n
<1> QED BY <1>1, <1>2, <1>3, <1>4

-----------------------------------------------------------------------------
(* How a call begins, goes on and ends                                     *)

LEMMA Begins ==
  ASSUME ConnectTypes, NEW d \in Contexts, d.err = "", Start(d),
         fds' \in [Fds -> {"closed", "context", "program"}], fds'[0] = "program",
         \A fd \in Fds : fds'[fd] # "context", ~stale => astray' = {}
  PROVE  ConnectInv'
<1>1. CASE d.timeout = "bad" /\ ~d.unix
  <2>1. /\ c' = [d EXCEPT !.err = "IO"] /\ syscall' = "idle" /\ ret' = "ERR"
        /\ stale' = (stale \/ d.fd > 0)
    BY <1>1 DEF Start
  <2>2. c' \in Contexts /\ c'.err = "IO" /\ c'.fd = d.fd
    BY <2>1 DEF Contexts, Errors
  <2>3. c' # NoContext
    BY <2>2, ContextIsNotNone
  <2>4. ConnectTypes'
    BY <2>1, <2>2 DEF ConnectTypes
  <2>5. InCall'
    BY <2>1 DEF InCall, Before, Since
  <2>6. OwnSocket'
    BY <2>1, <2>2 DEF OwnSocket, ConnectTypes, Fds
  <2>7. Told'
    BY <2>1, <2>2 DEF Told, Usable
  <2> QED BY <2>4, <2>5, <2>6, <2>7 DEF ConnectInv
<1>2. CASE ~(d.timeout = "bad" /\ ~d.unix)
  <2>1. c' = d /\ syscall' \in Before /\ UNCHANGED <<ret, stale>>
    BY <1>2 DEF Start, Before
  <2>2. c' # NoContext
    BY <2>1, ContextIsNotNone
  <2>3. syscall' # "idle" /\ syscall' \notin Since
    BY <2>1 DEF Before, Since
  <2>4. ConnectTypes'
    BY <2>1 DEF ConnectTypes
  <2>5. InCall'
    BY <2>1, <2>2, <2>3 DEF InCall
  <2>6. OwnSocket'
    BY <2>1, <2>3 DEF OwnSocket, Usable
  <2>7. Told'
    BY <2>3 DEF Told, Usable
  <2> QED BY <2>4, <2>5, <2>6, <2>7 DEF ConnectInv
<1> QED BY <1>1, <1>2

\* InsideCall a call the context is one, and its error is none yet.
LEMMA InsideCall ==
  ASSUME ConnectInv, syscall # "idle"
  PROVE  c \in Contexts /\ c # NoContext /\ c.err = ""
BY DEF ConnectInv, ConnectTypes, InCall

LEMMA Quits ==
  ASSUME ConnectInv, syscall \in Since, NEW e \in {"IO", "OTHER"}, Quit(e)
  PROVE  ConnectInv'
<1>1. syscall # "idle"
  BY DEF Since
<1>2. c \in Contexts /\ c # NoContext /\ c.fd \in Fds /\ fds[c.fd] = "context" /\ c.fd # 0
  BY <1>1, InsideCall DEF ConnectInv, InCall, ConnectTypes
<1>3. /\ c' = [[c EXCEPT !.fd = -1] EXCEPT !.err = e] /\ CloseAny(c.fd)
      /\ syscall' = "idle" /\ ret' = "ERR" /\ stale' = stale
  BY DEF Quit, Return, ClosedFd
<1>4. c' \in Contexts /\ c'.fd = -1 /\ c'.err = e
  <2>1. e \in Errors
    BY DEF Errors
  <2> DEFINE d == [c EXCEPT !.fd = -1]
  <2>2. d \in Contexts /\ d.fd = -1
    BY <1>2, <2>1, FieldsSet
  <2>3. c' = [d EXCEPT !.err = e]
    BY <1>3
  <2> HIDE DEF d
  <2> QED BY <2>1, <2>2, <2>3, FieldsSet
<1>5. c' # NoContext
  BY <1>4, ContextIsNotNone
<1>6. /\ fds' \in [Fds -> {"closed", "context", "program"}] /\ fds'[0] = "program"
      /\ \A fd \in Fds : fds'[fd] # "context"
      /\ ~stale => astray' = {}
  BY <1>2, <1>3, Closing DEF ConnectInv
<1>7. ConnectTypes'
  BY <1>3, <1>4, <1>6 DEF ConnectInv, ConnectTypes
<1>8. InCall'
  BY <1>3 DEF InCall, Before, Since
<1>9. OwnSocket'
  BY <1>3, <1>4, <1>6 DEF OwnSocket
<1>10. Told'
  BY <1>3, <1>4 DEF Told, Usable
<1> QED BY <1>7, <1>8, <1>9, <1>10 DEF ConnectInv

LEMMA LeavesWith ==
  ASSUME ConnectInv, syscall # "idle", NEW e \in Errors, Leave(e),
         (syscall \in Since /\ UNCHANGED stale) \/ NoSocketMade,
         e = "" => c.reuse \/ (c.unix /\ c.timeout = "bad")
  PROVE  ConnectInv'
<1>1. c \in Contexts /\ c # NoContext
  BY InsideCall
<1>2. c' = [c EXCEPT !.err = e] /\ syscall' = "idle" /\ ret' = "ERR" /\ UNCHANGED <<fds, astray>>
  BY DEF Leave, Return, kernel
<1>3. /\ c' \in Contexts /\ c'.fd = c.fd /\ c'.err = e
      /\ c'.reuse = c.reuse /\ c'.unix = c.unix /\ c'.timeout = c.timeout
  BY <1>1, <1>2 DEF Contexts
<1>4. c' # NoContext
  BY <1>3, ContextIsNotNone
<1>5. stale' \in BOOLEAN /\ (~stale' => ~stale)
      /\ (~stale' /\ c.fd > 0 => syscall \in Since)
  BY DEF NoSocketMade, ConnectInv, ConnectTypes
<1>6. ConnectTypes'
  BY <1>2, <1>3, <1>5 DEF ConnectInv, ConnectTypes
<1>7. InCall'
  BY <1>2 DEF InCall, Before, Since
<1>8. OwnSocket'
  BY <1>2, <1>3, <1>4, <1>5 DEF ConnectInv, OwnSocket, InCall, Usable
<1>9. Told'
  BY <1>2, <1>3 DEF Told, Usable
<1> QED BY <1>6, <1>7, <1>8, <1>9 DEF ConnectInv

LEMMA GoesOn ==
  ASSUME ConnectInv, syscall \in Since, syscall' \in Since,
         UNCHANGED <<c, fds, astray, ret, stale>>
  PROVE  ConnectInv'
<1>1. syscall' # "idle" /\ syscall # "idle" /\ syscall' \notin Before
  BY DEF Before, Since
<1>2. ConnectTypes'
  BY DEF ConnectInv, ConnectTypes
<1>3. InCall'
  BY <1>1 DEF ConnectInv, InCall
<1>4. OwnSocket'
  BY <1>1 DEF ConnectInv, OwnSocket, Usable
<1>5. Told'
  BY <1>1 DEF Told, Usable
<1> QED BY <1>2, <1>3, <1>4, <1>5 DEF ConnectInv

LEMMA ConnectedIs ==
  ASSUME ConnectInv, syscall \in Since, Connected(c)
  PROVE  ConnectInv'
<1>1. syscall # "idle"
  BY DEF Since
<1>2. /\ c \in Contexts /\ c # NoContext /\ c.fd \in Fds /\ fds[c.fd] = "context" /\ c.fd # 0
  BY <1>1, InsideCall DEF ConnectInv, InCall, ConnectTypes
<1>3. /\ c' = [c EXCEPT !.connected = TRUE] /\ syscall' = "idle" /\ ret' = "OK"
      /\ UNCHANGED <<fds, astray, stale>>
  BY DEF Connected, Return, kernel
<1>4. c' \in Contexts /\ c'.fd = c.fd /\ c'.connected = TRUE /\ c.fd > 0
  <2>1. LET e == [c EXCEPT !.connected = TRUE] IN e \in Contexts /\ e.connected = TRUE /\ e.fd = c.fd
    BY <1>2, FieldsSet
  <2>2. c.fd > 0
    BY <1>2 DEF Fds
  <2> QED BY <1>3, <2>1, <2>2
<1>5. c' # NoContext
  BY <1>4, ContextIsNotNone
<1>6. ConnectTypes'
  BY <1>3, <1>4 DEF ConnectInv, ConnectTypes
<1>7. InCall'
  BY <1>3 DEF InCall, Before, Since
<1>8. OwnSocket'
  BY <1>2, <1>3, <1>4, <1>5 DEF ConnectInv, OwnSocket
<1>9. Told'
  BY <1>3, <1>4 DEF Told, Usable
<1> QED BY <1>6, <1>7, <1>8, <1>9 DEF ConnectInv

LEMMA Onward ==
  ASSUME ConnectInv, syscall \in Since, OnwardAfterConnect
  PROVE  ConnectInv'
<1>1. CASE c.block \/ ~c.unix
  BY <1>1, GoesOn DEF OnwardAfterConnect, Goto, kernel, Since
<1>2. CASE ~c.block /\ c.unix
  BY <1>2, ConnectedIs DEF OnwardAfterConnect
<1> QED BY <1>1, <1>2

\* A socket that cannot be connected is closed and the call tries again.
LEMMA TriesAgain ==
  ASSUME ConnectInv, syscall \in Since, c' = ClosedFd(c), CloseAny(c.fd), Goto("socket")
  PROVE  ConnectInv'
<1>1. syscall # "idle"
  BY DEF Since
<1>2. /\ c \in Contexts /\ c # NoContext /\ c.fd \in Fds /\ fds[c.fd] = "context" /\ c.fd # 0
      /\ c.err = ""
  BY <1>1, InsideCall DEF ConnectInv, InCall, ConnectTypes
<1>3. syscall' = "socket" /\ stale' = stale /\ c' = [c EXCEPT !.fd = -1]
  BY DEF Goto, ClosedFd
<1>4. c' \in Contexts /\ c'.err = "" /\ c'.fd = -1
  <2>1. [c EXCEPT !.fd = -1] \in Contexts /\ [c EXCEPT !.fd = -1].fd = -1
        /\ [c EXCEPT !.fd = -1].err = ""
    BY <1>2, FieldsSet
  <2> QED BY <1>3, <2>1
<1>5. c' # NoContext
  BY <1>4, ContextIsNotNone
<1>6. /\ fds' \in [Fds -> {"closed", "context", "program"}] /\ fds'[0] = "program"
      /\ \A fd \in Fds : fds'[fd] # "context"
      /\ ~stale => astray' = {}
  BY <1>2, Closing DEF ConnectInv
<1>7. ConnectTypes'
  BY <1>3, <1>4, <1>6 DEF ConnectInv, ConnectTypes, Before
<1>8. InCall'
  BY <1>3, <1>4, <1>5, <1>6 DEF InCall, Before, Since
<1>9. OwnSocket'
  <2>1. DOMAIN fds' = Fds
    BY <1>6
  <2> QED BY <1>3, <1>4, <1>6, <2>1 DEF OwnSocket, Usable
<1>10. Told'
  BY <1>3 DEF Told, Usable
<1> QED BY <1>7, <1>8, <1>9, <1>10 DEF ConnectInv

-----------------------------------------------------------------------------
(* The system calls                                                        *)

LEMMA GetaddrinfoStep == ConnectInv /\ getaddrinfo => ConnectInv'
<1> SUFFICES ASSUME ConnectInv, getaddrinfo PROVE ConnectInv'
  OBVIOUS
<1>1. syscall = "resolve"
  BY DEF getaddrinfo
<1>2. CASE Leave("OTHER") /\ NoSocketMade
  <2>1. "OTHER" \in Errors /\ "OTHER" # "" /\ syscall # "idle"
    BY <1>1 DEF Errors
  <2> QED BY <1>2, <2>1, LeavesWith
<1>3. CASE Goto("socket") /\ UNCHANGED <<c, reuses, kernel>>
  <2>1. syscall' = "socket" /\ UNCHANGED <<c, fds, astray, ret, stale>>
    BY <1>3 DEF Goto, kernel
  <2>2. ConnectTypes'
    BY <2>1 DEF ConnectInv, ConnectTypes, Before
  <2>3. InCall'
    BY <1>1, <2>1 DEF ConnectInv, InCall, Before, Since
  <2>4. OwnSocket' /\ Told'
    BY <1>1, <2>1 DEF ConnectInv, OwnSocket, Told, Usable
  <2> QED BY <2>2, <2>3, <2>4 DEF ConnectInv
<1> QED BY <1>2, <1>3 DEF getaddrinfo

LEMMA SocketStep == ConnectInv /\ socket => ConnectInv'
<1> SUFFICES ASSUME ConnectInv, socket PROVE ConnectInv'
  OBVIOUS
<1>1. syscall = "socket"
  BY DEF socket
<1>2. /\ c \in Contexts /\ c # NoContext /\ c.err = ""
      /\ \A fd \in Fds : fds[fd] # "context"
  BY <1>1, InsideCall DEF ConnectInv, InCall, Before
<1>3. CASE /\ Unused # {} /\ c' = [c EXCEPT !.fd = Min(Unused)] /\ OpenFor(Min(Unused), "context")
           /\ Goto("nonblock") /\ UNCHANGED <<addrs, reuses, astray>>
  <2> DEFINE n == Min(Unused)
  <2>1. n \in Fds \ {0} /\ n \in Int
    BY <1>3, LowestIsUnused DEF ConnectInv, Fds
  <2>2. /\ syscall' = "nonblock" /\ fds' = [fds EXCEPT ![n] = "context"]
        /\ UNCHANGED <<ret, stale, astray>>
    BY <1>3 DEF Goto, OpenFor
  <2>3. c' = [c EXCEPT !.fd = n]
    BY <1>3
  <2> HIDE DEF n
  <2>4. c' \in Contexts /\ c'.fd = n /\ c'.err = ""
    BY <1>2, <2>1, <2>3, FieldsSet
  <2>5. c' # NoContext
    BY <2>4, ContextIsNotNone
  <2>6. ConnectTypes'
    <3>1. fds' \in [Fds -> {"closed", "context", "program"}] /\ fds'[0] = "program"
      BY <2>1, <2>2 DEF ConnectInv, ConnectTypes
    <3> QED BY <2>2, <2>4, <3>1 DEF ConnectInv, ConnectTypes, Since
  <2>7. fds'[n] = "context" /\ \A fd \in Fds \ {n} : fds'[fd] # "context"
    BY <1>2, <2>1, <2>2 DEF ConnectInv, ConnectTypes
  <2>8. InCall'
    BY <2>1, <2>2, <2>4, <2>5, <2>7 DEF InCall, Before, Since
  <2>9. OwnSocket'
    <3>1. DOMAIN fds' = Fds
      BY <2>6 DEF ConnectTypes
    <3> QED BY <2>2, <2>4, <2>5, <2>7, <3>1 DEF ConnectInv, OwnSocket, Usable
  <2>10. Told'
    BY <2>2 DEF Told, Usable
  <2> QED BY <2>6, <2>8, <2>9, <2>10 DEF ConnectInv
<1>4. CASE UNCHANGED <<c, syscall, reuses, ret, kernel, stale>>
  BY <1>4 DEF ConnectInv, ConnectTypes, InCall, OwnSocket, Told, Usable, kernel
<1>5. CASE Leave(IF c.unix THEN "IO" ELSE "OTHER") /\ NoSocketMade
  <2> DEFINE e == IF c.unix THEN "IO" ELSE "OTHER"
  <2>1. e \in Errors /\ e # "" /\ syscall # "idle"
    BY <1>1 DEF Errors
  <2> HIDE DEF e
  <2>2. Leave(e) /\ NoSocketMade
    BY <1>5 DEF e
  <2> QED BY <2>1, <2>2, LeavesWith
<1> QED BY <1>3, <1>4, <1>5 DEF socket

LEMMA FcntlStep == ConnectInv /\ fcntl => ConnectInv'
<1> SUFFICES ASSUME ConnectInv, fcntl PROVE ConnectInv'
  OBVIOUS
<1>1. syscall \in Since /\ syscall # "idle"
  BY DEF fcntl, Since
<1>2. CASE Quit("IO")
  BY <1>1, <1>2, Quits
<1>3. CASE Goto(IF c.source THEN "bind" ELSE "connect") /\ UNCHANGED <<c, addrs, reuses, kernel>>
  BY <1>1, <1>3, GoesOn DEF Goto, kernel, Since
<1>4. CASE c.unix /\ c.timeout = "bad" /\ LeaveSilently /\ UNCHANGED stale
  <2>1. c.err \in Errors
    BY <1>1, InsideCall DEF Errors
  <2> QED BY <1>1, <1>4, <2>1, LeavesWith DEF LeaveSilently
<1> QED BY <1>2, <1>3, <1>4 DEF fcntl

LEMMA BindStep == ConnectInv /\ bind => ConnectInv'
<1> SUFFICES ASSUME ConnectInv, bind PROVE ConnectInv'
  OBVIOUS
<1>1. syscall \in Since /\ syscall # "idle"
  BY DEF bind, Since
<1>2. CASE Goto("connect") /\ UNCHANGED <<c, addrs, reuses, kernel>>
  BY <1>1, <1>2, GoesOn DEF Goto, kernel, Since
<1>3. CASE Leave("OTHER") /\ UNCHANGED stale
  <2>1. "OTHER" \in Errors /\ "OTHER" # ""
    BY DEF Errors
  <2> QED BY <1>1, <1>3, <2>1, LeavesWith
<1>4. CASE c.reuse /\ LeaveSilently /\ UNCHANGED stale
  <2>1. c.err \in Errors
    BY <1>1, InsideCall DEF Errors
  <2> QED BY <1>1, <1>4, <2>1, LeavesWith DEF LeaveSilently
<1> QED BY <1>2, <1>3, <1>4 DEF bind

LEMMA ConnectStep == ConnectInv /\ connect => ConnectInv'
<1> SUFFICES ASSUME ConnectInv, connect PROVE ConnectInv'
  OBVIOUS
<1>1. syscall \in Since /\ syscall # "idle"
  BY DEF connect, Since
<1>2. CASE OnwardAfterConnect
  BY <1>1, <1>2, Onward
<1>3. CASE Goto("wait") /\ UNCHANGED <<c, addrs, reuses, kernel>>
  BY <1>1, <1>3, GoesOn DEF Goto, kernel, Since
<1>4. CASE Quit("IO") \/ Quit("OTHER")
  BY <1>1, <1>4, Quits
<1>5. CASE c' = ClosedFd(c) /\ CloseAny(c.fd) /\ Goto("socket")
  BY <1>1, <1>5, TriesAgain
<1>6. CASE c.reuse /\ LeaveSilently /\ UNCHANGED stale
  <2>1. c.err \in Errors
    BY <1>1, InsideCall DEF Errors
  <2> QED BY <1>1, <1>6, <2>1, LeavesWith DEF LeaveSilently
<1> QED BY <1>2, <1>3, <1>4, <1>5, <1>6 DEF connect

LEMMA PollStep == ConnectInv /\ poll => ConnectInv'
<1> SUFFICES ASSUME ConnectInv, poll PROVE ConnectInv'
  OBVIOUS
<1>1. syscall \in Since /\ syscall # "idle"
  BY DEF poll, Since
<1>2. CASE Quit("IO")
  BY <1>1, <1>2, Quits
<1>3. CASE Leave("IO") /\ UNCHANGED stale
  <2>1. "IO" \in Errors /\ "IO" # ""
    BY DEF Errors
  <2> QED BY <1>1, <1>3, <2>1, LeavesWith
<1>4. CASE OnwardAfterConnect
  BY <1>1, <1>4, Onward
<1> QED BY <1>2, <1>3, <1>4 DEF poll

\* The last two system calls of a connection.
LEMMA LastStep == ConnectInv /\ (fcntlBack \/ setsockopt) => ConnectInv'
<1> SUFFICES ASSUME ConnectInv, fcntlBack \/ setsockopt PROVE ConnectInv'
  OBVIOUS
<1>1. syscall \in Since
  BY DEF fcntlBack, setsockopt, Since
<1>2. CASE Quit("IO")
  BY <1>1, <1>2, Quits
<1>3. CASE Connected(c)
  BY <1>1, <1>3, ConnectedIs
<1>4. CASE Goto("nodelay") /\ UNCHANGED <<c, addrs, reuses, kernel>>
  BY <1>1, <1>4, GoesOn DEF Goto, kernel, Since
<1> QED BY <1>2, <1>3, <1>4 DEF fcntlBack, setsockopt

-----------------------------------------------------------------------------
(* The interface                                                           *)

LEMMA InterfaceConnectStep == ConnectInv /\ Connect => ConnectInv'
<1> SUFFICES ASSUME ConnectInv, Connect PROVE ConnectInv'
  OBVIOUS
<1>1. PICK way \in Ways :
        Start([fd |-> 0, err |-> "", connected |-> FALSE, block |-> way.block, unix |-> way.unix,
               timeout |-> way.timeout, source |-> way.source, reuse |-> way.reuse])
  BY DEF Connect
<1> DEFINE d == [fd |-> 0, err |-> "", connected |-> FALSE, block |-> way.block, unix |-> way.unix,
                 timeout |-> way.timeout, source |-> way.source, reuse |-> way.reuse]
<1>2. d \in Contexts /\ d.err = ""
  BY DEF Ways, Contexts, Errors
<1>3. c = NoContext /\ UNCHANGED <<fds, astray>>
  BY DEF Connect, kernel
<1>4. /\ \A fd \in Fds : fds[fd] # "context"
      /\ ~stale => astray = {}
  BY <1>3 DEF ConnectInv, OwnSocket, ConnectTypes
<1>5. Start(d)
  BY <1>1
<1> HIDE DEF d
<1> QED BY <1>2, <1>3, <1>4, <1>5, Begins DEF ConnectInv, ConnectTypes

LEMMA RedisConnectFdStep == ConnectInv /\ redisConnectFd => ConnectInv'
<1> SUFFICES ASSUME ConnectInv, redisConnectFd PROVE ConnectInv'
  OBVIOUS
<1>1. PICK fd \in DOMAIN fds \ {0} :
        /\ fds[fd] = "program" /\ fds' = [fds EXCEPT ![fd] = "context"]
        /\ c' = [fd |-> fd, err |-> "", connected |-> TRUE, block |-> TRUE, unix |-> FALSE,
                 timeout |-> "none", source |-> FALSE, reuse |-> FALSE]
  BY DEF redisConnectFd, OpenFor
<1>2. c = NoContext /\ syscall' = "idle" /\ ret' = "OK" /\ UNCHANGED <<astray, stale>>
  BY DEF redisConnectFd
<1>3. fd \in Fds \ {0} /\ fd > 0 /\ fd \in Int
  BY ConnectAssumption DEF ConnectInv, ConnectTypes, Fds
<1>4. /\ c' \in Contexts /\ c'.fd = fd /\ c'.err = "" /\ c'.connected = TRUE
  BY <1>1, <1>3 DEF Contexts, Errors
<1>5. c' # NoContext
  BY <1>4, ContextIsNotNone
<1>6. \A f \in Fds : fds[f] # "context"
  BY <1>2 DEF ConnectInv, OwnSocket, ConnectTypes
<1>7. ConnectTypes'
  <2>1. fds' \in [Fds -> {"closed", "context", "program"}] /\ fds'[0] = "program"
    <3>1. fds' = [fds EXCEPT ![fd] = "context"] /\ fd # 0
      BY <1>1
    <3> QED BY <1>3, <3>1 DEF ConnectInv, ConnectTypes
  <2> QED BY <1>2, <1>4, <2>1 DEF ConnectInv, ConnectTypes
<1>8. InCall'
  BY <1>2 DEF InCall, Before, Since
<1>9. OwnSocket'
  BY <1>1, <1>2, <1>3, <1>4, <1>5, <1>6, <1>7 DEF ConnectInv, ConnectTypes, OwnSocket
<1>10. Told'
  BY <1>2, <1>3, <1>4 DEF Told, Usable
<1> QED BY <1>7, <1>8, <1>9, <1>10 DEF ConnectInv

\* What closing the socket of a context that is not in a call does.
LEMMA ClosesOwn ==
  ASSUME ConnectInv, Usable, CloseOwn
  PROVE  /\ fds' \in [Fds -> {"closed", "context", "program"}] /\ fds'[0] = "program"
         /\ \A fd \in Fds : fds'[fd] # "context"
         /\ ~stale => astray' = {}
<1>1. c \in Contexts /\ c # NoContext
  BY DEF Usable, ConnectInv, ConnectTypes
<1>2. CASE c.fd > 0
  <2>1. CloseAny(c.fd) /\ c.fd # 0 /\ (~stale => fds[c.fd] = "context")
    BY <1>2 DEF CloseOwn, ConnectInv, OwnSocket
  <2> QED BY <1>1, <2>1, Closing DEF ConnectInv
<1>3. CASE ~(c.fd > 0)
  <2>1. fds' = fds /\ astray' = astray
    BY <1>3 DEF CloseOwn, kernel
  <2>2. \A fd \in Fds : fd = c.fd => fd = 0
    BY <1>1, <1>3 DEF Fds, Contexts
  <2>3. DOMAIN fds = Fds /\ fds[0] = "program" /\ fds \in [Fds -> {"closed", "context", "program"}]
    BY DEF ConnectInv, ConnectTypes
  <2>4. \A fd \in Fds : fds[fd] # "context"
    BY <2>2, <2>3 DEF ConnectInv, OwnSocket
  <2>5. ~stale => astray = {}
    BY DEF ConnectInv, OwnSocket
  <2> QED BY <2>1, <2>3, <2>4, <2>5
<1> QED BY <1>2, <1>3

LEMMA RedisReconnectStep == ConnectInv /\ redisReconnect => ConnectInv'
<1> SUFFICES ASSUME ConnectInv, redisReconnect PROVE ConnectInv'
  OBVIOUS
<1> DEFINE d == [c EXCEPT !.err = ""]
<1>1. Usable /\ CloseOwn /\ Start(d)
  BY DEF redisReconnect
<1>2. d \in Contexts /\ d.err = ""
  <2>1. c \in Contexts /\ "" \in Errors
    BY <1>1 DEF Usable, ConnectInv, ConnectTypes, Errors
  <2> QED BY <2>1, FieldsSet
<1> HIDE DEF d
<1> QED BY <1>1, <1>2, ClosesOwn, Begins DEF ConnectInv

LEMMA RedisFreeStep == ConnectInv /\ (redisFree \/ redisFreeKeepFd) => ConnectInv'
<1> SUFFICES ASSUME ConnectInv, redisFree \/ redisFreeKeepFd PROVE ConnectInv'
  OBVIOUS
<1>1. Usable /\ c' = NoContext /\ syscall' = "idle" /\ stale' = stale
  BY DEF redisFree, redisFreeKeepFd, Return
<1>2. /\ fds' \in [Fds -> {"closed", "context", "program"}] /\ fds'[0] = "program"
      /\ \A fd \in Fds : fds'[fd] # "context"
      /\ ~stale => astray' = {}
  <2>1. CASE redisFree
    BY <1>1, <2>1, ClosesOwn DEF redisFree
  <2>2. CASE redisFreeKeepFd
    <3>1. astray' = astray
      BY <2>2 DEF redisFreeKeepFd
    <3>2. CASE c.fd > 0 /\ fds[c.fd] = "context"
      <4>1. fds' = [fds EXCEPT ![c.fd] = "program"]
        BY <2>2, <3>2 DEF redisFreeKeepFd, OpenFor
      <4>2. c.fd # 0 /\ \A fd \in Fds : fds[fd] = "context" => c.fd = fd
        BY <3>2 DEF ConnectInv, ConnectTypes, OwnSocket
      <4>3. ~stale => astray = {}
        BY DEF ConnectInv, OwnSocket
      <4>4. \A fd \in Fds : fds'[fd] = IF fd = c.fd THEN "program" ELSE fds[fd]
        BY <4>1 DEF ConnectInv, ConnectTypes
      <4>5. \A fd \in Fds : fds'[fd] # "context"
        BY <4>2, <4>4
      <4>6. fds' \in [Fds -> {"closed", "context", "program"}] /\ fds'[0] = "program"
        <5>1. fds \in [Fds -> {"closed", "context", "program"}] /\ fds[0] = "program" /\ 0 \in Fds
          BY ConnectAssumption DEF ConnectInv, ConnectTypes, Fds
        <5>2. fds' = [f \in Fds |-> IF f = c.fd THEN "program" ELSE fds[f]]
          BY <4>1, <5>1
        <5> QED BY <4>2, <5>1, <5>2
      <4> QED BY <3>1, <4>3, <4>5, <4>6
    <3>3. CASE ~(c.fd > 0 /\ fds[c.fd] = "context")
      <4>1. fds' = fds
        BY <2>2, <3>3 DEF redisFreeKeepFd
      <4>2. c \in Contexts
        BY <1>1 DEF Usable, ConnectInv, ConnectTypes
      <4>3. \A fd \in Fds : fd = c.fd /\ fds[fd] = "context" => fd = 0
        BY <3>3, <4>2 DEF Fds, Contexts
      <4> QED BY <3>1, <4>1, <4>3 DEF ConnectInv, ConnectTypes, OwnSocket
    <3> QED BY <3>2, <3>3
  <2> QED BY <2>1, <2>2
<1>3. ConnectTypes'
  BY <1>1, <1>2 DEF ConnectInv, ConnectTypes
<1>4. InCall' /\ Told'
  BY <1>1 DEF InCall, Told, Usable, Before, Since
<1>5. OwnSocket'
  BY <1>1, <1>2 DEF OwnSocket, Usable
<1> QED BY <1>3, <1>4, <1>5 DEF ConnectInv

LEMMA SetOptionStep == ConnectInv /\ SetOption => ConnectInv'
<1> SUFFICES ASSUME ConnectInv, SetOption PROVE ConnectInv'
  OBVIOUS
<1>1. PICK e \in {c.err, "IO", "OTHER"} : c' = [c EXCEPT !.err = e]
  BY DEF SetOption
<1>2. Usable /\ UNCHANGED <<syscall, ret, fds, astray, stale>>
  BY DEF SetOption, kernel
<1>3. c \in Contexts /\ e \in Errors
  BY <1>2 DEF Usable, ConnectInv, ConnectTypes, Contexts, Errors
<1>4. /\ c' \in Contexts /\ c'.fd = c.fd /\ c'.err = e
      /\ c'.connected = c.connected /\ c'.reuse = c.reuse /\ c'.unix = c.unix /\ c'.timeout = c.timeout
  BY <1>1, <1>3 DEF Contexts
<1>5. c' # NoContext
  BY <1>4, ContextIsNotNone
<1>6. ConnectTypes'
  BY <1>2, <1>4 DEF ConnectInv, ConnectTypes
<1>7. InCall'
  BY <1>2 DEF InCall, Usable, Before, Since
<1>8. OwnSocket'
  BY <1>2, <1>4, <1>5 DEF ConnectInv, OwnSocket, Usable
<1>9. Told'
  <2>1. e = "" => c.err = ""
    OBVIOUS
  <2> QED BY <1>2, <1>4, <1>5, <2>1 DEF ConnectInv, Told, Usable
<1> QED BY <1>6, <1>7, <1>8, <1>9 DEF ConnectInv

LEMMA ProgramStep == ConnectInv /\ Program => ConnectInv'
<1> SUFFICES ASSUME ConnectInv, Program PROVE ConnectInv'
  OBVIOUS
<1>1. UNCHANGED <<c, syscall, ret, astray, stale>>
  BY DEF Program, context
<1>2. PICK fd \in Fds \ {0}, who \in {"closed", "program"} :
        fds[fd] # "context" /\ fds' = [fds EXCEPT ![fd] = who]
  <2>1. CASE Unused # {} /\ OpenFor(Min(Unused), "program")
    BY <2>1, LowestIsUnused DEF OpenFor, ConnectInv
  <2>2. CASE \E fd \in DOMAIN fds \ {0} : fds[fd] = "program" /\ OpenFor(fd, "closed")
    BY <2>2 DEF OpenFor, ConnectInv, ConnectTypes
  <2> QED BY <2>1, <2>2 DEF Program
<1>3. \A f \in Fds : fds'[f] = "context" <=> fds[f] = "context"
  BY <1>2 DEF ConnectInv, ConnectTypes
<1>4. ConnectTypes'
  BY <1>1, <1>2 DEF ConnectInv, ConnectTypes
<1>5. InCall'
  BY <1>1, <1>3 DEF ConnectInv, InCall
<1>6. OwnSocket'
  <2>1. DOMAIN fds = Fds /\ DOMAIN fds' = Fds
    BY <1>4 DEF ConnectInv, ConnectTypes
  <2>2. Usable' <=> Usable
    BY <1>1 DEF Usable
  <2>3. Usable /\ c.fd > 0 /\ ~stale => fds'[c.fd] = "context"
    <3> SUFFICES ASSUME Usable, c.fd > 0, ~stale PROVE fds'[c.fd] = "context"
      OBVIOUS
    <3>1. fds[c.fd] = "context"
      BY DEF ConnectInv, OwnSocket
    <3>2. c.fd # fd
      BY <1>2, <3>1
    <3> QED BY <1>2, <2>1, <3>1, <3>2
  <2> QED BY <1>1, <1>3, <2>1, <2>2, <2>3 DEF ConnectInv, OwnSocket
<1>7. Told'
  BY <1>1 DEF ConnectInv, Told, Usable
<1> QED BY <1>4, <1>5, <1>6, <1>7 DEF ConnectInv

LEMMA ConnectInitHolds == ConnectInit => ConnectInv
<1> SUFFICES ASSUME ConnectInit PROVE ConnectInv
  OBVIOUS
<1>1. 0 \in Fds
  BY ConnectAssumption DEF Fds
<1>2. ConnectTypes
  BY <1>1 DEF ConnectTypes, ConnectInit, Fds
<1> QED BY <1>2 DEF ConnectInv, InCall, OwnSocket, Told, Usable, ConnectInit, Before, Since

\* Whatever system call fails, an open socket is its context's, the context closes none of
\* the program's, and the caller is told whether there is a connection; see SocketRight for
\* what the code gets wrong (net.c:265-477, hiredis.c:604-651).
THEOREM SocketIsRight == ConnectSpec => []SocketRight
<1>1. ConnectInv /\ UNCHANGED connectVars => ConnectInv'
  <2> SUFFICES ASSUME ConnectInv, UNCHANGED connectVars PROVE ConnectInv'
    OBVIOUS
  <2>1. UNCHANGED <<c, syscall, ret, fds, astray, stale>>
    BY DEF connectVars, context, kernel
  <2>2. ConnectTypes' /\ InCall'
    BY <2>1 DEF ConnectInv, ConnectTypes, InCall
  <2>3. OwnSocket' /\ Told'
    BY <2>1 DEF ConnectInv, OwnSocket, Told, Usable
  <2> QED BY <2>2, <2>3 DEF ConnectInv
<1>2. ConnectInv /\ [ConnectNext]_connectVars => ConnectInv'
  BY <1>1, GetaddrinfoStep, SocketStep, FcntlStep, BindStep, ConnectStep, PollStep, LastStep,
     InterfaceConnectStep, RedisConnectFdStep, RedisReconnectStep, RedisFreeStep, SetOptionStep,
     ProgramStep
  DEF ConnectNext
<1>3. ConnectInv => SocketRight
  BY DEF ConnectInv, OwnSocket, Told, SocketRight, Truthful
<1> QED BY <1>2, <1>3, ConnectInitHolds, PTL DEF ConnectSpec

-----------------------------------------------------------------------------
(* The MySQL connection                                                    *)

Inserts == [by : Nat, in : Nat, told : BOOLEAN, of : Nat, values : Nat]

MysqlTypes ==
  /\ client \in Nat /\ fetched \in Nat
  /\ method # "idle" => client # 0
  /\ map \in Seq(Columns) /\ columns \in Seq(Seq(Columns))
  /\ session \in Nat /\ ran \in Seq(Inserts)

\* The result the client may fetch from is that of the last query, and the index of columns
\* was made from it; the row it may read is the one fetched last.
Results ==
  /\ "fetch" \in may /\ res # <<>> =>
       /\ res.query = Len(columns) /\ res.next = fetched + 1
  /\ "fetch" \in may => columns # <<>> /\ map = columns[Len(columns)]
  /\ "read" \in may => "fetch" \in may /\ row = <<Len(columns), fetched>>

\* A client that may insert has prepared the statement itself, and set the parameter
\* itself or not yet; one that is executing it has done both.
Statements ==
  /\ client # 0 /\ "insert" \in may => stmt # <<>> /\ stmt.of = client /\ bound \in {0, client}
  /\ method = "insert" => "insert" \in may /\ bound # 0

MysqlInv == MysqlTypes /\ Results /\ Statements /\ Faithful

-----------------------------------------------------------------------------
LEMMA MysqlInitHolds == MysqlInit => MysqlInv
<1> SUFFICES ASSUME MysqlInit PROVE MysqlInv
  OBVIOUS
<1>1. <<>> \in Seq(Columns) /\ <<>> \in Seq(Seq(Columns))
  BY EmptySeq
<1>2. MysqlTypes
  BY <1>1, EmptySeq DEF MysqlTypes, MysqlInit
<1>3. DOMAIN ran = {}
  BY DEF MysqlInit
<1> QED BY <1>2, <1>3
        DEF MysqlInv, Results, Statements, Faithful, ValuesAreAsked, InsertsAreMine, MysqlInit

LEMMA TakeConnStep == ASSUME MysqlInv, NEW x \in {1, 2}, take(x) PROVE MysqlInv'
<1>1. /\ client' = x /\ may' = {} /\ method = "idle" /\ method' = "idle"
      /\ UNCHANGED <<map, columns, fetched, given, ran>>
  BY DEF take, hist
<1>2. session' \in Nat
  BY DEF take, MysqlInv, MysqlTypes
<1> QED BY <1>1, <1>2
        DEF MysqlInv, MysqlTypes, Results, Statements, Faithful, ValuesAreAsked, InsertsAreMine

LEMMA SameHistory ==
  ASSUME MysqlInv, UNCHANGED <<given, ran>>
  PROVE  Faithful'
BY DEF MysqlInv, Faithful, ValuesAreAsked, InsertsAreMine

\* Steps that leave statements and results alone: the connection is given back, the session
\* breaks, a method pings or is over.
LEMMA QuietStep ==
  ASSUME MysqlInv,
         UNCHANGED <<stmt, bound, res, row, map, may, columns, fetched, given, ran>>,
         client' \in {0, client}, session' \in {session, session + 1},
         method' # "idle" => client' # 0,
         method' = "insert" => "insert" \in may /\ bound # 0
  PROVE  MysqlInv'
<1>1. MysqlTypes'
  BY DEF MysqlInv, MysqlTypes
<1>2. Results'
  BY DEF MysqlInv, Results
<1>3. Statements'
  BY DEF MysqlInv, MysqlTypes, Statements
<1> QED BY <1>1, <1>2, <1>3, SameHistory DEF MysqlInv

LEMMA QuietSteps ==
  MysqlInv /\ (putBack \/ Break \/ (\E m \in {"query", "sql", "update"} : ping(m))
               \/ ("insert" \in may /\ bound # 0 /\ ping("insert"))
               \/ executeUpdate \/ executeSql) => MysqlInv'
<1>1. MysqlInv /\ putBack => MysqlInv'
  BY QuietStep DEF putBack, conn, hist
<1>2. MysqlInv /\ Break => MysqlInv'
  BY QuietStep DEF Break, hist, MysqlInv, Statements
<1>3. ASSUME MysqlInv, NEW m, ping(m), m = "insert" => "insert" \in may /\ bound # 0 PROVE MysqlInv'
  BY <1>3, QuietStep DEF ping, hist
<1>4. MysqlInv /\ (\E m \in {"query", "sql", "update"} : ping(m)) => MysqlInv'
  BY <1>3
<1>5. MysqlInv /\ "insert" \in may /\ bound # 0 /\ ping("insert") => MysqlInv'
  BY <1>3
<1>6. MysqlInv /\ executeUpdate => MysqlInv'
  <2> SUFFICES ASSUME MysqlInv, executeUpdate PROVE MysqlInv'
    OBVIOUS
  <2>1. client # 0
    BY DEF MysqlInv, MysqlTypes, executeUpdate
  <2> QED BY <2>1, QuietStep DEF executeUpdate, hist
<1>7. MysqlInv /\ executeSql => MysqlInv'
  BY QuietStep DEF executeSql, conn, hist
<1> QED BY <1>1, <1>2, <1>4, <1>5, <1>6, <1>7

LEMMA InitStmtStep == MysqlInv /\ initStmtForParam => MysqlInv'
<1> SUFFICES ASSUME MysqlInv, initStmtForParam PROVE MysqlInv'
  OBVIOUS
<1>1. PICK ok \in BOOLEAN :
        /\ stmt' = [of |-> client, in |-> session, ready |-> ok]
        /\ may' = (may \ {"insert"}) \cup IF ok THEN {"insert"} ELSE {}
  BY DEF initStmtForParam
<1>2. /\ method = "idle" /\ bound' = 0
      /\ UNCHANGED <<client, method, session, res, row, map, columns, fetched, given, ran>>
  BY DEF initStmtForParam, hist
<1>3. MysqlTypes'
  BY <1>2 DEF MysqlInv, MysqlTypes
<1>4. ("fetch" \in may' <=> "fetch" \in may) /\ ("read" \in may' <=> "read" \in may)
  BY <1>1
<1>5. Results'
  BY <1>2, <1>4 DEF MysqlInv, Results
<1>6. stmt' # <<>> /\ stmt'.of = client
  BY <1>1
<1>7. Statements'
  BY <1>2, <1>6 DEF Statements
<1> QED BY <1>2, <1>3, <1>5, <1>7, SameHistory DEF MysqlInv

LEMMA SetParamStep == MysqlInv /\ setstmtParam => MysqlInv'
<1> SUFFICES ASSUME MysqlInv, setstmtParam PROVE MysqlInv'
  OBVIOUS
<1>1. /\ bound' = client /\ method = "idle"
      /\ UNCHANGED <<client, method, session, stmt, res, row, map, may, columns, fetched, given, ran>>
  BY DEF setstmtParam, hist
<1> QED BY <1>1, SameHistory DEF MysqlInv, MysqlTypes, Results, Statements

LEMMA ExecuteInsertStep == MysqlInv /\ executeInsert => MysqlInv'
<1> SUFFICES ASSUME MysqlInv, executeInsert PROVE MysqlInv'
  OBVIOUS
<1>1. /\ method = "insert" /\ method' = "idle"
      /\ UNCHANGED <<client, session, stmt, bound, res, row, map, may, columns, fetched, given>>
  BY DEF executeInsert, conn
<1>2. Results' /\ Statements'
  BY <1>1 DEF MysqlInv, MysqlTypes, Results, Statements
<1>3. client # 0 /\ stmt.of = client /\ bound = client
  BY <1>1 DEF MysqlInv, MysqlTypes, Statements
<1>4. InsertsAreMine' /\ ran' \in Seq(Inserts)
  <2>1. CASE UNCHANGED ran
    BY <2>1 DEF MysqlInv, MysqlTypes, Faithful, InsertsAreMine
  <2>2. CASE \E told \in BOOLEAN :
               ran' = Append(ran, [by |-> client, in |-> session, told |-> told,
                                   of |-> stmt.of, values |-> bound])
    <3>1. PICK told \in BOOLEAN :
               ran' = Append(ran, [by |-> client, in |-> session, told |-> told,
                                   of |-> stmt.of, values |-> bound])
      BY <2>2
    <3> DEFINE e == [by |-> client, in |-> session, told |-> told,
                     of |-> stmt.of, values |-> bound]
    <3>2. e \in Inserts /\ e.by = e.of /\ e.values = e.by
      BY <1>3 DEF MysqlInv, MysqlTypes, Inserts
    <3>3. ran' = Append(ran, e) /\ ran \in Seq(Inserts)
      BY <3>1 DEF MysqlInv, MysqlTypes
    <3> HIDE DEF e
    <3>4. /\ ran' \in Seq(Inserts) /\ Len(ran') = Len(ran) + 1
          /\ \A i \in 1..Len(ran) : ran'[i] = ran[i]
          /\ ran'[Len(ran) + 1] = e
      BY <3>2, <3>3, AppendProperties
    <3>5. /\ DOMAIN ran' = 1..(Len(ran) + 1) /\ DOMAIN ran = 1..Len(ran) /\ Len(ran) \in Nat
      BY <3>3, <3>4, LenProperties
    <3>6. \A i \in DOMAIN ran' : ran'[i].by = ran'[i].of /\ ran'[i].values = ran'[i].by
      <4> SUFFICES ASSUME NEW i \in DOMAIN ran'
                   PROVE  ran'[i].by = ran'[i].of /\ ran'[i].values = ran'[i].by
        OBVIOUS
      <4>1. CASE i = Len(ran) + 1
        BY <3>2, <3>4, <4>1
      <4>2. CASE i \in 1..Len(ran)
        BY <3>4, <3>5, <4>2 DEF MysqlInv, Faithful, InsertsAreMine
      <4> QED BY <3>5, <4>1, <4>2
    <3> QED BY <3>4, <3>6 DEF InsertsAreMine
  <2> QED BY <2>1, <2>2 DEF executeInsert
<1>5. MysqlTypes'
  BY <1>1, <1>4 DEF MysqlInv, MysqlTypes
<1> QED BY <1>1, <1>2, <1>4, <1>5 DEF MysqlInv, Faithful, ValuesAreAsked

-----------------------------------------------------------------------------
(* Queries and their results                                               *)

LEMMA ExecuteQueryStep == MysqlInv /\ executeQuery => MysqlInv'
<1> SUFFICES ASSUME MysqlInv, executeQuery PROVE MysqlInv'
  OBVIOUS
<1>1. /\ method = "query" /\ method' = "idle" /\ fetched' = 0
      /\ UNCHANGED <<client, session, stmt, bound, row, given, ran>>
  BY DEF executeQuery
<1>2. columns \in Seq(Seq(Columns)) /\ Len(columns) \in Nat /\ map \in Seq(Columns)
  BY LenProperties DEF MysqlInv, MysqlTypes
<1>3. "insert" \in may' <=> "insert" \in may
  BY DEF executeQuery, Failed, NoResult, Stored
<1>4. Statements'
  BY <1>1, <1>3 DEF MysqlInv, Statements
<1>5. CASE Failed \/ NoResult
  <2>1. /\ columns' = Append(columns, <<>>) /\ map' = map
        /\ "fetch" \notin may' /\ "read" \notin may'
    BY <1>5 DEF Failed, NoResult
  <2>2. columns' \in Seq(Seq(Columns))
    <3>1. <<>> \in Seq(Columns)
      BY EmptySeq
    <3> QED BY <1>2, <2>1, <3>1, AppendProperties
  <2>3. MysqlTypes'
    BY <1>1, <2>1, <2>2 DEF MysqlInv, MysqlTypes
  <2>4. Results'
    BY <2>1 DEF Results
  <2> QED BY <1>1, <1>4, <2>3, <2>4, SameHistory DEF MysqlInv
<1>6. CASE \E rows \in 0..MaxRows, order \in Orders : Stored(rows, order)
  <2>1. PICK rows \in 0..MaxRows, order \in Orders : Stored(rows, order)
    BY <1>6
  <2>2. /\ columns' = Append(columns, order) /\ map' = order
        /\ res' = [query |-> Len(columns'), next |-> 1, left |-> rows]
        /\ "read" \notin may'
    BY <2>1 DEF Stored
  <2>3. order \in Seq(Columns)
    <3>1. \A k \in Columns : <<k>> \in Seq(Columns)
      OBVIOUS
    <3>2. \A k, l \in Columns : <<k, l>> \in Seq(Columns)
      OBVIOUS
    <3>3. CASE order \in {<<k>> : k \in Columns}
      BY <3>1, <3>3
    <3>4. CASE order \in {<<k, l>> : k, l \in Columns}
      <4>1. PICK k \in Columns, l \in Columns : order = <<k, l>>
        BY <3>4
      <4> QED BY <3>2, <4>1
    <3> QED BY <3>3, <3>4 DEF Orders
  <2>4. /\ columns' \in Seq(Seq(Columns)) /\ columns' # <<>> /\ Len(columns') = Len(columns) + 1
        /\ columns'[Len(columns) + 1] = order
    BY <1>2, <2>2, <2>3, AppendProperties, SMTT(60)
  <2>5. MysqlTypes'
    BY <1>1, <2>2, <2>3, <2>4 DEF MysqlInv, MysqlTypes
  <2>6. res'.query = Len(columns') /\ res'.next = 1
    BY <2>2
  <2>7. map' = columns'[Len(columns')]
    BY <2>2, <2>4
  <2>8. Results'
    BY <1>1, <2>2, <2>4, <2>6, <2>7 DEF Results
  <2> QED BY <1>1, <1>4, <2>5, <2>8, SameHistory DEF MysqlInv
<1> QED BY <1>5, <1>6 DEF executeQuery

LEMMA NextRowStep == MysqlInv /\ nextRow => MysqlInv'
<1> SUFFICES ASSUME MysqlInv, nextRow PROVE MysqlInv'
  OBVIOUS
<1>1. /\ method = "idle" /\ "fetch" \in may /\ res # <<>>
      /\ UNCHANGED <<client, method, session, stmt, bound, map, columns, given, ran>>
  BY DEF nextRow
<1>2. /\ res.query = Len(columns) /\ res.next = fetched + 1 /\ fetched \in Nat
      /\ columns # <<>> /\ map = columns[Len(columns)]
  BY <1>1 DEF MysqlInv, MysqlTypes, Results
<1>3. CASE res.left > 0
  <2>1. /\ row' = <<res.query, res.next>> /\ may' = may \cup {"read"} /\ fetched' = fetched + 1
        /\ res' = [res EXCEPT !.next = @ + 1, !.left = @ - 1]
    BY <1>3 DEF nextRow
  <2>2. MysqlTypes'
    BY <1>1, <1>2, <2>1, SMTT(60) DEF MysqlInv, MysqlTypes
  <2>3. Results'
    <3>1. res'.query = res.query /\ res'.next = res.next + 1
      BY <2>1
    <3> QED BY <1>1, <1>2, <2>1, <3>1, Zenon DEF Results
  <2>4. Statements'
    BY <1>1, <2>1 DEF MysqlInv, Statements
  <2> QED BY <1>1, <2>2, <2>3, <2>4, SameHistory DEF MysqlInv
<1>4. CASE ~(res.left > 0)
  <2>1. row' = <<>> /\ may' = may \ {"read"} /\ UNCHANGED <<res, fetched>>
    BY <1>4 DEF nextRow
  <2>2. MysqlTypes' /\ Results' /\ Statements'
    BY <1>1, <2>1 DEF MysqlInv, MysqlTypes, Results, Statements
  <2> QED BY <1>1, <2>2, SameHistory DEF MysqlInv
<1> QED BY <1>3, <1>4

LEMMA GetValueStep == ASSUME MysqlInv, NEW key \in Columns, getValue(key) PROVE MysqlInv'
<1> DEFINE At(j) == map[j] = key /\ \A h \in 1..(j - 1) : map[h] # key
           i == CHOOSE j \in DOMAIN map : At(j)
<1>1. /\ method = "idle" /\ "read" \in may /\ key \in {map[j] : j \in DOMAIN map}
      /\ given' = [asked |-> <<Len(columns), fetched, key>>, got |-> <<row[1], row[2],
               IF i \in DOMAIN columns[row[1]] THEN columns[row[1]][i] ELSE "none">>]
      /\ UNCHANGED <<client, method, session, stmt, bound, res, row, map, may, columns, fetched, ran>>
  BY DEF getValue, conn
<1>2. \E j \in DOMAIN map : At(j)
  <2> DEFINE A == {j \in DOMAIN map : map[j] = key}
  <2>1. map \in Seq(Columns) /\ DOMAIN map = 1..Len(map) /\ Len(map) \in Nat
    BY LenProperties DEF MysqlInv, MysqlTypes
  <2>2. A # {} /\ A \subseteq Nat
    <3>1. PICK j \in DOMAIN map : key = map[j]
      BY <1>1
    <3>2. j \in A
      BY <3>1
    <3> QED BY <2>1, <3>2
  <2>3. PICK j \in A : \A k \in A : j =< k
    BY <2>2, LeastOf
  <2>4. j \in DOMAIN map /\ map[j] = key /\ \A h \in 1..(j - 1) : map[h] # key
    BY <2>1, <2>3
  <2> QED BY <2>4
<1>3. i \in DOMAIN map /\ map[i] = key
  BY <1>2
<1>4. map = columns[Len(columns)] /\ row = <<Len(columns), fetched>>
  BY <1>1 DEF MysqlInv, Results
<1> HIDE DEF i
<1>5. given'.got = given'.asked
  BY <1>1, <1>3, <1>4
<1>6. MysqlTypes' /\ Results' /\ Statements'
  BY <1>1 DEF MysqlInv, MysqlTypes, Results, Statements
<1> QED BY <1>1, <1>5, <1>6 DEF MysqlInv, Faithful, ValuesAreAsked, InsertsAreMine

\* A client reads the column, row and query it asked for and inserts what it has prepared
\* and filled in, whatever sessions break and whatever the client before left behind
\* (MysqlPool.cpp:96-263).
THEOREM ConnectionIsFaithful == MysqlSpec => []Faithful
<1>1. MysqlInv /\ UNCHANGED mysqlVars => MysqlInv'
  BY DEF MysqlInv, MysqlTypes, Results, Statements, Faithful, ValuesAreAsked, InsertsAreMine,
         mysqlVars, conn, hist
<1>2. MysqlInv /\ [MysqlNext]_mysqlVars => MysqlInv'
  BY <1>1, TakeConnStep, QuietSteps, InitStmtStep, SetParamStep, ExecuteInsertStep, ExecuteQueryStep,
     NextRowStep, GetValueStep
  DEF MysqlNext
<1>3. MysqlInv => Faithful
  BY DEF MysqlInv
<1> QED BY <1>2, <1>3, MysqlInitHolds, PTL DEF MysqlSpec

-----------------------------------------------------------------------------
(* The Redis wrapper                                                       *)

WrapperTypes ==
  /\ m_pContext \in {"NULL", "ok", "err"} /\ awaits \in {"nothing", "AUTH", "SELECT", "call"}
  /\ want \in ReplyTypes /\ asked \in 0..MaxCmd
  /\ awaits = "AUTH" => asked + 1 =< MaxCmd
  /\ awaits # "nothing" => m_pContext # "NULL" /\ asked > 0
  /\ awaits \in {"AUTH", "SELECT"} => m_pContext = "ok"
  /\ base \in {"0", "chosen"}
  /\ gave \in [Cmds -> Nat] /\ executed \in [Cmds -> Seq({"0", "chosen"})]

\* What the last command is to the server.
Kind == IF awaits = "call" THEN want ELSE awaits

\* A good context that waits: the two halves of its command are on the way, or those of the
\* reply are, and nothing else is.
Asking ==
  /\ rbuf = <<>> /\ back = <<>> /\ executed[asked] = <<>>
  /\ \/ obuf = Halves(asked, Kind) /\ wire = <<>>
     \/ obuf = <<Half(2, asked, Kind)>> /\ wire = <<Half(1, asked, Kind)>>
     \/ obuf = <<>> /\ wire = Halves(asked, Kind)
Answered(type) ==
  /\ obuf = <<>> /\ wire = <<>> /\ Len(executed[asked]) = 1
  /\ \/ rbuf = <<>> /\ back = Halves(asked, type)
     \/ rbuf = <<Half(1, asked, type)>> /\ back = <<Half(2, asked, type)>>
     \/ rbuf = Halves(asked, type) /\ back = <<>>
  /\ awaits = "SELECT" /\ type = "status" => base = "chosen"
  /\ awaits = "call" /\ ~refused => executed[asked][1] = "chosen"
Waiting == m_pContext = "ok" /\ awaits # "nothing" => Asking \/ \E type : Answered(type)

Idle ==
  m_pContext = "ok" /\ awaits = "nothing" =>
    obuf = <<>> /\ wire = <<>> /\ rbuf = <<>> /\ back = <<>>

\* What a context that is not good any more has sent may still be executed, but it is not
\* the command it waits for; and no reply comes.
Late ==
  m_pContext # "ok" =>
    /\ wire = <<>> \/ \E n \in 1..asked : \E kind :
         /\ wire = <<Half(1, n, kind)>> \/ wire = Halves(n, kind)
         /\ executed[n] = <<>> /\ (awaits = "call" => n # asked)
    /\ m_pContext = "err" => ~Replied
    /\ awaits = "call" => executed[asked] = <<>>

Based == m_pContext = "ok" /\ awaits \in {"nothing", "call"} /\ ~refused => base = "chosen"

\* Nothing has come of the commands to be made.
Later == \A n \in Cmds : n > asked => executed[n] = <<>>

WrapperInv ==
  WrapperTypes /\ Waiting /\ Idle /\ Late /\ Based /\ Later /\ AnswersAreMine

\* Sequences of one and of two.
LEMMA OneOrTwo ==
  ASSUME NEW a, NEW b
  PROVE  /\ Len(<<>>) = 0 /\ Len(<<a>>) = 1 /\ Len(<<a, b>>) = 2
         /\ <<a>> # <<>> /\ <<a, b>> # <<>>
         /\ <<a>>[1] = a /\ <<a, b>>[1] = a /\ <<a, b>>[2] = b
         /\ DOMAIN <<>> = {} /\ DOMAIN <<a>> = {1} /\ DOMAIN <<a, b>> = {1, 2}
         /\ <<>> \o <<>> = <<>> /\ <<>> \o <<a>> = <<a>> /\ <<>> \o <<a, b>> = <<a, b>>
         /\ <<a>> \o <<b>> = <<a, b>>
         /\ SubSeq(<<a>>, 1, 1) = <<a>> /\ SubSeq(<<a>>, 2, 1) = <<>>
         /\ SubSeq(<<a, b>>, 1, 1) = <<a>> /\ SubSeq(<<a, b>>, 2, 2) = <<b>>
         /\ SubSeq(<<a, b>>, 1, 2) = <<a, b>> /\ SubSeq(<<a, b>>, 3, 2) = <<>>
<1>1. /\ Len(<<>>) = 0 /\ Len(<<a>>) = 1 /\ Len(<<a, b>>) = 2
      /\ <<a>> # <<>> /\ <<a, b>> # <<>>
      /\ <<a>>[1] = a /\ <<a, b>>[1] = a /\ <<a, b>>[2] = b
  OBVIOUS
<1>2. DOMAIN <<>> = {} /\ DOMAIN <<a>> = {1} /\ DOMAIN <<a, b>> = {1, 2}
  OBVIOUS
<1>3. <<>> \o <<>> = <<>> /\ <<>> \o <<a>> = <<a>> /\ <<>> \o <<a, b>> = <<a, b>>
  OBVIOUS
<1> DEFINE S == {a, b}
<1>S. <<a>> \in Seq(S) /\ <<b>> \in Seq(S) /\ <<a, b>> \in Seq(S) /\ <<>> \in Seq(S) /\ Len(<<b>>) = 1
  OBVIOUS
<1>4. <<a>> \o <<b>> = <<a, b>>
  <2>1. /\ <<a>> \o <<b>> \in Seq(S) /\ Len(<<a>> \o <<b>>) = 2
        /\ \A i \in 1..2 : (<<a>> \o <<b>>)[i] = IF i <= 1 THEN <<a>>[i] ELSE <<b>>[i - 1]
    BY <1>1, <1>S, ConcatProperties
  <2>2. (<<a>> \o <<b>>)[1] = a /\ (<<a>> \o <<b>>)[2] = b
    BY <2>1
  <2>3. \A i \in 1..2 : (<<a>> \o <<b>>)[i] = <<a, b>>[i]
    BY <1>1, <2>2
  <2> QED BY <1>1, <1>S, <2>1, <2>3, SeqEqual
<1>5. SubSeq(<<a>>, 1, 1) = <<a>> /\ SubSeq(<<a>>, 2, 1) = <<>>
  <2>1. SubSeq(<<a>>, 1, 1) = <<a>>
    <3>1. /\ SubSeq(<<a>>, 1, 1) \in Seq(S) /\ Len(SubSeq(<<a>>, 1, 1)) = 1
          /\ \A i \in 1..1 : SubSeq(<<a>>, 1, 1)[i] = <<a>>[1 + i - 1]
      BY <1>1, <1>S, SubSeqProperties
    <3>2. SubSeq(<<a>>, 1, 1)[1] = a
      BY <1>1, <3>1
    <3>3. ASSUME NEW x \in Seq(S), Len(x) = 1, NEW y \in S, x[1] = y PROVE x = <<y>>
      BY <3>3
    <3>4. a \in S
      OBVIOUS
    <3> HIDE DEF S
    <3> QED BY <3>1, <3>2, <3>3, <3>4
  <2>2. SubSeq(<<a>>, 2, 1) \in Seq(S) /\ Len(SubSeq(<<a>>, 2, 1)) = 0
    BY <1>1, <1>S, SubSeqProperties
  <2> QED BY <2>1, <2>2, EmptySeq
<1>6. SubSeq(<<a, b>>, 1, 1) = <<a>> /\ SubSeq(<<a, b>>, 2, 2) = <<b>>
  <2>1. /\ SubSeq(<<a, b>>, 1, 1) \in Seq(S) /\ Len(SubSeq(<<a, b>>, 1, 1)) = 1
        /\ \A i \in 1..1 : SubSeq(<<a, b>>, 1, 1)[i] = <<a, b>>[1 + i - 1]
    BY <1>1, <1>S, SubSeqProperties
  <2>2. /\ SubSeq(<<a, b>>, 2, 2) \in Seq(S) /\ Len(SubSeq(<<a, b>>, 2, 2)) = 1
        /\ \A i \in 1..1 : SubSeq(<<a, b>>, 2, 2)[i] = <<a, b>>[2 + i - 1]
    BY <1>1, <1>S, SubSeqProperties
  <2>3. SubSeq(<<a, b>>, 1, 1)[1] = a /\ SubSeq(<<a, b>>, 2, 2)[1] = b
    BY <1>1, <2>1, <2>2
  <2>4. ASSUME NEW s \in Seq(S), Len(s) = 1, NEW x \in S, s[1] = x PROVE s = <<x>>
    BY <2>4
  <2> HIDE DEF S
  <2>5. a \in S /\ b \in S
    BY DEF S
  <2> QED BY <2>1, <2>2, <2>3, <2>4, <2>5
<1>7. SubSeq(<<a, b>>, 1, 2) = <<a, b>> /\ SubSeq(<<a, b>>, 3, 2) = <<>>
  <2>1. /\ SubSeq(<<a, b>>, 1, 2) \in Seq(S) /\ Len(SubSeq(<<a, b>>, 1, 2)) = 2
        /\ \A i \in 1..2 : SubSeq(<<a, b>>, 1, 2)[i] = <<a, b>>[1 + i - 1]
    BY <1>1, <1>S, SubSeqProperties
  <2>2. SubSeq(<<a, b>>, 3, 2) \in Seq(S) /\ Len(SubSeq(<<a, b>>, 3, 2)) = 0
    BY <1>1, <1>S, SubSeqProperties
  <2>3. SubSeq(<<a, b>>, 1, 2) = <<a, b>>
    <3>1. \A i \in 1..2 : SubSeq(<<a, b>>, 1, 2)[i] = <<a, b>>[i]
      BY <2>1
    <3> QED BY <1>1, <1>S, <2>1, <3>1, SeqEqual, ZenonT(60)
  <2> QED BY <2>2, <2>3, EmptySeq
<1> QED BY <1>1, <1>2, <1>3, <1>4, <1>5, <1>6, <1>7

\* Some of two pieces moved from one end to the other: the first is there, or both are.
LEMMA Drawn ==
  ASSUME NEW a, NEW b, NEW n
  PROVE  /\ n \in 1..2 =>
              \/ <<>> \o SubSeq(<<a, b>>, 1, n) = <<a>> /\ SubSeq(<<a, b>>, n + 1, 2) = <<b>>
              \/ <<>> \o SubSeq(<<a, b>>, 1, n) = <<a, b>> /\ SubSeq(<<a, b>>, n + 1, 2) = <<>>
         /\ n \in 1..1 =>
              <<a>> \o SubSeq(<<b>>, 1, n) = <<a, b>> /\ SubSeq(<<b>>, n + 1, 1) = <<>>
<1>1. CASE n = 1
  <2>1. n + 1 = 2 /\ n \in 1..1 /\ n \in 1..2
    BY <1>1
  <2>2. SubSeq(<<a, b>>, 1, 1) = <<a>> /\ SubSeq(<<a, b>>, 2, 2) = <<b>> /\ <<>> \o <<a>> = <<a>>
    BY OneOrTwo, ZenonT(60)
  <2>3. SubSeq(<<b>>, 1, 1) = <<b>> /\ SubSeq(<<b>>, 2, 1) = <<>> /\ <<a>> \o <<b>> = <<a, b>>
    BY OneOrTwo
  <2> QED BY <1>1, <2>1, <2>2, <2>3
<1>2. CASE n = 2
  <2>1. n + 1 = 3 /\ n \notin 1..1
    BY <1>2
  <2>2. SubSeq(<<a, b>>, 1, 2) = <<a, b>> /\ SubSeq(<<a, b>>, 3, 2) = <<>>
    <3>1. SubSeq(<<a, b>>, 1, 2) = <<a, b>>
      BY OneOrTwo
    <3>2. SubSeq(<<a, b>>, 3, 2) = <<>>
      BY OneOrTwo
    <3> QED BY <3>1, <3>2
  <2>3. <<>> \o <<a, b>> = <<a, b>>
    BY OneOrTwo
  <2>4. <<>> \o SubSeq(<<a, b>>, 1, n) = <<a, b>> /\ SubSeq(<<a, b>>, n + 1, 2) = <<>>
    BY <1>2, <2>1, <2>2, <2>3
  <2> QED BY <2>1, <2>4, Zenon
<1>3. (n \in 1..2 => n = 1 \/ n = 2) /\ (n \in 1..1 => n = 1)
  OBVIOUS
<1> QED BY <1>1, <1>2, <1>3, Zenon

LEMMA TypesOfReplies == ReplyTypes = {"int", "status", "string", "array"}
  BY DEF ReplyTypes, GeneralCmds, StringCmds, ListCmds, HashCmds

\* The halves of a command, apart and together.
LEMMA HalvesOf ==
  ASSUME NEW n, NEW kind
  PROVE  /\ Halves(n, kind) = <<Half(1, n, kind), Half(2, n, kind)>>
         /\ Half(1, n, kind).half = 1 /\ Half(2, n, kind).half = 2
         /\ \A i \in {1, 2} : Half(i, n, kind).of = n /\ Half(i, n, kind).kind = kind
BY DEF Halves, Half

LEMMA WrapperInitHolds == WrapperInit => WrapperInv
<1> SUFFICES ASSUME WrapperInit PROVE WrapperInv
  OBVIOUS
<1>1. \A S : <<>> \in Seq(S) /\ Len(<<>>) = 0
  BY EmptySeq
<1>2. WrapperTypes
  BY <1>1, TypesOfReplies, WrapperAssumption DEF WrapperTypes, WrapperInit
<1>3. Waiting /\ Idle /\ Late /\ Based
  BY DEF Waiting, Idle, Late, Based, WrapperInit
<1>4. Later /\ AnswersAreMine
  BY <1>1 DEF Later, AnswersAreMine, WrapperInit, Cmds
<1> QED BY <1>2, <1>3, <1>4 DEF WrapperInv

LEMMA LoginStep == WrapperInv /\ Login => WrapperInv'
<1> SUFFICES ASSUME WrapperInv, Login PROVE WrapperInv'
  OBVIOUS
<1> DEFINE first == IF Password THEN "AUTH" ELSE "SELECT"
<1>1. /\ m_pContext' = "ok" /\ awaits' = first /\ asked' = asked + 1
      /\ obuf' = Halves(asked + 1, first) /\ rbuf' = <<>> /\ wire' = <<>> /\ back' = <<>>
      /\ base' = "0" /\ UNCHANGED <<want, gave, executed>> /\ asked + 2 =< MaxCmd
  BY DEF Login
<1>2. asked \in Nat /\ first \in {"AUTH", "SELECT"} /\ MaxCmd \in Nat
  BY WrapperAssumption DEF WrapperInv, WrapperTypes
<1> HIDE DEF first
<1>3. asked + 1 \in Cmds /\ executed[asked + 1] = <<>>
  <2>1. asked + 1 \in Cmds /\ asked + 1 > asked
    BY <1>1, <1>2 DEF Cmds
  <2> QED BY <2>1 DEF WrapperInv, Later
<1>4. WrapperTypes'
  BY <1>1, <1>2 DEF WrapperInv, WrapperTypes
<1>5. Waiting'
  <2>1. Kind' = first
    BY <1>1, <1>2 DEF Kind
  <2>2. Asking'
    BY <1>1, <1>3, <2>1 DEF Asking
  <2> QED BY <2>2 DEF Waiting
<1>6. Idle' /\ Late' /\ Based'
  BY <1>1, <1>2 DEF Idle, Late, Based
<1>7. Later' /\ AnswersAreMine'
  <2>1. \A n \in Cmds : n > asked + 1 => n > asked
    BY <1>2 DEF Cmds
  <2> QED BY <1>1, <2>1 DEF WrapperInv, Later, AnswersAreMine
<1> QED BY <1>4, <1>5, <1>6, <1>7 DEF WrapperInv

LEMMA DeInitStep == WrapperInv /\ DeInit => WrapperInv'
<1> SUFFICES ASSUME WrapperInv, DeInit PROVE WrapperInv'
  OBVIOUS
<1>1. /\ awaits = "nothing" /\ m_pContext # "NULL" /\ m_pContext' = "NULL"
      /\ UNCHANGED <<awaits, want, asked, obuf, rbuf, wire, back, base, executed, gave, refused>>
  BY DEF DeInit, server
<1>2. WrapperTypes' /\ Later' /\ AnswersAreMine'
  BY <1>1 DEF WrapperInv, WrapperTypes, Later, AnswersAreMine
<1>3. Waiting' /\ Idle' /\ Based'
  BY <1>1 DEF Waiting, Idle, Based
<1>4. Late'
  <2>1. wire = <<>> \/ \E n \in 1..asked : \E kind :
          /\ wire = <<Half(1, n, kind)>> \/ wire = Halves(n, kind)
          /\ executed[n] = <<>>
    BY <1>1 DEF WrapperInv, WrapperTypes, Idle, Late
  <2> QED BY <1>1, <2>1 DEF Late
<1> QED BY <1>2, <1>3, <1>4 DEF WrapperInv

LEMMA CallStep == ASSUME WrapperInv, NEW type \in ReplyTypes, Call(type) PROVE WrapperInv'
<1>1. /\ awaits = "nothing" /\ m_pContext # "NULL" /\ asked < MaxCmd
      /\ asked' = asked + 1 /\ obuf' = obuf \o Halves(asked + 1, type)
      /\ awaits' = "call" /\ want' = type
      /\ UNCHANGED <<m_pContext, rbuf, wire, back, base, executed, gave, refused>>
  BY DEF Call, Send, server
<1>2. asked \in Nat /\ MaxCmd \in Nat
  BY WrapperAssumption DEF WrapperInv, WrapperTypes
<1>3. asked + 1 \in Cmds /\ executed[asked + 1] = <<>>
  <2>1. asked + 1 \in Cmds /\ asked + 1 > asked
    BY <1>1, <1>2 DEF Cmds
  <2> QED BY <2>1 DEF WrapperInv, Later
<1>4. WrapperTypes'
  BY <1>1, <1>2 DEF WrapperInv, WrapperTypes
<1>5. Waiting'
  <2> SUFFICES ASSUME m_pContext' = "ok" PROVE Asking'
    BY DEF Waiting
  <2>1. obuf = <<>> /\ wire = <<>> /\ rbuf = <<>> /\ back = <<>>
    BY <1>1 DEF WrapperInv, Idle
  <2>2. obuf' = Halves(asked + 1, type)
    BY <1>1, <2>1, HalvesOf, OneOrTwo
  <2>3. Kind' = type
    BY <1>1 DEF Kind
  <2> QED BY <1>1, <1>3, <2>1, <2>2, <2>3 DEF Asking
<1>6. Idle'
  BY <1>1 DEF Idle
<1>7. Late'
  <2> SUFFICES ASSUME m_pContext # "ok" PROVE Late'
    BY <1>1 DEF Late
  <2>1. \A n \in 1..asked : n \in 1..(asked + 1) /\ n # asked + 1
    BY <1>2
  <2>2. wire' = <<>> \/ \E n \in 1..asked' : \E kind :
          /\ wire' = <<Half(1, n, kind)>> \/ wire' = Halves(n, kind)
          /\ executed'[n] = <<>> /\ n # asked'
    BY <1>1, <2>1 DEF WrapperInv, Late
  <2> QED BY <1>1, <1>3, <2>2 DEF WrapperInv, Late, Replied
<1>8. Based'
  BY <1>1 DEF WrapperInv, Based
<1>9. Later' /\ AnswersAreMine'
  <2>1. \A n \in Cmds : n > asked + 1 => n > asked
    BY <1>2 DEF Cmds
  <2> QED BY <1>1, <2>1 DEF WrapperInv, Later, AnswersAreMine
<1> QED BY <1>4, <1>5, <1>6, <1>7, <1>8, <1>9 DEF WrapperInv

\* Without a reply a good context is good no more, and nothing is on its way for it.
LEMMA FailStep ==
  ASSUME WrapperInv, awaits # "nothing", m_pContext # "NULL", ~Replied, Fail,
         UNCHANGED <<want, rbuf, wire, back, base, executed>>
  PROVE  WrapperInv'
<1>1. /\ m_pContext' \in {"NULL", "err"} /\ awaits' = "nothing"
      /\ UNCHANGED <<asked, gave>>
  <2>1. CASE awaits = "AUTH"
    BY <2>1 DEF Fail, Finish, Auth
  <2>2. CASE awaits # "AUTH"
    BY <2>2 DEF Fail
  <2> QED BY <2>1, <2>2
<1>2. WrapperTypes' /\ Later' /\ AnswersAreMine'
  BY <1>1 DEF WrapperInv, WrapperTypes, Later, AnswersAreMine
<1>3. Waiting' /\ Idle' /\ Based'
  BY <1>1 DEF Waiting, Idle, Based
<1>4. wire = <<>> \/ \E n \in 1..asked : \E kind :
        /\ wire = <<Half(1, n, kind)>> \/ wire = Halves(n, kind)
        /\ executed[n] = <<>>
  <2>1. CASE m_pContext = "ok"
    <3>1. asked \in 1..asked
      BY DEF WrapperInv, WrapperTypes
    <3>2. Asking \/ \E type : Answered(type)
      BY <2>1 DEF WrapperInv, Waiting
    <3>3. CASE Asking
      BY <3>1, <3>3 DEF Asking
    <3>4. CASE \E type : Answered(type)
      BY <3>4 DEF Answered
    <3> QED BY <3>2, <3>3, <3>4
  <2>2. CASE m_pContext # "ok"
    BY <2>2 DEF WrapperInv, Late
  <2> QED BY <2>1, <2>2
<1>5. Late'
  BY <1>1, <1>4 DEF Late, Replied
<1> QED BY <1>2, <1>3, <1>5 DEF WrapperInv

LEMMA WriteStep == WrapperInv /\ redisBufferWrite => WrapperInv'
<1> SUFFICES ASSUME WrapperInv, redisBufferWrite PROVE WrapperInv'
  OBVIOUS
<1>1. /\ awaits # "nothing" /\ m_pContext = "ok" /\ ~Replied /\ obuf # <<>>
      /\ UNCHANGED <<want, rbuf, back, base, executed>>
  BY DEF redisBufferWrite
<1>2. CASE Fail /\ UNCHANGED wire
  BY <1>1, <1>2, FailStep
<1>3. CASE /\ \E n \in 1..Len(obuf) :
                 wire' = wire \o SubSeq(obuf, 1, n) /\ obuf' = SubSeq(obuf, n + 1, Len(obuf))
           /\ UNCHANGED <<m_pContext, awaits, asked, gave, refused>>
  <2> DEFINE h1 == Half(1, asked, Kind)
             h2 == Half(2, asked, Kind)
  <2> HIDE DEF h1, h2
  <2>1. Halves(asked, Kind) = <<h1, h2>>
    BY DEF Halves, h1, h2
  <2>2. Kind' = Kind /\ h1' = h1 /\ h2' = h2
    BY <1>1, <1>3 DEF Kind, h1, h2, Half
  <2>3. Asking
    BY <1>1 DEF WrapperInv, Waiting, Answered
  <2>4. PICK n \in 1..Len(obuf) :
          wire' = wire \o SubSeq(obuf, 1, n) /\ obuf' = SubSeq(obuf, n + 1, Len(obuf))
    BY <1>3
  <2>5. \/ obuf' = <<h2>> /\ wire' = <<h1>>
        \/ obuf' = <<>> /\ wire' = <<h1, h2>>
    <3>1. \/ obuf = <<h1, h2>> /\ wire = <<>>
          \/ obuf = <<h2>> /\ wire = <<h1>>
      BY <1>1, <2>1, <2>3 DEF Asking, h1, h2
    <3>2. CASE obuf = <<h1, h2>> /\ wire = <<>>
      <4>1. Len(obuf) = 2
        BY <3>2, OneOrTwo
      <4>2. n \in 1..2 /\ wire' = <<>> \o SubSeq(<<h1, h2>>, 1, n)
            /\ obuf' = SubSeq(<<h1, h2>>, n + 1, 2)
        BY <2>4, <3>2, <4>1
      <4> QED BY <4>2, Drawn
    <3>3. CASE obuf = <<h2>> /\ wire = <<h1>>
      <4>1. Len(obuf) = 1
        BY <3>3, OneOrTwo
      <4>2. n \in 1..1 /\ wire' = <<h1>> \o SubSeq(<<h2>>, 1, n)
            /\ obuf' = SubSeq(<<h2>>, n + 1, 1)
        BY <2>4, <3>3, <4>1
      <4> QED BY <4>2, Drawn
    <3> QED BY <3>1, <3>2, <3>3
  <2>6. Asking'
    BY <1>1, <1>3, <2>1, <2>2, <2>3, <2>5 DEF Asking, h1, h2, Halves
  <2>7. WrapperTypes' /\ Later' /\ AnswersAreMine'
    BY <1>1, <1>3 DEF WrapperInv, WrapperTypes, Later, AnswersAreMine
  <2>8. Waiting' /\ Idle' /\ Late' /\ Based'
    BY <1>1, <1>3, <2>6 DEF WrapperInv, Waiting, Idle, Late, Based
  <2> QED BY <2>7, <2>8 DEF WrapperInv
<1> QED BY <1>2, <1>3 DEF redisBufferWrite

LEMMA ReadReplyStep == WrapperInv /\ redisBufferRead => WrapperInv'
<1> SUFFICES ASSUME WrapperInv, redisBufferRead PROVE WrapperInv'
  OBVIOUS
<1>1. /\ awaits # "nothing" /\ m_pContext = "ok" /\ ~Replied /\ obuf = <<>>
      /\ UNCHANGED <<want, wire, base, executed>>
  BY DEF redisBufferRead
<1>2. CASE Fail /\ UNCHANGED <<rbuf, back>>
  BY <1>1, <1>2, FailStep
<1>3. CASE /\ \E n \in 1..Len(back) :
                 rbuf' = rbuf \o SubSeq(back, 1, n) /\ back' = SubSeq(back, n + 1, Len(back))
           /\ UNCHANGED <<m_pContext, awaits, asked, obuf, gave, refused>>
  <2>1. PICK n \in 1..Len(back) :
          rbuf' = rbuf \o SubSeq(back, 1, n) /\ back' = SubSeq(back, n + 1, Len(back))
    BY <1>3
  <2>2. back # <<>>
    <3>1. Len(<<>>) = 0
      BY OneOrTwo
    <3> QED BY <2>1, <3>1
  <2>3. PICK type : Answered(type)
    BY <1>1, <2>2 DEF WrapperInv, Waiting, Asking
  <2> DEFINE h1 == Half(1, asked, type)
             h2 == Half(2, asked, type)
  <2> HIDE DEF h1, h2
  <2>4. Halves(asked, type) = <<h1, h2>> /\ h2.half = 2
    BY DEF Halves, Half, h1, h2
  <2>5. h1' = Half(1, asked, type) /\ h1 = Half(1, asked, type) /\ h2 = Half(2, asked, type)
        /\ asked' = asked
    BY <1>3 DEF h1, h2, Half
  <2>6. \/ rbuf' = <<h1>> /\ back' = <<h2>>
        \/ rbuf' = <<h1, h2>> /\ back' = <<>>
    <3>1. \/ back = <<h1, h2>> /\ rbuf = <<>>
          \/ back = <<h2>> /\ rbuf = <<h1>>
      BY <2>2, <2>3, <2>4, <2>5 DEF Answered
    <3>2. CASE back = <<h1, h2>> /\ rbuf = <<>>
      <4>1. Len(back) = 2
        BY <3>2, OneOrTwo
      <4>2. n \in 1..2 /\ rbuf' = <<>> \o SubSeq(<<h1, h2>>, 1, n)
            /\ back' = SubSeq(<<h1, h2>>, n + 1, 2)
        BY <2>1, <3>2, <4>1
      <4> QED BY <4>2, Drawn
    <3>3. CASE back = <<h2>> /\ rbuf = <<h1>>
      <4>1. Len(back) = 1
        BY <3>3, OneOrTwo
      <4>2. n \in 1..1 /\ rbuf' = <<h1>> \o SubSeq(<<h2>>, 1, n)
            /\ back' = SubSeq(<<h2>>, n + 1, 1)
        BY <2>1, <3>3, <4>1
      <4> QED BY <4>2, Drawn
    <3> QED BY <3>1, <3>2, <3>3
  <2>7. Answered(type)'
    BY <1>1, <1>3, <2>3, <2>4, <2>5, <2>6 DEF Answered
  <2>8. WrapperTypes' /\ Later' /\ AnswersAreMine'
    BY <1>1, <1>3 DEF WrapperInv, WrapperTypes, Later, AnswersAreMine
  <2>9. Waiting' /\ Idle' /\ Late' /\ Based'
    BY <1>1, <1>3, <2>7 DEF WrapperInv, Waiting, Idle, Late, Based
  <2> QED BY <2>8, <2>9 DEF WrapperInv
<1> QED BY <1>2, <1>3 DEF redisBufferRead

\* A reply that is there is the whole reply to the last command.
LEMMA WholeReply ==
  ASSUME WrapperInv, awaits # "nothing", Replied
  PROVE  /\ m_pContext = "ok"
         /\ \E type : Answered(type) /\ rbuf = Halves(asked, type) /\ back = <<>>
<1>1. PICK i \in DOMAIN rbuf : rbuf[i].half = 2
  BY DEF Replied
<1>2. m_pContext = "ok"
  BY DEF WrapperInv, WrapperTypes, Late
<1>3. rbuf # <<>>
  <2>1. DOMAIN <<>> = {}
    BY OneOrTwo
  <2> QED BY <1>1, <2>1
<1>4. PICK type : Answered(type)
  BY <1>2, <1>3 DEF WrapperInv, Waiting, Asking
<1>5. rbuf # <<Half(1, asked, type)>>
  <2> DEFINE h1 == Half(1, asked, type)
  <2>1. h1.half = 1
    BY HalvesOf
  <2> HIDE DEF h1
  <2>2. DOMAIN <<h1>> = {1} /\ <<h1>>[1] = h1
    BY OneOrTwo
  <2>3. rbuf # <<h1>>
    BY <1>1, <2>1, <2>2
  <2> QED BY <2>3 DEF h1
<1> QED BY <1>2, <1>3, <1>4, <1>5 DEF Answered

LEMMA GetReplyStep == WrapperInv /\ redisGetReply => WrapperInv'
<1> SUFFICES ASSUME WrapperInv, redisGetReply PROVE WrapperInv'
  OBVIOUS
<1>1. /\ awaits # "nothing" /\ Replied /\ Finish(rbuf[2].of, rbuf[2].kind)
      /\ rbuf' = SubSeq(rbuf, 3, Len(rbuf)) /\ UNCHANGED <<want, wire, back, base, executed>>
  BY DEF redisGetReply, server
<1>2. PICK type : Answered(type) /\ rbuf = Halves(asked, type) /\ back = <<>>
  BY <1>1, WholeReply
<1>3. m_pContext = "ok" /\ obuf = <<>> /\ wire = <<>> /\ Len(executed[asked]) = 1
  BY <1>1, <1>2, WholeReply DEF Answered
<1>4. rbuf' = <<>> /\ rbuf[2].of = asked /\ rbuf[2].kind = type
  <2> DEFINE h1 == Half(1, asked, type)
             h2 == Half(2, asked, type)
  <2> HIDE DEF h1, h2
  <2>1. rbuf = <<h1, h2>> /\ h2.of = asked /\ h2.kind = type
    BY <1>2, HalvesOf DEF h1, h2
  <2>2. Len(rbuf) = 2 /\ rbuf[2] = h2 /\ SubSeq(<<h1, h2>>, 3, 2) = <<>>
    BY <2>1, OneOrTwo
  <2> QED BY <1>1, <2>1, <2>2
<1>5. asked \in Nat /\ asked \in Cmds /\ asked \in 1..asked /\ MaxCmd \in Nat
  BY <1>1, WrapperAssumption DEF WrapperInv, WrapperTypes, Cmds
<1>6. CASE awaits = "AUTH" /\ type = "status"
  <2>1. /\ awaits' = "SELECT" /\ asked' = asked + 1 /\ obuf' = obuf \o Halves(asked + 1, "SELECT")
        /\ UNCHANGED <<m_pContext, gave, refused>>
    BY <1>1, <1>4, <1>6 DEF Finish, Auth, Send
  <2>2. obuf' = Halves(asked + 1, "SELECT")
    BY <1>3, <2>1, HalvesOf, OneOrTwo
  <2>3. asked + 1 \in Cmds /\ executed[asked + 1] = <<>>
    <3>1. asked + 1 \in Cmds /\ asked + 1 > asked
      BY <1>5, <1>6 DEF WrapperInv, WrapperTypes, Cmds
    <3> QED BY <3>1 DEF WrapperInv, Later
  <2>4. WrapperTypes'
    BY <1>1, <1>3, <1>5, <1>6, <2>1 DEF WrapperInv, WrapperTypes
  <2>5. Waiting'
    <3>1. Kind' = "SELECT"
      BY <2>1 DEF Kind
    <3>2. Asking'
      BY <1>1, <1>2, <1>3, <1>4, <2>1, <2>2, <2>3, <3>1 DEF Asking
    <3> QED BY <3>2 DEF Waiting
  <2>6. Idle' /\ Late' /\ Based'
    BY <1>3, <2>1 DEF Idle, Late, Based
  <2>7. Later' /\ AnswersAreMine'
    <3>1. \A n \in Cmds : n > asked + 1 => n > asked
      BY <1>5 DEF Cmds
    <3> QED BY <1>1, <2>1, <3>1 DEF WrapperInv, Later, AnswersAreMine
  <2> QED BY <2>4, <2>5, <2>6, <2>7 DEF WrapperInv
<1>7. CASE awaits = "AUTH" /\ type # "status"
  <2>1. /\ awaits' = "nothing" /\ m_pContext' = "NULL" /\ UNCHANGED <<asked, obuf, gave, refused>>
    BY <1>1, <1>4, <1>7 DEF Finish, Auth
  <2>2. WrapperTypes' /\ Later' /\ AnswersAreMine'
    BY <1>1, <2>1 DEF WrapperInv, WrapperTypes, Later, AnswersAreMine
  <2>3. Waiting' /\ Idle' /\ Late' /\ Based'
    BY <1>1, <1>3, <2>1 DEF Waiting, Idle, Late, Based
  <2> QED BY <2>2, <2>3 DEF WrapperInv
<1>8. CASE awaits = "SELECT"
  <2>1. /\ awaits' = "nothing" /\ refused' = (type # "status")
        /\ UNCHANGED <<m_pContext, asked, obuf, gave>>
    BY <1>1, <1>4, <1>8 DEF Finish
  <2>2. WrapperTypes' /\ Later' /\ AnswersAreMine'
    BY <1>1, <2>1 DEF WrapperInv, WrapperTypes, Later, AnswersAreMine
  <2>3. Waiting' /\ Idle' /\ Late'
    BY <1>1, <1>2, <1>3, <1>4, <2>1 DEF Waiting, Idle, Late
  <2>4. Based'
    BY <1>1, <1>2, <1>8, <2>1 DEF Based, Answered
  <2> QED BY <2>2, <2>3, <2>4 DEF WrapperInv
<1>9. CASE awaits = "call"
  <2>1. /\ awaits' = "nothing" /\ gave' = [gave EXCEPT ![asked] = Value(asked, type)]
        /\ UNCHANGED <<m_pContext, asked, obuf, refused>>
    BY <1>1, <1>4, <1>9 DEF Finish
  <2>2. Value(asked, type) \in {0, asked}
    BY DEF Value
  <2>3. WrapperTypes' /\ Later'
    <3>1. gave' \in [Cmds -> Nat]
      BY <1>5, <2>1, <2>2 DEF WrapperInv, WrapperTypes
    <3> QED BY <1>1, <2>1, <3>1 DEF WrapperInv, WrapperTypes, Later
  <2>4. AnswersAreMine'
    <3>1. gave'[asked] \in {0, asked} /\ \A n \in Cmds \ {asked} : gave'[n] = gave[n]
      BY <1>5, <2>1, <2>2 DEF WrapperInv, WrapperTypes
    <3> QED BY <1>1, <1>3, <3>1 DEF WrapperInv, AnswersAreMine
  <2>5. Waiting' /\ Idle' /\ Late' /\ Based'
    BY <1>1, <1>2, <1>3, <1>4, <1>9, <2>1 DEF WrapperInv, Waiting, Idle, Late, Based
  <2> QED BY <2>3, <2>4, <2>5 DEF WrapperInv
<1> QED BY <1>1, <1>6, <1>7, <1>8, <1>9 DEF WrapperInv, WrapperTypes

LEMMA ExecuteStep == WrapperInv /\ Execute => WrapperInv'
<1> SUFFICES ASSUME WrapperInv, Execute PROVE WrapperInv'
  OBVIOUS
<1> DEFINE n == wire[1].of
           what == wire[1].kind
<1>1. PICK type \in {"error"} \cup IF what \in ReplyTypes THEN {what, "nil"} ELSE {"status"} :
        /\ back' = back \o Halves(n, type)
        /\ base' = IF what = "SELECT" /\ type = "status" THEN "chosen" ELSE base
  BY DEF Execute
<1>2. /\ executed' = [executed EXCEPT ![n] = Append(@, base)] /\ wire' = SubSeq(wire, 3, Len(wire))
      /\ Len(wire) >= 2
      /\ UNCHANGED <<m_pContext, awaits, want, asked, obuf, rbuf, gave, refused>>
  BY DEF Execute, wrapper
<1> HIDE DEF n, what
<1>Two. wire # <<>> /\ \A x : wire # <<x>>
  <2>1. Len(wire) >= 2
    BY <1>2
  <2>2. wire # <<>>
    <3>1. Len(<<>>) = 0
      BY OneOrTwo
    <3> QED BY <2>1, <3>1
  <2>3. ASSUME NEW x PROVE wire # <<x>>
    <3>1. Len(<<x>>) = 1
      BY OneOrTwo
    <3>2. ~(1 >= 2)
      OBVIOUS
    <3> QED BY <2>1, <3>1, <3>2, Zenon
  <2> QED BY <2>2, <2>3
\* Whose command it is.
<1>3. \E m \in 1..asked : \E kind :
        /\ wire = Halves(m, kind) /\ executed[m] = <<>>
        /\ m_pContext = "ok" => Asking /\ m = asked /\ kind = Kind /\ awaits # "nothing"
        /\ m_pContext # "ok" /\ awaits = "call" => m # asked
  <2>1. CASE m_pContext = "ok"
    <3>1. awaits # "nothing" /\ Asking
      BY <1>Two, <2>1 DEF WrapperInv, Waiting, Idle, Answered
    <3>2. wire = Halves(asked, Kind) /\ executed[asked] = <<>>
      BY <1>Two, <3>1 DEF Asking
    <3>3. asked \in 1..asked
      BY <3>1 DEF WrapperInv, WrapperTypes
    <3> QED BY <2>1, <3>1, <3>2, <3>3
  <2>2. CASE m_pContext # "ok"
    BY <1>Two, <2>2 DEF WrapperInv, Late
  <2> QED BY <2>1, <2>2
<1>4. PICK m, kind :
        /\ m \in 1..asked
        /\ wire = Halves(m, kind) /\ executed[m] = <<>>
        /\ m_pContext = "ok" => Asking /\ m = asked /\ kind = Kind /\ awaits # "nothing"
        /\ m_pContext # "ok" /\ awaits = "call" => m # asked
  BY <1>3
<1>5. n = m /\ what = kind /\ wire' = <<>>
  <2> DEFINE h1 == Half(1, m, kind)
             h2 == Half(2, m, kind)
  <2> HIDE DEF h1, h2
  <2>1. wire = <<h1, h2>> /\ h1.of = m /\ h1.kind = kind
    BY <1>4, HalvesOf DEF h1, h2
  <2>2. wire[1] = h1 /\ Len(wire) = 2
    BY <2>1, OneOrTwo
  <2>3. wire' = SubSeq(<<h1, h2>>, 3, 2)
    BY <1>2, <2>1, <2>2
  <2> QED BY <2>1, <2>2, <2>3, OneOrTwo DEF n, what
<1>6. m \in Cmds /\ asked \in Nat /\ base \in {"0", "chosen"} /\ m <= asked
  BY <1>4, WrapperAssumption DEF WrapperInv, WrapperTypes, Cmds
<1>7. /\ executed' \in [Cmds -> Seq({"0", "chosen"})]
      /\ executed'[m] = <<base>> /\ \A l \in Cmds \ {m} : executed'[l] = executed[l]
  <2>1. executed \in [Cmds -> Seq({"0", "chosen"})] /\ executed' = [executed EXCEPT ![m] = Append(@, base)]
    BY <1>2, <1>5 DEF WrapperInv, WrapperTypes
  <2>2. Append(<<>>, base) = <<base>> /\ <<base>> \in Seq({"0", "chosen"})
    BY <1>6
  <2> QED BY <1>4, <1>6, <2>1, <2>2
<1>8. base' \in {"0", "chosen"}
  BY <1>1, <1>6
<1>9. WrapperTypes'
  BY <1>2, <1>7, <1>8 DEF WrapperInv, WrapperTypes
<1>10. Later'
  <2>1. \A l \in Cmds : l > asked => l # m
    BY <1>6 DEF Cmds
  <2> QED BY <1>2, <1>7, <2>1 DEF WrapperInv, Later
<1>11. AnswersAreMine'
  <2>1. Len(<<>>) = 0 /\ Len(<<base>>) = 1
    BY OneOrTwo
  <2> SUFFICES ASSUME NEW l \in Cmds
               PROVE  /\ gave'[l] \in {0, l}
                      /\ gave'[l] = l => Len(executed'[l]) = 1
                      /\ Len(executed'[l]) <= 1
    BY DEF AnswersAreMine
  <2>2. gave'[l] = gave[l] /\ gave[l] \in {0, l}
        /\ (gave[l] = l => Len(executed[l]) = 1) /\ Len(executed[l]) <= 1
    BY <1>2 DEF WrapperInv, AnswersAreMine
  <2>3. CASE l = m
    <3>1. Len(executed'[l]) = 1
      BY <1>7, <2>1, <2>3
    <3> QED BY <2>2, <3>1
  <2>4. CASE l # m
    <3>1. executed'[l] = executed[l]
      BY <1>7, <2>4
    <3> QED BY <2>2, <3>1
  <2> QED BY <2>3, <2>4
<1>12. CASE m_pContext = "ok"
  <2>1. /\ Asking /\ m = asked /\ kind = Kind /\ awaits # "nothing"
        /\ rbuf = <<>> /\ back = <<>> /\ obuf = <<>>
    <3> QED BY <1>4, <1>12, <1>Two DEF Asking
  <2>2. back' = Halves(asked, type)
    BY <1>1, <1>5, <2>1, HalvesOf, OneOrTwo
  <2>3. awaits = "call" => base' = base
    <3>1. awaits = "call" => what \in ReplyTypes
      BY <1>5, <2>1 DEF Kind, WrapperInv, WrapperTypes
    <3> QED BY <1>1, <3>1, TypesOfReplies
  <2>4. awaits = "SELECT" /\ type = "status" => base' = "chosen"
    BY <1>1, <1>5, <2>1 DEF Kind
  <2>5. Len(<<base>>) = 1 /\ <<base>>[1] = base
    BY OneOrTwo
  <2>6. Answered(type)'
    BY <1>2, <1>5, <1>7, <1>12, <2>1, <2>2, <2>4, <2>5 DEF Answered, WrapperInv, Based
  <2>7. Waiting' /\ Idle' /\ Late'
    BY <1>2, <1>12, <2>1, <2>6 DEF Waiting, Idle, Late
  <2>8. Based'
    BY <1>2, <1>12, <2>1, <2>3 DEF WrapperInv, Based
  <2> QED BY <1>9, <1>10, <1>11, <2>7, <2>8 DEF WrapperInv
<1>13. CASE m_pContext # "ok"
  <2>1. awaits = "call" => executed'[asked] = <<>>
    <3>1. awaits = "call" => asked \in Cmds
      BY <1>6 DEF WrapperInv, WrapperTypes, Cmds
    <3> QED BY <1>4, <1>7, <1>13, <3>1 DEF WrapperInv, Late
  <2>2. Waiting' /\ Idle' /\ Based'
    BY <1>2, <1>13 DEF Waiting, Idle, Based
  <2>3. Late'
    BY <1>2, <1>5, <1>13, <2>1 DEF WrapperInv, Late, Replied
  <2> QED BY <1>9, <1>10, <1>11, <2>2, <2>3 DEF WrapperInv
<1> QED BY <1>12, <1>13

LEMMA WrapperInvRight == WrapperInv => RepliesRight
<1> SUFFICES ASSUME WrapperInv, awaits = "call", ~refused,
                    NEW i \in DOMAIN executed[asked]
             PROVE  executed[asked][i] = "chosen"
  BY DEF WrapperInv, RepliesRight, RightBase
<1>1. executed[asked] # <<>>
  <2>1. DOMAIN <<>> = {}
    BY OneOrTwo
  <2> QED BY <2>1
<1>2. m_pContext = "ok"
  BY <1>1 DEF WrapperInv, Late
<1>3. Len(executed[asked]) = 1 /\ executed[asked][1] = "chosen"
  BY <1>1, <1>2 DEF WrapperInv, Waiting, Asking, Answered
<1>4. executed[asked] \in Seq({"0", "chosen"})
  BY WrapperAssumption DEF WrapperInv, WrapperTypes, Cmds
<1>5. i = 1
  BY <1>3, <1>4, LenProperties
<1> QED BY <1>3, <1>5

\* What a method of the wrapper gives is the server's answer to its own command, executed
\* once and in the chosen database, wherever the connection has failed before
\* (RedisConn.cpp:15-148, 150-214).
THEOREM RepliesAreRight == WrapperSpec => []RepliesRight
<1>1. WrapperInv /\ UNCHANGED wrapperVars => WrapperInv'
  BY DEF WrapperInv, WrapperTypes, Waiting, Idle, Late, Based, Later, AnswersAreMine,
         Asking, Answered, Kind, Replied, wrapperVars, wrapper, server
<1>2. WrapperInv /\ Vanish => WrapperInv'
  BY DEF WrapperInv, WrapperTypes, Waiting, Idle, Late, Based, Later, AnswersAreMine,
         Asking, Answered, Kind, Replied, Vanish, wrapper
<1>3. WrapperInv /\ GiveUp => WrapperInv'
  BY FailStep DEF GiveUp, server
<1>4. WrapperInv /\ [WrapperNext]_wrapperVars => WrapperInv'
  BY <1>1, <1>2, <1>3, LoginStep, DeInitStep, CallStep, WriteStep, ReadReplyStep, GetReplyStep,
     ExecuteStep
  DEF WrapperNext
<1> QED BY <1>4, WrapperInitHolds, WrapperInvRight, PTL DEF WrapperSpec

-----------------------------------------------------------------------------
\* The connections side by side: whatever the calls and the clients before have left behind,
\* the socket, the reply, the row and the insert are those of the call that gets them
\* (net.c:265-477, RedisConn.cpp:15-214, MysqlPool.cpp:96-263).
THEOREM CallsAreFaithful == ConnectSpec /\ WrapperSpec /\ MysqlSpec => []CallsFaithful
<1>1. SocketRight /\ RepliesRight /\ Faithful => CallsFaithful
  BY DEF CallsFaithful
<1> QED BY <1>1, SocketIsRight, RepliesAreRight, ConnectionIsFaithful, PTL
-----------------------------------------------------------------------------
(* The strings of hiredis                                                  *)

Strings ==
  [kind : {5, 8, 16}, len : Nat, alloc : Nat, room : Nat, bytes : Seq(Nat), over : BOOLEAN]

\* A string of m bytes fits into the memory, and the header can say so.
Holds(x, m) == IF x.kind = 5 THEN m < Width5 /\ m <= x.room ELSE m <= x.alloc

Sound(x) ==
  /\ x \in Strings /\ ~x.over /\ Holds(x, x.len)
  /\ x.kind # 5 => x.alloc <= x.room
  /\ x.kind = 8 => x.alloc < Width8

\* A string that is s, and one that is s but for the terminator.
Starts(b, s) == SubSeq(b, 1, Len(s)) = s
Is(x, s) == Sound(x) /\ x.len = Len(s) /\ x.bytes = s \o <<Nul>>
Open(x, s) == Sound(x) /\ x.len = Len(s) /\ Starts(x.bytes, s)

StringInv == meant \in Seq(Nat) /\ Is(string, meant)

-----------------------------------------------------------------------------
LEMMA ModSmall == ASSUME NEW m \in Nat, NEW w \in Nat, m < w PROVE m % w = m
  BY SMT

LEMMA HoldSmall ==
  ASSUME NEW kind \in {5, 8, 16}, NEW m \in Nat,
         kind = 5 => m < Width5, kind = 8 => m < Width8
  PROVE  Hold(kind, m) = m
  BY ModSmall, SdsAssumption DEF Hold

LEMMA StartsCat ==
  ASSUME NEW S, NEW s \in Seq(S), NEW u \in Seq(S)
  PROVE  Starts(s \o u, s)
<1>1. /\ s \o u \in Seq(S) /\ Len(s \o u) = Len(s) + Len(u)
      /\ \A i \in 1..(Len(s) + Len(u)) : (s \o u)[i] = IF i <= Len(s) THEN s[i] ELSE u[i - Len(s)]
  BY ConcatProperties
<1>2. Len(s) \in Nat /\ Len(u) \in Nat
  BY LenProperties
<1>3. \A i \in 1..Len(s) : (s \o u)[i] \in S
  BY <1>1, <1>2, ElementOfSeq
<1>4. /\ SubSeq(s \o u, 1, Len(s)) \in Seq(S)
      /\ Len(SubSeq(s \o u, 1, Len(s))) = Len(s)
      /\ \A i \in 1..Len(s) : SubSeq(s \o u, 1, Len(s))[i] = (s \o u)[1 + i - 1]
  BY <1>2, <1>3, SubSeqProperties
<1>5. \A i \in 1..Len(s) : SubSeq(s \o u, 1, Len(s))[i] = s[i]
  BY <1>1, <1>2, <1>4
<1> QED BY <1>4, <1>5, SeqEqual DEF Starts

LEMMA StartsAll ==
  ASSUME NEW S, NEW s \in Seq(S)
  PROVE  Starts(s, s) /\ Starts(s, <<>>)
  BY SubSeqFull, SubSeqEmpty, EmptySeq DEF Starts

\* Writing v behind s.
WithBytes(x, b) == [x EXCEPT !.bytes = b]
LEMMA WriteAt ==
  ASSUME NEW x \in Strings, NEW s \in Seq(Nat), NEW k \in Nat, NEW v \in Seq(Nat),
         k = Len(s), Starts(x.bytes, s), k + Len(v) <= x.room + 1
  PROVE  Write(x, k, v) = WithBytes(x, s \o v)
<1>1. SubSeq(x.bytes, 1, k) = s
  BY DEF Starts
<1>2. ~(k + Len(v) > x.room + 1)
  BY LenProperties DEF Strings
<1>3. x.over \in BOOLEAN
  BY DEF Strings
<1> QED BY <1>1, <1>2, <1>3 DEF Write, WithBytes, Strings

LEMMA RoomFor ==
  ASSUME NEW x, NEW s \in Seq(Nat), Open(x, s), NEW m \in Nat
  PROVE  /\ Open(sdsMakeRoomFor(x, m), s) /\ Holds(sdsMakeRoomFor(x, m), Len(s) + m)
         /\ m > 0 => sdsMakeRoomFor(x, m).kind # 5
<1> DEFINE room == Larger(x.len + m)
           kind == IF sdsReqType(room) = 5 THEN 8 ELSE sdsReqType(room)
           y == [x EXCEPT !.kind = kind, !.len = Hold(kind, @), !.room = room]
<1>0. x \in Strings /\ Sound(x) /\ x.len = Len(s) /\ Len(s) \in Nat
  BY LenProperties DEF Open, Sound
<1>1. CASE sdsavail(x) >= m
  <2>1. sdsMakeRoomFor(x, m) = x
    BY <1>1 DEF sdsMakeRoomFor
  <2>2. Holds(x, Len(s) + m) /\ (m > 0 => x.kind # 5)
    BY <1>0, <1>1 DEF sdsavail, Sound, Holds, Strings
  <2> QED BY <2>1, <2>2
<1>2. CASE ~(sdsavail(x) >= m)
  <2>1. sdsMakeRoomFor(x, m) = Moved(x, kind, room)
    BY <1>2 DEF sdsMakeRoomFor
  <2>2. room \in Nat /\ room >= Len(s) + m
    <3> DEFINE n == x.len + m
    <3>1. n \in Nat /\ n = Len(s) + m /\ SDS_MAX_PREALLOC \in Nat
      BY <1>0, SdsAssumption
    <3> HIDE DEF n
    <3>2. Larger(n) \in Nat /\ Larger(n) >= n
      BY <3>1 DEF Larger
    <3> QED BY <3>1, <3>2 DEF n
  <2>3. kind \in {8, 16} /\ (kind = 8 => room < Width8)
    BY <2>2, SdsAssumption DEF sdsReqType
  <2> HIDE DEF kind, room
  <2>4. Hold(kind, x.len) = x.len /\ Hold(kind, room) = room
    <3>1. kind \in {5, 8, 16} /\ x.len \in Nat /\ x.len <= room /\ kind # 5
      BY <1>0, <2>2, <2>3
    <3>2. kind = 8 => x.len < Width8
      BY <2>2, <2>3, <3>1, SdsAssumption
    <3> QED BY <2>2, <2>3, <3>1, <3>2, HoldSmall
  <2>5. /\ y \in Strings /\ y.kind = kind /\ y.len = x.len /\ y.room = room
        /\ y.bytes = x.bytes /\ y.over = x.over
    BY <1>0, <2>2, <2>3, <2>4 DEF Strings
  <2>6. /\ Moved(x, kind, room) \in Strings
        /\ Moved(x, kind, room).kind = kind /\ Moved(x, kind, room).len = x.len
        /\ Moved(x, kind, room).alloc = room /\ Moved(x, kind, room).room = room
        /\ Moved(x, kind, room).bytes = x.bytes /\ Moved(x, kind, room).over = x.over
    <3>1. Moved(x, kind, room) = sdssetalloc(y, room)
      BY DEF Moved
    <3> HIDE DEF y
    <3>2. sdssetalloc(y, room) = [y EXCEPT !.alloc = room]
      <4>1. y.kind # 5 /\ Hold(y.kind, room) = room
        BY <2>3, <2>4, <2>5
      <4> QED BY <4>1, Zenon DEF sdssetalloc
    <3> QED BY <2>2, <2>5, <3>1, <3>2, ZenonT(60) DEF Strings
  <2>7. /\ Sound(Moved(x, kind, room)) /\ Holds(Moved(x, kind, room), Len(s) + m)
        /\ Moved(x, kind, room).kind # 5
    BY <1>0, <2>2, <2>3, <2>6 DEF Sound, Holds
  <2> QED BY <1>0, <2>1, <2>6, <2>7 DEF Open
<1> QED BY <1>1, <1>2

LEMMA LengthSet ==
  ASSUME NEW x, NEW m \in Nat, Sound(x), Holds(x, m)
  PROVE  sdssetlen(x, m) = [x EXCEPT !.len = m]
<1>1. Hold(x.kind, m) = m
  BY HoldSmall, SdsAssumption DEF Sound, Holds, Strings
<1> QED BY <1>1 DEF sdssetlen

LEMMA EndedIs ==
  ASSUME NEW x, NEW s \in Seq(Nat), NEW k \in Nat, k = Len(s),
         Sound(x), Starts(x.bytes, s), Holds(x, k)
  PROVE  Is(Ended(x, k), s)
<1> DEFINE y == [x EXCEPT !.len = k]
           end == <<Nul>>
<1>0. end \in Seq(Nat) /\ Len(end) = 1 /\ x \in Strings
  BY DEF Sound, Nul
<1>1. sdssetlen(x, k) = y
  BY LengthSet
<1>2. y \in Strings /\ y.bytes = x.bytes /\ y.room = x.room /\ y.len = k
  BY <1>0 DEF Strings
<1> HIDE DEF y, end
<1>3. k + Len(end) <= y.room + 1
  <2>1. x.room \in Nat /\ x.alloc \in Nat
    BY <1>0 DEF Strings
  <2>2. k <= x.room
    BY <2>1 DEF Sound, Holds
  <2> QED BY <1>0, <1>2, <2>1, <2>2
<1>4. Ended(x, k) = WithBytes(y, s \o end)
  <2>1. Write(y, k, end) = WithBytes(y, s \o end)
    BY <1>0, <1>2, <1>3, WriteAt
  <2> QED BY <1>1, <2>1 DEF Ended, end
<1>5. s \o end \in Seq(Nat)
  BY <1>0, ConcatProperties
<1> QED BY <1>0, <1>4, <1>5, ZenonT(60) DEF y, end, WithBytes, Is, Sound, Holds, Strings

\* y is x with other bytes, s the first of them.
Rewritten(y, x, s) ==
  /\ Sound(y) /\ Starts(y.bytes, s)
  /\ y.len = x.len /\ y.kind = x.kind /\ y.alloc = x.alloc /\ y.room = x.room

LEMMA Writing ==
  ASSUME NEW x, Sound(x), NEW s \in Seq(Nat), NEW k \in Nat, NEW v \in Seq(Nat),
         k = Len(s), Starts(x.bytes, s), Holds(x, k + Len(v)), NEW y, y = Write(x, k, v)
  PROVE  /\ Rewritten(y, x, s \o v)
         /\ s \o v \in Seq(Nat) /\ Len(s \o v) = k + Len(v) /\ k + Len(v) \in Nat
<1>1. x \in Strings /\ Len(v) \in Nat /\ x.room \in Nat /\ x.alloc \in Nat
  BY LenProperties DEF Sound, Strings
<1>2. k + Len(v) <= x.room + 1
  BY <1>1 DEF Sound, Holds
<1>3. Write(x, k, v) = WithBytes(x, s \o v)
  BY <1>1, <1>2, WriteAt
<1>4. s \o v \in Seq(Nat) /\ Len(s \o v) = k + Len(v) /\ Starts(s \o v, s \o v)
  BY ConcatProperties, StartsAll
<1>5. /\ WithBytes(x, s \o v) \in Strings /\ WithBytes(x, s \o v).bytes = s \o v
      /\ WithBytes(x, s \o v).len = x.len /\ WithBytes(x, s \o v).kind = x.kind
      /\ WithBytes(x, s \o v).alloc = x.alloc /\ WithBytes(x, s \o v).room = x.room
      /\ WithBytes(x, s \o v).over = x.over
  BY <1>1, <1>4 DEF WithBytes, Strings
<1>6. x.over = FALSE
  BY <1>1 DEF Sound, Strings
<1> QED BY <1>1, <1>3, <1>4, <1>5, <1>6 DEF Rewritten, Sound, Holds

LEMMA TerminatedIs ==
  ASSUME NEW x, Sound(x), NEW s \in Seq(Nat), x.len = Len(s)
  PROVE  Is(WithBytes(x, s \o <<Nul>>), s)
<1> DEFINE b == s \o <<Nul>>
<1>1. b \in Seq(Nat) /\ x \in Strings
  <2>1. <<Nul>> \in Seq(Nat)
    BY DEF Nul
  <2> QED BY <2>1, ConcatProperties DEF Sound
<1> HIDE DEF b
<1>2. /\ WithBytes(x, b) \in Strings /\ WithBytes(x, b).len = x.len
      /\ WithBytes(x, b).bytes = b /\ WithBytes(x, b).kind = x.kind
      /\ WithBytes(x, b).alloc = x.alloc /\ WithBytes(x, b).room = x.room
      /\ WithBytes(x, b).over = x.over
  BY <1>1 DEF WithBytes, Strings
<1>3. Is(WithBytes(x, b), s)
  BY <1>2 DEF Is, Sound, Holds, b
<1> QED BY <1>3 DEF b

LEMMA IsOpen == ASSUME NEW x, NEW s \in Seq(Nat), Is(x, s) PROVE Open(x, s)
<1>1. <<Nul>> \in Seq(Nat)
  BY DEF Nul
<1> QED BY <1>1, StartsCat DEF Is, Open

-----------------------------------------------------------------------------
(* Putting something in                                                    *)

LEMMA NewIs == ASSUME NEW s \in Seq(Nat) PROVE Is(sdsnewlen(s), s)
<1> DEFINE kind == IF s = <<>> THEN 8 ELSE sdsReqType(Len(s))
           new == [kind |-> kind, len |-> Hold(kind, Len(s)), alloc |-> 0, room |-> Len(s),
                   bytes |-> <<>>, over |-> FALSE]
           y == sdssetalloc(new, Len(s))
           all == s \o <<Nul>>
           none == <<>>
<1>1. Len(s) \in Nat /\ none \in Seq(Nat) /\ 0 = Len(none) /\ none = <<>> /\ (s = <<>> => Len(s) = 0)
  BY LenProperties, EmptySeq
<1>2. /\ kind \in {5, 8, 16}
      /\ kind = 5 => Len(s) < Width5
      /\ kind = 8 => Len(s) < Width8
  BY <1>1, SdsAssumption DEF sdsReqType
<1>3. Hold(kind, Len(s)) = Len(s)
  BY <1>1, <1>2, HoldSmall
<1> HIDE DEF kind
<1>4. /\ new \in Strings /\ new.kind = kind /\ new.len = Len(s) /\ new.room = Len(s)
      /\ new.bytes = <<>> /\ new.over = FALSE
  BY <1>1, <1>2, <1>3 DEF Strings
<1> HIDE DEF new
<1>5. /\ y \in Strings /\ y.kind = kind /\ y.len = Len(s) /\ y.room = Len(s)
      /\ y.bytes = <<>> /\ y.over = FALSE /\ (kind # 5 => y.alloc = Len(s))
  BY <1>1, <1>3, <1>4 DEF sdssetalloc, Strings
<1> HIDE DEF y
<1>6. <<Nul>> \in Seq(Nat) /\ Len(<<Nul>>) = 1
  BY DEF Nul
<1>7. all \in Seq(Nat) /\ Len(all) = Len(s) + 1
  BY <1>6, ConcatProperties
<1> DEFINE total == Len(all)
<1>8. Starts(y.bytes, none) /\ none \o all = all /\ 0 + Len(all) <= y.room + 1
  <2>1. Starts(y.bytes, none)
    BY <1>1, <1>5, StartsAll
  <2>2. none \o all = all
    BY <1>7, ConcatEmptySeq
  <2>3. Len(s) \in Nat /\ total = Len(s) + 1 /\ y.room = Len(s)
    BY <1>1, <1>5, <1>7
  <2> HIDE DEF total, all, none
  <2>4. 0 + total <= y.room + 1
    BY <2>3
  <2> QED BY <2>1, <2>2, <2>4 DEF total
<1> HIDE DEF all, none
<1>9. Write(y, 0, all) = WithBytes(y, none \o all)
  <2> DEFINE zero == 0
  <2>1. zero \in Nat /\ zero = Len(none) /\ zero + Len(all) <= y.room + 1
    BY <1>1, <1>8
  <2> HIDE DEF zero
  <2>2. Write(y, zero, all) = WithBytes(y, none \o all)
    BY <1>1, <1>5, <1>7, <1>8, <2>1, WriteAt, ZenonT(60)
  <2> QED BY <2>2 DEF zero
<1>10. sdsnewlen(s) = WithBytes(y, all)
  BY <1>8, <1>9 DEF sdsnewlen, y, new, kind, all
<1>11. /\ WithBytes(y, all) \in Strings /\ WithBytes(y, all).kind = kind
       /\ WithBytes(y, all).len = Len(s) /\ WithBytes(y, all).room = Len(s)
       /\ WithBytes(y, all).bytes = all /\ WithBytes(y, all).over = FALSE
       /\ kind # 5 => WithBytes(y, all).alloc = Len(s)
  BY <1>5, <1>7 DEF WithBytes, Strings
<1>12. Sound(WithBytes(y, all))
  BY <1>1, <1>2, <1>11 DEF Sound, Holds
<1> QED BY <1>10, <1>11, <1>12 DEF all, Is

LEMMA CatLenIs ==
  ASSUME NEW x, NEW s \in Seq(Nat), NEW v \in Seq(Nat), Open(x, s)
  PROVE  s \o v \in Seq(Nat) /\ Is(sdscatlen(x, v), s \o v)
<1> DEFINE y == sdsMakeRoomFor(x, Len(v))
           z == Write(y, Len(s), v)
<1>1. Len(s) \in Nat /\ Len(v) \in Nat /\ x.len = Len(s)
  BY LenProperties DEF Open
<1>2. Open(y, s) /\ Holds(y, Len(s) + Len(v))
  BY <1>1, RoomFor
<1> HIDE DEF y
<1>3. Sound(y) /\ Starts(y.bytes, s)
  BY <1>2 DEF Open
<1>4. /\ Rewritten(z, y, s \o v)
      /\ s \o v \in Seq(Nat) /\ Len(s \o v) = Len(s) + Len(v)
      /\ Len(s) + Len(v) \in Nat
  BY <1>1, <1>2, <1>3, Writing
<1> HIDE DEF z
<1>5. Holds(z, Len(s \o v)) /\ Sound(z) /\ Starts(z.bytes, s \o v)
  BY <1>2, <1>4 DEF Rewritten, Holds
<1>6. Is(Ended(z, Len(s \o v)), s \o v)
  BY <1>4, <1>5, EndedIs
<1>7. sdscatlen(x, v) = Ended(z, Len(s \o v))
  BY <1>1, <1>4 DEF sdscatlen, z, y
<1> QED BY <1>4, <1>6, <1>7

\* A write from the first byte on.
LEMMA WritingAll ==
  ASSUME NEW x, Sound(x), NEW v \in Seq(Nat), Holds(x, Len(v)), NEW y, y = Write(x, 0, v)
  PROVE  Rewritten(y, x, v) /\ Len(v) \in Nat
<1> DEFINE none == <<>>
           k == Len(none)
<1>1. none \in Seq(Nat) /\ k = 0 /\ none \o v = v /\ Len(v) \in Nat
  BY ConcatEmptySeq, EmptySeq, LenProperties
<1>2. Starts(x.bytes, none) /\ k = Len(none)
  BY StartsAll DEF Sound, Strings
<1> HIDE DEF none, k
<1>3. k \in Nat /\ k + Len(v) = Len(v) /\ y = Write(x, k, v)
  BY <1>1
<1>4. Rewritten(y, x, none \o v)
  BY <1>1, <1>2, <1>3, Writing
<1> QED BY <1>1, <1>4

LEMMA RewrittenIs ==
  ASSUME NEW x, NEW v \in Seq(Nat), Sound(x), Holds(x, Len(v)), NEW y, y = Write(x, 0, v)
  PROVE  Is(Ended(y, Len(v)), v)
<1>1. Rewritten(y, x, v) /\ Len(v) \in Nat
  BY WritingAll
<1>2. Sound(y) /\ Starts(y.bytes, v) /\ Holds(y, Len(v))
  BY <1>1 DEF Rewritten, Holds
<1> QED BY <1>1, <1>2, EndedIs

LEMMA CpyLenIs ==
  ASSUME NEW x, NEW s \in Seq(Nat), NEW v \in Seq(Nat), Open(x, s)
  PROVE  Is(sdscpylen(x, v), v)
<1> DEFINE y == IF sdsalloc(x) < Len(v) THEN sdsMakeRoomFor(x, Len(v) - x.len) ELSE x
<1>1. /\ Len(s) \in Nat /\ Len(v) \in Nat /\ x.len = Len(s) /\ Sound(x) /\ x \in Strings
      /\ x.alloc \in Nat /\ x.len <= sdsalloc(x)
  BY LenProperties DEF Open, Sound, Holds, sdsalloc, Strings
<1>2. Sound(y) /\ Holds(y, Len(v))
  <2>1. CASE sdsalloc(x) < Len(v)
    <3> DEFINE m == Len(v) - x.len
    <3>1. m \in Nat /\ Len(s) + m = Len(v)
      BY <1>1, <2>1 DEF sdsalloc
    <3>2. y = sdsMakeRoomFor(x, m)
      BY <2>1
    <3> HIDE DEF y, m
    <3>3. Open(y, s) /\ Holds(y, Len(s) + m)
      BY <3>1, <3>2, RoomFor
    <3> QED BY <3>1, <3>3 DEF Open
  <2>2. CASE ~(sdsalloc(x) < Len(v))
    <3>1. y = x
      BY <2>2
    <3>2. Holds(x, Len(v))
      <4>1. x.len \in Nat /\ x.room \in Nat /\ Holds(x, x.len)
        BY <1>1 DEF Sound, Strings
      <4> QED BY <1>1, <2>2, <4>1, SdsAssumption, SMTT(60) DEF sdsalloc, Holds
    <3> QED BY <1>1, <3>1, <3>2
  <2> QED BY <2>1, <2>2
<1> HIDE DEF y
<1>3. Is(Ended(Write(y, 0, v), Len(v)), v)
  BY <1>2, RewrittenIs
<1> QED BY <1>3 DEF sdscpylen, y

Zeros(k) == [i \in 1..k |-> Nul]

LEMMA GrowZeroIs ==
  ASSUME NEW x, NEW s \in Seq(Nat), NEW n \in Nat, Is(x, s)
  PROVE  s \o Zeros(n - Len(s)) \in Seq(Nat) /\ Is(sdsgrowzero(x, n), s \o Zeros(n - Len(s)))
<1>1. Len(s) \in Nat /\ x.len = Len(s) /\ Open(x, s)
  BY LenProperties, IsOpen DEF Is
<1>2. CASE n <= Len(s)
  <2>1. 1..(n - Len(s)) = 1..0
    BY <1>1, <1>2
  <2>2. Zeros(n - Len(s)) \in [1..0 -> Nat]
    BY <2>1 DEF Zeros, Nul
  <2>3. Zeros(n - Len(s)) = <<>>
    BY <2>2, EmptySeq
  <2> QED BY <1>1, <1>2, <2>3, ConcatEmptySeq DEF sdsgrowzero
<1>3. CASE n > Len(s)
  <2> DEFINE v == Zeros(n - Len(s))
             m == n - Len(s)
             y == sdsMakeRoomFor(x, m)
             z == Write(y, Len(s), v)
  <2>1. m \in Nat /\ Len(s) + m = n /\ ~(n <= x.len)
    BY <1>1, <1>3
  <2>2. v \in Seq(Nat) /\ Len(v) = m
    <3>1. v \in [1..m -> Nat]
      BY DEF Zeros, Nul
    <3> QED BY <2>1, <3>1, SMTT(60)
  <2>3. Open(y, s) /\ Holds(y, n)
    <3> HIDE DEF m
    <3> QED BY <1>1, <2>1, RoomFor
  <2> HIDE DEF y
  <2>4. Sound(y) /\ Starts(y.bytes, s)
    BY <2>3 DEF Open
  <2> HIDE DEF v, m
  <2>5. Rewritten(z, y, s \o v) /\ s \o v \in Seq(Nat) /\ Len(s \o v) = n
    BY <1>1, <2>1, <2>2, <2>3, <2>4, Writing
  <2> HIDE DEF z
  <2>6. Holds(z, n) /\ Sound(z) /\ Starts(z.bytes, s \o v)
    BY <2>3, <2>5 DEF Rewritten, Holds
  <2>7. Is(Ended(z, n), s \o v)
    BY <2>5, <2>6, EndedIs
  <2>8. sdsgrowzero(x, n) = Ended(z, n)
    BY <1>1, <2>1 DEF sdsgrowzero, z, y, v, m, Zeros
  <2> QED BY <2>5, <2>7, <2>8 DEF v, m
<1> QED BY <1>1, <1>2, <1>3

\* sdscatfmt: one more piece, and the terminator at the end.
LEMMA Extended ==
  ASSUME NEW x, NEW s \in Seq(Nat), NEW v \in Seq(Nat), Open(x, s), Holds(x, Len(s) + Len(v))
  PROVE  /\ Open(sdssetlen(Write(x, Len(s), v), Len(s) + Len(v)), s \o v)
         /\ s \o v \in Seq(Nat)
<1> DEFINE z == Write(x, Len(s), v)
           m == Len(s) + Len(v)
<1>1. Len(s) \in Nat /\ Len(v) \in Nat /\ Sound(x) /\ Starts(x.bytes, s) /\ m \in Nat
  BY LenProperties DEF Open
<1>2. Rewritten(z, x, s \o v) /\ s \o v \in Seq(Nat) /\ Len(s \o v) = m
  BY <1>1, Writing
<1>3. Holds(x, m)
  OBVIOUS
<1> HIDE DEF z, m
<1>4. Sound(z) /\ Holds(z, m) /\ Starts(z.bytes, s \o v) /\ z \in Strings
  BY <1>2, <1>3 DEF Rewritten, Holds, Sound
<1>5. sdssetlen(z, m) = [z EXCEPT !.len = m]
  BY <1>1, <1>4, LengthSet
<1>6. /\ sdssetlen(z, m) \in Strings /\ sdssetlen(z, m).len = m
      /\ sdssetlen(z, m).bytes = z.bytes /\ sdssetlen(z, m).kind = z.kind
      /\ sdssetlen(z, m).alloc = z.alloc /\ sdssetlen(z, m).room = z.room
      /\ sdssetlen(z, m).over = z.over
  BY <1>1, <1>4, <1>5 DEF Strings
<1>7. Open(sdssetlen(z, m), s \o v)
  BY <1>2, <1>4, <1>6 DEF Open, Sound, Holds
<1> QED BY <1>2, <1>7 DEF z, m

LEMMA AddByteIs ==
  ASSUME NEW x, NEW s \in Seq(Nat), NEW b \in Nat, Open(x, s)
  PROVE  s \o <<b>> \in Seq(Nat) /\ Open(AddByte(x, b), s \o <<b>>)
<1> DEFINE y == IF sdsavail(x) = 0 THEN sdsMakeRoomFor(x, 1) ELSE x
           v == <<b>>
<1>1. /\ v \in Seq(Nat) /\ Len(v) = 1 /\ Len(s) \in Nat /\ x.len = Len(s)
      /\ x \in Strings /\ Sound(x) /\ x.alloc \in Nat
  BY LenProperties DEF Open, Sound, Strings
<1>2. Open(y, s) /\ Holds(y, Len(s) + 1)
  <2>1. CASE sdsavail(x) = 0
    <3>1. y = sdsMakeRoomFor(x, 1)
      BY <2>1
    <3> HIDE DEF y
    <3> QED BY <3>1, RoomFor
  <2>2. CASE sdsavail(x) # 0
    BY <1>1, <2>2 DEF sdsavail, Sound, Holds
  <2> QED BY <2>1, <2>2
<1> HIDE DEF y, v
<1>3. Holds(y, Len(s) + Len(v))
  BY <1>1, <1>2
<1>4. Open(sdssetlen(Write(y, Len(s), v), Len(s) + Len(v)), s \o v) /\ s \o v \in Seq(Nat)
  BY <1>1, <1>2, <1>3, Extended
<1>5. AddByte(x, b) = sdssetlen(Write(y, Len(s), v), Len(s) + Len(v))
  BY <1>1 DEF AddByte, y, v
<1> QED BY <1>4, <1>5 DEF v

LEMMA AddArgumentIs ==
  ASSUME NEW x, NEW s \in Seq(Nat), NEW v \in Seq(Nat), Open(x, s)
  PROVE  s \o v \in Seq(Nat) /\ Open(AddArgument(x, v), s \o v)
<1> DEFINE y == IF sdsavail(x) = 0 THEN sdsMakeRoomFor(x, 1) ELSE x
           z == IF sdsavail(y) < Len(v) THEN sdsMakeRoomFor(y, Len(v)) ELSE y
<1>1. Len(v) \in Nat /\ Len(s) \in Nat /\ x.len = Len(s)
  BY LenProperties DEF Open
<1>2. Open(y, s)
  BY RoomFor
<1> HIDE DEF y
<1>3. Open(z, s) /\ Holds(z, Len(s) + Len(v))
  <2>1. CASE sdsavail(y) < Len(v)
    <3>1. z = sdsMakeRoomFor(y, Len(v))
      BY <2>1
    <3> HIDE DEF z
    <3> QED BY <1>1, <1>2, <3>1, RoomFor
  <2>2. CASE ~(sdsavail(y) < Len(v))
    <3>1. z = y
      BY <2>2
    <3>2. y \in Strings /\ y.len = Len(s) /\ y.alloc \in Nat /\ Holds(y, y.len)
      BY <1>2 DEF Open, Sound, Strings
    <3>3. Holds(y, Len(s) + Len(v))
      BY <1>1, <2>2, <3>2 DEF sdsavail, Holds
    <3> QED BY <1>2, <3>1, <3>3
  <2> QED BY <2>1, <2>2
<1> HIDE DEF z
<1>4. Open(sdssetlen(Write(z, Len(s), v), Len(s) + Len(v)), s \o v) /\ s \o v \in Seq(Nat)
  BY <1>3, Extended
<1>5. AddArgument(x, v) = sdssetlen(Write(z, Len(s), v), Len(s) + Len(v))
  BY <1>1 DEF AddArgument, z, y
<1> QED BY <1>4, <1>5

LEMMA CatFmtIs ==
  ASSUME NEW x, NEW s \in Seq(Nat), NEW u \in Seq(Nat), NEW b \in Nat, NEW v \in Seq(Nat),
         Open(x, s)
  PROVE  /\ ((s \o u) \o <<b>>) \o v \in Seq(Nat)
         /\ Is(sdscatfmt(x, u, b, v), ((s \o u) \o <<b>>) \o v)
<1> DEFINE y == AddArgument(AddByte(AddArgument(x, u), b), v)
           w == ((s \o u) \o <<b>>) \o v
           end == <<Nul>>
<1>1. s \o u \in Seq(Nat) /\ Open(AddArgument(x, u), s \o u)
  BY AddArgumentIs
<1>2. (s \o u) \o <<b>> \in Seq(Nat) /\ Open(AddByte(AddArgument(x, u), b), (s \o u) \o <<b>>)
  BY <1>1, AddByteIs
<1>3. w \in Seq(Nat) /\ Open(y, w)
  BY <1>2, AddArgumentIs
<1>4. sdscatfmt(x, u, b, v) = Write(y, y.len, end)
  BY DEF sdscatfmt
<1> HIDE DEF y, w
<1>5. /\ end \in Seq(Nat) /\ Len(end) = 1 /\ y \in Strings /\ y.len = Len(w) /\ y.len \in Nat
      /\ y.room \in Nat /\ y.alloc \in Nat /\ Starts(y.bytes, w)
  BY <1>3 DEF Open, Sound, Strings, Nul
<1>6. y.len + 1 <= y.room + 1
  BY <1>3, <1>5, SMTT(60) DEF Open, Sound, Holds
<1> HIDE DEF end
<1>7. Write(y, y.len, end) = WithBytes(y, w \o end)
  BY <1>3, <1>5, <1>6, WriteAt, ZenonT(60)
<1>8. Is(WithBytes(y, w \o end), w)
  BY <1>3, <1>5, TerminatedIs DEF Open, end
<1> QED BY <1>3, <1>4, <1>7, <1>8 DEF w

\* The assertion of sdsIncrLen holds.
LEMMA NothingOver ==
  ASSUME NEW x, Sound(x), NEW k \in Int, IncrAllowed(x, k)
  PROVE  sdsIncrLen(x, k) = Ended(x, x.len + k)
<1>1. x.over = FALSE /\ x \in Strings
  BY DEF Sound, Strings
<1>2. [x EXCEPT !.over = @ \/ ~IncrAllowed(x, k)] = x
  BY <1>1 DEF Strings
<1> QED BY <1>2 DEF sdsIncrLen

LEMMA ReadIntoIs ==
  ASSUME NEW x, NEW s \in Seq(Nat), NEW v \in Seq(Nat), NEW n \in Nat,
         Open(x, s), n > 0, Len(v) <= n
  PROVE  s \o v \in Seq(Nat) /\ Is(ReadInto(x, n, v), s \o v)
<1> DEFINE y == sdsMakeRoomFor(x, n)
           z == Write(y, Len(s), v)
           m == Len(s) + Len(v)
<1>1. Len(s) \in Nat /\ Len(v) \in Nat /\ x.len = Len(s) /\ m \in Nat
  BY LenProperties DEF Open
<1>2. Open(y, s) /\ Holds(y, Len(s) + n) /\ y.kind # 5
  BY <1>1, RoomFor
<1> HIDE DEF y
<1>3. Sound(y) /\ Starts(y.bytes, s) /\ y.len = Len(s) /\ y.alloc \in Nat
  BY <1>2 DEF Open, Sound, Strings
<1>4. Holds(y, m)
  BY <1>1, <1>2, <1>3 DEF Holds
<1>5. Rewritten(z, y, s \o v) /\ s \o v \in Seq(Nat) /\ Len(s \o v) = m
  BY <1>1, <1>3, <1>4, Writing
<1>6. ReadInto(x, n, v) = sdsIncrLen(z, Len(v))
  BY <1>1 DEF ReadInto, y
<1> HIDE DEF z
<1>7. /\ Holds(z, m) /\ Sound(z) /\ Starts(z.bytes, s \o v) /\ z.kind # 5
      /\ z.len = Len(s) /\ z.alloc \in Nat
  BY <1>2, <1>3, <1>4, <1>5 DEF Rewritten, Holds
<1>8. IncrAllowed(z, Len(v))
  BY <1>1, <1>7 DEF IncrAllowed, Holds
<1>9. ReadInto(x, n, v) = Ended(z, m)
  <2>1. sdsIncrLen(z, Len(v)) = Ended(z, z.len + Len(v))
    <3>1. Len(v) \in Int
      BY <1>1
    <3> QED BY <1>7, <1>8, <3>1, NothingOver
  <2>2. z.len + Len(v) = m
    BY <1>7
  <2> QED BY <1>6, <2>1, <2>2
<1> HIDE DEF m
<1>10. Is(Ended(z, m), s \o v)
  BY <1>1, <1>5, <1>7, EndedIs
<1> QED BY <1>5, <1>9, <1>10

-----------------------------------------------------------------------------
(* Taking something out                                                    *)

\* The bytes of a string are those that are meant.
LEMMA BytesOf ==
  ASSUME NEW x, NEW s \in Seq(Nat), Is(x, s)
  PROVE  /\ Len(s) \in Nat /\ DOMAIN s = 1..Len(s) /\ x.len = Len(s) /\ Sound(x)
         /\ x.bytes \in Seq(Nat) /\ Len(x.bytes) = Len(s) + 1 /\ DOMAIN x.bytes = 1..(Len(s) + 1)
         /\ \A i \in 1..Len(s) : x.bytes[i] = s[i] /\ s[i] \in Nat
         /\ x.bytes[Len(s) + 1] = Nul
<1> DEFINE end == <<Nul>>
<1>1. end \in Seq(Nat) /\ Len(end) = 1 /\ end[1] = Nul
  BY DEF Nul
<1> HIDE DEF end
<1>2. x.bytes = s \o end /\ x.len = Len(s) /\ Sound(x)
  BY DEF Is, end
<1>3. /\ s \o end \in Seq(Nat) /\ Len(s \o end) = Len(s) + Len(end)
      /\ \A i \in 1..(Len(s) + Len(end)) :
           (s \o end)[i] = IF i <= Len(s) THEN s[i] ELSE end[i - Len(s)]
  BY <1>1, ConcatProperties
<1>4. Len(s) \in Nat /\ DOMAIN s = 1..Len(s) /\ \A i \in 1..Len(s) : s[i] \in Nat
  BY LenProperties, ElementOfSeq
<1>5. DOMAIN x.bytes = 1..(Len(s) + 1)
  BY <1>1, <1>2, <1>3, LenProperties
<1> QED BY <1>1, <1>2, <1>3, <1>4, <1>5

LEMMA PartOf ==
  ASSUME NEW x, NEW s \in Seq(Nat), Is(x, s), NEW a \in Nat, NEW b \in Nat,
         1 <= a, a <= b + 1, b <= Len(s), NEW k \in Nat, k = b - a + 1
  PROVE  /\ SubSeq(x.bytes, a, b) = SubSeq(s, a, b) /\ SubSeq(s, a, b) \in Seq(Nat)
         /\ Len(SubSeq(s, a, b)) = k /\ Holds(x, k)
<1>1. /\ Len(s) \in Nat /\ x.len = Len(s) /\ Sound(x)
      /\ \A i \in 1..Len(s) : x.bytes[i] = s[i] /\ s[i] \in Nat
  BY BytesOf
<1>2. \A i \in a..b : i \in 1..Len(s)
  BY <1>1
<1>3. /\ SubSeq(s, a, b) \in Seq(Nat) /\ Len(SubSeq(s, a, b)) = b - a + 1
      /\ \A i \in 1..(b - a + 1) : SubSeq(s, a, b)[i] = s[a + i - 1]
  BY <1>1, <1>2, SubSeqProperties
<1>4. /\ SubSeq(x.bytes, a, b) \in Seq(Nat) /\ Len(SubSeq(x.bytes, a, b)) = b - a + 1
      /\ \A i \in 1..(b - a + 1) : SubSeq(x.bytes, a, b)[i] = x.bytes[a + i - 1]
  BY <1>1, <1>2, SubSeqProperties, SMTT(60)
<1>5. \A i \in 1..(b - a + 1) : a + i - 1 \in 1..Len(s)
  BY <1>1
<1>6. SubSeq(x.bytes, a, b) = SubSeq(s, a, b)
  BY <1>1, <1>3, <1>4, <1>5, SeqEqual
<1>7. Holds(x, b - a + 1)
  <2>1. x.alloc \in Nat /\ x.room \in Nat /\ Holds(x, x.len)
    BY <1>1 DEF Sound, Strings
  <2> QED BY <1>1, <2>1, SdsAssumption, SMTT(60) DEF Holds
<1> QED BY <1>3, <1>6, <1>7

LEMMA FirstOf ==
  ASSUME NEW x, NEW s \in Seq(Nat), Is(x, s), NEW m \in Nat, m <= Len(s)
  PROVE  /\ SubSeq(x.bytes, 1, m) = SubSeq(s, 1, m) /\ SubSeq(s, 1, m) \in Seq(Nat)
         /\ Len(SubSeq(s, 1, m)) = m /\ Holds(x, m)
<1>1. ASSUME NEW a \in Nat, NEW k \in Nat, 1 <= a, a <= m + 1, k = m - a + 1
      PROVE  /\ SubSeq(x.bytes, a, m) = SubSeq(s, a, m) /\ SubSeq(s, a, m) \in Seq(Nat)
             /\ Len(SubSeq(s, a, m)) = k /\ Holds(x, k)
  BY <1>1, PartOf, SMTT(150)
<1>2. 1 \in Nat /\ 1 <= 1 /\ 1 <= m + 1 /\ m = m - 1 + 1
  OBVIOUS
<1> QED BY <1>1, <1>2, Zenon

LEMMA IncrLenIs ==
  ASSUME NEW x, NEW s \in Seq(Nat), Is(x, s), NEW k \in 1..Len(s)
  PROVE  SubSeq(s, 1, Len(s) - k) \in Seq(Nat) /\ Is(sdsIncrLen(x, -k), SubSeq(s, 1, Len(s) - k))
<1> DEFINE m == Len(s) - k
           v == SubSeq(s, 1, m)
<1>1. Len(s) \in Nat /\ k \in Nat /\ k > 0 /\ m \in Nat /\ x.len = Len(s) /\ Sound(x) /\ m <= Len(s)
  BY BytesOf
<1>2. SubSeq(x.bytes, 1, m) = v /\ v \in Seq(Nat) /\ Len(v) = m /\ Holds(x, m)
  <2> HIDE DEF m
  <2> QED BY <1>1, FirstOf
<1>3. IncrAllowed(x, -k)
  BY <1>1 DEF IncrAllowed
<1>4. sdsIncrLen(x, -k) = Ended(x, x.len + -k)
  BY <1>1, <1>3, NothingOver, SMTT(60)
<1>5. x.len + -k = m
  BY <1>1
<1> HIDE DEF m, v
<1>6. Starts(x.bytes, v)
  BY <1>2 DEF Starts
<1>7. Is(Ended(x, m), v)
  BY <1>1, <1>2, <1>6, EndedIs
<1> QED BY <1>2, <1>4, <1>5, <1>7 DEF m, v

LEMMA MinIs ==
  ASSUME NEW A, A \subseteq Nat, A # {}
  PROVE  Min(A) \in A /\ \A y \in A : Min(A) <= y
<1>1. \E n \in A : \A m \in A : n =< m
  BY LeastOf
<1> QED BY <1>1 DEF Min

LEMMA MaxIs ==
  ASSUME NEW A, NEW n \in Nat, A \subseteq 0..n, A # {}
  PROVE  Max(A) \in A /\ \A y \in A : y <= Max(A)
<1> DEFINE B == {n - y : y \in A}
<1>1. B \subseteq Nat /\ B # {}
  <2>1. \A y \in A : n - y \in Nat
    OBVIOUS
  <2> QED BY <2>1
<1> HIDE DEF B
<1>2. PICK b \in B : \A g \in B : b =< g
  BY <1>1, LeastOf
<1>3. PICK y \in A : b = n - y
  BY <1>2 DEF B
<1>4. \A z \in A : y >= z
  <2> SUFFICES ASSUME NEW z \in A PROVE y >= z
    OBVIOUS
  <2>1. n - z \in B
    BY DEF B
  <2>2. y \in Nat /\ z \in Nat /\ n - y <= n - z
    BY <1>2, <1>3, <2>1
  <2> QED BY <2>2
<1>5. Max(A) \in A /\ \A z \in A : Max(A) >= z
  BY <1>4 DEF Max
<1> QED BY <1>5

LEMMA MaxOfSome ==
  ASSUME NEW A, NEW n \in Nat, A \subseteq 0..n, A # {}, NEW m \in A, \A y \in A : y <= m
  PROVE  Max(A) = m
<1>1. Max(A) \in A /\ \A y \in A : y <= Max(A)
  BY MaxIs
<1>2. m \in Nat /\ Max(A) \in Nat /\ m <= Max(A) /\ Max(A) <= m
  <2>1. \A y \in A : y \in Nat
    OBVIOUS
  <2> QED BY <1>1, <2>1, Zenon
<1> QED BY <1>2

LEMMA MinOfSome ==
  ASSUME NEW A, A \subseteq Nat, NEW m \in A, \A y \in A : m <= y
  PROVE  Min(A) = m
<1>1. Min(A) \in A /\ \A y \in A : Min(A) <= y
  BY MinIs
<1>2. m \in Nat /\ Min(A) \in Nat /\ m <= Min(A) /\ Min(A) <= m
  BY <1>1
<1> QED BY <1>2

\* A part of the string is moved to its beginning.
LEMMA CutIs ==
  ASSUME NEW x, NEW s \in Seq(Nat), Is(x, s), NEW a \in Nat, NEW b \in Nat,
         1 <= a, a <= b + 1, b <= Len(s), NEW k \in Nat, k = b - a + 1
  PROVE  /\ Is(Ended(Write(x, 0, SubSeq(x.bytes, a, b)), k), SubSeq(s, a, b))
         /\ SubSeq(s, a, b) \in Seq(Nat)
<1> DEFINE v == SubSeq(s, a, b)
<1>1. SubSeq(x.bytes, a, b) = v /\ v \in Seq(Nat) /\ Len(v) = k /\ Holds(x, k)
  BY PartOf, SMTT(60)
<1>2. Sound(x)
  BY DEF Is
<1> HIDE DEF v
<1>3. Holds(x, Len(v))
  BY <1>1
<1>4. Is(Ended(Write(x, 0, v), Len(v)), v)
  BY <1>1, <1>2, <1>3, RewrittenIs
<1> QED BY <1>1, <1>4 DEF v

LEMMA CutNothing ==
  ASSUME NEW x, NEW s \in Seq(Nat), Is(x, s), NEW a \in Int, NEW b \in Int, b < a
  PROVE  Is(Ended(Write(x, 0, SubSeq(x.bytes, a, b)), 0), <<>>)
<1> DEFINE none == <<>>
<1>1. SubSeq(x.bytes, a, b) = none /\ none \in Seq(Nat) /\ Len(none) = 0
  BY SubSeqEmpty, EmptySeq
<1>2. Sound(x) /\ x.len \in Nat /\ Holds(x, x.len) /\ x.room \in Nat /\ x.alloc \in Nat
  BY DEF Is, Sound, Strings
<1> HIDE DEF none
<1>3. Holds(x, Len(none))
  BY <1>1, <1>2, SdsAssumption DEF Holds
<1>4. Is(Ended(Write(x, 0, none), Len(none)), none)
  BY <1>1, <1>2, <1>3, RewrittenIs
<1> QED BY <1>1, <1>4 DEF none

\* What is left of a string of which the positions kept are left.
Kept(s) == {i \in DOMAIN s : s[i] \notin Trimmed \cup {Nul}}

LEMMA TrimIs ==
  ASSUME NEW x, NEW s \in Seq(Nat), Is(x, s)
  PROVE  IF Kept(s) = {} THEN Is(sdstrim(x), <<>>)
         ELSE /\ Is(sdstrim(x), SubSeq(s, Min(Kept(s)), Max(Kept(s))))
              /\ SubSeq(s, Min(Kept(s)), Max(Kept(s))) \in Seq(Nat)
<1> DEFINE n == Len(s)
           a == Min(Kept(s))
           b == Max(Kept(s))
<1>1. n \in Nat /\ DOMAIN s = 1..n /\ x.len = n /\ \A i \in 1..n : x.bytes[i] = s[i]
  BY BytesOf
<1>2. Kept(s) \subseteq 1..n /\ \A i \in 1..n : InSet(x.bytes[i]) <=> i \notin Kept(s)
  BY <1>1 DEF Kept, InSet
<1>3. CASE Kept(s) = {}
  <2>1. \A i \in 1..n : InSet(x.bytes[i])
    BY <1>2, <1>3
  <2>2. /\ n + 1 > n /\ n + 1 \in 1..(n + 1)
        /\ \A j \in 1..(n + 1 - 1) : InSet(x.bytes[j])
        /\ \A i \in 1..(n + 1) : i > n \/ ~InSet(x.bytes[i]) => i = n + 1
    BY <1>1, <2>1
  <2>3. Sp(x) = n + 1
    BY <1>1, <2>2 DEF Sp
  <2>4. /\ n \in 0..n /\ n <= n + 1
        /\ \A j \in (n + 1)..n : j > n + 1 /\ InSet(x.bytes[j])
        /\ \A i \in 0..n : (\A j \in (i + 1)..n : j > n + 1) => i = n
    <3>1. n \in 0..n /\ n <= n + 1 /\ (n + 1)..n = {}
      BY <1>1
    <3>2. ASSUME NEW i \in 0..n, \A j \in (i + 1)..n : j > n + 1 PROVE i = n
      <4>1. n \in Nat /\ i \in Nat /\ i <= n
        BY <1>1
      <4> HIDE DEF n
      <4>2. i < n => i + 1 \in (i + 1)..n
        BY <4>1
      <4>3. ~(i < n)
        BY <3>2, <4>1, <4>2, SMTT(60)
      <4> QED BY <4>1, <4>3
    <3> QED BY <3>1, <3>2
  <2>5. Ep(x) = n
    BY <1>1, <2>3, <2>4, Zenon DEF Ep
  <2>6. sdstrim(x) = Ended(Write(x, 0, SubSeq(x.bytes, n + 1, n + 1 + 0 - 1)), 0)
    BY <1>1, <2>3, <2>5 DEF sdstrim
  <2> DEFINE g == n + 1
             d == n + 1 + 0 - 1
  <2>7. g \in Int /\ d \in Int /\ d < g
    BY <1>1
  <2> HIDE DEF g, d
  <2>8. Is(Ended(Write(x, 0, SubSeq(x.bytes, g, d)), 0), <<>>)
    BY <2>7, CutNothing
  <2> QED BY <1>3, <2>6, <2>8 DEF g, d
<1>4. CASE Kept(s) # {}
  <2>1. /\ a \in Kept(s) /\ b \in Kept(s) /\ a \in 1..n /\ b \in 1..n /\ a <= b
        /\ \A i \in Kept(s) : a <= i /\ i <= b
    <3>1. Kept(s) \subseteq Nat /\ Kept(s) \subseteq 0..n
      BY <1>1, <1>2
    <3>2. a \in Kept(s) /\ \A y \in Kept(s) : a <= y
      BY <1>4, <3>1, MinIs
    <3>3. b \in Kept(s) /\ \A y \in Kept(s) : y <= b
      BY <1>1, <1>4, <3>1, MaxIs
    <3> QED BY <1>2, <3>2, <3>3
  <2> HIDE DEF a, b
  <2>2. Sp(x) = a
    <3>1. a \in 1..(n + 1) /\ ~InSet(x.bytes[a]) /\ \A j \in 1..(a - 1) : InSet(x.bytes[j])
      <4> SUFFICES ASSUME NEW j \in 1..(a - 1) PROVE InSet(x.bytes[j])
        BY <1>1, <1>2, <2>1
      <4>1. j \in 1..n /\ ~(a <= j)
        BY <1>1, <2>1
      <4> QED BY <1>2, <2>1, <4>1
    <3>2. ASSUME NEW i \in 1..(n + 1), i > n \/ ~InSet(x.bytes[i]),
                 \A j \in 1..(i - 1) : InSet(x.bytes[j])
          PROVE  i = a
      <4>1. ~(a < i)
        <5> SUFFICES ASSUME a < i PROVE FALSE
          OBVIOUS
        <5>1. a \in 1..(i - 1)
          BY <1>1, <2>1
        <5> QED BY <1>2, <2>1, <3>2, <5>1
      <4>2. i \in 1..n
        BY <1>1, <2>1, <4>1
      <4>3. i \in Kept(s)
        BY <1>1, <1>2, <3>2, <4>2
      <4> QED BY <1>1, <2>1, <4>1, <4>3
    <3> QED BY <1>1, <3>1, <3>2 DEF Sp
  <2>3. Ep(x) = b
    <3>1. b \in 0..n /\ ~InSet(x.bytes[b]) /\ \A j \in (b + 1)..n : j > a /\ InSet(x.bytes[j])
      <4> SUFFICES ASSUME NEW j \in (b + 1)..n PROVE j > a /\ InSet(x.bytes[j])
        BY <1>1, <1>2, <2>1
      <4>1. j \in 1..n /\ ~(j <= b) /\ j > a
        BY <1>1, <2>1, SMTT(60)
      <4> QED BY <1>2, <2>1, <4>1
    <3>2. ASSUME NEW i \in 0..n, i <= a \/ ~InSet(x.bytes[i]),
                 \A j \in (i + 1)..n : j > a /\ InSet(x.bytes[j])
          PROVE  i = b
      <4>1. ~(i < b)
        <5> SUFFICES ASSUME i < b PROVE FALSE
          OBVIOUS
        <5>1. b \in (i + 1)..n
          BY <1>1, <2>1
        <5> QED BY <1>2, <2>1, <3>2, <5>1
      <4>2. i \in 1..n /\ b <= i
        BY <1>1, <2>1, <4>1
      <4>3. i <= a \/ i \in Kept(s)
        BY <1>2, <3>2, <4>2
      <4> QED BY <1>1, <2>1, <4>2, <4>3
    <3> QED BY <1>1, <2>2, <3>1, <3>2 DEF Ep
  <2> DEFINE k == b - a + 1
             g == a + k - 1
  <2>4. k \in Nat /\ a \in Nat /\ b \in Nat /\ 1 <= a /\ a <= b + 1 /\ b <= Len(s) /\ g = b /\ ~(a > b)
    BY <1>1, <2>1
  <2>5. sdstrim(x) = Ended(Write(x, 0, SubSeq(x.bytes, a, g)), k)
    BY <2>2, <2>3, <2>4 DEF sdstrim
  <2>6. k = b - a + 1
    OBVIOUS
  <2> HIDE DEF k, g
  <2>7. /\ Is(Ended(Write(x, 0, SubSeq(x.bytes, a, b)), k), SubSeq(s, a, b))
        /\ SubSeq(s, a, b) \in Seq(Nat)
    BY <2>4, <2>6, CutIs
  <2> QED BY <1>4, <2>4, <2>5, <2>7 DEF a, b
<1> QED BY <1>3, <1>4

Within(n, i) == IF i >= 0 THEN i ELSE IF n + i < 0 THEN 0 ELSE n + i
Position(s, i) == IF i < 0 THEN Len(s) + i + 1 ELSE i + 1
Ranged(s, start, end) ==
  {i \in DOMAIN s : Position(s, start) <= i /\ i <= Max({1, Position(s, end)})}

LEMMA RangedIs ==
  ASSUME NEW s \in Seq(Nat), NEW start \in Int, NEW end \in Int
  PROVE  /\ Within(Len(s), start) \in Nat /\ Within(Len(s), end) \in Nat
         /\ \A i \in Int : i \in Ranged(s, start, end) <=>
              i <= Len(s) /\ Within(Len(s), start) + 1 <= i /\ i <= Within(Len(s), end) + 1
<1>1. Len(s) \in Nat /\ DOMAIN s = 1..Len(s)
  BY LenProperties
<1>2. Within(Len(s), start) \in Nat /\ Within(Len(s), end) \in Nat
  BY <1>1 DEF Within
<1>3. Max({1, Position(s, end)}) = Within(Len(s), end) + 1
  <2> DEFINE q == Position(s, end)
  <2>1. q \in Int /\ Within(Len(s), end) + 1 = IF q < 1 THEN 1 ELSE q
    BY <1>1 DEF Within, Position
  <2> HIDE DEF q
  <2>2. \A m \in {1, q} : (\A y \in {1, q} : m >= y) <=> m = IF q < 1 THEN 1 ELSE q
    BY <2>1
  <2>3. (IF q < 1 THEN 1 ELSE q) \in {1, q}
    OBVIOUS
  <2>4. Max({1, q}) = IF q < 1 THEN 1 ELSE q
    BY <2>2, <2>3 DEF Max
  <2> QED BY <2>1, <2>4 DEF q
<1>4. \A i \in 1..Len(s) : Position(s, start) <= i <=> Within(Len(s), start) + 1 <= i
  BY <1>1 DEF Within, Position
<1>5. ASSUME NEW i \in Int
      PROVE  i \in Ranged(s, start, end) <=>
               i <= Len(s) /\ Within(Len(s), start) + 1 <= i /\ i <= Within(Len(s), end) + 1
  <2>1. i \in Ranged(s, start, end) <=>
          i \in 1..Len(s) /\ Position(s, start) <= i /\ i <= Within(Len(s), end) + 1
    BY <1>1, <1>3 DEF Ranged
  <2> QED BY <1>1, <1>2, <1>4, <2>1
<1> QED BY <1>2, <1>5

LEMMA RangeIs ==
  ASSUME NEW x, NEW s \in Seq(Nat), Is(x, s), NEW start \in Int, NEW end \in Int,
         NEW A, A = Ranged(s, start, end)
  PROVE  IF A = {} THEN Is(sdsrange(x, start, end), <<>>)
         ELSE /\ Is(sdsrange(x, start, end), SubSeq(s, Min(A), Max(A)))
              /\ SubSeq(s, Min(A), Max(A)) \in Seq(Nat)
<1> DEFINE n == Len(s)
           f == Within(n, start)
           e == Within(n, end)
           to == IF e >= n THEN n - 1 ELSE e
           k == IF f > e \/ f >= n THEN 0 ELSE to - f + 1
           a == f + 1
           b == f + k
<1>1. n \in Nat /\ DOMAIN s = 1..n /\ x.len = n /\ f \in Nat /\ e \in Nat
  BY BytesOf, RangedIs
<1>2. A \subseteq 1..n /\ \A i \in Int : i \in A <=> i <= n /\ a <= i /\ i <= e + 1
  BY <1>1, RangedIs DEF Ranged
<1>3. sdsrange(x, start, end) =
        IF n = 0 THEN x ELSE Ended(Write(x, 0, SubSeq(x.bytes, a, b)), k)
  BY <1>1, Zenon DEF sdsrange, Within
<1>4. CASE n = 0
  <2>1. A = {} /\ s = <<>>
    BY <1>1, <1>2, <1>4, EmptySeq
  <2> QED BY <1>3, <1>4, <2>1
<1>5. CASE n # 0 /\ (f > e \/ f >= n)
  <2>1. A = {}
    BY <1>1, <1>2, <1>5, SMTT(60)
  <2>2. k = 0 /\ a \in Int /\ b \in Int /\ b < a
    BY <1>1, <1>5
  <2> HIDE DEF k, a, b
  <2>3. Is(Ended(Write(x, 0, SubSeq(x.bytes, a, b)), 0), <<>>)
    BY <2>2, CutNothing
  <2> QED BY <1>3, <1>5, <2>1, <2>2, <2>3
<1>6. CASE n # 0 /\ ~(f > e \/ f >= n)
  <2>1. /\ a \in Nat /\ b \in Nat /\ 1 <= a /\ a <= b /\ a <= b + 1 /\ b <= n /\ k \in Nat
        /\ k = b - a + 1 /\ b <= e + 1 /\ a <= n /\ (b = n \/ b = e + 1)
    <3>1. k = to - f + 1 /\ n \in Nat /\ f \in Nat /\ e \in Nat /\ f <= e /\ f < n
      BY <1>1, <1>6
    <3>2. to \in Nat /\ f <= to /\ to <= e /\ to <= n - 1 /\ (to = n - 1 \/ to = e)
      BY <3>1
    <3> HIDE DEF to, f, e, n, k
    <3>3. a = f + 1 /\ b = f + k
      OBVIOUS
    <3> QED BY <3>1, <3>2, <3>3
  <2> HIDE DEF k, a, b, n
  <2>2. a \in A /\ b \in A /\ A \subseteq Nat /\ A \subseteq 0..n /\ \A i \in A : a <= i /\ i <= b
    <3>1. A \subseteq Nat /\ A \subseteq 0..n
      BY <1>1, <1>2
    <3>2. a \in A /\ b \in A
      BY <1>1, <1>2, <2>1
    <3>3. \A i \in A : i \in Nat /\ i <= n /\ a <= i /\ i <= e + 1
      BY <1>2, <3>1
    <3> QED BY <1>1, <2>1, <3>1, <3>2, <3>3
  <2>3. Min(A) = a /\ Max(A) = b
    <3>1. Min(A) = a
      BY <2>2, MinOfSome
    <3>2. Max(A) = b
      BY <1>1, <2>2, MaxOfSome
    <3> QED BY <3>1, <3>2
  <2>4. /\ Is(Ended(Write(x, 0, SubSeq(x.bytes, a, b)), k), SubSeq(s, a, b))
        /\ SubSeq(s, a, b) \in Seq(Nat)
    BY <2>1, CutIs DEF n
  <2> QED BY <1>3, <1>6, <2>2, <2>3, <2>4
<1> QED BY <1>4, <1>5, <1>6

Zeroes(s) == {i - 1 : i \in {j \in DOMAIN s : s[j] = Nul}} \cup {Len(s)}

LEMMA UpdateLenIs ==
  ASSUME NEW x, NEW s \in Seq(Nat), Is(x, s), NEW m, m = Min(Zeroes(s))
  PROVE  SubSeq(s, 1, m) \in Seq(Nat) /\ Is(sdsupdatelen(x), SubSeq(s, 1, m))
<1> DEFINE n == Len(s)
           b == x.bytes
           v == SubSeq(s, 1, m)
           y == sdssetlen(x, m)
<1>1. /\ n \in Nat /\ DOMAIN s = 1..n /\ x.len = n /\ Sound(x) /\ b \in Seq(Nat)
      /\ Len(b) = n + 1 /\ DOMAIN b = 1..(n + 1) /\ b[n + 1] = Nul
      /\ \A i \in 1..n : b[i] = s[i]
  BY BytesOf
<1>2. \A i \in Int : i \in Zeroes(s) <=> i \in 0..n /\ b[i + 1] = Nul
  <2> SUFFICES ASSUME NEW i \in Int PROVE i \in Zeroes(s) <=> i \in 0..n /\ b[i + 1] = Nul
    BY SMTT(60)
  <2>1. i \in Zeroes(s) <=> i = n \/ (i + 1 \in 1..n /\ s[i + 1] = Nul)
    <3>1. i \in Zeroes(s) <=> i = n \/ \E j \in 1..n : s[j] = Nul /\ i = j - 1
      BY <1>1, Zenon DEF Zeroes
    <3>2. \A j \in 1..n : i = j - 1 <=> j = i + 1
      OBVIOUS
    <3> QED BY <3>1, <3>2
  <2>2. i + 1 \in 1..n => b[i + 1] = s[i + 1]
    BY <1>1
  <2>3. i \in 0..n <=> i = n \/ i + 1 \in 1..n
    <3> HIDE DEF n
    <3>1. n \in Nat
      BY <1>1
    <3> QED BY <3>1
  <2> QED BY <1>1, <2>1, <2>2, <2>3, Zenon
<1>3. m \in 0..n /\ b[m + 1] = Nul /\ \A i \in 0..n : b[i + 1] = Nul => m <= i
  <2>1. Zeroes(s) \subseteq Nat /\ Zeroes(s) # {}
    <3>1. \A i \in Zeroes(s) : i \in Int
      BY <1>1 DEF Zeroes
    <3>2. n \in Zeroes(s)
      BY DEF Zeroes
    <3> QED BY <1>2, <3>1, <3>2
  <2>2. m \in Zeroes(s) /\ \A i \in Zeroes(s) : m <= i
    BY <2>1, MinIs
  <2>3. m \in Int /\ \A i \in 0..n : i \in Int
    BY <2>1, <2>2
  <2> QED BY <1>2, <2>2, <2>3, Zenon
<1>4. Strlen(x) = m
  <2> DEFINE First(i) == b[i] = Nul /\ \A j \in 1..(i - 1) : b[j] # Nul
  <2>1. m + 1 \in 1..(n + 1) /\ First(m + 1)
    <3> DEFINE k == m + 1
    <3>1. k \in 1..(n + 1) /\ k \in Int /\ k - 1 = m /\ b[k] = Nul
      BY <1>1, <1>3
    <3> HIDE DEF k
    <3>2. ASSUME NEW j \in 1..(k - 1), b[j] = Nul PROVE FALSE
      <4>1. j - 1 \in 0..n /\ ~(m <= j - 1) /\ j - 1 + 1 = j
        BY <1>1, <1>3, <3>1, SMTT(60)
      <4> QED BY <1>3, <3>2, <4>1
    <3>3. First(k)
      BY <3>1, <3>2
    <3> QED BY <3>1, <3>3 DEF k
  <2>2. ASSUME NEW i \in 1..(n + 1), First(i) PROVE i = m + 1
    <3>1. i - 1 \in 0..n /\ b[i - 1 + 1] = Nul
      BY <1>1, <2>2
    <3>2. m <= i - 1
      BY <1>3, <3>1
    <3>3. m + 1 < i => m + 1 \in 1..(i - 1)
      BY <1>3
    <3> QED BY <1>3, <2>2, <3>2, <3>3
  <2> HIDE DEF First
  <2> DEFINE g == CHOOSE i \in 1..(n + 1) : First(i)
  <2>3. g = m + 1
    BY <2>1, <2>2
  <2>4. Strlen(x) = g - 1
    BY <1>1 DEF Strlen, First
  <2>5. m \in Int
    BY <1>3
  <2> HIDE DEF g
  <2> QED BY <2>3, <2>4, <2>5
<1>5. m \in Nat /\ m <= Len(s) /\ m <= n
  BY <1>1, <1>3
<1>6. SubSeq(b, 1, m) = v /\ v \in Seq(Nat) /\ Len(v) = m /\ Holds(x, m)
  BY <1>5, FirstOf
<1>7. SubSeq(b, 1, m + 1) = v \o <<Nul>>
  <2> DEFINE k == m + 1
             one == 1
  <2>1. k \in one..Len(b) /\ one \in 1..Len(b) /\ k - 1 = m
    BY <1>1, <1>5
  <2> HIDE DEF k, one
  <2>2. SubSeq(b, one, k) = SubSeq(b, one, k - 1) \o <<b[k]>>
    BY <1>1, <2>1, SubSeqRecursiveSecond
  <2> QED BY <1>3, <1>6, <2>1, <2>2 DEF k, one
<1>8. y = [x EXCEPT !.len = m]
  BY <1>1, <1>5, <1>6, LengthSet
<1>9. sdsupdatelen(x) = WithBytes(y, v \o <<Nul>>)
  <2>1. y.bytes = b
    BY <1>1, <1>8 DEF Sound, Strings
  <2>2. sdsupdatelen(x) = [y EXCEPT !.bytes = SubSeq(y.bytes, 1, m + 1)]
    BY <1>4 DEF sdsupdatelen
  <2> QED BY <1>7, <2>1, <2>2 DEF WithBytes
<1>10. Sound(y) /\ y.len = m
  <2>1. x \in Strings
    BY <1>1 DEF Sound
  <2>2. y \in Strings /\ y.len = m /\ y.kind = x.kind /\ y.alloc = x.alloc /\ y.room = x.room
        /\ y.over = x.over
    BY <1>5, <1>8, <2>1 DEF Strings
  <2> HIDE DEF y
  <2> QED BY <1>1, <1>6, <2>1, <2>2 DEF Sound, Holds
<1> HIDE DEF y, v
<1>11. Is(WithBytes(y, v \o <<Nul>>), v)
  BY <1>6, <1>10, TerminatedIs
<1> QED BY <1>6, <1>9, <1>11 DEF v

LEMMA MapCharsIs ==
  ASSUME NEW x, NEW s \in Seq(Nat), Is(x, s), NEW from \in Nat, NEW to \in Nat,
         NEW v, v = [i \in DOMAIN s |-> IF s[i] = from THEN to ELSE s[i]]
  PROVE  v \in Seq(Nat) /\ Is(sdsmapchars(x, from, to), v)
<1> DEFINE w == v \o <<Nul>>
           none == <<>>
           k == Len(none)
<1>1. /\ Len(s) \in Nat /\ DOMAIN s = 1..Len(s) /\ x.len = Len(s) /\ Sound(x)
      /\ \A i \in 1..Len(s) : x.bytes[i] = s[i] /\ s[i] \in Nat
  BY BytesOf
<1>2. v = [i \in 1..x.len |-> IF x.bytes[i] = from THEN to ELSE x.bytes[i]]
  BY <1>1
<1>3. v \in Seq(Nat) /\ Len(v) = Len(s)
  <2>1. v \in [1..Len(s) -> Nat]
    BY <1>1
  <2> QED BY <1>1, <2>1
<1>4. w \in Seq(Nat) /\ Len(w) = Len(s) + 1
  <2> DEFINE end == <<Nul>>
  <2>1. end \in Seq(Nat) /\ Len(end) = 1
    BY DEF Nul
  <2> HIDE DEF end
  <2>2. v \o end \in Seq(Nat) /\ Len(v \o end) = Len(v) + Len(end)
    BY <1>3, <2>1, ConcatProperties
  <2> QED BY <1>3, <2>1, <2>2 DEF end
<1> HIDE DEF w
<1>5. none \in Seq(Nat) /\ k = 0 /\ none \o w = w
  BY <1>4, ConcatEmptySeq, EmptySeq
<1>6. Starts(x.bytes, none) /\ k = Len(none)
  BY <1>1, StartsAll DEF Sound, Strings
<1> HIDE DEF none, k
<1>7. /\ x \in Strings /\ x.room \in Nat /\ x.alloc \in Nat /\ Holds(x, x.len)
      /\ k \in Nat
  BY <1>1, <1>5 DEF Sound, Strings
<1>8. k + Len(w) <= x.room + 1
  <2>1. x.len <= x.room
    BY <1>1, <1>7 DEF Sound, Holds
  <2> QED BY <1>1, <1>4, <1>5, <1>7, <2>1, SMTT(60)
<1>9. Write(x, k, w) = WithBytes(x, none \o w)
  BY <1>4, <1>5, <1>6, <1>7, <1>8, WriteAt, ZenonT(60)
<1>10. sdsmapchars(x, from, to) = WithBytes(x, w)
  BY <1>2, <1>5, <1>9 DEF sdsmapchars, w
<1>11. Is(WithBytes(x, w), v)
  BY <1>1, <1>3, TerminatedIs DEF w
<1> QED BY <1>3, <1>10, <1>11

LEMMA ClearIs ==
  ASSUME NEW x, NEW s \in Seq(Nat), Is(x, s)
  PROVE  Is(Ended(x, 0), <<>>)
<1> DEFINE none == <<>>
           k == Len(none)
<1>1. none \in Seq(Nat) /\ k = 0 /\ k \in Nat
  BY EmptySeq
<1>2. Sound(x) /\ x \in Strings /\ x.len \in Nat /\ Holds(x, x.len) /\ x.room \in Nat /\ x.alloc \in Nat
  BY DEF Is, Sound, Strings
<1>3. Starts(x.bytes, none)
  BY <1>2, StartsAll DEF Strings
<1>4. Holds(x, k)
  BY <1>1, <1>2, SdsAssumption DEF Holds
<1> HIDE DEF none
<1>5. Is(Ended(x, k), none)
  BY <1>1, <1>2, <1>3, <1>4, EndedIs
<1> QED BY <1>1, <1>5 DEF none

LEMMA RemoveFreeSpaceIs ==
  ASSUME NEW x, NEW s \in Seq(Nat), Is(x, s)
  PROVE  Is(sdsRemoveFreeSpace(x), s)
<1> DEFINE n == x.len
           kind == sdsReqType(n)
           y == [x EXCEPT !.kind = kind, !.len = Hold(kind, @), !.room = n]
           z == sdssetalloc(y, n)
<1>1. x \in Strings /\ n \in Nat /\ x.over = FALSE
  BY DEF Is, Sound, Strings
<1>2. kind \in {5, 8, 16} /\ (kind = 5 => n < Width5) /\ (kind = 8 => n < Width8)
  BY <1>1, SdsAssumption DEF sdsReqType
<1> HIDE DEF kind
<1>3. Hold(kind, n) = n
  BY <1>1, <1>2, HoldSmall
<1>4. /\ y \in Strings /\ y.kind = kind /\ y.len = n /\ y.room = n /\ y.bytes = x.bytes
      /\ y.over = FALSE
  BY <1>1, <1>2, <1>3 DEF Strings
<1>5. sdsRemoveFreeSpace(x) = z
  BY DEF sdsRemoveFreeSpace, Moved, kind
<1> HIDE DEF y
<1>6. /\ z \in Strings /\ z.kind = kind /\ z.len = n /\ z.room = n /\ z.bytes = x.bytes
      /\ z.over = FALSE /\ (kind # 5 => z.alloc = n)
  BY <1>1, <1>2, <1>3, <1>4 DEF sdssetalloc, Strings
<1> HIDE DEF z
<1>7. Sound(z)
  BY <1>1, <1>2, <1>6 DEF Sound, Holds
<1> QED BY <1>5, <1>6, <1>7 DEF Is

LEMMA ContentIs ==
  ASSUME NEW x, NEW s \in Seq(Nat), Is(x, s)
  PROVE  Content(x) = s
<1> QED BY IsOpen DEF Open, Starts, Content

-----------------------------------------------------------------------------
LEMMA StringInitHolds == StringInit => StringInv
<1> SUFFICES ASSUME StringInit PROVE StringInv
  OBVIOUS
<1>1. meant \in Seq(Nat) /\ string = sdsnewlen(meant)
  BY SdsAssumption DEF StringInit
<1> QED BY <1>1, NewIs DEF StringInv

LEMMA StringNextHolds == StringInv /\ [StringNext]_stringVars => StringInv'
<1> SUFFICES ASSUME StringInv, [StringNext]_stringVars PROVE StringInv'
  OBVIOUS
<1>1. meant \in Seq(Nat) /\ Is(string, meant) /\ Open(string, meant)
  BY IsOpen DEF StringInv
<1>2. ASSUME NEW u \in Seq(Nat), Is(string', u), meant' = u PROVE StringInv'
  BY <1>2 DEF StringInv
<1>3. Texts \subseteq Seq(Nat) /\ Indexes \subseteq Int /\ Trimmed \subseteq Nat
  BY SdsAssumption
<1>4. Len(meant) \in Nat /\ DOMAIN meant = 1..Len(meant)
  BY <1>1, LenProperties
<1>5. CASE Cat
  <2>1. PICK s \in Texts : string' = sdscatlen(string, s) /\ meant' = meant \o s
    BY <1>5 DEF Cat
  <2>2. s \in Seq(Nat)
    BY <1>3
  <2>3. meant \o s \in Seq(Nat) /\ Is(sdscatlen(string, s), meant \o s)
    BY <1>1, <2>2, CatLenIs
  <2> QED BY <1>2, <2>1, <2>3
<1>6. CASE Copy
  <2>1. PICK s \in Texts : string' = sdscpylen(string, s) /\ meant' = s
    BY <1>6 DEF Copy
  <2>2. s \in Seq(Nat)
    BY <1>3
  <2>3. Is(sdscpylen(string, s), s)
    BY <1>1, <2>2, CpyLenIs
  <2> QED BY <1>2, <2>1, <2>2, <2>3
<1>7. CASE Grow
  <2>1. PICK n \in 0..MaxLen :
          string' = sdsgrowzero(string, n) /\ meant' = meant \o Zeros(n - Len(meant))
    BY <1>7 DEF Grow, Zeros
  <2>2. n \in Nat
    OBVIOUS
  <2>3. /\ meant \o Zeros(n - Len(meant)) \in Seq(Nat)
        /\ Is(sdsgrowzero(string, n), meant \o Zeros(n - Len(meant)))
    BY <1>1, <2>2, GrowZeroIs
  <2> QED BY <1>2, <2>1, <2>3
<1>8. CASE CatFormat
  <2>1. PICK s \in Texts, u \in Texts :
          string' = sdscatfmt(string, s, 1, u) /\ meant' = ((meant \o s) \o <<1>>) \o u
    BY <1>8 DEF CatFormat
  <2>2. s \in Seq(Nat) /\ u \in Seq(Nat)
    BY <1>3
  <2> DEFINE one == 1
  <2>3. one \in Nat
    OBVIOUS
  <2> HIDE DEF one
  <2>4. /\ ((meant \o s) \o <<one>>) \o u \in Seq(Nat)
        /\ Is(sdscatfmt(string, s, one, u), ((meant \o s) \o <<one>>) \o u)
    BY <1>1, <2>2, <2>3, CatFmtIs
  <2> QED BY <1>2, <2>1, <2>4 DEF one
<1>9. CASE ReadBytes
  <2>1. PICK s \in Texts, more \in 0..2 :
          /\ Len(s) + more > 0
          /\ string' = ReadInto(string, Len(s) + more, s) /\ meant' = meant \o s
    BY <1>9 DEF ReadBytes
  <2> DEFINE n == Len(s) + more
  <2>2. s \in Seq(Nat) /\ n \in Nat /\ n > 0 /\ Len(s) <= n
    <3>1. s \in Seq(Nat)
      BY <1>3
    <3>2. Len(s) \in Nat
      BY <3>1, LenProperties
    <3> QED BY <2>1, <3>1, <3>2
  <2> HIDE DEF n
  <2>3. meant \o s \in Seq(Nat) /\ Is(ReadInto(string, n, s), meant \o s)
    BY <1>1, <2>2, ReadIntoIs
  <2> QED BY <1>2, <2>1, <2>3 DEF n
<1>10. CASE RightTrim
  <2>1. PICK k \in 1..Len(meant) :
          string' = sdsIncrLen(string, -k) /\ meant' = SubSeq(meant, 1, Len(meant) - k)
    BY <1>10 DEF RightTrim
  <2>2. /\ SubSeq(meant, 1, Len(meant) - k) \in Seq(Nat)
        /\ Is(sdsIncrLen(string, -k), SubSeq(meant, 1, Len(meant) - k))
    BY <1>1, IncrLenIs
  <2> QED BY <1>2, <2>1, <2>2
<1>11. CASE Trim
  <2>1. string' = sdstrim(string) /\ meant' = Span(Kept(meant))
    BY <1>11 DEF Trim, Kept
  <2> DEFINE part == SubSeq(meant, Min(Kept(meant)), Max(Kept(meant)))
  <2>2. IF Kept(meant) = {} THEN Is(sdstrim(string), <<>>)
        ELSE Is(sdstrim(string), part) /\ part \in Seq(Nat)
    BY <1>1, TrimIs
  <2>3. Span(Kept(meant)) = IF Kept(meant) = {} THEN <<>> ELSE part
    BY DEF Span
  <2> HIDE DEF part
  <2> QED BY <1>2, <2>1, <2>2, <2>3, EmptySeq
<1>12. CASE CutOut
  <2>1. PICK start \in Indexes, end \in Indexes :
          string' = sdsrange(string, start, end) /\ meant' = Span(Ranged(meant, start, end))
    BY <1>12 DEF CutOut, Ranged, Position
  <2> DEFINE kept == Ranged(meant, start, end)
             part == SubSeq(meant, Min(kept), Max(kept))
  <2>2. start \in Int /\ end \in Int
    BY <1>3
  <2>3. IF kept = {} THEN Is(sdsrange(string, start, end), <<>>)
        ELSE Is(sdsrange(string, start, end), part) /\ part \in Seq(Nat)
    <3> HIDE DEF kept
    <3>1. kept = Ranged(meant, start, end)
      BY DEF kept
    <3> QED BY <1>1, <2>2, <3>1, RangeIs
  <2>4. Span(kept) = IF kept = {} THEN <<>> ELSE part
    BY DEF Span
  <2>5. meant' = Span(kept)
    BY <2>1
  <2> HIDE DEF part, kept
  <2> QED BY <1>2, <2>1, <2>3, <2>4, <2>5, EmptySeq
<1>13. CASE UpdateLen
  <2> DEFINE m == Min(Zeroes(meant))
  <2>1. string' = sdsupdatelen(string) /\ meant' = SubSeq(meant, 1, m)
    BY <1>13 DEF UpdateLen, Zeroes
  <2>2. SubSeq(meant, 1, m) \in Seq(Nat) /\ Is(sdsupdatelen(string), SubSeq(meant, 1, m))
    BY <1>1, UpdateLenIs
  <2> QED BY <1>2, <2>1, <2>2
<1>14. CASE MapChars
  <2>1. PICK from \in Trimmed, to \in Trimmed :
          /\ string' = sdsmapchars(string, from, to)
          /\ meant' = [i \in DOMAIN meant |-> IF meant[i] = from THEN to ELSE meant[i]]
    BY <1>14 DEF MapChars
  <2>2. from \in Nat /\ to \in Nat
    BY <1>3
  <2>3. meant' \in Seq(Nat) /\ Is(sdsmapchars(string, from, to), meant')
    BY <1>1, <2>1, <2>2, MapCharsIs
  <2> QED BY <1>2, <2>1, <2>3
<1>15. CASE Clear
  <2>1. Is(string', <<>>) /\ meant' = <<>> /\ <<>> \in Seq(Nat)
    BY <1>1, <1>15, ClearIs, EmptySeq DEF Clear
  <2> QED BY <1>2, <2>1
<1>16. CASE RemoveFreeSpace
  BY <1>1, <1>2, <1>16, RemoveFreeSpaceIs DEF RemoveFreeSpace
<1>17. CASE Dup
  BY <1>1, <1>2, <1>17, ContentIs, NewIs DEF Dup
<1>18. CASE UNCHANGED stringVars
  BY <1>1, <1>2, <1>18 DEF stringVars
<1> QED BY <1>5, <1>6, <1>7, <1>8, <1>9, <1>10, <1>11, <1>12, <1>13, <1>14, <1>15, <1>16,
           <1>17, <1>18 DEF StringNext

LEMMA InvIsStringRight == StringInv => StringRight
<1> SUFFICES ASSUME StringInv PROVE StringRight
  OBVIOUS
<1>1. meant \in Seq(Nat) /\ Is(string, meant)
  BY DEF StringInv
<1>2. string.len = Len(meant) /\ Content(string) = meant /\ string.bytes[string.len + 1] = Nul
  BY <1>1, ContentIs, BytesOf
<1>3. /\ string \in Strings /\ ~string.over /\ Holds(string, string.len)
      /\ string.kind # 5 => string.alloc <= string.room
  BY <1>1 DEF Is, Sound
<1>4. string.len <= sdsalloc(string) /\ sdsalloc(string) <= string.room
  BY <1>3 DEF sdsalloc, Holds, Strings
<1> QED BY <1>2, <1>3, <1>4 DEF StringRight

\* Whatever is appended to a string of hiredis, copied into it, read into it, cut off it or
\* mapped in it, whatever the kinds can hold and however much is allocated ahead: its header
\* says its length and how much room there is, its terminator is where it ends, nothing is
\* written beyond its memory and no assertion of sdsIncrLen fails (sds.c:87-738).
THEOREM StringIsRight == StringSpec => []StringRight
<1>1. StringSpec => []StringInv
  BY StringInitHolds, StringNextHolds, PTL DEF StringSpec
<1> QED BY <1>1, InvIsStringRight, PTL

-----------------------------------------------------------------------------
(* The hash table: chains                                                  *)

Entry == [key : DictKeys, val : Vals]
Chain == Seq(Entry)
Members(x) == {x[j] : j \in 1..Len(x)}

\* A chain of slot i of n: its keys belong there, each is in it once.
Good(x, i, n) ==
  /\ \A j \in 1..Len(x) : Slot(x[j].key, n) = i
  /\ \A j, k \in 1..Len(x) : x[j].key = x[k].key => j = k

LEMMA SlotIn ==
  ASSUME NEW key \in DictKeys, NEW n \in Nat \ {0}
  PROVE  Slot(key, n) \in 1..n
<1>1. Hash[key] \in Nat
  BY DictAssumption
<1> DEFINE h == Hash[key]
<1> HIDE DEF h
<1>2. h \in Nat => h % n \in 0..(n - 1)
  BY SMT
<1>3. (h % n) + 1 \in 1..n
  BY <1>1, <1>2 DEF h
<1> QED BY <1>3 DEF Slot, h

LEMMA ChainIs ==
  ASSUME NEW x \in Chain
  PROVE  Len(x) \in Nat /\ DOMAIN x = 1..Len(x) /\ \A j \in 1..Len(x) : x[j] \in Entry
  BY LenProperties, ElementOfSeq DEF Chain

LEMMA PlaceIs ==
  ASSUME NEW x \in Chain, NEW i, NEW n, Good(x, i, n), NEW key
  PROVE  /\ Place(x, key) \in 0..Len(x)
         /\ \A j \in 1..Len(x) : Place(x, key) = j <=> x[j].key = key
         /\ Place(x, key) = 0 <=> \A j \in 1..Len(x) : x[j].key # key
<1>1. Len(x) \in Nat /\ DOMAIN x = 1..Len(x)
  BY ChainIs
<1>2. CASE \E j \in 1..Len(x) : x[j].key = key
  <2>1. PICK j \in 1..Len(x) : x[j].key = key
    BY <1>2
  <2>2. \A k \in 1..Len(x) : x[k].key = key => k = j
    BY <2>1 DEF Good
  <2>3. \A k \in 1..(j - 1) : x[k].key # key
    <3> SUFFICES ASSUME NEW k \in 1..(j - 1) PROVE x[k].key # key
      OBVIOUS
    <3>1. k \in 1..Len(x) /\ k # j
      BY <1>1
    <3> QED BY <2>2, <3>1
  <2>4. Place(x, key) = j
    BY <1>1, <2>1, <2>2, <2>3 DEF Place
  <2>5. j \in 0..Len(x) /\ j # 0
    BY <1>1
  <2> QED BY <2>1, <2>2, <2>4, <2>5
<1>3. CASE ~\E j \in 1..Len(x) : x[j].key = key
  <2>1. Place(x, key) = 0
    BY <1>1, <1>3 DEF Place
  <2>2. 0 \in 0..Len(x) /\ 0 \notin 1..Len(x)
    BY <1>1
  <2> QED BY <1>3, <2>1, <2>2
<1> QED BY <1>2, <1>3

LEMMA ConsChain ==
  ASSUME NEW x \in Chain, NEW i, NEW n, Good(x, i, n), NEW e \in Entry, Slot(e.key, n) = i,
         \A j \in 1..Len(x) : x[j].key # e.key
  PROVE  /\ <<e>> \o x \in Chain /\ Good(<<e>> \o x, i, n)
         /\ Members(<<e>> \o x) = Members(x) \cup {e}
<1> DEFINE one == <<e>>
           d == one \o x
<1>1. one \in Chain /\ Len(one) = 1 /\ one[1] = e
  BY DEF Chain
<1>2. Len(x) \in Nat
  BY ChainIs
<1> HIDE DEF one
<1>3. /\ d \in Chain /\ Len(d) = Len(one) + Len(x)
      /\ \A j \in 1..(Len(one) + Len(x)) :
           d[j] = IF j <= Len(one) THEN one[j] ELSE x[j - Len(one)]
  BY <1>1, ConcatProperties DEF Chain
<1> HIDE DEF d
<1>4. Len(d) = Len(x) + 1 /\ d[1] = e
  BY <1>1, <1>2, <1>3
<1>5. \A j \in 1..Len(d) : j = 1 \/ (j - 1 \in 1..Len(x) /\ d[j] = x[j - 1])
  <2> SUFFICES ASSUME NEW j \in 1..Len(d), j # 1 PROVE j - 1 \in 1..Len(x) /\ d[j] = x[j - 1]
    OBVIOUS
  <2>1. j \in 1..(Len(one) + Len(x)) /\ ~(j <= Len(one)) /\ j - 1 \in 1..Len(x)
    BY <1>1, <1>2, <1>4
  <2> QED BY <1>1, <1>3, <2>1
<1>6. \A j \in 1..Len(x) : j + 1 \in 1..Len(d) /\ d[j + 1] = x[j]
  <2> SUFFICES ASSUME NEW j \in 1..Len(x) PROVE j + 1 \in 1..Len(d) /\ d[j + 1] = x[j]
    OBVIOUS
  <2>1. j + 1 \in 1..Len(d) /\ j + 1 # 1 /\ (j + 1) - 1 = j
    BY <1>2, <1>4
  <2> QED BY <1>5, <2>1
<1>7. Good(d, i, n)
  <2>1. \A j \in 1..Len(d) : Slot(d[j].key, n) = i
    BY <1>4, <1>5 DEF Good
  <2>2. ASSUME NEW j \in 1..Len(d), NEW k \in 1..Len(d), d[j].key = d[k].key PROVE j = k
    <3>1. CASE j = 1 /\ k = 1
      BY <3>1
    <3>2. CASE j = 1 /\ k # 1
      BY <1>4, <1>5, <2>2, <3>2
    <3>3. CASE j # 1 /\ k = 1
      BY <1>4, <1>5, <2>2, <3>3
    <3>4. CASE j # 1 /\ k # 1
      <4>1. j - 1 \in 1..Len(x) /\ k - 1 \in 1..Len(x) /\ x[j - 1].key = x[k - 1].key
        BY <1>5, <2>2, <3>4
      <4>2. j - 1 = k - 1
        BY <4>1 DEF Good
      <4> QED BY <1>2, <1>4, <4>2
    <3> QED BY <3>1, <3>2, <3>3, <3>4
  <2> QED BY <2>1, <2>2 DEF Good
<1>8. Members(d) = Members(x) \cup {e}
  <2>1. \A j \in 1..Len(d) : d[j] \in Members(x) \cup {e}
    BY <1>4, <1>5 DEF Members
  <2>2. e \in Members(d)
    <3>1. 1 \in 1..Len(d)
      BY <1>2, <1>4
    <3> QED BY <1>4, <3>1 DEF Members
  <2>3. \A j \in 1..Len(x) : x[j] \in Members(d)
    BY <1>6 DEF Members
  <2> QED BY <2>1, <2>2, <2>3 DEF Members
<1> QED BY <1>3, <1>7, <1>8 DEF d, one

\* d is x without what is at i.
Without(d, x, i) ==
  /\ d \in Chain /\ Len(d) = Len(x) - 1
  /\ \A j \in 1..Len(d) : d[j] = IF j < i THEN x[j] ELSE x[j + 1]

LEMMA RemoveAtIs ==
  ASSUME NEW x \in Chain, NEW i \in 1..Len(x)
  PROVE  Without(RemoveAt(x, i), x, i)
<1> DEFINE n == Len(x)
           a == SubSeq(x, 1, i - 1)
           b == SubSeq(x, i + 1, n)
           d == RemoveAt(x, i)
<1>1. n \in Nat /\ i \in Nat /\ i >= 1 /\ i <= n /\ \A j \in 1..n : x[j] \in Entry
  BY ChainIs
<1>2. a \in Chain /\ Len(a) = i - 1 /\ \A j \in 1..(i - 1) : a[j] = x[j]
  <2> DEFINE one == 1
             k == i - 1
  <2>1. one \in Int /\ k \in Int /\ k = i - 1 /\ \A j \in one..k : x[j] \in Entry
    BY <1>1
  <2>2. one = 1 /\ k \in Nat
    BY <1>1
  <2> HIDE DEF one, k
  <2>3. /\ SubSeq(x, one, k) \in Seq(Entry)
        /\ Len(SubSeq(x, one, k)) = IF one <= k THEN k - one + 1 ELSE 0
        /\ \A j \in 1..(k - one + 1) : SubSeq(x, one, k)[j] = x[one + j - 1]
    BY <2>1, SubSeqProperties
  <2>4. \A j \in 1..k : 1 + j - 1 = j /\ j \in 1..(k - one + 1)
    BY <2>2
  <2>5. (IF one <= k THEN k - one + 1 ELSE 0) = k
    BY <2>2
  <2> QED BY <2>2, <2>3, <2>4, <2>5 DEF Chain, k
<1>3. b \in Chain /\ Len(b) = n - i /\ \A j \in 1..(n - i) : b[j] = x[i + j]
  <2> DEFINE m == i + 1
  <2>1. m \in Int /\ n \in Int /\ \A j \in m..n : x[j] \in Entry
    BY <1>1
  <2>2. m = i + 1
    OBVIOUS
  <2> HIDE DEF m, n
  <2>3. /\ SubSeq(x, m, n) \in Seq(Entry)
        /\ Len(SubSeq(x, m, n)) = IF m <= n THEN n - m + 1 ELSE 0
        /\ \A j \in 1..(n - m + 1) : SubSeq(x, m, n)[j] = x[m + j - 1]
    BY <2>1, SubSeqProperties, SMTT(60)
  <2>4. \A j \in 1..(n - i) : m + j - 1 = i + j /\ j \in 1..(n - m + 1)
    BY <1>1, <2>2
  <2>5. (IF m <= n THEN n - m + 1 ELSE 0) = n - i
    BY <1>1, <2>2
  <2> QED BY <2>3, <2>4, <2>5 DEF Chain, m
<1>4. d = a \o b
  BY DEF RemoveAt
<1> HIDE DEF a, b, d, n
<1>5. /\ d \in Chain /\ Len(d) = Len(a) + Len(b)
      /\ \A j \in 1..(Len(a) + Len(b)) : d[j] = IF j <= Len(a) THEN a[j] ELSE b[j - Len(a)]
  BY <1>2, <1>3, <1>4, ConcatProperties, SMTT(60) DEF Chain
<1>6. Len(d) = n - 1
  BY <1>1, <1>2, <1>3, <1>5
<1>7. ASSUME NEW j \in 1..Len(d) PROVE d[j] = IF j < i THEN x[j] ELSE x[j + 1]
  <2>1. d[j] = IF j <= i - 1 THEN a[j] ELSE b[j - (i - 1)]
    BY <1>2, <1>5
  <2>2. CASE j < i
    BY <1>1, <1>2, <1>6, <2>1, <2>2
  <2>3. CASE ~(j < i)
    <3>1. ~(j <= i - 1) /\ j - (i - 1) \in 1..(n - i) /\ i + (j - (i - 1)) = j + 1
      BY <1>1, <1>6, <2>3
    <3> QED BY <1>3, <2>1, <2>3, <3>1
  <2> QED BY <2>2, <2>3
<1> QED BY <1>5, <1>6, <1>7 DEF Without, n, d

LEMMA TailIs ==
  ASSUME NEW x \in Chain, x # <<>>
  PROVE  Without(Tail(x), x, 1) /\ Head(x) = x[1] /\ 1 \in 1..Len(x)
<1>1. Len(x) \in Nat \ {0}
  BY EmptySeq DEF Chain
<1>2. /\ Tail(x) \in Seq(Entry) /\ Len(Tail(x)) = Len(x) - 1
      /\ \A j \in 1..Len(Tail(x)) : Tail(x)[j] = x[j + 1]
  BY HeadTailProperties DEF Chain
<1>3. \A j \in 1..Len(Tail(x)) : ~(j < 1)
  BY <1>1, <1>2
<1>4. Head(x) = x[1] /\ 1 \in 1..Len(x)
  BY <1>1, SMT DEF Chain
<1> QED BY <1>2, <1>3, <1>4 DEF Without, Chain

\* Where an entry is that stays.
Moves(j, i) == IF j < i THEN j ELSE j - 1

LEMMA RemoveChain ==
  ASSUME NEW x \in Chain, NEW i \in 1..Len(x), NEW d, Without(d, x, i),
         NEW s, NEW n, Good(x, s, n)
  PROVE  /\ d \in Chain /\ Good(d, s, n) /\ Members(d) = Members(x) \ {x[i]}
         /\ \A j \in 1..Len(d) : d[j].key # x[i].key
         /\ \A j \in 1..Len(x) \ {i} : Moves(j, i) \in 1..Len(d) /\ d[Moves(j, i)] = x[j]
         /\ \A j \in 1..Len(d) :
              \E k \in 1..Len(x) \ {i} : j = Moves(k, i) /\ d[j] = x[k]
<1>1. /\ Len(x) \in Nat /\ i \in Nat /\ 1 <= i /\ i <= Len(x) /\ Len(d) = Len(x) - 1 /\ d \in Chain
      /\ \A j \in 1..Len(d) : d[j] = IF j < i THEN x[j] ELSE x[j + 1]
  BY ChainIs DEF Without
<1>2. ASSUME NEW j \in 1..Len(x) \ {i}
      PROVE  Moves(j, i) \in 1..Len(d) /\ d[Moves(j, i)] = x[j]
  <2>1. CASE j < i
    BY <1>1, <2>1 DEF Moves
  <2>2. CASE ~(j < i)
    <3>1. j - 1 \in 1..Len(d) /\ ~(j - 1 < i) /\ (j - 1) + 1 = j
      BY <1>1, <2>2
    <3> QED BY <1>1, <2>2, <3>1 DEF Moves
  <2> QED BY <2>1, <2>2
<1>3. ASSUME NEW j \in 1..Len(d)
      PROVE  \E k \in 1..Len(x) \ {i} : j = Moves(k, i) /\ d[j] = x[k]
  <2>1. CASE j < i
    <3>1. j \in 1..Len(x) \ {i} /\ j = Moves(j, i) /\ d[j] = x[j]
      BY <1>1, <2>1 DEF Moves
    <3> QED BY <3>1
  <2>2. CASE ~(j < i)
    <3>1. j + 1 \in 1..Len(x) \ {i} /\ j = Moves(j + 1, i) /\ d[j] = x[j + 1]
      BY <1>1, <2>2 DEF Moves
    <3> QED BY <3>1
  <2> QED BY <2>1, <2>2
<1>4. Good(d, s, n)
  <2>1. \A j \in 1..Len(d) : Slot(d[j].key, n) = s
    BY <1>3 DEF Good
  <2>2. ASSUME NEW j \in 1..Len(d), NEW k \in 1..Len(d), d[j].key = d[k].key PROVE j = k
    <3>1. PICK jj \in 1..Len(x) \ {i} : j = Moves(jj, i) /\ d[j] = x[jj]
      BY <1>3
    <3>2. PICK kk \in 1..Len(x) \ {i} : k = Moves(kk, i) /\ d[k] = x[kk]
      BY <1>3
    <3>3. jj = kk
      BY <2>2, <3>1, <3>2 DEF Good
    <3> QED BY <3>1, <3>2, <3>3
  <2> QED BY <2>1, <2>2 DEF Good
<1>5. \A j \in 1..Len(d) : d[j].key # x[i].key
  BY <1>3 DEF Good
<1>6. Members(d) = Members(x) \ {x[i]}
  <2>1. \A j \in 1..Len(d) : d[j] \in Members(x) \ {x[i]}
    BY <1>3, <1>5 DEF Members
  <2>2. \A j \in 1..Len(x) : x[j] # x[i] => x[j] \in Members(d)
    <3> SUFFICES ASSUME NEW j \in 1..Len(x), x[j] # x[i] PROVE x[j] \in Members(d)
      OBVIOUS
    <3>1. j \in 1..Len(x) \ {i}
      OBVIOUS
    <3>2. Moves(j, i) \in 1..Len(d) /\ d[Moves(j, i)] = x[j]
      BY <1>2, <3>1
    <3> QED BY <3>2 DEF Members
  <2> QED BY <2>1, <2>2 DEF Members
<1> QED BY <1>1, <1>2, <1>3, <1>4, <1>5, <1>6

LEMMA ReplaceChain ==
  ASSUME NEW x \in Chain, NEW i \in 1..Len(x), NEW s, NEW n, Good(x, s, n),
         NEW e \in Entry, e.key = x[i].key, NEW d, d = [x EXCEPT ![i] = e]
  PROVE  /\ d \in Chain /\ Good(d, s, n)
         /\ Members(d) = (Members(x) \ {x[i]}) \cup {e}
         /\ \A f \in Members(x) \ {x[i]} : f.key # e.key
<1>1. Len(x) \in Nat /\ DOMAIN x = 1..Len(x) /\ \A j \in 1..Len(x) : x[j] \in Entry
  BY ChainIs
<1>2. d \in Chain /\ Len(d) = Len(x) /\ \A j \in 1..Len(x) : d[j] = IF j = i THEN e ELSE x[j]
  BY <1>1, ExceptSeq DEF Chain
<1>3. \A j \in 1..Len(x) : d[j].key = x[j].key
  BY <1>2
<1>4. Good(d, s, n)
  BY <1>2, <1>3 DEF Good
<1>5. \A f \in Members(x) \ {x[i]} : f.key # e.key
  BY DEF Members, Good
<1>6. Members(d) = (Members(x) \ {x[i]}) \cup {e}
  <2>1. \A j \in 1..Len(x) : j # i => x[j] # x[i]
    BY DEF Good
  <2> QED BY <1>2, <2>1 DEF Members
<1> QED BY <1>2, <1>4, <1>5, <1>6

-----------------------------------------------------------------------------
(* The hash table: slots                                                   *)

Table == Seq(Chain)
Placed(r) == \A i \in 1..Len(r) : Good(r[i], i, Len(r))
Sorted(r) == r \in Table /\ Placed(r)

\* An entry is in a table, where it is looked for.
Has(r, e) == r # <<>> /\ e \in Members(r[Slot(e.key, Len(r))])

LEMMA TableIs ==
  ASSUME NEW r \in Table
  PROVE  /\ Len(r) \in Nat /\ DOMAIN r = 1..Len(r) /\ \A i \in 1..Len(r) : r[i] \in Chain
         /\ r = <<>> <=> Len(r) = 0
         /\ r # <<>> => \A k \in DictKeys : Slot(k, Len(r)) \in 1..Len(r)
<1>1. Len(r) \in Nat /\ DOMAIN r = 1..Len(r) /\ \A i \in 1..Len(r) : r[i] \in Chain
  BY LenProperties, ElementOfSeq DEF Table
<1>2. r = <<>> <=> Len(r) = 0
  BY EmptySeq DEF Table
<1>3. r # <<>> => \A k \in DictKeys : Slot(k, Len(r)) \in 1..Len(r)
  BY <1>1, <1>2, SlotIn
<1> QED BY <1>1, <1>2, <1>3

LEMMA HasWhere ==
  ASSUME NEW r, Sorted(r), NEW e \in Entry
  PROVE  Has(r, e) <=> \E i \in 1..Len(r) : \E j \in 1..Len(r[i]) : r[i][j] = e
<1>1. r \in Table /\ e.key \in DictKeys
  BY DEF Sorted, Entry
<1>2. CASE Has(r, e)
  <2>1. Slot(e.key, Len(r)) \in 1..Len(r)
    BY <1>1, <1>2, TableIs DEF Has
  <2> QED BY <1>2, <2>1 DEF Has, Members
<1>3. ASSUME NEW i \in 1..Len(r), NEW j \in 1..Len(r[i]), r[i][j] = e PROVE Has(r, e)
  <2>1. Slot(e.key, Len(r)) = i
    BY <1>3 DEF Sorted, Placed, Good
  <2>2. r # <<>>
    BY <1>1, TableIs
  <2> QED BY <1>3, <2>1, <2>2 DEF Has, Members
<1> QED BY <1>2, <1>3

LEMMA WhereIs ==
  ASSUME NEW r, Sorted(r), NEW i \in 1..Len(r), NEW j \in 1..Len(r[i])
  PROVE  /\ r[i] \in Chain /\ r[i][j] \in Entry /\ Has(r, r[i][j]) /\ r[i][j].key \in DictKeys
         /\ Slot(r[i][j].key, Len(r)) = i /\ Good(r[i], i, Len(r))
<1>1. r[i] \in Chain /\ r[i][j] \in Entry /\ Good(r[i], i, Len(r))
  BY TableIs, ChainIs DEF Sorted, Placed
<1> QED BY <1>1, HasWhere DEF Entry, Good

LEMMA OneEntry ==
  ASSUME NEW r, Sorted(r), NEW d \in Entry, NEW e \in Entry, Has(r, d), Has(r, e), d.key = e.key
  PROVE  d = e
<1>1. r \in Table /\ d.key \in DictKeys
  BY DEF Sorted, Entry
<1>2. Slot(d.key, Len(r)) \in 1..Len(r)
  BY <1>1, TableIs DEF Has
<1> DEFINE x == r[Slot(d.key, Len(r))]
<1>3. Good(x, Slot(d.key, Len(r)), Len(r))
  BY <1>2 DEF Sorted, Placed
<1>4. d \in Members(x) /\ e \in Members(x)
  BY DEF Has
<1> HIDE DEF x
<1> QED BY <1>3, <1>4 DEF Good, Members

LEMMA KeysAre ==
  ASSUME NEW r, Sorted(r)
  PROVE  /\ \A k : k \in KeysOf(r) <=> \E e \in Entry : Has(r, e) /\ e.key = k
         /\ KeysOf(r) \subseteq DictKeys /\ IsFiniteSet(KeysOf(r))
<1>1. /\ DOMAIN r = 1..Len(r)
      /\ \A i \in 1..Len(r) : DOMAIN r[i] = 1..Len(r[i])
  BY TableIs, ChainIs DEF Sorted
<1>2. \A k : k \in KeysOf(r) <=> \E i \in 1..Len(r) : \E j \in 1..Len(r[i]) : r[i][j].key = k
  BY <1>1 DEF KeysOf
<1>3. \A i \in 1..Len(r) : \A j \in 1..Len(r[i]) : r[i][j] \in Entry
  BY WhereIs
<1>4. \A k : k \in KeysOf(r) <=> \E e \in Entry : Has(r, e) /\ e.key = k
  BY <1>2, <1>3, HasWhere
<1>5. KeysOf(r) \subseteq DictKeys
  BY <1>4 DEF Entry
<1> QED BY <1>4, <1>5, FS_Subset, DictAssumption

\* Chain s of u is x, the others are those of r.
Changed(u, r, s, x) ==
  /\ Sorted(u) /\ Len(u) = Len(r) /\ u # <<>> /\ r # <<>>
  /\ \A i \in 1..Len(r) : u[i] = IF i = s THEN x ELSE r[i]
  /\ \A e \in Entry : Has(u, e) <=> IF Slot(e.key, Len(r)) = s THEN e \in Members(x)
                                    ELSE Has(r, e)

LEMMA ChangeSlot ==
  ASSUME NEW r, Sorted(r), NEW s \in 1..Len(r), NEW x \in Chain, Good(x, s, Len(r)),
         NEW u, u = [r EXCEPT ![s] = x]
  PROVE  Changed(u, r, s, x)
<1>1. r \in Table /\ Placed(r) /\ Len(r) \in Nat /\ DOMAIN r = 1..Len(r)
  BY TableIs DEF Sorted
<1>2. u \in Table /\ Len(u) = Len(r) /\ \A i \in 1..Len(r) : u[i] = IF i = s THEN x ELSE r[i]
  BY <1>1, ExceptSeq DEF Table
<1>3. Placed(u)
  BY <1>1, <1>2 DEF Placed
<1>4. u # <<>> /\ r # <<>>
  BY <1>1, <1>2, TableIs, SMTT(60)
<1>5. \A e \in Entry : Slot(e.key, Len(r)) \in 1..Len(r)
  BY <1>1, <1>4, TableIs, SMTT(60) DEF Entry
<1> QED BY <1>2, <1>3, <1>4, <1>5 DEF Sorted, Has, Changed

\* One entry more, one fewer, or one for another.
Built(u, r) == Sorted(u) /\ Len(u) = Len(r) /\ u # <<>>
OneMore(u, r, e) ==
  /\ Built(u, r) /\ KeysOf(u) = KeysOf(r) \cup {e.key}
  /\ \A d \in Entry : Has(u, d) <=> Has(r, d) \/ d = e
OneFewer(u, r, e) ==
  /\ Built(u, r) /\ e.key \in KeysOf(r) /\ KeysOf(u) = KeysOf(r) \ {e.key}
  /\ \A d \in Entry : Has(u, d) <=> Has(r, d) /\ d # e
OneOther(u, r, e) ==
  /\ Built(u, r) /\ KeysOf(u) = KeysOf(r)
  /\ \A d \in Entry : Has(u, d) <=> (Has(r, d) /\ d.key # e.key) \/ d = e

LEMMA PutIn ==
  ASSUME NEW r, Sorted(r), r # <<>>, NEW e \in Entry, e.key \notin KeysOf(r),
         NEW s, s = Slot(e.key, Len(r)), NEW u, u = [r EXCEPT ![s] = <<e>> \o r[s]]
  PROVE  OneMore(u, r, e)
<1>1. s \in 1..Len(r) /\ r[s] \in Chain /\ Good(r[s], s, Len(r))
  BY TableIs DEF Sorted, Placed, Entry
<1>2. \A j \in 1..Len(r[s]) : r[s][j].key # e.key
  BY <1>1, WhereIs, KeysAre
<1> DEFINE x == <<e>> \o r[s]
<1>3. x \in Chain /\ Good(x, s, Len(r)) /\ Members(x) = Members(r[s]) \cup {e}
  BY <1>1, <1>2, ConsChain, SMTT(60)
<1> HIDE DEF x
<1>4. u = [r EXCEPT ![s] = x]
  BY SMTT(60) DEF x
<1>5. /\ Sorted(u) /\ Len(u) = Len(r) /\ u # <<>>
      /\ \A d \in Entry : Has(u, d) <=> IF Slot(d.key, Len(r)) = s THEN d \in Members(x)
                                        ELSE Has(r, d)
  <2>1. Changed(u, r, s, x)
    BY <1>1, <1>3, <1>4, ChangeSlot
  <2> QED BY <2>1, Zenon DEF Changed
<1>6. \A d \in Entry : Has(u, d) <=> Has(r, d) \/ d = e
  BY <1>3, <1>5, Zenon DEF Has
<1>7. \A k : k \in KeysOf(u) <=> k \in KeysOf(r) \cup {e.key}
  BY <1>5, <1>6, KeysAre, ZenonT(60)
<1>8. KeysOf(u) = KeysOf(r) \cup {e.key}
  BY <1>7
<1> QED BY <1>5, <1>6, <1>8, Zenon DEF OneMore, Built

LEMMA TakeOut ==
  ASSUME NEW r, Sorted(r), NEW i \in 1..Len(r), NEW j \in 1..Len(r[i]),
         NEW x, Without(x, r[i], j), NEW u, u = [r EXCEPT ![i] = x]
  PROVE  OneFewer(u, r, r[i][j])
<1> DEFINE e == r[i][j]
<1>1. r[i] \in Chain /\ e \in Entry /\ Has(r, e) /\ Slot(e.key, Len(r)) = i /\ Good(r[i], i, Len(r))
  BY WhereIs
<1>2. x \in Chain /\ Good(x, i, Len(r)) /\ Members(x) = Members(r[i]) \ {e}
  BY <1>1, RemoveChain
<1>3. /\ Sorted(u) /\ Len(u) = Len(r) /\ u # <<>> /\ r # <<>>
      /\ \A d \in Entry : Has(u, d) <=> IF Slot(d.key, Len(r)) = i THEN d \in Members(x)
                                        ELSE Has(r, d)
  BY <1>2, ChangeSlot DEF Changed
<1> HIDE DEF e
<1>4. \A d \in Entry : Has(u, d) <=> Has(r, d) /\ d # e
  BY <1>1, <1>2, <1>3 DEF Has
<1>5. \A d \in Entry : Has(r, d) /\ d # e => d.key # e.key
  BY <1>1, OneEntry
<1>6. \A k : k \in KeysOf(u) <=> k \in KeysOf(r) \ {e.key}
  BY <1>1, <1>3, <1>4, <1>5, KeysAre, ZenonT(60)
<1>7. e.key \in KeysOf(r)
  BY <1>1, KeysAre
<1>8. KeysOf(u) = KeysOf(r) \ {e.key}
  BY <1>6
<1> QED BY <1>3, <1>4, <1>7, <1>8 DEF e, OneFewer, Built

LEMMA PutOver ==
  ASSUME NEW r, Sorted(r), NEW i \in 1..Len(r), NEW j \in 1..Len(r[i]),
         NEW e \in Entry, e.key = r[i][j].key, NEW u, u = [r EXCEPT ![i][j] = e]
  PROVE  OneOther(u, r, e)
<1> DEFINE x == [r[i] EXCEPT ![j] = e]
           f == r[i][j]
<1>1. r[i] \in Chain /\ f \in Entry /\ Has(r, f) /\ Slot(f.key, Len(r)) = i /\ Good(r[i], i, Len(r))
  BY WhereIs
<1>2. /\ x \in Chain /\ Good(x, i, Len(r)) /\ Members(x) = (Members(r[i]) \ {f}) \cup {e}
      /\ \A d \in Members(r[i]) \ {f} : d.key # e.key
  BY <1>1, ReplaceChain, SMTT(60)
<1>3. u = [r EXCEPT ![i] = x]
  OBVIOUS
<1> HIDE DEF x
<1>4. /\ Sorted(u) /\ Len(u) = Len(r) /\ u # <<>> /\ r # <<>>
      /\ \A d \in Entry : Has(u, d) <=> IF Slot(d.key, Len(r)) = i THEN d \in Members(x)
                                        ELSE Has(r, d)
  <2>1. Changed(u, r, i, x)
    BY <1>2, <1>3, ChangeSlot
  <2> QED BY <2>1 DEF Changed
<1>5. e.key = f.key
  OBVIOUS
<1> HIDE DEF f
<1>6. \A d \in Entry : Has(u, d) <=> (Has(r, d) /\ d.key # e.key) \/ d = e
  BY <1>1, <1>2, <1>4, <1>5 DEF Has
<1>7. \A k : k \in KeysOf(u) <=> k \in KeysOf(r)
  <2>1. \A k : k \in KeysOf(r) => k = f.key \/ \E d \in Entry : Has(r, d) /\ d.key = k /\ d.key # e.key
    BY <1>5, KeysAre
  <2>2. \A k : k \in KeysOf(r) => k \in KeysOf(u)
    BY <1>4, <1>5, <1>6, <2>1, KeysAre
  <2>3. \A k : k \in KeysOf(u) => k \in KeysOf(r)
    <3> SUFFICES ASSUME NEW d \in Entry, Has(u, d) PROVE d.key \in KeysOf(r)
      BY <1>4, KeysAre
    <3>1. CASE d = e
      BY <1>1, <1>5, <3>1, KeysAre
    <3>2. CASE d # e
      BY <1>6, <3>2, KeysAre
    <3> QED BY <3>1, <3>2
  <2> QED BY <2>2, <2>3
<1>8. KeysOf(u) = KeysOf(r)
  BY <1>7
<1> QED BY <1>4, <1>6, <1>8 DEF OneOther, Built

LEMMA EmptyIs ==
  ASSUME NEW n \in Nat
  PROVE  /\ Sorted(Empty(n)) /\ Len(Empty(n)) = n /\ KeysOf(Empty(n)) = {}
         /\ \A e \in Entry : ~Has(Empty(n), e)
<1> DEFINE r == Empty(n)
<1>1. <<>> \in Chain /\ Len(<<>>) = 0
  BY EmptySeq DEF Chain
<1>2. r \in Table /\ Len(r) = n /\ \A i \in 1..n : r[i] = <<>>
  <2>1. r \in [1..n -> Chain]
    BY <1>1 DEF Empty
  <2>2. \A i \in 1..n : r[i] = <<>>
    BY DEF Empty
  <2> HIDE DEF r
  <2> QED BY <2>1, <2>2 DEF Table
<1> HIDE DEF r
<1>3. Sorted(r)
  BY <1>1, <1>2 DEF Sorted, Placed, Good
<1>4. \A e \in Entry : ~Has(r, e)
  BY <1>1, <1>2, <1>3, HasWhere
<1>5. KeysOf(r) = {}
  BY <1>3, <1>4, KeysAre
<1> QED BY <1>2, <1>3, <1>4, <1>5 DEF r

LEMMA NoTableIs == /\ Sorted(<<>>) /\ KeysOf(<<>>) = {} /\ \A e \in Entry : ~Has(<<>>, e)
                   /\ NoTable.table = <<>>
<1>1. <<>> \in Table /\ Len(<<>>) = 0
  BY EmptySeq DEF Table
<1>2. Sorted(<<>>)
  BY <1>1 DEF Sorted, Placed
<1>3. \A e \in Entry : ~Has(<<>>, e)
  BY DEF Has
<1>4. KeysOf(<<>>) = {}
  BY <1>2, <1>3, KeysAre
<1> QED BY <1>2, <1>3, <1>4 DEF NoTable

-----------------------------------------------------------------------------
(* The hash table: what is kept                                            *)

There == DOMAIN content

\* Every key that was added and not deleted is in the table or, with dictExpand under way,
\* in the new one, where it is looked for and with the value it was given last.
StoreInv ==
  /\ Sorted(table) /\ larger \in [table : Table, used : Nat] /\ Placed(larger.table)
  /\ used = Cardinality(KeysOf(table))
  /\ content \in [There -> Vals] /\ There \subseteq DictKeys
  /\ \A e \in Entry :
       Has(table, e) \/ Has(larger.table, e) <=> e.key \in There /\ content[e.key] = e.val
  /\ KeysOf(table) \cap KeysOf(larger.table) = {}
  /\ adding = {} \/ \E e \in Entry : adding = {e}
  /\ adding # {} => Expanding \/ table # <<>>
  /\ Expanding => adding # {} /\ larger.table # <<>> /\ larger.used = Cardinality(There)

LEMMA ThereIs ==
  ASSUME StoreInv
  PROVE  /\ KeysOf(table) \cup KeysOf(larger.table) = There
         /\ IsFiniteSet(There) /\ IsFiniteSet(KeysOf(table)) /\ used \in Nat
         /\ Sorted(larger.table)
<1>1. Sorted(table) /\ Sorted(larger.table)
  BY DEF StoreInv, Sorted
<1>2. ASSUME NEW k \in There PROVE k \in KeysOf(table) \cup KeysOf(larger.table)
  <2> DEFINE e == [key |-> k, val |-> content[k]]
  <2>1. e \in Entry /\ e.key = k /\ content[e.key] = e.val
    BY <1>2 DEF StoreInv, Entry
  <2> HIDE DEF e
  <2>2. Has(table, e) \/ Has(larger.table, e)
    BY <1>2, <2>1 DEF StoreInv
  <2> QED BY <1>1, <2>1, <2>2, KeysAre
<1>3. ASSUME NEW k \in KeysOf(table) \cup KeysOf(larger.table) PROVE k \in There
  <2>1. PICK e \in Entry : e.key = k /\ (Has(table, e) \/ Has(larger.table, e))
    BY <1>1, <1>3, KeysAre
  <2> QED BY <2>1 DEF StoreInv
<1>4. IsFiniteSet(There)
  BY FS_Subset, DictAssumption DEF StoreInv
<1>5. IsFiniteSet(KeysOf(table)) /\ used \in Nat
  BY <1>1, KeysAre, FS_CardinalityType DEF StoreInv
<1> QED BY <1>1, <1>2, <1>3, <1>4, <1>5

LEMMA NoLarger ==
  ASSUME StoreInv, ~Expanding
  PROVE  /\ larger = NoTable /\ KeysOf(table) = There /\ used = Cardinality(There)
         /\ \A e \in Entry : Has(table, e) <=> e.key \in There /\ content[e.key] = e.val
<1>1. larger = NoTable /\ larger.table = <<>>
  BY DEF Expanding, NoTable
<1>2. KeysOf(larger.table) = {} /\ \A e \in Entry : ~Has(larger.table, e)
  BY <1>1, NoTableIs
<1> QED BY <1>1, <1>2, ThereIs DEF StoreInv

LEMMA ReplaceStores ==
  ASSUME StoreInv, NEW k \in DictKeys, NEW v \in Vals, dictReplace(k, v)
  PROVE  StoreInv'
<1> DEFINE e == [key |-> k, val |-> v]
<1>1. e \in Entry /\ adding' = {e} /\ adding = {} /\ UNCHANGED <<table, used, content>>
  BY DEF dictReplace, Entry
<1>2. ~Expanding
  BY <1>1 DEF StoreInv
<1>3. /\ larger = NoTable /\ larger.table = <<>> /\ KeysOf(table) = There /\ used = Cardinality(There)
      /\ \A d \in Entry : ~Has(larger.table, d)
      /\ \A d \in Entry : Has(table, d) <=> d.key \in There /\ content[d.key] = d.val
  BY <1>2, NoLarger, NoTableIs
<1>4. Len(table) \in Nat /\ (table = <<>> <=> Len(table) = 0) /\ used \in Nat
  BY TableIs, ThereIs DEF StoreInv, Sorted
<1> HIDE DEF e
<1>5. ASSUME NEW n \in Nat \ {0}, larger' = [table |-> Empty(n), used |-> used] PROVE StoreInv'
  <2>1. /\ Sorted(Empty(n)) /\ Len(Empty(n)) = n /\ KeysOf(Empty(n)) = {}
        /\ \A d \in Entry : ~Has(Empty(n), d)
    BY EmptyIs
  <2>2. Empty(n) # <<>> /\ Empty(n) \in Table /\ Placed(Empty(n))
    BY <2>1, TableIs DEF Sorted
  <2> DEFINE r == Empty(n)
  <2>3. larger'.table = r /\ larger'.used = used /\ larger' \in [table : Table, used : Nat]
    BY <1>4, <1>5, <2>2
  <2> HIDE DEF r
  <2>4. /\ table' = table /\ used' = used /\ There' = There /\ content' = content
    BY <1>1 DEF There
  <2>5. \A d \in Entry :
          Has(table, d) \/ Has(larger'.table, d) <=> d.key \in There /\ content[d.key] = d.val
    BY <1>3, <2>1, <2>3 DEF r
  <2>6. KeysOf(table) \cap KeysOf(larger'.table) = {} /\ Placed(larger'.table) /\ larger'.table # <<>>
    BY <2>1, <2>2, <2>3 DEF r
  <2> QED BY <1>1, <1>3, <2>3, <2>4, <2>5, <2>6 DEF StoreInv, Expanding
<1>6. CASE Len(table) = 0
  <2>1. larger' = [table |-> Empty(DICT_HT_INITIAL_SIZE), used |-> used]
    BY <1>6 DEF dictReplace, size
  <2> QED BY <1>5, <2>1, DictAssumption
<1>7. CASE Len(table) # 0 /\ used = Len(table)
  <2>1. larger' = [table |-> Empty(2 * Len(table)), used |-> used]
    BY <1>7 DEF dictReplace, size
  <2>2. 2 * Len(table) \in Nat \ {0}
    BY <1>4, <1>7
  <2> QED BY <1>5, <2>1, <2>2
<1>8. CASE Len(table) # 0 /\ used # Len(table)
  <2>1. larger' = larger /\ table # <<>>
    BY <1>4, <1>8 DEF dictReplace, size
  <2> QED BY <1>1, <1>2, <2>1 DEF StoreInv, Expanding, There
<1> QED BY <1>6, <1>7, <1>8

LEMMA MoveStores ==
  ASSUME StoreInv, MoveEntry
  PROVE  StoreInv'
<1> DEFINE i == Min(Filled)
           e == Head(table[i])
           l == larger.table
           s == Slot(e.key, Len(l))
<1>1. Sorted(table) /\ Sorted(l) /\ Len(table) \in Nat /\ table \in Table
  BY ThereIs, TableIs DEF StoreInv, Sorted
<1>2. i \in 1..Len(table) /\ table[i] # <<>>
  <2>1. Filled \subseteq Nat /\ Filled # {}
    BY <1>1 DEF Filled, size, MoveEntry
  <2>2. i \in Filled
    BY <2>1, MinIs
  <2> QED BY <2>2 DEF Filled, size
<1> HIDE DEF i
<1>3. table[i] \in Chain
  BY <1>1, <1>2, TableIs
<1>4. Without(Tail(table[i]), table[i], 1) /\ e = table[i][1] /\ 1 \in 1..Len(table[i])
  BY <1>2, <1>3, TailIs
<1>5. e \in Entry /\ Has(table, e)
  BY <1>1, <1>2, <1>4, WhereIs
<1>6. /\ table' = [table EXCEPT ![i] = Tail(table[i])]
      /\ larger' = [larger EXCEPT !.table = Move(l, e)]
      /\ used' = used - 1 /\ UNCHANGED <<adding, content>> /\ Expanding
  BY DEF MoveEntry, i
<1> HIDE DEF e, l
<1>7. OneFewer(table', table, e)
  <2> DEFINE one == 1
             x == Tail(table[i])
  <2>1. one \in 1..Len(table[i]) /\ Without(x, table[i], one) /\ e = table[i][one]
    BY <1>4
  <2>2. table' = [table EXCEPT ![i] = x]
    BY <1>6
  <2> HIDE DEF one, x
  <2>3. OneFewer(table', table, table[i][one])
    BY <1>1, <1>2, <2>1, <2>2, TakeOut
  <2> QED BY <2>1, <2>3
<1>8. e.key \notin KeysOf(l) /\ l # <<>>
  BY <1>6, <1>7 DEF StoreInv, OneFewer, l
<1> DEFINE u == Move(l, e)
<1>9. OneMore(u, l, e)
  <2>1. u = [l EXCEPT ![s] = <<e>> \o l[s]]
    BY DEF Move
  <2> HIDE DEF u, s
  <2>2. s = Slot(e.key, Len(l))
    BY DEF s
  <2> QED BY <1>1, <1>5, <1>8, <2>1, <2>2, PutIn
<1> HIDE DEF u
<1>10. larger' \in [table : Table, used : Nat] /\ larger'.table = u /\ larger'.used = larger.used
  BY <1>6, <1>9 DEF OneMore, Built, StoreInv, Sorted, u
<1>11. used' = Cardinality(KeysOf(table'))
  <2>1. IsFiniteSet(KeysOf(table)) /\ used \in Nat
    BY ThereIs
  <2>2. Cardinality(KeysOf(table')) = Cardinality(KeysOf(table)) - 1
    BY <1>7, <2>1, FS_RemoveElement DEF OneFewer
  <2> QED BY <1>6, <2>2 DEF StoreInv
<1>12. \A d \in Entry :
         Has(table', d) \/ Has(u, d) <=> d.key \in There /\ content[d.key] = d.val
  <2>1. \A d \in Entry : Has(table', d) \/ Has(u, d) <=> Has(table, d) \/ Has(l, d)
    BY <1>5, <1>7, <1>9 DEF OneMore, OneFewer
  <2> QED BY <2>1 DEF StoreInv, l
<1>13. KeysOf(table') \cap KeysOf(u) = {}
  BY <1>7, <1>9 DEF OneMore, OneFewer, StoreInv, l
<1>14. There' = There /\ content' = content /\ adding' = adding
  BY <1>6 DEF There
<1>15. Expanding' => adding' # {} /\ larger'.table # <<>> /\ larger'.used = Cardinality(There')
  BY <1>6, <1>9, <1>10, <1>14 DEF OneMore, Built, StoreInv
<1>16. adding' # {} => Expanding'
  <2>1. NoTable.table = <<>>
    BY DEF NoTable
  <2>2. larger'.table # <<>>
    BY <1>9, <1>10 DEF OneMore, Built
  <2>3. larger' # NoTable
    BY <2>1, <2>2
  <2> QED BY <2>3 DEF Expanding
<1> QED BY <1>7, <1>9, <1>10, <1>11, <1>12, <1>13, <1>14, <1>15, <1>16
     DEF StoreInv, Sorted, OneMore, OneFewer, Built

LEMMA ExpandStores ==
  ASSUME StoreInv, dictExpand
  PROVE  StoreInv'
<1> DEFINE l == larger.table
<1>1. /\ table' = l /\ used' = larger.used /\ larger' = NoTable /\ Expanding
      /\ UNCHANGED <<adding, content>> /\ ~(used > 0 /\ Filled # {})
  BY DEF dictExpand
<1>2. Sorted(table) /\ Sorted(l) /\ table \in Table /\ l # <<>> /\ adding # {} /\ used \in Nat
      /\ IsFiniteSet(KeysOf(table))
  BY <1>1, ThereIs DEF StoreInv, Sorted
<1>3. KeysOf(table) = {} /\ \A e \in Entry : ~Has(table, e)
  <2>1. CASE used = 0
    <3>1. KeysOf(table) = {}
      BY <1>2, <2>1, FS_EmptySet DEF StoreInv
    <3> QED BY <1>2, <3>1, KeysAre
  <2>2. CASE Filled = {}
    <3>1. \A i \in 1..Len(table) : table[i] = <<>>
      BY <2>2 DEF Filled, size
    <3>2. \A e \in Entry : ~Has(table, e)
      BY <1>2, <3>1, HasWhere, EmptySeq
    <3> QED BY <1>2, <3>2, KeysAre
  <2> QED BY <1>1, <1>2, <2>1, <2>2
<1>4. KeysOf(l) = There /\ larger.used = Cardinality(There)
  BY <1>1, <1>3, ThereIs DEF StoreInv
<1> DEFINE none == <<>>
<1>5. /\ larger'.table = none /\ larger' \in [table : Table, used : Nat] /\ Placed(none)
      /\ KeysOf(none) = {} /\ \A e \in Entry : ~Has(none, e)
  BY <1>1, NoTableIs DEF NoTable, Sorted
<1> HIDE DEF l, none
<1>6. /\ There' = There /\ content' = content /\ adding' = adding /\ ~Expanding'
  BY <1>1 DEF There, Expanding
<1>7. \A e \in Entry : Has(l, e) \/ Has(none, e) <=> e.key \in There /\ content[e.key] = e.val
  BY <1>3, <1>5 DEF StoreInv, l
<1>8. /\ content \in [There -> Vals] /\ There \subseteq DictKeys
      /\ adding = {} \/ \E e \in Entry : adding = {e}
  BY DEF StoreInv
<1>9. KeysOf(l) \cap KeysOf(none) = {} /\ used' = Cardinality(KeysOf(l))
  BY <1>1, <1>4, <1>5
<1> QED BY <1>1, <1>2, <1>5, <1>6, <1>7, <1>8, <1>9 DEF StoreInv

LEMMA AddStores ==
  ASSUME StoreInv, dictAdd
  PROVE  StoreInv'
<1>1. /\ ~Expanding /\ adding' = {} /\ larger' = larger
      /\ \E e \in adding : TRUE
  BY DEF dictAdd
<1>2. PICK e \in Entry : adding = {e}
  BY <1>1 DEF StoreInv
<1> DEFINE s == Slot(e.key, Len(table))
           i == Place(table[s], e.key)
<1>3. /\ IF i = 0 THEN table' = [table EXCEPT ![s] = <<e>> \o table[s]] /\ used' = used + 1
         ELSE table' = [table EXCEPT ![s][i] = e] /\ used' = used
      /\ content' = [k \in There \cup {e.key} |-> IF k = e.key THEN e.val ELSE content[k]]
  BY <1>2 DEF dictAdd, size, There
<1>4. /\ larger = NoTable /\ larger.table = <<>> /\ KeysOf(table) = There /\ used = Cardinality(There)
      /\ \A d \in Entry : ~Has(larger.table, d)
      /\ \A d \in Entry : Has(table, d) <=> d.key \in There /\ content[d.key] = d.val
      /\ KeysOf(larger.table) = {}
  BY <1>1, NoLarger, NoTableIs
<1>5. Sorted(table) /\ table \in Table /\ table # <<>> /\ e.key \in DictKeys /\ e.val \in Vals
  BY <1>1, <1>2 DEF StoreInv, Sorted, Entry
<1>6. s \in 1..Len(table) /\ table[s] \in Chain /\ Good(table[s], s, Len(table))
  BY <1>5, TableIs DEF Sorted, Placed
<1> HIDE DEF s
<1>7. /\ i \in 0..Len(table[s])
      /\ \A j \in 1..Len(table[s]) : i = j <=> table[s][j].key = e.key
      /\ i = 0 <=> \A j \in 1..Len(table[s]) : table[s][j].key # e.key
  BY <1>6, PlaceIs
<1> HIDE DEF i
<1>8. /\ Sorted(table') /\ KeysOf(table') = There \cup {e.key} /\ used' = Cardinality(KeysOf(table'))
      /\ \A d \in Entry : Has(table', d) <=> (Has(table, d) /\ d.key # e.key) \/ d = e
  <2>0. IsFiniteSet(There) /\ Cardinality(There) \in Nat
    BY <1>4, ThereIs
  <2>1. CASE i = 0
    <3>1. \A d \in Entry : Has(table, d) => d.key # e.key
      <4> SUFFICES ASSUME NEW d \in Entry, Has(table, d), d.key = e.key PROVE FALSE
        OBVIOUS
      <4>1. d \in Members(table[s])
        BY DEF Has, s
      <4> QED BY <1>7, <2>1, <4>1 DEF Members
    <3>2. e.key \notin KeysOf(table)
      BY <1>5, <3>1, KeysAre
    <3>3. OneMore(table', table, e)
      <4>1. table' = [table EXCEPT ![s] = <<e>> \o table[s]] /\ s = Slot(e.key, Len(table))
        BY <1>3, <2>1 DEF s
      <4> QED BY <1>5, <3>2, <4>1, PutIn
    <3>4. Cardinality(There \cup {e.key}) = Cardinality(There) + 1
      BY <1>4, <2>0, <3>2, FS_AddElement
    <3> QED BY <1>3, <1>4, <2>1, <3>1, <3>3, <3>4 DEF OneMore, Built
  <2>2. CASE i # 0
    <3>1. i \in 1..Len(table[s])
      BY <1>7, <2>2
    <3>2. table[s][i].key = e.key
      BY <1>7, <3>1
    <3>3. OneOther(table', table, e)
      BY <1>3, <1>5, <1>6, <2>2, <3>1, <3>2, PutOver
    <3>4. e.key \in KeysOf(table)
      BY <1>5, <1>6, <3>1, <3>2, WhereIs, KeysAre
    <3> QED BY <1>3, <1>4, <2>2, <3>3, <3>4 DEF OneOther, Built
  <2> QED BY <2>1, <2>2
<1>9. /\ There' = There \cup {e.key} /\ \A k \in There' : content'[k] = IF k = e.key THEN e.val ELSE content[k]
      /\ content' \in [There' -> Vals] /\ There' \subseteq DictKeys
  <2>1. There' = There \cup {e.key}
    BY <1>3 DEF There
  <2>2. \A k \in There : content[k] \in Vals
    BY DEF StoreInv
  <2> QED BY <1>3, <1>5, <2>1, <2>2 DEF StoreInv
<1>10. \A d \in Entry : Has(table', d) <=> d.key \in There' /\ content'[d.key] = d.val
  <2> SUFFICES ASSUME NEW d \in Entry
               PROVE  Has(table', d) <=> d.key \in There' /\ content'[d.key] = d.val
    OBVIOUS
  <2>1. CASE d.key = e.key
    <3>1. d = e <=> d.val = e.val
      BY <2>1 DEF Entry
    <3> QED BY <1>8, <1>9, <2>1, <3>1
  <2>2. CASE d.key # e.key
    BY <1>4, <1>8, <1>9, <2>2
  <2> QED BY <2>1, <2>2
<1>11. ~Expanding'
  BY <1>1 DEF Expanding
<1> QED BY <1>1, <1>4, <1>8, <1>9, <1>10, <1>11 DEF StoreInv

LEMMA DeleteStores ==
  ASSUME StoreInv, NEW key \in DictKeys, dictDelete(key)
  PROVE  StoreInv'
<1>1. /\ adding = {} /\ adding' = {} /\ larger' = larger /\ Unlink(key)
      /\ content' = [k \in There \ {key} |-> content[k]]
  BY DEF dictDelete, There
<1>2. ~Expanding /\ ~Expanding'
  BY <1>1 DEF StoreInv, Expanding
<1>3. /\ larger = NoTable /\ larger.table = <<>> /\ KeysOf(table) = There /\ used = Cardinality(There)
      /\ \A d \in Entry : ~Has(larger.table, d)
      /\ \A d \in Entry : Has(table, d) <=> d.key \in There /\ content[d.key] = d.val
      /\ KeysOf(larger.table) = {}
  BY <1>2, NoLarger, NoTableIs
<1> DEFINE s == Slot(key, Len(table))
           i == Place(table[s], key)
<1>4. IF Len(table) > 0 /\ i > 0
      THEN table' = [table EXCEPT ![s] = RemoveAt(table[s], i)] /\ used' = used - 1
      ELSE table' = table /\ used' = used
  BY <1>1 DEF Unlink, size
<1>5. Sorted(table) /\ table \in Table /\ Len(table) \in Nat /\ (table = <<>> <=> Len(table) = 0)
  BY TableIs DEF StoreInv, Sorted
<1>6. table # <<>> =>
        /\ s \in 1..Len(table) /\ table[s] \in Chain /\ Good(table[s], s, Len(table))
        /\ i \in 0..Len(table[s])
        /\ \A j \in 1..Len(table[s]) : i = j <=> table[s][j].key = key
        /\ i = 0 <=> \A j \in 1..Len(table[s]) : table[s][j].key # key
  <2> SUFFICES ASSUME table # <<>>
               PROVE  /\ s \in 1..Len(table) /\ table[s] \in Chain /\ Good(table[s], s, Len(table))
                      /\ i \in 0..Len(table[s])
                      /\ \A j \in 1..Len(table[s]) : i = j <=> table[s][j].key = key
                      /\ i = 0 <=> \A j \in 1..Len(table[s]) : table[s][j].key # key
    OBVIOUS
  <2>1. s \in 1..Len(table) /\ table[s] \in Chain /\ Good(table[s], s, Len(table))
    BY <1>5, TableIs DEF Sorted, Placed
  <2> HIDE DEF s
  <2> QED BY <2>1, PlaceIs
<1>7. /\ Sorted(table') /\ KeysOf(table') = There \ {key} /\ used' = Cardinality(KeysOf(table'))
      /\ \A d \in Entry : Has(table', d) <=> Has(table, d) /\ d.key # key
  <2>0. IsFiniteSet(There) /\ Cardinality(There) \in Nat
    BY <1>3, ThereIs
  <2>1. CASE table # <<>> /\ i > 0
    <3> HIDE DEF s, i
    <3>1. s \in 1..Len(table) /\ i \in 1..Len(table[s]) /\ table[s] \in Chain
      BY <1>6, <2>1
    <3>2. table[s][i].key = key
      BY <1>6, <2>1, <3>1
    <3>3. Without(RemoveAt(table[s], i), table[s], i)
      BY <3>1, RemoveAtIs
    <3>4. table' = [table EXCEPT ![s] = RemoveAt(table[s], i)] /\ used' = used - 1
      BY <1>4, <1>5, <2>1
    <3>5. OneFewer(table', table, table[s][i])
      <4> DEFINE x == RemoveAt(table[s], i)
      <4>1. table' = [table EXCEPT ![s] = x] /\ Without(x, table[s], i)
        BY <3>3, <3>4
      <4> HIDE DEF x
      <4> QED BY <1>5, <3>1, <4>1, TakeOut
    <3>6. Cardinality(There \ {key}) = Cardinality(There) - 1
      BY <1>3, <2>0, <3>2, <3>5, FS_RemoveElement DEF OneFewer
    <3>7. table[s][i] \in Entry /\ Has(table, table[s][i])
      BY <1>5, <3>1, WhereIs
    <3>8. \A d \in Entry : Has(table, d) => (d.key # key <=> d # table[s][i])
      BY <1>5, <3>2, <3>7, OneEntry
    <3> QED BY <1>3, <3>2, <3>4, <3>5, <3>6, <3>8 DEF OneFewer, Built
  <2>2. CASE ~(table # <<>> /\ i > 0)
    <3>1. table' = table /\ used' = used
      BY <1>4, <1>5, <2>2
    <3>2. \A d \in Entry : Has(table, d) => d.key # key
      <4> SUFFICES ASSUME NEW d \in Entry, Has(table, d), d.key = key PROVE FALSE
        OBVIOUS
      <4>1. table # <<>> /\ d \in Members(table[s])
        BY DEF Has
      <4> HIDE DEF s, i
      <4>2. i = 0
        BY <1>6, <2>2, <4>1
      <4> QED BY <1>6, <4>1, <4>2 DEF Members
    <3>3. key \notin There
      BY <1>3, <1>5, <3>2, KeysAre
    <3> QED BY <1>3, <1>5, <3>1, <3>2, <3>3
  <2> QED BY <2>1, <2>2
<1> HIDE DEF s, i
<1>8. /\ There' = There \ {key} /\ \A k \in There' : content'[k] = content[k]
      /\ content' \in [There' -> Vals] /\ There' \subseteq DictKeys
  <2>1. There' = There \ {key}
    BY <1>1 DEF There
  <2>2. \A k \in There : content[k] \in Vals
    BY DEF StoreInv
  <2> QED BY <1>1, <2>1, <2>2 DEF StoreInv
<1>9. \A d \in Entry : Has(table', d) <=> d.key \in There' /\ content'[d.key] = d.val
  BY <1>3, <1>7, <1>8
<1> QED BY <1>1, <1>2, <1>3, <1>7, <1>8, <1>9 DEF StoreInv

LEMMA ReleaseStores ==
  ASSUME StoreInv, dictRelease
  PROVE  StoreInv'
<1>1. /\ adding = {} /\ adding' = {} /\ larger' = larger /\ table' = <<>> /\ used' = 0
      /\ content' = <<>>
  BY DEF dictRelease
<1>2. ~Expanding /\ ~Expanding'
  BY <1>1 DEF StoreInv, Expanding
<1>3. /\ larger.table = <<>> /\ Sorted(<<>>) /\ KeysOf(<<>>) = {} /\ \A d \in Entry : ~Has(<<>>, d)
  BY <1>2, NoLarger, NoTableIs
<1>4. There' = {} /\ content' \in [There' -> Vals]
  BY <1>1 DEF There
<1>5. Cardinality({}) = 0
  BY FS_EmptySet
<1> QED BY <1>1, <1>2, <1>3, <1>4, <1>5 DEF StoreInv

LEMMA InitStores == TableInit => StoreInv
<1> SUFFICES ASSUME TableInit PROVE StoreInv
  OBVIOUS
<1>1. /\ adding = {} /\ larger = NoTable /\ table = <<>> /\ used = 0 /\ content = <<>>
  BY DEF TableInit
<1>2. /\ larger.table = <<>> /\ Sorted(<<>>) /\ KeysOf(<<>>) = {} /\ \A d \in Entry : ~Has(<<>>, d)
  BY <1>1, NoTableIs
<1>3. There = {} /\ content \in [There -> Vals]
  BY <1>1 DEF There
<1>4. Cardinality({}) = 0
  BY FS_EmptySet
<1>5. larger \in [table : Table, used : Nat] /\ ~Expanding
  BY <1>1, <1>2 DEF NoTable, Sorted, Expanding
<1> QED BY <1>1, <1>2, <1>3, <1>4, <1>5 DEF StoreInv, Sorted

-----------------------------------------------------------------------------
(* The hash table: the iterator                                            *)

\* A key is in a slot behind index, or in that slot and not before the key next.
LeftIn(r, index, succ, k) ==
  \E i \in 1..Len(r) : \E j \in 1..Len(r[i]) :
    /\ r[i][j].key = k
    /\ index < i \/ (i = index /\ succ # 0 /\ Place(r[i], succ) <= j)
Left(k) == LeftIn(table, iter.index, iter.nextEntry, k)
Given == ToSet(visited.given)
Once(s) == \A i, j \in DOMAIN s : s[i] = s[j] => i = j

\* While an iterator is there, the keys it began with are those it gave and those that are
\* left; its own entry is given, so that deleting it changes nothing that is left.
IterInv ==
  /\ iter \in [on : BOOLEAN, index : Nat, entry : DictKeys \cup {0}, nextEntry : DictKeys \cup {0}]
  /\ visited \in [given : Seq(DictKeys), start : SUBSET DictKeys]
  /\ adding # {} => ~iter.on
  /\ Once(visited.given)
  /\ ~iter.on => Given = visited.start
  /\ iter.on =>
       /\ \A k \in DictKeys : k \in visited.start <=> k \in Given \/ Left(k)
       /\ \A k \in Given : ~Left(k)
       /\ iter.entry # 0 => iter.entry \in Given
       /\ iter.nextEntry # 0 =>
            iter.index \in 1..Len(table) /\ Place(table[iter.index], iter.nextEntry) # 0

\* What is left from the key at y of chain i on is that key and what is left from the next on.
Stepped(r, i, y, key, succ) ==
  /\ \A k : LeftIn(r, i, succ, k) <=> LeftIn(r, i, key, k) /\ k # key
  /\ LeftIn(r, i, key, key) /\ key \in DictKeys /\ succ \in DictKeys \cup {0}
  /\ Place(r[i], key) = y /\ Slot(key, Len(r)) = i
  /\ succ # 0 => Place(r[i], succ) # 0

LEMMA StepOn ==
  ASSUME NEW r, Sorted(r), NEW i \in 1..Len(r), NEW y \in 1..Len(r[i]),
         NEW key, key = r[i][y].key,
         NEW succ, succ = IF y < Len(r[i]) THEN r[i][y + 1].key ELSE 0
  PROVE  Stepped(r, i, y, key, succ)
<1>1. /\ r[i] \in Chain /\ Good(r[i], i, Len(r)) /\ key \in DictKeys /\ Slot(key, Len(r)) = i
      /\ key # 0
  BY WhereIs, DictAssumption
<1>2. Len(r[i]) \in Nat /\ y \in Nat /\ Len(r) \in Nat
  BY <1>1, ChainIs, TableIs DEF Sorted
<1>3. Place(r[i], key) = y
  BY <1>1, PlaceIs
<1>4. /\ y < Len(r[i]) => succ \in DictKeys /\ succ # 0 /\ Place(r[i], succ) = y + 1
      /\ ~(y < Len(r[i])) => succ = 0
  <2>1. CASE y < Len(r[i])
    <3>1. y + 1 \in 1..Len(r[i]) /\ succ = r[i][y + 1].key /\ y + 1 # 0
      BY <1>2, <2>1
    <3>2. succ \in DictKeys
      BY <3>1, WhereIs
    <3> QED BY <1>1, <2>1, <3>1, <3>2, PlaceIs, DictAssumption
  <2> QED BY <2>1
<1>5. ASSUME NEW k, LeftIn(r, i, succ, k) PROVE LeftIn(r, i, key, k) /\ k # key
  <2>1. PICK ii \in 1..Len(r), j \in Nat :
          /\ j \in 1..Len(r[ii]) /\ r[ii][j].key = k
          /\ i < ii \/ (ii = i /\ succ # 0 /\ Place(r[ii], succ) <= j)
    BY <1>5 DEF LeftIn
  <2>2. CASE i < ii
    <3>1. Slot(k, Len(r)) = ii
      BY <2>1, WhereIs
    <3> QED BY <1>1, <1>2, <2>1, <2>2, <3>1, SMTT(60) DEF LeftIn
  <2>3. CASE ~(i < ii)
    <3>1. ii = i /\ y + 1 <= j
      BY <1>4, <2>1, <2>3
    <3>2. y <= j /\ j # y
      BY <1>2, <3>1
    <3>3. k # key
      BY <1>1, <2>1, <3>1, <3>2 DEF Good
    <3> QED BY <1>1, <1>3, <2>1, <3>1, <3>2, <3>3 DEF LeftIn
  <2> QED BY <2>2, <2>3
<1>6. ASSUME NEW k, LeftIn(r, i, key, k), k # key PROVE LeftIn(r, i, succ, k)
  <2>1. PICK ii \in 1..Len(r), j \in Nat :
          j \in 1..Len(r[ii]) /\ r[ii][j].key = k /\ (i < ii \/ (ii = i /\ y <= j))
    BY <1>3, <1>6 DEF LeftIn
  <2>2. CASE i < ii
    BY <2>1, <2>2 DEF LeftIn
  <2>3. CASE ii = i /\ y <= j
    <3>1. j # y
      BY <1>6, <2>1, <2>3
    <3>2. y + 1 <= j /\ y < Len(r[i])
      BY <1>2, <2>1, <2>3, <3>1
    <3> QED BY <1>4, <2>1, <2>3, <3>2 DEF LeftIn
  <2> QED BY <2>1, <2>2, <2>3
<1>7. LeftIn(r, i, key, key)
  <2>1. y <= y
    BY <1>2
  <2> QED BY <1>1, <1>3, <2>1 DEF LeftIn
<1> QED BY <1>1, <1>2, <1>3, <1>4, <1>5, <1>6, <1>7 DEF Stepped

\* What is left stays left, and no more, when an entry that is not left is deleted.
SameLeft(u, r, index, succ) ==
  /\ \A k : LeftIn(u, index, succ, k) <=> LeftIn(r, index, succ, k)
  /\ succ # 0 => index \in 1..Len(u) /\ Place(u[index], succ) # 0

LEMMA LeftStays ==
  ASSUME NEW r, Sorted(r), NEW s \in 1..Len(r), NEW q \in 1..Len(r[s]), NEW x,
         Without(x, r[s], q), NEW u, u = [r EXCEPT ![s] = x], NEW index \in Nat, NEW succ,
         ~LeftIn(r, index, succ, r[s][q].key),
         succ # 0 => index \in 1..Len(r) /\ Place(r[index], succ) # 0
  PROVE  SameLeft(u, r, index, succ)
<1>1. r[s] \in Chain /\ Good(r[s], s, Len(r)) /\ Len(r) \in Nat /\ Len(r[s]) \in Nat
  BY WhereIs, TableIs, ChainIs DEF Sorted
<1>2. /\ x \in Chain /\ Good(x, s, Len(r))
      /\ \A j \in 1..Len(r[s]) \ {q} : Moves(j, q) \in 1..Len(x) /\ x[Moves(j, q)] = r[s][j]
      /\ \A j \in 1..Len(x) : \E k \in 1..Len(r[s]) \ {q} : j = Moves(k, q) /\ x[j] = r[s][k]
  <2> DEFINE old == r[s]
             n == Len(r)
  <2>1. old \in Chain /\ Good(old, s, n) /\ q \in 1..Len(old) /\ Without(x, old, q)
    BY <1>1
  <2> HIDE DEF old, n
  <2>2. /\ x \in Chain /\ Good(x, s, n)
        /\ \A j \in 1..Len(old) \ {q} : Moves(j, q) \in 1..Len(x) /\ x[Moves(j, q)] = old[j]
        /\ \A j \in 1..Len(x) : \E k \in 1..Len(old) \ {q} : j = Moves(k, q) /\ x[j] = old[k]
    BY <2>1, RemoveChain
  <2> QED BY <2>2, Zenon DEF old, n
<1>3. Changed(u, r, s, x)
  BY <1>1, <1>2, ChangeSlot
<1>4. Len(u) = Len(r) /\ u[s] = x /\ \A i \in 1..Len(r) : i # s => u[i] = r[i]
  BY <1>3 DEF Changed
<1>5. ~(index < s) /\ ~(s = index /\ succ # 0 /\ Place(r[s], succ) <= q)
  BY DEF LeftIn
<1>6. ASSUME s = index, succ # 0
      PROVE  /\ Place(r[s], succ) \in 1..Len(r[s]) /\ q < Place(r[s], succ)
             /\ Place(x, succ) = Place(r[s], succ) - 1 /\ Place(x, succ) # 0
  <2> DEFINE y == Place(r[s], succ)
  <2>1. y \in 0..Len(r[s]) /\ y # 0 /\ \A j \in 1..Len(r[s]) : y = j <=> r[s][j].key = succ
    BY <1>1, <1>6, PlaceIs
  <2> HIDE DEF y
  <2>2. y \in 1..Len(r[s]) /\ r[s][y].key = succ /\ ~(y <= q)
    BY <1>1, <1>5, <1>6, <2>1 DEF y
  <2>3. q < y /\ y # q /\ Moves(y, q) = y - 1 /\ y - 1 # 0
    BY <1>1, <2>2 DEF Moves
  <2>4. y - 1 \in 1..Len(x) /\ x[y - 1].key = succ
    BY <1>2, <2>2, <2>3, SMTT(60)
  <2>5. Place(x, succ) = y - 1
    BY <1>2, <2>4, PlaceIs
  <2> QED BY <2>2, <2>3, <2>5 DEF y
<1>7. ASSUME NEW k, LeftIn(r, index, succ, k) PROVE LeftIn(u, index, succ, k)
  <2>1. PICK i \in 1..Len(r), j \in Nat :
          /\ j \in 1..Len(r[i]) /\ r[i][j].key = k
          /\ index < i \/ (i = index /\ succ # 0 /\ Place(r[i], succ) <= j)
    BY <1>7 DEF LeftIn
  <2>2. CASE i # s
    BY <1>4, <2>1, <2>2 DEF LeftIn
  <2>3. CASE i = s
    <3>1. s = index /\ succ # 0 /\ Place(r[s], succ) <= j
      BY <1>5, <2>1, <2>3
    <3>2. j # q /\ ~(j < q) /\ Place(x, succ) <= j - 1
      BY <1>1, <1>6, <2>3, <3>1
    <3>3. j - 1 \in 1..Len(x) /\ x[j - 1].key = k
      BY <1>2, <2>1, <2>3, <3>2 DEF Moves
    <3>4. s \in 1..Len(u) /\ j - 1 \in 1..Len(u[s]) /\ u[s][j - 1].key = k
          /\ Place(u[s], succ) <= j - 1
      BY <1>4, <3>2, <3>3
    <3> QED BY <3>1, <3>4 DEF LeftIn
  <2> QED BY <2>2, <2>3
<1>8. ASSUME NEW k, LeftIn(u, index, succ, k) PROVE LeftIn(r, index, succ, k)
  <2>1. PICK i \in 1..Len(r), j \in Nat :
          /\ j \in 1..Len(u[i]) /\ u[i][j].key = k
          /\ index < i \/ (i = index /\ succ # 0 /\ Place(u[i], succ) <= j)
    BY <1>4, <1>8 DEF LeftIn
  <2>2. CASE i # s
    BY <1>4, <2>1, <2>2 DEF LeftIn
  <2>3. CASE i = s
    <3>1. s = index /\ succ # 0 /\ Place(x, succ) <= j /\ j \in 1..Len(x) /\ x[j].key = k
      BY <1>4, <1>5, <2>1, <2>3
    <3>2. PICK m \in 1..Len(r[s]) \ {q} : j = Moves(m, q) /\ x[j] = r[s][m]
      BY <1>2, <3>1
    <3>3. Place(r[s], succ) <= m
      BY <1>1, <1>6, <3>1, <3>2 DEF Moves
    <3> QED BY <3>1, <3>2, <3>3 DEF LeftIn
  <2> QED BY <2>2, <2>3
<1>9. succ # 0 => Place(u[index], succ) # 0
  BY <1>4, <1>6
<1> QED BY <1>4, <1>7, <1>8, <1>9 DEF SameLeft

LEMMA AppendGives ==
  ASSUME NEW s \in Seq(DictKeys), NEW k \in DictKeys, Once(s), k \notin ToSet(s)
  PROVE  /\ Append(s, k) \in Seq(DictKeys) /\ Once(Append(s, k))
         /\ ToSet(Append(s, k)) = ToSet(s) \cup {k}
<1> DEFINE r == Append(s, k)
<1>1. /\ r \in Seq(DictKeys) /\ Len(r) = Len(s) + 1 /\ r[Len(s) + 1] = k
      /\ \A i \in 1..Len(s) : r[i] = s[i]
  BY AppendProperties
<1>2. Len(s) \in Nat /\ DOMAIN s = 1..Len(s)
  BY LenProperties
<1> HIDE DEF r
<1>3. DOMAIN r = 1..(Len(s) + 1)
  BY <1>1, LenProperties
<1>4. \A i \in DOMAIN r : i = Len(s) + 1 \/ i \in DOMAIN s
  BY <1>2, <1>3
<1>5. \A i \in DOMAIN s : i \in DOMAIN r /\ r[i] = s[i] /\ s[i] # k
  BY <1>1, <1>2, <1>3 DEF ToSet
<1>6. Len(s) + 1 \in DOMAIN r
  BY <1>2, <1>3
<1>7. ToSet(r) = ToSet(s) \cup {k}
  BY <1>1, <1>4, <1>5, <1>6 DEF ToSet
<1>8. Once(r)
  BY <1>1, <1>4, <1>5 DEF Once
<1> QED BY <1>1, <1>7, <1>8 DEF r

LEMMA GiveHolds ==
  ASSUME StoreInv, IterInv, iter.on, NEW i \in 1..Len(table), NEW y \in 1..Len(table[i]),
         NEW key, key = table[i][y].key, Give(i, key), UNCHANGED <<table, adding>>,
         \A k \in DictKeys : LeftIn(table, i, key, k) <=> Left(k)
  PROVE  IterInv'
<1> DEFINE succ == IF y < Len(table[i]) THEN table[i][y + 1].key ELSE 0
<1>1. Sorted(table)
  BY DEF StoreInv
<1>2. /\ \A k : LeftIn(table, i, succ, k) <=> LeftIn(table, i, key, k) /\ k # key
      /\ LeftIn(table, i, key, key) /\ key \in DictKeys /\ succ \in DictKeys \cup {0}
      /\ Place(table[i], key) = y /\ Slot(key, Len(table)) = i
      /\ succ # 0 => Place(table[i], succ) # 0
  <2> HIDE DEF succ
  <2>1. succ = IF y < Len(table[i]) THEN table[i][y + 1].key ELSE 0
    BY DEF succ
  <2>2. Stepped(table, i, y, key, succ)
    BY <1>1, <2>1, StepOn
  <2> QED BY <2>2 DEF Stepped
<1>3. After(key) = succ
  BY <1>2 DEF After, size
<1> HIDE DEF succ
<1>4. /\ iter' = [on |-> TRUE, index |-> i, entry |-> key, nextEntry |-> succ]
      /\ visited' = [visited EXCEPT !.given = Append(visited.given, key)]
      /\ table' = table /\ adding' = adding
  BY <1>3 DEF Give
<1>5. i \in Nat
  OBVIOUS
<1>6. /\ visited.given \in Seq(DictKeys) /\ visited.start \in SUBSET DictKeys /\ Once(visited.given)
      /\ adding = {}
      /\ \A k \in DictKeys : k \in visited.start <=> k \in Given \/ Left(k)
      /\ \A k \in Given : ~Left(k)
  BY DEF IterInv
<1>7. key \notin Given /\ Left(key)
  BY <1>2, <1>6
<1>8. /\ visited'.given \in Seq(DictKeys) /\ visited'.start = visited.start
      /\ visited' \in [given : Seq(DictKeys), start : SUBSET DictKeys]
      /\ Once(visited'.given) /\ Given' = Given \cup {key}
  <2>1. /\ Append(visited.given, key) \in Seq(DictKeys) /\ Once(Append(visited.given, key))
        /\ ToSet(Append(visited.given, key)) = Given \cup {key}
    BY <1>2, <1>6, <1>7, AppendGives DEF Given
  <2> DEFINE g == Append(visited.given, key)
  <2>2. visited'.given = g /\ visited'.start = visited.start /\ g \in Seq(DictKeys)
        /\ visited' \in [given : Seq(DictKeys), start : SUBSET DictKeys]
    BY <1>4, <1>6, <2>1 DEF IterInv
  <2> HIDE DEF g
  <2>3. Given' = ToSet(g)
    BY <2>2 DEF Given
  <2> QED BY <2>1, <2>2, <2>3 DEF g
<1>9. \A k : Left(k)' <=> LeftIn(table, i, succ, k)
  BY <1>4 DEF Left
<1>10. \A k \in DictKeys : Left(k)' <=> Left(k) /\ k # key
  BY <1>2, <1>9
<1>11. /\ \A k \in DictKeys : k \in visited'.start <=> k \in Given' \/ Left(k)'
       /\ \A k \in Given' : ~Left(k)'
  <2>1. \A k \in DictKeys : k \in visited'.start <=> k \in Given' \/ Left(k)'
    BY <1>2, <1>6, <1>7, <1>8, <1>10
  <2>2. \A k \in Given : k \in DictKeys
    BY <1>6, LenProperties, ElementOfSeq DEF Given, ToSet
  <2>3. \A k \in Given' : ~Left(k)'
    BY <1>2, <1>6, <1>8, <1>10, <2>2
  <2> QED BY <2>1, <2>3
<1>12. /\ iter' \in [on : BOOLEAN, index : Nat, entry : DictKeys \cup {0}, nextEntry : DictKeys \cup {0}]
       /\ iter'.on = TRUE /\ iter'.entry = key /\ iter'.index = i /\ iter'.nextEntry = succ
  BY <1>2, <1>4, <1>5
<1>13. /\ iter'.entry \in Given'
       /\ iter'.nextEntry # 0 =>
            iter'.index \in 1..Len(table') /\ Place(table'[iter'.index], iter'.nextEntry) # 0
  BY <1>2, <1>4, <1>8, <1>12
<1> QED BY <1>4, <1>6, <1>8, <1>11, <1>12, <1>13, Zenon DEF IterInv

LEMMA NextHolds ==
  ASSUME StoreInv, IterInv, dictNext
  PROVE  IterInv'
<1>1. iter.on /\ UNCHANGED <<table, adding>> /\ Sorted(table) /\ table \in Table
      /\ Len(table) \in Nat
  BY TableIs DEF dictNext, StoreInv, Sorted
<1> DEFINE i0 == iter.index
           n0 == iter.nextEntry
<1>2. i0 \in Nat
  BY DEF IterInv
<1>3. CASE n0 # 0
  <2> DEFINE y == Place(table[i0], n0)
  <2>1. i0 \in 1..Len(table) /\ y # 0 /\ Give(i0, n0)
    BY <1>1, <1>3 DEF IterInv, dictNext
  <2>2. table[i0] \in Chain /\ Good(table[i0], i0, Len(table))
    BY <1>1, <2>1, TableIs DEF Sorted, Placed
  <2> HIDE DEF i0, n0
  <2>3. /\ y \in 0..Len(table[i0])
        /\ \A j \in 1..Len(table[i0]) : y = j <=> table[i0][j].key = n0
    BY <2>2, PlaceIs
  <2>4. y \in 1..Len(table[i0])
    BY <2>1, <2>2, <2>3, ChainIs
  <2>5. n0 = table[i0][y].key
    BY <2>3, <2>4
  <2>6. \A k \in DictKeys : LeftIn(table, i0, n0, k) <=> Left(k)
    BY DEF Left, i0, n0
  <2> HIDE DEF y
  <2> QED BY <1>1, <2>1, <2>4, <2>5, <2>6, GiveHolds
<1>4. CASE n0 = 0 /\ Ahead # {}
  <2> DEFINE i == Min(Ahead)
             one == 1
             key == table[i][one].key
  <2>1. Ahead \subseteq Nat
    BY <1>1, <1>2 DEF Ahead, size
  <2>2. i \in Ahead /\ \A j \in Ahead : i <= j
    BY <1>4, <2>1, MinIs
  <2>3. Give(i, key)
    BY <1>1, <1>4 DEF dictNext
  <2> HIDE DEF i
  <2>4. /\ i \in 1..Len(table) /\ i0 < i /\ table[i] # <<>>
        /\ \A j \in 1..Len(table) : i0 < j /\ table[j] # <<>> => i <= j
    BY <1>1, <1>2, <2>2 DEF Ahead, size
  <2>5. table[i] \in Chain /\ one \in 1..Len(table[i])
    BY <1>1, <2>4, TableIs, TailIs
  <2> HIDE DEF one
  <2>6. key = table[i][one].key
    OBVIOUS
  <2> HIDE DEF key
  <2>7. Place(table[i], key) = one
    <3> DEFINE succ == IF one < Len(table[i]) THEN table[i][one + 1].key ELSE 0
    <3>1. succ = IF one < Len(table[i]) THEN table[i][one + 1].key ELSE 0
      OBVIOUS
    <3> HIDE DEF succ
    <3>2. Stepped(table, i, one, key, succ)
      BY <1>1, <2>4, <2>5, <2>6, <3>1, StepOn
    <3> QED BY <3>2 DEF Stepped
  <2>8. key # 0
    BY <1>1, <2>4, <2>5, <2>6, WhereIs, DictAssumption
  <2>9. ASSUME NEW k \in DictKeys PROVE LeftIn(table, i, key, k) <=> Left(k)
    <3>1. Left(k) <=> \E ii \in 1..Len(table) : \E j \in 1..Len(table[ii]) :
                         table[ii][j].key = k /\ i0 < ii
      BY <1>4 DEF Left, LeftIn
    <3>2. LeftIn(table, i, key, k) <=>
            \E ii \in 1..Len(table) : \E j \in 1..Len(table[ii]) :
              table[ii][j].key = k /\ (i < ii \/ (ii = i /\ Place(table[i], key) <= j))
      BY <2>8 DEF LeftIn
    <3>3. ASSUME NEW ii \in 1..Len(table), NEW j \in 1..Len(table[ii])
          PROVE  i0 < ii <=> (i < ii \/ (ii = i /\ Place(table[i], key) <= j))
      <4>1. table[ii] # <<>>
        BY EmptySeq
      <4>2. i0 < ii => i <= ii
        BY <2>4, <4>1
      <4>3. Place(table[i], key) <= j
        BY <2>7 DEF one
      <4> QED BY <1>2, <2>4, <4>2, <4>3
    <3> QED BY <3>1, <3>2, <3>3
  <2> QED BY <1>1, <2>3, <2>4, <2>5, <2>6, <2>9, GiveHolds
<1>5. CASE n0 = 0 /\ Ahead = {}
  <2>1. iter' = NoIterator /\ visited' = visited
    BY <1>5 DEF dictNext
  <2>2. ASSUME NEW k PROVE ~Left(k)
    <3> SUFFICES ASSUME NEW ii \in 1..Len(table), NEW j \in 1..Len(table[ii]), i0 < ii PROVE FALSE
      BY <1>5 DEF Left, LeftIn
    <3>1. ii \in (i0 + 1)..size /\ table[ii] # <<>>
      BY <1>1, <1>2, EmptySeq DEF size
    <3> QED BY <1>5, <3>1 DEF Ahead
  <2>3. /\ visited \in [given : Seq(DictKeys), start : SUBSET DictKeys] /\ Once(visited.given)
        /\ \A k \in DictKeys : k \in visited.start <=> k \in Given \/ Left(k)
    BY <1>1 DEF IterInv
  <2>4. Given \subseteq DictKeys
    BY <2>3, LenProperties, ElementOfSeq DEF Given, ToSet
  <2>5. Given = visited.start
    BY <2>2, <2>3, <2>4
  <2>6. /\ iter' \in [on : BOOLEAN, index : Nat, entry : DictKeys \cup {0}, nextEntry : DictKeys \cup {0}]
        /\ iter'.on = FALSE
    BY <2>1 DEF NoIterator
  <2>7. Given' = Given
    BY <2>1 DEF Given
  <2> QED BY <2>1, <2>3, <2>5, <2>6, <2>7 DEF IterInv
<1> QED BY <1>3, <1>4, <1>5

LEMMA DeleteHolds ==
  ASSUME StoreInv, IterInv, NEW key \in DictKeys, dictDelete(key)
  PROVE  IterInv'
<1>1. /\ adding = {} /\ (iter.on => iter.entry = key) /\ Unlink(key)
      /\ UNCHANGED <<adding, iter, visited>>
  BY DEF dictDelete
<1>2. Given' = Given
  BY <1>1 DEF Given
<1>3. CASE ~iter.on
  BY <1>1, <1>2, <1>3 DEF IterInv
<1>4. CASE iter.on
  <2> DEFINE index == iter.index
             succ == iter.nextEntry
  <2>1. /\ key \in Given /\ ~Left(key) /\ index \in Nat
        /\ succ # 0 => index \in 1..Len(table) /\ Place(table[index], succ) # 0
    BY <1>1, <1>4, DictAssumption DEF IterInv
  <2>2. Sorted(table) /\ table \in Table /\ Len(table) \in Nat /\ (table = <<>> <=> Len(table) = 0)
    BY TableIs DEF StoreInv, Sorted
  <2> DEFINE s == Slot(key, Len(table))
             q == Place(table[s], key)
             x == RemoveAt(table[s], q)
  <2>3. /\ \A k : LeftIn(table', index, succ, k) <=> LeftIn(table, index, succ, k)
        /\ succ # 0 => index \in 1..Len(table') /\ Place(table'[index], succ) # 0
    <3>1. CASE Len(table) > 0 /\ q > 0
      <4>1. table' = [table EXCEPT ![s] = x]
        BY <1>1, <3>1 DEF Unlink, size
      <4>2. s \in 1..Len(table) /\ table[s] \in Chain /\ Good(table[s], s, Len(table))
        <5>1. table # <<>>
          BY <2>2, <3>1
        <5> QED BY <2>2, <5>1, TableIs DEF Sorted, Placed
      <4> HIDE DEF s
      <4>3. /\ q \in 0..Len(table[s])
            /\ \A j \in 1..Len(table[s]) : q = j <=> table[s][j].key = key
        BY <4>2, PlaceIs
      <4>4. q \in 1..Len(table[s])
        BY <3>1, <4>2, <4>3, ChainIs
      <4>5. table[s][q].key = key
        BY <4>3, <4>4
      <4> HIDE DEF q
      <4>6. Without(x, table[s], q)
        BY <4>2, <4>4, RemoveAtIs
      <4>7. ~LeftIn(table, index, succ, table[s][q].key)
        BY <2>1, <4>5 DEF Left
      <4> HIDE DEF x, index, succ
      <4>8. SameLeft(table', table, index, succ)
        BY <2>1, <2>2, <4>1, <4>2, <4>4, <4>6, <4>7, LeftStays
      <4> QED BY <4>8 DEF SameLeft
    <3>2. CASE ~(Len(table) > 0 /\ q > 0)
      <4>1. table' = table
        BY <1>1, <3>2 DEF Unlink, size
      <4> QED BY <2>1, <4>1
    <3> QED BY <3>1, <3>2
  <2>4. \A k : Left(k)' <=> Left(k)
    BY <1>1, <2>3 DEF Left
  <2> QED BY <1>1, <1>2, <1>4, <2>1, <2>3, <2>4 DEF IterInv
<1> QED BY <1>3, <1>4

LEMMA IteratorHolds ==
  ASSUME StoreInv, IterInv, dictGetIterator
  PROVE  IterInv'
<1>1. /\ adding = {} /\ UNCHANGED <<table, adding>> /\ iter' = [NoIterator EXCEPT !.on = TRUE]
      /\ visited' = [given |-> <<>>, start |-> There]
  BY DEF dictGetIterator, There
<1>2. /\ iter' = [on |-> TRUE, index |-> 0, entry |-> 0, nextEntry |-> 0]
      /\ iter' \in [on : BOOLEAN, index : Nat, entry : DictKeys \cup {0}, nextEntry : DictKeys \cup {0}]
  BY <1>1 DEF NoIterator
<1>3. ~Expanding /\ Sorted(table) /\ There \subseteq DictKeys
  BY <1>1 DEF StoreInv
<1>4. \A k : Left(k)' <=> k \in There
  <2>1. KeysOf(table) = There
    BY <1>3, NoLarger
  <2>2. \A k : k \in KeysOf(table) <=> \E i \in 1..Len(table) : \E j \in 1..Len(table[i]) : table[i][j].key = k
    BY <1>3, KeysAre, HasWhere, WhereIs
  <2>3. \A i \in 1..Len(table) : 0 < i
    OBVIOUS
  <2>4. \A k : Left(k)' <=> LeftIn(table, 0, 0, k)
    BY <1>1, <1>2 DEF Left
  <2> QED BY <2>1, <2>2, <2>3, <2>4 DEF LeftIn
<1>5. /\ Given' = {} /\ Once(visited'.given) /\ visited'.start = There
      /\ visited' \in [given : Seq(DictKeys), start : SUBSET DictKeys]
  <2>1. <<>> \in Seq(DictKeys) /\ DOMAIN <<>> = {}
    BY EmptySeq
  <2>2. visited'.given = <<>> /\ visited'.start = There
    BY <1>1
  <2>3. Given' = {}
    BY <2>1, <2>2 DEF Given, ToSet
  <2> QED BY <1>1, <1>3, <2>1, <2>2, <2>3 DEF Once
<1> QED BY <1>1, <1>2, <1>4, <1>5 DEF IterInv

TableInv == StoreInv /\ IterInv

LEMMA TableInitHolds == TableInit => TableInv
<1> SUFFICES ASSUME TableInit PROVE TableInv
  OBVIOUS
<1>1. /\ iter = [on |-> FALSE, index |-> 0, entry |-> 0, nextEntry |-> 0]
      /\ visited = [given |-> <<>>, start |-> {}] /\ adding = {}
  BY DEF TableInit, NoIterator
<1>2. <<>> \in Seq(DictKeys) /\ DOMAIN <<>> = {}
  BY EmptySeq
<1>3. visited.given = <<>> /\ Given = {} /\ Once(visited.given)
  BY <1>1, <1>2 DEF Given, ToSet, Once
<1>4. IterInv
  BY <1>1, <1>2, <1>3 DEF IterInv
<1> QED BY <1>4, InitStores DEF TableInv

\* With no iterator, and none begun, there is nothing more to keep.
LEMMA NoIteration ==
  ASSUME IterInv, ~iter.on, UNCHANGED <<iter, visited>>
  PROVE  IterInv'
<1>1. Given' = Given
  BY DEF Given
<1> QED BY <1>1 DEF IterInv

LEMMA TableNextHolds == TableInv /\ [TableNext]_tableVars => TableInv'
<1> SUFFICES ASSUME StoreInv, IterInv, [TableNext]_tableVars PROVE StoreInv' /\ IterInv'
  BY DEF TableInv
<1>1. adding # {} \/ Expanding => ~iter.on
  BY DEF StoreInv, IterInv
<1>2. ASSUME UNCHANGED <<table, used, adding, larger, content>> PROVE StoreInv'
  BY <1>2 DEF StoreInv, Expanding, There
<1>3. ASSUME NEW k \in DictKeys, NEW v \in Vals, dictReplace(k, v) PROVE StoreInv' /\ IterInv'
  <2>1. ~iter.on /\ UNCHANGED <<iter, visited>>
    BY <1>3 DEF dictReplace
  <2> QED BY <1>3, <2>1, ReplaceStores, NoIteration
<1>4. CASE MoveEntry
  <2>1. ~iter.on /\ UNCHANGED <<iter, visited>>
    BY <1>1, <1>4 DEF MoveEntry
  <2> QED BY <1>4, <2>1, MoveStores, NoIteration
<1>5. CASE dictExpand
  <2>1. ~iter.on /\ UNCHANGED <<iter, visited>>
    BY <1>1, <1>5 DEF dictExpand
  <2> QED BY <1>5, <2>1, ExpandStores, NoIteration
<1>6. CASE dictAdd
  <2>1. ~iter.on /\ UNCHANGED <<iter, visited>>
    BY <1>1, <1>6 DEF dictAdd
  <2> QED BY <1>6, <2>1, AddStores, NoIteration
<1>7. ASSUME NEW k \in DictKeys, dictDelete(k) PROVE StoreInv' /\ IterInv'
  BY <1>7, DeleteStores, DeleteHolds
<1>8. CASE dictGetIterator
  BY <1>2, <1>8, IteratorHolds DEF dictGetIterator
<1>9. CASE dictNext
  BY <1>2, <1>9, NextHolds DEF dictNext
<1>10. CASE dictRelease
  <2>1. ~iter.on /\ UNCHANGED <<iter, visited>>
    BY <1>10 DEF dictRelease
  <2> QED BY <1>10, <2>1, ReleaseStores, NoIteration
<1>11. CASE UNCHANGED tableVars
  <2>1. UNCHANGED <<table, used, adding, larger, iter, content, visited>>
    BY <1>11 DEF tableVars
  <2>2. Given' = Given /\ \A k : Left(k)' <=> Left(k)
    BY <2>1 DEF Given, Left
  <2>3. IterInv'
    BY <2>1, <2>2 DEF IterInv
  <2> QED BY <1>2, <2>1, <2>3
<1> QED BY <1>3, <1>4, <1>5, <1>6, <1>7, <1>8, <1>9, <1>10, <1>11 DEF TableNext

LEMMA InvFindsLast == TableInv => FindsLast
<1> SUFFICES ASSUME StoreInv, IterInv PROVE FindsLast
  BY DEF TableInv
<1>1. Sorted(table) /\ table \in Table /\ Len(table) \in Nat /\ (table = <<>> <=> Len(table) = 0)
  BY TableIs DEF StoreInv, Sorted
<1>2. ASSUME ~Expanding, NEW k \in DictKeys
      PROVE  dictFind(k) = IF k \in There THEN {content[k]} ELSE {}
  <2>1. \A e \in Entry : Has(table, e) <=> e.key \in There /\ content[e.key] = e.val
    BY <1>2, NoLarger
  <2>2. KeysOf(table) = There
    BY <1>2, NoLarger
  <2>3. CASE table = <<>>
    <3>1. k \notin There
      <4>1. KeysOf(<<>>) = {}
        BY NoTableIs
      <4> QED BY <2>2, <2>3, <4>1
    <3> QED BY <1>1, <2>3, <3>1 DEF dictFind, size
  <2>4. CASE table # <<>>
    <3> DEFINE s == Slot(k, Len(table))
               i == Place(table[s], k)
    <3>1. s \in 1..Len(table) /\ table[s] \in Chain /\ Good(table[s], s, Len(table))
      BY <1>1, <2>4, TableIs DEF Sorted, Placed
    <3>2. dictFind(k) = IF i = 0 THEN {} ELSE {table[s][i].val}
      BY <1>1, <2>4 DEF dictFind, size
    <3> HIDE DEF s
    <3>3. /\ i \in 0..Len(table[s])
          /\ \A j \in 1..Len(table[s]) : i = j <=> table[s][j].key = k
          /\ i = 0 <=> \A j \in 1..Len(table[s]) : table[s][j].key # k
      BY <3>1, PlaceIs
    <3> HIDE DEF i
    <3>4. CASE i = 0
      <4>1. k \notin There
        <5> SUFFICES ASSUME k \in There PROVE FALSE
          OBVIOUS
        <5>1. PICK e \in Entry : Has(table, e) /\ e.key = k
          BY <1>1, <2>2, KeysAre
        <5>2. e \in Members(table[s])
          BY <5>1 DEF Has, s
        <5> QED BY <3>3, <3>4, <5>1, <5>2 DEF Members
      <4> QED BY <3>2, <3>4, <4>1
    <3>5. CASE i # 0
      <4>1. i \in 1..Len(table[s])
        BY <3>1, <3>3, <3>5, ChainIs
      <4>2. table[s][i].key = k
        BY <3>3, <4>1
      <4>3. table[s][i] \in Entry /\ Has(table, table[s][i])
        BY <1>1, <3>1, <4>1, WhereIs
      <4>4. k \in There /\ content[k] = table[s][i].val
        BY <2>1, <4>2, <4>3
      <4> QED BY <3>2, <3>5, <4>4
    <3> QED BY <3>4, <3>5
  <2> QED BY <2>3, <2>4
<1>3. ASSUME NEW i \in 1..size, NEW j \in 1..Len(table[i])
      PROVE  Slot(table[i][j].key, size) = i /\ Place(table[i], table[i][j].key) = j
  <2>1. i \in 1..Len(table)
    BY DEF size
  <2>2. /\ table[i] \in Chain /\ Good(table[i], i, Len(table))
        /\ Slot(table[i][j].key, Len(table)) = i
    BY <1>1, <2>1, WhereIs
  <2> QED BY <2>2, PlaceIs DEF size
<1>4. used = Cardinality(KeysOf(table))
  BY DEF StoreInv
<1> QED BY <1>2, <1>3, <1>4 DEF FindsLast, There

LEMMA InvVisitsAll == TableInv => VisitsAll
  BY DEF TableInv, IterInv, VisitsAll, Given, Once

\* Whatever the keys, their hashes and the size the table begins with: through expansion,
\* replacement and deletion the table of hiredis finds for each key the value it was given
\* last and counts its entries, and an iterator gives every key once although its user
\* deletes the entry it was given (dict.c:88-290).
THEOREM TableIsRight == TableSpec => [](FindsLast /\ VisitsAll)
<1>1. TableSpec => []TableInv
  BY TableInitHolds, TableNextHolds, PTL DEF TableSpec
<1> QED BY <1>1, InvFindsLast, InvVisitsAll, PTL

\* What the run of the parts checks of the table and the strings of hiredis, on small sizes,
\* holds of all of them (dict.c:88-290, sds.c:87-738).
THEOREM DataIsRight == TableSpec /\ StringSpec => []DataRight
<1>1. FindsLast /\ VisitsAll /\ StringRight => DataRight
  BY DEF DataRight
<1> QED BY <1>1, TableIsRight, StringIsRight, PTL
=============================================================================
