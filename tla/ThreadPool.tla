----------------------------- MODULE ThreadPool -----------------------------
(***************************************************************************)
(* The thread pool of 7_thread_pool/ThreadPool.cpp: workers that share a   *)
(* task list under m_mutex and sleep on m_cond, grow in number when all of *)
(* them are busy and shrink when none is; clients that hand in tasks or    *)
(* wait on m_notask_cond; the destructor.                                  *)
(*                                                                         *)
(* m_mutex is held from a wake-up to the next sleep, exit or task; the     *)
(* actions between are separate only where a worker keeps it: after a task *)
(* it goes round the loop without letting go (variable mutex).             *)
(***************************************************************************)
EXTENDS Integers, Sequences, FiniteSets

CONSTANTS
  Threads,   \* identities of Thread objects; one may be reused after delete
  Clients,   \* threads that call waitForAllRuningTaskDone
  NTasks,    \* bound: tasks handed in, numbered in the order of acceptance
  MinThds,   \* m_min_thd_num, 4 in the code ("may be changed")
  MaxThds,   \* m_max_thd_num, the constructor's argument
  NoThread   \* m_mutex is free

ASSUME ThreadsAssumption == IsFiniteSet(Threads) /\ NoThread \notin Threads
ASSUME SizesAssumption ==
  NTasks \in Nat /\ MinThds \in Nat \ {0} /\ MaxThds \in Nat

VARIABLES
  phase,     \* "new", "running", "closing" (in the destructor), "destroyed"
  tasks,     \* m_task_list
  accepted,  \* tasks handed in so far
  thds,      \* m_thd_list
  term,      \* the Threads whose m_needToTerminate is set
  busyNum,   \* m_busy_thd_num
  pc,        \* what each worker does: see TypeOK
  job,       \* job[t]: the task t runs, 0 when it runs none
  done,      \* tasks that have been run
  dropped,   \* tasks deleted unrun by the destructor
  mutex,     \* the worker that keeps m_mutex across two actions, or NoThread
  dtor,      \* the destructor waits on m_cond: "asleep", "awake"; else "none"
  wait       \* wait[c]: client c in waitForAllRuningTaskDone

vars == <<phase, tasks, accepted, thds, term, busyNum, pc, job, done, dropped,
          mutex, dtor, wait>>
queue == <<tasks, accepted>>
crew == <<thds, term>>

Listed == {thds[i] : i \in 1..Len(thds)}
Sleepers == {t \in Threads : pc[t] = "asleep"}
Ready == {t \in Threads : pc[t] = "ready"}
Unused == {t \in Threads : pc[t] = "none"}
Cap == IF MinThds > MaxThds THEN MinThds ELSE MaxThds

TypeOK ==
  /\ phase \in {"new", "running", "closing", "destroyed"}
  /\ tasks \in Seq(1..NTasks) /\ accepted \in 0..NTasks
  /\ thds \in Seq(Threads) /\ Len(thds) =< Cap /\ term \subseteq Threads
  /\ busyNum \in 0..Cap
     \* none: no such thread;  ready: wants m_mutex to read the predicate of
     \* its wait;  asleep: in m_cond's queue;  running: its task, unlocked
  /\ pc \in [Threads -> {"none", "ready", "asleep", "running"}]
  /\ job \in [Threads -> 0..NTasks]
  /\ done \subseteq 1..NTasks /\ dropped \subseteq 1..NTasks
  /\ mutex \in Threads \cup {NoThread}
  /\ dtor \in {"none", "asleep", "awake"}
  /\ wait \in [Clients -> {"no", "asleep", "returned"}]

Init ==
  /\ phase = "new" /\ tasks = <<>> /\ accepted = 0
  /\ thds = <<>> /\ term = {} /\ busyNum = 0
  /\ pc = [t \in Threads |-> "none"] /\ job = [t \in Threads |-> 0]
  /\ done = {} /\ dropped = {}
  /\ mutex = NoThread /\ dtor = "none"
  /\ wait = [c \in Clients |-> "no"]

-----------------------------------------------------------------------------
\* The lists of k new Thread objects that createAThread may produce.
Hired(k) == {s \in [1..k -> Unused] : \A i, j \in 1..k : s[i] = s[j] => i = j}

InitPool ==
  /\ phase = "new" /\ phase' = "running"
  /\ \E s \in Hired(MinThds) :
       /\ thds' = thds \o s
       /\ pc' = [t \in Threads |-> IF \E i \in 1..MinThds : s[i] = t
                                   THEN "ready" ELSE pc[t]]
  /\ UNCHANGED <<queue, term, busyNum, job, done, dropped, mutex, dtor, wait>>

(* Operators named Bad... are wrong variants of the definition that follows *)
(* them, used by no specification: plausible mistakes that the properties   *)
(* below catch.                                                             *)

\* activeSomeThread: every thread busy and enough tasks left: double the crew.
GrowBy(nbusy, ntasks) ==
  LET double == IF 2 * Len(thds) < MaxThds THEN 2 * Len(thds) ELSE MaxThds
  IN  IF nbusy >= Len(thds) /\ ntasks >= Len(thds) \div 2 /\ double > Len(thds)
      THEN double - Len(thds) ELSE 0

\* The minimum is forgotten.
BadShrinkBy(nbusy) ==
  IF tasks = <<>> /\ nbusy = 0 THEN Len(thds) - Len(thds) \div 2 ELSE 0

\* terminateSomeThread: no task and nobody busy: halve the crew, to MinThds.
ShrinkBy(nbusy) ==
  LET half == IF Len(thds) \div 2 > MinThds THEN Len(thds) \div 2 ELSE MinThds
  IN  IF tasks = <<>> /\ nbusy = 0 /\ Len(thds) > half
      THEN Len(thds) - half ELSE 0

\* The notification is forgotten.
BadNotifyOne == pc' = pc

\* notify_one and notify_all on m_cond, where only workers sleep while the
\* pool runs; a notification finds flagged sleepers as well as the others.
NotifyOne ==
  \/ Sleepers = {} /\ pc' = pc
  \/ \E t \in Sleepers : pc' = [pc EXCEPT ![t] = "ready"]
NotifyAllWorkers == [t \in Threads |-> IF pc[t] = "asleep" THEN "ready" ELSE pc[t]]

\* The task is put in front.
BadEnqueue(k) == <<k>> \o tasks
Enqueue(k) == Append(tasks, k)

AcceptTask ==
  /\ phase = "running" /\ mutex = NoThread /\ accepted < NTasks
  /\ accepted' = accepted + 1
  /\ tasks' = Enqueue(accepted + 1)
  /\ NotifyOne
  /\ UNCHANGED <<phase, crew, busyNum, job, done, dropped, mutex, dtor, wait>>

\* Under m_mutex, t reads the predicate of its wait.
Decides(t) == pc[t] = "ready" /\ mutex \in {NoThread, t}

\* The wait has no predicate.
BadNothingToDo(t) == t \notin term
NothingToDo(t) == tasks = <<>> /\ t \notin term

Sleep(t) ==
  /\ Decides(t) /\ NothingToDo(t)
  /\ pc' = [pc EXCEPT ![t] = "asleep"] /\ mutex' = NoThread
  /\ UNCHANGED <<phase, queue, crew, busyNum, job, done, dropped, dtor, wait>>

TakeTask(t) ==
  /\ Decides(t) /\ t \notin term /\ tasks # <<>>
  /\ job' = [job EXCEPT ![t] = Head(tasks)]
  /\ tasks' = Tail(tasks)
  /\ busyNum' = busyNum + 1
  /\ LET k == GrowBy(busyNum + 1, Len(tasks) - 1)
     IN  \E s \in Hired(k) :
           /\ thds' = thds \o s
           /\ pc' = [u \in Threads |-> IF u = t THEN "running"
                                       ELSE IF \E i \in 1..k : s[i] = u THEN "ready"
                                       ELSE pc[u]]
  /\ mutex' = NoThread
  /\ UNCHANGED <<phase, accepted, term, done, dropped, dtor, wait>>

\* The list without t, which is in it once (see ListIsCrew).  The wrong one keeps t.
Place(t) == CHOOSE i \in 1..Len(thds) : thds[i] = t
BadWithout(t) == thds
Without(t) == [i \in 1..Len(thds) - 1 |-> thds[IF i < Place(t) THEN i ELSE i + 1]]

\* The last worker does not tell the destructor.
BadTellDtor(left) == dtor
TellDtor(left) == IF left = <<>> /\ dtor = "asleep" THEN "awake" ELSE dtor

\* A flagged worker leaves; the last one tells the destructor.
Exit(t) ==
  /\ Decides(t) /\ t \in term
  /\ thds' = Without(t) /\ dtor' = TellDtor(Without(t))
  /\ pc' = [pc EXCEPT ![t] = "none"] /\ term' = term \ {t}
  /\ mutex' = NoThread
  /\ UNCHANGED <<phase, queue, busyNum, job, done, dropped, wait>>

OneLessBusy == busyNum - 1

\* The clients that wait for an empty list are not told.
BadTellClients == wait
TellClients ==
  [c \in Clients |->
     IF tasks = <<>> /\ wait[c] = "asleep" THEN "returned" ELSE wait[c]]

\* The task has been run and deleted and m_mutex taken again; t flags workers if
\* the pool is idle (without waking them), announces an empty task list, and goes
\* back to its predicate with m_mutex in hand.
FinishTask(t) ==
  /\ pc[t] = "running" /\ mutex = NoThread
  /\ done' = done \cup {job[t]} /\ job' = [job EXCEPT ![t] = 0]
  /\ busyNum' = OneLessBusy
  /\ term' = term \cup {thds[i] : i \in 1..ShrinkBy(OneLessBusy)}
  /\ wait' = TellClients
  /\ pc' = [pc EXCEPT ![t] = "ready"] /\ mutex' = t
  /\ UNCHANGED <<phase, queue, thds, dropped, dtor>>

\* Condition variables may wake a thread nobody notified.
SpuriousWake(t) ==
  /\ pc[t] = "asleep" /\ pc' = [pc EXCEPT ![t] = "ready"]
  /\ UNCHANGED <<phase, queue, crew, busyNum, job, done, dropped, mutex, dtor, wait>>

\* waitForAllRuningTaskDone: one bare m_notask_cond.wait, no predicate before or after.
WaitAll(c) ==
  /\ phase = "running" /\ wait[c] = "no"
  /\ wait' = [wait EXCEPT ![c] = "asleep"]
  /\ UNCHANGED <<phase, queue, crew, busyNum, pc, job, done, dropped, mutex, dtor>>

SpuriousReturn(c) ==
  /\ wait[c] = "asleep"
  /\ wait' = [wait EXCEPT ![c] = "returned"]
  /\ UNCHANGED <<phase, queue, crew, busyNum, pc, job, done, dropped, mutex, dtor>>

-----------------------------------------------------------------------------
\* ~ThreadPool, called when no client is inside the pool: every listed worker
\* is flagged and woken, then the destructor sleeps until the list is empty ...
Destroy ==
  /\ phase = "running" /\ mutex = NoThread
  /\ \A c \in Clients : wait[c] # "asleep"
  /\ phase' = "closing" /\ dtor' = "asleep"
  /\ term' = term \cup Listed
  /\ pc' = NotifyAllWorkers
  /\ UNCHANGED <<queue, thds, busyNum, job, done, dropped, mutex, wait>>

DtorSpurious ==
  /\ dtor = "asleep" /\ dtor' = "awake"
  /\ UNCHANGED <<phase, queue, crew, busyNum, pc, job, done, dropped, mutex, wait>>

CrewGone == thds = <<>>

DtorSleepsAgain ==
  /\ dtor = "awake" /\ mutex = NoThread /\ ~CrewGone
  /\ dtor' = "asleep"
  /\ UNCHANGED <<phase, queue, crew, busyNum, pc, job, done, dropped, mutex, wait>>

\* ... and deletes the tasks nobody took.
DtorEnds ==
  /\ dtor = "awake" /\ mutex = NoThread /\ CrewGone
  /\ phase' = "destroyed" /\ dtor' = "none"
  /\ dropped' = {tasks[i] : i \in 1..Len(tasks)} /\ tasks' = <<>>
  /\ UNCHANGED <<accepted, crew, busyNum, pc, job, done, mutex, wait>>

Finished == phase = "destroyed" /\ UNCHANGED vars

Decide(t) == Sleep(t) \/ TakeTask(t) \/ Exit(t)
Dtor == DtorSleepsAgain \/ DtorEnds

Next ==
  \/ InitPool \/ AcceptTask \/ Destroy \/ DtorSpurious \/ Dtor \/ Finished
  \/ \E t \in Threads : Decide(t) \/ FinishTask(t) \/ SpuriousWake(t)
  \/ \E c \in Clients : WaitAll(c) \/ SpuriousReturn(c)

Spec == Init /\ [][Next]_vars

\* An awake thread gets m_mutex and tasks end (strong fairness: others may take the
\* mutex in between, but it is free again and again).
FairSpec ==
  /\ Spec
  /\ \A t \in Threads : SF_vars(Decide(t) \/ FinishTask(t))
  /\ SF_vars(Dtor)

-----------------------------------------------------------------------------
(* Properties                                                              *)

\* Every task handed in is in one place only, queued, being run by one worker, run
\* or dropped, and tasks are taken in the order of acceptance (ThreadPool.cpp:107, 147).
OnceInOrder ==
  LET taken == accepted - Len(tasks)
      running == {job[t] : t \in {u \in Threads : pc[u] = "running"}}
  IN  /\ phase # "destroyed" =>
           /\ \A i \in 1..Len(tasks) : tasks[i] = taken + i
           /\ done \cup running = 1..taken
      /\ phase = "destroyed" => done \cup dropped = 1..accepted
      /\ done \cap running = {} /\ (done \cup running) \cap dropped = {}
      /\ \A t, u \in Threads :
           t # u /\ pc[t] = "running" /\ pc[u] = "running" => job[t] # job[u]

\* m_busy_thd_num, on which growing and shrinking rely, counts the workers that
\* run a task (ThreadPool.cpp:149, 161).
BusyCount == busyNum = Cardinality({t \in Threads : pc[t] = "running"})

\* m_thd_list holds exactly the live workers, each once: the destructor waits for
\* this list, so nobody may be alive outside it (ThreadPool.cpp:24, 40, 136).
ListIsCrew ==
  /\ Listed = Threads \ Unused
  /\ \A i, j \in 1..Len(thds) : thds[i] = thds[j] => i = j

\* However often the pool shrinks and grows, min_thd_num workers are not flagged to
\* leave: the flagged ones are a prefix of the list (ThreadPool.cpp:67-75).
CrewKept ==
  phase = "running" =>
     \E n \in 0..Len(thds) :
        /\ term = {thds[i] : i \in 1..n}
        /\ Len(thds) - n >= MinThds

\* Once the destructor has returned, no worker is left to touch the pool.
NobodyLeft ==
  phase = "destroyed" => /\ Unused = Threads /\ mutex = NoThread
                         /\ \A c \in Clients : wait[c] # "asleep"

\* What the pool knows of its workers is true, from the first to the last of them: their
\* number, the running ones, and that nobody is left (ThreadPool.cpp:24, 40, 136, 149, 161).
CrewKnown == TypeOK /\ BusyCount /\ ListIsCrew /\ NobodyLeft

\* In a pool that never shrinks (MinThds >= MaxThds) no wake-up is lost: while a
\* worker sleeps, every queued task has an awake worker (ThreadPool.cpp:108, 132).
NoLostWakeup ==
  phase = "running" /\ Sleepers # {} => Len(tasks) =< Cardinality(Ready)

\* The destructor ends, whatever the workers were doing (ThreadPool.cpp:20-24, 141).
DestroyEnds == phase = "closing" ~> phase = "destroyed"

\* An accepted task is taken by a worker, or dropped by the destructor: somebody
\* ready is told of it (ThreadPool.cpp:108).
AcceptedIsTaken ==
  \A k \in 1..NTasks :
     (\E i \in 1..Len(tasks) : tasks[i] = k) ~> (\A i \in 1..Len(tasks) : tasks[i] # k)

\* A client that waits while there is a task to take or running is told when the
\* list is empty (ThreadPool.cpp:166-168).
WaitEndsIfWork ==
  \A c \in Clients :
     (wait[c] = "asleep" /\ (tasks # <<>> \/ busyNum > 0)) ~> wait[c] = "returned"
=============================================================================
