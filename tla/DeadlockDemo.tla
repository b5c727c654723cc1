---------------------------- MODULE DeadlockDemo ----------------------------
(***************************************************************************)
(* The program of 11_deadlock_detector/deadlock_demo.c under the detector: *)
(* each thread locks a first and then a second mutex, unlocks them in the  *)
(* reverse order and ends; the mutexes go round in a ring.                 *)
(***************************************************************************)
EXTENDS DeadlockDetector

CONSTANTS First, Second   \* First[t], Second[t]: the mutexes thread t locks

VARIABLE at   \* at[t]: statements of its function thread t has begun

demoVars == <<vars, at>>

DemoInit == Init /\ at = [t \in Threads |-> 0]

\* The next statement of thread t's function.
Statement(t) ==
  /\ \/ at[t] = 0 /\ BeforeLock(t, First[t])
     \/ at[t] = 1 /\ BeforeLock(t, Second[t])
     \/ at[t] = 2 /\ RealUnlock(t, Second[t])
     \/ at[t] = 3 /\ RealUnlock(t, First[t])
  /\ at' = [at EXCEPT ![t] = @ + 1]

InHook(t) == Step(t) /\ UNCHANGED at
DemoDetect == Detect /\ UNCHANGED at

\* main has joined every thread.
Joined == (\A t \in Threads : at[t] = 4 /\ pc[t] = "idle") /\ UNCHANGED demoVars

DemoNext == DemoDetect \/ Joined \/ \E t \in Threads : Statement(t) \/ InHook(t)

\* Threads are scheduled, and the detector runs every five seconds.
DemoSpec ==
  /\ DemoInit /\ [][DemoNext]_demoVars
  /\ WF_demoVars(DemoDetect)
  /\ \A t \in Threads : WF_demoVars(Statement(t) \/ InHook(t))

-----------------------------------------------------------------------------
\* The demo shows what it is for: its threads all end, or their deadlock is printed;
\* the wrong edges a late after_unlock leaves behind never hide it here, because a
\* thread of the ring has unlocked nothing when it blocks (deadlock_demo.c:12-66).
EndsOrReported ==
  <>(reported \/ \A t \in Threads : at[t] = 4 /\ pc[t] = "idle")
=============================================================================
