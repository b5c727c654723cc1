--------------------------- MODULE MCDeadlockDemo ---------------------------
(* The four threads and four mutexes of deadlock_demo.c.                   *)
EXTENDS DeadlockDemo

RingThreads == {"dog", "cat", "bird", "fish"}
RingFirst == [dog |-> 1, cat |-> 2, bird |-> 3, fish |-> 4]
RingSecond == [dog |-> 2, cat |-> 3, bird |-> 4, fish |-> 1]
=============================================================================
