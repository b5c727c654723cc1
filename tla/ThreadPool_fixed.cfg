\* A pool that neither grows nor shrinks.
CONSTANTS
  Threads = {w1, w2}
  Clients = {c1}
  NTasks = 3
  MinThds = 2
  MaxThds = 2
  NoThread = NoThread
SPECIFICATION FairSpec
\* A client that waits on an idle pool waits for ever.
CHECK_DEADLOCK FALSE
INVARIANT NoLostWakeup
PROPERTIES AcceptedIsTaken WaitEndsIfWork
