CONSTANTS
  Threads = {t1, t2}
  Mutexes = {m1, m2}
  None = None
SPECIFICATION FairSpec
\* The program the hooks are in may deadlock; that is what the detector is for.
CHECK_DEADLOCK FALSE
PROPERTY DeadlockReported
