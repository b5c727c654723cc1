\* One worker at least, three at most: the pool doubles, fills up, shrinks and is
\* destroyed at any moment.  A fourth identity lets a wrong pool hire too many.
CONSTANTS
  Threads = {w1, w2, w3, w4}
  Clients = {}
  NTasks = 5
  MinThds = 1
  MaxThds = 3
  NoThread = NoThread
SPECIFICATION FairSpec
INVARIANTS OnceInOrder CrewKnown CrewKept
PROPERTY DestroyEnds
