\* A pool that grows to two workers and flags one of them while it sleeps.
CONSTANTS
  Threads = {w1, w2}
  Clients = {}
  NTasks = 3
  MinThds = 1
  MaxThds = 2
  NoThread = NoThread
SPECIFICATION FairSpec
PROPERTY AcceptedIsTaken
