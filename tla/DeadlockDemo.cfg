CONSTANTS
  Threads <- RingThreads
  Mutexes = {1, 2, 3, 4}
  None = None
  First <- RingFirst
  Second <- RingSecond
SPECIFICATION DemoSpec
\* Threads that deadlock stop there.
CHECK_DEADLOCK FALSE
PROPERTY EndsOrReported
