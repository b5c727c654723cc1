\* Three requests and two descriptors: descriptors and ports are used again, a request
\* may find none, and a batch holds one event or two.
CONSTANTS
  Requests = {r1, r2, r3}
  MaxFds = 2
  Ports = {p1, p2}
  MaxEvents = 2
  Nothing = Nothing
  Error = Error
SPECIFICATION Spec
INVARIANTS NothingStale UnansweredIsWatched AnswerOfMyPort
PROPERTIES ImplementsAsyncRequest ArrivedIsCalledBack
CHECK_DEADLOCK FALSE
