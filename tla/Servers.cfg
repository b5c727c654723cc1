\* Two connections of four bytes, sent by two and read by three, in sockets with room for
\* two; three requests over two channels of a server that pushes one line of its own.
CONSTANTS
  Conns = {c1, c2}
  MaxBytes = 4
  Message = 2
  Size = 3
  Room = 2
  MaxChannel = 2
  MaxReq = 3
  MaxSent = 1
  Careful = TRUE
SPECIFICATION ServersSpec
INVARIANTS Served 
PROPERTIES Answered ImplementsAsyncRequest Leaves
