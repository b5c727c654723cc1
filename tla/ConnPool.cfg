\* Three clients of a pool of two connections; a client keeps one connection at a
\* time, as in MysqlPool_TestDemo.  A third address lets a wrong pool make too many.
CONSTANTS
  Clients = {t1, t2, t3}
  Conns = {k1, k2, k3}
  MinConn = 2
  MaxConn = 2
  MaxHold = 1
  Calls = 2
SPECIFICATION FairSpec
INVARIANTS RecordsRight NoLostWakeup Exclusive
PROPERTIES ImplementsLease 
