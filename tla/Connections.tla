---------------------------- MODULE Connections -----------------------------
(***************************************************************************)
(* The connections to a server that are used by one client at a time, side *)
(* by side: a context of hiredis with its socket, the Redis wrapper around *)
(* a context that has one, and the MySQL connection.  They share nothing.  *)
(***************************************************************************)
EXTENDS RedisConnect, MysqlConn, RedisConn

\* What a call gives its caller, and what it leaves behind, belongs to that call, whatever
\* the calls and the clients before it have left behind: the socket, the reply of Redis, the
\* row of MySQL and the insert (net.c:265-477, RedisConn.cpp:15-214, MysqlPool.cpp:96-263).
CallsFaithful == SocketRight /\ RepliesRight /\ Faithful
=============================================================================
