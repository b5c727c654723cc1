----------------------------- MODULE MysqlConn ------------------------------
(***************************************************************************)
(* A connection of the MySQL pool (MysqlPool.cpp): plain statements, one   *)
(* prepared statement and the result of the last query.  Its clients use   *)
(* it one after the other, as MysqlPool_TestDemo.cpp does: each connects   *)
(* it, executes only what it has prepared, and reads rows only of a query  *)
(* that gave true.  The library and the server are external: a session     *)
(* may break at any moment, and mysql_ping makes a new one.                *)
(***************************************************************************)
EXTENDS Naturals, Sequences

CONSTANTS
  MaxCalls,    \* bound: statements sent
  MaxSessions, \* bound: sessions made
  MaxRows,     \* bound: rows of a result
  Columns      \* names of columns

VARIABLES
  client,    \* number of the client that has the connection, 0 when it is in the pool
  method,    \* "idle", or the method that has pinged and is to send its statement
  session, broken,    \* m_mysql: its session, and whether that broke
  stmt,      \* m_stmt: [of, in, ready] (client, session, prepared), or <<>> for NULL
  bound,     \* m_param_bind: whose values the parameter points to, 0 when not set
  res,       \* m_res: [query, next, left], or <<>> for NULL
  row,       \* m_row: <<query, row>>, or <<>> for NULL
  map,       \* m_field_idx_map: the columns it was made from
  may,       \* what the client may do: "insert", "fetch", "read"
  columns,   \* history: query -> the columns of its result, in order
  fetched,   \* history: rows the client has taken of its last query
  given,     \* history: the last value a client took, and what it asked for
  ran        \* history: inserts executed and reported: [by, in, values, told]

conn == <<session, broken, stmt, bound, res, row, map>>
hist == <<columns, fetched, given, ran>>
mysqlVars == <<client, method, conn, may, hist>>

Calls == Len(columns) + Len(ran)
Orders == {<<k>> : k \in Columns} \cup {<<k, l>> : k, l \in Columns}

-----------------------------------------------------------------------------
\* takeConn and init: the handle, the statement and the result of the client before stay.
take(c) ==
  /\ client = 0 /\ method = "idle" /\ session < MaxSessions
  /\ client' = c /\ session' = session + 1 /\ broken' = FALSE /\ may' = {}
  /\ UNCHANGED <<method, stmt, bound, res, row, map, hist>>

putBack ==
  /\ client # 0 /\ method = "idle" /\ client' = 0
  /\ UNCHANGED <<method, conn, may, hist>>

\* The session may break between any two steps (external).
Break == client # 0 /\ ~broken /\ broken' = TRUE
         /\ UNCHANGED <<client, method, session, stmt, bound, res, row, map, may, hist>>

\* mysql_ping at the head of a method makes a new session of a broken one, if it can.
ping(m) ==
  /\ client # 0 /\ method = "idle" /\ Calls < MaxCalls /\ method' = m
  /\ \/ broken /\ session < MaxSessions /\ session' = session + 1 /\ broken' = FALSE
     \/ UNCHANGED <<session, broken>>
  /\ UNCHANGED <<client, stmt, bound, res, row, map, may, hist>>

-----------------------------------------------------------------------------
(* The prepared statement                                                  *)

\* initStmtForParam does not ping.  A statement that could not be prepared stays.
initStmtForParam ==
  /\ client # 0 /\ method = "idle"
  /\ \E ok \in IF broken THEN {FALSE} ELSE BOOLEAN :
       /\ stmt' = [of |-> client, in |-> session, ready |-> ok]
       /\ may' = (may \ {"insert"}) \cup IF ok THEN {"insert"} ELSE {}
  /\ bound' = 0
  /\ UNCHANGED <<client, method, session, broken, res, row, map, hist>>

\* An index that is not below m_param_cnt is refused, so a parameter is of a statement
\* that is ready.
setstmtParam ==
  /\ client # 0 /\ method = "idle" /\ stmt # <<>> /\ stmt.ready /\ "insert" \in may
  /\ bound' = client
  /\ UNCHANGED <<client, method, session, broken, stmt, res, row, map, may, hist>>

\* A statement of an earlier session cannot be executed.  If the session breaks on the
\* way it may have been executed all the same.
executeInsert ==
  /\ method = "insert" /\ method' = "idle"
  /\ LET done(told) == ran' = Append(ran, [by |-> client, in |-> session, told |-> told,
                                           of |-> stmt.of, values |-> bound]) IN
     \/ stmt # <<>> /\ stmt.ready /\ stmt.in = session
        /\ \E told \in IF broken THEN {FALSE} ELSE BOOLEAN : done(told)
     \/ UNCHANGED ran
  /\ UNCHANGED <<client, conn, may, columns, fetched, given>>

-----------------------------------------------------------------------------
(* Queries and their results                                               *)

\* executeQuery: what it keeps of a query that fails, of one without a result, and of one
\* with a result.
Failed ==
  columns' = Append(columns, <<>>) /\ UNCHANGED <<res, map>> /\ may' = may \ {"fetch", "read"}
NoResult ==
  columns' = Append(columns, <<>>) /\ UNCHANGED map /\ res' = <<>> /\ may' = may \ {"fetch", "read"}
Stored(rows, order) ==
  /\ columns' = Append(columns, order)
  /\ res' = [query |-> Len(columns'), next |-> 1, left |-> rows] /\ map' = order
  /\ may' = (may \ {"read"}) \cup {"fetch"}

\* executeUpdate pings, and then calls executeSql, which pings; neither keeps a result.
executeUpdate ==
  /\ method = "update" /\ method' = "sql"
  /\ \/ broken /\ session < MaxSessions /\ session' = session + 1 /\ broken' = FALSE
     \/ UNCHANGED <<session, broken>>
  /\ UNCHANGED <<client, stmt, bound, res, row, map, may, hist>>

executeSql ==
  /\ method = "sql" /\ method' = "idle"
  /\ UNCHANGED <<client, conn, may, hist>>

executeQuery ==
  /\ method = "query" /\ method' = "idle"
  /\ \/ Failed
     \/ ~broken /\ (NoResult \/ \E rows \in 0..MaxRows, order \in Orders : Stored(rows, order))
  /\ fetched' = 0
  /\ UNCHANGED <<client, session, broken, stmt, bound, row, given, ran>>

nextRow ==
  /\ method = "idle" /\ "fetch" \in may /\ res # <<>>
  /\ IF res.left > 0
     THEN /\ row' = <<res.query, res.next>> /\ may' = may \cup {"read"}
          /\ res' = [res EXCEPT !.next = @ + 1, !.left = @ - 1] /\ fetched' = fetched + 1
     ELSE row' = <<>> /\ may' = may \ {"read"} /\ UNCHANGED <<res, fetched>>
  /\ UNCHANGED <<client, method, session, broken, stmt, bound, map, columns, given, ran>>

\* getStringValue, getIntValue: the first column of that name, and nothing without one.
getValue(key) ==
  /\ method = "idle" /\ "read" \in may /\ key \in {map[i] : i \in DOMAIN map}
  /\ LET i == CHOOSE j \in DOMAIN map : map[j] = key /\ \A h \in 1..(j - 1) : map[h] # key IN
     given' = [asked |-> <<Len(columns), fetched, key>>, got |-> <<row[1], row[2],
               IF i \in DOMAIN columns[row[1]] THEN columns[row[1]][i] ELSE "none">>]
  /\ UNCHANGED <<client, method, conn, may, columns, fetched, ran>>

-----------------------------------------------------------------------------
MysqlInit ==
  /\ client = 0 /\ method = "idle" /\ session = 0 /\ broken = FALSE
  /\ stmt = <<>> /\ bound = 0 /\ res = <<>> /\ row = <<>> /\ map = <<>> /\ may = {}
  /\ columns = <<>> /\ fetched = 0 /\ ran = <<>>
  /\ given = [asked |-> <<>>, got |-> <<>>]

MysqlNext ==
  \/ \E c \in {1, 2} : take(c)
  \/ putBack \/ Break
  \/ \E m \in {"query", "sql", "update"} : ping(m)
  \/ "insert" \in may /\ bound # 0 /\ ping("insert")
  \/ initStmtForParam \/ setstmtParam \/ executeInsert
  \/ executeUpdate \/ executeSql \/ executeQuery \/ nextRow \/ \E k \in Columns : getValue(k)
  \/ client = 0 /\ session = MaxSessions /\ UNCHANGED mysqlVars   \* the bound is reached

MysqlSpec == MysqlInit /\ [][MysqlNext]_mysqlVars

-----------------------------------------------------------------------------
(* Properties                                                              *)

\* A value is that of the column asked for, in the row reached, of the query made last:
\* never of a result left by an earlier query or an earlier client.
ValuesAreAsked == given.got = given.asked

\* What is inserted was prepared and filled in by the client that executes it, although
\* statement, parameters and connection outlive the client that made them.
InsertsAreMine == \A i \in DOMAIN ran : ran[i].by = ran[i].of /\ ran[i].values = ran[i].by

\* What a client reads and what it inserts is its own, although it takes over what earlier
\* clients left behind (MysqlPool.cpp:96-263).
Faithful == ValuesAreAsked /\ InsertsAreMine
=============================================================================
