----------------------------- MODULE RedisConn ------------------------------
(***************************************************************************)
(* The wrapper RedisConn.cpp around a blocking context of hiredis: connect *)
(* and log in, then one command and one reply at a time.  The socket takes *)
(* and brings bytes in parts (a command and a reply have two halves here); *)
(* the server is external and may go away at any moment.                   *)
(*                                                                         *)
(* Commands and replies are named by the number of the command.  A method  *)
(* that gives its caller the value in reply n has gave n; one that gives   *)
(* the default (false, 0 or "") has gave 0.                                *)
(***************************************************************************)
EXTENDS Naturals, Sequences

CONSTANTS
  MaxCmd,     \* bound: commands sent, those of Init among them
  Password    \* TRUE if Init is given one

ASSUME WrapperAssumption == MaxCmd \in Nat

Cmds == 1..MaxCmd

\* The type of reply each method takes its result from.
GeneralCmds == {<<"EXISTS", "int">>, <<"DEL", "int">>, <<"FLUSHDB", "status">>}
StringCmds ==
  {<<"GET", "string">>, <<"SET", "status">>, <<"SETEX", "status">>, <<"SETNX", "int">>,
   <<"MSET", "status">>, <<"MGET", "array">>, <<"INCR", "int">>, <<"DECR", "int">>}
ListCmds ==
  {<<"LPUSH", "int">>, <<"RPUSH", "int">>, <<"LPOP", "string">>, <<"RPOP", "string">>,
   <<"LLEN", "int">>, <<"LRANGE", "array">>}
HashCmds ==
  {<<"HGET", "string">>, <<"HSET", "int">>, <<"HDEL", "int">>, <<"HGETALL", "array">>}
ReplyTypes == {cmd[2] : cmd \in GeneralCmds \cup StringCmds \cup ListCmds \cup HashCmds}

VARIABLES
  m_pContext,  \* "NULL", "ok", or "err" once its err is set
  awaits,      \* "nothing", or the reply to "AUTH", "SELECT" or a "call"
  want,        \* the type of reply the call takes its result from
  asked,       \* number of the last command made
  obuf, rbuf,      \* what is to be written, and what was read
  wire, back, up,  \* the connection, and whether the server is there
  base,        \* the database of the connection, at the server
  gave,        \* history: what the call of each command gave, 0 before
  executed,    \* history: the databases the server executed each command in
  refused      \* history: a SELECT of this context was not answered with OK

wrapper == <<m_pContext, awaits, want, asked, obuf, rbuf>>
server == <<wire, back, up, base, executed>>
wrapperVars == <<wrapper, server, gave, refused>>

\* Command n, or its reply: what it is, and the type.
Half(i, n, kind) == [half |-> i, of |-> n, kind |-> kind]
Halves(n, kind) == <<Half(1, n, kind), Half(2, n, kind)>>

-----------------------------------------------------------------------------
(* What the wrapper does with a reply, or without one (type "none")        *)

Value(n, type) == IF type = want THEN n ELSE 0

Send(what) == asked' = asked + 1 /\ obuf' = obuf \o Halves(asked + 1, what)

Auth(type) ==
  IF type = "status"
  THEN awaits' = "SELECT" /\ Send("SELECT") /\ UNCHANGED m_pContext
  ELSE awaits' = "nothing" /\ m_pContext' = "NULL" /\ UNCHANGED <<asked, obuf>>     \* DeInit

Finish(n, type) ==
  \/ awaits = "AUTH" /\ Auth(type) /\ UNCHANGED <<gave, refused>>
  \/ /\ awaits = "SELECT" /\ awaits' = "nothing" /\ refused' = (type # "status")
     /\ UNCHANGED <<m_pContext, asked, obuf, gave>>
  \/ /\ awaits = "call" /\ awaits' = "nothing" /\ gave' = [gave EXCEPT ![asked] = Value(n, type)]
     /\ UNCHANGED <<m_pContext, asked, obuf, refused>>

-----------------------------------------------------------------------------
(* redisGetReply                                                           *)

Replied == \E i \in DOMAIN rbuf : rbuf[i].half = 2

redisGetReply ==
  /\ awaits # "nothing" /\ Replied
  /\ Finish(rbuf[2].of, rbuf[2].kind) /\ rbuf' = SubSeq(rbuf, 3, Len(rbuf))
  /\ UNCHANGED <<want, server>>

\* The socket fails, or (__redisSetError) has failed before: no reply.  (BadFail, which
\* does not remember the error, is a wrong variant no specification uses.)
BadFail == Finish(0, "none")
Fail ==
  IF awaits = "AUTH" THEN Finish(0, "none")
  ELSE /\ m_pContext' = "err" /\ awaits' = "nothing"
       /\ refused' = (refused \/ awaits = "SELECT")
       /\ UNCHANGED <<asked, obuf, gave>>

redisBufferWrite ==
  /\ awaits # "nothing" /\ m_pContext = "ok" /\ ~Replied /\ obuf # <<>>
  /\ \/ /\ \E n \in 1..Len(obuf) :
             wire' = wire \o SubSeq(obuf, 1, n) /\ obuf' = SubSeq(obuf, n + 1, Len(obuf))
        /\ UNCHANGED <<m_pContext, awaits, asked, gave, refused>>
     \/ ~up /\ Fail /\ UNCHANGED wire
  /\ UNCHANGED <<want, rbuf, back, up, base, executed>>

redisBufferRead ==
  /\ awaits # "nothing" /\ m_pContext = "ok" /\ ~Replied /\ obuf = <<>>
  /\ \/ /\ \E n \in 1..Len(back) :
             rbuf' = rbuf \o SubSeq(back, 1, n) /\ back' = SubSeq(back, n + 1, Len(back))
        /\ UNCHANGED <<m_pContext, awaits, asked, obuf, gave, refused>>
     \/ ~up /\ Fail /\ UNCHANGED <<rbuf, back>>
  /\ UNCHANGED <<want, wire, up, base, executed>>

GiveUp ==
  /\ awaits # "nothing" /\ m_pContext = "err" /\ ~Replied
  /\ Fail
  /\ UNCHANGED <<want, rbuf, server>>

-----------------------------------------------------------------------------
(* The methods                                                             *)

\* RedisConn::Init.  A context that is there is not connected again, whatever its state.
Login ==
  /\ awaits = "nothing" /\ m_pContext = "NULL" /\ asked + 2 <= MaxCmd
  /\ LET first == IF Password THEN "AUTH" ELSE "SELECT" IN
     /\ m_pContext' = "ok" /\ awaits' = first
     /\ asked' = asked + 1 /\ obuf' = Halves(asked + 1, first)
  /\ rbuf' = <<>> /\ wire' = <<>> /\ back' = <<>> /\ up' = TRUE /\ base' = "0"
  /\ refused' = FALSE
  /\ UNCHANGED <<want, gave, executed>>

DeInit ==
  /\ awaits = "nothing" /\ m_pContext # "NULL"
  /\ m_pContext' = "NULL"
  /\ UNCHANGED <<awaits, want, asked, obuf, rbuf, server, gave, refused>>

\* A method without a context gives the default and does nothing.
Call(type) ==
  /\ awaits = "nothing" /\ m_pContext # "NULL" /\ asked < MaxCmd
  /\ Send(type) /\ awaits' = "call" /\ want' = type
  /\ UNCHANGED <<m_pContext, rbuf, server, gave, refused>>

-----------------------------------------------------------------------------
(* The server (external): it may refuse a command, or find nothing.        *)

Execute ==
  /\ up /\ Len(wire) >= 2
  /\ LET n == wire[1].of
         what == wire[1].kind
     IN
     /\ \E type \in {"error"} \cup IF what \in ReplyTypes THEN {what, "nil"} ELSE {"status"} :
          /\ back' = back \o Halves(n, type)
          /\ base' = IF what = "SELECT" /\ type = "status" THEN "chosen" ELSE base
     /\ executed' = [executed EXCEPT ![n] = Append(@, base)]
  /\ wire' = SubSeq(wire, 3, Len(wire))
  /\ UNCHANGED <<wrapper, up, gave, refused>>

Vanish == up /\ up' = FALSE /\ UNCHANGED <<wrapper, wire, back, base, executed, gave, refused>>

-----------------------------------------------------------------------------
WrapperInit ==
  /\ m_pContext = "NULL" /\ awaits = "nothing" /\ want = "int" /\ asked = 0
  /\ obuf = <<>> /\ rbuf = <<>> /\ wire = <<>> /\ back = <<>> /\ up = FALSE /\ base = "0"
  /\ gave = [n \in Cmds |-> 0] /\ executed = [n \in Cmds |-> <<>>]
  /\ refused = FALSE

WrapperNext ==
  \/ Login \/ DeInit \/ \E type \in ReplyTypes : Call(type)
  \/ redisBufferWrite \/ redisBufferRead \/ redisGetReply \/ GiveUp
  \/ Execute \/ Vanish
  \/ awaits = "nothing" /\ asked + 2 > MaxCmd /\ UNCHANGED wrapperVars   \* the bound is reached

WrapperSpec == WrapperInit /\ [][WrapperNext]_wrapperVars

-----------------------------------------------------------------------------
(* Properties                                                              *)

\* A value a call gives its caller is the server's answer to that very command, which
\* the server executed, and no command is executed twice.
AnswersAreMine ==
  \A n \in Cmds : /\ gave[n] \in {0, n}
                  /\ gave[n] = n => Len(executed[n]) = 1
                  /\ Len(executed[n]) <= 1

\* A command is executed in the database given to Init unless the SELECT of that Init
\* failed: the context stays, Init gives false, and the calls go to database 0
\* (RedisConn.cpp:190-193).
RightBase ==
  m_pContext # "NULL" /\ awaits = "call" /\ ~refused =>
    \A i \in DOMAIN executed[asked] : executed[asked][i] = "chosen"

\* A call gives what the server answered to its own command, in its own database, however
\* the commands before it have ended (RedisConn.cpp:15-148, 150-214).
RepliesRight == AnswersAreMine /\ RightBase
=============================================================================
