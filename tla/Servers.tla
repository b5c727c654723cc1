------------------------------ MODULE Servers -------------------------------
(***************************************************************************)
(* The two programs that live in an event loop: the echo server with its   *)
(* client, and a program that uses the asynchronous interface of hiredis.  *)
(* One of them runs, the other stays as it began, where nothing of it that *)
(* has fairness is enabled.                                                *)
(***************************************************************************)
EXTENDS EchoServer, AsyncRedis

VARIABLE which

\* Bound: two requests over two channels, or three over the first.
Bounded == made[MaxReq] # "" => \A ch \in Channels \ {1} : ~Listening(ch)

ServersInit == which \in {"echo", "redis"} /\ EchoInit /\ Init

ServersNext ==
  \/ which = "echo" /\ EchoNext /\ UNCHANGED <<which, vars>>
  \/ which = "redis" /\ Next /\ Bounded' /\ UNCHANGED <<which, echoVars>>

ServersSpec ==
  ServersInit /\ [][ServersNext]_<<which, echoVars, vars>> /\ EchoFairness /\ Fairness
=============================================================================
