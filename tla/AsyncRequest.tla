---------------------------- MODULE AsyncRequest ----------------------------
(***************************************************************************)
(* What an asynchronous request interface promises its caller: a request   *)
(* is accepted or refused, once; an accepted one is called back at most    *)
(* once, a refused one never.  AsyncDns is shown to implement this.        *)
(***************************************************************************)
EXTENDS Naturals

CONSTANT Requests

VARIABLES
  verdict,   \* what the call said of each request: "none" yet, "yes" or "no"
  calls      \* how often its callback was run

Init ==
  /\ verdict = [r \in Requests |-> "none"]
  /\ calls = [r \in Requests |-> 0]

Decide(r) ==
  /\ verdict[r] = "none"
  /\ \E v \in {"yes", "no"} : verdict' = [verdict EXCEPT ![r] = v]
  /\ UNCHANGED calls

CallBack(r) ==
  /\ verdict[r] = "yes" /\ calls[r] = 0
  /\ calls' = [calls EXCEPT ![r] = 1]
  /\ UNCHANGED verdict

Next == \E r \in Requests : Decide(r) \/ CallBack(r)

Spec == Init /\ [][Next]_<<verdict, calls>>
=============================================================================
