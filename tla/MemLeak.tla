------------------------------ MODULE MemLeak -------------------------------
(***************************************************************************)
(* memleak_detector.c: threads whose malloc leaves a file named by the     *)
(* address it got, and whose free removes it.  The allocator is external   *)
(* and gives an address again once it is free; the directory starts empty  *)
(* and every file can be made.                                             *)
(***************************************************************************)
EXTENDS Naturals, Sequences, FiniteSets

CONSTANTS
  Threads,
  Addresses    \* bound: blocks the allocator has

VARIABLES
  heap,        \* addresses the allocator has given away
  live,        \* addresses the program holds
  files,       \* the .mem files
  doing,       \* thread -> what is left of its call: a sequence of [op, ptr]
  printed,     \* history: addresses printed as a double free
  twice        \* history: addresses the program freed without holding them

vars == <<heap, live, files, doing, printed, twice>>

Does(th, op) == doing[th] # <<>> /\ Head(doing[th]).op = op
Finished(th) == doing' = [doing EXCEPT ![th] = Tail(@)]

-----------------------------------------------------------------------------
__malloc(th) ==
  /\ doing[th] = <<>> /\ twice = {}
  /\ \E p \in Addresses \ heap :
       /\ heap' = heap \cup {p} /\ doing' = [doing EXCEPT ![th] = <<[op |-> "open", ptr |-> p]>>]
  /\ UNCHANGED <<live, files, printed, twice>>

open(th) ==
  /\ Does(th, "open")
  /\ LET p == Head(doing[th]).ptr IN files' = files \cup {p} /\ live' = live \cup {p}
  /\ Finished(th)
  /\ UNCHANGED <<heap, printed, twice>>

\* The file goes before the block, so that nobody has the address again before that.
\* (BadSteps, the other order, is a wrong variant no specification uses.)
BadSteps == <<"free", "unlink">>
Steps == <<"unlink", "free">>

\* The program frees what it holds or, by mistake, an address that is free already.
__free(th) ==
  /\ doing[th] = <<>> /\ twice = {}
  /\ \E p \in live \cup (Addresses \ heap) :
       /\ live' = live \ {p} /\ twice' = twice \cup ({p} \ live)
       /\ doing' = [doing EXCEPT ![th] = [i \in 1..2 |-> [op |-> Steps[i], ptr |-> p]]]
  /\ UNCHANGED <<heap, files, printed>>

unlink(th) ==
  /\ Does(th, "unlink")
  /\ LET p == Head(doing[th]).ptr IN files' = files \ {p} /\ printed' = printed \cup ({p} \ files)
  /\ Finished(th)
  /\ UNCHANGED <<heap, live, twice>>

free(th) ==
  /\ Does(th, "free")
  /\ heap' = heap \ {Head(doing[th]).ptr} /\ Finished(th)
  /\ UNCHANGED <<live, files, printed, twice>>

-----------------------------------------------------------------------------
Init ==
  /\ heap = {} /\ live = {} /\ files = {} /\ printed = {} /\ twice = {}
  /\ doing = [th \in Threads |-> <<>>]

\* After a block is freed twice the program is not followed any further.
Next ==
  \/ \E th \in Threads : __malloc(th) \/ open(th) \/ __free(th) \/ unlink(th) \/ free(th)
  \/ twice # {} /\ (\A th \in Threads : doing[th] = <<>>) /\ UNCHANGED vars

Spec == Init /\ [][Next]_vars

-----------------------------------------------------------------------------
(* Properties                                                              *)

\* Every block the program holds has its file, also while other threads get and give back
\* blocks at the same address, and a file is of a block that is held or being freed.
FilesTell ==
  /\ live \subseteq files
  /\ \A p \in files \ live : \E th \in Threads : \E i \in DOMAIN doing[th] : doing[th][i].ptr = p

\* A double free is printed for no block that was freed once.
NoFalseAlarm == printed \subseteq twice

\* What the detector tells the user is true (memleak_detector.c:15-25, 28-35).
ToldTheTruth == FilesTell /\ NoFalseAlarm
=============================================================================
