----------------------------- MODULE Allocator -----------------------------
(***************************************************************************)
(* What a memory pool promises its client: an allocation is memory that no *)
(* live allocation has, it stays the client's until the client frees it or *)
(* resets the pool, and a request may be refused.  MemPool is shown to     *)
(* implement this specification.                                           *)
(***************************************************************************)
VARIABLE live    \* the live allocations, each a set of words of memory

Init == live = {}

Alloc == \E a \in live' \ live : /\ a # {}
                                 /\ \A b \in live : a \cap b = {}
                                 /\ live' = live \cup {a}

Free == \E a \in live : live' = live \ {a}

\* Resetting or destroying the pool takes everything back at once.
Reset == live' = {}

Next == Alloc \/ Free \/ Reset

Spec == Init /\ [][Next]_live
=============================================================================
