------------------------------- MODULE KeySet -------------------------------
(* What a tree of keys promises its user: after any sequence of insertions  *)
(* and deletions a search finds exactly the keys inserted and not deleted.  *)
CONSTANT Keys
VARIABLE keys

Init == keys = {}

Insert(k) == keys' = keys \cup {k}
Delete(k) == keys' = keys \ {k}

Next == \E k \in Keys : Insert(k) \/ Delete(k)

Spec == Init /\ [][Next]_keys
=============================================================================
