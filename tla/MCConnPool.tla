----------------------------- MODULE MCConnPool -----------------------------
(* Small instances of ConnPool for TLC.                                    *)
EXTENDS ConnPool, TLC

Symmetry == Permutations(Clients) \cup Permutations(Conns)
=============================================================================
