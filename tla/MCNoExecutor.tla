---------------------------- MODULE MCNoExecutor ----------------------------
(* A subscription and a timer in one mutually exclusive group, and a timer *)
(* in a reentrant one, for TLC.                                            *)
EXTENDS NoExecutor, TLC

CONSTANTS s1, m1, m2

MCGroup == [s \in {s1, m1, m2} |-> IF s = m2 THEN "r" ELSE "g"]
MCExclusive == {"g"}

Symmetry == Permutations(Threads) \cup Permutations(Poppers) \cup Permutations(Nodes)

=============================================================================
