----------------------- MODULE MCIntraProcessManager ------------------------
EXTENDS IntraProcessManager, TLC

CONSTANTS p1, p2, s1, s2, s3

(* The second publisher has a topic in common with two subscriptions only. *)
MCMatches == {<<p1, s1>>, <<p1, s2>>, <<p1, s3>>, <<p2, s1>>, <<p2, s2>>}

Symmetry == Permutations({s1, s2})
=============================================================================
