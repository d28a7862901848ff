--------------------------- MODULE MCMultiThreaded ---------------------------
(* Two subscriptions in callback groups of their own, or in one, for TLC.  *)
EXTENDS MultiThreadedExecutor

CONSTANTS s1, s2

TwoGroups == [s \in {s1, s2} |-> IF s = s1 THEN "g1" ELSE "g2"]
OneGroup == [s \in {s1, s2} |-> "g1"]
FirstGroup == {"g1"}

=============================================================================
