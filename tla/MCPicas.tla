------------------------------- MODULE MCPicas -------------------------------
(* Two subscriptions in one group, and a timer in another, for TLC.         *)
EXTENDS PicasExecutor

CONSTANTS s1, s2, tm

OneGroup == [e \in {s1, s2, tm} |-> IF e = tm THEN "g2" ELSE "g1"]
TimerGroup == [e \in {s1, s2, tm} |-> IF e = s1 THEN "g2" ELSE "g1"]
FirstGroup == {"g1"}
SecondHighest == [e \in {s1, s2, tm} |-> IF e = s2 THEN 2 ELSE 1]

=============================================================================
