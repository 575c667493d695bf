---------------------------- MODULE TrafficReportMC ----------------------------
(* A small instance of TrafficReport for TLC: two monitors that overlap in *)
(* one of three behaviours only.  EventuallyBilled rules out symmetry.     *)
EXTENDS TrafficReport

CONSTANTS s1, s2, m1, m2

Behaviours == {{"lost_push", "crash"}, {"lost_answer"}, {"overlap"}}

\* Two units show what is counted while a report is under way.
Uneven == [s \in Subs |-> IF s = s1 THEN 2 ELSE 1]
=============================================================================
