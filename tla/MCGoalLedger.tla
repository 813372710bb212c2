---------------------------- MODULE MCGoalLedger ----------------------------
(* Instances of GoalLedger: one planned goal and one late goal per pass.   *)
EXTENDS GoalLedger

CONSTANTS p1, l1, l2

OnePlanned == {p1}
OneLate == {l1}
OneLatePost == {l2}
MCRank == [g \in Goals |-> CASE g = p1 -> 3 [] g = l1 -> 2 [] OTHER -> 4]
=============================================================================
