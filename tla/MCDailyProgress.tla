-------------------------- MODULE MCDailyProgress --------------------------
(* DailyProgress for TLC: two counted habits and a timed one. *)
EXTENDS DailyProgress

MCGoal == [h \in Rows |-> IF h = 0 THEN 2 ELSE 1]
============================================================================
