--------------------------- MODULE MCHabitTimer ---------------------------
(* HabitTimer for TLC: two timed habits in two cells, or one in three. *)
EXTENDS HabitTimer, TLC

MCDurations == [r \in 0..1 |-> 1 + r]

OneDuration == [r \in {0} |-> 1]

Symmetry == Permutations(Cells)
============================================================================
