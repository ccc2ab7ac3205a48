---------------------------- MODULE MCHabitList ----------------------------
(* HabitList for TLC: the documents of a small set of habits. *)
EXTENDS HabitList, TLC

MCData == [habit : Habits, edits : 0..MaxEdits]

Symmetry == Permutations(Habits)
============================================================================
