---------------------------- MODULE MCHabitForm ----------------------------
(* HabitForm for TLC; the constants are given by the configuration. *)
EXTENDS HabitForm
============================================================================
