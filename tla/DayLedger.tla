----------------------------- MODULE DayLedger -----------------------------
(***************************************************************************)
(* What the app promises about a day: a habit is counted up to its goal,   *)
(* is done when it got there and not before, and when a day begins every   *)
(* habit starts from nothing, all at once, with its streak one longer if   *)
(* it was done and 0 if it was not.                                        *)
(***************************************************************************)
EXTENDS Integers

CONSTANTS Rows, Goal, Timed

VARIABLES count, done, streak

Init ==
    /\ count = [n \in Rows |-> 0]
    /\ done = [n \in Rows |-> FALSE]
    /\ streak = [n \in Rows |-> 0]

Count(n) ==
    /\ ~done[n]
    /\ count[n] < Goal[n]
    /\ count' = [count EXCEPT ![n] = @ + 1]
    /\ UNCHANGED <<done, streak>>

Finish(n) ==
    /\ n \in Timed \/ count[n] = Goal[n]
    /\ done' = [done EXCEPT ![n] = TRUE]
    /\ UNCHANGED <<count, streak>>

(* The user changes the habit: what was done today was for another one. *)
StartOver(n) ==
    /\ count' = [count EXCEPT ![n] = 0]
    /\ done' = [done EXCEPT ![n] = FALSE]
    /\ UNCHANGED streak

NewDay ==
    /\ count' = [n \in Rows |-> 0]
    /\ done' = [n \in Rows |-> FALSE]
    /\ streak' = [n \in Rows |-> IF done[n] THEN streak[n] + 1 ELSE 0]

Next == NewDay \/ \E n \in Rows : Count(n) \/ Finish(n) \/ StartOver(n)
============================================================================
