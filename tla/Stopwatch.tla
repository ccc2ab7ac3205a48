----------------------------- MODULE Stopwatch -----------------------------
(***************************************************************************)
(* What the app promises about a timed habit: a number of seconds that     *)
(* goes down one at a time, can be given back (the process ended before    *)
(* they were saved) but never exceeds the duration the user chose, and is  *)
(* done only when none is left.                                            *)
(***************************************************************************)
EXTENDS Integers

CONSTANT Durations    \* the durations the user may choose, in seconds

VARIABLES duration, remaining, done

vars == <<duration, remaining, done>>

Init ==
    /\ duration \in Durations
    /\ remaining = duration
    /\ done = FALSE

CountDown ==
    /\ ~done
    /\ remaining > 0
    /\ remaining' = remaining - 1
    /\ UNCHANGED <<duration, done>>

GiveBack ==
    /\ ~done
    /\ remaining' \in remaining..duration
    /\ UNCHANGED <<duration, done>>

Finish ==
    /\ ~done
    /\ remaining = 0
    /\ done' = TRUE
    /\ UNCHANGED <<duration, remaining>>

Spec == Init /\ [][CountDown \/ GiveBack \/ Finish]_vars
============================================================================
