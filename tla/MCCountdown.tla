---------------------------- MODULE MCCountdown ----------------------------
(* Countdown for TLC: durations on both sides of a minute, and of an hour. *)
EXTENDS Countdown

MCDurations ==
    {[hour |-> 0, minute |-> m, second |-> s] : m \in 0..1, s \in {0, 9}}
        \cup {[hour |-> h, minute |-> m, second |-> s] :
                h \in {1, 10, 23}, m \in {0, 1, 10}, s \in {0, 30}}
============================================================================
