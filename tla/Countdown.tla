----------------------------- MODULE Countdown -----------------------------
(***************************************************************************)
(* The countdown of one timed habit in its cell (HabitCollectionViewCell). *)
(* The cell counts in three numbers, hours, minutes and seconds, which     *)
(* Action() lowers by one second each time the timer fires.  Starting the  *)
(* timer reads them from the six digits timeArray of the habit's document, *)
(* stopping it writes them back; a process that ends in between loses what *)
(* was counted since.                                                      *)
(*                                                                         *)
(* One timer of one cell: reading and starting is one step here.  What may *)
(* happen between the two, and several cells, is module HabitTimer.        *)
(*                                                                         *)
(* A definition that stands directly before another and is used nowhere    *)
(* (DigitsSwapped, OutOfSeconds, ...) is that other one with a plausible   *)
(* mistake: the properties below are known to detect it.                   *)
(***************************************************************************)
EXTENDS Integers, Sequences

CONSTANTS
    Durations,       \* times the user may have chosen for the habit
    MaxSeconds,      \* bound: seconds counted
    MaxRelaunches    \* bound: times the process ends and is started again

Time == [hour : Nat, minute : 0..59, second : 0..59]

ASSUME DurationsAssumption == Durations \subseteq Time
ASSUME BoundsAssumption == MaxSeconds \in Nat /\ MaxRelaunches \in Nat

VARIABLES
    timeDisplayed,  \* timeDisplayedHour, ...Minute, ...Second
    timeArray,      \* the digits in the habit's document
    startVar,       \* the cell's timer was started and not stopped since
    ticking,        \* the timer is scheduled and not invalidated
    addFirebase,    \* false once the habit is finished
    duration,       \* history: the time chosen
    elapsed,        \* history: seconds counted, those lost left out
    savedElapsed,   \* history: elapsed when timeArray was written
    relaunches

vars == <<timeDisplayed, timeArray, startVar, ticking, addFirebase, duration,
          elapsed, savedElapsed, relaunches>>

Zero == [hour |-> 0, minute |-> 0, second |-> 0]

Seconds(t) == 3600 * t.hour + 60 * t.minute + t.second

----------------------------------------------------------------------------
\* Conversions

(* createTimeArray *)
DigitsSwapped(t) ==
    <<t.hour \div 10, t.hour % 10, t.minute \div 10, t.minute % 10,
      t.second % 10, t.second \div 10>>
Digits(t) ==
    <<t.hour \div 10, t.hour % 10, t.minute \div 10, t.minute % 10,
      t.second \div 10, t.second % 10>>

(* fetchTimeFromFirebase *)
FromDigits(d) ==
    [hour |-> 10 * d[1] + d[2], minute |-> 10 * d[3] + d[4],
     second |-> 10 * d[5] + d[6]]

(* Action(), when time is left.  Out of seconds it first takes a minute, and
   only when that gave no seconds an hour. *)
TakeMinute(t) ==
    IF t.minute > 0
    THEN [hour |-> t.hour, minute |-> t.minute - 1, second |-> 59]
    ELSE t

TakeHour(t) ==
    IF t.hour > 0 THEN [hour |-> t.hour - 1, minute |-> 59, second |-> 59] ELSE t

TickWithoutHour(t) ==
    IF t.second > 0 THEN [t EXCEPT !.second = @ - 1]
    ELSE LET b == TakeMinute(t)
         IN  IF b.minute = 0 THEN TakeHour(b) ELSE [b EXCEPT !.second = 59]
TickWithoutBorrow(t) == [t EXCEPT !.second = @ - 1]
Tick(t) ==
    IF t.second > 0 THEN [t EXCEPT !.second = @ - 1]
    ELSE LET b == TakeMinute(t)
         IN  IF b.minute = 0 /\ b.second = 0 THEN TakeHour(b)
             ELSE [b EXCEPT !.second = 59]

----------------------------------------------------------------------------
(* didTapConfirmTime and addHabitButtonTapped wrote the digits. *)
Init ==
    /\ duration \in Durations
    /\ timeArray = Digits(duration)
    /\ timeDisplayed = duration
    /\ startVar = FALSE
    /\ ticking = FALSE
    /\ addFirebase = TRUE
    /\ elapsed = 0
    /\ savedElapsed = 0
    /\ relaunches = 0

(* A tap on a timed habit that is not finished starts its timer ... *)
Start ==
    /\ addFirebase
    /\ ~startVar
    /\ startVar' = TRUE
    /\ ticking' = TRUE
    /\ timeDisplayed' = FromDigits(timeArray)
    /\ UNCHANGED <<timeArray, addFirebase, duration, elapsed, savedElapsed, relaunches>>

(* ... or, if it was started, stops it: startCountdown(start: false)
   invalidates the timer and saves the time. *)
StopAndSave ==
    /\ startVar' = FALSE
    /\ ticking' = FALSE
    /\ timeArray' = Digits(timeDisplayed)
    /\ savedElapsed' = elapsed
    /\ UNCHANGED <<timeDisplayed, addFirebase, duration, elapsed, relaunches>>

Stop ==
    /\ addFirebase
    /\ startVar
    /\ StopAndSave

(* A long press does the same to a timer that does not run. *)
LongPress ==
    /\ ~startVar
    /\ StopAndSave

(* The timer fires with time left. *)
CountSecond ==
    /\ ticking
    /\ timeDisplayed # Zero
    /\ elapsed < MaxSeconds
    /\ timeDisplayed' = Tick(timeDisplayed)
    /\ elapsed' = elapsed + 1
    /\ UNCHANGED <<timeArray, startVar, ticking, addFirebase, duration, savedElapsed,
                   relaunches>>

(* The timer fires with no time left: it is invalidated, and showAlert marks
   the habit finished. *)
OutOfSeconds == timeDisplayed.second = 0
Over         == timeDisplayed = Zero

InvalidateForgotten == UNCHANGED ticking
Invalidate          == ticking' = FALSE

Alert ==
    /\ ticking
    /\ Over
    /\ Invalidate
    /\ addFirebase' = FALSE
    /\ UNCHANGED <<timeDisplayed, timeArray, startVar, duration, elapsed, savedElapsed,
                   relaunches>>

(* The process ends and is started again: configure reads the time of a habit
   that is not finished from its document. *)
Relaunch ==
    /\ relaunches < MaxRelaunches
    /\ relaunches' = relaunches + 1
    /\ startVar' = FALSE
    /\ ticking' = FALSE
    /\ timeDisplayed' = IF addFirebase THEN FromDigits(timeArray) ELSE Zero
    /\ elapsed' = IF addFirebase THEN savedElapsed ELSE elapsed
    /\ UNCHANGED <<timeArray, addFirebase, duration, savedElapsed>>

Next == Start \/ Stop \/ LongPress \/ CountSecond \/ Alert \/ Relaunch

Spec == Init /\ [][Next]_vars

(* The run loop fires a scheduled timer.  The user need not start it. *)
FairSpec == Spec /\ WF_vars(CountSecond \/ Alert)

----------------------------------------------------------------------------
TypeOK ==
    /\ timeDisplayed \in Time
    /\ timeArray \in Seq(Nat) /\ Len(timeArray) = 6
    /\ FromDigits(timeArray) \in Time
    /\ startVar \in BOOLEAN /\ ticking \in BOOLEAN /\ addFirebase \in BOOLEAN
    /\ duration \in Durations
    /\ elapsed \in Nat /\ savedElapsed \in Nat
    /\ relaunches \in 0..MaxRelaunches

(* No second is lost or won across any number of stops, starts and
   relaunches: the time shown is what has not been counted, and so are the
   digits in the document as of the last time they were written. *)
NoSecondLost ==
    /\ addFirebase => Seconds(timeDisplayed) + elapsed = Seconds(duration)
    /\ Seconds(FromDigits(timeArray)) + savedElapsed = Seconds(duration)

(* A timed habit counts as finished only after every second of it has been
   counted down. *)
FinishedOnTime == ~addFirebase => elapsed = Seconds(duration)

(* A running timer ends: with the alert, unless the user stops it, the process
   ends before, or it has counted all the seconds the bound allows. *)
TimerEnds == ticking ~> (~ticking \/ elapsed = MaxSeconds)

(* The cell implements the stopwatch: in particular a finished habit is never
   counted down again, and the time left is never more than was chosen. *)
Watch == INSTANCE Stopwatch WITH
    Durations <- {Seconds(t) : t \in Durations},
    duration  <- Seconds(duration),
    remaining <- Seconds(timeDisplayed),
    done      <- ~addFirebase

ImplementsStopwatch == Watch!Spec
============================================================================
