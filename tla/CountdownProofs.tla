-------------------------- MODULE CountdownProofs --------------------------
(***************************************************************************)
(* Proofs about module Countdown, for every set of durations.  The lemmas  *)
(* on the conversions carry them: one tick of Action() is one second, and  *)
(* the six digits hold the whole time.                                     *)
(***************************************************************************)
EXTENDS Countdown, TLAPS

----------------------------------------------------------------------------
\* The conversions

(* Action() takes one second off any time that is not over, hours, minutes
   and seconds staying in their ranges. *)
LEMMA TickIsOneSecond ==
    ASSUME NEW t \in Time, t # Zero
    PROVE  /\ Tick(t) \in Time
           /\ Seconds(Tick(t)) = Seconds(t) - 1
<1>1. CASE t.second > 0
  BY <1>1 DEF Tick, Time, Seconds
<1>2. CASE t.second = 0 /\ t.minute > 0
  <2> DEFINE b == [hour |-> t.hour, minute |-> t.minute - 1, second |-> 59]
  <2>1. TakeMinute(t) = b
    BY <1>2 DEF TakeMinute, Time
  <2>2. [b EXCEPT !.second = 59] = b
    OBVIOUS
  <2>3. Tick(t) = b
    BY <1>2, <2>1, <2>2 DEF Tick, Time
  <2> QED
    BY <1>2, <2>3 DEF Time, Seconds
<1>3. CASE t.second = 0 /\ t.minute = 0
  <2>1. t.hour > 0
    BY <1>3 DEF Time, Zero
  <2>2. Tick(t) = [hour |-> t.hour - 1, minute |-> 59, second |-> 59]
    BY <1>3, <2>1 DEF Tick, TakeMinute, TakeHour, Time
  <2> QED
    BY <1>3, <2>1, <2>2 DEF Time, Seconds
<1> QED
  BY <1>1, <1>2, <1>3 DEF Time

(* createTimeArray followed by fetchTimeFromFirebase gives the time back. *)
LEMMA DigitsRoundTrip ==
    ASSUME NEW t \in Time
    PROVE  /\ Digits(t) \in Seq(Nat) /\ Len(Digits(t)) = 6
           /\ FromDigits(Digits(t)) = t
<1>1. \A n \in Nat : n \div 10 \in Nat /\ n % 10 \in Nat /\ 10 * (n \div 10) + (n % 10) = n
  OBVIOUS
<1>2. t.hour \in Nat /\ t.minute \in Nat /\ t.second \in Nat
  BY DEF Time
<1>3. Digits(t) \in Seq(Nat) /\ Len(Digits(t)) = 6
  BY <1>1, <1>2 DEF Digits
<1>4. FromDigits(Digits(t)) = [hour |-> t.hour, minute |-> t.minute, second |-> t.second]
  BY <1>1, <1>2 DEF Digits, FromDigits
<1> QED
  BY <1>3, <1>4 DEF Time

(* Only the time 0:00:00 has no seconds left. *)
LEMMA ZeroIsOver ==
    ASSUME NEW t \in Time
    PROVE  /\ Seconds(t) \in Nat
           /\ Seconds(t) = 0 <=> t = Zero
<1> DEFINE h == t.hour
           m == t.minute
           s == t.second
<1>1. h \in Nat /\ m \in Nat /\ s \in Nat
  BY DEF Time
<1>2. Seconds(t) = 3600 * h + 60 * m + s
  BY DEF Seconds
<1>3. Seconds(t) \in Nat /\ (Seconds(t) = 0 => h = 0 /\ m = 0 /\ s = 0)
  <2> HIDE DEF h, m, s
  <2> QED
    BY <1>1, <1>2
<1>4. Seconds(t) = 0 => t = Zero
  <2>1. t = [hour |-> h, minute |-> m, second |-> s]
    BY DEF Time
  <2> QED
    BY <1>3, <2>1 DEF Zero
<1>5. t = Zero => Seconds(t) = 0
  BY DEF Seconds, Zero
<1> QED
  BY <1>3, <1>4, <1>5

----------------------------------------------------------------------------
\* The invariants

(* The type of every variable: in particular hours, minutes and seconds stay
   in their ranges, and the digits in the document make a time. *)
THEOREM TypeCorrect == Spec => []TypeOK
<1>1. Init => TypeOK
  <2> SUFFICES ASSUME Init
               PROVE  TypeOK
    OBVIOUS
  <2>1. duration \in Time
    BY DurationsAssumption DEF Init
  <2>2. /\ timeArray \in Seq(Nat) /\ Len(timeArray) = 6
        /\ FromDigits(timeArray) \in Time
    BY <2>1, DigitsRoundTrip DEF Init
  <2>3. startVar \in BOOLEAN /\ ticking \in BOOLEAN /\ addFirebase \in BOOLEAN
    BY Zenon DEF Init
  <2>4. elapsed \in Nat /\ savedElapsed \in Nat /\ relaunches \in 0..MaxRelaunches
    BY BoundsAssumption DEF Init
  <2>5. timeDisplayed \in Time /\ duration \in Durations
    BY <2>1 DEF Init
  <2> QED
    BY <2>2, <2>3, <2>4, <2>5 DEF TypeOK
<1>2. TypeOK /\ [Next]_vars => TypeOK'
  <2> SUFFICES ASSUME TypeOK, [Next]_vars
               PROVE  TypeOK'
    OBVIOUS
  <2> USE DEF TypeOK
  <2>1. CASE Start
    BY <2>1 DEF Start
  <2>2. ASSUME StopAndSave PROVE TypeOK'
    <3>1. /\ Digits(timeDisplayed) \in Seq(Nat)
          /\ Len(Digits(timeDisplayed)) = 6
          /\ FromDigits(Digits(timeDisplayed)) \in Time
      BY DigitsRoundTrip
    <3> QED
      BY <2>2, <3>1 DEF StopAndSave
  <2>3. CASE CountSecond
    BY <2>3, TickIsOneSecond DEF CountSecond
  <2>4. CASE Alert
    BY <2>4 DEF Alert, Invalidate
  <2>5. CASE Relaunch
    <3>1. Zero \in Time
      BY DEF Zero, Time
    <3>2. timeDisplayed' \in Time /\ elapsed' \in Nat
      BY <2>5, <3>1 DEF Relaunch
    <3>3. relaunches' \in 0..MaxRelaunches
      BY <2>5, BoundsAssumption DEF Relaunch
    <3> QED
      BY <2>5, <3>2, <3>3 DEF Relaunch
  <2>6. CASE UNCHANGED vars
    BY <2>6 DEF vars
  <2> QED
    BY <2>1, <2>2, <2>3, <2>4, <2>5, <2>6 DEF Next, Stop, LongPress
<1> QED
  BY <1>1, <1>2, PTL DEF Spec

(* NoSecondLost is not inductive: a long press writes the digits of a finished
   habit too, and Start shows the digits as if nothing had been counted since
   they were written.  Only a started timer counts, and what it counts is
   written before it can be started again. *)
Account ==
    /\ Seconds(timeDisplayed) + elapsed = Seconds(duration)
    /\ Seconds(FromDigits(timeArray)) + savedElapsed = Seconds(duration)
    /\ addFirebase /\ ~startVar => elapsed = savedElapsed
    /\ savedElapsed <= elapsed
    /\ ticking => startVar /\ addFirebase
    /\ ~addFirebase => timeDisplayed = Zero

LEMMA AccountHolds == Spec => []Account
<1>1. Init => Account
  <2> SUFFICES ASSUME Init
               PROVE  Account
    OBVIOUS
  <2>1. duration \in Time
    BY DurationsAssumption DEF Init
  <2>2. FromDigits(timeArray) = duration /\ Seconds(duration) \in Nat
    BY <2>1, DigitsRoundTrip, ZeroIsOver DEF Init
  <2> QED
    BY <2>2 DEF Init, Account
<1>2. TypeOK /\ Account /\ [Next]_vars => Account'
  <2> SUFFICES ASSUME TypeOK, Account, [Next]_vars
               PROVE  Account'
    OBVIOUS
  <2> USE DEF Account
  <2>a. /\ timeDisplayed \in Time /\ Seconds(timeDisplayed) \in Nat
        /\ elapsed \in Nat /\ savedElapsed \in Nat
        /\ startVar \in BOOLEAN /\ ticking \in BOOLEAN /\ addFirebase \in BOOLEAN
    BY ZeroIsOver DEF TypeOK
  <2>1. CASE Start
    BY <2>1 DEF Start
  <2>2. ASSUME StopAndSave PROVE Account'
    <3>1. FromDigits(timeArray') = timeDisplayed
      BY <2>2, <2>a, DigitsRoundTrip DEF StopAndSave
    <3> QED
      BY <2>2, <3>1, <2>a DEF StopAndSave
  <2>3. CASE CountSecond
    <3>1. Seconds(timeDisplayed') = Seconds(timeDisplayed) - 1
      BY <2>3, <2>a, TickIsOneSecond DEF CountSecond
    <3> QED
      BY <2>3, <3>1, <2>a DEF CountSecond
  <2>4. CASE Alert
    BY <2>4 DEF Alert, Over, Invalidate
  <2>5. CASE Relaunch
    BY <2>5, <2>a DEF Relaunch
  <2>6. CASE UNCHANGED vars
    BY <2>6 DEF vars
  <2> QED
    BY <2>1, <2>2, <2>3, <2>4, <2>5, <2>6 DEF Next, Stop, LongPress
<1> QED
  BY <1>1, <1>2, TypeCorrect, PTL DEF Spec

(* Over any number of stops, starts, long presses and relaunches no second of
   the chosen time is lost or won, and the digits hold what was left when they
   were written. *)
THEOREM NoSecondIsLost == Spec => []NoSecondLost
<1>1. Account => NoSecondLost
  BY DEF Account, NoSecondLost
<1> QED
  BY <1>1, AccountHolds, PTL

(* A timed habit is marked finished only when all of its time was counted. *)
THEOREM FinishedIsOnTime == Spec => []FinishedOnTime
<1>1. TypeOK /\ Account => FinishedOnTime
  <2> SUFFICES ASSUME TypeOK, Account, ~addFirebase
               PROVE  elapsed = Seconds(duration)
    BY DEF FinishedOnTime
  <2>1. Seconds(timeDisplayed) = 0
    BY ZeroIsOver DEF TypeOK, Account
  <2> QED
    BY <2>1 DEF TypeOK, Account
<1> QED
  BY <1>1, TypeCorrect, AccountHolds, PTL

(* The cell implements the stopwatch of module Stopwatch: its steps take one
   second, give some back, or finish with none left. *)
THEOREM CellImplementsStopwatch == Spec => ImplementsStopwatch
<1>1. Init => Watch!Init
  BY DEF Init, Watch!Init
<1>2. TypeOK /\ TypeOK' /\ Account /\ Account' /\ [Next]_vars
        => [Watch!CountDown \/ Watch!GiveBack \/ Watch!Finish]_(Watch!vars)
  <2> SUFFICES ASSUME TypeOK, TypeOK', Account, Account', [Next]_vars
               PROVE  [Watch!CountDown \/ Watch!GiveBack \/ Watch!Finish]_(Watch!vars)
    OBVIOUS
  <2> USE DEF Watch!vars, Watch!CountDown, Watch!GiveBack, Watch!Finish
  <2>a. /\ timeDisplayed \in Time /\ Seconds(timeDisplayed) \in Nat
        /\ Seconds(timeDisplayed') \in Nat
        /\ elapsed \in Nat /\ savedElapsed \in Nat /\ elapsed' \in Nat
        /\ addFirebase \in BOOLEAN /\ addFirebase' \in BOOLEAN
        /\ Seconds(duration) \in Nat
    BY ZeroIsOver, DurationsAssumption DEF TypeOK
  <2>1. CASE Start
    <3>1. Seconds(timeDisplayed') = Seconds(timeDisplayed)
      BY <2>1, <2>a DEF Start, Account
    <3> QED
      BY <2>1, <3>1 DEF Start
  <2>2. CASE StopAndSave
    BY <2>2 DEF StopAndSave
  <2>3. CASE CountSecond
    <3>1. Seconds(timeDisplayed') = Seconds(timeDisplayed) - 1
      BY <2>3, <2>a, TickIsOneSecond DEF CountSecond
    <3> QED
      BY <2>3, <3>1, <2>a DEF CountSecond, Account
  <2>4. CASE Alert
    <3>1. Seconds(timeDisplayed) = 0
      BY <2>4, <2>a, ZeroIsOver DEF Alert, Over
    <3> QED
      BY <2>4, <3>1 DEF Alert, Account
  <2>5. CASE Relaunch
    <3>1. CASE addFirebase
      <4>1. Seconds(timeDisplayed') \in Seconds(timeDisplayed)..Seconds(duration)
        BY <2>5, <3>1, <2>a DEF Relaunch, Account
      <4> QED
        BY <2>5, <3>1, <4>1 DEF Relaunch
    <3>2. CASE ~addFirebase
      BY <2>5, <3>2 DEF Relaunch, Account
    <3> QED
      BY <3>1, <3>2
  <2>6. CASE UNCHANGED vars
    BY <2>6 DEF vars
  <2> QED
    BY <2>1, <2>2, <2>3, <2>4, <2>5, <2>6 DEF Next, Stop, LongPress
<1> QED
  BY <1>1, <1>2, TypeCorrect, AccountHolds, PTL DEF Spec, ImplementsStopwatch, Watch!Spec
============================================================================
