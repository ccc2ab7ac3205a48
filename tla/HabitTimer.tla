---------------------------- MODULE HabitTimer ----------------------------
(***************************************************************************)
(* The timers of the timed habits, in cells that the collection view       *)
(* reuses.                                                                 *)
(*                                                                         *)
(* A tap on a timed habit asks Firestore for the time that is left, and    *)
(* the timer is scheduled when the answer has come; by then the user may   *)
(* have tapped again.  The timer belongs to the cell object, and when the  *)
(* list is loaded again the cell may be given to another habit:            *)
(* cellForItemAt is meant to invalidate the timers kept in timerArray      *)
(* before that.                                                            *)
(*                                                                         *)
(* The digits of a time, and what a tick does to them, are module          *)
(* Countdown: here a time is a number of seconds.  The habits are timed    *)
(* and arrive in their order (HabitFetch has every order); a counted habit *)
(* stands beside them.                                                     *)
(*                                                                         *)
(* A definition that stands directly before another and is used nowhere    *)
(* (InvalidateLater, SaveForgotten, ...) is that other one with a          *)
(* plausible mistake: the properties below are known to detect it.         *)
(***************************************************************************)
EXTENDS Integers, Sequences, SequencesExt, FiniteSets

CONSTANTS
    Cells,          \* cell objects of the collection view
    Durations,      \* row -> seconds chosen for the timed habit in that row
    MaxStarts,      \* bound: timers started
    MaxFetches,     \* bound: times the list is loaded again
    MaxPending,     \* bound: reads and answers pending when the user adds to them
    MaxReadErrors,  \* bound: reads that end with an error
    MaxRelaunches   \* bound: times the process ends and is started again

Rows == DOMAIN Durations

ASSUME DurationsAssumption ==
    /\ IsFiniteSet(Rows) /\ Rows = 0..(Cardinality(Rows) - 1)
    /\ Durations \in [Rows -> Nat]
ASSUME CellsAssumption == IsFiniteSet(Cells) /\ Cardinality(Cells) >= Cardinality(Rows)
ASSUME BoundsAssumption ==
    {MaxStarts, MaxFetches, MaxPending, MaxReadErrors, MaxRelaunches} \subseteq Nat

VARIABLES
    time,           \* timeArray in each habit's document
    addFirebase,    \* false for a finished habit, in the list and its document
    loaded,         \* number of habits in habitArray
    cellAt,         \* the cells on the screen: row -> cell
    indexPathCell,  \* row each cell was configured for last
    pressed,        \* cells that show the buttons of a long press
    displayed,      \* timeDisplayed of each cell
    startVar,       \* startVar, and timerRunning, of each cell
    timer,          \* the timer each cell holds: that of its last start, or 0
    live,           \* timers scheduled and not invalidated
    timerArray,     \* timers the controller was handed since it cleared them
    reads,          \* reads of timeArray not answered yet
    mainQueue,      \* their answers, oldest first
    app,            \* "running" or "indexTrap"
    starts, fetches, readErrors, relaunches

screenVars == <<cellAt, indexPathCell, pressed>>
cellVars   == <<screenVars, displayed, startVar, timer>>
timerVars  == <<live, timerArray>>
countVars  == <<starts, fetches, readErrors, relaunches>>
vars == <<time, addFirebase, loaded, cellVars, timerVars, reads, mainQueue, app, countVars>>

(* Cell c asks for the document of row r; id is the timer to start with the
   answer, 0 when configure asks only to show the time. *)
ReadOffByOne(c, r, id) ==
    [cell |-> c, row |-> IF r + 1 \in Rows THEN r + 1 ELSE r, id |-> id]
Read(c, r, id) == [cell |-> c, row |-> r, id |-> id]

Timer(id, c, r, repeats) == [id |-> id, cell |-> c, row |-> r, repeats |-> repeats]

Idle == reads = <<>> /\ mainQueue = <<>>

MayAdd == Len(reads) + Len(mainQueue) <= MaxPending

Without(timers, id) == {t \in timers : t.id # id}

----------------------------------------------------------------------------
\* Cells

(* cellForItemAt first invalidates the timers the controller was handed, but
   only when timerArray.count - 1 > 0. *)
InvalidateLater  == Cardinality(timerArray) > 2
InvalidateTimers == Cardinality(timerArray) > 1

CellForItem ==
    IF InvalidateTimers
    THEN /\ live' = {t \in live : t.id \notin timerArray}
         /\ timerArray' = {}
    ELSE UNCHANGED timerVars

(* The cells are configured: their buttons are hidden, and configure asks for
   the time of every habit that is not finished, in some order. *)
Configure(cells) ==
    /\ CellForItem
    /\ indexPathCell' = [c \in Cells |-> IF \E r \in DOMAIN cells : cells[r] = c
                                        THEN CHOOSE r \in DOMAIN cells : cells[r] = c
                                        ELSE indexPathCell[c]]
    /\ pressed' = pressed \ {cells[r] : r \in DOMAIN cells}
    /\ \E order \in SetToSeqs({r \in DOMAIN cells : addFirebase[r]}) :
          reads' = reads \o [i \in DOMAIN order |-> Read(cells[order[i]], order[i], 0)]

(* reloadData with the first n habits: any cell may be given to any of them. *)
ReloadData(n) ==
    \E cells \in [0..(n - 1) -> Cells] :
        /\ \A r, s \in 0..(n - 1) : cells[r] = cells[s] => r = s
        /\ cellAt' = cells
        /\ Configure(cells)

(* reloadItems with one habit: its cell, or one that is not on the screen. *)
ReloadItem(r) ==
    \E c \in Cells \ {cellAt[s] : s \in DOMAIN cellAt \ {r}} :
        /\ cellAt' = [cellAt EXCEPT ![r] = c]
        /\ Configure([s \in {r} |-> c])

(* fetchFirebaseHabits empties the list; the cells stay on the screen. *)
Fetch ==
    /\ app = "running"
    /\ fetches < MaxFetches
    /\ MayAdd
    /\ fetches' = fetches + 1
    /\ loaded' = 0
    /\ UNCHANGED <<time, addFirebase, cellVars, timerVars, reads, mainQueue, app,
                   starts, readErrors, relaunches>>

HabitArrives ==
    /\ app = "running"
    /\ loaded \in Rows
    /\ loaded' = loaded + 1
    /\ ReloadData(loaded + 1)
    /\ UNCHANGED <<time, addFirebase, displayed, startVar, timer, mainQueue, app, countVars>>

(* A tap on a counted habit has its own cell configured again. *)
TapCounted ==
    /\ app = "running"
    /\ CellForItem
    /\ UNCHANGED <<time, addFirebase, loaded, cellVars, reads, mainQueue, app, countVars>>

----------------------------------------------------------------------------
\* Starting and stopping

(* The timed habit in row r can be touched, and its cell is c. *)
CanTouch(r, c) ==
    /\ app = "running"
    /\ r < loaded
    /\ r \in DOMAIN cellAt
    /\ c = cellAt[r]

(* A tap on a cell that shows its buttons hides them. *)
TapPressed(r, c) ==
    /\ CanTouch(r, c)
    /\ c \in pressed
    /\ MayAdd
    /\ ReloadItem(r)
    /\ UNCHANGED <<time, addFirebase, loaded, displayed, startVar, timer, mainQueue, app,
                   countVars>>

(* Any other tap on a habit that is not finished. *)
CanTap(r, c) == CanTouch(r, c) /\ c \notin pressed /\ addFirebase[r]

(* startCountdown(start: true): the timer waits for the answer. *)
Start(r, c) ==
    /\ CanTap(r, c)
    /\ ~startVar[c]
    /\ starts < MaxStarts
    /\ MayAdd
    /\ starts' = starts + 1
    /\ startVar' = [startVar EXCEPT ![c] = TRUE]
    /\ reads' = Append(reads, Read(c, r, starts'))
    /\ UNCHANGED <<time, addFirebase, loaded, screenVars, displayed, timer, timerVars,
                   mainQueue, app, fetches, readErrors, relaunches>>

(* startCountdown(start: false): invalidate the timer the cell holds, write
   the time it displays. *)
InvalidateForgotten(c) == live' = live
Invalidate(c)          == live' = Without(live, timer[c])

SaveForgotten(r, c) == time' = time
Save(r, c)          == time' = [time EXCEPT ![r] = displayed[c]]

StopCountdown(r, c) ==
    /\ Invalidate(c)
    /\ Save(r, c)
    /\ startVar' = [startVar EXCEPT ![c] = FALSE]
    /\ UNCHANGED <<addFirebase, loaded, cellAt, indexPathCell, displayed, timer,
                   timerArray, reads, mainQueue, app, countVars>>

Stop(r, c) ==
    /\ CanTap(r, c)
    /\ startVar[c]
    /\ StopCountdown(r, c)
    /\ UNCHANGED pressed

(* A long press shows the buttons, unless the cell's timer was started. *)
LongPress(r, c) ==
    /\ CanTouch(r, c)
    /\ ~startVar[c]
    /\ StopCountdown(r, c)
    /\ pressed' = pressed \cup {c}

----------------------------------------------------------------------------
\* Firestore's answers

Answer(i, snap) ==
    /\ mainQueue' = Append(mainQueue, [read |-> reads[i], snap |-> snap])
    /\ reads' = RemoveAt(reads, i)
    /\ UNCHANGED <<time, addFirebase, loaded, cellVars, timerVars, app, starts, fetches,
                   relaunches>>

AnswerTime(i) ==
    /\ app = "running"
    /\ Answer(i, <<time[reads[i].row]>>)
    /\ UNCHANGED readErrors

AnswerError(i) ==
    /\ app = "running"
    /\ readErrors < MaxReadErrors
    /\ readErrors' = readErrors + 1
    /\ Answer(i, <<>>)

(* The time is shown, and a timer that waited for it scheduled: it repeats
   only if the cell still counts as started.  (The group's notify block
   follows the completion block; nothing is dispatched in between.) *)
RegisterForgotten(id) == timerArray' = timerArray
Register(id)          == timerArray' = timerArray \cup {id}

RunTime ==
    /\ app = "running"
    /\ mainQueue # <<>>
    /\ mainQueue' = Tail(mainQueue)
    /\ LET read == Head(mainQueue).read
           snap == Head(mainQueue).snap
           c    == read.cell
       IN  /\ displayed' = IF snap = <<>> THEN displayed
                           ELSE [displayed EXCEPT ![c] = snap[1]]
           /\ IF read.id = 0
              THEN UNCHANGED <<timer, timerVars>>
              ELSE /\ timer' = [timer EXCEPT ![c] = read.id]
                   /\ live' = live \cup {Timer(read.id, c, read.row, startVar[c])}
                   /\ Register(read.id)
    /\ UNCHANGED <<time, addFirebase, loaded, screenVars, startVar, reads,
                   app, countVars>>

----------------------------------------------------------------------------
\* The timer fires

(* The test Action begins with. *)
TimeLeftForgotten(c) == TRUE
TimeLeft(c)          == displayed[c] > 0

Fired(t, timers) == IF t.repeats THEN timers ELSE timers \ {t}

CountSecond(t) ==
    /\ app = "running"
    /\ TimeLeft(t.cell)
    /\ displayed' = [displayed EXCEPT ![t.cell] = @ - 1]
    /\ live' = Fired(t, live)
    /\ UNCHANGED <<time, addFirebase, loaded, screenVars, startVar, timer,
                   timerArray, reads, mainQueue, app, countVars>>

(* No time is left: the timer the cell holds is invalidated, and showAlert
   marks the habit of the cell's row as finished and configures the cell, which
   hides its buttons; of a finished habit configure asks for nothing. *)
Alert(t) ==
    /\ app = "running"
    /\ ~TimeLeft(t.cell)
    /\ live' = Fired(t, Without(live, timer[t.cell]))
    /\ LET r == indexPathCell[t.cell]
       IN  IF r < loaded
           THEN /\ addFirebase' = [addFirebase EXCEPT ![r] = FALSE]
                /\ pressed' = pressed \ {t.cell}
                /\ UNCHANGED app
           ELSE app' = "indexTrap" /\ UNCHANGED <<addFirebase, pressed>>
    /\ UNCHANGED <<time, loaded, cellAt, indexPathCell, displayed, startVar, timer,
                   timerArray, reads, mainQueue, countVars>>

----------------------------------------------------------------------------
Init ==
    /\ time = Durations
    /\ addFirebase = [r \in Rows |-> TRUE]
    /\ loaded = 0
    /\ cellAt = [r \in {} |-> 0]
    /\ indexPathCell = [c \in Cells |-> 0]
    /\ pressed = {}
    /\ displayed = [c \in Cells |-> 0]
    /\ startVar = [c \in Cells |-> FALSE]
    /\ timer = [c \in Cells |-> 0]
    /\ live = {}
    /\ timerArray = {}
    /\ reads = <<>>
    /\ mainQueue = <<>>
    /\ app = "running"
    /\ starts = 0 /\ fetches = 0 /\ readErrors = 0 /\ relaunches = 0

(* The process ends and is started again: only the documents are left. *)
Relaunch ==
    /\ relaunches < MaxRelaunches
    /\ relaunches' = relaunches + 1
    /\ loaded' = 0
    /\ cellAt' = [r \in {} |-> 0]
    /\ indexPathCell' = [c \in Cells |-> 0]
    /\ pressed' = {}
    /\ displayed' = [c \in Cells |-> 0]
    /\ startVar' = [c \in Cells |-> FALSE]
    /\ timer' = [c \in Cells |-> 0]
    /\ live' = {}
    /\ timerArray' = {}
    /\ reads' = <<>>
    /\ mainQueue' = <<>>
    /\ app' = "running"
    /\ UNCHANGED <<time, addFirebase, starts, fetches, readErrors>>

User ==
    \/ \E r \in Rows, c \in Cells :
          Start(r, c) \/ Stop(r, c) \/ LongPress(r, c) \/ TapPressed(r, c)
    \/ TapCounted

Fire == \E t \in live : CountSecond(t) \/ Alert(t)

System ==
    \/ HabitArrives
    \/ \E i \in DOMAIN reads : AnswerTime(i)
    \/ RunTime
    \/ Fire

ReadFails == \E i \in DOMAIN reads : AnswerError(i)

Next == User \/ Fetch \/ System \/ ReadFails \/ Relaunch

Spec == Init /\ [][Next]_vars

(* The reads of a cell that was configured twice are answered in their order. *)
PromptSystem ==
    \/ HabitArrives
    \/ reads # <<>> /\ AnswerTime(1)
    \/ RunTime
    \/ Fire

(* A user who waits until every time is shown and every timer started ... *)
WaitingNext ==
    \/ Idle /\ loaded \notin Rows /\ User
    \/ Idle /\ Fetch
    \/ PromptSystem

WaitingSpec == Init /\ [][WaitingNext]_vars

(* ... and who adds, edits or deletes a habit only when no timer runs. *)
CarefulNext ==
    \/ Idle /\ loaded \notin Rows /\ User
    \/ Idle /\ live = {} /\ Fetch
    \/ PromptSystem
    \/ ReadFails
    \/ Relaunch

(* Firestore answers, the main queue runs its blocks and the run loop fires
   the timers, whatever else there is to do. *)
CarefulSpec ==
    Init /\ [][CarefulNext]_vars /\ WF_vars(PromptSystem) /\ WF_vars(Fire)

----------------------------------------------------------------------------
\* Properties

TimerType  == [id : 1..MaxStarts, cell : Cells, row : Rows, repeats : BOOLEAN]
ReadType   == [cell : Cells, row : Rows, id : 0..MaxStarts]
AnswerType == [read : ReadType, snap : Seq(Nat)]

ListOK ==
    /\ time \in [Rows -> Nat] /\ addFirebase \in [Rows -> BOOLEAN]
    /\ loaded \in 0..Cardinality(Rows)
    /\ app \in {"running", "indexTrap"}

ScreenOK ==
    /\ DOMAIN cellAt \subseteq Rows /\ \A r \in DOMAIN cellAt : cellAt[r] \in Cells
    /\ indexPathCell \in [Cells -> Rows \cup {0}]
    /\ pressed \subseteq Cells

TimersOK ==
    /\ displayed \in [Cells -> Nat] /\ startVar \in [Cells -> BOOLEAN]
    /\ timer \in [Cells -> 0..MaxStarts]
    /\ timerArray \subseteq 1..MaxStarts /\ live \subseteq TimerType

QueuesOK == reads \in Seq(ReadType) /\ mainQueue \in Seq(AnswerType)

CountsOK ==
    /\ starts \in 0..MaxStarts /\ fetches \in 0..MaxFetches
    /\ readErrors \in 0..MaxReadErrors /\ relaunches \in 0..MaxRelaunches

(* The type of every variable; no time goes below zero, although several timers
   may count in a cell. *)
TypeOK == ListOK /\ ScreenOK /\ TimersOK /\ QueuesOK /\ CountsOK

Configured ==
    HabitArrives \/ TapCounted \/ \E r \in Rows, c \in Cells : TapPressed(r, c)

(* Whatever the user does, and however late the answers come: configuring a
   cell leaves at most one timer alive, the one that was alone in timerArray. *)
OneTimerSurvives ==
    [][Configured => Cardinality(live') <= 1]_vars

(* For a careful user: a cell has a timer only while it counts as started and
   never two, the timer is that of the habit the cell shows, a cell that does
   not count shows what is saved, and nothing traps. *)
TimersAgree ==
    /\ app = "running"
    /\ \A t \in live :
          /\ startVar[t.cell] /\ t.id = timer[t.cell] /\ t.repeats
          /\ indexPathCell[t.cell] = t.row
    /\ \A r \in DOMAIN cellAt :
          Idle /\ readErrors = 0 /\ ~startVar[cellAt[r]] /\ addFirebase[r] =>
              displayed[cellAt[r]] = time[r]

(* For a careful user: as long as a habit is not finished, time that was
   counted is never given back, whichever cell saves it. *)
TimeOnlyShrinks ==
    [][readErrors = 0 => \A r \in Rows : addFirebase[r] => time'[r] <= time[r]]_vars

(* For a careful user: every timer ends. *)
TimersEnd == \A c \in Cells :
    (\E t \in live : t.cell = c) ~> (\A t \in live : t.cell # c)

(* "added to fix a bug where if the timer was running the timer label would
   appear on a random cell when a new Habit was added"
   (HabitCollectionViewCell.swift:104): a cell that a running timer counts in
   shows the habit the timer was started for. *)
LabelStaysOnItsCell ==
    \A t \in live : indexPathCell[t.cell] = t.row
============================================================================
