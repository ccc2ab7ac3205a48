# Habit Hive in TLA+

Habit Hive is an iOS app (Swift, UIKit, Firebase Auth and Firestore) in which a user keeps a list
of habits. A *counted* habit is ticked off a number of times a day, a *timed* habit is a countdown.
All data is in Firestore; the app has no server code and no automated tests. The code described
here is `HabitHive/HabitHive/**.swift`, about 2450 lines; `HabitHive/Pods` is third-party.

The files below are an inventory of the app, specifications of all its parts that keep state, the TLC
configurations that check them on small instances, and theorems checked by TLAPS.

Short names used here: HCVC = `HabitCollectionViewController.swift`,
Cell = `HabitCollectionViewCell.swift`, Create / Edit = `Create-` / `EditHabitViewController.swift`,
SetTime / SetAmount, SignUp / Login / Settings = the view controllers of these names.


## 1. Inventory

| Component | State | Operations | What makes it correct |
|---|---|---|---|
| Habit list (HCVC, Create, Edit) | `habitArray`, `localHabitCounter`, `indexPathGlobal`, the cells on the screen; in Firestore `users/<uid>.habitCounter` and `habits/habit0..` | fetch, add, edit, delete, long press, swipe, tap | documents numbered without a gap, counter = their number, the list shows them in order, an operation reaches the habit the user touched |
| Countdown (Cell) | `timeDisplayedHour/Minute/Second`, `startVar`, `timer`; in Firestore `timeArray` | start, stop, tick, long press, alert | no second lost or won, finished only when the time is over |
| Timers in reused cells (Cell, HCVC) | each cell's `timer`, `indexPathCell`, the controller's `timerArray` | start and stop with a read pending, `cellForItemAt`, reload | a running timer belongs to the habit its cell shows, it ends, the time left only shrinks |
| Daily progress (HCVC 43-91, 282-378) | `currentCount`, `streak`, `addFirebase`, user fields `finishedHabits`, `achievements`; `UserDefaults["palmiIsCool"]` | taps on each kind of cell, a finish with its read and its completion block, the reset in `viewWillAppear`, the end of a timer, midnight | all habits reset together and before the first tap of a day, streak = days done in a row, every finished habit counted once, taps kept |
| Habit form (Create, Edit, SetTime, SetAmount) | the form's fields, the picker's array, `UserDefaults["sectionColor"]` | open, pick, confirm, dismiss, add, save | what was chosen and displayed is what the documents keep, whatever an add under way, a timer or a reset does; every time can be read |
| Account (SignUp, Login, Settings) | Firebase session, user document, the root of the window | sign up in two writes, log in, sign out, launch | an account has a user document, the home screen is that of the user signed in, one user's calls and timers do not write another's documents |
| Password reset and change | none | one call each to Firebase Auth | |
| Profile, achievements | none of their own | read and show fields of the user document | |
| Firestore client (Pods) | pending reads and writes, local cache | `getDocument`, `setData`, `updateData`, `delete` | external; modelled as the app meets it |
| Presentation, life cycle, notification, stubs | none that an operation depends on | | |

How they interact. The home screen owns the list. The create and edit screens write to Firestore
themselves and then call the closure `update`, which dispatches a fetch to the main queue (HCVC
204-212, 270-280). Cells read and write their habit's time in Firestore directly and call the
controller back through `TimerFinishedDelegate` (`showAlert`, `returnTimeArray`, `returnTimer`).
Nothing listens to Firestore: the list is what the last fetch found. All of it runs on the main
queue; the concurrency is that of asynchronous calls. Between a call and its completion block the
user acts, other completion blocks run, timers fire, and the process may end.

Behaviours that are hard:

- *Ordering and staleness.* The fetch empties `habitArray` at once and fills it as answers come,
  in any order, while the old cells stay on the screen. The deletion's completion blocks read
  `habitArray` and `indexPathGlobal` as they are when the blocks run.
- *Several writes that belong together.* A deletion is three steps; nothing repairs what a process
  that ends in between leaves. Completion blocks of writes do not survive the process, although
  the writes do (they are queued on disk).
- *Read, then write.* The number of a new habit, and `finishedHabits`, are read in one call and
  written in its completion block.
- *Failure.* `getDocument` fails when the device is offline and the document is not cached. The
  code then goes on: with a shorter list, or with a counter it had before.
- *Days.* The app knows the day of the last tap only. Whether a day has begun is decided when the
  home screen appears, from the list loaded at that moment; completion blocks and timers of
  yesterday run today.
- *Sessions.* Nothing cancels the reads, blocks and timers of a home screen when its user signs
  out. What they do later asks for the user of that moment.
- *Shared state between screens.* The colour of a form is a preference all forms share; a picker
  hands its array to whatever form presented it; the completion block of an add reads the form.
- *Reuse.* Cells are reused, timers belong to cell objects, and what a cell displays is what a
  stop or a long press saves.

The hazards, each with its line, are listed in `PROJECT.json`.


## 2. Modules

| Module | What it is |
|---|---|
| `HabitFetch` | Firestore's documents, the main queue, and the fetch with its two kinds of completion blocks. No `Next` of its own: others compose it |
| `HabitList` | extends `HabitFetch` with add, edit, delete, gestures, failed reads, relaunches, and the properties |
| `HabitStore` | what the list promises: an atomic list with append, edit, delete |
| `HabitFetchProofs` | lemmas about the queues, the sorted list and the phases of a fetch that both modules extending `HabitFetch` need |
| `HabitListProofs` | theorems about `HabitList` |
| `Countdown` | the three numbers and six digits of one timed habit |
| `Stopwatch` | what a countdown promises: seconds that go down one at a time |
| `CountdownProofs` | theorems about `Countdown` |
| `HabitTimer` | several timed habits, reads pending, timers, and cells that are reused |
| `HabitTimerProofs` | theorems about `HabitTimer` |
| `DailyProgress` | extends `HabitFetch` with taps, finishes, the reset, edits, other screens, midnight |
| `DayLedger` | what a day promises: count, finish, start over, and a new day for all habits at once |
| `DailyProgressProofs`, `DayRestProofs` | theorems about `DailyProgress`; the second, on top of the first, about a user who waits |
| `HabitForm` | create and edit screen with their pickers, and what becomes of a choice |
| `HabitFormProofs` | theorems about `HabitForm` |
| `Account` | sign up, login, sign out, launch, and what outlives a session |
| `AccountProofs` | theorems about `Account` |
| `MCHabitList`, `MCCountdown`, `MCHabitTimer`, `MCDailyProgress`, `MCHabitForm`, `MCAccount` | constants for TLC |

Where a definition is preceded by another that nothing uses (`KeepLast` before `DropLast`), the
first is the second with a plausible mistake, for instance a dropped guard or a stale value. Each
checked property is known to be violated when one of these is put in the place of the real one;
`PROJECT.json` lists the pairs.

### HabitFetch and HabitList

| Code | Model |
|---|---|
| documents `habit<n>` | `docs`, a function from numbers to data |
| `getDocument` | an entry in `reads`; `AnswerHabit`, `AnswerUser`, `AnswerError` take the snapshot *at that moment* and append a block to `mainQueue` |
| a completion block | `Run...`, when the block is at the head of `mainQueue` |
| `setData`, `updateData`, `delete` | applied at once: Firestore shows local writes to local reads immediately. `updateData` on a missing document changes nothing (`UpdateData`) |
| acknowledgement of a write | `acks` in the order of the writes; `Ack` moves one to `mainQueue` |
| `fetchFirebaseHabits` | `StartFetch`, `RunCounter`, `RunHabit` (append, sort, `reloadData` in one step), `RunHabitTraps` (the forced cast of a missing field) |
| `addHabitButtonTapped` | `TapAdd`, then `RunCreate` |
| `editHabit` | `OpenEdit` copies the habit, `SaveEdit` writes by row |
| `deleteHabitAction`, `updateFirebaseHabits` | `TapDelete`, `RunDeleted` (with `DropLast`), `RunCounterSet` (with `WriteAll`) |
| long press, tap, swipe | `LongPress`, `TapPressed`, `Swipe`; `pressed` are the cells that show their buttons |
| an index beyond the array | `TouchStaleCell`, `TapStaleButton`: `app` becomes `"indexTrap"` |
| the process ends and is started again | `Relaunch`: `docs` stays, everything in memory and every owed completion block is gone |

A habit's data is an identity the user had in mind and the number of its edits: enough to tell
which document holds which habit and how recent it is. `saved`, a history variable, is what the
user last saved, by identity. What a tap counts and the reset at the beginning of a day
are `DailyProgress`'s (`HabitList` is a day on which a cell was tapped already, so that
`viewWillAppear` does nothing). Left out is
the comparison of item counts that UIKit makes in `deleteItems`.

Three specifications differ in what the user does:

- `Spec`: anything at any time.
- `PatientSpec`: the user acts when nothing is pending (`Idle`), and the process does not end
  inside a deletion. Reads may still be answered in any order or fail.
- `FairSpec`, `PatientFairSpec` add weak fairness of `System`.

### Countdown

One action per handler: `Start` (the read and the scheduling of the timer as one step), `Stop`,
`LongPress`, `CountSecond` and `Alert` (the two branches of `Action()`), `Relaunch`. `Tick` follows
the nested tests of Cell 161-181, `Digits` and `FromDigits` the conversions at 141-150 and 125-128.
`elapsed` and `savedElapsed` are history: the seconds counted, and those counted when `timeArray`
was last written.

### HabitTimer

| Code | Model |
|---|---|
| a `Timer` that is scheduled | a record in `live` with its identity, its cell, and the row it was started for |
| `timer` of a cell | `timer[c]`: the identity of the last timer started in it |
| `timerArray` of the controller | the set `timerArray` of identities handed over by `returnTimer` |
| `startCountdown(start: true)` | `Start` puts a read into `reads`; `RunTime` shows the time and schedules the timer |
| `startCountdown(start: false)` | `StopCountdown`, called by `Stop` and `LongPress` |
| `cellForItemAt`, `configure` | `CellForItem` (with its guard `timerArray.count - 1 > 0`) and `Configure`: the timers, the row, the buttons, and a read for every habit that is not finished, asked in any order |
| `reloadData` | `ReloadData`, in `HabitArrives`: the cells are dealt out anew, in any way |
| `reloadItems` | `ReloadItem`: the row keeps its cell or gets one that is not on the screen; `TapPressed` calls it, for a counted habit `TapCounted` has the effect on the timers |
| the buttons of a long press | `pressed`; a tap on a cell that shows them (`TapPressed`) starts and stops nothing |
| `Action`, `showAlert` | `Fire`: `CountSecond`, `Alert` |
| the process ends and is started again | `Relaunch`: the documents' `time` and `addFirebase` stay |

A time is a number of seconds here, since `Countdown` is shown to implement one. `WaitingSpec` is a
user who taps when nothing is pending; `CarefulSpec` also changes the list only when no timer runs.
Both have the reads of a cell answered in their order (`PromptSystem`).

### DailyProgress

| Code | Model |
|---|---|
| the calendar day, `palmiIsCool` | `today`, and the day of the last tap. `Midnight` comes at any time, on any screen |
| `viewWillAppear` (HCVC 43-91) | `ViewWillAppear`, when the user comes back (`ComeBack`), when a saved screen is popped (`Transition`), and inside `Relaunch`. Its loop is `ResetHabits`: `Reset` of every entry, `WriteList` by index, `Awards` for the achievements, and a block that reloads |
| the same with an empty list | only `finishedHabits` becomes 0 |
| `didSelectItemAt` (HCVC 282-378) | `TapCounted`, `TapTimed`, `TapNothing`, `TapStaleCell` |
| the read of the user document after the last tap, and its block | `AnswerFinished`, `RunFinished`; a read that fails (`ReadFails`) still records the habit |
| `showAlert` | `TimerEnds`: any time after the timer was started; the seconds are `Countdown`'s |
| an edit that is saved | `SaveEdit`, from the copy made by `OpenEdit` |
| `fetchFirebaseHabits` | the actions of `HabitFetch`, composed in `RunBlock`, `AnswerRead` |

The number and the order of the habits stay what they are. History variables: `calm` (the user has
always waited for the app, and no timer has ended while a call was pending: `showAlert` would meet a list
that is being filled, which no waiting of the user prevents; `TimerEnds` then indexes past its end),
`aligned` (`finishedHabits` and the habits of the day have started
together, and no finished habit was edited since), `todays` (the taps of today that counted).

### HabitForm

| Code | Model |
|---|---|
| an array of digits | a sequence of groups of six, each the number of its seconds: the program writes and appends groups only, every reader takes the first |
| what the wheel of the time picker displays (SetTime 25-35) | the set of the times that look like it: `{t}` where the wheel was turned, all with the same hours and minutes in an edit (`WheelShows`), none (`Untold`) below a minute, for which the wheel has no position |
| `viewDidLoad` of Create and Edit | `OpenCreate`, `OpenEdit` (`CreateDraft`, `EditDraft`, `EditColor`) |
| `SetTime`: `viewDidLoad`, `fillArray`, `timePickerValue`, confirm, swipe down | `OpenTimePicker` (`FillArray`, `WheelShows`), `TurnWheel`, `ConfirmTime`, `DismissPicker` |
| `SetAmount` | `ChooseAmount`, one action: nothing that it shows can change while it is presented |
| the colour popover | `PickColor`, which writes the shared preference |
| `addHabitButtonTapped` (Create 129-190) | `TapAdd` makes the habit, `Answer` reads the counter of that moment, `RunAdd` writes the document with the time the form has *then* (`TimeOfHabit`) |
| `editHabit` (Edit 113-148) | `SaveEdit`: what is left of the time becomes the time of every day |
| the fetch after it | `FetchStarts` empties the list, `FetchEnds` fills it in one step |
| the reset of the next morning, a run of the timer | `ViewWillAppear` with `Reset`; `RunTimer` from start to stop |

A form is opened when the list is loaded and no add is pending; in the form the user does not wait.
The name and its length check are left out: they only refuse a tap. History variables: `chosen` is
what the user was shown when he saved, `full` says that no timer has run since the time was set,
`orderly` that no reset came before the fetch of what was saved, `patient` that no time was
confirmed while an add was pending. `Minute`, the seconds of a minute, and `Lefts`, what a timer can
leave, are constants: a time that is no multiple of a minute comes from a timer only, and is where
the display and the array differ.

### Account

| Code | Model |
|---|---|
| `Auth.createUser`, `signIn` | an entry of `requests`; `AuthSucceeds`, `AuthFails`, `AnswerLost` (the account is made, the answer lost) change `accounts` and `currentUser` at once and queue a block |
| the block of `signUpTapped` (SignUp 73-98) | `RunSignUp`: the user document, visible to reads at once, and the way home without waiting for it; `Acknowledge`, `Reject` are the backend's answer to the write |
| the block of `loginTapped` | `RunSignIn` |
| `view.window?.rootViewController` | `inWindow`, false once the screen has left the window (`Offscreen`) |
| `authenticateUser` at launch | `LaunchFront` in `Relaunch` |
| the home screen | its user, the number of rows, whether its fetch is pending: what tells sessions apart |
| an add, a timer of a home screen | `TapAdd`, `AnswerAdd`, `RunAdd`; `StartTimer`, `TimerEnds`: the user they were begun for, and the user they write to |
| `currentUser!` of nil, a cast of a missing counter | `app` becomes `"nilTrap"`, `"castTrap"` |

History variables: `calm` (no user has left with a fetch, an add or a timer under way), `single` (one
request at a time), `sound` (no sign up was cut off between its two writes).


## 3. Runs

Bounds are constants of the modules and named there; each `.cfg` says which it uses.

| Run | Specification and bounds | What it shows |
|---|---|---|
| `eager` | `HabitList!Spec`; one habit, Add tapped up to three times before the first tap is answered, two calls or blocks pending when the user taps, a failed read, a relaunch, no edit, no deletion | `NoDeletionNoGap`, `CellsMatchListAtRest`: without deletions, impatience costs no counted document; `CounterOnlyGrows`: nor does an add that overlaps others take one back |
| `adding` | `HabitList!Spec`; two habits, one add at a time, an edit of each, one cell pressed, two calls or blocks pending when the user acts, a relaunch | `AddsAreKept`: while nothing was edited or deleted, adds that do not overlap another lose nothing |
| `patient` | `HabitList!PatientFairSpec`; three habits, an edit each, two deletions, two cells pressed at a time, a relaunch | `RestIsConsistent`: the documents, the counter, the list and what the user saved agree at rest; `ImplementsStore` (refinement of `HabitStore`); `AddIsShown` |
| `hasty` | `HabitList!FairSpec`; one habit, a deletion, a relaunch, no waiting | `TypeOK`, `Settles`: what was asked for drains or the process has trapped |
| `cell` | `Countdown!FairSpec`; durations on both sides of a minute, of one, ten and 23 hours; 69 seconds, a relaunch | `TypeOK`, `FinishedOnTime`, `NoSecondLost`, `ImplementsStopwatch`, `TimerEnds` |
| `timer_careful` | `HabitTimer!CarefulSpec`; two habits, two cells, three starts, a reload, a failed read, a relaunch | `TimersAgree`, `TimeOnlyShrinks`, `TimersEnd` |
| `timer_hasty` | `HabitTimer!Spec`; one habit of a second, three cells, three starts, a reload, one call pending when the user adds to them | `TypeOK`, also of several timers in one cell; `OneTimerSurvives`: however many timers are alive, configuring a cell leaves at most one |
| `timer_label` | `HabitTimer!WaitingSpec`; one start, one reload | **violated**, see below |
| `days` | `DailyProgress!Spec`; two counted habits and a timed one, goals 1 and 2, milestones 1 and 2, three days, an edit, a relaunch; the user acts when nothing is pending | `ListAgreesAtRest`, `TapsOfTodayAreKept`, `FinishedAreCounted`, `MilestonesAreAwarded`; `StepsOfTheLedger` (every step is one of `DayLedger`) |
| `days_hasty` | `DailyProgress!FairSpec`; two habits, two days, one call pending when the user acts, an edit, a failed read | `TypeOK`, `FinishedOnlyGrows`, `FinishIsRecorded` |
| `form` | `HabitForm!Spec`; adds until there is a habit (two, when they overlap), two forms, the time picker opened with at most one group of digits, two touches while an add is pending, a timer stopped at the end or with seconds left, any number of days and relaunches | `TypeOK`, `TimesAreReadable`, `ChosenTimeIsKept`, `ChosenGoalIsKept`, `ColorIsAsShown`, `UnusedTimeIsFull` |
| `sessions` | `Account!FairSpec`; two users, three requests, an add or a timer under way at a time, two habits, any number of relaunches | `TypeOK`, `SessionIsCurrent`, `EveryAccountHasADocument`, `NoTrap`, `HabitsAreOwn`, `SignUpLeadsHome` |

Why the bounds are enough. Three habits are the fewest with a first, a middle and a last one, so
that a deletion renumbers documents on both sides, and a reset meets a habit that is done, one that
is not and one that is timed; two deletions meet the stale row of the first.
One failed read and one relaunch can each fall between any two steps; effects of a second of a kind
start from the states the first one left, which the runs reach in other ways. Two adds are the fewest
that race; of three that overlap, one can be answered between the blocks of the other two, which is
what it takes to lower the counter. In `Countdown` each field behaves alike on both sides of its borrow, and
the seconds allowed cross it. Two cells and two habits are the fewest that can be swapped; with two
timers `timerArray` passes its guard, a third tells whether it counts them right, and with three cells one
habit can leave timers behind in two. Three days have two nights, the fewest in which a streak goes
on or breaks. Two finishes are the fewest of which one can be lost. In a form one value of each kind
is enough, as it differs from the defaults: a minute of the time picker, zero for a goal, ten of
the stepper, gray. A minute has two seconds there, so that the time chosen is two minutes, and a
timer leaves nothing or a minute and a second, of which the next wheel shows the minute. The second
of two forms meets what the first left, in the preference and in the documents. Three requests let one user sign up, another log in or sign up while that is under way,
and the first come back; two habits tell whether a counter and the documents agree.

Deadlock is not checked (`CHECK_DEADLOCK FALSE`): the app stops when it has trapped, and when the
user does nothing more.

Fairness. In `HabitList` it is weak fairness of `System`, taken as one: Firestore answers reads and
acknowledges writes while the device is online, and the main queue runs its blocks. Which call is
answered first is left open. The bounds keep the calls finite, so that the whole set drains.
In `Countdown` the run loop fires a timer that is scheduled; in `HabitTimer` it does (`Fire`) whatever
else there is to do, and Firestore and the main queue go on (`PromptSystem`). In `DailyProgress`
fairness is that of `RunBlock` (the main queue), `AnswerRead` (Firestore) and `Transition` (UIKit pops
a screen it was told to pop); neither midnight nor a timer is assumed to come. In `Account` only
the main queue is fair: no answer of Auth or of Firestore is assumed, which is what `SignUpLeadsHome`
is about. Nothing is assumed of the user anywhere.

### What the runs found

- **A single timer survives a reload** (`timer_label`). The comment at Cell 104-105 says the timers
  are registered with the controller "to fix a bug where if the timer was running the timer label
  would appear on a random cell when a new Habit was added". `cellForItemAt` invalidates the
  registered timers only when `timerArray.count - 1 > 0` (HCVC 221), which is false for exactly one.
  That one goes on counting in its cell, which may now show another habit.

The following is what the code does, met while modelling it. No text of the repository says
otherwise, so that it is listed here and not as a finding.

- The reset in `viewWillAppear` is repeated every time the home screen appears until a cell is
  tapped that day; the second time no habit is done, and every streak becomes 0. `StepsOfTheLedger`
  allows it: a day that begins again. A launch on a new day finds the list empty and resets
  `finishedHabits` only (`aligned`); if the next thing is a tap, the habits are not reset that day.
  With an empty list the dispatch group is entered and never left (HCVC 56, 84).
- The achievement of a streak of 1 says "for 10 days", those of 25 and 50 say what the streak is (HCVC
  70-80): `AwardedDays`. `achievements` is overwritten by every reset that awards one, so that it keeps
  those of one day only. `MilestonesAreAwarded` says just that: the entries of the habits that stand
  at a milestone, as the code words them, and no others while one does.
- A timer goes on while a fetch is under way, also when the user waits. When its time is over before
  the list is filled again, `showAlert` indexes past its end (HCVC 482) and the app traps.
- After a reset the documents have their whole time again, while the list keeps yesterday's time
  left until it is fetched; an edit makes the time that is left the time of every day (Edit 132).
- In edit mode the time picker appends its groups of digits to those it was given (SetTime 57). Every
  reader takes the first group, so that `ChosenTimeIsKept` holds all the same.
- The wheel of an edit is set from hours and minutes (SetTime 27-34), while a stopped timer has saved
  its seconds (Cell 141-150). Confirmed without being turned it hands back the whole array (SetTime
  67-68): 0:01 was on the wheel, 0:01:30 is the time of every day. `ChosenTimeIsKept` asks for the hours
  and minutes displayed in that case, and for the exact time in the others.
- A finish that is lost with the process is made good by the next tap on the habit.

The conditions in the properties are there because the code needs them. Dropping them, TLC finds:

- `RestIsConsistent` without patience: an add during a fetch leaves the habit listed twice at rest,
  until the next fetch; a deletion during a fetch can lose a habit that was not deleted (HCVC
  249-253, run while the list is empty).
- `RestIsConsistent` with a process that ends between `delete()` and the renumbering: the counter
  covers a document that is gone, and every later launch traps at HCVC 404.
- `AddsAreKept` with `MaxTaps = 2`: two adds use one number, and one habit is overwritten.
- `TimersAgree` with reads answered out of order: a reused cell shows another habit's time, and a
  long press saves it.
- `FinishedAreCounted` and `ListAgreesAtRest` without waiting: of two habits finished in a row
  one is not counted in `finishedHabits`. A finish that is answered after the reset of the next
  morning writes yesterday's number plus one and marks the new day's habit as done. A reset that
  meets a list partly loaded writes documents by the wrong index.
- `StepsOfTheLedger` with an edit saved before the first tap of a day: the reset that runs before
  the fetch writes the list's old data over the edited document. (So does `ChosenGoalIsKept` without
  `orderly`.)
- `FinishedAreCounted` with an edit of a finished habit: it can be finished again, and counts twice.
- `ChosenTimeIsKept` without `patient`: a time confirmed while an add is pending goes to the habit
  added before (the habit is made at the tap, its time is read in the block, Create 148, 166).
- `NoTrap` and `HabitsAreOwn` without `calm`: a block or a timer that runs after its user has signed
  out unwraps nil, or writes into the documents of whoever signed in next.
- `EveryAccountHasADocument` without `sound`: a process that ends between `createUser` and its block,
  a lost answer or a refused write leave an account without document. Every launch then traps at
  HCVC 388, and no screen makes the document.
- `SessionIsCurrent` without `single`: of two logins under way the second changes the user behind the
  home screen of the first.


## 4. Proofs

The theorems are about `Spec`, two of them about `PatientSpec`, three about `CarefulSpec`, and hold
for every value of the constants that satisfies the assumptions stated in the modules: bounds are
natural numbers, durations are times, milestones are above 0, `Data` is the set of habits' data.

| Theorem | States |
|---|---|
| `HabitListProofs!TypeCorrect` | `Spec => []TypeOK` |
| `HabitListProofs!CountedDocumentsExist` | `Spec => []NoDeletionNoGap` |
| `HabitListProofs!CounterGrows` | `Spec => CounterOnlyGrows` |
| `HabitListProofs!CellsMatchList` | `Spec => []CellsMatchListAtRest` |
| `HabitListProofs!NoAddIsLost` | `Spec => []AddsAreKept` |
| `HabitListProofs!RestConsistent` | `PatientSpec => []RestIsConsistent` |
| `HabitListProofs!ImplementsTheStore` | `PatientSpec /\ [](readErrors = 0) => ImplementsStore`: in every behaviour in which all reads are answered, as they are in the run |
| `CountdownProofs!TypeCorrect`, `NoSecondIsLost`, `FinishedIsOnTime` | `TypeOK`, `NoSecondLost`, `FinishedOnTime` are invariants |
| `CountdownProofs!CellImplementsStopwatch` | `Spec => ImplementsStopwatch` |
| `HabitTimerProofs!TypeCorrect` | `Spec => []TypeOK` |
| `HabitTimerProofs!OneSurvives` | `Spec => OneTimerSurvives` |
| `HabitTimerProofs!CarefulAgree`, `CarefulLabel` | `CarefulSpec => []TimersAgree`, and `[]LabelStaysOnItsCell`: the comment that the finding refutes is right for a careful user |
| `HabitTimerProofs!CarefulShrinks` | `CarefulSpec => TimeOnlyShrinks` |
| `DailyProgressProofs!TypeCorrect` | `Spec => []TypeOK` |
| `DailyProgressProofs!FinishedGrows` | `Spec => FinishedOnlyGrows` |
| `DayRestProofs!ListAgrees`, `TapsAreKept`, `FinishesAreCounted`, `StreaksAreAwarded` | `ListAgreesAtRest`, `TapsOfTodayAreKept`, `FinishedAreCounted`, `MilestonesAreAwarded` are invariants |
| `DayRestProofs!ImplementsLedger` | `Spec => StepsOfTheLedger`: every step of a user who waits is one of `DayLedger`, or changes no document |
| `AccountProofs!TypeCorrect`, `SessionsAreCurrent`, `AccountsHaveDocuments`, `HabitsAreOwned`, `NothingTraps` | `TypeOK`, `SessionIsCurrent`, `EveryAccountHasADocument`, `HabitsAreOwn`, `NoTrap` are invariants |
| `HabitFormProofs!TypeCorrect`, `TimesReadable`, `ColorsAreAsShown` | `TypeOK`, `TimesAreReadable`, `ColorIsAsShown` are invariants |
| `HabitFormProofs!ChosenTimeKept`, `ChosenGoalKept`, `UnusedTimeFull` | `ChosenTimeIsKept`, `ChosenGoalIsKept`, `UnusedTimeIsFull` are invariants |

*The type of the habit list.* `TypeOK` is not inductive: deleting an entry lowers `shown` by one
(UIKit takes the cell away), and `shown` stays a natural number only because the list is never
longer than the cells shown. `TypeInv` adds that. It is preserved because entries are appended only
in a block that reloads, and a fetch only empties the list. The facts about `Insert`, `Answer`,
`RemoveAt` and the composed queues are lemmas; then there is one lemma per action.

*No gap.* That `0..habitCounter-1` are documents needs an invariant about what is still on its way:
the number in a queued create answer is at most the counter of that moment, and every number below
it has a document (`GoodBlocks`); every habit document asked for was below a counter (`GoodCalls`);
without failed reads the form's own counter is one too (`Reached`). Documents are never taken away
while `deletions = 0`, so all of this is stable. `Growing` is the conjunction.

*The counter grows.* Two creates in flight may carry the same number or consecutive ones, and the
answer that runs later sets the counter to its number plus one. `Racing` says that the queued
answers are in ascending order and none is more than one behind the counter, which is what makes
the later write never the smaller one. Answers enter the queue with the counter of that moment.

*Cells and list.* A fetch empties the list and leaves the cells, so that they agree only while none
is under way (`QuietAgrees`, from `NoFetch`). A habit that arrives is followed by a reload, which
makes them agree at once. What is left is the fetch that ends with nothing to show. It is a fetch
that counts 0 habits, and the cells are those of before: it must be shown that there were none
(`Blank`). That holds because without deletions a counter is 0 only until the first add: then there
is no document, no list and no cell (`NothingThere`), and such an answer stands in the main queue
before the block of any other fetch (`NothingIsNext`), so that nothing can be shown between. A
failed read repeats the counter of before, which is -1 in a process that never read one
(`NothingAsked`). A touch without an entry needs a cell beyond the list, thus a fetch under way; the
row of the buttons stays below the number of cells (`ButtonsShown`).

*Adds that do not overlap.* `OneAdd` says that one create answer at most is asked for or queued.
Nobody else moves the counter until it has run, so that its number is the counter (`FreshBlocks`):
the document it writes is the first that is not counted, and it overwrites none. What an edit
could write was saved before (`KnownEntries`, `KnownBlocks`, `ScreenKnows`), so that it raises an
edit count in `saved` and ends the condition of the property (`Unedited`).

*The list of a user who waits.* `Quiet` is inductive while no read fails. Nothing is under way
(`Rest`), or one thing is: an add (`AddAsked`, `AddHere`), a fetch, or a deletion. Except in a
deletion (`Settled`) the documents are those that are counted and match what was saved, each habit
once (`Matches`). In a deletion (`Deleting`) the list is what matches: the documents have a gap at
the row of the buttons, which nobody moves as the user waits, and perhaps one number too many; when
the first block has run they have none beyond the list, whatever they hold, and the second
writes the list over them. Since every entry of the list is written, the documents match again,
which is why the order of the two blocks and a process that does not end between them matter.
Rows are renumbered by a deletion as `RemoveAt` does it: `MatchesDelete` says that a renumbering of
what is left, each once, matches what is left of the habits. For the refinement the list of
`HabitStore` is the controller's while `Deleting` and the documents while `Settled`
(`ListKnown`): a deletion takes effect at the tap, an add in its block, an edit when it is saved,
and the steps from phase to phase, the renumbering included, stutter.

*The countdown.* `TypeCorrect` has the lemma that `Tick` stays in `Time` and that writing and
reading the digits gives the time back (arithmetic of `\div` and `%`); `AccountHolds` is the
inductive invariant that links what is shown, what is saved and what was counted. `FinishedOnTime`
follows from the account and the fact that the alert comes only at zero. For the refinement every
action is mapped to a step of `Stopwatch` or a stutter; `Relaunch` is `GiveBack`.

*One timer survives.* Configuring a cell invalidates what `timerArray` names, or nothing when it names
one timer at most. That bounds the timers alive only if each of them is named (`Registered`) and
no two share a name. For the second, `OnePlace` follows a start on its way: its number waits in a read,
or in an answer, or is that of a timer, and never two of these (`ReadsDiffer`, `AnswersDiffer`,
`AskedOrAnswered`, `WaitingOrLive`, `TimersDiffer`); the next number is new (`Begun`). An answer may be
taken from the middle of the reads: `RemoveAtType` says that the others stay, each once. What a stop
invalidates does not matter, since it takes timers away only.

*The timers of a careful user.* `CareInv` has two halves. `PlacesOK` is about the timers: each counts in
the cell that shows its row, that counts as started and that holds it (`TimersInPlace`), so that
a stop finds it, and one alert ends it; the rows that cells remember are theirs (`RowsRemembered`, which
makes the cells on the screen distinct); a cell with buttons does not count (`ButtonsStopped`),
so that `reloadItems`, which may give its habit another cell, moves no timer; while the list is
loaded no timer is alive (`LoadedQuietly`), so that a reload moves none either, and a timer's
row is in the list when it alerts; and the answer a start waits for is the only one under way
(`StartsAlone`). It holds whether reads fail or not. The second half needs that none failed: each answer
carries the time that is saved (`AnswersTrue`), and each cell of a habit that is not finished
waits for that time or shows it (`AllCurrent`). The screen waits for reads and for answers at once, so `Asked` puts
both in one sequence: an answer leaves it as it is, a block takes its head, configuring cells adds
one read per habit at its end (`AskedBehind`, where an injective order of a finite set is shown to
reach each of its rows), and what a cell will show is decided by the last of its reads
(`LastFor`). When nothing is asked every cell shows its time, or less if it counts
(`Shown`), which is `TimersAgree`; and what a stop saves is what `Shown` bounds, which is `TimeOnlyShrinks`.

*The type of the daily progress.* The reset writes by index data of habits the list may have in any
order, so that types of documents, list, blocks and of the form's copy are proved together. It
needs that reading a document gives `DayData` and that `Overwrite` and `Patch` keep it; there is
one lemma per action.

*finishedHabits grows.* A finishing tap puts a read into `reads`, the answer queues a block with the number
of that moment, and the block writes that number plus one. The invariant says of the blocks in the
queue what the property needs: their numbers ascend (`Ascending`), and none is more than one behind
`finishedHabits` (`Racing`), as long as the day's reset met none of them (`aligned`).

*The day of a user who waits.* At rest the list is the listing of the documents (`Rest`). Such a
user leaves one thing under way at a time, so that otherwise the screen is in one of a few phases:
a fetch waits (`FetchWaits`), its counter is asked for or answered (`CounterAsked`, `CounterHere`),
its documents are asked for, answered or listed, in any order (`Loading`, with the three sets of
rows; the phases of a fetch and the steps between them are lemmas of `HabitFetchProofs`), a finish is asked for or answered (`FinishAsked`, `FinishHere`: one document does not say yet
what its entry says), or the reload of a reset waits (`Reloading`). `SmoothDay` is their disjunction
with what the screens know. Each action leads from a phase to a phase, and changes the documents by
one of the steps of `DayStep`, or not at all. The second half does not speak of phases any more:
the steps of `DayStep` keep taps (`Kept`), the number of finished habits (`Counted`: a finish adds
one row to a finite set, a reset empties it) and achievements (`Awarded`: a streak of 0 stands
at no milestone, as milestones are above 0), and each is a step of `DayLedger`. All of this is
under the conditions of the properties themselves: the user waits, no timer ends while a call is
pending, and no read has failed. While habits stand at a milestone `Awarded` says that the achievements are
theirs (`Standings`): the reset wrote exactly these, and no other step changes a streak.

*Sessions.* The theorems about `Account` are built on each other. `Windows` relates the screen
in front to the calls that still have a window; `OneAtATime` says that with one request at a time
none is left while a home screen is in front, and that a block that succeeded is of the user signed
in: `SessionIsCurrent` follows. `DocumentInv` adds that whoever is signed in has an account.
`OwnInv` (`CallsAreOwn`) says that while nobody leaves with anything under way, every add and timer
is of the user signed in. `TrapInv` needs all of them: `DocsAreWhole`, the counter never runs ahead
of the habits; `ScreenHasADocument` and `AddsHaveADocument`, nobody has a home screen, or an add,
before the document is there.

*Forms.* `TimesAreReadable` is not inductive: a time reaches the documents from the form's array, the
form's from the picker or from the list. `TypeInv` types all of them with arrays that are not empty,
except a create form's, whose array is empty until a time is confirmed and which is not added
before; a counted one gets its group in the block. `ColorInv` says that a form's button shows what
the preference stands for, and that an add carries the colour displayed at its tap. `ChoiceInv` follows a
choice on its way: a picker and a form have a time that looks like what they display (`FormShows`:
every way an array grows keeps its first group, and `WheelShowsTime` says that the first group is
among the times that look like its wheel); the time of an add under way is the form's while nothing is confirmed
(`AddsChosen`); an edit is opened with what was chosen before (`EditKnows`); and the list knows
the documents it lists except while a fetch is due (`ListIsKnown`), so that an orderly reset writes
back what it finds.

Model-checked only: liveness (`Settles`, `AddIsShown`, `TimerEnds`, `TimersEnd`, `FinishIsRecorded`,
`SignUpLeadsHome`), which is beyond the prover. Every other property a passing run checks is a theorem.


## 5. Not modelled

- Presentation (colours, layout, animations), profile and achievement screens, the stubs in
  `HabitHiveLocalTest`: no operation depends on them.
- Resetting and changing the password: one call to Firebase Auth each, whose answer is shown.
  `SectionColorViewController` is opened by no screen.
- The notification: a new request that repeats, with a new identifier, at every launch, handed to the system; nothing
  in the program reads it back.
- Preferences of the device across users: `palmiIsCool`, `sectionColor`, `firstName` are not kept
  apart, so that one user's tap begins the day for all who sign in. It would take `Account` and
  `DailyProgress` composed; each is at the limit of what TLC explores alone.
- Firestore's own machinery: the cache, retries, the backend. One device is assumed; a second
  device of the same user would change documents between any two steps.
- UIKit's check of the number of items in `deleteItems` (HCVC 240 calls it before the array is
  changed).


## 6. Plan

Done: every component that keeps state has its module, its runs and theorems. What is left is
`Account` composed with the preferences of the device.
