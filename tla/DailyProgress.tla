--------------------------- MODULE DailyProgress ---------------------------
(***************************************************************************)
(* A day of the home screen: taps on counted habits, timed habits that     *)
(* come to their end, and the reset in viewWillAppear.  The day counts as  *)
(* begun when a cell is tapped (palmiIsCool); until then every appearance  *)
(* of the screen resets the habits, from the list loaded at that moment,   *)
(* written by index.  A habit that reaches its goal is recorded in the     *)
(* completion block of a read of the user document.                        *)
(*                                                                         *)
(* The list is loaded by HabitFetch.  The habits themselves stay what they *)
(* are: adding and deleting them is HabitList's, the time of a timed one   *)
(* Countdown's and HabitForm's.  A definition that stands directly before  *)
(* another and is used nowhere is that other one with a plausible mistake. *)
(***************************************************************************)
EXTENDS HabitFetch

CONSTANTS
    HabitCount,     \* the user has the habits 0..HabitCount-1, in this order
    Goal,           \* Goal[h]: taps that finish a counted habit
    Timed,          \* the habits that are not counted
    Milestones,     \* streaks that earn an achievement: 1, 25 and 50
    MaxDays,        \* bound: the last day
    MaxPending,     \* bound: calls and blocks pending when the user acts
    MaxEdits,       \* bound: edit screens opened
    MaxRelaunches   \* bound: times the process ends and is started again

Rows == 0..(HabitCount - 1)

ASSUME HabitsAssumption ==
    HabitCount \in Nat \ {0} /\ Goal \in [Rows -> Nat] /\ Timed \subseteq Rows

(* No achievement is earned by a streak of 0. *)
ASSUME MilestonesAssumption == Milestones \subseteq Nat \ {0}

(* The fields of a habit document that a day changes or asks for; habit stands
   for the name and the goal. *)
DayData ==
    [habit : Rows, counted : BOOLEAN, currentCount : Nat, addFirebase : BOOLEAN,
     streak : Nat]

ASSUME DayDataAssumption == NoDoc \notin DayData
ASSUME BoundsAssumption == {MaxDays, MaxPending, MaxEdits, MaxRelaunches} \subseteq Nat

VARIABLES
    today,           \* the calendar day
    palmiIsCool,     \* UserDefaults: the day of the last tap, 0 before the first
    finishedHabits,  \* field of the document users/<uid>
    achievements,    \* field of the document users/<uid>
    ticking,         \* rows of the cells whose timer was started
    nav,             \* "home", "edit", "away", or "returning" after a saved edit
    form,            \* the edit screen's row and its copy of the habit
    edits,           \* edit screens opened so far
    relaunches,      \* relaunches so far
    calm,            \* history: the user has always waited for the app, and no
                     \* timer has ended while a call was pending
    aligned,         \* history: finishedHabits and the habits of the day have
                     \* started together, and no finished one was edited since
    todays           \* history: the taps of today that counted, per habit

userVars == <<finishedHabits, achievements>>
dayVars  == <<today, palmiIsCool, ticking>>
histVars == <<edits, relaunches, calm, aligned, todays>>
navVars  == <<nav, form>>
vars     == <<fetchVars, dayVars, userVars, navVars, histVars>>

NoForm == [row |-> -1]

FinishCall(r) == [kind |-> "finished", row |-> r]
ReloadBlock   == Block([kind |-> "reload"], <<>>)

Entry(r)  == habitArray[r + 1].data
InList(r) == r < Len(habitArray)

Idle   == reads = <<>> /\ mainQueue = <<>>
AtHome == app = "running" /\ nav = "home"

(* What the user does now, and whether he waited for it. *)
Acts ==
    /\ Len(Calls) <= MaxPending
    /\ calm' = (calm /\ Idle)

(* updateData with one field. *)
Patch(r, field, value) ==
    IF r \in DOMAIN docs THEN [docs EXCEPT ![r][field] = value] ELSE docs

----------------------------------------------------------------------------
\* The day

Midnight ==
    /\ today < MaxDays
    /\ today' = today + 1
    /\ todays' = [h \in Rows |-> 0]
    /\ calm' = (calm /\ nav # "returning")
    /\ UNCHANGED <<fetchVars, palmiIsCool, ticking, userVars, navVars, edits, relaunches,
                   aligned>>

(* currentDay != yesterday, in viewWillAppear. *)
AlwaysNewDay == TRUE
NewDay       == palmiIsCool # today

ResetTakesOneDay(d) ==
    [d EXCEPT !.currentCount = 0,
              !.streak = IF d.addFirebase THEN d.streak - 1 ELSE d.streak + 1,
              !.addFirebase = TRUE]
ResetKeepsDone(d) ==
    [d EXCEPT !.currentCount = 0,
              !.streak = IF d.addFirebase THEN 0 ELSE d.streak + 1]
Reset(d) ==
    [d EXCEPT !.currentCount = 0,
              !.streak = IF d.addFirebase THEN 0 ELSE d.streak + 1,
              !.addFirebase = TRUE]

ResetList == [i \in DOMAIN habitArray |-> [habitArray[i] EXCEPT !.data = Reset(@)]]

(* Every habit of the list, written by its index: all the fields but counted. *)
Overwrite(n, d) == [d EXCEPT !.counted = docs[n].counted]

WriteListButLast(list) ==
    [n \in DOMAIN docs |->
        IF n < Len(list) - 1 THEN Overwrite(n, list[n + 1].data) ELSE docs[n]]
WriteList(list) ==
    [n \in DOMAIN docs |->
        IF n < Len(list) THEN Overwrite(n, list[n + 1].data) ELSE docs[n]]

(* What an achievement says: a streak of 1 is written as one of 10 days. *)
AwardedDays(streak) == IF streak = 1 THEN 10 ELSE streak
Award(d) == [habit |-> d.habit, days |-> AwardedDays(d.streak)]

(* The habits whose streak is a milestone: achievementName grows through the
   loop, and each time it does the whole field is written. *)
Earning(list) == {i \in DOMAIN list : list[i].data.streak \in Milestones}

LastAward(list) ==
    {Award(list[i].data) : i \in {k \in Earning(list) : \A j \in Earning(list) : j <= k}}
Awards(list) == {Award(list[i].data) : i \in Earning(list)}

(* viewWillAppear, the list not empty; reloadData waits for the group. *)
ResetHabits ==
    /\ habitArray' = ResetList
    /\ docs' = WriteList(ResetList)
    /\ achievements' = IF Awards(ResetList) = {} THEN achievements ELSE Awards(ResetList)
    /\ mainQueue' = Append(mainQueue, ReloadBlock)

(* viewWillAppear: the home screen is shown again.  With an empty list only
   the user document is written, and the group is entered and never left. *)
ViewWillAppear ==
    /\ app = "running"
    /\ nav # "home"
    /\ nav' = "home"
    /\ form' = NoForm
    /\ IF NewDay
       THEN /\ finishedHabits' = 0
            /\ aligned' = (habitArray # <<>> /\ Pending("finished") = {})
            /\ IF habitArray # <<>> THEN ResetHabits
               ELSE UNCHANGED <<habitArray, docs, achievements, mainQueue>>
       ELSE UNCHANGED <<finishedHabits, aligned, habitArray, docs, achievements,
                        mainQueue>>
    /\ UNCHANGED <<habitCounter, localHabitCounter, shown, reads, app, readErrors,
                   dayVars, edits, relaunches, todays>>

(* The user comes back from the profile, or from a screen he cancels. *)
ComeBack == nav \in {"away", "edit"} /\ ViewWillAppear /\ Acts

(* UIKit begins the transition back from a screen that was saved. *)
Transition == nav = "returning" /\ ViewWillAppear /\ UNCHANGED calm

RunReload ==
    /\ Runs("reload")
    /\ UNCHANGED habitArray
    /\ ReloadData
    /\ mainQueue' = Tail(mainQueue)
    /\ UNCHANGED <<docs, habitCounter, localHabitCounter, reads, app,
                   readErrors, dayVars, userVars, navVars, histVars>>

----------------------------------------------------------------------------
\* Taps

(* didSelectItemAt on a cell that counts nothing: the habit is finished, or
   timed, or the cell shows its buttons.  The day has begun all the same. *)
TapNothing(r) ==
    /\ AtHome
    /\ r < shown
    /\ InList(r)
    /\ palmiIsCool' = today
    /\ Acts
    /\ UNCHANGED <<fetchVars, today, ticking, userVars, navVars, edits, relaunches,
                   aligned, todays>>

(* The cell has no entry in habitArray: the index traps, the day has begun. *)
TapStaleCell(r) ==
    /\ AtHome
    /\ r < shown
    /\ ~InList(r)
    /\ palmiIsCool' = today
    /\ app' = "indexTrap"
    /\ Acts
    /\ UNCHANGED <<docs, habitCounter, habitArray, localHabitCounter, shown, reads,
                   mainQueue, readErrors, today, ticking, userVars, navVars, edits,
                   relaunches, aligned, todays>>

(* The count after a tap: the goal is not passed. *)
CountOnePast(d) == IF d.currentCount <= Goal[d.habit] THEN d.currentCount + 1
                   ELSE d.currentCount
CountOne(d) == IF d.currentCount < Goal[d.habit] THEN d.currentCount + 1
               ELSE d.currentCount

(* A tap on a counted habit that is not finished. *)
TapCounted(r) ==
    /\ AtHome
    /\ r < shown
    /\ InList(r)
    /\ Entry(r).addFirebase
    /\ Entry(r).counted
    /\ LET d == Entry(r)
           n == CountOne(d)
           finished == n = Goal[d.habit]
       IN  /\ habitArray' = [habitArray EXCEPT
                                ![r + 1].data.currentCount = n,
                                ![r + 1].data.addFirebase = ~finished]
           /\ docs' = IF n = d.currentCount THEN docs ELSE Patch(r, "currentCount", n)
           /\ reads' = IF finished THEN Append(reads, FinishCall(r)) ELSE reads
           /\ todays' = [todays EXCEPT ![d.habit] = @ + (n - d.currentCount)]
    /\ palmiIsCool' = today
    /\ Acts
    /\ UNCHANGED <<habitCounter, localHabitCounter, shown, mainQueue, app, readErrors,
                   today, ticking, userVars, navVars, edits, relaunches, aligned>>

(* The answer to the read of a habit that reached its goal. *)
AnswerFinished(i) ==
    /\ app = "running"
    /\ reads[i].kind = "finished"
    /\ Answer(i, <<[finishedHabits |-> finishedHabits]>>)
    /\ UNCHANGED readErrors

(* The habit is recorded as finished, whether the document was read or not. *)
RecordIfRead(r, snap) == IF snap = <<>> THEN docs ELSE Patch(r, "addFirebase", FALSE)
Record(r, snap)       == Patch(r, "addFirebase", FALSE)

(* Its completion block: one more finished habit, if the document was read. *)
RunFinished ==
    /\ Runs("finished")
    /\ LET snap == Head(mainQueue).snap IN
       finishedHabits' = IF snap = <<>> THEN finishedHabits
                         ELSE snap[1].finishedHabits + 1
    /\ docs' = Record(Head(mainQueue).call.row, Head(mainQueue).snap)
    /\ mainQueue' = Tail(mainQueue)
    /\ UNCHANGED <<habitCounter, habitArray, localHabitCounter, shown, reads, app,
                   readErrors, dayVars, achievements, navVars, histVars>>

(* A tap on a timed habit that is not finished starts its timer or stops it. *)
TapTimed(r) ==
    /\ AtHome
    /\ r < shown
    /\ InList(r)
    /\ Entry(r).addFirebase
    /\ ~Entry(r).counted
    /\ ticking' = IF r \in ticking THEN ticking \ {r} ELSE ticking \cup {r}
    /\ palmiIsCool' = today
    /\ Acts
    /\ UNCHANGED <<fetchVars, today, userVars, navVars, edits, relaunches, aligned,
                   todays>>

(* showAlert: the timer of row r has come to its end, on whatever day and
   screen; the index traps when the list is not that long.  Waiting does not
   help: a timer that ends while calls are pending is the end of calm. *)
TimerEnds(r) ==
    /\ app = "running"
    /\ r \in ticking
    /\ ticking' = ticking \ {r}
    /\ IF InList(r)
       THEN /\ habitArray' = [habitArray EXCEPT ![r + 1].data.addFirebase = FALSE]
            /\ docs' = Patch(r, "addFirebase", FALSE)
            /\ UNCHANGED app
       ELSE app' = "indexTrap" /\ UNCHANGED <<habitArray, docs>>
    /\ calm' = (calm /\ Idle)
    /\ UNCHANGED <<habitCounter, localHabitCounter, shown, reads, mainQueue,
                   readErrors, today, palmiIsCool, userVars, navVars, edits, relaunches,
                   aligned, todays>>

----------------------------------------------------------------------------
\* Other screens

LeaveHome ==
    /\ AtHome
    /\ nav' = "away"
    /\ Acts
    /\ UNCHANGED <<fetchVars, dayVars, userVars, form, edits, relaunches, aligned,
                   todays>>

(* editHabit of the home screen: the new screen gets a copy of the entry. *)
OpenEdit(r) ==
    /\ AtHome
    /\ edits < MaxEdits
    /\ r < shown
    /\ InList(r)
    /\ nav' = "edit"
    /\ form' = [row |-> r, data |-> Entry(r)]
    /\ edits' = edits + 1
    /\ Acts
    /\ UNCHANGED <<fetchVars, dayVars, userVars, relaunches, aligned, todays>>

(* editHabit of the edit screen, and the way back: the habit starts the day
   again with the streak it had.  The list keeps the old data until it has been
   fetched; an edit before the first tap of a day meets the reset with it. *)
SaveEdit ==
    /\ app = "running"
    /\ nav = "edit"
    /\ docs' = UpdateData(docs, form.row, [form.data EXCEPT !.currentCount = 0,
                                                           !.addFirebase = TRUE])
    /\ mainQueue' = Append(mainQueue, FetchBlock)
    /\ nav' = "returning"
    /\ form' = NoForm
    /\ Len(Calls) <= MaxPending
    /\ calm' = (calm /\ Idle /\ palmiIsCool = today)
    /\ aligned' = (aligned /\ form.data.addFirebase)
    /\ todays' = [todays EXCEPT ![form.data.habit] = 0]
    /\ UNCHANGED <<habitCounter, habitArray, localHabitCounter, shown, reads, app,
                   readErrors, dayVars, userVars, edits, relaunches>>

----------------------------------------------------------------------------
\* The steps of HabitFetch, composed

(* The main queue runs its oldest block.  The transition back begins before
   any answer comes to its turn, before or after the list is emptied. *)
RunBlock ==
    \/ /\ RunFetch \/ (nav # "returning" /\ (RunCounter \/ RunHabit))
       /\ UNCHANGED <<dayVars, userVars, navVars, histVars>>
    \/ nav # "returning" /\ (RunFinished \/ RunReload)

(* The reads of the user document are those of fetches, and of taps that
   finished a habit. *)
AnswerRead ==
    /\ \E i \in DOMAIN reads :
          \/ AnswerHabit(i)
          \/ reads[i].kind = "counter" /\ AnswerUser(i)
          \/ AnswerFinished(i)
    /\ UNCHANGED <<dayVars, userVars, navVars, histVars>>

ReadFails ==
    /\ \E i \in DOMAIN reads : AnswerError(i)
    /\ UNCHANGED <<dayVars, userVars, navVars, histVars>>

(* viewDidLoad begins a fetch, viewWillAppear finds the list empty. *)
Relaunch ==
    /\ relaunches < MaxRelaunches
    /\ relaunches' = relaunches + 1
    /\ RelaunchHome
    /\ nav' = "home"
    /\ form' = NoForm
    /\ finishedHabits' = IF NewDay THEN 0 ELSE finishedHabits
    /\ aligned' = (aligned /\ ~NewDay)
    /\ ticking' = {}
    /\ UNCHANGED <<today, palmiIsCool, achievements, edits, calm, todays>>

----------------------------------------------------------------------------
NewHabit(h) ==
    [habit |-> h, counted |-> h \notin Timed, currentCount |-> 0, addFirebase |-> TRUE,
     streak |-> 0]

(* The habits were just added, and the app is started on the first day. *)
Init ==
    /\ docs = [n \in Rows |-> NewHabit(n)]
    /\ habitCounter = HabitCount
    /\ habitArray = <<>>
    /\ localHabitCounter = 0
    /\ shown = 0
    /\ reads = <<CounterCall>>
    /\ mainQueue = <<>>
    /\ app = "running"
    /\ readErrors = 0
    /\ today = 1
    /\ palmiIsCool = 0
    /\ finishedHabits = 0
    /\ achievements = {}
    /\ ticking = {}
    /\ nav = "home"
    /\ form = NoForm
    /\ edits = 0
    /\ relaunches = 0
    /\ calm = TRUE
    /\ aligned = TRUE
    /\ todays = [h \in Rows |-> 0]

User ==
    \/ \E r \in 0..(shown - 1) :
          TapNothing(r) \/ TapCounted(r) \/ TapTimed(r) \/ TapStaleCell(r) \/ OpenEdit(r)
    \/ SaveEdit
    \/ LeaveHome
    \/ ComeBack

System == RunBlock \/ AnswerRead \/ Transition \/ \E r \in ticking : TimerEnds(r)

Next == User \/ System \/ ReadFails \/ Midnight \/ Relaunch

Spec == Init /\ [][Next]_vars

(* The main queue runs its blocks, Firestore answers while the device is
   online, and UIKit begins its transitions.  Nothing is fair to the user, to
   midnight or to a timer. *)
Fairness == WF_vars(RunBlock) /\ WF_vars(AnswerRead) /\ WF_vars(Transition)

FairSpec == Spec /\ Fairness

----------------------------------------------------------------------------
\* Properties

EntryType == [habitNumber : Nat, data : DayData]

HabitType  == [kind : {"habit"}, n : Nat]
FinishType == [kind : {"finished"}, row : Nat]
CallType   == {CounterCall} \cup HabitType \cup FinishType

BlockType ==
    [call : {CounterCall}, snap : Seq([habitCounter : Nat])]
        \cup [call : HabitType, snap : Seq(DayData \cup {NoDoc})]
        \cup [call : FinishType, snap : Seq([finishedHabits : Nat])]
        \cup {FetchBlock, ReloadBlock}

StoreTypeOK ==
    /\ docs \in [Rows -> DayData]
    /\ habitCounter \in Nat
    /\ finishedHabits \in Nat
    /\ achievements \subseteq [habit : Rows, days : {AwardedDays(m) : m \in Milestones}]

ListTypeOK ==
    /\ habitArray \in Seq(EntryType)
    /\ localHabitCounter \in Nat \cup {-1}
    /\ shown \in Nat

QueueTypeOK == reads \in Seq(CallType) /\ mainQueue \in Seq(BlockType)

DayTypeOK ==
    /\ today \in Nat /\ palmiIsCool \in Nat
    /\ ticking \subseteq Nat
    /\ todays \in [Rows -> Nat]

ScreenTypeOK ==
    /\ app \in {"running", "indexTrap"}
    /\ nav \in {"home", "edit", "away", "returning"}
    /\ form \in {NoForm} \cup [row : Nat, data : DayData]
    /\ nav = "edit" => form # NoForm

BoundsOK ==
    /\ readErrors \in 0..MaxReadErrors
    /\ edits \in 0..MaxEdits /\ relaunches \in 0..MaxRelaunches
    /\ calm \in BOOLEAN /\ aligned \in BOOLEAN

(* The type of every variable; no streak, count or finishedHabits is ever
   negative, although a reset may write the data of another habit, and the
   edit screen always has a habit. *)
TypeOK ==
    /\ StoreTypeOK /\ ListTypeOK /\ QueueTypeOK
    /\ DayTypeOK /\ ScreenTypeOK /\ BoundsOK

(* The user has waited for the app, no timer has ended in the middle of a
   fetch, where showAlert traps or writes to a list that is being filled, and
   no read has failed. *)
Smooth == calm /\ readErrors = 0

(* When every call has been answered, the list, what it displays and the
   documents agree.  A day's operations change each of them on its own: a tap
   the entry and one field of the document (didSelectItemAt), the reset all of
   both by index (viewWillAppear), a finish the entry at once and the document
   in a completion block, an edit the document only, and then fetches. *)
ListAgreesAtRest ==
    Smooth /\ Idle =>
        /\ app = "running"
        /\ shown = HabitCount
        /\ habitArray = [i \in 1..HabitCount |->
                            [habitNumber |-> i - 1, data |-> docs[i - 1]]]

(* A tap of today that counted is in the habit's document for the rest of the
   day, whatever screens are opened and however often the app is started: the
   reset in viewWillAppear comes before the first tap or not at all. *)
TapsOfTodayAreKept ==
    Smooth => \A n \in Rows : todays[docs[n].habit] <= docs[n].currentCount

(* finishedHabits, which every finish reads and writes back in a completion
   block and the profile displays, is the number of counted habits that are
   finished: its reset and theirs are separate writes of separate documents. *)
FinishedAreCounted ==
    Smooth /\ aligned =>
        finishedHabits = Cardinality({n \in Rows \ Timed : ~docs[n].addFirebase})

(* While the streaks of some habits stand at a milestone the achievements are
   exactly theirs, each with the days that viewWillAppear writes for it: of
   every habit that reached one on the same day, although the field is written
   once for each of them; and of no other, because the reset of a day that
   awards one takes away those of earlier days.  Between those days the field
   keeps what the last of them left, which no property is about. *)
MilestonesAreAwarded ==
    LET standing == {n \in Rows : docs[n].streak \in Milestones}
    IN  Smooth /\ standing # {} =>
            achievements = {[habit |-> n, days |-> AwardedDays(docs[n].streak)] :
                               n \in standing}

Ledger == INSTANCE DayLedger WITH
    Rows <- Rows,
    count <- [n \in Rows |-> docs[n].currentCount],
    done <- [n \in Rows |-> ~docs[n].addFirebase],
    streak <- [n \in Rows |-> docs[n].streak]

(* The documents only ever change as DayLedger says: one tap at a time and
   not past the goal, done when the goal is reached and not before, and all at
   once when a day begins, the streak following what was done.  A finish that
   was lost in a relaunch is made good by the next tap, an edit meets taps, a
   timer that ends and the reset in any order. *)
StepsOfTheLedger == Ledger!Init /\ [][Smooth' => [Ledger!Next]_docs]_vars

(* However fast the user taps, and whichever reads fail, finishedHabits never
   goes back while the taps of a day count: a completion block that writes a
   number it read earlier (didSelectItemAt, two habits finished in a row) may
   lose a finish, but never one that was counted before. *)
FinishedOnlyGrows ==
    [][aligned /\ (\E h \in Rows : todays[h] > 0)
        => finishedHabits' >= finishedHabits]_vars

Finishing(n) == \E i \in Pending("finished") : Calls[i].row = n

(* A habit that reached its goal is recorded as finished, whether its read is
   answered or fails, unless the process ends first. *)
FinishIsRecorded ==
    \A n \in Rows, k \in 0..MaxRelaunches :
        Finishing(n) /\ relaunches = k
            ~> (~docs[n].addFirebase \/ relaunches # k \/ app # "running")
============================================================================
