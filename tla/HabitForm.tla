----------------------------- MODULE HabitForm -----------------------------
(***************************************************************************)
(* The form of a habit: CreateHabitViewController, EditHabitViewController *)
(* and the pickers SetTimeViewController and SetAmountViewController they  *)
(* present, from what the user chooses to what the documents keep of it.   *)
(*                                                                         *)
(* A time is an array of digits.  The program only ever writes groups of   *)
(* six, HHmmss, but it writes one group or several, and every reader takes *)
(* the first: an array is a sequence of groups here, a group the number of *)
(* its seconds.  What the time picker displays of a group is its hours and *)
(* minutes: a display is the set of the times that look like it.           *)
(*                                                                         *)
(* docs[r] is the document habit<r-1>; a fetch fills the list in one step, *)
(* its answers one by one are HabitList's, as are deletions and reads that *)
(* fail.  The timer's ticks are Countdown's.  The user opens a form when   *)
(* the list is loaded and no add is pending; in the form he does not wait. *)
(* A definition that stands directly before another and is used nowhere is *)
(* that other one with a plausible mistake.                                *)
(***************************************************************************)
EXTENDS Integers, Sequences

CONSTANTS
    Minute,        \* seconds of a minute
    Times,         \* what the wheel of the time picker can be turned to
    Lefts,         \* what a timer may leave of a time when it is stopped
    Amounts,       \* what the stepper of the amount picker can be set to
    Colors,        \* the buttons of the colour picker
    MaxHabits,     \* bound: habits when the user adds one
    MaxTouches,    \* bound: changes of a form, and taps, while an add is pending
    MaxGroups,     \* bound: groups of an array the time picker is opened with
    MaxForms       \* bound: forms opened

ASSUME MinuteAssumption == Minute \in Nat \ {0}
ASSUME ChoicesAssumption ==
    /\ Times \subseteq {t \in Nat \ {0} : t % Minute = 0} /\ Lefts \subseteq Nat
    /\ Amounts \subseteq Nat /\ Colors \subseteq Nat \ {0}
ASSUME BoundsAssumption ==
    {MaxHabits, MaxTouches, MaxGroups, MaxForms} \subseteq Nat

VARIABLES
    docs,          \* the habit documents, in the order of their numbers
    list,          \* habitArray
    fetch,         \* "none", "queued" behind the running block, or "reading"
    screen,        \* "home", "create", "edit", "away", "returning" from a saved form
    draft,         \* the fields of the form
    picker,        \* the time picker, when it is presented over the screen
    adds,          \* adds whose habitCounter has not been answered
    blocks,        \* adds whose completion block waits in the main queue
    sectionColor,  \* UserDefaults, 0 before it is set
    begun,         \* palmiIsCool: a cell was tapped today
    bounds,        \* forms and touches so far
    chosen,        \* history: what the user chose for each habit, as displayed
    full,          \* history: no timer has run since the time was last set
    orderly,       \* history: no reset came before the fetch of what was saved
    patient        \* history: no time was confirmed while an add was pending

storeVars == <<docs, list, fetch>>
formVars  == <<screen, draft, picker, adds, blocks, sectionColor>>
histVars  == <<chosen, full, orderly, patient>>
vars      == <<storeVars, formVars, begun, bounds, histVars>>

Unknown == -1     \* no goal was chosen
Untold  == {}     \* the display does not tell a time, or none was chosen
Gray    == 6

Waiting == adds # <<>> \/ blocks # <<>>

(* The user changes the form, or adds again, while an add is pending. *)
Touch ==
    /\ Waiting => bounds.touches < MaxTouches
    /\ bounds' = [bounds EXCEPT !.touches = IF Waiting THEN @ + 1 ELSE @]

NoPicker == [array |-> <<>>, shown |-> Untold]

Idle   == ~Waiting /\ fetch = "none"
AtHome == screen = "home" /\ picker = NoPicker
InForm == screen \in {"create", "edit"} /\ picker = NoPicker

----------------------------------------------------------------------------
\* Opening a form

(* A new create screen: nothing is chosen, the button has the colour of the
   preference. *)
DefaultColor(c) == IF c = 0 THEN Gray ELSE c

CreateDraft(color) ==
    [row |-> 0, selected |-> FALSE, counted |-> FALSE, time |-> <<>>, goal |-> 0,
     habitGoal |-> 0, original |-> <<>>, color |-> color,
     askedTime |-> Untold, askedGoal |-> Unknown]

NoForm == CreateDraft(Gray)

(* The edit screen has a copy of the list's entry. *)
EditDraft(r) ==
    [row |-> r, selected |-> TRUE, counted |-> list[r].counted, time |-> list[r].time,
     goal |-> list[r].goal, habitGoal |-> list[r].goal, original |-> list[r].original,
     color |-> list[r].color, askedTime |-> Untold, askedGoal |-> Unknown]

Opened ==
    /\ bounds.forms < MaxForms
    /\ bounds' = [bounds EXCEPT !.forms = @ + 1]

OpenCreate ==
    /\ AtHome /\ Idle
    /\ Opened
    /\ screen' = "create"
    /\ draft' = CreateDraft(DefaultColor(sectionColor))
    /\ UNCHANGED <<storeVars, picker, adds, blocks, sectionColor, begun, histVars>>

(* viewDidLoad makes the habit's colour the preference. *)
EditColorKept(color) == sectionColor
EditColor(color)     == color

OpenEdit(r) ==
    /\ AtHome /\ Idle
    /\ r \in DOMAIN list
    /\ Opened
    /\ screen' = "edit"
    /\ draft' = EditDraft(r)
    /\ sectionColor' = EditColor(list[r].color)
    /\ UNCHANGED <<storeVars, picker, adds, blocks, begun, histVars>>

PickColor(c) ==
    /\ InForm
    /\ sectionColor' = c
    /\ draft' = [draft EXCEPT !.color = c]
    /\ Touch
    /\ UNCHANGED <<storeVars, screen, picker, adds, blocks, begun, histVars>>

----------------------------------------------------------------------------
\* The pickers

(* fillArray appends a minute. *)
FillFront(array) == <<Minute>> \o array
FillArray(array) == Append(array, Minute)

(* viewDidLoad sets the wheel of an edit from the hours and the minutes of the
   first group: the seconds that a timer left are dropped from the display, not
   from the array.  The wheel has no position for less than a minute. *)
WheelShows(time) ==
    IF time \div Minute = 0 THEN Untold
    ELSE {t \in 0..(time + Minute) : t \div Minute = time \div Minute}

OpenTimePicker ==
    /\ InForm
    /\ Len(draft.time) < MaxGroups
    /\ picker' = IF draft.row = 0
                 THEN [array |-> FillArray(<<>>), shown |-> {Minute}]
                 ELSE [array |-> FillArray(draft.time),
                       shown |-> WheelShows(Head(draft.time))]
    /\ UNCHANGED <<storeVars, screen, draft, adds, blocks, sectionColor, begun, bounds,
                   histVars>>

(* timePickerValue: the array is made anew from the wheel, its seconds 0. *)
TurnWheel(t) ==
    /\ picker # NoPicker
    /\ picker' = [picker EXCEPT !.array = <<t>>, !.shown = {t}]
    /\ UNCHANGED <<storeVars, screen, draft, adds, blocks, sectionColor, begun, bounds,
                   histVars>>

(* didTapConfirmTime, of the form that presented the picker: it may have been
   popped meanwhile. *)
ConfirmTime ==
    /\ picker # NoPicker
    /\ draft' = [draft EXCEPT !.time = picker.array, !.counted = FALSE, !.selected = TRUE,
                              !.askedTime = picker.shown]
    /\ picker' = NoPicker
    /\ patient' = (patient /\ ~Waiting)
    /\ Touch
    /\ UNCHANGED <<storeVars, screen, adds, blocks, sectionColor, begun, chosen, full,
                   orderly>>

(* The amount picker, from countedButtonTapped to didTapConfirmAmount: nothing
   it shows or sets can change meanwhile.  The stepper starts at 10, or in an
   edit at the goal the habit had when the screen was opened. *)
StepperStart == IF draft.row = 0 THEN 10 ELSE draft.habitGoal

ChooseAmount(n) ==
    /\ InForm
    /\ draft' = [draft EXCEPT !.goal = n, !.counted = TRUE, !.selected = TRUE,
                              !.askedGoal = n]
    /\ Touch
    /\ UNCHANGED <<storeVars, screen, picker, adds, blocks, sectionColor, begun,
                   histVars>>

DismissPicker ==
    /\ picker # NoPicker
    /\ picker' = NoPicker
    /\ UNCHANGED <<storeVars, screen, draft, adds, blocks, sectionColor, begun, bounds,
                   histVars>>

----------------------------------------------------------------------------
\* Adding

(* What the user was shown: a time of a timed habit, a goal of a counted one. *)
Choice(time, goal) ==
    [time |-> IF draft.counted THEN Untold ELSE time,
     goal |-> IF draft.counted THEN goal ELSE Unknown,
     color |-> draft.color]

(* newHabit is made at the tap.  The name is there and short enough. *)
TapAdd ==
    /\ screen = "create" /\ InForm
    /\ draft.selected
    /\ Len(docs) < MaxHabits
    /\ adds' = Append(adds, [counted |-> draft.counted, goal |-> draft.goal,
                             color |-> DefaultColor(sectionColor),
                             choice |-> Choice(draft.askedTime, draft.askedGoal)])
    /\ Touch
    /\ UNCHANGED <<storeVars, screen, draft, picker, blocks, sectionColor, begun,
                   histVars>>

(* habitCounter counts the documents; its value is the number of the next. *)
NumberOfLast == Len(docs)
NextNumber   == Len(docs) + 1

(* Firestore answers with the habitCounter of this moment. *)
Answer(i) ==
    /\ blocks' = Append(blocks, [add |-> adds[i], number |-> NextNumber])
    /\ adds' = SubSeq(adds, 1, i - 1) \o SubSeq(adds, i + 1, Len(adds))
    /\ UNCHANGED <<storeVars, screen, draft, picker, sectionColor, begun, bounds, histVars>>

(* The array the form has now; a counted habit gets a group of zeros. *)
TimeAsIs(time, counted)    == time
TimeOfHabit(time, counted) == IF counted THEN Append(time, 0) ELSE time

(* setData: the document is replaced, or made. *)
Put(seq, r, value) == [i \in 1..(IF r > Len(seq) THEN r ELSE Len(seq)) |->
                          IF i = r THEN value ELSE seq[i]]

(* The completion block of an add: the document, the fetch, and the screen is
   popped if it is still there. *)
RunAdd ==
    /\ blocks # <<>>
    /\ LET add  == Head(blocks).add
           r    == Head(blocks).number
           time == TimeOfHabit(draft.time, add.counted)
       IN  /\ draft' = [draft EXCEPT !.time = time]
           /\ docs' = Put(docs, r, [counted |-> add.counted, goal |-> add.goal,
                                    color |-> add.color, time |-> time,
                                    original |-> time])
           /\ chosen' = Put(chosen, r, add.choice)
           /\ full' = Put(full, r, TRUE)
    /\ blocks' = Tail(blocks)
    /\ fetch' = "queued"
    /\ screen' = IF screen = "create" THEN "returning" ELSE screen
    /\ UNCHANGED <<list, picker, adds, sectionColor, begun, bounds, orderly, patient>>

----------------------------------------------------------------------------
\* Editing

(* What an edit leaves of an earlier choice: a time that was not asked for is
   saved as it is left, and the form displays what is left. *)
ChosenTime ==
    IF draft.askedTime # Untold THEN draft.askedTime
    ELSE IF draft.time = draft.original THEN chosen[draft.row].time ELSE Untold
ChosenGoal ==
    IF draft.askedGoal # Unknown THEN draft.askedGoal ELSE chosen[draft.row].goal

(* editHabit of the edit screen: habit.time is both the time and the time of
   every day from now on. *)
EditGoalOfHabit == draft.habitGoal
EditGoal        == draft.goal

SaveEdit ==
    /\ screen = "edit" /\ InForm
    /\ docs' = [docs EXCEPT ![draft.row] =
                   [counted |-> draft.counted, goal |-> EditGoal, color |-> sectionColor,
                    time |-> draft.time, original |-> draft.time]]
    /\ chosen' = [chosen EXCEPT ![draft.row] = Choice(ChosenTime, ChosenGoal)]
    /\ full' = [full EXCEPT ![draft.row] = TRUE]
    /\ fetch' = "queued"
    /\ screen' = "returning"
    /\ UNCHANGED <<list, draft, picker, adds, blocks, sectionColor, begun, bounds, orderly,
                   patient>>

----------------------------------------------------------------------------
\* The home screen

(* The fetch empties the list, and then fills it. *)
FetchStarts ==
    /\ fetch = "queued"
    /\ fetch' = "reading"
    /\ list' = <<>>
    /\ UNCHANGED <<docs, formVars, begun, bounds, histVars>>

(* The transition back begins before any answer comes to its turn. *)
FetchEnds ==
    /\ fetch = "reading"
    /\ screen # "returning"
    /\ fetch' = "none"
    /\ list' = docs
    /\ UNCHANGED <<docs, formVars, begun, bounds, histVars>>

(* The list has what was saved of the habits it lists. *)
Known == \A r \in DOMAIN list : /\ list[r].goal = docs[r].goal
                                /\ list[r].original = docs[r].original

(* viewWillAppear, with respect to what a form chooses: until a cell is tapped
   the list's goal and its time for a whole day are written by index.  The
   form that was left lives on while an add or a picker holds it. *)
ResetTimeLeft(doc, entry) == [doc EXCEPT !.goal = entry.goal, !.time = entry.time]
Reset(doc, entry) == [doc EXCEPT !.goal = entry.goal, !.time = entry.original]

ViewWillAppear ==
    /\ screen' = "home"
    /\ draft' = IF ~Waiting /\ picker = NoPicker
                THEN NoForm ELSE draft
    /\ IF begun THEN UNCHANGED <<docs, full, orderly>>
       ELSE /\ docs' = [r \in DOMAIN docs |->
                           IF r \in DOMAIN list THEN Reset(docs[r], list[r])
                           ELSE docs[r]]
            /\ full' = [r \in DOMAIN full |-> full[r] \/ r \in DOMAIN list]
            /\ orderly' = (orderly /\ (fetch = "queued" => Known))
    /\ UNCHANGED <<list, fetch, picker, adds, blocks, sectionColor, begun, bounds, chosen,
                   patient>>

Back       == InForm /\ ViewWillAppear
ComeBack   == screen = "away" /\ ViewWillAppear
Transition == screen = "returning" /\ ViewWillAppear

LeaveHome ==
    /\ AtHome
    /\ screen' = "away"
    /\ UNCHANGED <<storeVars, draft, picker, adds, blocks, sectionColor, begun, bounds,
                   histVars>>

(* A tap on a cell that does not move the time: the day has begun. *)
Tap ==
    /\ AtHome
    /\ list # <<>>
    /\ ~begun
    /\ begun' = TRUE
    /\ UNCHANGED <<storeVars, formVars, bounds, histVars>>

(* The timer of a timed habit from the tap that starts it, which reads the
   document, to the tap that stops it, which writes what is left. *)
RunTimer(r, left) ==
    /\ AtHome /\ Idle
    /\ r \in DOMAIN list
    /\ ~list[r].counted
    /\ left <= Head(docs[r].time)
    /\ docs' = [docs EXCEPT ![r].time = <<left>>]
    /\ list' = [list EXCEPT ![r].time = <<left>>]
    /\ begun' = TRUE
    /\ full' = [full EXCEPT ![r] = FALSE]
    /\ UNCHANGED <<fetch, formVars, bounds, chosen, orderly, patient>>

Midnight ==
    /\ begun
    /\ begun' = FALSE
    /\ UNCHANGED <<storeVars, formVars, bounds, histVars>>

(* The process ends and is started again: viewWillAppear finds the list empty. *)
Relaunch ==
    /\ list' = <<>>
    /\ fetch' = "reading"
    /\ screen' = "home"
    /\ draft' = NoForm
    /\ picker' = NoPicker
    /\ adds' = <<>>
    /\ blocks' = <<>>
    /\ UNCHANGED <<docs, sectionColor, begun, bounds, histVars>>

----------------------------------------------------------------------------
(* A user without habits, on a device without a preference: not that of the
   sign up, which sets one. *)
Init ==
    /\ docs = <<>>
    /\ list = <<>>
    /\ fetch = "reading"
    /\ screen = "home"
    /\ draft = NoForm
    /\ picker = NoPicker
    /\ adds = <<>>
    /\ blocks = <<>>
    /\ sectionColor = 0
    /\ begun = FALSE
    /\ bounds = [forms |-> 0, touches |-> 0]
    /\ chosen = <<>>
    /\ full = <<>>
    /\ orderly = TRUE
    /\ patient = TRUE

Form ==
    \/ OpenCreate
    \/ \E r \in DOMAIN list : OpenEdit(r)
    \/ \E c \in Colors : PickColor(c)
    \/ OpenTimePicker
    \/ \E t \in Times : TurnWheel(t)
    \/ ConfirmTime
    \/ \E n \in Amounts \cup {StepperStart} : ChooseAmount(n)
    \/ DismissPicker
    \/ TapAdd
    \/ SaveEdit
    \/ Back

Home ==
    \/ LeaveHome
    \/ ComeBack
    \/ Tap
    \/ \E r \in DOMAIN list : \E left \in Lefts : RunTimer(r, left)

System ==
    \/ \E i \in DOMAIN adds : Answer(i)
    \/ RunAdd
    \/ FetchStarts
    \/ FetchEnds
    \/ Transition

Next == Form \/ Home \/ System \/ Midnight \/ Relaunch

Spec == Init /\ [][Next]_vars

----------------------------------------------------------------------------
\* Properties

Time == Seq(Nat)

HabitType  == [counted : BOOLEAN, goal : Nat, color : Nat, time : Time, original : Time]
ChoiceType == [time : SUBSET Nat, goal : Nat \cup {Unknown}, color : Nat]
AddType    == [counted : BOOLEAN, goal : Nat, color : Nat, choice : ChoiceType]
DraftType  ==
    [row : Nat, selected : BOOLEAN, counted : BOOLEAN, time : Time, goal : Nat,
     habitGoal : Nat, original : Time, color : Nat,
     askedTime : SUBSET Nat, askedGoal : Nat \cup {Unknown}]
PickerType == [array : Time, shown : SUBSET Nat]

(* The type of every variable; a form that edits has a row that exists. *)
TypeOK ==
    /\ docs \in Seq(HabitType) /\ list \in Seq(HabitType)
    /\ Len(list) <= Len(docs)
    /\ fetch \in {"none", "queued", "reading"}
    /\ screen \in {"home", "create", "edit", "away", "returning"}
    /\ draft \in DraftType /\ draft.row <= Len(docs)
    /\ screen = "edit" => draft.row # 0
    /\ picker \in PickerType
    /\ adds \in Seq(AddType)
    /\ blocks \in Seq([add : AddType, number : Nat \ {0}])
    /\ sectionColor \in Nat
    /\ begun \in BOOLEAN
    /\ bounds \in [forms : 0..MaxForms, touches : 0..MaxTouches]
    /\ chosen \in Seq(ChoiceType) /\ Len(chosen) = Len(docs)
    /\ full \in Seq(BOOLEAN) /\ Len(full) = Len(docs)
    /\ orderly \in BOOLEAN /\ patient \in BOOLEAN

(* Every array of digits in a document or in the list has the six that a cell,
   the edit screen and the time picker read from it without asking, also of a
   counted habit, which may be made a timed one: the completion block of
   addHabitButtonTapped appends them ("to fix bug with counted habits when
   timed"), to whatever array the form has by then. *)
Readable(habits) ==
    \A r \in DOMAIN habits : habits[r].time # <<>> /\ habits[r].original # <<>>

TimesAreReadable == Readable(docs) /\ Readable(list)

(* A timed habit has every day a time that looks on the wheel as the one its
   user last confirmed, through double groups, later edits, runs of the timer
   and resets: exactly the one he turned the wheel to or found in a new form;
   the same hours and minutes when he confirmed the wheel of an edit as it
   was, which keeps seconds that the timer left and the wheel does not show.
   A time confirmed while an add was under way is excluded: the block reads
   the form as it is by then.  An edit after the timer has run that does not
   ask for a time has no chosen one (ChosenTime): it makes what is left the
   time of every day. *)
ChosenTimeIsKept ==
    patient =>
        \A r \in DOMAIN docs :
            ~docs[r].counted /\ chosen[r].time # Untold =>
                Head(docs[r].original) \in chosen[r].time

(* A counted habit has the goal its user last chose, however fast he is: an
   edit that does not touch it, and the reset of a morning, write the goal of
   a copy.  Only a reset that comes before the fetch of a saved form, and so
   from a list that does not know it, writes an old one. *)
ChosenGoalIsKept ==
    orderly =>
        \A r \in DOMAIN docs :
            docs[r].counted /\ chosen[r].goal # Unknown => docs[r].goal = chosen[r].goal

(* A habit has the colour its form displayed when it was saved, although the
   form keeps its choice in a preference that all forms share and that outlives
   a form which is cancelled, and the process. *)
ColorIsAsShown == \A r \in DOMAIN docs : docs[r].color = chosen[r].color

(* A habit whose timer has not run since its time was set or reset has all of
   its time: the reset of a morning takes it from the list, whose own copy of
   the time left is that of yesterday. *)
UnusedTimeIsFull ==
    orderly =>
        \A r \in DOMAIN docs :
            full[r] => Head(docs[r].time) = Head(docs[r].original)
============================================================================
