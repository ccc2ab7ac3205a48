----------------------------- MODULE HabitList -----------------------------
(***************************************************************************)
(* The list of habits on the home screen, and every operation that changes *)
(* it: add (CreateHabitViewController), edit (EditHabitViewController) and *)
(* delete (HabitCollectionViewController), each followed by a fetch        *)
(* (module HabitFetch).  The documents are numbered; a habit is addressed  *)
(* by the row of its cell, and a deletion renumbers the documents in three *)
(* steps, each run when the write before it has been acknowledged.         *)
(*                                                                         *)
(* A habit is an identity the user had in mind, with the number of times   *)
(* its content was edited.  What a tap counts is left out, and so is the   *)
(* reset at the beginning of a day: the module describes a day on which    *)
(* some cell was tapped already.  The counts that UIKit itself compares    *)
(* when cells are deleted are not modelled.                                *)
(*                                                                         *)
(* A definition that stands directly before another and is used nowhere    *)
(* (UpdateForgotten, KeepLast, ...) is that other one with a plausible     *)
(* mistake: the properties below are known to detect it.                   *)
(***************************************************************************)
EXTENDS HabitFetch

CONSTANTS
    Habits,         \* the habits the user may add
    MaxEdits,       \* bound: edits of one habit
    MaxTaps,        \* bound: taps on Add whose habit is not yet written
    MaxPressed,     \* bound: cells that show their buttons at one time
    MaxPending,     \* bound: calls and blocks pending when the user saves
    MaxDeletions,   \* bound: habits deleted
    MaxRelaunches   \* bound: times the process ends and is started again

ASSUME DataAssumption == Data = [habit : Habits, edits : 0..MaxEdits]
ASSUME BoundsAssumption ==
    {MaxEdits, MaxTaps, MaxPressed, MaxPending, MaxDeletions, MaxRelaunches}
        \subseteq Nat

VARIABLES
    nav,              \* the screen on top of the navigation stack
    pressed,          \* rows of the cells that show their buttons
    indexPathGlobal,  \* row of the cell long-pressed last
    acks,             \* writes whose completion block Firestore still owes
    formCounter,      \* field habitCounter of each habit's create screen
    deletions,        \* deletions begun so far
    relaunches,       \* relaunches so far
    saved             \* history: the habits as the user last saved them

uiVars   == <<nav, pressed, indexPathGlobal>>
histVars == <<deletions, relaunches, saved>>
vars     == <<fetchVars, uiVars, acks, formCounter, histVars>>

Home       == [screen |-> "home"]
CreateVC(h) == [screen |-> "create", habit |-> h]
EditVC(r, e) == [screen |-> "edit", row |-> r, entry |-> e]

CreateCall(h)   == [kind |-> "create", habit |-> h]
Completion(kind) == Block([kind |-> kind], <<>>)

NewData(h) == [habit |-> h, edits |-> 0]

AtHome == app = "running" /\ nav = Home

(* Swift checks the index of an array access. *)
InList(r) == r < Len(habitArray)

IndexTrap ==
    /\ app' = "indexTrap"
    /\ UNCHANGED <<docs, habitCounter, habitArray, localHabitCounter, shown,
                   reads, mainQueue, readErrors, uiVars, acks, formCounter, histVars>>

DeletePending ==
    \/ acks # <<>>
    \/ Pending("deleted") # {}
    \/ Pending("counterSet") # {}

(* Nothing the user did is still on its way. *)
Idle == reads = <<>> /\ mainQueue = <<>> /\ acks = <<>>

----------------------------------------------------------------------------
\* Gestures on the home screen

(* handleLongPress: the cell shows its buttons. *)
LongPress(r) ==
    /\ AtHome
    /\ r < shown
    /\ InList(r)
    /\ Cardinality(pressed \cup {r}) <= MaxPressed
    /\ pressed' = pressed \cup {r}
    /\ indexPathGlobal' = r
    /\ UNCHANGED <<fetchVars, nav, acks, formCounter, histVars>>

(* handlePressOnCollectionView: a swipe hides the buttons of every cell. *)
Swipe ==
    /\ AtHome
    /\ pressed' = {}
    /\ UNCHANGED <<fetchVars, nav, indexPathGlobal, acks, formCounter, histVars>>

(* didSelectItemAt on a cell that shows its buttons: the cell is reloaded. *)
TapPressed(r) ==
    /\ AtHome
    /\ r \in pressed
    /\ InList(r)
    /\ pressed' = pressed \ {r}
    /\ UNCHANGED <<fetchVars, nav, indexPathGlobal, acks, formCounter, histVars>>

(* A long press or a tap on a cell that habitArray has no entry for. *)
TouchStaleCell(r) ==
    /\ AtHome
    /\ r < shown
    /\ ~InList(r)
    /\ IndexTrap

----------------------------------------------------------------------------
\* Adding

(* addButtonTapped; the create screen counts from 0. *)
OpenCreate(h) ==
    /\ AtHome
    /\ h \notin DOMAIN saved
    /\ \A i \in Pending("create") : Calls[i].habit # h
    /\ nav' = CreateVC(h)
    /\ formCounter' = [formCounter EXCEPT ![h] = 0]
    /\ UNCHANGED <<fetchVars, pressed, indexPathGlobal, acks, histVars>>

Back ==
    /\ app = "running"
    /\ nav # Home
    /\ nav' = Home
    /\ UNCHANGED <<fetchVars, pressed, indexPathGlobal, acks, formCounter, histVars>>

(* addHabitButtonTapped, the form complete: ask for the counter. *)
TapAdd(h) ==
    /\ app = "running"
    /\ nav = CreateVC(h)
    /\ Cardinality(Pending("create")) < MaxTaps
    /\ Len(Calls) <= MaxPending
    /\ reads' = Append(reads, CreateCall(h))
    /\ UNCHANGED <<docs, habitCounter, habitArray, localHabitCounter, shown,
                   mainQueue, app, readErrors, uiVars, acks, formCounter, histVars>>

(* self.habitCounter in the completion block: the field of the user document
   if it could be read, else what the screen holds. *)
NumberFromOne(h, snap) ==
    IF snap = <<>> THEN formCounter[h] ELSE snap[1].habitCounter + 1
NextNumber(h, snap) ==
    IF snap = <<>> THEN formCounter[h] ELSE snap[1].habitCounter

(* self.update?(): DispatchQueue.main.async, behind the blocks of queue. *)
UpdateForgotten(queue) == queue
Update(queue)          == Append(queue, FetchBlock)

(* updateData(["habitCounter": self.habitCounter + 1]) *)
CounterOfLast(number) == number
CounterOfList(number) == Len(habitArray) + 1
CounterAfter(number)  == number + 1

(* Its completion block: write the document, raise the counter, have the
   list fetched, leave the screen if it is still there. *)
RunCreate ==
    /\ Runs("create")
    /\ LET h == Head(mainQueue).call.habit
           snap == Head(mainQueue).snap
           counter == NextNumber(h, snap)
       IN  /\ formCounter' = [formCounter EXCEPT ![h] = counter]
           /\ docs' = SetData(docs, counter, NewData(h))
           /\ habitCounter' = CounterAfter(counter)
           /\ saved' = SetData(saved, h, NewData(h))
           /\ nav' = IF nav = CreateVC(h) THEN Home ELSE nav
    /\ mainQueue' = Update(Tail(mainQueue))
    /\ UNCHANGED <<habitArray, localHabitCounter, shown, reads, app, readErrors,
                   pressed, indexPathGlobal, acks, deletions, relaunches>>

----------------------------------------------------------------------------
\* Editing

(* editHabit of the home screen: the button's cell is not consulted. *)
OpenEdit ==
    /\ AtHome
    /\ pressed # {}
    /\ InList(indexPathGlobal)
    /\ nav' = EditVC(indexPathGlobal, habitArray[indexPathGlobal + 1])
    /\ UNCHANGED <<fetchVars, pressed, indexPathGlobal, acks, formCounter, histVars>>

(* editHabit of the edit screen. *)
SaveEdit ==
    /\ app = "running"
    /\ nav.screen = "edit"
    /\ nav.entry.data.edits < MaxEdits
    /\ Len(Calls) <= MaxPending
    /\ LET new == [nav.entry.data EXCEPT !.edits = @ + 1]
       IN  /\ docs' = UpdateData(docs, nav.row, new)
           /\ saved' = UpdateData(saved, new.habit, new)
    /\ mainQueue' = Update(mainQueue)
    /\ nav' = Home
    /\ UNCHANGED <<habitCounter, habitArray, localHabitCounter, shown, reads, app,
                   readErrors, pressed, indexPathGlobal, acks, formCounter,
                   deletions, relaunches>>

----------------------------------------------------------------------------
\* Deleting

(* deleteHabit and deleteHabitAction: whichever cell's button it was, the row
   of indexPathGlobal goes. *)
TapDelete ==
    /\ AtHome
    /\ deletions < MaxDeletions
    /\ Len(Calls) <= MaxPending
    /\ pressed # {}
    /\ InList(indexPathGlobal)
    /\ LET r == indexPathGlobal
           h == habitArray[r + 1].data.habit
       IN  /\ habitArray' = RemoveAt(habitArray, r + 1)
           /\ docs' = Delete(docs, r)
           /\ saved' = Delete(saved, h)
           /\ pressed' = {IF p > r THEN p - 1 ELSE p : p \in pressed \ {r}}
    /\ shown' = shown - 1
    /\ acks' = Append(acks, Completion("deleted"))
    /\ deletions' = deletions + 1
    /\ UNCHANGED <<habitCounter, localHabitCounter, reads, mainQueue, app, readErrors,
                   nav, indexPathGlobal, formCounter, relaunches>>

(* Delete or Edit when habitArray has no such entry any more. *)
TapStaleButton ==
    /\ AtHome
    /\ pressed # {}
    /\ ~InList(indexPathGlobal)
    /\ IndexTrap

(* Firestore acknowledges its writes in their order. *)
Ack ==
    /\ app = "running"
    /\ acks # <<>>
    /\ mainQueue' = Append(mainQueue, Head(acks))
    /\ acks' = Tail(acks)
    /\ UNCHANGED <<docs, habitCounter, habitArray, localHabitCounter, shown, reads,
                   app, readErrors, uiVars, formCounter, histVars>>

(* The last document is superfluous, unless it was the one deleted. *)
KeepLast(count) == docs
DropLast(count) == IF count # indexPathGlobal THEN Delete(docs, count) ELSE docs

(* updateFirebaseHabits: habitArray, written by index. *)
WriteUnedited ==
    [n \in DOMAIN docs \cup 0..(Len(habitArray) - 1) |->
        IF InList(n) THEN NewData(habitArray[n + 1].data.habit) ELSE docs[n]]
WriteAll ==
    [n \in DOMAIN docs \cup 0..(Len(habitArray) - 1) |->
        IF InList(n) THEN habitArray[n + 1].data ELSE docs[n]]

(* The completion of delete(): habitArray and indexPathGlobal are those of
   now, not those of the tap. *)
RunDeleted ==
    /\ Runs("deleted")
    /\ docs' = DropLast(Len(habitArray))
    /\ habitCounter' = Len(habitArray)
    /\ acks' = Append(acks, Completion("counterSet"))
    /\ mainQueue' = Tail(mainQueue)
    /\ UNCHANGED <<habitArray, localHabitCounter, shown, reads, app, readErrors,
                   uiVars, formCounter, histVars>>

(* The completion of its updateData: updateFirebaseHabits writes the whole
   list, and the group's notify has it fetched again. *)
RunCounterSet ==
    /\ Runs("counterSet")
    /\ docs' = WriteAll
    /\ habitCounter' = Len(habitArray)
    /\ mainQueue' = Append(Tail(mainQueue), FetchBlock)
    /\ UNCHANGED <<habitArray, localHabitCounter, shown, reads, app, readErrors,
                   uiVars, acks, formCounter, histVars>>

----------------------------------------------------------------------------
\* The steps of HabitFetch, composed

(* reloadData configures every cell anew: no cell shows its buttons. *)
Reload ==
    /\ RunHabit
    /\ pressed' = {}
    /\ UNCHANGED <<nav, indexPathGlobal, acks, formCounter, histVars>>

FetchStep ==
    /\ \/ RunFetch
       \/ RunCounter
       \/ RunHabitTraps
       \/ \E i \in DOMAIN reads : AnswerHabit(i) \/ AnswerUser(i)
    /\ UNCHANGED <<uiVars, acks, formCounter, histVars>>

ReadFails ==
    /\ \E i \in DOMAIN reads : AnswerError(i)
    /\ UNCHANGED <<uiVars, acks, formCounter, histVars>>

(* The process ends, at any moment, and is started again. *)
Relaunch ==
    /\ relaunches < MaxRelaunches
    /\ relaunches' = relaunches + 1
    /\ RelaunchHome
    /\ nav' = Home
    /\ pressed' = {}
    /\ indexPathGlobal' = 0
    /\ acks' = <<>>
    /\ formCounter' = [h \in Habits |-> 0]
    /\ UNCHANGED <<deletions, saved>>

----------------------------------------------------------------------------
Init ==
    /\ FetchInit
    /\ nav = Home
    /\ pressed = {}
    /\ indexPathGlobal = 0
    /\ acks = <<>>
    /\ formCounter = [h \in Habits |-> 0]
    /\ deletions = 0
    /\ relaunches = 0
    /\ saved = [h \in {} |-> NoDoc]

User ==
    \/ \E r \in 0..(shown - 1) : LongPress(r) \/ TapPressed(r) \/ TouchStaleCell(r)
    \/ Swipe
    \/ \E h \in Habits : OpenCreate(h) \/ TapAdd(h)
    \/ Back
    \/ OpenEdit
    \/ SaveEdit
    \/ TapDelete
    \/ TapStaleButton

System ==
    \/ FetchStep
    \/ Reload
    \/ RunCreate
    \/ Ack
    \/ RunDeleted
    \/ RunCounterSet

Next == User \/ System \/ ReadFails \/ Relaunch

Spec == Init /\ [][Next]_vars

(* A user who waits until the app has nothing left to do, and whose process
   does not end inside a deletion. *)
PatientNext ==
    \/ Idle /\ User
    \/ System
    \/ ReadFails
    \/ ~DeletePending /\ Relaunch

PatientSpec == Init /\ [][PatientNext]_vars

(* Firestore answers and acknowledges when the device is online, and the
   main queue runs its blocks.  Nothing is assumed of the user. *)
Fairness == WF_vars(System)

FairSpec        == Spec /\ Fairness
PatientFairSpec == PatientSpec /\ Fairness

----------------------------------------------------------------------------
\* Properties

CreateType == [kind : {"create"}, habit : Habits]
HabitType  == [kind : {"habit"}, n : Nat]

BlockType ==
    [call : {CounterCall} \cup CreateType, snap : Seq([habitCounter : Nat])]
        \cup [call : HabitType, snap : Seq(Data \cup {NoDoc})]
        \cup {Completion(k) : k \in {"fetch", "deleted", "counterSet"}}
EntryType == [habitNumber : Nat, data : Data]

StoreTypeOK ==
    /\ DOMAIN docs \subseteq Nat /\ \A n \in DOMAIN docs : docs[n] \in Data
    /\ habitCounter \in Nat
    /\ DOMAIN saved \subseteq Habits /\ \A h \in DOMAIN saved : saved[h] \in Data

ListTypeOK ==
    /\ habitArray \in Seq(EntryType)
    /\ localHabitCounter \in Nat \cup {-1}
    /\ shown \in Nat

QueueTypeOK ==
    /\ reads \in Seq({CounterCall} \cup CreateType \cup HabitType)
    /\ mainQueue \in Seq(BlockType)
    /\ acks \in Seq(BlockType)

UiTypeOK ==
    /\ app \in {"running", "castTrap", "indexTrap"}
    /\ nav \in {Home} \cup [screen : {"create"}, habit : Habits]
                \cup [screen : {"edit"}, row : Nat, entry : EntryType]
    /\ pressed \subseteq Nat
    /\ indexPathGlobal \in Nat
    /\ formCounter \in [Habits -> Nat]

BoundsOK ==
    /\ readErrors \in 0..MaxReadErrors
    /\ deletions \in 0..MaxDeletions
    /\ relaunches \in 0..MaxRelaunches

(* The type of every variable. *)
TypeOK == StoreTypeOK /\ ListTypeOK /\ QueueTypeOK /\ UiTypeOK /\ BoundsOK

(* As long as the user has never deleted a habit, every document below the
   counter exists, whatever was added, edited or tapped while other calls were
   pending, whatever read failed and whenever the process was ended; and no
   fetch traps on a missing one unless the counter could not be read. *)
NoDeletionNoGap ==
    deletions = 0 =>
        /\ 0..(habitCounter - 1) \subseteq DOMAIN docs
        /\ app = "castTrap" => readErrors > 0

(* A cell that habitArray has no entry for can be touched only while a fetch
   is under way: as long as nothing was deleted the list and the cells agree at
   rest, even after failed reads and relaunches. *)
CellsMatchListAtRest ==
    deletions = 0 /\ Idle =>
        /\ shown = Len(habitArray)
        /\ app # "indexTrap"

(* The counter, and with it the set of habits the next fetch asks for,
   shrinks only in the completion blocks of a deletion or when a create
   screen could not read it; adds racing each other and relaunches never
   shrink it. *)
CounterOnlyGrows ==
    [][deletions = 0 /\ readErrors = 0 => habitCounter' >= habitCounter]_vars

(* Once the user waits for the app: at rest the documents are exactly those
   that are counted, they hold every habit as it was last saved, and the home
   screen lists them in their order. *)
RestIsConsistent ==
    Idle /\ readErrors = 0 =>
        /\ app = "running"
        /\ DOMAIN docs = 0..(habitCounter - 1)
        /\ {docs[n] : n \in DOMAIN docs} = {saved[h] : h \in DOMAIN saved}
        /\ habitCounter = Cardinality(DOMAIN saved)
        /\ habitArray = [i \in 1..habitCounter |->
                            [habitNumber |-> i - 1, data |-> docs[i - 1]]]

(* As long as nothing was deleted or edited the user need not wait: adds that
   do not overlap another add lose nothing, whatever fetches are pending and
   whenever the process is ended. *)
AddsAreKept ==
    /\ MaxTaps = 1
    /\ readErrors = 0
    /\ deletions = 0
    /\ \A h \in DOMAIN saved : saved[h].edits = 0
    => \A h \in DOMAIN saved :
          \E n \in 0..(habitCounter - 1) : docs[n].habit = h

(* What has been asked for is eventually done: the calls and blocks drain, or
   the process has trapped. *)
Settles == ~Idle ~> (Idle \/ app # "running")

(* An add, once tapped, ends with its habit on the screen, unless the process
   ends first. *)
AddIsShown ==
    \A h \in Habits, k \in 0..MaxRelaunches :
        relaunches = k /\ (\E i \in Pending("create") : Calls[i].habit = h)
            ~> \/ \E i \in DOMAIN habitArray : habitArray[i].data.habit = h
               \/ relaunches # k

(* The abstract list of module HabitStore; while a deletion is being written
   it is the list of the controller, otherwise the documents. *)
Store == INSTANCE HabitStore WITH
    list <- IF DeletePending
            THEN [i \in DOMAIN habitArray |-> habitArray[i].data]
            ELSE [i \in 1..habitCounter |-> docs[i - 1]]

ImplementsStore == Store!Spec
============================================================================
