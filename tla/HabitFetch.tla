---------------------------- MODULE HabitFetch ----------------------------
(***************************************************************************)
(* The home screen's copy of the habits and the way it is loaded.          *)
(*                                                                         *)
(* HabitCollectionViewController keeps habitArray, a copy of the documents *)
(* habit0, habit1, ... of the signed-in user.  fetchFirebaseHabits empties *)
(* it, reads the field habitCounter of the user document, and then reads   *)
(* every counted document with a call of its own; each answer is appended  *)
(* when it comes.  Every call is asynchronous: Firestore answers a read    *)
(* with the state of that moment, and the answer is then a block that      *)
(* waits in the main queue, behind the blocks already there, while the     *)
(* user goes on tapping.                                                   *)
(*                                                                         *)
(* The modules that EXTEND this one add the operations that change the     *)
(* habits, and compose them with the steps below.  ReloadDataDropped,      *)
(* NeverMissing and RunFetchAgain are plausible mistakes in the definition *)
(* that follows each: nothing uses them, the properties of HabitList are   *)
(* known to detect them.                                                   *)
(***************************************************************************)
EXTENDS Integers, Sequences, SequencesExt

CONSTANTS
    Data,          \* what a habit document can hold
    NoDoc,         \* the answer for a document that does not exist
    MaxReadErrors  \* bound: reads that end with an error instead of an answer

ASSUME NoDocAssumption == NoDoc \notin Data
ASSUME MaxReadErrorsAssumption == MaxReadErrors \in Nat

VARIABLES
    docs,               \* collection users/<uid>/habits: document number -> data
    habitCounter,       \* field habitCounter of the document users/<uid>
    habitArray,         \* the controller's list of [habitNumber, data]
    localHabitCounter,  \* number of the last document the last fetch asked for
    shown,              \* number of cells the collection view displays
    reads,              \* getDocument calls Firestore has not answered yet
    mainQueue,          \* blocks dispatched to the main queue, oldest first
    app,                \* "running", or how the process trapped
    readErrors          \* reads answered with an error so far

fetchVars == <<docs, habitCounter, habitArray, localHabitCounter, shown,
               reads, mainQueue, app, readErrors>>

----------------------------------------------------------------------------
\* Firestore

(* setData: the document is replaced, or made when it does not exist. *)
SetData(c, n, d) == [m \in DOMAIN c \cup {n} |-> IF m = n THEN d ELSE c[m]]

(* updateData has the precondition that the document exists: otherwise the
   patch leaves it as it is. *)
UpdateData(c, n, d) == IF n \in DOMAIN c THEN SetData(c, n, d) ELSE c

Delete(c, n) == [m \in DOMAIN c \ {n} |-> c[m]]

(* What getDocument passes to its completion block: <<>> when the closure's
   document is nil, else the one value in it. *)
Snapshot(c, n) == <<IF n \in DOMAIN c THEN c[n] ELSE NoDoc>>

----------------------------------------------------------------------------
\* Calls and blocks

CounterCall  == [kind |-> "counter"]
HabitCall(n) == [kind |-> "habit", n |-> n]

Block(call, snap) == [call |-> call, snap |-> snap]
FetchBlock == Block([kind |-> "fetch"], <<>>)

Calls == reads \o [i \in DOMAIN mainQueue |-> mainQueue[i].call]

(* Calls of one kind that are neither answered nor run to completion. *)
Pending(kind) == {i \in DOMAIN Calls : Calls[i].kind = kind}

Runs(kind) ==
    /\ app = "running"
    /\ mainQueue # <<>>
    /\ Head(mainQueue).call.kind = kind

----------------------------------------------------------------------------
\* The fetch

(* fetchFirebaseHabits up to its first asynchronous call. *)
StartFetch ==
    /\ habitArray' = <<>>
    /\ reads' = Append(reads, CounterCall)

(* The user document has arrived.  When its field cannot be read,
   localHabitCounter keeps the value of an earlier fetch. *)
RunCounter ==
    /\ Runs("counter")
    /\ LET snap == Head(mainQueue).snap IN
       /\ localHabitCounter' = IF snap = <<>> THEN localHabitCounter
                              ELSE snap[1].habitCounter - 1
       /\ reads' = reads \o [n \in 1..(localHabitCounter' + 1) |-> HabitCall(n - 1)]
    /\ mainQueue' = Tail(mainQueue)
    /\ UNCHANGED <<docs, habitCounter, habitArray, shown, app, readErrors>>

(* habitArray.append followed by the sort on habitNumber: the list was in
   order, so the new entry goes behind those that are not greater. *)
Insert(array, entry) ==
    InsertAt(array,
             1 + Cardinality({i \in DOMAIN array :
                                 array[i].habitNumber <= entry.habitNumber}),
             entry)

(* reloadData: the collection view asks for the number of items again. *)
ReloadDataDropped == shown' = shown
ReloadData        == shown' = Len(habitArray')

(* The document was answered for, and does not exist. *)
NeverMissing(snap) == FALSE
Missing(snap)      == snap # <<>> /\ snap[1] = NoDoc

(* A habit document has arrived and has all its fields, or the read failed:
   either way the list is sorted and the collection view reloaded. *)
RunHabit ==
    /\ Runs("habit")
    /\ ~Missing(Head(mainQueue).snap)
    /\ LET n    == Head(mainQueue).call.n
           snap == Head(mainQueue).snap
       IN  habitArray' = IF snap = <<>> THEN habitArray
                         ELSE Insert(habitArray, [habitNumber |-> n, data |-> snap[1]])
    /\ ReloadData
    /\ mainQueue' = Tail(mainQueue)
    /\ UNCHANGED <<docs, habitCounter, localHabitCounter, reads, app, readErrors>>

(* A counted document that does not exist has no fields: name as! String
   traps. *)
RunHabitTraps ==
    /\ Runs("habit")
    /\ Missing(Head(mainQueue).snap)
    /\ app' = "castTrap"
    /\ UNCHANGED <<docs, habitCounter, habitArray, localHabitCounter, shown,
                   reads, mainQueue, readErrors>>

(* DispatchQueue.main.async { self.fetchFirebaseHabits() } comes to its turn. *)
RunFetchAgain ==
    /\ Runs("fetch")
    /\ StartFetch
    /\ mainQueue' = Append(Tail(mainQueue), FetchBlock)
    /\ UNCHANGED <<docs, habitCounter, localHabitCounter, shown, app, readErrors>>
RunFetch ==
    /\ Runs("fetch")
    /\ StartFetch
    /\ mainQueue' = Tail(mainQueue)
    /\ UNCHANGED <<docs, habitCounter, localHabitCounter, shown, app, readErrors>>

(* Firestore answers the i-th outstanding read with snap. *)
Answer(i, snap) ==
    /\ mainQueue' = Append(mainQueue, Block(reads[i], snap))
    /\ reads' = RemoveAt(reads, i)
    /\ UNCHANGED <<docs, habitCounter, habitArray, localHabitCounter, shown, app>>

AnswerHabit(i) ==
    /\ app = "running"
    /\ reads[i].kind = "habit"
    /\ Answer(i, Snapshot(docs, reads[i].n))
    /\ UNCHANGED readErrors

(* Any read of the user document gets its field as it is now. *)
AnswerUser(i) ==
    /\ app = "running"
    /\ reads[i].kind # "habit"
    /\ Answer(i, <<[habitCounter |-> habitCounter]>>)
    /\ UNCHANGED readErrors

(* Offline and not cached, or refused: the block gets document = nil. *)
AnswerError(i) ==
    /\ app = "running"
    /\ readErrors < MaxReadErrors
    /\ readErrors' = readErrors + 1
    /\ Answer(i, <<>>)

FetchInit ==
    /\ docs = [n \in {} |-> NoDoc]
    /\ habitCounter = 0
    /\ habitArray = <<>>
    /\ localHabitCounter = 0
    /\ shown = 0
    /\ reads = <<CounterCall>>
    /\ mainQueue = <<>>
    /\ app = "running"
    /\ readErrors = 0

(* The process ends, by a trap or by the system, and the app is started
   again: the documents survive it, queued writes included; the controller is
   new, and so is everything that waited in memory. *)
RelaunchHome ==
    /\ habitArray' = <<>>
    /\ localHabitCounter' = 0
    /\ shown' = 0
    /\ reads' = <<CounterCall>>
    /\ mainQueue' = <<>>
    /\ app' = "running"
    /\ UNCHANGED <<docs, habitCounter, readErrors>>

============================================================================
