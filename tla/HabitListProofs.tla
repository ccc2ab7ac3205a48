-------------------------- MODULE HabitListProofs --------------------------
(***************************************************************************)
(* Proofs about module HabitList, for every set of habits and every bound: *)
(* the types of its variables; what the counter counts as long as the user *)
(* has never deleted a habit; that the cells at rest are those of the list;*)
(* that adds which do not overlap lose nothing; and, of the user who waits,*)
(* that the app at rest is consistent and implements module HabitStore.    *)
(***************************************************************************)
EXTENDS HabitList, HabitFetchProofs

----------------------------------------------------------------------------
\* The operators the actions are built from

LEMMA SetDataType ==
    ASSUME NEW S, NEW c, NEW n, NEW d \in S,
           \A m \in DOMAIN c : c[m] \in S
    PROVE  /\ DOMAIN SetData(c, n, d) = DOMAIN c \cup {n}
           /\ \A m \in DOMAIN SetData(c, n, d) : SetData(c, n, d)[m] \in S
BY DEF SetData

LEMMA UpdateDataType ==
    ASSUME NEW S, NEW c, NEW n, NEW d \in S,
           \A m \in DOMAIN c : c[m] \in S
    PROVE  /\ DOMAIN UpdateData(c, n, d) = DOMAIN c
           /\ \A m \in DOMAIN UpdateData(c, n, d) : UpdateData(c, n, d)[m] \in S
<1>1. CASE n \in DOMAIN c
  <2>1. DOMAIN SetData(c, n, d) = DOMAIN c
    BY <1>1 DEF SetData
  <2> QED
    BY <1>1, <2>1, SetDataType DEF UpdateData
<1>2. CASE n \notin DOMAIN c
  BY <1>2 DEF UpdateData
<1> QED
  BY <1>1, <1>2

(* A block holds the snapshot its call asked for. *)
LEMMA BlockSnapshots ==
    ASSUME NEW b \in BlockType
    PROVE  /\ b.call.kind \in {"counter", "create"} => b.snap \in Seq([habitCounter : Nat])
           /\ b.call.kind = "habit" =>
                 /\ b.call \in HabitType /\ b.call.n \in Nat
                 /\ b.snap \in Seq(Data \cup {NoDoc})
           /\ b.call.kind = "create" => b.call.habit \in Habits
           /\ b.call.kind \in {"counter", "create", "habit", "fetch", "deleted", "counterSet"}
BY DEF BlockType, CreateType, HabitType, CounterCall, Completion, Block

LEMMA CallKinds ==
    ASSUME NEW c \in {CounterCall} \cup CreateType \cup HabitType
    PROVE  /\ c.kind = "habit" => c \in HabitType /\ c.n \in Nat
           /\ c.kind # "habit" => c \in {CounterCall} \cup CreateType
           /\ c.kind = "create" => c.habit \in Habits
           /\ c.kind \in {"counter", "create", "habit"}
BY DEF CreateType, HabitType, CounterCall

LEMMA FetchBlockType == FetchBlock \in BlockType
BY DEF FetchBlock, Completion, Block, BlockType

LEMMA CompletionTypes ==
    Completion("deleted") \in BlockType /\ Completion("counterSet") \in BlockType
BY DEF Completion, Block, BlockType

----------------------------------------------------------------------------
\* Type correctness

(* The list is never ahead of the cells: with it a deletion takes a cell only
   where there is one. *)
TypeInv == TypeOK /\ Len(habitArray) <= shown

StoreVars == <<docs, habitCounter, saved>>
ListVars  == <<habitArray, localHabitCounter, shown>>
QueueVars == <<reads, mainQueue, acks>>
UiVars    == <<app, nav, pressed, indexPathGlobal, formCounter>>
BoundVars == <<readErrors, deletions, relaunches>>

LEMMA UnchangedTypes ==
    /\ StoreTypeOK /\ UNCHANGED StoreVars => StoreTypeOK'
    /\ ListTypeOK /\ UNCHANGED ListVars => ListTypeOK'
    /\ QueueTypeOK /\ UNCHANGED QueueVars => QueueTypeOK'
    /\ UiTypeOK /\ UNCHANGED UiVars => UiTypeOK'
    /\ BoundsOK /\ UNCHANGED BoundVars => BoundsOK'
BY DEF StoreTypeOK, StoreVars, ListTypeOK, ListVars, QueueTypeOK, QueueVars,
       UiTypeOK, UiVars, BoundsOK, BoundVars

LEMMA GestureType ==
    ASSUME TypeInv,
           \/ \E r \in 0..(shown - 1) : LongPress(r) \/ TapPressed(r) \/ TouchStaleCell(r)
           \/ Swipe
           \/ \E h \in Habits : OpenCreate(h)
           \/ Back
           \/ OpenEdit
           \/ TapStaleButton
    PROVE  TypeInv'
<1> USE DEF fetchVars, uiVars, histVars, StoreVars, ListVars, QueueVars, BoundVars
<1>1. /\ UNCHANGED StoreVars /\ UNCHANGED ListVars /\ UNCHANGED QueueVars
      /\ UNCHANGED BoundVars
  BY DEF LongPress, TapPressed, TouchStaleCell, Swipe, OpenCreate, Back, OpenEdit,
         TapStaleButton, IndexTrap
<1>2. UiTypeOK'
  <2> USE DEF UiTypeOK
  <2>a. UiTypeOK /\ ListTypeOK
    BY DEF TypeInv, TypeOK
  <2>1. ASSUME NEW r \in 0..(shown - 1), LongPress(r) PROVE UiTypeOK'
    <3>1. r \in Nat
      BY <2>a DEF ListTypeOK
    <3> QED
      BY <2>1, <2>a, <3>1 DEF LongPress
  <2>2. ASSUME NEW r \in 0..(shown - 1), TapPressed(r) PROVE UiTypeOK'
    BY <2>2, <2>a DEF TapPressed
  <2>3. ASSUME IndexTrap PROVE UiTypeOK'
    BY <2>3, <2>a DEF IndexTrap
  <2>4. CASE Swipe
    BY <2>4, <2>a DEF Swipe
  <2>5. ASSUME NEW h \in Habits, OpenCreate(h) PROVE UiTypeOK'
    BY <2>5, <2>a DEF OpenCreate, CreateVC
  <2>6. CASE Back
    BY <2>6, <2>a DEF Back
  <2>7. CASE OpenEdit
    <3>1. habitArray[indexPathGlobal + 1] \in EntryType
      BY <2>7, <2>a DEF OpenEdit, InList, ListTypeOK
    <3> QED
      BY <2>7, <2>a, <3>1 DEF OpenEdit, EditVC
  <2> QED
    BY <2>1, <2>2, <2>3, <2>4, <2>5, <2>6, <2>7 DEF TouchStaleCell, TapStaleButton
<1> QED
  BY <1>1, <1>2, UnchangedTypes DEF TypeInv, TypeOK

LEMMA TapAddType ==
    ASSUME TypeInv, NEW h \in Habits, TapAdd(h)
    PROVE  TypeInv'
<1>1. CreateCall(h) \in CreateType
  BY DEF CreateCall, CreateType
<1>2. QueueTypeOK'
  BY <1>1 DEF TapAdd, QueueTypeOK, TypeInv, TypeOK
<1> QED
  BY <1>2, UnchangedTypes DEF TapAdd, TypeInv, TypeOK, uiVars, histVars,
     StoreVars, ListVars, UiVars, BoundVars

LEMMA RunCreateType ==
    ASSUME TypeInv, RunCreate
    PROVE  TypeInv'
<1> DEFINE h      == Head(mainQueue).call.habit
           snap   == Head(mainQueue).snap
           number == NextNumber(h, snap)
<1>a. StoreTypeOK /\ QueueTypeOK /\ UiTypeOK
  BY DEF TypeInv, TypeOK
<1>b. Head(mainQueue) \in BlockType /\ Tail(mainQueue) \in Seq(BlockType)
  BY <1>a, NonEmptySeq DEF RunCreate, Runs, QueueTypeOK
<1>1. h \in Habits /\ snap \in Seq([habitCounter : Nat])
  BY <1>b, BlockSnapshots DEF RunCreate, Runs
<1>2. number \in Nat
  <2>1. CASE snap = <<>>
    BY <1>1, <2>1, <1>a DEF NextNumber, UiTypeOK
  <2>2. CASE snap # <<>>
    <3>1. snap[1] \in [habitCounter : Nat]
      BY <1>1, <2>2, NonEmptySeq
    <3> QED
      BY <2>2, <3>1 DEF NextNumber
  <2> QED
    BY <2>1, <2>2
<1>3. NewData(h) \in Data
  BY <1>1, DataAssumption, BoundsAssumption DEF NewData
<1>4. /\ formCounter' = [formCounter EXCEPT ![h] = number]
      /\ docs' = SetData(docs, number, NewData(h))
      /\ habitCounter' = number + 1
      /\ saved' = SetData(saved, h, NewData(h))
      /\ nav' \in {nav, Home}
      /\ mainQueue' = Append(Tail(mainQueue), FetchBlock)
      /\ UNCHANGED <<reads, acks, app, pressed, indexPathGlobal>>
  BY DEF RunCreate, CounterAfter, Update
<1>5. UNCHANGED ListVars /\ UNCHANGED BoundVars
  BY DEF RunCreate, ListVars, BoundVars
<1> HIDE DEF number, h, snap
<1>6. StoreTypeOK'
  <2>1. DOMAIN docs' \subseteq Nat /\ \A n \in DOMAIN docs' : docs'[n] \in Data
    BY <1>a, <1>2, <1>3, <1>4 DEF StoreTypeOK, SetData
  <2>2. DOMAIN saved' \subseteq Habits /\ \A g \in DOMAIN saved' : saved'[g] \in Data
    BY <1>a, <1>1, <1>3, <1>4 DEF StoreTypeOK, SetData
  <2>3. habitCounter' \in Nat
    BY <1>2, <1>4
  <2> QED
    BY <2>1, <2>2, <2>3 DEF StoreTypeOK
<1>7. QueueTypeOK'
  BY <1>a, <1>b, <1>4, FetchBlockType DEF QueueTypeOK
<1>8. UiTypeOK'
  BY <1>a, <1>1, <1>2, <1>4 DEF UiTypeOK
<1> QED
  BY <1>5, <1>6, <1>7, <1>8, UnchangedTypes DEF TypeInv, TypeOK, ListVars

LEMMA SaveEditType ==
    ASSUME TypeInv, SaveEdit
    PROVE  TypeInv'
<1> DEFINE new == [nav.entry.data EXCEPT !.edits = @ + 1]
<1>a. StoreTypeOK /\ QueueTypeOK /\ UiTypeOK
  BY DEF TypeInv, TypeOK
<1>1. nav.row \in Nat /\ nav.entry.data \in Data /\ nav.entry.data.edits < MaxEdits
  BY <1>a DEF SaveEdit, UiTypeOK, Home, EntryType
<1>2. new \in Data /\ new.habit \in Habits
  BY <1>1, DataAssumption, BoundsAssumption
<1>3. /\ docs' = UpdateData(docs, nav.row, new)
      /\ saved' = UpdateData(saved, new.habit, new)
      /\ mainQueue' = Append(mainQueue, FetchBlock)
      /\ nav' = Home
      /\ UNCHANGED <<habitCounter, reads, acks, app, pressed, indexPathGlobal, formCounter>>
  BY DEF SaveEdit, Update
<1>4. UNCHANGED ListVars /\ UNCHANGED BoundVars
  BY DEF SaveEdit, ListVars, BoundVars
<1> HIDE DEF new
<1>5. StoreTypeOK'
  BY <1>a, <1>1, <1>2, <1>3 DEF StoreTypeOK, UpdateData, SetData
<1>6. QueueTypeOK'
  BY <1>a, <1>3, FetchBlockType DEF QueueTypeOK
<1>7. UiTypeOK'
  BY <1>a, <1>3 DEF UiTypeOK
<1> QED
  BY <1>4, <1>5, <1>6, <1>7, UnchangedTypes DEF TypeInv, TypeOK, ListVars

LEMMA TapDeleteType ==
    ASSUME TypeInv, TapDelete
    PROVE  TypeInv'
<1> DEFINE r == indexPathGlobal
<1>a. /\ StoreTypeOK /\ QueueTypeOK /\ UiTypeOK /\ ListTypeOK /\ BoundsOK
      /\ Len(habitArray) <= shown
  BY DEF TypeInv, TypeOK
<1>1. r \in Nat /\ r + 1 \in 1..Len(habitArray)
  BY <1>a DEF TapDelete, InList, UiTypeOK, ListTypeOK
<1>2. /\ habitArray' = RemoveAt(habitArray, r + 1)
      /\ shown' = shown - 1
      /\ localHabitCounter' = localHabitCounter
  BY DEF TapDelete
<1>3. ListTypeOK' /\ Len(habitArray') <= shown'
  BY <1>a, <1>1, <1>2, RemoveAtType DEF ListTypeOK
<1>4. StoreTypeOK'
  BY <1>a, <1>1 DEF TapDelete, StoreTypeOK, Delete
<1>5. QueueTypeOK'
  BY <1>a, CompletionTypes DEF TapDelete, QueueTypeOK
<1>6. UiTypeOK'
  <2>1. pressed' \subseteq Nat
    BY <1>a, <1>1 DEF TapDelete, UiTypeOK
  <2> QED
    BY <1>a, <2>1 DEF TapDelete, UiTypeOK
<1>7. BoundsOK'
  BY <1>a, BoundsAssumption DEF TapDelete, BoundsOK
<1> QED
  BY <1>3, <1>4, <1>5, <1>6, <1>7 DEF TypeInv, TypeOK

(* Acknowledgements and the two completion blocks of a deletion. *)
LEMMA CompletionType ==
    ASSUME TypeInv, Ack \/ RunDeleted \/ RunCounterSet
    PROVE  TypeInv'
<1>a. /\ StoreTypeOK /\ QueueTypeOK /\ ListTypeOK
      /\ Len(habitArray) \in Nat
  BY DEF TypeInv, TypeOK, ListTypeOK
<1>1. UNCHANGED ListVars /\ UNCHANGED UiVars /\ UNCHANGED BoundVars
  BY DEF Ack, RunDeleted, RunCounterSet, uiVars, histVars, ListVars, UiVars, BoundVars
<1>2. QueueTypeOK'
  <2>1. CASE Ack
    BY <1>a, <2>1, NonEmptySeq DEF Ack, QueueTypeOK
  <2>2. CASE RunDeleted
    BY <1>a, <2>2, NonEmptySeq, CompletionTypes DEF RunDeleted, Runs, QueueTypeOK
  <2>3. CASE RunCounterSet
    BY <1>a, <2>3, NonEmptySeq, FetchBlockType DEF RunCounterSet, Runs, QueueTypeOK
  <2> QED
    BY <2>1, <2>2, <2>3
<1>3. StoreTypeOK'
  <2>1. CASE Ack
    BY <1>a, <2>1 DEF Ack, histVars, StoreTypeOK
  <2>2. CASE RunDeleted
    BY <1>a, <2>2 DEF RunDeleted, DropLast, Delete, histVars, StoreTypeOK
  <2>3. CASE RunCounterSet
    <3>1. ASSUME NEW n \in Nat, InList(n)
          PROVE  habitArray[n + 1].data \in Data
      <4>1. n + 1 \in 1..Len(habitArray)
        BY <1>a, <3>1 DEF InList
      <4>2. habitArray[n + 1] \in EntryType
        BY <1>a, <4>1 DEF ListTypeOK
      <4> QED
        BY <4>2 DEF EntryType
    <3>2. DOMAIN WriteAll \subseteq Nat /\ \A n \in DOMAIN WriteAll : WriteAll[n] \in Data
      BY <1>a, <3>1 DEF WriteAll, InList, StoreTypeOK
    <3> QED
      BY <1>a, <2>3, <3>2 DEF RunCounterSet, histVars, StoreTypeOK
  <2> QED
    BY <2>1, <2>2, <2>3
<1> QED
  BY <1>1, <1>2, <1>3, UnchangedTypes DEF TypeInv, TypeOK, ListVars

(* The next habit document, or its error, is appended and the cells follow. *)
LEMMA ReloadType ==
    ASSUME TypeInv, Reload
    PROVE  TypeInv'
<1> DEFINE n    == Head(mainQueue).call.n
           snap == Head(mainQueue).snap
<1>a. StoreTypeOK /\ QueueTypeOK /\ ListTypeOK /\ UiTypeOK
  BY DEF TypeInv, TypeOK
<1>b. Head(mainQueue) \in BlockType /\ Tail(mainQueue) \in Seq(BlockType)
  BY <1>a, NonEmptySeq DEF Reload, RunHabit, Runs, QueueTypeOK
<1>1. n \in Nat /\ snap \in Seq(Data \cup {NoDoc}) /\ ~Missing(snap)
  BY <1>b, BlockSnapshots DEF Reload, RunHabit, Runs
<1>2. /\ habitArray' = IF snap = <<>> THEN habitArray
                       ELSE Insert(habitArray, [habitNumber |-> n, data |-> snap[1]])
      /\ shown' = Len(habitArray')
      /\ localHabitCounter' = localHabitCounter
      /\ mainQueue' = Tail(mainQueue)
      /\ reads' = reads /\ acks' = acks
      /\ pressed' = {}
  BY DEF Reload, RunHabit, ReloadData
<1>3. UNCHANGED StoreVars /\ UNCHANGED BoundVars
      /\ UNCHANGED <<app, nav, indexPathGlobal, formCounter>>
  BY DEF Reload, RunHabit, histVars, StoreVars, BoundVars
<1> HIDE DEF n, snap
<1>4. habitArray' \in Seq(EntryType)
  <2>1. CASE snap = <<>>
    BY <1>a, <1>2, <2>1 DEF ListTypeOK
  <2>2. CASE snap # <<>> /\ snap[1] \in Data
    <3>1. [habitNumber |-> n, data |-> snap[1]] \in EntryType
      BY <1>1, <2>2 DEF EntryType
    <3> QED
      BY <1>a, <1>2, <2>2, <3>1, InsertType DEF ListTypeOK
  <2> QED
    BY <1>1, <2>1, <2>2, NonEmptySeq DEF Missing
<1>5. ListTypeOK' /\ Len(habitArray') <= shown'
  BY <1>a, <1>2, <1>4 DEF ListTypeOK
<1>6. QueueTypeOK'
  BY <1>a, <1>b, <1>2 DEF QueueTypeOK
<1>7. UiTypeOK'
  BY <1>a, <1>2, <1>3 DEF UiTypeOK
<1> QED
  BY <1>3, <1>5, <1>6, <1>7, UnchangedTypes DEF TypeInv, TypeOK

(* reads grows by one call for every counted document. *)
LEMMA RunCounterType ==
    ASSUME TypeInv, RunCounter, UNCHANGED <<uiVars, acks, formCounter, histVars>>
    PROVE  TypeInv'
<1> DEFINE snap  == Head(mainQueue).snap
           calls == [n \in 1..(localHabitCounter' + 1) |-> HabitCall(n - 1)]
<1>a. StoreTypeOK /\ QueueTypeOK /\ ListTypeOK
  BY DEF TypeInv, TypeOK
<1>b. Head(mainQueue) \in BlockType /\ Tail(mainQueue) \in Seq(BlockType)
  BY <1>a, NonEmptySeq DEF RunCounter, Runs, QueueTypeOK
<1>1. snap \in Seq([habitCounter : Nat])
  BY <1>b, BlockSnapshots DEF RunCounter, Runs
<1>2. /\ localHabitCounter' = IF snap = <<>> THEN localHabitCounter
                              ELSE snap[1].habitCounter - 1
      /\ reads' = reads \o calls
      /\ mainQueue' = Tail(mainQueue)
      /\ UNCHANGED <<habitArray, shown, acks>>
  BY DEF RunCounter
<1>3. UNCHANGED StoreVars /\ UNCHANGED UiVars /\ UNCHANGED BoundVars
  BY DEF RunCounter, uiVars, histVars, StoreVars, UiVars, BoundVars
<1>4. localHabitCounter' \in Nat \cup {-1}
  <2>1. CASE snap = <<>>
    BY <1>a, <1>2, <2>1 DEF ListTypeOK
  <2>2. CASE snap # <<>>
    <3> HIDE DEF snap
    <3>1. snap[1] \in [habitCounter : Nat]
      BY <1>1, <2>2, NonEmptySeq
    <3>2. snap[1].habitCounter \in Nat
      BY <3>1
    <3> QED
      BY <1>2, <2>2, <3>2
  <2> QED
    BY <2>1, <2>2
<1>5. calls \in Seq(HabitType)
  <2>1. localHabitCounter' + 1 \in Nat
    <3>1. \A x \in Nat \cup {-1} : x + 1 \in Nat
      OBVIOUS
    <3> QED
      BY <1>4, <3>1, Zenon
  <2>2. \A n \in 1..(localHabitCounter' + 1) : HabitCall(n - 1) \in HabitType
    BY <2>1 DEF HabitCall, HabitType
  <2>3. calls \in [1..(localHabitCounter' + 1) -> HabitType]
    BY <2>2
  <2> QED
    BY <2>1, <2>3, SeqDef
<1> HIDE DEF snap, calls
<1>6. QueueTypeOK'
  BY <1>a, <1>b, <1>2, <1>5 DEF QueueTypeOK
<1>7. ListTypeOK' /\ Len(habitArray') <= shown'
  BY <1>2, <1>4 DEF ListTypeOK, TypeInv, TypeOK
<1> QED
  BY <1>3, <1>6, <1>7, UnchangedTypes DEF TypeInv, TypeOK

(* Firestore's answers. *)
LEMMA AnswerType ==
    ASSUME TypeInv, NEW i \in DOMAIN reads,
           AnswerHabit(i) \/ AnswerUser(i) \/ AnswerError(i),
           UNCHANGED <<uiVars, acks, formCounter, histVars>>
    PROVE  TypeInv'
<1>a. StoreTypeOK /\ QueueTypeOK /\ BoundsOK
  BY DEF TypeInv, TypeOK
<1>1. UNCHANGED StoreVars /\ UNCHANGED ListVars /\ UNCHANGED UiVars
  BY DEF AnswerHabit, AnswerUser, AnswerError, Answer, uiVars, histVars,
         StoreVars, ListVars, UiVars
<1>2. BoundsOK'
  BY <1>a, MaxReadErrorsAssumption
     DEF AnswerHabit, AnswerUser, AnswerError, histVars, BoundsOK
<1>3. reads[i] \in {CounterCall} \cup CreateType \cup HabitType
  BY <1>a DEF QueueTypeOK
<1>4. PICK snap : Answer(i, snap) /\ Block(reads[i], snap) \in BlockType
  <2>1. CASE AnswerHabit(i)
    <3>1. reads[i] \in HabitType
      BY <1>3, <2>1, CallKinds DEF AnswerHabit
    <3>2. Snapshot(docs, reads[i].n) \in Seq(Data \cup {NoDoc})
      BY <1>a DEF Snapshot, StoreTypeOK
    <3> QED
      BY <2>1, <3>1, <3>2 DEF AnswerHabit, Block, BlockType
  <2>2. CASE AnswerUser(i)
    <3>1. reads[i] \in {CounterCall} \cup CreateType
      BY <1>3, <2>2, CallKinds DEF AnswerUser
    <3>2. <<[habitCounter |-> habitCounter]>> \in Seq([habitCounter : Nat])
      BY <1>a DEF StoreTypeOK
    <3> QED
      BY <2>2, <3>1, <3>2 DEF AnswerUser, Block, BlockType
  <2>3. CASE AnswerError(i)
    <3>1. <<>> \in Seq([habitCounter : Nat]) /\ <<>> \in Seq(Data \cup {NoDoc})
      OBVIOUS
    <3>2. Block(reads[i], <<>>) \in BlockType
      BY <1>3, <3>1 DEF Block, BlockType
    <3> QED
      BY <2>3, <3>2 DEF AnswerError
  <2> QED
    BY <2>1, <2>2, <2>3
<1>5. QueueTypeOK'
  <2>1. RemoveAt(reads, i) \in Seq({CounterCall} \cup CreateType \cup HabitType)
    BY <1>a, RemoveAtType DEF QueueTypeOK
  <2> QED
    BY <1>a, <1>4, <2>1 DEF Answer, QueueTypeOK
<1> QED
  BY <1>1, <1>2, <1>5, UnchangedTypes DEF TypeInv, TypeOK, ListVars

LEMMA FetchType ==
    ASSUME TypeInv, FetchStep \/ ReadFails
    PROVE  TypeInv'
<1>1. CASE RunFetch /\ UNCHANGED <<uiVars, acks, formCounter, histVars>>
  <2>1. QueueTypeOK'
    BY <1>1, NonEmptySeq DEF RunFetch, Runs, StartFetch, QueueTypeOK, TypeInv, TypeOK
  <2>2. ListTypeOK' /\ Len(habitArray') <= shown'
    BY <1>1 DEF RunFetch, StartFetch, ListTypeOK, TypeInv, TypeOK
  <2> QED
    BY <1>1, <2>1, <2>2, UnchangedTypes DEF RunFetch, TypeInv, TypeOK, uiVars,
       histVars, StoreVars, UiVars, BoundVars
<1>2. CASE RunHabitTraps /\ UNCHANGED <<uiVars, acks, formCounter, histVars>>
  <2>1. UNCHANGED <<StoreVars, ListVars, QueueVars, BoundVars>>
    BY <1>2 DEF RunHabitTraps, uiVars, histVars, StoreVars, ListVars, QueueVars, BoundVars
  <2>2. UiTypeOK'
    BY <1>2 DEF RunHabitTraps, uiVars, UiTypeOK, TypeInv, TypeOK
  <2> QED
    BY <2>1, <2>2, UnchangedTypes DEF TypeInv, TypeOK, ListVars
<1> QED
  BY <1>1, <1>2, RunCounterType, AnswerType DEF FetchStep, ReadFails

LEMMA RelaunchType ==
    ASSUME TypeInv, Relaunch
    PROVE  TypeInv'
<1>1. UNCHANGED StoreVars
  BY DEF Relaunch, RelaunchHome, StoreVars
<1>2. ListTypeOK' /\ Len(habitArray') <= shown'
  BY DEF Relaunch, RelaunchHome, ListTypeOK
<1>3. QueueTypeOK'
  BY DEF Relaunch, RelaunchHome, QueueTypeOK
<1>4. UiTypeOK'
  BY DEF Relaunch, RelaunchHome, UiTypeOK
<1>5. BoundsOK'
  BY BoundsAssumption DEF Relaunch, RelaunchHome, BoundsOK, TypeInv, TypeOK
<1> QED
  BY <1>1, <1>2, <1>3, <1>4, <1>5, UnchangedTypes DEF TypeInv, TypeOK

LEMMA InitType == Init => TypeInv
<1> SUFFICES ASSUME Init PROVE TypeInv
  OBVIOUS
<1>1. StoreTypeOK
  BY DEF Init, FetchInit, StoreTypeOK
<1>2. ListTypeOK /\ Len(habitArray) <= shown
  BY DEF Init, FetchInit, ListTypeOK
<1>3. QueueTypeOK
  BY DEF Init, FetchInit, QueueTypeOK
<1>4. UiTypeOK
  BY DEF Init, FetchInit, UiTypeOK
<1>5. BoundsOK
  BY BoundsAssumption, MaxReadErrorsAssumption DEF Init, FetchInit, BoundsOK
<1> QED
  BY <1>1, <1>2, <1>3, <1>4, <1>5 DEF TypeInv, TypeOK

LEMMA NextType == TypeInv /\ [Next]_vars => TypeInv'
<1> SUFFICES ASSUME TypeInv, [Next]_vars PROVE TypeInv'
  OBVIOUS
<1>1. CASE User
  BY <1>1, GestureType, TapAddType, SaveEditType, TapDeleteType DEF User
<1>2. CASE System
  BY <1>2, FetchType, ReloadType, RunCreateType, CompletionType DEF System
<1>3. CASE ReadFails
  BY <1>3, FetchType
<1>4. CASE Relaunch
  BY <1>4, RelaunchType
<1>5. CASE UNCHANGED vars
  BY <1>5, UnchangedTypes DEF vars, fetchVars, uiVars, histVars, StoreVars, ListVars,
     QueueVars, UiVars, BoundVars, TypeInv, TypeOK
<1> QED
  BY <1>1, <1>2, <1>3, <1>4, <1>5 DEF Next

(* Every variable keeps its type, and there is never a list entry without a
   cell, in every behaviour of the home screen and its stores. *)
THEOREM TypeCorrect == Spec => []TypeOK
<1>1. Spec => []TypeInv
  BY InitType, NextType, PTL DEF Spec
<1> QED
  BY <1>1, PTL DEF TypeInv

----------------------------------------------------------------------------
\* The counter

(* As long as the user has never deleted a habit, the counter counts
   documents that exist.

   The counter lives in many places: in the user document, in the create
   screens, in the answers that wait in the main queue, and, as a document
   number, in the calls and blocks of a fetch.  All of these may be old.
   The inductive invariant says of each of them that the documents it
   stands for were written before: documents do not disappear without a
   deletion, so a number that was right once stays right. *)

(* The documents below c exist. *)
Reached(c) == 0..(c - 1) \subseteq DOMAIN docs

BlockGrows(b) ==
    /\ b.call.kind \notin {"deleted", "counterSet"}
    /\ b.call.kind \in {"counter", "create"} /\ b.snap # <<>> =>
          Reached(b.snap[1].habitCounter)
    /\ b.call.kind = "counter" /\ readErrors = 0 => b.snap # <<>>
    /\ b.call.kind = "habit" /\ readErrors = 0 =>
          b.call.n \in DOMAIN docs /\ ~Missing(b.snap)

GoodBlocks == {b \in BlockType : BlockGrows(b)}
GoodCalls  == {c \in {CounterCall} \cup CreateType \cup HabitType :
                  c.kind = "habit" /\ readErrors = 0 => c.n \in DOMAIN docs}

GrowInv ==
    /\ acks = <<>>
    /\ Reached(habitCounter)
    /\ \A h \in Habits : Reached(formCounter[h])
    /\ mainQueue \in Seq(GoodBlocks)
    /\ reads \in Seq(GoodCalls)
    /\ app = "castTrap" => readErrors > 0

Growing == deletions = 0 => GrowInv

----------------------------------------------------------------------------

(* No block of a deletion can be at the head of the queue. *)
LEMMA NoCompletions ==
    ASSUME TypeInv, GrowInv
    PROVE  ~Ack /\ ~RunDeleted /\ ~RunCounterSet
<1>1. ~Ack
  BY DEF Ack, GrowInv
<1>2. ASSUME NEW k \in {"deleted", "counterSet"}, Runs(k) PROVE FALSE
  <2>1. Head(mainQueue) \in GoodBlocks
    BY <1>2, NonEmptySeq DEF Runs, GrowInv
  <2> QED
    BY <1>2, <2>1 DEF Runs, GoodBlocks, BlockGrows
<1> QED
  BY <1>1, <1>2 DEF RunDeleted, RunCounterSet

LEMMA SetDataDomain ==
    ASSUME NEW c, NEW n, NEW d
    PROVE  DOMAIN SetData(c, n, d) = DOMAIN c \cup {n}
BY DEF SetData

LEMMA UpdateDataDomain ==
    ASSUME NEW c, NEW n, NEW d
    PROVE  DOMAIN UpdateData(c, n, d) = DOMAIN c
<1>1. CASE n \in DOMAIN c
  <2>1. DOMAIN SetData(c, n, d) = DOMAIN c
    BY <1>1 DEF SetData
  <2> QED
    BY <1>1, <2>1 DEF UpdateData
<1>2. CASE n \notin DOMAIN c
  BY <1>2 DEF UpdateData
<1> QED
  BY <1>1, <1>2

(* Before the first deletion no step removes a document. *)
LEMMA DocumentsStay ==
    ASSUME TypeInv, Growing, [Next]_vars, deletions' = 0
    PROVE  /\ deletions = 0
           /\ DOMAIN docs \subseteq DOMAIN docs'
           /\ readErrors \in Nat /\ readErrors' \in Nat
           /\ readErrors' = 0 => readErrors = 0
<1>1. readErrors \in Nat /\ deletions \in Nat
  BY DEF TypeInv, TypeOK, BoundsOK
<1>2. CASE User
  <2>1. ~TapDelete
    BY <1>1 DEF TapDelete
  <2>2. CASE SaveEdit
    BY <1>1, <2>2, UpdateDataDomain DEF SaveEdit
  <2> QED
    BY <1>1, <1>2, <2>1, <2>2 DEF User, LongPress, TapPressed, TouchStaleCell, Swipe,
       OpenCreate, TapAdd, Back, OpenEdit, TapStaleButton, IndexTrap, fetchVars, histVars
<1>3. CASE System
  <2>1. CASE RunCreate
    <3>1. PICK n, d : docs' = SetData(docs, n, d)
      BY <2>1 DEF RunCreate
    <3>2. DOMAIN docs' = DOMAIN docs \cup {n}
      BY <3>1, SetDataDomain
    <3> QED
      BY <1>1, <2>1, <3>2 DEF RunCreate
  <2>2. CASE FetchStep
    BY <1>1, <2>2 DEF FetchStep, RunFetch, RunCounter, RunHabitTraps, AnswerHabit,
       AnswerUser, Answer, histVars
  <2>3. CASE Reload
    BY <1>1, <2>3 DEF Reload, RunHabit, histVars
  <2>4. CASE Ack \/ RunDeleted \/ RunCounterSet
    <3>1. deletions = 0
      BY <2>4 DEF Ack, RunDeleted, RunCounterSet, histVars
    <3> QED
      BY <2>4, <3>1, NoCompletions DEF Growing
  <2> QED
    BY <1>3, <2>1, <2>2, <2>3, <2>4 DEF System
<1>4. CASE ReadFails
  BY <1>1, <1>4 DEF ReadFails, AnswerError, Answer, histVars
<1>5. CASE Relaunch
  BY <1>1, <1>5 DEF Relaunch, RelaunchHome
<1>6. CASE UNCHANGED vars
  BY <1>1, <1>6 DEF vars, fetchVars, histVars
<1> QED
  BY <1>2, <1>3, <1>4, <1>5, <1>6 DEF Next

(* What was right of a call, a block or a number stays right. *)
LEMMA GoodStaysGood ==
    ASSUME DOMAIN docs \subseteq DOMAIN docs', readErrors' = 0 => readErrors = 0
    PROVE  /\ \A c : Reached(c) => 0..(c - 1) \subseteq DOMAIN docs'
           /\ Seq(GoodBlocks) \subseteq Seq(GoodBlocks')
           /\ Seq(GoodCalls) \subseteq Seq(GoodCalls')
<1>1. \A c : Reached(c) => 0..(c - 1) \subseteq DOMAIN docs'
  BY DEF Reached
<1>2. GoodBlocks \subseteq GoodBlocks'
  BY DEF GoodBlocks, BlockGrows, Reached
<1>3. GoodCalls \subseteq GoodCalls'
  BY DEF GoodCalls
<1>4. \A S, T : S \subseteq T => Seq(S) \subseteq Seq(T)
  OBVIOUS
<1> QED
  BY <1>1, <1>2, <1>3, <1>4

(* The three facts above, as every step uses them. *)
StepFacts ==
    /\ DOMAIN docs \subseteq DOMAIN docs'
    /\ readErrors' = 0 => readErrors = 0
    /\ \A c : Reached(c) => 0..(c - 1) \subseteq DOMAIN docs'
    /\ Seq(GoodBlocks) \subseteq Seq(GoodBlocks')
    /\ Seq(GoodCalls) \subseteq Seq(GoodCalls')

LEMMA FetchBlockGood == FetchBlock \in GoodBlocks'
BY FetchBlockType DEF GoodBlocks, BlockGrows, FetchBlock, Block

(* Steps that leave the numbers alone. *)
LEMMA GrowUnchanged ==
    ASSUME GrowInv, StepFacts, UNCHANGED <<habitCounter, formCounter, acks>>,
           app' = "castTrap" => app = "castTrap" /\ readErrors' = readErrors,
           mainQueue' \in Seq(GoodBlocks'), reads' \in Seq(GoodCalls')
    PROVE  GrowInv'
BY DEF GrowInv, StepFacts, Reached

LEMMA UserGrows ==
    ASSUME TypeInv, GrowInv, StepFacts, User, ~TapDelete
    PROVE  GrowInv'
<1>1. ASSUME NEW h \in Habits, OpenCreate(h) PROVE GrowInv'
  <2>1. \A g \in Habits : formCounter'[g] = formCounter[g] \/ formCounter'[g] = 0
    BY <1>1 DEF OpenCreate, TypeInv, TypeOK, UiTypeOK
  <2>2. 0..(0 - 1) \subseteq DOMAIN docs'
    OBVIOUS
  <2>3. \A g \in Habits : Reached(formCounter[g])'
    BY <2>1, <2>2 DEF GrowInv, StepFacts, Reached
  <2> QED
    BY <1>1, <2>3 DEF OpenCreate, fetchVars, GrowInv, StepFacts, Reached
<1>2. ASSUME NEW h \in Habits, TapAdd(h) PROVE GrowInv'
  <2>1. CreateCall(h) \in GoodCalls'
    BY DEF CreateCall, CreateType, GoodCalls
  <2>2. reads' \in Seq(GoodCalls')
    BY <1>2, <2>1 DEF TapAdd, GrowInv, StepFacts
  <2> QED
    BY <1>2, <2>2, GrowUnchanged DEF TapAdd, GrowInv, StepFacts
<1>3. CASE SaveEdit
  <2>1. mainQueue' \in Seq(GoodBlocks')
    BY <1>3, FetchBlockGood DEF SaveEdit, Update, GrowInv, StepFacts
  <2> QED
    BY <1>3, <2>1, GrowUnchanged DEF SaveEdit, GrowInv, StepFacts
<1>4. CASE \/ \E r \in 0..(shown - 1) : LongPress(r) \/ TapPressed(r) \/ TouchStaleCell(r)
           \/ Swipe \/ Back \/ OpenEdit \/ TapStaleButton
  <2>1. /\ UNCHANGED <<habitCounter, formCounter, acks, mainQueue, reads, readErrors>>
        /\ app' = app \/ app' = "indexTrap"
    BY <1>4 DEF LongPress, TapPressed, TouchStaleCell, Swipe, Back, OpenEdit,
       TapStaleButton, IndexTrap, fetchVars
  <2> QED
    BY <2>1, GrowUnchanged DEF GrowInv, StepFacts
<1> QED
  BY <1>1, <1>2, <1>3, <1>4 DEF User

(* The create screen gets a number that was reached, and writes the document
   that the raised counter counts. *)
LEMMA CreateGrows ==
    ASSUME TypeInv, GrowInv, StepFacts, RunCreate
    PROVE  GrowInv'
<1> DEFINE h      == Head(mainQueue).call.habit
           snap   == Head(mainQueue).snap
           number == NextNumber(h, snap)
<1>1. /\ Head(mainQueue) \in GoodBlocks
      /\ Tail(mainQueue) \in Seq(GoodBlocks)
      /\ Head(mainQueue).call.kind = "create"
  BY NonEmptySeq DEF RunCreate, Runs, GrowInv
<1>2. /\ h \in Habits /\ snap \in Seq([habitCounter : Nat])
      /\ snap # <<>> => Reached(snap[1].habitCounter)
  <2>1. Head(mainQueue) \in BlockType /\ BlockGrows(Head(mainQueue))
    BY <1>1 DEF GoodBlocks
  <2>2. h \in Habits /\ snap \in Seq([habitCounter : Nat])
    BY <1>1, <2>1, BlockSnapshots
  <2> QED
    BY <1>1, <2>1, <2>2 DEF BlockGrows
<1>3. number \in Nat /\ Reached(number)
  <2>1. CASE snap = <<>>
    BY <1>2, <2>1 DEF NextNumber, GrowInv, TypeInv, TypeOK, UiTypeOK
  <2>2. CASE snap # <<>>
    <3>1. snap[1] \in [habitCounter : Nat]
      BY <1>2, <2>2, NonEmptySeq
    <3> QED
      BY <1>2, <2>2, <3>1 DEF NextNumber
  <2> QED
    BY <2>1, <2>2
<1>4. /\ formCounter' = [formCounter EXCEPT ![h] = number]
      /\ docs' = SetData(docs, number, NewData(h))
      /\ habitCounter' = number + 1
      /\ mainQueue' = Append(Tail(mainQueue), FetchBlock)
      /\ UNCHANGED <<reads, acks, app, readErrors>>
  BY DEF RunCreate, CounterAfter, Update
<1> HIDE DEF h, snap, number
<1>5. DOMAIN docs' = DOMAIN docs \cup {number}
  BY <1>4, SetDataDomain
<1>6. Reached(habitCounter)'
  <2>1. 0..((number + 1) - 1) = 0..(number - 1) \cup {number}
    BY <1>3
  <2> QED
    BY <1>3, <1>4, <1>5, <2>1 DEF Reached
<1>7. \A g \in Habits : Reached(formCounter[g])'
  <2>1. \A g \in Habits : formCounter'[g] = formCounter[g] \/ formCounter'[g] = number
    BY <1>4 DEF TypeInv, TypeOK, UiTypeOK
  <2>2. 0..(number - 1) \subseteq DOMAIN docs'
    BY <1>3 DEF StepFacts
  <2> QED
    BY <2>1, <2>2 DEF GrowInv, StepFacts, Reached
<1>8. mainQueue' \in Seq(GoodBlocks')
  BY <1>1, <1>4, FetchBlockGood DEF StepFacts
<1> QED
  BY <1>4, <1>6, <1>7, <1>8 DEF GrowInv, StepFacts

(* The steps of the fetch: its numbers come from an answer, or, when the
   counter could not be read, from an earlier fetch. *)
LEMMA RunCounterGrows ==
    ASSUME TypeInv, GrowInv, StepFacts, RunCounter,
           UNCHANGED <<uiVars, acks, formCounter, histVars>>
    PROVE  GrowInv'
<1> DEFINE snap  == Head(mainQueue).snap
           calls == [n \in 1..(localHabitCounter' + 1) |-> HabitCall(n - 1)]
<1>1. /\ Head(mainQueue) \in GoodBlocks
      /\ Tail(mainQueue) \in Seq(GoodBlocks)
      /\ Head(mainQueue).call.kind = "counter"
  BY NonEmptySeq DEF RunCounter, Runs, GrowInv
<1>2. /\ snap \in Seq([habitCounter : Nat])
      /\ snap # <<>> => Reached(snap[1].habitCounter)
      /\ readErrors = 0 => snap # <<>>
  <2>1. Head(mainQueue) \in BlockType /\ BlockGrows(Head(mainQueue))
    BY <1>1 DEF GoodBlocks
  <2>2. snap \in Seq([habitCounter : Nat])
    BY <1>1, <2>1, BlockSnapshots
  <2> QED
    BY <1>1, <2>1, <2>2 DEF BlockGrows
<1>3. /\ localHabitCounter' = IF snap = <<>> THEN localHabitCounter
                              ELSE snap[1].habitCounter - 1
      /\ reads' = reads \o calls
      /\ mainQueue' = Tail(mainQueue)
      /\ UNCHANGED <<docs, habitCounter, app, readErrors, acks, formCounter>>
  BY DEF RunCounter
<1>4. localHabitCounter' \in Nat \cup {-1}
  BY RunCounterType DEF TypeInv, TypeOK, ListTypeOK
<1>5. localHabitCounter' + 1 \in Nat
  <2>1. \A x \in Nat \cup {-1} : x + 1 \in Nat
    OBVIOUS
  <2> QED
    BY <1>4, <2>1, Zenon
<1> HIDE DEF snap
<1>6. readErrors = 0 => 0..localHabitCounter' \subseteq DOMAIN docs
  <2> SUFFICES ASSUME readErrors = 0
               PROVE  0..localHabitCounter' \subseteq DOMAIN docs
    OBVIOUS
  <2>1. snap # <<>> /\ snap[1] \in [habitCounter : Nat]
    BY <1>2, NonEmptySeq
  <2>2. localHabitCounter' = snap[1].habitCounter - 1
    BY <1>3, <2>1
  <2> QED
    BY <1>2, <2>1, <2>2 DEF Reached
<1>7. \A n \in 1..(localHabitCounter' + 1) : HabitCall(n - 1) \in GoodCalls
  <2> TAKE n \in 1..(localHabitCounter' + 1)
  <2>1. n - 1 \in Nat /\ n - 1 \in 0..localHabitCounter'
    <3>1. \A x \in Int : \A m \in 1..(x + 1) : m - 1 \in Nat /\ m - 1 \in 0..x
      OBVIOUS
    <3>2. localHabitCounter' \in Int
      BY <1>4
    <3> QED
      BY <3>1, <3>2, Zenon
  <2>2. HabitCall(n - 1) \in HabitType
    BY <2>1 DEF HabitCall, HabitType
  <2>3. HabitCall(n - 1).n = n - 1
    BY DEF HabitCall
  <2> QED
    BY <1>6, <2>1, <2>2, <2>3 DEF GoodCalls
<1>8. calls \in Seq(GoodCalls)
  <2>1. calls \in [1..(localHabitCounter' + 1) -> GoodCalls]
    BY <1>7
  <2> QED
    BY <1>5, <2>1, SeqDef
<1> HIDE DEF calls
<1>9. reads \o calls \in Seq(GoodCalls)
  BY <1>8 DEF GrowInv
<1>10. reads' \in Seq(GoodCalls') /\ mainQueue' \in Seq(GoodBlocks')
  BY <1>1, <1>3, <1>9 DEF StepFacts
<1> QED
  BY <1>3, <1>10, GrowUnchanged

LEMMA ReloadGrows ==
    ASSUME TypeInv, GrowInv, StepFacts,
           \/ Reload
           \/ /\ RunFetch \/ RunHabitTraps
              /\ UNCHANGED <<uiVars, acks, formCounter, histVars>>
    PROVE  GrowInv'
<1>a. /\ Head(mainQueue) \in GoodBlocks /\ Tail(mainQueue) \in Seq(GoodBlocks)
  BY NonEmptySeq DEF Reload, RunHabit, RunFetch, RunHabitTraps, Runs, GrowInv
<1>1. CASE Reload
  <2>1. /\ mainQueue' = Tail(mainQueue)
        /\ UNCHANGED <<habitCounter, formCounter, acks, app, reads, readErrors>>
    BY <1>1 DEF Reload, RunHabit
  <2> QED
    BY <1>a, <2>1, GrowUnchanged DEF GrowInv, StepFacts
<1>2. CASE RunFetch /\ UNCHANGED <<uiVars, acks, formCounter, histVars>>
  <2>1. CounterCall \in GoodCalls
    BY DEF CounterCall, GoodCalls
  <2>2. /\ mainQueue' = Tail(mainQueue)
        /\ reads' = Append(reads, CounterCall)
        /\ UNCHANGED <<habitCounter, formCounter, acks, app, readErrors>>
    BY <1>2 DEF RunFetch, StartFetch
  <2>3. reads' \in Seq(GoodCalls)
    BY <2>1, <2>2 DEF GrowInv
  <2> QED
    BY <1>a, <2>2, <2>3, GrowUnchanged DEF StepFacts
<1>3. CASE RunHabitTraps /\ UNCHANGED <<uiVars, acks, formCounter, histVars>>
  <2>1. Head(mainQueue).call.kind = "habit" /\ Missing(Head(mainQueue).snap)
    BY <1>3 DEF RunHabitTraps, Runs
  <2>2. readErrors # 0
    BY <1>a, <2>1 DEF GoodBlocks, BlockGrows
  <2>3. readErrors > 0
    BY <2>2 DEF TypeInv, TypeOK, BoundsOK
  <2>4. UNCHANGED <<habitCounter, formCounter, acks, mainQueue, reads, readErrors>>
    BY <1>3 DEF RunHabitTraps
  <2> QED
    BY <2>3, <2>4 DEF GrowInv, StepFacts, Reached
<1> QED
  BY <1>1, <1>2, <1>3

(* Firestore answers with what is there now: the counter, which was reached,
   or a document below it. *)
LEMMA AnswerGrows ==
    ASSUME TypeInv, GrowInv, StepFacts, NEW i \in DOMAIN reads,
           AnswerHabit(i) \/ AnswerUser(i) \/ AnswerError(i),
           UNCHANGED <<uiVars, acks, formCounter, histVars>>
    PROVE  GrowInv'
<1>1. /\ reads[i] \in GoodCalls
      /\ reads[i] \in {CounterCall} \cup CreateType \cup HabitType
  BY DEF GrowInv, GoodCalls
<1>2. PICK snap : Answer(i, snap) /\ Block(reads[i], snap) \in GoodBlocks'
  <2>1. CASE AnswerHabit(i)
    <3> DEFINE snap == Snapshot(docs, reads[i].n)
    <3>1. reads[i] \in HabitType /\ reads[i].kind = "habit"
      BY <1>1, <2>1, CallKinds DEF AnswerHabit
    <3>2. snap \in Seq(Data \cup {NoDoc})
      BY DEF Snapshot, StoreTypeOK, TypeInv, TypeOK
    <3>3. readErrors' = 0 => reads[i].n \in DOMAIN docs'
      BY <1>1, <3>1 DEF GoodCalls, StepFacts
    <3>4. readErrors' = 0 => ~Missing(snap)
      BY <1>1, <3>1, NoDocAssumption
         DEF GoodCalls, Missing, Snapshot, StepFacts, StoreTypeOK, TypeInv, TypeOK
    <3> HIDE DEF snap
    <3>5. Block(reads[i], snap) \in BlockType
      BY <3>1, <3>2 DEF Block, BlockType
    <3>6. Block(reads[i], snap) \in GoodBlocks'
      BY <3>1, <3>3, <3>4, <3>5 DEF Block, GoodBlocks, BlockGrows, Missing
    <3> QED
      BY <2>1, <3>6 DEF AnswerHabit, snap
  <2>2. CASE AnswerUser(i)
    <3> DEFINE snap == <<[habitCounter |-> habitCounter]>>
    <3>1. reads[i] \in {CounterCall} \cup CreateType /\ reads[i].kind # "habit"
      BY <1>1, <2>2, CallKinds DEF AnswerUser
    <3>2. reads[i].kind \in {"counter", "create"}
      BY <1>1, <3>1, CallKinds
    <3>3. snap \in Seq([habitCounter : Nat]) /\ snap # <<>>
          /\ snap[1].habitCounter = habitCounter
      BY DEF StoreTypeOK, TypeInv, TypeOK
    <3>4. 0..(snap[1].habitCounter - 1) \subseteq DOMAIN docs'
      BY <3>3 DEF GrowInv, StepFacts
    <3> HIDE DEF snap
    <3>5. Block(reads[i], snap) \in BlockType
      BY <3>1, <3>3 DEF Block, BlockType
    <3>6. Block(reads[i], snap) \in GoodBlocks'
      BY <3>2, <3>3, <3>4, <3>5 DEF Block, GoodBlocks, BlockGrows, Reached
    <3> QED
      BY <2>2, <3>6 DEF AnswerUser, snap
  <2>3. CASE AnswerError(i)
    <3>1. <<>> \in Seq([habitCounter : Nat]) /\ <<>> \in Seq(Data \cup {NoDoc})
      OBVIOUS
    <3>2. Block(reads[i], <<>>) \in BlockType
      BY <1>1, <3>1 DEF Block, BlockType
    <3>3. readErrors' # 0
      BY <2>3 DEF AnswerError, TypeInv, TypeOK, BoundsOK
    <3>4. reads[i].kind \in {"counter", "create", "habit"}
      BY <1>1, CallKinds
    <3>5. Block(reads[i], <<>>) \in GoodBlocks'
      BY <3>2, <3>3, <3>4 DEF Block, GoodBlocks, BlockGrows
    <3> QED
      BY <2>3, <3>5 DEF AnswerError
  <2> QED
    BY <2>1, <2>2, <2>3
<1>3. reads' \in Seq(GoodCalls')
  <2>1. RemoveAt(reads, i) \in Seq(GoodCalls)
    BY RemoveAtType DEF GrowInv
  <2> QED
    BY <1>2, <2>1 DEF Answer, StepFacts
<1>4. mainQueue' \in Seq(GoodBlocks')
  BY <1>2 DEF Answer, GrowInv, StepFacts
<1>5. UNCHANGED <<habitCounter, formCounter, acks>> /\ app = "running" /\ app' = app
  BY <1>2 DEF Answer, AnswerHabit, AnswerUser, AnswerError
<1> QED
  BY <1>3, <1>4, <1>5, GrowUnchanged

LEMMA RelaunchGrows ==
    ASSUME TypeInv, GrowInv, StepFacts, Relaunch
    PROVE  GrowInv'
<1>1. CounterCall \in GoodCalls'
  BY DEF CounterCall, GoodCalls
<1>2. reads' \in Seq(GoodCalls') /\ mainQueue' \in Seq(GoodBlocks')
  BY <1>1 DEF Relaunch, RelaunchHome
<1>3. \A h \in Habits : Reached(formCounter[h])'
  BY DEF Relaunch, Reached
<1> QED
  BY <1>2, <1>3 DEF Relaunch, RelaunchHome, GrowInv, StepFacts, Reached

LEMMA InitGrows == Init => Growing
<1> SUFFICES ASSUME Init PROVE GrowInv
  BY DEF Growing
<1>1. CounterCall \in GoodCalls
  BY DEF CounterCall, GoodCalls
<1>2. reads \in Seq(GoodCalls) /\ mainQueue \in Seq(GoodBlocks)
  BY <1>1 DEF Init, FetchInit
<1>3. Reached(habitCounter) /\ \A h \in Habits : Reached(formCounter[h])
  BY DEF Init, FetchInit, Reached
<1> QED
  BY <1>2, <1>3 DEF Init, FetchInit, GrowInv

LEMMA NextGrows == TypeInv /\ Growing /\ [Next]_vars => Growing'
<1> SUFFICES ASSUME TypeInv, Growing, [Next]_vars, deletions' = 0
             PROVE  GrowInv'
  BY DEF Growing
<1>1. StepFacts
  BY DocumentsStay, GoodStaysGood DEF StepFacts
<1>2. GrowInv /\ deletions = 0
  BY DocumentsStay DEF Growing
<1>3. CASE User
  <2>1. ~TapDelete
    BY <1>2 DEF TapDelete
  <2> QED
    BY <1>1, <1>2, <1>3, <2>1, UserGrows
<1>4. CASE System
  BY <1>1, <1>2, <1>4, NoCompletions, CreateGrows, RunCounterGrows, ReloadGrows,
     AnswerGrows DEF System, FetchStep
<1>5. CASE ReadFails
  BY <1>1, <1>2, <1>5, AnswerGrows DEF ReadFails
<1>6. CASE Relaunch
  BY <1>1, <1>2, <1>6, RelaunchGrows
<1>7. CASE UNCHANGED vars
  BY <1>1, <1>2, <1>7, GrowUnchanged DEF vars, fetchVars, GrowInv, StepFacts
<1> QED
  BY <1>3, <1>4, <1>5, <1>6, <1>7 DEF Next

(* As long as nothing was deleted, every counted document exists, and no fetch
   traps on a missing one unless the counter could not be read: for any number
   of habits, taps, pending calls, read errors and relaunches. *)
THEOREM CountedDocumentsExist == Spec => []NoDeletionNoGap
<1>1. Init => TypeInv /\ Growing
  BY InitType, InitGrows
<1>2. TypeInv /\ Growing /\ [Next]_vars => TypeInv' /\ Growing'
  BY NextType, NextGrows
<1>3. Growing => NoDeletionNoGap
  BY DEF Growing, GrowInv, NoDeletionNoGap, Reached
<1> QED
  BY <1>1, <1>2, <1>3, PTL DEF Spec

----------------------------------------------------------------------------
\* Adds that race

(* Adds that race each other do not shrink the counter.

   A create screen raises the counter it was answered, which may be out of
   date when its block runs.  The answers wait in the main queue in the order
   they were given, so the numbers in the queue ascend; and each is the counter
   of now or its predecessor.  Without the order the second part would not be
   inductive: the block that runs sets the counter to its number plus one, and
   the blocks behind it must not be below that number. *)

IsCreate(b) == b.call.kind = "create"
Number(b)   == b.snap[1].habitCounter

(* The answers to the create screens in queue, for the counter c. *)
Near(queue, c) ==
    \A i \in 1..Len(queue) : IsCreate(queue[i]) =>
        queue[i].snap # <<>> /\ Number(queue[i]) \in {c - 1, c}
Ascending(queue) ==
    \A i, j \in 1..Len(queue) :
        i < j /\ IsCreate(queue[i]) /\ IsCreate(queue[j]) =>
            Number(queue[i]) <= Number(queue[j])

Racing ==
    deletions = 0 /\ readErrors = 0 =>
        Near(mainQueue, habitCounter) /\ Ascending(mainQueue)

----------------------------------------------------------------------------

LEMMA TailRaces ==
    ASSUME NEW queue \in Seq(BlockType), queue # <<>>, NEW c \in Nat,
           Near(queue, c), Ascending(queue)
    PROVE  Near(Tail(queue), c) /\ Ascending(Tail(queue))
<1>1. /\ Len(Tail(queue)) = Len(queue) - 1 /\ Len(queue) \in Nat
      /\ \A i \in 1..Len(Tail(queue)) : Tail(queue)[i] = queue[i + 1]
  BY HeadTailProperties
<1>2. \A i \in 1..Len(Tail(queue)) : i + 1 \in 1..Len(queue)
  BY <1>1
<1>3. Near(Tail(queue), c)
  BY <1>1, <1>2 DEF Near
<1>4. Ascending(Tail(queue))
  <2> SUFFICES ASSUME NEW i \in 1..Len(Tail(queue)), NEW j \in 1..Len(Tail(queue)),
                      i < j, IsCreate(Tail(queue)[i]), IsCreate(Tail(queue)[j])
               PROVE  Number(Tail(queue)[i]) <= Number(Tail(queue)[j])
    BY DEF Ascending
  <2>1. i + 1 \in 1..Len(queue) /\ j + 1 \in 1..Len(queue) /\ i + 1 < j + 1
    BY <1>1
  <2> QED
    BY <1>1, <2>1 DEF Ascending
<1> QED
  BY <1>3, <1>4

LEMMA AppendRaces ==
    ASSUME NEW queue \in Seq(BlockType), NEW b \in BlockType, NEW c \in Nat,
           Near(queue, c), Ascending(queue),
           IsCreate(b) => b.snap # <<>> /\ Number(b) = c
    PROVE  Near(Append(queue, b), c) /\ Ascending(Append(queue, b))
<1> DEFINE new == Append(queue, b)
<1>1. /\ Len(new) = Len(queue) + 1 /\ Len(queue) \in Nat
      /\ \A i \in 1..Len(queue) : new[i] = queue[i]
      /\ new[Len(queue) + 1] = b
  OBVIOUS
<1> HIDE DEF new
<1>2. Near(new, c)
  <2> SUFFICES ASSUME NEW i \in 1..Len(new), IsCreate(new[i])
               PROVE  new[i].snap # <<>> /\ Number(new[i]) \in {c - 1, c}
    BY DEF Near
  <2>1. CASE i \in 1..Len(queue)
    BY <1>1, <2>1 DEF Near
  <2>2. CASE i = Len(queue) + 1
    BY <1>1, <2>2
  <2> QED
    BY <1>1, <2>1, <2>2
<1>3. Ascending(new)
  <2> SUFFICES ASSUME NEW i \in 1..Len(new), NEW j \in 1..Len(new),
                      i < j, IsCreate(new[i]), IsCreate(new[j])
               PROVE  Number(new[i]) <= Number(new[j])
    BY DEF Ascending
  <2>1. i \in 1..Len(queue) /\ new[i] = queue[i]
    BY <1>1
  <2>2. CASE j \in 1..Len(queue)
    BY <1>1, <2>1, <2>2 DEF Ascending
  <2>3. CASE j = Len(queue) + 1
    <3>1. Number(new[i]) \in {c - 1, c} /\ Number(new[j]) = c
      BY <1>1, <2>1, <2>3 DEF Near
    <3> QED
      BY <3>1
  <2> QED
    BY <1>1, <2>2, <2>3
<1> QED
  BY <1>2, <1>3 DEF new

(* The oldest create block runs and raises its number. *)
LEMMA CreateRaces ==
    ASSUME TypeInv, Near(mainQueue, habitCounter), Ascending(mainQueue), RunCreate
    PROVE  /\ Near(mainQueue', habitCounter') /\ Ascending(mainQueue')
           /\ habitCounter' >= habitCounter
<1> DEFINE b == Head(mainQueue)
           rest == Tail(mainQueue)
<1>a. mainQueue \in Seq(BlockType) /\ mainQueue # <<>> /\ habitCounter \in Nat
  BY DEF RunCreate, Runs, TypeInv, TypeOK, QueueTypeOK, StoreTypeOK
<1>b. /\ b = mainQueue[1] /\ 1 \in 1..Len(mainQueue)
      /\ rest \in Seq(BlockType) /\ Len(rest) = Len(mainQueue) - 1
      /\ \A i \in 1..Len(rest) : rest[i] = mainQueue[i + 1]
      /\ Len(mainQueue) \in Nat
  BY <1>a, HeadTailProperties
<1>1. IsCreate(b)
  BY DEF RunCreate, Runs, IsCreate
<1>2. b.snap # <<>> /\ Number(b) \in {habitCounter - 1, habitCounter}
  BY <1>1, <1>b DEF Near
<1>3. habitCounter' = Number(b) + 1 /\ mainQueue' = Append(rest, FetchBlock)
  BY <1>2 DEF RunCreate, CounterAfter, NextNumber, Update, Number
<1> HIDE DEF b, rest
<1>4. Near(rest, Number(b) + 1)
  <2> SUFFICES ASSUME NEW i \in 1..Len(rest), IsCreate(rest[i])
               PROVE  /\ rest[i].snap # <<>>
                      /\ Number(rest[i]) \in {(Number(b) + 1) - 1, Number(b) + 1}
    BY DEF Near
  <2>1. i + 1 \in 1..Len(mainQueue) /\ rest[i] = mainQueue[i + 1] /\ 1 < i + 1
    BY <1>b
  <2>2. rest[i].snap # <<>> /\ Number(rest[i]) \in {habitCounter - 1, habitCounter}
    BY <2>1 DEF Near
  <2>3. Number(b) <= Number(rest[i])
    BY <1>1, <1>b, <2>1 DEF Ascending
  <2> QED
    BY <1>2, <1>a, <2>2, <2>3
<1>5. Ascending(rest)
  BY <1>a, TailRaces DEF rest, Near
<1>6. Number(b) + 1 \in Nat
  BY <1>2, <1>3, RunCreateType DEF TypeInv, TypeOK, StoreTypeOK
<1>7. ~IsCreate(FetchBlock) /\ FetchBlock \in BlockType
  BY FetchBlockType DEF FetchBlock, Block, IsCreate
<1>8. /\ Near(Append(rest, FetchBlock), Number(b) + 1)
      /\ Ascending(Append(rest, FetchBlock))
  BY <1>b, <1>4, <1>5, <1>6, <1>7, AppendRaces
<1>9. Number(b) + 1 >= habitCounter
  BY <1>2, <1>a
<1> QED
  BY <1>3, <1>8, <1>9

(* Every other step of a behaviour without deletion or failed read. *)
LEMMA QueueRaces ==
    ASSUME TypeInv, GrowInv, deletions = 0, readErrors = 0, [Next]_vars, ~RunCreate
    PROVE  /\ habitCounter' = habitCounter
           /\ readErrors' = 0 =>
              \/ mainQueue' = mainQueue \/ mainQueue' = <<>>
              \/ mainQueue # <<>> /\ mainQueue' = Tail(mainQueue)
              \/ \E b \in BlockType :
                    /\ mainQueue' = Append(mainQueue, b)
                    /\ IsCreate(b) => b.snap # <<>> /\ Number(b) = habitCounter
<1>1. CASE User
  <2>1. CASE SaveEdit
    <3>1. ~IsCreate(FetchBlock) /\ FetchBlock \in BlockType
      BY FetchBlockType DEF FetchBlock, Block, IsCreate
    <3> QED
      BY <2>1, <3>1 DEF SaveEdit, Update
  <2>2. CASE ~SaveEdit
    <3>1. mainQueue' = mainQueue /\ habitCounter' = habitCounter
      BY <1>1, <2>2 DEF User, LongPress, TapPressed, TouchStaleCell, Swipe,
         OpenCreate, TapAdd, Back, OpenEdit, TapDelete, TapStaleButton, IndexTrap, fetchVars
    <3> QED
      BY <3>1
  <2> QED
    BY <2>1, <2>2
<1>2. ASSUME NEW i \in DOMAIN reads, AnswerHabit(i) \/ AnswerUser(i)
      PROVE  /\ habitCounter' = habitCounter
             /\ \E b \in BlockType :
                    /\ mainQueue' = Append(mainQueue, b)
                    /\ IsCreate(b) => b.snap # <<>> /\ Number(b) = habitCounter
  <2>1. reads[i] \in {CounterCall} \cup CreateType \cup HabitType
    BY DEF TypeInv, TypeOK, QueueTypeOK
  <2>2. CASE AnswerHabit(i)
    <3> DEFINE b == Block(reads[i], Snapshot(docs, reads[i].n))
    <3>1. reads[i] \in HabitType /\ reads[i].kind = "habit"
      BY <2>1, <2>2, CallKinds DEF AnswerHabit
    <3>2. Snapshot(docs, reads[i].n) \in Seq(Data \cup {NoDoc})
      BY DEF Snapshot, StoreTypeOK, TypeInv, TypeOK
    <3>3. b \in BlockType
      BY <3>1, <3>2 DEF Block, BlockType
    <3>4. ~IsCreate(b)
      BY <3>1 DEF Block, IsCreate
    <3> HIDE DEF b
    <3> QED
      BY <2>2, <3>3, <3>4 DEF AnswerHabit, Answer, b
  <2>3. CASE AnswerUser(i)
    <3> DEFINE b == Block(reads[i], <<[habitCounter |-> habitCounter]>>)
    <3>1. reads[i] \in {CounterCall} \cup CreateType
      BY <2>1, <2>3, CallKinds DEF AnswerUser
    <3>2. <<[habitCounter |-> habitCounter]>> \in Seq([habitCounter : Nat])
      BY DEF StoreTypeOK, TypeInv, TypeOK
    <3>3. b \in BlockType
      BY <3>1, <3>2 DEF Block, BlockType
    <3>4. b.snap # <<>> /\ Number(b) = habitCounter
      BY DEF Block, Number
    <3> HIDE DEF b
    <3> QED
      BY <2>3, <3>3, <3>4 DEF AnswerUser, Answer, b
  <2> QED
    BY <1>2, <2>2, <2>3
<1>3. CASE FetchStep
  <2>1. CASE RunFetch \/ RunCounter \/ RunHabitTraps
    BY <2>1 DEF RunFetch, RunCounter, RunHabitTraps, Runs
  <2> QED
    BY <1>2, <1>3, <2>1 DEF FetchStep
<1>4. CASE Reload
  BY <1>4 DEF Reload, RunHabit, Runs
<1>5. CASE System
  BY <1>3, <1>4, <1>5, NoCompletions DEF System
<1>6. CASE ReadFails
  BY <1>6 DEF ReadFails, AnswerError, Answer
<1>7. CASE Relaunch
  BY <1>7 DEF Relaunch, RelaunchHome
<1>8. CASE UNCHANGED vars
  BY <1>8 DEF vars, fetchVars
<1> QED
  BY <1>1, <1>5, <1>6, <1>7, <1>8 DEF Next

LEMMA NextRaces ==
    ASSUME TypeInv, Growing, Racing, [Next]_vars
    PROVE  /\ Racing'
           /\ deletions = 0 /\ readErrors = 0 => habitCounter' >= habitCounter
<1>a. mainQueue \in Seq(BlockType) /\ habitCounter \in Nat
  BY DEF TypeInv, TypeOK, QueueTypeOK, StoreTypeOK
<1>1. ASSUME deletions = 0, readErrors = 0
      PROVE  /\ habitCounter' >= habitCounter
             /\ readErrors' = 0 =>
                   Near(mainQueue', habitCounter') /\ Ascending(mainQueue')
  <2>a. GrowInv /\ Near(mainQueue, habitCounter) /\ Ascending(mainQueue)
    BY <1>1 DEF Growing, Racing
  <2>1. CASE RunCreate
    BY <2>a, <2>1, CreateRaces
  <2>2. CASE ~RunCreate
    <3>1. /\ habitCounter' = habitCounter
          /\ readErrors' = 0 =>
              \/ mainQueue' = mainQueue \/ mainQueue' = <<>>
              \/ mainQueue # <<>> /\ mainQueue' = Tail(mainQueue)
              \/ \E b \in BlockType :
                    /\ mainQueue' = Append(mainQueue, b)
                    /\ IsCreate(b) => b.snap # <<>> /\ Number(b) = habitCounter
      BY <1>1, <2>a, <2>2, QueueRaces
    <3>2. Near(<<>>, habitCounter) /\ Ascending(<<>>)
      BY DEF Near, Ascending
    <3>3. ASSUME mainQueue # <<>>
          PROVE  Near(Tail(mainQueue), habitCounter) /\ Ascending(Tail(mainQueue))
      BY <1>a, <2>a, <3>3, TailRaces
    <3>4. ASSUME NEW b \in BlockType,
                 IsCreate(b) => b.snap # <<>> /\ Number(b) = habitCounter
          PROVE  /\ Near(Append(mainQueue, b), habitCounter)
                 /\ Ascending(Append(mainQueue, b))
      BY <1>a, <2>a, <3>4, AppendRaces
    <3>5. readErrors' = 0 => Near(mainQueue', habitCounter) /\ Ascending(mainQueue')
      BY <2>a, <3>1, <3>2, <3>3, <3>4
    <3>6. habitCounter' >= habitCounter
      BY <1>a, <3>1
    <3> QED
      BY <3>1, <3>5, <3>6
  <2> QED
    BY <2>1, <2>2
<1>2. deletions' = 0 /\ readErrors' = 0 => deletions = 0 /\ readErrors = 0
  BY DocumentsStay
<1> QED
  BY <1>1, <1>2 DEF Racing

LEMMA InitRaces == Init => Racing
BY DEF Init, FetchInit, Racing, Near, Ascending

(* Without deletions and failed reads no step lowers the counter, however many
   adds, from however many create screens and taps, race each other. *)
THEOREM CounterGrows == Spec => CounterOnlyGrows
<1>1. Init => TypeInv /\ Growing /\ Racing
  BY InitType, InitGrows, InitRaces
<1>2. TypeInv /\ Growing /\ Racing /\ [Next]_vars => TypeInv' /\ Growing' /\ Racing'
  BY NextType, NextGrows, NextRaces
<1>3. TypeInv /\ Growing /\ Racing /\ [Next]_vars
        => [deletions = 0 /\ readErrors = 0 => habitCounter' >= habitCounter]_vars
  BY NextRaces
<1> QED
  BY <1>1, <1>2, <1>3, PTL DEF Spec, CounterOnlyGrows

----------------------------------------------------------------------------
\* Cells and list at rest

(* The kinds of the calls and of the blocks of a queue. *)
CallsAre(queue, K)  == \A i \in 1..Len(queue) : queue[i].kind \in K
BlocksAre(queue, K) == \A k \in 1..Len(queue) : queue[k].call.kind \in K

(* No fetch is under way, though one may be due. *)
NoFetch == CallsAre(reads, {"create"}) /\ BlocksAre(mainQueue, {"create", "fetch"})

(* Nothing is shown, listed or asked for. *)
Blank ==
    /\ shown = 0 /\ habitArray = <<>>
    /\ CallsAre(reads, {"create", "counter"})
    /\ BlocksAre(mainQueue, {"create", "counter", "fetch"})

(* A block that will ask for no document. *)
CountsNothing(b) ==
    b.call.kind = "counter" /\ b.snap # <<>> /\ b.snap[1].habitCounter = 0

QuietAgrees   == NoFetch => shown = Len(habitArray) /\ app # "indexTrap"
NothingAsked  == localHabitCounter = -1 => Blank
ButtonsShown  == pressed # {} => indexPathGlobal < shown
NothingIsNext ==
    \A k \in 1..Len(mainQueue) : CountsNothing(mainQueue[k]) =>
        Blank /\ \A j \in 1..(k - 1) : mainQueue[j].call.kind = "create"

(* Before the first add: nothing to show, and a fetch that can only find out
   that there is nothing. *)
NothingThere ==
    /\ DOMAIN docs = {} /\ habitArray = <<>> /\ shown = 0 /\ nav.screen # "edit"
    /\ BlocksAre(mainQueue, {"create", "counter", "habit"})
    /\ \A k \in 1..Len(mainQueue) : mainQueue[k].call.kind = "habit" =>
          mainQueue[k].snap = <<>> \/ Missing(mainQueue[k].snap)
    /\ \A i \in 1..Len(reads) : reads[i].kind = "counter" =>
          /\ \A j \in 1..Len(reads) : j # i => reads[j].kind = "create"
          /\ BlocksAre(mainQueue, {"create"})

CellsInv ==
    /\ QuietAgrees /\ NothingAsked /\ NothingIsNext /\ ButtonsShown
    /\ habitCounter = 0 => NothingThere

----------------------------------------------------------------------------

LEMMA AppendCalls ==
    ASSUME NEW S, NEW queue \in Seq(S), NEW c \in S, NEW K
    PROVE  CallsAre(Append(queue, c), K) <=> CallsAre(queue, K) /\ c.kind \in K
<1> DEFINE new == Append(queue, c)
<1>1. /\ Len(new) = Len(queue) + 1 /\ Len(queue) \in Nat
      /\ \A i \in 1..Len(queue) : new[i] = queue[i]
      /\ new[Len(queue) + 1] = c
  BY AppendProperties
<1> HIDE DEF new
<1>2. 1..(Len(queue) + 1) = 1..Len(queue) \cup {Len(queue) + 1}
  BY <1>1
<1>3. CallsAre(new, K) <=> CallsAre(queue, K) /\ c.kind \in K
  BY <1>1, <1>2 DEF CallsAre
<1> QED
  BY <1>3 DEF new

LEMMA AppendBlocks ==
    ASSUME NEW S, NEW queue \in Seq(S), NEW b \in S, NEW K
    PROVE  BlocksAre(Append(queue, b), K) <=> BlocksAre(queue, K) /\ b.call.kind \in K
<1> DEFINE new == Append(queue, b)
<1>1. /\ Len(new) = Len(queue) + 1 /\ Len(queue) \in Nat
      /\ \A i \in 1..Len(queue) : new[i] = queue[i]
      /\ new[Len(queue) + 1] = b
  BY AppendProperties
<1> HIDE DEF new
<1>2. 1..(Len(queue) + 1) = 1..Len(queue) \cup {Len(queue) + 1}
  BY <1>1
<1>3. BlocksAre(new, K) <=> BlocksAre(queue, K) /\ b.call.kind \in K
  BY <1>1, <1>2 DEF BlocksAre
<1> QED
  BY <1>3 DEF new

LEMMA TailBlocks ==
    ASSUME NEW S, NEW queue \in Seq(S), queue # <<>>, NEW K
    PROVE  BlocksAre(queue, K) <=> BlocksAre(Tail(queue), K) /\ Head(queue).call.kind \in K
<1> DEFINE rest == Tail(queue)
<1>1. /\ Head(queue) = queue[1] /\ 1 \in 1..Len(queue) /\ Len(queue) \in Nat
      /\ Len(rest) = Len(queue) - 1
      /\ \A k \in 1..Len(rest) : k + 1 \in 1..Len(queue) /\ rest[k] = queue[k + 1]
  BY HeadTailProperties, EmptySeq
<1> HIDE DEF rest
<1>2. \A k \in 1..Len(queue) : k # 1 => k - 1 \in 1..Len(rest) /\ (k - 1) + 1 = k
  BY <1>1
<1>3. BlocksAre(queue, K) => BlocksAre(rest, K) /\ Head(queue).call.kind \in K
  BY <1>1 DEF BlocksAre
<1>4. ASSUME BlocksAre(rest, K), Head(queue).call.kind \in K, NEW k \in 1..Len(queue)
      PROVE  queue[k].call.kind \in K
  <2>1. CASE k = 1
    BY <1>1, <1>4, <2>1
  <2>2. CASE k # 1
    <3>1. k - 1 \in 1..Len(rest) /\ (k - 1) + 1 = k
      BY <1>2, <2>2
    <3>2. rest[k - 1] = queue[k]
      BY <1>1, <3>1
    <3> QED
      BY <1>4, <3>1, <3>2 DEF BlocksAre
  <2> QED
    BY <2>1, <2>2
<1>5. BlocksAre(rest, K) /\ Head(queue).call.kind \in K => BlocksAre(queue, K)
  BY <1>4 DEF BlocksAre
<1> QED
  BY <1>3, <1>5 DEF rest

(* An answered call leaves the others in their order. *)
LEMMA OthersAre ==
    ASSUME NEW n \in Nat, NEW i \in 1..n
    PROVE  /\ \A k \in 1..(n - 1) : Others(k, i) \in 1..n /\ Others(k, i) # i
           /\ \A k, m \in 1..(n - 1) : Others(k, i) = Others(m, i) => k = m
           /\ \A m \in 1..n : m # i => \E k \in 1..(n - 1) : Others(k, i) = m
<1>1. /\ \A k \in 1..(n - 1) : Others(k, i) \in 1..n /\ Others(k, i) # i
      /\ \A k, m \in 1..(n - 1) : Others(k, i) = Others(m, i) => k = m
  BY DEF Others
<1>2. \A m \in 1..n : m # i => \E k \in 1..(n - 1) : Others(k, i) = m
  <2> TAKE m \in 1..n
  <2>1. CASE m < i
    BY <2>1 DEF Others
  <2>2. CASE m > i
    <3>1. m - 1 \in 1..(n - 1) /\ Others(m - 1, i) = m
      BY <2>2 DEF Others
    <3> QED
      BY <3>1
  <2> QED
    BY <2>1, <2>2
<1> QED
  BY <1>1, <1>2

LEMMA RemoveCalls ==
    ASSUME NEW S, NEW queue \in Seq(S), NEW i \in 1..Len(queue), NEW K
    PROVE  CallsAre(queue, K) <=> CallsAre(RemoveAt(queue, i), K) /\ queue[i].kind \in K
<1> DEFINE rest == RemoveAt(queue, i)
<1>1. /\ Len(queue) \in Nat /\ Len(rest) = Len(queue) - 1
      /\ \A k \in 1..Len(rest) : Others(k, i) \in 1..Len(queue) /\ rest[k] = queue[Others(k, i)]
  BY RemoveAtType
<1> HIDE DEF rest
<1>a. \A m \in 1..Len(queue) : m # i => \E k \in 1..(Len(queue) - 1) : Others(k, i) = m
  BY <1>1, OthersAre
<1>2. \A m \in 1..Len(queue) : m # i => \E k \in 1..Len(rest) : Others(k, i) = m
  BY <1>1, <1>a
<1>3. CallsAre(queue, K) => CallsAre(rest, K) /\ queue[i].kind \in K
  BY <1>1 DEF CallsAre
<1>4. CallsAre(rest, K) /\ queue[i].kind \in K => CallsAre(queue, K)
  BY <1>1, <1>2 DEF CallsAre
<1> QED
  BY <1>3, <1>4 DEF rest

----------------------------------------------------------------------------
\* The steps

ListAndCalls ==
    <<docs, habitCounter, habitArray, localHabitCounter, shown, reads, mainQueue>>

(* Steps that touch the screen only. *)
LEMMA CellsFrame ==
    ASSUME CellsInv, UNCHANGED ListAndCalls,
           NoFetch /\ app' = "indexTrap" => app = "indexTrap",
           pressed' # {} => indexPathGlobal' < shown,
           habitCounter = 0 => nav'.screen # "edit"
    PROVE  CellsInv'
<1>1. (CallsAre(reads, {"create"}) /\ BlocksAre(mainQueue, {"create", "fetch"}))' <=> NoFetch
  BY DEF ListAndCalls, NoFetch, CallsAre, BlocksAre
<1>2. QuietAgrees'
  BY <1>1 DEF CellsInv, QuietAgrees, NoFetch, ListAndCalls
<1>3. Blank' <=> Blank
  BY DEF Blank, CallsAre, BlocksAre, ListAndCalls
<1>4. NothingAsked' /\ NothingIsNext' /\ ButtonsShown'
  BY <1>3 DEF CellsInv, NothingAsked, NothingIsNext, ButtonsShown, ListAndCalls, CountsNothing
<1>5. (habitCounter = 0 => NothingThere)'
  BY DEF CellsInv, NothingThere, BlocksAre, ListAndCalls, Missing
<1> QED
  BY <1>2, <1>4, <1>5 DEF CellsInv

LEMMA GesturesKeepCells ==
    ASSUME TypeInv, CellsInv,
           \/ \E r \in 0..(shown - 1) : LongPress(r) \/ TapPressed(r) \/ TouchStaleCell(r)
           \/ Swipe
           \/ \E h \in Habits : OpenCreate(h)
           \/ Back
           \/ OpenEdit
           \/ TapStaleButton
    PROVE  CellsInv'
<1>a. /\ shown \in Nat /\ Len(habitArray) \in Nat /\ indexPathGlobal \in Nat
      /\ habitCounter = 0 => habitArray = <<>> /\ nav.screen # "edit"
      /\ NoFetch => shown = Len(habitArray)
      /\ pressed # {} => indexPathGlobal < shown
  BY DEF TypeInv, TypeOK, ListTypeOK, UiTypeOK, CellsInv, NothingThere, QuietAgrees,
     ButtonsShown
<1>1. UNCHANGED ListAndCalls
  BY DEF LongPress, TapPressed, TouchStaleCell, Swipe, OpenCreate, Back, OpenEdit,
     TapStaleButton, IndexTrap, fetchVars, ListAndCalls
<1>2. NoFetch /\ app' = "indexTrap" => app = "indexTrap"
  <2>1. ASSUME NEW r \in 0..(shown - 1), TouchStaleCell(r) PROVE ~NoFetch
    BY <1>a, <2>1 DEF TouchStaleCell, InList
  <2>2. CASE TapStaleButton
    BY <1>a, <2>2 DEF TapStaleButton, InList
  <2> QED
    BY <2>1, <2>2 DEF LongPress, TapPressed, Swipe, OpenCreate, Back, OpenEdit, fetchVars
<1>3. pressed' # {} => indexPathGlobal' < shown
  BY <1>a DEF LongPress, TapPressed, TouchStaleCell, Swipe, OpenCreate, Back, OpenEdit,
     TapStaleButton, IndexTrap, uiVars
<1>4. habitCounter = 0 => nav'.screen # "edit"
  <2>1. CASE OpenEdit
    <3>1. habitCounter # 0
      BY <1>a, <2>1 DEF OpenEdit, InList
    <3> QED
      BY <3>1
  <2>2. CASE Back
    BY <2>2 DEF Back, Home
  <2>3. ASSUME NEW h \in Habits, OpenCreate(h) PROVE nav'.screen # "edit"
    BY <2>3 DEF OpenCreate, CreateVC
  <2>4. CASE \/ \E r \in 0..(shown - 1) : LongPress(r) \/ TapPressed(r) \/ TouchStaleCell(r)
             \/ Swipe
             \/ TapStaleButton
    BY <1>a, <2>4 DEF LongPress, TapPressed, TouchStaleCell, Swipe, TapStaleButton,
       IndexTrap, uiVars
  <2> QED
    BY <2>1, <2>2, <2>3, <2>4
<1> QED
  BY <1>1, <1>2, <1>3, <1>4, CellsFrame

(* Tapping Add asks for one more counter. *)
LEMMA TapAddKeepsCells ==
    ASSUME TypeInv, CellsInv, NEW h \in Habits, TapAdd(h)
    PROVE  CellsInv'
<1> DEFINE S == {CounterCall} \cup CreateType \cup HabitType
<1>1. /\ reads \in Seq(S) /\ CreateCall(h) \in S /\ CreateCall(h).kind = "create"
  BY DEF TypeInv, TypeOK, QueueTypeOK, CreateCall, CreateType
<1>2. /\ reads' = Append(reads, CreateCall(h))
      /\ UNCHANGED <<docs, habitCounter, habitArray, localHabitCounter, shown,
                     mainQueue, app, nav, pressed, indexPathGlobal>>
  BY DEF TapAdd, uiVars
<1>3. \A K : CallsAre(reads, K)' <=> CallsAre(reads', K)
  OBVIOUS
<1>4. /\ CallsAre(reads', {"create"}) <=> CallsAre(reads, {"create"})
      /\ CallsAre(reads', {"create", "counter"}) <=> CallsAre(reads, {"create", "counter"})
  BY <1>1, <1>2, AppendCalls
<1>5. \A K : BlocksAre(mainQueue', K) <=> BlocksAre(mainQueue, K)
  BY <1>2
<1>6. QuietAgrees'
  BY <1>2, <1>4, <1>5 DEF CellsInv, QuietAgrees, NoFetch
<1>7. Blank' <=> Blank
  BY <1>2, <1>4, <1>5 DEF Blank
<1>8. NothingAsked' /\ NothingIsNext' /\ ButtonsShown'
  BY <1>2, <1>7 DEF CellsInv, NothingAsked, NothingIsNext, ButtonsShown, CountsNothing
<1>9. ASSUME NothingThere PROVE NothingThere'
  <2>1. /\ Len(reads') = Len(reads) + 1 /\ Len(reads) \in Nat
        /\ \A i \in 1..Len(reads) : reads'[i] = reads[i]
        /\ reads'[Len(reads) + 1].kind = "create"
    BY <1>1, <1>2, AppendProperties
  <2>2. \A i \in 1..Len(reads') : i \in 1..Len(reads) \/ i = Len(reads) + 1
    BY <2>1
  <2>3. ASSUME NEW i \in 1..Len(reads'), reads'[i].kind = "counter"
        PROVE  /\ \A j \in 1..Len(reads') : j # i => reads'[j].kind = "create"
               /\ BlocksAre(mainQueue, {"create"})
    <3>1. i \in 1..Len(reads) /\ reads[i].kind = "counter"
      BY <2>1, <2>2, <2>3
    <3>2. /\ \A j \in 1..Len(reads) : j # i => reads[j].kind = "create"
          /\ BlocksAre(mainQueue, {"create"})
      BY <1>9, <3>1 DEF NothingThere
    <3> QED
      BY <2>1, <2>2, <3>2
  <2> QED
    BY <1>2, <1>5, <1>9, <2>3 DEF NothingThere, Missing
<1> QED
  BY <1>2, <1>6, <1>8, <1>9 DEF CellsInv

(* A block behind the others, of a call that is no fetch. *)
LEMMA UpdateKeepsCells ==
    ASSUME TypeInv, NothingIsNext, NEW queue \in Seq(BlockType),
           queue = mainQueue \/ (mainQueue # <<>> /\ queue = Tail(mainQueue)
                                 /\ Head(mainQueue).call.kind = "create"),
           mainQueue' = Append(queue, FetchBlock),
           UNCHANGED <<shown, habitArray, reads>>
    PROVE  /\ Blank => Blank'
           /\ NothingIsNext'
           /\ NoFetch' => NoFetch
<1>1. FetchBlock \in BlockType /\ FetchBlock.call.kind = "fetch"
  BY FetchBlockType DEF FetchBlock, Block
<1>a. mainQueue \in Seq(BlockType)
  BY DEF TypeInv, TypeOK, QueueTypeOK
<1>2. \A K : "create" \in K => (BlocksAre(queue, K) <=> BlocksAre(mainQueue, K))
  BY <1>a, TailBlocks
<1>3. \A K : BlocksAre(mainQueue', K) <=> BlocksAre(queue, K) /\ "fetch" \in K
  BY <1>1, AppendBlocks
<1>4. NoFetch' => NoFetch
  BY <1>2, <1>3 DEF NoFetch
<1>5. Blank => Blank'
  BY <1>2, <1>3 DEF Blank
<1>6. NothingIsNext'
  <2> SUFFICES ASSUME NEW k \in 1..Len(mainQueue'), CountsNothing(mainQueue'[k])
               PROVE  Blank' /\ \A j \in 1..(k - 1) : mainQueue'[j].call.kind = "create"
    BY DEF NothingIsNext, CountsNothing
  <2>1. /\ Len(mainQueue') = Len(queue) + 1 /\ Len(queue) \in Nat
        /\ \A i \in 1..Len(queue) : mainQueue'[i] = queue[i]
        /\ mainQueue'[Len(queue) + 1] = FetchBlock
    BY <1>1, AppendProperties
  <2>2. k \in 1..Len(queue) /\ CountsNothing(queue[k])
    BY <1>1, <2>1 DEF CountsNothing
  <2>3. CASE queue = mainQueue
    <3>1. Blank /\ \A j \in 1..(k - 1) : queue[j].call.kind = "create"
      BY <2>2, <2>3 DEF NothingIsNext
    <3> QED
      BY <1>5, <2>1, <2>2, <3>1
  <2>4. CASE mainQueue # <<>> /\ queue = Tail(mainQueue)
    <3>1. /\ Len(queue) = Len(mainQueue) - 1 /\ Len(mainQueue) \in Nat
          /\ \A i \in 1..Len(queue) : queue[i] = mainQueue[i + 1]
      BY <1>a, <2>4, HeadTailProperties
    <3>2. k + 1 \in 1..Len(mainQueue) /\ CountsNothing(mainQueue[k + 1])
      BY <2>2, <3>1
    <3>3. Blank /\ \A j \in 1..k : mainQueue[j].call.kind = "create"
      BY <3>2 DEF NothingIsNext
    <3>4. \A j \in 1..(k - 1) : j + 1 \in 1..k /\ j \in 1..Len(queue)
      BY <2>2, <2>1
    <3> QED
      BY <1>5, <2>1, <3>1, <3>3, <3>4
  <2> QED
    BY <2>3, <2>4
<1> QED
  BY <1>4, <1>5, <1>6

LEMMA SaveEditKeepsCells ==
    ASSUME TypeInv, CellsInv, SaveEdit
    PROVE  CellsInv'
<1>1. /\ mainQueue' = Append(mainQueue, FetchBlock)
      /\ nav.screen = "edit"
      /\ UNCHANGED <<habitCounter, habitArray, localHabitCounter, shown, reads, app,
                     pressed, indexPathGlobal>>
  BY DEF SaveEdit, Update
<1>2. mainQueue \in Seq(BlockType)
  BY DEF TypeInv, TypeOK, QueueTypeOK
<1>3. habitCounter' # 0
  BY <1>1 DEF CellsInv, NothingThere
<1>4. (Blank => Blank') /\ NothingIsNext' /\ (NoFetch' => NoFetch)
  BY <1>1, <1>2, UpdateKeepsCells DEF CellsInv
<1>5. QuietAgrees' /\ NothingAsked' /\ ButtonsShown'
  BY <1>1, <1>4 DEF CellsInv, QuietAgrees, NothingAsked, ButtonsShown
<1> QED
  BY <1>3, <1>4, <1>5 DEF CellsInv

LEMMA CreateKeepsCells ==
    ASSUME TypeInv, CellsInv, RunCreate
    PROVE  CellsInv'
<1>1. /\ mainQueue # <<>> /\ Head(mainQueue).call.kind = "create"
      /\ mainQueue' = Append(Tail(mainQueue), FetchBlock)
      /\ UNCHANGED <<habitArray, localHabitCounter, shown, reads, app,
                     pressed, indexPathGlobal>>
  BY DEF RunCreate, Runs, Update
<1>2. mainQueue \in Seq(BlockType) /\ Tail(mainQueue) \in Seq(BlockType)
  BY <1>1, NonEmptySeq DEF TypeInv, TypeOK, QueueTypeOK
<1>3. habitCounter' # 0
  <2> DEFINE number == NextNumber(Head(mainQueue).call.habit, Head(mainQueue).snap)
  <2>1. Head(mainQueue) \in BlockType
    BY <1>1, NonEmptySeq DEF TypeInv, TypeOK, QueueTypeOK
  <2>2. /\ Head(mainQueue).snap \in Seq([habitCounter : Nat])
        /\ Head(mainQueue).call.habit \in Habits
    BY <1>1, <2>1, BlockSnapshots
  <2>3. number \in Nat
    <3>1. CASE Head(mainQueue).snap = <<>>
      BY <2>2, <3>1 DEF NextNumber, TypeInv, TypeOK, UiTypeOK
    <3>2. CASE Head(mainQueue).snap # <<>>
      <4>1. Head(mainQueue).snap[1] \in [habitCounter : Nat]
        BY <2>2, <3>2, NonEmptySeq
      <4> QED
        BY <3>2, <4>1 DEF NextNumber
    <3> QED
      BY <3>1, <3>2
  <2>4. habitCounter' = number + 1
    BY DEF RunCreate, CounterAfter
  <2> QED
    BY <2>3, <2>4
<1>4. (Blank => Blank') /\ NothingIsNext' /\ (NoFetch' => NoFetch)
  BY <1>1, <1>2, UpdateKeepsCells DEF CellsInv
<1>5. QuietAgrees' /\ NothingAsked' /\ ButtonsShown'
  BY <1>1, <1>4 DEF CellsInv, QuietAgrees, NothingAsked, ButtonsShown
<1> QED
  BY <1>3, <1>4, <1>5 DEF CellsInv

(* The block at the head has run, and was none of a create screen: then no
   block behind it asks for nothing. *)
LEMMA TailKeepsCells ==
    ASSUME TypeInv, NothingIsNext, mainQueue # <<>>,
           Head(mainQueue).call.kind # "create", mainQueue' = Tail(mainQueue)
    PROVE  NothingIsNext'
<1>1. mainQueue \in Seq(BlockType)
  BY DEF TypeInv, TypeOK, QueueTypeOK
<1>2. /\ Len(mainQueue') = Len(mainQueue) - 1 /\ Len(mainQueue) \in Nat
      /\ Head(mainQueue) = mainQueue[1]
      /\ \A i \in 1..Len(mainQueue') : mainQueue'[i] = mainQueue[i + 1]
  BY <1>1, HeadTailProperties
<1>3. ASSUME NEW k \in 1..Len(mainQueue'), CountsNothing(mainQueue'[k]) PROVE FALSE
  <2>1. k + 1 \in 1..Len(mainQueue) /\ CountsNothing(mainQueue[k + 1])
    BY <1>2, <1>3
  <2>2. \A j \in 1..((k + 1) - 1) : mainQueue[j].call.kind = "create"
    BY <2>1 DEF NothingIsNext
  <2>3. 1 \in 1..((k + 1) - 1)
    BY <1>2
  <2> QED
    BY <1>2, <2>2, <2>3
<1> QED
  BY <1>3 DEF NothingIsNext, CountsNothing

LEMMA FetchKeepsCells ==
    ASSUME TypeInv, CellsInv, RunFetch, UNCHANGED <<uiVars, acks, formCounter, histVars>>
    PROVE  CellsInv'
<1> DEFINE S == {CounterCall} \cup CreateType \cup HabitType
<1>1. /\ mainQueue # <<>> /\ Head(mainQueue).call.kind = "fetch"
      /\ mainQueue' = Tail(mainQueue)
      /\ habitArray' = <<>> /\ reads' = Append(reads, CounterCall)
      /\ UNCHANGED <<docs, habitCounter, localHabitCounter, shown, app,
                     pressed, indexPathGlobal>>
  BY DEF RunFetch, StartFetch, Runs, uiVars
<1>2. /\ mainQueue \in Seq(BlockType)
      /\ reads \in Seq(S) /\ CounterCall \in S /\ CounterCall.kind = "counter"
  BY DEF TypeInv, TypeOK, QueueTypeOK, CounterCall
<1>3. ~BlocksAre(mainQueue, {"create", "counter", "habit"})
  <2>1. BlocksAre(mainQueue, {"create", "counter", "habit"}) =>
           Head(mainQueue).call.kind \in {"create", "counter", "habit"}
    BY <1>1, <1>2, TailBlocks
  <2> QED
    BY <1>1, <2>1
<1>4. habitCounter' # 0
  BY <1>1, <1>3 DEF CellsInv, NothingThere
<1>5. NothingIsNext'
  BY <1>1, TailKeepsCells DEF CellsInv
<1>6. ~CallsAre(reads', {"create"})
  BY <1>1, <1>2, AppendCalls
<1>7. Blank => Blank'
  BY <1>1, <1>2, AppendCalls, TailBlocks DEF Blank
<1>8. QuietAgrees' /\ NothingAsked' /\ ButtonsShown'
  BY <1>1, <1>6, <1>7 DEF CellsInv, QuietAgrees, NoFetch, NothingAsked, ButtonsShown
<1> QED
  BY <1>4, <1>5, <1>8 DEF CellsInv

(* The counter has arrived: unless it counts nothing, documents are asked for. *)
LEMMA CounterKeepsCells ==
    ASSUME TypeInv, CellsInv, RunCounter, UNCHANGED <<uiVars, acks, formCounter, histVars>>
    PROVE  CellsInv'
<1> DEFINE S     == {CounterCall} \cup CreateType \cup HabitType
           snap  == Head(mainQueue).snap
           calls == [n \in 1..(localHabitCounter' + 1) |-> HabitCall(n - 1)]
<1>1. /\ mainQueue # <<>> /\ Head(mainQueue).call.kind = "counter"
      /\ mainQueue' = Tail(mainQueue)
      /\ localHabitCounter' = IF snap = <<>> THEN localHabitCounter
                              ELSE snap[1].habitCounter - 1
      /\ reads' = reads \o calls
      /\ app = "running"
      /\ UNCHANGED <<docs, habitCounter, habitArray, shown, app, nav,
                     pressed, indexPathGlobal>>
  BY DEF RunCounter, Runs, uiVars
<1>2. /\ mainQueue \in Seq(BlockType) /\ Head(mainQueue) = mainQueue[1]
      /\ 1 \in 1..Len(mainQueue) /\ Len(mainQueue) \in Nat
  BY <1>1, EmptySeq DEF TypeInv, TypeOK, QueueTypeOK
<1>3. localHabitCounter' \in Nat \cup {-1}
  BY RunCounterType DEF TypeInv, TypeOK, ListTypeOK
<1>4. snap \in Seq([habitCounter : Nat])
  BY <1>1, <1>2, NonEmptySeq, BlockSnapshots
<1> HIDE DEF snap
<1>5. NothingIsNext'
  BY <1>1, TailKeepsCells DEF CellsInv
<1>6. CASE localHabitCounter' = -1
  <2>1. Blank
    <3>1. CASE snap = <<>>
      BY <1>1, <1>6, <3>1 DEF CellsInv, NothingAsked
    <3>2. CASE snap # <<>>
      <4>1. snap[1] \in [habitCounter : Nat]
        BY <1>4, <3>2, NonEmptySeq
      <4>2. snap[1].habitCounter = 0
        BY <1>1, <1>6, <3>2, <4>1
      <4>3. CountsNothing(mainQueue[1])
        BY <1>1, <1>2, <3>2, <4>2 DEF CountsNothing, snap
      <4> QED
        BY <1>2, <4>3 DEF CellsInv, NothingIsNext
    <3> QED
      BY <3>1, <3>2
  <2>2. calls = <<>>
    BY <1>6
  <2> HIDE DEF calls
  <2>3. reads' = reads
    BY <1>1, <2>2 DEF TypeInv, TypeOK, QueueTypeOK
  <2>4. Blank'
    BY <1>1, <1>2, <2>1, <2>3, TailBlocks DEF Blank
  <2>5. QuietAgrees' /\ NothingAsked' /\ ButtonsShown'
    BY <1>1, <2>4 DEF CellsInv, QuietAgrees, NothingAsked, ButtonsShown, Blank
  <2>6. ASSUME habitCounter' = 0 PROVE NothingThere'
    <3>1. NothingThere
      BY <1>1, <2>6 DEF CellsInv
    <3>2. \A i \in 1..Len(reads) : reads[i].kind # "counter"
      BY <1>1, <1>2, <3>1 DEF NothingThere, BlocksAre
    <3>3. BlocksAre(mainQueue', {"create", "counter", "habit"})
      BY <1>1, <1>2, <3>1, TailBlocks DEF NothingThere
    <3>4. \A k \in 1..Len(mainQueue') :
             k + 1 \in 1..Len(mainQueue) /\ mainQueue'[k] = mainQueue[k + 1]
      BY <1>1, <1>2, HeadTailProperties
    <3>5. \A k \in 1..Len(mainQueue') : mainQueue'[k].call.kind = "habit" =>
             mainQueue'[k].snap = <<>> \/ Missing(mainQueue'[k].snap)
      BY <3>1, <3>4 DEF NothingThere
    <3> QED
      BY <1>1, <2>3, <3>1, <3>2, <3>3, <3>5 DEF NothingThere, Missing
  <2> QED
    BY <1>5, <2>5, <2>6 DEF CellsInv
<1>7. CASE localHabitCounter' \in Nat
  <2>1. /\ calls \in Seq(S) /\ Len(calls) = localHabitCounter' + 1
        /\ calls[1].kind = "habit" /\ 1 \in 1..Len(calls)
    <3>1. localHabitCounter' + 1 \in Nat /\ 1 \in 1..(localHabitCounter' + 1)
      <4>1. \A x \in Nat : x + 1 \in Nat /\ 1 \in 1..(x + 1)
        OBVIOUS
      <4> QED
        BY <1>7, <4>1, Zenon
    <3>2. \A n \in 1..(localHabitCounter' + 1) : HabitCall(n - 1) \in S
      BY <3>1 DEF HabitCall, HabitType
    <3>3. calls \in [1..(localHabitCounter' + 1) -> S]
      BY <3>2
    <3>4. calls[1].kind = "habit"
      BY <3>1 DEF HabitCall
    <3>5. calls \in Seq(S) /\ Len(calls) = localHabitCounter' + 1
      BY <3>1, <3>3, SeqDef
    <3> QED
      BY <3>1, <3>4, <3>5
  <2> HIDE DEF calls
  <2>2. reads \in Seq(S)
    BY DEF TypeInv, TypeOK, QueueTypeOK
  <2>3. /\ Len(reads') = Len(reads) + Len(calls) /\ Len(reads) \in Nat /\ Len(calls) \in Nat
        /\ \A i \in 1..Len(reads) : reads'[i] = reads[i]
        /\ \A i \in 1..Len(calls) : reads'[Len(reads) + i] = calls[i]
    <3>1. /\ Len(reads \o calls) = Len(reads) + Len(calls)
          /\ \A i \in 1..(Len(reads) + Len(calls)) :
                (reads \o calls)[i] = IF i <= Len(reads) THEN reads[i]
                                                         ELSE calls[i - Len(reads)]
      BY <2>1, <2>2, ConcatProperties
    <3>2. Len(reads) \in Nat /\ Len(calls) \in Nat
      BY <2>1, <2>2
    <3>3. \A i \in 1..Len(calls) :
             /\ Len(reads) + i \in 1..(Len(reads) + Len(calls))
             /\ ~(Len(reads) + i <= Len(reads)) /\ (Len(reads) + i) - Len(reads) = i
      BY <3>2
    <3>4. \A i \in 1..Len(reads) : i \in 1..(Len(reads) + Len(calls)) /\ i <= Len(reads)
      BY <3>2
    <3> QED
      BY <1>1, <3>1, <3>2, <3>3, <3>4
  <2>4. ~NoFetch'
    <3>1. Len(reads) + 1 \in 1..Len(reads') /\ reads'[Len(reads) + 1].kind = "habit"
      BY <2>1, <2>3
    <3> QED
      BY <3>1 DEF NoFetch, CallsAre
  <2>5. QuietAgrees' /\ NothingAsked' /\ ButtonsShown'
    BY <1>1, <1>7, <2>4 DEF CellsInv, QuietAgrees, NothingAsked, ButtonsShown
  <2>6. ASSUME habitCounter' = 0 PROVE NothingThere'
    <3>1. NothingThere
      BY <1>1, <2>6 DEF CellsInv
    <3>2. \A i \in 1..Len(reads) : reads[i].kind # "counter"
      BY <1>1, <1>2, <3>1 DEF NothingThere, BlocksAre
    <3>3. BlocksAre(mainQueue', {"create", "counter", "habit"})
      BY <1>1, <1>2, <3>1, TailBlocks DEF NothingThere
    <3>4. \A k \in 1..Len(mainQueue') :
             k + 1 \in 1..Len(mainQueue) /\ mainQueue'[k] = mainQueue[k + 1]
      BY <1>1, <1>2, HeadTailProperties
    <3>5. \A k \in 1..Len(mainQueue') : mainQueue'[k].call.kind = "habit" =>
             mainQueue'[k].snap = <<>> \/ Missing(mainQueue'[k].snap)
      BY <3>1, <3>4 DEF NothingThere
    <3>6. \A i \in 1..Len(calls) : calls[i].kind = "habit"
      BY <1>7, <2>1 DEF calls, HabitCall
    <3>7. \A i \in 1..Len(reads') : reads'[i].kind # "counter"
      <4> TAKE i \in 1..Len(reads')
      <4>1. i \in 1..Len(reads) \/ (i - Len(reads) \in 1..Len(calls)
                                    /\ Len(reads) + (i - Len(reads)) = i)
        BY <2>3
      <4> QED
        BY <2>3, <3>2, <3>6, <4>1
    <3> QED
      BY <1>1, <3>1, <3>3, <3>5, <3>7 DEF NothingThere, Missing
  <2> QED
    BY <1>5, <2>5, <2>6 DEF CellsInv
<1> QED
  BY <1>3, <1>6, <1>7

LEMMA ReloadKeepsCells ==
    ASSUME TypeInv, CellsInv, Reload
    PROVE  CellsInv'
<1>1. /\ mainQueue # <<>> /\ Head(mainQueue).call.kind = "habit"
      /\ ~Missing(Head(mainQueue).snap)
      /\ mainQueue' = Tail(mainQueue)
      /\ Head(mainQueue).snap = <<>> => habitArray' = habitArray
      /\ shown' = Len(habitArray') /\ pressed' = {} /\ app' = "running"
      /\ UNCHANGED <<docs, habitCounter, localHabitCounter, reads, nav>>
  BY DEF Reload, RunHabit, Runs, ReloadData
<1>2. /\ mainQueue \in Seq(BlockType) /\ Head(mainQueue) = mainQueue[1]
      /\ 1 \in 1..Len(mainQueue) /\ Len(mainQueue) \in Nat
  BY <1>1, EmptySeq DEF TypeInv, TypeOK, QueueTypeOK
<1>3. ~Blank
  BY <1>1, <1>2 DEF Blank, BlocksAre
<1>4. NothingIsNext'
  BY <1>1, TailKeepsCells DEF CellsInv
<1>5. QuietAgrees' /\ NothingAsked' /\ ButtonsShown'
  BY <1>1, <1>3 DEF CellsInv, QuietAgrees, NothingAsked, ButtonsShown
<1>6. ASSUME habitCounter' = 0 PROVE NothingThere'
  <2>1. NothingThere
    BY <1>1, <1>6 DEF CellsInv
  <2>2. \A i \in 1..Len(reads) : reads[i].kind # "counter"
    BY <1>1, <1>2, <2>1 DEF NothingThere, BlocksAre
  <2>3. BlocksAre(mainQueue', {"create", "counter", "habit"})
    BY <1>1, <1>2, <2>1, TailBlocks DEF NothingThere
  <2>4. \A k \in 1..Len(mainQueue') :
           k + 1 \in 1..Len(mainQueue) /\ mainQueue'[k] = mainQueue[k + 1]
    BY <1>1, <1>2, HeadTailProperties
  <2>5. \A k \in 1..Len(mainQueue') : mainQueue'[k].call.kind = "habit" =>
           mainQueue'[k].snap = <<>> \/ Missing(mainQueue'[k].snap)
    BY <2>1, <2>4 DEF NothingThere
  <2>6. Head(mainQueue).snap = <<>>
    BY <1>1, <1>2, <2>1 DEF NothingThere
  <2>7. habitArray' = <<>> /\ shown' = 0
    BY <1>1, <2>1, <2>6 DEF NothingThere
  <2> QED
    BY <1>1, <2>1, <2>2, <2>3, <2>5, <2>7 DEF NothingThere, Missing
<1> QED
  BY <1>4, <1>5, <1>6 DEF CellsInv

(* A call moves from the reads into the main queue, with what is there now. *)
LEMMA AnswersKeepCells ==
    ASSUME TypeInv, CellsInv, NEW i \in DOMAIN reads,
           AnswerHabit(i) \/ AnswerUser(i) \/ AnswerError(i),
           UNCHANGED <<uiVars, acks, formCounter, histVars>>
    PROVE  CellsInv'
<1> DEFINE S == {CounterCall} \cup CreateType \cup HabitType
<1>a. /\ reads \in Seq(S) /\ i \in 1..Len(reads) /\ Len(reads) \in Nat
      /\ mainQueue \in Seq(BlockType) /\ mainQueue' \in Seq(BlockType)
      /\ Len(mainQueue) \in Nat
  <2>1. TypeInv'
    BY AnswerType
  <2> QED
    BY <2>1 DEF TypeInv, TypeOK, QueueTypeOK
<1>b. reads[i].kind \in {"counter", "create", "habit"}
  BY <1>a, CallKinds
<1>1. PICK snap :
         /\ Answer(i, snap)
         /\ snap # <<>> /\ reads[i].kind # "habit" => snap[1].habitCounter = habitCounter
         /\ snap # <<>> /\ reads[i].kind = "habit" =>
               snap = Snapshot(docs, reads[i].n)
  BY DEF AnswerHabit, AnswerUser, AnswerError
<1> DEFINE new == Block(reads[i], snap)
<1>2. /\ mainQueue' = Append(mainQueue, new) /\ reads' = RemoveAt(reads, i)
      /\ UNCHANGED <<docs, habitCounter, habitArray, localHabitCounter, shown, app,
                     nav, pressed, indexPathGlobal>>
  BY <1>1 DEF Answer, uiVars
<1>3. new.call = reads[i] /\ new.snap = snap
  BY DEF Block
<1> HIDE DEF new
<1>4. /\ Len(mainQueue') = Len(mainQueue) + 1
      /\ \A k \in 1..Len(mainQueue) : mainQueue'[k] = mainQueue[k]
      /\ mainQueue'[Len(mainQueue) + 1] = new
  <2>1. mainQueue'[Len(mainQueue) + 1] = new
    BY <1>a, <1>2
  <2> QED
    BY <1>a, <1>2, <2>1
<1>c. new \in BlockType
  <2>1. Len(mainQueue) + 1 \in 1..Len(mainQueue')
    BY <1>a, <1>4
  <2> QED
    BY <1>a, <1>4, <2>1
<1>5. \A K : BlocksAre(mainQueue', K) <=> BlocksAre(mainQueue, K) /\ reads[i].kind \in K
  BY <1>a, <1>c, <1>2, <1>3, AppendBlocks
<1>6. \A K : CallsAre(reads, K) <=> CallsAre(reads', K) /\ reads[i].kind \in K
  BY <1>a, <1>2, RemoveCalls
<1>7. Blank => Blank'
  BY <1>2, <1>5, <1>6, <1>b DEF Blank
<1>8. QuietAgrees' /\ NothingAsked' /\ ButtonsShown'
  <2>1. NoFetch' => NoFetch
    BY <1>5, <1>6, <1>b DEF NoFetch
  <2> QED
    BY <1>2, <1>7, <2>1 DEF CellsInv, QuietAgrees, NothingAsked, ButtonsShown
<1>9. NothingIsNext'
  <2> SUFFICES ASSUME NEW k \in 1..Len(mainQueue'), CountsNothing(mainQueue'[k])
               PROVE  Blank' /\ \A j \in 1..(k - 1) : mainQueue'[j].call.kind = "create"
    BY DEF NothingIsNext, CountsNothing
  <2>1. CASE k \in 1..Len(mainQueue)
    <3>1. Blank /\ \A j \in 1..(k - 1) : mainQueue[j].call.kind = "create"
      BY <1>4, <2>1 DEF CellsInv, NothingIsNext
    <3>2. \A j \in 1..(k - 1) : j \in 1..Len(mainQueue)
      BY <1>a, <2>1
    <3> QED
      BY <1>4, <1>7, <3>1, <3>2
  <2>2. CASE k = Len(mainQueue) + 1
    <3>1. reads[i].kind = "counter" /\ habitCounter = 0
      BY <1>1, <1>3, <1>4, <2>2 DEF CountsNothing
    <3>2. /\ shown = 0 /\ habitArray = <<>>
          /\ \A j \in 1..Len(reads) : j # i => reads[j].kind = "create"
          /\ BlocksAre(mainQueue, {"create"})
      BY <1>a, <3>1 DEF CellsInv, NothingThere
    <3>3. Blank
      BY <3>1, <3>2 DEF Blank, CallsAre, BlocksAre
    <3>4. \A j \in 1..(k - 1) : j \in 1..Len(mainQueue)
      BY <1>a, <2>2
    <3> QED
      BY <1>4, <1>7, <3>2, <3>3, <3>4 DEF BlocksAre
  <2> QED
    BY <1>a, <1>4, <2>1, <2>2
<1>10. ASSUME habitCounter' = 0 PROVE NothingThere'
  <2>1. NothingThere
    BY <1>2, <1>10 DEF CellsInv
  <2>2. BlocksAre(mainQueue', {"create", "counter", "habit"})
    BY <1>b, <1>5, <2>1 DEF NothingThere
  <2>3. ASSUME NEW k \in 1..Len(mainQueue'), mainQueue'[k].call.kind = "habit"
        PROVE  mainQueue'[k].snap = <<>> \/ Missing(mainQueue'[k].snap)
    <3>1. CASE k \in 1..Len(mainQueue)
      BY <1>4, <2>1, <2>3, <3>1 DEF NothingThere
    <3>2. CASE k = Len(mainQueue) + 1
      <4>1. snap = <<>> \/ snap = Snapshot(docs, reads[i].n)
        BY <1>1, <1>3, <1>4, <2>3, <3>2
      <4>2. Snapshot(docs, reads[i].n) = <<NoDoc>>
        BY <2>1 DEF NothingThere, Snapshot
      <4> QED
        BY <1>3, <1>4, <3>2, <4>1, <4>2 DEF Missing
    <3> QED
      BY <1>a, <1>4, <3>1, <3>2
  <2>4. /\ Len(reads') = Len(reads) - 1
        /\ \A p \in 1..Len(reads') :
              Others(p, i) \in 1..Len(reads) /\ reads'[p] = reads[Others(p, i)]
    BY <1>a, <1>2, RemoveAtType
  <2>5. /\ \A p \in 1..(Len(reads) - 1) : Others(p, i) # i
        /\ \A p, q \in 1..(Len(reads) - 1) : Others(p, i) = Others(q, i) => p = q
    BY <1>a, OthersAre
  <2>6. ASSUME NEW p \in 1..Len(reads'), reads'[p].kind = "counter"
        PROVE  /\ \A q \in 1..Len(reads') : q # p => reads'[q].kind = "create"
               /\ BlocksAre(mainQueue', {"create"})
    <3>1. /\ \A j \in 1..Len(reads) : j # Others(p, i) => reads[j].kind = "create"
          /\ BlocksAre(mainQueue, {"create"})
      BY <2>1, <2>4, <2>6 DEF NothingThere
    <3>2. i # Others(p, i)
      BY <2>4, <2>5
    <3>3. reads[i].kind = "create"
      BY <1>a, <3>1, <3>2
    <3>4. \A q \in 1..Len(reads') : q # p => reads'[q].kind = "create"
      BY <2>4, <2>5, <3>1
    <3> QED
      BY <1>5, <3>1, <3>3, <3>4
  <2> QED
    BY <1>2, <2>1, <2>2, <2>3, <2>6 DEF NothingThere, Missing
<1> QED
  BY <1>8, <1>9, <1>10 DEF CellsInv

LEMMA RelaunchKeepsCells ==
    ASSUME TypeInv, CellsInv, Relaunch
    PROVE  CellsInv'
<1>1. /\ habitArray' = <<>> /\ localHabitCounter' = 0 /\ shown' = 0
      /\ reads' = <<CounterCall>> /\ mainQueue' = <<>> /\ app' = "running"
      /\ nav' = Home /\ pressed' = {}
      /\ UNCHANGED <<docs, habitCounter>>
  BY DEF Relaunch, RelaunchHome
<1>2. CounterCall.kind = "counter" /\ Home.screen = "home"
  BY DEF CounterCall, Home
<1>3. QuietAgrees' /\ NothingAsked' /\ ButtonsShown' /\ NothingIsNext'
  BY <1>1 DEF QuietAgrees, NothingAsked, ButtonsShown, NothingIsNext
<1>4. habitCounter' = 0 => NothingThere'
  BY <1>1, <1>2 DEF CellsInv, NothingThere, BlocksAre
<1> QED
  BY <1>3, <1>4 DEF CellsInv

----------------------------------------------------------------------------

CellsAgree == deletions = 0 => CellsInv

LEMMA InitCells == Init => CellsAgree
<1> SUFFICES ASSUME Init PROVE CellsInv
  BY DEF CellsAgree
<1>1. CounterCall.kind = "counter" /\ Home.screen = "home"
  BY DEF CounterCall, Home
<1>2. QuietAgrees /\ NothingAsked /\ ButtonsShown /\ NothingIsNext
  BY DEF Init, FetchInit, QuietAgrees, NothingAsked, ButtonsShown, NothingIsNext
<1>3. NothingThere
  BY <1>1 DEF Init, FetchInit, NothingThere, BlocksAre
<1> QED
  BY <1>2, <1>3 DEF CellsInv

LEMMA NextCells == TypeInv /\ Growing /\ CellsAgree /\ [Next]_vars => CellsAgree'
<1> SUFFICES ASSUME TypeInv, Growing, CellsAgree, [Next]_vars, deletions' = 0
             PROVE  CellsInv'
  BY DEF CellsAgree
<1>1. deletions = 0 /\ GrowInv /\ CellsInv
  BY DocumentsStay DEF Growing, CellsAgree
<1>2. CASE User
  <2>1. ~TapDelete
    BY <1>1 DEF TapDelete
  <2> QED
    BY <1>1, <1>2, <2>1, GesturesKeepCells, TapAddKeepsCells, SaveEditKeepsCells DEF User
<1>3. CASE System
  <2>1. CASE RunHabitTraps /\ UNCHANGED <<uiVars, acks, formCounter, histVars>>
    <3>1. /\ UNCHANGED ListAndCalls /\ app' = "castTrap"
          /\ UNCHANGED <<nav, pressed, indexPathGlobal>>
      BY <2>1 DEF RunHabitTraps, ListAndCalls, uiVars
    <3>2. pressed' # {} => indexPathGlobal' < shown
      BY <1>1, <3>1 DEF CellsInv, ButtonsShown
    <3>3. habitCounter = 0 => nav'.screen # "edit"
      BY <1>1, <3>1 DEF CellsInv, NothingThere
    <3> QED
      BY <1>1, <3>1, <3>2, <3>3, CellsFrame
  <2> QED
    BY <1>1, <1>3, <2>1, NoCompletions, FetchKeepsCells, CounterKeepsCells, AnswersKeepCells,
       ReloadKeepsCells, CreateKeepsCells DEF System, FetchStep
<1>4. CASE ReadFails
  BY <1>1, <1>4, AnswersKeepCells DEF ReadFails
<1>5. CASE Relaunch
  BY <1>1, <1>5, RelaunchKeepsCells
<1>6. CASE UNCHANGED vars
  <2>1. UNCHANGED <<ListAndCalls, app, nav, pressed, indexPathGlobal>>
    BY <1>6 DEF vars, fetchVars, uiVars, ListAndCalls
  <2> QED
    BY <1>1, <2>1, CellsFrame DEF CellsInv, ButtonsShown, NothingThere
<1> QED
  BY <1>2, <1>3, <1>4, <1>5, <1>6 DEF Next

(* As long as nothing was deleted there are as many cells as habits listed
   whenever no call is pending, and no touch has met a cell without an entry:
   for any habits, adds, edits, failed reads and relaunches, and a user who
   waits for nothing. *)
THEOREM CellsMatchList == Spec => []CellsMatchListAtRest
<1>1. Init => TypeInv /\ Growing /\ CellsAgree
  BY InitType, InitGrows, InitCells
<1>2. TypeInv /\ Growing /\ CellsAgree /\ [Next]_vars => TypeInv' /\ Growing' /\ CellsAgree'
  BY NextType, NextGrows, NextCells
<1>3. CellsAgree => CellsMatchListAtRest
  <2> SUFFICES ASSUME CellsAgree, deletions = 0, Idle
               PROVE  shown = Len(habitArray) /\ app # "indexTrap"
    BY DEF CellsMatchListAtRest
  <2>1. NoFetch
    BY DEF Idle, NoFetch, CallsAre, BlocksAre
  <2> QED
    BY <2>1 DEF CellsAgree, CellsInv, QuietAgrees
<1> QED
  BY <1>1, <1>2, <1>3, PTL DEF Spec

----------------------------------------------------------------------------
\* Adds that do not overlap

(* Adds that do not overlap lose nothing.

   The answer that a create screen waits for carries the counter of its
   moment.  As long as one add is under way at a time nobody else raises the
   counter until the answer has run, so that it writes the first document that
   is not counted, over nothing.  An edit could still rename what was added;
   that the user has edited nothing is seen from saved, because whatever an
   edit can write was saved before. *)

NoAddAsked(queue)    == \A i \in 1..Len(queue) : queue[i].kind # "create"
NoAddAnswered(queue) == \A k \in 1..Len(queue) : queue[k].call.kind # "create"

OneAdd ==
    /\ \A i, j \in 1..Len(reads) :
          reads[i].kind = "create" /\ reads[j].kind = "create" => i = j
    /\ \A k, m \in 1..Len(mainQueue) :
          mainQueue[k].call.kind = "create" /\ mainQueue[m].call.kind = "create" => k = m
    /\ NoAddAsked(reads) \/ NoAddAnswered(mainQueue)

(* An add on its way is of a habit that was never saved, and its answer is
   still right. *)
FreshCalls  == {c \in {CounterCall} \cup CreateType \cup HabitType :
                   c.kind = "create" => c.habit \notin DOMAIN saved}
FreshBlocks == {b \in BlockType :
                   b.call.kind = "create" =>
                      /\ b.call.habit \notin DOMAIN saved
                      /\ b.snap = <<[habitCounter |-> habitCounter]>>}

(* Every habit that is written, listed or on its way was saved. *)
KnownEntries == {e \in EntryType : e.data.habit \in DOMAIN saved}
KnownBlocks  == {b \in BlockType :
                    b.call.kind = "habit" /\ b.snap # <<>> /\ b.snap[1] # NoDoc =>
                       b.snap[1].habit \in DOMAIN saved}

ScreenKnows ==
    /\ nav.screen = "create" => nav.habit \notin DOMAIN saved
    /\ nav.screen = "edit" => nav.entry.data.habit \in DOMAIN saved

Unedited == \A h \in DOMAIN saved : saved[h].edits = 0
Counted  == \A h \in DOMAIN saved : \E n \in 0..(habitCounter - 1) : docs[n].habit = h

AddInv ==
    /\ OneAdd
    /\ reads \in Seq(FreshCalls)
    /\ mainQueue \in Seq(FreshBlocks) /\ mainQueue \in Seq(KnownBlocks)
    /\ habitArray \in Seq(KnownEntries)
    /\ \A n \in DOMAIN docs : docs[n].habit \in DOMAIN saved
    /\ ScreenKnows
    /\ Unedited => Counted

----------------------------------------------------------------------------

(* Steps that leave what was saved, the documents and the counter alone. *)
SavedStays == UNCHANGED <<docs, habitCounter, saved>>

LEMMA SavedFrame ==
    ASSUME AddInv, SavedStays,
           OneAdd', reads' \in Seq(FreshCalls),
           mainQueue' \in Seq(FreshBlocks), mainQueue' \in Seq(KnownBlocks),
           habitArray' \in Seq(KnownEntries),
           nav'.screen = "create" => nav'.habit \notin DOMAIN saved,
           nav'.screen = "edit" => nav'.entry.data.habit \in DOMAIN saved
    PROVE  AddInv'
<1>1. FreshCalls' = FreshCalls /\ FreshBlocks' = FreshBlocks
  BY DEF SavedStays, FreshCalls, FreshBlocks
<1>2. KnownEntries' = KnownEntries /\ KnownBlocks' = KnownBlocks
  BY DEF SavedStays, KnownEntries, KnownBlocks
<1>3. (Unedited => Counted)'
  BY DEF AddInv, SavedStays, Unedited, Counted
<1> QED
  BY <1>1, <1>2, <1>3 DEF AddInv, SavedStays, ScreenKnows

LEMMA AppendAsked ==
    ASSUME NEW S, NEW c \in S, reads \in Seq(S), OneAdd,
           c.kind = "create" => NoAddAsked(reads) /\ NoAddAnswered(mainQueue),
           reads' = Append(reads, c), mainQueue' = mainQueue
    PROVE  OneAdd'
<1>1. /\ Len(reads') = Len(reads) + 1 /\ Len(reads) \in Nat
      /\ \A i \in 1..Len(reads) : reads'[i] = reads[i]
      /\ reads'[Len(reads) + 1] = c
  BY AppendProperties
<1>2. \A i \in 1..Len(reads') : i \in 1..Len(reads) \/ i = Len(reads) + 1
  BY <1>1
<1>3. ASSUME NEW i \in 1..Len(reads'), NEW j \in 1..Len(reads'),
             reads'[i].kind = "create", reads'[j].kind = "create"
      PROVE  i = j
  BY <1>1, <1>2, <1>3 DEF OneAdd, NoAddAsked
<1>4. NoAddAsked(reads') \/ NoAddAnswered(mainQueue')
  <2>1. CASE NoAddAnswered(mainQueue)
    BY <2>1
  <2>2. CASE ~NoAddAnswered(mainQueue)
    <3>1. c.kind # "create" /\ NoAddAsked(reads)
      BY <2>2 DEF OneAdd
    <3>2. NoAddAsked(reads')
      BY <1>1, <1>2, <3>1 DEF NoAddAsked
    <3> QED
      BY <3>2
  <2> QED
    BY <2>1, <2>2
<1> QED
  BY <1>3, <1>4 DEF OneAdd

(* A block that runs leaves the main queue; FetchBlock, or nothing, joins it. *)
LEMMA TailAnswered ==
    ASSUME TypeInv, OneAdd, mainQueue # <<>>, NEW rest, rest = Tail(mainQueue)
    PROVE  /\ Len(rest) \in Nat
           /\ \A k, m \in 1..Len(rest) :
                 rest[k].call.kind = "create" /\ rest[m].call.kind = "create" => k = m
           /\ NoAddAsked(reads) \/ NoAddAnswered(rest)
           /\ Head(mainQueue).call.kind = "create" => NoAddAsked(reads) /\ NoAddAnswered(rest)
<1>1. mainQueue \in Seq(BlockType)
  BY DEF TypeInv, TypeOK, QueueTypeOK
<1>2. /\ Head(mainQueue) = mainQueue[1] /\ 1 \in 1..Len(mainQueue) /\ Len(mainQueue) \in Nat
      /\ Len(rest) = Len(mainQueue) - 1
      /\ \A k \in 1..Len(rest) : k + 1 \in 1..Len(mainQueue) /\ k + 1 # 1
                                 /\ rest[k] = mainQueue[k + 1]
  BY <1>1, HeadTailProperties, EmptySeq
<1>3. ASSUME NEW k \in 1..Len(rest), NEW m \in 1..Len(rest),
             rest[k].call.kind = "create", rest[m].call.kind = "create"
      PROVE  k = m
  <2>1. k + 1 = m + 1
    BY <1>2, <1>3 DEF OneAdd
  <2> QED
    BY <1>2, <2>1
<1>4. NoAddAsked(reads) \/ NoAddAnswered(rest)
  BY <1>2 DEF OneAdd, NoAddAnswered
<1>5. ASSUME Head(mainQueue).call.kind = "create"
      PROVE  NoAddAsked(reads) /\ NoAddAnswered(rest)
  BY <1>2, <1>5 DEF OneAdd, NoAddAnswered
<1> QED
  BY <1>2, <1>3, <1>4, <1>5

LEMMA AppendAnswered ==
    ASSUME NEW queue \in Seq(BlockType), NEW b \in BlockType, b.call.kind # "create",
           \A k, m \in 1..Len(queue) :
              queue[k].call.kind = "create" /\ queue[m].call.kind = "create" => k = m
    PROVE  /\ \A k, m \in 1..Len(Append(queue, b)) :
                 Append(queue, b)[k].call.kind = "create"
                   /\ Append(queue, b)[m].call.kind = "create" => k = m
           /\ NoAddAnswered(queue) => NoAddAnswered(Append(queue, b))
<1> DEFINE new == Append(queue, b)
<1>1. /\ Len(new) = Len(queue) + 1 /\ Len(queue) \in Nat
      /\ \A i \in 1..Len(queue) : new[i] = queue[i]
      /\ new[Len(queue) + 1] = b
  BY AppendProperties
<1> HIDE DEF new
<1>2. \A i \in 1..Len(new) : new[i].call.kind = "create" => i \in 1..Len(queue)
  BY <1>1
<1>3. \A k, m \in 1..Len(new) :
         new[k].call.kind = "create" /\ new[m].call.kind = "create" => k = m
  BY <1>1, <1>2
<1>4. NoAddAnswered(queue) => NoAddAnswered(new)
  BY <1>1, <1>2 DEF NoAddAnswered
<1> QED
  BY <1>3, <1>4 DEF new

LEMMA AnsweredOnce ==
    ASSUME TypeInv, TypeInv', OneAdd, NEW i \in DOMAIN reads, NEW snap, Answer(i, snap)
    PROVE  OneAdd'
<1> DEFINE S   == {CounterCall} \cup CreateType \cup HabitType
           new == Block(reads[i], snap)
<1>a. /\ reads \in Seq(S) /\ i \in 1..Len(reads) /\ Len(reads) \in Nat
      /\ mainQueue \in Seq(BlockType) /\ mainQueue' \in Seq(BlockType)
      /\ Len(mainQueue) \in Nat
  BY DEF TypeInv, TypeOK, QueueTypeOK
<1>1. mainQueue' = Append(mainQueue, new) /\ reads' = RemoveAt(reads, i)
  BY DEF Answer
<1>2. new.call = reads[i]
  BY DEF Block
<1> HIDE DEF new
<1>3. /\ Len(mainQueue') = Len(mainQueue) + 1
      /\ \A k \in 1..Len(mainQueue) : mainQueue'[k] = mainQueue[k]
      /\ mainQueue'[Len(mainQueue) + 1] = new
  <2>1. mainQueue'[Len(mainQueue) + 1] = new
    BY <1>a, <1>1
  <2> QED
    BY <1>a, <1>1, <2>1
<1>4. /\ Len(reads') = Len(reads) - 1
      /\ \A p \in 1..Len(reads') :
            Others(p, i) \in 1..Len(reads) /\ reads'[p] = reads[Others(p, i)]
  BY <1>a, <1>1, RemoveAtType
<1>5. /\ \A p \in 1..(Len(reads) - 1) : Others(p, i) # i
      /\ \A p, q \in 1..(Len(reads) - 1) : Others(p, i) = Others(q, i) => p = q
  BY <1>a, OthersAre
<1>6. \A p, q \in 1..Len(reads') :
         reads'[p].kind = "create" /\ reads'[q].kind = "create" => p = q
  <2> TAKE p, q \in 1..Len(reads')
  <2> HAVE reads'[p].kind = "create" /\ reads'[q].kind = "create"
  <2>1. Others(p, i) = Others(q, i)
    BY <1>4 DEF OneAdd
  <2> QED
    BY <1>4, <1>5, <2>1
<1>7. \A k \in 1..Len(mainQueue') : k \in 1..Len(mainQueue) \/ k = Len(mainQueue) + 1
  BY <1>a, <1>3
<1>8. CASE reads[i].kind = "create"
  <2>1. NoAddAnswered(mainQueue)
    BY <1>a, <1>8 DEF OneAdd, NoAddAsked
  <2>2. \A k, m \in 1..Len(mainQueue') :
           mainQueue'[k].call.kind = "create" /\ mainQueue'[m].call.kind = "create" => k = m
    BY <1>3, <1>7, <2>1 DEF NoAddAnswered
  <2>3. NoAddAsked(reads')
    BY <1>a, <1>4, <1>5, <1>8 DEF OneAdd, NoAddAsked
  <2> QED
    BY <1>6, <2>2, <2>3 DEF OneAdd
<1>9. CASE reads[i].kind # "create"
  <2>1. \A k \in 1..Len(mainQueue') : mainQueue'[k].call.kind = "create" =>
           k \in 1..Len(mainQueue) /\ mainQueue[k].call.kind = "create"
    BY <1>2, <1>3, <1>7, <1>9
  <2>2. \A k, m \in 1..Len(mainQueue') :
           mainQueue'[k].call.kind = "create" /\ mainQueue'[m].call.kind = "create" => k = m
    BY <2>1 DEF OneAdd
  <2>3. NoAddAnswered(mainQueue) => NoAddAnswered(mainQueue')
    BY <2>1 DEF NoAddAnswered
  <2>4. NoAddAsked(reads) => NoAddAsked(reads')
    BY <1>4 DEF NoAddAsked
  <2> QED
    BY <1>6, <2>2, <2>3, <2>4 DEF OneAdd
<1> QED
  BY <1>8, <1>9

(* What is pending is what the two queues hold. *)
LEMMA CallsListed ==
    ASSUME TypeInv
    PROVE  /\ Len(reads) \in Nat /\ Len(mainQueue) \in Nat
           /\ DOMAIN Calls = 1..(Len(reads) + Len(mainQueue))
           /\ \A i \in 1..Len(reads) : Calls[i] = reads[i]
           /\ \A k \in 1..Len(mainQueue) : Calls[Len(reads) + k] = mainQueue[k].call
<1> DEFINE asked == [k \in DOMAIN mainQueue |-> mainQueue[k].call]
           S     == {CounterCall} \cup CreateType \cup HabitType
<1>1. /\ reads \in Seq(S) /\ Len(reads) \in Nat
      /\ mainQueue \in Seq(BlockType) /\ Len(mainQueue) \in Nat
      /\ DOMAIN mainQueue = 1..Len(mainQueue)
  BY DEF TypeInv, TypeOK, QueueTypeOK
<1>2. /\ asked \in Seq({b.call : b \in BlockType}) /\ Len(asked) = Len(mainQueue)
      /\ \A k \in 1..Len(mainQueue) : asked[k] = mainQueue[k].call
  <2>1. asked \in [1..Len(mainQueue) -> {b.call : b \in BlockType}]
    BY <1>1
  <2>2. \A k \in 1..Len(mainQueue) : asked[k] = mainQueue[k].call
    BY <1>1
  <2> HIDE DEF asked
  <2> QED
    BY <1>1, <2>1, <2>2, SeqDef
<1>3. Calls = reads \o asked
  BY DEF Calls
<1> HIDE DEF asked
<1> DEFINE T == S \cup {b.call : b \in BlockType}
<1>4. reads \in Seq(T) /\ asked \in Seq(T)
  BY <1>1, <1>2
<1> HIDE DEF T, S
<1>5. /\ Calls \in Seq(T)
      /\ Len(Calls) = Len(reads) + Len(mainQueue)
      /\ \A k \in 1..(Len(reads) + Len(mainQueue)) :
            Calls[k] = IF k <= Len(reads) THEN reads[k] ELSE asked[k - Len(reads)]
  <2>1. /\ reads \o asked \in Seq(T)
        /\ Len(reads \o asked) = Len(reads) + Len(asked)
        /\ \A k \in 1..(Len(reads) + Len(asked)) :
              (reads \o asked)[k] = IF k <= Len(reads) THEN reads[k]
                                                      ELSE asked[k - Len(reads)]
    BY <1>4, ConcatProperties
  <2> QED
    BY <1>2, <1>3, <2>1
<1>6. DOMAIN Calls = 1..(Len(reads) + Len(mainQueue))
  BY <1>5
<1>7. ASSUME NEW i \in 1..Len(reads) PROVE Calls[i] = reads[i]
  BY <1>1, <1>5
<1>8. ASSUME NEW k \in 1..Len(mainQueue) PROVE Calls[Len(reads) + k] = mainQueue[k].call
  <2>1. /\ Len(reads) + k \in 1..(Len(reads) + Len(mainQueue))
        /\ ~(Len(reads) + k <= Len(reads)) /\ (Len(reads) + k) - Len(reads) = k
    BY <1>1
  <2> QED
    BY <1>2, <1>5, <2>1
<1> QED
  BY <1>1, <1>6, <1>7, <1>8

LEMMA WhatIsPending ==
    ASSUME TypeInv, NEW kind
    PROVE  Pending(kind) = {} <=> /\ \A i \in 1..Len(reads) : reads[i].kind # kind
                                  /\ \A k \in 1..Len(mainQueue) : mainQueue[k].call.kind # kind
<1> DEFINE n == Len(reads)
           m == Len(mainQueue)
<1>1. /\ n \in Nat /\ m \in Nat /\ DOMAIN Calls = 1..(n + m)
      /\ \A i \in 1..n : Calls[i] = reads[i]
      /\ \A k \in 1..m : Calls[n + k] = mainQueue[k].call
  BY CallsListed
<1> HIDE DEF n, m
<1>2. \A i \in 1..(n + m) : i \in 1..n \/ \E k \in 1..m : i = n + k
  <2> TAKE i \in 1..(n + m)
  <2>1. CASE i <= n
    BY <1>1, <2>1
  <2>2. CASE i > n
    <3>1. i - n \in 1..m /\ i = n + (i - n)
      BY <1>1, <2>2
    <3> QED
      BY <3>1
  <2> QED
    BY <1>1, <2>1, <2>2
<1>3. \A i \in 1..n : i \in 1..(n + m)
  BY <1>1
<1>4. \A k \in 1..m : n + k \in 1..(n + m)
  BY <1>1
<1>5. Pending(kind) = {} <=> \A i \in 1..(n + m) : Calls[i].kind # kind
  BY <1>1 DEF Pending
<1>6. (\A i \in 1..(n + m) : Calls[i].kind # kind) <=>
         /\ \A i \in 1..n : Calls[i].kind # kind
         /\ \A k \in 1..m : Calls[n + k].kind # kind
  BY <1>2, <1>3, <1>4
<1>7. (\A i \in 1..(n + m) : Calls[i].kind # kind) <=>
         /\ \A i \in 1..n : reads[i].kind # kind
         /\ \A k \in 1..m : mainQueue[k].call.kind # kind
  BY <1>1, <1>6
<1> QED
  BY <1>5, <1>7 DEF n, m

(* With MaxTaps = 1 a tap on Add finds none under way. *)
LEMMA NoneUnderWay ==
    ASSUME TypeInv, Cardinality(Pending("create")) < 1
    PROVE  NoAddAsked(reads) /\ NoAddAnswered(mainQueue)
<1>1. /\ Len(reads) \in Nat /\ Len(mainQueue) \in Nat
      /\ DOMAIN Calls = 1..(Len(reads) + Len(mainQueue))
  BY CallsListed
<1>2. Pending("create") = {}
  <2>1. IsFiniteSet(1..(Len(reads) + Len(mainQueue)))
    BY <1>1, FS_Interval
  <2>2. Pending("create") \in SUBSET (1..(Len(reads) + Len(mainQueue)))
    BY <1>1 DEF Pending
  <2>3. IsFiniteSet(Pending("create"))
    BY <2>1, <2>2, FS_Subset
  <2>4. Cardinality(Pending("create")) \in Nat
    BY <2>3, FS_CardinalityType
  <2>5. Cardinality(Pending("create")) = 0
    BY <2>4
  <2> QED
    BY <2>3, <2>5, FS_EmptySet
<1> QED
  BY <1>2, WhatIsPending DEF NoAddAsked, NoAddAnswered

----------------------------------------------------------------------------
\* The steps

LEMMA GesturesKeepAdds ==
    ASSUME TypeInv, AddInv,
           \/ \E r \in 0..(shown - 1) : LongPress(r) \/ TapPressed(r) \/ TouchStaleCell(r)
           \/ Swipe
           \/ \E h \in Habits : OpenCreate(h)
           \/ Back
           \/ OpenEdit
           \/ TapStaleButton
    PROVE  AddInv'
<1>1. SavedStays /\ UNCHANGED <<reads, mainQueue, habitArray>>
  BY DEF LongPress, TapPressed, TouchStaleCell, Swipe, OpenCreate, Back, OpenEdit,
     TapStaleButton, IndexTrap, fetchVars, histVars, SavedStays
<1>2. /\ nav'.screen = "create" => nav'.habit \notin DOMAIN saved
      /\ nav'.screen = "edit" => nav'.entry.data.habit \in DOMAIN saved
  <2>1. CASE OpenEdit
    <3> DEFINE e == habitArray[indexPathGlobal + 1]
    <3>1. e \in KnownEntries
      <4>1. indexPathGlobal + 1 \in 1..Len(habitArray)
        BY <2>1 DEF OpenEdit, InList, TypeInv, TypeOK, ListTypeOK, UiTypeOK
      <4> QED
        BY <4>1 DEF AddInv
    <3> HIDE DEF e
    <3>2. nav' = EditVC(indexPathGlobal, e)
      BY <2>1 DEF OpenEdit, e
    <3>3. nav'.screen = "edit" /\ nav'.entry = e
      BY <3>2 DEF EditVC
    <3> QED
      BY <3>1, <3>3 DEF KnownEntries
  <2>2. CASE Back
    BY <2>2 DEF Back, Home
  <2>3. ASSUME NEW h \in Habits, OpenCreate(h)
        PROVE  /\ nav'.screen = "create" => nav'.habit \notin DOMAIN saved
               /\ nav'.screen = "edit" => nav'.entry.data.habit \in DOMAIN saved
    BY <2>3 DEF OpenCreate, CreateVC
  <2>4. CASE \/ \E r \in 0..(shown - 1) : LongPress(r) \/ TapPressed(r) \/ TouchStaleCell(r)
             \/ Swipe
             \/ TapStaleButton
    <3>1. nav' = nav
      BY <2>4 DEF LongPress, TapPressed, TouchStaleCell, Swipe, TapStaleButton, IndexTrap,
         uiVars
    <3> QED
      BY <3>1 DEF AddInv, ScreenKnows
  <2> QED
    BY <2>1, <2>2, <2>3, <2>4
<1>3. OneAdd'
  BY <1>1 DEF AddInv, OneAdd, NoAddAsked, NoAddAnswered
<1> QED
  BY <1>1, <1>2, <1>3, SavedFrame DEF AddInv

LEMMA TapAddKeepsAdds ==
    ASSUME TypeInv, AddInv, MaxTaps = 1, NEW h \in Habits, TapAdd(h)
    PROVE  AddInv'
<1>1. /\ reads' = Append(reads, CreateCall(h))
      /\ SavedStays /\ UNCHANGED <<mainQueue, habitArray, nav>>
      /\ nav = CreateVC(h)
  BY DEF TapAdd, uiVars, histVars, SavedStays
<1>2. NoAddAsked(reads) /\ NoAddAnswered(mainQueue)
  BY NoneUnderWay DEF TapAdd
<1>3. h \notin DOMAIN saved
  BY <1>1 DEF AddInv, ScreenKnows, CreateVC
<1>4. CreateCall(h) \in FreshCalls
  BY <1>3 DEF CreateCall, CreateType, FreshCalls
<1>5. OneAdd'
  BY <1>1, <1>2, <1>4, AppendAsked DEF AddInv
<1>6. reads' \in Seq(FreshCalls)
  BY <1>1, <1>4 DEF AddInv
<1> QED
  BY <1>1, <1>5, <1>6, SavedFrame DEF AddInv, ScreenKnows

(* An edit is of a habit that was saved: after it, one is edited. *)
LEMMA SaveEditKeepsAdds ==
    ASSUME TypeInv, AddInv, SaveEdit
    PROVE  AddInv'
<1> DEFINE new == [nav.entry.data EXCEPT !.edits = @ + 1]
<1>1. /\ nav.row \in Nat /\ nav.entry.data \in Data
      /\ nav.entry.data.habit \in DOMAIN saved
  BY DEF SaveEdit, AddInv, ScreenKnows, TypeInv, TypeOK, UiTypeOK, Home, EntryType
<1>2. /\ new.habit = nav.entry.data.habit
      /\ new.edits # 0
  BY <1>1, DataAssumption, BoundsAssumption
<1>3. /\ docs' = UpdateData(docs, nav.row, new)
      /\ saved' = UpdateData(saved, new.habit, new)
      /\ mainQueue' = Append(mainQueue, FetchBlock)
      /\ nav' = Home
      /\ UNCHANGED <<habitCounter, habitArray, reads>>
  BY DEF SaveEdit, Update
<1> HIDE DEF new
<1>4. DOMAIN saved' = DOMAIN saved
  BY <1>3, UpdateDataDomain
<1>5. saved'[new.habit].edits # 0 /\ new.habit \in DOMAIN saved'
  BY <1>1, <1>2, <1>3 DEF UpdateData, SetData
<1>6. (Unedited => Counted)'
  BY <1>5 DEF Unedited
<1>7. \A n \in DOMAIN docs' : docs'[n].habit \in DOMAIN saved'
  BY <1>1, <1>2, <1>3, <1>4 DEF AddInv, UpdateData, SetData
<1>8. FreshCalls' = FreshCalls /\ FreshBlocks' = FreshBlocks
  BY <1>3, <1>4 DEF FreshCalls, FreshBlocks
<1>9. KnownEntries' = KnownEntries /\ KnownBlocks' = KnownBlocks
  BY <1>4 DEF KnownEntries, KnownBlocks
<1>10. /\ FetchBlock \in BlockType /\ FetchBlock.call.kind = "fetch"
       /\ FetchBlock \in FreshBlocks /\ FetchBlock \in KnownBlocks
  BY FetchBlockType DEF FetchBlock, Block, FreshBlocks, KnownBlocks
<1>11. OneAdd'
  <2>1. mainQueue \in Seq(BlockType)
    BY DEF TypeInv, TypeOK, QueueTypeOK
  <2> QED
    BY <1>3, <1>10, <2>1, AppendAnswered DEF AddInv, OneAdd, NoAddAsked
<1>12. mainQueue' \in Seq(FreshBlocks) /\ mainQueue' \in Seq(KnownBlocks)
  BY <1>3, <1>10 DEF AddInv
<1> QED
  BY <1>3, <1>6, <1>7, <1>8, <1>9, <1>11, <1>12 DEF AddInv, ScreenKnows, Home

(* The answer that was waited for: it writes the document behind those that
   are counted. *)
LEMMA CreateKeepsAdds ==
    ASSUME TypeInv, GrowInv, AddInv, RunCreate
    PROVE  AddInv'
<1> DEFINE h    == Head(mainQueue).call.habit
           rest == Tail(mainQueue)
<1>1. /\ mainQueue # <<>> /\ mainQueue \in Seq(BlockType)
      /\ Head(mainQueue) \in FreshBlocks /\ Head(mainQueue).call.kind = "create"
      /\ rest \in Seq(KnownBlocks) /\ rest \in Seq(BlockType) /\ Len(rest) \in Nat
  BY NonEmptySeq DEF RunCreate, Runs, AddInv, TypeInv, TypeOK, QueueTypeOK
<1>2. /\ h \in Habits /\ h \notin DOMAIN saved
      /\ Head(mainQueue).snap = <<[habitCounter |-> habitCounter]>>
  <2>1. Head(mainQueue) \in BlockType
    BY <1>1 DEF FreshBlocks
  <2> QED
    BY <1>1, <2>1, BlockSnapshots DEF FreshBlocks
<1>3. NextNumber(h, Head(mainQueue).snap) = habitCounter
  BY <1>2 DEF NextNumber
<1>4. /\ docs' = SetData(docs, habitCounter, NewData(h))
      /\ habitCounter' = habitCounter + 1
      /\ saved' = SetData(saved, h, NewData(h))
      /\ nav' = IF nav = CreateVC(h) THEN Home ELSE nav
      /\ mainQueue' = Append(rest, FetchBlock)
      /\ UNCHANGED <<habitArray, reads>>
  BY <1>3 DEF RunCreate, CounterAfter, Update
<1>5. /\ NoAddAsked(reads) /\ NoAddAnswered(rest)
      /\ \A k, m \in 1..Len(rest) :
            rest[k].call.kind = "create" /\ rest[m].call.kind = "create" => k = m
  BY <1>1, TailAnswered DEF AddInv
<1> HIDE DEF h, rest
<1>6. DOMAIN saved' = DOMAIN saved \cup {h} /\ DOMAIN docs' = DOMAIN docs \cup {habitCounter}
  BY <1>4, SetDataDomain
<1>7. /\ \A n \in DOMAIN docs : n # habitCounter => docs'[n] = docs[n]
      /\ docs'[habitCounter] = NewData(h)
      /\ \A g \in DOMAIN saved : g # h => saved'[g] = saved[g]
  BY <1>4 DEF SetData
<1>8. NewData(h).habit = h
  BY DEF NewData
<1>9. \A n \in DOMAIN docs' : docs'[n].habit \in DOMAIN saved'
  BY <1>6, <1>7, <1>8 DEF AddInv
<1>10. ASSUME Unedited' PROVE Counted'
  <2>a. habitCounter \in Nat
    BY DEF TypeInv, TypeOK, StoreTypeOK
  <2>1. Unedited
    BY <1>2, <1>6, <1>7, <1>10 DEF Unedited
  <2>2. ASSUME NEW g \in DOMAIN saved
        PROVE  \E n \in 0..(habitCounter' - 1) : docs'[n].habit = g
    <3>1. PICK n \in 0..(habitCounter - 1) : docs[n].habit = g
      BY <2>1 DEF AddInv, Counted
    <3>2. n \in DOMAIN docs /\ n # habitCounter /\ n \in 0..(habitCounter' - 1)
      BY <1>4, <2>a DEF GrowInv, Reached
    <3> QED
      BY <1>7, <3>1, <3>2
  <2>3. habitCounter \in 0..(habitCounter' - 1)
    BY <1>4, <2>a
  <2> QED
    BY <1>6, <1>7, <1>8, <2>2, <2>3 DEF Counted
<1>11. FetchBlock \in BlockType /\ FetchBlock.call.kind = "fetch"
  BY FetchBlockType DEF FetchBlock, Block
<1>12. /\ mainQueue' \in Seq(BlockType) /\ NoAddAnswered(mainQueue') /\ OneAdd'
  <2>1. mainQueue' \in Seq(BlockType)
    BY <1>1, <1>4, <1>11
  <2>2. NoAddAnswered(mainQueue')
    BY <1>1, <1>4, <1>5, <1>11, AppendAnswered
  <2>3. NoAddAsked(reads')
    BY <1>4, <1>5
  <2> QED
    BY <2>1, <2>2, <2>3 DEF OneAdd, NoAddAnswered, NoAddAsked
<1>13. reads' \in Seq(FreshCalls')
  <2> DEFINE S == {CounterCall} \cup CreateType \cup HabitType
  <2>1. reads' \in Seq(S) /\ NoAddAsked(reads')
    BY <1>4, <1>5 DEF TypeInv, TypeOK, QueueTypeOK
  <2>2. \A i \in 1..Len(reads') : reads'[i] \in FreshCalls'
    BY <2>1 DEF NoAddAsked, FreshCalls
  <2> QED
    BY <2>1, <2>2, SeqDef
<1>14. mainQueue' \in Seq(FreshBlocks')
  <2>1. \A k \in 1..Len(mainQueue') : mainQueue'[k] \in FreshBlocks'
    BY <1>12 DEF NoAddAnswered, FreshBlocks
  <2> QED
    BY <1>12, <2>1, SeqDef
<1>15. mainQueue' \in Seq(KnownBlocks') /\ habitArray' \in Seq(KnownEntries')
  <2>1. KnownBlocks \subseteq KnownBlocks' /\ KnownEntries \subseteq KnownEntries'
    BY <1>6 DEF KnownBlocks, KnownEntries
  <2>2. FetchBlock \in KnownBlocks
    BY <1>11 DEF KnownBlocks
  <2>3. mainQueue' \in Seq(KnownBlocks) /\ habitArray' \in Seq(KnownEntries)
    BY <1>1, <1>4, <2>2 DEF AddInv
  <2>4. \A S, T : S \subseteq T => Seq(S) \subseteq Seq(T)
    OBVIOUS
  <2> QED
    BY <2>1, <2>3, <2>4
<1>16. ScreenKnows'
  <2>1. CASE nav = CreateVC(h)
    BY <1>4, <2>1 DEF ScreenKnows, Home
  <2>2. CASE nav # CreateVC(h)
    <3>1. nav' = nav
      BY <1>4, <2>2
    <3>2. ASSUME nav.screen = "create" PROVE nav.habit # h
      <4>1. nav \in [screen : {"create"}, habit : Habits]
        BY <3>2 DEF TypeInv, TypeOK, UiTypeOK, Home
      <4>2. nav = CreateVC(nav.habit)
        BY <4>1 DEF CreateVC
      <4> QED
        BY <2>2, <4>2
    <3> QED
      BY <1>6, <3>1, <3>2 DEF AddInv, ScreenKnows
  <2> QED
    BY <2>1, <2>2
<1> QED
  BY <1>9, <1>10, <1>12, <1>13, <1>14, <1>15, <1>16 DEF AddInv

(* The blocks of a fetch. *)
LEMMA FetchKeepsAdds ==
    ASSUME TypeInv, AddInv, RunFetch, UNCHANGED <<uiVars, acks, formCounter, histVars>>
    PROVE  AddInv'
<1>1. /\ mainQueue # <<>> /\ mainQueue' = Tail(mainQueue)
      /\ reads' = Append(reads, CounterCall) /\ habitArray' = <<>>
      /\ SavedStays /\ UNCHANGED nav
  BY DEF RunFetch, StartFetch, Runs, uiVars, histVars, SavedStays
<1>2. CounterCall \in FreshCalls /\ CounterCall.kind = "counter"
  BY DEF CounterCall, FreshCalls
<1>3. reads' \in Seq(FreshCalls)
  BY <1>1, <1>2 DEF AddInv
<1>4. mainQueue' \in Seq(FreshBlocks) /\ mainQueue' \in Seq(KnownBlocks)
  BY <1>1, NonEmptySeq DEF AddInv
<1>5. OneAdd'
  <2>1. /\ \A k, m \in 1..Len(mainQueue') :
              mainQueue'[k].call.kind = "create" /\ mainQueue'[m].call.kind = "create" => k = m
        /\ NoAddAsked(reads) \/ NoAddAnswered(mainQueue')
    BY <1>1, TailAnswered DEF AddInv
  <2>2. /\ Len(reads') = Len(reads) + 1 /\ Len(reads) \in Nat
        /\ \A i \in 1..Len(reads) : reads'[i] = reads[i]
        /\ reads'[Len(reads) + 1] = CounterCall
    BY <1>1, <1>2, AppendProperties DEF AddInv
  <2>3. \A i \in 1..Len(reads') : reads'[i].kind = "create" =>
           i \in 1..Len(reads) /\ reads[i].kind = "create"
    BY <1>2, <2>2
  <2>4. NoAddAsked(reads) => NoAddAsked(reads')
    BY <2>3 DEF NoAddAsked
  <2>5. \A i, j \in 1..Len(reads') :
           reads'[i].kind = "create" /\ reads'[j].kind = "create" => i = j
    BY <2>3 DEF AddInv, OneAdd
  <2> QED
    BY <2>1, <2>4, <2>5 DEF OneAdd
<1>6. habitArray' \in Seq(KnownEntries)
  BY <1>1
<1> QED
  BY <1>1, <1>3, <1>4, <1>5, <1>6, SavedFrame DEF AddInv, ScreenKnows

LEMMA CounterKeepsAdds ==
    ASSUME TypeInv, AddInv, RunCounter, UNCHANGED <<uiVars, acks, formCounter, histVars>>
    PROVE  AddInv'
<1> DEFINE calls == [n \in 1..(localHabitCounter' + 1) |-> HabitCall(n - 1)]
<1>1. /\ mainQueue # <<>> /\ mainQueue' = Tail(mainQueue)
      /\ reads' = reads \o calls
      /\ SavedStays /\ UNCHANGED <<nav, habitArray>>
  BY DEF RunCounter, Runs, uiVars, histVars, SavedStays
<1>2. localHabitCounter' \in Nat \cup {-1}
  BY RunCounterType DEF TypeInv, TypeOK, ListTypeOK
<1>3. localHabitCounter' + 1 \in Nat
  <2>1. \A x \in Nat \cup {-1} : x + 1 \in Nat
    OBVIOUS
  <2> QED
    BY <1>2, <2>1, Zenon
<1>4. /\ calls \in Seq(FreshCalls) /\ Len(calls) \in Nat
      /\ \A n \in 1..Len(calls) : calls[n].kind # "create"
  <2>1. \A n \in 1..(localHabitCounter' + 1) :
           HabitCall(n - 1) \in FreshCalls /\ HabitCall(n - 1).kind # "create"
    BY <1>3 DEF HabitCall, HabitType, FreshCalls
  <2>2. calls \in [1..(localHabitCounter' + 1) -> FreshCalls]
    BY <2>1
  <2>3. \A n \in 1..(localHabitCounter' + 1) : calls[n].kind # "create"
    BY <2>1
  <2> HIDE DEF calls
  <2>4. calls \in Seq(FreshCalls) /\ Len(calls) = localHabitCounter' + 1
    BY <1>3, <2>2, SeqDef
  <2> QED
    BY <1>3, <2>3, <2>4
<1> HIDE DEF calls
<1>5. /\ reads \in Seq(FreshCalls) /\ Len(reads) \in Nat
      /\ reads' \in Seq(FreshCalls) /\ Len(reads') = Len(reads) + Len(calls)
      /\ \A i \in 1..(Len(reads) + Len(calls)) :
            reads'[i] = IF i <= Len(reads) THEN reads[i] ELSE calls[i - Len(reads)]
  <2>1. reads \in Seq(FreshCalls)
    BY DEF AddInv
  <2>2. /\ reads \o calls \in Seq(FreshCalls) /\ Len(reads \o calls) = Len(reads) + Len(calls)
        /\ \A i \in 1..(Len(reads) + Len(calls)) :
              (reads \o calls)[i] = IF i <= Len(reads) THEN reads[i]
                                                       ELSE calls[i - Len(reads)]
    BY <1>4, <2>1, ConcatProperties
  <2> QED
    BY <1>1, <2>1, <2>2
<1>6. \A i \in 1..Len(reads') : reads'[i].kind = "create" =>
         i \in 1..Len(reads) /\ reads[i].kind = "create"
  <2> TAKE i \in 1..Len(reads')
  <2>1. CASE i <= Len(reads)
    BY <1>4, <1>5, <2>1
  <2>2. CASE ~(i <= Len(reads))
    <3>1. i - Len(reads) \in 1..Len(calls)
      BY <1>4, <1>5, <2>2
    <3> QED
      BY <1>4, <1>5, <2>2, <3>1
  <2> QED
    BY <2>1, <2>2
<1>7. OneAdd'
  <2>1. /\ \A k, m \in 1..Len(mainQueue') :
              mainQueue'[k].call.kind = "create" /\ mainQueue'[m].call.kind = "create" => k = m
        /\ NoAddAsked(reads) \/ NoAddAnswered(mainQueue')
    BY <1>1, TailAnswered DEF AddInv
  <2>2. NoAddAsked(reads) => NoAddAsked(reads')
    BY <1>6 DEF NoAddAsked
  <2>3. \A i, j \in 1..Len(reads') :
           reads'[i].kind = "create" /\ reads'[j].kind = "create" => i = j
    BY <1>6 DEF AddInv, OneAdd
  <2> QED
    BY <2>1, <2>2, <2>3 DEF OneAdd
<1>8. mainQueue' \in Seq(FreshBlocks) /\ mainQueue' \in Seq(KnownBlocks)
  BY <1>1, NonEmptySeq DEF AddInv
<1> QED
  BY <1>1, <1>5, <1>7, <1>8, SavedFrame DEF AddInv, ScreenKnows

LEMMA ReloadKeepsAdds ==
    ASSUME TypeInv, AddInv, Reload
    PROVE  AddInv'
<1> DEFINE b     == Head(mainQueue)
           entry == [habitNumber |-> b.call.n, data |-> b.snap[1]]
<1>1. /\ mainQueue # <<>> /\ mainQueue' = Tail(mainQueue)
      /\ b.call.kind = "habit" /\ ~Missing(b.snap)
      /\ habitArray' = IF b.snap = <<>> THEN habitArray ELSE Insert(habitArray, entry)
      /\ SavedStays /\ UNCHANGED <<nav, reads>>
  BY DEF Reload, RunHabit, Runs, histVars, SavedStays
<1>2. /\ b \in BlockType /\ b \in KnownBlocks
      /\ mainQueue' \in Seq(FreshBlocks) /\ mainQueue' \in Seq(KnownBlocks)
  BY <1>1, NonEmptySeq DEF AddInv, TypeInv, TypeOK, QueueTypeOK
<1>3. ASSUME b.snap # <<>> PROVE entry \in KnownEntries
  <2>1. b.call.n \in Nat /\ b.snap \in Seq(Data \cup {NoDoc})
    BY <1>1, <1>2, BlockSnapshots
  <2>2. b.snap[1] \in Data /\ b.snap[1] # NoDoc
    BY <1>1, <1>3, <2>1, NonEmptySeq DEF Missing
  <2>3. b.snap[1].habit \in DOMAIN saved
    BY <1>1, <1>2, <1>3, <2>2 DEF KnownBlocks
  <2> QED
    BY <2>1, <2>2, <2>3 DEF KnownEntries, EntryType
<1> HIDE DEF entry, b
<1>4. habitArray' \in Seq(KnownEntries)
  <2>1. habitArray \in Seq(KnownEntries)
    BY DEF AddInv
  <2> QED
    BY <1>1, <1>3, <2>1, InsertType
<1>5. OneAdd'
  <2>1. /\ \A k, m \in 1..Len(mainQueue') :
              mainQueue'[k].call.kind = "create" /\ mainQueue'[m].call.kind = "create" => k = m
        /\ NoAddAsked(reads) \/ NoAddAnswered(mainQueue')
    BY <1>1, TailAnswered DEF AddInv
  <2> QED
    BY <1>1, <2>1 DEF AddInv, OneAdd, NoAddAsked
<1> QED
  BY <1>1, <1>2, <1>4, <1>5, SavedFrame DEF AddInv, ScreenKnows

LEMMA AnswersKeepAdds ==
    ASSUME TypeInv, AddInv, NEW i \in DOMAIN reads, AnswerHabit(i) \/ AnswerUser(i),
           UNCHANGED <<uiVars, acks, formCounter, histVars>>
    PROVE  AddInv'
<1>a. /\ reads[i] \in FreshCalls
      /\ reads[i] \in {CounterCall} \cup CreateType \cup HabitType
      /\ i \in 1..Len(reads) /\ reads \in Seq(FreshCalls)
  BY DEF AddInv, TypeInv, TypeOK, QueueTypeOK
<1>b. TypeInv'
  BY AnswerType
<1>1. PICK snap :
         /\ Answer(i, snap)
         /\ reads[i].kind # "habit" => snap = <<[habitCounter |-> habitCounter]>>
         /\ reads[i].kind = "habit" => snap = Snapshot(docs, reads[i].n)
  BY DEF AnswerHabit, AnswerUser
<1> DEFINE new == Block(reads[i], snap)
<1>2. /\ mainQueue' = Append(mainQueue, new) /\ reads' = RemoveAt(reads, i)
      /\ SavedStays /\ UNCHANGED <<habitArray, nav>>
  BY <1>1 DEF Answer, uiVars, histVars, SavedStays, AnswerHabit, AnswerUser
<1>3. new.call = reads[i] /\ new.snap = snap
  BY DEF Block
<1>4. new \in BlockType
  <2>1. CASE reads[i].kind = "habit"
    <3>1. reads[i] \in HabitType
      BY <1>a, <2>1, CallKinds
    <3>2. Snapshot(docs, reads[i].n) \in Seq(Data \cup {NoDoc})
      BY DEF Snapshot, StoreTypeOK, TypeInv, TypeOK
    <3> QED
      BY <1>1, <2>1, <3>1, <3>2 DEF Block, BlockType
  <2>2. CASE reads[i].kind # "habit"
    <3>1. reads[i] \in {CounterCall} \cup CreateType
      BY <1>a, <2>2, CallKinds
    <3>2. <<[habitCounter |-> habitCounter]>> \in Seq([habitCounter : Nat])
      BY DEF StoreTypeOK, TypeInv, TypeOK
    <3> QED
      BY <1>1, <2>2, <3>1, <3>2 DEF Block, BlockType
  <2> QED
    BY <2>1, <2>2
<1> HIDE DEF new
<1>5. new \in FreshBlocks
  BY <1>a, <1>1, <1>3, <1>4 DEF FreshBlocks, FreshCalls
<1>6. new \in KnownBlocks
  <2> SUFFICES ASSUME reads[i].kind = "habit", snap[1] # NoDoc
               PROVE  snap[1].habit \in DOMAIN saved
    BY <1>3, <1>4 DEF KnownBlocks
  <2>1. snap[1] = IF reads[i].n \in DOMAIN docs THEN docs[reads[i].n] ELSE NoDoc
    BY <1>1 DEF Snapshot
  <2> QED
    BY <2>1 DEF AddInv
<1>7. mainQueue' \in Seq(FreshBlocks) /\ mainQueue' \in Seq(KnownBlocks)
  BY <1>2, <1>5, <1>6 DEF AddInv
<1>8. reads' \in Seq(FreshCalls)
  BY <1>a, <1>2, RemoveAtType
<1>9. OneAdd'
  BY <1>b, <1>1, AnsweredOnce DEF AddInv
<1> QED
  BY <1>2, <1>7, <1>8, <1>9, SavedFrame DEF AddInv, ScreenKnows

LEMMA RelaunchKeepsAdds ==
    ASSUME TypeInv, AddInv, Relaunch
    PROVE  AddInv'
<1>1. /\ reads' = <<CounterCall>> /\ mainQueue' = <<>> /\ habitArray' = <<>>
      /\ nav' = Home /\ SavedStays
  BY DEF Relaunch, RelaunchHome, SavedStays
<1>2. CounterCall \in FreshCalls /\ CounterCall.kind = "counter"
  BY DEF CounterCall, FreshCalls
<1>3. reads' \in Seq(FreshCalls)
  BY <1>1, <1>2
<1>4. OneAdd'
  BY <1>1, <1>2 DEF OneAdd, NoAddAsked, NoAddAnswered
<1>5. /\ mainQueue' \in Seq(FreshBlocks) /\ mainQueue' \in Seq(KnownBlocks)
      /\ habitArray' \in Seq(KnownEntries)
  BY <1>1
<1> QED
  BY <1>1, <1>3, <1>4, <1>5, SavedFrame DEF Home

----------------------------------------------------------------------------

AddsAreSafe == MaxTaps = 1 /\ readErrors = 0 /\ deletions = 0 => AddInv

LEMMA InitAdds == Init => AddsAreSafe
<1> SUFFICES ASSUME Init PROVE AddInv
  BY DEF AddsAreSafe
<1>1. CounterCall \in FreshCalls /\ CounterCall.kind = "counter"
  BY DEF CounterCall, FreshCalls
<1>2. reads \in Seq(FreshCalls) /\ OneAdd
  BY <1>1 DEF Init, FetchInit, OneAdd, NoAddAsked, NoAddAnswered
<1>3. ScreenKnows
  BY DEF Init, Home, ScreenKnows
<1>4. /\ mainQueue \in Seq(FreshBlocks) /\ mainQueue \in Seq(KnownBlocks)
      /\ habitArray \in Seq(KnownEntries)
  BY DEF Init, FetchInit
<1>5. DOMAIN docs = {} /\ DOMAIN saved = {}
  BY DEF Init, FetchInit
<1>6. Counted
  BY <1>5 DEF Counted
<1> QED
  BY <1>2, <1>3, <1>4, <1>5, <1>6 DEF AddInv

LEMMA NextAdds == TypeInv /\ Growing /\ AddsAreSafe /\ [Next]_vars => AddsAreSafe'
<1> SUFFICES ASSUME TypeInv, Growing, AddsAreSafe, [Next]_vars,
                    MaxTaps = 1, readErrors' = 0, deletions' = 0
             PROVE  AddInv'
  BY DEF AddsAreSafe
<1>1. deletions = 0 /\ readErrors = 0 /\ GrowInv /\ AddInv
  BY DocumentsStay DEF Growing, AddsAreSafe
<1>2. CASE User
  <2>1. ~TapDelete
    BY <1>1 DEF TapDelete
  <2> QED
    BY <1>1, <1>2, <2>1, GesturesKeepAdds, TapAddKeepsAdds, SaveEditKeepsAdds DEF User
<1>3. CASE System
  <2>1. CASE RunHabitTraps /\ UNCHANGED <<uiVars, acks, formCounter, histVars>>
    <3>1. SavedStays /\ UNCHANGED <<nav, reads, mainQueue, habitArray>>
      BY <2>1 DEF RunHabitTraps, SavedStays, uiVars, histVars
    <3>2. OneAdd'
      BY <1>1, <3>1 DEF AddInv, OneAdd, NoAddAsked, NoAddAnswered
    <3> QED
      BY <1>1, <3>1, <3>2, SavedFrame DEF AddInv, ScreenKnows
  <2> QED
    BY <1>1, <1>3, <2>1, NoCompletions, FetchKeepsAdds, CounterKeepsAdds, AnswersKeepAdds,
       ReloadKeepsAdds, CreateKeepsAdds DEF System, FetchStep
<1>4. CASE ReadFails
  BY <1>1, <1>4 DEF ReadFails, AnswerError
<1>5. CASE Relaunch
  BY <1>1, <1>5, RelaunchKeepsAdds
<1>6. CASE UNCHANGED vars
  <2>1. SavedStays /\ UNCHANGED <<nav, reads, mainQueue, habitArray>>
    BY <1>6 DEF vars, fetchVars, uiVars, histVars, SavedStays
  <2>2. OneAdd'
    BY <1>1, <2>1 DEF AddInv, OneAdd, NoAddAsked, NoAddAnswered
  <2> QED
    BY <1>1, <2>1, <2>2, SavedFrame DEF AddInv, ScreenKnows
<1> QED
  BY <1>2, <1>3, <1>4, <1>5, <1>6 DEF Next

(* Adds that do not overlap another lose no habit, whatever fetches are under
   way, whatever is tapped meanwhile and whenever the process ends. *)
THEOREM NoAddIsLost == Spec => []AddsAreKept
<1>1. Init => TypeInv /\ Growing /\ AddsAreSafe
  BY InitType, InitGrows, InitAdds
<1>2. TypeInv /\ Growing /\ AddsAreSafe /\ [Next]_vars
        => TypeInv' /\ Growing' /\ AddsAreSafe'
  BY NextType, NextGrows, NextAdds
<1>3. AddsAreSafe => AddsAreKept
  BY DEF AddsAreSafe, AddInv, Unedited, Counted, AddsAreKept
<1> QED
  BY <1>1, <1>2, <1>3, PTL DEF Spec

----------------------------------------------------------------------------
\* The list of a user who waits

(* c holds, each once, the habits as s has them. *)
Matches(c, s) ==
    /\ \A n \in DOMAIN c : c[n].habit \in DOMAIN s /\ s[c[n].habit] = c[n]
    /\ \A h \in DOMAIN s : \E n \in DOMAIN c : c[n].habit = h
    /\ \A m, n \in DOMAIN c : c[m].habit = c[n].habit => m = n

ListedData == [n \in 0..(Len(habitArray) - 1) |-> habitArray[n + 1].data]

(* Such a user leaves one thing under way at a time.  Nothing is: *)
AllListed == habitArray = Listing(docs, habitCounter) /\ shown = habitCounter
Rest ==
    /\ AllListed /\ reads = <<>> /\ mainQueue = <<>>
    /\ pressed # {} => indexPathGlobal < habitCounter

(* An add of habit h is, *)
AddAsked(h) == AllListed /\ reads = <<CreateCall(h)>> /\ mainQueue = <<>>
AddHere(h) ==
    /\ AllListed /\ reads = <<>>
    /\ mainQueue = <<Block(CreateCall(h), <<[habitCounter |-> habitCounter]>>)>>

(* or a fetch; a list with nothing to fetch had no cell before. *)
Fetching ==
    /\ habitCounter = 0 => shown = 0
    /\ \/ FetchWaits \/ CounterAsked \/ CounterHere(habitCounter)
       \/ Loading(habitCounter) /\ (habitArray # <<>> => pressed = {})

Settled ==
    /\ DOMAIN docs = 0..(habitCounter - 1) /\ Matches(docs, saved)
    /\ acks = <<>>
    /\ \/ Rest \/ Fetching
       \/ \E h \in Habits \ DOMAIN saved : AddAsked(h) \/ AddHere(h)

(* or a deletion: the list is ahead of the documents, which have a gap, and
   then no gap but old data. *)
DeleteAsked(kind) == acks = <<Completion(kind)>> /\ reads = <<>> /\ mainQueue = <<>>
DeleteHere(kind)  == acks = <<>> /\ reads = <<>> /\ mainQueue = <<Completion(kind)>>

Deleting ==
    /\ Matches(ListedData, saved) /\ shown = Len(habitArray) /\ nav = Home
    /\ \/ /\ DOMAIN docs \subseteq 0..Len(habitArray) /\ indexPathGlobal \notin DOMAIN docs
          /\ DeleteAsked("deleted") \/ DeleteHere("deleted")
       \/ /\ DOMAIN docs \subseteq 0..(Len(habitArray) - 1)
          /\ DeleteAsked("counterSet") \/ DeleteHere("counterSet")

FormKnows ==
    /\ nav.screen = "create" => nav.habit \notin DOMAIN saved
    /\ nav.screen = "edit" =>
          /\ Rest
          /\ nav.row \in DOMAIN docs /\ nav.entry.data = docs[nav.row]

Quiet ==
    /\ app = "running" /\ pressed \subseteq 0..(shown - 1)
    /\ FormKnows
    /\ Settled \/ Deleting

QuietInv == readErrors = 0 => Quiet

(* The list of module HabitStore in both cases. *)
DocList   == [i \in 1..habitCounter |-> docs[i - 1]]
ShownList == [i \in DOMAIN habitArray |-> habitArray[i].data]
TheList   == IF DeletePending THEN ShownList ELSE DocList

----------------------------------------------------------------------------
\* Habits and documents

LEMMA MatchesSame ==
    ASSUME NEW c, NEW s, Matches(c, s), NEW d, DOMAIN d = DOMAIN c,
           \A n \in DOMAIN c : d[n] = c[n]
    PROVE  Matches(d, s)
BY DEF Matches

LEMMA MatchesAdd ==
    ASSUME NEW c, NEW s, Matches(c, s), NEW n, n \notin DOMAIN c,
           NEW d, d.habit \notin DOMAIN s
    PROVE  Matches(SetData(c, n, d), SetData(s, d.habit, d))
<1> DEFINE e == SetData(c, n, d)
           t == SetData(s, d.habit, d)
<1>1. /\ DOMAIN e = DOMAIN c \cup {n} /\ e[n] = d
      /\ \A m \in DOMAIN c : e[m] = c[m] /\ m # n
  BY DEF SetData
<1>2. /\ DOMAIN t = DOMAIN s \cup {d.habit} /\ t[d.habit] = d
      /\ \A h \in DOMAIN s : t[h] = s[h] /\ h # d.habit
  BY DEF SetData
<1> HIDE DEF e, t
<1>3. \A m \in DOMAIN e : e[m].habit \in DOMAIN t /\ t[e[m].habit] = e[m]
  BY <1>1, <1>2 DEF Matches
<1>4. \A h \in DOMAIN t : \E m \in DOMAIN e : e[m].habit = h
  BY <1>1, <1>2 DEF Matches
<1>5. \A k, m \in DOMAIN e : e[k].habit = e[m].habit => k = m
  BY <1>1, <1>2 DEF Matches
<1>6. Matches(e, t)
  BY <1>3, <1>4, <1>5 DEF Matches
<1> QED
  BY <1>6 DEF e, t

LEMMA MatchesEdit ==
    ASSUME NEW c, NEW s, Matches(c, s), NEW n \in DOMAIN c,
           NEW d, d.habit = c[n].habit
    PROVE  Matches(UpdateData(c, n, d), UpdateData(s, d.habit, d))
<1> DEFINE e == UpdateData(c, n, d)
           t == UpdateData(s, d.habit, d)
<1>1. /\ DOMAIN e = DOMAIN c /\ e[n] = d
      /\ \A m \in DOMAIN c : m # n => e[m] = c[m]
  BY DEF UpdateData, SetData
<1>2. d.habit \in DOMAIN s
  BY DEF Matches
<1>3. /\ DOMAIN t = DOMAIN s /\ t[d.habit] = d
      /\ \A h \in DOMAIN s : h # d.habit => t[h] = s[h]
  BY <1>2 DEF UpdateData, SetData
<1> HIDE DEF e, t
<1>4. \A m \in DOMAIN c : m # n => c[m].habit # d.habit
  BY DEF Matches
<1>5. \A m \in DOMAIN e : e[m].habit = c[m].habit
  BY <1>1
<1>6. \A m \in DOMAIN e : e[m].habit \in DOMAIN t /\ t[e[m].habit] = e[m]
  BY <1>1, <1>3, <1>4, <1>5 DEF Matches
<1>7. \A h \in DOMAIN t : \E m \in DOMAIN e : e[m].habit = h
  BY <1>1, <1>3, <1>5 DEF Matches
<1>8. \A k, m \in DOMAIN e : e[k].habit = e[m].habit => k = m
  BY <1>1, <1>5 DEF Matches
<1>9. Matches(e, t)
  BY <1>6, <1>7, <1>8 DEF Matches
<1> QED
  BY <1>9 DEF e, t

(* e is what is left of c without n, renumbered by from. *)
Renumbered(e, from, c, n) ==
    /\ \A m \in DOMAIN e : from[m] \in DOMAIN c /\ from[m] # n /\ e[m] = c[from[m]]
    /\ \A k, m \in DOMAIN e : from[k] = from[m] => k = m
    /\ \A k \in DOMAIN c : k # n => \E m \in DOMAIN e : from[m] = k

LEMMA MatchesDelete ==
    ASSUME NEW c, NEW s, Matches(c, s), NEW n \in DOMAIN c,
           NEW e, NEW from, Renumbered(e, from, c, n)
    PROVE  Matches(e, Delete(s, c[n].habit))
<1> DEFINE t == Delete(s, c[n].habit)
<1>1. /\ \A m \in DOMAIN e : from[m] \in DOMAIN c /\ from[m] # n /\ e[m] = c[from[m]]
      /\ \A k, m \in DOMAIN e : from[k] = from[m] => k = m
      /\ \A k \in DOMAIN c : k # n => \E m \in DOMAIN e : from[m] = k
  BY DEF Renumbered
<1>2. /\ DOMAIN t = DOMAIN s \ {c[n].habit}
      /\ \A h \in DOMAIN t : t[h] = s[h]
  BY DEF Delete
<1> HIDE DEF t
<1>3. \A m \in DOMAIN e : e[m].habit # c[n].habit
  BY <1>1 DEF Matches
<1>4. \A m \in DOMAIN e : e[m].habit \in DOMAIN t /\ t[e[m].habit] = e[m]
  BY <1>1, <1>2, <1>3 DEF Matches
<1>5. \A h \in DOMAIN t : \E m \in DOMAIN e : e[m].habit = h
  <2> TAKE h \in DOMAIN t
  <2>1. PICK k \in DOMAIN c : c[k].habit = h
    BY <1>2 DEF Matches
  <2>2. PICK m \in DOMAIN e : from[m] = k
    BY <1>1, <1>2, <2>1
  <2> QED
    BY <1>1, <2>1, <2>2
<1>6. \A k, m \in DOMAIN e : e[k].habit = e[m].habit => k = m
  <2> TAKE k, m \in DOMAIN e
  <2>1. ASSUME e[k].habit = e[m].habit PROVE from[k] = from[m]
    BY <1>1, <2>1 DEF Matches
  <2> QED
    BY <1>1, <2>1
<1>7. Matches(e, t)
  BY <1>4, <1>5, <1>6 DEF Matches
<1> QED
  BY <1>7 DEF t

(* As many habits as documents. *)
LEMMA MatchesCount ==
    ASSUME NEW count \in Nat, NEW c, NEW s, DOMAIN c = 0..(count - 1), Matches(c, s)
    PROVE  /\ {c[n] : n \in DOMAIN c} = {s[h] : h \in DOMAIN s}
           /\ Cardinality(DOMAIN s) = count
<1>1. {c[n] : n \in DOMAIN c} = {s[h] : h \in DOMAIN s}
  <2>1. \A n \in DOMAIN c : c[n] \in {s[h] : h \in DOMAIN s}
    <3> TAKE n \in DOMAIN c
    <3>1. c[n].habit \in DOMAIN s /\ s[c[n].habit] = c[n]
      BY DEF Matches
    <3> QED
      BY <3>1
  <2>2. \A h \in DOMAIN s : s[h] \in {c[n] : n \in DOMAIN c}
    <3> TAKE h \in DOMAIN s
    <3>1. PICK n \in DOMAIN c : c[n].habit = h
      BY DEF Matches
    <3>2. s[h] = c[n]
      BY <3>1 DEF Matches
    <3> QED
      BY <3>2
  <2> QED
    BY <2>1, <2>2
<1> DEFINE f == [n \in 0..(count - 1) |-> c[n].habit]
<1>2. f \in Bijection(0..(count - 1), DOMAIN s)
  <2>1. \A n \in 0..(count - 1) : f[n] = c[n].habit /\ f[n] \in DOMAIN s
    BY DEF Matches
  <2>2. \A m, n \in 0..(count - 1) : f[m] = f[n] => m = n
    BY <2>1 DEF Matches
  <2>3. \A h \in DOMAIN s : \E n \in 0..(count - 1) : f[n] = h
    BY <2>1 DEF Matches
  <2>4. f \in [0..(count - 1) -> DOMAIN s]
    BY <2>1
  <2> HIDE DEF f
  <2>5. IsInjective(f)
    BY <2>2, <2>4 DEF IsInjective
  <2> QED
    BY <2>3, <2>4, <2>5 DEF Bijection, Injection, Surjection
<1>3. ExistsBijection(0..(count - 1), DOMAIN s)
  BY <1>2 DEF ExistsBijection
<1>4. IsFiniteSet(0..(count - 1)) /\ Cardinality(0..(count - 1)) = count
  <2>1. /\ IsFiniteSet(0..(count - 1))
        /\ Cardinality(0..(count - 1)) = IF 0 > count - 1 THEN 0 ELSE count - 1 - 0 + 1
    BY FS_Interval
  <2> QED
    BY <2>1
<1> QED
  BY <1>1, <1>3, <1>4, FS_Bijection

----------------------------------------------------------------------------
\* The phases

AskedType == {CounterCall} \cup CreateType \cup HabitType

LEMMA Typed ==
    ASSUME TypeInv
    PROVE  /\ habitCounter \in Nat /\ shown \in Nat /\ Len(habitArray) \in Nat
           /\ habitArray \in Seq(EntryType) /\ \A e \in EntryType : e.habitNumber \in Nat
           /\ reads \in Seq(AskedType) /\ mainQueue \in Seq(BlockType)
           /\ pressed \subseteq Nat /\ indexPathGlobal \in Nat
           /\ \A n \in DOMAIN docs : docs[n] \in Data
BY DEF TypeInv, TypeOK, StoreTypeOK, ListTypeOK, QueueTypeOK, UiTypeOK, EntryType, AskedType

LEMMA AllReadable ==
    ASSUME TypeInv, DOMAIN docs = 0..(habitCounter - 1)
    PROVE  /\ Readable(habitCounter)
           /\ \A n \in 0..(habitCounter - 1) : Placed(n, docs[n]) \in EntryType
<1>1. \A n \in 0..(habitCounter - 1) : n \in Nat /\ docs[n] \in Data
  BY Typed
<1> QED
  BY <1>1, NoDocAssumption DEF Readable, Placed, EntryType

(* What the kinds of the calls and of the oldest block say. *)
LEMMA QueuesWhen ==
    ASSUME TypeInv, Quiet
    PROVE  /\ Settled =>
                 /\ \A i \in 1..Len(reads) : reads[i].kind \in {"counter", "habit", "create"}
                 /\ \A k \in 1..Len(mainQueue) :
                       mainQueue[k].call.kind \in {"counter", "habit", "create", "fetch"}
           /\ Deleting =>
                 /\ reads = <<>>
                 /\ \/ acks # <<>> /\ mainQueue = <<>>
                    \/ acks = <<>> /\ \E kind \in {"deleted", "counterSet"} :
                          mainQueue = <<Completion(kind)>>
<1>1. \A k : CreateCall(k).kind = "create" /\ \A s : Block(CreateCall(k), s).call.kind = "create"
  BY DEF CreateCall, Block
<1>2. FetchBlock.call.kind = "fetch" /\ CounterCall.kind = "counter"
      /\ \A s : Block(CounterCall, s).call.kind = "counter"
  BY DEF FetchBlock, CounterCall, Block
<1>3. \A x : Len(<<x>>) = 1 /\ <<x>>[1] = x
  OBVIOUS
<1>4. Len(<<>>) = 0
  OBVIOUS
<1>5. ASSUME Settled
      PROVE  /\ \A i \in 1..Len(reads) : reads[i].kind \in {"counter", "habit", "create"}
             /\ \A k \in 1..Len(mainQueue) :
                   mainQueue[k].call.kind \in {"counter", "habit", "create", "fetch"}
  <2>1. CASE Rest
    BY <1>4, <2>1 DEF Rest
  <2>2. CASE \E h \in Habits \ DOMAIN saved : AddAsked(h) \/ AddHere(h)
    BY <1>1, <1>3, <1>4, <2>2 DEF AddAsked, AddHere
  <2>3. CASE FetchWaits \/ CounterAsked \/ CounterHere(habitCounter)
    BY <1>2, <1>3, <1>4, <2>3 DEF FetchWaits, CounterAsked, CounterHere
  <2>4. CASE Loading(habitCounter)
    <3>1. reads \in Seq(AskedType) /\ mainQueue \in Seq(BlockType)
      BY Typed
    <3>2. DOMAIN reads = 1..Len(reads) /\ DOMAIN mainQueue = 1..Len(mainQueue)
      BY <3>1
    <3> QED
      BY <2>4, <3>1, <3>2, LoadingQueues
  <2> QED
    BY <1>5, <2>1, <2>2, <2>3, <2>4 DEF Settled, Fetching
<1>6. ASSUME Deleting
      PROVE  /\ reads = <<>>
             /\ \/ acks # <<>> /\ mainQueue = <<>>
                \/ acks = <<>> /\ \E kind \in {"deleted", "counterSet"} :
                      mainQueue = <<Completion(kind)>>
  BY <1>6 DEF Deleting, DeleteAsked, DeleteHere
<1> QED
  BY <1>5, <1>6

LEMMA WhenDeleting ==
    ASSUME TypeInv, Quiet
    PROVE  (Settled => ~DeletePending) /\ (Deleting => DeletePending)
<1>1. ASSUME Settled PROVE ~DeletePending
  <2>1. Pending("deleted") = {} /\ Pending("counterSet") = {}
    BY <1>1, QueuesWhen, WhatIsPending
  <2> QED
    BY <1>1, <2>1 DEF DeletePending, Settled
<1>2. ASSUME Deleting PROVE DeletePending
  <2>1. CASE acks # <<>>
    BY <2>1 DEF DeletePending
  <2>2. ASSUME NEW kind \in {"deleted", "counterSet"}, mainQueue = <<Completion(kind)>>
        PROVE  DeletePending
    <3>1. 1 \in 1..Len(mainQueue) /\ mainQueue[1].call.kind = kind
      BY <2>2 DEF Completion, Block
    <3>2. Pending(kind) # {}
      BY <3>1, WhatIsPending
    <3> QED
      BY <3>2 DEF DeletePending
  <2> QED
    BY <1>2, <2>1, <2>2, QueuesWhen
<1> QED
  BY <1>1, <1>2

ListKnown == (Settled => TheList = DocList) /\ (Deleting => TheList = ShownList)

LEMMA ListWhen == TypeInv /\ Quiet => ListKnown
BY WhenDeleting DEF TheList, ListKnown

LEMMA ListWhenNext == TypeInv' /\ Quiet' => ListKnown'
BY ListWhen, PTL

(* The user acts at rest. *)
LEMMA AtRest ==
    ASSUME TypeInv, Quiet, Idle
    PROVE  /\ Settled /\ Rest
           /\ \A r \in Nat : InList(r) <=> r < habitCounter
           /\ \A r \in 0..(habitCounter - 1) : habitArray[r + 1] = Placed(r, docs[r])
           /\ pressed # {} => indexPathGlobal \in 0..(habitCounter - 1)
<1>1. reads = <<>> /\ mainQueue = <<>> /\ acks = <<>>
  BY DEF Idle
<1>2. \A x : <<x>> # <<>>
  OBVIOUS
<1>3. Settled
  BY <1>1, <1>2, QueuesWhen DEF Quiet
<1>4. Rest
  <2>1. ~FetchWaits /\ ~CounterAsked /\ ~CounterHere(habitCounter)
    BY <1>1, <1>2, Zenon DEF FetchWaits, CounterAsked, CounterHere
  <2>2. \A h : ~AddAsked(h) /\ ~AddHere(h)
    BY <1>1, <1>2, Zenon DEF AddAsked, AddHere
  <2>3. CASE /\ Loading(habitCounter) /\ (habitArray # <<>> => pressed = {})
             /\ habitCounter = 0 => shown = 0
    <3>1. habitArray = Listing(docs, habitCounter)
          /\ (habitCounter # 0 => shown = habitCounter /\ habitArray # <<>>)
      BY <1>1, <2>3, Typed, LoadedIsListing
    <3>2. shown = habitCounter
      BY <2>3, <3>1
    <3>3. pressed = {}
      <4>1. CASE habitCounter = 0
        BY <2>3, <4>1 DEF Quiet
      <4> QED
        BY <2>3, <3>1, <4>1
    <3> QED
      BY <1>1, <3>1, <3>2, <3>3 DEF Rest, AllListed
  <2> QED
    BY <1>3, <2>1, <2>2, <2>3 DEF Settled, Fetching
<1>5. Len(habitArray) = habitCounter
      /\ \A r \in 0..(habitCounter - 1) : habitArray[r + 1] = Placed(r, docs[r])
  BY <1>4, Typed, ListingIs DEF Rest, AllListed
<1>6. pressed # {} => indexPathGlobal \in 0..(habitCounter - 1)
  BY <1>4, Typed DEF Rest
<1> QED
  BY <1>3, <1>4, <1>5, <1>6 DEF InList

(* A screen to edit a habit is open only at rest. *)
LEMMA NoEditUnderWay ==
    ASSUME Quiet, reads # <<>> \/ mainQueue # <<>> \/ acks # <<>>
    PROVE  nav.screen # "edit"
<1>1. CASE acks # <<>>
  <2>1. nav = Home
    BY <1>1 DEF Quiet, Settled, Deleting
  <2> QED
    BY <2>1 DEF Home
<1> QED
  BY <1>1 DEF Quiet, FormKnows, Rest

(* What stays of the list while nothing is saved. *)
LEMMA ListStays ==
    ASSUME TypeInv, Quiet, TypeInv', Quiet',
           \/ Settled /\ Settled' /\ UNCHANGED <<docs, habitCounter>>
           \/ Deleting /\ Deleting' /\ UNCHANGED habitArray
    PROVE  TheList' = TheList
<1>1. UNCHANGED <<docs, habitCounter>> => DocList' = DocList
  BY DEF DocList
<1>2. UNCHANGED habitArray => ShownList' = ShownList
  BY DEF ShownList
<1>3. ListKnown
  BY ListWhen
<1>4. ListKnown'
  BY ListWhenNext
<1> QED
  BY <1>1, <1>2, <1>3, <1>4 DEF ListKnown

----------------------------------------------------------------------------
\* The steps that save nothing

(* The user touches the screen. *)
LEMMA GestureKeeps ==
    ASSUME TypeInv, Quiet, TypeInv', Idle, UNCHANGED <<fetchVars, acks, saved>>,
           pressed' \subseteq 0..(shown - 1), pressed' # {} => indexPathGlobal' < habitCounter,
           nav'.screen = "create" => nav'.habit \notin DOMAIN saved,
           nav'.screen = "edit" => nav'.row \in DOMAIN docs /\ nav'.entry.data = docs[nav'.row]
    PROVE  Quiet' /\ TheList' = TheList
<1>1. Settled /\ Rest
  BY AtRest
<1>2. Rest'
  BY <1>1 DEF Rest, AllListed, fetchVars, Listing, Placed
<1>3. Settled'
  BY <1>1, <1>2 DEF Settled, fetchVars, Matches
<1>4. Quiet'
  BY <1>2, <1>3 DEF Quiet, FormKnows, fetchVars
<1> QED
  BY <1>1, <1>3, <1>4, ListStays DEF fetchVars

LEMMA GestureStep ==
    ASSUME TypeInv, Quiet, TypeInv', Idle,
           \/ \E r \in 0..(shown - 1) : LongPress(r) \/ TapPressed(r)
           \/ Swipe
           \/ \E h \in Habits : OpenCreate(h)
           \/ Back
           \/ OpenEdit
    PROVE  Quiet' /\ TheList' = TheList
<1>1. /\ Settled /\ Rest /\ shown = habitCounter /\ habitCounter \in Nat
      /\ pressed # {} => indexPathGlobal \in 0..(habitCounter - 1)
      /\ \A r \in Nat : InList(r) <=> r < habitCounter
      /\ pressed \subseteq 0..(shown - 1) /\ FormKnows
  BY AtRest, Typed DEF Quiet, Rest, AllListed
<1>2. /\ nav.screen = "create" => nav.habit \notin DOMAIN saved
      /\ nav.screen = "edit" => nav.row \in DOMAIN docs /\ nav.entry.data = docs[nav.row]
  BY <1>1 DEF FormKnows
<1>3. Home.screen = "home"
  BY DEF Home
<1>4. ASSUME NEW r \in 0..(shown - 1), LongPress(r)
      PROVE  Quiet' /\ TheList' = TheList
  <2>1. /\ UNCHANGED <<fetchVars, nav, acks, saved>>
        /\ pressed' = pressed \cup {r} /\ indexPathGlobal' = r
    BY <1>4 DEF LongPress, histVars
  <2>2. pressed' \subseteq 0..(shown - 1) /\ indexPathGlobal' < habitCounter
    BY <1>1, <1>4, <2>1
  <2> QED
    BY <1>2, <2>1, <2>2, GestureKeeps
<1>5. ASSUME NEW r \in 0..(shown - 1), TapPressed(r)
      PROVE  Quiet' /\ TheList' = TheList
  <2>1. /\ UNCHANGED <<fetchVars, nav, acks, saved, indexPathGlobal>>
        /\ pressed' = pressed \ {r}
    BY <1>5 DEF TapPressed, histVars
  <2>2. pressed' # {} => indexPathGlobal' < habitCounter
    BY <1>1, <2>1
  <2> QED
    BY <1>1, <1>2, <2>1, <2>2, GestureKeeps
<1>6. CASE Swipe
  <2>1. UNCHANGED <<fetchVars, nav, acks, saved, indexPathGlobal>> /\ pressed' = {}
    BY <1>6 DEF Swipe, histVars
  <2> QED
    BY <1>1, <1>2, <2>1, GestureKeeps
<1>7. ASSUME NEW h \in Habits, OpenCreate(h)
      PROVE  Quiet' /\ TheList' = TheList
  <2>1. /\ UNCHANGED <<fetchVars, acks, saved, pressed, indexPathGlobal>>
        /\ nav' = CreateVC(h) /\ h \notin DOMAIN saved
    BY <1>7 DEF OpenCreate, histVars
  <2>2. nav'.screen = "create" /\ nav'.habit = h
    BY <2>1 DEF CreateVC
  <2>3. pressed' # {} => indexPathGlobal' < habitCounter
    BY <1>1, <2>1
  <2> QED
    BY <1>1, <2>1, <2>2, <2>3, GestureKeeps
<1>8. CASE Back
  <2>1. UNCHANGED <<fetchVars, acks, saved, pressed, indexPathGlobal>> /\ nav' = Home
    BY <1>8 DEF Back, histVars
  <2>2. pressed' # {} => indexPathGlobal' < habitCounter
    BY <1>1, <2>1
  <2> QED
    BY <1>1, <1>3, <2>1, <2>2, GestureKeeps
<1>9. CASE OpenEdit
  <2> DEFINE r == indexPathGlobal
  <2>1. /\ UNCHANGED <<fetchVars, acks, saved, pressed, indexPathGlobal>>
        /\ pressed # {} /\ nav' = EditVC(r, habitArray[r + 1])
    BY <1>9 DEF OpenEdit, histVars
  <2>2. r \in 0..(habitCounter - 1) /\ habitArray[r + 1] = Placed(r, docs[r])
    BY <1>1, <2>1, AtRest
  <2>3. r \in DOMAIN docs
    BY <1>1, <2>2 DEF Settled
  <2>4. nav'.screen = "edit" /\ nav'.row = r /\ nav'.entry.data = docs[r]
    BY <2>1, <2>2 DEF EditVC, Placed
  <2>5. pressed' # {} => indexPathGlobal' < habitCounter
    BY <1>1, <2>1
  <2> HIDE DEF r
  <2> QED
    BY <1>1, <2>1, <2>3, <2>4, <2>5, GestureKeeps
<1> QED
  BY <1>4, <1>5, <1>6, <1>7, <1>8, <1>9

(* No cell and no button is stale. *)
LEMMA NothingIsStale ==
    ASSUME TypeInv, Quiet, Idle
    PROVE  ~TapStaleButton /\ \A r \in 0..(shown - 1) : ~TouchStaleCell(r)
<1>1. /\ shown = habitCounter
      /\ \A r \in Nat : InList(r) <=> r < habitCounter
      /\ pressed # {} => indexPathGlobal \in 0..(habitCounter - 1)
  BY AtRest DEF Rest, AllListed
<1>2. ~TapStaleButton
  BY <1>1, Typed DEF TapStaleButton
<1>3. \A r \in 0..(shown - 1) : ~TouchStaleCell(r)
  BY <1>1, Typed DEF TouchStaleCell
<1> QED
  BY <1>2, <1>3

LEMMA TapAddStep ==
    ASSUME TypeInv, Quiet, TypeInv', Idle, NEW h \in Habits, TapAdd(h)
    PROVE  Quiet' /\ TheList' = TheList
<1>1. /\ nav = CreateVC(h) /\ reads' = Append(reads, CreateCall(h))
      /\ UNCHANGED <<docs, habitCounter, habitArray, shown, mainQueue, app, pressed, nav, acks, saved>>
  BY DEF TapAdd, uiVars, histVars
<1>2. Settled /\ Rest
  BY AtRest
<1>3. nav.screen = "create" /\ nav.habit = h
  BY <1>1 DEF CreateVC
<1>4. h \notin DOMAIN saved
  BY <1>3 DEF Quiet, FormKnows
<1>5. AddAsked(h)'
  BY <1>1, <1>2 DEF Rest, AddAsked, AllListed, Listing, Placed
<1>6. Settled'
  BY <1>1, <1>2, <1>4, <1>5 DEF Settled, Matches
<1>7. Quiet'
  BY <1>1, <1>3, <1>4, <1>6 DEF Quiet, FormKnows
<1> QED
  BY <1>1, <1>2, <1>6, <1>7, ListStays

(* Firestore answers, or the main queue runs a block of a fetch. *)
LEMMA FetchKeeps ==
    ASSUME TypeInv, Quiet, TypeInv', Settled, nav.screen # "edit",
           UNCHANGED <<docs, habitCounter, nav, acks, saved, app>>,
           pressed' \subseteq 0..(shown' - 1),
           \/ Fetching'
           \/ \E h \in Habits \ DOMAIN saved : AddHere(h)'
    PROVE  Quiet' /\ TheList' = TheList
<1>1. Settled'
  BY DEF Settled, Matches
<1>2. FormKnows'
  BY DEF Quiet, FormKnows
<1>3. Quiet'
  BY <1>1, <1>2 DEF Quiet
<1> QED
  BY <1>1, <1>3, ListStays

(* Which phase it is, by the kind of the oldest block. *)
LEMMA PhaseOfBlock ==
    ASSUME TypeInv, Quiet, mainQueue # <<>>, NEW kind, Head(mainQueue).call.kind = kind
    PROVE  /\ kind = "fetch" => Settled /\ Fetching /\ FetchWaits
           /\ kind = "counter" => Settled /\ Fetching /\ CounterHere(habitCounter)
           /\ kind = "habit" => Settled /\ Fetching /\ Loading(habitCounter)
           /\ kind = "create" => Settled /\ \E h \in Habits \ DOMAIN saved : AddHere(h)
           /\ kind \in {"deleted", "counterSet"} => Deleting /\ DeleteHere(kind)
<1>1. \A x : Head(<<x>>) = x
  OBVIOUS
<1>2. \A h, s : Block(CreateCall(h), s).call.kind = "create"
  BY DEF CreateCall, Block
<1>3. FetchBlock.call.kind = "fetch" /\ \A s : Block(CounterCall, s).call.kind = "counter"
  BY DEF FetchBlock, CounterCall, Block
<1>4. \A k : Completion(k).call.kind = k
  BY DEF Completion, Block
<1>5. FetchWaits => kind = "fetch"
  BY <1>1, <1>3 DEF FetchWaits
<1>6. CounterHere(habitCounter) => kind = "counter"
  BY <1>1, <1>3 DEF CounterHere
<1>7. Loading(habitCounter) => kind = "habit"
  BY Typed, LoadingQueues
<1>8. \A h : AddHere(h) => kind = "create"
  BY <1>1, <1>2 DEF AddHere
<1>9. \A k : DeleteHere(k) => kind = k
  BY <1>1, <1>4 DEF DeleteHere
<1>10. ~Rest /\ ~CounterAsked /\ (\A h : ~AddAsked(h)) /\ \A k : ~DeleteAsked(k)
  BY DEF Rest, CounterAsked, AddAsked, DeleteAsked
<1>11. CASE Settled
  <2>1. CASE Fetching
    BY <1>5, <1>6, <1>7, <1>10, <1>11, <2>1 DEF Fetching
  <2>2. CASE \E h \in Habits \ DOMAIN saved : AddHere(h)
    BY <1>8, <1>11, <2>2
  <2> QED
    BY <1>10, <1>11, <2>1, <2>2 DEF Settled
<1>12. CASE Deleting
  BY <1>9, <1>10, <1>12 DEF Deleting
<1> QED
  BY <1>11, <1>12 DEF Quiet

LEMMA RunFetchStep ==
    ASSUME TypeInv, Quiet, TypeInv', RunFetch, UNCHANGED <<uiVars, acks, histVars>>
    PROVE  Quiet' /\ TheList' = TheList
<1>1. mainQueue # <<>> /\ Head(mainQueue).call.kind = "fetch"
  BY DEF RunFetch, Runs
<1>2. Settled /\ Fetching /\ FetchWaits /\ nav.screen # "edit"
  BY <1>1, PhaseOfBlock, NoEditUnderWay
<1>3. CounterAsked'
  BY <1>2, FetchStarts
<1>4. UNCHANGED <<docs, habitCounter, shown, app, nav, pressed, saved>>
  BY DEF RunFetch, uiVars, histVars
<1>5. Fetching'
  BY <1>2, <1>3, <1>4 DEF Fetching
<1> QED
  BY <1>2, <1>4, <1>5, FetchKeeps DEF Quiet

LEMMA RunCounterStep ==
    ASSUME TypeInv, Quiet, TypeInv', RunCounter, UNCHANGED <<uiVars, acks, histVars>>
    PROVE  Quiet' /\ TheList' = TheList
<1>1. mainQueue # <<>> /\ Head(mainQueue).call.kind = "counter"
  BY DEF RunCounter, Runs
<1>2. Settled /\ Fetching /\ CounterHere(habitCounter) /\ nav.screen # "edit"
  BY <1>1, PhaseOfBlock, NoEditUnderWay
<1>3. PICK count \in Nat : habitCounter = count
  BY Typed
<1>4. Loading(count)'
  BY <1>2, <1>3, CounterIsRun
<1>5. UNCHANGED <<docs, habitCounter, habitArray, shown, app, nav, pressed, saved>>
  BY DEF RunCounter, uiVars, histVars
<1>6. habitArray' = <<>>
  BY <1>2, <1>5 DEF CounterHere
<1>7. Loading(habitCounter)'
  BY <1>3, <1>4, <1>5
<1>8. Fetching'
  BY <1>2, <1>5, <1>6, <1>7 DEF Fetching
<1> QED
  BY <1>2, <1>5, <1>8, FetchKeeps DEF Quiet

LEMMA ReloadStep ==
    ASSUME TypeInv, Quiet, TypeInv', Reload
    PROVE  Quiet' /\ TheList' = TheList
<1>1. mainQueue # <<>> /\ Head(mainQueue).call.kind = "habit"
  BY DEF Reload, RunHabit, Runs
<1>2. Settled /\ Loading(habitCounter) /\ nav.screen # "edit"
  BY <1>1, PhaseOfBlock, NoEditUnderWay
<1>3. PICK count \in Nat : habitCounter = count
  BY Typed
<1>4. Readable(count) /\ \A n \in 0..(count - 1) : Placed(n, docs[n]) \in EntryType
  BY <1>2, <1>3, AllReadable DEF Settled
<1>5. RunHabit /\ pressed' = {} /\ UNCHANGED <<docs, habitCounter, app, nav, acks, saved>>
  BY DEF Reload, RunHabit, histVars
<1>6. Loading(count)' /\ habitArray' # <<>>
  BY <1>2, <1>3, <1>4, <1>5, Typed, HabitIsRun
<1>7. count # 0
  <2> SUFFICES ASSUME count = 0 PROVE FALSE
    OBVIOUS
  <2>1. PICK listed \in SUBSET (0..(count - 1)) :
           Range(habitArray') = {Placed(n, docs'[n]) : n \in listed}
    BY <1>6 DEF Loading, Loads
  <2>2. Range(habitArray') = {}
    BY <2>1
  <2>3. habitArray' \in Seq(EntryType)
    BY DEF TypeInv, TypeOK, ListTypeOK
  <2>4. 1 \in DOMAIN habitArray'
    BY <1>6, <2>3, NonEmptySeq
  <2> QED
    BY <2>2, <2>4 DEF Range
<1>8. Loading(habitCounter)'
  BY <1>3, <1>5, <1>6
<1>9. Fetching'
  BY <1>3, <1>5, <1>7, <1>8 DEF Fetching
<1> QED
  BY <1>2, <1>5, <1>9, FetchKeeps

(* Every document that is counted exists. *)
LEMMA NothingTraps ==
    ASSUME TypeInv, Quiet
    PROVE  ~RunHabitTraps
<1> SUFFICES ASSUME RunHabitTraps PROVE FALSE
  OBVIOUS
<1>1. /\ mainQueue # <<>> /\ Head(mainQueue).call.kind = "habit"
      /\ Missing(Head(mainQueue).snap)
  BY DEF RunHabitTraps, Runs
<1>2. Settled /\ Loading(habitCounter)
  BY <1>1, PhaseOfBlock
<1>3. Readable(habitCounter)
  BY <1>2, AllReadable DEF Settled
<1> QED
  BY <1>1, <1>2, <1>3, Typed, HeadWhileLoading

(* Which phase it is, by the kind of a call that is not answered. *)
LEMMA PhaseOfCall ==
    ASSUME TypeInv, Quiet, NEW i \in DOMAIN reads
    PROVE  /\ Settled
           /\ reads[i].kind = "habit" => Fetching /\ Loading(habitCounter)
           /\ reads[i].kind # "habit" =>
                 \/ Fetching /\ CounterAsked
                 \/ \E h \in Habits \ DOMAIN saved : AddAsked(h)
<1>1. reads # <<>>
  OBVIOUS
<1>2. \A x : DOMAIN <<x>> = {1} /\ <<x>>[1] = x
  OBVIOUS
<1>3. CounterAsked => reads[i].kind = "counter"
  BY <1>2 DEF CounterAsked, CounterCall
<1>4. \A h : AddAsked(h) => reads[i].kind = "create"
  BY <1>2 DEF AddAsked, CreateCall
<1>5. Loading(habitCounter) => reads[i].kind = "habit"
  BY Typed, LoadingQueues
<1>6. ~Rest /\ ~FetchWaits /\ ~CounterHere(habitCounter) /\ (\A h : ~AddHere(h)) /\ ~Deleting
  BY <1>1 DEF Rest, FetchWaits, CounterHere, AddHere, Deleting, DeleteAsked, DeleteHere
<1>7. Settled
  BY <1>6 DEF Quiet
<1> QED
  BY <1>3, <1>4, <1>5, <1>6, <1>7 DEF Settled, Fetching

LEMMA AnswerHabitStep ==
    ASSUME TypeInv, Quiet, TypeInv', NEW i \in DOMAIN reads, AnswerHabit(i),
           UNCHANGED <<uiVars, acks, histVars>>
    PROVE  Quiet' /\ TheList' = TheList
<1>1. Settled /\ Fetching /\ Loading(habitCounter) /\ nav.screen # "edit"
  BY PhaseOfCall, NoEditUnderWay DEF AnswerHabit
<1>2. PICK count \in Nat : habitCounter = count
  BY Typed
<1>3. Readable(count)
  BY <1>1, <1>2, AllReadable DEF Settled
<1>4. Loading(count)'
  BY <1>1, <1>2, <1>3, Typed, HabitIsAnswered
<1>5. UNCHANGED <<docs, habitCounter, habitArray, shown, app, nav, pressed, saved>>
  BY DEF AnswerHabit, Answer, uiVars, histVars
<1>6. habitArray # <<>> => pressed = {}
  BY <1>1 DEF Fetching, FetchWaits, CounterAsked, CounterHere
<1>7. Loading(habitCounter)'
  BY <1>2, <1>4, <1>5
<1>8. Fetching'
  BY <1>1, <1>5, <1>6, <1>7 DEF Fetching
<1> QED
  BY <1>1, <1>5, <1>8, FetchKeeps DEF Quiet

LEMMA AnswerUserStep ==
    ASSUME TypeInv, Quiet, TypeInv', NEW i \in DOMAIN reads, AnswerUser(i),
           UNCHANGED <<uiVars, acks, histVars>>
    PROVE  Quiet' /\ TheList' = TheList
<1>1. /\ Settled /\ nav.screen # "edit"
      /\ (Fetching /\ CounterAsked) \/ \E h \in Habits \ DOMAIN saved : AddAsked(h)
  BY PhaseOfCall, NoEditUnderWay DEF AnswerUser
<1>2. UNCHANGED <<docs, habitCounter, habitArray, shown, app, nav, pressed, saved>>
  BY DEF AnswerUser, Answer, uiVars, histVars
<1>3. CASE Fetching /\ CounterAsked
  <2>1. PICK count \in Nat : habitCounter = count
    BY Typed
  <2>2. CounterHere(count)'
    BY <1>3, <2>1, CounterIsAnswered
  <2>3. CounterHere(habitCounter)'
    BY <1>2, <2>1, <2>2
  <2>4. Fetching'
    BY <1>2, <1>3, <2>3 DEF Fetching
  <2> QED
    BY <1>1, <1>2, <2>4, FetchKeeps DEF Quiet
<1>4. ASSUME NEW h \in Habits \ DOMAIN saved, AddAsked(h)
      PROVE  Quiet' /\ TheList' = TheList
  <2>1. reads = <<CreateCall(h)>> /\ mainQueue = <<>> /\ i = 1 /\ reads[i] = CreateCall(h)
    BY <1>4 DEF AddAsked
  <2>2. reads' = <<>> /\ mainQueue' = <<Block(CreateCall(h), <<[habitCounter |-> habitCounter]>>)>>
    BY <2>1, OneRemoved DEF AnswerUser, Answer
  <2>3. AddHere(h)'
    BY <1>2, <1>4, <2>2 DEF AddAsked, AddHere, AllListed, Listing, Placed
  <2> QED
    BY <1>1, <1>2, <1>4, <2>3, FetchKeeps DEF Quiet
<1> QED
  BY <1>1, <1>3, <1>4

LEMMA AckStep ==
    ASSUME TypeInv, Quiet, TypeInv', Ack
    PROVE  Quiet' /\ TheList' = TheList
<1>1. /\ acks # <<>> /\ acks' = Tail(acks) /\ mainQueue' = Append(mainQueue, Head(acks))
      /\ UNCHANGED <<docs, habitCounter, habitArray, shown, reads, app, nav, pressed,
                     indexPathGlobal, saved>>
  BY DEF Ack, uiVars, histVars
<1>2. Deleting
  BY <1>1 DEF Quiet, Settled
<1>3. ASSUME NEW kind, DeleteAsked(kind) PROVE DeleteHere(kind)'
  BY <1>1, <1>3 DEF DeleteAsked, DeleteHere
<1>4. ~DeleteHere("deleted") /\ ~DeleteHere("counterSet")
  BY <1>1 DEF DeleteHere
<1>5. ListedData' = ListedData
  BY <1>1 DEF ListedData
<1>6. Deleting'
  BY <1>1, <1>2, <1>3, <1>4, <1>5 DEF Deleting, Matches
<1>7. nav = Home /\ Home.screen = "home"
  BY <1>2 DEF Deleting, Home
<1>8. Quiet'
  BY <1>1, <1>6, <1>7 DEF Quiet, FormKnows
<1> QED
  BY <1>1, <1>2, <1>6, <1>8, ListStays

(* The list of the controller is shorter by one than the documents were: the
   last of them goes, or is the one that went. *)
LEMMA RunDeletedStep ==
    ASSUME TypeInv, Quiet, TypeInv', RunDeleted
    PROVE  Quiet' /\ TheList' = TheList
<1>1. /\ mainQueue # <<>> /\ Head(mainQueue).call.kind = "deleted" /\ mainQueue' = Tail(mainQueue)
      /\ docs' = DropLast(Len(habitArray)) /\ acks' = Append(acks, Completion("counterSet"))
      /\ UNCHANGED <<habitArray, shown, reads, app, nav, pressed, indexPathGlobal, saved>>
  BY DEF RunDeleted, Runs, uiVars, histVars
<1>2. Deleting /\ DeleteHere("deleted")
  BY <1>1, PhaseOfBlock
<1>3. ~DeleteHere("counterSet") /\ ~DeleteAsked("counterSet")
  BY <1>2 DEF DeleteHere, DeleteAsked, Completion, Block
<1>4. DOMAIN docs \subseteq 0..Len(habitArray) /\ indexPathGlobal \notin DOMAIN docs
  BY <1>2, <1>3 DEF Deleting
<1>5. DOMAIN docs' \subseteq DOMAIN docs \ {Len(habitArray)}
  BY <1>1, <1>4 DEF DropLast, Delete
<1>6. DOMAIN docs' \subseteq 0..(Len(habitArray) - 1)
  BY <1>4, <1>5, Typed
<1>7. DeleteAsked("counterSet")'
  BY <1>1, <1>2 DEF DeleteHere, DeleteAsked
<1>8. ListedData' = ListedData
  BY <1>1 DEF ListedData
<1>9. Deleting'
  BY <1>1, <1>2, <1>6, <1>7, <1>8 DEF Deleting, Matches
<1>10. nav = Home /\ Home.screen = "home"
  BY <1>2 DEF Deleting, Home
<1>11. Quiet'
  BY <1>1, <1>9, <1>10 DEF Quiet, FormKnows
<1> QED
  BY <1>1, <1>2, <1>9, <1>11, ListStays

(* The list of the controller is written over the documents. *)
LEMMA RunCounterSetStep ==
    ASSUME TypeInv, Quiet, TypeInv', RunCounterSet
    PROVE  Quiet' /\ TheList' = TheList
<1> DEFINE count == Len(habitArray)
<1>1. /\ mainQueue # <<>> /\ Head(mainQueue).call.kind = "counterSet"
      /\ mainQueue' = Append(Tail(mainQueue), FetchBlock)
      /\ docs' = WriteAll /\ habitCounter' = count
      /\ UNCHANGED <<habitArray, shown, reads, app, nav, pressed, indexPathGlobal, acks, saved>>
  BY DEF RunCounterSet, Runs, uiVars, histVars
<1>2. Deleting /\ DeleteHere("counterSet")
  BY <1>1, PhaseOfBlock
<1>3. ~DeleteHere("deleted") /\ ~DeleteAsked("deleted")
  BY <1>2 DEF DeleteHere, DeleteAsked, Completion, Block
<1>4. /\ DOMAIN docs \subseteq 0..(count - 1) /\ shown = count /\ nav = Home
      /\ Matches(ListedData, saved) /\ count \in Nat
  BY <1>2, <1>3, Typed DEF Deleting
<1>5. DOMAIN docs' = 0..(count - 1) /\ \A n \in 0..(count - 1) : docs'[n] = ListedData[n]
  <2>1. DOMAIN docs \cup 0..(count - 1) = 0..(count - 1)
    BY <1>4
  <2>2. \A n \in 0..(count - 1) : InList(n)
    BY <1>4 DEF InList
  <2> QED
    BY <1>1, <2>1, <2>2 DEF WriteAll, ListedData
<1>6. DOMAIN ListedData = 0..(count - 1)
  BY DEF ListedData
<1> HIDE DEF count
<1>7. Matches(docs', saved')
  <2>1. Matches(docs', saved)
    BY <1>4, <1>5, <1>6, MatchesSame
  <2> QED
    BY <1>1, <2>1
<1>8. FetchWaits'
  BY <1>1, <1>2 DEF DeleteHere, FetchWaits
<1>9. Settled'
  <2>1. acks' = <<>>
    BY <1>1, <1>2 DEF DeleteHere
  <2>2. Fetching'
    BY <1>1, <1>4, <1>8 DEF Fetching
  <2> QED
    BY <1>1, <1>5, <1>7, <2>1, <2>2 DEF Settled
<1>10. Home.screen = "home"
  BY DEF Home
<1>11. Quiet'
  BY <1>1, <1>4, <1>9, <1>10 DEF Quiet, FormKnows
<1>12. DocList' = ShownList
  <2>1. DOMAIN habitArray = 1..count
    BY Typed DEF count
  <2>2. \A i \in 1..count : i - 1 \in 0..(count - 1) /\ (i - 1) + 1 = i
    BY <1>4
  <2>3. \A i \in 1..count : docs'[i - 1] = habitArray[i].data
    <3> TAKE i \in 1..count
    <3>1. docs'[i - 1] = ListedData[i - 1] /\ ListedData[i - 1] = habitArray[(i - 1) + 1].data
      BY <1>5, <2>2 DEF ListedData, count
    <3> QED
      BY <2>2, <3>1
  <2> QED
    BY <1>1, <2>1, <2>3 DEF DocList, ShownList
<1> QED
  BY <1>2, <1>9, <1>11, <1>12, ListWhen, ListWhenNext DEF ListKnown

LEMMA RelaunchStep ==
    ASSUME TypeInv, Quiet, TypeInv', ~DeletePending, Relaunch
    PROVE  Quiet' /\ TheList' = TheList
<1>1. Settled
  BY WhenDeleting DEF Quiet
<1>2. /\ habitArray' = <<>> /\ shown' = 0 /\ reads' = <<CounterCall>> /\ mainQueue' = <<>>
      /\ app' = "running" /\ nav' = Home /\ pressed' = {} /\ acks' = <<>>
      /\ UNCHANGED <<docs, habitCounter, saved>>
  BY DEF Relaunch, RelaunchHome
<1>3. CounterAsked'
  BY <1>2 DEF CounterAsked
<1>4. Settled'
  BY <1>1, <1>2, <1>3 DEF Settled, Fetching, Matches
<1>5. Home.screen = "home"
  BY DEF Home
<1>6. Quiet'
  BY <1>2, <1>4, <1>5 DEF Quiet, FormKnows
<1> QED
  BY <1>1, <1>2, <1>4, <1>6, ListStays

----------------------------------------------------------------------------
\* The steps that save something

(* The steps of module HabitStore, said of the list. *)
Adds == \E h \in Habits : /\ \A i \in DOMAIN TheList : TheList[i].habit # h
                          /\ TheList' = Append(TheList, NewData(h))
Edits ==
    \E i \in DOMAIN TheList :
        /\ TheList[i].edits < MaxEdits
        /\ TheList' = [TheList EXCEPT ![i].edits = @ + 1]
Deletes == \E i \in DOMAIN TheList : TheList' = RemoveAt(TheList, i)

LEMMA DocListIs ==
    ASSUME TypeInv
    PROVE  /\ DOMAIN DocList = 1..habitCounter
           /\ \A n \in 0..(habitCounter - 1) : DocList[n + 1] = docs[n]
           /\ \A i \in 1..habitCounter : DocList[i] = docs[i - 1]
           /\ \E S : DocList \in Seq(S) /\ Len(DocList) = habitCounter
<1>1. habitCounter \in Nat
  BY Typed
<1>2. DOMAIN DocList = 1..habitCounter /\ \A i \in 1..habitCounter : DocList[i] = docs[i - 1]
  BY DEF DocList
<1>3. \A n \in 0..(habitCounter - 1) : DocList[n + 1] = docs[n]
  <2> TAKE n \in 0..(habitCounter - 1)
  <2>1. n + 1 \in 1..habitCounter /\ (n + 1) - 1 = n
    BY <1>1
  <2>2. DocList[n + 1] = docs[(n + 1) - 1]
    BY <1>2, <2>1
  <2> QED
    BY <2>1, <2>2
<1>4. \E S : DocList \in Seq(S)
  <2> DEFINE S == {docs[i - 1] : i \in 1..habitCounter}
  <2>1. DocList \in [1..habitCounter -> S]
    BY DEF DocList
  <2> HIDE DEF S
  <2>2. DocList \in Seq(S)
    BY <1>1, <2>1, SeqDef
  <2> QED
    BY <2>2
<1> QED
  BY <1>1, <1>2, <1>3, <1>4

(* The document behind the last one is the habit behind the last one. *)
LEMMA RunCreateStep ==
    ASSUME TypeInv, Quiet, TypeInv', RunCreate
    PROVE  Quiet' /\ Adds
<1> DEFINE count == habitCounter
<1>1. mainQueue # <<>> /\ Head(mainQueue).call.kind = "create"
  BY DEF RunCreate, Runs
<1>2. Settled /\ nav.screen # "edit" /\ count \in Nat
  BY <1>1, PhaseOfBlock, NoEditUnderWay, Typed
<1>3. PICK h \in Habits \ DOMAIN saved : AddHere(h)
  BY <1>1, PhaseOfBlock
<1> DEFINE d == NewData(h)
<1>4. Head(mainQueue).call.habit = h /\ NextNumber(h, Head(mainQueue).snap) = count
  <2> DEFINE snap == <<[habitCounter |-> habitCounter]>>
  <2>1. Head(mainQueue) = Block(CreateCall(h), snap) /\ snap # <<>> /\ snap[1].habitCounter = count
    BY <1>3 DEF AddHere
  <2> HIDE DEF snap
  <2> QED
    BY <2>1 DEF Block, CreateCall, NextNumber
<1>5. /\ docs' = SetData(docs, count, d) /\ habitCounter' = count + 1
      /\ saved' = SetData(saved, h, d) /\ nav' = IF nav = CreateVC(h) THEN Home ELSE nav
      /\ mainQueue' = Append(Tail(mainQueue), FetchBlock)
      /\ UNCHANGED <<habitArray, shown, reads, app, pressed, acks>>
  BY <1>4 DEF RunCreate, CounterAfter, Update
<1>6. FetchWaits'
  BY <1>3, <1>5 DEF AddHere, FetchWaits
<1>7. DOMAIN docs' = 0..count /\ docs'[count] = d /\ \A n \in 0..(count - 1) : docs'[n] = docs[n]
  BY <1>2, <1>5 DEF SetData, Settled
<1>8. DOMAIN saved' = DOMAIN saved \cup {h} /\ d.habit = h
  BY <1>5 DEF SetData, NewData
<1>9. Matches(docs, saved) /\ count \notin DOMAIN docs
  BY <1>2 DEF Settled
<1> HIDE DEF d, count
<1>10. Matches(docs', saved')
  <2>1. Matches(SetData(docs, count, d), SetData(saved, d.habit, d))
    BY <1>3, <1>8, <1>9, MatchesAdd
  <2> QED
    BY <1>5, <1>8, <2>1
<1>11. Settled'
  <2>1. Fetching'
    BY <1>2, <1>5, <1>6 DEF Fetching
  <2>2. acks' = <<>> /\ DOMAIN docs' = 0..(habitCounter' - 1)
    BY <1>2, <1>5, <1>7 DEF Settled
  <2> QED
    BY <1>10, <2>1, <2>2 DEF Settled
<1>12. FormKnows'
  <2>1. Home.screen = "home"
    BY DEF Home
  <2>2. ASSUME nav.screen = "create", nav.habit = h PROVE nav = CreateVC(h)
    <3>1. nav \in {Home} \cup [screen : {"create"}, habit : Habits]
                   \cup [screen : {"edit"}, row : Nat, entry : EntryType]
      BY DEF TypeInv, TypeOK, UiTypeOK
    <3>2. nav \in [screen : {"create"}, habit : Habits]
      BY <2>1, <2>2, <3>1
    <3> QED
      BY <2>2, <3>2 DEF CreateVC
  <2>3. nav.screen = "create" => nav.habit \notin DOMAIN saved
    BY DEF Quiet, FormKnows
  <2> QED
    BY <1>2, <1>5, <1>8, <2>1, <2>2, <2>3 DEF FormKnows
<1>13. Quiet'
  BY <1>5, <1>11, <1>12 DEF Quiet
<1>14. TheList = DocList /\ TheList' = DocList'
  BY <1>2, <1>11, <1>13, ListWhen, ListWhenNext DEF ListKnown
<1>15. DocList' = Append(DocList, d)
  <2>1. PICK S : DocList \in Seq(S) /\ Len(DocList) = count
    BY DocListIs DEF count
  <2>2. Append(DocList, d) = [i \in 1..(count + 1) |-> IF i = count + 1 THEN d ELSE DocList[i]]
    <3> DEFINE U == S \cup {d}
    <3>1. DocList \in Seq(U) /\ d \in U
      BY <2>1
    <3> HIDE DEF U
    <3>2. /\ Append(DocList, d) \in Seq(U) /\ Len(Append(DocList, d)) = count + 1
          /\ \A i \in 1..count : Append(DocList, d)[i] = DocList[i]
          /\ Append(DocList, d)[count + 1] = d
      BY <2>1, <3>1, AppendProperties
    <3>3. Append(DocList, d) = [i \in 1..(count + 1) |-> Append(DocList, d)[i]]
      <4> DEFINE longer == Append(DocList, d)
      <4>1. longer \in Seq(U) /\ Len(longer) = count + 1
        BY <3>2
      <4> HIDE DEF longer
      <4>2. longer = [i \in 1..(count + 1) |-> longer[i]]
        BY <4>1
      <4> QED
        BY <4>2 DEF longer
    <3>4. \A i \in 1..(count + 1) :
             Append(DocList, d)[i] = IF i = count + 1 THEN d ELSE DocList[i]
      <4>1. \A i \in 1..(count + 1) : i # count + 1 => i \in 1..count
        BY <1>2 DEF count
      <4> QED
        BY <3>2, <4>1
    <3> QED
      BY <3>3, <3>4
  <2>3. DocList' = [i \in 1..(count + 1) |-> docs'[i - 1]]
    BY <1>5 DEF DocList
  <2>4. \A i \in 1..(count + 1) : docs'[i - 1] = IF i = count + 1 THEN d ELSE DocList[i]
    <3> TAKE i \in 1..(count + 1)
    <3>1. CASE i = count + 1
      BY <1>2, <1>7, <3>1 DEF count
    <3>2. CASE i # count + 1
      <4>1. i \in 1..count /\ i - 1 \in 0..(count - 1)
        BY <1>2, <3>2 DEF count
      <4> QED
        BY <1>7, <3>2, <4>1, DocListIs DEF count
    <3> QED
      BY <3>1, <3>2
  <2> QED
    BY <2>2, <2>3, <2>4
<1>16. \A i \in DOMAIN DocList : DocList[i].habit # h
  <2> TAKE i \in DOMAIN DocList
  <2>1. DocList[i] = docs[i - 1] /\ i - 1 \in DOMAIN docs
    BY <1>2, DocListIs, Typed DEF Settled
  <2>2. docs[i - 1].habit \in DOMAIN saved
    BY <1>9, <2>1 DEF Matches
  <2> QED
    BY <1>3, <2>1, <2>2
<1>17. Adds
  BY <1>3, <1>14, <1>15, <1>16 DEF Adds, d
<1> QED
  BY <1>13, <1>17

(* The row the edit screen was opened for is still that habit's. *)
LEMMA SaveEditStep ==
    ASSUME TypeInv, Quiet, TypeInv', Idle, SaveEdit
    PROVE  Quiet' /\ Edits
<1> DEFINE n   == nav.row
           old == nav.entry.data
           new == [old EXCEPT !.edits = @ + 1]
<1>1. /\ nav.screen = "edit" /\ old.edits < MaxEdits
      /\ docs' = UpdateData(docs, n, new) /\ saved' = UpdateData(saved, new.habit, new)
      /\ mainQueue' = Append(mainQueue, FetchBlock) /\ nav' = Home
      /\ UNCHANGED <<habitCounter, habitArray, shown, reads, app, pressed, acks>>
  BY DEF SaveEdit, Update
<1>2. Settled /\ Rest
  BY AtRest
<1>3. n \in DOMAIN docs /\ old = docs[n]
  BY <1>1 DEF Quiet, FormKnows
<1>4. habitCounter \in Nat /\ n \in 0..(habitCounter - 1) /\ Matches(docs, saved) /\ acks = <<>>
  BY <1>2, <1>3, Typed DEF Settled
<1>5. old \in [habit : Habits, edits : 0..MaxEdits]
  BY <1>3, Typed, DataAssumption
<1>6. new.habit = old.habit /\ new = [habit |-> old.habit, edits |-> old.edits + 1]
  BY <1>5
<1> HIDE DEF old, new, n
<1>7. FetchWaits'
  BY <1>1, <1>2 DEF Rest, FetchWaits
<1>8. DOMAIN docs' = DOMAIN docs /\ \A m \in DOMAIN docs : docs'[m] = IF m = n THEN new ELSE docs[m]
  BY <1>1, <1>3 DEF UpdateData, SetData
<1>9. Matches(docs', saved')
  BY <1>1, <1>3, <1>4, <1>6, MatchesEdit
<1>10. Settled'
  <2>1. Fetching'
    BY <1>1, <1>2, <1>7 DEF Fetching, Rest, AllListed
  <2> QED
    BY <1>1, <1>2, <1>8, <1>9, <2>1 DEF Settled
<1>11. Home.screen = "home"
  BY DEF Home
<1>12. Quiet'
  BY <1>1, <1>10, <1>11 DEF Quiet, FormKnows
<1>13. TheList = DocList /\ TheList' = DocList'
  BY <1>2, <1>10, <1>12, ListWhen, ListWhenNext DEF ListKnown
<1>14. n + 1 \in DOMAIN DocList /\ DocList[n + 1] = old
  BY <1>3, <1>4, DocListIs
<1>15. [old EXCEPT !.edits = @ + 1] = new
  BY DEF new
<1>16. DocList' = [DocList EXCEPT ![n + 1] = new]
  <2>1. DocList' = [i \in 1..habitCounter |-> docs'[i - 1]]
    BY <1>1 DEF DocList
  <2>2. [DocList EXCEPT ![n + 1] = new]
            = [i \in 1..habitCounter |-> IF i = n + 1 THEN new ELSE DocList[i]]
    BY <1>14, DocListIs
  <2>3. \A i \in 1..habitCounter : docs'[i - 1] = IF i = n + 1 THEN new ELSE DocList[i]
    <3> TAKE i \in 1..habitCounter
    <3>1. i - 1 \in DOMAIN docs /\ DocList[i] = docs[i - 1] /\ (i - 1 = n <=> i = n + 1)
      BY <1>2, <1>4, DocListIs DEF Settled
    <3> QED
      BY <1>8, <3>1
  <2> QED
    BY <2>1, <2>2, <2>3
<1>17. [DocList EXCEPT ![n + 1].edits = @ + 1] = [DocList EXCEPT ![n + 1] = new]
  BY <1>14, <1>15
<1>18. Edits
  BY <1>1, <1>13, <1>14, <1>16, <1>17 DEF Edits
<1> QED
  BY <1>12, <1>18

(* The cell deleted is that of the habit deleted; the list closes the gap, the
   documents do not yet. *)
LEMMA TapDeleteStep ==
    ASSUME TypeInv, Quiet, TypeInv', Idle, TapDelete
    PROVE  Quiet' /\ Deletes
<1> DEFINE r == indexPathGlobal
           count == habitCounter
<1>1. /\ nav = Home /\ pressed # {} /\ habitArray' = RemoveAt(habitArray, r + 1)
      /\ docs' = Delete(docs, r) /\ saved' = Delete(saved, habitArray[r + 1].data.habit)
      /\ pressed' = {IF p > r THEN p - 1 ELSE p : p \in pressed \ {r}}
      /\ shown' = shown - 1 /\ acks' = Append(acks, Completion("deleted"))
      /\ UNCHANGED <<reads, mainQueue, app, nav, indexPathGlobal>>
  BY DEF TapDelete, AtHome
<1>2. Settled /\ Rest /\ count \in Nat /\ shown = count /\ pressed \subseteq 0..(count - 1)
      /\ Matches(docs, saved) /\ DOMAIN docs = 0..(count - 1)
  BY AtRest, Typed DEF Quiet, Rest, AllListed, Settled
<1>3. r \in 0..(count - 1) /\ \A n \in 0..(count - 1) : habitArray[n + 1] = Placed(n, docs[n])
  BY <1>1, AtRest
<1> HIDE DEF r, count
<1>4. habitArray \in Seq(EntryType) /\ Len(habitArray) = count
  BY <1>2, Typed, ListingIs DEF Rest, AllListed, count
<1>5. r + 1 \in 1..Len(habitArray)
  BY <1>2, <1>3, <1>4
<1>6. /\ habitArray' \in Seq(EntryType) /\ Len(habitArray') = count - 1
      /\ \A k \in 1..(count - 1) : /\ Others(k, r + 1) \in 1..count
                                   /\ habitArray'[k] = habitArray[Others(k, r + 1)]
  BY <1>1, <1>4, <1>5, RemoveAtType
<1> DEFINE from == [m \in 0..(count - 2) |-> Others(m + 1, r + 1) - 1]
<1>7. \A m \in 0..(count - 2) : /\ m + 1 \in 1..(count - 1)
                                /\ from[m] = Others(m + 1, r + 1) - 1
                                /\ from[m] = IF m < r THEN m ELSE m + 1
                                /\ from[m] \in 0..(count - 1) /\ from[m] # r
  BY <1>2, <1>3 DEF Others
<1> HIDE DEF from
<1>8. DOMAIN ListedData' = 0..(count - 2)
  BY <1>2, <1>6 DEF ListedData
<1>9. \A m \in 0..(count - 2) : habitArray'[m + 1].data = docs[from[m]]
  <2> TAKE m \in 0..(count - 2)
  <2>1. habitArray'[m + 1] = habitArray[from[m] + 1]
    BY <1>2, <1>6, <1>7
  <2>2. habitArray[from[m] + 1] = Placed(from[m], docs[from[m]])
    BY <1>3, <1>7
  <2> QED
    BY <2>1, <2>2 DEF Placed
<1>10. \A m \in 0..(count - 2) : ListedData'[m] = docs[from[m]]
  BY <1>2, <1>6, <1>9 DEF ListedData
<1>11. Matches(ListedData', saved')
  <2>1. habitArray[r + 1].data.habit = docs[r].habit
    <3>1. habitArray[r + 1] = Placed(r, docs[r])
      BY <1>3
    <3>2. Placed(r, docs[r]).data = docs[r]
      BY DEF Placed
    <3> QED
      BY <3>1, <3>2
  <2>2. \A k, m \in 0..(count - 2) : from[k] = from[m] => k = m
    BY <1>2, <1>3, <1>7
  <2>3. \A k \in 0..(count - 1) : k # r => \E m \in 0..(count - 2) : from[m] = k
    <3> SUFFICES ASSUME NEW k \in 0..(count - 1), k # r
                 PROVE  \E m \in 0..(count - 2) : from[m] = k
      OBVIOUS
    <3>1. CASE k < r
      BY <1>2, <1>3, <1>7, <3>1
    <3>2. CASE k > r
      <4>1. k - 1 \in 0..(count - 2) /\ from[k - 1] = k
        BY <1>2, <1>3, <1>7, <3>2
      <4> QED
        BY <4>1
    <3> QED
      BY <1>2, <1>3, <3>1, <3>2
  <2>4. Matches(ListedData', Delete(saved, docs[r].habit))
    <3> DEFINE e == ListedData'
    <3>1. /\ \A m \in DOMAIN e : /\ from[m] \in DOMAIN docs /\ from[m] # r
                                 /\ e[m] = docs[from[m]]
          /\ r \in DOMAIN docs
      BY <1>2, <1>3, <1>7, <1>8, <1>10
    <3>2. /\ \A k, m \in DOMAIN e : from[k] = from[m] => k = m
          /\ \A k \in DOMAIN docs : k # r => \E m \in DOMAIN e : from[m] = k
      <4>1. DOMAIN e = 0..(count - 2) /\ DOMAIN docs = 0..(count - 1)
        BY <1>2, <1>8
      <4> HIDE DEF e
      <4> QED
        BY <2>2, <2>3, <4>1
    <3> HIDE DEF e
    <3>3. Renumbered(e, from, docs, r)
      BY <3>1, <3>2 DEF Renumbered
    <3>4. Matches(e, Delete(saved, docs[r].habit))
      BY <1>2, <3>1, <3>3, MatchesDelete
    <3> QED
      BY <3>4 DEF e
  <2> QED
    BY <1>1, <2>1, <2>4
<1>12. DOMAIN docs' \subseteq 0..Len(habitArray') /\ r \notin DOMAIN docs'
  BY <1>1, <1>2, <1>6 DEF Delete
<1>13. DeleteAsked("deleted")'
  BY <1>1 DEF Idle, DeleteAsked
<1>14. Deleting'
  BY <1>1, <1>2, <1>6, <1>11, <1>12, <1>13 DEF Deleting, r
<1>15. pressed' \subseteq 0..(shown' - 1)
  BY <1>1, <1>2, <1>3
<1>16. Home.screen = "home"
  BY DEF Home
<1>17. Quiet'
  BY <1>1, <1>14, <1>15, <1>16 DEF Quiet, FormKnows
<1>18. TheList = DocList /\ TheList' = ShownList'
  BY <1>2, <1>14, <1>17, ListWhen, ListWhenNext DEF ListKnown
<1>19. ShownList' = RemoveAt(DocList, r + 1)
  <2>1. PICK S : DocList \in Seq(S) /\ Len(DocList) = count
    BY DocListIs DEF count
  <2>2. /\ RemoveAt(DocList, r + 1) \in Seq(S) /\ Len(RemoveAt(DocList, r + 1)) = count - 1
        /\ \A k \in 1..(count - 1) : RemoveAt(DocList, r + 1)[k] = DocList[Others(k, r + 1)]
    BY <1>4, <1>5, <2>1, RemoveAtType
  <2>3. DOMAIN RemoveAt(DocList, r + 1) = 1..(count - 1) /\ DOMAIN habitArray' = 1..(count - 1)
    BY <1>6, <2>2
  <2>4. \A k \in 1..(count - 1) : habitArray'[k].data = RemoveAt(DocList, r + 1)[k]
    <3> TAKE k \in 1..(count - 1)
    <3>1. k - 1 \in 0..(count - 2) /\ (k - 1) + 1 = k
      BY <1>2
    <3>2. habitArray'[k].data = docs[from[k - 1]] /\ from[k - 1] = Others(k, r + 1) - 1
      BY <1>7, <1>9, <3>1
    <3>3. Others(k, r + 1) \in 1..count
      BY <1>6
    <3>4. DocList[Others(k, r + 1)] = docs[Others(k, r + 1) - 1]
      BY <3>3, DocListIs DEF count
    <3> QED
      BY <2>2, <3>2, <3>4
  <2>5. RemoveAt(DocList, r + 1) = [k \in 1..(count - 1) |-> RemoveAt(DocList, r + 1)[k]]
    BY <2>2, <2>3
  <2> QED
    BY <2>3, <2>4, <2>5 DEF ShownList
<1>20. r + 1 \in DOMAIN DocList
  BY <1>4, <1>5, DocListIs DEF count
<1>21. Deletes
  BY <1>18, <1>19, <1>20 DEF Deletes
<1> QED
  BY <1>17, <1>21

----------------------------------------------------------------------------
\* Every step of a user who waits

LEMMA InitQuiet == Init => Quiet
<1> SUFFICES ASSUME Init PROVE Quiet
  OBVIOUS
<1>1. /\ DOMAIN docs = {} /\ DOMAIN saved = {} /\ habitCounter = 0 /\ shown = 0
      /\ habitArray = <<>> /\ reads = <<CounterCall>> /\ mainQueue = <<>> /\ app = "running"
      /\ nav = Home /\ pressed = {} /\ acks = <<>>
  BY DEF Init, FetchInit
<1>2. DOMAIN docs = 0..(habitCounter - 1) /\ Matches(docs, saved)
  BY <1>1 DEF Matches
<1>3. Fetching
  BY <1>1 DEF Fetching, CounterAsked
<1>4. Home.screen = "home"
  BY DEF Home
<1> QED
  BY <1>1, <1>2, <1>3, <1>4 DEF Quiet, Settled, FormKnows

LEMMA QuietStays ==
    ASSUME TypeInv, Quiet, UNCHANGED vars
    PROVE  Quiet' /\ TheList' = TheList
<1>1. UNCHANGED <<docs, habitCounter, habitArray, shown, reads, mainQueue, app, nav, pressed,
                  indexPathGlobal, acks, saved>>
  BY DEF vars, fetchVars, uiVars, histVars
<1>2. AllListed => AllListed'
  BY <1>1 DEF AllListed, Listing, Placed
<1>3. Rest => Rest'
  BY <1>1, <1>2 DEF Rest
<1>4. Fetching => Fetching'
  <2>1. ASSUME Loading(habitCounter) PROVE Loading(habitCounter)'
    <3>1. PICK count : habitCounter = count
      OBVIOUS
    <3>2. Loading(count)'
      BY <1>1, <2>1, <3>1, LoadingStays
    <3> QED
      BY <1>1, <3>1, <3>2
  <2>2. /\ FetchWaits => FetchWaits'
        /\ CounterAsked => CounterAsked'
        /\ CounterHere(habitCounter) => CounterHere(habitCounter)'
    BY <1>1 DEF FetchWaits, CounterAsked, CounterHere
  <2> QED
    BY <1>1, <2>1, <2>2 DEF Fetching
<1>5. \A h : (AddAsked(h) => AddAsked(h)') /\ (AddHere(h) => AddHere(h)')
  BY <1>1, <1>2 DEF AddAsked, AddHere
<1>6. Settled => Settled'
  BY <1>1, <1>3, <1>4, <1>5 DEF Settled, Matches
<1>7. Deleting => Deleting'
  BY <1>1 DEF Deleting, DeleteAsked, DeleteHere, Matches, ListedData
<1>8. FormKnows'
  BY <1>1, <1>3 DEF Quiet, FormKnows
<1>9. Quiet'
  BY <1>1, <1>6, <1>7, <1>8 DEF Quiet
<1> QED
  BY <1>1, <1>9 DEF TheList, DeletePending, Pending, Calls, DocList, ShownList

StoreStep == TheList' = TheList \/ Adds \/ Edits \/ Deletes

LEMMA PatientStep ==
    ASSUME TypeInv, QuietInv, TypeInv', [PatientNext]_vars, readErrors' = 0
    PROVE  readErrors = 0 /\ Quiet' /\ StoreStep
<1>1. ASSUME Quiet, Idle, User PROVE Quiet' /\ StoreStep
  <2>1. CASE \E r \in 0..(shown - 1) : LongPress(r) \/ TapPressed(r)
    BY <1>1, <2>1, GestureStep DEF StoreStep
  <2>2. CASE Swipe \/ (\E h \in Habits : OpenCreate(h)) \/ Back \/ OpenEdit
    BY <1>1, <2>2, GestureStep DEF StoreStep
  <2>3. CASE \E h \in Habits : TapAdd(h)
    BY <1>1, <2>3, TapAddStep DEF StoreStep
  <2>4. CASE SaveEdit
    BY <1>1, <2>4, SaveEditStep DEF StoreStep
  <2>5. CASE TapDelete
    BY <1>1, <2>5, TapDeleteStep DEF StoreStep
  <2>6. ~TapStaleButton /\ \A r \in 0..(shown - 1) : ~TouchStaleCell(r)
    BY <1>1, NothingIsStale
  <2> QED
    BY <1>1, <2>1, <2>2, <2>3, <2>4, <2>5, <2>6 DEF User
<1>2. ASSUME Quiet, System PROVE Quiet' /\ StoreStep
  <2>1. CASE FetchStep
    <3>1. UNCHANGED <<uiVars, acks, histVars>> /\ ~RunHabitTraps
      BY <1>2, <2>1, NothingTraps DEF FetchStep
    <3>2. CASE RunFetch
      BY <1>2, <3>1, <3>2, RunFetchStep DEF StoreStep
    <3>3. CASE RunCounter
      BY <1>2, <3>1, <3>3, RunCounterStep DEF StoreStep
    <3>4. ASSUME NEW i \in DOMAIN reads, AnswerHabit(i) PROVE Quiet' /\ StoreStep
      BY <1>2, <3>1, <3>4, AnswerHabitStep DEF StoreStep
    <3>5. ASSUME NEW i \in DOMAIN reads, AnswerUser(i) PROVE Quiet' /\ StoreStep
      BY <1>2, <3>1, <3>5, AnswerUserStep DEF StoreStep
    <3> QED
      BY <2>1, <3>1, <3>2, <3>3, <3>4, <3>5 DEF FetchStep
  <2>2. CASE Reload
    BY <1>2, <2>2, ReloadStep DEF StoreStep
  <2>3. CASE RunCreate
    BY <1>2, <2>3, RunCreateStep DEF StoreStep
  <2>4. CASE Ack
    BY <1>2, <2>4, AckStep DEF StoreStep
  <2>5. CASE RunDeleted
    BY <1>2, <2>5, RunDeletedStep DEF StoreStep
  <2>6. CASE RunCounterSet
    BY <1>2, <2>6, RunCounterSetStep DEF StoreStep
  <2> QED
    BY <1>2, <2>1, <2>2, <2>3, <2>4, <2>5, <2>6 DEF System
<1>3. readErrors = 0 /\ ~ReadFails
  <2>1. readErrors \in Nat
    BY DEF TypeInv, TypeOK, BoundsOK
  <2>2. ~ReadFails
    BY <2>1 DEF ReadFails, AnswerError
  <2>3. \/ UNCHANGED readErrors
        \/ readErrors' = 0 /\ UNCHANGED vars
    <3>1. User => UNCHANGED readErrors
      BY DEF User, LongPress, TapPressed, TouchStaleCell, IndexTrap, Swipe, OpenCreate, TapAdd,
             Back, OpenEdit, SaveEdit, TapDelete, TapStaleButton, fetchVars
    <3>2. System => UNCHANGED readErrors
      BY DEF System, FetchStep, RunFetch, RunCounter, RunHabitTraps, AnswerHabit, AnswerUser,
             Reload, RunHabit, RunCreate, Ack, RunDeleted, RunCounterSet
    <3>3. Relaunch => UNCHANGED readErrors
      BY DEF Relaunch, RelaunchHome
    <3> QED
      BY <2>2, <3>1, <3>2, <3>3 DEF PatientNext
  <2> QED
    BY <2>2, <2>3 DEF vars, fetchVars
<1>4. Quiet
  BY <1>3 DEF QuietInv
<1>5. ASSUME ~DeletePending, Relaunch PROVE Quiet' /\ StoreStep
  BY <1>4, <1>5, RelaunchStep DEF StoreStep
<1>6. ASSUME UNCHANGED vars PROVE Quiet' /\ StoreStep
  BY <1>4, <1>6, QuietStays DEF StoreStep
<1> QED
  BY <1>1, <1>2, <1>3, <1>4, <1>5, <1>6 DEF PatientNext

LEMMA PatientType == TypeInv /\ [PatientNext]_vars => TypeInv'
BY NextType DEF PatientNext, Next

LEMMA QuietHolds == PatientSpec => [](TypeInv /\ QuietInv)
<1>1. Init => TypeInv /\ QuietInv
  BY InitType, InitQuiet DEF QuietInv
<1>2. TypeInv /\ QuietInv /\ [PatientNext]_vars => TypeInv' /\ QuietInv'
  BY PatientType, PatientStep DEF QuietInv
<1> QED
  BY <1>1, <1>2, PTL DEF PatientSpec

(* Whatever a user who waits has added, edited and deleted, and however often
   the process ended in between: when the app has nothing left to do and no
   read has failed, the documents are those that are counted, hold every habit
   as it was saved last, and are listed in their order. *)
THEOREM RestConsistent == PatientSpec => []RestIsConsistent
<1>1. TypeInv /\ QuietInv => RestIsConsistent
  <2> SUFFICES ASSUME TypeInv, QuietInv, Idle, readErrors = 0
               PROVE  /\ app = "running"
                      /\ DOMAIN docs = 0..(habitCounter - 1)
                      /\ {docs[n] : n \in DOMAIN docs} = {saved[h] : h \in DOMAIN saved}
                      /\ habitCounter = Cardinality(DOMAIN saved)
                      /\ habitArray = [i \in 1..habitCounter |->
                                          [habitNumber |-> i - 1, data |-> docs[i - 1]]]
    BY DEF RestIsConsistent
  <2>1. app = "running" /\ Settled /\ Rest
    BY AtRest DEF QuietInv, Quiet
  <2>2. DOMAIN docs = 0..(habitCounter - 1) /\ Matches(docs, saved) /\ habitCounter \in Nat
    BY <2>1, Typed DEF Settled
  <2>3. /\ {docs[n] : n \in DOMAIN docs} = {saved[h] : h \in DOMAIN saved}
        /\ Cardinality(DOMAIN saved) = habitCounter
    BY <2>2, MatchesCount
  <2>4. habitArray = Listing(docs, habitCounter)
    BY <2>1 DEF Rest, AllListed
  <2> QED
    BY <2>1, <2>2, <2>3, <2>4 DEF Listing, Placed
<1> QED
  BY <1>1, QuietHolds, PTL

(* For such a user, as long as every read is answered, the list is one to
   which an add appends, in which an edit changes one habit where it stands,
   and from which a delete takes one out: each in one step, though the code
   takes many and a process that ends can come between, and nothing else
   changes it. *)
THEOREM ImplementsTheStore == PatientSpec /\ [](readErrors = 0) => ImplementsStore
<1>1. Init => Store!Init
  <2> SUFFICES ASSUME Init PROVE Store!Init
    OBVIOUS
  <2>1. TypeInv /\ Quiet
    BY InitType, InitQuiet
  <2>2. habitCounter = 0 /\ reads = <<CounterCall>> /\ mainQueue = <<>> /\ acks = <<>>
    BY DEF Init, FetchInit
  <2>3. Settled
    BY <2>1, <2>2 DEF Quiet, Deleting, DeleteAsked, DeleteHere, Completion, Block
  <2>4. TheList = DocList
    BY <2>1, <2>3, ListWhen DEF ListKnown
  <2>5. DocList = <<>>
    <3>1. PICK S : DocList \in Seq(S) /\ Len(DocList) = 0
      BY <2>1, <2>2, DocListIs
    <3> QED
      BY <3>1, EmptySeq
  <2> QED
    BY <2>4, <2>5 DEF Store!Init, TheList, DocList, ShownList
<1>2. TypeInv /\ QuietInv /\ TypeInv' /\ [PatientNext]_vars /\ (readErrors = 0)'
          => [Store!Add \/ Store!Edit \/ Store!DeleteOne]_TheList
  <2> SUFFICES ASSUME TypeInv, QuietInv, TypeInv', [PatientNext]_vars, readErrors' = 0
               PROVE  [Store!Add \/ Store!Edit \/ Store!DeleteOne]_TheList
    OBVIOUS
  <2>1. StoreStep
    BY PatientStep
  <2>2. Adds => Store!Add
    BY DEF Adds, Store!Add, Store!Names, TheList, DocList, ShownList, NewData
  <2>3. Edits => Store!Edit
    BY DEF Edits, Store!Edit, TheList, DocList, ShownList
  <2>4. Deletes => Store!DeleteOne
    BY DEF Deletes, Store!DeleteOne, Store!RemoveAt, RemoveAt, TheList, DocList, ShownList
  <2> QED
    BY <2>1, <2>2, <2>3, <2>4 DEF StoreStep
<1> QED
  BY <1>1, <1>2, QuietHolds, PTL DEF PatientSpec, ImplementsStore, Store!Spec, TheList, DocList, ShownList

============================================================================
