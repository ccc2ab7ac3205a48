------------------------ MODULE DailyProgressProofs ------------------------
(***************************************************************************)
(* Proofs about module DailyProgress, for any number of habits, any goals  *)
(* and any bounds: the types of its variables, and that finishedHabits     *)
(* does not go back while the taps of a day count.                         *)
(***************************************************************************)
EXTENDS DailyProgress, HabitFetchProofs

----------------------------------------------------------------------------
\* Sequences and blocks

(* A block holds the answer its call asked for. *)
LEMMA BlockSnapshots ==
    ASSUME NEW b \in BlockType
    PROVE  /\ b.call.kind \in {"counter", "habit", "finished", "fetch", "reload"}
           /\ b.call.kind = "counter" => b.snap \in Seq([habitCounter : Nat])
           /\ b.call.kind = "habit" => b.call.n \in Nat /\ b.snap \in Seq(DayData \cup {NoDoc})
           /\ b.call.kind = "finished" =>
                 b.call.row \in Nat /\ b.snap \in Seq([finishedHabits : Nat])
BY DEF BlockType, HabitType, FinishType, CounterCall, FetchBlock, ReloadBlock, Block

LEMMA FixedBlocks ==
    /\ FetchBlock \in BlockType /\ FetchBlock.call.kind = "fetch"
    /\ ReloadBlock \in BlockType /\ ReloadBlock.call.kind = "reload"
BY DEF FetchBlock, ReloadBlock, Block, BlockType

LEMMA CallKinds ==
    ASSUME NEW c \in CallType
    PROVE  /\ c.kind = "counter" => c = CounterCall
           /\ c.kind = "habit" => c \in HabitType /\ c.n \in Nat
           /\ c.kind = "finished" => c \in FinishType
           /\ c.kind \in {"counter", "habit", "finished"}
BY DEF CallType, HabitType, FinishType, CounterCall

----------------------------------------------------------------------------
\* Type correctness

StoreVars == <<docs, habitCounter, userVars>>
ListVars  == <<habitArray, localHabitCounter, shown>>
QueueVars == <<reads, mainQueue>>
DayTVars  == <<dayVars, todays>>
UiVars    == <<app, navVars>>
BoundVars == <<readErrors, edits, relaunches, calm, aligned>>

LEMMA UnchangedTypes ==
    /\ StoreTypeOK /\ UNCHANGED StoreVars => StoreTypeOK'
    /\ ListTypeOK /\ UNCHANGED ListVars => ListTypeOK'
    /\ QueueTypeOK /\ UNCHANGED QueueVars => QueueTypeOK'
    /\ DayTypeOK /\ UNCHANGED DayTVars => DayTypeOK'
    /\ ScreenTypeOK /\ UNCHANGED UiVars => ScreenTypeOK'
    /\ BoundsOK /\ UNCHANGED BoundVars => BoundsOK'
BY DEF StoreTypeOK, StoreVars, userVars, ListTypeOK, ListVars, QueueTypeOK, QueueVars,
       DayTypeOK, DayTVars, dayVars, ScreenTypeOK, UiVars, navVars, BoundsOK, BoundVars

LEMMA EntryData ==
    ASSUME TypeOK, NEW r \in Nat, InList(r)
    PROVE  /\ Entry(r) \in DayData /\ r + 1 \in 1..Len(habitArray)
           /\ habitArray[r + 1] \in EntryType
<1>1. Len(habitArray) \in Nat /\ r + 1 \in 1..Len(habitArray)
  BY DEF InList, TypeOK, ListTypeOK
<1>2. habitArray[r + 1] \in EntryType
  BY <1>1 DEF TypeOK, ListTypeOK
<1> QED
  BY <1>1, <1>2 DEF Entry, EntryType

LEMMA MidnightType ==
    ASSUME TypeOK, Midnight
    PROVE  TypeOK'
<1>1. DayTypeOK'
  BY DEF Midnight, DayTypeOK, TypeOK
<1>2. BoundsOK'
  BY DEF Midnight, BoundsOK, TypeOK, fetchVars
<1> QED
  BY <1>1, <1>2, UnchangedTypes
     DEF Midnight, TypeOK, fetchVars, StoreVars, ListVars, QueueVars, UiVars

(* Resetting the list keeps it a list of habits, and what is written from it
   to the documents are habits. *)
LEMMA ResetTypes ==
    ASSUME TypeOK
    PROVE  /\ ResetList \in Seq(EntryType)
           /\ WriteList(ResetList) \in [Rows -> DayData]
           /\ Awards(ResetList) \subseteq
                 [habit : Rows, days : {AwardedDays(m) : m \in Milestones}]
<1>1. \A d \in DayData : Reset(d) \in DayData
  <2> SUFFICES ASSUME NEW d \in DayData PROVE Reset(d) \in DayData
    OBVIOUS
  <2> DEFINE s == IF d.addFirebase THEN 0 ELSE d.streak + 1
  <2>1. s \in Nat
    <3>1. \A x \in Nat : x + 1 \in Nat
      OBVIOUS
    <3>2. d.streak \in Nat
      BY DEF DayData
    <3> QED
      BY <3>1, <3>2, Zenon
  <2> HIDE DEF s
  <2>2. [d EXCEPT !.currentCount = 0, !.streak = s, !.addFirebase = TRUE] \in DayData
    BY <2>1 DEF DayData
  <2> QED
    BY <2>2 DEF Reset, s
<1>2. Len(habitArray) \in Nat /\ DOMAIN habitArray = 1..Len(habitArray)
  BY DEF TypeOK, ListTypeOK
<1>3. ASSUME NEW i \in DOMAIN habitArray
      PROVE  /\ ResetList[i] \in EntryType
             /\ ResetList[i].data \in DayData
  <2>1. habitArray[i] \in EntryType
    BY <1>2 DEF TypeOK, ListTypeOK
  <2>2. [habitArray[i] EXCEPT !.data = Reset(@)] \in EntryType
    BY <1>1, <2>1 DEF EntryType
  <2> QED
    BY <2>2 DEF ResetList, EntryType
<1>4. DOMAIN ResetList = 1..Len(habitArray)
  BY <1>2 DEF ResetList
<1>5. ResetList \in Seq(EntryType)
  <2>1. ResetList \in [1..Len(habitArray) -> EntryType]
    BY <1>2, <1>3 DEF ResetList
  <2> QED
    BY <1>2, <2>1, SeqDef
<1>6. WriteList(ResetList) \in [Rows -> DayData]
  <2>1. DOMAIN docs = Rows /\ \A n \in Rows : docs[n] \in DayData /\ n \in Nat
    BY DEF TypeOK, StoreTypeOK, Rows
  <2>2. ASSUME NEW n \in Rows, n < Len(ResetList)
        PROVE  Overwrite(n, ResetList[n + 1].data) \in DayData
    <3>1. Len(ResetList) = Len(habitArray)
      BY <1>2, <1>4, <1>5
    <3>2. n + 1 \in DOMAIN habitArray
      BY <1>2, <2>1, <2>2, <3>1
    <3>3. ResetList[n + 1].data \in DayData
      BY <1>3, <3>2
    <3> QED
      BY <2>1, <3>3 DEF Overwrite, DayData
  <2> QED
    BY <2>1, <2>2 DEF WriteList
<1>7. ASSUME NEW i \in Earning(ResetList)
      PROVE  Award(ResetList[i].data) \in
                 [habit : Rows, days : {AwardedDays(m) : m \in Milestones}]
  <2> DEFINE d == ResetList[i].data
  <2>1. i \in DOMAIN habitArray /\ d.streak \in Milestones
    BY <1>2, <1>4 DEF Earning
  <2>2. d.habit \in Rows
    BY <1>3, <2>1 DEF DayData
  <2> QED
    BY <2>1, <2>2 DEF Award
<1>8. Awards(ResetList) \subseteq
          [habit : Rows, days : {AwardedDays(m) : m \in Milestones}]
  BY <1>7 DEF Awards
<1> QED
  BY <1>5, <1>6, <1>8

LEMMA ViewWillAppearType ==
    ASSUME TypeOK, ViewWillAppear, calm' \in BOOLEAN
    PROVE  TypeOK'
<1>1. ListTypeOK' /\ QueueTypeOK' /\ StoreTypeOK'
  <2>1. CASE NewDay /\ habitArray # <<>>
    <3>1. /\ habitArray' = ResetList
          /\ docs' = WriteList(ResetList)
          /\ achievements' \in {achievements, Awards(ResetList)}
          /\ mainQueue' = Append(mainQueue, ReloadBlock)
          /\ finishedHabits' = 0
          /\ UNCHANGED <<habitCounter, localHabitCounter, shown, reads>>
      BY <2>1 DEF ViewWillAppear, ResetHabits
    <3>2. ListTypeOK'
      BY <3>1, ResetTypes DEF TypeOK, ListTypeOK
    <3>3. QueueTypeOK'
      BY <3>1, FixedBlocks DEF TypeOK, QueueTypeOK
    <3>4. StoreTypeOK'
      BY <3>1, ResetTypes DEF TypeOK, StoreTypeOK
    <3> QED
      BY <3>2, <3>3, <3>4
  <2>2. CASE ~(NewDay /\ habitArray # <<>>)
    BY <2>2 DEF ViewWillAppear, TypeOK, ListTypeOK, QueueTypeOK, StoreTypeOK
  <2> QED
    BY <2>1, <2>2
<1>2. DayTypeOK'
  BY UnchangedTypes DEF ViewWillAppear, TypeOK, DayTVars
<1>3. ScreenTypeOK'
  BY DEF ViewWillAppear, TypeOK, ScreenTypeOK
<1>4. BoundsOK'
  BY DEF ViewWillAppear, TypeOK, BoundsOK
<1> QED
  BY <1>1, <1>2, <1>3, <1>4 DEF TypeOK

LEMMA PatchType ==
    ASSUME TypeOK, NEW r \in Nat, NEW field, NEW value,
           \A d \in DayData : [d EXCEPT ![field] = value] \in DayData
    PROVE  Patch(r, field, value) \in [Rows -> DayData]
BY DEF Patch, TypeOK, StoreTypeOK

LEMMA FinishedType ==
    ASSUME TypeOK, NEW r \in Nat
    PROVE  Patch(r, "addFirebase", FALSE) \in [Rows -> DayData]
<1>1. \A d \in DayData : [d EXCEPT !["addFirebase"] = FALSE] \in DayData
  BY DEF DayData
<1> QED
  BY <1>1, PatchType

(* The taps that count nothing, and the ways to other screens. *)
LEMMA GestureType ==
    ASSUME TypeOK,
           \/ \E r \in 0..(shown - 1) :
                 TapNothing(r) \/ TapStaleCell(r) \/ TapTimed(r) \/ OpenEdit(r)
           \/ LeaveHome
    PROVE  TypeOK'
<1>a. shown \in Nat /\ \A r \in 0..(shown - 1) : r \in Nat
  BY DEF TypeOK, ListTypeOK
<1>1. UNCHANGED StoreVars /\ UNCHANGED ListVars /\ UNCHANGED QueueVars
  BY DEF TapNothing, TapStaleCell, TapTimed, OpenEdit, LeaveHome, fetchVars, StoreVars,
     ListVars, QueueVars
<1>2. DayTypeOK'
  <2>1. /\ today' = today /\ todays' = todays
        /\ palmiIsCool' \in {palmiIsCool, today}
    BY DEF TapNothing, TapStaleCell, TapTimed, OpenEdit, LeaveHome, dayVars
  <2>2. ticking' \subseteq Nat
    BY <1>a DEF TapNothing, TapStaleCell, TapTimed, OpenEdit, LeaveHome, dayVars, TypeOK,
       DayTypeOK
  <2> QED
    BY <2>1, <2>2 DEF TypeOK, DayTypeOK
<1>3. ScreenTypeOK'
  <2>1. ASSUME NEW r \in 0..(shown - 1), OpenEdit(r) PROVE ScreenTypeOK'
    <3>1. Entry(r) \in DayData /\ r \in Nat
      BY <1>a, <2>1, EntryData DEF OpenEdit
    <3>2. form' \in [row : Nat, data : DayData] /\ r # -1 /\ form'.row = r
      BY <2>1, <3>1 DEF OpenEdit
    <3>3. form' # NoForm
      BY <3>2 DEF NoForm
    <3> QED
      BY <2>1, <3>2, <3>3 DEF OpenEdit, fetchVars, TypeOK, ScreenTypeOK
  <2>2. CASE LeaveHome
    BY <2>2 DEF LeaveHome, fetchVars, TypeOK, ScreenTypeOK
  <2>3. ASSUME NEW r \in 0..(shown - 1), TapNothing(r) \/ TapStaleCell(r) \/ TapTimed(r)
        PROVE  ScreenTypeOK'
    BY <2>3 DEF TapNothing, TapStaleCell, TapTimed, fetchVars, navVars, TypeOK, ScreenTypeOK
  <2> QED
    BY <2>1, <2>2, <2>3
<1>4. BoundsOK'
  <2>1. edits' \in {edits, edits + 1} /\ edits' \in 0..MaxEdits
    <3>1. MaxEdits \in Nat /\ edits \in 0..MaxEdits
      BY BoundsAssumption DEF TypeOK, BoundsOK
    <3>2. edits' = edits \/ (edits < MaxEdits /\ edits' = edits + 1)
      BY DEF TapNothing, TapStaleCell, TapTimed, OpenEdit, LeaveHome
    <3> QED
      BY <3>1, <3>2
  <2> QED
    BY <2>1 DEF TapNothing, TapStaleCell, TapTimed, OpenEdit, LeaveHome, Acts, Idle,
       fetchVars, TypeOK, BoundsOK
<1> QED
  BY <1>1, <1>2, <1>3, <1>4, UnchangedTypes DEF TypeOK

LEMMA TapCountedType ==
    ASSUME TypeOK, NEW r \in 0..(shown - 1), TapCounted(r)
    PROVE  TypeOK'
<1> DEFINE d == Entry(r)
           n == CountOne(d)
<1>1. r \in Nat
  BY DEF TypeOK, ListTypeOK
<1>2. /\ d \in DayData /\ r + 1 \in 1..Len(habitArray)
      /\ habitArray[r + 1] \in EntryType
  BY <1>1, EntryData DEF TapCounted
<1>3. d.currentCount \in Nat /\ d.habit \in Rows
  BY <1>2 DEF DayData
<1>4. n \in Nat /\ n - d.currentCount \in {0, 1}
  <2>1. \A x \in Nat : x + 1 \in Nat /\ (x + 1) - x = 1 /\ x - x = 0
    OBVIOUS
  <2> QED
    BY <1>3, <2>1, Zenon DEF CountOne
<1>5. /\ habitArray' = [habitArray EXCEPT
                            ![r + 1].data.currentCount = n,
                            ![r + 1].data.addFirebase = ~(n = Goal[d.habit])]
      /\ docs' \in {docs, Patch(r, "currentCount", n)}
      /\ reads' \in {reads, Append(reads, FinishCall(r))}
      /\ todays' = [todays EXCEPT ![d.habit] = @ + (n - d.currentCount)]
      /\ palmiIsCool' = today
      /\ UNCHANGED <<habitCounter, localHabitCounter, shown, mainQueue, app, readErrors,
                     today, ticking, userVars, navVars, edits, relaunches, aligned>>
      /\ calm' \in BOOLEAN
  BY DEF TapCounted, Acts
<1> HIDE DEF n, d
<1>6. ListTypeOK'
  <2>2. \A b \in BOOLEAN :
           [[habitArray[r + 1] EXCEPT !.data.currentCount = n]
                EXCEPT !.data.addFirebase = b] \in EntryType
    BY <1>2, <1>4 DEF EntryType, DayData
  <2>3. habitArray' = [habitArray EXCEPT ![r + 1] =
                          [[habitArray[r + 1] EXCEPT !.data.currentCount = n]
                              EXCEPT !.data.addFirebase = ~(n = Goal[d.habit])]]
    BY <1>2, <1>5 DEF TypeOK, ListTypeOK, EntryType
  <2>4. \A e \in EntryType : [habitArray EXCEPT ![r + 1] = e] \in Seq(EntryType)
    BY <1>2 DEF TypeOK, ListTypeOK
  <2> HIDE DEF EntryType
  <2>5. habitArray' \in Seq(EntryType)
    BY <2>2, <2>3, <2>4
  <2> QED
    BY <1>5, <2>5 DEF TypeOK, ListTypeOK
<1>7. StoreTypeOK'
  <2>1. \A e \in DayData : [e EXCEPT !["currentCount"] = n] \in DayData
    BY <1>4 DEF DayData
  <2>2. Patch(r, "currentCount", n) \in [Rows -> DayData]
    BY <1>1, <2>1, PatchType
  <2>3. docs' \in [Rows -> DayData]
    BY <1>5, <2>2 DEF TypeOK, StoreTypeOK
  <2> QED
    BY <1>5, <2>3 DEF TypeOK, StoreTypeOK, userVars
<1>8. QueueTypeOK'
  <2>1. FinishCall(r) \in CallType
    BY <1>1 DEF FinishCall, CallType, FinishType
  <2>2. Append(reads, FinishCall(r)) \in Seq(CallType) /\ reads \in Seq(CallType)
    BY <2>1 DEF TypeOK, QueueTypeOK
  <2>3. reads' \in Seq(CallType)
    BY <1>5, <2>2, Zenon
  <2> QED
    BY <1>5, <2>3 DEF TypeOK, QueueTypeOK
<1>9. DayTypeOK'
  <2>1. todays[d.habit] \in Nat
    BY <1>3 DEF TypeOK, DayTypeOK
  <2>2. todays[d.habit] + (n - d.currentCount) \in Nat
    <3>1. \A x \in Nat, y \in {0, 1} : x + y \in Nat
      OBVIOUS
    <3> QED
      BY <1>4, <2>1, <3>1, Zenon
  <2> QED
    BY <1>3, <1>5, <2>2 DEF TypeOK, DayTypeOK
<1>10. ScreenTypeOK' /\ BoundsOK'
  BY <1>5, UnchangedTypes DEF TypeOK, UiVars, BoundsOK
<1> QED
  BY <1>6, <1>7, <1>8, <1>9, <1>10 DEF TypeOK

LEMMA TimerEndsType ==
    ASSUME TypeOK, NEW r \in ticking, TimerEnds(r)
    PROVE  TypeOK'
<1>1. r \in Nat
  BY DEF TypeOK, DayTypeOK
<1>2. ListTypeOK' /\ StoreTypeOK'
  <2>1. CASE InList(r)
    <3>1. r + 1 \in 1..Len(habitArray) /\ habitArray[r + 1] \in EntryType
      BY <1>1, <2>1, EntryData DEF TypeOK, ListTypeOK
    <3>2. [habitArray[r + 1] EXCEPT !.data.addFirebase = FALSE] \in EntryType
      BY <3>1 DEF EntryType, DayData
    <3>3. habitArray' \in Seq(EntryType)
      BY <2>1, <3>1, <3>2 DEF TimerEnds, TypeOK, ListTypeOK
    <3> QED
      BY <1>1, <2>1, <3>3, FinishedType
         DEF TimerEnds, TypeOK, ListTypeOK, StoreTypeOK, userVars
  <2>2. CASE ~InList(r)
    BY <2>2 DEF TimerEnds, TypeOK, ListTypeOK, StoreTypeOK, userVars
  <2> QED
    BY <2>1, <2>2
<1>3. QueueTypeOK' /\ DayTypeOK'
  BY DEF TimerEnds, TypeOK, QueueTypeOK, DayTypeOK
<1>4. ScreenTypeOK' /\ BoundsOK'
  BY DEF TimerEnds, Idle, navVars, TypeOK, ScreenTypeOK, BoundsOK
<1> QED
  BY <1>2, <1>3, <1>4 DEF TypeOK

LEMMA SaveEditType ==
    ASSUME TypeOK, SaveEdit
    PROVE  TypeOK'
<1> DEFINE new == [form.data EXCEPT !.currentCount = 0, !.addFirebase = TRUE]
<1>1. form \in [row : Nat, data : DayData]
  BY DEF SaveEdit, TypeOK, ScreenTypeOK
<1>2. form.data \in DayData /\ form.row \in Nat
  BY <1>1
<1>3. new \in DayData /\ form.data.habit \in Rows /\ form.data.addFirebase \in BOOLEAN
  BY <1>2 DEF DayData
<1>4. /\ docs' = UpdateData(docs, form.row, new)
      /\ mainQueue' = Append(mainQueue, FetchBlock)
      /\ nav' = "returning" /\ form' = NoForm
      /\ calm' \in BOOLEAN
      /\ aligned' = (aligned /\ form.data.addFirebase)
      /\ todays' = [todays EXCEPT ![form.data.habit] = 0]
      /\ UNCHANGED <<habitCounter, habitArray, localHabitCounter, shown, reads, app,
                     readErrors, dayVars, userVars, edits, relaunches>>
  BY DEF SaveEdit
<1> HIDE DEF new
<1>5. StoreTypeOK'
  <2>1. UpdateData(docs, form.row, new) \in [Rows -> DayData]
    BY <1>3 DEF UpdateData, SetData, TypeOK, StoreTypeOK
  <2> QED
    BY <1>4, <2>1 DEF TypeOK, StoreTypeOK, userVars
<1>6. ListTypeOK' /\ QueueTypeOK'
  BY <1>4, FixedBlocks DEF TypeOK, ListTypeOK, QueueTypeOK
<1>7. DayTypeOK'
  BY <1>3, <1>4 DEF TypeOK, DayTypeOK, dayVars
<1>8. ScreenTypeOK'
  BY <1>4 DEF TypeOK, ScreenTypeOK
<1>9. BoundsOK'
  BY <1>3, <1>4 DEF TypeOK, BoundsOK
<1> QED
  BY <1>5, <1>6, <1>7, <1>8, <1>9 DEF TypeOK

LEMMA RunCounterType ==
    ASSUME TypeOK, RunCounter, UNCHANGED <<dayVars, userVars, navVars, histVars>>
    PROVE  TypeOK'
<1> DEFINE snap  == Head(mainQueue).snap
           calls == [n \in 1..(localHabitCounter' + 1) |-> HabitCall(n - 1)]
<1>a. Head(mainQueue) \in BlockType /\ Tail(mainQueue) \in Seq(BlockType)
  BY NonEmptySeq DEF RunCounter, Runs, TypeOK, QueueTypeOK
<1>1. snap \in Seq([habitCounter : Nat])
  BY <1>a, BlockSnapshots DEF RunCounter, Runs
<1>2. /\ localHabitCounter' = IF snap = <<>> THEN localHabitCounter
                              ELSE snap[1].habitCounter - 1
      /\ reads' = reads \o calls
      /\ mainQueue' = Tail(mainQueue)
      /\ UNCHANGED <<docs, habitCounter, habitArray, shown, app, readErrors>>
  BY DEF RunCounter
<1> HIDE DEF snap
<1>3. localHabitCounter' \in Nat \cup {-1}
  <2>1. CASE snap = <<>>
    BY <1>2, <2>1 DEF TypeOK, ListTypeOK
  <2>2. CASE snap # <<>>
    <3>1. snap[1] \in [habitCounter : Nat]
      BY <1>1, <2>2, NonEmptySeq
    <3> QED
      BY <1>2, <2>2, <3>1
  <2> QED
    BY <2>1, <2>2
<1>4. calls \in Seq(CallType)
  <2>1. localHabitCounter' + 1 \in Nat
    <3>1. \A x \in Nat \cup {-1} : x + 1 \in Nat
      OBVIOUS
    <3> QED
      BY <1>3, <3>1, Zenon
  <2>2. \A n \in 1..(localHabitCounter' + 1) : HabitCall(n - 1) \in CallType
    BY <2>1 DEF HabitCall, HabitType, CallType
  <2>3. calls \in [1..(localHabitCounter' + 1) -> CallType]
    BY <2>2
  <2> QED
    BY <2>1, <2>3, SeqDef
<1> HIDE DEF calls
<1>5. QueueTypeOK'
  BY <1>a, <1>2, <1>4 DEF TypeOK, QueueTypeOK
<1>6. ListTypeOK'
  BY <1>2, <1>3 DEF TypeOK, ListTypeOK
<1>7. StoreTypeOK' /\ DayTypeOK' /\ ScreenTypeOK' /\ BoundsOK'
  BY <1>2, UnchangedTypes
     DEF TypeOK, StoreVars, DayTVars, UiVars, BoundVars, histVars
<1> QED
  BY <1>5, <1>6, <1>7 DEF TypeOK

LEMMA RunHabitType ==
    ASSUME TypeOK, RunHabit, UNCHANGED <<dayVars, userVars, navVars, histVars>>
    PROVE  TypeOK'
<1> DEFINE n    == Head(mainQueue).call.n
           snap == Head(mainQueue).snap
<1>a. Head(mainQueue) \in BlockType /\ Tail(mainQueue) \in Seq(BlockType)
  BY NonEmptySeq DEF RunHabit, Runs, TypeOK, QueueTypeOK
<1>1. n \in Nat /\ snap \in Seq(DayData \cup {NoDoc}) /\ ~Missing(snap)
  BY <1>a, BlockSnapshots DEF RunHabit, Runs
<1>2. /\ habitArray' = IF snap = <<>> THEN habitArray
                       ELSE Insert(habitArray, [habitNumber |-> n, data |-> snap[1]])
      /\ shown' = Len(habitArray')
      /\ mainQueue' = Tail(mainQueue)
      /\ UNCHANGED <<docs, habitCounter, localHabitCounter, reads, app, readErrors>>
  BY DEF RunHabit, ReloadData
<1> HIDE DEF n, snap
<1>3. habitArray' \in Seq(EntryType)
  <2>1. CASE snap = <<>>
    BY <1>2, <2>1 DEF TypeOK, ListTypeOK
  <2>2. CASE snap # <<>> /\ snap[1] \in DayData
    <3>1. [habitNumber |-> n, data |-> snap[1]] \in EntryType
      BY <1>1, <2>2 DEF EntryType
    <3> QED
      BY <1>2, <2>2, <3>1, InsertType DEF TypeOK, ListTypeOK
  <2> QED
    BY <1>1, <2>1, <2>2, NonEmptySeq DEF Missing
<1>4. ListTypeOK' /\ QueueTypeOK'
  BY <1>a, <1>2, <1>3 DEF TypeOK, ListTypeOK, QueueTypeOK
<1>5. StoreTypeOK' /\ DayTypeOK' /\ ScreenTypeOK' /\ BoundsOK'
  BY <1>2, UnchangedTypes
     DEF TypeOK, StoreVars, DayTVars, UiVars, BoundVars, histVars
<1> QED
  BY <1>4, <1>5 DEF TypeOK

LEMMA RunFinishedType ==
    ASSUME TypeOK, RunFinished
    PROVE  TypeOK'
<1> DEFINE b == Head(mainQueue)
<1>a. b \in BlockType /\ Tail(mainQueue) \in Seq(BlockType)
  BY NonEmptySeq DEF RunFinished, Runs, TypeOK, QueueTypeOK
<1>1. b.call.row \in Nat /\ b.snap \in Seq([finishedHabits : Nat])
  BY <1>a, BlockSnapshots DEF RunFinished, Runs
<1>2. /\ finishedHabits' = IF b.snap = <<>> THEN finishedHabits
                           ELSE b.snap[1].finishedHabits + 1
      /\ docs' = Patch(b.call.row, "addFirebase", FALSE)
      /\ mainQueue' = Tail(mainQueue)
      /\ UNCHANGED <<habitCounter, habitArray, localHabitCounter, shown, reads, app,
                     readErrors, dayVars, achievements, navVars, histVars>>
  BY DEF RunFinished, Record
<1> HIDE DEF b
<1>3. finishedHabits' \in Nat
  <2>1. CASE b.snap # <<>>
    <3>1. b.snap[1] \in [finishedHabits : Nat]
      BY <1>1, <2>1, NonEmptySeq
    <3> QED
      BY <1>2, <2>1, <3>1
  <2> QED
    BY <1>2, <2>1 DEF TypeOK, StoreTypeOK
<1>4. StoreTypeOK'
  BY <1>1, <1>2, <1>3, FinishedType DEF TypeOK, StoreTypeOK
<1>5. ListTypeOK' /\ QueueTypeOK'
  BY <1>a, <1>2 DEF TypeOK, ListTypeOK, QueueTypeOK
<1>6. DayTypeOK' /\ ScreenTypeOK' /\ BoundsOK'
  BY <1>2, UnchangedTypes DEF TypeOK, DayTVars, UiVars, BoundVars, histVars
<1> QED
  BY <1>4, <1>5, <1>6 DEF TypeOK

LEMMA RunBlockType ==
    ASSUME TypeOK, RunBlock
    PROVE  TypeOK'
<1>1. CASE RunFetch /\ UNCHANGED <<dayVars, userVars, navVars, histVars>>
  <2>1. QueueTypeOK'
    <3>1. CounterCall \in CallType
      BY DEF CallType
    <3> QED
      BY <1>1, <3>1, NonEmptySeq DEF RunFetch, Runs, StartFetch, TypeOK, QueueTypeOK
  <2>2. ListTypeOK'
    BY <1>1 DEF RunFetch, StartFetch, TypeOK, ListTypeOK
  <2>3. StoreTypeOK' /\ DayTypeOK' /\ ScreenTypeOK' /\ BoundsOK'
    BY <1>1, UnchangedTypes
       DEF RunFetch, TypeOK, StoreVars, DayTVars, UiVars, BoundVars, histVars
  <2> QED
    BY <2>1, <2>2, <2>3 DEF TypeOK
<1>2. CASE RunReload
  <2>1. QueueTypeOK'
    BY <1>2, NonEmptySeq DEF RunReload, Runs, TypeOK, QueueTypeOK
  <2>2. ListTypeOK'
    BY <1>2 DEF RunReload, ReloadData, TypeOK, ListTypeOK
  <2>3. StoreTypeOK' /\ DayTypeOK' /\ ScreenTypeOK' /\ BoundsOK'
    BY <1>2, UnchangedTypes
       DEF RunReload, TypeOK, StoreVars, DayTVars, UiVars, BoundVars, histVars
  <2> QED
    BY <2>1, <2>2, <2>3 DEF TypeOK
<1> QED
  BY <1>1, <1>2, RunCounterType, RunHabitType, RunFinishedType DEF RunBlock

(* Firestore's answers, errors included. *)
LEMMA AnswerType ==
    ASSUME TypeOK, AnswerRead \/ ReadFails
    PROVE  TypeOK'
<1> DEFINE Answered(i, snap) ==
      /\ Answer(i, snap)
      /\ Block(reads[i], snap) \in BlockType
      /\ readErrors' \in 0..MaxReadErrors
      /\ UNCHANGED <<dayVars, userVars, navVars, histVars>>
<1>1. PICK i \in DOMAIN reads : \E snap : Answered(i, snap)
  <2>1. PICK i \in DOMAIN reads :
           /\ \/ AnswerHabit(i)
              \/ reads[i].kind = "counter" /\ AnswerUser(i)
              \/ AnswerFinished(i)
              \/ AnswerError(i)
           /\ UNCHANGED <<dayVars, userVars, navVars, histVars>>
    BY DEF AnswerRead, ReadFails
  <2>2. reads[i] \in CallType /\ readErrors \in 0..MaxReadErrors
    BY DEF TypeOK, QueueTypeOK, BoundsOK
  <2>3. CASE AnswerHabit(i)
    <3>1. reads[i] \in HabitType
      BY <2>2, <2>3, CallKinds DEF AnswerHabit
    <3>2. Snapshot(docs, reads[i].n) \in Seq(DayData \cup {NoDoc})
      BY DEF Snapshot, TypeOK, StoreTypeOK
    <3>3. Block(reads[i], Snapshot(docs, reads[i].n)) \in BlockType
      BY <3>1, <3>2 DEF Block, BlockType
    <3> QED
      BY <2>1, <2>2, <2>3, <3>3 DEF AnswerHabit
  <2>4. CASE reads[i].kind = "counter" /\ AnswerUser(i)
    <3>1. reads[i] = CounterCall
      BY <2>2, <2>4, CallKinds
    <3>2. <<[habitCounter |-> habitCounter]>> \in Seq([habitCounter : Nat])
      BY DEF TypeOK, StoreTypeOK
    <3>3. Block(reads[i], <<[habitCounter |-> habitCounter]>>) \in BlockType
      BY <3>1, <3>2 DEF Block, BlockType
    <3> QED
      BY <2>1, <2>2, <2>4, <3>3 DEF AnswerUser
  <2>5. CASE AnswerFinished(i)
    <3>1. reads[i] \in FinishType
      BY <2>2, <2>5, CallKinds DEF AnswerFinished
    <3>2. <<[finishedHabits |-> finishedHabits]>> \in Seq([finishedHabits : Nat])
      BY DEF TypeOK, StoreTypeOK
    <3>3. Block(reads[i], <<[finishedHabits |-> finishedHabits]>>) \in BlockType
      BY <3>1, <3>2 DEF Block, BlockType
    <3> QED
      BY <2>1, <2>2, <2>5, <3>3 DEF AnswerFinished
  <2>6. CASE AnswerError(i)
    <3>1. /\ <<>> \in Seq([habitCounter : Nat]) /\ <<>> \in Seq(DayData \cup {NoDoc})
          /\ <<>> \in Seq([finishedHabits : Nat])
      OBVIOUS
    <3>2. Block(reads[i], <<>>) \in BlockType
      BY <2>2, <3>1 DEF Block, BlockType, CallType
    <3>3. readErrors' \in 0..MaxReadErrors
      BY <2>2, <2>6, MaxReadErrorsAssumption DEF AnswerError
    <3> QED
      BY <2>1, <2>6, <3>2, <3>3 DEF AnswerError
  <2> QED
    BY <2>1, <2>3, <2>4, <2>5, <2>6
<1>2. PICK snap : Answered(i, snap)
  BY <1>1
<1>3. QueueTypeOK'
  <2>1. RemoveAt(reads, i) \in Seq(CallType)
    BY RemoveAtType DEF TypeOK, QueueTypeOK
  <2> QED
    BY <1>2, <2>1 DEF Answer, TypeOK, QueueTypeOK
<1>4. ListTypeOK' /\ StoreTypeOK' /\ DayTypeOK' /\ ScreenTypeOK'
  BY <1>2, UnchangedTypes
     DEF Answer, TypeOK, ListVars, StoreVars, DayTVars, UiVars, histVars
<1>5. BoundsOK'
  BY <1>2 DEF TypeOK, BoundsOK, histVars
<1> QED
  BY <1>3, <1>4, <1>5 DEF TypeOK

LEMMA RelaunchType ==
    ASSUME TypeOK, Relaunch
    PROVE  TypeOK'
<1>1. ListTypeOK'
  BY DEF Relaunch, RelaunchHome, ListTypeOK
<1>2. QueueTypeOK'
  BY DEF Relaunch, RelaunchHome, QueueTypeOK, CallType
<1>3. StoreTypeOK' /\ DayTypeOK' /\ ScreenTypeOK'
  BY DEF Relaunch, RelaunchHome, TypeOK, StoreTypeOK, DayTypeOK, ScreenTypeOK
<1>4. BoundsOK'
  BY BoundsAssumption DEF Relaunch, RelaunchHome, TypeOK, BoundsOK
<1> QED
  BY <1>1, <1>2, <1>3, <1>4 DEF TypeOK

LEMMA InitType == Init => TypeOK
<1> SUFFICES ASSUME Init PROVE TypeOK
  OBVIOUS
<1>1. StoreTypeOK
  <2>1. HabitCount \in Nat /\ \A h \in Rows : NewHabit(h) \in DayData
    BY HabitsAssumption DEF NewHabit, DayData
  <2> QED
    BY <2>1 DEF Init, StoreTypeOK
<1>2. ListTypeOK /\ QueueTypeOK
  BY DEF Init, ListTypeOK, QueueTypeOK, CallType
<1>3. DayTypeOK /\ ScreenTypeOK
  BY DEF Init, DayTypeOK, ScreenTypeOK
<1>4. BoundsOK
  BY BoundsAssumption, MaxReadErrorsAssumption DEF Init, BoundsOK
<1> QED
  BY <1>1, <1>2, <1>3, <1>4 DEF TypeOK

LEMMA NextType == TypeOK /\ [Next]_vars => TypeOK'
<1> SUFFICES ASSUME TypeOK, [Next]_vars PROVE TypeOK'
  OBVIOUS
<1>1. ASSUME ViewWillAppear, ComeBack \/ Transition PROVE TypeOK'
  <2>1. calm' \in BOOLEAN
    BY <1>1 DEF ComeBack, Transition, Acts, TypeOK, BoundsOK
  <2> QED
    BY <1>1, <2>1, ViewWillAppearType
<1>2. CASE User
  <2>1. ASSUME NEW r \in 0..(shown - 1),
               TapNothing(r) \/ TapCounted(r) \/ TapTimed(r) \/ TapStaleCell(r)
                   \/ OpenEdit(r)
        PROVE  TypeOK'
    BY <2>1, GestureType, TapCountedType
  <2> QED
    BY <1>1, <1>2, <2>1, GestureType, SaveEditType DEF User, ComeBack
<1>3. CASE System
  BY <1>1, <1>3, RunBlockType, AnswerType, TimerEndsType DEF System, Transition
<1>4. CASE ReadFails \/ Midnight \/ Relaunch
  BY <1>4, AnswerType, MidnightType, RelaunchType
<1>5. CASE UNCHANGED vars
  BY <1>5, UnchangedTypes DEF vars, fetchVars, histVars, TypeOK, StoreVars, ListVars,
     QueueVars, DayTVars, UiVars, BoundVars
<1> QED
  BY <1>2, <1>3, <1>4, <1>5 DEF Next

(* Every variable keeps its type, however taps, midnights, resets, edits and
   answers follow each other. *)
THEOREM TypeCorrect == Spec => []TypeOK
BY InitType, NextType, PTL DEF Spec

----------------------------------------------------------------------------
\* finishedHabits

(* finishedHabits does not go back while the taps of a day count.

   A completion block that finishes a habit writes the number its read was
   answered, plus one, and other blocks may have written since.  Two facts
   keep the field from shrinking.  The answers wait in the main queue in
   the order they were given, so the numbers in the queue ascend, and each
   is the field of now or its predecessor: the block that runs sets the
   field to its number plus one, and none behind it is below that number.
   And a reset writes 0 only while no tap of the day has counted, because
   a tap that counts has begun the day. *)

(* A block that will write finishedHabits, and the number it was answered. *)
Counts(b) == b.call.kind = "finished" /\ b.snap # <<>>
Number(b) == b.snap[1].finishedHabits

(* The blocks of queue, for the value f of the field. *)
Near(queue, f) ==
    \A i \in 1..Len(queue) : Counts(queue[i]) => Number(queue[i]) \in {f - 1, f}
Ascending(queue) ==
    \A i, j \in 1..Len(queue) :
        i < j /\ Counts(queue[i]) /\ Counts(queue[j]) =>
            Number(queue[i]) <= Number(queue[j])

Racing == aligned => Near(mainQueue, finishedHabits) /\ Ascending(mainQueue)

TapsBeginTheDay == (\E h \in Rows : todays[h] > 0) => palmiIsCool = today

CountInv == TypeOK /\ Racing /\ TapsBeginTheDay

----------------------------------------------------------------------------
\* The queue

LEMMA TailRaces ==
    ASSUME NEW queue \in Seq(BlockType), queue # <<>>, NEW f \in Nat,
           Near(queue, f), Ascending(queue)
    PROVE  Near(Tail(queue), f) /\ Ascending(Tail(queue))
<1>1. /\ Len(Tail(queue)) = Len(queue) - 1 /\ Len(queue) \in Nat
      /\ \A i \in 1..Len(Tail(queue)) : Tail(queue)[i] = queue[i + 1]
  BY HeadTailProperties
<1>2. \A i \in 1..Len(Tail(queue)) : i + 1 \in 1..Len(queue)
  BY <1>1
<1>3. Near(Tail(queue), f)
  BY <1>1, <1>2 DEF Near
<1>4. Ascending(Tail(queue))
  <2> SUFFICES ASSUME NEW i \in 1..Len(Tail(queue)), NEW j \in 1..Len(Tail(queue)),
                      i < j, Counts(Tail(queue)[i]), Counts(Tail(queue)[j])
               PROVE  Number(Tail(queue)[i]) <= Number(Tail(queue)[j])
    BY DEF Ascending
  <2>1. i + 1 \in 1..Len(queue) /\ j + 1 \in 1..Len(queue) /\ i + 1 < j + 1
    BY <1>1
  <2> QED
    BY <1>1, <2>1 DEF Ascending
<1> QED
  BY <1>3, <1>4

LEMMA AppendRaces ==
    ASSUME NEW queue \in Seq(BlockType), NEW b \in BlockType, NEW f \in Nat,
           Near(queue, f), Ascending(queue), Counts(b) => Number(b) = f
    PROVE  Near(Append(queue, b), f) /\ Ascending(Append(queue, b))
<1> DEFINE new == Append(queue, b)
<1>1. /\ Len(new) = Len(queue) + 1 /\ Len(queue) \in Nat
      /\ \A i \in 1..Len(queue) : new[i] = queue[i]
      /\ new[Len(queue) + 1] = b
  OBVIOUS
<1> HIDE DEF new
<1>2. Near(new, f)
  <2> SUFFICES ASSUME NEW i \in 1..Len(new), Counts(new[i])
               PROVE  Number(new[i]) \in {f - 1, f}
    BY DEF Near
  <2>1. CASE i \in 1..Len(queue)
    BY <1>1, <2>1 DEF Near
  <2>2. CASE i = Len(queue) + 1
    BY <1>1, <2>2
  <2> QED
    BY <1>1, <2>1, <2>2
<1>3. Ascending(new)
  <2> SUFFICES ASSUME NEW i \in 1..Len(new), NEW j \in 1..Len(new),
                      i < j, Counts(new[i]), Counts(new[j])
               PROVE  Number(new[i]) <= Number(new[j])
    BY DEF Ascending
  <2>1. i \in 1..Len(queue) /\ new[i] = queue[i]
    BY <1>1
  <2>2. CASE j \in 1..Len(queue)
    BY <1>1, <2>1, <2>2 DEF Ascending
  <2>3. CASE j = Len(queue) + 1
    <3>1. Number(new[i]) \in {f - 1, f} /\ Number(new[j]) = f
      BY <1>1, <2>1, <2>3 DEF Near
    <3> QED
      BY <3>1
  <2> QED
    BY <1>1, <2>2, <2>3
<1> QED
  BY <1>2, <1>3 DEF new

(* A queue without blocks that count is fine for every value. *)
LEMMA QuietQueue ==
    ASSUME NEW queue, \A i \in 1..Len(queue) : ~Counts(queue[i]), NEW f
    PROVE  Near(queue, f) /\ Ascending(queue)
BY DEF Near, Ascending

(* The oldest block of a finished habit runs. *)
LEMMA RunFinishedRaces ==
    ASSUME TypeOK, Near(mainQueue, finishedHabits), Ascending(mainQueue), RunFinished
    PROVE  /\ Near(mainQueue', finishedHabits') /\ Ascending(mainQueue')
           /\ finishedHabits' >= finishedHabits
<1> DEFINE b == Head(mainQueue)
           rest == Tail(mainQueue)
<1>a. mainQueue \in Seq(BlockType) /\ mainQueue # <<>> /\ finishedHabits \in Nat
  BY DEF RunFinished, Runs, TypeOK, QueueTypeOK, StoreTypeOK
<1>b. /\ b = mainQueue[1] /\ 1 \in 1..Len(mainQueue)
      /\ rest \in Seq(BlockType) /\ Len(rest) = Len(mainQueue) - 1
      /\ \A i \in 1..Len(rest) : rest[i] = mainQueue[i + 1]
      /\ Len(mainQueue) \in Nat
  BY <1>a, HeadTailProperties
<1>c. Near(rest, finishedHabits) /\ Ascending(rest)
  BY <1>a, TailRaces
<1>1. CASE b.snap = <<>>
  <2>1. finishedHabits' = finishedHabits /\ mainQueue' = rest
    BY <1>1 DEF RunFinished
  <2> QED
    BY <1>a, <1>c, <2>1
<1>2. CASE b.snap # <<>>
  <2>1. Counts(b)
    BY <1>2 DEF Counts, RunFinished, Runs
  <2>2. Number(b) \in {finishedHabits - 1, finishedHabits}
    BY <1>b, <2>1 DEF Near
  <2>3. finishedHabits' = Number(b) + 1 /\ mainQueue' = rest
    BY <1>2 DEF RunFinished, Number
  <2> HIDE DEF b, rest
  <2>4. Near(rest, Number(b) + 1)
    <3> SUFFICES ASSUME NEW i \in 1..Len(rest), Counts(rest[i])
                 PROVE  Number(rest[i]) \in {(Number(b) + 1) - 1, Number(b) + 1}
      BY DEF Near
    <3>1. i + 1 \in 1..Len(mainQueue) /\ rest[i] = mainQueue[i + 1] /\ 1 < i + 1
      BY <1>b
    <3>2. Number(rest[i]) \in {finishedHabits - 1, finishedHabits}
      BY <3>1 DEF Near
    <3>3. Number(b) <= Number(rest[i])
      BY <1>b, <2>1, <3>1 DEF Ascending
    <3> QED
      BY <1>a, <2>2, <3>2, <3>3
  <2>5. Number(b) + 1 >= finishedHabits
    BY <1>a, <2>2
  <2> QED
    BY <1>c, <2>3, <2>4, <2>5
<1> QED
  BY <1>1, <1>2

(* What every other step does to the queue. *)
QueueStep ==
    \/ mainQueue' = mainQueue \/ mainQueue' = <<>>
    \/ mainQueue # <<>> /\ mainQueue' = Tail(mainQueue)
    \/ \E b \in BlockType :
          /\ mainQueue' = Append(mainQueue, b)
          /\ Counts(b) => Number(b) = finishedHabits

LEMMA QueueStepRaces ==
    ASSUME TypeOK, Near(mainQueue, finishedHabits), Ascending(mainQueue), QueueStep
    PROVE  Near(mainQueue', finishedHabits) /\ Ascending(mainQueue')
<1>a. mainQueue \in Seq(BlockType) /\ finishedHabits \in Nat
  BY DEF TypeOK, QueueTypeOK, StoreTypeOK
<1>1. CASE mainQueue' = mainQueue
  BY <1>1
<1>2. CASE mainQueue' = <<>>
  BY <1>2 DEF Near, Ascending
<1>3. CASE mainQueue # <<>> /\ mainQueue' = Tail(mainQueue)
  BY <1>a, <1>3, TailRaces
<1>4. ASSUME NEW b \in BlockType, mainQueue' = Append(mainQueue, b),
             Counts(b) => Number(b) = finishedHabits
      PROVE  Near(mainQueue', finishedHabits) /\ Ascending(mainQueue')
  BY <1>a, <1>4, AppendRaces
<1> QED
  BY <1>1, <1>2, <1>3, <1>4 DEF QueueStep

LEMMA FixedBlocksQuiet ==
    ~Counts(FetchBlock) /\ ~Counts(ReloadBlock)
BY FixedBlocks DEF Counts

(* An answer to a tap that finished a habit holds the field of now. *)
LEMMA AnswerQueueStep ==
    ASSUME TypeOK, AnswerRead \/ ReadFails
    PROVE  QueueStep
<1>1. PICK i \in DOMAIN reads :
         \/ AnswerHabit(i)
         \/ reads[i].kind = "counter" /\ AnswerUser(i)
         \/ AnswerFinished(i)
         \/ AnswerError(i)
  BY DEF AnswerRead, ReadFails
<1>2. reads[i] \in CallType
  BY DEF TypeOK, QueueTypeOK
<1>3. ASSUME NEW snap, Answer(i, snap), Block(reads[i], snap) \in BlockType,
             reads[i].kind = "finished" /\ snap # <<>>
                 => snap[1].finishedHabits = finishedHabits
      PROVE  QueueStep
  <2> DEFINE b == Block(reads[i], snap)
  <2>1. Counts(b) => Number(b) = finishedHabits
    BY <1>3 DEF Counts, Number, Block
  <2>2. mainQueue' = Append(mainQueue, b) /\ b \in BlockType
    BY <1>3 DEF Answer
  <2> HIDE DEF b
  <2> QED
    BY <2>1, <2>2 DEF QueueStep
<1>4. CASE AnswerHabit(i)
  <2>1. reads[i] \in HabitType /\ reads[i].kind # "finished"
    BY <1>2, <1>4, CallKinds DEF AnswerHabit
  <2>2. Snapshot(docs, reads[i].n) \in Seq(DayData \cup {NoDoc})
    BY DEF Snapshot, TypeOK, StoreTypeOK
  <2>3. Block(reads[i], Snapshot(docs, reads[i].n)) \in BlockType
    BY <2>1, <2>2 DEF Block, BlockType
  <2> QED
    BY <1>3, <1>4, <2>1, <2>3 DEF AnswerHabit
<1>5. CASE reads[i].kind = "counter" /\ AnswerUser(i)
  <2>1. reads[i] = CounterCall
    BY <1>2, <1>5, CallKinds
  <2>2. <<[habitCounter |-> habitCounter]>> \in Seq([habitCounter : Nat])
    BY DEF TypeOK, StoreTypeOK
  <2>3. Block(reads[i], <<[habitCounter |-> habitCounter]>>) \in BlockType
    BY <2>1, <2>2 DEF Block, BlockType
  <2> QED
    BY <1>3, <1>5, <2>3 DEF AnswerUser
<1>6. CASE AnswerFinished(i)
  <2>1. reads[i] \in FinishType
    BY <1>2, <1>6, CallKinds DEF AnswerFinished
  <2>2. <<[finishedHabits |-> finishedHabits]>> \in Seq([finishedHabits : Nat])
    BY DEF TypeOK, StoreTypeOK
  <2>3. Block(reads[i], <<[finishedHabits |-> finishedHabits]>>) \in BlockType
    BY <2>1, <2>2 DEF Block, BlockType
  <2> QED
    BY <1>3, <1>6, <2>3 DEF AnswerFinished
<1>7. CASE AnswerError(i)
  <2>1. /\ <<>> \in Seq([habitCounter : Nat]) /\ <<>> \in Seq(DayData \cup {NoDoc})
        /\ <<>> \in Seq([finishedHabits : Nat])
    OBVIOUS
  <2>2. Block(reads[i], <<>>) \in BlockType
    BY <1>2, <2>1 DEF Block, BlockType, CallType
  <2> QED
    BY <1>3, <1>7, <2>2 DEF AnswerError
<1> QED
  BY <1>1, <1>4, <1>5, <1>6, <1>7

----------------------------------------------------------------------------
\* The reset

(* No finished habit is pending: nothing in the queue counts. *)
LEMMA NothingPending ==
    ASSUME TypeOK, Pending("finished") = {}
    PROVE  \A i \in 1..Len(mainQueue) : ~Counts(mainQueue[i])
<1> SUFFICES ASSUME NEW i \in 1..Len(mainQueue), Counts(mainQueue[i]) PROVE FALSE
  OBVIOUS
<1> DEFINE calls == [k \in DOMAIN mainQueue |-> mainQueue[k].call]
           k == Len(reads) + i
<1>1. reads \in Seq(CallType) /\ mainQueue \in Seq(BlockType)
      /\ Len(reads) \in Nat /\ Len(mainQueue) \in Nat
      /\ DOMAIN mainQueue = 1..Len(mainQueue)
  BY DEF TypeOK, QueueTypeOK
<1>2. \A j \in 1..Len(mainQueue) : mainQueue[j].call \in {mainQueue[m].call : m \in DOMAIN mainQueue}
  BY <1>1
<1> DEFINE S == CallType \cup {mainQueue[m].call : m \in DOMAIN mainQueue}
<1>3. calls \in Seq(S) /\ Len(calls) = Len(mainQueue) /\ reads \in Seq(S)
      /\ calls[i] = mainQueue[i].call
  <2>1. calls \in [1..Len(mainQueue) -> S]
    BY <1>1, <1>2
  <2>2. calls \in Seq(S)
    BY <1>1, <2>1, SeqDef
  <2>3. reads \in Seq(S)
    BY <1>1
  <2> QED
    BY <1>1, <2>1, <2>2, <2>3
<1> HIDE DEF calls, S
<1>4. k \in DOMAIN (reads \o calls) /\ (reads \o calls)[k] = calls[i]
  BY <1>1, <1>3
<1>5. k \in DOMAIN Calls /\ Calls[k].kind = "finished"
  BY <1>3, <1>4 DEF Calls, calls, Counts
<1> QED
  BY <1>5 DEF Pending

(* The home screen appears: a reset leaves the history aligned only when
   nothing that counts is pending. *)
LEMMA ViewWillAppearRaces ==
    ASSUME CountInv, ViewWillAppear
    PROVE  /\ Racing'
           /\ palmiIsCool = today => finishedHabits' = finishedHabits
<1>a. mainQueue \in Seq(BlockType) /\ Len(mainQueue) \in Nat
  BY DEF CountInv, TypeOK, QueueTypeOK
<1>1. CASE NewDay
  <2>1. palmiIsCool # today
    BY <1>1 DEF NewDay
  <2>2. ASSUME aligned' PROVE Near(mainQueue', finishedHabits') /\ Ascending(mainQueue')
    <3>1. /\ Pending("finished") = {} /\ habitArray # <<>>
          /\ mainQueue' = Append(mainQueue, ReloadBlock)
      BY <1>1, <2>2 DEF ViewWillAppear, ResetHabits
    <3>2. \A i \in 1..Len(mainQueue) : ~Counts(mainQueue[i])
      BY <3>1, NothingPending DEF CountInv
    <3>3. \A i \in 1..Len(mainQueue') : ~Counts(mainQueue'[i])
      BY <1>a, <3>1, <3>2, FixedBlocksQuiet
    <3> QED
      BY <3>3, QuietQueue
  <2> QED
    BY <2>1, <2>2 DEF Racing
<1>2. CASE ~NewDay
  BY <1>2 DEF ViewWillAppear, CountInv, Racing
<1> QED
  BY <1>1, <1>2

----------------------------------------------------------------------------
\* Every step

LEMMA TapsNext ==
    ASSUME CountInv, [Next]_vars
    PROVE  TapsBeginTheDay'
<1>a. todays \in [Rows -> Nat]
  BY DEF CountInv, TypeOK, DayTypeOK
<1>1. CASE Midnight
  BY <1>1 DEF Midnight, TapsBeginTheDay
<1>2. CASE UNCHANGED <<todays, today, palmiIsCool>>
  BY <1>2 DEF CountInv, TapsBeginTheDay
<1>3. CASE today' = today /\ palmiIsCool' = today
  BY <1>3 DEF TapsBeginTheDay
<1>4. CASE SaveEdit
  <2>1. /\ todays' = [todays EXCEPT ![form.data.habit] = 0]
        /\ today' = today /\ palmiIsCool' = palmiIsCool
    BY <1>4 DEF SaveEdit, dayVars
  <2>2. ASSUME NEW h \in Rows, todays'[h] > 0 PROVE todays[h] > 0
    BY <1>a, <2>1, <2>2
  <2> QED
    BY <2>1, <2>2 DEF CountInv, TapsBeginTheDay
<1>5. \/ Midnight \/ UNCHANGED <<todays, today, palmiIsCool>>
      \/ (today' = today /\ palmiIsCool' = today) \/ SaveEdit
  <2>1. CASE User
    BY <2>1 DEF User, TapNothing, TapCounted, TapTimed, TapStaleCell, OpenEdit, LeaveHome,
       ComeBack, ViewWillAppear, dayVars
  <2>2. CASE System
    BY <2>2 DEF System, RunBlock, RunFinished, RunReload, AnswerRead, Transition,
       ViewWillAppear, TimerEnds, dayVars, histVars
  <2>3. CASE ReadFails \/ Relaunch \/ UNCHANGED vars
    BY <2>3 DEF ReadFails, Relaunch, vars, dayVars, histVars
  <2> QED
    BY <2>1, <2>2, <2>3 DEF Next
<1> QED
  BY <1>1, <1>2, <1>3, <1>4, <1>5

(* The steps that neither reset nor finish leave the field alone. *)
LEMMA OtherSteps ==
    ASSUME CountInv, [Next]_vars, ~RunFinished, ~ViewWillAppear, ~Relaunch
    PROVE  finishedHabits' = finishedHabits /\ (aligned' => aligned) /\ QueueStep
<1>1. CASE User
  <2>1. CASE SaveEdit
    BY <2>1, FixedBlocks, FixedBlocksQuiet DEF SaveEdit, userVars, QueueStep
  <2>2. CASE ~SaveEdit
    <3>1. ASSUME NEW r \in 0..(shown - 1),
                 TapNothing(r) \/ TapCounted(r) \/ TapTimed(r) \/ TapStaleCell(r)
                     \/ OpenEdit(r)
          PROVE  UNCHANGED <<finishedHabits, aligned, mainQueue>>
      BY <3>1 DEF TapNothing, TapCounted, TapTimed, TapStaleCell, OpenEdit, userVars,
         fetchVars
    <3>2. CASE LeaveHome
      BY <3>2 DEF LeaveHome, userVars, fetchVars, QueueStep
    <3>3. CASE \E r \in 0..(shown - 1) :
                  TapNothing(r) \/ TapCounted(r) \/ TapTimed(r) \/ TapStaleCell(r)
                      \/ OpenEdit(r)
      BY <3>1, <3>3 DEF QueueStep
    <3> QED
      BY <1>1, <2>2, <3>2, <3>3 DEF User, ComeBack
  <2> QED
    BY <2>1, <2>2
<1>2. CASE RunBlock
  <2>1. mainQueue # <<>> /\ mainQueue' = Tail(mainQueue)
    BY <1>2 DEF RunBlock, RunFetch, RunCounter, RunHabit, RunReload, Runs
  <2>2. finishedHabits' = finishedHabits /\ aligned' = aligned
    BY <1>2 DEF RunBlock, RunReload, userVars, histVars
  <2> QED
    BY <2>1, <2>2 DEF QueueStep
<1>3. CASE AnswerRead \/ ReadFails
  <2>1. finishedHabits' = finishedHabits /\ aligned' = aligned
    BY <1>3 DEF AnswerRead, ReadFails, userVars, histVars
  <2> QED
    BY <1>3, <2>1, AnswerQueueStep DEF CountInv
<1>4. ASSUME NEW r \in ticking, TimerEnds(r)
      PROVE  finishedHabits' = finishedHabits /\ (aligned' => aligned) /\ QueueStep
  BY <1>4 DEF TimerEnds, userVars, QueueStep
<1>5. CASE Midnight \/ UNCHANGED vars
  BY <1>5 DEF Midnight, vars, fetchVars, userVars, histVars, QueueStep
<1> QED
  BY <1>1, <1>2, <1>3, <1>4, <1>5 DEF Next, System, Transition

LEMMA NextCount ==
    ASSUME CountInv, [Next]_vars
    PROVE  /\ CountInv'
           /\ aligned /\ (\E h \in Rows : todays[h] > 0)
                 => finishedHabits' >= finishedHabits
<1>a. TypeOK' /\ TapsBeginTheDay' /\ finishedHabits \in Nat
  BY NextType, TapsNext DEF CountInv, TypeOK, StoreTypeOK
<1>b. finishedHabits >= finishedHabits
  BY <1>a
<1>1. CASE RunFinished
  <2>1. aligned' = aligned
    BY <1>1 DEF RunFinished, histVars
  <2> QED
    BY <1>1, <1>a, <2>1, RunFinishedRaces DEF CountInv, Racing
<1>2. CASE ViewWillAppear
  BY <1>2, <1>a, <1>b, ViewWillAppearRaces DEF CountInv, TapsBeginTheDay
<1>3. CASE Relaunch
  <2>1. mainQueue' = <<>>
    BY <1>3 DEF Relaunch, RelaunchHome
  <2>2. Racing'
    BY <2>1 DEF Racing, Near, Ascending
  <2>3. palmiIsCool = today => finishedHabits' = finishedHabits
    BY <1>3 DEF Relaunch, NewDay
  <2> QED
    BY <1>a, <1>b, <2>2, <2>3 DEF CountInv, TapsBeginTheDay
<1>4. CASE ~RunFinished /\ ~ViewWillAppear /\ ~Relaunch
  <2>1. finishedHabits' = finishedHabits /\ (aligned' => aligned) /\ QueueStep
    BY <1>4, OtherSteps
  <2>2. Racing'
    BY <2>1, QueueStepRaces DEF CountInv, Racing
  <2> QED
    BY <1>a, <1>b, <2>1, <2>2 DEF CountInv
<1> QED
  BY <1>1, <1>2, <1>3, <1>4

LEMMA InitCount == Init => CountInv
<1> SUFFICES ASSUME Init PROVE CountInv
  OBVIOUS
<1>1. Racing
  BY DEF Init, Racing, Near, Ascending
<1>2. TapsBeginTheDay
  BY DEF Init, TapsBeginTheDay
<1> QED
  BY <1>1, <1>2, InitType DEF CountInv

(* Once a tap of the day has counted, no step of any behaviour lowers
   finishedHabits, however many habits finish at once and whatever fails, as
   long as the field and the habits were reset together and no finished habit
   was edited. *)
THEOREM FinishedGrows == Spec => FinishedOnlyGrows
<1>1. CountInv /\ [Next]_vars => CountInv'
  BY NextCount
<1>2. CountInv /\ [Next]_vars
        => [aligned /\ (\E h \in Rows : todays[h] > 0)
              => finishedHabits' >= finishedHabits]_vars
  BY NextCount
<1> QED
  BY InitCount, <1>1, <1>2, PTL DEF Spec, FinishedOnlyGrows
============================================================================
