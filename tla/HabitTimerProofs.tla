-------------------------- MODULE HabitTimerProofs --------------------------
(***************************************************************************)
(* Proofs about module HabitTimer, for any cells, habits and bounds: for   *)
(* any user, and at the end for the careful one.                           *)
(***************************************************************************)
EXTENDS HabitTimer, FiniteSetTheorems, SequenceTheorems, TLAPS

----------------------------------------------------------------------------
\* Sequences of reads

(* RemoveAt keeps the others, each once. *)
Others(k, i) == IF k < i THEN k ELSE k + 1

LEMMA RemoveAtType ==
    ASSUME NEW S, NEW s \in Seq(S), NEW i \in 1..Len(s)
    PROVE  /\ RemoveAt(s, i) \in Seq(S)
           /\ Len(RemoveAt(s, i)) = Len(s) - 1
           /\ \A k \in 1..Len(RemoveAt(s, i)) :
                 Others(k, i) \in 1..Len(s) /\ RemoveAt(s, i)[k] = s[Others(k, i)]
<1> DEFINE before == SubSeq(s, 1, i - 1)
           after  == SubSeq(s, i + 1, Len(s))
<1>1. /\ before \in Seq(S) /\ Len(before) = i - 1
      /\ \A k \in 1..(i - 1) : before[k] = s[k]
  BY SubSeqProperties
<1>2. /\ after \in Seq(S) /\ Len(after) = Len(s) - i
      /\ \A k \in 1..(Len(s) - i) : after[k] = s[i + k]
  BY SubSeqProperties
<1> HIDE DEF before, after
<1>3. /\ before \o after \in Seq(S) /\ Len(before \o after) = Len(s) - 1
      /\ \A k \in 1..(Len(s) - 1) :
            (before \o after)[k] = IF k <= i - 1 THEN before[k] ELSE after[k - (i - 1)]
  BY <1>1, <1>2, ConcatProperties
<1>4. ASSUME NEW k \in 1..(Len(s) - 1)
      PROVE  Others(k, i) \in 1..Len(s) /\ (before \o after)[k] = s[Others(k, i)]
  <2>1. CASE k < i
    BY <1>1, <1>3, <2>1 DEF Others
  <2>2. CASE ~(k < i)
    <3>1. k - (i - 1) \in 1..(Len(s) - i) /\ i + (k - (i - 1)) = k + 1
      BY <2>2
    <3>2. after[k - (i - 1)] = s[k + 1]
      BY <1>2, <3>1
    <3> QED
      BY <1>3, <2>2, <3>1, <3>2 DEF Others
  <2> QED
    BY <2>1, <2>2
<1> QED
  BY <1>3, <1>4 DEF RemoveAt, before, after

LEMMA TailType ==
    ASSUME NEW S, NEW s \in Seq(S), s # <<>>
    PROVE  /\ Head(s) \in S /\ Head(s) = s[1] /\ 1 \in 1..Len(s)
           /\ Tail(s) \in Seq(S) /\ Len(Tail(s)) = Len(s) - 1
           /\ \A k \in 1..Len(Tail(s)) : k + 1 \in 1..Len(s) /\ Tail(s)[k] = s[k + 1]
BY HeadTailProperties, ElementOfSeq, EmptySeq

LEMMA AppendType ==
    ASSUME NEW S, NEW s \in Seq(S), NEW e \in S
    PROVE  /\ Append(s, e) \in Seq(S) /\ Len(Append(s, e)) = Len(s) + 1
           /\ \A k \in 1..Len(s) : Append(s, e)[k] = s[k]
           /\ Append(s, e)[Len(s) + 1] = e
BY AppendProperties

LEMMA RowsAreNumbers ==
    /\ Cardinality(Rows) \in Nat /\ Rows = 0..(Cardinality(Rows) - 1) /\ IsFiniteSet(Rows)
BY DurationsAssumption, FS_CardinalityType

----------------------------------------------------------------------------
\* Type correctness

LEMMA InitType == Init => TypeOK
<1> SUFFICES ASSUME Init PROVE TypeOK
  OBVIOUS
<1>1. ListOK
  BY DurationsAssumption, RowsAreNumbers DEF Init, ListOK, Rows
<1>2. ScreenOK
  BY DEF Init, ScreenOK
<1>3. TimersOK /\ QueuesOK /\ CountsOK
  BY BoundsAssumption DEF Init, TimersOK, QueuesOK, CountsOK
<1> QED
  BY <1>1, <1>2, <1>3 DEF TypeOK

(* What configuring cells does to the timers and to the reads. *)
LEMMA CellForItemType ==
    ASSUME TypeOK, CellForItem
    PROVE  live' \subseteq live /\ timerArray' \subseteq timerArray
BY DEF CellForItem, timerVars

LEMMA ConfigureType ==
    ASSUME TypeOK, NEW rows \in SUBSET Rows, NEW cells \in [rows -> Cells],
           Configure(cells)
    PROVE  /\ indexPathCell' \in [Cells -> Rows \cup {0}]
           /\ pressed' \subseteq Cells
           /\ live' \subseteq live /\ timerArray' \subseteq timerArray
           /\ reads' \in Seq(ReadType) /\ Len(reads') >= Len(reads)
           /\ \A k \in 1..Len(reads) : reads'[k] = reads[k]
           /\ \A k \in (Len(reads) + 1)..Len(reads') : reads'[k].id = 0
<1>1. indexPathCell' \in [Cells -> Rows \cup {0}]
  <2>1. \A c \in Cells : (\E r \in rows : cells[r] = c) =>
                            (CHOOSE r \in rows : cells[r] = c) \in Rows
    OBVIOUS
  <2> QED
    BY <2>1 DEF Configure, TypeOK, ScreenOK
<1>2. pressed' \subseteq Cells
  BY DEF Configure, TypeOK, ScreenOK
<1>3. live' \subseteq live /\ timerArray' \subseteq timerArray
  BY CellForItemType DEF Configure
<1> DEFINE due == {r \in DOMAIN cells : addFirebase[r]}
<1>4. PICK order \in SetToSeqs(due) :
         reads' = reads \o [i \in DOMAIN order |-> Read(cells[order[i]], order[i], 0)]
  BY DEF Configure
<1>5. Cardinality(due) \in Nat
  BY RowsAreNumbers, FS_Subset, FS_CardinalityType
<1>6. order \in [1..Cardinality(due) -> due] /\ due \subseteq rows
  BY DEF SetToSeqs
<1> DEFINE asked == [i \in DOMAIN order |-> Read(cells[order[i]], order[i], 0)]
<1>7. \A i \in 1..Cardinality(due) : asked[i] \in ReadType /\ asked[i].id = 0
  BY <1>6, BoundsAssumption DEF Read, ReadType
<1>8. DOMAIN asked = 1..Cardinality(due)
  BY <1>6
<1>9. asked \in Seq(ReadType) /\ Len(asked) = Cardinality(due)
  <2> HIDE DEF due
  <2>1. asked \in [1..Cardinality(due) -> ReadType]
    BY <1>7, <1>8
  <2> HIDE DEF asked
  <2> QED
    BY <1>5, <2>1
<1>10. reads \in Seq(ReadType) /\ reads' = reads \o asked /\ Len(reads) \in Nat
  BY <1>4 DEF TypeOK, QueuesOK
<1> HIDE DEF asked, due
<1>11. /\ reads' \in Seq(ReadType) /\ Len(reads') = Len(reads) + Cardinality(due)
       /\ \A k \in 1..(Len(reads) + Cardinality(due)) :
             reads'[k] = IF k <= Len(reads) THEN reads[k] ELSE asked[k - Len(reads)]
  BY <1>9, <1>10, ConcatProperties
<1>12. \A k \in 1..Len(reads) : reads'[k] = reads[k]
  BY <1>5, <1>10, <1>11
<1>13. ASSUME NEW k \in (Len(reads) + 1)..Len(reads')
       PROVE  reads'[k].id = 0
  <2>1. k - Len(reads) \in 1..Cardinality(due) /\ ~(k <= Len(reads))
        /\ k \in 1..(Len(reads) + Cardinality(due))
    BY <1>5, <1>10, <1>11
  <2> QED
    BY <1>7, <1>11, <2>1
<1> QED
  BY <1>1, <1>2, <1>3, <1>5, <1>10, <1>11, <1>12, <1>13

LEMMA HabitArrivesType ==
    ASSUME TypeOK, HabitArrives
    PROVE  TypeOK'
<1>1. PICK cells \in [0..loaded -> Cells] : cellAt' = cells /\ Configure(cells)
  <2>1. loaded \in Nat
    BY RowsAreNumbers DEF TypeOK, ListOK
  <2>2. (loaded + 1) - 1 = loaded
    BY <2>1
  <2> QED
    BY <2>2 DEF HabitArrives, ReloadData
<1>2. loaded \in Rows /\ loaded + 1 \in 0..Cardinality(Rows) /\ 0..loaded \in SUBSET Rows
  BY RowsAreNumbers DEF HabitArrives, TypeOK, ListOK
<1>3. /\ indexPathCell' \in [Cells -> Rows \cup {0}] /\ pressed' \subseteq Cells
      /\ live' \subseteq live /\ timerArray' \subseteq timerArray
      /\ reads' \in Seq(ReadType)
  BY <1>1, <1>2, ConfigureType
<1>4. ListOK' /\ CountsOK'
  BY <1>2 DEF HabitArrives, TypeOK, ListOK, CountsOK, countVars
<1>5. ScreenOK'
  BY <1>1, <1>2, <1>3 DEF ScreenOK
<1>6. TimersOK' /\ QueuesOK'
  BY <1>3 DEF HabitArrives, TypeOK, TimersOK, QueuesOK
<1> QED
  BY <1>4, <1>5, <1>6 DEF TypeOK

LEMMA TapPressedType ==
    ASSUME TypeOK, NEW r \in Rows, NEW c \in Cells, TapPressed(r, c)
    PROVE  TypeOK'
<1>1. PICK d \in Cells : cellAt' = [cellAt EXCEPT ![r] = d] /\ Configure([s \in {r} |-> d])
  BY DEF TapPressed, ReloadItem
<1>2. /\ indexPathCell' \in [Cells -> Rows \cup {0}] /\ pressed' \subseteq Cells
      /\ live' \subseteq live /\ timerArray' \subseteq timerArray
      /\ reads' \in Seq(ReadType)
  <2>1. [s \in {r} |-> d] \in [{r} -> Cells] /\ {r} \in SUBSET Rows
    OBVIOUS
  <2> QED
    BY <1>1, <2>1, ConfigureType
<1>3. ListOK' /\ CountsOK'
  BY DEF TapPressed, TypeOK, ListOK, CountsOK, countVars
<1>4. ScreenOK'
  BY <1>1, <1>2 DEF TypeOK, ScreenOK
<1>5. TimersOK' /\ QueuesOK'
  BY <1>2 DEF TapPressed, TypeOK, TimersOK, QueuesOK
<1> QED
  BY <1>3, <1>4, <1>5 DEF TypeOK

LEMMA TapCountedType ==
    ASSUME TypeOK, TapCounted
    PROVE  TypeOK'
<1>1. live' \subseteq live /\ timerArray' \subseteq timerArray
  BY CellForItemType DEF TapCounted
<1> QED
  BY <1>1 DEF TapCounted, TypeOK, ListOK, ScreenOK, TimersOK, QueuesOK, CountsOK,
              cellVars, screenVars, countVars

LEMMA FetchType ==
    ASSUME TypeOK, Fetch
    PROVE  TypeOK'
<1>1. fetches' \in 0..MaxFetches /\ 0 \in 0..Cardinality(Rows)
  BY BoundsAssumption, RowsAreNumbers DEF Fetch, TypeOK, CountsOK
<1> QED
  BY <1>1 DEF Fetch, TypeOK, ListOK, ScreenOK, TimersOK, QueuesOK, CountsOK,
              cellVars, screenVars, timerVars

LEMMA StartType ==
    ASSUME TypeOK, NEW r \in Rows, NEW c \in Cells, Start(r, c)
    PROVE  /\ TypeOK'
           /\ starts' = starts + 1 /\ starts' \in 1..MaxStarts
           /\ reads' = Append(reads, Read(c, r, starts'))
           /\ Read(c, r, starts') \in ReadType
<1>1. starts' = starts + 1 /\ starts' \in 1..MaxStarts
  BY BoundsAssumption DEF Start, TypeOK, CountsOK
<1>2. Read(c, r, starts') \in ReadType
  BY <1>1 DEF Read, ReadType
<1>3. reads' = Append(reads, Read(c, r, starts'))
  BY DEF Start
<1>4. QueuesOK'
  BY <1>2, <1>3 DEF Start, TypeOK, QueuesOK
<1>5. ListOK' /\ ScreenOK'
  BY DEF Start, TypeOK, ListOK, ScreenOK, screenVars
<1>6. TimersOK' /\ CountsOK'
  BY <1>1 DEF Start, TypeOK, TimersOK, CountsOK, timerVars
<1> QED
  BY <1>1, <1>2, <1>3, <1>4, <1>5, <1>6 DEF TypeOK

LEMMA StopCountdownType ==
    ASSUME TypeOK, NEW r \in Rows, NEW c \in Cells, StopCountdown(r, c),
           pressed' \subseteq Cells
    PROVE  TypeOK' /\ live' \subseteq live
<1>1. live' \subseteq live
  BY DEF StopCountdown, Invalidate, Without
<1>2. time' \in [Rows -> Nat]
  BY DEF StopCountdown, Save, TypeOK, ListOK, TimersOK
<1>3. ListOK' /\ ScreenOK'
  BY <1>2 DEF StopCountdown, TypeOK, ListOK, ScreenOK
<1>4. TimersOK' /\ QueuesOK' /\ CountsOK'
  BY <1>1 DEF StopCountdown, TypeOK, TimersOK, QueuesOK, CountsOK, countVars
<1> QED
  BY <1>1, <1>3, <1>4 DEF TypeOK

(* An answer moves a read to the main queue. *)
LEMMA AnswerIsTyped ==
    ASSUME TypeOK, NEW i \in DOMAIN reads, NEW snap \in Seq(Nat), Answer(i, snap),
           readErrors' \in 0..MaxReadErrors
    PROVE  /\ TypeOK'
           /\ i \in 1..Len(reads) /\ reads[i] \in ReadType
           /\ Len(reads') = Len(reads) - 1
           /\ \A k \in 1..Len(reads') :
                 Others(k, i) \in 1..Len(reads) /\ reads'[k] = reads[Others(k, i)]
           /\ Len(mainQueue') = Len(mainQueue) + 1
           /\ \A k \in 1..Len(mainQueue) : mainQueue'[k] = mainQueue[k]
           /\ mainQueue'[Len(mainQueue) + 1] = [read |-> reads[i], snap |-> snap]
<1>1. reads \in Seq(ReadType) /\ mainQueue \in Seq(AnswerType)
  BY DEF TypeOK, QueuesOK
<1>2. i \in 1..Len(reads) /\ reads[i] \in ReadType
  BY <1>1, ElementOfSeq
<1> DEFINE answer == [read |-> reads[i], snap |-> snap]
<1>3. answer \in AnswerType
  BY <1>2 DEF AnswerType
<1>4. mainQueue' = Append(mainQueue, answer) /\ reads' = RemoveAt(reads, i)
  BY DEF Answer
<1> HIDE DEF answer
<1>5. /\ reads' \in Seq(ReadType) /\ Len(reads') = Len(reads) - 1
      /\ \A k \in 1..Len(reads') :
            Others(k, i) \in 1..Len(reads) /\ reads'[k] = reads[Others(k, i)]
  BY <1>1, <1>2, <1>4, RemoveAtType
<1>6. /\ mainQueue' \in Seq(AnswerType) /\ Len(mainQueue') = Len(mainQueue) + 1
      /\ \A k \in 1..Len(mainQueue) : mainQueue'[k] = mainQueue[k]
      /\ mainQueue'[Len(mainQueue) + 1] = answer
  BY <1>1, <1>3, <1>4, AppendType
<1>7. TypeOK'
  <2>1. QueuesOK'
    BY <1>5, <1>6 DEF QueuesOK
  <2>2. ListOK' /\ ScreenOK' /\ TimersOK' /\ CountsOK'
    BY DEF Answer, TypeOK, ListOK, ScreenOK, TimersOK, CountsOK, cellVars, screenVars,
           timerVars
  <2> QED
    BY <2>1, <2>2 DEF TypeOK
<1> QED
  BY <1>2, <1>5, <1>6, <1>7 DEF answer

(* Firestore answers a read, or it fails. *)
Answered(i, snap) ==
    /\ Answer(i, snap) /\ snap \in Seq(Nat) /\ readErrors' \in 0..MaxReadErrors

LEMMA AnswersAreTyped ==
    ASSUME TypeOK, NEW i \in DOMAIN reads, AnswerTime(i) \/ AnswerError(i)
    PROVE  \E snap : Answered(i, snap)
<1>1. CASE AnswerTime(i)
  <2> reads \in Seq(ReadType) /\ i \in 1..Len(reads)
    BY DEF TypeOK, QueuesOK
  <2> reads[i] \in ReadType
    BY ElementOfSeq
  <2>1. reads[i].row \in Rows
    BY DEF ReadType
  <2>2. <<time[reads[i].row]>> \in Seq(Nat)
    BY <2>1 DEF TypeOK, ListOK
  <2> QED
    BY <1>1, <2>2 DEF AnswerTime, Answered, TypeOK, CountsOK
<1>2. CASE AnswerError(i)
  <2>1. <<>> \in Seq(Nat) /\ readErrors' \in 0..MaxReadErrors
    BY <1>2, BoundsAssumption DEF AnswerError, TypeOK, CountsOK
  <2> QED
    BY <1>2, <2>1 DEF AnswerError, Answered
<1> QED
  BY <1>1, <1>2

LEMMA RunTimeType ==
    ASSUME TypeOK, RunTime
    PROVE  /\ TypeOK'
           /\ mainQueue # <<>> /\ 1 \in 1..Len(mainQueue)
           /\ Len(mainQueue') = Len(mainQueue) - 1
           /\ \A k \in 1..Len(mainQueue') :
                 k + 1 \in 1..Len(mainQueue) /\ mainQueue'[k] = mainQueue[k + 1]
           /\ LET read == mainQueue[1].read IN
              IF read.id = 0 THEN UNCHANGED timerVars
              ELSE /\ live' = live \cup {Timer(read.id, read.cell, read.row, startVar[read.cell])}
                   /\ timerArray' = timerArray \cup {read.id}
<1> DEFINE read == mainQueue[1].read
           snap == mainQueue[1].snap
<1>1. /\ Head(mainQueue) = mainQueue[1] /\ 1 \in 1..Len(mainQueue)
      /\ mainQueue[1] \in AnswerType
      /\ Tail(mainQueue) \in Seq(AnswerType) /\ Len(Tail(mainQueue)) = Len(mainQueue) - 1
      /\ \A k \in 1..Len(Tail(mainQueue)) :
            k + 1 \in 1..Len(mainQueue) /\ Tail(mainQueue)[k] = mainQueue[k + 1]
  BY TailType DEF RunTime, TypeOK, QueuesOK
<1>2. read.cell \in Cells /\ read.row \in Rows /\ read.id \in 0..MaxStarts /\ snap \in Seq(Nat)
  BY <1>1 DEF AnswerType, ReadType
<1>3. /\ displayed' = IF snap = <<>> THEN displayed
                      ELSE [displayed EXCEPT ![read.cell] = snap[1]]
      /\ IF read.id = 0 THEN UNCHANGED <<timer, timerVars>>
         ELSE /\ timer' = [timer EXCEPT ![read.cell] = read.id]
              /\ live' = live \cup {Timer(read.id, read.cell, read.row, startVar[read.cell])}
              /\ timerArray' = timerArray \cup {read.id}
  BY <1>1 DEF RunTime, Register
<1>4. displayed' \in [Cells -> Nat]
  <2>1. snap # <<>> => snap[1] \in Nat
    BY <1>2
  <2> QED
    BY <1>2, <1>3, <2>1 DEF TypeOK, TimersOK
<1>5. timer' \in [Cells -> 0..MaxStarts] /\ live' \subseteq TimerType
      /\ timerArray' \subseteq 1..MaxStarts
  <2>1. CASE read.id = 0
    BY <1>3, <2>1 DEF timerVars, TypeOK, TimersOK
  <2>2. CASE read.id # 0
    <3>1. read.id \in 1..MaxStarts
      BY <1>2, <2>2, BoundsAssumption
    <3>2. Timer(read.id, read.cell, read.row, startVar[read.cell]) \in TimerType
      BY <1>2, <3>1 DEF Timer, TimerType, TypeOK, TimersOK
    <3> QED
      BY <1>2, <1>3, <2>2, <3>1, <3>2 DEF TypeOK, TimersOK
  <2> QED
    BY <2>1, <2>2
<1>6. TimersOK' /\ QueuesOK'
  BY <1>1, <1>4, <1>5 DEF RunTime, TypeOK, TimersOK, QueuesOK
<1>7. ListOK' /\ ScreenOK' /\ CountsOK'
  BY DEF RunTime, TypeOK, ListOK, ScreenOK, CountsOK, screenVars, countVars
<1>8. mainQueue' = Tail(mainQueue) /\ mainQueue # <<>>
  BY DEF RunTime
<1> QED
  BY <1>1, <1>3, <1>6, <1>7, <1>8 DEF TypeOK, timerVars

LEMMA FireType ==
    ASSUME TypeOK, Fire
    PROVE  TypeOK' /\ live' \subseteq live /\ UNCHANGED <<timerArray, reads, mainQueue, starts>>
<1>1. PICK t \in live : CountSecond(t) \/ Alert(t)
  BY DEF Fire
<1>2. t.cell \in Cells
  BY <1>1 DEF TypeOK, TimersOK, TimerType
<1>3. CASE CountSecond(t)
  <2>1. displayed' \in [Cells -> Nat]
    BY <1>2, <1>3 DEF CountSecond, TimeLeft, TypeOK, TimersOK
  <2>2. live' \subseteq live
    BY <1>3 DEF CountSecond, Fired
  <2>3. ListOK' /\ ScreenOK' /\ CountsOK' /\ QueuesOK'
    BY <1>3 DEF CountSecond, TypeOK, ListOK, ScreenOK, CountsOK, QueuesOK, screenVars,
                countVars
  <2> QED
    BY <1>3, <2>1, <2>2, <2>3 DEF CountSecond, TypeOK, TimersOK, countVars
<1>4. CASE Alert(t)
  <2>1. addFirebase' \in [Rows -> BOOLEAN] /\ app' \in {"running", "indexTrap"}
    BY <1>2, <1>4 DEF Alert, TypeOK, ListOK
  <2>2. live' \subseteq live
    BY <1>4 DEF Alert, Fired, Without
  <2>3. ListOK' /\ ScreenOK' /\ CountsOK' /\ QueuesOK'
    BY <1>4, <2>1 DEF Alert, TypeOK, ListOK, ScreenOK, CountsOK, QueuesOK, countVars
  <2> QED
    BY <1>4, <2>2, <2>3 DEF Alert, TypeOK, TimersOK, countVars
<1> QED
  BY <1>1, <1>3, <1>4

LEMMA RelaunchType ==
    ASSUME TypeOK, Relaunch
    PROVE  TypeOK'
<1>1. relaunches' \in 0..MaxRelaunches /\ 0 \in 0..MaxStarts /\ 0 \in 0..Cardinality(Rows)
  BY BoundsAssumption, RowsAreNumbers DEF Relaunch, TypeOK, CountsOK
<1>2. ListOK' /\ ScreenOK' /\ CountsOK'
  BY <1>1 DEF Relaunch, TypeOK, ListOK, ScreenOK, CountsOK
<1>3. TimersOK' /\ QueuesOK'
  BY <1>1 DEF Relaunch, TimersOK, QueuesOK
<1> QED
  BY <1>2, <1>3 DEF TypeOK

LEMMA NextType == TypeOK /\ [Next]_vars => TypeOK'
<1> SUFFICES ASSUME TypeOK, [Next]_vars PROVE TypeOK'
  OBVIOUS
<1>1. CASE User
  <2>1. ASSUME NEW r \in Rows, NEW c \in Cells, Stop(r, c) \/ LongPress(r, c)
        PROVE  TypeOK'
    <3>1. StopCountdown(r, c) /\ pressed' \subseteq Cells
      BY <2>1 DEF Stop, LongPress, TypeOK, ScreenOK
    <3> QED
      BY <3>1, StopCountdownType
  <2> QED
    BY <1>1, <2>1, StartType, TapPressedType, TapCountedType DEF User
<1>2. CASE Fetch
  BY <1>2, FetchType
<1>3. CASE System
  <2>1. ASSUME NEW i \in DOMAIN reads, AnswerTime(i)
        PROVE  TypeOK'
    BY <2>1, AnswersAreTyped, AnswerIsTyped DEF Answered
  <2> QED
    BY <1>3, <2>1, HabitArrivesType, RunTimeType, FireType DEF System
<1>4. CASE ReadFails
  <2>1. PICK i \in DOMAIN reads : AnswerError(i)
    BY <1>4 DEF ReadFails
  <2> QED
    BY <2>1, AnswersAreTyped, AnswerIsTyped DEF Answered
<1>5. CASE Relaunch
  BY <1>5, RelaunchType
<1>6. CASE UNCHANGED vars
  BY <1>6 DEF vars, TypeOK, ListOK, ScreenOK, TimersOK, QueuesOK, CountsOK, cellVars,
              screenVars, timerVars, countVars
<1> QED
  BY <1>1, <1>2, <1>3, <1>4, <1>5, <1>6 DEF Next

(* Every variable of the timers keeps its type, for any cells, habits and
   bounds: no time left goes below zero, however many timers count in a cell
   (Action tests before it takes a second), and a cell's row is always that of
   a habit. *)
THEOREM TypeCorrect == Spec => []TypeOK
<1>1. Init => TypeOK
  BY InitType
<1>2. TypeOK /\ [Next]_vars => TypeOK'
  BY NextType
<1> QED
  BY <1>1, <1>2, PTL DEF Spec

----------------------------------------------------------------------------
\* One timer survives

(* A timer that is scheduled has been handed to the controller. *)
Registered == \A t \in live : t.id \in timerArray

(* Every start is in one place at most: it waits for its answer, or its answer
   waits in the main queue, or its timer is scheduled. *)
ReadsDiffer ==
    \A j, k \in 1..Len(reads) : reads[j].id = reads[k].id /\ reads[k].id # 0 => j = k

AnswersDiffer ==
    \A j, k \in 1..Len(mainQueue) :
        mainQueue[j].read.id = mainQueue[k].read.id /\ mainQueue[k].read.id # 0 => j = k

AskedOrAnswered ==
    \A j \in 1..Len(reads), k \in 1..Len(mainQueue) :
        reads[j].id = mainQueue[k].read.id => reads[j].id = 0

WaitingOrLive ==
    \A t \in live :
        /\ \A k \in 1..Len(reads) : reads[k].id # t.id
        /\ \A k \in 1..Len(mainQueue) : mainQueue[k].read.id # t.id

TimersDiffer == \A t, u \in live : t.id = u.id => t = u

(* ... and the next start is none of them. *)
Begun ==
    /\ \A k \in 1..Len(reads) : reads[k].id <= starts
    /\ \A k \in 1..Len(mainQueue) : mainQueue[k].read.id <= starts
    /\ \A t \in live : t.id <= starts

OnePlace ==
    /\ ReadsDiffer /\ AnswersDiffer /\ AskedOrAnswered /\ WaitingOrLive /\ TimersDiffer
    /\ Begun

IdsInv == TypeOK /\ Registered /\ OnePlace

LEMMA IdsAreNumbers ==
    ASSUME TypeOK
    PROVE  /\ \A k \in 1..Len(reads) : reads[k].id \in Nat
           /\ \A k \in 1..Len(mainQueue) : mainQueue[k].read.id \in Nat
           /\ \A t \in live : t.id \in Nat /\ t.id # 0
           /\ starts \in Nat /\ Len(reads) \in Nat /\ Len(mainQueue) \in Nat
<1>1. reads \in Seq(ReadType) /\ mainQueue \in Seq(AnswerType) /\ live \subseteq TimerType
  BY DEF TypeOK, QueuesOK, TimersOK
<1>2. \A k \in 1..Len(reads) : reads[k] \in ReadType
  BY <1>1, ElementOfSeq
<1>3. \A k \in 1..Len(mainQueue) : mainQueue[k] \in AnswerType
  BY <1>1, ElementOfSeq
<1>4. \A read \in ReadType : read.id \in Nat
  BY BoundsAssumption DEF ReadType
<1>5. \A k \in 1..Len(mainQueue) : mainQueue[k].read \in ReadType
  BY <1>3 DEF AnswerType
<1>6. \A t \in live : t.id \in Nat /\ t.id # 0
  BY <1>1, BoundsAssumption DEF TimerType
<1>7. starts \in Nat
  BY BoundsAssumption DEF TypeOK, CountsOK
<1> QED
  BY <1>1, <1>2, <1>4, <1>5, <1>6, <1>7

(* Fewer timers, and reads that only show a time behind the others. *)
LEMMA FewerTimers ==
    ASSUME IdsInv, TypeOK', live' \subseteq live, UNCHANGED mainQueue, starts' = starts,
           Len(reads') >= Len(reads),
           \A k \in 1..Len(reads) : reads'[k] = reads[k],
           \A k \in (Len(reads) + 1)..Len(reads') : reads'[k].id = 0
    PROVE  OnePlace'
<1>1. \A k \in 1..Len(reads') : (k \in 1..Len(reads) /\ reads'[k] = reads[k]) \/ reads'[k].id = 0
  <2>1. Len(reads) \in Nat /\ Len(reads') \in Nat
    BY DEF IdsInv, TypeOK, QueuesOK
  <2> QED
    BY <2>1
<1>2. ReadsDiffer'
  BY <1>1 DEF IdsInv, OnePlace, ReadsDiffer
<1>3. AnswersDiffer' /\ TimersDiffer'
  BY DEF IdsInv, OnePlace, AnswersDiffer, TimersDiffer
<1>4. AskedOrAnswered'
  BY <1>1 DEF IdsInv, OnePlace, AskedOrAnswered
<1>5. WaitingOrLive'
  BY <1>1, IdsAreNumbers DEF IdsInv, OnePlace, WaitingOrLive
<1>6. Begun'
  BY <1>1, IdsAreNumbers DEF IdsInv, OnePlace, Begun
<1> QED
  BY <1>2, <1>3, <1>4, <1>5, <1>6 DEF OnePlace

LEMMA SameReads ==
    ASSUME IdsInv, TypeOK', live' \subseteq live, UNCHANGED <<reads, mainQueue, starts>>
    PROVE  OnePlace'
<1>1. \A k \in (Len(reads) + 1)..Len(reads') : FALSE
  BY IdsAreNumbers DEF IdsInv
<1>2. Len(reads') >= Len(reads)
  BY IdsAreNumbers DEF IdsInv
<1> QED
  BY <1>1, <1>2, FewerTimers

(* cellForItemAt forgets a timer only when it invalidates it. *)
LEMMA CellForItemRegisters ==
    ASSUME Registered, CellForItem
    PROVE  Registered'
BY DEF Registered, CellForItem, timerVars

LEMMA ConfiguredIds ==
    ASSUME IdsInv, Configured, TypeOK'
    PROVE  Registered' /\ OnePlace' /\ CellForItem
<1>1. CASE HabitArrives
  <2>1. PICK cells \in [0..loaded -> Cells] : Configure(cells)
    <3>1. loaded \in Nat
      BY RowsAreNumbers DEF IdsInv, TypeOK, ListOK
    <3>2. (loaded + 1) - 1 = loaded
      BY <3>1
    <3> QED
      BY <1>1, <3>2 DEF HabitArrives, ReloadData
  <2>2. 0..loaded \in SUBSET Rows
    BY <1>1, RowsAreNumbers DEF HabitArrives, IdsInv, TypeOK, ListOK
  <2>3. UNCHANGED mainQueue /\ starts' = starts
    BY <1>1 DEF HabitArrives, countVars
  <2> QED
    BY <2>1, <2>2, <2>3, ConfigureType, FewerTimers, CellForItemRegisters
    DEF IdsInv, Configure
<1>2. CASE TapCounted
  <2>1. CellForItem /\ UNCHANGED <<reads, mainQueue, starts>>
    BY <1>2 DEF TapCounted, countVars
  <2>2. live' \subseteq live /\ Registered'
    BY <2>1, CellForItemType, CellForItemRegisters DEF IdsInv
  <2> QED
    BY <2>1, <2>2, SameReads
<1>3. ASSUME NEW r \in Rows, NEW c \in Cells, TapPressed(r, c)
      PROVE  Registered' /\ OnePlace' /\ CellForItem
  <2>1. PICK d \in Cells : Configure([s \in {r} |-> d])
    BY <1>3 DEF TapPressed, ReloadItem
  <2>2. [s \in {r} |-> d] \in [{r} -> Cells] /\ {r} \in SUBSET Rows
    OBVIOUS
  <2>3. UNCHANGED mainQueue /\ starts' = starts
    BY <1>3 DEF TapPressed, countVars
  <2>4. CellForItem /\ Registered'
    BY <2>1, CellForItemRegisters DEF IdsInv, Configure
  <2>5. /\ live' \subseteq live /\ Len(reads') >= Len(reads)
        /\ \A k \in 1..Len(reads) : reads'[k] = reads[k]
        /\ \A k \in (Len(reads) + 1)..Len(reads') : reads'[k].id = 0
    BY <2>1, <2>2, ConfigureType DEF IdsInv
  <2> QED
    BY <2>3, <2>4, <2>5, FewerTimers
<1> QED
  BY <1>1, <1>2, <1>3 DEF Configured

(* A start takes a number nobody has. *)
LEMMA StartIds ==
    ASSUME IdsInv, NEW r \in Rows, NEW c \in Cells, Start(r, c)
    PROVE  Registered' /\ OnePlace'
<1> DEFINE n == Len(reads)
<1>1. TypeOK /\ TypeOK' /\ starts' = starts + 1 /\ reads' = Append(reads, Read(c, r, starts'))
      /\ Read(c, r, starts') \in ReadType /\ reads \in Seq(ReadType)
  BY StartType DEF IdsInv, TypeOK, QueuesOK
<1>2. UNCHANGED <<live, timerArray, mainQueue>>
  BY DEF Start, timerVars
<1>3. /\ n \in Nat /\ Len(reads') = n + 1 /\ \A k \in 1..n : reads'[k] = reads[k]
      /\ reads'[n + 1].id = starts + 1
  BY <1>1, AppendType DEF Read
<1>4. \A k \in 1..Len(reads') : (k \in 1..n /\ reads'[k] = reads[k]) \/ k = n + 1
  BY <1>3
<1>5. /\ \A k \in 1..n : reads[k].id \in Nat /\ reads[k].id <= starts
      /\ \A k \in 1..Len(mainQueue) :
            mainQueue[k].read.id \in Nat /\ mainQueue[k].read.id <= starts
      /\ \A t \in live : t.id \in Nat /\ t.id <= starts
      /\ starts \in Nat
  BY <1>1, IdsAreNumbers DEF IdsInv, OnePlace, Begun
<1> HIDE DEF n
<1>6. ReadsDiffer'
  <2>1. \A k \in 1..n : reads'[k].id # reads'[n + 1].id
    BY <1>3, <1>5
  <2>2. \A j, k \in 1..n : reads[j].id = reads[k].id /\ reads[k].id # 0 => j = k
    BY DEF IdsInv, OnePlace, ReadsDiffer, n
  <2> QED
    BY <1>3, <1>4, <2>1, <2>2 DEF ReadsDiffer
<1>7. AskedOrAnswered'
  <2>1. \A k \in 1..Len(mainQueue) : mainQueue[k].read.id # starts + 1
    BY <1>5
  <2>2. \A j \in 1..n, k \in 1..Len(mainQueue) :
            reads[j].id = mainQueue[k].read.id => reads[j].id = 0
    BY DEF IdsInv, OnePlace, AskedOrAnswered, n
  <2> QED
    BY <1>2, <1>3, <1>4, <2>1, <2>2 DEF AskedOrAnswered
<1>8. WaitingOrLive'
  <2>1. \A t \in live : t.id # starts + 1
    BY <1>5
  <2>2. \A t \in live : /\ \A k \in 1..n : reads[k].id # t.id
                        /\ \A k \in 1..Len(mainQueue) : mainQueue[k].read.id # t.id
    BY DEF IdsInv, OnePlace, WaitingOrLive, n
  <2> QED
    BY <1>2, <1>3, <1>4, <2>1, <2>2 DEF WaitingOrLive
<1>9. Begun'
  BY <1>1, <1>2, <1>3, <1>4, <1>5 DEF Begun
<1>10. Registered' /\ AnswersDiffer' /\ TimersDiffer'
  BY <1>2 DEF IdsInv, Registered, OnePlace, AnswersDiffer, TimersDiffer
<1> QED
  BY <1>6, <1>7, <1>8, <1>9, <1>10 DEF OnePlace

(* An answer moves a number from the reads to the main queue. *)
LEMMA AnsweredIds ==
    ASSUME IdsInv, NEW i \in DOMAIN reads, NEW snap, Answered(i, snap)
    PROVE  TypeOK' /\ Registered' /\ OnePlace'
<1> DEFINE m == Len(mainQueue)
<1>1. /\ TypeOK' /\ i \in 1..Len(reads) /\ Len(reads') = Len(reads) - 1
      /\ \A k \in 1..Len(reads') :
            Others(k, i) \in 1..Len(reads) /\ reads'[k] = reads[Others(k, i)]
      /\ Len(mainQueue') = m + 1
      /\ \A k \in 1..m : mainQueue'[k] = mainQueue[k]
      /\ mainQueue'[m + 1].read = reads[i]
  <2>1. /\ TypeOK /\ snap \in Seq(Nat) /\ Answer(i, snap)
        /\ readErrors' \in 0..MaxReadErrors
    BY DEF IdsInv, Answered
  <2>2. [read |-> reads[i], snap |-> snap].read = reads[i]
    OBVIOUS
  <2> QED
    BY <2>1, <2>2, AnswerIsTyped
<1>2. UNCHANGED <<live, timerArray, starts>>
  BY DEF Answered, Answer, timerVars
<1>3. Len(reads) \in Nat /\ m \in Nat
  BY IdsAreNumbers DEF IdsInv
<1>4. \A k \in 1..Len(mainQueue') :
          (k \in 1..m /\ mainQueue'[k] = mainQueue[k]) \/ k = m + 1
  BY <1>1, <1>3
<1> HIDE DEF m
<1>5. \A j, k \in 1..Len(reads') :
          Others(k, i) # i /\ (Others(j, i) = Others(k, i) => j = k)
  BY <1>1, <1>3 DEF Others
<1>6. ReadsDiffer'
  <2>1. \A j, k \in 1..Len(reads) : reads[j].id = reads[k].id /\ reads[k].id # 0 => j = k
    BY DEF IdsInv, OnePlace, ReadsDiffer
  <2> QED
    BY <1>1, <1>5, <2>1 DEF ReadsDiffer
<1>7. AnswersDiffer'
  <2>1. \A k \in 1..m : mainQueue[k].read.id = reads[i].id => reads[i].id = 0
    BY <1>1 DEF IdsInv, OnePlace, AskedOrAnswered, m
  <2>2. \A j, k \in 1..m :
            mainQueue[j].read.id = mainQueue[k].read.id /\ mainQueue[k].read.id # 0 => j = k
    BY DEF IdsInv, OnePlace, AnswersDiffer, m
  <2> QED
    BY <1>1, <1>4, <2>1, <2>2 DEF AnswersDiffer
<1>8. AskedOrAnswered'
  <2>1. ASSUME NEW k \in 1..Len(reads'), reads'[k].id = reads[i].id
        PROVE  reads'[k].id = 0
    <3>1. Others(k, i) \in 1..Len(reads) /\ Others(k, i) # i
          /\ reads[Others(k, i)].id = reads[i].id
      BY <1>1, <1>5, <2>1
    <3>2. reads[i].id = 0
      BY <1>1, <3>1 DEF IdsInv, OnePlace, ReadsDiffer
    <3> QED
      BY <2>1, <3>2
  <2>2. \A j \in 1..Len(reads), k \in 1..m :
            reads[j].id = mainQueue[k].read.id => reads[j].id = 0
    BY DEF IdsInv, OnePlace, AskedOrAnswered, m
  <2> QED
    BY <1>1, <1>4, <2>1, <2>2 DEF AskedOrAnswered
<1>9. WaitingOrLive'
  <2>1. \A t \in live : /\ \A k \in 1..Len(reads) : reads[k].id # t.id
                        /\ \A k \in 1..m : mainQueue[k].read.id # t.id
    BY DEF IdsInv, OnePlace, WaitingOrLive, m
  <2> QED
    BY <1>1, <1>2, <1>4, <2>1 DEF WaitingOrLive
<1>10. Begun'
  <2>1. /\ \A k \in 1..Len(reads) : reads[k].id <= starts
        /\ \A k \in 1..m : mainQueue[k].read.id <= starts
        /\ \A t \in live : t.id <= starts
    BY DEF IdsInv, OnePlace, Begun, m
  <2> QED
    BY <1>1, <1>2, <1>4, <2>1 DEF Begun
<1>11. Registered' /\ TimersDiffer'
  BY <1>2 DEF IdsInv, Registered, OnePlace, TimersDiffer
<1> QED
  BY <1>1, <1>6, <1>7, <1>8, <1>9, <1>10, <1>11 DEF OnePlace

(* The block moves its number from the main queue to the timers. *)
LEMMA RunTimeIds ==
    ASSUME IdsInv, RunTime
    PROVE  Registered' /\ OnePlace'
<1> DEFINE read == mainQueue[1].read
           new  == Timer(read.id, read.cell, read.row, startVar[read.cell])
<1>1. /\ 1 \in 1..Len(mainQueue) /\ Len(mainQueue') = Len(mainQueue) - 1
      /\ \A k \in 1..Len(mainQueue') :
            k + 1 \in 1..Len(mainQueue) /\ mainQueue'[k] = mainQueue[k + 1]
      /\ IF read.id = 0 THEN UNCHANGED timerVars
         ELSE live' = live \cup {new} /\ timerArray' = timerArray \cup {read.id}
  BY RunTimeType DEF IdsInv
<1>2. UNCHANGED <<reads, starts>>
  BY DEF RunTime, countVars
<1>3. /\ \A k \in 1..Len(reads) : reads[k].id = read.id => read.id = 0
      /\ \A k \in 1..Len(mainQueue') :
            k # 0 /\ (mainQueue'[k].read.id = read.id => read.id = 0)
      /\ \A t \in live : t.id # read.id
      /\ read.id <= starts
  <2>1. \A k \in 1..Len(mainQueue') : k + 1 # 1
    OBVIOUS
  <2> QED
    BY <1>1, <2>1 DEF IdsInv, OnePlace, AnswersDiffer, AskedOrAnswered, WaitingOrLive, Begun
<1>4. new.id = read.id
  BY DEF Timer
<1> HIDE DEF new, read
<1>5. \A t \in live' : t \in live \/ (t = new /\ read.id # 0)
  BY <1>1 DEF timerVars
<1>6. ReadsDiffer'
  BY <1>2 DEF IdsInv, OnePlace, ReadsDiffer
<1>7. AnswersDiffer'
  <2>1. \A j, k \in 1..Len(mainQueue') : j + 1 = k + 1 => j = k
    OBVIOUS
  <2> QED
    BY <1>1, <2>1 DEF IdsInv, OnePlace, AnswersDiffer
<1>8. AskedOrAnswered'
  BY <1>1, <1>2 DEF IdsInv, OnePlace, AskedOrAnswered
<1>9. WaitingOrLive'
  <2>1. \A t \in live : /\ \A k \in 1..Len(reads') : reads'[k].id # t.id
                        /\ \A k \in 1..Len(mainQueue') : mainQueue'[k].read.id # t.id
    BY <1>1, <1>2 DEF IdsInv, OnePlace, WaitingOrLive
  <2>2. read.id # 0 => /\ \A k \in 1..Len(reads') : reads'[k].id # new.id
                       /\ \A k \in 1..Len(mainQueue') : mainQueue'[k].read.id # new.id
    BY <1>2, <1>3, <1>4
  <2> QED
    BY <1>5, <2>1, <2>2 DEF WaitingOrLive
<1>10. TimersDiffer'
  BY <1>3, <1>4, <1>5 DEF IdsInv, OnePlace, TimersDiffer
<1>11. Begun'
  BY <1>1, <1>2, <1>3, <1>4, <1>5 DEF IdsInv, OnePlace, Begun
<1>12. Registered'
  <2>1. \A t \in live : t.id \in timerArray
    BY DEF IdsInv, Registered
  <2>2. CASE read.id = 0
    BY <1>1, <2>1, <2>2 DEF timerVars, Registered
  <2>3. CASE read.id # 0
    BY <1>1, <1>4, <2>1, <2>3 DEF Registered
  <2> QED
    BY <2>2, <2>3
<1> QED
  BY <1>6, <1>7, <1>8, <1>9, <1>10, <1>11, <1>12 DEF OnePlace

LEMMA RelaunchIds ==
    ASSUME IdsInv, Relaunch
    PROVE  Registered' /\ OnePlace'
<1>1. live' = {} /\ reads' = <<>> /\ mainQueue' = <<>>
  BY DEF Relaunch
<1>2. Len(reads') = 0 /\ Len(mainQueue') = 0 /\ 1..0 = {}
  BY <1>1
<1> QED
  BY <1>1, <1>2 DEF Registered, OnePlace, ReadsDiffer, AnswersDiffer, AskedOrAnswered,
                    WaitingOrLive, TimersDiffer, Begun

LEMMA InitIds == Init => IdsInv
<1> SUFFICES ASSUME Init PROVE IdsInv
  OBVIOUS
<1>1. live = {} /\ reads = <<>> /\ mainQueue = <<>>
  BY DEF Init
<1>2. Len(reads) = 0 /\ Len(mainQueue) = 0 /\ 1..0 = {}
  BY <1>1
<1> QED
  BY <1>1, <1>2, InitType
  DEF IdsInv, Registered, OnePlace, ReadsDiffer, AnswersDiffer, AskedOrAnswered,
      WaitingOrLive, TimersDiffer, Begun

LEMMA NextIds == IdsInv /\ [Next]_vars => IdsInv'
<1> SUFFICES ASSUME IdsInv, [Next]_vars PROVE IdsInv'
  OBVIOUS
<1>1. TypeOK'
  BY NextType DEF IdsInv
<1> SUFFICES Registered' /\ OnePlace'
  BY <1>1 DEF IdsInv
<1>2. ASSUME live' \subseteq live, UNCHANGED <<timerArray, reads, mainQueue, starts>>
      PROVE  Registered' /\ OnePlace'
  <2>1. Registered'
    BY <1>2 DEF IdsInv, Registered
  <2> QED
    BY <1>1, <1>2, <2>1, SameReads
<1>3. CASE Configured
  BY <1>1, <1>3, ConfiguredIds
<1>4. ASSUME NEW r \in Rows, NEW c \in Cells, Stop(r, c) \/ LongPress(r, c)
      PROVE  Registered' /\ OnePlace'
  <2>1. StopCountdown(r, c) /\ pressed' \subseteq Cells
    BY <1>4 DEF Stop, LongPress, IdsInv, TypeOK, ScreenOK
  <2>2. live' \subseteq live
    BY <2>1, StopCountdownType DEF IdsInv
  <2> QED
    BY <1>2, <2>1, <2>2 DEF StopCountdown, countVars
<1>5. CASE Fetch
  BY <1>2, <1>5 DEF Fetch, timerVars
<1>6. CASE Fire
  BY <1>2, <1>6, FireType DEF IdsInv
<1>7. ASSUME NEW i \in DOMAIN reads, AnswerTime(i) \/ AnswerError(i)
      PROVE  Registered' /\ OnePlace'
  BY <1>7, AnswersAreTyped, AnsweredIds DEF IdsInv
<1>8. CASE UNCHANGED vars
  BY <1>2, <1>8 DEF vars, timerVars, countVars
<1>9. CASE User
  BY <1>3, <1>4, <1>9, StartIds DEF User, Configured
<1>10. CASE System
  BY <1>3, <1>6, <1>7, <1>10, RunTimeIds DEF System, Configured
<1> QED
  BY <1>5, <1>7, <1>8, <1>9, <1>10, RelaunchIds DEF Next, ReadFails

(* When cellForItemAt invalidates nothing, timerArray has one number at most,
   and every timer alive is registered under it. *)
LEMMA OneRegistered ==
    ASSUME IdsInv, IdsInv', CellForItem
    PROVE  Cardinality(live') <= 1
<1>1. CASE InvalidateTimers
  <2>1. live' = {}
    BY <1>1 DEF IdsInv, Registered, CellForItem
  <2> QED
    BY <2>1, FS_EmptySet
<1>2. CASE ~InvalidateTimers
  <2>1. IsFiniteSet(timerArray) /\ Cardinality(timerArray) \in Nat
    <3>1. IsFiniteSet(1..MaxStarts) /\ timerArray \subseteq 1..MaxStarts
      BY BoundsAssumption, FS_Interval DEF IdsInv, TypeOK, TimersOK
    <3> QED
      BY <3>1, FS_Subset, FS_CardinalityType
  <2>2. Cardinality(timerArray) \in {0, 1} /\ timerArray' = timerArray
    BY <1>2, <2>1 DEF InvalidateTimers, CellForItem, timerVars
  <2>3. \A i, j \in timerArray : i = j
    <3>1. CASE Cardinality(timerArray) = 0
      BY <2>1, <3>1, FS_EmptySet
    <3>2. CASE Cardinality(timerArray) = 1
      <4>1. \E i : timerArray = {i}
        BY <2>1, <3>2, FS_Singleton
      <4> QED
        BY <4>1
    <3> QED
      BY <2>2, <3>1, <3>2
  <2>4. \A t, u \in live' : t = u
    BY <2>2, <2>3 DEF IdsInv, Registered, OnePlace, TimersDiffer
  <2>5. live' = {} \/ \E t : live' = {t}
    BY <2>4
  <2>6. live' = {} => Cardinality(live') = 0
    BY FS_EmptySet
  <2>7. ASSUME NEW t, live' = {t}
        PROVE  Cardinality(live') = 1
    BY <2>7, FS_Singleton
  <2>8. Cardinality(live') = 0 \/ Cardinality(live') = 1
    BY <2>5, <2>6, <2>7
  <2> QED
    BY <2>8
<1> QED
  BY <1>1, <1>2

(* Configuring a cell leaves at most one timer alive, for any number of cells,
   habits and starts, and in whatever order the reads are answered, the timers
   fire and the user taps: the test timerArray.count - 1 > 0 of cellForItemAt
   spares one timer, never two. *)
THEOREM OneSurvives == Spec => OneTimerSurvives
<1>1. Init => IdsInv
  BY InitIds
<1>2. IdsInv /\ [Next]_vars => IdsInv'
  BY NextIds
<1>3. IdsInv /\ IdsInv' /\ [Next]_vars => [Configured => Cardinality(live') <= 1]_vars
  <2> SUFFICES ASSUME IdsInv, IdsInv', Configured PROVE Cardinality(live') <= 1
    OBVIOUS
  <2>1. CellForItem
    BY ConfiguredIds DEF IdsInv
  <2> QED
    BY <2>1, OneRegistered
<1> QED
  BY <1>1, <1>2, <1>3, PTL DEF Spec, OneTimerSurvives

----------------------------------------------------------------------------
\* The invariant of a careful user

(* What was asked and is not shown yet, in the order it will be shown when the
   reads are answered in their order. *)
Count == Len(mainQueue) + Len(reads)

Asked == [k \in 1..Count |-> IF k <= Len(mainQueue) THEN mainQueue[k].read
                             ELSE reads[k - Len(mainQueue)]]

(* A timer counts in the cell that shows its habit and holds it. *)
TimerInPlace(t) ==
    /\ startVar[t.cell] /\ t.id = timer[t.cell] /\ t.repeats
    /\ t.row \in DOMAIN cellAt /\ cellAt[t.row] = t.cell

TimersInPlace == \A t \in live : TimerInPlace(t)

RowsRemembered == \A r \in DOMAIN cellAt : indexPathCell[cellAt[r]] = r

ButtonsStopped == \A c \in pressed : ~startVar[c]

(* While the list is loaded no timer counts. *)
LoadedQuietly == loaded \in Rows => live = {}

(* The answer a start waits for is the only one, and its cell has no timer. *)
StartAlone(k) ==
    /\ loaded \notin Rows /\ Count = 1
    /\ startVar[Asked[k].cell]
    /\ Asked[k].row \in DOMAIN cellAt /\ cellAt[Asked[k].row] = Asked[k].cell
    /\ \A t \in live : t.cell # Asked[k].cell

StartsAlone == \A k \in 1..Count : Asked[k].id # 0 => StartAlone(k)

AnswersTrue ==
    \A k \in 1..Len(mainQueue) : mainQueue[k].snap = <<time[mainQueue[k].read.row]>>

(* A cell shows the time of its habit, or less when it counts; or the last
   answer it waits for is that time. *)
Quiet(c) == \A k \in 1..Count : Asked[k].cell # c

Shown(c, r) == displayed[c] <= time[r] /\ (~startVar[c] => displayed[c] = time[r])

LastFor(c, k) == Asked[k].cell = c /\ \A j \in 1..Count : j > k => Asked[j].cell # c

Awaited(c, r) == \E k \in 1..Count : Asked[k].row = r /\ LastFor(c, k)

Current(r) == Awaited(cellAt[r], r) \/ (Quiet(cellAt[r]) /\ Shown(cellAt[r], r))

AllCurrent == \A r \in DOMAIN cellAt : addFirebase[r] => Current(r)

PlacesOK ==
    /\ app = "running" /\ TimersInPlace /\ RowsRemembered /\ ButtonsStopped
    /\ LoadedQuietly /\ StartsAlone

CareInv == TypeOK /\ PlacesOK /\ (readErrors = 0 => AnswersTrue /\ AllCurrent)

(* A read that was asked is one of the reads, or answered. *)
AskedOK ==
    /\ Len(reads) \in Nat /\ Len(mainQueue) \in Nat
    /\ Count \in Nat /\ Count = Len(mainQueue) + Len(reads)
    /\ \A k \in 1..Count : Asked[k] \in ReadType
    /\ \A k \in 1..Len(mainQueue) :
          /\ k \in 1..Count /\ Asked[k] = mainQueue[k].read
          /\ mainQueue[k] \in AnswerType
    /\ \A k \in 1..Len(reads) :
          Len(mainQueue) + k \in 1..Count /\ Asked[Len(mainQueue) + k] = reads[k]

LEMMA AskedType == TypeOK => AskedOK
<1> SUFFICES ASSUME TypeOK PROVE AskedOK
  OBVIOUS
<1>1. reads \in Seq(ReadType) /\ mainQueue \in Seq(AnswerType)
  BY DEF TypeOK, QueuesOK
<1>2. Len(reads) \in Nat /\ Len(mainQueue) \in Nat
  BY <1>1
<1>3. /\ \A k \in 1..Len(reads) : reads[k] \in ReadType
      /\ \A k \in 1..Len(mainQueue) : mainQueue[k] \in AnswerType
  BY <1>1, ElementOfSeq
<1>4. \A k \in 1..Len(mainQueue) : k \in 1..Count /\ Asked[k] = mainQueue[k].read
  BY <1>2 DEF Count, Asked
<1>5. ASSUME NEW k \in 1..Len(reads)
      PROVE  Len(mainQueue) + k \in 1..Count /\ Asked[Len(mainQueue) + k] = reads[k]
  <2>1. Len(mainQueue) + k \in 1..Count /\ ~(Len(mainQueue) + k <= Len(mainQueue))
        /\ (Len(mainQueue) + k) - Len(mainQueue) = k
    BY <1>2 DEF Count
  <2> QED
    BY <2>1 DEF Asked
<1>6. ASSUME NEW k \in 1..Count
      PROVE  Asked[k] \in ReadType
  <2>1. CASE k <= Len(mainQueue)
    <3>1. k \in 1..Len(mainQueue)
      BY <1>2, <2>1 DEF Count
    <3> QED
      BY <1>3, <1>4, <3>1 DEF AnswerType
  <2>2. CASE ~(k <= Len(mainQueue))
    <3>1. k - Len(mainQueue) \in 1..Len(reads) /\ Len(mainQueue) + (k - Len(mainQueue)) = k
      BY <1>2, <2>2 DEF Count
    <3>2. Asked[Len(mainQueue) + (k - Len(mainQueue))] = reads[k - Len(mainQueue)]
      BY <1>5, <3>1
    <3> QED
      BY <1>3, <3>1, <3>2
  <2> QED
    BY <2>1, <2>2
<1> QED
  BY <1>2, <1>3, <1>4, <1>5, <1>6 DEF Count, AskedOK

LEMMA AskedTypeAfter == TypeOK' => AskedOK'
BY AskedType, PTL

LEMMA AskedFields ==
    ASSUME TypeOK, NEW k \in 1..Count
    PROVE  /\ Asked[k].cell \in Cells /\ Asked[k].row \in Rows
           /\ Asked[k].id \in 0..MaxStarts
BY AskedType DEF AskedOK, ReadType

LEMMA NothingAsked ==
    ASSUME Idle
    PROVE  Count = 0 /\ Len(reads) = 0 /\ Len(mainQueue) = 0 /\ 1..Count = {}
BY DEF Idle, Count

LEMMA SameAsked ==
    ASSUME UNCHANGED <<reads, mainQueue>>
    PROVE  Asked' = Asked /\ Count' = Count
BY DEF Asked, Count

(* An answer is still one of the things asked; the first of the reads keeps its
   place. *)
LEMMA AnsweredAsked ==
    ASSUME TypeOK, NEW i \in DOMAIN reads, NEW snap, Answered(i, snap)
    PROVE  /\ TypeOK' /\ Count' = Count
           /\ \A k \in 1..Count : \E j \in 1..Count : Asked'[k] = Asked[j]
           /\ i = 1 => \A k \in 1..Count : Asked'[k] = Asked[k]
<1> DEFINE m == Len(mainQueue)
<1>1. /\ TypeOK' /\ i \in 1..Len(reads) /\ Len(reads') = Len(reads) - 1
      /\ \A k \in 1..Len(reads') :
            Others(k, i) \in 1..Len(reads) /\ reads'[k] = reads[Others(k, i)]
      /\ Len(mainQueue') = m + 1
      /\ \A k \in 1..m : mainQueue'[k] = mainQueue[k]
      /\ mainQueue'[m + 1].read = reads[i]
  <2>1. /\ TypeOK /\ snap \in Seq(Nat) /\ Answer(i, snap)
        /\ readErrors' \in 0..MaxReadErrors
    BY DEF Answered
  <2>2. [read |-> reads[i], snap |-> snap].read = reads[i]
    OBVIOUS
  <2> QED
    BY <2>1, <2>2, AnswerIsTyped
<1>2. /\ Len(reads) \in Nat /\ m \in Nat /\ Count = m + Len(reads)
      /\ \A k \in 1..m : k \in 1..Count /\ Asked[k] = mainQueue[k].read
      /\ \A k \in 1..Len(reads) : m + k \in 1..Count /\ Asked[m + k] = reads[k]
  BY AskedType DEF AskedOK
<1>3. /\ Count' = Len(mainQueue') + Len(reads')
      /\ \A k \in 1..Len(mainQueue') : Asked'[k] = mainQueue'[k].read
      /\ \A k \in 1..Len(reads') : Asked'[Len(mainQueue') + k] = reads'[k]
  BY <1>1, AskedTypeAfter DEF AskedOK
<1> HIDE DEF m
<1>4. Count' = Count
  BY <1>1, <1>2, <1>3
<1>5. ASSUME NEW k \in 1..Count
      PROVE  \E j \in 1..Count : Asked'[k] = Asked[j] /\ (i = 1 => j = k)
  <2>1. CASE k \in 1..m
    <3>1. k \in 1..Len(mainQueue')
      BY <1>1, <1>2, <2>1
    <3> QED
      BY <1>1, <1>2, <1>3, <2>1, <3>1
  <2>2. CASE k = m + 1
    <3>1. Asked'[k] = reads[i]
      BY <1>1, <1>2, <1>3, <2>2
    <3>2. m + i \in 1..Count /\ Asked[m + i] = reads[i] /\ (i = 1 => m + i = k)
      BY <1>1, <1>2, <2>2
    <3> QED
      BY <3>1, <3>2
  <2>3. CASE k > m + 1
    <3> DEFINE l == k - (m + 1)
    <3>1. l \in 1..Len(reads') /\ k = Len(mainQueue') + l
      BY <1>1, <1>2, <2>3
    <3>2. Asked'[k] = reads[Others(l, i)] /\ Others(l, i) \in 1..Len(reads)
      BY <1>1, <1>3, <3>1
    <3>3. i = 1 => m + Others(l, i) = k
      BY <1>1, <1>2, <3>1 DEF Others
    <3> QED
      BY <1>2, <3>2, <3>3
  <2>4. k \in Nat /\ k >= 1 /\ m \in Nat
    BY <1>2
  <2>5. k \in 1..m \/ k = m + 1 \/ k > m + 1
    BY <2>4
  <2> QED
    BY <2>1, <2>2, <2>3, <2>5
<1> QED
  BY <1>1, <1>4, <1>5

(* The block shows the first of them. *)
LEMMA RunTimeAsked ==
    ASSUME TypeOK, RunTime
    PROVE  /\ TypeOK' /\ Count' = Count - 1 /\ 1 \in 1..Count /\ 1 \in 1..Len(mainQueue)
           /\ Asked[1] = mainQueue[1].read
           /\ \A k \in 1..Count' : k + 1 \in 1..Count /\ Asked'[k] = Asked[k + 1]
<1>1. /\ TypeOK' /\ 1 \in 1..Len(mainQueue)
      /\ Len(mainQueue') = Len(mainQueue) - 1
      /\ \A k \in 1..Len(mainQueue') :
            k + 1 \in 1..Len(mainQueue) /\ mainQueue'[k] = mainQueue[k + 1]
  BY RunTimeType
<1>2. reads' = reads
  BY DEF RunTime
<1> DEFINE m == Len(mainQueue)
           n == Len(reads)
<1>3. /\ n \in Nat /\ m \in Nat /\ Count = m + n
      /\ \A k \in 1..m : k \in 1..Count /\ Asked[k] = mainQueue[k].read
      /\ \A k \in 1..n : m + k \in 1..Count /\ Asked[m + k] = reads[k]
  BY AskedType DEF AskedOK
<1>4. /\ Count' = Len(mainQueue') + n
      /\ \A k \in 1..Len(mainQueue') : Asked'[k] = mainQueue'[k].read
      /\ \A k \in 1..n : Asked'[Len(mainQueue') + k] = reads[k]
  <2>1. /\ Count' = Len(mainQueue') + Len(reads')
        /\ \A k \in 1..Len(mainQueue') : Asked'[k] = mainQueue'[k].read
        /\ \A k \in 1..Len(reads') : Asked'[Len(mainQueue') + k] = reads'[k]
    BY <1>1, AskedTypeAfter DEF AskedOK
  <2> QED
    BY <1>2, <2>1
<1>5. m \in Nat /\ n \in Nat /\ Len(mainQueue') = m - 1 /\ 1 \in 1..m
  BY <1>1, <1>3
<1> HIDE DEF m, n
<1>6. ASSUME NEW k \in 1..Count'
      PROVE  k + 1 \in 1..Count /\ Asked'[k] = Asked[k + 1]
  <2>1. k \in 1..(m - 1) \/ k - (m - 1) \in 1..n
    BY <1>4, <1>5
  <2>2. CASE k \in 1..(m - 1)
    <3>1. k \in 1..Len(mainQueue') /\ k + 1 \in 1..m
      BY <1>5, <2>2
    <3> QED
      BY <1>1, <1>3, <1>4, <3>1
  <2>3. CASE k - (m - 1) \in 1..n
    <3> DEFINE l == k - (m - 1)
    <3>1. l \in 1..n /\ k = Len(mainQueue') + l /\ k + 1 = m + l
      BY <1>5, <2>3
    <3> HIDE DEF l
    <3> QED
      BY <1>3, <1>4, <3>1
  <2> QED
    BY <2>1, <2>2, <2>3
<1>7. 1 \in 1..Count /\ Asked[1] = mainQueue[1].read
  BY <1>3, <1>5
<1>8. Count' = Count - 1
  BY <1>3, <1>4, <1>5
<1> QED
  BY <1>1, <1>6, <1>7, <1>8
(* Configuring cells asks for the time of each of their habits that is not
   finished, once, behind everything else. *)
AskedBehind(rows, cells) ==
    /\ Count' \in Nat
    /\ \A k \in 1..Count : k \in 1..Count' /\ Asked'[k] = Asked[k]
    /\ \A k \in 1..Count' : k <= Count \/
          \E r \in rows : addFirebase[r] /\ Asked'[k] = Read(cells[r], r, 0)
    /\ \A r \in rows : addFirebase[r] =>
          \E k \in 1..Count' :
              /\ Asked'[k] = Read(cells[r], r, 0)
              /\ \A j \in 1..Count' : j > k => j > Count /\ Asked'[j].row # r

LEMMA ConfigureAsked ==
    ASSUME TypeOK, TypeOK', NEW rows \in SUBSET Rows, NEW cells \in [rows -> Cells],
           Configure(cells), UNCHANGED mainQueue
    PROVE  AskedBehind(rows, cells)
<1> DEFINE due == {r \in rows : addFirebase[r]}
           n   == Cardinality(due)
           m   == Len(reads)
<1>1. PICK order \in SetToSeqs({r \in DOMAIN cells : addFirebase[r]}) :
         reads' = reads \o [i \in DOMAIN order |-> Read(cells[order[i]], order[i], 0)]
  BY DEF Configure
<1>2. IsFiniteSet(due) /\ n \in Nat
  BY RowsAreNumbers, FS_Subset, FS_CardinalityType
<1>3. order \in [1..n -> due] /\ \A i, j \in 1..n : i # j => order[i] # order[j]
  <2>1. DOMAIN cells = rows
    OBVIOUS
  <2>2. order \in SetToSeqs(due)
    BY <1>1, <2>1
  <2> HIDE DEF due
  <2> QED
    BY <2>2 DEF SetToSeqs
<1> DEFINE new == [i \in DOMAIN order |-> Read(cells[order[i]], order[i], 0)]
<1>4. DOMAIN new = 1..n /\ \A i \in 1..n : new[i] = Read(cells[order[i]], order[i], 0)
  BY <1>3
<1>5. \A r \in due : r \in rows /\ r \in Rows /\ addFirebase[r]
  OBVIOUS
<1>6. reads' = reads \o new
  BY <1>1
<1> HIDE DEF due, new
<1>7. \A i \in 1..n : new[i] \in ReadType
  BY <1>3, <1>4, <1>5, BoundsAssumption DEF Read, ReadType
<1>8. new \in Seq(ReadType) /\ Len(new) = n
  <2>1. new = [i \in 1..n |-> new[i]]
    <3>1. new = [i \in DOMAIN order |-> Read(cells[order[i]], order[i], 0)]
      BY DEF new
    <3> HIDE DEF n
    <3> QED
      BY <1>4, <3>1
  <2>2. new \in [1..n -> ReadType]
    BY <1>4, <1>7, <2>1
  <2> HIDE DEF n
  <2> QED
    BY <1>2, <2>2
<1>9. reads \in Seq(ReadType) /\ m \in Nat
  BY DEF TypeOK, QueuesOK
<1>10. /\ Len(reads') = m + n
       /\ \A k \in 1..(m + n) : reads'[k] = IF k <= m THEN reads[k] ELSE new[k - m]
  <2> HIDE DEF n
  <2>1. /\ Len(reads \o new) = Len(reads) + Len(new)
        /\ \A k \in 1..(Len(reads) + Len(new)) :
              (reads \o new)[k] = IF k <= Len(reads) THEN reads[k] ELSE new[k - Len(reads)]
    BY <1>8, <1>9, ConcatProperties
  <2> QED
    BY <1>6, <1>8, <2>1
<1> DEFINE q == Len(mainQueue)
<1>11. /\ q \in Nat /\ Count = q + m
       /\ \A k \in 1..q : k \in 1..Count /\ Asked[k] = mainQueue[k].read
       /\ \A k \in 1..m : q + k \in 1..Count /\ Asked[q + k] = reads[k]
  BY AskedType DEF AskedOK
<1>12. /\ Count' = q + m + n
       /\ \A k \in 1..q : Asked'[k] = mainQueue[k].read
       /\ \A k \in 1..(m + n) : Asked'[q + k] = reads'[k]
  <2>1. /\ Count' = Len(mainQueue') + Len(reads')
        /\ \A k \in 1..Len(mainQueue') : Asked'[k] = mainQueue'[k].read
        /\ \A k \in 1..Len(reads') : Asked'[Len(mainQueue') + k] = reads'[k]
    BY AskedTypeAfter DEF AskedOK
  <2>2. Count' = q + (m + n)
    BY <1>10, <2>1
  <2> QED
    BY <1>2, <1>9, <1>10, <1>11, <2>1, <2>2
<1> HIDE DEF n, m, q
<1>13. \A k \in 1..Count : k \in 1..Count' /\ Asked'[k] = Asked[k]
  <2> TAKE k \in 1..Count
  <2>1. CASE k \in 1..q
    BY <1>2, <1>9, <1>11, <1>12, <2>1
  <2>2. CASE k \notin 1..q
    <3>1. k - q \in 1..m /\ k = q + (k - q)
      BY <1>9, <1>11, <2>2
    <3>2. k - q \in 1..(m + n) /\ k - q <= m
      BY <1>2, <1>9, <1>11, <3>1
    <3>3. Asked'[q + (k - q)] = reads'[k - q] /\ reads'[k - q] = reads[k - q]
          /\ Asked[q + (k - q)] = reads[k - q]
      BY <1>10, <1>11, <1>12, <3>1, <3>2
    <3> QED
      BY <1>2, <1>9, <1>11, <1>12, <3>1, <3>3
  <2> QED
    BY <2>1, <2>2
<1>14. \A i \in 1..n : /\ Count + i \in 1..Count'
                       /\ Asked'[Count + i] = Read(cells[order[i]], order[i], 0)
  <2> TAKE i \in 1..n
  <2>1. m + i \in 1..(m + n) /\ ~(m + i <= m) /\ (m + i) - m = i /\ Count + i = q + (m + i)
        /\ Count + i \in 1..Count'
    BY <1>2, <1>9, <1>11, <1>12
  <2>2. Asked'[q + (m + i)] = new[i]
    BY <1>10, <1>12, <2>1
  <2> QED
    BY <1>4, <2>1, <2>2
<1>15. \A k \in 1..Count' : k <= Count \/ (k - Count \in 1..n /\ k = Count + (k - Count))
  BY <1>2, <1>9, <1>11, <1>12
<1>16. \A k \in 1..Count' : k <= Count \/
          \E r \in rows : addFirebase[r] /\ Asked'[k] = Read(cells[r], r, 0)
  <2> TAKE k \in 1..Count'
  <2>1. CASE k - Count \in 1..n /\ k = Count + (k - Count)
    <3>1. order[k - Count] \in due
      BY <1>3, <2>1
    <3> QED
      BY <1>5, <1>14, <2>1, <3>1
  <2> QED
    BY <1>15, <2>1
<1>17. ASSUME NEW r \in rows, addFirebase[r]
       PROVE  \E k \in 1..Count' :
                 /\ Asked'[k] = Read(cells[r], r, 0)
                 /\ \A j \in 1..Count' : j > k => j > Count /\ Asked'[j].row # r
  <2>1. \E i \in 1..n : order[i] = r
    <3>1. order \in Injection(1..n, due)
      BY <1>3 DEF Injection, IsInjective
    <3>2. IsFiniteSet(1..n) /\ Cardinality(1..n) = n
      BY <1>2, FS_Interval
    <3>3. order \in Surjection(1..n, due)
      BY <1>2, <3>1, <3>2, FS_Injection DEF n
    <3>4. r \in due
      BY <1>17 DEF due
    <3> QED
      BY <3>3, <3>4 DEF Surjection
  <2>2. PICK i \in 1..n : order[i] = r
    BY <2>1
  <2>3. Count + i \in 1..Count' /\ Asked'[Count + i] = Read(cells[r], r, 0)
    BY <1>14, <2>2
  <2>4. ASSUME NEW j \in 1..Count', j > Count + i
        PROVE  j > Count /\ Asked'[j].row # r
    <3>1. j > Count /\ j - Count \in 1..n /\ j = Count + (j - Count) /\ j - Count # i
      BY <1>2, <1>9, <1>11, <1>15, <2>4
    <3>2. order[j - Count] # r
      BY <1>3, <2>2, <3>1
    <3>3. Asked'[j] = Read(cells[order[j - Count]], order[j - Count], 0)
      BY <1>14, <3>1
    <3> QED
      BY <3>1, <3>2, <3>3 DEF Read
  <2> QED
    BY <2>3, <2>4
<1>18. Count' \in Nat
  BY <1>2, <1>9, <1>11, <1>12
<1> QED
  BY <1>13, <1>16, <1>17, <1>18 DEF AskedBehind
----------------------------------------------------------------------------
\* The steps of a careful user

(* What configuring cells does to the rows they remember. *)
LEMMA ConfigureRows ==
    ASSUME NEW rows \in SUBSET Rows, NEW cells \in [rows -> Cells],
           \A r, s \in rows : cells[r] = cells[s] => r = s,
           Configure(cells)
    PROVE  /\ \A r \in rows : indexPathCell'[cells[r]] = r
           /\ \A c \in Cells : (\A r \in rows : cells[r] # c) =>
                                  indexPathCell'[c] = indexPathCell[c]
           /\ pressed' \subseteq pressed
<1>1. indexPathCell' = [c \in Cells |-> IF \E r \in rows : cells[r] = c
                                        THEN CHOOSE r \in rows : cells[r] = c
                                        ELSE indexPathCell[c]]
  BY DEF Configure
<1>2. ASSUME NEW r \in rows
      PROVE  indexPathCell'[cells[r]] = r
  <2>1. \E s \in rows : cells[s] = cells[r]
    OBVIOUS
  <2> DEFINE chosen == CHOOSE s \in rows : cells[s] = cells[r]
  <2>2. chosen \in rows /\ cells[chosen] = cells[r]
    BY <2>1
  <2>3. indexPathCell'[cells[r]] = chosen
    BY <1>1, <2>1
  <2> HIDE DEF chosen
  <2> QED
    BY <2>2, <2>3
<1>3. ASSUME NEW c \in Cells, \A r \in rows : cells[r] # c
      PROVE  indexPathCell'[c] = indexPathCell[c]
  BY <1>1, <1>3
<1>4. pressed' \subseteq pressed
  BY DEF Configure
<1> QED
  BY <1>2, <1>3, <1>4

(* Fewer timers, on the same screen, with the same things asked. *)
LEMMA FewerPlaces ==
    ASSUME PlacesOK, live' \subseteq live, pressed' \subseteq pressed,
           UNCHANGED <<app, startVar, timer, cellAt, indexPathCell, reads, mainQueue>>,
           loaded' = loaded \/ (loaded' = 0 /\ live = {} /\ Idle)
    PROVE  PlacesOK'
<1>1. Asked' = Asked /\ Count' = Count
  BY SameAsked
<1>2. TimersInPlace'
  BY DEF PlacesOK, TimersInPlace, TimerInPlace
<1>3. LoadedQuietly'
  BY DEF PlacesOK, LoadedQuietly
<1>4. StartsAlone'
  <2>1. CASE loaded' = loaded
    BY <1>1, <2>1 DEF PlacesOK, StartsAlone, StartAlone
  <2>2. CASE Idle
    BY <1>1, <2>2, NothingAsked DEF StartsAlone
  <2> QED
    BY <2>1, <2>2
<1> QED
  BY <1>2, <1>3, <1>4 DEF PlacesOK, RowsRemembered, ButtonsStopped

LEMMA HabitArrivesPlaces ==
    ASSUME CareInv, TypeOK', HabitArrives
    PROVE  PlacesOK'
<1>1. PICK cells \in [0..loaded -> Cells] :
         /\ cellAt' = cells /\ Configure(cells)
         /\ \A r, s \in 0..loaded : cells[r] = cells[s] => r = s
  <2>1. loaded \in Nat
    BY RowsAreNumbers DEF CareInv, TypeOK, ListOK
  <2>2. (loaded + 1) - 1 = loaded
    BY <2>1
  <2> QED
    BY <2>2 DEF HabitArrives, ReloadData
<1>2. loaded \in Rows /\ 0..loaded \in SUBSET Rows
  BY RowsAreNumbers DEF HabitArrives, CareInv, TypeOK, ListOK
<1>3. TypeOK /\ UNCHANGED <<app, mainQueue, startVar>> /\ app = "running"
  BY DEF CareInv, HabitArrives
<1>4. /\ \A r \in 0..loaded : indexPathCell'[cells[r]] = r
      /\ pressed' \subseteq pressed
  BY <1>1, <1>2, ConfigureRows
<1>5. live' = {}
  BY <1>1, <1>2, <1>3, CellForItemType DEF Configure, CareInv, PlacesOK, LoadedQuietly
<1>6. AskedBehind(0..loaded, cells)
  BY <1>1, <1>2, <1>3, ConfigureAsked
<1>7. StartsAlone'
  <2>1. \A k \in 1..Count : Asked[k].id = 0
    BY <1>2 DEF CareInv, PlacesOK, StartsAlone, StartAlone
  <2>2. \A k \in 1..Count' : Asked'[k].id = 0
    <3> TAKE k \in 1..Count'
    <3>1. CASE k <= Count
      <4>1. k \in 1..Count
        BY <1>3, <3>1, AskedType DEF AskedOK
      <4> QED
        BY <1>6, <2>1, <4>1 DEF AskedBehind
    <3>2. CASE \E r \in 0..loaded : Asked'[k] = Read(cells[r], r, 0)
      BY <3>2 DEF Read
    <3> QED
      BY <1>6, <3>1, <3>2 DEF AskedBehind
  <2> QED
    BY <2>2 DEF StartsAlone
<1>8. RowsRemembered' /\ ButtonsStopped'
  <2>1. DOMAIN cellAt' = 0..loaded /\ cellAt' = cells
    BY <1>1
  <2> QED
    BY <1>3, <1>4, <2>1 DEF RowsRemembered, ButtonsStopped, CareInv, PlacesOK
<1> QED
  BY <1>3, <1>5, <1>7, <1>8 DEF PlacesOK, TimersInPlace, LoadedQuietly

(* A tap on a cell with buttons: its habit may get another cell. *)
LEMMA TapPressedPlaces ==
    ASSUME CareInv, TypeOK', Idle, loaded \notin Rows,
           NEW r \in Rows, NEW c \in Cells, TapPressed(r, c)
    PROVE  PlacesOK'
<1>1. PICK d \in Cells \ {cellAt[s] : s \in DOMAIN cellAt \ {r}} :
         cellAt' = [cellAt EXCEPT ![r] = d] /\ Configure([s \in {r} |-> d])
  BY DEF TapPressed, ReloadItem
<1> DEFINE cells == [s \in {r} |-> d]
<1>2. cells \in [{r} -> Cells] /\ {r} \in SUBSET Rows /\ cells[r] = d
      /\ \A s \in {r} : s = r
  BY <1>1
<1>3. /\ TypeOK /\ UNCHANGED <<app, mainQueue, startVar, timer, loaded>>
      /\ r \in DOMAIN cellAt /\ c = cellAt[r] /\ c \in pressed
  BY DEF CareInv, TapPressed, CanTouch
<1>4. Configure(cells)
  BY <1>1
<1> HIDE DEF cells
<1>5. /\ indexPathCell'[d] = r
      /\ \A e \in Cells : e # d => indexPathCell'[e] = indexPathCell[e]
      /\ pressed' \subseteq pressed
  <2>1. \A e \in Cells : e # d => \A s \in {r} : cells[s] # e
    BY <1>2
  <2> QED
    BY <1>2, <1>4, <2>1, ConfigureRows
<1>6. live' \subseteq live
  BY <1>3, <1>4, CellForItemType DEF Configure
<1>7. /\ DOMAIN cellAt' = DOMAIN cellAt /\ cellAt'[r] = d
      /\ \A s \in DOMAIN cellAt : s # r => cellAt'[s] = cellAt[s] /\ cellAt[s] # d
                                           /\ cellAt[s] \in Cells
  BY <1>1, <1>3 DEF TypeOK, ScreenOK
<1>8. TimersInPlace'
  <2>1. ASSUME NEW t \in live'
        PROVE  TimerInPlace(t)'
    <3>1. TimerInPlace(t)
      BY <1>6, <2>1 DEF CareInv, PlacesOK, TimersInPlace
    <3>2. ~startVar[c]
      BY <1>3 DEF CareInv, PlacesOK, ButtonsStopped
    <3>3. t.row # r
      BY <1>3, <3>1, <3>2 DEF TimerInPlace
    <3> QED
      BY <1>3, <1>7, <3>1, <3>3 DEF TimerInPlace
  <2> QED
    BY <2>1 DEF TimersInPlace
<1>9. RowsRemembered'
  <2>1. \A s \in DOMAIN cellAt : indexPathCell[cellAt[s]] = s
    BY DEF CareInv, PlacesOK, RowsRemembered
  <2>2. \A s \in DOMAIN cellAt' : indexPathCell'[cellAt'[s]] = s
    BY <1>5, <1>7, <2>1
  <2> QED
    BY <2>2 DEF RowsRemembered
<1>10. StartsAlone'
  <2>1. AskedBehind({r}, cells)
    BY <1>2, <1>3, <1>4, ConfigureAsked
  <2>2. \A k \in 1..Count' : Asked'[k].id = 0
    <3> TAKE k \in 1..Count'
    <3>1. ~(k <= Count)
      BY <2>1, NothingAsked DEF AskedBehind
    <3> QED
      BY <2>1, <3>1 DEF AskedBehind, Read
  <2> QED
    BY <2>2 DEF StartsAlone
<1> QED
  BY <1>3, <1>5, <1>8, <1>9, <1>10
  DEF CareInv, PlacesOK, ButtonsStopped, LoadedQuietly

LEMMA StartPlaces ==
    ASSUME CareInv, TypeOK', Idle, loaded \notin Rows,
           NEW r \in Rows, NEW c \in Cells, Start(r, c)
    PROVE  /\ PlacesOK'
           /\ Count' = 1 /\ Asked'[1] = Read(c, r, starts')
<1>1. /\ TypeOK /\ starts' \in Nat /\ r \in DOMAIN cellAt /\ c = cellAt[r] /\ c \notin pressed
      /\ ~startVar[c] /\ startVar' = [startVar EXCEPT ![c] = TRUE]
      /\ UNCHANGED <<app, cellAt, indexPathCell, pressed, timer, live, loaded, mainQueue>>
  <2>1. starts' \in Nat
    BY StartType, BoundsAssumption DEF CareInv
  <2> QED
    BY <2>1 DEF CareInv, Start, CanTap, CanTouch, screenVars, timerVars
<1>2. startVar \in [Cells -> BOOLEAN]
  BY <1>1 DEF TypeOK, TimersOK
<1>3. /\ reads' = Append(reads, Read(c, r, starts')) /\ reads \in Seq(ReadType)
      /\ Read(c, r, starts') \in ReadType
  BY <1>1, StartType DEF TypeOK, QueuesOK
<1>4. Len(reads') = 1 /\ reads'[1] = Read(c, r, starts') /\ Len(mainQueue') = 0
  BY <1>1, <1>3, AppendType, NothingAsked
<1>5. Count' = 1 /\ Asked'[1] = Read(c, r, starts')
  BY <1>4, AskedTypeAfter DEF AskedOK
<1>6. \A t \in live : t.cell # c
  BY <1>1 DEF CareInv, PlacesOK, TimersInPlace, TimerInPlace
<1>7. TimersInPlace'
  <2>1. \A t \in live : t.cell \in Cells
    BY <1>1 DEF TypeOK, TimersOK, TimerType
  <2>2. ASSUME NEW t \in live'
        PROVE  TimerInPlace(t)'
    BY <1>1, <1>2, <1>6, <2>1, <2>2 DEF CareInv, PlacesOK, TimersInPlace, TimerInPlace
  <2> QED
    BY <2>2 DEF TimersInPlace
<1>8. ButtonsStopped'
  <2>1. pressed \subseteq Cells
    BY <1>1 DEF TypeOK, ScreenOK
  <2> QED
    BY <1>1, <1>2, <2>1 DEF CareInv, PlacesOK, ButtonsStopped
<1>9. StartsAlone'
  <2>1. \A k \in 1..Count' : k = 1
    BY <1>5
  <2>2. StartAlone(1)'
    BY <1>1, <1>2, <1>5, <1>6 DEF StartAlone, Read
  <2>3. ASSUME NEW k \in 1..Count'
        PROVE  StartAlone(k)'
    <3>1. k = 1
      BY <2>1, <2>3
    <3> QED
      BY <2>2, <3>1 DEF StartAlone
  <2> QED
    BY <2>3 DEF StartsAlone
<1> QED
  BY <1>1, <1>5, <1>7, <1>8, <1>9 DEF CareInv, PlacesOK, RowsRemembered, LoadedQuietly

(* Stop, and a long press. *)
LEMMA StopPlaces ==
    ASSUME CareInv, Idle, NEW r \in Rows, NEW c \in Cells, StopCountdown(r, c),
           pressed' \subseteq pressed \cup {c}
    PROVE  PlacesOK'
<1>1. /\ TypeOK /\ live' = Without(live, timer[c])
      /\ startVar' = [startVar EXCEPT ![c] = FALSE]
      /\ UNCHANGED <<app, cellAt, indexPathCell, timer, loaded, reads, mainQueue>>
  BY DEF CareInv, StopCountdown, Invalidate
<1>2. startVar \in [Cells -> BOOLEAN] /\ pressed \subseteq Cells
      /\ \A t \in live : t.cell \in Cells
  BY <1>1 DEF TypeOK, TimersOK, ScreenOK, TimerType
<1>3. TimersInPlace'
  <2>1. ASSUME NEW t \in live'
        PROVE  TimerInPlace(t)'
    <3>1. t \in live /\ t.id # timer[c] /\ TimerInPlace(t)
      BY <1>1, <2>1 DEF Without, CareInv, PlacesOK, TimersInPlace
    <3>2. t.cell # c
      BY <3>1 DEF TimerInPlace
    <3> QED
      BY <1>1, <1>2, <3>1, <3>2 DEF TimerInPlace
  <2> QED
    BY <2>1 DEF TimersInPlace
<1>4. ButtonsStopped'
  <2>1. \A d \in pressed' : d = c \/ (d \in pressed /\ d \in Cells)
    BY <1>2
  <2> QED
    BY <1>1, <1>2, <2>1 DEF CareInv, PlacesOK, ButtonsStopped
<1>5. StartsAlone'
  BY <1>1, SameAsked, NothingAsked DEF StartsAlone
<1> QED
  BY <1>1, <1>3, <1>4, <1>5 DEF CareInv, PlacesOK, RowsRemembered, LoadedQuietly, Without
LEMMA AnsweredPlaces ==
    ASSUME CareInv, NEW i \in DOMAIN reads, NEW snap, Answered(i, snap)
    PROVE  PlacesOK'
<1>1. /\ Count' = Count
      /\ \A k \in 1..Count : \E j \in 1..Count : Asked'[k] = Asked[j]
  BY AnsweredAsked DEF CareInv
<1>2. UNCHANGED <<app, startVar, timer, cellAt, indexPathCell, pressed, loaded, live>>
  BY DEF Answered, Answer, cellVars, screenVars, timerVars
<1>3. StartsAlone'
  <2>1. ASSUME NEW k \in 1..Count', Asked'[k].id # 0
        PROVE  StartAlone(k)'
    <3>1. PICK j \in 1..Count : Asked'[k] = Asked[j]
      BY <1>1
    <3>2. StartAlone(j)
      BY <2>1, <3>1 DEF CareInv, PlacesOK, StartsAlone
    <3> QED
      BY <1>1, <1>2, <3>1, <3>2 DEF StartAlone
  <2> QED
    BY <2>1 DEF StartsAlone
<1>4. TimersInPlace'
  BY <1>2 DEF CareInv, PlacesOK, TimersInPlace, TimerInPlace
<1> QED
  BY <1>2, <1>3, <1>4 DEF CareInv, PlacesOK, RowsRemembered, ButtonsStopped, LoadedQuietly

LEMMA RunTimePlaces ==
    ASSUME CareInv, RunTime
    PROVE  PlacesOK'
<1> DEFINE read == mainQueue[1].read
           new  == Timer(read.id, read.cell, read.row, startVar[read.cell])
<1>1. /\ TypeOK /\ Count' = Count - 1 /\ 1 \in 1..Count /\ Asked[1] = read
      /\ \A k \in 1..Count' : k + 1 \in 1..Count /\ Asked'[k] = Asked[k + 1]
      /\ Count \in Nat
  BY RunTimeAsked, AskedType DEF CareInv, AskedOK
<1>2. /\ UNCHANGED <<app, loaded, cellAt, indexPathCell, pressed, startVar>>
      /\ IF read.id = 0 THEN UNCHANGED <<timer, live>>
         ELSE timer' = [timer EXCEPT ![read.cell] = read.id] /\ live' = live \cup {new}
  <2>1. Head(mainQueue) = mainQueue[1]
    BY <1>1, TailType DEF RunTime, TypeOK, QueuesOK
  <2> QED
    BY <2>1 DEF RunTime, screenVars, timerVars
<1>3. /\ read.cell \in Cells /\ new.id = read.id /\ new.cell = read.cell /\ new.row = read.row
      /\ new.repeats = startVar[read.cell]
  BY <1>1, AskedFields DEF Timer
<1>4. timer \in [Cells -> 0..MaxStarts] /\ \A t \in live : t.cell \in Cells
  BY <1>1 DEF TypeOK, TimersOK, TimerType
<1>5. read.id # 0 => StartAlone(1)
  BY <1>1 DEF CareInv, PlacesOK, StartsAlone
<1> HIDE DEF new, read
<1>6. CASE read.id = 0
  <2>1. TimersInPlace'
    BY <1>2, <1>6 DEF CareInv, PlacesOK, TimersInPlace, TimerInPlace
  <2>2. StartsAlone'
    <3>1. ASSUME NEW k \in 1..Count'
          PROVE  Asked'[k].id = 0
      <4>1. k + 1 \in 1..Count /\ Asked'[k] = Asked[k + 1] /\ Count # 1
        BY <1>1
      <4> QED
        BY <4>1 DEF CareInv, PlacesOK, StartsAlone, StartAlone
    <3> QED
      BY <3>1 DEF StartsAlone
  <2> QED
    BY <1>2, <1>6, <2>1, <2>2
    DEF CareInv, PlacesOK, RowsRemembered, ButtonsStopped, LoadedQuietly
<1>7. CASE read.id # 0
  <2>1. /\ loaded \notin Rows /\ Count = 1 /\ startVar[read.cell]
        /\ read.row \in DOMAIN cellAt /\ cellAt[read.row] = read.cell
        /\ \A t \in live : t.cell # read.cell
    BY <1>1, <1>5, <1>7 DEF StartAlone
  <2>2. TimersInPlace'
    <3>1. ASSUME NEW t \in live'
          PROVE  TimerInPlace(t)'
      <4>1. CASE t \in live
        <5>1. TimerInPlace(t) /\ t.cell # read.cell /\ t.cell \in Cells
          BY <1>4, <2>1, <4>1 DEF CareInv, PlacesOK, TimersInPlace
        <5>2. timer'[t.cell] = timer[t.cell]
          BY <1>2, <1>4, <1>7, <5>1
        <5> QED
          BY <1>2, <5>1, <5>2 DEF TimerInPlace
      <4>2. CASE t = new
        <5>1. timer'[read.cell] = read.id
          BY <1>2, <1>3, <1>4, <1>7
        <5>2. new.repeats = TRUE
          BY <1>1, <1>3, <2>1 DEF TypeOK, TimersOK
        <5> QED
          BY <1>2, <1>3, <2>1, <4>2, <5>1, <5>2 DEF TimerInPlace
      <4> QED
        BY <1>2, <1>7, <3>1, <4>1, <4>2
    <3> QED
      BY <3>1 DEF TimersInPlace
  <2>3. StartsAlone'
    <3>1. Count' = 0
      BY <1>1, <2>1
    <3> QED
      BY <3>1 DEF StartsAlone
  <2> QED
    BY <1>2, <2>1, <2>2, <2>3
    DEF CareInv, PlacesOK, RowsRemembered, ButtonsStopped, LoadedQuietly
<1> QED
  BY <1>6, <1>7

(* The timer that fires is that of a habit in the list, so that nothing traps. *)
LEMMA FirePlaces ==
    ASSUME CareInv, NEW t \in live, CountSecond(t) \/ Alert(t)
    PROVE  PlacesOK'
<1>1. TypeOK /\ TimerInPlace(t) /\ indexPathCell[t.cell] = t.row /\ app = "running"
  BY DEF CareInv, PlacesOK, TimersInPlace, TimerInPlace, RowsRemembered
<1>2. t.row < loaded
  <2>1. loaded \notin Rows
    BY DEF CareInv, PlacesOK, LoadedQuietly
  <2>2. t.row \in Rows
    BY <1>1 DEF TypeOK, TimersOK, TimerType
  <2> QED
    BY <1>1, <2>1, <2>2, RowsAreNumbers DEF TypeOK, ListOK
<1>3. CASE CountSecond(t)
  BY <1>3, FewerPlaces DEF CareInv, CountSecond, Fired, screenVars
<1>4. CASE Alert(t)
  <2>1. app' = app /\ pressed' = pressed \ {t.cell}
    BY <1>1, <1>2, <1>4 DEF Alert
  <2>2. live' \subseteq live /\ pressed' \subseteq pressed
    BY <1>4, <2>1 DEF Alert, Fired, Without
  <2> QED
    BY <1>4, <2>1, <2>2, FewerPlaces DEF CareInv, Alert
<1> QED
  BY <1>3, <1>4

LEMMA RelaunchPlaces ==
    ASSUME Relaunch
    PROVE  PlacesOK'
<1>1. /\ live' = {} /\ reads' = <<>> /\ mainQueue' = <<>> /\ app' = "running"
      /\ pressed' = {} /\ DOMAIN cellAt' = {}
  BY DEF Relaunch
<1>2. 1..Count' = {}
  <2>1. Len(reads') = 0 /\ Len(mainQueue') = 0
    BY <1>1
  <2> QED
    BY <2>1 DEF Count
<1> QED
  BY <1>1, <1>2 DEF PlacesOK, TimersInPlace, RowsRemembered, ButtonsStopped, LoadedQuietly,
                    StartsAlone

LEMMA InitCare == Init => CareInv
<1> SUFFICES ASSUME Init PROVE CareInv
  OBVIOUS
<1>1. /\ live = {} /\ reads = <<>> /\ mainQueue = <<>> /\ app = "running"
      /\ pressed = {} /\ DOMAIN cellAt = {}
  BY DEF Init
<1>2. 1..Count = {} /\ Len(mainQueue) = 0 /\ 1..0 = {}
  BY <1>1 DEF Count
<1> QED
  BY <1>1, <1>2, InitType
  DEF CareInv, PlacesOK, TimersInPlace, RowsRemembered, ButtonsStopped, LoadedQuietly,
      StartsAlone, AnswersTrue, AllCurrent
(* What the screen shows, while no read has failed. *)
LEMMA ScreenTypes ==
    ASSUME TypeOK
    PROVE  /\ time \in [Rows -> Nat] /\ displayed \in [Cells -> Nat]
           /\ startVar \in [Cells -> BOOLEAN]
           /\ \A r \in DOMAIN cellAt : r \in Rows /\ cellAt[r] \in Cells
BY DEF TypeOK, ListOK, ScreenOK, TimersOK

LEMMA CellsDiffer ==
    ASSUME CareInv, NEW r \in DOMAIN cellAt, NEW s \in DOMAIN cellAt, cellAt[r] = cellAt[s]
    PROVE  r = s
BY DEF CareInv, PlacesOK, RowsRemembered

LEMMA IdleShown ==
    ASSUME CareInv, Idle, readErrors = 0, NEW r \in DOMAIN cellAt, addFirebase[r]
    PROVE  Shown(cellAt[r], r)
<1>1. Current(r)
  BY DEF CareInv, AllCurrent
<1> QED
  BY <1>1, NothingAsked DEF Current, Awaited

LEMMA SameAnswers ==
    ASSUME CareInv, readErrors = 0, UNCHANGED <<mainQueue, time>>
    PROVE  AnswersTrue'
BY DEF CareInv, AnswersTrue

LEMMA SameCurrent ==
    ASSUME CareInv, readErrors = 0, \A r \in Rows : addFirebase'[r] => addFirebase[r],
           UNCHANGED <<time, cellAt, displayed, startVar, reads, mainQueue>>
    PROVE  AnswersTrue' /\ AllCurrent'
<1>1. Asked' = Asked /\ Count' = Count
  BY SameAsked
<1>2. ASSUME NEW r \in DOMAIN cellAt', addFirebase'[r]
      PROVE  Current(r)'
  <2>1. r \in DOMAIN cellAt /\ r \in Rows
    BY ScreenTypes DEF CareInv
  <2>2. Current(r)
    BY <1>2, <2>1 DEF CareInv, AllCurrent
  <2> QED
    BY <1>1, <2>2 DEF Current, Awaited, LastFor, Quiet, Shown
<1> QED
  BY <1>2, SameAnswers DEF AllCurrent

(* A cell that was configured waits for the time of its habit. *)
LEMMA ConfiguredAwaits ==
    ASSUME NEW rows \in SUBSET Rows, NEW cells \in [rows -> Cells],
           \A r, s \in rows : cells[r] = cells[s] => r = s,
           TypeOK, AskedBehind(rows, cells), UNCHANGED addFirebase,
           NEW r \in rows, addFirebase[r]
    PROVE  Awaited(cells[r], r)'
<1>1. PICK k \in 1..Count' :
         /\ Asked'[k] = Read(cells[r], r, 0)
         /\ \A j \in 1..Count' : j > k => j > Count /\ Asked'[j].row # r
  BY DEF AskedBehind
<1>2. ASSUME NEW j \in 1..Count', j > k
      PROVE  Asked'[j].cell # cells[r]
  <2>1. j > Count /\ Asked'[j].row # r
    BY <1>1, <1>2
  <2>2. ~(j <= Count)
    BY <2>1, AskedType DEF AskedOK, AskedBehind
  <2>3. PICK s \in rows : Asked'[j] = Read(cells[s], s, 0)
    BY <2>2 DEF AskedBehind
  <2> QED
    BY <2>1, <2>3 DEF Read
<1> QED
  BY <1>1, <1>2 DEF Awaited, LastFor, Read

LEMMA HabitArrivesCurrent ==
    ASSUME CareInv, TypeOK', HabitArrives, readErrors = 0
    PROVE  AnswersTrue' /\ AllCurrent'
<1>1. PICK cells \in [0..loaded -> Cells] :
         /\ cellAt' = cells /\ Configure(cells)
         /\ \A r, s \in 0..loaded : cells[r] = cells[s] => r = s
  <2>1. loaded \in Nat
    BY RowsAreNumbers DEF CareInv, TypeOK, ListOK
  <2>2. (loaded + 1) - 1 = loaded
    BY <2>1
  <2> QED
    BY <2>2 DEF HabitArrives, ReloadData
<1>2. 0..loaded \in SUBSET Rows
  BY RowsAreNumbers DEF HabitArrives, CareInv, TypeOK, ListOK
<1>3. TypeOK /\ UNCHANGED <<mainQueue, time, addFirebase>>
  BY DEF CareInv, HabitArrives
<1>4. AskedBehind(0..loaded, cells)
  BY <1>1, <1>2, <1>3, ConfigureAsked
<1>5. ASSUME NEW r \in DOMAIN cellAt', addFirebase'[r]
      PROVE  Current(r)'
  <2>1. r \in 0..loaded /\ cellAt'[r] = cells[r]
    BY <1>1
  <2>2. Awaited(cells[r], r)'
    BY <1>1, <1>2, <1>3, <1>4, <1>5, <2>1, ConfiguredAwaits
  <2> QED
    BY <2>1, <2>2 DEF Current
<1> QED
  BY <1>3, <1>5, SameAnswers DEF AllCurrent

LEMMA TapPressedCurrent ==
    ASSUME CareInv, TypeOK', Idle, readErrors = 0,
           NEW r \in Rows, NEW c \in Cells, TapPressed(r, c)
    PROVE  AnswersTrue' /\ AllCurrent'
<1>1. PICK d \in Cells \ {cellAt[s] : s \in DOMAIN cellAt \ {r}} :
         cellAt' = [cellAt EXCEPT ![r] = d] /\ Configure([s \in {r} |-> d])
  BY DEF TapPressed, ReloadItem
<1> DEFINE cells == [s \in {r} |-> d]
<1>2. cells \in [{r} -> Cells] /\ {r} \in SUBSET Rows /\ cells[r] = d
      /\ \A s \in {r} : s = r
  BY <1>1
<1>3. /\ TypeOK /\ UNCHANGED <<mainQueue, time, addFirebase, displayed, startVar>>
      /\ r \in DOMAIN cellAt
  BY DEF CareInv, TapPressed, CanTouch
<1>4. Configure(cells)
  BY <1>1
<1>5. /\ DOMAIN cellAt' = DOMAIN cellAt /\ cellAt'[r] = d
      /\ \A s \in DOMAIN cellAt : s # r => cellAt'[s] = cellAt[s] /\ cellAt[s] # d
  BY <1>1, <1>3
<1> HIDE DEF cells
<1>6. AskedBehind({r}, cells)
  BY <1>2, <1>3, <1>4, ConfigureAsked
<1>7. \A k \in 1..Count' : Asked'[k].cell = d
  <2> TAKE k \in 1..Count'
  <2>1. ~(k <= Count)
    BY <1>6, NothingAsked DEF AskedBehind
  <2>2. PICK s \in {r} : Asked'[k] = Read(cells[s], s, 0)
    BY <1>6, <2>1 DEF AskedBehind
  <2> QED
    BY <1>2, <2>2 DEF Read
<1>8. ASSUME NEW s \in DOMAIN cellAt', addFirebase'[s]
      PROVE  Current(s)'
  <2>1. CASE s = r
    <3>1. addFirebase[r]
      BY <1>3, <1>8, <2>1
    <3>2. Awaited(cells[r], r)'
      BY <1>2, <1>3, <1>6, <3>1, ConfiguredAwaits
    <3> QED
      BY <1>2, <1>5, <2>1, <3>2 DEF Current
  <2>2. CASE s # r
    <3>1. s \in DOMAIN cellAt /\ cellAt'[s] = cellAt[s] /\ cellAt[s] # d /\ addFirebase[s]
      BY <1>3, <1>5, <1>8, <2>2
    <3>2. Shown(cellAt[s], s)
      BY <3>1, IdleShown
    <3>3. Shown(cellAt[s], s)'
      BY <1>3, <3>1, <3>2 DEF Shown
    <3>4. Quiet(cellAt[s])'
      BY <1>7, <3>1 DEF Quiet
    <3> QED
      BY <3>3, <3>4 DEF Current
  <2> QED
    BY <2>1, <2>2
<1> QED
  BY <1>3, <1>8, SameAnswers DEF AllCurrent

LEMMA StartCurrent ==
    ASSUME CareInv, TypeOK', Idle, loaded \notin Rows, readErrors = 0,
           NEW r \in Rows, NEW c \in Cells, Start(r, c)
    PROVE  AnswersTrue' /\ AllCurrent'
<1>1. Count' = 1 /\ Asked'[1] = Read(c, r, starts')
  BY StartPlaces
<1>2. /\ r \in DOMAIN cellAt /\ c = cellAt[r]
      /\ startVar' = [startVar EXCEPT ![c] = TRUE]
      /\ UNCHANGED <<mainQueue, time, addFirebase, displayed, cellAt>>
  BY DEF Start, CanTap, CanTouch, screenVars
<1>3. /\ startVar \in [Cells -> BOOLEAN]
      /\ \A s \in DOMAIN cellAt : s \in Rows /\ cellAt[s] \in Cells
  BY ScreenTypes DEF CareInv
<1>4. \A k \in 1..Count' : k = 1 /\ Asked'[k].cell = c /\ Asked'[k].row = r
  BY <1>1 DEF Read
<1>5. ASSUME NEW s \in DOMAIN cellAt', addFirebase'[s]
      PROVE  Current(s)'
  <2>1. s \in DOMAIN cellAt /\ addFirebase[s] /\ cellAt'[s] = cellAt[s]
    BY <1>2, <1>5
  <2>2. CASE s = r
    <3>1. 1 \in 1..Count' /\ \A j \in 1..Count' : ~(j > 1)
      BY <1>1, <1>4
    <3>2. Awaited(c, r)'
      BY <1>4, <3>1 DEF Awaited, LastFor
    <3> QED
      BY <1>2, <2>2, <3>2 DEF Current
  <2>3. CASE s # r
    <3>1. cellAt[s] # c /\ cellAt[s] \in Cells
      BY <1>2, <1>3, <2>1, <2>3, CellsDiffer
    <3>2. Shown(cellAt[s], s)
      BY <2>1, IdleShown
    <3>3. Shown(cellAt[s], s)'
      BY <1>2, <1>3, <3>1, <3>2 DEF Shown
    <3>4. Quiet(cellAt[s])'
      BY <1>2, <1>4, <3>1 DEF Quiet
    <3> QED
      BY <3>3, <3>4 DEF Current
  <2> QED
    BY <2>2, <2>3
<1> QED
  BY <1>2, <1>5, SameAnswers DEF AllCurrent
(* The time a cell displays is saved: it is no more than what was saved. *)
LEMMA StopCurrent ==
    ASSUME CareInv, Idle, readErrors = 0, NEW r \in DOMAIN cellAt, NEW c \in Cells,
           c = cellAt[r], StopCountdown(r, c)
    PROVE  AnswersTrue' /\ AllCurrent'
<1>1. /\ time' = [time EXCEPT ![r] = displayed[c]]
      /\ startVar' = [startVar EXCEPT ![c] = FALSE]
      /\ UNCHANGED <<cellAt, displayed, addFirebase, reads, mainQueue>>
  BY DEF StopCountdown, Save
<1>2. /\ time \in [Rows -> Nat] /\ displayed \in [Cells -> Nat]
      /\ startVar \in [Cells -> BOOLEAN]
      /\ \A s \in DOMAIN cellAt : s \in Rows /\ cellAt[s] \in Cells
  BY ScreenTypes DEF CareInv
<1>3. Count' = 0 /\ Len(mainQueue') = 0
  BY <1>1, SameAsked, NothingAsked
<1>4. ASSUME NEW s \in DOMAIN cellAt', addFirebase'[s]
      PROVE  Current(s)'
  <2>1. s \in DOMAIN cellAt /\ addFirebase[s]
    BY <1>1, <1>4
  <2>2. Quiet(cellAt[s])'
    BY <1>3 DEF Quiet
  <2>3. CASE s = r
    <3>1. time'[r] = displayed[c] /\ displayed[c] \in Nat
      BY <1>1, <1>2
    <3>2. Shown(cellAt[s], s)'
      BY <1>1, <2>3, <3>1 DEF Shown
    <3> QED
      BY <2>2, <3>2 DEF Current
  <2>4. CASE s # r
    <3>1. cellAt[s] # c /\ cellAt[s] \in Cells
      BY <1>2, <2>1, <2>4, CellsDiffer
    <3>2. Shown(cellAt[s], s)
      BY <2>1, IdleShown
    <3>3. time'[s] = time[s] /\ startVar'[cellAt[s]] = startVar[cellAt[s]]
      BY <1>1, <1>2, <2>1, <2>4, <3>1
    <3>4. Shown(cellAt[s], s)'
      BY <1>1, <3>2, <3>3 DEF Shown
    <3> QED
      BY <2>2, <3>4 DEF Current
  <2> QED
    BY <2>3, <2>4
<1>5. AnswersTrue'
  BY <1>3 DEF AnswersTrue
<1> QED
  BY <1>4, <1>5 DEF AllCurrent

LEMMA AnswerTimeCurrent ==
    ASSUME CareInv, readErrors = 0, 1 \in DOMAIN reads, AnswerTime(1)
    PROVE  AnswersTrue' /\ AllCurrent'
<1> DEFINE snap == <<time[reads[1].row]>>
           m    == Len(mainQueue)
<1>1. /\ UNCHANGED <<time, addFirebase, cellAt, displayed, startVar>>
      /\ TypeOK /\ readErrors' \in 0..MaxReadErrors /\ Answer(1, snap)
  BY DEF CareInv, TypeOK, CountsOK, AnswerTime, Answer, cellVars, screenVars
<1>2. reads \in Seq(ReadType) /\ reads[1] \in ReadType
  <2>1. reads \in Seq(ReadType) /\ 1 \in 1..Len(reads)
    BY <1>1 DEF TypeOK, QueuesOK
  <2> QED
    BY <2>1, ElementOfSeq
<1>3. snap \in Seq(Nat)
  <2>1. time[reads[1].row] \in Nat
    BY <1>1, <1>2 DEF TypeOK, ListOK, ReadType
  <2> QED
    BY <2>1
<1>4. /\ Len(mainQueue') = m + 1 /\ m \in Nat
      /\ \A k \in 1..m : mainQueue'[k] = mainQueue[k]
      /\ mainQueue'[m + 1] = [read |-> reads[1], snap |-> snap]
  <2>1. m \in Nat
    BY <1>1, AskedType DEF AskedOK
  <2> HIDE DEF snap
  <2> QED
    BY <1>1, <1>3, <2>1, AnswerIsTyped
<1>5. Count' = Count /\ \A k \in 1..Count : Asked'[k] = Asked[k]
  <2>1. Answered(1, snap)
    BY <1>1, <1>3 DEF Answered
  <2> HIDE DEF snap
  <2> QED
    BY <1>1, <2>1, AnsweredAsked
<1>6. AnswersTrue'
  <2>1. ASSUME NEW k \in 1..Len(mainQueue')
        PROVE  mainQueue'[k].snap = <<time[mainQueue'[k].read.row]>>
    <3>1. CASE k \in 1..m
      BY <1>4, <3>1 DEF CareInv, AnswersTrue
    <3>2. CASE k = m + 1
      BY <1>4, <3>2
    <3> QED
      BY <1>4, <3>1, <3>2
  <2> QED
    BY <1>1, <2>1 DEF AnswersTrue
<1>7. ASSUME NEW r \in DOMAIN cellAt', addFirebase'[r]
      PROVE  Current(r)'
  <2>1. Current(r)
    BY <1>1, <1>7 DEF CareInv, AllCurrent
  <2> QED
    BY <1>1, <1>5, <2>1 DEF Current, Awaited, LastFor, Quiet, Shown
<1> QED
  BY <1>6, <1>7 DEF AllCurrent

LEMMA RunTimeCurrent ==
    ASSUME CareInv, readErrors = 0, RunTime
    PROVE  AnswersTrue' /\ AllCurrent'
<1> DEFINE read == mainQueue[1].read
<1>1. /\ TypeOK /\ Count' = Count - 1 /\ 1 \in 1..Count /\ 1 \in 1..Len(mainQueue)
      /\ Asked[1] = read /\ Count \in Nat
      /\ \A k \in 1..Count' : k + 1 \in 1..Count /\ Asked'[k] = Asked[k + 1]
  BY RunTimeAsked, AskedType DEF CareInv, AskedOK
<1>2. /\ \A k \in 1..Len(mainQueue') :
            k + 1 \in 1..Len(mainQueue) /\ mainQueue'[k] = mainQueue[k + 1]
      /\ UNCHANGED <<time, addFirebase, cellAt, startVar>>
  BY RunTimeType DEF CareInv, RunTime, screenVars
<1>3. AnswersTrue'
  BY <1>2 DEF CareInv, AnswersTrue
<1>4. /\ time \in [Rows -> Nat] /\ displayed \in [Cells -> Nat]
      /\ \A r \in DOMAIN cellAt : r \in Rows /\ cellAt[r] \in Cells
      /\ read.cell \in Cells /\ read.row \in Rows
  BY <1>1, ScreenTypes, AskedFields
<1>5. displayed' = [displayed EXCEPT ![read.cell] = time[read.row]]
  <2>1. Head(mainQueue) = mainQueue[1]
    BY <1>1, TailType DEF RunTime, TypeOK, QueuesOK
  <2>2. mainQueue[1].snap = <<time[read.row]>>
    BY <1>1 DEF CareInv, AnswersTrue
  <2>3. <<time[read.row]>> # <<>> /\ <<time[read.row]>>[1] = time[read.row]
    OBVIOUS
  <2> QED
    BY <2>1, <2>2, <2>3 DEF RunTime
<1>6. \A j \in 1..Count : j = 1 \/ (j - 1 \in 1..Count' /\ Asked[j] = Asked'[j - 1])
  <2> TAKE j \in 1..Count
  <2>1. CASE j # 1
    <3>1. j - 1 \in 1..Count' /\ (j - 1) + 1 = j
      BY <1>1, <2>1
    <3> QED
      BY <1>1, <3>1
  <2> QED
    BY <2>1
<1> HIDE DEF read
<1>7. ASSUME NEW r \in DOMAIN cellAt', addFirebase'[r]
      PROVE  Current(r)'
  <2>1. PICK c \in Cells : c = cellAt[r] /\ r \in Rows /\ r \in DOMAIN cellAt /\ cellAt' = cellAt
    BY <1>2, <1>4
  <2>2. Current(r)
    BY <1>2, <1>7 DEF CareInv, AllCurrent
  <2>3. CASE Awaited(c, r)
    <3>1. PICK k \in 1..Count : Asked[k].row = r /\ LastFor(c, k)
      BY <2>3 DEF Awaited
    <3>2. CASE k = 1
      <4>1. read.row = r /\ read.cell = c
        BY <1>1, <3>1, <3>2 DEF LastFor
      <4>2. ASSUME NEW j \in 1..Count'
            PROVE  Asked'[j].cell # c
        <5>1. j + 1 \in 1..Count /\ j + 1 > 1 /\ Asked'[j] = Asked[j + 1]
          BY <1>1
        <5> QED
          BY <3>1, <3>2, <5>1 DEF LastFor
      <4>3. displayed'[c] = time[r] /\ time[r] \in Nat
        BY <1>4, <1>5, <2>1, <4>1
      <4>4. Shown(c, r)'
        BY <1>2, <4>3 DEF Shown
      <4>5. Quiet(c)'
        BY <4>2 DEF Quiet
      <4> QED
        BY <2>1, <4>4, <4>5 DEF Current
    <3>3. CASE k # 1
      <4>1. k - 1 \in 1..Count' /\ Asked'[k - 1] = Asked[k]
        BY <1>6, <3>3
      <4>2. ASSUME NEW j \in 1..Count', j > k - 1
            PROVE  Asked'[j].cell # c
        <5>1. j + 1 \in 1..Count /\ j + 1 > k /\ Asked'[j] = Asked[j + 1]
          BY <1>1, <4>2
        <5> QED
          BY <3>1, <5>1 DEF LastFor
      <4>3. Awaited(c, r)'
        BY <3>1, <4>1, <4>2 DEF Awaited, LastFor
      <4> QED
        BY <2>1, <4>3 DEF Current
    <3> QED
      BY <3>2, <3>3
  <2>4. CASE Quiet(c) /\ Shown(c, r)
    <3>1. read.cell # c
      BY <1>1, <2>4 DEF Quiet
    <3>2. displayed'[c] = displayed[c]
      BY <1>4, <1>5, <2>1, <3>1
    <3>3. Shown(c, r)'
      BY <1>2, <2>4, <3>2 DEF Shown
    <3>4. Quiet(c)'
      BY <1>1, <2>4 DEF Quiet
    <3> QED
      BY <2>1, <3>3, <3>4 DEF Current
  <2> QED
    BY <2>1, <2>2, <2>3, <2>4 DEF Current
<1> QED
  BY <1>3, <1>7 DEF AllCurrent

(* A second is taken only in a cell that counts. *)
LEMMA CountSecondCurrent ==
    ASSUME CareInv, readErrors = 0, NEW t \in live, CountSecond(t)
    PROVE  AnswersTrue' /\ AllCurrent'
<1>1. startVar[t.cell] /\ t.cell \in Cells
  BY DEF CareInv, PlacesOK, TimersInPlace, TimerInPlace, TypeOK, TimersOK, TimerType
<1>2. /\ displayed' = [displayed EXCEPT ![t.cell] = @ - 1]
      /\ UNCHANGED <<time, addFirebase, cellAt, startVar, reads, mainQueue>>
  BY DEF CountSecond, screenVars
<1>3. /\ time \in [Rows -> Nat] /\ displayed \in [Cells -> Nat]
      /\ \A r \in DOMAIN cellAt : r \in Rows /\ cellAt[r] \in Cells
  BY ScreenTypes DEF CareInv
<1>4. Asked' = Asked /\ Count' = Count
  BY <1>2, SameAsked
<1>5. ASSUME NEW r \in DOMAIN cellAt', addFirebase'[r]
      PROVE  Current(r)'
  <2>1. Current(r) /\ cellAt[r] \in Cells /\ r \in Rows
    BY <1>2, <1>3, <1>5 DEF CareInv, AllCurrent
  <2>2. Shown(cellAt[r], r) => Shown(cellAt[r], r)'
    <3>1. CASE cellAt[r] = t.cell
      <4>1. displayed'[t.cell] = displayed[t.cell] - 1 /\ displayed[t.cell] \in Nat
            /\ time[r] \in Nat
        BY <1>1, <1>2, <1>3, <2>1
      <4> QED
        BY <1>1, <1>2, <3>1, <4>1 DEF Shown
    <3>2. CASE cellAt[r] # t.cell
      <4>1. displayed'[cellAt[r]] = displayed[cellAt[r]]
        BY <1>2, <1>3, <2>1, <3>2
      <4> QED
        BY <1>2, <4>1 DEF Shown
    <3> QED
      BY <3>1, <3>2
  <2> QED
    BY <1>2, <1>4, <2>1, <2>2 DEF Current, Awaited, LastFor, Quiet
<1> QED
  BY <1>2, <1>5, SameAnswers DEF AllCurrent
LEMMA FirstIsRead ==
    ASSUME TypeOK, reads # <<>>
    PROVE  1 \in DOMAIN reads
<1>1. reads \in Seq(ReadType)
  BY DEF TypeOK, QueuesOK
<1> QED
  BY <1>1, TailType

LEMMA CarefulIsNext ==
    ASSUME TypeOK, CarefulNext
    PROVE  Next
BY FirstIsRead DEF CarefulNext, PromptSystem, Next, System

ScreenRight == readErrors = 0 => AnswersTrue /\ AllCurrent

LEMMA UserCare ==
    ASSUME CareInv, TypeOK', Idle, loaded \notin Rows, User
    PROVE  PlacesOK' /\ ScreenRight'
<1>1. ASSUME NEW r \in Rows, NEW c \in Cells, Start(r, c)
      PROVE  PlacesOK' /\ ScreenRight'
  <2>1. readErrors' = readErrors
    BY <1>1 DEF Start
  <2> QED
    BY <1>1, <2>1, StartPlaces, StartCurrent DEF ScreenRight
<1>2. ASSUME NEW r \in Rows, NEW c \in Cells, Stop(r, c) \/ LongPress(r, c)
      PROVE  PlacesOK' /\ ScreenRight'
  <2>1. /\ StopCountdown(r, c) /\ r \in DOMAIN cellAt /\ c = cellAt[r]
        /\ pressed' \subseteq pressed \cup {c}
    BY <1>2 DEF Stop, LongPress, CanTap, CanTouch
  <2>2. readErrors' = readErrors
    BY <2>1 DEF StopCountdown, countVars
  <2> QED
    BY <2>1, <2>2, StopPlaces, StopCurrent DEF ScreenRight
<1>3. ASSUME NEW r \in Rows, NEW c \in Cells, TapPressed(r, c)
      PROVE  PlacesOK' /\ ScreenRight'
  <2>1. readErrors' = readErrors
    BY <1>3 DEF TapPressed, countVars
  <2> QED
    BY <1>3, <2>1, TapPressedPlaces, TapPressedCurrent DEF ScreenRight
<1>4. CASE TapCounted
  <2>1. /\ UNCHANGED <<time, addFirebase, loaded, cellAt, indexPathCell, pressed, displayed,
                       startVar, timer, reads, mainQueue, app, readErrors>>
        /\ live' \subseteq live
    BY <1>4, CellForItemType DEF CareInv, TapCounted, cellVars, screenVars, countVars
  <2> QED
    BY <2>1, FewerPlaces, SameCurrent DEF CareInv, ScreenRight
<1> QED
  BY <1>1, <1>2, <1>3, <1>4 DEF User

LEMMA FireCare ==
    ASSUME CareInv, Fire
    PROVE  PlacesOK' /\ ScreenRight'
<1>1. PICK t \in live : CountSecond(t) \/ Alert(t)
  BY DEF Fire
<1>2. PlacesOK'
  BY <1>1, FirePlaces
<1>3. CASE CountSecond(t)
  <2>1. readErrors' = readErrors
    BY <1>3 DEF CountSecond, countVars
  <2> QED
    BY <1>2, <1>3, <2>1, CountSecondCurrent DEF ScreenRight
<1>4. CASE Alert(t)
  <2>1. /\ UNCHANGED <<time, cellAt, displayed, startVar, reads, mainQueue, readErrors>>
        /\ \A r \in Rows : addFirebase'[r] => addFirebase[r]
    BY <1>4 DEF Alert, countVars, CareInv, TypeOK, ListOK
  <2> QED
    BY <1>2, <2>1, SameCurrent DEF ScreenRight
<1> QED
  BY <1>1, <1>3, <1>4

LEMMA PromptCare ==
    ASSUME CareInv, TypeOK', PromptSystem
    PROVE  PlacesOK' /\ ScreenRight'
<1>1. CASE HabitArrives
  <2>1. readErrors' = readErrors
    BY <1>1 DEF HabitArrives, countVars
  <2> QED
    BY <1>1, <2>1, HabitArrivesPlaces, HabitArrivesCurrent DEF ScreenRight
<1>2. CASE reads # <<>> /\ AnswerTime(1)
  <2>1. 1 \in DOMAIN reads
    BY <1>2, FirstIsRead DEF CareInv
  <2>2. readErrors' = readErrors /\ \E snap : Answered(1, snap)
    BY <1>2, <2>1, AnswersAreTyped DEF CareInv, AnswerTime
  <2> QED
    BY <1>2, <2>1, <2>2, AnsweredPlaces, AnswerTimeCurrent DEF ScreenRight
<1>3. CASE RunTime
  <2>1. readErrors' = readErrors
    BY <1>3 DEF RunTime, countVars
  <2> QED
    BY <1>3, <2>1, RunTimePlaces, RunTimeCurrent DEF ScreenRight
<1> QED
  BY <1>1, <1>2, <1>3, FireCare DEF PromptSystem

LEMMA NextCare == CareInv /\ [CarefulNext]_vars => CareInv'
<1> SUFFICES ASSUME CareInv, [CarefulNext]_vars PROVE CareInv'
  OBVIOUS
<1>1. TypeOK'
  BY NextType, CarefulIsNext DEF CareInv
<1> SUFFICES PlacesOK' /\ ScreenRight'
  BY <1>1 DEF CareInv, ScreenRight
<1>2. CASE Idle /\ loaded \notin Rows /\ User
  BY <1>1, <1>2, UserCare
<1>3. CASE Idle /\ live = {} /\ Fetch
  <2>1. UNCHANGED <<time, addFirebase, cellAt, indexPathCell, pressed, displayed, startVar,
                    timer, live, reads, mainQueue, app, readErrors>>
        /\ loaded' = 0
    BY <1>3 DEF Fetch, cellVars, screenVars, timerVars
  <2> QED
    BY <1>3, <2>1, FewerPlaces, SameCurrent DEF CareInv, ScreenRight
<1>4. CASE PromptSystem
  BY <1>1, <1>4, PromptCare
<1>5. CASE ReadFails
  <2>1. PICK i \in DOMAIN reads : AnswerError(i)
    BY <1>5 DEF ReadFails
  <2>2. readErrors' # 0
    BY <2>1, BoundsAssumption DEF AnswerError, CareInv, TypeOK, CountsOK
  <2>3. \E snap : Answered(i, snap)
    BY <2>1, AnswersAreTyped DEF CareInv
  <2> QED
    BY <2>2, <2>3, AnsweredPlaces DEF ScreenRight
<1>6. CASE Relaunch
  <2>1. ScreenRight'
    <3>1. DOMAIN cellAt' = {} /\ mainQueue' = <<>>
      BY <1>6 DEF Relaunch
    <3>2. Len(mainQueue') = 0
      BY <3>1
    <3> QED
      BY <3>1, <3>2 DEF ScreenRight, AnswersTrue, AllCurrent
  <2> QED
    BY <1>6, <2>1, RelaunchPlaces
<1>7. CASE UNCHANGED vars
  BY <1>7, FewerPlaces, SameCurrent
  DEF CareInv, ScreenRight, vars, cellVars, screenVars, timerVars, countVars
<1> QED
  BY <1>2, <1>3, <1>4, <1>5, <1>6, <1>7 DEF CarefulNext

LEMMA CareAgrees == CareInv => TimersAgree
<1> SUFFICES ASSUME CareInv PROVE TimersAgree
  OBVIOUS
<1>1. ASSUME NEW t \in live
      PROVE  /\ startVar[t.cell] /\ t.id = timer[t.cell] /\ t.repeats
             /\ indexPathCell[t.cell] = t.row
  BY DEF CareInv, PlacesOK, TimersInPlace, TimerInPlace, RowsRemembered
<1>2. ASSUME NEW r \in DOMAIN cellAt, Idle, readErrors = 0, ~startVar[cellAt[r]],
             addFirebase[r]
      PROVE  displayed[cellAt[r]] = time[r]
  BY <1>2, IdleShown DEF Shown
<1> QED
  BY <1>1, <1>2 DEF TimersAgree, CareInv, PlacesOK

LEMMA SavedTimeShrinks ==
    ASSUME CareInv, [CarefulNext]_vars, readErrors = 0, NEW r \in Rows, addFirebase[r]
    PROVE  time'[r] <= time[r]
<1>1. time \in [Rows -> Nat]
  BY DEF CareInv, TypeOK, ListOK
<1>2. ASSUME time' = time
      PROVE  time'[r] <= time[r]
  BY <1>1, <1>2
<1>3. ASSUME Idle, NEW s \in Rows, NEW c \in Cells, Stop(s, c) \/ LongPress(s, c)
      PROVE  time'[r] <= time[r]
  <2>1. /\ s \in DOMAIN cellAt /\ c = cellAt[s]
        /\ time' = [time EXCEPT ![s] = displayed[c]]
    BY <1>3 DEF Stop, LongPress, CanTap, CanTouch, StopCountdown, Save
  <2>2. CASE s = r
    BY <1>1, <1>3, <2>1, <2>2, IdleShown DEF Shown
  <2>3. CASE s # r
    BY <1>1, <2>1, <2>3
  <2> QED
    BY <2>2, <2>3
<1>4. CASE Idle /\ loaded \notin Rows /\ User
  BY <1>2, <1>3, <1>4 DEF User, Start, TapPressed, TapCounted
<1>5. CASE (Idle /\ live = {} /\ Fetch) \/ ReadFails \/ Relaunch \/ UNCHANGED vars
  BY <1>2, <1>5 DEF Fetch, ReadFails, AnswerError, Answer, Relaunch, vars
<1>6. CASE PromptSystem
  BY <1>2, <1>6 DEF PromptSystem, HabitArrives, AnswerTime, Answer, RunTime, Fire,
                    CountSecond, Alert
<1> QED
  BY <1>4, <1>5, <1>6 DEF CarefulNext

(* For a careful user, and any cells, habits and bounds: a timer counts only in
   the cell that shows its habit, counts as started and holds it, a cell that
   does not count shows what is saved, and no alert indexes habitArray out of
   its range - although the cells are reused, and reads may fail. *)
THEOREM CarefulAgree == CarefulSpec => []TimersAgree
<1>1. Init => CareInv
  BY InitCare
<1>2. CareInv /\ [CarefulNext]_vars => CareInv'
  BY NextCare
<1>3. CareInv => TimersAgree
  BY CareAgrees
<1> QED
  BY <1>1, <1>2, <1>3, PTL DEF CarefulSpec

(* For a careful user no stop and no long press gives counted time back to a
   habit that is not finished: what the cell displays when it is saved is at
   most what was saved for the habit it shows. *)
THEOREM CarefulShrinks == CarefulSpec => TimeOnlyShrinks
<1>1. Init => CareInv
  BY InitCare
<1>2. CareInv /\ [CarefulNext]_vars => CareInv'
  BY NextCare
<1>3. CareInv /\ [CarefulNext]_vars =>
          [readErrors = 0 => \A r \in Rows : addFirebase[r] => time'[r] <= time[r]]_vars
  BY SavedTimeShrinks
<1> QED
  BY <1>1, <1>2, <1>3, PTL DEF CarefulSpec, TimeOnlyShrinks

(* What the comment in HabitCollectionViewCell.swift:104 says holds for a
   careful user: the label of a running timer stays on the cell of its habit. *)
THEOREM CarefulLabel == CarefulSpec => []LabelStaysOnItsCell
<1>1. TimersAgree => LabelStaysOnItsCell
  BY DEF TimersAgree, LabelStaysOnItsCell
<1> QED
  BY <1>1, CarefulAgree, PTL
============================================================================
