--------------------------- MODULE DayRestProofs ---------------------------
(***************************************************************************)
(* The day of a user who waits for the app, and whose reads do not fail:   *)
(* what the list, the documents, finishedHabits and the achievements have  *)
(* to do with each other.                                                  *)
(*                                                                         *)
(* At rest the list is the listing of the documents.  In between it is     *)
(* not, but such a user leaves one thing under way at a time, so that the  *)
(* home screen is in one of a few phases: a fetch waits, its counter is    *)
(* asked for or answered, its documents are (in any order, and the list is *)
(* the part that has arrived), the finish of one habit is asked for or     *)
(* answered, or the reload of a reset waits.  Phase is their disjunction,  *)
(* SmoothDay adds what the screens know.  Every action is one lemma: it    *)
(* leads from a phase to a phase, and it changes the documents by one of   *)
(* the steps of DayStep, or not at all.  What the steps of DayStep keep    *)
(* (Kept, Counted, Awarded) and that they are those of DayLedger does not  *)
(* depend on the phases any more, and is proved apart.                     *)
(***************************************************************************)
EXTENDS DailyProgressProofs

----------------------------------------------------------------------------
\* The day of a user who waits for the app

(* Nothing is under way, or exactly one of the following is, or a fetch. *)
Rest == Idle /\ habitArray = Listing(docs, HabitCount) /\ shown = HabitCount

(* A tap has finished habit r, and the document does not say so yet. *)
AtGoal(r) ==
    /\ form = NoForm
    /\ docs[r].addFirebase /\ docs[r].currentCount = Goal[r]
    /\ habitArray = Listing([docs EXCEPT ![r].addFirebase = FALSE], HabitCount)
    /\ shown = HabitCount
FinishAsked(r) == AtGoal(r) /\ reads = <<FinishCall(r)>> /\ mainQueue = <<>>
FinishHere(r) ==
    /\ AtGoal(r) /\ reads = <<>>
    /\ mainQueue = <<Block(FinishCall(r), <<[finishedHabits |-> finishedHabits]>>)>>

Reloading == reads = <<>> /\ mainQueue = <<ReloadBlock>> /\ habitArray = Listing(docs, HabitCount)

Phase ==
    \/ Rest \/ FetchWaits \/ CounterAsked \/ CounterHere(HabitCount) \/ Loading(HabitCount)
    \/ Reloading
    \/ \E r \in Rows \ Timed : FinishAsked(r) \/ FinishHere(r)

(* Every document is still that of its habit, and the edit screen, which is
   open only over a home screen at rest, has what the document has. *)
OwnDocs == \A n \in Rows : docs[n].habit = n /\ docs[n].counted = (n \notin Timed)

FormKnows ==
    form # NoForm =>
        /\ nav = "edit"
        /\ form.row \in Rows
        /\ form.data.habit = form.row
        /\ form.data.counted = (form.row \notin Timed)
        /\ form.data.streak = docs[form.row].streak
        /\ form.row \notin Timed /\ form.data.addFirebase => docs[form.row].addFirebase

SmoothDay ==
    /\ app = "running" /\ habitCounter = HabitCount
    /\ OwnDocs /\ ticking \subseteq Timed
    /\ nav = "returning" => palmiIsCool = today
    /\ FormKnows
    /\ Phase

----------------------------------------------------------------------------
\* The list of the documents

LEMMA RowsAre ==
    /\ HabitCount \in Nat /\ HabitCount >= 1
    /\ \A r : r \in Rows <=> r \in 0..(HabitCount - 1)
    /\ \A r \in Rows : r \in Nat /\ r + 1 \in 1..HabitCount /\ (r + 1) - 1 = r
    /\ \A i \in 1..HabitCount : i - 1 \in Rows /\ (i - 1) + 1 = i
BY HabitsAssumption DEF Rows

LEMMA RowsListed ==
    ASSUME NEW c
    PROVE  /\ DOMAIN Listing(c, HabitCount) = 1..HabitCount
           /\ Len(Listing(c, HabitCount)) = HabitCount
           /\ \A i \in 1..HabitCount : Listing(c, HabitCount)[i] = Placed(i - 1, c[i - 1])
           /\ \A r \in Rows : Listing(c, HabitCount)[r + 1] = Placed(r, c[r])
           /\ Listing(c, HabitCount) # <<>>
BY ListingIs, RowsAre DEF Rows

LEMMA NothingMissing ==
    ASSUME TypeOK
    PROVE  /\ Readable(HabitCount)
           /\ habitArray \in Seq(EntryType) /\ \A e \in EntryType : e.habitNumber \in Nat
           /\ \A n \in 0..(HabitCount - 1) : Placed(n, docs[n]) \in EntryType
           /\ reads \in Seq(CallType) /\ mainQueue \in Seq(BlockType)
BY DayDataAssumption, RowsAre
   DEF TypeOK, StoreTypeOK, ListTypeOK, QueueTypeOK, Readable, Placed, EntryType, Rows

LEMMA EntryOfListing ==
    ASSUME NEW c, habitArray = Listing(c, HabitCount), NEW r \in Rows
    PROVE  Entry(r) = c[r] /\ InList(r)
<1>1. Listing(c, HabitCount)[r + 1] = Placed(r, c[r]) /\ Len(Listing(c, HabitCount)) = HabitCount
  BY RowsListed, RowsAre
<1> QED
  BY <1>1, RowsAre DEF Entry, InList, Placed

LEMMA ListingByEntry ==
    ASSUME NEW c, NEW list, list = [i \in 1..HabitCount |-> list[i]],
           \A r \in Rows : list[r + 1] = Placed(r, c[r])
    PROVE  list = Listing(c, HabitCount)
<1>1. \A i \in 1..HabitCount : list[i] = Placed(i - 1, c[i - 1])
  <2> TAKE i \in 1..HabitCount
  <2>1. i - 1 \in Rows /\ (i - 1) + 1 = i
    BY RowsAre
  <2>2. list[(i - 1) + 1] = Placed(i - 1, c[i - 1])
    BY <2>1
  <2> QED
    BY <2>1, <2>2
<1> QED
  BY <1>1 DEF Listing

----------------------------------------------------------------------------
\* The phases

LEMMA AtRest ==
    ASSUME TypeOK, Phase, Idle
    PROVE  Rest
<1>1. CASE Loading(HabitCount)
  <2>1. reads = <<>> /\ mainQueue = <<>> /\ HabitCount # 0
    BY RowsAre DEF Idle
  <2> QED
    BY <1>1, <2>1, NothingMissing, LoadedIsListing, RowsAre DEF Rest
<1>2. CASE ~Loading(HabitCount)
  <2>1. reads = <<>> /\ mainQueue = <<>>
    BY DEF Idle
  <2>2. \A x : <<x>> # <<>>
    OBVIOUS
  <2>3. ~FetchWaits /\ ~CounterAsked /\ ~CounterHere(HabitCount) /\ ~Reloading
    BY <2>1, <2>2, Zenon DEF FetchWaits, CounterAsked, CounterHere, Reloading
  <2>4. \A r : ~FinishAsked(r) /\ ~FinishHere(r)
    BY <2>1, <2>2, Zenon DEF FinishAsked, FinishHere
  <2> QED
    BY <1>2, <2>3, <2>4 DEF Phase
<1> QED
  BY <1>1, <1>2

(* The kind of a call or of the oldest block names the phase. *)
LEMMA RunsInPhase ==
    ASSUME TypeOK, Phase, NEW k, Runs(k)
    PROVE  /\ k = "fetch" => FetchWaits
           /\ k = "counter" => CounterHere(HabitCount)
           /\ k = "habit" => Loading(HabitCount)
           /\ k = "reload" => Reloading
           /\ k = "finished" => \E r \in Rows \ Timed : FinishHere(r)
<1>1. mainQueue # <<>> /\ Head(mainQueue).call.kind = k
  BY DEF Runs
<1>2. \A x : Head(<<x>>) = x
  OBVIOUS
<1>3. CASE Loading(HabitCount)
  BY <1>1, <1>3, NothingMissing, LoadingQueues
<1>4. FetchWaits => k = "fetch"
  BY <1>1, <1>2 DEF FetchWaits, FetchBlock, Block
<1>5. CounterHere(HabitCount) => k = "counter"
  BY <1>1, <1>2 DEF CounterHere, CounterCall, Block
<1>6. Reloading => k = "reload"
  BY <1>1, <1>2 DEF Reloading, ReloadBlock, Block
<1>7. \A r : FinishHere(r) => k = "finished"
  BY <1>1, <1>2 DEF FinishHere, FinishCall, Block
<1>8. ~Rest /\ ~CounterAsked /\ \A r : ~FinishAsked(r)
  BY <1>1 DEF Rest, Idle, CounterAsked, FinishAsked
<1> QED
  BY <1>3, <1>4, <1>5, <1>6, <1>7, <1>8 DEF Phase

LEMMA ReadsInPhase ==
    ASSUME TypeOK, Phase, NEW i \in DOMAIN reads
    PROVE  /\ reads[i].kind = "counter" => CounterAsked /\ i = 1
           /\ reads[i].kind = "habit" => Loading(HabitCount)
           /\ reads[i].kind = "finished" =>
                 \E r \in Rows \ Timed : FinishAsked(r) /\ i = 1
<1>1. reads # <<>>
  OBVIOUS
<1>2. \A x : reads = <<x>> => i = 1 /\ reads[i] = x
  OBVIOUS
<1>3. CASE Loading(HabitCount)
  BY <1>3, NothingMissing, LoadingQueues
<1>4. CounterAsked => i = 1 /\ reads[i].kind = "counter"
  BY <1>2 DEF CounterAsked, CounterCall
<1>5. \A r : FinishAsked(r) => i = 1 /\ reads[i].kind = "finished"
  BY <1>2 DEF FinishAsked, FinishCall
<1>6. ~Rest /\ ~FetchWaits /\ ~CounterHere(HabitCount) /\ ~Reloading /\ \A r : ~FinishHere(r)
  BY <1>1 DEF Rest, Idle, FetchWaits, CounterHere, Reloading, FinishHere
<1> QED
  BY <1>3, <1>4, <1>5, <1>6 DEF Phase

----------------------------------------------------------------------------
\* What a step does to the day

Stays ==
    /\ UNCHANGED <<docs, achievements>>
    /\ \A h \in Rows : todays'[h] \in {0, todays[h]}
    /\ aligned' => aligned /\ finishedHabits' = finishedHabits

Taps(r) ==
    /\ docs[r].addFirebase /\ docs[r].currentCount < Goal[r]
    /\ docs' = [docs EXCEPT ![r].currentCount = @ + 1]
    /\ todays' = [todays EXCEPT ![r] = @ + 1]
    /\ UNCHANGED <<finishedHabits, achievements, aligned>>

Finishes(r) ==
    /\ r \in Timed \/ (docs[r].addFirebase /\ docs[r].currentCount = Goal[r])
    /\ docs' = [docs EXCEPT ![r].addFirebase = FALSE]
    /\ finishedHabits' = IF r \in Timed THEN finishedHabits ELSE finishedHabits + 1
    /\ UNCHANGED <<achievements, aligned, todays>>

StartsOver(r) ==
    /\ docs' = [docs EXCEPT ![r] = [@ EXCEPT !.currentCount = 0, !.addFirebase = TRUE]]
    /\ todays' = [todays EXCEPT ![r] = 0]
    /\ aligned' => aligned /\ (r \in Timed \/ docs[r].addFirebase)
    /\ UNCHANGED <<finishedHabits, achievements>>

NextDay == [n \in Rows |-> Reset(docs[n])]

(* The habits at a milestone, and their achievements. *)
Standing(store)  == {n \in Rows : store[n].streak \in Milestones}
Standings(store) ==
    {[habit |-> n, days |-> AwardedDays(store[n].streak)] : n \in Standing(store)}

Begins ==
    /\ docs' = NextDay
    /\ finishedHabits' = 0
    /\ \A h \in Rows : todays'[h] = 0
    /\ Standing(NextDay) # {} => achievements' = Standings(NextDay)

DayStep == Stays \/ Begins \/ \E r \in Rows : Taps(r) \/ Finishes(r) \/ StartsOver(r)

LEMMA DocsAre ==
    ASSUME TypeOK, NEW n \in Rows
    PROVE  /\ docs[n] \in DayData /\ DOMAIN docs = Rows
           /\ docs[n].currentCount \in Nat /\ docs[n].streak \in Nat
           /\ docs[n].addFirebase \in BOOLEAN /\ docs[n].counted \in BOOLEAN
BY DEF TypeOK, StoreTypeOK, DayData

LEMMA ResetIs ==
    ASSUME NEW d \in DayData
    PROVE  /\ Reset(d).habit = d.habit /\ Reset(d).counted = d.counted
           /\ Reset(d).currentCount = 0 /\ Reset(d).addFirebase = TRUE
           /\ Reset(d).streak = IF d.addFirebase THEN 0 ELSE d.streak + 1
           /\ [Reset(d) EXCEPT !.counted = d.counted] = Reset(d)
<1> DEFINE s == IF d.addFirebase THEN 0 ELSE d.streak + 1
<1>1. Reset(d) = [d EXCEPT !.currentCount = 0, !.streak = s, !.addFirebase = TRUE]
  BY DEF Reset
<1> HIDE DEF s
<1>2. /\ Reset(d).habit = d.habit /\ Reset(d).counted = d.counted
      /\ Reset(d).currentCount = 0 /\ Reset(d).addFirebase = TRUE
      /\ Reset(d).streak = s
      /\ [Reset(d) EXCEPT !.counted = d.counted] = Reset(d)
  BY <1>1 DEF DayData
<1> QED
  BY <1>2 DEF s

(* The habits are the habits they were after every step. *)
LEMMA OwnDocsStay ==
    ASSUME TypeOK, OwnDocs, DayStep
    PROVE  OwnDocs'
<1>1. CASE Begins
  <2>1. ASSUME NEW n \in Rows
        PROVE  docs'[n].habit = docs[n].habit /\ docs'[n].counted = docs[n].counted
    <3>1. docs'[n] = Reset(docs[n])
      BY <1>1 DEF Begins, NextDay
    <3>2. docs[n] \in DayData
      BY DocsAre
    <3> QED
      BY <3>1, <3>2, ResetIs
  <2> QED
    BY <2>1 DEF OwnDocs
<1>2. CASE Stays
  BY <1>2 DEF Stays, OwnDocs
<1>3. ASSUME NEW r \in Rows, Taps(r) \/ Finishes(r) \/ StartsOver(r) PROVE OwnDocs'
  <2>1. \A n \in Rows : n # r => docs'[n] = docs[n]
    BY <1>3, DocsAre DEF Taps, Finishes, StartsOver
  <2>2. docs'[r].habit = docs[r].habit /\ docs'[r].counted = docs[r].counted
    <3>1. docs[r] \in DayData /\ r \in DOMAIN docs
      BY DocsAre
    <3>2. CASE Taps(r)
      BY <3>1, <3>2 DEF Taps, DayData
    <3>3. CASE Finishes(r)
      BY <3>1, <3>3 DEF Finishes, DayData
    <3>4. CASE StartsOver(r)
      BY <3>1, <3>4 DEF StartsOver, DayData
    <3> QED
      BY <1>3, <3>2, <3>3, <3>4
  <2> QED
    BY <2>1, <2>2 DEF OwnDocs
<1> QED
  BY <1>1, <1>2, <1>3 DEF DayStep

LEMMA ResetOfListing ==
    ASSUME TypeOK, OwnDocs, habitArray = Listing(docs, HabitCount)
    PROVE  /\ ResetList = Listing(NextDay, HabitCount) /\ WriteList(ResetList) = NextDay
           /\ Awards(ResetList) = Standings(NextDay)
<1>1. DOMAIN habitArray = 1..HabitCount /\ \A i \in 1..HabitCount : habitArray[i] = Placed(i - 1, docs[i - 1])
  BY RowsListed
<1>2. \A i \in 1..HabitCount : NextDay[i - 1] = Reset(docs[i - 1])
  BY RowsAre DEF NextDay
<1>3. ResetList = Listing(NextDay, HabitCount)
  <2>1. ASSUME NEW i \in 1..HabitCount
        PROVE  [habitArray[i] EXCEPT !.data = Reset(@)] = Placed(i - 1, NextDay[i - 1])
    <3>1. habitArray[i] = Placed(i - 1, docs[i - 1])
      BY <1>1
    <3>2. [Placed(i - 1, docs[i - 1]) EXCEPT !.data = Reset(@)] = Placed(i - 1, Reset(docs[i - 1]))
      BY DEF Placed
    <3> QED
      BY <1>2, <3>1, <3>2
  <2> QED
    BY <1>1, <2>1 DEF ResetList, Listing
<1>4. /\ Len(ResetList) = HabitCount /\ DOMAIN ResetList = 1..HabitCount
      /\ \A r \in Rows : ResetList[r + 1].data = NextDay[r]
  <2>1. /\ Len(Listing(NextDay, HabitCount)) = HabitCount /\ DOMAIN Listing(NextDay, HabitCount) = 1..HabitCount
        /\ \A r \in Rows : Listing(NextDay, HabitCount)[r + 1] = Placed(r, NextDay[r])
    BY RowsListed
  <2>2. \A r \in Rows : Placed(r, NextDay[r]).data = NextDay[r]
    BY DEF Placed
  <2> QED
    BY <1>3, <2>1, <2>2
<1>5. WriteList(ResetList) = NextDay
  <2>1. ASSUME NEW n \in Rows PROVE Overwrite(n, ResetList[n + 1].data) = NextDay[n] /\ n < HabitCount
    <3>1. ResetList[n + 1].data = Reset(docs[n])
      BY <1>4 DEF NextDay
    <3>2. n < HabitCount
      BY RowsAre
    <3> QED
      BY <3>1, <3>2, DocsAre, ResetIs DEF Overwrite, NextDay
  <2>2. DOMAIN docs = Rows
    BY DEF TypeOK, StoreTypeOK
  <2>3. NextDay = [n \in Rows |-> NextDay[n]]
    BY DEF NextDay
  <2> QED
    BY <1>4, <2>1, <2>2, <2>3 DEF WriteList
<1>6. ASSUME NEW n \in Rows
      PROVE  /\ n + 1 \in DOMAIN ResetList /\ ResetList[n + 1].data = NextDay[n]
             /\ Award(NextDay[n]) = [habit |-> n, days |-> AwardedDays(NextDay[n].streak)]
  <2>1. n + 1 \in DOMAIN ResetList /\ ResetList[n + 1].data = NextDay[n]
    BY <1>4, RowsAre
  <2>2. NextDay[n].habit = n
    <3>1. docs[n] \in DayData /\ docs[n].habit = n
      BY DocsAre DEF OwnDocs
    <3>2. Reset(docs[n]).habit = docs[n].habit
      BY <3>1, ResetIs
    <3> QED
      BY <3>1, <3>2 DEF NextDay
  <2> HIDE DEF NextDay
  <2> QED
    BY <2>1, <2>2 DEF Award
<1>7. Awards(ResetList) = Standings(NextDay)
  <2> HIDE DEF NextDay
  <2>1. Awards(ResetList) \subseteq Standings(NextDay)
    <3> SUFFICES ASSUME NEW i \in Earning(ResetList)
                 PROVE  Award(ResetList[i].data) \in Standings(NextDay)
      BY DEF Awards
    <3>1. i \in 1..HabitCount /\ ResetList[i].data.streak \in Milestones
      BY <1>4 DEF Earning
    <3>2. i - 1 \in Rows /\ (i - 1) + 1 = i
      BY <3>1, RowsAre
    <3>3. /\ ResetList[i].data = NextDay[i - 1]
          /\ Award(NextDay[i - 1]) =
                [habit |-> i - 1, days |-> AwardedDays(NextDay[i - 1].streak)]
      BY <1>6, <3>2
    <3>4. i - 1 \in Standing(NextDay)
      BY <3>1, <3>2, <3>3 DEF Standing
    <3> QED
      BY <3>3, <3>4 DEF Standings
  <2>2. Standings(NextDay) \subseteq Awards(ResetList)
    <3> SUFFICES ASSUME NEW n \in Standing(NextDay)
                 PROVE  [habit |-> n, days |-> AwardedDays(NextDay[n].streak)]
                            \in Awards(ResetList)
      BY DEF Standings
    <3>1. n \in Rows /\ NextDay[n].streak \in Milestones
      BY DEF Standing
    <3>2. n + 1 \in Earning(ResetList)
      BY <1>6, <3>1 DEF Earning
    <3> QED
      BY <1>6, <3>1, <3>2 DEF Awards
  <2> QED
    BY <2>1, <2>2
<1> QED
  BY <1>3, <1>5, <1>7

----------------------------------------------------------------------------
\* What holds through a day

Kept    == \A n \in Rows : todays[n] <= docs[n].currentCount
Done    == {n \in Rows \ Timed : ~docs[n].addFirebase}
Counted == aligned => finishedHabits = Cardinality(Done)
Awarded == Standing(docs) # {} => achievements = Standings(docs)

LEMMA TapsDocs ==
    ASSUME TypeOK, NEW r \in Rows, Taps(r)
    PROVE  \A n \in Rows :
              /\ docs'[n].currentCount = docs[n].currentCount + (IF n = r THEN 1 ELSE 0)
              /\ docs'[n].addFirebase = docs[n].addFirebase
              /\ docs'[n].streak = docs[n].streak
<1> TAKE n \in Rows
<1>1. docs[n] \in DayData /\ docs[n].currentCount \in Nat /\ DOMAIN docs = Rows
  BY DocsAre
<1>2. CASE n = r
  <2>1. docs'[n] = [docs[n] EXCEPT !.currentCount = docs[n].currentCount + 1]
    BY <1>1, <1>2 DEF Taps
  <2> QED
    BY <1>1, <1>2, <2>1 DEF DayData
<1>3. CASE n # r
  <2>1. docs'[n] = docs[n]
    BY <1>1, <1>3 DEF Taps
  <2> QED
    BY <1>1, <1>3, <2>1
<1> QED
  BY <1>2, <1>3

LEMMA FinishesDocs ==
    ASSUME TypeOK, NEW r \in Rows, Finishes(r)
    PROVE  \A n \in Rows :
              /\ docs'[n].currentCount = docs[n].currentCount
              /\ docs'[n].addFirebase = (n # r /\ docs[n].addFirebase)
              /\ docs'[n].streak = docs[n].streak
<1> TAKE n \in Rows
<1>1. docs[n] \in DayData /\ docs[n].addFirebase \in BOOLEAN /\ DOMAIN docs = Rows
  BY DocsAre
<1>2. CASE n = r
  BY <1>1, <1>2 DEF Finishes, DayData
<1>3. CASE n # r
  <2>1. docs'[n] = docs[n]
    BY <1>1, <1>3 DEF Finishes
  <2> QED
    BY <1>1, <1>3, <2>1
<1> QED
  BY <1>2, <1>3

LEMMA StartsOverDocs ==
    ASSUME TypeOK, NEW r \in Rows, StartsOver(r)
    PROVE  \A n \in Rows :
              /\ docs'[n].currentCount = IF n = r THEN 0 ELSE docs[n].currentCount
              /\ docs'[n].addFirebase = (n = r \/ docs[n].addFirebase)
              /\ docs'[n].streak = docs[n].streak
<1> TAKE n \in Rows
<1>1. docs[n] \in DayData /\ docs[n].addFirebase \in BOOLEAN /\ DOMAIN docs = Rows
  BY DocsAre
<1>2. CASE n = r
  BY <1>1, <1>2 DEF StartsOver, DayData
<1>3. CASE n # r
  <2>1. docs'[n] = docs[n]
    BY <1>1, <1>3 DEF StartsOver
  <2> QED
    BY <1>1, <1>3, <2>1
<1> QED
  BY <1>2, <1>3

LEMMA BeginsDocs ==
    ASSUME TypeOK, Begins
    PROVE  \A n \in Rows :
              /\ docs'[n].currentCount = 0
              /\ docs'[n].addFirebase = TRUE
              /\ docs'[n].streak = IF docs[n].addFirebase THEN 0 ELSE docs[n].streak + 1
<1> TAKE n \in Rows
<1>1. docs'[n] = Reset(docs[n])
  BY DEF Begins, NextDay
<1>2. docs[n] \in DayData
  BY DocsAre
<1> DEFINE d == docs[n]
<1> HIDE DEF d
<1>3. /\ Reset(d).currentCount = 0 /\ Reset(d).addFirebase = TRUE
      /\ Reset(d).streak = IF d.addFirebase THEN 0 ELSE d.streak + 1
  BY <1>2, ResetIs DEF d
<1> QED
  BY <1>1, <1>3 DEF d

LEMMA KeptStays ==
    ASSUME TypeOK, TypeOK', Kept, DayStep
    PROVE  Kept'
<1>a. \A n \in Rows : /\ todays[n] \in Nat /\ docs[n].currentCount \in Nat
                      /\ todays[n] <= docs[n].currentCount
  BY DocsAre DEF TypeOK, DayTypeOK, Kept
<1>1. CASE Stays
  <2> SUFFICES ASSUME NEW n \in Rows PROVE todays'[n] <= docs'[n].currentCount
    BY DEF Kept
  <2>1. todays'[n] \in {0, todays[n]} /\ docs'[n] = docs[n]
    BY <1>1 DEF Stays
  <2> QED
    BY <1>a, <2>1
<1>2. CASE Begins
  <2> SUFFICES ASSUME NEW n \in Rows PROVE todays'[n] <= docs'[n].currentCount
    BY DEF Kept
  <2>1. todays'[n] = 0 /\ docs'[n].currentCount = 0
    BY <1>2, BeginsDocs DEF Begins
  <2> QED
    BY <2>1
<1>3. ASSUME NEW r \in Rows, Taps(r) PROVE Kept'
  <2>1. \A n \in Rows : todays'[n] = todays[n] + (IF n = r THEN 1 ELSE 0)
    BY <1>a, <1>3 DEF Taps, TypeOK, DayTypeOK
  <2>2. \A n \in Rows : docs'[n].currentCount = docs[n].currentCount + (IF n = r THEN 1 ELSE 0)
    BY <1>3, TapsDocs
  <2> QED
    BY <1>a, <2>1, <2>2 DEF Kept
<1>4. ASSUME NEW r \in Rows, Finishes(r) PROVE Kept'
  <2> SUFFICES ASSUME NEW n \in Rows PROVE todays'[n] <= docs'[n].currentCount
    BY DEF Kept
  <2>1. todays'[n] = todays[n] /\ docs'[n].currentCount = docs[n].currentCount
    BY <1>4, FinishesDocs DEF Finishes
  <2> QED
    BY <1>a, <2>1
<1>5. ASSUME NEW r \in Rows, StartsOver(r) PROVE Kept'
  <2>1. \A n \in Rows : todays'[n] = IF n = r THEN 0 ELSE todays[n]
    BY <1>5 DEF StartsOver, TypeOK, DayTypeOK
  <2>2. \A n \in Rows : docs'[n].currentCount = IF n = r THEN 0 ELSE docs[n].currentCount
    BY <1>5, StartsOverDocs
  <2> QED
    BY <1>a, <2>1, <2>2 DEF Kept
<1> QED
  BY <1>1, <1>2, <1>3, <1>4, <1>5 DEF DayStep

LEMMA CountedStays ==
    ASSUME TypeOK, Counted, DayStep
    PROVE  Counted'
<1> SUFFICES ASSUME aligned' PROVE finishedHabits' = Cardinality(Done')
  BY DEF Counted
<1>a. IsFiniteSet(Done)
  <2>1. IsFiniteSet(Rows)
    BY RowsAre, FS_Interval DEF Rows
  <2> QED
    BY <2>1, FS_Subset DEF Done
<1>1. CASE Stays
  BY <1>1 DEF Stays, Counted, Done
<1>2. CASE Begins
  <2>1. Done' = {}
    BY <1>2, BeginsDocs DEF Done
  <2> QED
    BY <1>2, <2>1, FS_EmptySet DEF Begins
<1>3. ASSUME NEW r \in Rows, Taps(r) PROVE finishedHabits' = Cardinality(Done')
  <2>1. Done' = Done
    BY <1>3, TapsDocs DEF Done
  <2> QED
    BY <1>3, <2>1 DEF Taps, Counted
<1>4. ASSUME NEW r \in Rows, Finishes(r) PROVE finishedHabits' = Cardinality(Done')
  <2>1. \A n \in Rows : docs'[n].addFirebase = (n # r /\ docs[n].addFirebase)
    BY <1>4, FinishesDocs
  <2>2. finishedHabits = Cardinality(Done)
    BY <1>4 DEF Finishes, Counted
  <2>3. CASE r \in Timed
    <3>1. Done' = Done
      BY <2>1, <2>3 DEF Done
    <3> QED
      BY <1>4, <2>2, <2>3, <3>1 DEF Finishes
  <2>4. CASE r \notin Timed
    <3>1. Done' = Done \cup {r} /\ r \notin Done
      BY <1>4, <2>1, <2>4 DEF Done, Finishes
    <3>2. Cardinality(Done \cup {r}) = Cardinality(Done) + 1
      BY <1>a, <3>1, FS_AddElement
    <3> QED
      BY <1>4, <2>2, <2>4, <3>1, <3>2 DEF Finishes
  <2> QED
    BY <2>3, <2>4
<1>5. ASSUME NEW r \in Rows, StartsOver(r) PROVE finishedHabits' = Cardinality(Done')
  <2>1. \A n \in Rows : docs'[n].addFirebase = (n = r \/ docs[n].addFirebase)
    BY <1>5, StartsOverDocs
  <2>2. aligned /\ (r \in Timed \/ docs[r].addFirebase)
    BY <1>5 DEF StartsOver
  <2>3. Done' = Done
    BY <2>1, <2>2 DEF Done
  <2> QED
    BY <1>5, <2>2, <2>3 DEF StartsOver, Counted
<1> QED
  BY <1>1, <1>2, <1>3, <1>4, <1>5 DEF DayStep

LEMMA AwardedStays ==
    ASSUME TypeOK, Awarded, DayStep
    PROVE  Awarded'
<1>1. CASE Stays
  BY <1>1 DEF Stays, Awarded
<1>2. CASE Begins
  <2>1. docs' = NextDay /\ (Standing(NextDay) # {} => achievements' = Standings(NextDay))
    BY <1>2 DEF Begins
  <2> HIDE DEF NextDay
  <2>2. Standing(docs') # {} => achievements' = Standings(docs')
    BY <2>1
  <2> QED
    BY <2>2 DEF Awarded, Standing, Standings
<1>3. ASSUME NEW r \in Rows, Taps(r) \/ Finishes(r) \/ StartsOver(r) PROVE Awarded'
  <2>1. achievements' = achievements
    BY <1>3 DEF Taps, Finishes, StartsOver
  <2>2. \A n \in Rows : docs'[n].streak = docs[n].streak
    BY <1>3, TapsDocs, FinishesDocs, StartsOverDocs
  <2>3. Standing(docs') = Standing(docs) /\ Standings(docs') = Standings(docs)
    BY <2>2 DEF Standing, Standings
  <2> QED
    BY <2>1, <2>3 DEF Awarded, Standing, Standings
<1> QED
  BY <1>1, <1>2, <1>3 DEF DayStep

(* Every step is one of DayLedger's. *)
LEMMA LedgerStep ==
    ASSUME TypeOK, DayStep
    PROVE  Ledger!Next \/ UNCHANGED docs
<1>1. CASE Stays
  BY <1>1 DEF Stays
<1>2. CASE Begins
  <2>1. Ledger!NewDay
    BY <1>2, BeginsDocs DEF Ledger!NewDay
  <2> QED
    BY <2>1 DEF Ledger!Next
<1>3. ASSUME NEW r \in Rows, Taps(r) PROVE Ledger!Next
  <2>1. docs[r].addFirebase = TRUE /\ docs[r].currentCount < Goal[r]
    BY <1>3, DocsAre DEF Taps
  <2>2. \A n \in Rows :
           /\ docs'[n].currentCount = IF n = r THEN docs[r].currentCount + 1 ELSE docs[n].currentCount
           /\ docs'[n].addFirebase = docs[n].addFirebase
           /\ docs'[n].streak = docs[n].streak
    BY <1>3, TapsDocs, DocsAre
  <2>3. Ledger!Count(r)
    BY <2>1, <2>2 DEF Ledger!Count
  <2> QED
    BY <2>3 DEF Ledger!Next
<1>4. ASSUME NEW r \in Rows, Finishes(r) PROVE Ledger!Next
  <2>1. Ledger!Finish(r)
    BY <1>4, FinishesDocs DEF Ledger!Finish, Finishes
  <2> QED
    BY <2>1 DEF Ledger!Next
<1>5. ASSUME NEW r \in Rows, StartsOver(r) PROVE Ledger!Next
  <2>1. Ledger!StartOver(r)
    BY <1>5, StartsOverDocs DEF Ledger!StartOver
  <2> QED
    BY <2>1 DEF Ledger!Next
<1> QED
  BY <1>1, <1>2, <1>3, <1>4, <1>5 DEF DayStep

----------------------------------------------------------------------------
\* The user's steps

LEMMA FormStays ==
    ASSUME FormKnows, form' = form, nav' = nav,
           \A n \in Rows : docs'[n].streak = docs[n].streak,
           \A n \in Rows \ Timed : docs'[n].addFirebase = docs[n].addFirebase
    PROVE  FormKnows'
BY DEF FormKnows

LEMMA FormCloses == ASSUME form' = NoForm PROVE FormKnows'
BY DEF FormKnows

(* The user acts at rest, on a cell that shows the document of its row. *)
LEMMA Waited ==
    ASSUME TypeOK, SmoothDay, Smooth', calm' => Idle
    PROVE  /\ Rest
           /\ \A r \in Rows : Entry(r) = docs[r] /\ InList(r)
           /\ \A r \in 0..(shown - 1) : r \in Rows
<1>1. Rest
  BY AtRest DEF Smooth, SmoothDay
<1>2. \A r \in Rows : Entry(r) = docs[r] /\ InList(r)
  BY <1>1, EntryOfListing DEF Rest
<1>3. \A r \in 0..(shown - 1) : r \in Rows
  BY <1>1 DEF Rest, Rows
<1> QED
  BY <1>1, <1>2, <1>3

LEMMA GesturesAreSmooth ==
    ASSUME TypeOK, SmoothDay, Smooth',
           \/ \E r \in 0..(shown - 1) :
                 TapNothing(r) \/ TapStaleCell(r) \/ TapTimed(r) \/ OpenEdit(r)
           \/ LeaveHome
    PROVE  SmoothDay' /\ DayStep
<1>1. calm' => Idle
  BY DEF TapNothing, TapStaleCell, TapTimed, OpenEdit, LeaveHome, Acts
<1>2. /\ Rest /\ \A r \in Rows : Entry(r) = docs[r] /\ InList(r)
      /\ \A r \in 0..(shown - 1) : r \in Rows
  BY <1>1, Waited
<1>3. \A r \in 0..(shown - 1) : ~TapStaleCell(r)
  BY <1>2 DEF TapStaleCell
<1>4. /\ UNCHANGED fetchVars /\ UNCHANGED userVars /\ todays' = todays /\ aligned' = aligned
      /\ today' = today /\ nav = "home" /\ nav' \in {"home", "edit", "away"}
  BY <1>3 DEF TapNothing, TapTimed, OpenEdit, LeaveHome, AtHome, navVars, dayVars
<1>5. Phase'
  <2>1. Rest'
    BY <1>2, <1>4 DEF Rest, Idle, fetchVars
  <2> QED
    BY <2>1 DEF Phase
<1>6. Stays
  BY <1>4 DEF Stays, fetchVars, userVars
<1>7. ticking' \subseteq Timed
  <2>1. ASSUME NEW r \in 0..(shown - 1), TapTimed(r) PROVE ticking' \subseteq Timed
    <3>1. ~docs[r].counted /\ r \in Rows
      BY <1>2, <2>1 DEF TapTimed
    <3>2. r \in Timed
      BY <3>1 DEF SmoothDay, OwnDocs
    <3> QED
      BY <2>1, <3>2 DEF TapTimed, SmoothDay
  <2>2. (\A r \in 0..(shown - 1) : ~TapTimed(r)) => ticking' = ticking
    BY <1>3 DEF TapNothing, OpenEdit, LeaveHome, dayVars
  <2> QED
    BY <2>1, <2>2 DEF SmoothDay
<1>8. FormKnows'
  <2>1. ASSUME NEW r \in 0..(shown - 1), OpenEdit(r) PROVE FormKnows'
    <3>1. form' = [row |-> r, data |-> docs[r]] /\ nav' = "edit" /\ r \in Rows
      BY <1>2, <2>1 DEF OpenEdit
    <3> QED
      BY <1>4, <3>1 DEF FormKnows, SmoothDay, OwnDocs, fetchVars
  <2>2. (\A r \in 0..(shown - 1) : ~OpenEdit(r)) => form' = form
    BY <1>3 DEF TapNothing, TapTimed, LeaveHome, navVars
  <2>3. form = NoForm
    BY <1>4 DEF SmoothDay, FormKnows
  <2> QED
    BY <2>1, <2>2, <2>3, FormCloses
<1>9. app' = "running" /\ habitCounter' = HabitCount
  BY <1>4 DEF SmoothDay, fetchVars
<1> QED
  BY <1>4, <1>5, <1>6, <1>7, <1>8, <1>9, OwnDocsStay DEF SmoothDay, DayStep

LEMMA TapCountedIsSmooth ==
    ASSUME TypeOK, SmoothDay, Smooth', NEW r \in 0..(shown - 1), TapCounted(r)
    PROVE  SmoothDay' /\ DayStep
<1> DEFINE d == docs[r]
           n == CountOne(d)
           finished == n = Goal[r]
<1>1. /\ Rest /\ r \in Rows /\ Entry(r) = d
      /\ reads = <<>> /\ mainQueue = <<>> /\ habitArray = Listing(docs, HabitCount)
  <2>1. calm' => Idle
    BY DEF TapCounted, Acts
  <2> QED
    BY <2>1, Waited DEF Rest, Idle
<1>2. /\ d \in DayData /\ d.habit = r /\ DOMAIN docs = Rows /\ d.currentCount \in Nat
      /\ d.addFirebase = TRUE /\ Goal[r] \in Nat
  BY <1>1, DocsAre, HabitsAssumption DEF SmoothDay, OwnDocs, TapCounted
<1>3. /\ habitArray' = [habitArray EXCEPT ![r + 1].data.currentCount = n,
                                          ![r + 1].data.addFirebase = ~finished]
      /\ docs' = IF n = d.currentCount THEN docs ELSE Patch(r, "currentCount", n)
      /\ reads' = IF finished THEN Append(reads, FinishCall(r)) ELSE reads
      /\ todays' = [todays EXCEPT ![r] = @ + (n - d.currentCount)]
      /\ UNCHANGED <<habitCounter, localHabitCounter, shown, mainQueue, app, readErrors,
                     today, ticking, userVars, navVars, edits, relaunches, aligned>>
      /\ nav = "home" /\ r \notin Timed
  <2>1. d.counted
    BY <1>1 DEF TapCounted
  <2> QED
    BY <1>1, <1>2, <2>1 DEF TapCounted, AtHome, SmoothDay, OwnDocs
<1>4. n \in Nat /\ (n = d.currentCount \/ (d.currentCount < Goal[r] /\ n = d.currentCount + 1))
  BY <1>2 DEF CountOne
<1>5. docs' = [docs EXCEPT ![r].currentCount = n] /\ docs'[r] = [d EXCEPT !.currentCount = n]
  <2>1. CASE n = d.currentCount
    <3>1. [d EXCEPT !.currentCount = n] = d
      BY <1>2, <2>1 DEF DayData
    <3>2. [docs EXCEPT ![r].currentCount = n] = [docs EXCEPT ![r] = d]
      BY <3>1
    <3>3. [docs EXCEPT ![r] = d] = docs
      BY <1>1, <1>2 DEF TypeOK, StoreTypeOK
    <3> QED
      BY <1>1, <1>2, <1>3, <2>1, <3>1, <3>2, <3>3
  <2>2. CASE n # d.currentCount
    BY <1>1, <1>2, <1>3, <2>2 DEF Patch
  <2> QED
    BY <2>1, <2>2
<1> HIDE DEF n, d
<1>6. DayStep
  <2>1. CASE n = d.currentCount
    <3>1. docs' = docs
      BY <1>3, <2>1
    <3>2. \A h \in Rows : todays'[h] = todays[h]
      BY <1>1, <1>2, <1>3, <2>1 DEF TypeOK, DayTypeOK
    <3> QED
      BY <1>3, <3>1, <3>2 DEF DayStep, Stays, userVars
  <2>2. CASE d.currentCount < Goal[r] /\ n = d.currentCount + 1
    <3>1. docs' = [docs EXCEPT ![r].currentCount = @ + 1]
      BY <1>5, <2>2 DEF d
    <3>2. todays' = [todays EXCEPT ![r] = @ + 1]
      <4>1. n - d.currentCount = 1
        BY <1>2, <2>2
      <4> QED
        BY <1>3, <4>1
    <3>3. Taps(r)
      BY <1>2, <1>3, <2>2, <3>1, <3>2 DEF Taps, userVars, d
    <3> QED
      BY <1>1, <3>3 DEF DayStep
  <2> QED
    BY <1>4, <2>1, <2>2
<1>7. habitArray' = Listing([docs' EXCEPT ![r].addFirebase = ~finished], HabitCount)
  <2> DEFINE e == [[d EXCEPT !.currentCount = n] EXCEPT !.addFirebase = ~finished]
             g == Listing(docs, HabitCount)
  <2>1. g[r + 1] = Placed(r, d) /\ r + 1 \in DOMAIN g
    BY <1>1, RowsListed, RowsAre DEF d
  <2>2. habitArray' = [g EXCEPT ![r + 1] = Placed(r, e)]
    <3> HIDE DEF g
    <3>1. habitArray' = [[g EXCEPT ![r + 1].data.currentCount = n] EXCEPT ![r + 1].data.addFirebase = ~finished]
      BY <1>1, <1>3 DEF g
    <3> HIDE DEF finished
    <3>2. [[Placed(r, d) EXCEPT !.data.currentCount = n] EXCEPT !.data.addFirebase = ~finished]
            = Placed(r, e)
      <4>1. [Placed(r, d) EXCEPT !.data.currentCount = n] = Placed(r, [d EXCEPT !.currentCount = n])
        BY DEF Placed
      <4>2. \A x : [Placed(r, x) EXCEPT !.data.addFirebase = ~finished]
                     = Placed(r, [x EXCEPT !.addFirebase = ~finished])
        BY DEF Placed
      <4> QED
        BY <4>1, <4>2
    <3> HIDE DEF e
    <3>3. habitArray' = [g EXCEPT ![r + 1] =
                            [[g[r + 1] EXCEPT !.data.currentCount = n]
                                EXCEPT !.data.addFirebase = ~finished]]
      BY <2>1, <3>1
    <3> QED
      BY <2>1, <3>2, <3>3
  <2>3. [docs' EXCEPT ![r].addFirebase = ~finished] = [docs EXCEPT ![r] = e]
    <3> HIDE DEF finished
    <3>1. docs' = [docs EXCEPT ![r] = [d EXCEPT !.currentCount = n]]
      BY <1>5 DEF d
    <3>2. [docs' EXCEPT ![r].addFirebase = ~finished]
            = [docs' EXCEPT ![r] = [docs'[r] EXCEPT !.addFirebase = ~finished]]
      OBVIOUS
    <3>3. [docs'[r] EXCEPT !.addFirebase = ~finished] = e
      BY <1>5
    <3> HIDE DEF e
    <3>4. [docs' EXCEPT ![r] = e] = [docs EXCEPT ![r] = e]
      BY <1>1, <1>2, <3>1
    <3> QED
      BY <3>2, <3>3, <3>4
  <2> HIDE DEF e
  <2>4. ASSUME NEW m \in Rows
        PROVE  habitArray'[m + 1] = Placed(m, [docs EXCEPT ![r] = e][m])
    <3>1. m + 1 \in DOMAIN g /\ g[m + 1] = Placed(m, docs[m]) /\ (m + 1 = r + 1 => m = r)
      BY <1>1, RowsListed, RowsAre
    <3>2. CASE m = r
      BY <1>1, <1>2, <2>1, <2>2, <3>2
    <3>3. CASE m # r
      BY <1>1, <1>2, <2>2, <3>1, <3>3
    <3> QED
      BY <3>2, <3>3
  <2>5. habitArray' = [i \in 1..HabitCount |-> habitArray'[i]]
    <3>1. DOMAIN g = 1..HabitCount
      BY RowsListed
    <3> HIDE DEF g
    <3> QED
      BY <2>2, <3>1
  <2>6. habitArray' = Listing([docs EXCEPT ![r] = e], HabitCount)
    BY <2>4, <2>5, ListingByEntry
  <2> QED
    BY <2>3, <2>6
<1>8. Phase'
  <2>1. CASE finished
    <3>1. docs'[r].addFirebase /\ docs'[r].currentCount = Goal[r]
      BY <1>2, <1>5, <2>1 DEF DayData
    <3>2. form' = NoForm
      BY <1>3 DEF navVars, SmoothDay, FormKnows
    <3>3. reads' = <<FinishCall(r)>> /\ mainQueue' = <<>> /\ shown' = HabitCount
      BY <1>1, <1>3, <2>1 DEF Rest
    <3>4. FinishAsked(r)'
      BY <1>7, <2>1, <3>1, <3>2, <3>3 DEF FinishAsked, AtGoal
    <3> QED
      BY <1>1, <1>3, <3>4 DEF Phase
  <2>2. CASE ~finished
    <3>1. [docs' EXCEPT ![r].addFirebase = ~finished] = docs'
      <4>1. [docs'[r] EXCEPT !.addFirebase = TRUE] = docs'[r]
        BY <1>2, <1>5 DEF DayData
      <4>2. docs' = [docs EXCEPT ![r] = docs'[r]] /\ DOMAIN docs' = Rows
        BY <1>1, <1>2, <1>5
      <4> QED
        BY <1>1, <2>2, <4>1, <4>2
    <3>2. habitArray' = Listing(docs', HabitCount)
      BY <1>7, <3>1
    <3>3. Rest'
      BY <1>1, <1>3, <2>2, <3>2 DEF Rest, Idle
    <3> QED
      BY <3>3 DEF Phase
  <2> QED
    BY <2>1, <2>2
<1>9. FormKnows'
  BY <1>3, FormCloses DEF navVars, SmoothDay, FormKnows
<1> QED
  BY <1>3, <1>6, <1>8, <1>9, OwnDocsStay DEF SmoothDay, navVars

LEMMA SaveEditIsSmooth ==
    ASSUME TypeOK, SmoothDay, Smooth', SaveEdit
    PROVE  SmoothDay' /\ DayStep
<1> DEFINE r == form.row
           d == form.data
           e == [d EXCEPT !.currentCount = 0, !.addFirebase = TRUE]
<1>1. /\ reads = <<>> /\ mainQueue = <<>> /\ palmiIsCool = today
  BY DEF SaveEdit, Smooth, Idle
<1>2. /\ form # NoForm /\ d \in DayData
  BY DEF SaveEdit, TypeOK, ScreenTypeOK
<1>3. /\ r \in Rows /\ d.habit = r /\ d.counted = (r \notin Timed)
      /\ d.streak = docs[r].streak
      /\ r \notin Timed /\ d.addFirebase => docs[r].addFirebase
  BY <1>2 DEF SmoothDay, FormKnows
<1>4. /\ docs' = UpdateData(docs, r, e)
      /\ mainQueue' = Append(mainQueue, FetchBlock) /\ nav' = "returning"
      /\ form' = NoForm /\ aligned' = (aligned /\ d.addFirebase)
      /\ todays' = [todays EXCEPT ![d.habit] = 0]
      /\ UNCHANGED <<habitCounter, habitArray, localHabitCounter, shown, reads, app,
                     readErrors, dayVars, userVars, edits, relaunches>>
  BY DEF SaveEdit
<1> HIDE DEF r, d
<1>5. docs[r] \in DayData /\ docs[r].habit = r /\ docs[r].counted = (r \notin Timed) /\ DOMAIN docs = Rows
  BY <1>3, DocsAre DEF SmoothDay, OwnDocs
<1>6. e = [docs[r] EXCEPT !.currentCount = 0, !.addFirebase = TRUE]
  BY <1>2, <1>3, <1>5 DEF DayData
<1>7. docs' = [docs EXCEPT ![r] = e]
  <2> HIDE DEF e
  <2>1. DOMAIN docs \cup {r} = Rows /\ r \in DOMAIN docs
    BY <1>3, <1>5
  <2>2. docs' = [m \in Rows |-> IF m = r THEN e ELSE docs[m]]
    BY <1>4, <2>1 DEF UpdateData, SetData
  <2>3. [docs EXCEPT ![r] = e] = [m \in Rows |-> IF m = r THEN e ELSE docs[m]]
    BY <1>5
  <2> QED
    BY <2>2, <2>3
<1>8. StartsOver(r)
  <2>1. docs' = [docs EXCEPT ![r] = [@ EXCEPT !.currentCount = 0, !.addFirebase = TRUE]]
    BY <1>6, <1>7
  <2> QED
    BY <1>3, <1>4, <2>1 DEF StartsOver, userVars
<1>9. FetchWaits'
  BY <1>1, <1>4 DEF FetchWaits
<1>10. FormKnows'
  BY <1>4, FormCloses
<1>11. DayStep
  BY <1>3, <1>8 DEF DayStep
<1> HIDE DEF e
<1> QED
  BY <1>1, <1>4, <1>9, <1>10, <1>11, OwnDocsStay DEF SmoothDay, Phase, dayVars

(* The home screen appears at rest: the day begins, or nothing happens. *)
LEMMA AppearsAtRest ==
    ASSUME TypeOK, TapsBeginTheDay, SmoothDay, Rest, ViewWillAppear
    PROVE  SmoothDay' /\ DayStep
<1>1. /\ app' = "running" /\ habitCounter' = HabitCount /\ nav' = "home" /\ form' = NoForm
      /\ UNCHANGED <<shown, reads, dayVars, todays>>
  BY DEF ViewWillAppear, SmoothDay
<1>2. FormKnows'
  BY <1>1, FormCloses
<1>3. CASE NewDay
  <2>1. habitArray # <<>> /\ habitArray = Listing(docs, HabitCount) /\ reads = <<>> /\ mainQueue = <<>>
    BY RowsListed DEF Rest, Idle
  <2>2. /\ habitArray' = ResetList /\ docs' = WriteList(ResetList) /\ finishedHabits' = 0
        /\ achievements' = IF Awards(ResetList) = {} THEN achievements ELSE Awards(ResetList)
        /\ mainQueue' = Append(mainQueue, ReloadBlock)
    BY <1>3, <2>1 DEF ViewWillAppear, ResetHabits
  <2>3. /\ ResetList = Listing(NextDay, HabitCount) /\ WriteList(ResetList) = NextDay
        /\ Awards(ResetList) = Standings(NextDay)
    BY <2>1, ResetOfListing DEF SmoothDay
  <2> HIDE DEF NextDay
  <2>4. docs' = NextDay /\ habitArray' = Listing(docs', HabitCount)
    BY <2>2, <2>3
  <2>5. \A h \in Rows : todays'[h] = 0
    <3>1. palmiIsCool # today
      BY <1>3 DEF NewDay
    <3>2. \A h \in Rows : todays[h] \in Nat /\ ~(todays[h] > 0)
      BY <3>1 DEF TapsBeginTheDay, TypeOK, DayTypeOK
    <3> QED
      BY <1>1, <3>2
  <2>6. Standing(NextDay) # {} => achievements' = Standings(NextDay)
    BY <2>2, <2>3 DEF Standings
  <2>7. Begins
    BY <2>2, <2>4, <2>5, <2>6 DEF Begins
  <2>8. DayStep
    BY <2>7 DEF DayStep
  <2>9. Reloading'
    BY <1>1, <2>1, <2>2, <2>4 DEF Reloading
  <2> QED
    BY <1>1, <1>2, <2>8, <2>9, OwnDocsStay DEF SmoothDay, Phase, dayVars
<1>4. CASE ~NewDay
  <2>1. UNCHANGED <<finishedHabits, aligned, habitArray, docs, achievements, mainQueue>>
    BY <1>4 DEF ViewWillAppear
  <2>2. Rest'
    BY <1>1, <2>1 DEF Rest, Idle
  <2>3. DayStep
    BY <1>1, <2>1 DEF DayStep, Stays
  <2> QED
    BY <1>1, <1>2, <2>2, <2>3, OwnDocsStay DEF SmoothDay, Phase, dayVars
<1> QED
  BY <1>3, <1>4

LEMMA ComeBackIsSmooth ==
    ASSUME TypeOK, TapsBeginTheDay, SmoothDay, Smooth', ComeBack
    PROVE  SmoothDay' /\ DayStep
<1>1. calm' => Idle
  BY DEF ComeBack, Acts
<1>2. Rest
  BY <1>1, Waited
<1> QED
  BY <1>2, AppearsAtRest DEF ComeBack

----------------------------------------------------------------------------
\* The app's own steps

LEMMA PhaseStays ==
    ASSUME Phase, form' = form \/ form' = NoForm,
           UNCHANGED <<docs, habitArray, shown, reads, mainQueue, finishedHabits>>
    PROVE  Phase'
<1>1. CASE Loading(HabitCount)
  BY <1>1, LoadingStays DEF Phase
<1>2. ASSUME NEW r \in Rows \ Timed, FinishAsked(r) \/ FinishHere(r) PROVE Phase'
  <2>1. AtGoal(r)'
    BY <1>2 DEF FinishAsked, FinishHere, AtGoal
  <2>2. FinishAsked(r)' \/ FinishHere(r)'
    BY <1>2, <2>1 DEF FinishAsked, FinishHere
  <2> QED
    BY <2>2 DEF Phase
<1>3. CASE Rest \/ FetchWaits \/ CounterAsked \/ CounterHere(HabitCount) \/ Reloading
  BY <1>3 DEF Rest, Idle, FetchWaits, CounterAsked, CounterHere, Reloading, Phase
<1> QED
  BY <1>1, <1>2, <1>3 DEF Phase

(* UIKit's transition back comes on the day of the tap that opened the form's
   screen, or of a later one: the day has begun. *)
LEMMA TransitionIsSmooth ==
    ASSUME TypeOK, SmoothDay, Transition
    PROVE  SmoothDay' /\ DayStep
<1>1. nav = "returning" /\ ~NewDay
  BY DEF Transition, SmoothDay, NewDay
<1>2. /\ nav' = "home" /\ form' = NoForm
      /\ UNCHANGED <<finishedHabits, aligned, habitArray, docs, achievements, mainQueue,
                     habitCounter, shown, reads, app, dayVars, todays>>
  BY <1>1 DEF Transition, ViewWillAppear
<1>3. Phase'
  BY <1>2, PhaseStays DEF SmoothDay
<1>4. DayStep
  BY <1>2 DEF DayStep, Stays
<1>5. FormKnows'
  BY <1>2, FormCloses
<1> QED
  BY <1>2, <1>3, <1>4, <1>5, OwnDocsStay DEF SmoothDay, dayVars

LEMMA MidnightIsSmooth ==
    ASSUME TypeOK, SmoothDay, Smooth', Midnight
    PROVE  SmoothDay' /\ DayStep
<1>1. nav # "returning"
  BY DEF Midnight, Smooth
<1>2. /\ UNCHANGED <<docs, habitArray, shown, reads, mainQueue, finishedHabits, aligned,
                     achievements, app, habitCounter, nav, form, ticking>>
      /\ \A h \in Rows : todays'[h] = 0
  BY DEF Midnight, fetchVars, userVars, navVars
<1>3. Phase'
  BY <1>2, PhaseStays DEF SmoothDay
<1>4. DayStep
  BY <1>2 DEF DayStep, Stays
<1>5. FormKnows'
  BY <1>2, FormStays DEF SmoothDay
<1> QED
  BY <1>1, <1>2, <1>3, <1>4, <1>5, OwnDocsStay DEF SmoothDay

LEMMA RelaunchIsSmooth ==
    ASSUME TypeOK, SmoothDay, Relaunch
    PROVE  SmoothDay' /\ DayStep
<1>1. /\ habitArray' = <<>> /\ reads' = <<CounterCall>> /\ mainQueue' = <<>>
      /\ app' = "running" /\ nav' = "home" /\ form' = NoForm /\ ticking' = {}
      /\ UNCHANGED <<docs, habitCounter, achievements, todays>>
      /\ finishedHabits' = IF NewDay THEN 0 ELSE finishedHabits
      /\ aligned' = (aligned /\ ~NewDay)
  BY DEF Relaunch, RelaunchHome
<1>2. CounterAsked'
  BY <1>1 DEF CounterAsked
<1>3. DayStep
  BY <1>1 DEF DayStep, Stays
<1>4. FormKnows'
  BY <1>1, FormCloses
<1> QED
  BY <1>1, <1>2, <1>3, <1>4, OwnDocsStay DEF SmoothDay, Phase

LEMMA RunFetchIsSmooth ==
    ASSUME TypeOK, SmoothDay, RunFetch, UNCHANGED <<dayVars, userVars, navVars, histVars>>
    PROVE  SmoothDay' /\ DayStep
<1>1. FetchWaits
  BY RunsInPhase DEF SmoothDay, RunFetch
<1>2. /\ habitArray' = <<>> /\ reads' = Append(reads, CounterCall)
      /\ mainQueue' = Tail(mainQueue)
      /\ UNCHANGED <<docs, habitCounter, app, dayVars, userVars, navVars, histVars>>
  BY DEF RunFetch, StartFetch
<1>3. CounterAsked'
  BY <1>1, <1>2 DEF FetchWaits, CounterAsked
<1>4. DayStep
  BY <1>2 DEF DayStep, Stays, userVars, histVars
<1>5. FormKnows'
  BY <1>2, FormStays DEF SmoothDay, navVars
<1> QED
  BY <1>2, <1>3, <1>4, <1>5, OwnDocsStay DEF SmoothDay, Phase, dayVars, navVars

LEMMA RunReloadIsSmooth ==
    ASSUME TypeOK, SmoothDay, RunReload
    PROVE  SmoothDay' /\ DayStep
<1>1. Reloading
  BY RunsInPhase DEF SmoothDay, RunReload
<1>2. /\ habitArray' = habitArray /\ shown' = Len(habitArray')
      /\ mainQueue' = Tail(mainQueue)
      /\ UNCHANGED <<docs, habitCounter, reads, app, dayVars, userVars, navVars, histVars>>
  BY DEF RunReload, ReloadData
<1>3. Rest'
  BY <1>1, <1>2, RowsListed DEF Reloading, Rest, Idle
<1>4. DayStep
  BY <1>2 DEF DayStep, Stays, userVars, histVars
<1>5. FormKnows'
  BY <1>2, FormStays DEF SmoothDay, navVars
<1> QED
  BY <1>2, <1>3, <1>4, <1>5, OwnDocsStay DEF SmoothDay, Phase, dayVars, navVars

LEMMA RunCounterIsSmooth ==
    ASSUME TypeOK, SmoothDay, RunCounter, UNCHANGED <<dayVars, userVars, navVars, histVars>>
    PROVE  SmoothDay' /\ DayStep
<1>1. Loading(HabitCount)'
  BY RunsInPhase, CounterIsRun, RowsAre DEF SmoothDay, RunCounter
<1>2. UNCHANGED <<docs, habitCounter, app, dayVars, userVars, navVars, histVars>>
  BY DEF RunCounter
<1>3. DayStep
  BY <1>2 DEF DayStep, Stays, userVars, histVars
<1>4. FormKnows'
  BY <1>2, FormStays DEF SmoothDay, navVars
<1> QED
  BY <1>1, <1>2, <1>3, <1>4, OwnDocsStay DEF SmoothDay, Phase, dayVars, navVars

LEMMA RunHabitIsSmooth ==
    ASSUME TypeOK, SmoothDay, RunHabit, UNCHANGED <<dayVars, userVars, navVars, histVars>>
    PROVE  SmoothDay' /\ DayStep
<1>1. Loading(HabitCount)'
  BY RunsInPhase, NothingMissing, HabitIsRun, RowsAre DEF SmoothDay, RunHabit
<1>2. UNCHANGED <<docs, habitCounter, app, dayVars, userVars, navVars, histVars>>
  BY DEF RunHabit
<1>3. DayStep
  BY <1>2 DEF DayStep, Stays, userVars, histVars
<1>4. FormKnows'
  BY <1>2, FormStays DEF SmoothDay, navVars
<1> QED
  BY <1>1, <1>2, <1>3, <1>4, OwnDocsStay DEF SmoothDay, Phase, dayVars, navVars

LEMMA FinishPatch ==
    ASSUME TypeOK, NEW r \in Rows
    PROVE  /\ Patch(r, "addFirebase", FALSE) = [docs EXCEPT ![r].addFirebase = FALSE]
           /\ habitArray = Listing(docs, HabitCount) =>
                 [habitArray EXCEPT ![r + 1].data.addFirebase = FALSE]
                     = Listing([docs EXCEPT ![r].addFirebase = FALSE], HabitCount)
<1>1. DOMAIN docs = Rows
  BY DocsAre
<1>2. Patch(r, "addFirebase", FALSE) = [docs EXCEPT ![r].addFirebase = FALSE]
  BY <1>1 DEF Patch
<1> SUFFICES ASSUME habitArray = Listing(docs, HabitCount)
             PROVE  [habitArray EXCEPT ![r + 1].data.addFirebase = FALSE]
                        = Listing([docs EXCEPT ![r].addFirebase = FALSE], HabitCount)
  BY <1>2
<1> DEFINE new == [habitArray EXCEPT ![r + 1].data.addFirebase = FALSE]
           c   == [docs EXCEPT ![r].addFirebase = FALSE]
<1>3. DOMAIN habitArray = 1..HabitCount
  BY RowsListed
<1>4. new = [i \in 1..HabitCount |-> new[i]]
  BY <1>3
<1>5. ASSUME NEW m \in Rows PROVE new[m + 1] = Placed(m, c[m])
  <2>1. m + 1 \in DOMAIN habitArray /\ habitArray[m + 1] = Placed(m, docs[m])
        /\ (m + 1 = r + 1 => m = r)
    BY <1>3, RowsListed, RowsAre
  <2>2. CASE m = r
    <3>1. new[m + 1] = [Placed(m, docs[m]) EXCEPT !.data.addFirebase = FALSE]
      BY <2>1, <2>2
    <3>2. c[m] = [docs[m] EXCEPT !.addFirebase = FALSE]
      BY <1>1, <2>2
    <3> HIDE DEF new, c
    <3> QED
      BY <3>1, <3>2 DEF Placed
  <2>3. CASE m # r
    <3>1. new[m + 1] = habitArray[m + 1]
      BY <2>1, <2>3
    <3>2. c[m] = docs[m]
      BY <1>1, <2>3
    <3> QED
      BY <2>1, <3>1, <3>2
  <2> QED
    BY <2>2, <2>3
<1> HIDE DEF new, c
<1>6. new = Listing(c, HabitCount)
  BY <1>4, <1>5, ListingByEntry
<1> QED
  BY <1>6 DEF new, c

LEMMA RunFinishedIsSmooth ==
    ASSUME TypeOK, SmoothDay, RunFinished
    PROVE  SmoothDay' /\ DayStep
<1>1. PICK r \in Rows \ Timed : FinishHere(r)
  BY RunsInPhase DEF SmoothDay, RunFinished
<1>2. /\ AtGoal(r) /\ reads = <<>> /\ Tail(mainQueue) = <<>>
      /\ Head(mainQueue).call.row = r
      /\ Head(mainQueue).snap = <<[finishedHabits |-> finishedHabits]>>
  BY <1>1 DEF FinishHere, FinishCall, Block
<1>3. finishedHabits' = finishedHabits + 1
  <2>1. <<[finishedHabits |-> finishedHabits]>> # <<>>
        /\ <<[finishedHabits |-> finishedHabits]>>[1].finishedHabits = finishedHabits
    OBVIOUS
  <2> QED
    BY <1>2, <2>1 DEF RunFinished
<1>4. /\ docs' = Patch(r, "addFirebase", FALSE) /\ mainQueue' = <<>>
      /\ UNCHANGED <<habitCounter, habitArray, shown, reads, app, dayVars, achievements,
                     navVars, histVars>>
  BY <1>2 DEF RunFinished, Record
<1>5. docs' = [docs EXCEPT ![r].addFirebase = FALSE]
  BY <1>4, FinishPatch
<1>6. Rest'
  BY <1>2, <1>4, <1>5 DEF AtGoal, Rest, Idle
<1>7. DayStep
  <2>1. Finishes(r)
    BY <1>2, <1>3, <1>4, <1>5 DEF AtGoal, Finishes, histVars
  <2> QED
    BY <2>1 DEF DayStep
<1>8. FormKnows'
  BY <1>2, <1>4, FormCloses DEF AtGoal, navVars
<1> QED
  BY <1>4, <1>6, <1>7, <1>8, OwnDocsStay DEF SmoothDay, Phase, dayVars, navVars

LEMMA TimerEndsIsSmooth ==
    ASSUME TypeOK, SmoothDay, Smooth', NEW r \in ticking, TimerEnds(r)
    PROVE  SmoothDay' /\ DayStep
<1>1. r \in Timed /\ r \in Rows
  BY HabitsAssumption DEF SmoothDay
<1>2. calm' => Idle
  BY DEF TimerEnds
<1>3. Rest /\ InList(r)
  BY <1>1, <1>2, Waited
<1>4. /\ habitArray' = [habitArray EXCEPT ![r + 1].data.addFirebase = FALSE]
      /\ docs' = Patch(r, "addFirebase", FALSE)
      /\ ticking' = ticking \ {r}
      /\ UNCHANGED <<app, habitCounter, shown, reads, mainQueue, today, palmiIsCool,
                     userVars, navVars, aligned, todays>>
  BY <1>3 DEF TimerEnds
<1>5. docs' = [docs EXCEPT ![r].addFirebase = FALSE] /\ habitArray' = Listing(docs', HabitCount)
  BY <1>1, <1>3, <1>4, FinishPatch DEF Rest
<1>6. Rest'
  BY <1>3, <1>4, <1>5 DEF Rest, Idle
<1>7. Finishes(r)
  BY <1>1, <1>4, <1>5 DEF Finishes, userVars
<1>8. DayStep
  BY <1>1, <1>7 DEF DayStep
<1>9. FormKnows'
  <2>1. \A n \in Rows : docs'[n].streak = docs[n].streak
    BY <1>1, <1>7, FinishesDocs
  <2>2. \A n \in Rows \ Timed : docs'[n].addFirebase = docs[n].addFirebase
    <3> TAKE n \in Rows \ Timed
    <3>1. docs'[n] = docs[n]
      BY <1>1, <1>5, DocsAre
    <3> QED
      BY <3>1
  <2> QED
    BY <1>4, <2>1, <2>2, FormStays DEF SmoothDay, navVars
<1> QED
  BY <1>4, <1>6, <1>8, <1>9, OwnDocsStay DEF SmoothDay, Phase, navVars

----------------------------------------------------------------------------
\* Firestore's answers

LEMMA AnswerIsSmooth ==
    ASSUME TypeOK, SmoothDay, AnswerRead
    PROVE  SmoothDay' /\ DayStep
<1>1. PICK i \in DOMAIN reads :
         \/ AnswerHabit(i)
         \/ reads[i].kind = "counter" /\ AnswerUser(i)
         \/ AnswerFinished(i)
  BY DEF AnswerRead
<1>2. UNCHANGED <<dayVars, userVars, navVars, histVars, docs, habitCounter, habitArray, shown, app>>
  BY <1>1 DEF AnswerRead, AnswerHabit, AnswerUser, AnswerFinished, Answer
<1>3. Phase'
  <2>1. CASE AnswerHabit(i)
    <3>1. Loading(HabitCount)
      BY <2>1, ReadsInPhase DEF SmoothDay, AnswerHabit
    <3>2. Loading(HabitCount)'
      BY <2>1, <3>1, NothingMissing, HabitIsAnswered, RowsAre
    <3> QED
      BY <3>2 DEF Phase
  <2>2. CASE reads[i].kind = "counter" /\ AnswerUser(i)
    <3>1. CounterAsked /\ habitCounter = HabitCount
      BY <2>2, ReadsInPhase DEF SmoothDay
    <3>2. CounterHere(HabitCount)'
      BY <2>2, <3>1, CounterIsAnswered
    <3> QED
      BY <3>2 DEF Phase
  <2>3. CASE AnswerFinished(i)
    <3>1. PICK r \in Rows \ Timed : FinishAsked(r) /\ i = 1
      BY <2>3, ReadsInPhase DEF SmoothDay, AnswerFinished
    <3>2. reads' = <<>>
      BY <2>3, <3>1, OneRemoved DEF AnswerFinished, Answer, FinishAsked
    <3>3. mainQueue' = <<Block(FinishCall(r), <<[finishedHabits |-> finishedHabits]>>)>>
      BY <2>3, <3>1 DEF AnswerFinished, Answer, FinishAsked
    <3>4. AtGoal(r)'
      BY <1>2, <3>1 DEF FinishAsked, AtGoal, navVars
    <3>5. FinishHere(r)'
      BY <1>2, <3>2, <3>3, <3>4 DEF FinishHere, userVars
    <3> QED
      BY <3>5 DEF Phase
  <2> QED
    BY <1>1, <2>1, <2>2, <2>3
<1>4. DayStep
  BY <1>2 DEF DayStep, Stays, userVars, histVars
<1>5. FormKnows'
  BY <1>2, FormStays DEF SmoothDay, navVars
<1> QED
  BY <1>2, <1>3, <1>4, <1>5, OwnDocsStay DEF SmoothDay, dayVars, navVars

----------------------------------------------------------------------------
\* Every step

LEMMA SmoothBefore ==
    ASSUME TypeOK, [Next]_vars, Smooth'
    PROVE  Smooth /\ ~ReadFails
<1>1. calm' => calm
  <2>1. CASE User
    BY <2>1 DEF User, TapNothing, TapCounted, TapTimed, TapStaleCell, OpenEdit, SaveEdit,
       LeaveHome, ComeBack, Acts
  <2>2. CASE System
    BY <2>2 DEF System, RunBlock, RunFinished, RunReload, AnswerRead, Transition,
       TimerEnds, histVars
  <2>3. CASE ReadFails \/ Midnight \/ Relaunch \/ UNCHANGED vars
    BY <2>3 DEF ReadFails, Midnight, Relaunch, vars, histVars
  <2> QED
    BY <2>1, <2>2, <2>3 DEF Next
<1>2. readErrors \in Nat /\ (readErrors' = readErrors \/ readErrors' = readErrors + 1)
  <2>1. readErrors \in Nat
    BY MaxReadErrorsAssumption DEF TypeOK, BoundsOK
  <2>2. CASE User
    <3>1. readErrors' = readErrors
      BY <2>2 DEF User, TapNothing, TapCounted, TapTimed, TapStaleCell, OpenEdit, SaveEdit,
         LeaveHome, ComeBack, ViewWillAppear, fetchVars
    <3> QED
      BY <2>1, <3>1
  <2>3. CASE RunBlock
    <3>1. readErrors' = readErrors
      BY <2>3 DEF RunBlock, RunFetch, RunCounter, RunHabit, RunFinished, RunReload
    <3> QED
      BY <2>1, <3>1
  <2>4. CASE AnswerRead \/ Transition \/ \E r \in ticking : TimerEnds(r)
    <3>1. readErrors' = readErrors
      BY <2>4 DEF AnswerRead, AnswerHabit, AnswerUser, AnswerFinished, Transition,
         ViewWillAppear, TimerEnds, fetchVars
    <3> QED
      BY <2>1, <3>1
  <2>5. CASE ReadFails
    BY <2>1, <2>5 DEF ReadFails, AnswerError
  <2>6. CASE Midnight \/ Relaunch \/ UNCHANGED vars
    <3>1. readErrors' = readErrors
      BY <2>6 DEF Midnight, Relaunch, RelaunchHome, vars, fetchVars
    <3> QED
      BY <2>1, <3>1
  <2> QED
    BY <2>2, <2>3, <2>4, <2>5, <2>6 DEF Next, System
<1>3. ReadFails => readErrors' = readErrors + 1
  BY DEF ReadFails, AnswerError
<1> QED
  BY <1>1, <1>2, <1>3 DEF Smooth

LEMMA DayNext ==
    ASSUME TypeOK, TapsBeginTheDay, SmoothDay, Smooth', [Next]_vars
    PROVE  SmoothDay' /\ DayStep
<1>1. CASE User
  <2>1. ASSUME NEW r \in 0..(shown - 1),
               TapNothing(r) \/ TapCounted(r) \/ TapTimed(r) \/ TapStaleCell(r)
                   \/ OpenEdit(r)
        PROVE  SmoothDay' /\ DayStep
    BY <2>1, GesturesAreSmooth, TapCountedIsSmooth
  <2> QED
    BY <1>1, <2>1, GesturesAreSmooth, SaveEditIsSmooth, ComeBackIsSmooth DEF User
<1>2. CASE System
  BY <1>2, RunFetchIsSmooth, RunCounterIsSmooth, RunHabitIsSmooth, RunFinishedIsSmooth,
     RunReloadIsSmooth, AnswerIsSmooth, TransitionIsSmooth, TimerEndsIsSmooth
     DEF System, RunBlock
<1>3. CASE Midnight \/ Relaunch
  BY <1>3, MidnightIsSmooth, RelaunchIsSmooth
<1>4. CASE UNCHANGED vars
  <2>1. UNCHANGED <<fetchVars, dayVars, userVars, navVars, histVars>>
    BY <1>4 DEF vars
  <2>2. Phase'
    BY <2>1, PhaseStays DEF SmoothDay, fetchVars, navVars, userVars
  <2>3. DayStep
    BY <2>1 DEF DayStep, Stays, fetchVars, userVars, histVars
  <2>4. FormKnows'
    BY <2>1, FormStays DEF SmoothDay, fetchVars, navVars
  <2> QED
    BY <2>1, <2>2, <2>3, <2>4, OwnDocsStay DEF SmoothDay, fetchVars, dayVars, navVars
<1>5. ~ReadFails
  BY SmoothBefore
<1> QED
  BY <1>1, <1>2, <1>3, <1>4, <1>5 DEF Next

DayInv == CountInv /\ (Smooth => SmoothDay /\ Kept /\ Counted /\ Awarded)

LEMMA NewHabitIs ==
    ASSUME NEW h \in Rows
    PROVE  /\ NewHabit(h).habit = h /\ NewHabit(h).counted = (h \notin Timed)
           /\ NewHabit(h).currentCount = 0 /\ NewHabit(h).streak = 0
           /\ NewHabit(h).addFirebase = TRUE
BY DEF NewHabit

LEMMA InitDay == Init => DayInv
<1> SUFFICES ASSUME Init PROVE DayInv
  OBVIOUS
<1>1. TypeOK /\ CountInv
  BY InitType, InitCount
<1>2. \A n \in Rows : docs[n] = NewHabit(n) /\ todays[n] = 0
  BY DEF Init
<1> DEFINE Fresh(n) == /\ docs[n].habit = n /\ docs[n].counted = (n \notin Timed)
                       /\ docs[n].currentCount = 0 /\ docs[n].streak = 0
                       /\ docs[n].addFirebase = TRUE
<1>0. ASSUME NEW n \in Rows PROVE Fresh(n)
  <2>1. docs[n] = NewHabit(n)
    BY <1>2
  <2> QED
    BY <2>1, NewHabitIs
<1>3. CounterAsked
  BY DEF Init, CounterAsked
<1>4. SmoothDay
  BY <1>0, <1>3 DEF Init, SmoothDay, OwnDocs, FormKnows, Phase
<1>5. Kept
  <2>1. \A n \in Rows : docs[n].currentCount = 0 /\ todays[n] = 0
    BY <1>0, <1>2
  <2> QED
    BY <2>1 DEF Kept
<1>6. Counted
  <2>1. Done = {} /\ finishedHabits = 0
    BY <1>0 DEF Init, Done
  <2> QED
    BY <2>1, FS_EmptySet DEF Counted
<1>7. Awarded
  <2>1. \A n \in Rows : docs[n].streak = 0
    BY <1>0
  <2>2. 0 \notin Milestones
    BY MilestonesAssumption
  <2> QED
    BY <2>1, <2>2 DEF Awarded, Standing
<1> QED
  BY <1>1, <1>4, <1>5, <1>6, <1>7 DEF DayInv

LEMMA NextDayInv ==
    ASSUME DayInv, [Next]_vars
    PROVE  DayInv' /\ (Smooth' => DayStep)
<1>1. CountInv' /\ TypeOK /\ TypeOK' /\ TapsBeginTheDay
  BY NextCount DEF DayInv, CountInv
<1>2. ASSUME Smooth'
      PROVE  SmoothDay' /\ Kept' /\ Counted' /\ Awarded' /\ DayStep
  <2>1. SmoothDay /\ Kept /\ Counted /\ Awarded
    BY <1>1, <1>2, SmoothBefore DEF DayInv
  <2>2. SmoothDay' /\ DayStep
    BY <1>1, <1>2, <2>1, DayNext
  <2> QED
    BY <1>1, <2>1, <2>2, KeptStays, CountedStays, AwardedStays
<1> QED
  BY <1>1, <1>2 DEF DayInv

LEMMA DayInvHolds == Spec => []DayInv
<1>1. DayInv /\ [Next]_vars => DayInv'
  BY NextDayInv
<1> QED
  BY InitDay, <1>1, PTL DEF Spec

----------------------------------------------------------------------------
\* The theorems of the day

(* For a user who waits for the app, and while no read fails, the list, the
   cells and the documents agree whenever nothing is under way. *)
THEOREM ListAgrees == Spec => []ListAgreesAtRest
<1>1. DayInv => ListAgreesAtRest
  <2> SUFFICES ASSUME DayInv, Smooth, Idle
               PROVE  /\ app = "running" /\ shown = HabitCount
                      /\ habitArray = Listing(docs, HabitCount)
    BY DEF ListAgreesAtRest, Listing, Placed
  <2>1. SmoothDay /\ TypeOK
    BY DEF DayInv, CountInv
  <2> QED
    BY <2>1, AtRest DEF SmoothDay, Rest
<1> QED
  BY <1>1, DayInvHolds, PTL

(* No tap of today that counted is lost from the habit's document. *)
THEOREM TapsAreKept == Spec => []TapsOfTodayAreKept
<1>1. DayInv => TapsOfTodayAreKept
  BY DEF DayInv, SmoothDay, OwnDocs, Kept, TapsOfTodayAreKept
<1> QED
  BY <1>1, DayInvHolds, PTL

(* finishedHabits is the number of the counted habits that are finished. *)
THEOREM FinishesAreCounted == Spec => []FinishedAreCounted
<1>1. DayInv => FinishedAreCounted
  BY DEF DayInv, Counted, Done, FinishedAreCounted
<1> QED
  BY <1>1, DayInvHolds, PTL

(* The achievements are those of the habits whose streak stands at a
   milestone, with the days viewWillAppear writes, while there are any. *)
THEOREM StreaksAreAwarded == Spec => []MilestonesAreAwarded
<1>1. DayInv => MilestonesAreAwarded
  BY DEF DayInv, Awarded, MilestonesAreAwarded, Standing, Standings
<1> QED
  BY <1>1, DayInvHolds, PTL

(* The documents implement DayLedger: they begin as its habits do, and every
   step changes them as one of its steps does, or not at all. *)
THEOREM ImplementsLedger == Spec => StepsOfTheLedger
<1>1. Init => Ledger!Init
  <2> SUFFICES ASSUME Init PROVE Ledger!Init
    OBVIOUS
  <2>1. ASSUME NEW n \in Rows
        PROVE  /\ docs[n].currentCount = 0 /\ docs[n].streak = 0
               /\ (~docs[n].addFirebase) = FALSE
    <3>1. docs[n] = NewHabit(n)
      BY DEF Init
    <3> QED
      BY <3>1, NewHabitIs
  <2> QED
    BY <2>1 DEF Ledger!Init
<1>2. DayInv /\ [Next]_vars => [Smooth' => [Ledger!Next]_docs]_vars
  BY NextDayInv, LedgerStep DEF DayInv, CountInv
<1> QED
  BY <1>1, <1>2, DayInvHolds, PTL DEF Spec, StepsOfTheLedger
============================================================================
