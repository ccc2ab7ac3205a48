-------------------------- MODULE HabitFormProofs --------------------------
(***************************************************************************)
(* Proofs about module HabitForm, for any times, amounts, colours and      *)
(* bounds: the types, that every array of digits can be read, and that a   *)
(* habit has the colour, the time and the goal its form displayed.         *)
(***************************************************************************)
EXTENDS HabitForm, SequenceTheorems, TLAPS

----------------------------------------------------------------------------
\* Sequences

LEMMA WithoutType ==
    ASSUME NEW S, NEW s \in Seq(S), NEW i \in 1..Len(s)
    PROVE  LET rest == SubSeq(s, 1, i - 1) \o SubSeq(s, i + 1, Len(s)) IN
           /\ rest \in Seq(S)
           /\ \A k \in 1..Len(rest) : \E j \in 1..Len(s) : rest[k] = s[j]
<1> DEFINE before == SubSeq(s, 1, i - 1)
           after  == SubSeq(s, i + 1, Len(s))
<1>1. /\ before \in Seq(S) /\ Len(before) = i - 1
      /\ \A k \in 1..(i - 1) : before[k] = s[k]
  BY SubSeqProperties
<1>2. /\ after \in Seq(S) /\ Len(after) = Len(s) - i
      /\ \A k \in 1..(Len(s) - i) : after[k] = s[i + k]
  BY SubSeqProperties
<1> HIDE DEF before, after
<1>3. /\ before \o after \in Seq(S) /\ Len(before \o after) = Len(s) - 1
      /\ \A k \in 1..(Len(s) - 1) :
            (before \o after)[k] = IF k <= i - 1 THEN before[k] ELSE after[k - (i - 1)]
  BY <1>1, <1>2, ConcatProperties
<1>4. \A k \in 1..(Len(s) - 1) : \E j \in 1..Len(s) : (before \o after)[k] = s[j]
  <2> TAKE k \in 1..(Len(s) - 1)
  <2>1. CASE k <= i - 1
    BY <1>1, <1>3, <2>1
  <2>2. CASE ~(k <= i - 1)
    <3>1. k - (i - 1) \in 1..(Len(s) - i) /\ i + (k - (i - 1)) \in 1..Len(s)
      BY <2>2
    <3> QED
      BY <1>2, <1>3, <2>2, <3>1
  <2> QED
    BY <2>1, <2>2
<1> QED
  BY <1>3, <1>4 DEF before, after

LEMMA TailType ==
    ASSUME NEW S, NEW s \in Seq(S), s # <<>>
    PROVE  /\ Head(s) \in S /\ Head(s) = s[1] /\ 1 \in 1..Len(s)
           /\ Tail(s) \in Seq(S)
           /\ \A k \in 1..Len(Tail(s)) : k + 1 \in 1..Len(s) /\ Tail(s)[k] = s[k + 1]
BY HeadTailProperties, ElementOfSeq, EmptySeq

LEMMA AppendType ==
    ASSUME NEW S, NEW s \in Seq(S), NEW e \in S
    PROVE  /\ Append(s, e) \in Seq(S) /\ Append(s, e) # <<>>
           /\ \A k \in 1..Len(Append(s, e)) :
                 \/ k \in 1..Len(s) /\ Append(s, e)[k] = s[k]
                 \/ Append(s, e)[k] = e
<1>1. /\ Append(s, e) \in Seq(S) /\ Len(Append(s, e)) = Len(s) + 1
      /\ \A k \in 1..Len(s) : Append(s, e)[k] = s[k]
      /\ Append(s, e)[Len(s) + 1] = e
  BY AppendProperties
<1>2. Len(s) \in Nat
  OBVIOUS
<1>3. Append(s, e) # <<>>
  BY <1>1, <1>2, EmptySeq
<1>4. \A k \in 1..(Len(s) + 1) : k \in 1..Len(s) \/ k = Len(s) + 1
  BY <1>2
<1> QED
  BY <1>1, <1>3, <1>4

LEMMA NonemptyHead ==
    ASSUME NEW S, NEW s \in Seq(S), s # <<>>
    PROVE  Head(s) \in S
BY TailType

LEMMA ArrayIsSeq ==
    ASSUME NEW S, NEW n \in Nat, NEW f \in [1..n -> S]
    PROVE  f \in Seq(S) /\ Len(f) = n /\ DOMAIN f = 1..n
OBVIOUS

LEMMA PutType ==
    ASSUME NEW S, NEW s \in Seq(S), NEW r \in Nat \ {0}, r <= Len(s) + 1, NEW v \in S
    PROVE  /\ Put(s, r, v) \in Seq(S)
           /\ Len(Put(s, r, v)) = IF r > Len(s) THEN r ELSE Len(s)
           /\ \A k \in 1..Len(Put(s, r, v)) :
                 \/ k = r /\ Put(s, r, v)[k] = v
                 \/ k # r /\ k \in 1..Len(s) /\ Put(s, r, v)[k] = s[k]
<1> DEFINE n == IF r > Len(s) THEN r ELSE Len(s)
<1>1. n \in Nat /\ \A k \in 1..n : k # r => k \in 1..Len(s)
  OBVIOUS
<1>2. Put(s, r, v) = [k \in 1..n |-> IF k = r THEN v ELSE s[k]]
  BY DEF Put
<1> HIDE DEF n
<1>3. \A k \in 1..Len(s) : s[k] \in S
  BY ElementOfSeq
<1>4. Put(s, r, v) \in [1..n -> S]
  BY <1>1, <1>2, <1>3
<1>5. Put(s, r, v) \in Seq(S) /\ Len(Put(s, r, v)) = n
  BY <1>1, <1>4, ArrayIsSeq
<1>6. \A k \in 1..n : Put(s, r, v)[k] = IF k = r THEN v ELSE s[k]
  BY <1>2
<1> QED
  BY <1>1, <1>5, <1>6 DEF n

LEMMA ExceptType ==
    ASSUME NEW S, NEW s \in Seq(S), NEW r \in 1..Len(s), NEW v \in S
    PROVE  /\ [s EXCEPT ![r] = v] \in Seq(S)
           /\ Len([s EXCEPT ![r] = v]) = Len(s)
           /\ \A k \in 1..Len(s) :
                 [s EXCEPT ![r] = v][k] = IF k = r THEN v ELSE s[k]
<1>1. \A k \in 1..Len(s) : s[k] \in S
  BY ElementOfSeq
<1>2. DOMAIN s = 1..Len(s) /\ Len(s) \in Nat
  OBVIOUS
<1>3. [s EXCEPT ![r] = v] \in [1..Len(s) -> S]
  BY <1>1, <1>2
<1> QED
  BY <1>2, <1>3, ArrayIsSeq

----------------------------------------------------------------------------
\* Types, and arrays that can be read

ReadableHabit == {h \in HabitType : h.time # <<>> /\ h.original # <<>>}

StoreOK ==
    /\ docs \in Seq(ReadableHabit) /\ list \in Seq(ReadableHabit)
    /\ Len(list) <= Len(docs)
    /\ fetch \in {"none", "queued", "reading"}

HistOK ==
    /\ chosen \in Seq(ChoiceType) /\ Len(chosen) = Len(docs)
    /\ full \in Seq(BOOLEAN) /\ Len(full) = Len(docs)
    /\ orderly \in BOOLEAN /\ patient \in BOOLEAN

(* An edit has an array, and so has a form that a time was chosen in. *)
DraftOK ==
    /\ draft \in DraftType /\ draft.row <= Len(docs)
    /\ draft.row # 0 => draft.time # <<>>
    /\ draft.selected /\ ~draft.counted => draft.time # <<>>

ScreenOK ==
    /\ screen \in {"home", "create", "edit", "away", "returning"}
    /\ screen = "edit" => draft.row # 0
    /\ picker \in PickerType /\ (picker = NoPicker \/ picker.array # <<>>)
    /\ sectionColor \in Nat
    /\ begun \in BOOLEAN

BoundsOK == bounds \in [forms : 0..MaxForms, touches : 0..MaxTouches]

BlockType == [add : AddType, number : Nat \ {0}]

(* The number of a pending add is that of a habit or the next, and the array
   of the form is not taken from a timed habit under way. *)
CallOK ==
    /\ adds \in Seq(AddType)
    /\ \A k \in 1..Len(adds) : ~adds[k].counted => draft.time # <<>>
    /\ blocks \in Seq(BlockType)
    /\ \A k \in 1..Len(blocks) : /\ blocks[k].number <= Len(docs) + 1
                                 /\ ~blocks[k].add.counted => draft.time # <<>>

TypeInv == StoreOK /\ HistOK /\ DraftOK /\ ScreenOK /\ BoundsOK /\ CallOK

LEMMA TypeInvImplies == TypeInv => TypeOK /\ TimesAreReadable
<1> SUFFICES ASSUME TypeInv PROVE TypeOK /\ TimesAreReadable
  OBVIOUS
<1>1. docs \in Seq(ReadableHabit) /\ list \in Seq(ReadableHabit)
  BY DEF TypeInv, StoreOK
<1>2. \A r \in 1..Len(docs) : docs[r] \in ReadableHabit
  BY <1>1, ElementOfSeq
<1>3. \A r \in 1..Len(list) : list[r] \in ReadableHabit
  BY <1>1, ElementOfSeq
<1>4. TimesAreReadable
  BY <1>1, <1>2, <1>3 DEF TimesAreReadable, Readable, ReadableHabit
<1>5. docs \in Seq(HabitType) /\ list \in Seq(HabitType)
  <2>1. Len(docs) \in Nat /\ docs \in [1..Len(docs) -> HabitType]
    BY <1>1, <1>2 DEF ReadableHabit
  <2>2. Len(list) \in Nat /\ list \in [1..Len(list) -> HabitType]
    BY <1>1, <1>3 DEF ReadableHabit
  <2> QED
    BY <2>1, <2>2, ArrayIsSeq
<1>6. TypeOK
  BY <1>5 DEF TypeOK, TypeInv, StoreOK, HistOK, DraftOK, ScreenOK, BoundsOK, CallOK, BlockType
<1> QED
  BY <1>4, <1>6

LEMMA UnchangedParts ==
    /\ StoreOK /\ UNCHANGED storeVars => StoreOK'
    /\ HistOK /\ UNCHANGED <<histVars, docs>> => HistOK'
    /\ DraftOK /\ UNCHANGED <<draft, docs>> => DraftOK'
    /\ ScreenOK /\ UNCHANGED <<screen, draft, picker, sectionColor, begun>> => ScreenOK'
    /\ BoundsOK /\ UNCHANGED bounds => BoundsOK'
    /\ CallOK /\ UNCHANGED <<adds, blocks, draft, docs>> => CallOK'
BY DEF StoreOK, storeVars, HistOK, histVars, DraftOK, ScreenOK, BoundsOK, CallOK

LEMMA TouchBounds ==
    ASSUME BoundsOK, Touch
    PROVE  BoundsOK'
BY BoundsAssumption DEF BoundsOK, Touch

LEMMA OpenedBounds ==
    ASSUME BoundsOK, Opened
    PROVE  BoundsOK'
BY BoundsAssumption DEF BoundsOK, Opened

LEMMA NoFormType ==
    ASSUME NEW c \in Nat
    PROVE  /\ CreateDraft(c) \in DraftType /\ CreateDraft(c).row = 0
           /\ ~CreateDraft(c).selected
BY DEF CreateDraft, DraftType, Time, Unknown, Untold

LEMMA NotWaiting ==
    /\ ~Waiting => adds = <<>> /\ blocks = <<>>
    /\ Len(<<>>) = 0
BY DEF Waiting

LEMMA EntryType ==
    ASSUME StoreOK, NEW r \in DOMAIN list
    PROVE  /\ list[r] \in ReadableHabit /\ r \in 1..Len(list) /\ r \in Nat /\ r # 0
           /\ r <= Len(docs) /\ r \in 1..Len(docs) /\ docs[r] \in ReadableHabit
<1>1. docs \in Seq(ReadableHabit) /\ list \in Seq(ReadableHabit) /\ Len(list) <= Len(docs)
  BY DEF StoreOK
<1>2. r \in 1..Len(list) /\ Len(docs) \in Nat /\ Len(list) \in Nat
  BY <1>1
<1>3. r \in 1..Len(docs)
  BY <1>1, <1>2
<1> QED
  BY <1>1, <1>2, <1>3, ElementOfSeq

LEMMA BlockFacts ==
    ASSUME CallOK, NEW k \in 1..Len(blocks)
    PROVE  /\ blocks[k].add \in AddType /\ blocks[k].number \in Nat \ {0}
           /\ blocks[k].number <= Len(docs) + 1
           /\ ~blocks[k].add.counted => draft.time # <<>>
<1>1. blocks \in Seq(BlockType)
  BY DEF CallOK
<1>2. blocks[k] \in BlockType
  BY <1>1, ElementOfSeq
<1> QED
  BY <1>2 DEF CallOK, BlockType

LEMMA OpenType ==
    ASSUME TypeInv, OpenCreate \/ \E r \in DOMAIN list : OpenEdit(r)
    PROVE  TypeInv'
<1> USE DEF TypeInv
<1>1. Opened /\ Idle /\ UNCHANGED <<storeVars, histVars, picker, adds, blocks, begun>>
  BY DEF OpenCreate, OpenEdit
<1>2. StoreOK' /\ HistOK' /\ BoundsOK' /\ docs' = docs
  BY <1>1, UnchangedParts, OpenedBounds DEF storeVars
<1>3. CallOK'
  <2>1. adds' = <<>> /\ blocks' = <<>>
    BY <1>1, NotWaiting DEF Idle
  <2> QED
    BY <2>1, NotWaiting DEF CallOK
<1>4. CASE OpenCreate
  <2>1. DefaultColor(sectionColor) \in Nat
    BY DEF ScreenOK, DefaultColor, Gray
  <2>2. draft' = CreateDraft(DefaultColor(sectionColor))
    BY <1>4 DEF OpenCreate
  <2>3. draft' \in DraftType /\ draft'.row = 0 /\ ~draft'.selected
    BY <2>1, <2>2, NoFormType
  <2>4. DraftOK'
    <3>1. Len(docs) \in Nat
      BY DEF StoreOK
    <3> QED
      BY <1>2, <2>3, <3>1 DEF DraftOK
  <2>5. ScreenOK'
    BY <1>1, <1>4 DEF OpenCreate, ScreenOK
  <2> QED
    BY <1>2, <1>3, <2>4, <2>5
<1>5. CASE \E r \in DOMAIN list : OpenEdit(r)
  <2>1. PICK r \in DOMAIN list : OpenEdit(r)
    BY <1>5
  <2>2. list[r] \in ReadableHabit /\ r \in Nat /\ r # 0 /\ r <= Len(docs)
    BY EntryType
  <2>3. draft' = EditDraft(r) /\ sectionColor' = list[r].color /\ screen' = "edit"
    BY <2>1 DEF OpenEdit, EditColor
  <2>4. draft' \in DraftType /\ draft'.row = r /\ draft'.time # <<>>
    BY <2>2, <2>3 DEF EditDraft, DraftType, ReadableHabit, HabitType, Unknown, Untold
  <2>5. DraftOK'
    BY <1>2, <2>2, <2>4 DEF DraftOK
  <2>6. sectionColor' \in Nat
    BY <2>2, <2>3 DEF ReadableHabit, HabitType
  <2>7. ScreenOK'
    BY <1>1, <2>2, <2>3, <2>4, <2>6 DEF ScreenOK
  <2> QED
    BY <1>2, <1>3, <2>5, <2>7
<1> QED
  BY <1>4, <1>5

LEMMA PickColorType ==
    ASSUME TypeInv, NEW c \in Colors, PickColor(c)
    PROVE  TypeInv'
<1> USE DEF TypeInv, PickColor
<1>1. StoreOK' /\ HistOK' /\ BoundsOK' /\ docs' = docs
  BY UnchangedParts, TouchBounds DEF storeVars
<1>2. c \in Nat
  BY ChoicesAssumption
<1>3. draft \in DraftType
  BY DEF DraftOK
<1>4. /\ draft' \in DraftType /\ draft'.row = draft.row /\ draft'.time = draft.time
      /\ draft'.selected = draft.selected /\ draft'.counted = draft.counted
  BY <1>2, <1>3 DEF DraftType
<1>5. DraftOK'
  BY <1>1, <1>4 DEF DraftOK
<1>6. ScreenOK'
  BY <1>2, <1>4 DEF ScreenOK
<1>7. CallOK'
  BY <1>1, <1>4 DEF CallOK
<1> QED
  BY <1>1, <1>5, <1>6, <1>7

(* What the wheel shows of a time, if it shows any, looks like that time. *)
LEMMA WheelShowsTime ==
    ASSUME NEW time \in Nat
    PROVE  /\ WheelShows(time) \in SUBSET Nat
           /\ WheelShows(time) # Untold => time \in WheelShows(time)
<1>1. time + Minute \in Nat /\ time <= time + Minute
  BY MinuteAssumption
<1>2. time \in 0..(time + Minute)
  BY <1>1
<1>3. CASE time \div Minute = 0
  BY <1>3 DEF WheelShows, Untold
<1>4. CASE time \div Minute # 0
  <2>1. WheelShows(time) = {t \in 0..(time + Minute) : t \div Minute = time \div Minute}
    BY <1>4 DEF WheelShows
  <2> QED
    BY <1>1, <1>2, <2>1
<1> QED
  BY <1>3, <1>4

LEMMA PickerStepType ==
    ASSUME TypeInv,
           OpenTimePicker \/ DismissPicker \/ \E t \in Times : TurnWheel(t)
    PROVE  TypeInv'
<1> USE DEF TypeInv
<1>1. UNCHANGED <<storeVars, screen, draft, adds, blocks, sectionColor, begun, bounds,
                  histVars>>
  BY DEF OpenTimePicker, DismissPicker, TurnWheel
<1>2. StoreOK' /\ HistOK' /\ BoundsOK' /\ DraftOK' /\ CallOK'
  BY <1>1, UnchangedParts DEF storeVars
<1>3. picker' \in PickerType /\ (picker' = NoPicker \/ picker'.array # <<>>)
  <2>1. CASE OpenTimePicker
    <3> DEFINE array == IF draft.row = 0 THEN <<>> ELSE draft.time
               shown == IF draft.row = 0 THEN {Minute} ELSE WheelShows(Head(draft.time))
    <3>1. draft.time \in Seq(Nat) /\ (draft.row # 0 => draft.time # <<>>)
      BY DEF DraftOK, DraftType, Time
    <3>2. array \in Seq(Nat) /\ shown \in SUBSET Nat
      BY <3>1, NonemptyHead, WheelShowsTime, MinuteAssumption
    <3>3. picker' = [array |-> Append(array, Minute), shown |-> shown]
      BY <2>1 DEF OpenTimePicker, FillArray
    <3> HIDE DEF array, shown
    <3>4. Append(array, Minute) \in Seq(Nat) /\ Append(array, Minute) # <<>>
      BY <3>2, AppendType, MinuteAssumption
    <3> QED
      BY <3>2, <3>3, <3>4 DEF PickerType, Time
  <2>2. CASE DismissPicker
    BY <2>2 DEF DismissPicker, PickerType, NoPicker, Time, Untold
  <2>3. ASSUME NEW t \in Times, TurnWheel(t) PROVE <1>3!:
    <3>1. t \in Nat
      BY ChoicesAssumption
    <3>2. <<t>> \in Seq(Nat) /\ <<t>> # <<>>
      BY <3>1
    <3>3. picker \in PickerType
      BY DEF ScreenOK
    <3> QED
      BY <2>3, <3>1, <3>2, <3>3 DEF TurnWheel, PickerType, Time
  <2> QED
    BY <2>1, <2>2, <2>3
<1>4. ScreenOK'
  BY <1>1, <1>3 DEF ScreenOK
<1> QED
  BY <1>2, <1>4

LEMMA ConfirmTimeType ==
    ASSUME TypeInv, ConfirmTime
    PROVE  TypeInv'
<1> USE DEF TypeInv, ConfirmTime
<1>1. StoreOK' /\ BoundsOK' /\ docs' = docs
  BY UnchangedParts, TouchBounds DEF storeVars
<1>2. picker \in PickerType /\ picker.array # <<>> /\ draft \in DraftType
  BY DEF ScreenOK, DraftOK
<1>3. draft' \in DraftType /\ draft'.row = draft.row /\ draft'.time # <<>>
  BY <1>2 DEF DraftType, PickerType
<1>4. DraftOK'
  BY <1>1, <1>3 DEF DraftOK
<1>5. ScreenOK'
  BY <1>3 DEF ScreenOK, NoPicker, PickerType, Time, Untold
<1>6. CallOK'
  BY <1>1, <1>3 DEF CallOK
<1>7. patient' \in BOOLEAN
  OBVIOUS
<1>8. HistOK'
  BY <1>1, <1>7 DEF HistOK
<1> QED
  BY <1>1, <1>4, <1>5, <1>6, <1>8

LEMMA ChooseAmountType ==
    ASSUME TypeInv, NEW n \in Amounts \cup {StepperStart}, ChooseAmount(n)
    PROVE  TypeInv'
<1> USE DEF TypeInv, ChooseAmount
<1>1. StoreOK' /\ HistOK' /\ BoundsOK' /\ docs' = docs
  BY UnchangedParts, TouchBounds DEF storeVars
<1>2. draft \in DraftType
  BY DEF DraftOK
<1>3. n \in Nat
  BY <1>2, ChoicesAssumption DEF StepperStart, DraftType
<1>4. /\ draft' \in DraftType /\ draft'.row = draft.row /\ draft'.time = draft.time
      /\ draft'.counted
  BY <1>2, <1>3 DEF DraftType
<1>5. DraftOK'
  BY <1>1, <1>4 DEF DraftOK
<1>6. ScreenOK'
  BY <1>4 DEF ScreenOK
<1>7. CallOK'
  BY <1>1, <1>4 DEF CallOK
<1> QED
  BY <1>1, <1>5, <1>6, <1>7

LEMMA ChoiceTyped ==
    ASSUME draft \in DraftType,
           NEW time \in SUBSET Nat, NEW goal \in Nat \cup {Unknown}
    PROVE  Choice(time, goal) \in ChoiceType /\ Choice(time, goal).color = draft.color
BY DEF Choice, ChoiceType, DraftType, Untold

LEMMA TapAddType ==
    ASSUME TypeInv, TapAdd
    PROVE  TypeInv'
<1> USE DEF TypeInv
<1>1. StoreOK' /\ HistOK' /\ DraftOK' /\ ScreenOK'
  BY UnchangedParts DEF TapAdd, storeVars
<1>2. BoundsOK'
  BY TouchBounds DEF TapAdd
<1> DEFINE add == [counted |-> draft.counted, goal |-> draft.goal,
                   color |-> DefaultColor(sectionColor),
                   choice |-> Choice(draft.askedTime, draft.askedGoal)]
<1>3. draft \in DraftType /\ (~draft.counted => draft.time # <<>>)
  BY DEF DraftOK, TapAdd
<1>4. add \in AddType /\ add.counted = draft.counted
  <2>1. draft.askedTime \in SUBSET Nat /\ draft.askedGoal \in Nat \cup {Unknown}
    BY <1>3 DEF DraftType
  <2>2. Choice(draft.askedTime, draft.askedGoal) \in ChoiceType
    BY <1>3, <2>1, ChoiceTyped
  <2>3. DefaultColor(sectionColor) \in Nat
    BY DEF ScreenOK, DefaultColor, Gray
  <2> QED
    BY <1>3, <2>2, <2>3 DEF AddType, DraftType
<1>5. adds' = Append(adds, add) /\ UNCHANGED <<draft, blocks, docs>>
  BY DEF TapAdd, storeVars
<1> HIDE DEF add
<1>6. /\ adds' \in Seq(AddType)
      /\ \A k \in 1..Len(adds') : \/ k \in 1..Len(adds) /\ adds'[k] = adds[k]
                                  \/ adds'[k] = add
  <2>1. adds \in Seq(AddType)
    BY DEF CallOK
  <2> QED
    BY <1>4, <1>5, <2>1, AppendType
<1>7. CallOK'
  BY <1>3, <1>4, <1>5, <1>6 DEF CallOK
<1> QED
  BY <1>1, <1>2, <1>7

LEMMA AnswerType ==
    ASSUME TypeInv, NEW i \in DOMAIN adds, Answer(i)
    PROVE  TypeInv'
<1> USE DEF TypeInv
<1>1. StoreOK' /\ HistOK' /\ DraftOK' /\ ScreenOK' /\ BoundsOK'
  BY UnchangedParts DEF Answer, storeVars
<1> DEFINE block == [add |-> adds[i], number |-> NextNumber]
<1>2. adds \in Seq(AddType) /\ i \in 1..Len(adds) /\ adds[i] \in AddType
  BY ElementOfSeq DEF CallOK
<1>3. NextNumber \in Nat \ {0} /\ NextNumber = Len(docs) + 1
  <2>1. Len(docs) \in Nat
    BY DEF StoreOK
  <2> QED
    BY <2>1 DEF NextNumber
<1>4. block \in BlockType /\ block.add = adds[i] /\ block.number <= Len(docs) + 1
  BY <1>2, <1>3 DEF BlockType
<1>5. /\ blocks' = Append(blocks, block) /\ UNCHANGED <<draft, docs>>
      /\ adds' = SubSeq(adds, 1, i - 1) \o SubSeq(adds, i + 1, Len(adds))
  BY DEF Answer, storeVars
<1> HIDE DEF block
<1>6. /\ blocks' \in Seq(BlockType)
      /\ \A k \in 1..Len(blocks') : \/ k \in 1..Len(blocks) /\ blocks'[k] = blocks[k]
                                    \/ blocks'[k] = block
  <2>1. blocks \in Seq(BlockType)
    BY DEF CallOK
  <2> QED
    BY <1>4, <1>5, <2>1, AppendType
<1>7. /\ adds' \in Seq(AddType)
      /\ \A k \in 1..Len(adds') : \E j \in 1..Len(adds) : adds'[k] = adds[j]
  BY <1>2, <1>5, WithoutType
<1>8. \A k \in 1..Len(adds') : ~adds'[k].counted => draft'.time # <<>>
  BY <1>5, <1>7 DEF CallOK
<1>9. \A k \in 1..Len(blocks') : /\ blocks'[k].number <= Len(docs') + 1
                                 /\ ~blocks'[k].add.counted => draft'.time # <<>>
  <2> TAKE k \in 1..Len(blocks')
  <2>1. CASE k \in 1..Len(blocks) /\ blocks'[k] = blocks[k]
    BY <1>5, <2>1, BlockFacts
  <2>2. CASE blocks'[k] = block
    BY <1>2, <1>4, <1>5, <2>2 DEF CallOK
  <2> QED
    BY <1>6, <2>1, <2>2
<1>10. CallOK'
  BY <1>6, <1>7, <1>8, <1>9 DEF CallOK
<1> QED
  BY <1>1, <1>10

(* The block of an add takes the array of the form, and leaves it one. *)
LEMMA RunAddType ==
    ASSUME TypeInv, RunAdd
    PROVE  TypeInv'
<1> USE DEF TypeInv
<1> DEFINE add  == Head(blocks).add
           r    == Head(blocks).number
           time == TimeOfHabit(draft.time, add.counted)
           doc  == [counted |-> add.counted, goal |-> add.goal, color |-> add.color,
                    time |-> time, original |-> time]
<1>1. /\ blocks \in Seq(BlockType) /\ blocks # <<>>
      /\ Head(blocks) \in BlockType /\ Head(blocks) = blocks[1] /\ 1 \in 1..Len(blocks)
      /\ Tail(blocks) \in Seq(BlockType)
      /\ \A k \in 1..Len(Tail(blocks)) :
            k + 1 \in 1..Len(blocks) /\ Tail(blocks)[k] = blocks[k + 1]
  <2>1. blocks \in Seq(BlockType) /\ blocks # <<>>
    BY DEF CallOK, RunAdd
  <2> QED
    BY <2>1, TailType
<1>2. add \in AddType /\ r \in Nat \ {0} /\ r <= Len(docs) + 1
      /\ (~add.counted => draft.time # <<>>)
  <2>1. add = blocks[1].add /\ r = blocks[1].number /\ 1 \in 1..Len(blocks)
    BY <1>1
  <2> HIDE DEF add, r
  <2> QED
    BY <2>1, BlockFacts
<1>3. draft \in DraftType /\ draft.time \in Seq(Nat)
  BY DEF DraftOK, DraftType, Time
<1>4. time \in Seq(Nat) /\ time # <<>>
  <2>1. Append(draft.time, 0) \in Seq(Nat) /\ Append(draft.time, 0) # <<>>
    BY <1>3, AppendType
  <2> QED
    BY <1>2, <1>3, <2>1 DEF TimeOfHabit
<1>5. doc \in ReadableHabit
  BY <1>2, <1>4 DEF ReadableHabit, HabitType, AddType, Time
<1>6. /\ draft' = [draft EXCEPT !.time = time]
      /\ docs' = Put(docs, r, doc)
      /\ chosen' = Put(chosen, r, add.choice) /\ full' = Put(full, r, TRUE)
      /\ blocks' = Tail(blocks) /\ fetch' = "queued"
      /\ screen' = IF screen = "create" THEN "returning" ELSE screen
      /\ UNCHANGED <<list, picker, adds, sectionColor, begun, bounds, orderly, patient>>
  BY DEF RunAdd
<1> HIDE DEF add, r, time, doc
<1>7. /\ docs \in Seq(ReadableHabit) /\ chosen \in Seq(ChoiceType) /\ full \in Seq(BOOLEAN)
      /\ Len(chosen) = Len(docs) /\ Len(full) = Len(docs) /\ Len(list) <= Len(docs)
      /\ Len(docs) \in Nat /\ Len(list) \in Nat
  BY DEF StoreOK, HistOK
<1>8. docs' \in Seq(ReadableHabit) /\ Len(docs') = IF r > Len(docs) THEN r ELSE Len(docs)
  BY <1>2, <1>5, <1>6, <1>7, PutType
<1>9. chosen' \in Seq(ChoiceType) /\ Len(chosen') = IF r > Len(docs) THEN r ELSE Len(docs)
  <2>1. add.choice \in ChoiceType
    BY <1>2 DEF AddType
  <2>2. r \in Nat \ {0} /\ r <= Len(chosen) + 1 /\ chosen \in Seq(ChoiceType)
    BY <1>2, <1>7
  <2>3. /\ Put(chosen, r, add.choice) \in Seq(ChoiceType)
        /\ Len(Put(chosen, r, add.choice)) = IF r > Len(chosen) THEN r ELSE Len(chosen)
    BY <2>1, <2>2, PutType
  <2> QED
    BY <1>6, <1>7, <2>3
<1>10. full' \in Seq(BOOLEAN) /\ Len(full') = IF r > Len(docs) THEN r ELSE Len(docs)
  <2> DEFINE n == IF r > Len(docs) THEN r ELSE Len(docs)
  <2>1. n \in Nat /\ \A k \in 1..n : k # r => k \in 1..Len(full)
    BY <1>2, <1>7
  <2>2. full' = [k \in 1..n |-> IF k = r THEN TRUE ELSE full[k]]
    BY <1>6, <1>7 DEF Put
  <2>3. \A k \in 1..Len(full) : full[k] \in BOOLEAN
    BY <1>7, ElementOfSeq
  <2> HIDE DEF n
  <2>4. full' \in [1..n -> BOOLEAN]
    BY <2>1, <2>2, <2>3
  <2>5. full' \in Seq(BOOLEAN) /\ Len(full') = n
    BY <2>1, <2>4, ArrayIsSeq
  <2> QED
    BY <2>5 DEF n
<1>11. Len(docs') \in Nat /\ Len(docs) <= Len(docs')
  BY <1>2, <1>7, <1>8
<1>12. StoreOK'
  <2>1. Len(list') <= Len(docs')
    BY <1>6, <1>7, <1>11
  <2> QED
    BY <1>6, <1>8, <2>1 DEF StoreOK
<1>13. HistOK'
  BY <1>6, <1>8, <1>9, <1>10 DEF HistOK
<1>14. draft' \in DraftType /\ draft'.row = draft.row /\ draft'.time # <<>>
  BY <1>3, <1>4, <1>6 DEF DraftType, Time
<1>15. DraftOK'
  <2>1. draft.row \in Nat /\ draft.row <= Len(docs)
    BY <1>3 DEF DraftOK, DraftType
  <2>2. draft'.row <= Len(docs')
    BY <1>7, <1>11, <1>14, <2>1
  <2> QED
    BY <1>14, <2>2 DEF DraftOK
<1>16. ScreenOK'
  BY <1>6, <1>14 DEF ScreenOK
<1>17. BoundsOK'
  BY <1>6, UnchangedParts
<1>18. CallOK'
  <2>1. adds' \in Seq(AddType) /\ blocks' \in Seq(BlockType)
    BY <1>1, <1>6 DEF CallOK
  <2>2. ASSUME NEW k \in 1..Len(blocks') PROVE blocks'[k].number <= Len(docs') + 1
    <3>1. k + 1 \in 1..Len(blocks) /\ blocks'[k] = blocks[k + 1]
      BY <1>1, <1>6
    <3>2. blocks[k + 1].number \in Nat /\ blocks[k + 1].number <= Len(docs) + 1
      BY <3>1, BlockFacts
    <3> QED
      BY <1>7, <1>11, <3>1, <3>2
  <2> QED
    BY <1>14, <2>1, <2>2 DEF CallOK
<1> QED
  BY <1>12, <1>13, <1>15, <1>16, <1>17, <1>18

LEMMA SaveEditType ==
    ASSUME TypeInv, SaveEdit
    PROVE  TypeInv'
<1> USE DEF TypeInv
<1> DEFINE r   == draft.row
           doc == [counted |-> draft.counted, goal |-> EditGoal, color |-> sectionColor,
                   time |-> draft.time, original |-> draft.time]
           choice == Choice(ChosenTime, ChosenGoal)
<1>1. /\ docs' = [docs EXCEPT ![r] = doc] /\ chosen' = [chosen EXCEPT ![r] = choice]
      /\ full' = [full EXCEPT ![r] = TRUE] /\ fetch' = "queued" /\ screen' = "returning"
      /\ screen = "edit"
      /\ UNCHANGED <<list, draft, picker, adds, blocks, sectionColor, begun, bounds, orderly,
                     patient>>
  BY DEF SaveEdit
<1>2. /\ docs \in Seq(ReadableHabit) /\ chosen \in Seq(ChoiceType) /\ full \in Seq(BOOLEAN)
      /\ Len(chosen) = Len(docs) /\ Len(full) = Len(docs) /\ Len(docs) \in Nat
  BY DEF StoreOK, HistOK
<1>3. draft \in DraftType /\ draft.time # <<>> /\ r \in 1..Len(docs)
  <2>1. draft \in DraftType /\ r # 0 /\ draft.time # <<>> /\ r <= Len(docs)
    BY <1>1 DEF DraftOK, ScreenOK
  <2>2. r \in Nat
    BY <2>1 DEF DraftType
  <2> QED
    BY <1>2, <2>1, <2>2
<1>4. doc \in ReadableHabit
  BY <1>3 DEF ReadableHabit, HabitType, EditGoal, DraftType, ScreenOK
<1>5. choice \in ChoiceType
  <2>1. chosen[r] \in ChoiceType
    BY <1>2, <1>3, ElementOfSeq
  <2>2. ChosenTime \in SUBSET Nat /\ ChosenGoal \in Nat \cup {Unknown}
    BY <1>3, <2>1 DEF ChosenTime, ChosenGoal, ChoiceType, DraftType, Untold
  <2> QED
    BY <1>3, <2>2, ChoiceTyped
<1> HIDE DEF doc, choice, r
<1>6. docs' \in Seq(ReadableHabit) /\ Len(docs') = Len(docs)
  BY <1>1, <1>2, <1>3, <1>4, ExceptType
<1>7. chosen' \in Seq(ChoiceType) /\ Len(chosen') = Len(docs)
  BY <1>1, <1>2, <1>3, <1>5, ExceptType
<1>8. full' \in Seq(BOOLEAN) /\ Len(full') = Len(docs)
  <2>1. TRUE \in BOOLEAN
    OBVIOUS
  <2> QED
    BY <1>1, <1>2, <1>3, <2>1, ExceptType
<1>9. StoreOK' /\ HistOK'
  BY <1>1, <1>6, <1>7, <1>8 DEF StoreOK, HistOK
<1>10. DraftOK' /\ ScreenOK' /\ BoundsOK' /\ CallOK'
  BY <1>1, <1>6 DEF DraftOK, ScreenOK, BoundsOK, CallOK
<1> QED
  BY <1>9, <1>10

LEMMA FetchType ==
    ASSUME TypeInv, FetchStarts \/ FetchEnds
    PROVE  TypeInv'
<1> USE DEF TypeInv
<1>1. UNCHANGED <<docs, formVars, begun, bounds, histVars>>
  BY DEF FetchStarts, FetchEnds
<1>2. HistOK' /\ DraftOK' /\ ScreenOK' /\ BoundsOK' /\ CallOK'
  BY <1>1, UnchangedParts DEF formVars
<1>3. docs \in Seq(ReadableHabit) /\ Len(docs) \in Nat /\ Len(<<>>) = 0
  BY DEF StoreOK
<1>4. StoreOK'
  <2>1. CASE FetchStarts
    BY <1>3, <2>1 DEF StoreOK, FetchStarts
  <2>2. CASE FetchEnds
    BY <1>3, <2>2 DEF StoreOK, FetchEnds
  <2> QED
    BY <2>1, <2>2
<1> QED
  BY <1>2, <1>4

(* The reset of a morning writes entries that can be read. *)
LEMMA AppearType ==
    ASSUME TypeInv, ViewWillAppear
    PROVE  TypeInv'
<1> USE DEF TypeInv
<1>1. /\ screen' = "home" /\ draft' \in {draft, NoForm} /\ (draft' # draft => ~Waiting)
      /\ UNCHANGED <<list, fetch, picker, adds, blocks, sectionColor, begun, bounds, chosen,
                     patient>>
  BY DEF ViewWillAppear
<1>2. /\ docs \in Seq(ReadableHabit) /\ list \in Seq(ReadableHabit) /\ full \in Seq(BOOLEAN)
      /\ DOMAIN docs = 1..Len(docs) /\ DOMAIN full = 1..Len(docs) /\ Len(docs) \in Nat
      /\ Len(full) = Len(docs)
  BY DEF StoreOK, HistOK
<1>3. /\ docs' \in Seq(ReadableHabit) /\ Len(docs') = Len(docs)
      /\ full' \in Seq(BOOLEAN) /\ Len(full') = Len(docs) /\ orderly' \in BOOLEAN
  <2>1. CASE begun
    BY <1>2, <2>1 DEF ViewWillAppear, HistOK
  <2>2. CASE ~begun
    <3>1. /\ docs' = [r \in DOMAIN docs |->
                         IF r \in DOMAIN list THEN Reset(docs[r], list[r]) ELSE docs[r]]
          /\ full' = [r \in DOMAIN full |-> full[r] \/ r \in DOMAIN list]
          /\ orderly' = (orderly /\ (fetch = "queued" => Known))
      BY <2>2 DEF ViewWillAppear
    <3>2. \A r \in 1..Len(docs) : docs[r] \in ReadableHabit
      BY <1>2, ElementOfSeq
    <3>3. \A r \in DOMAIN list : list[r] \in ReadableHabit
      BY EntryType
    <3>4. \A d, e \in ReadableHabit : Reset(d, e) \in ReadableHabit
      BY DEF Reset, ReadableHabit, HabitType
    <3>5. docs' \in [1..Len(docs) -> ReadableHabit]
      BY <1>2, <3>1, <3>2, <3>3, <3>4
    <3>6. full' \in [1..Len(docs) -> BOOLEAN]
      BY <1>2, <3>1
    <3>7. docs' \in Seq(ReadableHabit) /\ Len(docs') = Len(docs)
      BY <1>2, <3>5, ArrayIsSeq
    <3>8. full' \in Seq(BOOLEAN) /\ Len(full') = Len(docs)
      BY <1>2, <3>6, ArrayIsSeq
    <3>9. orderly' \in BOOLEAN
      BY <3>1
    <3> QED
      BY <3>7, <3>8, <3>9
  <2> QED
    BY <2>1, <2>2
<1>4. StoreOK' /\ HistOK'
  BY <1>1, <1>3 DEF StoreOK, HistOK
<1>5. NoForm \in DraftType /\ NoForm.row = 0 /\ ~NoForm.selected
  <2>1. Gray \in Nat
    BY DEF Gray
  <2> QED
    BY <2>1, NoFormType DEF NoForm
<1>6. DraftOK'
  BY <1>1, <1>2, <1>3, <1>5 DEF DraftOK
<1>7. ScreenOK' /\ BoundsOK'
  BY <1>1 DEF ScreenOK, BoundsOK
<1>8. CallOK'
  <2>1. CASE draft' = draft
    BY <1>1, <1>3, <2>1 DEF CallOK
  <2>2. CASE draft' # draft
    BY <1>1, <2>2, NotWaiting DEF CallOK
  <2> QED
    BY <2>1, <2>2
<1> QED
  BY <1>4, <1>6, <1>7, <1>8

LEMMA RunTimerType ==
    ASSUME TypeInv, NEW r \in DOMAIN list, NEW left \in Lefts,
           RunTimer(r, left)
    PROVE  TypeInv'
<1> USE DEF TypeInv
<1>1. /\ list[r] \in ReadableHabit /\ docs[r] \in ReadableHabit
      /\ r \in 1..Len(list) /\ r \in 1..Len(docs)
  BY EntryType
<1>2. left \in Nat
  BY ChoicesAssumption
<1>3. <<left>> \in Seq(Nat) /\ <<left>> # <<>>
  BY <1>2
<1>4. /\ docs' = [docs EXCEPT ![r] = [docs[r] EXCEPT !.time = <<left>>]]
      /\ list' = [list EXCEPT ![r] = [list[r] EXCEPT !.time = <<left>>]]
      /\ full' = [full EXCEPT ![r] = FALSE] /\ begun' = TRUE
      /\ UNCHANGED <<fetch, formVars, bounds, chosen, orderly, patient>>
  BY DEF RunTimer
<1>5. \A h \in ReadableHabit : [h EXCEPT !.time = <<left>>] \in ReadableHabit
  BY <1>3 DEF ReadableHabit, HabitType, Time
<1>6. docs' \in Seq(ReadableHabit) /\ Len(docs') = Len(docs)
  BY <1>1, <1>4, <1>5, ExceptType DEF StoreOK
<1>7. list' \in Seq(ReadableHabit) /\ Len(list') = Len(list)
  BY <1>1, <1>4, <1>5, ExceptType DEF StoreOK
<1>8. full' \in Seq(BOOLEAN) /\ Len(full') = Len(full)
  <2>1. full \in Seq(BOOLEAN) /\ r \in 1..Len(full) /\ FALSE \in BOOLEAN
    BY <1>1 DEF HistOK
  <2> QED
    BY <1>4, <2>1, ExceptType
<1>9. StoreOK' /\ HistOK'
  BY <1>4, <1>6, <1>7, <1>8 DEF StoreOK, HistOK
<1>10. DraftOK' /\ ScreenOK' /\ BoundsOK' /\ CallOK'
  BY <1>4, <1>6 DEF DraftOK, ScreenOK, BoundsOK, CallOK, formVars
<1> QED
  BY <1>9, <1>10

LEMMA HomeType ==
    ASSUME TypeInv, LeaveHome \/ Tap \/ Midnight
    PROVE  TypeInv'
<1> USE DEF TypeInv
<1>1. /\ UNCHANGED <<storeVars, draft, picker, adds, blocks, sectionColor, bounds, histVars>>
      /\ screen' = screen \/ screen' = "away"
      /\ begun' \in {begun, TRUE, FALSE}
  BY DEF LeaveHome, Tap, Midnight, formVars
<1>2. StoreOK' /\ HistOK' /\ DraftOK' /\ BoundsOK' /\ CallOK'
  BY <1>1, UnchangedParts DEF storeVars
<1>3. ScreenOK'
  BY <1>1 DEF ScreenOK
<1> QED
  BY <1>2, <1>3

LEMMA FreshType ==
    ASSUME NEW n \in Nat, draft' = NoForm, picker' = NoPicker, adds' = <<>>, blocks' = <<>>,
           screen' = "home", sectionColor' \in Nat, begun' \in BOOLEAN, Len(docs') = n
    PROVE  DraftOK' /\ ScreenOK' /\ CallOK'
<1>1. Gray \in Nat
  BY DEF Gray
<1>2. draft' \in DraftType /\ draft'.row = 0 /\ ~draft'.selected
  BY <1>1, NoFormType DEF NoForm
<1>3. NoPicker \in PickerType
  BY DEF NoPicker, PickerType, Time, Untold
<1> QED
  BY <1>2, <1>3, NotWaiting DEF DraftOK, ScreenOK, CallOK

LEMMA RelaunchType ==
    ASSUME TypeInv, Relaunch
    PROVE  TypeInv'
<1> USE DEF TypeInv, Relaunch
<1>1. Len(docs) \in Nat /\ Len(<<>>) = 0
  BY DEF StoreOK
<1>2. StoreOK'
  BY <1>1 DEF StoreOK
<1>3. HistOK' /\ BoundsOK'
  BY UnchangedParts
<1>4. DraftOK' /\ ScreenOK' /\ CallOK'
  BY <1>1, FreshType DEF ScreenOK
<1> QED
  BY <1>2, <1>3, <1>4

LEMMA InitType == Init => TypeInv
<1> SUFFICES ASSUME Init PROVE TypeInv
  OBVIOUS
<1> USE DEF Init
<1>1. StoreOK /\ HistOK
  BY DEF StoreOK, HistOK
<1>2. BoundsOK
  BY BoundsAssumption DEF BoundsOK
<1>3. NoForm \in DraftType /\ NoForm.row = 0 /\ ~NoForm.selected
  <2>1. Gray \in Nat
    BY DEF Gray
  <2> QED
    BY <2>1, NoFormType DEF NoForm
<1>4. NoPicker \in PickerType
  BY DEF NoPicker, PickerType, Time, Untold
<1>5. DraftOK /\ ScreenOK /\ CallOK
  <2>1. Len(docs) = 0 /\ Len(adds) = 0 /\ Len(blocks) = 0
    OBVIOUS
  <2>2. draft = NoForm /\ picker = NoPicker
    OBVIOUS
  <2>3. DraftOK
    BY <1>3, <2>1, <2>2 DEF DraftOK
  <2>4. ScreenOK
    BY <1>4 DEF ScreenOK
  <2>5. CallOK
    BY <2>1 DEF CallOK
  <2> QED
    BY <2>3, <2>4, <2>5
<1> QED
  BY <1>1, <1>2, <1>5 DEF TypeInv

LEMMA StepType == TypeInv /\ [Next]_vars => TypeInv'
<1> SUFFICES ASSUME TypeInv, [Next]_vars PROVE TypeInv'
  OBVIOUS
<1>1. CASE OpenCreate \/ \E r \in DOMAIN list : OpenEdit(r)
  BY <1>1, OpenType
<1>2. CASE \E c \in Colors : PickColor(c)
  BY <1>2, PickColorType
<1>3. CASE OpenTimePicker \/ DismissPicker \/ \E t \in Times : TurnWheel(t)
  BY <1>3, PickerStepType
<1>4. CASE ConfirmTime \/ \E n \in Amounts \cup {StepperStart} : ChooseAmount(n)
  BY <1>4, ConfirmTimeType, ChooseAmountType
<1>5. CASE TapAdd \/ SaveEdit
  BY <1>5, TapAddType, SaveEditType
<1>6. CASE Back \/ ComeBack \/ Transition
  BY <1>6, AppearType DEF Back, ComeBack, Transition
<1>7. CASE LeaveHome \/ Tap \/ Midnight
  BY <1>7, HomeType
<1>8. CASE \E r \in DOMAIN list : \E left \in Lefts : RunTimer(r, left)
  BY <1>8, RunTimerType
<1>9. CASE (\E i \in DOMAIN adds : Answer(i)) \/ RunAdd
  BY <1>9, AnswerType, RunAddType
<1>10. CASE FetchStarts \/ FetchEnds
  BY <1>10, FetchType
<1>11. CASE Relaunch
  BY <1>11, RelaunchType
<1>12. CASE UNCHANGED vars
  BY <1>12, UnchangedParts DEF vars, formVars, storeVars, TypeInv
<1> QED
  BY <1>1, <1>2, <1>3, <1>4, <1>5, <1>6, <1>7, <1>8, <1>9, <1>10, <1>11, <1>12
     DEF Next, Form, Home, System

LEMMA TypeInvariant == Spec => []TypeInv
<1>1. Init => TypeInv
  BY InitType
<1>2. TypeInv /\ [Next]_vars => TypeInv'
  BY StepType
<1> QED
  BY <1>1, <1>2, PTL DEF Spec

(* Every variable keeps its type, and a form that edits has a row. *)
THEOREM TypeCorrect == Spec => []TypeOK
<1>1. TypeInv => TypeOK
  BY TypeInvImplies
<1> QED
  BY <1>1, TypeInvariant, PTL

(* No array of digits is ever empty, whatever the user does in a form while an
   add is under way: the block that writes it reads the form of that moment
   (addHabitButtonTapped), and everything that reads it takes six digits
   without asking. *)
THEOREM TimesReadable == Spec => []TimesAreReadable
<1>1. TypeInv => TimesAreReadable
  BY TypeInvImplies
<1> QED
  BY <1>1, TypeInvariant, PTL

----------------------------------------------------------------------------
\* Colours

(* A form displays what the preference stands for, and an add has the colour
   that was displayed at the tap. *)
ColorInv ==
    /\ \A r \in 1..Len(docs) : docs[r].color = chosen[r].color
    /\ screen = "create" => draft.color = DefaultColor(sectionColor)
    /\ screen = "edit" => draft.color = sectionColor
    /\ \A k \in 1..Len(adds) : adds[k].color = adds[k].choice.color
    /\ \A k \in 1..Len(blocks) : blocks[k].add.color = blocks[k].add.choice.color

LEMMA KeepColors ==
    ASSUME ColorInv, UNCHANGED <<docs, chosen, adds, blocks>>,
           screen' = "create" => draft'.color = DefaultColor(sectionColor)',
           screen' = "edit" => draft'.color = sectionColor'
    PROVE  ColorInv'
BY DEF ColorInv

LEMMA FormColors ==
    ASSUME TypeInv, ColorInv,
           \/ OpenCreate \/ \E r \in DOMAIN list : OpenEdit(r)
           \/ \E c \in Colors : PickColor(c)
           \/ ConfirmTime \/ \E n \in Amounts \cup {StepperStart} : ChooseAmount(n)
    PROVE  ColorInv'
<1>1. CASE OpenCreate
  <2>1. /\ UNCHANGED <<docs, chosen, adds, blocks, sectionColor>> /\ screen' = "create"
        /\ draft'.color = DefaultColor(sectionColor)
    BY <1>1 DEF OpenCreate, CreateDraft, storeVars, histVars
  <2> QED
    BY <2>1, KeepColors DEF DefaultColor
<1>2. ASSUME NEW r \in DOMAIN list, OpenEdit(r) PROVE ColorInv'
  <2>1. /\ UNCHANGED <<docs, chosen, adds, blocks>> /\ screen' = "edit"
        /\ draft'.color = list[r].color /\ sectionColor' = list[r].color
    BY <1>2 DEF OpenEdit, EditDraft, EditColor, storeVars, histVars
  <2> QED
    BY <2>1, KeepColors
<1>3. ASSUME NEW c \in Colors, PickColor(c) PROVE ColorInv'
  <2>1. UNCHANGED <<docs, chosen, adds, blocks>> /\ sectionColor' = c
    BY <1>3 DEF PickColor, storeVars, histVars
  <2>2. draft'.color = c
    BY <1>3 DEF PickColor, TypeInv, DraftOK, DraftType
  <2>3. c # 0
    BY ChoicesAssumption
  <2> QED
    BY <2>1, <2>2, <2>3, KeepColors DEF DefaultColor
<1>4. CASE ConfirmTime \/ \E n \in Amounts \cup {StepperStart} : ChooseAmount(n)
  <2>1. UNCHANGED <<docs, chosen, adds, blocks, screen, sectionColor>>
    BY <1>4 DEF ConfirmTime, ChooseAmount, storeVars, histVars
  <2>2. draft'.color = draft.color
    BY <1>4 DEF ConfirmTime, ChooseAmount, TypeInv, DraftOK, DraftType
  <2> QED
    BY <2>1, <2>2, KeepColors DEF ColorInv, DefaultColor
<1> QED
  BY <1>1, <1>2, <1>3, <1>4

LEMMA TapAddColors ==
    ASSUME TypeInv, TypeInv', ColorInv, TapAdd
    PROVE  ColorInv'
<1> DEFINE add == [counted |-> draft.counted, goal |-> draft.goal,
                   color |-> DefaultColor(sectionColor),
                   choice |-> Choice(draft.askedTime, draft.askedGoal)]
<1>1. /\ adds' = Append(adds, add)
      /\ UNCHANGED <<docs, chosen, blocks, screen, draft, sectionColor>>
      /\ screen = "create"
  BY DEF TapAdd, storeVars, histVars
<1>2. add.color = add.choice.color
  BY <1>1 DEF ColorInv, Choice
<1> HIDE DEF add
<1>3. \A k \in 1..Len(adds') : \/ k \in 1..Len(adds) /\ adds'[k] = adds[k]
                               \/ adds'[k] = add
  <2>1. adds \in Seq(AddType) /\ adds' \in Seq(AddType)
    BY DEF TypeInv, CallOK
  <2>2. add \in AddType
    <3>1. draft \in DraftType
      BY DEF TypeInv, DraftOK
    <3>2. draft.askedTime \in SUBSET Nat /\ draft.askedGoal \in Nat \cup {Unknown}
      BY <3>1 DEF DraftType
    <3>3. Choice(draft.askedTime, draft.askedGoal) \in ChoiceType
      BY <3>1, <3>2, ChoiceTyped
    <3>4. DefaultColor(sectionColor) \in Nat
      BY DEF TypeInv, ScreenOK, DefaultColor, Gray
    <3> QED
      BY <3>1, <3>3, <3>4 DEF add, AddType, DraftType
  <2> QED
    BY <1>1, <2>1, <2>2, AppendType
<1> QED
  BY <1>1, <1>2, <1>3 DEF ColorInv, DefaultColor

LEMMA AnswerColors ==
    ASSUME TypeInv, ColorInv, NEW i \in DOMAIN adds, Answer(i)
    PROVE  ColorInv'
<1> DEFINE block == [add |-> adds[i], number |-> NextNumber]
<1>1. /\ blocks' = Append(blocks, block)
      /\ adds' = SubSeq(adds, 1, i - 1) \o SubSeq(adds, i + 1, Len(adds))
      /\ UNCHANGED <<docs, chosen, screen, draft, sectionColor>>
  BY DEF Answer, storeVars, histVars
<1>2. adds \in Seq(AddType) /\ i \in 1..Len(adds) /\ adds[i] \in AddType
  BY ElementOfSeq DEF TypeInv, CallOK
<1>3. block \in BlockType /\ block.add = adds[i]
  <2>1. Len(docs) \in Nat
    BY DEF TypeInv, StoreOK
  <2> QED
    BY <1>2, <2>1 DEF NextNumber, BlockType
<1> HIDE DEF block
<1>4. \A k \in 1..Len(blocks') : \/ k \in 1..Len(blocks) /\ blocks'[k] = blocks[k]
                                 \/ blocks'[k] = block
  <2>1. blocks \in Seq(BlockType)
    BY DEF TypeInv, CallOK
  <2>2. \A k \in 1..Len(Append(blocks, block)) :
           \/ k \in 1..Len(blocks) /\ Append(blocks, block)[k] = blocks[k]
           \/ Append(blocks, block)[k] = block
    BY <1>3, <2>1, AppendType
  <2> QED
    BY <1>1, <2>2
<1>5. \A k \in 1..Len(adds') : \E j \in 1..Len(adds) : adds'[k] = adds[j]
  BY <1>1, <1>2, WithoutType
<1>6. \A k \in 1..Len(adds') : adds'[k].color = adds'[k].choice.color
  BY <1>5 DEF ColorInv
<1>7. \A k \in 1..Len(blocks') : blocks'[k].add.color = blocks'[k].add.choice.color
  BY <1>2, <1>3, <1>4 DEF ColorInv
<1> QED
  BY <1>1, <1>6, <1>7 DEF ColorInv, DefaultColor

LEMMA RunAddColors ==
    ASSUME TypeInv, ColorInv, RunAdd
    PROVE  ColorInv'
<1> DEFINE add  == Head(blocks).add
           r    == Head(blocks).number
           time == TimeOfHabit(draft.time, add.counted)
           doc  == [counted |-> add.counted, goal |-> add.goal, color |-> add.color,
                    time |-> time, original |-> time]
<1>1. /\ docs' = Put(docs, r, doc) /\ chosen' = Put(chosen, r, add.choice)
      /\ draft' = [draft EXCEPT !.time = time]
      /\ blocks' = Tail(blocks) /\ blocks # <<>>
      /\ screen' = IF screen = "create" THEN "returning" ELSE screen
      /\ UNCHANGED <<adds, sectionColor>>
  BY DEF RunAdd
<1>2. /\ Head(blocks) = blocks[1] /\ 1 \in 1..Len(blocks)
      /\ \A k \in 1..Len(Tail(blocks)) :
            k + 1 \in 1..Len(blocks) /\ Tail(blocks)[k] = blocks[k + 1]
  BY <1>1, TailType DEF TypeInv, CallOK
<1>3. doc.color = add.color /\ add.color = add.choice.color
  BY <1>2 DEF ColorInv
<1>4. draft'.color = draft.color
  BY <1>1 DEF TypeInv, DraftOK, DraftType
<1> HIDE DEF add, r, time, doc
<1>5. Len(docs) \in Nat /\ Len(chosen) = Len(docs)
  BY DEF TypeInv, StoreOK, HistOK
<1>6. \A k \in 1..Len(docs') : docs'[k].color = chosen'[k].color
  <2> DEFINE n == IF r > Len(docs) THEN r ELSE Len(docs)
  <2>1. r \in Nat /\ r <= Len(docs) + 1
    <3>1. r = blocks[1].number
      BY <1>2 DEF r
    <3> QED
      BY <1>2, <3>1, BlockFacts DEF TypeInv
  <2>2. n \in Nat /\ \A k \in 1..n : k # r => k \in 1..Len(docs)
    BY <1>5, <2>1
  <2>3. /\ docs' = [k \in 1..n |-> IF k = r THEN doc ELSE docs[k]]
        /\ chosen' = [k \in 1..n |-> IF k = r THEN add.choice ELSE chosen[k]]
    BY <1>1, <1>5 DEF Put
  <2> HIDE DEF n
  <2>4. Len(docs') = n
    BY <2>2, <2>3
  <2> SUFFICES ASSUME NEW k \in 1..n PROVE docs'[k].color = chosen'[k].color
    BY <2>4
  <2>5. CASE k = r
    BY <1>3, <2>3, <2>5
  <2>6. CASE k # r
    BY <2>2, <2>3, <2>6 DEF ColorInv
  <2> QED
    BY <2>5, <2>6
<1>7. \A k \in 1..Len(blocks') : blocks'[k].add.color = blocks'[k].add.choice.color
  <2> SUFFICES ASSUME NEW k \in 1..Len(blocks')
               PROVE  blocks'[k].add.color = blocks'[k].add.choice.color
    OBVIOUS
  <2>1. k + 1 \in 1..Len(blocks) /\ blocks'[k] = blocks[k + 1]
    BY <1>1, <1>2
  <2>2. \A j \in 1..Len(blocks) : blocks[j].add.color = blocks[j].add.choice.color
    BY DEF ColorInv
  <2>3. blocks[k + 1].add.color = blocks[k + 1].add.choice.color
    BY <2>1, <2>2
  <2> QED
    BY <2>1, <2>3
<1> QED
  BY <1>1, <1>4, <1>6, <1>7 DEF ColorInv, DefaultColor

LEMMA SaveEditColors ==
    ASSUME TypeInv, ColorInv, SaveEdit
    PROVE  ColorInv'
<1> DEFINE r      == draft.row
           doc    == [counted |-> draft.counted, goal |-> EditGoal, color |-> sectionColor,
                      time |-> draft.time, original |-> draft.time]
           choice == Choice(ChosenTime, ChosenGoal)
<1>1. /\ docs' = [docs EXCEPT ![r] = doc] /\ chosen' = [chosen EXCEPT ![r] = choice]
      /\ screen' = "returning" /\ screen = "edit"
      /\ UNCHANGED <<draft, adds, blocks, sectionColor>>
  BY DEF SaveEdit
<1>2. doc.color = choice.color
  BY <1>1 DEF ColorInv, Choice
<1>3. /\ DOMAIN docs = 1..Len(docs) /\ DOMAIN chosen = 1..Len(docs) /\ Len(docs) \in Nat
  BY DEF TypeInv, StoreOK, HistOK
<1> HIDE DEF doc, choice, r
<1>4. DOMAIN docs' = 1..Len(docs) /\ Len(docs') = Len(docs)
  <2>1. docs' \in [1..Len(docs) -> {docs'[k] : k \in 1..Len(docs)}]
    BY <1>1, <1>3
  <2> QED
    BY <1>3, <2>1, ArrayIsSeq
<1>5. ASSUME NEW k \in 1..Len(docs) PROVE docs'[k].color = chosen'[k].color
  <2>1. CASE k = r
    BY <1>1, <1>2, <1>3, <2>1
  <2>2. CASE k # r
    BY <1>1, <1>3, <2>2 DEF ColorInv
  <2> QED
    BY <2>1, <2>2
<1> QED
  BY <1>1, <1>4, <1>5 DEF ColorInv

LEMMA AppearColors ==
    ASSUME TypeInv, TypeInv', ColorInv, ViewWillAppear
    PROVE  ColorInv'
<1>1. screen' = "home" /\ UNCHANGED <<adds, blocks, chosen>>
  BY DEF ViewWillAppear
<1>2. Len(docs') = Len(docs)
  BY DEF TypeInv, HistOK, ViewWillAppear
<1>3. ASSUME NEW k \in 1..Len(docs) PROVE docs'[k].color = docs[k].color
  <2>1. docs[k] \in ReadableHabit /\ k \in DOMAIN docs
    BY ElementOfSeq DEF TypeInv, StoreOK
  <2>2. \A e : Reset(docs[k], e).color = docs[k].color
    BY <2>1 DEF Reset, ReadableHabit, HabitType
  <2>3. docs'[k] = docs[k] \/ docs'[k] = Reset(docs[k], list[k])
    BY <2>1 DEF ViewWillAppear
  <2> QED
    BY <2>2, <2>3
<1> QED
  BY <1>1, <1>2, <1>3 DEF ColorInv

LEMMA RunTimerColors ==
    ASSUME TypeInv, ColorInv, NEW r \in DOMAIN list, NEW left, RunTimer(r, left)
    PROVE  ColorInv'
<1>1. /\ docs' = [docs EXCEPT ![r] = [docs[r] EXCEPT !.time = <<left>>]]
      /\ UNCHANGED <<screen, draft, adds, blocks, sectionColor, chosen>>
  BY DEF RunTimer, formVars
<1>2. /\ DOMAIN docs = 1..Len(docs) /\ Len(docs) \in Nat
      /\ r \in 1..Len(docs) /\ docs[r] \in ReadableHabit
  BY EntryType DEF TypeInv, StoreOK
<1>3. [docs[r] EXCEPT !.time = <<left>>].color = docs[r].color
  BY <1>2 DEF ReadableHabit, HabitType
<1>4. DOMAIN docs' = 1..Len(docs) /\ Len(docs') = Len(docs)
  <2>1. docs' \in [1..Len(docs) -> {docs'[k] : k \in 1..Len(docs)}]
    BY <1>1, <1>2
  <2> QED
    BY <1>2, <2>1, ArrayIsSeq
<1>5. ASSUME NEW k \in 1..Len(docs) PROVE docs'[k].color = docs[k].color
  BY <1>1, <1>2, <1>3
<1> QED
  BY <1>1, <1>4, <1>5 DEF ColorInv, DefaultColor

LEMMA ColorStep == TypeInv /\ TypeInv' /\ ColorInv /\ [Next]_vars => ColorInv'
<1> SUFFICES ASSUME TypeInv, TypeInv', ColorInv, [Next]_vars PROVE ColorInv'
  OBVIOUS
<1>1. CASE \/ OpenCreate \/ \E r \in DOMAIN list : OpenEdit(r)
           \/ \E c \in Colors : PickColor(c)
           \/ ConfirmTime \/ \E n \in Amounts \cup {StepperStart} : ChooseAmount(n)
  BY <1>1, FormColors
<1>2. CASE TapAdd \/ SaveEdit \/ RunAdd \/ \E i \in DOMAIN adds : Answer(i)
  BY <1>2, TapAddColors, SaveEditColors, RunAddColors, AnswerColors
<1>3. CASE Back \/ ComeBack \/ Transition
  BY <1>3, AppearColors DEF Back, ComeBack, Transition
<1>4. CASE \E r \in DOMAIN list : \E left \in Lefts : RunTimer(r, left)
  BY <1>4, RunTimerColors
<1>5. CASE \/ OpenTimePicker \/ DismissPicker \/ \E t \in Times : TurnWheel(t)
           \/ LeaveHome \/ Tap \/ Midnight \/ FetchStarts \/ FetchEnds
           \/ UNCHANGED vars
  <2>1. /\ UNCHANGED <<docs, chosen, adds, blocks, draft, sectionColor>>
        /\ screen' = screen \/ screen' = "away"
    BY <1>5 DEF OpenTimePicker, DismissPicker, TurnWheel, LeaveHome, Tap, Midnight,
       FetchStarts, FetchEnds, vars, storeVars, formVars, histVars
  <2> QED
    BY <2>1 DEF ColorInv, DefaultColor
<1>6. CASE Relaunch
  <2>1. /\ UNCHANGED <<docs, chosen>> /\ adds' = <<>> /\ blocks' = <<>> /\ screen' = "home"
    BY <1>6 DEF Relaunch, histVars
  <2> QED
    BY <2>1, NotWaiting DEF ColorInv
<1> QED
  BY <1>1, <1>2, <1>3, <1>4, <1>5, <1>6 DEF Next, Form, Home, System

LEMMA ColorInvariant == Spec => []ColorInv
<1>1. Init => ColorInv
  BY NotWaiting DEF Init, ColorInv
<1>2. TypeInv /\ TypeInv' /\ ColorInv /\ [Next]_vars => ColorInv'
  BY ColorStep
<1> QED
  BY <1>1, <1>2, TypeInvariant, PTL DEF Spec

(* A habit has the colour its form displayed, although the choice is kept in a
   preference that every form shares (sectionColor) and that outlives the form
   and the process. *)
THEOREM ColorsAreAsShown == Spec => []ColorIsAsShown
<1>1. TypeInv /\ ColorInv => ColorIsAsShown
  BY DEF ColorInv, ColorIsAsShown, TypeInv, StoreOK
<1> QED
  BY <1>1, TypeInvariant, ColorInvariant, PTL

----------------------------------------------------------------------------
\* Choices

(* A choice is of the kind of its habit. *)
KindOK(counted, choice) ==
    IF counted THEN choice.time = Untold ELSE choice.goal = Unknown

(* The list knows the documents it lists, unless a fetch is due. *)
ListIsKnown == fetch # "queued" => Known

HabitsChosen ==
    \A r \in 1..Len(docs) :
        /\ KindOK(docs[r].counted, chosen[r])
        /\ patient /\ chosen[r].time # Untold => Head(docs[r].original) \in chosen[r].time
        /\ orderly /\ chosen[r].goal # Unknown => docs[r].goal = chosen[r].goal
        /\ orderly /\ full[r] => Head(docs[r].time) = Head(docs[r].original)

(* A form has what it displays, and a picker too. *)
FormShows ==
    /\ draft.askedTime # Untold =>
           draft.time # <<>> /\ Head(draft.time) \in draft.askedTime
    /\ draft.askedGoal # Unknown => draft.goal = draft.askedGoal
    /\ picker # NoPicker /\ picker.shown # Untold => Head(picker.array) \in picker.shown

(* An edit was opened with what the habit's user had chosen. *)
EditKnows ==
    screen = "edit" =>
        /\ adds = <<>> /\ blocks = <<>>
        /\ patient /\ chosen[draft.row].time # Untold =>
               Head(draft.original) \in chosen[draft.row].time
        /\ orderly /\ draft.askedGoal = Unknown /\ chosen[draft.row].goal # Unknown =>
               draft.goal = chosen[draft.row].goal

(* An add has its goal with it; its time is still in the form. *)
AddChosen(add) ==
    /\ KindOK(add.counted, add.choice)
    /\ add.choice.goal # Unknown => add.goal = add.choice.goal
    /\ patient /\ add.choice.time # Untold =>
           draft.time # <<>> /\ Head(draft.time) \in add.choice.time

AddsChosen ==
    /\ \A k \in 1..Len(adds) : AddChosen(adds[k])
    /\ \A k \in 1..Len(blocks) : AddChosen(blocks[k].add)

ChoiceInv == ListIsKnown /\ HabitsChosen /\ FormShows /\ EditKnows /\ AddsChosen

LEMMA HeadOfAppend ==
    ASSUME NEW s \in Seq(Nat), NEW n \in Nat
    PROVE  /\ s # <<>> => Head(Append(s, n)) = Head(s)
           /\ s = <<>> => Head(Append(s, n)) = n
<1>1. CASE s = <<>>
  <2>1. Append(<<>>, n) = <<n>> /\ Head(<<n>>) = n
    OBVIOUS
  <2> QED
    BY <1>1, <2>1
<1>2. CASE s # <<>>
  <2>1. Len(s) \in Nat /\ Len(s) # 0
    BY <1>2, EmptySeq
  <2>2. Append(s, n) \in Seq(Nat) /\ Append(s, n) # <<>> /\ Append(s, n)[1] = s[1]
    BY <2>1, AppendProperties, AppendType
  <2> QED
    BY <1>2, <2>2, HeadTailProperties
<1> QED
  BY <1>1, <1>2

LEMMA KeepHabits ==
    ASSUME ListIsKnown, HabitsChosen, UNCHANGED <<storeVars, chosen, full, orderly>>,
           patient' => patient
    PROVE  ListIsKnown' /\ HabitsChosen'
BY DEF ListIsKnown, HabitsChosen, Known, storeVars

LEMMA KeepAdds ==
    ASSUME AddsChosen, UNCHANGED <<adds, blocks>>, patient' => patient,
           draft.time # <<>> => draft'.time # <<>> /\ Head(draft'.time) = Head(draft.time)
    PROVE  AddsChosen'
BY DEF AddsChosen, AddChosen

LEMMA NoAdds ==
    ASSUME adds' = <<>>, blocks' = <<>>
    PROVE  AddsChosen'
BY NotWaiting DEF AddsChosen

LEMMA OpenChoice ==
    ASSUME TypeInv, ChoiceInv, OpenCreate \/ \E r \in DOMAIN list : OpenEdit(r)
    PROVE  ChoiceInv'
<1>1. Idle /\ AtHome /\ UNCHANGED <<storeVars, histVars, picker, adds, blocks>>
  BY DEF OpenCreate, OpenEdit
<1>2. adds' = <<>> /\ blocks' = <<>> /\ fetch = "none"
  BY <1>1, NotWaiting DEF Idle
<1>3. ListIsKnown' /\ HabitsChosen' /\ AddsChosen'
  BY <1>1, <1>2, KeepHabits, NoAdds DEF ChoiceInv, histVars
<1>4. draft'.askedTime = Untold /\ draft'.askedGoal = Unknown
  BY DEF OpenCreate, OpenEdit, CreateDraft, EditDraft
<1>5. FormShows'
  BY <1>1, <1>4 DEF ChoiceInv, FormShows
<1>6. EditKnows'
  <2>1. CASE OpenCreate
    BY <2>1 DEF OpenCreate, EditKnows
  <2>2. ASSUME NEW r \in DOMAIN list, OpenEdit(r) PROVE EditKnows'
    <3>1. /\ draft'.row = r /\ draft'.original = list[r].original
          /\ draft'.goal = list[r].goal
          /\ UNCHANGED <<chosen, orderly, patient>>
      BY <2>2 DEF OpenEdit, EditDraft, histVars
    <3>2. list[r].goal = docs[r].goal /\ list[r].original = docs[r].original
      BY <1>2 DEF ChoiceInv, ListIsKnown, Known
    <3>3. r \in 1..Len(docs)
      BY EntryType DEF TypeInv
    <3>4. /\ patient /\ chosen[r].time # Untold => Head(docs[r].original) \in chosen[r].time
          /\ orderly /\ chosen[r].goal # Unknown => docs[r].goal = chosen[r].goal
      BY <3>3 DEF ChoiceInv, HabitsChosen
    <3> QED
      BY <1>2, <3>1, <3>2, <3>4 DEF EditKnows
  <2> QED
    BY <2>1, <2>2
<1> QED
  BY <1>3, <1>5, <1>6 DEF ChoiceInv

LEMMA PickerChoice ==
    ASSUME TypeInv, ChoiceInv,
           OpenTimePicker \/ DismissPicker \/ \E t \in Times : TurnWheel(t)
    PROVE  ChoiceInv'
<1>1. UNCHANGED <<storeVars, screen, draft, adds, blocks, histVars>>
  BY DEF OpenTimePicker, DismissPicker, TurnWheel
<1>2. ListIsKnown' /\ HabitsChosen' /\ AddsChosen'
  BY <1>1, KeepHabits, KeepAdds DEF ChoiceInv, histVars
<1>3. EditKnows'
  BY <1>1 DEF ChoiceInv, EditKnows, histVars
<1>4. picker' # NoPicker /\ picker'.shown # Untold => Head(picker'.array) \in picker'.shown
  <2>1. CASE OpenTimePicker
    <3> DEFINE array == IF draft.row = 0 THEN <<>> ELSE draft.time
               shown == IF draft.row = 0 THEN {Minute} ELSE WheelShows(Head(draft.time))
    <3>1. draft.time \in Seq(Nat) /\ (draft.row # 0 => draft.time # <<>>)
      BY DEF TypeInv, DraftOK, DraftType, Time
    <3>2. array \in Seq(Nat) /\ Minute \in Nat
      BY <3>1, MinuteAssumption
    <3>3. picker' = [array |-> Append(array, Minute), shown |-> shown]
      BY <2>1 DEF OpenTimePicker, FillArray
    <3>4. shown # Untold => Head(Append(array, Minute)) \in shown
      <4>1. CASE draft.row = 0
        <5>1. Head(Append(array, Minute)) = Minute /\ shown = {Minute}
          BY <3>2, <4>1, HeadOfAppend
        <5> QED
          BY <5>1
      <4>2. CASE draft.row # 0
        <5>1. Head(draft.time) \in Nat
          BY <3>1, <4>2, NonemptyHead
        <5>2. array = draft.time /\ Head(Append(array, Minute)) = Head(draft.time)
          BY <3>1, <3>2, <4>2, HeadOfAppend
        <5>3. shown = WheelShows(Head(draft.time))
          BY <4>2
        <5> HIDE DEF array, shown
        <5> QED
          BY <5>1, <5>2, <5>3, WheelShowsTime
      <4> QED
        BY <4>1, <4>2
    <3> HIDE DEF array, shown
    <3> QED
      BY <3>3, <3>4
  <2>2. CASE DismissPicker
    BY <2>2 DEF DismissPicker
  <2>3. ASSUME NEW t \in Times, TurnWheel(t) PROVE <1>4!:
    <3>1. picker' = [picker EXCEPT !.array = <<t>>, !.shown = {t}] /\ picker \in PickerType
      BY <2>3 DEF TurnWheel, TypeInv, ScreenOK
    <3>2. picker'.array = <<t>> /\ picker'.shown = {t}
      BY <3>1 DEF PickerType
    <3> QED
      BY <3>2
  <2> QED
    BY <2>1, <2>2, <2>3
<1>5. FormShows'
  BY <1>1, <1>4 DEF ChoiceInv, FormShows
<1> QED
  BY <1>2, <1>3, <1>5 DEF ChoiceInv

(* The user changes a field of the form. *)
LEMMA FieldChoice ==
    ASSUME TypeInv, ChoiceInv,
           \/ \E c \in Colors : PickColor(c)
           \/ \E n \in Amounts \cup {StepperStart} : ChooseAmount(n)
    PROVE  ChoiceInv'
<1>1. UNCHANGED <<storeVars, screen, picker, adds, blocks, histVars>>
  BY DEF PickColor, ChooseAmount
<1>2. /\ draft'.row = draft.row /\ draft'.time = draft.time
      /\ draft'.original = draft.original /\ draft'.askedTime = draft.askedTime
      /\ \/ draft'.goal = draft.goal /\ draft'.askedGoal = draft.askedGoal
         \/ draft'.goal = draft'.askedGoal /\ draft'.askedGoal # Unknown
  <2>1. draft \in DraftType
    BY DEF TypeInv, DraftOK
  <2>2. ASSUME NEW c \in Colors, PickColor(c) PROVE <1>2!:
    BY <2>1, <2>2 DEF PickColor, DraftType
  <2>3. ASSUME NEW n \in Amounts \cup {StepperStart}, ChooseAmount(n) PROVE <1>2!:
    <3>1. n # Unknown
      BY <2>1, ChoicesAssumption DEF StepperStart, DraftType, Unknown
    <3> QED
      BY <2>1, <2>3, <3>1 DEF ChooseAmount, DraftType
  <2> QED
    BY <2>2, <2>3
<1>3. ListIsKnown' /\ HabitsChosen' /\ AddsChosen'
  BY <1>1, <1>2, KeepHabits, KeepAdds DEF ChoiceInv, histVars
<1>4. FormShows'
  BY <1>1, <1>2 DEF ChoiceInv, FormShows
<1>5. EditKnows'
  BY <1>1, <1>2 DEF ChoiceInv, EditKnows, histVars
<1> QED
  BY <1>3, <1>4, <1>5 DEF ChoiceInv

(* A time that is confirmed while an add is pending takes the add's away. *)
LEMMA ConfirmChoice ==
    ASSUME TypeInv, ChoiceInv, ConfirmTime
    PROVE  ChoiceInv'
<1>1. /\ UNCHANGED <<storeVars, screen, adds, blocks, chosen, full, orderly>>
      /\ picker # NoPicker /\ picker' = NoPicker
  BY DEF ConfirmTime
<1>2. (patient' => patient) /\ (patient' => ~Waiting)
  BY DEF ConfirmTime
<1>3. /\ draft'.row = draft.row /\ draft'.goal = draft.goal
      /\ draft'.original = draft.original /\ draft'.askedGoal = draft.askedGoal
      /\ draft'.time = picker.array /\ draft'.askedTime = picker.shown
      /\ picker.array # <<>>
  BY <1>1 DEF ConfirmTime, TypeInv, DraftOK, DraftType, ScreenOK
<1>4. ListIsKnown' /\ HabitsChosen'
  BY <1>1, <1>2, KeepHabits DEF ChoiceInv
<1>5. FormShows'
  BY <1>1, <1>3 DEF ChoiceInv, FormShows
<1>6. EditKnows'
  BY <1>1, <1>2, <1>3 DEF ChoiceInv, EditKnows
<1>7. AddsChosen'
  <2>1. CASE Waiting
    <3>1. ~patient'
      BY <1>2, <2>1
    <3> QED
      BY <1>1, <3>1 DEF ChoiceInv, AddsChosen, AddChosen
  <2>2. CASE ~Waiting
    BY <1>1, <2>2, NotWaiting, NoAdds
  <2> QED
    BY <2>1, <2>2
<1> QED
  BY <1>4, <1>5, <1>6, <1>7 DEF ChoiceInv

LEMMA TapAddChoice ==
    ASSUME TypeInv, ChoiceInv, TapAdd
    PROVE  ChoiceInv'
<1> DEFINE add == [counted |-> draft.counted, goal |-> draft.goal,
                   color |-> DefaultColor(sectionColor),
                   choice |-> Choice(draft.askedTime, draft.askedGoal)]
<1>1. /\ adds' = Append(adds, add) /\ screen = "create"
      /\ UNCHANGED <<storeVars, screen, draft, picker, blocks, histVars>>
  BY DEF TapAdd
<1>2. ListIsKnown' /\ HabitsChosen'
  BY <1>1, KeepHabits DEF ChoiceInv, histVars
<1>3. FormShows' /\ EditKnows'
  BY <1>1 DEF ChoiceInv, FormShows, EditKnows
<1>4. AddChosen(add)
  <2>1. /\ add.counted = draft.counted /\ add.goal = draft.goal
        /\ add.choice.time = IF draft.counted THEN Untold ELSE draft.askedTime
        /\ add.choice.goal = IF draft.counted THEN draft.askedGoal ELSE Unknown
    BY DEF Choice
  <2> HIDE DEF add
  <2> QED
    BY <2>1 DEF AddChosen, KindOK, ChoiceInv, FormShows
<1>5. add \in AddType
  <2>1. draft \in DraftType
    BY DEF TypeInv, DraftOK
  <2>2. draft.askedTime \in SUBSET Nat /\ draft.askedGoal \in Nat \cup {Unknown}
    BY <2>1 DEF DraftType
  <2>3. Choice(draft.askedTime, draft.askedGoal) \in ChoiceType
    BY <2>1, <2>2, ChoiceTyped
  <2>4. DefaultColor(sectionColor) \in Nat
    BY DEF TypeInv, ScreenOK, DefaultColor, Gray
  <2> QED
    BY <2>1, <2>3, <2>4 DEF AddType, DraftType
<1> HIDE DEF add
<1>6. \A k \in 1..Len(adds') : (k \in 1..Len(adds) /\ adds'[k] = adds[k]) \/ adds'[k] = add
  <2>1. adds \in Seq(AddType)
    BY DEF TypeInv, CallOK
  <2> QED
    BY <1>1, <1>5, <2>1, AppendType
<1>7. patient' = patient
  BY <1>1 DEF histVars
<1>8. AddsChosen'
  BY <1>1, <1>4, <1>6, <1>7 DEF ChoiceInv, AddsChosen, AddChosen
<1> QED
  BY <1>2, <1>3, <1>8 DEF ChoiceInv

LEMMA AnswerChoice ==
    ASSUME TypeInv, ChoiceInv, NEW i \in DOMAIN adds, Answer(i)
    PROVE  ChoiceInv'
<1> DEFINE block == [add |-> adds[i], number |-> NextNumber]
<1>1. /\ blocks' = Append(blocks, block)
      /\ adds' = SubSeq(adds, 1, i - 1) \o SubSeq(adds, i + 1, Len(adds))
      /\ UNCHANGED <<storeVars, screen, draft, picker, histVars>>
  BY DEF Answer
<1>2. adds \in Seq(AddType) /\ i \in 1..Len(adds) /\ adds[i] \in AddType
  BY ElementOfSeq DEF TypeInv, CallOK
<1>3. block \in BlockType /\ block.add = adds[i]
  <2>1. Len(docs) \in Nat
    BY DEF TypeInv, StoreOK
  <2> QED
    BY <1>2, <2>1 DEF NextNumber, BlockType
<1> HIDE DEF block
<1>4. \A k \in 1..Len(blocks') : \/ k \in 1..Len(blocks) /\ blocks'[k] = blocks[k]
                                 \/ blocks'[k] = block
  <2>1. blocks \in Seq(BlockType)
    BY DEF TypeInv, CallOK
  <2>2. \A k \in 1..Len(Append(blocks, block)) :
           \/ k \in 1..Len(blocks) /\ Append(blocks, block)[k] = blocks[k]
           \/ Append(blocks, block)[k] = block
    BY <1>3, <2>1, AppendType
  <2> QED
    BY <1>1, <2>2
<1>5. \A k \in 1..Len(adds') : \E j \in 1..Len(adds) : adds'[k] = adds[j]
  BY <1>1, <1>2, WithoutType
<1>6. ListIsKnown' /\ HabitsChosen'
  BY <1>1, KeepHabits DEF ChoiceInv, histVars
<1>7. patient' = patient /\ draft' = draft /\ screen' = screen
  BY <1>1 DEF histVars
<1>8. FormShows'
  BY <1>1 DEF ChoiceInv, FormShows
<1>9. EditKnows'
  BY <1>1, <1>2, NotWaiting DEF ChoiceInv, EditKnows
<1>10. \A add : AddChosen(add) => AddChosen(add)'
  BY <1>7 DEF AddChosen
<1>11. \A k \in 1..Len(adds') : AddChosen(adds'[k])
  BY <1>5 DEF ChoiceInv, AddsChosen
<1>12. \A k \in 1..Len(blocks') : AddChosen(blocks'[k].add)
  BY <1>2, <1>3, <1>4 DEF ChoiceInv, AddsChosen
<1>13. AddsChosen'
  BY <1>7, <1>11, <1>12 DEF AddsChosen, AddChosen
<1> QED
  BY <1>6, <1>8, <1>9, <1>13 DEF ChoiceInv

(* The block of an add writes the form's array, whose first group it keeps. *)
LEMMA RunAddChoice ==
    ASSUME TypeInv, ChoiceInv, RunAdd
    PROVE  ChoiceInv'
<1> DEFINE add  == Head(blocks).add
           r    == Head(blocks).number
           time == TimeOfHabit(draft.time, add.counted)
           doc  == [counted |-> add.counted, goal |-> add.goal, color |-> add.color,
                    time |-> time, original |-> time]
           n    == IF r > Len(docs) THEN r ELSE Len(docs)
<1>1. /\ docs' = Put(docs, r, doc) /\ chosen' = Put(chosen, r, add.choice)
      /\ full' = Put(full, r, TRUE)
      /\ draft' = [draft EXCEPT !.time = time]
      /\ blocks' = Tail(blocks) /\ blocks # <<>> /\ fetch' = "queued"
      /\ screen' = IF screen = "create" THEN "returning" ELSE screen
      /\ UNCHANGED <<adds, picker, orderly, patient>>
  BY DEF RunAdd
<1>2. /\ Head(blocks) = blocks[1] /\ 1 \in 1..Len(blocks)
      /\ \A k \in 1..Len(Tail(blocks)) :
            k + 1 \in 1..Len(blocks) /\ Tail(blocks)[k] = blocks[k + 1]
  BY <1>1, TailType DEF TypeInv, CallOK
<1>3. AddChosen(add)
  BY <1>2 DEF ChoiceInv, AddsChosen
<1>4. /\ doc.counted = add.counted /\ doc.goal = add.goal
      /\ doc.time = time /\ doc.original = time
  OBVIOUS
<1>5. draft \in DraftType /\ draft.time \in Seq(Nat)
  BY DEF TypeInv, DraftOK, DraftType, Time
<1>6. draft.time # <<>> => time # <<>> /\ Head(time) = Head(draft.time)
  <2>1. /\ Append(draft.time, 0) # <<>>
        /\ draft.time # <<>> => Head(Append(draft.time, 0)) = Head(draft.time)
    <3> 0 \in Nat /\ draft.time \in Seq(Nat)
      BY <1>5
    <3>1. Append(draft.time, 0) # <<>>
      BY AppendType
    <3>2. draft.time # <<>> => Head(Append(draft.time, 0)) = Head(draft.time)
      BY HeadOfAppend, Zenon
    <3> QED
      BY <3>1, <3>2
  <2>2. time = draft.time \/ time = Append(draft.time, 0)
    BY DEF TimeOfHabit
  <2> HIDE DEF time
  <2> QED
    BY <2>1, <2>2
<1>7. /\ draft'.time = time /\ draft'.askedTime = draft.askedTime
      /\ draft'.goal = draft.goal /\ draft'.askedGoal = draft.askedGoal
  BY <1>1, <1>5 DEF DraftType
<1>8. r \in Nat /\ r <= Len(docs) + 1
  <2>1. r = blocks[1].number
    BY <1>2 DEF r
  <2> HIDE DEF r
  <2> QED
    BY <1>2, <2>1, BlockFacts DEF TypeInv
<1>9. Len(docs) \in Nat /\ Len(chosen) = Len(docs) /\ Len(full) = Len(docs)
  BY DEF TypeInv, StoreOK, HistOK
<1> HIDE DEF add, r, time, doc
<1>10. n \in Nat /\ \A k \in 1..n : k # r => k \in 1..Len(docs)
  BY <1>8, <1>9
<1>11. /\ docs' = [k \in 1..n |-> IF k = r THEN doc ELSE docs[k]]
       /\ chosen' = [k \in 1..n |-> IF k = r THEN add.choice ELSE chosen[k]]
       /\ full' = [k \in 1..n |-> IF k = r THEN TRUE ELSE full[k]]
  BY <1>1, <1>9 DEF Put
<1> HIDE DEF n
<1>12. Len(docs') = n
  BY <1>10, <1>11
<1>13. HabitsChosen'
  <2> SUFFICES ASSUME NEW k \in 1..n
               PROVE  /\ KindOK(docs'[k].counted, chosen'[k])
                      /\ patient /\ chosen'[k].time # Untold =>
                             Head(docs'[k].original) \in chosen'[k].time
                      /\ orderly /\ chosen'[k].goal # Unknown => docs'[k].goal = chosen'[k].goal
                      /\ orderly /\ full'[k] => Head(docs'[k].time) = Head(docs'[k].original)
    BY <1>1, <1>12 DEF HabitsChosen
  <2>1. CASE k = r
    <3>1. docs'[k] = doc /\ chosen'[k] = add.choice
      BY <1>11, <2>1
    <3> QED
      BY <1>3, <1>4, <1>6, <3>1 DEF AddChosen
  <2>2. CASE k # r
    <3>1. docs'[k] = docs[k] /\ chosen'[k] = chosen[k] /\ full'[k] = full[k]
          /\ k \in 1..Len(docs)
      BY <1>10, <1>11, <2>2
    <3> QED
      BY <3>1 DEF ChoiceInv, HabitsChosen
  <2> QED
    BY <2>1, <2>2
<1>14. ListIsKnown'
  BY <1>1 DEF ListIsKnown
<1>15. FormShows'
  BY <1>1, <1>6, <1>7 DEF ChoiceInv, FormShows
<1>16. EditKnows'
  BY <1>1 DEF ChoiceInv, EditKnows
<1>17. \A a : AddChosen(a) =>
           /\ KindOK(a.counted, a.choice)
           /\ a.choice.goal # Unknown => a.goal = a.choice.goal
           /\ patient' /\ a.choice.time # Untold =>
                  draft'.time # <<>> /\ Head(draft'.time) \in a.choice.time
  BY <1>1, <1>6, <1>7 DEF AddChosen
<1>18. \A k \in 1..Len(adds') : AddChosen(adds'[k])
  BY <1>1 DEF ChoiceInv, AddsChosen
<1>19. ASSUME NEW k \in 1..Len(blocks') PROVE AddChosen(blocks'[k].add)
  <2>1. k + 1 \in 1..Len(blocks) /\ blocks'[k] = blocks[k + 1]
    BY <1>1, <1>2
  <2> QED
    BY <2>1 DEF ChoiceInv, AddsChosen
<1>20. AddsChosen'
  BY <1>17, <1>18, <1>19 DEF AddsChosen, AddChosen
<1> QED
  BY <1>13, <1>14, <1>15, <1>16, <1>20 DEF ChoiceInv

(* An edit that was not asked for a time or a goal saves what it was opened
   with. *)
LEMMA SaveEditChoice ==
    ASSUME TypeInv, ChoiceInv, SaveEdit
    PROVE  ChoiceInv'
<1> DEFINE r      == draft.row
           doc    == [counted |-> draft.counted, goal |-> EditGoal, color |-> sectionColor,
                      time |-> draft.time, original |-> draft.time]
           choice == Choice(ChosenTime, ChosenGoal)
<1>1. /\ docs' = [docs EXCEPT ![r] = doc] /\ chosen' = [chosen EXCEPT ![r] = choice]
      /\ full' = [full EXCEPT ![r] = TRUE] /\ fetch' = "queued"
      /\ screen' = "returning" /\ screen = "edit"
      /\ UNCHANGED <<draft, picker, adds, blocks, orderly, patient>>
  BY DEF SaveEdit
<1>2. /\ doc.counted = draft.counted /\ doc.goal = draft.goal
      /\ doc.time = draft.time /\ doc.original = draft.time
  BY DEF EditGoal
<1>3. /\ choice.time = IF draft.counted THEN Untold ELSE ChosenTime
      /\ choice.goal = IF draft.counted THEN ChosenGoal ELSE Unknown
  BY DEF Choice
<1>4. patient /\ ChosenTime # Untold => Head(draft.time) \in ChosenTime
  BY <1>1 DEF ChosenTime, ChoiceInv, FormShows, EditKnows
<1>5. orderly /\ ChosenGoal # Unknown => draft.goal = ChosenGoal
  BY <1>1 DEF ChosenGoal, ChoiceInv, FormShows, EditKnows
<1>6. /\ DOMAIN docs = 1..Len(docs) /\ DOMAIN chosen = 1..Len(docs)
      /\ DOMAIN full = 1..Len(docs) /\ Len(docs) \in Nat
  BY DEF TypeInv, StoreOK, HistOK
<1> HIDE DEF doc, choice, r
<1>7. DOMAIN docs' = 1..Len(docs) /\ Len(docs') = Len(docs)
  <2>1. docs' \in [1..Len(docs) -> {docs'[k] : k \in 1..Len(docs)}]
    BY <1>1, <1>6
  <2> QED
    BY <1>6, <2>1, ArrayIsSeq
<1>8. HabitsChosen'
  <2> SUFFICES ASSUME NEW k \in 1..Len(docs)
               PROVE  /\ KindOK(docs'[k].counted, chosen'[k])
                      /\ patient /\ chosen'[k].time # Untold =>
                             Head(docs'[k].original) \in chosen'[k].time
                      /\ orderly /\ chosen'[k].goal # Unknown => docs'[k].goal = chosen'[k].goal
                      /\ orderly /\ full'[k] => Head(docs'[k].time) = Head(docs'[k].original)
    BY <1>1, <1>7 DEF HabitsChosen
  <2>1. CASE k = r
    <3>1. docs'[k] = doc /\ chosen'[k] = choice
      BY <1>1, <1>6, <2>1
    <3> QED
      BY <1>2, <1>3, <1>4, <1>5, <3>1 DEF KindOK
  <2>2. CASE k # r
    <3>1. docs'[k] = docs[k] /\ chosen'[k] = chosen[k] /\ full'[k] = full[k]
      BY <1>1, <1>6, <2>2
    <3> QED
      BY <3>1 DEF ChoiceInv, HabitsChosen
  <2> QED
    BY <2>1, <2>2
<1>9. ListIsKnown' /\ EditKnows'
  BY <1>1 DEF ListIsKnown, EditKnows
<1>10. FormShows'
  BY <1>1 DEF ChoiceInv, FormShows
<1>11. AddsChosen'
  BY <1>1, KeepAdds DEF ChoiceInv
<1> QED
  BY <1>8, <1>9, <1>10, <1>11 DEF ChoiceInv

(* The reset of a morning writes back what it finds, if the list knows it. *)
LEMMA AppearChoice ==
    ASSUME TypeInv, ChoiceInv, ViewWillAppear
    PROVE  ChoiceInv'
<1>1. /\ screen' = "home" /\ draft' \in {draft, NoForm} /\ (draft' # draft => ~Waiting)
      /\ UNCHANGED <<list, fetch, picker, adds, blocks, chosen, patient>>
  BY DEF ViewWillAppear
<1>2. AddsChosen'
  <2>1. CASE draft' = draft
    BY <1>1, <2>1, KeepAdds DEF ChoiceInv
  <2>2. CASE draft' # draft
    BY <1>1, <2>2, NotWaiting, NoAdds
  <2> QED
    BY <2>1, <2>2
<1>3. FormShows'
  <2>1. NoForm.askedTime = Untold /\ NoForm.askedGoal = Unknown
    BY DEF NoForm, CreateDraft
  <2> QED
    BY <1>1, <2>1 DEF ChoiceInv, FormShows
<1>4. EditKnows'
  BY <1>1 DEF EditKnows
<1>5. CASE begun
  <2>1. UNCHANGED <<docs, full, orderly>>
    BY <1>5 DEF ViewWillAppear
  <2>2. ListIsKnown' /\ HabitsChosen'
    BY <1>1, <2>1, KeepHabits DEF ChoiceInv, storeVars
  <2> QED
    BY <1>2, <1>3, <1>4, <2>2 DEF ChoiceInv
<1>6. CASE ~begun
  <2>1. /\ docs' = [r \in DOMAIN docs |->
                       IF r \in DOMAIN list THEN Reset(docs[r], list[r]) ELSE docs[r]]
        /\ full' = [r \in DOMAIN full |-> full[r] \/ r \in DOMAIN list]
        /\ (orderly' => orderly) /\ (orderly' => (fetch = "queued" => Known))
    BY <1>6 DEF ViewWillAppear
  <2>2. /\ DOMAIN docs = 1..Len(docs) /\ DOMAIN full = 1..Len(docs) /\ Len(docs) \in Nat
        /\ \A r \in 1..Len(docs) : docs[r] \in ReadableHabit
    BY ElementOfSeq DEF TypeInv, StoreOK, HistOK
  <2>3. DOMAIN docs' = 1..Len(docs) /\ Len(docs') = Len(docs)
    <3>1. docs' \in [1..Len(docs) -> {docs'[k] : k \in 1..Len(docs)}]
      BY <2>1, <2>2
    <3> QED
      BY <2>2, <3>1, ArrayIsSeq
  <2>4. \A h \in ReadableHabit : \A e :
            /\ Reset(h, e).counted = h.counted /\ Reset(h, e).original = h.original
            /\ Reset(h, e).goal = e.goal /\ Reset(h, e).time = e.original
    BY DEF Reset, ReadableHabit, HabitType
  <2>5. ASSUME NEW r \in 1..Len(docs)
        PROVE  /\ docs'[r].counted = docs[r].counted /\ docs'[r].original = docs[r].original
               /\ r \in DOMAIN list =>
                      docs'[r].goal = list[r].goal /\ docs'[r].time = list[r].original
               /\ r \notin DOMAIN list => docs'[r] = docs[r] /\ full'[r] = full[r]
    <3>1. CASE r \in DOMAIN list
      <4>1. docs'[r] = Reset(docs[r], list[r])
        BY <2>1, <2>2, <3>1
      <4> QED
        BY <2>2, <2>4, <3>1, <4>1
    <3>2. CASE r \notin DOMAIN list
      <4>1. docs'[r] = docs[r]
        BY <2>1, <2>2, <3>2
      <4>2. full'[r] = (full[r] \/ FALSE) /\ full[r] \in BOOLEAN
        BY <2>1, <2>2, <3>2, ElementOfSeq DEF TypeInv, HistOK
      <4> QED
        BY <3>2, <4>1, <4>2
    <3> QED
      BY <3>1, <3>2
  <2>6. orderly' => Known
    BY <2>1 DEF ChoiceInv, ListIsKnown
  <2>7. HabitsChosen'
    <3> SUFFICES ASSUME NEW r \in 1..Len(docs)
                 PROVE  /\ KindOK(docs'[r].counted, chosen[r])
                        /\ patient /\ chosen[r].time # Untold =>
                               Head(docs'[r].original) \in chosen[r].time
                        /\ orderly' /\ chosen[r].goal # Unknown => docs'[r].goal = chosen[r].goal
                        /\ orderly' /\ full'[r] => Head(docs'[r].time) = Head(docs'[r].original)
      BY <1>1, <2>3 DEF HabitsChosen
    <3>1. /\ KindOK(docs[r].counted, chosen[r])
          /\ patient /\ chosen[r].time # Untold => Head(docs[r].original) \in chosen[r].time
          /\ orderly /\ chosen[r].goal # Unknown => docs[r].goal = chosen[r].goal
          /\ orderly /\ full[r] => Head(docs[r].time) = Head(docs[r].original)
      BY DEF ChoiceInv, HabitsChosen
    <3>2. CASE r \in DOMAIN list
      <4>1. orderly' => list[r].goal = docs[r].goal /\ list[r].original = docs[r].original
        BY <2>6, <3>2 DEF Known
      <4> QED
        BY <2>1, <2>5, <3>1, <3>2, <4>1
    <3>3. CASE r \notin DOMAIN list
      BY <2>1, <2>5, <3>1, <3>3
    <3> QED
      BY <3>2, <3>3
  <2>8. ListIsKnown'
    <3> SUFFICES ASSUME fetch # "queued" PROVE Known'
      BY <1>1 DEF ListIsKnown
    <3>1. Known
      BY DEF ChoiceInv, ListIsKnown
    <3>2. \A r \in DOMAIN list : r \in 1..Len(docs)
      BY EntryType DEF TypeInv
    <3>3. ASSUME NEW r \in DOMAIN list
          PROVE  list[r].goal = docs'[r].goal /\ list[r].original = docs'[r].original
      BY <2>5, <3>1, <3>2 DEF Known
    <3> QED
      BY <1>1, <3>3 DEF Known
  <2> QED
    BY <1>2, <1>3, <1>4, <2>7, <2>8 DEF ChoiceInv
<1> QED
  BY <1>5, <1>6

LEMMA RunTimerChoice ==
    ASSUME TypeInv, ChoiceInv, NEW r \in DOMAIN list, NEW left, RunTimer(r, left)
    PROVE  ChoiceInv'
<1>1. /\ docs' = [docs EXCEPT ![r] = [docs[r] EXCEPT !.time = <<left>>]]
      /\ list' = [list EXCEPT ![r] = [list[r] EXCEPT !.time = <<left>>]]
      /\ full' = [full EXCEPT ![r] = FALSE]
      /\ UNCHANGED <<fetch, screen, draft, picker, adds, blocks, chosen, orderly, patient>>
      /\ screen = "home"
  BY DEF RunTimer, formVars, AtHome
<1>2. /\ DOMAIN docs = 1..Len(docs) /\ Len(docs) \in Nat /\ DOMAIN full = 1..Len(docs)
      /\ r \in 1..Len(docs) /\ docs[r] \in ReadableHabit /\ list[r] \in ReadableHabit
      /\ \A k \in DOMAIN list : k \in 1..Len(docs)
  BY EntryType DEF TypeInv, StoreOK, HistOK
<1>3. \A h \in ReadableHabit : /\ [h EXCEPT !.time = <<left>>].counted = h.counted
                               /\ [h EXCEPT !.time = <<left>>].goal = h.goal
                               /\ [h EXCEPT !.time = <<left>>].original = h.original
  BY DEF ReadableHabit, HabitType
<1>4. DOMAIN docs' = 1..Len(docs) /\ Len(docs') = Len(docs) /\ DOMAIN list' = DOMAIN list
  <2>1. docs' \in [1..Len(docs) -> {docs'[k] : k \in 1..Len(docs)}]
    BY <1>1, <1>2
  <2> QED
    BY <1>1, <1>2, <2>1, ArrayIsSeq
<1>5. ASSUME NEW k \in 1..Len(docs)
      PROVE  /\ docs'[k].counted = docs[k].counted /\ docs'[k].goal = docs[k].goal
             /\ docs'[k].original = docs[k].original
             /\ k = r => full'[k] = FALSE
             /\ k # r => docs'[k] = docs[k] /\ full'[k] = full[k]
  BY <1>1, <1>2, <1>3
<1>6. ASSUME NEW k \in DOMAIN list
      PROVE  list'[k].goal = list[k].goal /\ list'[k].original = list[k].original
  BY <1>1, <1>2, <1>3
<1>7. ListIsKnown'
  BY <1>1, <1>2, <1>4, <1>5, <1>6 DEF ChoiceInv, ListIsKnown, Known
<1>8. HabitsChosen'
  <2> SUFFICES ASSUME NEW k \in 1..Len(docs)
               PROVE  /\ KindOK(docs'[k].counted, chosen[k])
                      /\ patient /\ chosen[k].time # Untold =>
                             Head(docs'[k].original) \in chosen[k].time
                      /\ orderly /\ chosen[k].goal # Unknown => docs'[k].goal = chosen[k].goal
                      /\ orderly /\ full'[k] => Head(docs'[k].time) = Head(docs'[k].original)
    BY <1>1, <1>4 DEF HabitsChosen
  <2>1. CASE k = r
    BY <1>5, <2>1 DEF ChoiceInv, HabitsChosen
  <2>2. CASE k # r
    BY <1>5, <2>2 DEF ChoiceInv, HabitsChosen
  <2> QED
    BY <2>1, <2>2
<1>9. FormShows' /\ EditKnows'
  BY <1>1 DEF ChoiceInv, FormShows, EditKnows
<1>10. AddsChosen'
  BY <1>1, KeepAdds DEF ChoiceInv
<1> QED
  BY <1>7, <1>8, <1>9, <1>10 DEF ChoiceInv

LEMMA HomeChoice ==
    ASSUME TypeInv, ChoiceInv, LeaveHome \/ Tap \/ Midnight \/ UNCHANGED vars
    PROVE  ChoiceInv'
<1>1. /\ UNCHANGED <<storeVars, draft, picker, adds, blocks, histVars>>
      /\ screen' = screen \/ screen' = "away"
  BY DEF LeaveHome, Tap, Midnight, formVars, vars
<1>2. ListIsKnown' /\ HabitsChosen' /\ AddsChosen'
  BY <1>1, KeepHabits, KeepAdds DEF ChoiceInv, histVars
<1>3. FormShows' /\ EditKnows'
  BY <1>1 DEF ChoiceInv, FormShows, EditKnows, histVars
<1> QED
  BY <1>2, <1>3 DEF ChoiceInv

LEMMA FetchChoice ==
    ASSUME TypeInv, ChoiceInv, FetchStarts \/ FetchEnds \/ Relaunch
    PROVE  ChoiceInv'
<1>1. UNCHANGED <<docs, histVars>> /\ list' \in {<<>>, docs}
  BY DEF FetchStarts, FetchEnds, Relaunch
<1>2. HabitsChosen'
  BY <1>1 DEF ChoiceInv, HabitsChosen, histVars
<1>3. ListIsKnown'
  BY <1>1 DEF ListIsKnown, Known
<1>4. FormShows' /\ EditKnows' /\ AddsChosen'
  <2>1. CASE FetchStarts \/ FetchEnds
    <3>1. UNCHANGED formVars
      BY <2>1 DEF FetchStarts, FetchEnds
    <3> QED
      BY <1>1, <3>1, KeepAdds DEF ChoiceInv, FormShows, EditKnows, formVars, histVars
  <2>2. CASE Relaunch
    <3>1. adds' = <<>> /\ blocks' = <<>> /\ screen' = "home" /\ picker' = NoPicker
          /\ draft' = NoForm
      BY <2>2 DEF Relaunch
    <3>2. NoForm.askedTime = Untold /\ NoForm.askedGoal = Unknown
      BY DEF NoForm, CreateDraft
    <3> QED
      BY <3>1, <3>2, NoAdds DEF FormShows, EditKnows
  <2> QED
    BY <2>1, <2>2
<1> QED
  BY <1>2, <1>3, <1>4 DEF ChoiceInv

LEMMA InitChoice == Init => ChoiceInv
<1> SUFFICES ASSUME Init PROVE ChoiceInv
  OBVIOUS
<1>1. docs = <<>> /\ list = <<>> /\ adds = <<>> /\ blocks = <<>> /\ picker = NoPicker
      /\ draft = NoForm /\ screen = "home"
  BY DEF Init
<1>2. NoForm.askedTime = Untold /\ NoForm.askedGoal = Unknown
  BY DEF NoForm, CreateDraft
<1>3. Len(<<>>) = 0 /\ 1..0 = {} /\ DOMAIN <<>> = {}
  OBVIOUS
<1> QED
  BY <1>1, <1>2, <1>3
  DEF ChoiceInv, ListIsKnown, Known, HabitsChosen, FormShows, EditKnows, AddsChosen

LEMMA ChoiceStep == TypeInv /\ ChoiceInv /\ [Next]_vars => ChoiceInv'
<1> SUFFICES ASSUME TypeInv, ChoiceInv, [Next]_vars PROVE ChoiceInv'
  OBVIOUS
<1>1. CASE OpenCreate \/ \E r \in DOMAIN list : OpenEdit(r)
  BY <1>1, OpenChoice
<1>2. CASE OpenTimePicker \/ DismissPicker \/ \E t \in Times : TurnWheel(t)
  BY <1>2, PickerChoice
<1>3. CASE \/ \E c \in Colors : PickColor(c)
           \/ \E n \in Amounts \cup {StepperStart} : ChooseAmount(n)
  BY <1>3, FieldChoice
<1>4. CASE ConfirmTime \/ TapAdd \/ SaveEdit
  BY <1>4, ConfirmChoice, TapAddChoice, SaveEditChoice
<1>5. CASE (\E i \in DOMAIN adds : Answer(i)) \/ RunAdd
  BY <1>5, AnswerChoice, RunAddChoice
<1>6. CASE Back \/ ComeBack \/ Transition
  BY <1>6, AppearChoice DEF Back, ComeBack, Transition
<1>7. CASE \E r \in DOMAIN list : \E left \in Lefts : RunTimer(r, left)
  BY <1>7, RunTimerChoice
<1>8. CASE LeaveHome \/ Tap \/ Midnight \/ UNCHANGED vars
  BY <1>8, HomeChoice
<1>9. CASE FetchStarts \/ FetchEnds \/ Relaunch
  BY <1>9, FetchChoice
<1> QED
  BY <1>1, <1>2, <1>3, <1>4, <1>5, <1>6, <1>7, <1>8, <1>9 DEF Next, Form, Home, System

LEMMA ChoiceInvariant == Spec => []ChoiceInv
<1>1. Init => ChoiceInv
  BY InitChoice
<1>2. TypeInv /\ ChoiceInv /\ [Next]_vars => ChoiceInv'
  BY ChoiceStep
<1> QED
  BY <1>1, <1>2, TypeInvariant, PTL DEF Spec

(* A timed habit has every day a time that looks on the wheel as the one last
   confirmed for it, whatever pickers append to its array (fillArray), however
   often it is edited, run or reset: exactly the time the wheel was turned to
   or found at in a new form, the same hours and minutes, from which viewDidLoad
   sets the wheel, when that of an edit was confirmed as it was.  Only a time
   confirmed while an add is pending goes astray. *)
THEOREM ChosenTimeKept == Spec => []ChosenTimeIsKept
<1>1. TypeInv /\ ChoiceInv => ChosenTimeIsKept
  BY DEF ChoiceInv, HabitsChosen, ChosenTimeIsKept, TypeInv, StoreOK
<1> QED
  BY <1>1, TypeInvariant, ChoiceInvariant, PTL

(* A counted habit has the goal that was last chosen for it, although an edit
   and the reset of a morning write the goal of a copy: the copies know it
   whenever no fetch is due. *)
THEOREM ChosenGoalKept == Spec => []ChosenGoalIsKept
<1>1. TypeInv /\ ChoiceInv => ChosenGoalIsKept
  BY DEF ChoiceInv, HabitsChosen, ChosenGoalIsKept, TypeInv, StoreOK
<1> QED
  BY <1>1, TypeInvariant, ChoiceInvariant, PTL

(* A habit whose timer has not run since its time was set or reset has all of
   its time (viewWillAppear takes it from the list's originalTimeArray). *)
THEOREM UnusedTimeFull == Spec => []UnusedTimeIsFull
<1>1. TypeInv /\ ChoiceInv => UnusedTimeIsFull
  BY DEF ChoiceInv, HabitsChosen, UnusedTimeIsFull, TypeInv, StoreOK
<1> QED
  BY <1>1, TypeInvariant, ChoiceInvariant, PTL
============================================================================
