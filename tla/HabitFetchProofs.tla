-------------------------- MODULE HabitFetchProofs --------------------------
(***************************************************************************)
(* Lemmas about the queues and the list of module HabitFetch, for the      *)
(* proofs about the modules that compose it: how a call leaves the reads   *)
(* and its block the main queue, what the sorted append does to a list     *)
(* that is in order, and the phases of a fetch that runs alone.            *)
(***************************************************************************)
EXTENDS HabitFetch, FiniteSetTheorems, SequenceTheorems, TLAPS

----------------------------------------------------------------------------
\* Queues

LEMMA NonEmptySeq ==
    ASSUME NEW S, NEW s \in Seq(S), s # <<>>
    PROVE  s[1] \in S /\ Head(s) \in S /\ Tail(s) \in Seq(S)
BY HeadTailProperties, ElementOfSeq, EmptySeq

(* RemoveAt keeps the others in their order. *)
Others(k, i) == IF k < i THEN k ELSE k + 1

LEMMA RemoveAtType ==
    ASSUME NEW S, NEW s \in Seq(S), NEW i \in 1..Len(s)
    PROVE  /\ RemoveAt(s, i) \in Seq(S)
           /\ Len(RemoveAt(s, i)) = Len(s) - 1
           /\ \A k \in 1..Len(RemoveAt(s, i)) :
                 Others(k, i) \in 1..Len(s) /\ RemoveAt(s, i)[k] = s[Others(k, i)]
<1> DEFINE before == SubSeq(s, 1, i - 1)
           after  == SubSeq(s, i + 1, Len(s))
<1>1. /\ before \in Seq(S) /\ Len(before) = i - 1
      /\ \A k \in 1..(i - 1) : before[k] = s[k]
  BY SubSeqProperties
<1>2. /\ after \in Seq(S) /\ Len(after) = Len(s) - i
      /\ \A k \in 1..(Len(s) - i) : after[k] = s[i + k]
  BY SubSeqProperties
<1> HIDE DEF before, after
<1>3. /\ before \o after \in Seq(S) /\ Len(before \o after) = Len(s) - 1
      /\ \A k \in 1..(Len(s) - 1) :
            (before \o after)[k] = IF k <= i - 1 THEN before[k] ELSE after[k - (i - 1)]
  BY <1>1, <1>2, ConcatProperties
<1>4. ASSUME NEW k \in 1..(Len(s) - 1)
      PROVE  Others(k, i) \in 1..Len(s) /\ (before \o after)[k] = s[Others(k, i)]
  <2>1. CASE k < i
    BY <1>1, <1>3, <2>1 DEF Others
  <2>2. CASE ~(k < i)
    <3>1. k - (i - 1) \in 1..(Len(s) - i) /\ i + (k - (i - 1)) = k + 1
      BY <2>2
    <3>2. after[k - (i - 1)] = s[k + 1]
      BY <1>2, <3>1
    <3> QED
      BY <1>3, <2>2, <3>1, <3>2 DEF Others
  <2> QED
    BY <2>1, <2>2
<1> QED
  BY <1>3, <1>4 DEF RemoveAt, before, after

(* The elements of a queue that holds each of them once: what an answer, a
   block that runs, and a new block do to them. *)
Holds(s, S) == Range(s) = S /\ IsInjective(s)

LEMMA HoldsNothing ==
    ASSUME NEW S, NEW s \in Seq(S)
    PROVE  Holds(s, {}) <=> s = <<>>
<1>1. DOMAIN s = 1..Len(s) /\ Len(s) \in Nat
  OBVIOUS
<1>2. s # <<>> => 1 \in DOMAIN s
  BY <1>1, EmptySeq
<1>3. Holds(<<>>, {})
  BY DEF Holds, Range, IsInjective
<1> QED
  BY <1>2, <1>3 DEF Holds, Range

LEMMA RemoveAtHolds ==
    ASSUME NEW S, NEW s \in Seq(S), NEW i \in 1..Len(s), NEW E, Holds(s, E)
    PROVE  Holds(RemoveAt(s, i), E \ {s[i]})
<1> DEFINE t == RemoveAt(s, i)
<1>1. /\ t \in Seq(S) /\ Len(t) = Len(s) - 1 /\ Len(s) \in Nat
      /\ \A k \in 1..Len(t) : Others(k, i) \in 1..Len(s) /\ t[k] = s[Others(k, i)]
  BY RemoveAtType
<1>2. DOMAIN t = 1..(Len(s) - 1) /\ DOMAIN s = 1..Len(s)
  BY <1>1
<1> HIDE DEF t
<1>3. \A k, m \in 1..(Len(s) - 1) :
         Others(k, i) # i /\ (Others(k, i) = Others(m, i) => k = m)
  BY DEF Others
<1>4. \A m \in 1..Len(s) : m # i => \E k \in 1..(Len(s) - 1) : Others(k, i) = m
  <2> TAKE m \in 1..Len(s)
  <2>1. CASE m < i
    BY <2>1 DEF Others
  <2>2. CASE m > i
    <3>1. m - 1 \in 1..(Len(s) - 1) /\ Others(m - 1, i) = m
      BY <2>2 DEF Others
    <3> QED
      BY <3>1
  <2> QED
    BY <2>1, <2>2
<1>5. IsInjective(t)
  <2> SUFFICES ASSUME NEW a \in DOMAIN t, NEW b \in DOMAIN t, t[a] = t[b] PROVE a = b
    BY DEF IsInjective
  <2>1. s[Others(a, i)] = s[Others(b, i)]
    BY <1>1, <1>2
  <2>2. Others(a, i) = Others(b, i)
    BY <1>1, <1>2, <2>1 DEF Holds, IsInjective
  <2> QED
    BY <1>2, <1>3, <2>2
<1>6. Range(t) = E \ {s[i]}
  <2>1. \A k \in DOMAIN t : t[k] \in E \ {s[i]}
    <3> TAKE k \in DOMAIN t
    <3>1. Others(k, i) \in DOMAIN s /\ Others(k, i) # i /\ t[k] = s[Others(k, i)]
      BY <1>1, <1>2, <1>3
    <3> QED
      BY <1>2, <3>1 DEF Holds, Range, IsInjective
  <2>2. \A e \in E \ {s[i]} : \E k \in DOMAIN t : t[k] = e
    <3> TAKE e \in E \ {s[i]}
    <3>1. PICK m \in DOMAIN s : s[m] = e
      BY DEF Holds, Range
    <3>2. PICK k \in 1..(Len(s) - 1) : Others(k, i) = m
      BY <1>2, <1>4, <3>1
    <3> QED
      BY <1>1, <1>2, <3>1, <3>2
  <2> QED
    BY <2>1, <2>2 DEF Range
<1> QED
  BY <1>5, <1>6 DEF Holds, t

LEMMA TailHolds ==
    ASSUME NEW S, NEW s \in Seq(S), s # <<>>, NEW E, Holds(s, E)
    PROVE  Head(s) \in E /\ Holds(Tail(s), E \ {Head(s)})
<1>1. /\ Head(s) = s[1] /\ 1 \in 1..Len(s) /\ Len(s) \in Nat
      /\ Tail(s) \in Seq(S) /\ Len(Tail(s)) = Len(s) - 1
      /\ \A k \in 1..Len(Tail(s)) : k + 1 \in 1..Len(s) /\ Tail(s)[k] = s[k + 1]
  BY HeadTailProperties, EmptySeq
<1>2. DOMAIN s = 1..Len(s) /\ DOMAIN Tail(s) = 1..(Len(s) - 1)
  BY <1>1
<1> DEFINE t == Tail(s)
<1> HIDE DEF t
<1>3. IsInjective(t)
  <2> SUFFICES ASSUME NEW a \in DOMAIN t, NEW b \in DOMAIN t, t[a] = t[b] PROVE a = b
    BY DEF IsInjective
  <2>1. a + 1 \in DOMAIN s /\ b + 1 \in DOMAIN s /\ s[a + 1] = s[b + 1]
    BY <1>1, <1>2 DEF t
  <2>2. a + 1 = b + 1
    BY <2>1 DEF Holds, IsInjective
  <2> QED
    BY <1>2, <2>2 DEF t
<1>4. Range(t) = E \ {s[1]}
  <2>1. \A k \in DOMAIN t : t[k] \in E \ {s[1]}
    <3> TAKE k \in DOMAIN t
    <3>1. k + 1 \in DOMAIN s /\ k + 1 # 1 /\ t[k] = s[k + 1]
      BY <1>1, <1>2 DEF t
    <3> QED
      BY <1>1, <1>2, <3>1 DEF Holds, Range, IsInjective
  <2>2. \A e \in E \ {s[1]} : \E k \in DOMAIN t : t[k] = e
    <3> TAKE e \in E \ {s[1]}
    <3>1. PICK m \in DOMAIN s : s[m] = e
      BY DEF Holds, Range
    <3>2. m - 1 \in DOMAIN t /\ (m - 1) + 1 = m
      BY <1>1, <1>2, <3>1 DEF t
    <3>3. t[m - 1] = s[m]
      BY <1>1, <1>2, <3>2 DEF t
    <3> QED
      BY <3>1, <3>2, <3>3
  <2> QED
    BY <2>1, <2>2 DEF Range
<1> QED
  BY <1>1, <1>2, <1>3, <1>4 DEF Holds, Range, t

LEMMA AppendHolds ==
    ASSUME NEW S, NEW s \in Seq(S), NEW b \in S, NEW E, Holds(s, E), b \notin E
    PROVE  Holds(Append(s, b), E \cup {b})
<1> DEFINE t == Append(s, b)
<1>1. /\ t \in Seq(S) /\ Len(t) = Len(s) + 1 /\ Len(s) \in Nat
      /\ \A k \in 1..Len(s) : t[k] = s[k]
      /\ t[Len(s) + 1] = b
  BY AppendProperties
<1>2. DOMAIN s = 1..Len(s) /\ DOMAIN t = 1..(Len(s) + 1)
  BY <1>1
<1> HIDE DEF t
<1>3. \A k \in 1..Len(s) : s[k] \in E
  BY <1>2 DEF Holds, Range
<1>4. IsInjective(t)
  <2> SUFFICES ASSUME NEW x \in DOMAIN t, NEW y \in DOMAIN t, t[x] = t[y] PROVE x = y
    BY DEF IsInjective
  <2>1. CASE x \in 1..Len(s) /\ y \in 1..Len(s)
    BY <1>1, <1>2, <2>1 DEF Holds, IsInjective
  <2>2. CASE ~(x \in 1..Len(s) /\ y \in 1..Len(s))
    BY <1>1, <1>2, <1>3, <2>2
  <2> QED
    BY <2>1, <2>2
<1>5. Range(t) = E \cup {b}
  <2>1. \A k \in DOMAIN t : t[k] \in E \cup {b}
    BY <1>1, <1>2, <1>3
  <2>2. \A e \in E : \E k \in DOMAIN t : t[k] = e
    <3> TAKE e \in E
    <3>1. PICK k \in DOMAIN s : s[k] = e
      BY DEF Holds, Range
    <3> QED
      BY <1>1, <1>2, <3>1
  <2>3. Len(s) + 1 \in DOMAIN t
    BY <1>1, <1>2
  <2> QED
    BY <1>1, <2>1, <2>2, <2>3 DEF Range
<1> QED
  BY <1>4, <1>5 DEF Holds, t

----------------------------------------------------------------------------
\* The list in order

Sorted(array) ==
    \A i, j \in DOMAIN array :
        i < j => array[i].habitNumber < array[j].habitNumber

LEMMA InsertType ==
    ASSUME NEW S, NEW array \in Seq(S), NEW entry \in S
    PROVE  Insert(array, entry) \in Seq(S)
<1> DEFINE before == {i \in DOMAIN array :
                         array[i].habitNumber <= entry.habitNumber}
<1>1. DOMAIN array = 1..Len(array) /\ Len(array) \in Nat
  OBVIOUS
<1>2. IsFiniteSet(1..Len(array)) /\ Cardinality(1..Len(array)) = Len(array)
  BY <1>1, FS_Interval
<1>3. before \in SUBSET (1..Len(array))
  BY <1>1
<1>4. Cardinality(before) \in Nat /\ Cardinality(before) <= Len(array)
  BY <1>2, <1>3, FS_Subset, FS_CardinalityType
<1> HIDE DEF before
<1>5. 1 + Cardinality(before) \in 1..(Len(array) + 1)
  BY <1>1, <1>4
<1>6. \A k \in 1..(Len(array) + 1) : InsertAt(array, k, entry) \in Seq(S)
  BY DEF InsertAt
<1> QED
  BY <1>5, <1>6 DEF Insert, before

(* A part of 1..n that has, with an element, all that are smaller, ends at its
   cardinality. *)
LEMMA InitialPart ==
    ASSUME NEW n \in Nat, NEW A \in SUBSET (1..n),
           \A i \in A : \A j \in 1..n : j <= i => j \in A
    PROVE  /\ Cardinality(A) \in 0..n
           /\ \A i \in 1..n : i \in A <=> i <= Cardinality(A)
<1>1. IsFiniteSet(1..n) /\ Cardinality(1..n) = n
  BY FS_Interval
<1>2. IsFiniteSet(A) /\ Cardinality(A) \in Nat /\ Cardinality(A) <= n
  BY <1>1, FS_Subset, FS_CardinalityType
<1>3. ASSUME NEW i \in 1..n, i \in A PROVE i <= Cardinality(A)
  <2>1. (1..i) \subseteq A
    BY <1>3
  <2>2. Cardinality(1..i) = i
    BY FS_Interval
  <2> QED
    BY <1>2, <2>1, <2>2, FS_Subset
<1>4. ASSUME NEW i \in 1..n, i \notin A PROVE ~(i <= Cardinality(A))
  <2>1. A \subseteq 1..(i - 1)
    BY <1>4
  <2>2. IsFiniteSet(1..(i - 1)) /\ Cardinality(1..(i - 1)) = i - 1
    BY FS_Interval
  <2>3. Cardinality(A) <= Cardinality(1..(i - 1))
    BY <2>1, <2>2, FS_Subset
  <2> QED
    BY <1>2, <2>2, <2>3
<1> QED
  BY <1>2, <1>3, <1>4

(* The sorted append of a new number: the list stays in order, one longer. *)
LEMMA InsertSorted ==
    ASSUME NEW S, \A e \in S : e.habitNumber \in Nat,
           NEW array \in Seq(S), NEW entry \in S, Sorted(array),
           \A i \in DOMAIN array : array[i].habitNumber # entry.habitNumber
    PROVE  /\ Insert(array, entry) \in Seq(S)
           /\ Len(Insert(array, entry)) = Len(array) + 1
           /\ Sorted(Insert(array, entry))
           /\ Range(Insert(array, entry)) = Range(array) \cup {entry}
<1> DEFINE n == Len(array)
           A == {i \in DOMAIN array : array[i].habitNumber <= entry.habitNumber}
           c == Cardinality(A)
<1>1. n \in Nat /\ DOMAIN array = 1..n /\ \A i \in 1..n : array[i] \in S
  OBVIOUS
<1>2. \A i \in 1..n : array[i].habitNumber \in Nat
  BY <1>1
<1>3. entry.habitNumber \in Nat
  OBVIOUS
<1>4. A \in SUBSET (1..n)
  BY <1>1
<1>5. ASSUME NEW i \in A, NEW j \in 1..n, j <= i PROVE j \in A
  <2>1. j = i \/ array[j].habitNumber < array[i].habitNumber
    BY <1>1, <1>5 DEF Sorted
  <2>2. array[i].habitNumber <= entry.habitNumber /\ i \in 1..n
    BY <1>1
  <2>3. array[j].habitNumber <= entry.habitNumber
    BY <1>2, <1>3, <2>1, <2>2
  <2> QED
    BY <1>1, <2>3
<1>6. c \in 0..n /\ \A i \in 1..n : i \in A <=> i <= c
  <2> HIDE DEF A, n
  <2> QED
    BY <1>1, <1>4, <1>5, InitialPart
<1>7. \A i \in 1..n : /\ i <= c => array[i].habitNumber < entry.habitNumber
                      /\ i > c => entry.habitNumber < array[i].habitNumber
  <2> TAKE i \in 1..n
  <2>1. array[i].habitNumber # entry.habitNumber
    BY <1>1
  <2>2. i \in A <=> array[i].habitNumber <= entry.habitNumber
    BY <1>1
  <2> HIDE DEF A, n
  <2> QED
    BY <1>2, <1>3, <1>6, <2>1, <2>2
<1> DEFINE new == Insert(array, entry)
           before == SubSeq(array, 1, c)
           after  == SubSeq(array, c + 1, n)
<1>8. new = before \o <<entry>> \o after
  <2>1. (1 + c) - 1 = c /\ 1 + c = c + 1
    BY <1>6
  <2>2. new = SubSeq(array, 1, (1 + c) - 1) \o <<entry>> \o SubSeq(array, 1 + c, Len(array))
    BY DEF Insert, InsertAt
  <2> HIDE DEF new, c
  <2> QED
    BY <2>1, <2>2
<1> HIDE DEF A, c
<1>9. /\ before \in Seq(S) /\ Len(before) = c
      /\ \A i \in 1..c : before[i] = array[i]
  BY <1>1, <1>6, SubSeqProperties
<1>10. /\ after \in Seq(S) /\ Len(after) = n - c
       /\ \A i \in 1..(n - c) : after[i] = array[c + i]
  <2>1. c + 1 \in Int /\ c + 1 \in 1..(n + 1) /\ n \in (c + 1 - 1)..n
    BY <1>1, <1>6
  <2>2. \A i \in (c + 1)..n : array[i] \in S
    BY <1>1, <2>1
  <2>3. /\ after \in Seq(S)
        /\ Len(after) = IF c + 1 <= n THEN n - (c + 1) + 1 ELSE 0
        /\ \A i \in 1..(n - (c + 1) + 1) : after[i] = array[c + 1 + i - 1]
    BY <1>1, <2>1, <2>2, SubSeqProperties
  <2>4. n - (c + 1) + 1 = n - c /\ \A i \in 1..(n - c) : c + 1 + i - 1 = c + i
    BY <1>1, <1>6
  <2>5. (IF c + 1 <= n THEN n - (c + 1) + 1 ELSE 0) = n - c
    <3> HIDE DEF n
    <3>1. n \in Int /\ c \in Int /\ c <= n
      BY <1>1, <1>6
    <3> QED
      BY <3>1
  <2> HIDE DEF after, n
  <2> QED
    BY <2>3, <2>4, <2>5
<1> HIDE DEF new, before, after, n
<1>11. /\ before \o <<entry>> \in Seq(S) /\ Len(before \o <<entry>>) = c + 1
       /\ \A i \in 1..(c + 1) : (before \o <<entry>>)[i] =
             IF i <= c THEN array[i] ELSE entry
  BY <1>6, <1>9, ConcatProperties
<1>12. /\ new \in Seq(S) /\ Len(new) = n + 1
       /\ \A i \in 1..(n + 1) : new[i] =
             IF i <= c + 1 THEN (before \o <<entry>>)[i] ELSE after[i - (c + 1)]
  BY <1>1, <1>6, <1>8, <1>10, <1>11, ConcatProperties
<1>13. \A i \in 1..(n + 1) :
          /\ i <= c => new[i] = array[i] /\ i \in 1..n
          /\ i = c + 1 => new[i] = entry
          /\ i > c + 1 => new[i] = array[i - 1] /\ i - 1 \in 1..n /\ i - 1 > c
  <2> TAKE i \in 1..(n + 1)
  <2>1. ASSUME i <= c PROVE new[i] = array[i] /\ i \in 1..n
    <3>1. i <= c + 1 /\ i \in 1..(c + 1) /\ i \in 1..n
      BY <1>1, <1>6, <2>1
    <3>2. new[i] = (before \o <<entry>>)[i]
      BY <1>12, <3>1
    <3>3. (before \o <<entry>>)[i] = array[i]
      BY <1>11, <2>1, <3>1
    <3> QED
      BY <3>1, <3>2, <3>3
  <2>2. ASSUME i = c + 1 PROVE new[i] = entry
    <3>1. i <= c + 1 /\ i \in 1..(c + 1) /\ ~(i <= c)
      BY <1>1, <1>6, <2>2
    <3>2. new[i] = (before \o <<entry>>)[i]
      BY <1>12, <3>1
    <3>3. (before \o <<entry>>)[i] = entry
      BY <1>11, <3>1
    <3> QED
      BY <3>2, <3>3
  <2>3. ASSUME i > c + 1 PROVE new[i] = array[i - 1] /\ i - 1 \in 1..n /\ i - 1 > c
    <3>1. /\ i - (c + 1) \in 1..(n - c) /\ c + (i - (c + 1)) = i - 1
          /\ i - 1 \in 1..n /\ i - 1 > c /\ ~(i <= c + 1)
      BY <1>1, <1>6, <2>3
    <3>2. new[i] = after[i - (c + 1)]
      BY <1>12, <3>1
    <3>3. after[i - (c + 1)] = array[c + (i - (c + 1))]
      BY <1>10, <3>1
    <3> QED
      BY <3>1, <3>2, <3>3
  <2> QED
    BY <2>1, <2>2, <2>3
<1>14. DOMAIN new = 1..(n + 1)
  BY <1>12
<1>15. Sorted(new)
  <2> SUFFICES ASSUME NEW i \in 1..(n + 1), NEW j \in 1..(n + 1), i < j
               PROVE  new[i].habitNumber < new[j].habitNumber
    BY <1>14 DEF Sorted
  <2>1. \A x, y \in 1..n : x < y => array[x].habitNumber < array[y].habitNumber
    BY <1>1 DEF Sorted
  <2>2. CASE i <= c /\ j <= c
    BY <1>13, <2>1, <2>2
  <2>3. CASE i <= c /\ j = c + 1
    BY <1>7, <1>13, <2>3
  <2>4. CASE i <= c /\ j > c + 1
    BY <1>1, <1>6, <1>13, <2>1, <2>4
  <2>5. CASE i = c + 1 /\ j > c + 1
    BY <1>7, <1>13, <2>5
  <2>6. CASE i > c + 1 /\ j > c + 1
    BY <1>1, <1>6, <1>13, <2>1, <2>6
  <2> QED
    BY <1>1, <1>6, <2>2, <2>3, <2>4, <2>5, <2>6
<1>16. Range(new) = Range(array) \cup {entry}
  <2>1. \A i \in 1..(n + 1) : new[i] \in Range(array) \cup {entry}
    <3> TAKE i \in 1..(n + 1)
    <3>1. CASE i <= c
      BY <1>1, <1>13, <3>1 DEF Range
    <3>2. CASE i = c + 1
      BY <1>13, <3>2
    <3>3. CASE i > c + 1
      <4>1. i - 1 \in 1..n /\ new[i] = array[i - 1]
        BY <1>13, <3>3
      <4> QED
        BY <1>1, <4>1 DEF Range
    <3> QED
      BY <1>1, <1>6, <3>1, <3>2, <3>3
  <2>2. \A i \in 1..n : array[i] \in Range(new)
    <3> TAKE i \in 1..n
    <3>1. CASE i <= c
      <4>1. i \in 1..(n + 1)
        BY <1>1
      <4> QED
        BY <1>13, <1>14, <3>1, <4>1 DEF Range
    <3>2. CASE i > c
      <4>1. i + 1 \in 1..(n + 1) /\ i + 1 > c + 1 /\ (i + 1) - 1 = i
        BY <1>1, <1>6, <3>2
      <4>2. new[i + 1] = array[i]
        BY <1>13, <4>1
      <4> QED
        BY <1>14, <4>1, <4>2 DEF Range
    <3> QED
      BY <1>1, <1>6, <3>1, <3>2
  <2>3. entry \in Range(new)
    <3>1. c + 1 \in 1..(n + 1)
      BY <1>1, <1>6
    <3> QED
      BY <1>13, <1>14, <3>1 DEF Range
  <2> QED
    BY <1>1, <1>14, <2>1, <2>2, <2>3 DEF Range
<1> QED
  BY <1>12, <1>15, <1>16 DEF new, n

(* A list in order that has the numbers 0..(n - 1), and no other, has each in
   its place. *)
LEMMA SortedIsListing ==
    ASSUME NEW n \in Nat, NEW S, NEW array \in Seq(S), Sorted(array),
           {array[i].habitNumber : i \in DOMAIN array} = 0..(n - 1)
    PROVE  Len(array) = n /\ \A i \in 1..n : array[i].habitNumber = i - 1
<1> DEFINE f == [i \in 1..Len(array) |-> array[i].habitNumber]
<1>1. Len(array) \in Nat /\ DOMAIN array = 1..Len(array)
  OBVIOUS
<1>2. f \in [1..Len(array) -> 0..(n - 1)] /\ \A v \in 0..(n - 1) : \E i \in 1..Len(array) : f[i] = v
  BY <1>1
<1>3. \A i, j \in 1..Len(array) : i < j => f[i] < f[j]
  BY <1>1 DEF Sorted
<1> HIDE DEF f
<1>4. ASSUME NEW k \in 0..Len(array), NEW m \in 0..n,
             \A i \in 1..k : f[i] \in 0..(m - 1),
             \A v \in 0..(m - 1) : \E i \in 1..k : f[i] = v
      PROVE  k = m
  <2> DEFINE g == [i \in 1..k |-> f[i]]
  <2>1. g \in [1..k -> 0..(m - 1)]
    BY <1>4
  <2>2. \A i, j \in 1..k : g[i] = g[j] => i = j
    <3> TAKE i, j \in 1..k
    <3>1. i \in 1..Len(array) /\ j \in 1..Len(array)
      BY <1>1
    <3>2. i < j => g[i] # g[j]
      BY <1>2, <1>3, <3>1
    <3>3. j < i => g[i] # g[j]
      <4>1. j < i => f[j] < f[i]
        BY <1>3, <3>1
      <4>2. f[i] \in Int /\ f[j] \in Int
        BY <1>2, <3>1
      <4> QED
        BY <4>1, <4>2
    <3> QED
      BY <3>2, <3>3
  <2>3. \A v \in 0..(m - 1) : \E i \in 1..k : g[i] = v
    BY <1>4
  <2> HIDE DEF g
  <2>4. g \in Bijection(1..k, 0..(m - 1))
    <3>1. IsInjective(g)
      BY <2>1, <2>2 DEF IsInjective
    <3> QED
      BY <2>1, <2>3, <3>1 DEF Bijection, Injection, Surjection
  <2>5. ExistsBijection(1..k, 0..(m - 1))
    BY <2>4 DEF ExistsBijection
  <2>6. IsFiniteSet(1..k) /\ Cardinality(1..k) = k
    <3>1. k \in Nat /\ 1 \in Int
      BY <1>1
    <3>2. IsFiniteSet(1..k) /\ Cardinality(1..k) = IF 1 > k THEN 0 ELSE k - 1 + 1
      BY <3>1, FS_Interval
    <3> QED
      BY <3>1, <3>2
  <2>7. Cardinality(0..(m - 1)) = m
    <3>1. m \in Nat /\ m - 1 \in Int /\ 0 \in Int
      BY <1>1
    <3>2. Cardinality(0..(m - 1)) = IF 0 > m - 1 THEN 0 ELSE m - 1 - 0 + 1
      BY <3>1, FS_Interval
    <3> QED
      BY <3>1, <3>2
  <2> QED
    BY <2>5, <2>6, <2>7, FS_Bijection
<1>5. Len(array) = n
  <2>1. Len(array) \in 0..Len(array) /\ n \in 0..n
    BY <1>1
  <2>2. \A i \in 1..Len(array) : f[i] \in 0..(n - 1)
    BY <1>2
  <2> QED
    BY <1>2, <1>4, <2>1, <2>2
<1>6. ASSUME NEW i \in 1..n PROVE f[i] = i - 1
  <2>1. i \in 1..Len(array) /\ f[i] \in 0..(n - 1)
    BY <1>2, <1>5
  <2>2. \A j \in 1..i : f[j] \in 0..((f[i] + 1) - 1)
    <3> TAKE j \in 1..i
    <3>1. j \in 1..Len(array)
      BY <2>1
    <3>2. f[j] \in 0..(n - 1)
      BY <1>2, <3>1
    <3>3. j = i \/ j < i
      OBVIOUS
    <3>4. j = i \/ f[j] < f[i]
      BY <1>3, <2>1, <3>1, <3>3
    <3> HIDE DEF f
    <3> QED
      BY <2>1, <3>2, <3>4
  <2>3. \A v \in 0..((f[i] + 1) - 1) : \E j \in 1..i : f[j] = v
    <3> TAKE v \in 0..((f[i] + 1) - 1)
    <3>1. PICK j \in 1..Len(array) : f[j] = v
      BY <1>2, <2>1
    <3>2. ~(i < j)
      BY <1>3, <2>1, <3>1
    <3> QED
      BY <2>1, <3>1, <3>2
  <2>4. i \in 0..Len(array) /\ f[i] + 1 \in 0..n
    BY <1>1, <2>1
  <2>5. i = f[i] + 1
    BY <1>4, <2>2, <2>3, <2>4
  <2> QED
    BY <2>1, <2>5
<1> QED
  BY <1>5, <1>6 DEF f

----------------------------------------------------------------------------
\* The phases of a fetch

(* The list that a fetch makes of the first count documents of c. *)
Placed(n, d)  == [habitNumber |-> n, data |-> d]
Listing(c, count) == [i \in 1..count |-> Placed(i - 1, c[i - 1])]

HabitBlock(n) == Block(HabitCall(n), <<docs[n]>>)

(* A fetch, when nothing else is under way and no read fails. *)
FetchWaits   == reads = <<>> /\ mainQueue = <<FetchBlock>>
CounterAsked == habitArray = <<>> /\ reads = <<CounterCall>> /\ mainQueue = <<>>
CounterHere(count) ==
    /\ habitArray = <<>> /\ reads = <<>>
    /\ mainQueue = <<Block(CounterCall, <<[habitCounter |-> count]>>)>>

(* Every document is asked for, answered, or in the list, which is in order. *)
Loads(count, asked, answered, listed) ==
    /\ asked \cup answered \cup listed = 0..(count - 1)
    /\ asked \cap answered = {} /\ asked \cap listed = {} /\ answered \cap listed = {}
    /\ Holds(reads, {HabitCall(n) : n \in asked})
    /\ Holds(mainQueue, {HabitBlock(n) : n \in answered})
    /\ Range(habitArray) = {Placed(n, docs[n]) : n \in listed}
    /\ Sorted(habitArray)
    /\ habitArray # <<>> => shown = Len(habitArray)
Loading(count) ==
    \E asked, answered, listed \in SUBSET (0..(count - 1)) :
        Loads(count, asked, answered, listed)

(* The first count documents can be read. *)
Readable(count) == \A n \in 0..(count - 1) : n \in DOMAIN docs /\ docs[n] # NoDoc

LEMMA ListingIs ==
    ASSUME NEW count \in Nat, NEW c
    PROVE  /\ DOMAIN Listing(c, count) = 1..count /\ Len(Listing(c, count)) = count
           /\ \A i \in 1..count : Listing(c, count)[i] = Placed(i - 1, c[i - 1])
           /\ \A n \in 0..(count - 1) : Listing(c, count)[n + 1] = Placed(n, c[n])
<1>1. DOMAIN Listing(c, count) = 1..count
  BY DEF Listing
<1>2. Len(Listing(c, count)) = count
  <2> DEFINE S == {Placed(i - 1, c[i - 1]) : i \in 1..count}
  <2>1. Listing(c, count) \in [1..count -> S]
    BY DEF Listing
  <2> HIDE DEF S
  <2>2. Listing(c, count) \in Seq(S)
    BY <2>1, SeqDef
  <2> QED
    BY <2>1, <2>2
<1>3. \A i \in 1..count : Listing(c, count)[i] = Placed(i - 1, c[i - 1])
  BY DEF Listing
<1>4. \A n \in 0..(count - 1) : Listing(c, count)[n + 1] = Placed(n, c[n])
  <2> TAKE n \in 0..(count - 1)
  <2>1. n + 1 \in 1..count /\ (n + 1) - 1 = n
    OBVIOUS
  <2>2. Listing(c, count)[n + 1] = Placed((n + 1) - 1, c[(n + 1) - 1])
    BY <1>3, <2>1
  <2> QED
    BY <2>1, <2>2
<1> QED
  BY <1>1, <1>2, <1>3, <1>4

LEMMA EmptyHolds == Holds(<<>>, {}) /\ Range(<<>>) = {} /\ Sorted(<<>>)
BY DEF Holds, Range, IsInjective, Sorted

LEMMA OneRemoved == \A x : RemoveAt(<<x>>, 1) = <<>>
<1> TAKE x
<1>1. <<x>> \in Seq({x}) /\ Len(<<x>>) = 1
  OBVIOUS
<1>2. 1 \in 1..Len(<<x>>)
  BY <1>1
<1>3. RemoveAt(<<x>>, 1) \in Seq({x}) /\ Len(RemoveAt(<<x>>, 1)) = 1 - 1
  BY <1>1, <1>2, RemoveAtType
<1> QED
  BY <1>3, EmptySeq

LEMMA CallsOfRows ==
    /\ \A m, n : (HabitCall(m) = HabitCall(n) => m = n)
              /\ (HabitBlock(m) = HabitBlock(n) => m = n)
              /\ (Placed(m, docs[m]) = Placed(n, docs[n]) => m = n)
    /\ \A n : /\ HabitBlock(n).call = HabitCall(n) /\ HabitBlock(n).call.n = n
              /\ HabitBlock(n).snap = <<docs[n]>> /\ HabitCall(n).n = n
              /\ HabitCall(n).kind = "habit" /\ HabitBlock(n).call.kind = "habit"
BY DEF HabitCall, HabitBlock, Block, Placed

(* All that is under way while the documents are loaded. *)
LEMMA LoadingQueues ==
    ASSUME NEW count, Loading(count), NEW T, mainQueue \in Seq(T)
    PROVE  /\ \A i \in DOMAIN reads : reads[i].kind = "habit"
           /\ \A k \in DOMAIN mainQueue : mainQueue[k].call.kind = "habit"
           /\ mainQueue # <<>> => Head(mainQueue).call.kind = "habit"
<1>1. PICK asked, answered, listed \in SUBSET (0..(count - 1)) :
         Loads(count, asked, answered, listed)
  BY DEF Loading
<1>2. \A i \in DOMAIN reads : reads[i] \in {HabitCall(n) : n \in asked}
  BY <1>1 DEF Loads, Holds, Range
<1>3. \A k \in DOMAIN mainQueue : mainQueue[k] \in {HabitBlock(n) : n \in answered}
  BY <1>1 DEF Loads, Holds, Range
<1>4. mainQueue # <<>> => Head(mainQueue) \in {HabitBlock(n) : n \in answered}
  BY <1>1, TailHolds DEF Loads
<1> QED
  BY <1>2, <1>3, <1>4, CallsOfRows

(* When the last document has arrived the list is that of the documents. *)
LEMMA LoadedIsListing ==
    ASSUME NEW count \in Nat, Loading(count), reads = <<>>, mainQueue = <<>>,
           NEW E, habitArray \in Seq(E)
    PROVE  /\ habitArray = Listing(docs, count)
           /\ count # 0 => shown = count /\ habitArray # <<>>
<1>1. PICK asked, answered, listed \in SUBSET (0..(count - 1)) :
         Loads(count, asked, answered, listed)
  BY DEF Loading
<1>2. Range(reads) = {} /\ Range(mainQueue) = {}
  BY EmptyHolds
<1>3. asked = {} /\ answered = {}
  <2>1. {HabitCall(n) : n \in asked} = {} /\ {HabitBlock(n) : n \in answered} = {}
    BY <1>1, <1>2 DEF Loads, Holds
  <2> QED
    BY <2>1
<1>4. listed = 0..(count - 1)
  BY <1>1, <1>3 DEF Loads
<1>5. Sorted(habitArray) /\ DOMAIN habitArray = 1..Len(habitArray)
  BY <1>1 DEF Loads
<1>6. ASSUME NEW i \in DOMAIN habitArray
      PROVE  \E m \in listed : habitArray[i] = Placed(m, docs[m])
  <2>1. habitArray[i] \in Range(habitArray)
    BY DEF Range
  <2> QED
    BY <1>1, <2>1 DEF Loads
<1>7. ASSUME NEW m \in listed
      PROVE  \E i \in DOMAIN habitArray : habitArray[i] = Placed(m, docs[m])
  <2>1. Placed(m, docs[m]) \in Range(habitArray)
    BY <1>1 DEF Loads
  <2> QED
    BY <2>1 DEF Range
<1>8. {habitArray[i].habitNumber : i \in DOMAIN habitArray} = 0..(count - 1)
  <2>1. \A m : Placed(m, docs[m]).habitNumber = m
    BY DEF Placed
  <2>2. \A i \in DOMAIN habitArray : habitArray[i].habitNumber \in listed
    BY <1>6, <2>1
  <2>3. \A m \in listed : \E i \in DOMAIN habitArray : habitArray[i].habitNumber = m
    BY <1>7, <2>1
  <2> QED
    BY <1>4, <2>2, <2>3
<1>9. Len(habitArray) = count /\ \A i \in 1..count : habitArray[i].habitNumber = i - 1
  BY <1>5, <1>8, SortedIsListing
<1>10. \A i \in 1..count : habitArray[i] = Placed(i - 1, docs[i - 1])
  <2> TAKE i \in 1..count
  <2>1. PICK m \in listed : habitArray[i] = Placed(m, docs[m])
    BY <1>5, <1>6, <1>9
  <2>2. m = i - 1
    BY <1>9, <2>1 DEF Placed
  <2> QED
    BY <2>1, <2>2
<1>11. habitArray = [i \in 1..count |-> habitArray[i]]
  BY <1>5, <1>9
<1>12. habitArray = Listing(docs, count)
  BY <1>10, <1>11 DEF Listing
<1>13. count # 0 => habitArray # <<>>
  BY <1>9
<1> QED
  BY <1>1, <1>9, <1>12, <1>13 DEF Loads

LEMMA LoadingStays ==
    ASSUME NEW count, Loading(count), UNCHANGED <<docs, habitArray, shown, reads, mainQueue>>
    PROVE  Loading(count)'
<1>1. PICK asked, answered, listed \in SUBSET (0..(count - 1)) :
         Loads(count, asked, answered, listed)
  BY DEF Loading
<1>2. \A n : HabitBlock(n)' = HabitBlock(n) /\ Placed(n, docs'[n]) = Placed(n, docs[n])
  BY DEF HabitBlock
<1>3. /\ {HabitBlock(n)' : n \in answered} = {HabitBlock(n) : n \in answered}
      /\ {Placed(n, docs'[n]) : n \in listed} = {Placed(n, docs[n]) : n \in listed}
  BY <1>2
<1>4. Loads(count, asked, answered, listed)'
  BY <1>1, <1>3 DEF Loads
<1> QED
  BY <1>4 DEF Loading

----------------------------------------------------------------------------
\* From phase to phase

LEMMA FetchStarts ==
    ASSUME FetchWaits, RunFetch
    PROVE  CounterAsked'
BY DEF FetchWaits, RunFetch, StartFetch, CounterAsked

LEMMA CounterIsAnswered ==
    ASSUME CounterAsked, NEW i \in DOMAIN reads, AnswerUser(i),
           NEW count, habitCounter = count
    PROVE  CounterHere(count)'
<1>1. reads = <<CounterCall>> /\ mainQueue = <<>> /\ habitArray = <<>>
  BY DEF CounterAsked
<1>2. i = 1 /\ reads[i] = CounterCall
  BY <1>1
<1>3. reads' = <<>>
  BY <1>1, <1>2, OneRemoved DEF AnswerUser, Answer
<1>4. mainQueue' = <<Block(CounterCall, <<[habitCounter |-> count]>>)>>
  BY <1>1, <1>2 DEF AnswerUser, Answer
<1> QED
  BY <1>1, <1>3, <1>4 DEF AnswerUser, Answer, CounterHere

(* The answer to a fetch's first read asks for every document. *)
LEMMA CounterIsRun ==
    ASSUME NEW count \in Nat, CounterHere(count), RunCounter
    PROVE  Loading(count)'
<1> DEFINE calls == [n \in 1..count |-> HabitCall(n - 1)]
<1>1. /\ reads = <<>> /\ habitArray = <<>> /\ mainQueue # <<>>
      /\ Head(mainQueue).snap = <<[habitCounter |-> count]>>
      /\ Tail(mainQueue) = <<>>
  BY DEF CounterHere, Block
<1>2. localHabitCounter' = count - 1
  <2>1. <<[habitCounter |-> count]>> # <<>>
        /\ <<[habitCounter |-> count]>>[1].habitCounter = count
    OBVIOUS
  <2> QED
    BY <1>1, <2>1 DEF RunCounter
<1>3. /\ reads' = reads \o [n \in 1..(localHabitCounter' + 1) |-> HabitCall(n - 1)]
      /\ mainQueue' = <<>> /\ habitArray' = <<>>
  BY <1>1 DEF RunCounter
<1>4. reads' = calls
  <2>1. localHabitCounter' + 1 = count
    BY <1>2
  <2> DEFINE S == {HabitCall(n - 1) : n \in 1..count}
  <2>2. calls \in Seq(S)
    <3>1. calls \in [1..count -> S]
      OBVIOUS
    <3> HIDE DEF calls, S
    <3> QED
      BY <3>1, SeqDef
  <2> HIDE DEF calls, S
  <2>3. <<>> \o calls = calls
    BY <2>2
  <2> QED
    BY <1>1, <1>3, <2>1, <2>3 DEF calls
<1>5. Holds(calls, {HabitCall(n) : n \in 0..(count - 1)})
  <2>1. \A m, n : HabitCall(m) = HabitCall(n) => m = n
    BY DEF HabitCall
  <2>2. DOMAIN calls = 1..count /\ \A i \in 1..count : calls[i] = HabitCall(i - 1)
    OBVIOUS
  <2> HIDE DEF calls
  <2>3. IsInjective(calls)
    <3> SUFFICES ASSUME NEW a \in DOMAIN calls, NEW b \in DOMAIN calls, calls[a] = calls[b]
                 PROVE  a = b
      BY DEF IsInjective
    <3>1. a - 1 = b - 1
      BY <2>1, <2>2
    <3> QED
      BY <2>2, <3>1
  <2>4. \A i \in DOMAIN calls : calls[i] \in {HabitCall(n) : n \in 0..(count - 1)}
    <3> TAKE i \in DOMAIN calls
    <3>1. i - 1 \in 0..(count - 1)
      BY <2>2
    <3> QED
      BY <2>2, <3>1
  <2>5. ASSUME NEW n \in 0..(count - 1) PROVE \E i \in DOMAIN calls : calls[i] = HabitCall(n)
    <3>1. n + 1 \in DOMAIN calls /\ (n + 1) - 1 = n
      BY <2>2
    <3> QED
      BY <2>2, <3>1
  <2>6. Range(calls) = {HabitCall(n) : n \in 0..(count - 1)}
    BY <2>4, <2>5 DEF Range
  <2> QED
    BY <2>3, <2>6 DEF Holds
<1> HIDE DEF calls
<1>6. Loads(count, 0..(count - 1), {}, {})'
  <2>1. {HabitBlock(n)' : n \in {}} = {} /\ {Placed(n, docs'[n]) : n \in {}} = {}
    OBVIOUS
  <2> QED
    BY <1>3, <1>4, <1>5, <2>1, EmptyHolds DEF Loads
<1> QED
  BY <1>6 DEF Loading

LEMMA HabitIsAnswered ==
    ASSUME NEW count \in Nat, Loading(count), Readable(count),
           NEW S, reads \in Seq(S), NEW T, mainQueue \in Seq(T),
           NEW i \in DOMAIN reads, AnswerHabit(i)
    PROVE  Loading(count)'
<1>1. PICK asked, answered, listed \in SUBSET (0..(count - 1)) :
         Loads(count, asked, answered, listed)
  BY DEF Loading
<1>2. i \in 1..Len(reads)
  OBVIOUS
<1>3. PICK m \in asked : reads[i] = HabitCall(m)
  <2>1. reads[i] \in {HabitCall(n) : n \in asked}
    BY <1>1 DEF Loads, Holds, Range
  <2> QED
    BY <2>1
<1>4. m \in 0..(count - 1) /\ m \notin answered
  BY <1>1 DEF Loads
<1>5. Block(reads[i], Snapshot(docs, reads[i].n)) = HabitBlock(m)
  <2>1. m \in DOMAIN docs /\ reads[i].n = m
    BY <1>3, <1>4, CallsOfRows DEF Readable
  <2> QED
    BY <1>3, <2>1 DEF Snapshot, HabitBlock
<1>6. /\ reads' = RemoveAt(reads, i) /\ mainQueue' = Append(mainQueue, HabitBlock(m))
      /\ UNCHANGED <<docs, habitArray, shown>>
  BY <1>5 DEF AnswerHabit, Answer
<1>7. Holds(reads', {HabitCall(n) : n \in asked \ {m}})
  <2>1. Holds(reads', {HabitCall(n) : n \in asked} \ {HabitCall(m)})
    BY <1>1, <1>2, <1>3, <1>6, RemoveAtHolds DEF Loads
  <2>2. {HabitCall(n) : n \in asked} \ {HabitCall(m)} = {HabitCall(n) : n \in asked \ {m}}
    BY CallsOfRows
  <2> QED
    BY <2>1, <2>2
<1>8. Holds(mainQueue', {HabitBlock(n)' : n \in answered \cup {m}})
  <2>1. HabitBlock(m) \notin {HabitBlock(n) : n \in answered}
    BY <1>4, CallsOfRows
  <2>2. Holds(mainQueue', {HabitBlock(n) : n \in answered} \cup {HabitBlock(m)})
    <3> DEFINE U == T \cup {HabitBlock(m)}
    <3>1. mainQueue \in Seq(U) /\ HabitBlock(m) \in U
      OBVIOUS
    <3>2. Holds(mainQueue, {HabitBlock(n) : n \in answered})
      BY <1>1 DEF Loads
    <3> HIDE DEF U
    <3> QED
      BY <1>6, <2>1, <3>1, <3>2, AppendHolds
  <2>3. \A n : HabitBlock(n)' = HabitBlock(n)
    BY <1>6 DEF HabitBlock
  <2>4. {HabitBlock(n)' : n \in answered \cup {m}} = {HabitBlock(n) : n \in answered} \cup {HabitBlock(m)}
    BY <2>3
  <2> QED
    BY <2>2, <2>4
<1>9. Range(habitArray') = {Placed(n, docs'[n]) : n \in listed}
  <2>1. {Placed(n, docs'[n]) : n \in listed} = {Placed(n, docs[n]) : n \in listed}
    BY <1>6
  <2> QED
    BY <1>1, <1>6, <2>1 DEF Loads
<1>10. Loads(count, asked \ {m}, answered \cup {m}, listed)'
  <2>1. /\ (asked \ {m}) \cup (answered \cup {m}) \cup listed = 0..(count - 1)
        /\ (asked \ {m}) \cap (answered \cup {m}) = {} /\ (asked \ {m}) \cap listed = {}
        /\ (answered \cup {m}) \cap listed = {}
    BY <1>1 DEF Loads
  <2>2. Sorted(habitArray') /\ (habitArray' # <<>> => shown' = Len(habitArray'))
    BY <1>1, <1>6 DEF Loads
  <2> QED
    BY <1>7, <1>8, <1>9, <2>1, <2>2 DEF Loads
<1> QED
  BY <1>4, <1>10 DEF Loading

(* The oldest block of a fetch holds the document of a row. *)
LEMMA HeadWhileLoading ==
    ASSUME NEW count \in Nat, Loading(count), Readable(count),
           NEW T, mainQueue \in Seq(T), mainQueue # <<>>
    PROVE  ~Missing(Head(mainQueue).snap) /\ Head(mainQueue).snap # <<>>
<1>1. PICK asked, answered, listed \in SUBSET (0..(count - 1)) :
         Loads(count, asked, answered, listed)
  BY DEF Loading
<1>2. PICK m \in answered : Head(mainQueue) = HabitBlock(m)
  <2>1. Head(mainQueue) \in {HabitBlock(n) : n \in answered}
    BY <1>1, TailHolds DEF Loads
  <2> QED
    BY <2>1
<1>3. docs[m] # NoDoc
  BY DEF Readable
<1>4. Head(mainQueue).snap = <<docs[m]>>
  BY <1>2, CallsOfRows
<1>5. <<docs[m]>> # <<>> /\ <<docs[m]>>[1] = docs[m]
  OBVIOUS
<1> QED
  BY <1>3, <1>4, <1>5 DEF Missing

(* The answer for row m enters the list in its place. *)
LEMMA HabitIsRun ==
    ASSUME NEW count \in Nat, Loading(count), Readable(count),
           NEW E, habitArray \in Seq(E), \A e \in E : e.habitNumber \in Nat,
           \A n \in 0..(count - 1) : Placed(n, docs[n]) \in E,
           NEW T, mainQueue \in Seq(T), RunHabit
    PROVE  Loading(count)' /\ habitArray' # <<>>
<1> DEFINE b == Head(mainQueue)
<1>1. PICK asked, answered, listed \in SUBSET (0..(count - 1)) :
         Loads(count, asked, answered, listed)
  BY DEF Loading
<1>2. mainQueue # <<>>
  BY DEF RunHabit, Runs
<1>3. b \in {HabitBlock(n) : n \in answered}
      /\ Holds(Tail(mainQueue), {HabitBlock(n) : n \in answered} \ {b})
  BY <1>1, <1>2, TailHolds DEF Loads
<1> HIDE DEF b
<1>4. PICK m \in answered : b = HabitBlock(m)
  BY <1>3
<1> DEFINE entry == Placed(m, docs[m])
<1>5. /\ habitArray' = Insert(habitArray, entry)
      /\ shown' = Len(habitArray') /\ mainQueue' = Tail(mainQueue)
      /\ UNCHANGED <<docs, reads>>
  <2>1. b.call.n = m /\ b.snap = <<docs[m]>> /\ b.snap # <<>> /\ b.snap[1] = docs[m]
    BY <1>4, CallsOfRows
  <2> QED
    BY <2>1 DEF RunHabit, ReloadData, Placed, b
<1>6. entry \in E /\ m \in 0..(count - 1) /\ entry.habitNumber = m
  BY DEF Placed
<1>7. \A i \in DOMAIN habitArray : habitArray[i].habitNumber # entry.habitNumber
  <2> TAKE i \in DOMAIN habitArray
  <2>1. habitArray[i] \in {Placed(n, docs[n]) : n \in listed}
    BY <1>1 DEF Loads, Range
  <2>2. PICK n \in listed : habitArray[i] = Placed(n, docs[n])
    BY <2>1
  <2>3. habitArray[i].habitNumber = n
    BY <2>2 DEF Placed
  <2>4. n # m
    BY <1>1 DEF Loads
  <2> QED
    BY <1>6, <2>3, <2>4
<1> HIDE DEF entry
<1>8. /\ habitArray' \in Seq(E) /\ Sorted(habitArray')
      /\ Len(habitArray') = Len(habitArray) + 1
      /\ Range(habitArray') = Range(habitArray) \cup {entry}
  <2>1. Sorted(habitArray)
    BY <1>1 DEF Loads
  <2> QED
    BY <1>5, <1>6, <1>7, <2>1, InsertSorted
<1>9. Loads(count, asked, answered \ {m}, listed \cup {m})'
  <2>1. /\ asked \cup (answered \ {m}) \cup (listed \cup {m}) = 0..(count - 1)
        /\ asked \cap (answered \ {m}) = {} /\ asked \cap (listed \cup {m}) = {}
        /\ (answered \ {m}) \cap (listed \cup {m}) = {}
    BY <1>1, <1>6 DEF Loads
  <2>2. Holds(reads', {HabitCall(n) : n \in asked})
    BY <1>1, <1>5 DEF Loads
  <2>3. {HabitBlock(n) : n \in answered} \ {b} = {HabitBlock(n) : n \in answered \ {m}}
    BY <1>4, CallsOfRows
  <2>4. \A n : HabitBlock(n)' = HabitBlock(n) /\ Placed(n, docs'[n]) = Placed(n, docs[n])
    BY <1>5 DEF HabitBlock
  <2>5. {HabitBlock(n)' : n \in answered \ {m}} = {HabitBlock(n) : n \in answered \ {m}}
    BY <2>4
  <2>6. Holds(mainQueue', {HabitBlock(n)' : n \in answered \ {m}})
    BY <1>3, <1>5, <2>3, <2>5
  <2>7. Range(habitArray') = {Placed(n, docs'[n]) : n \in listed \cup {m}}
    <3>1. Range(habitArray) = {Placed(n, docs[n]) : n \in listed}
      BY <1>1 DEF Loads
    <3>2. {Placed(n, docs'[n]) : n \in listed \cup {m}} = {Placed(n, docs[n]) : n \in listed \cup {m}}
      BY <2>4
    <3>3. {Placed(n, docs[n]) : n \in listed \cup {m}} = {Placed(n, docs[n]) : n \in listed} \cup {Placed(m, docs[m])}
      OBVIOUS
    <3> QED
      BY <1>8, <3>1, <3>2, <3>3 DEF entry
  <2> QED
    BY <1>5, <1>8, <2>1, <2>2, <2>6, <2>7 DEF Loads
<1>10. habitArray' # <<>>
  BY <1>8
<1> QED
  BY <1>6, <1>9, <1>10 DEF Loading
============================================================================
