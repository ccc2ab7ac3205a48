----------------------------- MODULE HabitStore -----------------------------
(***************************************************************************)
(* What the app promises about the user's habits: they are a list, an add  *)
(* appends to it, an edit changes one habit where it stands, a delete takes *)
(* one out, each in one step, and nothing else changes it.                 *)
(***************************************************************************)
EXTENDS Integers, Sequences, SequencesExt

CONSTANTS Habits, MaxEdits

VARIABLE list

Names == {list[i].habit : i \in DOMAIN list}

Init == list = <<>>

Add ==
    \E h \in Habits \ Names : list' = Append(list, [habit |-> h, edits |-> 0])

Edit ==
    \E i \in DOMAIN list :
        /\ list[i].edits < MaxEdits
        /\ list' = [list EXCEPT ![i].edits = @ + 1]

DeleteOne ==
    \E i \in DOMAIN list : list' = RemoveAt(list, i)

Spec == Init /\ [][Add \/ Edit \/ DeleteOne]_list
=============================================================================
