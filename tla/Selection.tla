----------------------------- MODULE Selection ------------------------------
(***************************************************************************)
(* List comprehensions with a condition, [x for x in xs if ...], as the    *)
(* planner and the prompt builder use them: the elements at some of the    *)
(* positions of a list, in the order of the list.                          *)
(***************************************************************************)
EXTENDS Integers, Sequences

\* After each i turns of the loop: the elements taken so far.
Kept(list, at) ==
    LET kept[i \in 0..Len(list)] ==
            IF i = 0 THEN <<>>
            ELSE IF i \in at THEN Append(kept[i - 1], list[i]) ELSE kept[i - 1]
    IN  kept

Only(list, at) == Kept(list, at)[Len(list)]
=============================================================================
