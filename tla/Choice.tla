-------------------------------- MODULE Choice -------------------------------
(****************************************************************************)
(* What choosing records to post promises, from one emptying of the choice  *)
(* to the next, until a record that is chosen is touched again: the choice  *)
(* is a sequence of different ids in the order they were touched, and what  *)
(* is posted is that sequence, once, and stays chosen.                      *)
(****************************************************************************)
EXTENDS Naturals, Sequences

CONSTANTS
    Ids,                \* the ids of records
    Most                \* how many can be chosen

VARIABLES
    chosen,             \* the ids chosen, in their order
    posted              \* the ids of the records last posted

vars == <<chosen, posted>>

Init == chosen = <<>> /\ posted = <<>>

\* A full choice stays as it is.
Add(c, id) == IF Len(c) < Most THEN Append(c, id) ELSE c

New(c) == {id \in Ids : \A i \in DOMAIN c : c[i] # id}

\* A touch on a row, or on the line between two rows.
Choose ==
    /\ \E id \in New(chosen) :
         \/ chosen' = Add(chosen, id)
         \/ \E next \in New(chosen) \ {id} : chosen' = Add(Add(chosen, id), next)
    /\ UNCHANGED posted

Clear == chosen' = <<>> /\ UNCHANGED posted

Post == posted' = chosen /\ UNCHANGED chosen

Next == Choose \/ Clear \/ Post

Spec == Init /\ [][Next]_vars
==============================================================================
