------------------------------- MODULE Delivery ------------------------------
(****************************************************************************)
(* What posting the chosen records promises: on each visit to the page the  *)
(* rows are taken in their order, each gets one result, and each record is  *)
(* stored by the server at most once, after the row was begun and maybe     *)
(* long after its result is shown.                                          *)
(****************************************************************************)
EXTENDS Naturals

CONSTANTS Rows, Visits

Sends == (1..Visits) \X (1..Rows)

VARIABLES
    visit,              \* the visits there have been
    row,                \* the row being posted; Rows + 1 at the end, 0 before
    begun,              \* the visits and rows begun so far
    stored              \* how often the server has stored the record of each

vars == <<visit, row, begun, stored>>

Init == visit = 0 /\ row = 0 /\ begun = {} /\ stored = [d \in Sends |-> 0]

Visit ==
    /\ row \in {0, Rows + 1} /\ visit < Visits
    /\ visit' = visit + 1 /\ row' = 1
    /\ UNCHANGED <<begun, stored>>

Begin ==
    /\ row \in 1..Rows /\ <<visit, row>> \notin begun
    /\ begun' = begun \cup {<<visit, row>>}
    /\ UNCHANGED <<visit, row, stored>>

\* The row has its result, whether its record was ever begun or not.
Show == row \in 1..Rows /\ row' = row + 1 /\ UNCHANGED <<visit, begun, stored>>

Store ==
    /\ \E d \in begun : stored[d] = 0 /\ stored' = [stored EXCEPT ![d] = 1]
    /\ UNCHANGED <<visit, row, begun>>

PowerCycle == row' = 0 /\ UNCHANGED <<visit, begun, stored>>

Next == Visit \/ Begin \/ Show \/ Store \/ PowerCycle

Spec == Init /\ [][Next]_vars
==============================================================================
