------------------------------ MODULE MCHistory ------------------------------
(* Instances of History: a page of two rows, a list of two slots, files of
   two or three records with ids that may repeat. *)
EXTENDS History, TLC

Symm == Permutations(Names) \cup Permutations(Ids)
==============================================================================
