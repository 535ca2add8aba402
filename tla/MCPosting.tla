------------------------------- MODULE MCPosting -----------------------------
(* Posting with two rows, two visits, two connections and a clock that wraps. *)
EXTENDS Posting
==============================================================================
