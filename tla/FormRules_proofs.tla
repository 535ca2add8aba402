-------------------------- MODULE FormRules_proofs ---------------------------
(****************************************************************************)
(* What the rules of a form do to its position, for a form of any width:    *)
(* the lemmas that the proofs about Form and Board rest on.                 *)
(****************************************************************************)
EXTENDS FormRules, TLAPS

\* A form at field k has exactly the fields from k on unconfirmed and, unless
\* all are confirmed, exactly field k selected.
LEMMA AtFieldSets ==
    ASSUME NEW n \in Nat, n >= 2, NEW fs \in [1..n -> Field], NEW k \in 1..(n + 1), AtField(fs, k)
    PROVE  /\ Unconfirmed(fs) = k..n
           /\ Selected(fs) = (IF k = n + 1 THEN {} ELSE {k})
           /\ k # n + 1 => FirstOf(Unconfirmed(fs)) = k /\ FirstOf(Selected(fs)) = k
  <1>1. DOMAIN fs = 1..n
    OBVIOUS
  <1>2. \A i \in 1..n : (fs[i].ok <=> i < k) /\ (fs[i].sel <=> i = k)
    BY <1>1 DEF AtField
  <1>3. Unconfirmed(fs) = k..n
    BY <1>1, <1>2 DEF Unconfirmed
  <1>4. Selected(fs) = (IF k = n + 1 THEN {} ELSE {k})
    BY <1>1, <1>2 DEF Selected
  <1>5. ASSUME k # n + 1
        PROVE  FirstOf(Unconfirmed(fs)) = k /\ FirstOf(Selected(fs)) = k
    <2>1. FirstOf(k..n) = k
      BY <1>5 DEF FirstOf
    <2>2. FirstOf({k}) = k
      BY DEF FirstOf
    <2> QED BY <1>3, <1>4, <1>5, <2>1, <2>2
  <1> QED BY <1>3, <1>4, <1>5

\* '#' moves a form from field k to field k + 1.
LEMMA ConfirmMoves ==
    ASSUME NEW n \in Nat, n >= 2, NEW fs \in [1..n -> Field], NEW k \in 1..n, AtField(fs, k)
    PROVE  /\ Confirm(fs) \in [1..n -> Field]
           /\ AtField(Confirm(fs), k + 1)
  <1>1. DOMAIN fs = 1..n
    OBVIOUS
  <1>2. k \in 1..(n + 1) /\ k # n + 1
    OBVIOUS
  <1>3. Selected(fs) # {} /\ FirstOf(Selected(fs)) = k
    BY <1>2, AtFieldSets
  <1>4. Confirm(fs) = [j \in 1..n |->
                         IF j = k THEN [sel |-> FALSE, ok |-> TRUE]
                         ELSE IF j = k + 1 THEN [sel |-> TRUE, ok |-> fs[j].ok]
                         ELSE fs[j]]
    BY <1>1, <1>3 DEF Confirm
  <1>5. Confirm(fs) \in [1..n -> Field]
    BY <1>4 DEF Field
  <1>6. \A i \in 1..n : (fs[i].ok <=> i < k) /\ (fs[i].sel <=> i = k)
    BY <1>1 DEF AtField
  <1>7. ASSUME NEW i \in 1..n
        PROVE  (Confirm(fs)[i].ok <=> i < k + 1) /\ (Confirm(fs)[i].sel <=> i = k + 1)
    BY <1>4, <1>6 DEF Field
  <1> QED BY <1>5, <1>7 DEF AtField

\* '*' moves a form that it does not leave from field k to field k - 1.
LEMMA StepBackMoves ==
    ASSUME NEW n \in Nat, n >= 2, NEW fs \in [1..n -> Field], NEW k \in 2..(n + 1), AtField(fs, k)
    PROVE  /\ StepBack(fs) \in [1..n -> Field]
           /\ AtField(StepBack(fs), k - 1)
  <1>1. DOMAIN fs = 1..n /\ k \in 1..(n + 1)
    OBVIOUS
  <1>2. \A i \in 1..n : (fs[i].ok <=> i < k) /\ (fs[i].sel <=> i = k)
    BY <1>1 DEF AtField
  <1>3. Unconfirmed(fs) = k..n
    BY <1>1, AtFieldSets
  <1>4. CASE k = n + 1
    <2>1. AllConfirmed(fs)
      BY <1>3, <1>4 DEF AllConfirmed
    <2>2. StepBack(fs) = [j \in 1..n |->
                            IF j + 1 \in 1..n THEN fs[j] ELSE [sel |-> TRUE, ok |-> FALSE]]
      BY <1>1, <2>1 DEF StepBack
    <2>3. StepBack(fs) \in [1..n -> Field]
      BY <2>2 DEF Field
    <2>4. ASSUME NEW i \in 1..n
          PROVE  (StepBack(fs)[i].ok <=> i < k - 1) /\ (StepBack(fs)[i].sel <=> i = k - 1)
      BY <1>2, <1>4, <2>2 DEF Field
    <2> QED BY <2>3, <2>4 DEF AtField
  <1>5. CASE k # n + 1
    <2>1. ~ AllConfirmed(fs) /\ FirstOf(Unconfirmed(fs)) = k
      BY <1>1, <1>3, <1>5, AtFieldSets DEF AllConfirmed
    <2>2. StepBack(fs) = [j \in 1..n |->
                            IF j = k - 1 THEN [sel |-> TRUE, ok |-> FALSE]
                            ELSE IF j = k THEN [sel |-> FALSE, ok |-> fs[j].ok]
                            ELSE fs[j]]
      BY <1>1, <2>1 DEF StepBack
    <2>3. StepBack(fs) \in [1..n -> Field]
      BY <2>2 DEF Field
    <2>4. ASSUME NEW i \in 1..n
          PROVE  (StepBack(fs)[i].ok <=> i < k - 1) /\ (StepBack(fs)[i].sel <=> i = k - 1)
      BY <1>2, <1>5, <2>2 DEF Field
    <2> QED BY <2>3, <2>4 DEF AtField
  <1> QED BY <1>4, <1>5

\* Opening a form puts it at its first field.
LEMMA FreshAtFirst ==
    ASSUME NEW n \in Nat, n >= 2
    PROVE  Fresh(n) \in [1..n -> Field] /\ AtField(Fresh(n), 1)
  <1>1. ASSUME NEW i \in 1..n
        PROVE  (Fresh(n)[i].ok <=> i < 1) /\ (Fresh(n)[i].sel <=> i = 1)
    BY DEF Fresh
  <1>2. Fresh(n) \in [1..n -> Field]
    BY DEF Fresh, Field
  <1>3. DOMAIN Fresh(n) = 1..n
    BY DEF Fresh
  <1> QED BY <1>1, <1>2, <1>3 DEF AtField

\* The first unconfirmed field of a form is where it stands.
LEMMA PosAtField ==
    ASSUME NEW n \in Nat, n >= 2, NEW fs \in [1..n -> Field], NEW k \in 1..(n + 1), AtField(fs, k)
    PROVE  (IF AllConfirmed(fs) THEN n + 1 ELSE FirstOf(Unconfirmed(fs))) = k
  <1>1. AllConfirmed(fs) <=> k = n + 1
    BY AtFieldSets DEF AllConfirmed
  <1> QED BY <1>1, AtFieldSets
==============================================================================
