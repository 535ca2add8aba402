----------------------------- MODULE Form_proofs -----------------------------
(****************************************************************************)
(* The form of every width: its flags always describe one position, a       *)
(* confirmed text is final, and it implements the abstract Wizard.  With    *)
(* the keypad in front of it the form takes the same steps, one per press.  *)
(* The on-screen keyboard, which the forms share, is at the end.            *)
(****************************************************************************)
EXTENDS FormKeys, Keyboard, FormRules_proofs, FiniteSetTheorems, WellFoundedInduction

------------------------------------------------------------------------------
IInv == TypeOK /\ OnePosition

LEMMA InitInv == Init => IInv
  BY FreshAtFirst, NAssumption DEF Init, IInv, TypeOK, OnePosition

LEMMA NextInv == IInv /\ [Next]_vars => IInv'
  <1> SUFFICES ASSUME IInv, [Next]_vars PROVE IInv'
    OBVIOUS
  <1> PICK k \in 1..(N + 1) : AtField(fields, k)
    BY DEF IInv, OnePosition
  <1> USE NAssumption DEF IInv, TypeOK, OnePosition
  <1>1. CASE Type
    BY <1>1, TextsAssumption DEF Type
  <1>2. CASE Hash
    <2>1. CASE Submits(fields)
      BY <1>2, <2>1 DEF Hash
    <2>2. CASE ~ Submits(fields)
      <3>1. k # N + 1
        BY <2>2, AtFieldSets DEF Submits, AllConfirmed
      <3>2. k \in 1..N /\ k + 1 \in 1..(N + 1)
        BY <3>1
      <3> QED BY <1>2, <2>2, <3>2, ConfirmMoves DEF Hash
    <2> QED BY <2>1, <2>2
  <1>3. CASE Star
    <2>1. CASE Leaves(fields)
      BY <1>3, <2>1 DEF Star
    <2>2. CASE ~ Leaves(fields)
      <3>1. k # 1
        BY <2>2 DEF Leaves, AtField
      <3>2. k \in 2..(N + 1) /\ k - 1 \in 1..(N + 1)
        BY <3>1
      <3> QED BY <1>3, <2>2, <3>2, StepBackMoves DEF Star
    <2> QED BY <2>1, <2>2
  <1>4. CASE TouchReturn
    BY <1>4 DEF TouchReturn
  <1>5. CASE TouchConnect
    BY <1>5 DEF TouchConnect
  <1>6. CASE Open
    BY <1>6, FreshAtFirst DEF Open
  <1>7. CASE UNCHANGED vars
    BY <1>7 DEF vars
  <1> QED BY <1>1, <1>2, <1>3, <1>4, <1>5, <1>6, <1>7 DEF Next

\* Every reachable form is well typed and at exactly one position, for every
\* number of fields (drawKeyboard... '#' and '*' chains).
THEOREM FormAtOnePosition == Spec => [](TypeOK /\ OnePosition)
  <1>1. Spec => []IInv
    BY InitInv, NextInv, PTL DEF Spec
  <1> QED BY <1>1, PTL DEF IInv

\* While a form is open no key changes the text of a field that stays
\* confirmed (the tests of config...[1] and [2] around every append).
THEOREM ConfirmedTextIsFinal == Spec => ConfirmedIsFinal
  <1>1. ASSUME IInv, [Next]_vars,
               NEW i \in 1..N, outcome = "editing", fields[i].ok, fields'[i].ok
        PROVE  text'[i] = text[i]
    <2>1. i \notin Typing(fields)
      BY <1>1 DEF Typing, IInv, TypeOK
    <2>2. CASE Type
      BY <2>1, <2>2 DEF Type
    <2>3. CASE Hash \/ Star \/ TouchReturn \/ TouchConnect \/ UNCHANGED vars
      BY <2>3 DEF Hash, Star, TouchReturn, TouchConnect, vars
    <2>4. CASE Open
      BY <1>1, <2>4 DEF Open
    <2> QED BY <1>1, <2>2, <2>3, <2>4 DEF Next
  <1>2. IInv /\ [Next]_vars
          => [\A i \in 1..N : (outcome = "editing" /\ fields[i].ok /\ fields'[i].ok)
                 => text'[i] = text[i]]_vars
    BY <1>1
  <1>3. Spec => []IInv
    BY InitInv, NextInv, PTL DEF Spec
  <1> QED BY <1>2, <1>3, PTL DEF Spec, ConfirmedIsFinal

\* A key press changes the text of at most one field: the two (four) separate
\* tests of the append never hold for two fields at once.
THEOREM OneKeyOneField == Spec => OneFieldPerKey
  <1>1. ASSUME IInv, [Next]_vars, outcome = "editing",
               NEW i \in 1..N, NEW j \in 1..N, text'[i] # text[i], text'[j] # text[j]
        PROVE  i = j
    <2>1. PICK k \in 1..(N + 1) : AtField(fields, k)
      BY <1>1 DEF IInv, OnePosition
    <2>2. \A m \in Typing(fields) : m = k
      BY <1>1, <2>1 DEF Typing, AtField, IInv, TypeOK
    <2>3. CASE Type
      BY <1>1, <2>2, <2>3 DEF Type
    <2>4. CASE Hash \/ Star \/ TouchReturn \/ TouchConnect \/ UNCHANGED vars
      BY <1>1, <2>4 DEF Hash, Star, TouchReturn, TouchConnect, vars
    <2>5. CASE Open
      BY <1>1, <2>5 DEF Open
    <2> QED BY <1>1, <2>3, <2>4, <2>5 DEF Next
  <1>2. IInv /\ [Next]_vars
          => [outcome = "editing" =>
                \A i, j \in 1..N : (text'[i] # text[i] /\ text'[j] # text[j]) => i = j]_vars
    BY <1>1
  <1>3. Spec => []IInv
    BY InitInv, NextInv, PTL DEF Spec
  <1> QED BY <1>2, <1>3, PTL DEF Spec, OneFieldPerKey

------------------------------------------------------------------------------
\* The refinement mapping: a form at field k is the abstract form at k.
LEMMA InitMaps == Init => W!Init
  <1> SUFFICES ASSUME Init PROVE W!Init
    OBVIOUS
  <1>1. pos = 1
    BY FreshAtFirst, PosAtField, NAssumption DEF Init, pos
  <1> QED BY <1>1 DEF Init, W!Init

LEMMA NextMaps == IInv /\ [Next]_vars => [W!Next]_W!vars
  <1> SUFFICES ASSUME IInv, [Next]_vars PROVE [W!Next]_W!vars
    OBVIOUS
  <1>0. PICK k \in 1..(N + 1) : AtField(fields, k)
    BY DEF IInv, OnePosition
  <1>a. pos = k
    BY <1>0, PosAtField, NAssumption DEF IInv, TypeOK, pos
  <1>b. UNCHANGED fields => UNCHANGED pos
    BY DEF pos
  <1>1. CASE Type
    BY <1>1, <1>b DEF Type, W!vars
  <1>2. CASE Hash
    <2>1. CASE Submits(fields)
      <3>1. k = N + 1
        BY <2>1, <1>0, AtFieldSets, NAssumption DEF IInv, TypeOK, Submits, AllConfirmed
      <3> QED BY <1>2, <1>a, <1>b, <2>1, <3>1 DEF Hash, W!Next, W!Submit
    <2>2. CASE ~ Submits(fields)
      <3>1. k \in 1..N /\ k + 1 \in 1..(N + 1)
        BY <1>0, <2>2, AtFieldSets, NAssumption DEF IInv, TypeOK, Submits, AllConfirmed
      <3>2. fields' \in [1..N -> Field] /\ AtField(fields', k + 1)
        BY <1>0, <1>2, <2>2, <3>1, ConfirmMoves, NAssumption DEF IInv, TypeOK, Hash
      <3>3. pos' = k + 1
        BY <3>1, <3>2, PosAtField, NAssumption DEF pos
      <3> QED BY <1>2, <1>a, <2>2, <3>1, <3>3 DEF Hash, W!Next, W!Forward
    <2> QED BY <2>1, <2>2
  <1>3. CASE Star
    <2>1. CASE Leaves(fields)
      <3>1. k = 1
        BY <1>0, <2>1, NAssumption DEF IInv, TypeOK, Leaves, AtField
      <3> QED BY <1>3, <1>a, <1>b, <2>1, <3>1 DEF Star, W!Next, W!Cancel
    <2>2. CASE ~ Leaves(fields)
      <3>1. k \in 2..(N + 1) /\ k - 1 \in 1..(N + 1)
        BY <1>0, <2>2, NAssumption DEF IInv, TypeOK, Leaves, AtField
      <3>2. fields' \in [1..N -> Field] /\ AtField(fields', k - 1)
        BY <1>0, <1>3, <2>2, <3>1, StepBackMoves, NAssumption DEF IInv, TypeOK, Star
      <3>3. pos' = k - 1
        BY <3>1, <3>2, PosAtField, NAssumption DEF pos
      <3> QED BY <1>3, <1>a, <2>2, <3>1, <3>3 DEF Star, W!Next, W!Backward
    <2> QED BY <2>1, <2>2
  <1>4. CASE TouchReturn
    BY <1>4, <1>b DEF TouchReturn, W!Next, W!CancelByTouch
  <1>5. CASE TouchConnect
    BY <1>5, <1>b DEF TouchConnect, W!Next, W!SubmitEarly
  <1>6. CASE Open
    <2>1. pos' = 1
      BY <1>6, FreshAtFirst, PosAtField, NAssumption DEF Open, pos
    <2> QED BY <1>6, <2>1 DEF Open, W!Next, W!Reopen
  <1>7. CASE UNCHANGED vars
    BY <1>7, <1>b DEF vars, W!vars
  <1> QED BY <1>1, <1>2, <1>3, <1>4, <1>5, <1>6, <1>7 DEF Next

\* The flags of TFT.h implement a cursor over the fields of the form.
THEOREM FormImplementsWizard == Spec => ImplementsWizard
  <1>1. Spec => []IInv
    BY InitInv, NextInv, PTL DEF Spec
  <1> QED BY <1>1, InitMaps, NextMaps, PTL DEF Spec, ImplementsWizard, W!Spec

------------------------------------------------------------------------------
\* A form behind the keypad driver is a form: whatever the keys do, the pair
\* of them takes no step the form alone could not (getKeyPad and the chains on
\* its result), so the theorems above hold of it.
THEOREM KeysImplementForm == KeysSpec => Spec
  <1>1. KeysInit => Init
    BY DEF KeysInit
  <1>2. [KeysNext]_keysVars => [Next]_vars
    <2>1. Pass => [Next]_vars
      BY DEF Pass, Handled, Next
    <2>2. Screen => [Next]_vars
      BY DEF Screen, Next
    <2>3. Hands => [Next]_vars
      BY DEF Hands
    <2> QED BY <2>1, <2>2, <2>3 DEF KeysNext, keysVars, vars
  <1> QED BY <1>1, <1>2, PTL DEF KeysSpec, Spec

\* A key the driver has reported and not seen up since is still on its list, as
\* PRESSED or HOLD, and so it is not new to the next scan.
Held(k) == \E i \in 1..Slots : list[i].code = k /\ list[i].kstate \in {"PRESSED", "HOLD"}

HeldInv ==
    /\ down \subseteq Codes /\ opened \subseteq Codes
    /\ \A k \in Codes \ opened : Held(k)

LEMMA HeldInit == KeysInit => HeldInv
  BY DEF KeysInit, KeypadInit, HeldInv

LEMMA ReportedIsNew == Reported = NoKey \/ Reported \in New
  <1>1. CASE list[1] = Free /\ Updated(1).kstate = "PRESSED"
    <2>1. PICK k \in New : Takes(1, k)
      BY <1>1 DEF Updated, Free
    <2>2. Updated(1).code \in New
      BY <1>1, <2>1 DEF Updated
    <2> QED BY <1>1, <2>2 DEF Reported
  <1> QED BY <1>1 DEF Reported

LEMMA ScanHolds == HeldInv /\ Scan => HeldInv'
  <1> SUFFICES ASSUME HeldInv, Scan PROVE HeldInv'
    OBVIOUS
  <1>1. down' \subseteq Codes /\ opened' \subseteq Codes
    BY DEF HeldInv, Scan
  <1>2. ASSUME NEW k \in Codes, k \notin opened' PROVE Held(k)'
    <2>1. CASE k = Reported
      <3>1. list[1] = Free /\ Updated(1).kstate = "PRESSED" /\ Updated(1).code = k
        BY <1>2, <2>1, CodesAssumption DEF Reported
      <3>2. list'[1] = Updated(1) /\ 1 \in 1..Slots
        BY SlotsAssumption DEF Scan
      <3>3. list'[1].code = k /\ list'[1].kstate = "PRESSED"
        BY <3>1, <3>2
      <3> QED BY <3>2, <3>3 DEF Held
    <2>2. CASE k # Reported
      <3>1. k \in down /\ k \notin opened
        BY <1>2, <2>2 DEF Scan
      <3>2. PICK i \in 1..Slots : list[i].code = k /\ list[i].kstate \in {"PRESSED", "HOLD"}
        BY <1>2, <3>1 DEF HeldInv, Held
      <3>3. list[i] # Free /\ k # NoKey
        BY <3>2, <1>2, CodesAssumption DEF Free
      <3>4. PICK s \in {"PRESSED", "HOLD"} : NextState(list[i].kstate, TRUE, Late(k)) = s
        BY <3>2 DEF NextState
      <3>5. Updated(i) = [code |-> k, kstate |-> s]
        BY <3>1, <3>2, <3>3, <3>4 DEF Updated, Settled
      <3>6. list'[i] = Updated(i)
        BY DEF Scan
      <3>7. list'[i].code = k /\ list'[i].kstate \in {"PRESSED", "HOLD"}
        BY <3>4, <3>5, <3>6
      <3> QED BY <3>7 DEF Held
    <2> QED BY <2>1, <2>2
  <1> QED BY <1>1, <1>2 DEF HeldInv

LEMMA KeysHold == HeldInv /\ [KeysNext]_keysVars => HeldInv'
  <1> SUFFICES ASSUME HeldInv, [KeysNext]_keysVars PROVE HeldInv'
    OBVIOUS
  <1>1. CASE Pass
    BY <1>1, ScanHolds DEF Pass
  <1>2. CASE Hands
    BY <1>2 DEF Hands, Finger, Elapse, HeldInv, Held
  <1>3. CASE Screen \/ UNCHANGED keysVars
    BY <1>3 DEF Screen, keypadVars, keysVars, HeldInv, Held
  <1> QED BY <1>1, <1>2, <1>3 DEF KeysNext

\* A form steps once per press: only for a key that was seen up since it was
\* last reported (stateChanged and PRESSED in getKey).
THEOREM OneStepPerPress == KeysSpec => PressPerStep
  <1>1. ASSUME HeldInv, [KeysNext]_keysVars,
               <<fields, text>>' # <<fields, text>>, outcome = "editing"
        PROVE  Reported \in opened
    <2>1. Pass
      BY <1>1 DEF KeysNext, Screen, TouchReturn, TouchConnect, Open, Hands, vars, keysVars
    <2>2. Reported # NoKey
      BY <1>1, <2>1, CodesAssumption DEF Pass, Handled, HashKey, StarKey, SKey, vars
    <2>3. Reported \in New
      BY <2>2, ReportedIsNew
    <2> QED BY <1>1, <2>3 DEF New, HeldInv, Held
  <1>2. HeldInv /\ [KeysNext]_keysVars
          => [(<<fields, text>>' # <<fields, text>> /\ outcome = "editing")
                => Reported \in opened]_keysVars
    BY <1>1
  <1>3. KeysSpec => []HeldInv
    BY HeldInit, KeysHold, PTL DEF KeysSpec
  <1> QED BY <1>2, <1>3, PTL DEF KeysSpec, PressPerStep

------------------------------------------------------------------------------
\* The states a key may be in after so many scans without any key down.
Stages == [q \in 0..3 |->
    CASE q = 0 -> {"IDLE", "PRESSED", "HOLD", "RELEASED"}
      [] q = 1 -> {"IDLE", "HOLD", "RELEASED"}
      [] q = 2 -> {"IDLE", "RELEASED"}
      [] q = 3 -> {"IDLE"}]

QuietInv ==
    /\ quiet \in 0..3 /\ down \subseteq Codes
    /\ \A i \in 1..Slots :
         /\ list[i].kstate \in Stages[quiet]
         /\ list[i].kstate = "IDLE" => list[i] = Free

LEMMA QuietInit == KeysInit => QuietInv
  BY DEF KeysInit, KeypadInit, QuietInv, Stages, Free

LEMMA ScanQuiet == QuietInv /\ Scan => QuietInv'
  <1> SUFFICES ASSUME QuietInv, Scan PROVE QuietInv'
    OBVIOUS
  <1>1. quiet' \in 0..3 /\ down' \subseteq Codes
    BY DEF QuietInv, Scan
  <1>2. ASSUME NEW i \in 1..Slots
        PROVE  /\ list'[i].kstate \in Stages[quiet']
               /\ list'[i].kstate = "IDLE" => list'[i] = Free
    <2>0. list'[i] = Updated(i)
      BY DEF Scan
    <2>1. CASE list[i] # Free
      <3> DEFINE s == NextState(list[i].kstate, list[i].code \in down, Late(list[i].code))
      <3>1. s = NextState(list[i].kstate, list[i].code \in down, Late(list[i].code))
        OBVIOUS
      <3>a. list'[i] = Settled(list[i].code, s)
        BY <2>0, <2>1 DEF Updated
      <3> HIDE DEF s
      <3>2. list[i].kstate \in Stages[quiet] /\ list[i].kstate # "IDLE"
        <4>1. /\ list[i].kstate \in Stages[quiet]
              /\ list[i].kstate = "IDLE" => list[i] = Free
          BY DEF QuietInv
        <4> QED BY <2>1, <4>1
      <3>3. s \in Stages[quiet']
        <4>1. CASE down # {}
          <5>1. quiet' = 0
            BY <4>1 DEF Scan
          <5>2. list[i].kstate \in {"PRESSED", "HOLD", "RELEASED"}
            BY <3>2 DEF QuietInv, Stages
          <5> QED BY <3>1, <5>1, <5>2 DEF NextState, Stages
        <4>2. CASE down = {}
          <5>1. quiet' = IF quiet = 3 THEN 3 ELSE quiet + 1
            BY <4>2 DEF Scan
          <5>2. ~ (list[i].code \in down)
            BY <4>2
          <5>3. CASE list[i].kstate = "RELEASED"
            <6>1. s = "IDLE"
              BY <3>1, <5>2, <5>3 DEF NextState
            <6> QED BY <5>1, <6>1 DEF QuietInv, Stages
          <5>4. CASE list[i].kstate = "HOLD"
            <6>1. s = "RELEASED" /\ quiet \in {0, 1}
              BY <3>1, <3>2, <5>2, <5>4 DEF NextState, QuietInv, Stages
            <6> QED BY <5>1, <6>1 DEF Stages
          <5>5. CASE list[i].kstate = "PRESSED"
            <6>1. s \in {"HOLD", "RELEASED"} /\ quiet = 0
              BY <3>1, <3>2, <5>2, <5>5 DEF NextState, QuietInv, Stages
            <6> QED BY <5>1, <6>1 DEF Stages
          <5>6. list[i].kstate \in {"IDLE", "PRESSED", "HOLD", "RELEASED"}
            BY <3>2 DEF QuietInv, Stages
          <5> QED BY <3>2, <5>3, <5>4, <5>5, <5>6
        <4> QED BY <4>1, <4>2
      <3>5. CASE s = "IDLE"
        <4>1. list'[i] = Free /\ Free.kstate = s
          BY <3>a, <3>5 DEF Settled, Free
        <4> QED BY <3>3, <4>1
      <3>6. CASE s # "IDLE"
        <4>1. list'[i].kstate = s
          BY <3>a, <3>6 DEF Settled
        <4> QED BY <3>3, <3>6, <4>1
      <3> QED BY <3>5, <3>6
    <2>2. CASE list[i] = Free /\ down # {}
      <3>1. quiet' = 0
        BY <2>2 DEF Scan
      <3>2. PICK k : Updated(i) = Free \/ Updated(i) = [code |-> k, kstate |-> "PRESSED"]
        BY <2>2 DEF Updated
      <3> QED BY <2>0, <3>1, <3>2 DEF Stages, Free
    <2>3. CASE list[i] = Free /\ down = {}
      <3>1. Updated(i) = Free
        BY <2>3 DEF Updated, Takes, New
      <3> QED BY <1>1, <2>0, <3>1 DEF Stages, Free
    <2> QED BY <2>1, <2>2, <2>3
  <1> QED BY <1>1, <1>2 DEF QuietInv

LEMMA KeysQuiet == QuietInv /\ [KeysNext]_keysVars => QuietInv'
  <1> SUFFICES ASSUME QuietInv, [KeysNext]_keysVars PROVE QuietInv'
    OBVIOUS
  <1>1. CASE Pass
    BY <1>1, ScanQuiet DEF Pass
  <1>2. CASE Hands
    BY <1>2 DEF Hands, Finger, Elapse, QuietInv, Free
  <1>3. CASE Screen \/ UNCHANGED keysVars
    BY <1>3 DEF Screen, keypadVars, keysVars, QuietInv, Free
  <1> QED BY <1>1, <1>2, <1>3 DEF KeysNext

\* Every set of codes that is not empty has a first one.
LEMMA FirstCode ==
    ASSUME NEW S, S \subseteq Nat, S # {}
    PROVE  FirstOf(S) \in S /\ \A j \in S : FirstOf(S) <= j
  <1> DEFINE R == OpToRel(<, Nat)
  <1>1. PICK i \in S : \A j \in S : ~ (<<j, i>> \in R)
    <2>1. IsWellFoundedOn(R, Nat)
      BY NatLessThanWellFounded
    <2> HIDE DEF R
    <2> QED BY <2>1, WFMin
  <1>2. \A j \in S : j < i => <<j, i>> \in R
    BY DEF OpToRel
  <1> HIDE DEF R
  <1>3. \A j \in S : ~ (j < i)
    BY <1>1, <1>2
  <1>4. \A j \in S : i <= j
    BY <1>3
  <1> QED BY <1>4 DEF FirstOf

\* With an empty list the first key that is down takes the first slot.
LEMMA FirstTakesSlot ==
    ASSUME QuietInv, quiet = 3, down # {}
    PROVE  Reported = FirstOf(down)
  <1> DEFINE f == FirstOf(down)
  <1>1. \A i \in 1..Slots : list[i] = Free
    <2>1. Stages[3] = {"IDLE"}
      BY DEF Stages
    <2>2. \A i \in 1..Slots : list[i].kstate \in {"IDLE"}
      BY <2>1 DEF QuietInv
    <2> QED BY <2>2 DEF QuietInv
  <1>2. 1 \in 1..Slots
    BY SlotsAssumption
  <1>3. New = down /\ down \subseteq Nat
    <2>1. down \subseteq Nat /\ NoKey \notin down
      BY CodesAssumption DEF QuietInv
    <2> QED BY <1>1, <2>1 DEF New, Free
  <1>4. f \in down /\ \A c \in down : f <= c
    BY <1>3, FirstCode
  <1> HIDE DEF f
  <1>5. {j \in 1..(1 - 1) : list[j] = Free} = {}
    OBVIOUS
  <1>6. \A k \in down : Takes(1, k) <=> {c \in down : c < k} = {}
    <2> TAKE k \in down
    <2>0. k \in Nat /\ \A c \in down : c \in Nat
      BY <1>3
    <2>a. \A c \in down : c < k => c \in 0..k
      BY <2>0
    <2>1. {c \in down : c < k} \in SUBSET (0..k)
      BY <2>a
    <2>2. IsFiniteSet({c \in down : c < k})
      <3>1. IsFiniteSet(0..k)
        BY <2>0, FS_Interval
      <3> QED BY <2>1, <3>1, FS_Subset
    <2>3. Cardinality({c \in down : c < k}) = 0 <=> {c \in down : c < k} = {}
      BY <2>2, FS_EmptySet
    <2> QED BY <1>1, <1>2, <1>3, <1>5, <2>3, FS_EmptySet DEF Takes
  <1>7. \A k \in down : Takes(1, k) <=> k = f
    <2> TAKE k \in down
    <2>0. k \in Nat /\ f \in Nat /\ \A c \in down : c \in Nat
      BY <1>3, <1>4
    <2>a. \A c \in down : ~ (c < k) <=> k <= c
      BY <2>0
    <2>1. {c \in down : c < k} = {} <=> \A c \in down : k <= c
      BY <2>a
    <2>2. (\A c \in down : k <= c) <=> k = f
      BY <1>4, <2>0
    <2> QED BY <1>6, <2>1, <2>2
  <1>8. Updated(1) = [code |-> f, kstate |-> "PRESSED"]
    BY <1>1, <1>2, <1>3, <1>4, <1>7 DEF Updated
  <1> QED BY <1>1, <1>2, <1>8 DEF Reported, f

\* After three scans without a key the next key down is heard, whatever was
\* held, for how long and on which page before (slot 0 of the key list).
THEOREM ReadyAfterQuiet == KeysSpec => FirstPressHeard
  <1>1. QuietInv /\ [KeysNext]_keysVars
          => [(Pass /\ quiet = 3 /\ down # {}) => Reported = FirstOf(down)]_keysVars
    BY FirstTakesSlot
  <1>2. KeysSpec => []QuietInv
    BY QuietInit, KeysQuiet, PTL DEF KeysSpec
  <1> QED BY <1>1, <1>2, PTL DEF KeysSpec, FirstPressHeard

------------------------------------------------------------------------------
(* The on-screen keyboard, shared by the text forms and the calibration page.*)

\* Every arrow key leads from a key to a key of the same alphabet.
LEMMA MovesStayOnKeys ==
    ASSUME NEW a \in Alphabets, NEW c \in (0..3) \X (0..9), OnKey(c, a)
    PROVE  \A d \in {Up(c), Down(c, a), Left(c, a), Right(c, a)} :
              d \in (0..3) \X (0..9) /\ OnKey(d, a)
  <1>1. PICK row \in 0..3, col \in 0..9 : c = <<row, col>> /\ col <= LastCol(row, a)
    BY DEF OnKey, LastCol
  <1>2. row = 0 \/ row = 1 \/ row = 2 \/ row = 3
    OBVIOUS
  <1>3. Up(c) \in (0..3) \X (0..9) /\ OnKey(Up(c), a)
    BY <1>1, <1>2 DEF Up, OnKey, LastCol
  <1>4. Down(c, a) \in (0..3) \X (0..9) /\ OnKey(Down(c, a), a)
    BY <1>1, <1>2 DEF Down, OnKey, LastCol
  <1>5. Left(c, a) \in (0..3) \X (0..9) /\ OnKey(Left(c, a), a)
    BY <1>1, <1>2 DEF Left, OnKey, LastCol
  <1>6. Right(c, a) \in (0..3) \X (0..9) /\ OnKey(Right(c, a), a)
    BY <1>1, <1>2 DEF Right, OnKey, LastCol
  <1> QED BY <1>3, <1>4, <1>5, <1>6

\* The alphabet changes only where every alphabet has a key: under the shift
\* and the alphabet key, or for the one with the longest rows.
KeyboardInv == KeyboardTypeOK /\ CursorOnKey

LEMMA KeyboardNextInv == KeyboardInv /\ [KeyboardNext]_keyboardVars => KeyboardInv'
  <1> SUFFICES ASSUME KeyboardInv, [KeyboardNext]_keyboardVars PROVE KeyboardInv'
    OBVIOUS
  <1> USE DEF KeyboardInv, KeyboardTypeOK, CursorOnKey, Alphabets
  <1>1. CASE Move
    BY <1>1, MovesStayOnKeys DEF Move
  <1>2. CASE Shift
    <2>1. forced' \in BOOLEAN
      BY <1>2 DEF Shift, Switch
    <2> QED BY <1>2, <2>1 DEF Shift, ShiftTo, Switch, ShiftKey, OnKey, LastCol
  <1>3. CASE Special
    <2>1. forced' \in BOOLEAN
      BY <1>3 DEF Special, Switch
    <2> QED BY <1>3, <2>1 DEF Special, SpecialTo, Switch, AlphabetKey, OnKey, LastCol
  <1>4. CASE OpenCalibration
    <2>1. forced' \in BOOLEAN
      BY <1>4 DEF OpenCalibration
    <2> QED BY <1>4, <2>1 DEF OpenCalibration, OnKey, LastCol
  <1>5. CASE OpenText \/ Close \/ UNCHANGED keyboardVars
    BY <1>5 DEF OpenText, Close, keyboardVars
  <1> QED BY <1>1, <1>2, <1>3, <1>4, <1>5 DEF KeyboardNext

\* 'S' only ever reads keyAlphabet where the alphabet that is up has a key.
THEOREM KeyboardCursorOnKey == KeyboardSpec => [](KeyboardTypeOK /\ CursorOnKey)
  <1>1. KeyboardInit => KeyboardInv
    <2>1. KeyboardInit => forced \in BOOLEAN
      BY DEF KeyboardInit
    <2> QED BY <2>1 DEF KeyboardInit, KeyboardInv, KeyboardTypeOK, CursorOnKey, OnKey, LastCol, Alphabets
  <1>2. KeyboardSpec => []KeyboardInv
    BY <1>1, KeyboardNextInv, PTL DEF KeyboardSpec
  <1> QED BY <1>2, PTL DEF KeyboardInv

------------------------------------------------------------------------------
\* The key an arrow key leads to, or the key itself.
Arrow(c, a) == {c, Up(c), Down(c, a), Left(c, a), Right(c, a)}

\* The set that EveryKeyNear builds press by press, written out.
Step(S, a) == S \cup {Up(d) : d \in S} \cup {Down(d, a) : d \in S}
                \cup {Left(d, a) : d \in S} \cup {Right(d, a) : d \in S}

\* The recursive function of Reach has the values its definition says.
LEMMA ReachUnfolds ==
    ASSUME NEW c, NEW a
    PROVE  Reach(c, a) = Step(Step(Step(Step(Step(Step({c}, a), a), a), a), a), a)
  <1> DEFINE Is(f) == f = [n \in 0..6 |-> IF n = 0 THEN {c} ELSE Step(f[n - 1], a)]
             r1 == Step({c}, a)
             r2 == Step(r1, a)
             r3 == Step(r2, a)
             r4 == Step(r3, a)
             r5 == Step(r4, a)
             r6 == Step(r5, a)
             g == [n \in 0..6 |-> CASE n = 0 -> {c} [] n = 1 -> r1 [] n = 2 -> r2
                                    [] n = 3 -> r3 [] n = 4 -> r4 [] n = 5 -> r5
                                    [] n = 6 -> r6]
  <1>1. Reach(c, a) = (CHOOSE f : Is(f))[6]
    BY DEF Reach, Step
  <1> HIDE DEF r1, r2, r3, r4, r5, r6
  <1>2. /\ g[0] = {c} /\ g[1] = r1 /\ g[2] = r2 /\ g[3] = r3
        /\ g[4] = r4 /\ g[5] = r5 /\ g[6] = r6
    OBVIOUS
  <1>3. /\ r1 = Step({c}, a) /\ r2 = Step(r1, a) /\ r3 = Step(r2, a)
        /\ r4 = Step(r3, a) /\ r5 = Step(r4, a) /\ r6 = Step(r5, a)
    BY DEF r1, r2, r3, r4, r5, r6
  <1>4. PICK h : h = g
    OBVIOUS
  <1>5. Is(h)
    <2>1. DOMAIN h = 0..6 /\ h = [n \in 0..6 |-> h[n]]
      BY <1>4
    <2> HIDE DEF g
    <2>2. ASSUME NEW n \in 0..6
          PROVE  h[n] = IF n = 0 THEN {c} ELSE Step(h[n - 1], a)
      <3>1. n \in {0, 1, 2, 3, 4, 5, 6}
        OBVIOUS
      <3> QED BY <1>2, <1>3, <1>4, <3>1
    <2> QED BY <2>1, <2>2
  <1> HIDE DEF Is, g
  <1>6. Is(CHOOSE f : Is(f))
    BY <1>5
  <1>7. PICK r : r = CHOOSE f : Is(f)
    OBVIOUS
  <1>8. \A n \in 0..6 : r[n] = IF n = 0 THEN {c} ELSE Step(r[n - 1], a)
    <2>1. Is(r)
      BY <1>6, <1>7
    <2> QED BY <2>1, Zenon DEF Is
  <1>9. /\ r[0] = {c} /\ r[1] = Step(r[0], a) /\ r[2] = Step(r[1], a)
        /\ r[3] = Step(r[2], a) /\ r[4] = Step(r[3], a) /\ r[5] = Step(r[4], a)
        /\ r[6] = Step(r[5], a)
    BY <1>8
  <1>10. Reach(c, a) = r[6]
    BY <1>1, <1>7
  <1> QED BY <1>9, <1>10

\* A press from one of the positions leads to one of the next positions.
LEMMA ArrowSteps ==
    ASSUME NEW S, NEW a, NEW c \in S, NEW d \in Arrow(c, a)
    PROVE  d \in Step(S, a)
  BY DEF Arrow, Step

\* Six presses, some of which may be left out.
Path(c, x1, x2, x3, x4, x5, d, a) ==
    /\ x1 \in Arrow(c, a) /\ x2 \in Arrow(x1, a) /\ x3 \in Arrow(x2, a)
    /\ x4 \in Arrow(x3, a) /\ x5 \in Arrow(x4, a) /\ d \in Arrow(x5, a)

\* Where six presses lead, EveryKeyNear looks.
LEMMA PathReaches ==
    ASSUME NEW a, NEW c, NEW x1, NEW x2, NEW x3, NEW x4, NEW x5, NEW d,
           Path(c, x1, x2, x3, x4, x5, d, a)
    PROVE  d \in Reach(c, a)
  <1> USE DEF Path
  <1>1. x1 \in Step({c}, a)
    BY ArrowSteps
  <1>2. x2 \in Step(Step({c}, a), a)
    BY <1>1, ArrowSteps
  <1>3. x3 \in Step(Step(Step({c}, a), a), a)
    BY <1>2, ArrowSteps
  <1>4. x4 \in Step(Step(Step(Step({c}, a), a), a), a)
    BY <1>3, ArrowSteps
  <1>5. x5 \in Step(Step(Step(Step(Step({c}, a), a), a), a), a)
    BY <1>4, ArrowSteps
  <1>6. d \in Step(Step(Step(Step(Step(Step({c}, a), a), a), a), a), a)
    BY <1>5, ArrowSteps
  <1> QED BY <1>6, ReachUnfolds

\* Columns i and j of a row of m keys, which closes on itself, are n apart or less.
Apart(i, j, m, n) == i - j \in (0 - n)..n \/ i + m - j <= n \/ j + m - i <= n

\* In a row, one press brings the cursor one key nearer.
LEMMA RowStep ==
    ASSUME NEW a, NEW r \in 0..3, NEW i \in 0..LastCol(r, a), NEW j \in 0..LastCol(r, a),
           NEW n \in 0..4, Apart(i, j, LastCol(r, a) + 1, n + 1)
    PROVE  \E k \in 0..LastCol(r, a) :
              /\ <<r, k>> \in Arrow(<<r, i>>, a)
              /\ Apart(k, j, LastCol(r, a) + 1, n)
  <1>1. PICK l \in {3, 8, 9} : l = LastCol(r, a)
    BY DEF LastCol
  <1>2. i \in 0..l /\ j \in 0..l
    BY <1>1
  <1> DEFINE right == IF i = l THEN 0 ELSE i + 1
             left == IF i = 0 THEN l ELSE i - 1
  <1>3. <<r, i>> \in Arrow(<<r, i>>, a)
    BY DEF Arrow
  <1>4. <<r, right>> \in Arrow(<<r, i>>, a) /\ <<r, left>> \in Arrow(<<r, i>>, a)
    BY <1>1 DEF Arrow, Left, Right
  <1>5. right \in 0..l /\ left \in 0..l
    BY <1>1, <1>2
  <1>6. Apart(i, j, l + 1, n) \/ Apart(right, j, l + 1, n) \/ Apart(left, j, l + 1, n)
    BY <1>1, <1>2 DEF Apart
  <1> QED BY <1>1, <1>2, <1>3, <1>4, <1>5, <1>6

\* No key apart is the same key.
LEMMA RowEnds ==
    ASSUME NEW a, NEW r \in 0..3, NEW i \in 0..LastCol(r, a), NEW j \in 0..LastCol(r, a),
           Apart(i, j, LastCol(r, a) + 1, 0)
    PROVE  i = j
  BY DEF Apart, LastCol

\* Two presses that lead to a row, and four along it.
LEMMA TwoHops ==
    ASSUME NEW a, NEW c, NEW x, NEW r \in 0..3,
           NEW i \in 0..LastCol(r, a), NEW j \in 0..LastCol(r, a),
           x \in Arrow(c, a), <<r, i>> \in Arrow(x, a),
           Apart(i, j, LastCol(r, a) + 1, 4)
    PROVE  <<r, j>> \in Reach(c, a)
  <1>1. 0 \in 0..4 /\ 1 \in 0..4 /\ 2 \in 0..4 /\ 3 \in 0..4
           /\ 3 + 1 = 4 /\ 2 + 1 = 3 /\ 1 + 1 = 2 /\ 0 + 1 = 1
    OBVIOUS
  <1>2. PICK k1 \in 0..LastCol(r, a) :
           <<r, k1>> \in Arrow(<<r, i>>, a) /\ Apart(k1, j, LastCol(r, a) + 1, 3)
    BY <1>1, RowStep
  <1>3. PICK k2 \in 0..LastCol(r, a) :
           <<r, k2>> \in Arrow(<<r, k1>>, a) /\ Apart(k2, j, LastCol(r, a) + 1, 2)
    BY <1>1, <1>2, RowStep
  <1>4. PICK k3 \in 0..LastCol(r, a) :
           <<r, k3>> \in Arrow(<<r, k2>>, a) /\ Apart(k3, j, LastCol(r, a) + 1, 1)
    BY <1>1, <1>3, RowStep
  <1>5. PICK k4 \in 0..LastCol(r, a) :
           <<r, k4>> \in Arrow(<<r, k3>>, a) /\ Apart(k4, j, LastCol(r, a) + 1, 0)
    BY <1>1, <1>4, RowStep
  <1>6. k4 = j
    BY <1>5, RowEnds
  <1> QED BY <1>2, <1>3, <1>4, <1>5, <1>6, PathReaches DEF Path

\* One press that leads to a row, or none, and five along it.
LEMMA OneHop ==
    ASSUME NEW a, NEW c, NEW r \in 0..3,
           NEW i \in 0..LastCol(r, a), NEW j \in 0..LastCol(r, a),
           <<r, i>> \in Arrow(c, a)
    PROVE  <<r, j>> \in Reach(c, a)
  <1>1. 4 \in 0..4 /\ 4 + 1 = 5
    OBVIOUS
  <1>2. Apart(i, j, LastCol(r, a) + 1, 5)
    BY DEF Apart, LastCol
  <1>3. PICK k \in 0..LastCol(r, a) :
           <<r, k>> \in Arrow(<<r, i>>, a) /\ Apart(k, j, LastCol(r, a) + 1, 4)
    BY <1>1, <1>2, RowStep
  <1> QED BY <1>3, TwoHops

\* Five keys along a row are too many after two presses that lead to it: from
\* the third row to the first, the cursor goes by the space and send keys.
LEMMA ThirdToFirst ==
    ASSUME NEW a, NEW i \in 0..8, NEW j \in 0..9
    PROVE  <<0, j>> \in Reach(<<2, i>>, a)
  <1>1. CASE i # j + 5 /\ j # i + 5
    <2>1. <<1, i>> \in Arrow(<<2, i>>, a) /\ <<0, i>> \in Arrow(<<1, i>>, a)
      BY DEF Arrow, Up
    <2>2. Apart(i, j, LastCol(0, a) + 1, 4)
      BY <1>1 DEF Apart, LastCol
    <2>3. 0 \in 0..3 /\ i \in 0..LastCol(0, a) /\ j \in 0..LastCol(0, a)
      BY DEF LastCol
    <2> QED BY <2>1, <2>2, <2>3, TwoHops
  <1>2. CASE i = 0 /\ j = 5
    <2>1. Path(<<2, 0>>, <<3, 0>>, <<3, 3>>, <<0, 7>>, <<0, 6>>, <<0, 5>>, <<0, 5>>, a)
      BY DEF Path, Arrow, Up, Down, Left, Right, LastCol
    <2> QED BY <1>2, <2>1, PathReaches
  <1>3. CASE i = 1 /\ j = 6
    <2>1. Path(<<2, 1>>, <<3, 1>>, <<3, 2>>, <<3, 3>>, <<0, 7>>, <<0, 6>>, <<0, 6>>, a)
      BY DEF Path, Arrow, Up, Down, Left, Right, LastCol
    <2> QED BY <1>3, <2>1, PathReaches
  <1>4. CASE i = 2 /\ j = 7
    <2>1. Path(<<2, 2>>, <<3, 2>>, <<3, 3>>, <<0, 7>>, <<0, 7>>, <<0, 7>>, <<0, 7>>, a)
      BY DEF Path, Arrow, Up, Down, Left, Right, LastCol
    <2> QED BY <1>4, <2>1, PathReaches
  <1>5. CASE i = 3 /\ j = 8
    <2>1. Path(<<2, 3>>, <<3, 2>>, <<3, 3>>, <<0, 7>>, <<0, 8>>, <<0, 8>>, <<0, 8>>, a)
      BY DEF Path, Arrow, Up, Down, Left, Right, LastCol
    <2> QED BY <1>5, <2>1, PathReaches
  <1>6. CASE i = 4 /\ j = 9
    <2>1. Path(<<2, 4>>, <<3, 2>>, <<3, 3>>, <<0, 7>>, <<0, 8>>, <<0, 9>>, <<0, 9>>, a)
      BY DEF Path, Arrow, Up, Down, Left, Right, LastCol
    <2> QED BY <1>6, <2>1, PathReaches
  <1>7. CASE i = 5 /\ j = 0
    <2>1. Path(<<2, 5>>, <<3, 2>>, <<3, 1>>, <<3, 0>>, <<0, 0>>, <<0, 0>>, <<0, 0>>, a)
      BY DEF Path, Arrow, Up, Down, Left, Right, LastCol
    <2> QED BY <1>7, <2>1, PathReaches
  <1>8. CASE i = 6 /\ j = 1
    <2>1. Path(<<2, 6>>, <<3, 2>>, <<3, 1>>, <<0, 1>>, <<0, 1>>, <<0, 1>>, <<0, 1>>, a)
      BY DEF Path, Arrow, Up, Down, Left, Right, LastCol
    <2> QED BY <1>8, <2>1, PathReaches
  <1>9. CASE i = 7 /\ j = 2
    <2>1. Path(<<2, 7>>, <<3, 3>>, <<3, 2>>, <<0, 2>>, <<0, 2>>, <<0, 2>>, <<0, 2>>, a)
      BY DEF Path, Arrow, Up, Down, Left, Right, LastCol
    <2> QED BY <1>9, <2>1, PathReaches
  <1>10. CASE i = 8 /\ j = 3
    <2>1. Path(<<2, 8>>, <<3, 3>>, <<3, 2>>, <<0, 2>>, <<0, 3>>, <<0, 3>>, <<0, 3>>, a)
      BY DEF Path, Arrow, Up, Down, Left, Right, LastCol
    <2> QED BY <1>10, <2>1, PathReaches
  <1>11. \/ (i # j + 5 /\ j # i + 5)
         \/ <<i, j>> \in {<<0, 5>>, <<1, 6>>, <<2, 7>>, <<3, 8>>, <<4, 9>>,
                         <<5, 0>>, <<6, 1>>, <<7, 2>>, <<8, 3>>}
    OBVIOUS
  <1> QED BY <1>1, <1>2, <1>3, <1>4, <1>5, <1>6, <1>7, <1>8, <1>9, <1>10, <1>11

\* From the last row to the second one, the long row of the special alphabet
\* has keys that are five apart from where the cursor comes up.
LEMMA FourthToSecond ==
    ASSUME NEW a, NEW i \in 0..3, NEW j \in 0..LastCol(1, a)
    PROVE  <<1, j>> \in Reach(<<3, i>>, a)
  <1> DEFINE k == IF i = 3 THEN 8 ELSE i
  <1>1. CASE Apart(k, j, LastCol(1, a) + 1, 4)
    <2>1. <<2, k>> \in Arrow(<<3, i>>, a) /\ <<1, k>> \in Arrow(<<2, k>>, a)
      BY DEF Arrow, Up
    <2>2. 1 \in 0..3 /\ k \in 0..LastCol(1, a)
      BY DEF LastCol
    <2> HIDE DEF k
    <2> QED BY <1>1, <2>1, <2>2, TwoHops
  <1>2. CASE i = 0 /\ j = 5 /\ LastCol(1, a) = 9
    <2>1. Path(<<3, 0>>, <<2, 0>>, <<2, 8>>, <<1, 8>>, <<1, 7>>, <<1, 6>>, <<1, 5>>, a)
      BY DEF Path, Arrow, Up, Down, Left, Right, LastCol
    <2> QED BY <1>2, <2>1, PathReaches
  <1>3. CASE i = 1 /\ j = 6 /\ LastCol(1, a) = 9
    <2>1. Path(<<3, 1>>, <<3, 2>>, <<3, 3>>, <<2, 8>>, <<1, 8>>, <<1, 7>>, <<1, 6>>, a)
      BY DEF Path, Arrow, Up, Down, Left, Right, LastCol
    <2> QED BY <1>3, <2>1, PathReaches
  <1>4. CASE i = 2 /\ j = 7 /\ LastCol(1, a) = 9
    <2>1. Path(<<3, 2>>, <<3, 3>>, <<2, 8>>, <<1, 8>>, <<1, 7>>, <<1, 7>>, <<1, 7>>, a)
      BY DEF Path, Arrow, Up, Down, Left, Right, LastCol
    <2> QED BY <1>4, <2>1, PathReaches
  <1>5. CASE i = 3 /\ j = 3 /\ LastCol(1, a) = 9
    <2>1. Path(<<3, 3>>, <<3, 2>>, <<2, 2>>, <<1, 2>>, <<1, 3>>, <<1, 3>>, <<1, 3>>, a)
      BY DEF Path, Arrow, Up, Down, Left, Right, LastCol
    <2> QED BY <1>5, <2>1, PathReaches
  <1>6. \/ Apart(k, j, LastCol(1, a) + 1, 4)
        \/ /\ LastCol(1, a) = 9
           /\ <<i, j>> \in {<<0, 5>>, <<1, 6>>, <<2, 7>>, <<3, 3>>}
    BY DEF Apart, LastCol
  <1> QED BY <1>1, <1>2, <1>3, <1>4, <1>5, <1>6

\* From a row to another one: up or down once, or down twice, but for the two
\* pairs above.
LEMMA KeysNear ==
    ASSUME NEW a, NEW c, NEW d, OnKey(c, a), OnKey(d, a),
           c \in (0..3) \X (0..9), d \in (0..3) \X (0..9)
    PROVE  d \in Reach(c, a)
  <1>1. PICK r \in 0..3, i \in 0..9, s \in 0..3, j \in 0..9 : c = <<r, i>> /\ d = <<s, j>>
    OBVIOUS
  <1>2. i \in 0..LastCol(r, a) /\ j \in 0..LastCol(s, a)
    BY <1>1 DEF OnKey
  <1>3. CASE r = s
    <2>1. <<s, i>> \in Arrow(c, a) /\ i \in 0..LastCol(s, a)
      BY <1>1, <1>2, <1>3 DEF Arrow
    <2> QED BY <1>1, <1>2, <2>1, OneHop
  <1>4. CASE Up(c)[1] = s
    <2>1. PICK k \in 0..LastCol(s, a) : Up(c) = <<s, k>>
      BY <1>1, <1>2, <1>4 DEF Up, LastCol
    <2>2. <<s, k>> \in Arrow(c, a)
      BY <2>1 DEF Arrow
    <2> QED BY <1>1, <1>2, <2>2, OneHop
  <1>5. CASE Down(c, a)[1] = s
    <2>1. PICK k \in 0..LastCol(s, a) : Down(c, a) = <<s, k>>
      BY <1>1, <1>2, <1>5 DEF Down, LastCol
    <2>2. <<s, k>> \in Arrow(c, a)
      BY <2>1 DEF Arrow
    <2> QED BY <1>1, <1>2, <2>2, OneHop
  <1>6. CASE (r = 0 /\ s = 2) \/ (r = 1 /\ s = 3)
    <2>1. PICK k \in 0..LastCol(s, a) : Down(Down(c, a), a) = <<s, k>>
      BY <1>1, <1>2, <1>6 DEF Down, LastCol
    <2>2. Down(c, a) \in Arrow(c, a) /\ <<s, k>> \in Arrow(Down(c, a), a)
      BY <2>1 DEF Arrow
    <2>3. Apart(k, j, LastCol(s, a) + 1, 4)
      BY <1>2, <1>6 DEF Apart, LastCol
    <2> QED BY <1>1, <1>2, <2>2, <2>3, TwoHops
  <1>7. CASE r = 2 /\ s = 0
    <2>1. i \in 0..8
      BY <1>2, <1>7 DEF LastCol
    <2> QED BY <1>1, <1>7, <2>1, ThirdToFirst
  <1>8. CASE r = 3 /\ s = 1
    <2>1. i \in 0..3 /\ j \in 0..LastCol(1, a)
      BY <1>2, <1>8 DEF LastCol
    <2> QED BY <1>1, <1>8, <2>1, FourthToSecond
  <1>9. \/ r = s \/ Up(c)[1] = s \/ Down(c, a)[1] = s
        \/ <<r, s>> \in {<<0, 2>>, <<1, 3>>, <<2, 0>>, <<3, 1>>}
    BY <1>1 DEF Up, Down
  <1> QED BY <1>3, <1>4, <1>5, <1>6, <1>7, <1>8, <1>9

\* Wherever the cursor was left and whatever alphabet is up, six presses of the
\* arrow keys are enough for any key.
THEOREM KeyboardEveryKeyNear == KeyboardSpec => []EveryKeyNear
  <1>1. KeyboardTypeOK /\ CursorOnKey => EveryKeyNear
    BY KeysNear DEF KeyboardTypeOK, CursorOnKey, EveryKeyNear
  <1> QED BY <1>1, KeyboardCursorOnKey, PTL

------------------------------------------------------------------------------
\* Unless the calibration page put it up, the alphabet is the one that
\* statuskeyboard names.
KeyboardNamed ==
    forced \/ alphabet = IF statuskeyboard = 0 THEN "lower"
                         ELSE IF statuskeyboard = 1 THEN "upper" ELSE "special"

\* Each press of shift or of the alphabet key changes the alphabet that is up,
\* unless the calibration page put it up.
THEOREM KeyboardSwitches == KeyboardSpec => []SwitchesAlphabet
  <1>1. KeyboardInit => KeyboardNamed
    BY DEF KeyboardInit, KeyboardNamed
  <1>2. KeyboardTypeOK /\ KeyboardNamed /\ [KeyboardNext]_keyboardVars => KeyboardNamed'
    BY DEF KeyboardTypeOK, KeyboardNamed, KeyboardNext, Move, Shift, Special, OpenText,
           OpenCalibration, Close, ShiftTo, SpecialTo, Switch, keyboardVars
  <1>3. KeyboardTypeOK /\ KeyboardNamed => SwitchesAlphabet
    BY DEF KeyboardTypeOK, KeyboardNamed, SwitchesAlphabet, ShiftTo, SpecialTo
  <1>4. KeyboardSpec => []KeyboardTypeOK
    BY KeyboardCursorOnKey, PTL
  <1> QED BY <1>1, <1>2, <1>3, <1>4, PTL DEF KeyboardSpec
==============================================================================
