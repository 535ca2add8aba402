-------------------------------- MODULE Keypad -------------------------------
(****************************************************************************)
(* The keypad driver: getKey, updateList and nextKeyState of the Keypad     *)
(* library as KPad.h uses it.  A scan reads which keys are down and moves   *)
(* every key of the list one state on; the device only ever learns of the   *)
(* key in the first slot, when it becomes PRESSED.  A press between two     *)
(* scans is not seen at all.                                                *)
(****************************************************************************)
EXTENDS Naturals, FiniteSets

CONSTANTS
    Codes,              \* the codes of the keys: row * columns + column
    Slots,              \* LIST_MAX
    Fingers,            \* bound: how many keys are held down at once
    NoKey
ASSUME CodesAssumption == Codes \subseteq Nat /\ NoKey \notin Nat
ASSUME SlotsAssumption == Slots \in Nat \ {0} /\ Fingers \in Nat

VARIABLES
    down,               \* the keys that are down
    list,               \* the slots: a key and its state
    elapsed,            \* holdTime has passed since holdTimer was set
    opened, quiet       \* observed: the keys a scan has seen up since they were
                        \* last reported; the last scans without any key, to 3

keypadVars == <<down, list, elapsed, opened, quiet>>

Free == [code |-> NoKey, kstate |-> "IDLE"]

Entry == [code : Codes \cup {NoKey}, kstate : {"IDLE", "PRESSED", "HOLD", "RELEASED"}]

KeypadTypeOK ==
    /\ down \subseteq Codes /\ opened \subseteq Codes
    /\ list \in [1..Slots -> Entry]
    /\ elapsed \in BOOLEAN
    /\ quiet \in 0..3

KeypadInit ==
    /\ down = {} /\ list = [i \in 1..Slots |-> Free]
    /\ elapsed = FALSE
    /\ opened = Codes /\ quiet = 3

\* Fingers and time.
Finger ==
    /\ \/ \E k \in down : down' = down \ {k}
       \/ \E k \in Codes \ down : Cardinality(down) < Fingers /\ down' = down \cup {k}
    /\ UNCHANGED <<list, elapsed, opened, quiet>>

\* holdTimer is only read for a key that is PRESSED.
Elapse ==
    /\ \E i \in 1..Slots : list[i].kstate = "PRESSED"
    /\ elapsed' = TRUE
    /\ UNCHANGED <<down, list, opened, quiet>>

\* Keys that are down and not on the list, in the order of their codes, take
\* the free slots in theirs.
New == down \ {list[i].code : i \in 1..Slots}

Takes(i, k) ==
    /\ list[i] = Free /\ k \in New
    /\ Cardinality({j \in 1..(i - 1) : list[j] = Free}) = Cardinality({c \in New : c < k})

\* Defect: a key that is held counts as pressed again.
NextStateRepeats(s, isDown, late) ==
    CASE s = "PRESSED" /\ late   -> "IDLE"
      [] s # "RELEASED" /\ isDown -> s
      [] s = "RELEASED"           -> "IDLE"
      [] OTHER                    -> "RELEASED"

\* nextKeyState of a key on the list.
NextState(s, isDown, late) ==
    CASE s = "PRESSED" /\ late   -> "HOLD"
      [] s # "RELEASED" /\ isDown -> s
      [] s = "RELEASED"           -> "IDLE"
      [] OTHER                    -> "RELEASED"

\* The keys share one holdTimer: a new key sets it for those with higher codes.
Late(k) == elapsed /\ ~ \E c \in New : c < k

\* A key that becomes IDLE leaves the list: updateList deletes it before it
\* looks at any key of the next scan, and nothing reads it before that.
Settled(k, s) == IF s = "IDLE" THEN Free ELSE [code |-> k, kstate |-> s]

Updated(i) ==
    IF list[i] # Free
      THEN Settled(list[i].code,
                   NextState(list[i].kstate, list[i].code \in down, Late(list[i].code)))
      ELSE IF \E k \in New : Takes(i, k)
             THEN [code |-> CHOOSE k \in New : Takes(i, k), kstate |-> "PRESSED"]
             ELSE Free

\* Defect: every key that is new is reported, whatever slot it is in.
ReportedLast == IF New # {} THEN CHOOSE k \in New : \A c \in New : c <= k ELSE NoKey

\* What getKey returns from this scan.
Reported ==
    IF list[1] = Free /\ Updated(1).kstate = "PRESSED" THEN Updated(1).code ELSE NoKey

Scan ==
    /\ list' = [i \in 1..Slots |-> Updated(i)]
    /\ elapsed' = (elapsed /\ New = {} /\ \E i \in 1..Slots : list'[i].kstate = "PRESSED")
    /\ opened' = (opened \cup (Codes \ down)) \ {Reported}
    /\ quiet' = IF down # {} THEN 0 ELSE IF quiet = 3 THEN 3 ELSE quiet + 1
    /\ UNCHANGED down
==============================================================================
