------------------------------- MODULE Keyboard ------------------------------
(****************************************************************************)
(* The on-screen keyboard of TFT.h: one cursor and one alphabet that the    *)
(* four configuration forms share and that no page resets.  Each of the     *)
(* drawKeyboard... functions repeats the same cursor moves; the calibration *)
(* form differs in what its alphabet key does, and drawing its page puts up *)
(* the special characters without recording it in statuskeyboard.           *)
(****************************************************************************)
EXTENDS Naturals

Alphabets == {"lower", "upper", "special"}

\* The last column of a row.  Only the special alphabet has a tenth key in the
\* second row; the ninth key of the third row is "delete".
LastCol(row, a) ==
    CASE row = 0 -> 9
      [] row = 1 -> IF a = "special" THEN 9 ELSE 8
      [] row = 2 -> 8
      [] row = 3 -> 3

OnKey(c, a) == c[1] \in 0..3 /\ c[2] \in 0..LastCol(c[1], a)

ShiftKey == <<2, 0>>
AlphabetKey == <<3, 0>>
SpaceKey == <<3, 2>>
DeleteKey == <<2, 8>>

VARIABLES
    cursor,             \* startrow, startcol
    alphabet,           \* keyAlphabet
    statuskeyboard,     \* 0: lower, 1: upper, 2: special
    form,               \* is the keyboard on a text form or a calibration
    forced              \* observes: is the alphabet that is up the one that
                        \* the calibration page put up by itself

keyboardVars == <<cursor, alphabet, statuskeyboard, form, forced>>

KeyboardTypeOK ==
    /\ cursor \in (0..3) \X (0..9)
    /\ alphabet \in Alphabets
    /\ statuskeyboard \in 0..2
    /\ form \in {"none", "text", "calibration"}
    /\ forced \in BOOLEAN

KeyboardInit ==
    /\ cursor = <<0, 0>>
    /\ alphabet = "lower"
    /\ statuskeyboard = 0
    /\ form = "none"
    /\ forced = FALSE

------------------------------------------------------------------------------
(* The arrow keys.                                                          *)

Up(c) ==
    LET row == c[1]
        col == c[2]
    IN  CASE row = 0 -> <<3, CASE col \in 0..1 -> 0 [] col = 2 -> 1
                               [] col \in 3..6 -> 2 [] OTHER -> 3>>
          [] row = 3 -> <<2, IF col = 3 THEN 8 ELSE col>>
          [] OTHER   -> <<row - 1, col>>

\* Defect: the test for a key in the tenth column is lost.
DownStraight(c, a) ==
    LET row == c[1]
        col == c[2]
    IN  CASE row = 0 -> <<1, col>>
          [] row = 1 -> <<2, IF col = 9 THEN 8 ELSE col>>
          [] row = 2 -> <<3, CASE col \in 2..6 -> 2 [] col \in 7..8 -> 3 [] OTHER -> col>>
          [] row = 3 -> <<0, IF col = 3 THEN 7 ELSE col>>

Down(c, a) ==
    LET row == c[1]
        col == c[2]
    IN  CASE row = 0 -> <<1, IF col = 9 /\ a # "special" THEN 8 ELSE col>>
          [] row = 1 -> <<2, IF col = 9 THEN 8 ELSE col>>
          [] row = 2 -> <<3, CASE col \in 2..6 -> 2 [] col \in 7..8 -> 3 [] OTHER -> col>>
          [] row = 3 -> <<0, IF col = 3 THEN 7 ELSE col>>

\* Defect: the cursor stops at the first key of a row.
LeftStop(c, a) == <<c[1], IF c[2] = 0 THEN 0 ELSE c[2] - 1>>

Left(c, a) == <<c[1], IF c[2] = 0 THEN LastCol(c[1], a) ELSE c[2] - 1>>

Right(c, a) == <<c[1], IF c[2] = LastCol(c[1], a) THEN 0 ELSE c[2] + 1>>

Move ==
    /\ form # "none"
    /\ \/ cursor' = Up(cursor)
       \/ cursor' = Down(cursor, alphabet)
       \/ cursor' = Left(cursor, alphabet)
       \/ cursor' = Right(cursor, alphabet)
    /\ UNCHANGED <<alphabet, statuskeyboard, form, forced>>

------------------------------------------------------------------------------
(* 'S' on a key that is not a character.                                    *)

\* The alphabet each of the two keys puts up, with the status it records.
ShiftTo == IF statuskeyboard = 0 THEN <<"upper", 1>> ELSE <<"lower", 0>>

\* Defect: the special characters are put up without recording it.
SpecialToSilent == IF statuskeyboard \in 0..1 THEN <<"special", 0>> ELSE <<"lower", 0>>

SpecialTo == IF statuskeyboard \in 0..1 THEN <<"special", 2>> ELSE <<"lower", 0>>

Switch(to) == alphabet' = to[1] /\ statuskeyboard' = to[2] /\ forced' = FALSE

Shift ==
    /\ form # "none"
    /\ cursor = ShiftKey
    /\ Switch(ShiftTo)
    /\ UNCHANGED <<cursor, form>>

Special ==
    /\ form = "text"
    /\ cursor = AlphabetKey
    /\ Switch(SpecialTo)
    /\ UNCHANGED <<cursor, form>>

\* Pages come and go; cursor, alphabet and status stay, but for the calibration
\* page.
OpenText == form' = "text" /\ UNCHANGED <<cursor, alphabet, statuskeyboard, forced>>

OpenCalibration ==
    /\ form' = "calibration"
    /\ alphabet' = "special"
    /\ forced' = TRUE
    /\ UNCHANGED <<cursor, statuskeyboard>>

Close == form' = "none" /\ UNCHANGED <<cursor, alphabet, statuskeyboard, forced>>

KeyboardNext == Move \/ Shift \/ Special \/ OpenText \/ OpenCalibration \/ Close

KeyboardSpec == KeyboardInit /\ [][KeyboardNext]_keyboardVars

------------------------------------------------------------------------------
\* The cursor is always on a key of the alphabet that is up, so that 'S' never
\* appends the filler of a row that has no such key, although alphabets with
\* rows of different lengths are switched under the cursor.
CursorOnKey == OnKey(cursor, alphabet)

\* The positions that a few presses of the arrow keys lead to.
Reach(c, a) ==
    LET step(S) == S \cup {Up(d) : d \in S} \cup {Down(d, a) : d \in S}
                     \cup {Left(d, a) : d \in S} \cup {Right(d, a) : d \in S}
        reach[n \in 0..6] == IF n = 0 THEN {c} ELSE step(reach[n - 1])
    IN  reach[6]

\* No key is more than six presses of the arrow keys away.
EveryKeyNear ==
    \A d \in (0..3) \X (0..9) : OnKey(d, alphabet) => d \in Reach(cursor, alphabet)

\* Each press of shift or of the alphabet key puts up another alphabet than the
\* one that is up, unless that one was put up by the calibration page: a switch
\* of either key, however many forms later, ends what that page has left.
SwitchesAlphabet == ~ forced => ShiftTo[1] # alphabet /\ SpecialTo[1] # alphabet
==============================================================================
