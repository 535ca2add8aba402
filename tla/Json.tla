--------------------------------- MODULE Json ---------------------------------
(****************************************************************************)
(* The texts of a form as setConfig and setCalibrations print them, one     *)
(* JSON object on a line, and what deserializeJson makes of such a line at  *)
(* the next start.  Texts are printed as they were typed, without escapes,  *)
(* and the keyboard has both quote characters, the colon and the comma.     *)
(*                                                                          *)
(* The deserializer is an automaton that eats the characters one by one.    *)
(* Characters it treats alike are one character here: "a" any letter, "1"   *)
(* any digit, "!" any other; no key on the keyboard is a brace, a bracket   *)
(* or a backslash.  A bare value is a number without sign or fraction.      *)
(****************************************************************************)
EXTENDS Naturals, Sequences

SX == INSTANCE SequencesExt

CONSTANTS
    Letters,            \* the letters; some are the keys of texts
    SlotSize, Slots,    \* bytes of a member, and members there is room for
    LongText            \* bound on the characters of a text

ASSUME SlotAssumption == SlotSize \in Nat /\ Slots \in Nat /\ LongText \in Nat

Quotes == {"\"", "'"}
Spaces == {" ", "\r", "\n"}

\* A quote character is not a letter, though a text may have it.
ASSUME LettersAssumption == Letters \cap Quotes = {}

Typed  == Letters \cup Quotes \cup {" ", ",", ":", "1", "!"}

\* "key":"text"
Member(k, t) == <<"\"", k, "\"", ":", "\"">> \o t \o <<"\"">>

\* One object on a line: the members in the order of keys.
Printed(keys, texts) ==
    LET member(i) == (IF i = 1 THEN <<>> ELSE <<",">>) \o Member(keys[i], texts[keys[i]])
    IN  <<"{">> \o SX!FlattenSeq([i \in DOMAIN keys |-> member(i)])
                \o <<"}", "\r", "\n">>

\* A file of several objects, one behind the other.
Lines(keys, objects) == SX!FlattenSeq([i \in DOMAIN objects |-> Printed(keys, objects[i])])

------------------------------------------------------------------------------
(* The deserializer.  Strings grow from the left of the memory pool and     *)
(* members from the right; room is what is left between them.               *)

Start(capacity) ==
    [at |-> "begin", stop |-> " ", text |-> <<>>, key |-> <<>>, doc |-> <<>>,
     room |-> capacity, saved |-> {}]

Failed(s) == [s EXCEPT !.at = "failed"]

\* startString and the quote that ends it.
Begun(s, at, c) == IF s.room = 0 THEN Failed(s)
                   ELSE [s EXCEPT !.at = at, !.stop = c, !.text = <<>>]

\* append; a string that does not fit fails when it ends, so at once here.
Longer(s, c) == IF Len(s.text) + 1 < s.room THEN [s EXCEPT !.text = Append(@, c)]
                                            ELSE Failed(s)

\* saveStringFromFreeZone: a string that is there already takes no room.
Kept(s, t) == IF t \in s.saved THEN s
              ELSE [s EXCEPT !.saved = @ \cup {t}, !.room = @ - (Len(t) + 1)]

\* The colon: a key seen before is used again, a new one takes a member.
Keyed(s) ==
    LET n == Kept(s, s.text)
    IN  IF s.text \in DOMAIN s.doc THEN [s EXCEPT !.at = "value", !.key = s.text]
        ELSE IF n.room < SlotSize THEN Failed(s)
        ELSE [n EXCEPT !.at = "value", !.key = s.text, !.room = @ - SlotSize,
                       !.doc = [k \in DOMAIN s.doc \cup {s.text} |->
                                  IF k = s.text THEN <<>> ELSE s.doc[k]]]

\* parseStringValue.  What is not a string reads as an empty text.
Valued(s, t) == [s EXCEPT !.at = "comma", !.doc[s.key] = t]

Bare(c) == c \in Letters \cup {"1"}

\* What a token that has no end of its own is followed by.
Colon(s, c) == CASE c \in Spaces -> [s EXCEPT !.at = "colon"]
                 [] c = ":"      -> Keyed(s)
                 [] OTHER        -> Failed(s)

Comma(s, c) == CASE c \in Spaces -> [s EXCEPT !.at = "comma"]
                 [] c = "}"      -> [s EXCEPT !.at = "done"]
                 [] c = ","      -> [s EXCEPT !.at = "key"]
                 [] OTHER        -> Failed(s)

Key(s, c) == CASE c \in Spaces -> [s EXCEPT !.at = "key"]
               [] c \in Quotes -> Begun(s, "inKey", c)
               [] Bare(c)      -> Longer(Begun(s, "bareKey", c), c)
               [] OTHER        -> Failed(s)

\* Defect: what follows the object is an error.
BehindToEnd(s, c) == IF c \in Spaces THEN s ELSE Failed(s)

\* Behind the object nothing is looked at any more.
Behind(s, c) == s

\* One character, where the parse is: parseVariant, parseObject, parseKey,
\* parseQuotedString, parseNonQuotedString, parseNumericValue.
Eat(s, c) ==
    CASE s.at = "begin" ->
           (CASE c \in Spaces -> s
              [] c = "{"      -> [s EXCEPT !.at = "first"]
              [] OTHER        -> Failed(s))
      [] s.at = "first"    ->
           (CASE c \in Spaces -> s
              [] c = "}"      -> [s EXCEPT !.at = "done"]
              [] OTHER        -> Key(s, c))
      [] s.at = "key"      -> Key(s, c)
      [] s.at = "inKey"    -> IF c = s.stop THEN [s EXCEPT !.at = "colon"] ELSE Longer(s, c)
      [] s.at = "bareKey"  -> IF Bare(c) THEN Longer(s, c) ELSE Colon(s, c)
      [] s.at = "colon"    -> Colon(s, c)
      [] s.at = "value"    ->
           (CASE c \in Spaces -> s
              [] c \in Quotes -> Begun(s, "inText", c)
              [] c = "1"      -> [s EXCEPT !.at = "number"]
              [] OTHER        -> Failed(s))
      [] s.at = "inText"   -> IF c = s.stop THEN Valued(Kept(s, s.text), s.text)
                                            ELSE Longer(s, c)
      [] s.at = "number"   -> IF c = "1" THEN s ELSE Comma(Valued(s, <<>>), c)
      [] s.at = "comma"    -> Comma(s, c)
      [] s.at = "done"     -> Behind(s, c)
      [] s.at = "failed"   -> s

\* Defect: no memory for the members.
ParseWithoutSlots(line) == SX!FoldLeft(Eat, Start(Len(line)), line)

\* The capacity of the document is reckoned from the length of the line.
Parse(line) == SX!FoldLeft(Eat, Start(Len(line) + Slots * SlotSize), line)

Parsed(s) == s.at = "done"

\* What the constructor takes from the document: a key that is not there is an
\* empty text.
TextOf(s, k) == IF <<k>> \in DOMAIN s.doc THEN s.doc[<<k>>] ELSE <<>>

------------------------------------------------------------------------------
(* What the run checks of the deserializer.                                 *)

\* Texts without the quote character that ends them come back as they were
\* printed: what else the keyboard has does no harm, and the memory the
\* document is given, reckoned from the length of the line, is enough.
RoundTrips ==
    LET texts == UNION {[1..n -> Typed \ {"\""}] : n \in 0..LongText}
        keys  == SX!SetToSeq(Letters)
    IN  \A k \in Letters, t \in texts, u \in texts :
          LET printed == [x \in Letters |-> IF x = k THEN t ELSE u]
              s       == Parse(Printed(keys, printed))
          IN  Parsed(s) /\ \A x \in Letters : TextOf(s, x) = printed[x]
==============================================================================
