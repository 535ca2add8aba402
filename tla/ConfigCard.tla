------------------------------ MODULE ConfigCard ------------------------------
(****************************************************************************)
(* The files of ConfigStore as Json prints and parses them: what a file of  *)
(* several objects reads as, for any texts the keyboard can produce.        *)
(****************************************************************************)
EXTENDS ConfigStore, Json

CONSTANTS
    Keys,               \* the keys of each file, in the order of printing
    Spelling,           \* the characters of a text
    Unreadable          \* what a file reads as that is not parsed

\* Every text of a file is printed, under a key of its own, and the document
\* has a slot for each: the constructor asks for 11, and there are 8 and 4.
ASSUME KeysAssumption ==
    \A f \in Files :
        /\ Keys[f] \in Seq(In(f)) /\ Len(Keys[f]) <= Slots
        /\ \A i, j \in DOMAIN Keys[f] : Keys[f][i] = Keys[f][j] => i = j
        /\ \A x \in In(f) : \E i \in DOMAIN Keys[f] : Keys[f][i] = x

\* A key is a letter: what matters of it is that it is no other.
ASSUME KeyLetters == Forms \subseteq Letters

\* A text without the quote character that would end it.
Unquoted(t) == \A i \in DOMAIN t : t[i] # "\""

\* Texts are told apart by what was typed, and those in Plain are unquoted.
ASSUME SpellingAssumption ==
    /\ Spelling \in [Texts -> Seq(Typed)]
    /\ \A t, u \in Texts : Spelling[t] = Spelling[u] => t = u
    /\ \A t \in Plain : Unquoted(Spelling[t])

Spelled(o) == [x \in DOMAIN o |-> Spelling[o[x]]]

\* The texts of the device that a parse of a file gives.
TextsIn(f, s) ==
    IF Parsed(s) THEN [x \in In(f) |-> CHOOSE t \in Texts : Spelling[t] = TextOf(s, x)]
                 ELSE Unreadable

\* readFile() and deserializeJson(): the texts that a file reads as.
Outcome(f, objects) ==
    TextsIn(f, Parse(Lines(Keys[f], [i \in DOMAIN objects |-> Spelled(objects[i])])))

\* The card of ConfigStore is read by the deserializer.
ReadAsParsed ==
    \A f \in Files : \A objects \in Seq(Objects(f)) :
        objects # <<>> => Read(f, objects) = Outcome(f, objects)

\* Texts of up to LongText characters come back from the line they are printed
\* into, if none is the quote character that ends them.  This does not depend on
\* the state, and is asked of the device as it is switched on first.
RoundTrip == Init => RoundTrips
==============================================================================
