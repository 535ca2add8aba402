---------------------------- MODULE MCConfigStore ----------------------------
(****************************************************************************)
(* A form in the configuration file and a sensor in the calibration file,   *)
(* whose files are read as Json parses them.  A text is empty, ordinary, or *)
(* has quote characters: one that spoils the object, two that end the text  *)
(* early, or two that also repeat the key "w" with another text.            *)
(****************************************************************************)
EXTENDS ConfigCard, TLC

MCKeys == [f \in Files |-> IF f = "config.txt" THEN <<"w">> ELSE <<"s">>]

Plainly == <<"a", "'">>

MCSpelling ==
    [t \in Texts |->
       CASE t = ""         -> <<>>
         [] t = "plain"    -> Plainly
         [] t = "spoils"   -> <<"\"">>
         [] t = "shortens" -> Plainly \o <<"\"", ",", "1", ":", "\"">>
         [] t = "repeats"  -> <<"\"", ",", "w", ":", "\"">> \o Plainly]

\* What each file may hold, read once.
One(f) == [objects \in {<<o>> : o \in Objects(f)} |-> Outcome(f, objects)]
Two(f) == [objects \in Objects(f) \X Objects(f)   |-> Outcome(f, objects)]

Table == One("config.txt") @@ Two("config.txt") @@ One("standar.txt") @@ Two("standar.txt")

MCRead(f, objects) == Table[objects]
==============================================================================
