------------------------------- MODULE History -------------------------------
(****************************************************************************)
(* Browsing the saved measurements and posting some of them: the pages      *)
(* history, detailhistory, detailpost and postServer of Device.ino with the *)
(* scroll window and the list of chosen records of TFT.h.                   *)
(*                                                                          *)
(* A record is kept as its id only; it is found by its id again when it is  *)
(* shown for posting and when it is posted.  Ids are products of random     *)
(* numbers, so two records may have the same.                               *)
(****************************************************************************)
EXTENDS Integers, FiniteSets, Sequences

CONSTANTS
    Names,              \* the quantities, each with its file on the SD card
    Ids,                \* what ids may come out
    Null,               \* the null pointer of an empty slot
    Window,             \* rows on the page: 8
    Slots,              \* length of listchooseidpost: 20
    MaxLen              \* bound on the length of a file

ASSUME BoundsAssumption ==
    /\ Window \in Nat /\ Window >= 1
    /\ Slots \in Nat /\ Slots >= 1
    /\ MaxLen \in Nat
ASSUME NullAssumption == Null \notin Ids

None == <<>>            \* the parse buffers before anything was parsed
NoId == <<"no id">>     \* what atoi makes of a null pointer, if no id

VARIABLES
    file,               \* the ids in each file, in the order they were saved
    page, name,         \* the page shown and the file it is about
    status,             \* is the status "change"
    changed,            \* changedetailhistory / changedetailposthistory
    lengthScoll,        \* the length of the file when the page was drawn
    starthis, endhis,   \* the window of rows listed
    indexScoll,         \* the position of the scroll bar
    choose,             \* the rows that the last touch (choosex, choosey) is on
    list,               \* listchooseidpost
    endhispost,         \* rows listed on the post page
    buffer,             \* the record last parsed by postServer
    sent,               \* the records posted by the last postServer
    taken               \* observes: has a record that was in the list been
                        \* touched again since the list was last emptied

vars == <<file, page, name, status, changed, lengthScoll, starthis, endhis, indexScoll,
          choose, list, endhispost, buffer, sent, taken>>

window   == <<starthis, endhis, indexScoll>>
postVars == <<endhispost, buffer, sent>>

Records == Names \X (1..MaxLen)

\* A touch lies in one row or on the line that two rows share.
Touched == {{}} \cup {{r} : r \in 0..(Window - 1)}
                \cup {{r, r + 1} : r \in 0..(Window - 2)}

TypeOK ==
    /\ file \in [Names -> Seq(Ids)] /\ \A n \in Names : Len(file[n]) <= MaxLen
    /\ page \in {"history", "detailhistory", "detailpost", "postServer"}
    /\ name \in Names
    /\ status \in BOOLEAN /\ changed \in BOOLEAN
    /\ lengthScoll \in 0..MaxLen
    /\ starthis \in Nat /\ endhis \in Nat /\ indexScoll \in Int
    /\ choose \in Touched
    /\ list \in [1..Slots -> Ids \cup {Null}]
    /\ endhispost \in 0..Window
    /\ buffer \in Records \cup {None}
    /\ DOMAIN sent \subseteq 1..Slots /\ \A i \in DOMAIN sent : sent[i] \in Records \cup {None}
    /\ taken \in BOOLEAN

EmptyList == [i \in 1..Slots |-> Null]

Init ==
    /\ file = [n \in Names |-> <<>>]
    /\ page = "history" /\ name \in Names
    /\ status = FALSE /\ changed = FALSE
    /\ lengthScoll = 0
    /\ starthis = 0 /\ endhis = Window /\ indexScoll = 0
    /\ choose = {}
    /\ list = EmptyList
    /\ endhispost = Window
    /\ buffer = None /\ sent = <<>>
    /\ taken = FALSE

------------------------------------------------------------------------------
(* The list of chosen records.                                              *)

Filled(l) == {i \in 1..Slots : l[i] # Null}

Chosen(l) == {l[i] : i \in Filled(l)}

\* Defect: the last slot filled is not looked at.
IndexOfShort(l, id) == {i \in 1..Slots : i < Cardinality(Filled(l)) /\ l[i] = id}

\* The slots indexOfChoosePost finds an id in: it looks at the first
\* getLenChoosePost() slots only, which is the number of slots filled.
IndexOf(l, id) == {i \in 1..Slots : i <= Cardinality(Filled(l)) /\ l[i] = id}

FirstOf(S) == CHOOSE i \in S : \A j \in S : i <= j

\* Defect: the id goes behind the last one, wherever that may be by now.
ChooseAtEnd(l, id) ==
    IF IndexOf(l, id) # {} THEN [l EXCEPT ![FirstOf(IndexOf(l, id))] = Null]
    ELSE IF Cardinality(Filled(l)) < Slots
         THEN [l EXCEPT ![Cardinality(Filled(l)) + 1] = id] ELSE l

\* Defect: the loop over the slots does not end where the id was added.
ChooseEverywhere(l, id) ==
    IF IndexOf(l, id) # {} THEN [l EXCEPT ![FirstOf(IndexOf(l, id))] = Null]
    ELSE [i \in 1..Slots |-> IF l[i] = Null THEN id ELSE l[i]]

\* choosePost(): an id that is found is taken out, leaving a hole; one that is
\* not goes into the first empty slot, if there is one.
ChoosePost(l, id) ==
    IF IndexOf(l, id) # {} THEN [l EXCEPT ![FirstOf(IndexOf(l, id))] = Null]
    ELSE IF Filled(l) = 1..Slots THEN l
    ELSE [l EXCEPT ![FirstOf({i \in 1..Slots : l[i] = Null})] = id]

------------------------------------------------------------------------------
(* The history page: the choice of a file.                                  *)

OpenFile ==
    /\ page = "history"
    /\ name' \in Names
    /\ page' = "detailhistory" /\ status' = TRUE /\ changed' = TRUE
    /\ UNCHANGED <<file, lengthScoll, window, choose, list, taken, postVars>>

\* Away from these pages another measurement is saved.
Save ==
    /\ page = "history"
    /\ \E n \in Names, id \in Ids :
         /\ Len(file[n]) < MaxLen
         /\ file' = [file EXCEPT ![n] = Append(@, id)]
    /\ UNCHANGED <<page, name, status, changed, lengthScoll, window, choose, list, taken, postVars>>

------------------------------------------------------------------------------
(* The page detailhistory.  A pass draws the page if the status says so,    *)
(* lists the rows if something changed, and then reads a touch.             *)

\* Defects: the list of another file is kept, or its window.
DrawDetailKeepsList ==
    /\ page = "detailhistory" /\ status
    /\ lengthScoll' = Len(file[name])
    /\ starthis' = 0 /\ endhis' = Window /\ indexScoll' = 0
    /\ status' = FALSE /\ changed' = TRUE
    /\ UNCHANGED <<file, page, name, choose, list, taken, postVars>>
DrawDetailKeepsWindow ==
    /\ page = "detailhistory" /\ status
    /\ lengthScoll' = Len(file[name])
    /\ list' = EmptyList /\ taken' = FALSE
    /\ status' = FALSE /\ changed' = TRUE
    /\ UNCHANGED <<file, page, name, choose, window, postVars>>

DrawDetail ==
    /\ page = "detailhistory" /\ status
    /\ lengthScoll' = Len(file[name])
    /\ starthis' = 0 /\ endhis' = Window /\ indexScoll' = 0
    /\ list' = EmptyList /\ taken' = FALSE
    /\ status' = FALSE /\ changed' = TRUE
    /\ UNCHANGED <<file, page, name, choose, postVars>>

\* Row r of the window is listed; the loop stops at the end of the file.
Listed(r) == r >= 0 /\ starthis + r < endhis /\ starthis + r < Len(file[name])

IdAt(r) == file[name][starthis + r + 1]

\* A listed row that the last touch is on is chosen or taken out.
ListRow(l, r) == IF r \in choose /\ Listed(r) THEN ChoosePost(l, IdAt(r)) ELSE l

\* One of the rows is in the list already, or both are one record.
TouchesChosen ==
    \E r \in choose : /\ Listed(r)
                      /\ \/ IdAt(r) \in Chosen(list)
                         \/ \E q \in choose \ {r} : Listed(q) /\ IdAt(q) = IdAt(r)

ListRows ==
    /\ page = "detailhistory" /\ ~ status /\ changed
    /\ LET top == IF choose = {} THEN 0 ELSE FirstOf(choose)
       IN  list' = ListRow(ListRow(list, top), top + 1)
    /\ taken' = (taken \/ TouchesChosen)
    /\ changed' = FALSE
    /\ UNCHANGED <<file, page, name, status, lengthScoll, window, choose, postVars>>

TouchDetail ==
    /\ page = "detailhistory" /\ ~ status /\ ~ changed
    /\ UNCHANGED <<file, name, lengthScoll, postVars>>

\* Rows of the window; x and y are kept until the next touch.
TouchRow ==
    /\ TouchDetail
    /\ choose' \in Touched
    /\ changed' = TRUE
    /\ UNCHANGED <<page, status, window, list, taken>>

ClearAll ==
    /\ TouchDetail
    /\ choose' = {}
    /\ list' = EmptyList /\ taken' = FALSE
    /\ changed' = TRUE
    /\ UNCHANGED <<page, status, window>>

\* The last two ifs of both scroll buttons.
Clamp(i) == LET j == IF i <= 0 THEN 0 ELSE i
            IN  IF j >= lengthScoll - Window THEN lengthScoll - Window ELSE j

ScrollUp ==
    /\ TouchDetail
    /\ choose' = {}
    /\ IF lengthScoll > Window
         THEN /\ starthis' = IF starthis = 0 THEN 0 ELSE starthis - 1
              /\ endhis' = IF starthis = 0 THEN Window ELSE endhis - 1
              /\ indexScoll' = Clamp(indexScoll - 1)
              /\ changed' = TRUE
         ELSE indexScoll' = Clamp(indexScoll) /\ UNCHANGED <<starthis, endhis, changed>>
    /\ UNCHANGED <<page, status, list, taken>>

\* Defect: the window may slide one row beyond the end of the file.
ScrollDownBeyond ==
    /\ TouchDetail
    /\ choose' = {}
    /\ IF lengthScoll > Window
         THEN /\ starthis' = IF endhis > lengthScoll THEN lengthScoll - Window ELSE starthis + 1
              /\ endhis' = IF endhis > lengthScoll THEN lengthScoll ELSE endhis + 1
              /\ indexScoll' = Clamp(indexScoll + 1)
              /\ changed' = TRUE
         ELSE indexScoll' = Clamp(indexScoll) /\ UNCHANGED <<starthis, endhis, changed>>
    /\ UNCHANGED <<page, status, list, taken>>

ScrollDown ==
    /\ TouchDetail
    /\ choose' = {}
    /\ IF lengthScoll > Window
         THEN /\ starthis' = IF endhis + 1 > lengthScoll THEN lengthScoll - Window ELSE starthis + 1
              /\ endhis' = IF endhis + 1 > lengthScoll THEN lengthScoll ELSE endhis + 1
              /\ indexScoll' = Clamp(indexScoll + 1)
              /\ changed' = TRUE
         ELSE indexScoll' = Clamp(indexScoll) /\ UNCHANGED <<starthis, endhis, changed>>
    /\ UNCHANGED <<page, status, list, taken>>

\* The scroll bar between the buttons.
TouchTrack ==
    /\ TouchDetail
    /\ choose' = {}
    /\ indexScoll' = Clamp(indexScoll)
    /\ UNCHANGED <<page, status, starthis, endhis, changed, list, taken>>

LeaveDetail ==
    /\ TouchDetail
    /\ page' \in {"history", "detailpost"}
    /\ status' = (page' = "detailpost")
    /\ UNCHANGED <<changed, window, choose, list, taken>>

------------------------------------------------------------------------------
(* The page detailpost.                                                     *)

DrawPost ==
    /\ page = "detailpost" /\ status
    /\ status' = FALSE /\ changed' = TRUE
    /\ UNCHANGED <<file, page, name, lengthScoll, window, choose, list, taken, postVars>>

\* Defect: the rows are not cut to what was chosen.
ListPostAll ==
    /\ page = "detailpost" /\ ~ status /\ changed
    /\ changed' = FALSE
    /\ UNCHANGED <<file, page, name, status, lengthScoll, window, choose, list, taken, postVars>>

\* Shows the first slots; endhispost is only ever made smaller.
ListPost ==
    /\ page = "detailpost" /\ ~ status /\ changed
    /\ changed' = FALSE
    /\ LET len == Cardinality(Filled(list))
       IN  endhispost' = IF len > 0 /\ len < endhispost THEN len ELSE endhispost
    /\ UNCHANGED <<file, page, name, status, lengthScoll, window, choose, list, taken, buffer, sent>>

TouchPost ==
    /\ page = "detailpost" /\ ~ status /\ ~ changed
    /\ UNCHANGED <<file, name, changed, lengthScoll, starthis, endhis, choose, list, taken, postVars>>

\* The number of rows to scroll, lengthChoose, is never set: it is 0.  The
\* buttons only move the scroll bar that both pages share.
ScrollPost ==
    /\ TouchPost
    /\ \/ indexScoll' = IF indexScoll <= 0 THEN 0 ELSE indexScoll
       \/ indexScoll' = IF indexScoll >= 0 - Window THEN 0 - Window ELSE indexScoll
    /\ UNCHANGED <<page, status>>

LeavePost ==
    /\ TouchPost
    /\ page' \in {"detailhistory", "postServer"} /\ status' = TRUE
    /\ UNCHANGED indexScoll

------------------------------------------------------------------------------
(* The page postServer: getHistoryByID for each of the first slots.         *)

\* Defect: the last record of the file is not looked at.
RowsBefore(id) == {r \in DOMAIN file[name] : r < Len(file[name]) /\ file[name][r] = id}

\* The records of the open file with an id.
Rows(id) == {r \in DOMAIN file[name] : file[name][r] = id}

\* The loop over the slots: a null pointer is read as some id, and an id that
\* is not found leaves the record parsed before in the buffers.
Posted(junk) ==
    LET len == Cardinality(Filled(list))
        id(i) == IF list[i] = Null THEN junk ELSE list[i]
        record[i \in 0..len] ==
            IF i = 0 THEN buffer
            ELSE IF Rows(id(i)) = {} THEN record[i - 1]
            ELSE <<name, FirstOf(Rows(id(i)))>>
    IN  record

PostServer ==
    /\ page = "postServer" /\ status
    /\ \E junk \in Ids \cup {NoId} :
         LET len == Cardinality(Filled(list))
         IN  /\ sent' = [i \in 1..len |-> Posted(junk)[i]]
             /\ buffer' = Posted(junk)[len]
    /\ page' = "detailhistory" /\ status' = TRUE
    /\ UNCHANGED <<file, name, changed, lengthScoll, window, choose, list, taken, endhispost>>

------------------------------------------------------------------------------
Detail ==
    \/ DrawDetail \/ ListRows
    \/ TouchRow \/ ClearAll \/ ScrollUp \/ ScrollDown \/ TouchTrack \/ LeaveDetail

Post == DrawPost \/ ListPost \/ ScrollPost \/ LeavePost \/ PostServer

Next == OpenFile \/ Save \/ Detail \/ Post

Spec == Init /\ [][Next]_vars

------------------------------------------------------------------------------
(* Properties.                                                              *)

Drawn == page = "detailhistory" /\ ~ status

\* The window is one page long and inside the file, for files of every length
\* that are opened one after the other with one pair of variables.
WindowInFile ==
    Drawn => /\ starthis >= 0 /\ endhis = starthis + Window
             /\ IF Len(file[name]) > Window THEN endhis <= Len(file[name]) ELSE starthis = 0

\* The scroll bar stands where the window does, although it is clamped by rules
\* of its own and moved by the post page too.
ScrollbarShowsWindow == (Drawn /\ lengthScoll > Window) => indexScoll = starthis

\* What is chosen was chosen from the file that is open: nothing chosen in
\* another file is shown or posted with this one.
ChosenFromFile ==
    (Drawn \/ page \in {"detailpost", "postServer"})
        => Chosen(list) \subseteq {file[name][r] : r \in DOMAIN file[name]}

\* A touch changes the choice of the rows it is on and of no other record.
OnlyTouchedRows ==
    [][ListRows => \A id \in Ids :
          (id \in Chosen(list)) # (id \in Chosen(list'))
             => \E r \in choose : Listed(r) /\ IdAt(r) = id]_vars

\* The post page never goes beyond the slots that are filled.
PostRowsFilled ==
    (page = "detailpost" /\ ~ status /\ ~ changed /\ Chosen(list) # {})
        => endhispost <= Cardinality(Filled(list))

\* A record is in the list once: "ID doesn't exist, add it to the list".
NoDuplicates == \A i, j \in Filled(list) : list[i] = list[j] => i = j

\* That is so from one emptying of the list to the next, until a record that is
\* in the list is touched again.
ChosenOnce == ~ taken => NoDuplicates

\* As long, what is highlighted is what is chosen.
HighlightIsChoice ==
    ~ taken => \A id \in Ids : id \in Chosen(list) <=> IndexOf(list, id) # {}

\* As long, the records posted are the chosen ones of the open file, one for
\* each, although they are found by ids that may repeat.
PostsChoice ==
    [][PostServer /\ ~ taken
          => /\ \A i \in DOMAIN sent' : sent'[i] # None /\ sent'[i][1] = name
             /\ {file[name][sent'[i][2]] : i \in DOMAIN sent'} = Chosen(list)]_vars

\* The slots filled, as long as they come first, and the ids last posted.
InOrder(l) == [i \in 1..Cardinality(Filled(l)) |-> l[i]]

PostedIds ==
    [i \in DOMAIN sent |-> IF sent[i] = None THEN Null ELSE file[sent[i][1]][sent[i][2]]]

C == INSTANCE Choice WITH Most <- Slots, chosen <- InOrder(list), posted <- PostedIds

\* The list is a choice of records, as Choice has it: up to the first emptying of
\* the list after a record that was in it is touched, the slots filled are the ids
\* in the order they were touched, and posting takes the records with these ids.
FollowsChoice == C!Init /\ [][~ taken' => [C!Next]_(C!vars)]_vars
==============================================================================
