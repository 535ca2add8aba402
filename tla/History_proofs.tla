--------------------------- MODULE History_proofs ----------------------------
(****************************************************************************)
(* The history pages, for pages, lists and files of every length: the       *)
(* window stays in the file, the scroll bar shows it, what is chosen comes  *)
(* from the open file, and a touch changes the choice of its own rows only. *)
(* Until a row is taken out the list is a set that is shown and posted, and *)
(* choosing implements the abstract Choice.                                 *)
(****************************************************************************)
EXTENDS History, FiniteSetTheorems, WellFoundedInduction, TLAPS

\* Every set of numbers that is not empty has a first one.
LEMMA LeastExists ==
    ASSUME NEW S, S \subseteq Nat, S # {}
    PROVE  \E i \in S : \A j \in S : i <= j
  <1> DEFINE R == OpToRel(<, Nat)
  <1>1. PICK i \in S : \A j \in S : ~ (<<j, i>> \in R)
    <2>1. IsWellFoundedOn(R, Nat)
      BY NatLessThanWellFounded
    <2> HIDE DEF R
    <2> QED BY <2>1, WFMin
  <1>2. \A j \in S : j < i => <<j, i>> \in R
    BY DEF OpToRel
  <1> HIDE DEF R
  <1>3. \A j \in S : ~ (j < i)
    BY <1>1, <1>2
  <1>4. \A j \in S : i <= j
    BY <1>3
  <1> QED BY <1>4

\* FirstOf finds it.
LEMMA LeastNumber ==
    ASSUME NEW S, S \subseteq Nat, S # {}
    PROVE  FirstOf(S) \in S
  BY LeastExists DEF FirstOf

------------------------------------------------------------------------------
(* The list of chosen records.                                              *)

ListType == [1..Slots -> Ids \cup {Null}]

\* choosePost() adds or takes out its own id, and leaves all others alone.
LEMMA ChoosePostOwn ==
    ASSUME NEW l \in ListType, NEW id \in Ids
    PROVE  /\ ChoosePost(l, id) \in ListType
           /\ Chosen(ChoosePost(l, id)) \subseteq Chosen(l) \cup {id}
           /\ Chosen(l) \subseteq Chosen(ChoosePost(l, id)) \cup {id}
  <1> USE NullAssumption DEF ListType
  <1>1. CASE IndexOf(l, id) # {}
    <2>1. PICK k \in 1..Slots : l[k] = id /\ ChoosePost(l, id) = [l EXCEPT ![k] = Null]
      <3>1. IndexOf(l, id) \subseteq Nat
        BY DEF IndexOf
      <3>2. FirstOf(IndexOf(l, id)) \in IndexOf(l, id)
        BY <1>1, <3>1, LeastNumber
      <3> QED BY <1>1, <3>2 DEF IndexOf, ChoosePost
    <2>2. \A i \in 1..Slots : ChoosePost(l, id)[i] = IF i = k THEN Null ELSE l[i]
      BY <2>1
    <2> QED BY <2>1, <2>2 DEF Chosen, Filled
  <1>2. CASE IndexOf(l, id) = {} /\ Filled(l) = 1..Slots
    BY <1>2 DEF ChoosePost
  <1>3. CASE IndexOf(l, id) = {} /\ Filled(l) # 1..Slots
    <2>1. PICK k \in 1..Slots : l[k] = Null /\ ChoosePost(l, id) = [l EXCEPT ![k] = id]
      <3> DEFINE F == {i \in 1..Slots : l[i] = Null}
      <3>1. F \subseteq Nat /\ F # {}
        BY <1>3 DEF Filled
      <3>2. FirstOf(F) \in F
        BY <3>1, LeastNumber
      <3>3. ChoosePost(l, id) = [l EXCEPT ![FirstOf(F)] = id]
        BY <1>3 DEF ChoosePost
      <3> QED BY <3>2, <3>3
    <2>2. \A i \in 1..Slots : ChoosePost(l, id)[i] = IF i = k THEN id ELSE l[i]
      BY <2>1
    <2> QED BY <2>1, <2>2 DEF Chosen, Filled
  <1> QED BY <1>1, <1>2, <1>3

------------------------------------------------------------------------------
(* The invariant.                                                           *)

Types ==
    /\ file \in [Names -> Seq(Ids)]
    /\ name \in Names
    /\ status \in BOOLEAN
    /\ lengthScoll \in Nat /\ starthis \in Nat /\ endhis \in Nat /\ indexScoll \in Int
    /\ list \in ListType

\* Once the page is drawn, lengthScoll is the length of the open file.
Windowed == Drawn => lengthScoll = Len(file[name])

Paged == page \in {"history", "detailhistory", "detailpost", "postServer"}

IInv == Types /\ Paged /\ Windowed /\ WindowInFile /\ ScrollbarShowsWindow /\ ChosenFromFile

\* A row that is listed is a record of the open file.
LEMMA ListedIsRecord ==
    ASSUME Types, NEW r \in Int, Listed(r)
    PROVE  IdAt(r) \in Ids /\ IdAt(r) \in {file[name][i] : i \in DOMAIN file[name]}
  <1>1. starthis + r + 1 \in 1..Len(file[name])
    BY DEF Types, Listed
  <1>2. file[name] \in Seq(Ids)
    BY DEF Types
  <1> QED BY <1>1, <1>2 DEF IdAt

\* Listing one row.
LEMMA ListRowOwn ==
    ASSUME Types, NEW r \in Int, NEW l \in ListType
    PROVE  /\ ListRow(l, r) \in ListType
           /\ \/ ListRow(l, r) = l
              \/ /\ r \in choose /\ Listed(r)
                 /\ IdAt(r) \in Ids /\ IdAt(r) \in {file[name][i] : i \in DOMAIN file[name]}
                 /\ Chosen(ListRow(l, r)) \subseteq Chosen(l) \cup {IdAt(r)}
                 /\ Chosen(l) \subseteq Chosen(ListRow(l, r)) \cup {IdAt(r)}
  BY ListedIsRecord, ChoosePostOwn DEF ListRow

\* The two rows that ListRows may list.
LEMMA ListRowsOwn ==
    ASSUME Types, choose \in Touched, ListRows
    PROVE  /\ list' \in ListType
           /\ \A id : (id \in Chosen(list)) # (id \in Chosen(list'))
                  => \E r \in choose : Listed(r) /\ IdAt(r) = id
           /\ Chosen(list') \subseteq Chosen(list) \cup {file[name][i] : i \in DOMAIN file[name]}
  <1>0. choose \subseteq Nat
    BY BoundsAssumption DEF Touched
  <1>1. PICK top \in Int : list' = ListRow(ListRow(list, top), top + 1)
    <2>1. choose # {} => FirstOf(choose) \in Nat
      BY <1>0, LeastNumber
    <2> QED BY <2>1 DEF ListRows
  <1>2. PICK l : l = ListRow(list, top)
    OBVIOUS
  <1>3. l \in ListType /\ list \in ListType
    BY <1>2, ListRowOwn DEF Types
  <1>4. \/ l = list
        \/ /\ top \in choose /\ Listed(top)
           /\ IdAt(top) \in {file[name][i] : i \in DOMAIN file[name]}
           /\ Chosen(l) \subseteq Chosen(list) \cup {IdAt(top)}
           /\ Chosen(list) \subseteq Chosen(l) \cup {IdAt(top)}
    BY <1>2, <1>3, ListRowOwn
  <1>5. list' \in ListType
    BY <1>1, <1>2, <1>3, ListRowOwn
  <1>6. \/ list' = l
        \/ /\ top + 1 \in choose /\ Listed(top + 1)
           /\ IdAt(top + 1) \in {file[name][i] : i \in DOMAIN file[name]}
           /\ Chosen(list') \subseteq Chosen(l) \cup {IdAt(top + 1)}
           /\ Chosen(l) \subseteq Chosen(list') \cup {IdAt(top + 1)}
    BY <1>1, <1>2, <1>3, ListRowOwn
  <1> HIDE DEF ListType
  <1> QED BY <1>4, <1>5, <1>6

------------------------------------------------------------------------------
LEMMA InitIInv == Init => IInv /\ choose \in Touched
  <1> SUFFICES ASSUME Init PROVE IInv /\ choose \in Touched
    OBVIOUS
  <1>1. Types
    <2>1. file \in [Names -> Seq(Ids)]
      BY DEF Init
    <2>2. list \in ListType
      BY DEF Init, EmptyList, ListType
    <2>3. lengthScoll \in Nat /\ starthis \in Nat /\ endhis \in Nat /\ indexScoll \in Int
      BY BoundsAssumption DEF Init
    <2>4. name \in Names /\ status \in BOOLEAN
      BY DEF Init
    <2> QED BY <2>1, <2>2, <2>3, <2>4 DEF Types
  <1> QED BY <1>1 DEF Init, IInv, Paged, Windowed, WindowInFile, ScrollbarShowsWindow,
                      ChosenFromFile, Drawn, Touched

LEMMA NextTouched == choose \in Touched /\ [Next]_vars => choose' \in Touched
  BY DEF Next, OpenFile, Save, Detail, DrawDetail, ListRows, TouchRow, ClearAll, ScrollUp,
         ScrollDown, TouchTrack, LeaveDetail, TouchDetail, Post, DrawPost, ListPost, ScrollPost,
         LeavePost, TouchPost, PostServer, vars, Touched

\* A scroll button moves the window and the bar together.
LEMMA ScrollStays ==
    ASSUME IInv, ScrollUp \/ ScrollDown
    PROVE  /\ starthis' \in Nat /\ endhis' \in Nat /\ indexScoll' \in Int
           /\ WindowInFile' /\ ScrollbarShowsWindow'
  <1>1. /\ Drawn /\ lengthScoll = Len(file[name]) /\ lengthScoll \in Nat
        /\ starthis \in Nat /\ endhis = starthis + Window /\ indexScoll \in Int
        /\ IF lengthScoll > Window THEN endhis <= lengthScoll ELSE starthis = 0
        /\ lengthScoll > Window => indexScoll = starthis
        /\ UNCHANGED <<page, status, file, name, lengthScoll>>
    BY DEF IInv, Types, Windowed, WindowInFile, ScrollbarShowsWindow, Drawn, ScrollUp,
           ScrollDown, TouchDetail
  <1>2. Drawn' /\ Len(file[name])' = lengthScoll
    BY <1>1 DEF Drawn
  <1>3. CASE ScrollUp
    BY <1>1, <1>2, <1>3, BoundsAssumption DEF ScrollUp, Clamp, WindowInFile, ScrollbarShowsWindow
  <1>4. CASE ScrollDown
    BY <1>1, <1>2, <1>4, BoundsAssumption DEF ScrollDown, Clamp, WindowInFile, ScrollbarShowsWindow
  <1> QED BY <1>3, <1>4

LEMMA NextIInv == IInv /\ choose \in Touched /\ [Next]_vars => IInv'
  <1> SUFFICES ASSUME IInv, choose \in Touched, [Next]_vars PROVE IInv'
    OBVIOUS
  <1>1. CASE OpenFile
    BY <1>1 DEF OpenFile, IInv, Types, Paged, Windowed, WindowInFile, ScrollbarShowsWindow,
                ChosenFromFile, Drawn, window, postVars
  <1>2. CASE Save
    <2>1. file' \in [Names -> Seq(Ids)]
      BY <1>2 DEF Save, IInv, Types
    <2> QED BY <1>2, <2>1 DEF Save, IInv, Types, Paged, Windowed, WindowInFile,
                              ScrollbarShowsWindow, ChosenFromFile, Drawn, window
  <1>3. CASE DrawDetail
    <2>0. list' \in ListType
      BY <1>3 DEF DrawDetail, EmptyList, ListType
    <2>2. Len(file[name]) \in Nat /\ Len(file[name])' = Len(file[name])
      BY <1>3 DEF DrawDetail, IInv, Types
    <2>1. Types' /\ Paged' /\ Windowed'
      <3>1. lengthScoll' \in Nat /\ starthis' \in Nat /\ endhis' \in Nat /\ indexScoll' \in Int
        BY <1>3, <2>2, BoundsAssumption DEF DrawDetail
      <3>2. /\ status' \in BOOLEAN /\ UNCHANGED <<file, name, page>>
            /\ lengthScoll' = Len(file[name])'
        BY <1>3, <2>2 DEF DrawDetail
      <3> QED BY <2>0, <3>1, <3>2 DEF IInv, Types, Paged, Windowed
    <2>3. WindowInFile' /\ ScrollbarShowsWindow'
      BY <1>3, <2>2, BoundsAssumption DEF DrawDetail, WindowInFile, ScrollbarShowsWindow, Drawn
    <2>4. Chosen(list') = {}
      BY <1>3 DEF DrawDetail, Chosen, Filled, EmptyList
    <2> QED BY <2>1, <2>3, <2>4 DEF IInv, ChosenFromFile
  <1>4. CASE ListRows
    <2>1. Drawn /\ UNCHANGED <<file, page, name, status, lengthScoll, window>>
      BY <1>4 DEF ListRows, Drawn
    <2>2. list' \in ListType
             /\ Chosen(list') \subseteq Chosen(list) \cup {file[name][i] : i \in DOMAIN file[name]}
      BY <1>4, ListRowsOwn DEF IInv
    <2>3. ChosenFromFile'
      BY <2>1, <2>2 DEF IInv, ChosenFromFile
    <2> QED BY <2>1, <2>2, <2>3 DEF IInv, Types, Paged, Windowed, WindowInFile,
                                    ScrollbarShowsWindow, Drawn, window
  <1>5. CASE ScrollUp \/ ScrollDown
    <2>1. UNCHANGED <<file, page, name, status, lengthScoll, list>>
      BY <1>5 DEF ScrollUp, ScrollDown, TouchDetail
    <2> QED BY <1>5, <2>1, ScrollStays DEF IInv, Types, Paged, Windowed, Drawn, ChosenFromFile
  <1>6. CASE TouchTrack
    <2>1. indexScoll' \in Int /\ (lengthScoll > Window => indexScoll' = starthis)
      BY <1>6, BoundsAssumption DEF TouchTrack, TouchDetail, Clamp, IInv, Types, WindowInFile,
         ScrollbarShowsWindow, Windowed, Drawn
    <2> QED BY <1>6, <2>1 DEF TouchTrack, TouchDetail, IInv, Types, Paged, Windowed,
               WindowInFile, ScrollbarShowsWindow, ChosenFromFile, Drawn
  <1>7. CASE ClearAll
    <2>1. Chosen(list') = {} /\ list' \in ListType
      BY <1>7, BoundsAssumption DEF ClearAll, Chosen, Filled, EmptyList, ListType
    <2> QED BY <1>7, <2>1 DEF ClearAll, TouchDetail, IInv, Types, Paged, Windowed,
               WindowInFile, ScrollbarShowsWindow, ChosenFromFile, Drawn, window
  <1>8. CASE TouchRow
    BY <1>8 DEF TouchRow, TouchDetail, IInv, Types, Paged, Windowed,
                WindowInFile, ScrollbarShowsWindow, ChosenFromFile, Drawn, window
  <1>11. CASE LeaveDetail
    <2>1. UNCHANGED <<file, name, lengthScoll, starthis, endhis, indexScoll, list>> /\ Drawn
      BY <1>11 DEF LeaveDetail, TouchDetail, Drawn, window
    <2>2. Paged' /\ ~ Drawn' /\ status' \in BOOLEAN
      BY <1>11 DEF LeaveDetail, Paged, Drawn
    <2> QED BY <2>1, <2>2 DEF IInv, Types, Windowed, WindowInFile, ScrollbarShowsWindow,
                              ChosenFromFile
  <1>9. CASE Post
    <2>1. indexScoll' \in Int
      BY <1>9, BoundsAssumption DEF Post, DrawPost, ListPost, ScrollPost, LeavePost, TouchPost,
             PostServer, IInv, Types, window
    <2>2. /\ UNCHANGED <<file, name, lengthScoll, starthis, endhis, list>>
          /\ page \in {"detailpost", "postServer"} /\ status' \in BOOLEAN
          /\ Paged' /\ ~ Drawn'
      BY <1>9 DEF Post, DrawPost, ListPost, ScrollPost, LeavePost, TouchPost, PostServer,
                  IInv, Types, Paged, Drawn, window
    <2> QED BY <2>1, <2>2 DEF IInv, Types, Windowed, WindowInFile, ScrollbarShowsWindow,
                              ChosenFromFile
  <1>10. CASE UNCHANGED vars
    BY <1>10 DEF vars, IInv, Types, Paged, Windowed, WindowInFile, ScrollbarShowsWindow,
                 ChosenFromFile, Drawn
  <1> QED BY <1>1, <1>2, <1>3, <1>4, <1>5, <1>6, <1>7, <1>8, <1>9, <1>10, <1>11 DEF Next, Detail

LEMMA SpecIInv == Spec => [](IInv /\ choose \in Touched)
  <1> DEFINE Inv == IInv /\ choose \in Touched
  <1>1. Init => Inv
    BY InitIInv
  <1>2. Inv /\ [Next]_vars => Inv'
    BY NextIInv, NextTouched
  <1> QED BY <1>1, <1>2, PTL DEF Spec

\* The rows listed are rows of the file: one pair of variables serves files of
\* all lengths, and the arrows cannot move it past either end.
THEOREM HistoryWindowInFile == Spec => []WindowInFile
  BY SpecIInv, PTL DEF IInv

\* The scroll bar, clamped by rules of its own, agrees with the window.
THEOREM HistoryScrollbar == Spec => []ScrollbarShowsWindow
  BY SpecIInv, PTL DEF IInv

\* Records chosen from one file never survive into the list of another.
THEOREM HistoryChosenFromFile == Spec => []ChosenFromFile
  BY SpecIInv, PTL DEF IInv

\* Even with holes in the list, a touch changes the choice of its rows only.
THEOREM HistoryOnlyTouchedRows == Spec => OnlyTouchedRows
  <1>1. IInv /\ choose \in Touched /\ [Next]_vars
          => [ListRows => \A id \in Ids :
                (id \in Chosen(list)) # (id \in Chosen(list'))
                   => \E r \in choose : Listed(r) /\ IdAt(r) = id]_vars
    BY ListRowsOwn DEF IInv
  <1> QED BY <1>1, SpecIInv, PTL DEF Spec, OnlyTouchedRows
------------------------------------------------------------------------------
(* As long as nothing was taken out, the list has no hole.                  *)

\* The slots filled are the first n, each with an id of its own.
Holds(l, n) ==
    /\ n \in 0..Slots
    /\ \A i \in 1..Slots : (l[i] # Null) = (i <= n)
    /\ \A i, j \in 1..n : l[i] = l[j] => i = j

Packed(l) == \E n \in Nat : Holds(l, n)

\* The number of filled slots, which is where indexOfChoosePost stops.
LEMMA FilledFirst ==
    ASSUME NEW l \in ListType, NEW n \in Nat, Holds(l, n)
    PROVE  Filled(l) = 1..n /\ Cardinality(Filled(l)) = n
  <1>1. Filled(l) = 1..n
    BY BoundsAssumption DEF Holds, Filled
  <1>2. Cardinality(1..n) = n
    BY FS_Interval
  <1> QED BY <1>1, <1>2

\* Then every id that is chosen is found, and no other.
LEMMA PackedFinds ==
    ASSUME NEW l \in ListType, Packed(l), NEW id \in Ids
    PROVE  id \in Chosen(l) <=> IndexOf(l, id) # {}
  <1>1. PICK n \in Nat : Holds(l, n)
    BY DEF Packed
  <1>2. Filled(l) = 1..n /\ Cardinality(Filled(l)) = n
    BY <1>1, FilledFirst
  <1>3. IndexOf(l, id) = {i \in 1..n : l[i] = id}
    BY <1>1, <1>2, BoundsAssumption DEF IndexOf, Holds
  <1> QED BY <1>2, <1>3 DEF Chosen

\* An id that is not chosen goes behind the others, if there is room.
LEMMA ChooseNext ==
    ASSUME NEW l \in ListType, NEW n \in Nat, Holds(l, n), NEW id \in Ids, id \notin Chosen(l)
    PROVE  IF n = Slots THEN ChoosePost(l, id) = l
           ELSE /\ ChoosePost(l, id) = [l EXCEPT ![n + 1] = id]
                /\ Holds(ChoosePost(l, id), n + 1)
  <1>1. n \in 0..Slots
    BY DEF Holds
  <1>2. Filled(l) = 1..n
    BY FilledFirst
  <1>3. IndexOf(l, id) = {}
    BY PackedFinds DEF Packed
  <1>4. CASE n = Slots
    BY <1>2, <1>3, <1>4 DEF ChoosePost
  <1>5. CASE n # Slots
    <2> DEFINE F == {i \in 1..Slots : l[i] = Null}
    <2>1. n \in 0..Slots /\ n # Slots /\ Filled(l) # 1..Slots
      BY <1>1, <1>2, <1>5, BoundsAssumption
    <2>2. F = (n + 1)..Slots
      BY <2>1, BoundsAssumption DEF Holds
    <2>3. FirstOf(F) \in F /\ \A j \in F : FirstOf(F) <= j
      <3>1. n + 1 \in F /\ \A j \in F : n + 1 <= j
        BY <2>1, <2>2, BoundsAssumption
      <3> QED BY <3>1 DEF FirstOf
    <2>4. FirstOf(F) = n + 1
      BY <2>1, <2>2, <2>3, BoundsAssumption
    <2>5. ChoosePost(l, id) = [l EXCEPT ![n + 1] = id]
      BY <1>3, <2>1, <2>4 DEF ChoosePost
    <2>6. \A i \in 1..Slots : ChoosePost(l, id)[i] = IF i = n + 1 THEN id ELSE l[i]
      BY <2>5, <2>1 DEF ListType
    <2>7. \A i \in 1..n : l[i] # id
      BY <1>2 DEF Chosen
    <2>8. Holds(ChoosePost(l, id), n + 1)
      <3>1. n + 1 \in 0..Slots /\ id # Null
        BY <2>1, BoundsAssumption, NullAssumption
      <3>2. \A i \in 1..Slots : (ChoosePost(l, id)[i] # Null) = (i <= n + 1)
        BY <2>6, <3>1, BoundsAssumption DEF Holds
      <3>3. \A i, j \in 1..(n + 1) : ChoosePost(l, id)[i] = ChoosePost(l, id)[j] => i = j
        <4>1. \A i \in 1..(n + 1) : i \in 1..Slots /\ (i # n + 1 => i \in 1..n)
          BY <2>1, BoundsAssumption
        <4>2. \A i, j \in 1..n : l[i] = l[j] => i = j
          BY DEF Holds
        <4> QED BY <2>6, <2>7, <4>1, <4>2
      <3> QED BY <3>1, <3>2, <3>3 DEF Holds
    <2> QED BY <1>5, <2>5, <2>8
  <1> QED BY <1>4, <1>5

\* So the list stays without holes.
LEMMA ChooseNew ==
    ASSUME NEW l \in ListType, Packed(l), NEW id \in Ids, id \notin Chosen(l)
    PROVE  Packed(ChoosePost(l, id))
  <1>1. PICK n \in Nat : Holds(l, n)
    BY DEF Packed
  <1>2. CASE n = Slots
    BY <1>1, <1>2, ChooseNext
  <1>3. CASE n # Slots
    BY <1>1, <1>3, ChooseNext DEF Packed
  <1> QED BY <1>2, <1>3

\* The empty list has no hole.
LEMMA EmptyPacked == Packed(EmptyList)
  <1>1. Holds(EmptyList, 0)
    BY BoundsAssumption DEF Holds, EmptyList
  <1> QED BY <1>1 DEF Packed

PInv == ~ taken => Packed(list)

\* Rows that are listed and not chosen yet.
LEMMA ListRowsPacked ==
    ASSUME Types, choose \in Touched, ListRows, ~ TouchesChosen, Packed(list)
    PROVE  Packed(list')
  <1>0. choose \subseteq Nat
    BY BoundsAssumption DEF Touched
  <1>1. PICK top \in Int : list' = ListRow(ListRow(list, top), top + 1)
    <2>1. choose # {} => FirstOf(choose) \in Nat
      BY <1>0, LeastNumber
    <2> QED BY <2>1 DEF ListRows
  <1>2. PICK l : l = ListRow(list, top)
    OBVIOUS
  <1>3. l \in ListType /\ list \in ListType
    BY <1>2, ListRowOwn DEF Types
  <1>4. \A r \in choose : Listed(r) => IdAt(r) \notin Chosen(list)
    BY DEF TouchesChosen
  <1>5. Packed(l)
    <2>1. CASE top \in choose /\ Listed(top)
      BY <1>2, <1>3, <1>4, <2>1, ListedIsRecord, ChooseNew DEF ListRow
    <2> QED BY <1>2, <2>1 DEF ListRow
  <1>6. CASE top + 1 \in choose /\ Listed(top + 1)
    <2>1. IdAt(top + 1) \in Ids
      BY <1>6, ListedIsRecord
    <2>2. IdAt(top + 1) \notin Chosen(l)
      <3>1. CASE l = list
        BY <1>4, <1>6, <3>1
      <3>2. CASE l # list
        <4>1. top \in choose /\ Listed(top) /\ Chosen(l) \subseteq Chosen(list) \cup {IdAt(top)}
          BY <1>2, <1>3, <3>2, ListRowOwn
        <4>2. top # top + 1
          OBVIOUS
        <4>3. IdAt(top) # IdAt(top + 1)
          BY <1>6, <4>1, <4>2 DEF TouchesChosen
        <4> QED BY <1>4, <1>6, <4>1, <4>3
      <3> QED BY <3>1, <3>2
    <2>3. list' = ChoosePost(l, IdAt(top + 1))
      BY <1>1, <1>2, <1>6 DEF ListRow
    <2> QED BY <1>3, <1>5, <2>1, <2>2, <2>3, ChooseNew
  <1>7. CASE ~ (top + 1 \in choose /\ Listed(top + 1))
    BY <1>1, <1>2, <1>5, <1>7 DEF ListRow
  <1> QED BY <1>6, <1>7

LEMMA NextPInv ==
    ASSUME IInv, choose \in Touched, PInv, [Next]_vars
    PROVE  PInv'
  <1>1. CASE ListRows
    <2>1. (taken' = (taken \/ TouchesChosen)) /\ Types
      BY <1>1 DEF ListRows, IInv
    <2> QED BY <1>1, <2>1, ListRowsPacked DEF PInv
  <1>2. CASE DrawDetail \/ ClearAll
    BY <1>2, EmptyPacked DEF DrawDetail, ClearAll, PInv
  <1>3. CASE UNCHANGED <<list, taken>>
    BY <1>3 DEF PInv
  <1>4. ListRows \/ DrawDetail \/ ClearAll \/ UNCHANGED <<list, taken>>
    BY DEF Next, OpenFile, Save, Detail, TouchRow, ScrollUp, ScrollDown, TouchTrack,
           LeaveDetail, Post, DrawPost, ListPost, ScrollPost, LeavePost, TouchPost,
           PostServer, vars
  <1> QED BY <1>1, <1>2, <1>3, <1>4

LEMMA SpecPInv == Spec => []PInv
  <1>1. Init => PInv
    BY EmptyPacked DEF Init, PInv
  <1>2. IInv /\ choose \in Touched /\ PInv /\ [Next]_vars => PInv'
    BY NextPInv
  <1> QED BY <1>1, <1>2, SpecIInv, PTL DEF Spec

\* A record is in the list once, until one that is in it is touched again.
THEOREM HistoryChosenOnce == Spec => []ChosenOnce
  <1>1. IInv /\ PInv => ChosenOnce
    <2> SUFFICES ASSUME IInv, PInv, ~ taken PROVE NoDuplicates
      BY DEF ChosenOnce
    <2>1. PICK n \in Nat : Holds(list, n)
      BY DEF PInv, Packed
    <2>2. Filled(list) = 1..n
      BY <2>1, FilledFirst DEF IInv, Types
    <2> QED BY <2>1, <2>2 DEF Holds, NoDuplicates
  <1> QED BY <1>1, SpecIInv, SpecPInv, PTL

\* What indexOfChoosePost finds, and the page highlights, is what is chosen.
THEOREM HistoryHighlight == Spec => []HighlightIsChoice
  <1>1. IInv /\ PInv => HighlightIsChoice
    BY PackedFinds DEF HighlightIsChoice, PInv, IInv, Types
  <1> QED BY <1>1, SpecIInv, SpecPInv, PTL

\* The loop over a list without holes, whose ids are all in the file.
LEMMA PostedRecords ==
    ASSUME NEW n \in Nat, Cardinality(Filled(list)) = n, NEW junk,
           \A i \in 1..n : list[i] # Null /\ Rows(list[i]) # {}
    PROVE  \A i \in 1..n : Posted(junk)[i] = <<name, FirstOf(Rows(list[i]))>>
  <1> DEFINE id(i) == IF list[i] = Null THEN junk ELSE list[i]
             Is(f) == f = [i \in 0..n |-> IF i = 0 THEN buffer
                                          ELSE IF Rows(id(i)) = {} THEN f[i - 1]
                                          ELSE <<name, FirstOf(Rows(id(i)))>>]
             g == [i \in 0..n |-> IF i = 0 THEN buffer
                                  ELSE <<name, FirstOf(Rows(list[i]))>>]
  <1>1. \A i \in 0..n : i = 0 \/ (id(i) = list[i] /\ Rows(id(i)) # {})
    OBVIOUS
  <1>2. Is(g)
    BY <1>1
  <1>3. Posted(junk) = CHOOSE f : Is(f)
    BY DEF Posted
  <1> HIDE DEF Is
  <1>4. Is(Posted(junk))
    BY <1>2, <1>3
  <1>5. \A i \in 1..n : Posted(junk)[i] = <<name, FirstOf(Rows(id(i)))>>
    BY <1>1, <1>4 DEF Is
  <1> QED BY <1>1, <1>5

\* What is posted, slot by slot: the first record with the id in the slot.
LEMMA PostedSlots ==
    ASSUME IInv, NEW n \in Nat, Holds(list, n), PostServer
    PROVE  /\ DOMAIN sent' = 1..n
           /\ \A i \in 1..n : /\ sent'[i] # None /\ sent'[i][1] = name
                              /\ file[name][sent'[i][2]] = list[i]
  <1>1. Filled(list) = 1..n /\ Cardinality(Filled(list)) = n
    BY FilledFirst DEF IInv, Types
  <1>2. Chosen(list) \subseteq {file[name][r] : r \in DOMAIN file[name]}
    BY DEF IInv, ChosenFromFile, PostServer
  <1>3. \A i \in 1..n : list[i] # Null /\ list[i] \in Chosen(list)
    BY <1>1 DEF Chosen, Filled
  <1>4. \A i \in 1..n : Rows(list[i]) # {}
    BY <1>2, <1>3 DEF Rows
  <1>5. \A i \in 1..n : file[name][FirstOf(Rows(list[i]))] = list[i]
    <2>1. TAKE i \in 1..n
    <2>2. Rows(list[i]) \subseteq Nat
      BY DEF Rows, IInv, Types
    <2>3. FirstOf(Rows(list[i])) \in Rows(list[i])
      BY <1>4, <2>2, LeastNumber
    <2> QED BY <2>3 DEF Rows
  <1>6. PICK junk : sent' = [i \in 1..n |-> Posted(junk)[i]]
    BY <1>1 DEF PostServer
  <1>7. DOMAIN sent' = 1..n /\ \A i \in 1..n : sent'[i] = <<name, FirstOf(Rows(list[i]))>>
    BY <1>1, <1>3, <1>4, <1>6, PostedRecords
  <1>8. \A i \in 1..n : sent'[i] # None /\ sent'[i][1] = name
                        /\ sent'[i][2] = FirstOf(Rows(list[i]))
    BY <1>7 DEF None
  <1> QED BY <1>5, <1>7, <1>8

\* Posting sends the chosen records of the open file, one for each.
THEOREM HistoryPostsChoice == Spec => PostsChoice
  <1> DEFINE Sends == /\ \A i \in DOMAIN sent' : sent'[i] # None /\ sent'[i][1] = name
                      /\ {file[name][sent'[i][2]] : i \in DOMAIN sent'} = Chosen(list)
  <1>1. ASSUME IInv, PInv, PostServer, ~ taken
        PROVE  Sends
    <2>1. PICK n \in Nat : Holds(list, n)
      BY <1>1 DEF PInv, Packed
    <2>2. Filled(list) = 1..n
      BY <1>1, <2>1, FilledFirst DEF IInv, Types
    <2>3. DOMAIN sent' = 1..n /\ \A i \in 1..n : sent'[i] # None /\ sent'[i][1] = name
                                              /\ file[name][sent'[i][2]] = list[i]
      BY <1>1, <2>1, PostedSlots
    <2> QED BY <2>2, <2>3 DEF Chosen
  <1>2. IInv /\ PInv /\ [Next]_vars => [PostServer /\ ~ taken => Sends]_vars
    BY <1>1
  <1> QED BY <1>2, SpecIInv, SpecPInv, PTL DEF Spec, PostsChoice
------------------------------------------------------------------------------
(* The rows of the post page.                                               *)

\* The slots that are filled can be counted.
LEMMA FilledCount ==
    ASSUME NEW l
    PROVE  Cardinality(Filled(l)) \in Nat /\ (Cardinality(Filled(l)) = 0 <=> Filled(l) = {})
  <1>1. IsFiniteSet(1..Slots)
    BY BoundsAssumption, FS_Interval
  <1>2. Filled(l) \subseteq 1..Slots
    BY DEF Filled
  <1>3. IsFiniteSet(Filled(l))
    BY <1>1, <1>2, FS_Subset
  <1> QED BY <1>3, FS_CardinalityType, FS_EmptySet

\* endhispost is only made smaller, by each list that is shorter.
RInv == endhispost \in Nat /\ PostRowsFilled

LEMMA NextRInv == RInv /\ [Next]_vars => RInv'
  <1> SUFFICES ASSUME RInv, [Next]_vars PROVE RInv'
    OBVIOUS
  <1>1. CASE ListPost
    <2> DEFINE len == Cardinality(Filled(list))
    <2>1. len \in Nat /\ (len = 0 <=> Filled(list) = {})
      BY FilledCount
    <2>2. endhispost' = IF len > 0 /\ len < endhispost THEN len ELSE endhispost
      BY <1>1 DEF ListPost
    <2>3. list' = list
      BY <1>1 DEF ListPost
    <2>4. Chosen(list) # {} => Filled(list) # {}
      BY DEF Chosen
    <2> HIDE DEF len
    <2>5. endhispost' \in Nat /\ (Chosen(list) # {} => endhispost' <= len)
      BY <2>1, <2>2, <2>4 DEF RInv
    <2> QED BY <2>3, <2>5 DEF RInv, PostRowsFilled, len
  <1>2. CASE endhispost' = endhispost /\ (page' # "detailpost" \/ status' \/ changed')
    BY <1>2 DEF RInv, PostRowsFilled
  <1>3. CASE UNCHANGED <<endhispost, page, status, changed, list>>
    BY <1>3 DEF RInv, PostRowsFilled
  <1>4. \/ ListPost
        \/ endhispost' = endhispost /\ (page' # "detailpost" \/ status' \/ changed')
        \/ UNCHANGED <<endhispost, page, status, changed, list>>
    BY DEF Next, OpenFile, Save, Detail, DrawDetail, ListRows, TouchRow, ClearAll, ScrollUp,
           ScrollDown, TouchTrack, LeaveDetail, TouchDetail, Post, DrawPost, ScrollPost,
           LeavePost, TouchPost, PostServer, vars, postVars
  <1> QED BY <1>1, <1>2, <1>3, <1>4

\* The rows listed on the post page are slots that are filled.
THEOREM HistoryPostRows == Spec => []PostRowsFilled
  <1>1. Init => RInv
    BY BoundsAssumption DEF Init, RInv, PostRowsFilled
  <1>2. RInv => PostRowsFilled
    BY DEF RInv
  <1> QED BY <1>1, <1>2, NextRInv, PTL DEF Spec

------------------------------------------------------------------------------
(* What the buffers hold.                                                   *)

\* A record that is in its file, or none.
Kept(r) == r = None \/ \E n \in Names : \E k \in DOMAIN file[n] : r = <<n, k>>

\* Numbers below which all have some property have it.
LEMMA FirstFailing ==
    ASSUME NEW m \in Nat, NEW S, 0 \in S,
           \A i \in 1..m : i - 1 \in S => i \in S
    PROVE  \A i \in 0..m : i \in S
  <1> DEFINE F == (0..m) \ S
  <1> SUFFICES ASSUME F # {} PROVE FALSE
    OBVIOUS
  <1>1. F \subseteq Nat
    OBVIOUS
  <1>2. PICK i \in F : \A j \in F : i <= j
    <2>1. FirstOf(F) \in F /\ \A j \in F : FirstOf(F) <= j
      <3>1. \E i \in F : \A j \in F : i <= j
        BY <1>1, LeastExists
      <3> QED BY <3>1 DEF FirstOf
    <2> QED BY <2>1
  <1>3. i \in 1..m /\ i - 1 \notin F /\ i - 1 \in 0..m
    BY <1>2
  <1> QED BY <1>2, <1>3

\* The loop of postServer as a function: after each slot the buffers hold the
\* record found last, if one was found.
LEMMA PostedLoop ==
    ASSUME NEW m \in Nat, Cardinality(Filled(list)) = m, NEW junk
    PROVE  LET id(i) == IF list[i] = Null THEN junk ELSE list[i]
           IN  /\ Posted(junk)[0] = buffer
               /\ \A i \in 1..m :
                    Posted(junk)[i] = IF Rows(id(i)) = {} THEN Posted(junk)[i - 1]
                                      ELSE <<name, FirstOf(Rows(id(i)))>>
  <1> DEFINE id(i) == IF list[i] = Null THEN junk ELSE list[i]
             Is(f) == f = [i \in 0..m |-> IF i = 0 THEN buffer
                                          ELSE IF Rows(id(i)) = {} THEN f[i - 1]
                                          ELSE <<name, FirstOf(Rows(id(i)))>>]
             J(i) == {j \in 1..i : Rows(id(j)) # {}}
             Last(S) == CHOOSE j \in S : \A k \in S : k <= j
             At(S) == IF S = {} THEN buffer ELSE <<name, FirstOf(Rows(id(Last(S))))>>
             g == [i \in 0..m |-> At(J(i))]
  <1>1. J(0) = {}
    OBVIOUS
  <1>2. ASSUME NEW i \in 1..m, Rows(id(i)) = {} PROVE J(i) = J(i - 1)
    BY <1>2
  <1>3. ASSUME NEW i \in 1..m, Rows(id(i)) # {} PROVE J(i) # {} /\ Last(J(i)) = i
    <2>1. i \in J(i) /\ \A k \in J(i) : k <= i /\ k \in Int
      BY <1>3
    <2> HIDE DEF J
    <2> QED BY <2>1
  <1> HIDE DEF J, Last
  <1>4. ASSUME NEW i \in 1..m
        PROVE  g[i] = IF Rows(id(i)) = {} THEN g[i - 1] ELSE <<name, FirstOf(Rows(id(i)))>>
    <2>1. g[i] = At(J(i)) /\ g[i - 1] = At(J(i - 1))
      BY <1>4
    <2>2. CASE Rows(id(i)) = {}
      BY <1>2, <2>1, <2>2
    <2>3. CASE Rows(id(i)) # {}
      <3>1. J(i) # {} /\ Last(J(i)) = i
        BY <1>3, <2>3
      <3> QED BY <2>1, <2>3, <3>1
    <2> QED BY <2>2, <2>3
  <1>5. g[0] = buffer
    BY <1>1
  <1>6. PICK h : h = g
    OBVIOUS
  <1>7. Is(h)
    <2> HIDE DEF At
    <2>1. DOMAIN h = 0..m /\ h = [i \in 0..m |-> h[i]]
      BY <1>6
    <2> HIDE DEF g, id
    <2>2. h[0] = buffer /\ \A i \in 1..m : h[i] = IF Rows(id(i)) = {} THEN h[i - 1]
                                                 ELSE <<name, FirstOf(Rows(id(i)))>>
      BY <1>4, <1>5, <1>6
    <2>3. \A i \in 0..m : h[i] = IF i = 0 THEN buffer
                                 ELSE IF Rows(id(i)) = {} THEN h[i - 1]
                                 ELSE <<name, FirstOf(Rows(id(i)))>>
      BY <2>2
    <2> QED BY <2>1, <2>3
  <1>8. Posted(junk) = CHOOSE f : Is(f)
    BY DEF Posted
  <1> HIDE DEF Is
  <1>9. Is(Posted(junk))
    BY <1>7, <1>8
  <1>10. PICK r : r = Posted(junk)
    OBVIOUS
  <1>11. /\ r[0] = buffer
         /\ \A i \in 1..m : r[i] = IF Rows(id(i)) = {} THEN r[i - 1]
                                   ELSE <<name, FirstOf(Rows(id(i)))>>
    <2> HIDE DEF id
    <2>1. Is(r)
      BY <1>9, <1>10
    <2>2. \A i \in 0..m : r[i] = IF i = 0 THEN buffer
                                 ELSE IF Rows(id(i)) = {} THEN r[i - 1]
                                 ELSE <<name, FirstOf(Rows(id(i)))>>
      BY <2>1, Zenon DEF Is
    <2>3. 0 \in 0..m /\ \A i \in 1..m : i \in 0..m /\ i # 0
      OBVIOUS
    <2> QED BY <2>2, <2>3
  <1> QED BY <1>10, <1>11

\* The numbers up to n.
LEMMA FirstNumbers ==
    ASSUME NEW n \in Nat
    PROVE  IsFiniteSet(1..n) /\ Cardinality(1..n) = n
  BY FS_Interval

\* The loop is as long as the filled slots are many, and finds records only.
LEMMA PostedKept ==
    ASSUME Types, Kept(buffer), NEW junk, NEW m \in Nat, m = Cardinality(Filled(list))
    PROVE  m <= Slots /\ \A i \in 0..m : Kept(Posted(junk)[i])
  <1>1. m <= Slots
    <2>1. PICK k \in Nat : k = Slots
      BY BoundsAssumption
    <2>2. IsFiniteSet(1..k) /\ Cardinality(1..k) = k
      BY FirstNumbers
    <2>3. Filled(list) \subseteq 1..k
      BY <2>1 DEF Filled
    <2> QED BY <2>1, <2>2, <2>3, FS_Subset
  <1>2. PICK r : r = Posted(junk)
    OBVIOUS
  <1> DEFINE id(i) == IF list[i] = Null THEN junk ELSE list[i]
  <1>3. /\ r[0] = buffer
        /\ \A i \in 1..m : r[i] = IF Rows(id(i)) = {} THEN r[i - 1]
                                  ELSE <<name, FirstOf(Rows(id(i)))>>
    BY <1>2, PostedLoop
  <1> HIDE DEF id
  <1>4. ASSUME NEW x, Rows(x) # {} PROVE Kept(<<name, FirstOf(Rows(x))>>)
    <2>1. Rows(x) \subseteq Nat
      BY DEF Rows, Types
    <2>2. FirstOf(Rows(x)) \in Rows(x)
      BY <1>4, <2>1, LeastNumber
    <2> QED BY <2>2 DEF Rows, Kept, Types
  <1> DEFINE S == {i \in 0..m : Kept(r[i])}
  <1>5. 0 \in S
    BY <1>3
  <1>6. ASSUME NEW i \in 1..m, i - 1 \in S PROVE i \in S
    <2>1. i \in 0..m /\ Kept(r[i - 1])
      BY <1>6
    <2>2. Kept(r[i])
      <3>1. CASE Rows(id(i)) = {}
        BY <1>3, <2>1, <3>1
      <3>2. CASE Rows(id(i)) # {}
        BY <1>3, <1>4, <3>2
      <3> QED BY <3>1, <3>2
    <2> QED BY <2>1, <2>2
  <1>7. \A i \in 0..m : i \in S
    <2> HIDE DEF S
    <2> QED BY <1>5, <1>6, FirstFailing
  <1> QED BY <1>1, <1>2, <1>7

\* A record that is kept stays where it is: files only grow.
LEMMA KeptOn ==
    ASSUME Types, [Next]_vars, NEW r, Kept(r)
    PROVE  Kept(r)'
  <1>1. \A n \in Names : DOMAIN file[n] \subseteq DOMAIN file'[n]
    <2>1. CASE Save
      BY <2>1 DEF Save, Types
    <2>2. CASE file' = file
      BY <2>2
    <2>3. Save \/ file' = file
      BY DEF Next, OpenFile, Detail, DrawDetail, ListRows, TouchRow, ClearAll, ScrollUp,
             ScrollDown, TouchTrack, LeaveDetail, TouchDetail, Post, DrawPost, ListPost,
             ScrollPost, LeavePost, TouchPost, PostServer, vars
    <2> QED BY <2>1, <2>2, <2>3
  <1> QED BY <1>1 DEF Kept

\* What was sent, and the record read last, is kept in a file.
KInv == Kept(buffer) /\ \A i \in DOMAIN sent : Kept(sent[i])

LEMMA NextKInv == Types /\ KInv /\ [Next]_vars => KInv'
  <1> SUFFICES ASSUME Types, KInv, [Next]_vars PROVE KInv'
    OBVIOUS
  <1>1. CASE PostServer
    <2>1. PICK m \in Nat : m = Cardinality(Filled(list))
      BY FilledCount
    <2>2. PICK junk : sent' = [i \in 1..m |-> Posted(junk)[i]] /\ buffer' = Posted(junk)[m]
      BY <1>1, <2>1 DEF PostServer
    <2>3. \A i \in 0..m : Kept(Posted(junk)[i])
      BY <2>1, PostedKept DEF KInv
    <2>4. Kept(buffer') /\ \A i \in DOMAIN sent' : Kept(sent'[i])
      BY <2>2, <2>3
    <2>5. file' = file
      BY <1>1 DEF PostServer
    <2> QED BY <2>4, <2>5 DEF Kept, KInv
  <1>2. CASE UNCHANGED <<buffer, sent>>
    <2>1. \A r : Kept(r) => Kept(r)'
      BY KeptOn
    <2> QED BY <1>2, <2>1 DEF KInv
  <1>3. PostServer \/ UNCHANGED <<buffer, sent>>
    BY DEF Next, OpenFile, Save, Detail, DrawDetail, ListRows, TouchRow, ClearAll, ScrollUp,
           ScrollDown, TouchTrack, LeaveDetail, TouchDetail, Post, DrawPost, ListPost,
           ScrollPost, LeavePost, TouchPost, vars, postVars
  <1> QED BY <1>1, <1>2, <1>3

\* The other bounds.
Bounds ==
    /\ \A n \in Names : Len(file[n]) <= MaxLen
    /\ lengthScoll <= MaxLen /\ endhispost \in 0..Window
    /\ changed \in BOOLEAN /\ taken \in BOOLEAN
    /\ DOMAIN sent \subseteq 1..Slots

LEMMA NextBounds == Types /\ KInv /\ Bounds /\ [Next]_vars => Bounds'
  <1> SUFFICES ASSUME Types, KInv, Bounds, [Next]_vars PROVE Bounds'
    OBVIOUS
  <1> USE DEF Bounds
  <1>1. CASE Save
    <2>1. \A n \in Names : Len(file'[n]) <= MaxLen
      BY <1>1, BoundsAssumption DEF Save, Types
    <2> QED BY <1>1, <2>1 DEF Save, postVars
  <1>2. CASE DrawDetail
    BY <1>2 DEF DrawDetail, Types, postVars
  <1>3. CASE ListPost
    <2>1. PICK m \in Nat : m = Cardinality(Filled(list))
      BY FilledCount
    <2>2. endhispost' = IF m > 0 /\ m < endhispost THEN m ELSE endhispost
      BY <1>3, <2>1 DEF ListPost
    <2>3. endhispost' \in 0..Window
      BY <2>2, BoundsAssumption
    <2> QED BY <1>3, <2>3 DEF ListPost
  <1>4. CASE PostServer
    <2>1. PICK m \in Nat : m = Cardinality(Filled(list)) /\ m <= Slots
      BY FilledCount, PostedKept DEF KInv
    <2>2. DOMAIN sent' = 1..m
      BY <1>4, <2>1 DEF PostServer
    <2>3. DOMAIN sent' \subseteq 1..Slots
      BY <2>1, <2>2, BoundsAssumption
    <2> QED BY <1>4, <2>3 DEF PostServer
  <1>5. CASE /\ UNCHANGED <<file, lengthScoll, endhispost, sent>>
             /\ changed' \in BOOLEAN /\ taken' \in BOOLEAN
    BY <1>5
  <1>6. \/ Save \/ DrawDetail \/ ListPost \/ PostServer
        \/ /\ UNCHANGED <<file, lengthScoll, endhispost, sent>>
           /\ changed' \in BOOLEAN /\ taken' \in BOOLEAN
    BY DEF Next, OpenFile, Detail, ListRows, TouchRow, ClearAll, ScrollUp,
           ScrollDown, TouchTrack, LeaveDetail, TouchDetail, Post, DrawPost,
           ScrollPost, LeavePost, TouchPost, vars, postVars
  <1> QED BY <1>1, <1>2, <1>3, <1>4, <1>5, <1>6

LEMMA SpecKInv == Spec => [](KInv /\ Bounds)
  <1>1. Init => KInv /\ Bounds
    <2> SUFFICES ASSUME Init PROVE KInv /\ Bounds
      OBVIOUS
    <2>1. KInv
      <3>1. buffer = None /\ sent = <<>>
        BY DEF Init
      <3>2. DOMAIN sent = {}
        BY <3>1
      <3> QED BY <3>1, <3>2, Zenon DEF KInv, Kept
    <2>2. \A n \in Names : Len(file[n]) <= MaxLen
      BY BoundsAssumption DEF Init
    <2>3. DOMAIN sent \subseteq 1..Slots
      <3>1. sent = <<>>
        BY DEF Init
      <3> QED BY <3>1
    <2>4. lengthScoll <= MaxLen /\ endhispost \in 0..Window
      BY BoundsAssumption DEF Init
    <2>5. changed \in BOOLEAN /\ taken \in BOOLEAN
      BY DEF Init
    <2> QED BY <2>1, <2>2, <2>3, <2>4, <2>5 DEF Bounds
  <1>2. IInv /\ KInv /\ Bounds /\ [Next]_vars => (KInv /\ Bounds)'
    BY NextKInv, NextBounds DEF IInv
  <1> QED BY <1>1, <1>2, SpecIInv, PTL DEF Spec

\* Type correctness: above all, what postServer posts is a record of a file, or
\* nothing if nothing was ever parsed, although ids are looked for that may be
\* those of empty slots and files grow between two visits.
THEOREM HistoryTypeOK == Spec => []TypeOK
  <1>1. IInv /\ choose \in Touched /\ KInv /\ Bounds => TypeOK
    <2> SUFFICES ASSUME IInv, choose \in Touched, KInv, Bounds PROVE TypeOK
      OBVIOUS
    <2>1. ASSUME NEW r, Kept(r) PROVE r \in Records \cup {None}
      BY <2>1, BoundsAssumption DEF Kept, Records, IInv, Types, Bounds
    <2> QED BY <2>1 DEF TypeOK, IInv, Types, ListType, Paged, KInv, Bounds
  <1> QED BY <1>1, SpecIInv, SpecKInv, PTL

------------------------------------------------------------------------------
(* The list implements Choice.                                              *)

\* The slots filled as a sequence.
LEMMA InOrderOf ==
    ASSUME NEW l \in ListType, NEW n \in Nat, Holds(l, n)
    PROVE  /\ InOrder(l) = [i \in 1..n |-> l[i]] /\ Len(InOrder(l)) = n
           /\ InOrder(l) \in Seq(Ids) /\ n <= Slots
  <1>1. Filled(l) = 1..n /\ Cardinality(Filled(l)) = n
    BY FilledFirst
  <1>2. n <= Slots /\ \A i \in 1..n : l[i] \in Ids
    BY <1>1, BoundsAssumption DEF Holds, Filled, ListType
  <1>3. InOrder(l) = [i \in 1..n |-> l[i]]
    BY <1>1 DEF InOrder
  <1> QED BY <1>2, <1>3

\* An id is chosen if it is in the sequence.
LEMMA NewInOrder ==
    ASSUME NEW l \in ListType, Packed(l), NEW id \in Ids, id \notin Chosen(l)
    PROVE  id \in C!New(InOrder(l))
  <1>1. PICK n \in Nat : Holds(l, n)
    BY DEF Packed
  <1>2. InOrder(l) = [i \in 1..n |-> l[i]]
    BY <1>1, InOrderOf
  <1>3. Filled(l) = 1..n
    BY <1>1, FilledFirst
  <1> QED BY <1>2, <1>3 DEF Chosen, C!New

\* A new id goes to the end of the sequence, or nowhere if the list is full.
LEMMA InOrderAdds ==
    ASSUME NEW l \in ListType, Packed(l), NEW id \in Ids, id \notin Chosen(l)
    PROVE  InOrder(ChoosePost(l, id)) = C!Add(InOrder(l), id)
  <1>1. PICK n \in Nat : Holds(l, n)
    BY DEF Packed
  <1>2. PICK c \in Seq(Ids) : c = InOrder(l) /\ c = [i \in 1..n |-> l[i]] /\ Len(c) = n
    BY <1>1, InOrderOf
  <1>3. CASE n = Slots
    <2>1. ChoosePost(l, id) = l /\ ~ (Len(c) < Slots)
      BY <1>1, <1>2, <1>3, ChooseNext
    <2> QED BY <1>2, <2>1 DEF C!Add
  <1>4. CASE n # Slots
    <2>1. ChoosePost(l, id) = [l EXCEPT ![n + 1] = id] /\ Holds(ChoosePost(l, id), n + 1)
      BY <1>1, <1>4, ChooseNext
    <2>2. PICK next \in ListType : next = ChoosePost(l, id)
      BY ChoosePostOwn
    <2>3. n < Slots /\ n + 1 \in 1..Slots
      BY <1>1, <1>4, BoundsAssumption DEF Holds
    <2>4. InOrder(next) = [i \in 1..(n + 1) |-> next[i]]
      <3>1. Holds(next, n + 1) /\ n + 1 \in Nat
        BY <2>1, <2>2
      <3> QED BY <3>1, InOrderOf
    <2>5. \A i \in 1..(n + 1) : next[i] = IF i = n + 1 THEN id ELSE l[i]
      BY <2>1, <2>2, <2>3 DEF ListType
    <2>6. Append(c, id) = [i \in 1..(n + 1) |-> IF i = n + 1 THEN id ELSE l[i]]
      <3>1. \A i \in 1..n : c[i] = l[i]
        BY <1>2
      <3>2. Append(c, id) = [i \in 1..(n + 1) |-> IF i = n + 1 THEN id ELSE c[i]]
        BY <1>2
      <3> QED BY <3>1, <3>2
    <2>7. InOrder(ChoosePost(l, id)) = Append(c, id)
      BY <2>2, <2>4, <2>5, <2>6
    <2> QED BY <1>2, <2>3, <2>7 DEF C!Add
  <1> QED BY <1>3, <1>4

\* A list without ids is the empty sequence.
LEMMA InOrderEmpty == InOrder(EmptyList) = <<>>
  <1>1. EmptyList \in ListType /\ Holds(EmptyList, 0)
    BY BoundsAssumption DEF Holds, EmptyList, ListType
  <1>2. InOrder(EmptyList) = [i \in 1..0 |-> EmptyList[i]]
    BY <1>1, InOrderOf
  <1> QED BY <1>2

\* Rows that are listed and not chosen yet are chosen, or nothing happens.
LEMMA ListRowsChoose ==
    ASSUME Types, choose \in Touched, ListRows, ~ TouchesChosen, Packed(list)
    PROVE  \/ InOrder(list') = InOrder(list)
           \/ \E id \in C!New(InOrder(list)) :
                \/ InOrder(list') = C!Add(InOrder(list), id)
                \/ \E next \in C!New(InOrder(list)) \ {id} :
                     InOrder(list') = C!Add(C!Add(InOrder(list), id), next)
  <1>0. choose \subseteq Nat
    BY BoundsAssumption DEF Touched
  <1>1. PICK top \in Int : list' = ListRow(ListRow(list, top), top + 1)
    <2>1. choose # {} => FirstOf(choose) \in Nat
      BY <1>0, LeastNumber
    <2> QED BY <2>1 DEF ListRows
  <1>2. list \in ListType
    BY DEF Types
  <1> DEFINE Taken(r) == r \in choose /\ Listed(r)
  <1>3. ASSUME NEW r \in Int, Taken(r)
        PROVE  IdAt(r) \in Ids /\ IdAt(r) \notin Chosen(list)
    BY <1>3, ListedIsRecord DEF TouchesChosen
  <1>4. PICK l : l = ListRow(list, top)
    OBVIOUS
  <1>5. CASE ~ Taken(top + 1)
    <2>1. list' = l
      BY <1>1, <1>4, <1>5 DEF ListRow
    <2>2. CASE Taken(top)
      <3>1. l = ChoosePost(list, IdAt(top)) /\ IdAt(top) \in C!New(InOrder(list))
        BY <1>2, <1>3, <1>4, <2>2, NewInOrder DEF ListRow
      <3>2. InOrder(l) = C!Add(InOrder(list), IdAt(top))
        BY <1>2, <1>3, <2>2, <3>1, InOrderAdds
      <3> QED BY <2>1, <3>1, <3>2
    <2>3. CASE ~ Taken(top)
      BY <1>4, <2>1, <2>3 DEF ListRow
    <2> QED BY <2>2, <2>3
  <1>6. CASE Taken(top + 1)
    <2>1. list' = ChoosePost(l, IdAt(top + 1)) /\ IdAt(top + 1) \in C!New(InOrder(list))
      BY <1>1, <1>2, <1>3, <1>4, <1>6, NewInOrder DEF ListRow
    <2>2. CASE Taken(top)
      <3>1. l = ChoosePost(list, IdAt(top)) /\ IdAt(top) \in C!New(InOrder(list))
        BY <1>2, <1>3, <1>4, <2>2, NewInOrder DEF ListRow
      <3>2. InOrder(l) = C!Add(InOrder(list), IdAt(top))
        BY <1>2, <1>3, <2>2, <3>1, InOrderAdds
      <3>3. IdAt(top) # IdAt(top + 1)
        <4>1. top # top + 1
          OBVIOUS
        <4> QED BY <1>6, <2>2, <4>1 DEF TouchesChosen
      <3>4. l \in ListType /\ Packed(l) /\ IdAt(top + 1) \notin Chosen(l)
        BY <1>2, <1>3, <1>6, <2>2, <3>1, <3>3, ChoosePostOwn, ChooseNew
      <3>5. InOrder(list') = C!Add(InOrder(l), IdAt(top + 1))
        BY <1>3, <1>6, <2>1, <3>4, InOrderAdds
      <3> QED BY <2>1, <3>1, <3>2, <3>3, <3>5
    <2>3. CASE ~ Taken(top)
      <3>1. l = list
        BY <1>4, <2>3 DEF ListRow
      <3>2. InOrder(list') = C!Add(InOrder(list), IdAt(top + 1))
        BY <1>2, <1>3, <1>6, <2>1, <3>1, InOrderAdds
      <3> QED BY <2>1, <3>2
    <2> QED BY <2>2, <2>3
  <1> QED BY <1>5, <1>6

\* What was posted stays what it is while files grow.
LEMMA PostedStays ==
    ASSUME Types, KInv, [Next]_vars, sent' = sent
    PROVE  PostedIds' = PostedIds
  <1>1. ASSUME NEW n \in Names, NEW k \in DOMAIN file[n] PROVE file'[n][k] = file[n][k]
    <2>1. CASE Save
      BY <1>1, <2>1 DEF Save, Types
    <2>2. CASE file' = file
      BY <2>2
    <2>3. Save \/ file' = file
      BY DEF Next, OpenFile, Detail, DrawDetail, ListRows, TouchRow, ClearAll, ScrollUp,
             ScrollDown, TouchTrack, LeaveDetail, TouchDetail, Post, DrawPost, ListPost,
             ScrollPost, LeavePost, TouchPost, PostServer, vars
    <2> QED BY <2>1, <2>2, <2>3
  <1>2. ASSUME NEW i \in DOMAIN sent, sent[i] # None
        PROVE  file'[sent[i][1]][sent[i][2]] = file[sent[i][1]][sent[i][2]]
    <2>1. PICK n \in Names : \E k \in DOMAIN file[n] : sent[i] = <<n, k>>
      BY <1>2 DEF KInv, Kept
    <2>2. PICK k \in DOMAIN file[n] : sent[i] = <<n, k>>
      BY <2>1
    <2> QED BY <1>1, <2>2
  <1> QED BY <1>2 DEF PostedIds

\* Each step, unless it takes a chosen record out, is one that Choice allows.
LEMMA NextChoice ==
    ASSUME IInv, choose \in Touched, PInv, KInv, [Next]_vars, ~ taken'
    PROVE  [C!Next]_(C!vars)
  <1>1. CASE ListRows
    <2>1. Types /\ Packed(list) /\ ~ TouchesChosen
      BY <1>1 DEF ListRows, IInv, PInv
    <2>2. PostedIds' = PostedIds
      BY <1>1, <2>1, PostedStays DEF ListRows, postVars
    <2> QED BY <1>1, <2>1, <2>2, ListRowsChoose DEF C!Next, C!Choose, C!vars
  <1>2. CASE DrawDetail \/ ClearAll
    <2>1. list' = EmptyList /\ sent' = sent
      BY <1>2 DEF DrawDetail, ClearAll, TouchDetail, postVars
    <2>2. PostedIds' = PostedIds
      BY <2>1, PostedStays DEF IInv
    <2>3. InOrder(list') = <<>>
      BY <2>1, InOrderEmpty
    <2> QED BY <2>2, <2>3 DEF C!Next, C!Clear
  <1>3. CASE PostServer
    <2>1. list' = list /\ file' = file /\ Packed(list) /\ list \in ListType
      BY <1>3 DEF PostServer, PInv, IInv, Types
    <2>2. PICK n \in Nat : Holds(list, n)
      BY <2>1 DEF Packed
    <2>3. InOrder(list) = [i \in 1..n |-> list[i]]
      BY <2>1, <2>2, InOrderOf
    <2>4. DOMAIN sent' = 1..n /\ \A i \in 1..n : sent'[i] # None /\ sent'[i][1] = name
                                              /\ file[name][sent'[i][2]] = list[i]
      BY <1>3, <2>2, PostedSlots
    <2>5. PostedIds' = InOrder(list)
      BY <2>1, <2>3, <2>4 DEF PostedIds
    <2> QED BY <2>1, <2>5 DEF C!Next, C!Post
  <1>4. CASE UNCHANGED <<list, sent>>
    <2>1. PostedIds' = PostedIds
      BY <1>4, PostedStays DEF IInv
    <2> QED BY <1>4, <2>1 DEF C!vars
  <1>5. ListRows \/ DrawDetail \/ ClearAll \/ PostServer \/ UNCHANGED <<list, sent>>
    BY DEF Next, OpenFile, Save, Detail, TouchRow, ScrollUp, ScrollDown, TouchTrack,
           LeaveDetail, TouchDetail, Post, DrawPost, ListPost, ScrollPost, LeavePost,
           TouchPost, vars, postVars
  <1> QED BY <1>1, <1>2, <1>3, <1>4, <1>5

\* It starts empty, with nothing posted.
LEMMA InitChoice == Init => C!Init
  <1> SUFFICES ASSUME Init PROVE C!Init
    OBVIOUS
  <1>1. list = EmptyList /\ sent = <<>>
    BY DEF Init
  <1>2. PostedIds = <<>>
    BY <1>1 DEF PostedIds
  <1> QED BY <1>1, <1>2, InOrderEmpty DEF C!Init

\* Choosing records is what Choice says, from one emptying of the list to the
\* next or until a chosen record is touched again: records are chosen once and
\* in their order, up to the number of slots, and posted in this order.
THEOREM HistoryFollowsChoice == Spec => FollowsChoice
  <1>1. IInv /\ choose \in Touched /\ PInv /\ KInv /\ [Next]_vars
          => [~ taken' => [C!Next]_(C!vars)]_vars
    BY NextChoice
  <1> QED BY <1>1, InitChoice, SpecIInv, SpecPInv, SpecKInv, PTL DEF Spec, FollowsChoice

\* Where no chosen record is touched again, the pages implement Choice.
THEOREM HistoryImplementsChoice == Spec /\ [](~ taken) => C!Spec
  <1>1. IInv /\ choose \in Touched /\ PInv /\ KInv /\ ~ taken' /\ [Next]_vars
          => [C!Next]_(C!vars)
    BY NextChoice
  <1> QED BY <1>1, InitChoice, SpecIInv, SpecPInv, SpecKInv, PTL DEF Spec, C!Spec
==============================================================================
