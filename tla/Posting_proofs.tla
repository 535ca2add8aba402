---------------------------- MODULE Posting_proofs ---------------------------
(****************************************************************************)
(* Posting any number of rows on any number of visits, with any number of   *)
(* connections and a clock of any width: a row is drawn as done for its own *)
(* answer only, the rows are sent in order and once a visit, as Delivery    *)
(* promises, and every step of the device brings the end of the page nearer.*)
(****************************************************************************)
EXTENDS Posting, TLAPS

------------------------------------------------------------------------------
(* The inductive invariant.                                                 *)

\* A row is being posted.
Posted == pc \in {"connecting", "protocol", "waiting"}

\* connectWifi is under way only for a row, and counts to two.
EspOK ==
    /\ up \in BOOLEAN /\ failures \in 0..2
    /\ wifi \in {"idle", "status", "begin", "check", "connected", "disconnected"}
    /\ wifi # "idle" => pc = "connecting"

\* Where the loop's variable is, and that answers are read only while waiting.
Placed ==
    /\ pc = "away" => row \in {0, Rows + 1}
    /\ pc = "row" => row \in 1..(Rows + 1)
    /\ Posted => row \in 1..Rows
    /\ pc # "away" => visit \in 1..Visits
    /\ pc # "waiting" => answers = {} /\ ~heard

\* A record is on its way to the server, or stored there, at most once, and
\* only if its row was begun.
SentOnce ==
    \A d \in Sends : /\ requests[d] + stored[d] <= 1
                     /\ d \notin begun => requests[d] + stored[d] = 0

\* What was begun is behind the row of this visit, or is this row, waiting.
BegunInOrder ==
    /\ pc = "waiting" => This \in begun
    /\ \A d \in begun :
         /\ d[1] <= visit
         /\ d[1] = visit /\ pc # "away" => d[2] < row \/ (d[2] = row /\ pc = "waiting")

\* The request or an answer to it is still to come.
Outstanding == requests[This] > 0 \/ answers # {}

\* A request has one answer, so that the connection is given back once.
AnsweredOnce ==
    pc = "waiting" =>
        /\ requests[This] > 0 => answers = {} /\ ~heard
        /\ \A a, b \in answers : a = b
        /\ Outstanding => links > 0

\* What is heard, or about to be, comes from this row's request.
Vouched(d) == stored[d] > 0 \/ d \in mistaken

HeardTruly ==
    pc = "waiting" =>
        /\ "yes" \in answers => stored[This] > 0
        /\ "no, 200" \in answers => This \in mistaken
        /\ heard => Vouched(This)

\* However millis() wraps, what is left of the wait is at most ten seconds.
WaitBounded == pc = "waiting" => limit <= now + Wait

IInv ==
    /\ TypeOK /\ EspOK /\ Placed /\ SentOnce /\ BegunInOrder
    /\ AnsweredOnce /\ HeardTruly /\ DoneStored /\ WaitBounded

------------------------------------------------------------------------------
(* Lemmas.                                                                  *)

\* A remainder is below its divisor and not above the number.
LEMMA Remainder ==
    ASSUME NEW n \in Nat, NEW k \in Nat \ {0}
    PROVE  n % k \in 0..(k - 1) /\ n % k <= n
<1>1. n \div k \in Nat /\ n % k \in Nat /\ n % k < k /\ n = k * (n \div k) + (n % k)
  OBVIOUS
<1>2. \A q \in Nat, j \in Nat : q * j \in Nat
  OBVIOUS
<1>3. k * (n \div k) \in Nat
  BY <1>1, <1>2
<1> QED BY <1>1, <1>3

\* A number below the divisor is its own remainder.
LEMMA RemainderBelow ==
    ASSUME NEW k \in Nat \ {0}, NEW n \in 0..(k - 1)
    PROVE  n % k = n
<1>1. n \div k \in Nat /\ n % k \in Nat /\ n = k * (n \div k) + (n % k)
  OBVIOUS
<1>2. \A q \in Nat : q # 0 => k * q >= k /\ k * q \in Nat
  <2>1. ASSUME NEW q \in Nat, q # 0 PROVE k * q >= k /\ k * q \in Nat
    <3>1. PICK p \in Nat : q = p + 1
      BY <2>1
    <3>2. k * q = k * p + k /\ k * p \in Nat
      BY <3>1
    <3> QED BY <3>2
  <2> QED BY <2>1
<1>3. n \div k = 0
  BY <1>1, <1>2
<1>4. k * 0 = 0
  OBVIOUS
<1> QED BY <1>1, <1>3, <1>4

\* The row that is being posted is one of the sends.
LEMMA ThisSend == Placed /\ TypeOK /\ Posted => This \in Sends
BY DEF Placed, TypeOK, Posted, This, Sends

\* Four actions draw a result and go on to the next row.
Showing == NotConnected \/ Mqtt \/ NotOpened \/ WaitOver

LEMMA ShowingShows ==
    ASSUME Showing, IInv
    PROVE  /\ Posted /\ links' = links /\ limit' = limit
           /\ wifi' = "idle" /\ failures' \in 0..2 /\ up' = up
           /\ \E res \in {"done", "fail"} :
                 Show(res) /\ (res = "done" => pc = "waiting" /\ heard)
<1>1. CASE NotConnected
  BY <1>1 DEF NotConnected, Returned, Posted, IInv, EspOK
<1>2. CASE Mqtt \/ NotOpened
  BY <1>2 DEF Mqtt, NotOpened, Posted, espVars, IInv, EspOK
<1>3. CASE WaitOver
  BY <1>3 DEF WaitOver, Posted, espVars, IInv, EspOK
<1> QED BY <1>1, <1>2, <1>3 DEF Showing

LEMMA InitIInv == Init => IInv
<1> SUFFICES ASSUME Init PROVE IInv
  OBVIOUS
<1>1. up \in BOOLEAN
  BY Zenon DEF Init, EspInit
<1>0. heard \in BOOLEAN
  BY Zenon DEF Init
<1> USE PostingAssumption DEF Init, EspInit
<1>2. TypeOK
  BY <1>0 DEF TypeOK, NoResults, Sends, Says
<1>3. EspOK /\ Placed /\ SentOnce /\ BegunInOrder
  BY <1>1 DEF EspOK, Placed, SentOnce, BegunInOrder, Posted
<1>4. AnsweredOnce /\ HeardTruly /\ DoneStored /\ WaitBounded
  BY DEF AnsweredOnce, HeardTruly, DoneStored, WaitBounded, NoResults
<1> QED BY <1>2, <1>3, <1>4 DEF IInv

LEMMA NextTypeOK ==
    ASSUME IInv, [Next]_vars
    PROVE  TypeOK'
<1> USE PostingAssumption DEF TypeOK, IInv
<1>1. CASE Tick
  <2>1. now' \in 0..(Wrap - 1)
    BY <1>1, Remainder DEF Tick
  <2> QED BY <1>1, <2>1 DEF Tick, net, page
<1>2. CASE Serve
  <2>1. PICK d \in Sends, a \in Says :
          /\ requests[d] > 0
          /\ requests' = [requests EXCEPT ![d] = @ - 1]
          /\ stored' = IF a = "yes" THEN [stored EXCEPT ![d] = @ + 1] ELSE stored
          /\ answers' = IF d = This /\ pc = "waiting" THEN answers \cup {a} ELSE answers
          /\ mistaken' = IF a = "no, 200" THEN mistaken \cup {d} ELSE mistaken
    BY <1>2 DEF Serve
  <2>a. requests' \in [Sends -> Nat]
    <3>1. requests[d] - 1 \in Nat
      <4>1. requests[d] \in Nat /\ requests[d] > 0
        BY <2>1, Zenon
      <4> QED BY <4>1
    <3> QED BY <2>1, <3>1
  <2>b. [stored EXCEPT ![d] = @ + 1] \in [Sends -> Nat]
    OBVIOUS
  <2>2. requests' \in [Sends -> Nat] /\ stored' \in [Sends -> Nat]
    BY <2>1, <2>a, <2>b, Zenon
  <2>3. answers' \subseteq Says /\ mistaken' \subseteq Sends
    BY <2>1
  <2> QED BY <1>2, <2>2, <2>3 DEF Serve, page
<1>3. CASE LoseRequest
  <2>1. requests' \in [Sends -> Nat]
    BY <1>3 DEF LoseRequest
  <2> QED BY <1>3, <2>1 DEF LoseRequest, page
<1>4. CASE LoseAnswer
  BY <1>4 DEF LoseAnswer, page
<1>5. CASE PowerCycle
  <2>1. heard' \in BOOLEAN
    BY <1>5 DEF PowerCycle
  <2>2. result' \in [1..Rows -> {"none", "done", "fail"}]
    BY <1>5 DEF PowerCycle, NoResults
  <2> QED BY <1>5, <2>1, <2>2 DEF PowerCycle
<1>6. CASE Flap /\ UNCHANGED <<pc, links, now, limit, heard, net, page>>
  BY <1>6 DEF net, page
<1>7. CASE ChooseMethod
  BY <1>7 DEF ChooseMethod, net
<1>8. CASE Elsewhere
  BY <1>8 DEF Elsewhere, net, page
<1>9. CASE Visit
  BY <1>9 DEF Visit, net, NoResults
<1>10. CASE Leave \/ BeginRow \/ Connect \/ Connected
  BY <1>10 DEF Leave, BeginRow, Connect, Connected, net, page
<1>11. CASE Showing
  <2>1. row \in 1..Rows
    BY <1>11, ShowingShows DEF Placed
  <2>2. PICK res \in {"done", "fail"} : Show(res)
    BY <1>11, ShowingShows
  <2>3. result' \in [1..Rows -> {"none", "done", "fail"}]
    BY <2>2 DEF Show
  <2>4. heard' \in BOOLEAN
    BY <2>2 DEF Show
  <2>5. links' = links /\ limit' = limit
    BY <1>11, ShowingShows
  <2>6. pc' = "row" /\ row' = row + 1 /\ answers' = {}
          /\ UNCHANGED <<now, requests, stored, mistaken, method, visit, begun>>
    BY <2>2 DEF Show
  <2> QED BY <2>1, <2>3, <2>4, <2>5, <2>6
<1>12. CASE Open
  <2>1. This \in Sends
    BY <1>12, ThisSend DEF Open, Posted
  <2>2. limit' \in 0..(Wrap - 1)
    BY <1>12, Remainder DEF Open
  <2>3. requests' \in [Sends -> Nat] /\ begun' \subseteq Sends
    BY <1>12, <2>1 DEF Open
  <2>4. heard' \in BOOLEAN
    BY <1>12 DEF Open
  <2>5. links' \in 0..Links
    BY <1>12 DEF Open
  <2>6. UNCHANGED <<now, answers, stored, mistaken, method, visit, row, result>>
        /\ pc' = "waiting"
    BY <1>12 DEF Open
  <2> QED BY <2>2, <2>3, <2>4, <2>5, <2>6
<1>13. CASE Hear
  <2>1. links' \in 0..Links
    BY <1>13 DEF Hear, AnsweredOnce, Outstanding
  <2>2. heard' \in BOOLEAN /\ answers' \subseteq Says
    BY <1>13 DEF Hear
  <2> QED BY <1>13, <2>1, <2>2 DEF Hear, page
<1>14. CASE UNCHANGED vars
  BY <1>14 DEF vars, net, page
<1> QED BY <1>1, <1>2, <1>3, <1>4, <1>5, <1>6, <1>7, <1>8, <1>9, <1>10, <1>11, <1>12, <1>13, <1>14
        DEF Next, World, User, Device, Showing

\* What the server does to one request.
LEMMA ServeOne ==
    ASSUME Serve, IInv
    PROVE  /\ UNCHANGED <<espVars, pc, links, now, limit, heard, page>>
           /\ \E d \in Sends, a \in Says :
                /\ requests[d] \in Nat /\ requests[d] > 0
                /\ requests' = [requests EXCEPT ![d] = @ - 1]
                /\ a = "yes" => stored' = [stored EXCEPT ![d] = @ + 1]
                /\ a # "yes" => stored' = stored
                /\ d = This /\ pc = "waiting" => answers' = answers \cup {a}
                /\ ~ (d = This /\ pc = "waiting") => answers' = answers
                /\ a = "no, 200" => mistaken' = mistaken \cup {d}
                /\ a # "no, 200" => mistaken' = mistaken
<1>1. PICK d \in Sends, a \in Says :
          /\ requests[d] > 0
          /\ requests' = [requests EXCEPT ![d] = @ - 1]
          /\ stored' = IF a = "yes" THEN [stored EXCEPT ![d] = @ + 1] ELSE stored
          /\ answers' = IF d = This /\ pc = "waiting" THEN answers \cup {a} ELSE answers
          /\ mistaken' = IF a = "no, 200" THEN mistaken \cup {d} ELSE mistaken
  BY DEF Serve
<1>2. requests[d] \in Nat
  BY DEF IInv, TypeOK
<1>3. UNCHANGED <<espVars, pc, links, now, limit, heard, page>>
  BY DEF Serve
<1> QED BY <1>1, <1>2, <1>3, Zenon

\* A request that is lost was on its way.
LEMMA LoseOne ==
    ASSUME LoseRequest, IInv
    PROVE  /\ UNCHANGED <<espVars, pc, links, now, limit, heard, answers, stored, mistaken, page>>
           /\ \E d \in Sends : /\ requests[d] \in Nat /\ requests[d] > 0
                              /\ requests' = [requests EXCEPT ![d] = @ - 1]
BY DEF LoseRequest, IInv, TypeOK

LEMMA NextEspOK ==
    ASSUME IInv, [Next]_vars
    PROVE  EspOK'
<1> USE DEF EspOK, IInv
<1>1. CASE Tick \/ Serve \/ LoseRequest \/ LoseAnswer \/ User \/ Leave \/ Open \/ Hear
  BY <1>1 DEF Tick, Serve, LoseRequest, LoseAnswer, User, ChooseMethod, Elsewhere, Visit,
              Leave, Open, Hear, espVars
<1>2. CASE PowerCycle
  BY <1>2 DEF PowerCycle, Returned
<1>3. CASE Flap /\ UNCHANGED <<pc, links, now, limit, heard, net, page>>
  <2>1. up' \in BOOLEAN
    BY <1>3 DEF Flap
  <2> QED BY <1>3, <2>1 DEF Flap
<1>4. CASE BeginRow
  <2>1. up' \in BOOLEAN /\ wifi' = "status" /\ failures' = 0 /\ pc' = "connecting"
    BY <1>4 DEF BeginRow, Call
  <2> QED BY <2>1
<1>5. CASE Connect
  <2>1. pc = "connecting" /\ pc' = pc
    BY <1>5 DEF Connect
  <2>2. up' = up
    BY <1>5 DEF Connect, Step, Status, Begin, Check
  <2>3. failures' \in 0..2 /\ wifi' \in {"status", "begin", "check", "connected", "disconnected"}
    BY <1>5 DEF Connect, Step, Status, Begin, Check
  <2> QED BY <2>1, <2>2, <2>3
<1>6. CASE Connected
  BY <1>6 DEF Connected, Returned
<1>7. CASE Showing
  <2>1. wifi' = "idle" /\ failures' \in 0..2 /\ up' = up
    BY <1>7, ShowingShows
  <2> QED BY <2>1
<1>8. CASE UNCHANGED vars
  BY <1>8 DEF vars, espVars
<1> QED BY <1>1, <1>2, <1>3, <1>4, <1>5, <1>6, <1>7, <1>8 DEF Next, World, Device, Showing

LEMMA NextPlaced ==
    ASSUME IInv, [Next]_vars
    PROVE  Placed'
<1> USE PostingAssumption DEF Placed, IInv, Posted, TypeOK
<1>1. CASE Tick \/ LoseRequest \/ ChooseMethod \/ Elsewhere \/ Leave \/ BeginRow \/ Connect
             \/ Connected
  BY <1>1 DEF Tick, LoseRequest, ChooseMethod, Elsewhere, Leave, BeginRow, Connect, Connected,
              net, page
<1>2. CASE Serve
  <2>1. pc # "waiting" => answers' = answers
    BY <1>2, ServeOne
  <2> QED BY <1>2, <2>1 DEF Serve, page
<1>3. CASE LoseAnswer
  BY <1>3 DEF LoseAnswer, page
<1>4. CASE PowerCycle
  BY <1>4 DEF PowerCycle
<1>5. CASE Flap /\ UNCHANGED <<pc, links, now, limit, heard, net, page>>
  BY <1>5 DEF net, page
<1>6. CASE Visit
  BY <1>6 DEF Visit, net
<1>7. CASE Showing
  <2>1. row \in 1..Rows /\ visit \in 1..Visits
    BY <1>7, ShowingShows
  <2>2. pc' = "row" /\ row' = row + 1 /\ visit' = visit /\ answers' = {} /\ ~heard'
    BY <1>7, ShowingShows DEF Show
  <2> QED BY <2>1, <2>2
<1>8. CASE Open \/ Hear
  BY <1>8 DEF Open, Hear, page
<1>9. CASE UNCHANGED vars
  BY <1>9 DEF vars, net, page
<1> QED BY <1>1, <1>2, <1>3, <1>4, <1>5, <1>6, <1>7, <1>8, <1>9
        DEF Next, World, User, Device, Showing

\* Serving moves a record from the way to the store; sending is for a row that
\* was not begun before.
LEMMA NextSentOnce ==
    ASSUME IInv, [Next]_vars
    PROVE  SentOnce'
<1> USE PostingAssumption DEF IInv
<1>0. \A d \in Sends : requests[d] \in Nat /\ stored[d] \in Nat
  BY DEF TypeOK
<1>1. CASE UNCHANGED <<requests, stored, begun>>
  BY <1>1 DEF SentOnce
<1>2. CASE Serve
  <2>1. PICK d \in Sends, a \in Says :
          /\ requests[d] > 0
          /\ requests' = [requests EXCEPT ![d] = @ - 1]
          /\ a = "yes" => stored' = [stored EXCEPT ![d] = @ + 1]
          /\ a # "yes" => stored' = stored
    BY <1>2, ServeOne
  <2>2. begun' = begun
    BY <1>2 DEF Serve, page
  <2>3. ASSUME NEW e \in Sends
        PROVE  requests'[e] + stored'[e] <= requests[e] + stored[e]
                 /\ requests'[e] + stored'[e] \in Nat
    <3>1. CASE e = d
      BY <1>0, <2>1, <3>1 DEF TypeOK
    <3>2. CASE e # d
      BY <1>0, <2>1, <3>2 DEF TypeOK
    <3> QED BY <3>1, <3>2
  <2> QED BY <1>0, <2>2, <2>3 DEF SentOnce
<1>3. CASE LoseRequest
  <2>1. PICK d \in Sends : requests[d] > 0 /\ requests' = [requests EXCEPT ![d] = @ - 1]
    BY <1>3, LoseOne
  <2>2. begun' = begun /\ stored' = stored
    BY <1>3, LoseOne DEF page
  <2>3. ASSUME NEW e \in Sends
        PROVE  requests'[e] + stored'[e] <= requests[e] + stored[e]
                 /\ requests'[e] + stored'[e] \in Nat
    BY <1>0, <2>1, <2>2 DEF TypeOK
  <2> QED BY <1>0, <2>2, <2>3 DEF SentOnce
<1>4. CASE Open
  <2>1. This \in Sends
    BY <1>4, ThisSend DEF Open, Posted
  <2>2. This \notin begun
    BY <1>4, <2>1 DEF Open, BegunInOrder, This, TypeOK
  <2>3. requests[This] + stored[This] = 0
    BY <2>1, <2>2 DEF SentOnce
  <2>4. ASSUME NEW e \in Sends
        PROVE  /\ requests'[e] + stored'[e] <= 1
               /\ e \notin begun' => requests'[e] + stored'[e] = 0
    <3>1. stored' = stored /\ begun' = begun \cup {This}
        /\ requests' = [requests EXCEPT ![This] = @ + 1]
      BY <1>4 DEF Open
    <3>2. CASE e = This
      BY <1>0, <2>1, <2>3, <3>1, <3>2 DEF TypeOK
    <3>3. CASE e # This
      BY <1>0, <3>1, <3>3 DEF TypeOK, SentOnce
    <3> QED BY <3>2, <3>3
  <2> QED BY <2>4 DEF SentOnce
<1>5. CASE Tick \/ LoseAnswer \/ PowerCycle \/ ChooseMethod \/ Elsewhere \/ Visit \/ Leave
             \/ BeginRow
             \/ Connect \/ Connected \/ Hear
  BY <1>1, <1>5 DEF Tick, LoseAnswer, PowerCycle, ChooseMethod, Elsewhere, Visit, Leave, BeginRow,
                    Connect, Connected, Hear, net, page
<1>6. CASE Flap /\ UNCHANGED <<pc, links, now, limit, heard, net, page>>
  BY <1>1, <1>6 DEF net, page
<1>7. CASE Showing
  BY <1>1, <1>7, ShowingShows DEF Show
<1>8. CASE UNCHANGED vars
  BY <1>1, <1>8 DEF vars, net, page
<1> QED BY <1>2, <1>3, <1>4, <1>5, <1>6, <1>7, <1>8 DEF Next, World, User, Device, Showing

\* The row only goes up on a visit, and a visit begins where nothing was begun.
LEMMA NextBegunInOrder ==
    ASSUME IInv, [Next]_vars
    PROVE  BegunInOrder'
<1> USE PostingAssumption DEF IInv, This
<1>0. begun \subseteq (1..Visits) \X (1..Rows) /\ visit \in 0..Visits /\ row \in 0..(Rows + 1)
  BY DEF TypeOK, Sends
<1>1. CASE UNCHANGED <<begun, visit, row, pc>>
  BY <1>1 DEF BegunInOrder
<1>2. CASE Tick \/ Serve \/ LoseRequest \/ LoseAnswer \/ ChooseMethod \/ Elsewhere
             \/ Connect \/ Hear
             \/ UNCHANGED vars
  BY <1>1, <1>2 DEF Tick, Serve, LoseRequest, LoseAnswer, ChooseMethod, Elsewhere, Connect, Hear,
                    net, page, vars
<1>3. CASE Flap /\ UNCHANGED <<pc, links, now, limit, heard, net, page>>
  BY <1>1, <1>3 DEF net, page
<1>4. CASE PowerCycle \/ Leave
  BY <1>4 DEF PowerCycle, Leave, page, BegunInOrder
<1>5. CASE Visit
  <2>1. begun' = begun /\ visit' = visit + 1 /\ pc' = "row"
    BY <1>5 DEF Visit
  <2>2. \A d \in begun : d[1] \in Nat /\ d[1] < visit + 1
    BY <1>0 DEF BegunInOrder
  <2> QED BY <1>0, <2>1, <2>2 DEF BegunInOrder
<1>6. CASE BeginRow \/ Connected
  BY <1>6 DEF BeginRow, Connected, page, BegunInOrder
<1>7. CASE Showing
  <2>1. begun' = begun /\ visit' = visit /\ row' = row + 1 /\ pc' = "row"
    BY <1>7, ShowingShows DEF Show
  <2>2. pc # "away"
    BY <1>7, ShowingShows DEF Posted
  <2>3. \A d \in begun : d[2] \in Nat
    BY <1>0
  <2> QED BY <1>0, <2>1, <2>2, <2>3 DEF BegunInOrder
<1>8. CASE Open
  <2>1. begun' = begun \cup {This} /\ visit' = visit /\ row' = row /\ pc' = "waiting"
        /\ pc = "protocol"
    BY <1>8 DEF Open
  <2> QED BY <1>0, <2>1 DEF BegunInOrder
<1> QED BY <1>2, <1>3, <1>4, <1>5, <1>6, <1>7, <1>8 DEF Next, World, User, Device, Showing

\* One request has one answer, and hearing it gives the connection back.
LEMMA NextAnsweredOnce ==
    ASSUME IInv, [Next]_vars
    PROVE  AnsweredOnce'
<1> USE PostingAssumption DEF IInv
<1>1. CASE UNCHANGED <<pc, visit, row, requests, answers, heard, links>>
  BY <1>1 DEF AnsweredOnce, Outstanding, This
<1>2. CASE pc' # "waiting"
  BY <1>2 DEF AnsweredOnce
<1>3. CASE Serve
  <2>1. UNCHANGED <<pc, links, heard, visit, row>>
    BY <1>3 DEF Serve, page
  <2>2. PICK d \in Sends, a \in Says :
          /\ requests[d] \in Nat /\ requests[d] > 0
          /\ requests' = [requests EXCEPT ![d] = @ - 1]
          /\ d = This /\ pc = "waiting" => answers' = answers \cup {a}
          /\ ~ (d = This /\ pc = "waiting") => answers' = answers
    BY <1>3, ServeOne
  <2>3. CASE pc = "waiting" /\ d = This
    <3>1. requests[This] = 1 /\ requests'[This] = 0
      BY <2>2, <2>3 DEF SentOnce, TypeOK
    <3>2. answers = {} /\ links > 0
      BY <2>2, <2>3 DEF AnsweredOnce, Outstanding
    <3>3. answers' = {a} /\ This' = This
      BY <2>1, <2>2, <2>3, <3>2 DEF This
    <3> QED BY <2>1, <3>1, <3>2, <3>3 DEF AnsweredOnce
  <2>4. CASE pc = "waiting" /\ d # This
    <3>1. This \in Sends
      BY <2>4, ThisSend DEF Posted
    <3>2. requests'[This] = requests[This] /\ answers' = answers /\ This' = This
      BY <2>1, <2>2, <2>4, <3>1 DEF TypeOK, This
    <3> QED BY <2>1, <3>2 DEF AnsweredOnce, Outstanding
  <2> QED BY <1>2, <2>1, <2>3, <2>4
<1>4. CASE LoseRequest
  <2>1. UNCHANGED <<pc, links, heard, answers, visit, row>>
    BY <1>4, LoseOne DEF page
  <2>2. PICK d \in Sends : requests[d] \in Nat /\ requests[d] > 0
        /\ requests' = [requests EXCEPT ![d] = @ - 1]
    BY <1>4, LoseOne
  <2>3. CASE pc = "waiting"
    <3>1. This \in Sends /\ This' = This
      BY <2>1, <2>3, ThisSend DEF Posted, This
    <3>2. requests[This] \in Nat /\ (requests'[This] > 0 => requests[This] > 0)
      BY <2>2, <3>1 DEF TypeOK
    <3> QED BY <2>1, <2>3, <3>1, <3>2 DEF AnsweredOnce, Outstanding
  <2> QED BY <1>2, <2>1, <2>3
<1>5. CASE LoseAnswer
  <2>1. UNCHANGED <<pc, links, heard, requests, visit, row>> /\ answers' \subseteq answers
    BY <1>5 DEF LoseAnswer, page
  <2> QED BY <2>1 DEF AnsweredOnce, Outstanding, This
<1>6. CASE Open
  <2>1. This \in Sends /\ This' = This
    BY <1>6, ThisSend DEF Open, Posted, This
  <2>2. answers' = {} /\ ~heard' /\ links' = links + 1 /\ links \in Nat
    BY <1>6 DEF Open, Placed, TypeOK
  <2> QED BY <2>2 DEF AnsweredOnce
<1>7. CASE Hear
  <2>1. UNCHANGED <<pc, requests, visit, row>> /\ pc = "waiting"
    BY <1>7 DEF Hear, page
  <2>2. PICK a \in answers : answers' = answers \ {a}
    BY <1>7 DEF Hear
  <2>3. answers' = {}
    BY <2>1, <2>2 DEF AnsweredOnce
  <2>4. ~ (requests[This] > 0) /\ This' = This
    BY <2>1, <2>2 DEF AnsweredOnce, This
  <2> QED BY <2>1, <2>3, <2>4 DEF AnsweredOnce, Outstanding
<1>8. CASE Tick \/ UNCHANGED vars
  BY <1>1, <1>8 DEF Tick, net, page, vars
<1>9. CASE Flap /\ UNCHANGED <<pc, links, now, limit, heard, net, page>>
  BY <1>1, <1>9 DEF net, page
<1>10. CASE PowerCycle \/ ChooseMethod \/ Elsewhere \/ Visit \/ Leave \/ BeginRow \/ Connect
             \/ Connected
  BY <1>2, <1>10 DEF PowerCycle, ChooseMethod, Elsewhere, Visit, Leave, BeginRow, Connect,
                     Connected
<1>11. CASE Showing
  BY <1>2, <1>11, ShowingShows DEF Show
<1> QED BY <1>3, <1>4, <1>5, <1>6, <1>7, <1>8, <1>9, <1>10, <1>11
        DEF Next, World, User, Device, Showing

\* Neither what the server has stored nor what it has refused is taken back.
LEMMA VouchedKept ==
    ASSUME IInv, [Next]_vars, NEW d \in Sends, Vouched(d)
    PROVE  Vouched(d)'
<1>0. stored[d] \in Nat
  BY DEF IInv, TypeOK
<1>1. CASE UNCHANGED <<stored, mistaken>>
  BY <1>1 DEF Vouched
<1>2. CASE Serve
  <2>1. PICK e \in Sends, a \in Says :
          /\ a = "yes" => stored' = [stored EXCEPT ![e] = @ + 1]
          /\ a # "yes" => stored' = stored
          /\ a = "no, 200" => mistaken' = mistaken \cup {e}
          /\ a # "no, 200" => mistaken' = mistaken
    BY <1>2, ServeOne
  <2>2. stored \in [Sends -> Nat]
    BY DEF IInv, TypeOK
  <2>3. stored[d] > 0 => stored'[d] > 0
    <3>1. CASE a = "yes" /\ e = d
      BY <1>0, <2>1, <2>2, <3>1
    <3>2. CASE a = "yes" /\ e # d
      BY <2>1, <2>2, <3>2
    <3> QED BY <2>1, <3>1, <3>2
  <2> QED BY <2>1, <2>3 DEF Vouched
<1>3. CASE Tick \/ LoseRequest \/ LoseAnswer \/ PowerCycle \/ User \/ Leave \/ BeginRow \/ Connect
             \/ Connected \/ Open \/ Hear \/ UNCHANGED vars
  BY <1>1, <1>3 DEF Tick, LoseRequest, LoseAnswer, PowerCycle, User, ChooseMethod, Elsewhere,
                    Visit,
                    Leave, BeginRow, Connect, Connected, Open, Hear, net, vars
<1>4. CASE Flap /\ UNCHANGED <<pc, links, now, limit, heard, net, page>>
  BY <1>1, <1>4 DEF net
<1>5. CASE Showing
  BY <1>1, <1>5, ShowingShows DEF Show
<1> QED BY <1>2, <1>3, <1>4, <1>5 DEF Next, World, Device, Showing

LEMMA NextHeardTruly ==
    ASSUME IInv, [Next]_vars
    PROVE  HeardTruly'
<1> USE PostingAssumption DEF IInv
<1>0. pc = "waiting" => This \in Sends
  BY ThisSend DEF Posted
<1>1. CASE UNCHANGED <<pc, visit, row, answers, heard, stored, mistaken>>
  BY <1>1 DEF HeardTruly, Vouched, This
<1>2. CASE pc' # "waiting"
  BY <1>2 DEF HeardTruly
<1>3. CASE Serve
  <2>1. UNCHANGED <<pc, heard, visit, row>> /\ This' = This
    BY <1>3 DEF Serve, page, This
  <2>2. PICK d \in Sends, a \in Says :
          /\ a = "yes" => stored' = [stored EXCEPT ![d] = @ + 1]
          /\ a # "yes" => stored' = stored
          /\ d = This /\ pc = "waiting" => answers' = answers \cup {a}
          /\ ~ (d = This /\ pc = "waiting") => answers' = answers
          /\ a = "no, 200" => mistaken' = mistaken \cup {d}
          /\ a # "no, 200" => mistaken' = mistaken
    BY <1>3, ServeOne
  <2>3. CASE pc = "waiting"
    <3>1. stored \in [Sends -> Nat] /\ This \in Sends
      BY <1>0, <2>3 DEF TypeOK
    <3>2. heard => Vouched(This)'
      <4>1. ASSUME heard PROVE Vouched(This)'
        <5>1. Vouched(This)
          BY <2>3, <4>1 DEF HeardTruly
        <5>2. stored[This] > 0 => stored'[This] > 0
          <6>1. CASE a = "yes" /\ d = This
            BY <2>2, <3>1, <6>1
          <6>2. CASE a = "yes" /\ d # This
            BY <2>2, <3>1, <6>2
          <6> QED BY <2>2, <6>1, <6>2
        <5> QED BY <2>1, <2>2, <5>1, <5>2 DEF Vouched
      <4> QED BY <4>1
    <3>3. "yes" \in answers' => stored'[This] > 0
      <4>1. "yes" \in answers => stored[This] > 0
        BY <2>3 DEF HeardTruly
      <4>2. CASE a = "yes" /\ d = This
        BY <2>2, <3>1, <4>2
      <4>3. CASE a = "yes" /\ d # This
        BY <2>2, <3>1, <4>1, <4>3
      <4>4. CASE a # "yes"
        BY <2>2, <4>1, <4>4
      <4> QED BY <4>2, <4>3, <4>4
    <3>4. "no, 200" \in answers' => This \in mistaken'
      <4>1. "no, 200" \in answers => This \in mistaken
        BY <2>3 DEF HeardTruly
      <4> QED BY <2>2, <4>1
    <3> QED BY <2>1, <3>2, <3>3, <3>4 DEF HeardTruly
  <2> QED BY <1>2, <2>1, <2>3
<1>4. CASE LoseAnswer
  <2>1. UNCHANGED <<pc, heard, visit, row, stored, mistaken>> /\ answers' \subseteq answers
    BY <1>4 DEF LoseAnswer, page
  <2> QED BY <2>1 DEF HeardTruly, Vouched, This
<1>5. CASE Open
  <2>1. answers' = {} /\ ~heard'
    BY <1>5 DEF Open, Placed
  <2> QED BY <2>1 DEF HeardTruly
<1>6. CASE Hear
  <2>1. UNCHANGED <<pc, visit, row, stored, mistaken>> /\ pc = "waiting"
    BY <1>6 DEF Hear, page
  <2>2. PICK a \in answers : answers' = answers \ {a} /\ heard' = (heard \/ a # "no")
    BY <1>6 DEF Hear
  <2>3. a \in Says
    BY DEF TypeOK
  <2> QED BY <2>1, <2>2, <2>3 DEF HeardTruly, Vouched, This, Says
<1>7. CASE Tick \/ LoseRequest \/ UNCHANGED vars
  BY <1>1, <1>7 DEF Tick, LoseRequest, net, page, vars
<1>8. CASE Flap /\ UNCHANGED <<pc, links, now, limit, heard, net, page>>
  BY <1>1, <1>8 DEF net, page
<1>9. CASE PowerCycle \/ ChooseMethod \/ Elsewhere \/ Visit \/ Leave \/ BeginRow \/ Connect
             \/ Connected
  BY <1>2, <1>9 DEF PowerCycle, ChooseMethod, Elsewhere, Visit, Leave, BeginRow, Connect,
                    Connected
<1>10. CASE Showing
  BY <1>2, <1>10, ShowingShows DEF Show
<1> QED BY <1>3, <1>4, <1>5, <1>6, <1>7, <1>8, <1>9, <1>10 DEF Next, World, User, Device, Showing

\* A row is drawn as done only when it was heard to be.
LEMMA NextDoneStored ==
    ASSUME IInv, [Next]_vars
    PROVE  DoneStored'
<1> USE PostingAssumption DEF IInv
<1>1. CASE visit' = visit /\ result' = result
  <2> SUFFICES ASSUME NEW r \in 1..Rows, result[r] = "done"
               PROVE  (visit > 0 /\ stored'[visit, r] > 0) \/ <<visit, r>> \in mistaken'
    BY <1>1 DEF DoneStored
  <2>1. Vouched(<<visit, r>>) /\ <<visit, r>> \in Sends
    <3>1. \/ visit > 0 /\ stored[<<visit, r>>] > 0
          \/ <<visit, r>> \in mistaken
      BY DEF DoneStored
    <3>2. mistaken \subseteq (1..Visits) \X (1..Rows) /\ visit \in 0..Visits
      BY DEF TypeOK, Sends
    <3>3. <<visit, r>> \in (1..Visits) \X (1..Rows)
      BY <3>1, <3>2
    <3> QED BY <3>1, <3>3 DEF Vouched, Sends
  <2>2. visit > 0
    BY <2>1 DEF Sends, TypeOK
  <2>3. Vouched(<<visit, r>>)'
    <3>1. ASSUME NEW d \in Sends, Vouched(d) PROVE Vouched(d)'
      BY <3>1, VouchedKept
    <3>2. stored'[<<visit, r>>] > 0 \/ <<visit, r>> \in mistaken'
      BY <2>1, <3>1 DEF Vouched
    <3> QED BY <1>1, <3>2 DEF Vouched
  <2> QED BY <1>1, <2>2, <2>3 DEF Vouched
<1>2. CASE result' = NoResults
  BY <1>2 DEF DoneStored, NoResults
<1>3. CASE Tick \/ Serve \/ LoseRequest \/ LoseAnswer \/ ChooseMethod \/ Elsewhere \/ Leave
             \/ BeginRow
             \/ Connect \/ Connected \/ Open \/ Hear \/ UNCHANGED vars
  BY <1>1, <1>3 DEF Tick, Serve, LoseRequest, LoseAnswer, ChooseMethod, Elsewhere, Leave,
                    BeginRow,
                    Connect, Connected, Open, Hear, page, vars
<1>4. CASE Flap /\ UNCHANGED <<pc, links, now, limit, heard, net, page>>
  BY <1>1, <1>4 DEF page
<1>5. CASE PowerCycle \/ Visit
  BY <1>2, <1>5 DEF PowerCycle, Visit
<1>6. CASE Showing
  <2>1. PICK res \in {"done", "fail"} :
           Show(res) /\ (res = "done" => pc = "waiting" /\ heard)
    BY <1>6, ShowingShows
  <2>2. /\ result' = [result EXCEPT ![row] = res] /\ visit' = visit
        /\ stored' = stored /\ mistaken' = mistaken
    BY <2>1 DEF Show
  <2>3. res = "done" => Vouched(This) /\ This \in Sends /\ visit > 0
    <3>1. pc = "waiting" /\ heard => Vouched(This)
      BY DEF HeardTruly
    <3>2. pc = "waiting" => This \in Sends
      BY ThisSend DEF Posted
    <3>3. pc = "waiting" => visit > 0
      BY DEF Placed
    <3> QED BY <2>1, <3>1, <3>2, <3>3
  <2> SUFFICES ASSUME NEW r \in 1..Rows, result'[r] = "done"
               PROVE  (visit > 0 /\ stored[visit, r] > 0) \/ <<visit, r>> \in mistaken
    BY <2>2 DEF DoneStored
  <2>4. CASE r = row
    <3>1. res = "done"
      BY <2>2, <2>4 DEF TypeOK
    <3> QED BY <2>3, <2>4, <3>1 DEF Vouched, This
  <2>5. CASE r # row
    <3>1. result[r] = "done"
      BY <2>2, <2>5 DEF TypeOK
    <3> QED BY <3>1 DEF DoneStored
  <2> QED BY <2>4, <2>5
<1> QED BY <1>3, <1>4, <1>5, <1>6 DEF Next, World, User, Device, Showing

\* The clock does not turn over within a wait: it stops at the limit first.
LEMMA NextWaitBounded ==
    ASSUME IInv, [Next]_vars
    PROVE  WaitBounded'
<1> USE PostingAssumption DEF IInv, TypeOK
<1>1. CASE UNCHANGED <<pc, now, limit>>
  BY <1>1 DEF WaitBounded
<1>2. CASE pc' # "waiting"
  BY <1>2 DEF WaitBounded
<1>3. CASE Tick
  <2>1. CASE pc = "waiting"
    <3>1. now + 1 \in Nat /\ now + 1 < Wrap
      BY <1>3, <2>1 DEF Tick, Over
    <3>2. now' = now + 1
      <4>1. now + 1 \in 0..(Wrap - 1) /\ Wrap \in Nat \ {0}
        BY <3>1
      <4>2. (now + 1) % Wrap = now + 1
        BY <4>1, RemainderBelow
      <4> QED BY <1>3, <4>2 DEF Tick
    <3> QED BY <1>3, <2>1, <3>2 DEF Tick, WaitBounded
  <2> QED BY <1>2, <1>3, <2>1 DEF Tick
<1>4. CASE Open
  <2>1. now + Wait \in Nat
    OBVIOUS
  <2>2. (now + Wait) % Wrap <= now + Wait
    BY <2>1, Remainder
  <2> QED BY <1>4, <2>2 DEF Open, WaitBounded
<1>5. CASE Serve \/ LoseRequest \/ LoseAnswer \/ Connect \/ Hear \/ UNCHANGED vars
  BY <1>1, <1>5 DEF Serve, LoseRequest, LoseAnswer, Connect, Hear, net, page, vars
<1>6. CASE Flap /\ UNCHANGED <<pc, links, now, limit, heard, net, page>>
  BY <1>1, <1>6
<1>7. CASE PowerCycle \/ User \/ Leave \/ BeginRow \/ Connected
  BY <1>2, <1>7 DEF PowerCycle, User, ChooseMethod, Elsewhere, Visit, Leave, BeginRow, Connected
<1>8. CASE Showing
  BY <1>2, <1>8, ShowingShows DEF Show
<1> QED BY <1>3, <1>4, <1>5, <1>6, <1>7, <1>8 DEF Next, World, Device, Showing

\* Everything above is so in every reachable state.
THEOREM PostingIInv == Spec => []IInv
<1>1. Init => IInv
  BY InitIInv
<1>2. IInv /\ [Next]_vars => IInv'
  BY NextTypeOK, NextEspOK, NextPlaced, NextSentOnce, NextBegunInOrder, NextAnsweredOnce,
     NextHeardTruly, NextDoneStored, NextWaitBounded DEF IInv
<1> QED BY <1>1, <1>2, PTL DEF Spec

------------------------------------------------------------------------------
(* Theorems.                                                                *)

\* A row is drawn as done only if the server has stored its record on this
\* visit, or has refused it with one of the numbers in its answer: an answer
\* that is late is never taken for that of another row.
THEOREM PostingDoneStored == Spec => []DoneStored
<1>1. IInv => DoneStored
  BY DEF IInv
<1> QED BY <1>1, PostingIInv, PTL

\* Whatever is lost or late, a record is stored at most once a visit and only
\* when its row was begun: the client sends nothing twice.
StoredOnce == \A d \in Sends : stored[d] <= 1 /\ (stored[d] > 0 => d \in begun)

THEOREM PostingStoredOnce == Spec => []StoredOnce
<1>1. ASSUME IInv, NEW d \in Sends
      PROVE  stored[d] <= 1 /\ (stored[d] > 0 => d \in begun)
  <2>1. requests[d] \in Nat /\ stored[d] \in Nat
    BY <1>1 DEF IInv, TypeOK
  <2> QED BY <1>1, <2>1 DEF IInv, SentOnce
<1>2. IInv => StoredOnce
  BY <1>1 DEF StoredOnce
<1> QED BY <1>2, PostingIInv, PTL

\* Every step of posting is one that Delivery allows, or none there: a visit, a
\* row begun for the first time, a row with its result, a record stored once.
LEMMA StepDelivers ==
    ASSUME IInv, [Next]_vars
    PROVE  [D!Next]_D!vars
<1> USE PostingAssumption DEF IInv, D!vars
<1>1. CASE UNCHANGED <<visit, row, begun, stored>>
  BY <1>1
<1>2. CASE Visit
  <2>1. D!Visit
    BY <1>2 DEF Visit, net, D!Visit, Placed
  <2> QED BY <2>1 DEF D!Next
<1>3. CASE Open
  <2>1. row \in 1..Rows /\ This \in Sends
    BY <1>3, ThisSend DEF Open, Placed, Posted
  <2>2. This \notin begun
    BY <1>3, <2>1 DEF Open, BegunInOrder, This, TypeOK
  <2>3. D!Begin
    BY <1>3, <2>1, <2>2 DEF Open, D!Begin, This
  <2> QED BY <2>3 DEF D!Next
<1>4. CASE Showing
  <2>1. row \in 1..Rows
    BY <1>4, ShowingShows DEF Placed
  <2>2. row' = row + 1 /\ UNCHANGED <<visit, begun, stored>>
    BY <1>4, ShowingShows DEF Show
  <2>3. D!Show
    BY <2>1, <2>2 DEF D!Show
  <2> QED BY <2>3 DEF D!Next
<1>5. CASE Serve
  <2>1. PICK d \in Sends, a \in Says :
          /\ requests[d] \in Nat /\ requests[d] > 0
          /\ a = "yes" => stored' = [stored EXCEPT ![d] = @ + 1]
          /\ a # "yes" => stored' = stored
    BY <1>5, ServeOne
  <2>2. UNCHANGED <<visit, row, begun>>
    BY <1>5, ServeOne DEF page
  <2>3. stored \in [Sends -> Nat] /\ stored[d] = 0 /\ d \in begun
    BY <2>1 DEF SentOnce, TypeOK
  <2>4. CASE a = "yes"
    <3>1. stored' = [stored EXCEPT ![d] = 1]
      BY <2>1, <2>3, <2>4
    <3>2. D!Store
      BY <2>2, <2>3, <3>1 DEF D!Store
    <3> QED BY <3>2 DEF D!Next
  <2> QED BY <1>1, <2>1, <2>2, <2>4
<1>6. CASE PowerCycle
  <2>1. D!PowerCycle
    BY <1>6 DEF PowerCycle, D!PowerCycle
  <2> QED BY <2>1 DEF D!Next
<1>7. CASE Tick \/ LoseRequest \/ LoseAnswer \/ ChooseMethod \/ Elsewhere \/ Leave \/ BeginRow
             \/ Connect \/ Connected \/ Hear \/ UNCHANGED vars
  BY <1>1, <1>7 DEF Tick, LoseRequest, LoseAnswer, ChooseMethod, Elsewhere, Leave, BeginRow,
                    Connect, Connected, Hear, net, page, vars
<1>8. CASE Flap /\ UNCHANGED <<pc, links, now, limit, heard, net, page>>
  BY <1>1, <1>8 DEF net, page
<1> QED BY <1>2, <1>3, <1>4, <1>5, <1>6, <1>7, <1>8 DEF Next, World, User, Device, Showing

\* Posting implements Delivery: the rows of a visit are taken in their order,
\* each gets one result, and each record is stored at most once.
THEOREM PostingImplementsDelivery == Spec => ImplementsDelivery
<1>1. Init => D!Init
  BY DEF Init, D!Init, Sends, D!Sends
<1>2. IInv /\ [Next]_vars => [D!Next]_D!vars
  BY StepDelivers
<1> QED BY <1>1, <1>2, PostingIInv, PTL DEF Spec, ImplementsDelivery, D!Spec

------------------------------------------------------------------------------
(* Every step of the device brings the end of the page nearer.              *)

\* The steps that connectWifi has left while the network stays as it is.
EspLeft ==
    CASE wifi = "status" -> IF up THEN 2 ELSE 7 - 2 * failures
      [] wifi = "begin"  -> IF up THEN 3 ELSE 6 - 2 * failures
      [] wifi = "check"  -> 1
      [] OTHER           -> 0

\* The steps that a row has left, beginning with twelve.
Stage ==
    CASE pc = "row"        -> 12
      [] pc = "connecting" -> 4 + EspLeft
      [] pc = "protocol"   -> 3
      [] pc = "waiting"    -> IF Outstanding THEN 2 ELSE 1
      [] OTHER             -> 0

\* The steps that the visit has left.
Left == IF pc = "away" THEN 0 ELSE 13 * (Rows + 1 - row) + Stage

LEMMA EspLeftRange == IInv => EspLeft \in 0..7
BY DEF IInv, EspOK, EspLeft

LEMMA StageRange == IInv /\ pc # "away" => Stage \in 1..12
<1> SUFFICES ASSUME IInv, pc # "away" PROVE Stage \in 1..12
  OBVIOUS
<1>1. EspLeft \in 0..7
  BY EspLeftRange
<1>2. pc \in {"row", "connecting", "protocol", "waiting"}
  BY DEF IInv, TypeOK
<1>3. CASE pc = "row" \/ pc = "protocol"
  BY <1>3 DEF Stage
<1>4. CASE pc = "connecting"
  BY <1>1, <1>4 DEF Stage
<1>5. CASE pc = "waiting"
  BY <1>5 DEF Stage
<1> QED BY <1>2, <1>3, <1>4, <1>5

LEMMA LeftNat == IInv => Left \in Nat
<1> SUFFICES ASSUME IInv PROVE Left \in Nat
  OBVIOUS
<1>1. CASE pc = "away"
  BY <1>1 DEF Left
<1>2. CASE pc # "away"
  BY <1>2, StageRange, PostingAssumption DEF Left, IInv, TypeOK
<1> QED BY <1>1, <1>2

\* A step within the same row that lowers what the row has left.
LEMMA StageFalls ==
    ASSUME IInv, pc # "away", pc' # "away", row' = row,
           NEW s \in 0..12, Stage' = s, s < Stage
    PROVE  Left' < Left
<1>1. Stage \in 1..12 /\ row \in 0..(Rows + 1) /\ Rows \in Nat
  BY StageRange, PostingAssumption DEF IInv, TypeOK
<1>2. Left' = 13 * (Rows + 1 - row) + s
  BY DEF Left
<1>3. Left = 13 * (Rows + 1 - row) + Stage
  BY DEF Left
<1> QED BY <1>1, <1>2, <1>3

LEMMA DeviceLowersLeft ==
    ASSUME IInv, Device
    PROVE  Left' < Left
<1> USE PostingAssumption
<1>1. CASE Leave
  BY <1>1, StageRange, LeftNat DEF Leave, Left, Stage, IInv, TypeOK
<1>2. CASE BeginRow
  <2>1. pc = "row" /\ pc' = "connecting" /\ row' = row /\ wifi' = "status" /\ failures' = 0
    BY <1>2 DEF BeginRow, Call, page
  <2>2. Stage = 12
    BY <2>1 DEF Stage
  <2>3. PICK s \in {6, 11} : Stage' = s
    BY <2>1 DEF EspLeft, Stage
  <2> QED BY <2>1, <2>2, <2>3, StageFalls
<1>3. CASE Connect
  <2>1. pc = "connecting" /\ pc' = pc /\ row' = row /\ up' = up
    BY <1>3 DEF Connect, Step, Status, Begin, Check, page
  <2>2. PICK n \in 0..7 : EspLeft' = n /\ n < EspLeft
    BY <1>3, <2>1 DEF Connect, Step, Status, Begin, Check, EspLeft, IInv, EspOK
  <2>3. Stage = 4 + EspLeft /\ Stage' = 4 + n
    BY <2>1, <2>2 DEF Stage
  <2>4. EspLeft \in 0..7
    BY EspLeftRange
  <2>5. 4 + n \in 0..12 /\ 4 + n < Stage
    BY <2>2, <2>3, <2>4
  <2> QED BY <2>1, <2>3, <2>5, StageFalls
<1>4. CASE Connected
  <2>1. pc = "connecting" /\ pc' = "protocol" /\ row' = row
    BY <1>4 DEF Connected, page
  <2>2. Stage = 4 + EspLeft /\ Stage' = 3
    BY <2>1 DEF Stage
  <2> QED BY <2>1, <2>2, EspLeftRange, StageFalls
<1>5. CASE Showing
  <2>1. row \in 1..Rows /\ pc # "away"
    BY <1>5, ShowingShows DEF Posted, IInv, Placed
  <2>2. pc' = "row" /\ row' = row + 1
    BY <1>5, ShowingShows DEF Show
  <2>3. Stage' = 12
    BY <2>2 DEF Stage
  <2>4. Stage \in 1..12
    BY <2>1, StageRange
  <2> QED BY <2>1, <2>2, <2>3, <2>4 DEF Left
<1>6. CASE Open
  <2>1. pc = "protocol" /\ pc' = "waiting" /\ row' = row
    BY <1>6 DEF Open
  <2>2. Stage = 3 /\ Stage' \in {1, 2}
    BY <2>1 DEF Stage
  <2> QED BY <2>1, <2>2, StageFalls
<1>7. CASE Hear
  <2>1. pc = "waiting" /\ UNCHANGED <<pc, visit, row, requests>>
    BY <1>7 DEF Hear, page
  <2>2. PICK a \in answers : answers' = answers \ {a}
    BY <1>7 DEF Hear
  <2>3. answers' = {} /\ ~ (requests[This] > 0)
    BY <2>1, <2>2 DEF IInv, AnsweredOnce
  <2>4. Outstanding /\ ~Outstanding'
    BY <2>1, <2>2, <2>3 DEF Outstanding, This
  <2>5. Stage = 2 /\ Stage' = 1
    BY <2>1, <2>4 DEF Stage
  <2> QED BY <2>1, <2>5, StageFalls
<1> QED BY <1>1, <1>2, <1>3, <1>4, <1>5, <1>6, <1>7 DEF Device, Showing

\* The world adds nothing to what is left, except that connectWifi begins anew
\* when the network is lost.
LEMMA WorldKeepsLeft ==
    ASSUME IInv, World
    PROVE  /\ up' = up => Left' <= Left
           /\ Left' <= Left + 5
<1> USE PostingAssumption
<1>0. Left \in Nat /\ row \in 0..(Rows + 1) /\ Rows \in Nat
  BY LeftNat DEF IInv, TypeOK
<1>1. CASE \E n \in 0..Left : Left' = n
  BY <1>0, <1>1
<1>2. ASSUME UNCHANGED <<espVars, pc, row>>, pc # "waiting"
      PROVE  \E n \in 0..Left : Left' = n
  <2>1. Left' = Left
    BY <1>2 DEF Left, Stage, EspLeft, espVars
  <2> QED BY <1>0, <2>1
<1>3. ASSUME UNCHANGED <<espVars, pc, row>>, pc = "waiting", Outstanding' => Outstanding
      PROVE  \E n \in 0..Left : Left' = n
  <2>1. PICK s \in {1, 2} : Stage = s
    BY <1>3 DEF Stage
  <2>2. PICK n \in {1, 2} : Stage' = n /\ n <= s
    BY <1>3, <2>1 DEF Stage
  <2>3. Left' = 13 * (Rows + 1 - row) + n /\ Left = 13 * (Rows + 1 - row) + s
    BY <1>3, <2>1, <2>2 DEF Left
  <2>4. 13 * (Rows + 1 - row) + n \in 0..Left
    BY <1>0, <2>2, <2>3
  <2> QED BY <2>3, <2>4
<1>4. CASE Tick
  <2>1. UNCHANGED <<espVars, pc, row>> /\ Outstanding' = Outstanding
    BY <1>4 DEF Tick, net, page, Outstanding, This
  <2>2. Left' = Left
    BY <2>1 DEF Left, Stage, EspLeft, espVars
  <2> QED BY <1>0, <1>1, <2>2
<1>5. CASE Serve
  <2>1. UNCHANGED <<espVars, pc, visit, row>>
    BY <1>5, ServeOne DEF page
  <2>2. PICK d \in Sends, a \in Says :
          /\ requests[d] \in Nat /\ requests[d] > 0
          /\ requests' = [requests EXCEPT ![d] = @ - 1]
          /\ ~ (d = This /\ pc = "waiting") => answers' = answers
    BY <1>5, ServeOne
  <2>3. ASSUME pc = "waiting" PROVE Outstanding' => Outstanding
    <3>1. This \in Sends /\ This' = This /\ requests \in [Sends -> Nat]
      BY <2>1, <2>3, ThisSend DEF Posted, This, IInv, TypeOK
    <3>2. CASE d = This
      BY <2>2, <3>2 DEF Outstanding
    <3>3. CASE d # This
      BY <2>2, <3>1, <3>3 DEF Outstanding
    <3> QED BY <3>2, <3>3
  <2> QED BY <1>1, <1>2, <1>3, <2>1, <2>3
<1>6. CASE LoseRequest
  <2>1. UNCHANGED <<espVars, pc, visit, row, answers>>
    BY <1>6, LoseOne DEF page
  <2>2. PICK d \in Sends : requests[d] > 0 /\ requests' = [requests EXCEPT ![d] = @ - 1]
    BY <1>6, LoseOne
  <2>3. ASSUME pc = "waiting" PROVE Outstanding' => Outstanding
    <3>1. This \in Sends /\ This' = This /\ requests \in [Sends -> Nat]
      BY <2>1, <2>3, ThisSend DEF Posted, This, IInv, TypeOK
    <3>2. CASE d = This
      BY <2>2, <3>2 DEF Outstanding
    <3>3. CASE d # This
      BY <2>1, <2>2, <3>1, <3>3 DEF Outstanding
    <3> QED BY <3>2, <3>3
  <2> QED BY <1>1, <1>2, <1>3, <2>1, <2>3
<1>7. CASE LoseAnswer
  <2>1. UNCHANGED <<espVars, pc, visit, row, requests>> /\ answers' \subseteq answers
    BY <1>7 DEF LoseAnswer, page
  <2>2. Outstanding' => Outstanding
    BY <2>1 DEF Outstanding, This
  <2> QED BY <1>1, <1>2, <1>3, <2>1, <2>2
<1>8. CASE PowerCycle
  <2>1. Left' = 0
    BY <1>8 DEF PowerCycle, Left
  <2> QED BY <1>0, <2>1
<1>9. CASE Flap /\ UNCHANGED <<pc, links, now, limit, heard, net, page>>
  <2>1. /\ pc = "connecting" /\ pc' = pc /\ row' = row
        /\ up' = ~up /\ wifi' = wifi /\ failures' = failures
    BY <1>9 DEF Flap, Calling, IInv, EspOK, page
  <2>2. PICK e \in 0..7 : EspLeft = e
    BY EspLeftRange
  <2>3. up \in BOOLEAN /\ failures \in 0..2
    BY DEF IInv, EspOK
  <2>4. up' # up
    BY <2>1, <2>3, Zenon
  <2>5. PICK n \in 0..7 : EspLeft' = n /\ n <= e + 5
    BY <2>1, <2>2, <2>3 DEF EspLeft, IInv, EspOK
  <2>6. Left = 13 * (Rows + 1 - row) + 4 + e /\ Left' = 13 * (Rows + 1 - row) + 4 + n
    BY <1>0, <2>1, <2>2, <2>5 DEF Left, Stage
  <2> QED BY <1>0, <2>2, <2>4, <2>5, <2>6
<1> QED BY <1>4, <1>5, <1>6, <1>7, <1>8, <1>9 DEF World

\* What makes a visit end, whatever the server does: a step of the device lowers
\* what is left of it, the world raises it only when the network goes, by at
\* most five steps, and while the page waits every tick brings the limit, never
\* more than the ten seconds away, one nearer without the clock turning over.
Progress ==
    /\ Left \in Nat
    /\ Device => Left' < Left
    /\ World /\ up' = up => Left' <= Left
    /\ World => Left' <= Left + 5
    /\ Tick /\ pc = "waiting" =>
         now' = now + 1 /\ limit' = limit /\ now' <= limit /\ limit <= now + Wait

THEOREM PostProgress == Spec => [][Progress]_vars
<1>1. ASSUME IInv, [Next]_vars
      PROVE  [Progress]_vars
  <2>1. ASSUME Tick, pc = "waiting"
        PROVE  now' = now + 1 /\ limit' = limit /\ now' <= limit /\ limit <= now + Wait
    <3>1. limit <= now + Wait
      BY <1>1, <2>1 DEF IInv, WaitBounded
    <3>2. limit > now /\ limit' = limit /\ now' = (now + 1) % Wrap
      BY <2>1 DEF Tick, Over
    <3>3. now + 1 \in 0..(Wrap - 1) /\ Wrap \in Nat \ {0} /\ now + 1 <= limit
      BY <1>1, <3>2, PostingAssumption DEF IInv, TypeOK
    <3>4. (now + 1) % Wrap = now + 1
      BY <3>3, RemainderBelow
    <3> QED BY <3>1, <3>2, <3>3, <3>4
  <2>2. Left \in Nat /\ (Device => Left' < Left)
    BY <1>1, LeftNat, DeviceLowersLeft
  <2>3. World => (up' = up => Left' <= Left) /\ Left' <= Left + 5
    BY <1>1, WorldKeepsLeft
  <2> QED BY <2>1, <2>2, <2>3 DEF Progress
<1> QED BY <1>1, PostingIInv, PTL DEF Spec
==============================================================================
