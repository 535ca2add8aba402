------------------------------- MODULE Posting -------------------------------
(****************************************************************************)
(* Posting the chosen records: the loop of the page postServer over its     *)
(* rows, postServer of Board, and the HTTP client of protocol.h, which      *)
(* sends a request and reads what comes for ten seconds.  Requests and      *)
(* answers are delayed, lost and answered late; the network comes and goes; *)
(* the links of the WiFi module are few and the program never gives one     *)
(* back.                                                                    *)
(****************************************************************************)
EXTENDS Esp8266

CONSTANTS
    Rows,               \* the rows that are chosen
    Links,              \* connections the WiFi module can hold
    Wrap, Wait,         \* millis() counts modulo Wrap; the ten seconds
    Visits              \* bound on the visits to the page
ASSUME PostingAssumption ==
    /\ Rows \in Nat /\ Links \in Nat /\ Visits \in Nat
    /\ Wrap \in Nat \ {0} /\ Wait \in 0..(Wrap - 1)

VARIABLES
    pc,                 \* where the page is; "away" while others are shown
    method,             \* methodPost
    visit, row,         \* observed: the visits so far; the loop's variable
    links,              \* connections held
    now, limit,         \* millis(), and time + 10000
    heard,              \* "200" or "201" is in the response
    requests, answers,  \* on their way to the server, and from it
    stored,             \* how often the server has stored the record of each
    result,             \* what is drawn for each row
    begun, mistaken     \* observed: the requests sent, and those refused in an
                        \* answer that has one of the numbers in it

net  == <<requests, answers, stored, mistaken>>
page == <<method, visit, row, result, begun>>
vars == <<espVars, pc, links, now, limit, heard, net, page>>

Sends == (1..Visits) \X (1..Rows)
This  == <<visit, row>>
Says  == {"yes", "no", "no, 200"}

TypeOK ==
    /\ pc \in {"away", "row", "connecting", "protocol", "waiting"}
    /\ method \in {"HTTP", "MQTT"}
    /\ visit \in 0..Visits /\ row \in 0..(Rows + 1)
    /\ links \in 0..Links /\ now \in 0..(Wrap - 1) /\ limit \in 0..(Wrap - 1)
    /\ heard \in BOOLEAN
    /\ requests \in [Sends -> Nat] /\ stored \in [Sends -> Nat]
    /\ answers \subseteq Says /\ begun \subseteq Sends /\ mistaken \subseteq Sends
    /\ result \in [1..Rows -> {"none", "done", "fail"}]

NoResults == [r \in 1..Rows |-> "none"]

Init ==
    /\ EspInit
    /\ pc = "away" /\ method = "HTTP" /\ visit = 0 /\ row = 0
    /\ links = 0 /\ now \in 0..(Wrap - 1) /\ limit = 0 /\ heard = FALSE
    /\ requests = [d \in Sends |-> 0] /\ stored = [d \in Sends |-> 0]
    /\ answers = {} /\ result = NoResults /\ begun = {} /\ mistaken = {}

------------------------------------------------------------------------------
(* The world.                                                               *)

\* The loop looks at the time more often than it passes.
Over == ~ (limit > now)
Tick ==
    /\ ~ (pc = "waiting" /\ Over)
    /\ now' = (now + 1) % Wrap
    /\ UNCHANGED <<espVars, pc, links, limit, heard, net, page>>

\* The server stores a record or refuses it and answers; nobody reads the
\* answer to a row whose wait is over.
Serve ==
    /\ \E d \in Sends, a \in Says :
         /\ requests[d] > 0
         /\ requests' = [requests EXCEPT ![d] = @ - 1]
         /\ stored' = IF a = "yes" THEN [stored EXCEPT ![d] = @ + 1] ELSE stored
         /\ answers' = IF d = This /\ pc = "waiting" THEN answers \cup {a} ELSE answers
         /\ mistaken' = IF a = "no, 200" THEN mistaken \cup {d} ELSE mistaken
    /\ UNCHANGED <<espVars, pc, links, now, limit, heard, page>>

LoseRequest ==
    /\ \E d \in Sends : requests[d] > 0 /\ requests' = [requests EXCEPT ![d] = @ - 1]
    /\ UNCHANGED <<espVars, pc, links, now, limit, heard, answers, stored, mistaken, page>>

LoseAnswer ==
    /\ \E a \in answers : answers' = answers \ {a}
    /\ UNCHANGED <<espVars, pc, links, now, limit, heard, requests, stored, mistaken, page>>

PowerCycle ==
    /\ Returned
    /\ pc' = "away" /\ row' = 0 /\ links' = 0 /\ heard' = FALSE
    /\ now' = 0 /\ limit' = 0 /\ answers' = {} /\ method' = "HTTP" /\ result' = NoResults
    /\ UNCHANGED <<visit, begun, requests, stored, mistaken>>

------------------------------------------------------------------------------
(* The device.                                                              *)

\* The buttons of the page before; drawing it sets the method to HTTP.
ChooseMethod ==
    /\ pc = "away" /\ method' \in {"HTTP", "MQTT"}
    /\ UNCHANGED <<espVars, pc, links, now, limit, heard, net, visit, row, result, begun>>

\* Other pages open connections too: connectHTTP and the get() of the clock.
Elsewhere ==
    /\ pc = "away" /\ links < Links
    /\ links' = links + 1
    /\ UNCHANGED <<espVars, pc, now, limit, heard, net, page>>

Visit ==
    /\ pc = "away" /\ visit < Visits
    /\ pc' = "row" /\ visit' = visit + 1 /\ row' = 1 /\ result' = NoResults
    /\ UNCHANGED <<espVars, links, now, limit, heard, net, method, begun>>

\* The end of the loop, and succesPostServer.
Leave ==
    /\ pc = "row" /\ row = Rows + 1
    /\ pc' = "away"
    /\ UNCHANGED <<espVars, links, now, limit, heard, net, page>>

BeginRow ==
    /\ pc = "row" /\ row <= Rows
    /\ pc' = "connecting" /\ Call
    /\ UNCHANGED <<links, now, limit, heard, net, page>>

Connect ==
    /\ pc = "connecting" /\ Step
    /\ UNCHANGED <<pc, links, now, limit, heard, net, page>>

\* drawStatusPostServer; the next row.
Show(res) ==
    /\ pc' = "row" /\ row' = row + 1
    /\ result' = [result EXCEPT ![row] = res]
    /\ answers' = {} /\ heard' = FALSE
    /\ UNCHANGED <<now, requests, stored, mistaken, method, visit, begun>>

NotConnected ==
    /\ pc = "connecting" /\ wifi = "disconnected" /\ Returned
    /\ Show("fail")
    /\ UNCHANGED <<links, limit>>

Connected ==
    /\ pc = "connecting" /\ wifi = "connected" /\ Returned
    /\ pc' = "protocol"
    /\ UNCHANGED <<links, now, limit, heard, net, page>>

\* setMQTT makes the client and nothing is sent with it.
Mqtt ==
    /\ pc = "protocol" /\ method = "MQTT"
    /\ Show("fail")
    /\ UNCHANGED <<espVars, links, limit>>

\* The server does not answer, or every connection is held.
NotOpened ==
    /\ pc = "protocol" /\ method = "HTTP"
    /\ Show("fail")
    /\ UNCHANGED <<espVars, links, limit>>

\* Defect: what was read for the row before is still in the response.
OpenHeard ==
    /\ pc = "protocol" /\ method = "HTTP" /\ links < Links
    /\ pc' = "waiting" /\ links' = links + 1
    /\ limit' = (now + Wait) % Wrap /\ heard' = (row > 1)
    /\ requests' = [requests EXCEPT ![This] = @ + 1] /\ begun' = begun \cup {This}
    /\ UNCHANGED <<espVars, now, answers, stored, mistaken, method, visit, row, result>>

Open ==
    /\ pc = "protocol" /\ method = "HTTP" /\ links < Links
    /\ pc' = "waiting" /\ links' = links + 1
    /\ limit' = (now + Wait) % Wrap /\ heard' = FALSE
    /\ requests' = [requests EXCEPT ![This] = @ + 1] /\ begun' = begun \cup {This}
    /\ UNCHANGED <<espVars, now, answers, stored, mistaken, method, visit, row, result>>

\* The module gives a link back when it reads that the server closed it.
Hear ==
    /\ pc = "waiting" /\ ~Over
    /\ \E a \in answers : answers' = answers \ {a} /\ heard' = (heard \/ a # "no")
    /\ links' \in {links, links - 1}
    /\ UNCHANGED <<espVars, pc, now, limit, requests, stored, mistaken, page>>

\* Defects: an unanswered request is sent again; the loop waits for an answer.
WaitOverRepeats ==
    /\ pc = "waiting" /\ Over
    /\ IF heard THEN Show("done")
                ELSE /\ pc' = "protocol" /\ heard' = FALSE /\ answers' = {}
                     /\ UNCHANGED <<now, requests, stored, mistaken, page>>
    /\ UNCHANGED <<espVars, links, limit>>
WaitOverHeard ==
    /\ pc = "waiting" /\ Over /\ heard
    /\ Show("done")
    /\ UNCHANGED <<espVars, links, limit>>

WaitOver ==
    /\ pc = "waiting" /\ Over
    /\ Show(IF heard THEN "done" ELSE "fail")
    /\ UNCHANGED <<espVars, links, limit>>

World == \/ Tick \/ Serve \/ LoseRequest \/ LoseAnswer \/ PowerCycle
         \/ (Flap /\ UNCHANGED <<pc, links, now, limit, heard, net, page>>)

User == ChooseMethod \/ Elsewhere \/ Visit

Device == \/ Leave \/ BeginRow \/ Connect \/ NotConnected \/ Connected
          \/ Mqtt \/ NotOpened \/ Open \/ Hear \/ WaitOver

Next == World \/ User \/ Device

\* The processor and the time go on; network, server and user do as they like.
Spec == Init /\ [][Next]_vars /\ WF_vars(Device) /\ WF_vars(Tick)

------------------------------------------------------------------------------
(* Properties.                                                              *)

\* A row is drawn as done only if the server has stored its record on this
\* visit, or has refused it with one of the numbers in its answer: never for
\* the answer to another row or visit, however late that comes.
DoneStored ==
    \A r \in 1..Rows : result[r] = "done" =>
        \/ visit > 0 /\ stored[visit, r] > 0
        \/ <<visit, r>> \in mistaken

D == INSTANCE Delivery WITH
         Rows <- Rows, Visits <- Visits, visit <- visit, row <- row,
         begun <- begun, stored <- stored

\* The rows are sent in their order and each at most once a visit, although
\* an answer may be missed and a request arrive after its row has failed.
ImplementsDelivery == D!Spec

\* If the network in the end stays up or stays down, the page is left again,
\* whatever the server does.
PostEnds == (<>[]up \/ <>[]~up) => (pc # "away" ~> pc = "away")
==============================================================================
