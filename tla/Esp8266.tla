------------------------------- MODULE Esp8266 -------------------------------
(****************************************************************************)
(* connectWifi of Esp8266.h: the loop that calls begin() until status()     *)
(* says connected, on a network that comes and goes at any moment.  The     *)
(* first result of begin() is ignored, and only begins that fail are        *)
(* counted: the loop is left at the third.                                  *)
(****************************************************************************)
EXTENDS Naturals

VARIABLES
    up,                 \* the network is there
    wifi,               \* where the call is, or how it ended
    failures            \* the variable called delay

espVars == <<up, wifi, failures>>

Calling == wifi \in {"status", "begin", "check"}

\* The caller has its answer; "delay" was a variable of the call.
Returned == wifi' = "idle" /\ failures' = 0 /\ UNCHANGED up

EspInit == up \in BOOLEAN /\ wifi = "idle" /\ failures = 0

\* Only a call can tell whether the network is there.
Flap == Calling /\ up' = ~up /\ UNCHANGED <<wifi, failures>>

Call ==
    /\ ~Calling
    /\ up' \in BOOLEAN
    /\ wifi' = "status" /\ failures' = 0

\* The condition of the loop.
Status ==
    /\ wifi = "status"
    /\ wifi' = IF up THEN "check" ELSE "begin"
    /\ UNCHANGED <<up, failures>>

\* Defect: a begin that fails is not counted.
BeginUncounted ==
    /\ wifi = "begin"
    /\ wifi' = IF ~up /\ failures = 2 THEN "check" ELSE "status"
    /\ UNCHANGED <<up, failures>>

Begin ==
    /\ wifi = "begin"
    /\ \/ up /\ wifi' = "status" /\ UNCHANGED failures
       \/ ~up /\ failures = 2 /\ wifi' = "check" /\ UNCHANGED failures
       \/ ~up /\ failures < 2 /\ wifi' = "status" /\ failures' = failures + 1
    /\ UNCHANGED up

\* Whatever ended the loop, the network is asked once more.
Check ==
    /\ wifi = "check"
    /\ wifi' = IF up THEN "connected" ELSE "disconnected"
    /\ UNCHANGED <<up, failures>>

Step == Status \/ Begin \/ Check
==============================================================================
