-------------------------------- MODULE Clock --------------------------------
(****************************************************************************)
(* The three clocks of the device: the time of the server, the DS3231 chip, *)
(* which runs on without power, and the clock on the screen, which starts   *)
(* from the chip when the device does.  configTimeFromApi asks the server   *)
(* and sets the screen and the chip, register by register, while all clocks *)
(* run on.                                                                  *)
(*                                                                          *)
(* The date is one register, a number of days; NoDate is one that setDate   *)
(* refuses.  The sizes of hours and days are parameters.                    *)
(****************************************************************************)
EXTENDS Esp8266

CONSTANTS
    Hours, Minutes, Seconds,    \* 24, 60 and 60
    Zone,                       \* 7: hours added to the server's time
    MaxDelay,                   \* ticks get() and the calls to the chip may take
    MaxTime,                    \* bound on the server's time
    NoDate
ASSUME SizesAssumption ==
    /\ Hours \in Nat \ {0} /\ Minutes \in Nat \ {0} /\ Seconds \in Nat \ {0}
    /\ Zone \in 0..(Hours - 1) /\ MaxDelay \in Nat /\ MaxTime \in Nat
ASSUME NoDateAssumption == NoDate \notin Nat

VARIABLES
    utc,                \* the server's time, in ticks
    rtc,                \* the registers of the chip
    screen,             \* the screen's clock, in ticks
    pc,                 \* the step of configTimeFromApi or of the constructor
    stamp,              \* the fields sscanf filled in, or read from the chip;
                        \* dropped at the end of the call
    age,                \* ticks since the server's answer or the chip's
    whole,              \* observed: the answer had every field
    spoilt,             \* observed: a carry changed what is not written again
    rtcSet, screenSet   \* observed: the clock was set from a whole answer, or
                        \* the screen from such a chip, and nothing spoilt it

clocks == <<utc, rtc, screen>>
seen   == <<whole, spoilt, rtcSet, screenSet>>
vars   == <<espVars, clocks, pc, stamp, age, seen>>

Reading == [h : Nat, m : Nat, s : Nat, d : Nat \cup {NoDate}]

\* Ticks since the beginning of a day, and of day 0, however large the fields.
DayTicks(r) == (r.h * Minutes + r.m) * Seconds + r.s
Ticks(r)    == r.d * (Hours * Minutes * Seconds) + DayTicks(r)

Local == utc + Zone * Minutes * Seconds

Fields(t) ==
    [s |-> t % Seconds, m |-> (t \div Seconds) % Minutes,
     h |-> ((t \div Seconds) \div Minutes) % Hours,
     d |-> ((t \div Seconds) \div Minutes) \div Hours]

Init ==
    /\ EspInit
    /\ utc = 0 /\ screen = 0 /\ age = 0
    /\ rtc = Fields(0) /\ stamp = Fields(0)
    /\ pc = "boottime"
    /\ whole = FALSE /\ spoilt = FALSE /\ rtcSet = FALSE /\ screenSet = FALSE

------------------------------------------------------------------------------
(* Time.                                                                    *)

LastSecond(r) == r.s = Seconds - 1
LastMinute(r) == LastSecond(r) /\ r.m = Minutes - 1
LastHour(r)   == LastMinute(r) /\ r.h = Hours - 1

\* The chip carries from register to register.
Ticked(r) ==
    [s |-> IF LastSecond(r) THEN 0 ELSE r.s + 1,
     m |-> IF LastMinute(r) THEN 0 ELSE IF LastSecond(r) THEN r.m + 1 ELSE r.m,
     h |-> IF LastHour(r) THEN 0 ELSE IF LastMinute(r) THEN r.h + 1 ELSE r.h,
     d |-> IF LastHour(r) THEN r.d + 1 ELSE r.d]

Timed == pc \in {"set", "hour", "minute", "second", "date", "bootdate"}

\* A carry into a register written, or read, before this moment.
Spoils ==
    \/ pc = "minute" /\ LastMinute(rtc)
    \/ pc = "second" /\ LastSecond(rtc)
    \/ pc \in {"date", "bootdate"} /\ LastHour(rtc)

Tick ==
    /\ utc < MaxTime
    /\ Timed => age < MaxDelay
    /\ utc' = utc + 1 /\ screen' = screen + 1 /\ rtc' = Ticked(rtc)
    /\ age' = IF Timed THEN age + 1 ELSE age
    /\ spoilt' = (spoilt \/ Spoils)
    /\ UNCHANGED <<espVars, pc, stamp, whole, rtcSet, screenSet>>

------------------------------------------------------------------------------
(* The constructor: setArrayTime reads the chip twice, for time and date.   *)

Dropped == stamp' = Fields(0) /\ age' = 0 /\ whole' = FALSE /\ spoilt' = FALSE

PowerCycle ==
    /\ pc' = "boottime" /\ Returned
    /\ screen' = 0 /\ screenSet' = FALSE
    /\ Dropped
    /\ UNCHANGED <<utc, rtc, rtcSet>>

BootTime ==
    /\ pc = "boottime" /\ pc' = "bootdate"
    /\ stamp' = rtc
    /\ age' = 0 /\ spoilt' = FALSE
    /\ UNCHANGED <<espVars, clocks, whole, rtcSet, screenSet>>

BootDate ==
    /\ pc = "bootdate" /\ pc' = "run"
    /\ screen' = Ticks([stamp EXCEPT !.d = rtc.d])
    /\ screenSet' = (rtcSet /\ ~spoilt)
    /\ Dropped
    /\ UNCHANGED <<espVars, utc, rtc, rtcSet>>

------------------------------------------------------------------------------
(* configTimeFromApi.                                                       *)

ConfigTime ==
    /\ pc = "run" /\ pc' = "connecting"
    /\ Call
    /\ UNCHANGED <<clocks, stamp, age, seen>>

Connect ==
    /\ pc = "connecting" /\ Step
    /\ UNCHANGED <<clocks, pc, stamp, age, seen>>

NotConnected ==
    /\ pc = "connecting" /\ wifi = "disconnected"
    /\ pc' = "run" /\ Returned
    /\ UNCHANGED <<clocks, stamp, age, seen>>

\* What is on the stack where sscanf did not write: a value of the register
\* or one beyond it.
Garbage == [h : {0, Hours}, m : {0, Minutes}, s : {0, Seconds}, d : {0, NoDate}]

\* Of the date, the hour, the minute and the second the first k are read.
FirstFields(k, r, g) ==
    [d |-> IF k >= 1 THEN r.d ELSE g.d, h |-> IF k >= 2 THEN r.h ELSE g.h,
     m |-> IF k >= 3 THEN r.m ELSE g.m, s |-> IF k >= 4 THEN r.s ELSE g.s]

\* get() ends after 52 characters, a number just large enough if the header
\* "Date: " comes first, or after ten seconds.  Without it nothing is set.
Get ==
    /\ pc = "connecting" /\ wifi = "connected" /\ Returned
    /\ \/ pc' = "run" /\ UNCHANGED <<stamp, age, whole>>
       \/ /\ pc' = "set" /\ age' = 0
          /\ \E k \in 0..4, g \in Garbage :
               stamp' = FirstFields(k, Fields(utc), g) /\ whole' = (k = 4)
    /\ UNCHANGED <<clocks, spoilt, rtcSet, screenSet>>

\* Defect: the screen is set to the server's time.
SetTimeOutNoZone ==
    /\ pc = "set" /\ pc' = "hour"
    /\ screen' = IF stamp.d \in Nat THEN Ticks(stamp) ELSE 0
    /\ screenSet' = whole
    /\ UNCHANGED <<espVars, utc, rtc, stamp, age, whole, spoilt, rtcSet>>

\* setTimeOut: the library takes hours beyond the day.
SetTimeOut ==
    /\ pc = "set" /\ pc' = "hour"
    /\ screen' = IF stamp.d \in Nat
                   THEN Ticks([stamp EXCEPT !.h = @ + Zone]) ELSE 0
    /\ screenSet' = whole
    /\ UNCHANGED <<espVars, utc, rtc, stamp, age, whole, spoilt, rtcSet>>

TimeValid ==
    stamp.h + Zone < Hours /\ stamp.m < Minutes /\ stamp.s < Seconds

\* Defect: the hour is written as the server gave it.
WriteHourNoZone ==
    /\ pc = "hour"
    /\ IF TimeValid
         THEN pc' = "minute" /\ rtc' = [rtc EXCEPT !.h = stamp.h]
         ELSE pc' = "date" /\ UNCHANGED rtc
    /\ spoilt' = ~TimeValid
    /\ rtcSet' = FALSE
    /\ UNCHANGED <<espVars, utc, screen, stamp, age, whole, screenSet>>

\* setTime writes three registers, or none; setDate writes in any case.
WriteHour ==
    /\ pc = "hour"
    /\ IF TimeValid
         THEN pc' = "minute" /\ rtc' = [rtc EXCEPT !.h = stamp.h + Zone]
         ELSE pc' = "date" /\ UNCHANGED rtc
    /\ spoilt' = ~TimeValid
    /\ rtcSet' = FALSE
    /\ UNCHANGED <<espVars, utc, screen, stamp, age, whole, screenSet>>

WriteMinute ==
    /\ pc = "minute" /\ pc' = "second"
    /\ rtc' = [rtc EXCEPT !.m = stamp.m]
    /\ UNCHANGED <<espVars, utc, screen, stamp, age, seen>>

WriteSecond ==
    /\ pc = "second" /\ pc' = "date"
    /\ rtc' = [rtc EXCEPT !.s = stamp.s]
    /\ UNCHANGED <<espVars, utc, screen, stamp, age, seen>>

\* The end of the call, which reports "done".
WriteDate ==
    /\ pc = "date" /\ pc' = "run"
    /\ rtc' = IF stamp.d \in Nat THEN [rtc EXCEPT !.d = stamp.d] ELSE rtc
    /\ rtcSet' = (whole /\ ~spoilt)
    /\ Dropped
    /\ UNCHANGED <<espVars, utc, screen, screenSet>>

------------------------------------------------------------------------------

World  == Tick \/ PowerCycle \/ (Flap /\ UNCHANGED <<clocks, pc, stamp, age, seen>>)

Device == BootTime \/ BootDate \/ Connect \/ NotConnected \/ Get \/ SetTimeOut
          \/ WriteHour \/ WriteMinute \/ WriteSecond \/ WriteDate

Next == World \/ ConfigTime \/ Device

\* The processor runs; the network and the power do as they like.
Spec == Init /\ [][Next]_vars /\ WF_vars(Device)

------------------------------------------------------------------------------
(* Properties.                                                              *)

\* Once set from a whole answer, in the hours in which the local day is the
\* server's and with no carry between the writes, the chip is the local time
\* behind by no more than the call took, through any number of power cycles
\* and of later calls that fail.
ChipRight == rtcSet => Ticks(rtc) <= Local /\ Local <= Ticks(rtc) + MaxDelay

\* The screen is right after every whole answer, whatever the hour, and after
\* a restart if the chip is: behind by no more than the call and the two
\* readings of the chip took.
ScreenRight == screenSet => screen <= Local /\ Local <= screen + 2 * MaxDelay

\* Whatever was on the stack when an answer broke off, and whenever the writes
\* happen, the registers of the chip are a time of the day.
ChipInRange == rtc.h < Hours /\ rtc.m < Minutes /\ rtc.s < Seconds

\* If the network in the end stays up or stays down, connectWifi returns.
ConnectReturns ==
    (<>[]up \/ <>[]~up) => (pc = "connecting" ~> pc # "connecting")
==============================================================================
