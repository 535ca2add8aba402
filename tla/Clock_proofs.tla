----------------------------- MODULE Clock_proofs ----------------------------
(****************************************************************************)
(* The chip always shows a time of the day, whatever answer was broken off  *)
(* where and whenever it is written, chip and screen are never ahead of the *)
(* local time nor behind it by more than the calls take, and the steps of   *)
(* connectWifi lead to its end: for days of any size and any zone.          *)
(****************************************************************************)
EXTENDS Clock, TLAPS

Steps == {"boottime", "bootdate", "run", "connecting", "set", "hour", "minute",
          "second", "date"}

\* What setTime has accepted is a time of the day until it is written.
Accepted ==
    pc \in {"minute", "second"} => stamp.m < Minutes /\ stamp.s < Seconds

TypeOK ==
    /\ pc \in Steps
    /\ utc \in Nat
    /\ rtc \in [h : Nat, m : Nat, s : Nat, d : Nat]
    /\ stamp \in Reading

IInv == TypeOK /\ Accepted /\ ChipInRange

------------------------------------------------------------------------------

\* The fields of a time are a time of the day.
LEMMA FieldsInRange ==
  ASSUME NEW t \in Nat
  PROVE  /\ Fields(t) \in [h : Nat, m : Nat, s : Nat, d : Nat]
         /\ Fields(t).h < Hours /\ Fields(t).m < Minutes /\ Fields(t).s < Seconds
<1> DEFINE d == ((t \div Seconds) \div Minutes) \div Hours
           h == ((t \div Seconds) \div Minutes) % Hours
           m == (t \div Seconds) % Minutes
           s == t % Seconds
<1>1. /\ Seconds \in Nat \ {0} /\ Minutes \in Nat \ {0} /\ Hours \in Nat \ {0}
  BY SizesAssumption
<1>2. \A n \in Nat, k \in Nat \ {0} : n \div k \in Nat
  OBVIOUS
<1>3. t \div Seconds \in Nat
  BY <1>1, <1>2
<1>4. (t \div Seconds) \div Minutes \in Nat
  BY <1>1, <1>2, <1>3
<1>5. \A n \in Nat, k \in Nat \ {0} : n % k \in Nat /\ n % k < k
  OBVIOUS
<1>6. d \in Nat
  BY <1>1, <1>2, <1>4
<1>7. h \in Nat /\ h < Hours
  BY <1>1, <1>4, <1>5
<1>8. m \in Nat /\ m < Minutes
  BY <1>1, <1>3, <1>5
<1>9. s \in Nat /\ s < Seconds
  BY <1>1, <1>5
<1>10. Fields(t) = [s |-> s, m |-> m, h |-> h, d |-> d]
  BY DEF Fields
<1> HIDE DEF d, h, m, s
<1> QED BY <1>6, <1>7, <1>8, <1>9, <1>10

\* A tick of the chip leads from a time of the day to a time of the day.
LEMMA TickedInRange ==
  IInv => /\ Ticked(rtc) \in [h : Nat, m : Nat, s : Nat, d : Nat]
          /\ Ticked(rtc).h < Hours /\ Ticked(rtc).m < Minutes /\ Ticked(rtc).s < Seconds
<1> SUFFICES ASSUME IInv
             PROVE  /\ Ticked(rtc) \in [h : Nat, m : Nat, s : Nat, d : Nat]
                    /\ Ticked(rtc).h < Hours /\ Ticked(rtc).m < Minutes
                    /\ Ticked(rtc).s < Seconds
  OBVIOUS
<1>1. /\ rtc.h \in Nat /\ rtc.m \in Nat /\ rtc.s \in Nat /\ rtc.d \in Nat
      /\ rtc.h < Hours /\ rtc.m < Minutes /\ rtc.s < Seconds
  BY DEF IInv, TypeOK, ChipInRange
<1>2. Ticked(rtc).s \in Nat /\ Ticked(rtc).s < Seconds
  BY <1>1, SizesAssumption DEF Ticked, LastSecond, LastMinute, LastHour
<1>3. Ticked(rtc).m \in Nat /\ Ticked(rtc).m < Minutes
  BY <1>1, SizesAssumption DEF Ticked, LastSecond, LastMinute, LastHour
<1>4. Ticked(rtc).h \in Nat /\ Ticked(rtc).h < Hours
  BY <1>1, SizesAssumption DEF Ticked, LastSecond, LastMinute, LastHour
<1>5. Ticked(rtc).d \in Nat
  BY <1>1 DEF Ticked
<1>6. Ticked(rtc) = [s |-> Ticked(rtc).s, m |-> Ticked(rtc).m,
                     h |-> Ticked(rtc).h, d |-> Ticked(rtc).d]
  BY DEF Ticked
<1> QED BY <1>2, <1>3, <1>4, <1>5, <1>6

\* What sscanf leaves is a reading, whatever it could not fill in.
LEMMA FirstFieldsType ==
  ASSUME NEW k \in 0..4, NEW r \in [h : Nat, m : Nat, s : Nat, d : Nat], NEW g \in Garbage
  PROVE  FirstFields(k, r, g) \in Reading
BY SizesAssumption DEF FirstFields, Reading, Garbage

\* The device starts with the chip at the beginning of a day.
LEMMA InitIInv == Init => IInv
<1> SUFFICES ASSUME Init PROVE IInv
  OBVIOUS
<1>1. 0 \in Nat
  OBVIOUS
<1>2. TypeOK
  BY <1>1, FieldsInRange DEF Init, TypeOK, Steps, Reading
<1> QED BY <1>1, <1>2, FieldsInRange DEF Init, IInv, Accepted, ChipInRange

\* No step of time, power, network or device leaves the range.
LEMMA NextIInv == IInv /\ [Next]_vars => IInv'
<1> SUFFICES ASSUME IInv, [Next]_vars PROVE IInv'
  OBVIOUS
<1> USE DEF IInv
<1>0. Fields(0) \in Reading
  BY FieldsInRange DEF Reading
<1>1. CASE Tick
  BY <1>1, TickedInRange DEF Tick, TypeOK, Accepted, ChipInRange
<1>2. CASE PowerCycle
  BY <1>0, <1>2 DEF PowerCycle, Dropped, TypeOK, Accepted, ChipInRange, Steps
<1>3. CASE BootTime
  BY <1>3 DEF BootTime, TypeOK, Accepted, ChipInRange, Steps, Reading, clocks
<1>4. CASE BootDate
  BY <1>0, <1>4 DEF BootDate, Dropped, TypeOK, Accepted, ChipInRange, Steps
<1>5. CASE ConfigTime \/ Connect \/ NotConnected
  BY <1>5 DEF ConfigTime, Connect, NotConnected, TypeOK, Accepted, ChipInRange, Steps, clocks
<1>6. CASE Get
  <2>1. Fields(utc) \in [h : Nat, m : Nat, s : Nat, d : Nat]
    BY FieldsInRange DEF TypeOK
  <2>2. stamp' \in Reading
    BY <1>6, <2>1, FirstFieldsType DEF Get, TypeOK
  <2> QED BY <1>6, <2>2 DEF Get, TypeOK, Accepted, ChipInRange, Steps, clocks
<1>7. CASE SetTimeOut
  BY <1>7 DEF SetTimeOut, TypeOK, Accepted, ChipInRange, Steps
<1>8. CASE WriteHour
  BY <1>8, SizesAssumption DEF WriteHour, TimeValid, TypeOK, Accepted, ChipInRange, Steps, Reading
<1>9. CASE WriteMinute
  BY <1>9 DEF WriteMinute, TypeOK, Accepted, ChipInRange, Steps, Reading
<1>10. CASE WriteSecond
  BY <1>10 DEF WriteSecond, TypeOK, Accepted, ChipInRange, Steps, Reading
<1>11. CASE WriteDate
  BY <1>0, <1>11 DEF WriteDate, Dropped, TypeOK, Accepted, ChipInRange, Steps, Reading
<1>12. CASE UNCHANGED <<clocks, pc, stamp>>
  BY <1>12 DEF TypeOK, Accepted, ChipInRange, clocks
<1> QED
  BY <1>1, <1>2, <1>3, <1>4, <1>5, <1>6, <1>7, <1>8, <1>9, <1>10, <1>11, <1>12
     DEF Next, World, Device, vars

\* The invariant holds at every moment.
LEMMA ClockIInv == Spec => []IInv
BY InitIInv, NextIInv, PTL DEF Spec

\* The registers of the chip are always a time of the day.
THEOREM ClockChipInRange == Spec => []ChipInRange
<1>1. IInv => ChipInRange
  BY DEF IInv
<1> QED BY <1>1, ClockIInv, PTL

------------------------------------------------------------------------------
(* How the clocks run together: all arithmetic is in these lemmas.          *)

DayTime == [h : Nat, m : Nat, s : Nat, d : Nat]

\* Division with rest.
LEMMA DivRest ==
  ASSUME NEW n \in Nat, NEW k \in Nat \ {0}
  PROVE  n = k * (n \div k) + (n % k)
OBVIOUS

\* Putting together what three divisions took apart.
LEMMA Nested ==
  ASSUME NEW S \in Nat \ {0}, NEW M \in Nat \ {0}, NEW H \in Nat \ {0},
         NEW x \in Nat, NEW a \in Nat, NEW b \in Nat,
         NEW d \in Nat, NEW h \in Nat, NEW m \in Nat, NEW s \in Nat,
         x = S * a + s, a = M * b + m, b = H * d + h
  PROVE  x = d * (H * M * S) + ((h * M + m) * S + s)
OBVIOUS

\* The fields of a time are that time.
LEMMA TicksFields == ASSUME NEW t \in Nat PROVE Ticks(Fields(t)) = t
<1> DEFINE a == t \div Seconds
           b == a \div Minutes
<1>1. /\ Seconds \in Nat \ {0} /\ Minutes \in Nat \ {0} /\ Hours \in Nat \ {0}
  BY SizesAssumption
<1>2. \A n \in Nat, k \in Nat \ {0} : n \div k \in Nat /\ n % k \in Nat
  OBVIOUS
<1>3. a \in Nat /\ t % Seconds \in Nat /\ t = Seconds * a + (t % Seconds)
  BY <1>1, <1>2, DivRest
<1> HIDE DEF a
<1>4. b \in Nat /\ a % Minutes \in Nat /\ a = Minutes * b + (a % Minutes)
  BY <1>1, <1>2, <1>3, DivRest
<1> HIDE DEF b
<1>5. b \div Hours \in Nat /\ b % Hours \in Nat /\ b = Hours * (b \div Hours) + (b % Hours)
  BY <1>1, <1>2, <1>4, DivRest
<1> DEFINE d == b \div Hours
           h == b % Hours
           m == a % Minutes
           s == t % Seconds
<1>6. /\ Fields(t).d = d /\ Fields(t).h = h /\ Fields(t).m = m /\ Fields(t).s = s
  BY DEF Fields, a, b
<1>7. /\ d \in Nat /\ h \in Nat /\ m \in Nat /\ s \in Nat
      /\ t = Seconds * a + s /\ a = Minutes * b + m /\ b = Hours * d + h
  BY <1>3, <1>4, <1>5
<1> HIDE DEF d, h, m, s
<1>8. t = d * (Hours * Minutes * Seconds) + ((h * Minutes + m) * Seconds + s)
  BY <1>1, <1>3, <1>4, <1>7, Nested
<1> QED BY <1>6, <1>8 DEF Ticks, DayTicks

\* Times are numbers.
LEMMA TicksNat ==
  ASSUME NEW r \in DayTime PROVE Ticks(r) \in Nat /\ DayTicks(r) \in Nat
<1>1. r.h \in Nat /\ r.m \in Nat /\ r.s \in Nat /\ r.d \in Nat
  BY DEF DayTime
<1>2. DayTicks(r) \in Nat
  BY <1>1, SizesAssumption DEF DayTicks
<1>3. r.d * (Hours * Minutes * Seconds) \in Nat
  BY <1>1, SizesAssumption
<1> QED BY <1>2, <1>3 DEF Ticks

\* Hours added are so many ticks more.
LEMMA TicksZone ==
  ASSUME NEW r \in DayTime
  PROVE  /\ Zone * Minutes * Seconds \in Nat
         /\ ((r.h + Zone) * Minutes + r.m) * Seconds + r.s
              = DayTicks(r) + Zone * Minutes * Seconds
         /\ Ticks([r EXCEPT !.h = @ + Zone]) = Ticks(r) + Zone * Minutes * Seconds
<1>1. r.h \in Nat /\ r.m \in Nat /\ r.s \in Nat /\ r.d \in Nat
  BY DEF DayTime
<1>2. Zone * Minutes * Seconds \in Nat
  BY SizesAssumption
<1>3. ((r.h + Zone) * Minutes + r.m) * Seconds + r.s
        = DayTicks(r) + Zone * Minutes * Seconds
  BY <1>1, SizesAssumption DEF DayTicks
<1> DEFINE q == [r EXCEPT !.h = @ + Zone]
<1>4. q.h = r.h + Zone /\ q.m = r.m /\ q.s = r.s /\ q.d = r.d
  BY DEF DayTime
<1>5. DayTicks(q) = DayTicks(r) + Zone * Minutes * Seconds
  BY <1>3, <1>4 DEF DayTicks
<1>6. DayTicks(r) \in Nat /\ r.d * (Hours * Minutes * Seconds) \in Nat
  BY <1>1, TicksNat, SizesAssumption
<1>7. Ticks(q) = Ticks(r) + Zone * Minutes * Seconds
  BY <1>2, <1>4, <1>5, <1>6 DEF Ticks
<1> QED BY <1>2, <1>3, <1>7

\* A tick of the chip is one tick; the date changes only with the last hour.
LEMMA TicksTicked ==
  ASSUME NEW r \in DayTime, r.h < Hours, r.m < Minutes, r.s < Seconds
  PROVE  /\ Ticks(Ticked(r)) = Ticks(r) + 1
         /\ ~LastHour(r) => DayTicks(Ticked(r)) = DayTicks(r) + 1 /\ Ticked(r).d = r.d
<1> DEFINE q == Ticked(r)
<1>1. /\ r.h \in Nat /\ r.m \in Nat /\ r.s \in Nat /\ r.d \in Nat
      /\ Hours \in Nat \ {0} /\ Minutes \in Nat \ {0} /\ Seconds \in Nat \ {0}
  BY SizesAssumption DEF DayTime
<1>2. /\ Hours * Minutes * Seconds \in Nat /\ r.d * (Hours * Minutes * Seconds) \in Nat
      /\ DayTicks(r) \in Nat
  BY <1>1, TicksNat
<1>3. CASE ~LastHour(r)
  <2>1. q.d = r.d
    BY <1>3 DEF Ticked
  <2>2. DayTicks(q) = DayTicks(r) + 1
    <3>1. CASE ~LastSecond(r)
      <4>1. q.h = r.h /\ q.m = r.m /\ q.s = r.s + 1
        BY <3>1 DEF Ticked, LastMinute, LastHour
      <4>2. (r.h * Minutes + r.m) * Seconds \in Nat
        BY <1>1
      <4> QED BY <1>1, <4>1, <4>2 DEF DayTicks
    <3>2. CASE LastSecond(r) /\ ~LastMinute(r)
      <4>1. q.h = r.h /\ q.m = r.m + 1 /\ q.s = 0 /\ r.s = Seconds - 1
        BY <3>2 DEF Ticked, LastSecond, LastHour
      <4>2. (r.h * Minutes + r.m) * Seconds + r.s + 1 = (r.h * Minutes + (r.m + 1)) * Seconds
        BY <1>1, <4>1
      <4> QED BY <1>1, <4>1, <4>2 DEF DayTicks
    <3>3. CASE LastMinute(r)
      <4>1. /\ q.h = r.h + 1 /\ q.m = 0 /\ q.s = 0
            /\ r.s = Seconds - 1 /\ r.m = Minutes - 1
        BY <1>3, <3>3 DEF Ticked, LastSecond, LastMinute
      <4>2. (r.h * Minutes + r.m) * Seconds + r.s + 1 = ((r.h + 1) * Minutes) * Seconds
        BY <1>1, <4>1
      <4> QED BY <1>1, <4>1, <4>2 DEF DayTicks
    <3> QED BY <3>1, <3>2, <3>3
  <2>3. Ticks(q) = Ticks(r) + 1
    BY <1>2, <2>1, <2>2 DEF Ticks
  <2> QED BY <2>1, <2>2, <2>3
<1>4. CASE LastHour(r)
  <2>1. /\ q.h = 0 /\ q.m = 0 /\ q.s = 0 /\ q.d = r.d + 1
        /\ r.h = Hours - 1 /\ r.m = Minutes - 1 /\ r.s = Seconds - 1
    BY <1>4 DEF Ticked, LastSecond, LastMinute, LastHour
  <2>2. (r.h * Minutes + r.m) * Seconds + r.s + 1 = Hours * Minutes * Seconds
    BY <1>1, <2>1
  <2>3. DayTicks(q) = 0
    BY <1>1, <2>1 DEF DayTicks
  <2>4. DayTicks(r) + 1 = Hours * Minutes * Seconds
    BY <2>2 DEF DayTicks
  <2>5. (r.d + 1) * (Hours * Minutes * Seconds)
          = r.d * (Hours * Minutes * Seconds) + Hours * Minutes * Seconds
    BY <1>1, <1>2
  <2>6. Ticks(q) = Ticks(r) + 1
    BY <1>2, <2>1, <2>3, <2>4, <2>5 DEF Ticks
  <2> QED BY <1>4, <2>6
<1> QED BY <1>3, <1>4

------------------------------------------------------------------------------
(* The chip and the screen stay behind the local time by a bounded delay.   *)

Ahead == Zone * Minutes * Seconds

\* The step of the call that a whole answer is in.
Answered == {"set", "hour", "minute", "second", "date"}

CountsOK == age \in 0..MaxDelay /\ screen \in Nat

\* A whole answer is the server's time some ticks ago.
Aged == whole /\ pc \in Answered => stamp \in DayTime /\ Ticks(stamp) + age = utc

\* What is written so far, as long as no carry has changed it.
Written ==
    ~spoilt /\ whole =>
      /\ pc = "minute" => rtc.h = stamp.h + Zone
      /\ pc = "second" => rtc.h = stamp.h + Zone /\ rtc.m = stamp.m
      /\ pc = "date" => /\ DayTicks(stamp) + Ahead <= DayTicks(rtc)
                        /\ DayTicks(rtc) <= DayTicks(stamp) + Ahead + age

\* The constructor has read the time of the chip some ticks ago.
HalfRead ==
    pc = "bootdate" => /\ stamp \in DayTime /\ Ticks(stamp) + age = Ticks(rtc)
                       /\ ~spoilt => rtc.d = stamp.d

\* Half written, the chip does not count as set.
NotYet == pc \in {"minute", "second", "date"} => rtcSet = FALSE

Behind == CountsOK /\ Aged /\ Written /\ HalfRead /\ NotYet /\ ChipRight /\ ScreenRight

\* At the start no clock was set.
LEMMA InitBehind == Init => Behind
<1> SUFFICES ASSUME Init PROVE Behind
  OBVIOUS
<1>1. CountsOK
  BY SizesAssumption DEF Init, CountsOK
<1> QED
  BY <1>1 DEF Init, Behind, Aged, Answered, Written, HalfRead, NotYet, ChipRight, ScreenRight

\* While all clocks run their distances stay as they are.
LEMMA TickBehind == IInv /\ Behind /\ Tick => Behind'
<1> SUFFICES ASSUME IInv, Behind, Tick PROVE Behind'
  OBVIOUS
<1>1. rtc \in DayTime /\ rtc.h < Hours /\ rtc.m < Minutes /\ rtc.s < Seconds /\ utc \in Nat
  BY DEF IInv, TypeOK, ChipInRange, DayTime
<1>2. Ticks(rtc') = Ticks(rtc) + 1 /\ Ticks(rtc) \in Nat
  BY <1>1, TicksTicked, TicksNat DEF Tick
<1>3. ~LastHour(rtc) => DayTicks(rtc') = DayTicks(rtc) + 1 /\ rtc'.d = rtc.d
  BY <1>1, TicksTicked DEF Tick
<1>4. Ahead \in Nat /\ Local' = Local + 1 /\ Local = utc + Ahead
  BY <1>1, TicksZone, SizesAssumption DEF Local, Ahead, Tick
<1>5. CountsOK'
  BY SizesAssumption DEF Behind, CountsOK, Tick, Timed
<1>6. Aged'
  BY <1>1, TicksNat, SizesAssumption DEF Behind, CountsOK, Aged, Answered, Tick, Timed
<1>7. Written'
  <2> SUFFICES ASSUME ~spoilt', whole' PROVE Written'
    BY DEF Written
  <2>1. ~spoilt /\ ~Spoils /\ whole /\ UNCHANGED <<pc, stamp>>
    BY DEF Tick
  <2>2. CASE pc = "minute"
    BY <2>1, <2>2, <1>1 DEF Behind, Written, Tick, Ticked, Spoils, LastHour
  <2>3. CASE pc = "second"
    BY <2>1, <2>3, <1>1 DEF Behind, Written, Tick, Ticked, Spoils, LastMinute, LastHour
  <2>4. CASE pc = "date"
    <3>1. stamp \in DayTime /\ ~LastHour(rtc) /\ age' = age + 1 /\ age \in Nat
      BY <2>1, <2>4, SizesAssumption
         DEF Behind, Aged, Answered, Spoils, CountsOK, Tick, Timed
    <3>2. DayTicks(stamp) \in Nat /\ DayTicks(rtc) \in Nat
      BY <1>1, <3>1, TicksNat
    <3> QED BY <1>3, <1>4, <2>1, <2>4, <3>1, <3>2 DEF Behind, Written
  <2> QED BY <2>1, <2>2, <2>3, <2>4 DEF Written
<1>8. HalfRead'
  <2> SUFFICES ASSUME pc = "bootdate" PROVE HalfRead'
    BY DEF HalfRead, Tick
  <2>1. /\ stamp \in DayTime /\ Ticks(stamp) + age = Ticks(rtc) /\ age \in Nat
        /\ ~spoilt => rtc.d = stamp.d
    BY SizesAssumption DEF Behind, CountsOK, HalfRead
  <2>2. /\ stamp' = stamp /\ age' = age + 1
        /\ ~spoilt' => ~spoilt /\ ~LastHour(rtc)
    BY DEF Tick, Timed, Spoils
  <2>3. Ticks(stamp) \in Nat
    BY <2>1, TicksNat
  <2>4. Ticks(stamp') = Ticks(stamp)
    BY <2>2
  <2>5. Ticks(stamp') + age' = Ticks(rtc')
    BY <1>2, <2>1, <2>2, <2>3, <2>4
  <2> QED BY <1>3, <2>1, <2>2, <2>5 DEF HalfRead
<1>9. ChipRight'
  BY <1>1, <1>2, <1>4, SizesAssumption DEF Behind, ChipRight, Tick
<1>10. ScreenRight'
  BY <1>1, <1>4, SizesAssumption DEF Behind, CountsOK, ScreenRight, Tick
<1>11. NotYet'
  BY DEF Behind, NotYet, Tick
<1> QED BY <1>5, <1>6, <1>7, <1>8, <1>9, <1>10, <1>11 DEF Behind

\* A restart reads the chip in two parts.
LEMMA BootBehind == IInv /\ Behind /\ (BootTime \/ BootDate) => Behind'
<1> SUFFICES ASSUME IInv, Behind, BootTime \/ BootDate PROVE Behind'
  OBVIOUS
<1>1. rtc \in DayTime /\ utc \in Nat /\ Ahead \in Nat /\ Local = utc + Ahead
  BY TicksZone DEF IInv, TypeOK, DayTime, Ahead, Local
<1>2. Ticks(rtc) \in Nat
  BY <1>1, TicksNat
<1>3. CASE BootTime
  BY <1>1, <1>2, <1>3, SizesAssumption
     DEF BootTime, Behind, CountsOK, Aged, Answered, Written, HalfRead, NotYet,
         ChipRight, ScreenRight, Local, clocks
<1>4. CASE BootDate
  <2> DEFINE q == [stamp EXCEPT !.d = rtc.d]
  <2>1. stamp \in DayTime /\ Ticks(stamp) + age = Ticks(rtc) /\ age \in 0..MaxDelay
    BY <1>4 DEF BootDate, Behind, HalfRead, CountsOK
  <2>2. q \in DayTime
    BY <1>1, <2>1 DEF DayTime
  <2>3. ~spoilt => q = stamp
    BY <1>4, <2>1 DEF BootDate, Behind, HalfRead, DayTime
  <2>4. Ticks(q) \in Nat /\ Ticks(stamp) \in Nat
    BY <2>1, <2>2, TicksNat
  <2>5. screen' = Ticks(q) /\ screenSet' = (rtcSet /\ ~spoilt) /\ UNCHANGED <<utc, rtc, rtcSet>>
    BY <1>4 DEF BootDate
  <2>6. CountsOK'
    BY <1>4, <2>4, <2>5, SizesAssumption DEF BootDate, Dropped, CountsOK
  <2>7. ScreenRight'
    <3> SUFFICES ASSUME rtcSet, ~spoilt
                 PROVE  screen' <= Local /\ Local <= screen' + 2 * MaxDelay /\ Local' = Local
      BY <2>5 DEF ScreenRight
    <3>1. screen' = Ticks(stamp)
      BY <2>3, <2>5
    <3>2. Ticks(rtc) <= Local /\ Local <= Ticks(rtc) + MaxDelay /\ Local' = Local
      BY <2>5 DEF Behind, ChipRight, Local
    <3> QED BY <1>1, <1>2, <2>1, <2>4, <3>1, <3>2, SizesAssumption
  <2>8. (Aged /\ Written /\ HalfRead /\ NotYet /\ ChipRight)'
    BY <1>4, <2>5 DEF BootDate, Behind, Aged, Answered, Written, HalfRead, NotYet, ChipRight,
       Local
  <2> QED BY <2>6, <2>7, <2>8 DEF Behind
<1> QED BY <1>3, <1>4

\* Asking the server leaves the clocks alone; its answer is the time it is.
LEMMA AskBehind ==
  IInv /\ Behind /\ (ConfigTime \/ Connect \/ NotConnected \/ Get) => Behind'
<1> SUFFICES ASSUME IInv, Behind, ConfigTime \/ Connect \/ NotConnected \/ Get
             PROVE  Behind'
  OBVIOUS
<1>1. /\ UNCHANGED clocks /\ UNCHANGED <<rtcSet, screenSet, spoilt>>
      /\ pc \in {"run", "connecting"} /\ pc' \in {"run", "connecting", "set"}
  BY DEF ConfigTime, Connect, NotConnected, Get, seen
<1>2. CountsOK'
  BY <1>1, SizesAssumption
     DEF ConfigTime, Connect, NotConnected, Get, Behind, CountsOK, clocks
<1>3. Aged'
  <2> SUFFICES ASSUME whole', pc' = "set" PROVE stamp' \in DayTime /\ Ticks(stamp') + age' = utc'
    BY <1>1 DEF Aged, Answered
  <2>1. Get
    BY <1>1 DEF ConfigTime, Connect, NotConnected
  <2>2. Fields(utc) \in DayTime /\ Ticks(Fields(utc)) = utc /\ utc \in Nat
    BY FieldsInRange, TicksFields DEF IInv, TypeOK, DayTime
  <2>3. PICK g \in Garbage : stamp' = FirstFields(4, Fields(utc), g)
    BY <2>1 DEF Get
  <2>4. stamp' = Fields(utc)
    BY <2>3 DEF FirstFields, Fields
  <2> QED BY <1>1, <2>1, <2>2, <2>4 DEF Get, clocks
<1>4. (Written /\ HalfRead /\ NotYet /\ ChipRight /\ ScreenRight)'
  BY <1>1 DEF Behind, Written, HalfRead, NotYet, ChipRight, ScreenRight, Local, clocks
<1> QED BY <1>2, <1>3, <1>4 DEF Behind

\* Setting the screen and the registers, one after the other.
LEMMA SetBehind ==
  IInv /\ Behind /\ (SetTimeOut \/ WriteHour \/ WriteMinute \/ WriteSecond \/ WriteDate)
    => Behind'
<1> SUFFICES ASSUME IInv, Behind,
                    SetTimeOut \/ WriteHour \/ WriteMinute \/ WriteSecond \/ WriteDate
             PROVE  Behind'
  OBVIOUS
<1>0. /\ pc \in Answered /\ utc' = utc /\ utc \in Nat /\ age \in 0..MaxDelay /\ screen \in Nat
      /\ rtc \in DayTime /\ stamp \in Reading /\ Ahead \in Nat
      /\ Local' = Local /\ Local = utc + Ahead
  BY TicksZone DEF SetTimeOut, WriteHour, WriteMinute, WriteSecond, WriteDate, Answered,
     Behind, CountsOK, IInv, TypeOK, DayTime, Local, Ahead
<1>1. whole => /\ stamp \in DayTime /\ Ticks(stamp) + age = utc
               /\ Ticks(stamp) \in Nat /\ DayTicks(stamp) \in Nat
  BY <1>0, TicksNat DEF Behind, Aged
<1>2. CASE SetTimeOut
  <2> DEFINE q == [stamp EXCEPT !.h = @ + Zone]
  <2>1. stamp.d \in Nat => q \in DayTime
    BY <1>0, SizesAssumption DEF Reading, DayTime
  <2>2. screen' \in Nat
    BY <1>2, <2>1, TicksNat DEF SetTimeOut
  <2>3. whole => screen' = Ticks(stamp) + Ahead
    BY <1>1, <1>2, TicksZone DEF SetTimeOut, DayTime, Ahead
  <2>4. ScreenRight'
    BY <1>0, <1>1, <1>2, <2>2, <2>3, SizesAssumption DEF SetTimeOut, ScreenRight
  <2>5. (CountsOK /\ Aged /\ Written /\ HalfRead /\ NotYet /\ ChipRight)'
    BY <1>0, <1>2, <2>2 DEF SetTimeOut, Behind, CountsOK, Aged, Answered, Written, HalfRead,
       NotYet, ChipRight
  <2> QED BY <2>4, <2>5 DEF Behind
<1>3. CASE WriteHour
  <2>1. pc' = "minute" => rtc'.h = stamp.h + Zone
    BY <1>0, <1>3 DEF WriteHour, DayTime
  <2>2. pc' = "date" => spoilt'
    BY <1>3 DEF WriteHour
  <2> QED BY <1>0, <1>3, <2>1, <2>2 DEF WriteHour, Behind, CountsOK, Aged, Answered, Written,
             HalfRead, NotYet, ChipRight, ScreenRight
<1>4. CASE WriteMinute
  <2>1. rtc'.h = rtc.h /\ rtc'.m = stamp.m
    BY <1>0, <1>4 DEF WriteMinute, DayTime
  <2>2. (CountsOK /\ Aged /\ Written /\ HalfRead)'
    BY <1>0, <1>4, <2>1 DEF WriteMinute, Behind, CountsOK, Aged, Answered, Written,
       HalfRead, seen
  <2>3. (NotYet /\ ChipRight /\ ScreenRight)'
    BY <1>0, <1>4 DEF WriteMinute, Behind, NotYet, ChipRight, ScreenRight, seen
  <2> QED BY <2>2, <2>3 DEF Behind
<1>5. CASE WriteSecond
  <2>1. rtc'.h = rtc.h /\ rtc'.m = rtc.m /\ rtc'.s = stamp.s
    BY <1>0, <1>5 DEF WriteSecond, DayTime
  <2>2. (CountsOK /\ Aged /\ HalfRead)'
    BY <1>0, <1>5 DEF WriteSecond, Behind, CountsOK, Aged, Answered, HalfRead, seen
  <2>3. Written'
    <3> SUFFICES ASSUME ~spoilt, whole
                 PROVE  DayTicks(rtc') = DayTicks(stamp) + Ahead
      BY <1>0, <1>1, <1>5 DEF WriteSecond, Written, seen
    <3>1. rtc'.h = stamp.h + Zone /\ rtc'.m = stamp.m /\ rtc'.s = stamp.s
      BY <1>5, <2>1 DEF WriteSecond, Behind, Written
    <3>2. DayTicks(rtc') = ((stamp.h + Zone) * Minutes + stamp.m) * Seconds + stamp.s
      BY <3>1 DEF DayTicks
    <3> QED BY <1>1, <3>2, TicksZone DEF Ahead
  <2>4. (NotYet /\ ChipRight /\ ScreenRight)'
    BY <1>0, <1>5 DEF WriteSecond, Behind, NotYet, ChipRight, ScreenRight, seen
  <2> QED BY <2>2, <2>3, <2>4 DEF Behind
<1>6. CASE WriteDate
  <2>1. (CountsOK /\ Aged /\ Written /\ HalfRead /\ NotYet /\ ScreenRight)'
    BY <1>0, <1>6, SizesAssumption
       DEF WriteDate, Dropped, Behind, CountsOK, Aged, Answered, Written, HalfRead, NotYet,
           ScreenRight
  <2>2. ChipRight'
    <3> SUFFICES ASSUME whole, ~spoilt
                 PROVE  Ticks(rtc') <= Local /\ Local <= Ticks(rtc') + MaxDelay
      BY <1>0, <1>6 DEF WriteDate, ChipRight
    <3>1. /\ DayTicks(stamp) + Ahead <= DayTicks(rtc)
          /\ DayTicks(rtc) <= DayTicks(stamp) + Ahead + age
      BY <1>6 DEF WriteDate, Behind, Written
    <3>2. /\ rtc'.h = rtc.h /\ rtc'.m = rtc.m /\ rtc'.s = rtc.s /\ rtc'.d = stamp.d
          /\ stamp.d \in Nat
      BY <1>0, <1>1, <1>6 DEF WriteDate, DayTime
    <3>3. DayTicks(rtc') = DayTicks(rtc) /\ DayTicks(rtc) \in Nat
      BY <1>0, <3>2, TicksNat DEF DayTicks
    <3> DEFINE day == stamp.d * (Hours * Minutes * Seconds)
    <3>4. day \in Nat
      BY <3>2, SizesAssumption
    <3>5. Ticks(rtc') = day + DayTicks(rtc) /\ Ticks(stamp) = day + DayTicks(stamp)
      BY <3>2, <3>3 DEF Ticks
    <3> HIDE DEF day
    <3> QED BY <1>0, <1>1, <3>1, <3>3, <3>4, <3>5, SizesAssumption
  <2> QED BY <2>1, <2>2 DEF Behind
<1> QED BY <1>2, <1>3, <1>4, <1>5, <1>6

\* No step lets a clock run ahead or fall further behind.
LEMMA NextBehind == IInv /\ Behind /\ [Next]_vars => Behind'
<1> SUFFICES ASSUME IInv, Behind, [Next]_vars PROVE Behind'
  OBVIOUS
<1>1. CASE PowerCycle
  BY <1>1, SizesAssumption DEF PowerCycle, Dropped, Behind, CountsOK, Aged, Answered,
     Written, HalfRead, NotYet, ChipRight, ScreenRight, Local
<1>2. CASE UNCHANGED <<clocks, pc, stamp, age, seen>>
  BY <1>2 DEF Behind, CountsOK, Aged, Written, HalfRead, NotYet, ChipRight, ScreenRight,
     Local, clocks, seen
<1> QED
  BY <1>1, <1>2, TickBehind, BootBehind, AskBehind, SetBehind DEF Next, World, Device, vars

\* The distances hold at every moment.
LEMMA ClockBehind == Spec => [](IInv /\ Behind)
<1>1. Init => IInv /\ Behind
  BY InitIInv, InitBehind
<1>2. IInv /\ Behind /\ [Next]_vars => (IInv /\ Behind)'
  BY NextIInv, NextBehind
<1> QED BY <1>1, <1>2, PTL DEF Spec

\* A chip set from a whole answer, with no carry between the writes, is never
\* ahead of the local time and never more than the call behind.
THEOREM ClockChipRight == Spec => []ChipRight
<1>1. Behind => ChipRight
  BY DEF Behind
<1> QED BY <1>1, ClockBehind, PTL

\* The screen, set from an answer or from such a chip, is never ahead of the
\* local time and never more than both delays behind.
THEOREM ClockScreenRight == Spec => []ScreenRight
<1>1. Behind => ScreenRight
  BY DEF Behind
<1> QED BY <1>1, ClockBehind, PTL
------------------------------------------------------------------------------
(* Every step of the device brings the end of an attempt to connect nearer. *)

\* The call of connectWifi is under way exactly while its caller waits for it.
EspOK ==
    /\ up \in BOOLEAN /\ failures \in 0..2
    /\ wifi \in {"idle", "status", "begin", "check", "connected", "disconnected"}
    /\ wifi # "idle" <=> pc = "connecting"

\* The steps that the attempt has left while the network stays as it is, the
\* last of them that of the caller.
AttemptLeft ==
    CASE wifi = "status" -> IF up THEN 3 ELSE 8 - 2 * failures
      [] wifi = "begin"  -> IF up THEN 4 ELSE 7 - 2 * failures
      [] wifi = "check"  -> 2
      [] wifi = "idle"   -> 0
      [] OTHER           -> 1

\* What each step does to the steps left: the device's own always lower them,
\* and those of the world raise them only if the network changes.
Nears ==
    /\ AttemptLeft \in 0..8
    /\ pc = "connecting" <=> AttemptLeft > 0
    /\ pc = "connecting" /\ Device => AttemptLeft' < AttemptLeft
    /\ World /\ up' = up => AttemptLeft' <= AttemptLeft

LEMMA InitEspOK == Init => EspOK
<1> SUFFICES ASSUME Init PROVE EspOK
  OBVIOUS
<1>1. up \in BOOLEAN
  BY Zenon DEF Init, EspInit
<1> QED BY <1>1 DEF Init, EspInit, EspOK

LEMMA NextEspOK == EspOK /\ [Next]_vars => EspOK'
<1> SUFFICES ASSUME EspOK, [Next]_vars PROVE EspOK'
  OBVIOUS
<1> USE DEF EspOK
<1>1. CASE Tick \/ BootTime \/ BootDate \/ SetTimeOut \/ WriteHour \/ WriteMinute
           \/ WriteSecond \/ WriteDate
  BY <1>1 DEF Tick, BootTime, BootDate, SetTimeOut, WriteHour, WriteMinute, WriteSecond,
     WriteDate, espVars
<1>2. CASE PowerCycle \/ NotConnected \/ Get
  BY <1>2 DEF PowerCycle, NotConnected, Get, Returned
<1>3. CASE Flap /\ UNCHANGED <<clocks, pc, stamp, age, seen>>
  <2>1. up' \in BOOLEAN
    BY <1>3 DEF Flap
  <2> QED BY <1>3, <2>1 DEF Flap
<1>4. CASE ConfigTime
  <2>1. up' \in BOOLEAN /\ wifi' = "status" /\ failures' = 0 /\ pc' = "connecting"
    BY <1>4 DEF ConfigTime, Call
  <2> QED BY <2>1
<1>5. CASE Connect
  BY <1>5 DEF Connect, Step, Status, Begin, Check
<1>6. CASE UNCHANGED vars
  BY <1>6 DEF vars, espVars
<1> QED BY <1>1, <1>2, <1>3, <1>4, <1>5, <1>6 DEF Next, World, Device

LEMMA AttemptLeftRange ==
  EspOK => AttemptLeft \in 0..8 /\ (pc = "connecting" <=> AttemptLeft > 0)
BY DEF EspOK, AttemptLeft

LEMMA DeviceNears ==
  ASSUME EspOK, Device, pc = "connecting"
  PROVE  AttemptLeft' < AttemptLeft
<1>1. CASE Connect
  BY <1>1 DEF Connect, Step, Status, Begin, Check, AttemptLeft, EspOK
<1>2. CASE NotConnected \/ Get
  BY <1>2 DEF NotConnected, Get, Returned, AttemptLeft
<1> QED
  BY <1>1, <1>2 DEF Device, BootTime, BootDate, SetTimeOut, WriteHour, WriteMinute,
     WriteSecond, WriteDate

LEMMA WorldKeeps ==
  ASSUME EspOK, World, up' = up
  PROVE  AttemptLeft' <= AttemptLeft
<1> DEFINE n == AttemptLeft
<1>1. n \in 0..8
  BY AttemptLeftRange
<1>2. CASE Tick
  <2>1. AttemptLeft' = n
    BY <1>2 DEF Tick, espVars, AttemptLeft
  <2> QED BY <1>1, <2>1
<1>3. CASE PowerCycle
  <2>1. AttemptLeft' = 0
    BY <1>3 DEF PowerCycle, Returned, AttemptLeft
  <2> QED BY <1>1, <2>1
<1>4. CASE Flap
  <2>1. up' = ~up
    BY <1>4, Zenon DEF Flap
  <2>2. up \in BOOLEAN
    BY DEF EspOK
  <2>3. CASE up = TRUE
    BY <2>1, <2>3, Zenon
  <2>4. CASE up = FALSE
    BY <2>1, <2>4, Zenon
  <2> QED BY <2>2, <2>3, <2>4
<1> QED BY <1>2, <1>3, <1>4 DEF World

\* While the network stays as it is, connectWifi and its caller have at most
\* eight steps left, and every step of the device is one of them: ticks of the
\* clocks do not put it off, and only a change of the network, or the user who
\* asks again, gives it more.
THEOREM ClockAttemptNears == Spec => [][Nears]_vars
<1>1. EspOK /\ [Next]_vars => [Nears]_vars
  BY AttemptLeftRange, DeviceNears, WorldKeeps DEF Nears
<1>2. Spec => []EspOK
  BY InitEspOK, NextEspOK, PTL DEF Spec
<1> QED BY <1>1, <1>2, PTL DEF Spec
==============================================================================
