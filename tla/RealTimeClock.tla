---------------------------- MODULE RealTimeClock ----------------------------
(***************************************************************************)
(* The RTC-72421 of src/emulation/rtc72421.cpp: a calendar that is brought *)
(* up to date from the system timer when the processor reads or writes one *)
(* of its registers, and at no other time.                                 *)
(*                                                                         *)
(* A program sets the clock digit by digit, with the clock stopped; it     *)
(* writes the registers from the highest to the lowest.                    *)
(***************************************************************************)
EXTENDS Integers, Sequences

CONSTANTS
  Second,           \* 1000000: units of the system timer in a second
  Wrap,             \* 2^32: where the system timer and microsAccumulated start again
  Dates,            \* bound: what the clock is set to
  Passes,           \* bound: the time between two events
  MaxAge,           \* bound: the time after the clock was set
  MaxPause,         \* bound: the time between two writes that set it
  MaxModes          \* bound: changes between 12 and 24 hours

ASSUME ClockAssumption ==
  /\ Second \in Nat \ {0} /\ Wrap \in Nat /\ Second <= Wrap
  /\ Passes \subseteq Nat /\ MaxAge \in Nat /\ MaxPause \in Nat /\ MaxModes \in Nat

VARIABLES
  rtc,              \* the registers, and microsAccumulated
  writes,           \* the writes left of a program that sets the clock
  date,             \* what the clock was last set to
  age,              \* the time since then
  idle,             \* the time since the last access: now - lastMicros
  wrapped,          \* has either of them come round between two accesses?
  modes             \* number of changes between 12 and 24 hours

clockVars == <<rtc, writes, date, age, idle, wrapped, modes>>

-----------------------------------------------------------------------------
(* The calendar. *)

daysInMonth == <<31, 28, 31, 30, 31, 30, 31, 31, 30, 31, 30, 31>>

DaysIn(month, year) ==
  IF month = 2 /\ year % 4 = 0 THEN 29 ELSE daysInMonth[month]

\* The power on time, a Thursday.
ResetClock ==
  [seconds |-> 0, minutes |-> 0, hours |-> 0, day |-> 1, month |-> 1,
   year |-> 26, weekday |-> 4, hour24 |-> TRUE, stop |-> FALSE, micros |-> 0]

NextDay(c) ==
  LET monthEnds == c.day >= DaysIn(c.month, c.year)
      yearEnds == monthEnds /\ c.month = 12
  IN  [c EXCEPT !.weekday = (@ + 1) % 7,
                !.day = IF monthEnds THEN 1 ELSE @ + 1,
                !.month = IF yearEnds THEN 1 ELSE IF monthEnds THEN @ + 1 ELSE @,
                !.year = IF yearEnds THEN (@ + 1) % 100 ELSE @]

DaySeconds == 24 * 60 * 60
SecondOfDay(h, m, s) == (h * 60 + m) * 60 + s

\* n times NextDay.
DaysLater(c, n) ==
  LET after[k \in 0 .. n] == IF k = 0 THEN c ELSE NextDay(after[k - 1])
  IN  after[n]

\* n times IncrementSecond: the seconds carry into minutes, hours and days.
Incremented(c, n) ==
  LET total == SecondOfDay(c.hours, c.minutes, c.seconds) + n
  IN  [DaysLater(c, total \div DaySeconds) EXCEPT
         !.seconds = total % 60,
         !.minutes = (total \div 60) % 60,
         !.hours = (total \div 3600) % 24]

\* Mutant of Tick: the fraction of a second is dropped.
TickDropsFractions ==
  IF rtc.stop THEN rtc ELSE Incremented(rtc, (idle % Wrap) \div Second)

\* Tick.  What elapsed is counted modulo 2^32, and so is its sum with the fraction.
Tick ==
  LET total == (rtc.micros + (idle % Wrap)) % Wrap
  IN  IF rtc.stop THEN rtc
      ELSE Incremented([rtc EXCEPT !.micros = total % Second], total \div Second)

\* A date and a time of the century.
IsDate(d) ==
  /\ d.year \in 0 .. 99 /\ d.month \in 1 .. 12 /\ d.day \in 1 .. DaysIn(d.month, d.year)
  /\ d.weekday \in 0 .. 6 /\ d.hours \in 0 .. 23 /\ d.minutes \in 0 .. 59 /\ d.seconds \in 0 .. 59

ASSUME DatesAssumption == \A d \in Dates : IsDate(d)

-----------------------------------------------------------------------------
(* The registers. *)

AtMost(n, limit) == IF n > limit THEN limit ELSE n
Within(n, low, high) == IF n < low THEN low ELSE AtMost(n, high)

Ones(n, data) == (n \div 10) * 10 + AtMost(data, 9)
Tens(n, data) == (n % 10) + 10 * data

\* An hour as a 12 hour clock shows it.
Hour12(h) == IF h % 12 = 0 THEN 12 ELSE h % 12

\* From the 12 hour clock's hour back to the hour of the day.
HourOfDay(h, pm) == (h % 12) + (IF pm THEN 12 ELSE 0)

\* The register of the ten hours; bit 3 chooses 24 hours, bit 2 is PM.
TenHours(c, data) ==
  IF data >= 8
  THEN [c EXCEPT !.hour24 = TRUE, !.hours = AtMost(Tens(@, data % 4), 23)]
  ELSE [c EXCEPT !.hour24 = FALSE,
                 !.hours = HourOfDay(Tens(Hour12(@), data % 4), data >= 4)]

OneHours(c, data) ==
  [c EXCEPT !.hours = IF c.hour24 THEN AtMost(Ones(@, data), 23)
                      ELSE HourOfDay(Ones(Hour12(@), data), @ >= 12)]

\* What a write of data stores in the calendar.
Register(c, reg, data) ==
  CASE reg = 0 -> [c EXCEPT !.seconds = AtMost(Ones(@, data), 59), !.micros = 0]
    [] reg = 1 -> [c EXCEPT !.seconds = AtMost(Tens(@, data % 8), 59), !.micros = 0]
    [] reg = 2 -> [c EXCEPT !.minutes = AtMost(Ones(@, data), 59)]
    [] reg = 3 -> [c EXCEPT !.minutes = AtMost(Tens(@, data % 8), 59)]
    [] reg = 4 -> OneHours(c, data)
    [] reg = 5 -> TenHours(c, data)
    [] reg = 6 -> [c EXCEPT !.day = Within(Ones(@, data), 1, 39)]
    [] reg = 7 -> [c EXCEPT !.day = Within(Tens(@, data % 4), 1, 39)]
    [] reg = 8 -> [c EXCEPT !.month = Within(Ones(@, data), 1, 12)]
    [] reg = 9 -> [c EXCEPT !.month = Within(Tens(@, data % 2), 1, 12)]
    [] reg = 10 -> [c EXCEPT !.year = Ones(@, data)]
    [] reg = 11 -> [c EXCEPT !.year = Tens(@, AtMost(data, 9))]
    [] reg = 12 -> [c EXCEPT !.weekday = AtMost(data, 6)]
    [] reg = 15 -> [c EXCEPT !.hour24 = data % 8 >= 4, !.stop = data % 4 >= 2]

\* What a read of a register of the calendar c shows.
Shown(c, reg) ==
  LET h == IF c.hour24 THEN c.hours ELSE Hour12(c.hours)
  IN  CASE reg = 0 -> c.seconds % 10
        [] reg = 1 -> c.seconds \div 10
        [] reg = 2 -> c.minutes % 10
        [] reg = 3 -> c.minutes \div 10
        [] reg = 4 -> h % 10
        [] reg = 5 -> (h \div 10) + (IF ~c.hour24 /\ c.hours >= 12 THEN 4 ELSE 0)
        [] reg = 6 -> c.day % 10
        [] reg = 7 -> c.day \div 10
        [] reg = 8 -> c.month % 10
        [] reg = 9 -> c.month \div 10
        [] reg = 10 -> c.year % 10
        [] reg = 11 -> c.year \div 10
        [] reg = 12 -> c.weekday
        [] reg = 15 -> (IF c.hour24 THEN 4 ELSE 0) + (IF c.stop THEN 2 ELSE 0)

-----------------------------------------------------------------------------
(* What happens to the clock. *)

\* Every access brings the calendar up to date first.
Accessed == idle' = 0

\* A read of any register: HDOS stamps a file.
ReadClock ==
  /\ writes = <<>>
  /\ rtc' = Tick
  /\ Accessed
  /\ UNCHANGED <<writes, date, age, wrapped, modes>>

\* The writes of a program that sets the clock to d, with the clock stopped.
Setting(d) ==
  <<<<15, 6>>, <<12, d.weekday>>,
    <<11, d.year \div 10>>, <<10, d.year % 10>>,
    <<9, d.month \div 10>>, <<8, d.month % 10>>,
    <<7, d.day \div 10>>, <<6, d.day % 10>>,
    <<5, 8 + (d.hours \div 10)>>, <<4, d.hours % 10>>,
    <<3, d.minutes \div 10>>, <<2, d.minutes % 10>>,
    <<1, d.seconds \div 10>>, <<0, d.seconds % 10>>, <<15, 4>>>>

\* Bound: once.
SetClock(d) ==
  /\ writes = <<>> /\ date = ResetClock
  /\ writes' = Setting(d)
  /\ date' = d
  /\ UNCHANGED <<rtc, age, idle, wrapped, modes>>

\* The next of these writes; the last one starts the clock.
WriteClock ==
  /\ writes # <<>>
  /\ rtc' = Register(Tick, writes[1][1], writes[1][2])
  /\ writes' = Tail(writes)
  /\ age' = 0
  /\ wrapped' = FALSE
  /\ Accessed
  /\ UNCHANGED <<date, modes>>

\* The program wants 12 hours instead of 24, or 24 instead of 12.
SwitchHours ==
  /\ writes = <<>>
  /\ modes < MaxModes
  /\ modes' = modes + 1
  /\ rtc' = Register(Tick, 15, IF rtc.hour24 THEN 0 ELSE 4)
  /\ Accessed
  /\ UNCHANGED <<writes, date, age, wrapped>>

\* Time goes by.
Pass(d) ==
  /\ age + d <= IF writes = <<>> THEN MaxAge ELSE MaxPause
  /\ age' = age + d
  /\ idle' = idle + d
  /\ wrapped' = (wrapped \/ rtc.micros + idle' >= Wrap)
  /\ UNCHANGED <<rtc, writes, date, modes>>

ClockInit ==
  /\ rtc = ResetClock
  /\ writes = <<>>
  /\ date = ResetClock
  /\ age = 0
  /\ idle = 0
  /\ wrapped = FALSE
  /\ modes = 0

ClockNext ==
  \/ ReadClock \/ WriteClock \/ SwitchHours
  \/ \E d \in Dates : SetClock(d)
  \/ \E d \in Passes : Pass(d)

-----------------------------------------------------------------------------
(* Properties. *)

\* The hour of the day a reader makes of the two registers.
ShownHour ==
  LET tens == Shown(rtc, 5)
      ones == Shown(rtc, 4)
  IN  IF Shown(rtc, 15) % 8 >= 4 THEN 10 * tens + ones
      ELSE HourOfDay(10 * (tens % 4) + ones, tens >= 4)

ShownPair(reg) == 10 * Shown(rtc, reg + 1) + Shown(rtc, reg)

ShownSecond == SecondOfDay(ShownHour, ShownPair(2), ShownPair(0))

\* The days of the 21st century before a date, and those of a year before a month.
daysUpTo == <<0, 31, 59, 90, 120, 151, 181, 212, 243, 273, 304, 334>>
DaysBefore(y, m, d) ==
  y * 365 + (y + 3) \div 4 + daysUpTo[m] + (IF m > 2 /\ y % 4 = 0 THEN 1 ELSE 0) + d - 1

CenturyDays == 36525

\* A program that reads the clock sees the date and the time it was set to plus
\* what has gone by, in both modes and over every end of a month, a leap day
\* and the end of the century, if the registers are accessed often enough.
ClockKeepsTime ==
  writes = <<>> /\ idle = 0 /\ ~wrapped =>
    LET start == SecondOfDay(date.hours, date.minutes, date.seconds)
        run == start + age \div Second
        days == DaysBefore(date.year, date.month, date.day) + run \div DaySeconds
    IN  /\ ShownSecond = run % DaySeconds
        /\ DaysBefore(ShownPair(10), ShownPair(8), ShownPair(6))
             = days % CenturyDays
        /\ Shown(rtc, 12) = (date.weekday + run \div DaySeconds) % 7

==============================================================================
