------------------------------ MODULE ClockUnit ------------------------------
(* The real-time clock between its line, which changes at a fixed rate, the   *)
(* host that sets the time, and the kernel that adjusts it field by field     *)
(* with the increments of the control register.                               *)
EXTENDS Naturals, Sequences

-----------------------------------------------------------------------------
(* The time and the date of rtc.c.  RTC_TIME and RTC_DATE are words of eight  *)
(* BCD digits, digit 0 the lowest, and the code adds to a digit and corrects  *)
(* the carry with masks.                                                      *)

Word == [0..7 -> 0..15]

\* The word plus 16^k, with the carry of a word.
AddAt(w, k) ==
    [i \in 0..7 |-> IF i >= k /\ \A j \in k..(i - 1) : w[j] = 15 THEN (w[i] + 1) % 16 ELSE w[i]]

Clear(w, digits) == [i \in 0..7 |-> IF i \in digits THEN 0 ELSE w[i]]

Two(w, k) == 10 * w[k + 1] + w[k]

Put(w, k, n) == [w EXCEPT ![k] = n % 10, ![k + 1] = n \div 10]

-----------------------------------------------------------------------------
(* The fields, by their number in CNTSEL, and the digit each one starts at.   *)
Fields == 0..6
InTime == 0..3
DigitOf == [f \in Fields |-> IF f \in InTime THEN 2 * f ELSE 2 * (f - 4)]

\* Seconds and minutes: the units carry into the tens, and 60 is 00.
Sexagesimal(w, k) ==
    LET units == AddAt(w, k)
        tens  == AddAt(Clear(units, {k}), k + 1)
    IN CASE units[k] # 10 -> units
         [] units[k] = 10 /\ <<tens[k + 1], tens[k]>> = <<6, 0>> -> Clear(tens, {k, k + 1})
         [] OTHER -> tens

\* Hours, days and years: the field is 00 at its limit.
Decimal(w, k, limit) ==
    LET units == AddAt(w, k)
    IN CASE <<units[k + 1], units[k]>> = limit -> Clear(units, {k, k + 1})
         [] <<units[k + 1], units[k]>> # limit /\ units[k] = 10 -> AddAt(Clear(units, {k}), k + 1)
         [] OTHER -> units

\* The day of the week has one digit, from 1 to 7.
Weekday(w) ==
    LET day == AddAt(w, 6) IN IF day[6] = 8 THEN [day EXCEPT ![6] = 1] ELSE day

\* At 13 the month keeps its digits, and the day is 01.
Month(w) ==
    LET units == AddAt(w, 2)
    IN CASE <<units[3], units[2]>> = <<1, 3>> -> [units EXCEPT ![0] = 1, ![1] = 0]
         [] <<units[3], units[2]>> # <<1, 3>> /\ units[2] = 10 -> AddAt(Clear(units, {2}), 3)
         [] OTHER -> units

Year(w) ==
    LET units == AddAt(w, 4)
        tens  == AddAt(Clear(units, {4}), 5)
    IN CASE units[4] # 10 -> units
         [] units[4] = 10 /\ tens[5] = 10 -> Clear(tens, {4, 5})
         [] OTHER -> tens

\* rtc_increment_field: the clock after an increment of field f.
Increment(c, f) ==
    CASE f \in {0, 1} -> [c EXCEPT !.time = Sexagesimal(@, DigitOf[f])]
      [] f = 2 -> [c EXCEPT !.time = Decimal(@, 4, <<2, 4>>)]
      [] f = 3 -> [c EXCEPT !.time = Weekday(@)]
      [] f = 4 -> [c EXCEPT !.date = Decimal(@, 0, <<3, 2>>)]
      [] f = 5 -> [c EXCEPT !.date = Month(@)]
      [] f = 6 -> [c EXCEPT !.date = Year(@)]
      [] OTHER -> c

-----------------------------------------------------------------------------
(* The advance of the running clock.                                          *)

Lengths == <<31, 28, 31, 30, 31, 30, 31, 31, 30, 31, 30, 31>>

\* Mutant: no leap year.
DaysInMonthOfYearOne(month, year) == IF month \in 1..12 THEN Lengths[month] ELSE 31

DaysInMonth(month, year) ==
    CASE month \notin 1..12 -> 31
      [] month = 2 /\ year % 4 = 0 -> 29
      [] OTHER -> Lengths[month]

AdvanceDate(w) ==
    LET day   == Two(w, 0) + 1
        month == Two(w, 2)
        year  == Two(w, 4)
        put(d, m, y) == Put(Put(Put(w, 0, d), 2, m), 4, y)
    IN CASE day <= DaysInMonth(month, year) -> put(day, month, year)
         [] day > DaysInMonth(month, year) /\ month < 12 -> put(1, month + 1, year)
         [] OTHER -> put(1, 1, (year + 1) % 100)

\* A field that comes back to 00 carries into the next one.
Wrapped(w, k) == w[k] = 0 /\ w[k + 1] = 0

AdvanceSecond(c) ==
    LET seconds == Sexagesimal(c.time, 0)
        minutes == Sexagesimal(seconds, 2)
        hours   == Decimal(minutes, 4, <<2, 4>>)
    IN CASE ~Wrapped(seconds, 0) -> [c EXCEPT !.time = seconds]
         [] Wrapped(seconds, 0) /\ ~Wrapped(minutes, 2) -> [c EXCEPT !.time = minutes]
         [] Wrapped(seconds, 0) /\ Wrapped(minutes, 2) /\ ~Wrapped(hours, 4) ->
                [c EXCEPT !.time = hours]
         [] OTHER -> [c EXCEPT !.time = Weekday(hours), !.date = AdvanceDate(@)]

-----------------------------------------------------------------------------
CONSTANTS
    HostTimes,    \* what the host sets: <<year, month, day, hour, minute, second, weekday>>
    Targets,      \* what the kernel adjusts to, in the same form
    Orders,       \* the orders in which the kernel adjusts the fields
    MonthWraps,   \* the kernel adjusts a month to an earlier one
    MaxPulses     \* the transitions of a running line after a start or a set

\* A calendar of its own: the days before a month, and the length of a month.
Before == <<0, 31, 59, 90, 120, 151, 181, 212, 243, 273, 304, 334, 365>>
MonthLength(m, y) == Before[m + 1] - Before[m] + (IF m = 2 /\ y % 4 = 0 THEN 1 ELSE 0)

IsTime(t) ==
    /\ t \in [1..7 -> Nat]
    /\ t[1] <= 99 /\ t[2] \in 1..12 /\ t[3] \in 1..MonthLength(t[2], t[1])
    /\ t[4] <= 23 /\ t[5] <= 59 /\ t[6] <= 59 /\ t[7] \in 1..7

\* The host and the user of the kernel set dates of the calendar.
ASSUME ClockUnitAssumption ==
    /\ MonthWraps \in BOOLEAN /\ MaxPulses \in Nat
    /\ \A t \in HostTimes \cup Targets : IsTime(t)
    /\ \A o \in Orders : o \in Seq(Fields) /\ \A f \in Fields : \E i \in DOMAIN o : o[i] = f

VARIABLES
    rtc,     \* rtc_t
    kernel,  \* its adjustment: the fields it has still to do, and the target
    pulses   \* transitions since the last start or set, a bound

clockVars == <<rtc, kernel, pulses>>

\* What a field holds, and what it has to hold in a target.
Field(r, f) == CASE f = 3 -> r.time[6]
                 [] f \in InTime \ {3} -> Two(r.time, DigitOf[f])
                 [] OTHER -> Two(r.date, DigitOf[f])
Wanted(t, f) == <<t[6], t[5], t[4], t[7], t[3], t[2], t[1]>>[f + 1]

ZeroWord == [i \in 0..7 |-> 0]
TimeOf(t) == Put(Put(Put(Put(ZeroWord, 0, t[6]), 2, t[5]), 4, t[4]), 6, t[7])
DateOf(t) == Put(Put(Put(ZeroWord, 0, t[3]), 2, t[2]), 4, t[1])

Idle == [todo |-> <<>>, target |-> <<>>]

\* rtc_init: Thursday, 1998-01-01.
RtcPowerOn == [program |-> FALSE, select |-> 0, control |-> 0, line |-> FALSE,
               time |-> TimeOf(<<98, 1, 1, 0, 0, 0, 4>>), date |-> DateOf(<<98, 1, 1, 0, 0, 0, 4>>)]

ClockInit == rtc = RtcPowerOn /\ kernel = Idle /\ pulses = 0

-----------------------------------------------------------------------------

\* rtc_tick: the line changes, and each fall of a clock that runs is a second.
Transition ==
    /\ rtc.program \/ pulses < MaxPulses
    /\ pulses' = IF rtc.program THEN pulses ELSE pulses + 1
    /\ LET r == [rtc EXCEPT !.line = ~@]
       IN rtc' = IF ~r.program /\ ~r.line THEN AdvanceSecond(r) ELSE r
    /\ UNCHANGED kernel

\* Mutant: the host sets the clock in program mode also.
SetDatetimeAnytime(t) ==
    /\ rtc' = [rtc EXCEPT !.time = TimeOf(t), !.date = DateOf(t)]
    /\ pulses' = 0
    /\ UNCHANGED kernel

\* psemu_set_datetime changes nothing in program mode.
SetDatetime(t) ==
    /\ ~rtc.program
    /\ rtc' = [rtc EXCEPT !.time = TimeOf(t), !.date = DateOf(t)]
    /\ pulses' = 0
    /\ UNCHANGED kernel

ResetClock ==
    /\ rtc # RtcPowerOn
    /\ rtc' = RtcPowerOn /\ kernel' = Idle /\ pulses' = 0

-----------------------------------------------------------------------------
(* The kernel.  It enters program mode, brings each field to its target with  *)
(* increments, and leaves program mode.                                       *)

BeginAdjust(t, order) ==
    /\ kernel = Idle
    /\ MonthWraps \/ Field(rtc, 5) <= Wanted(t, 5)
    /\ kernel' = [todo |-> order, target |-> t]
    /\ rtc' = [rtc EXCEPT !.program = TRUE, !.select = Head(order)]
    /\ UNCHANGED pulses

Reached == Field(rtc, Head(kernel.todo)) = Wanted(kernel.target, Head(kernel.todo))

\* rtc_write8 of the control register: a 1 is kept, and a 1 on top of a 1
\* increments the field that CNTSEL selects.
WriteControlOne ==
    /\ kernel.todo # <<>>
    /\ rtc.control = 1 \/ ~Reached
    /\ rtc' = IF rtc.control = 1 THEN [Increment(rtc, rtc.select) EXCEPT !.control = 0]
                                 ELSE [rtc EXCEPT !.control = 1]
    /\ UNCHANGED <<kernel, pulses>>

\* A store to the mode register selects the next field.
NextField ==
    /\ kernel.todo # <<>> /\ Tail(kernel.todo) # <<>>
    /\ rtc.control = 0 /\ Reached
    /\ kernel' = [kernel EXCEPT !.todo = Tail(@)]
    /\ rtc' = [rtc EXCEPT !.select = Head(kernel'.todo)]
    /\ UNCHANGED pulses

EndAdjust ==
    /\ Len(kernel.todo) = 1 /\ rtc.control = 0 /\ Reached
    /\ kernel' = Idle
    /\ rtc' = [rtc EXCEPT !.program = FALSE]
    /\ pulses' = 0

KernelStep == WriteControlOne \/ NextField \/ EndAdjust

ClockNext ==
    \/ Transition
    \/ \E t \in HostTimes : SetDatetime(t)
    \/ ResetClock
    \/ \E t \in Targets, o \in Orders : BeginAdjust(t, o)
    \/ KernelStep

ClockSpec == ClockInit /\ [][ClockNext]_clockVars

\* The kernel runs.  The line, the host and the resets need not.
ClockFairness == WF_clockVars(KernelStep)

-----------------------------------------------------------------------------
(* The days since the start of the century and the seconds of the day.        *)

DayNumber(r) ==
    LET y == Field(r, 6)  m == Field(r, 5)
    IN 365 * y + (y + 3) \div 4 + Before[m] + (IF m > 2 /\ y % 4 = 0 THEN 1 ELSE 0) + Field(r, 4) - 1

SecondOfDay(r) == 3600 * Field(r, 2) + 60 * Field(r, 1) + Field(r, 0)

Century == 36525

\* One second later.
Follows(r, s) ==
    IF SecondOfDay(r) < 86399
    THEN /\ SecondOfDay(s) = SecondOfDay(r) + 1
         /\ s.date = r.date /\ Field(s, 3) = Field(r, 3)
    ELSE /\ SecondOfDay(s) = 0
         /\ DayNumber(s) = (DayNumber(r) + 1) % Century
         /\ Field(s, 3) = (Field(r, 3) % 7) + 1

SecondIsExact ==
    [][/\ (Transition /\ rtc.line /\ ~rtc.program) => Follows(rtc, rtc')
       /\ (Transition /\ ~(rtc.line /\ ~rtc.program)) => UNCHANGED <<rtc.time, rtc.date>>]_clockVars

AdjustIsExact ==
    [][(EndAdjust /\ kernel.todo # <<>>) =>
          \A f \in Fields : Field(rtc', f) = Wanted(kernel.target, f)]_clockVars

\* A fall of the line of a running clock is one second later in the calendar, from
\* each time that the host and the kernel leave behind, and a rise or a transition in
\* program mode leaves the time and the date (the comment at rtc.c:247; that at
\* rtc.h:108 says otherwise, see EachChangeAdvances).  And when the kernel leaves program
\* mode each field is at its target: a tick, a set of the host or an increment of
\* another field has not moved one that was done before (psemu.c:1137, rtc.c:249).
ClockIsExact == SecondIsExact /\ AdjustIsExact

\* Literally, the comment at rtc.h:108: each change of the line of a clock that runs
\* advances it.  The code advances it at each fall (README).
EachChangeAdvances == [][(Transition /\ ~rtc.program) => Follows(rtc, rtc')]_clockVars

\* The loop of the kernel ends, whatever the host and the line do (the comment
\* at psemu.c:1137 on a set in the middle of it).
AdjustEnds == kernel.todo # <<>> ~> kernel.todo = <<>>
=============================================================================
