------------------------------- MODULE Timer --------------------------------
(* timer.c: one timer of the block, as a record.                              *)
EXTENDS Integers

RegSpan == 65536  \* TIMER_REG_MASK + 1

Select == 0..3

TimerReset == [period |-> 0, count |-> 0, enabled |-> FALSE, select |-> 0, acc |-> 0]

TimerState == [period : 0..RegSpan - 1, count : 0..RegSpan - 1, enabled : BOOLEAN,
               select : Select, acc : Nat]

\* timer_divisor
Divisor(select) == CASE select = 1 -> 32 [] select = 2 -> 512 [] OTHER -> 2

WritePeriod(t, value) == [t EXCEPT !.period = value % RegSpan]

WriteCount(t, value) == [t EXCEPT !.count = value % RegSpan]

\* A write to control starts the prescaler again, and loads the counter at the
\* edge of the enable bit.
WriteControl(t, enabled, select) ==
    [t EXCEPT !.enabled = enabled, !.select = select, !.acc = 0,
              !.count = IF enabled /\ ~t.enabled THEN t.period ELSE @]

Runs(t) == t.enabled /\ t.period # 0

Ticks(t, cycles) == (t.acc + cycles) \div Divisor(t.select)

\* Mutant: expires each period ticks in place of each period + 1.
CountAfterShort(period, count, ticks) ==
    IF ticks > count THEN period - ((ticks - count - 1) % period) ELSE count - ticks

\* The loop of timer_tick in closed form: the counter passes zero and reloads,
\* and then at each period + 1 ticks.
CountAfter(period, count, ticks) ==
    IF ticks > count THEN period - ((ticks - count - 1) % (period + 1))
                     ELSE count - ticks

\* timer_tick: the interrupt line that it asserts, and the timer.
Reloads(t, cycles) == Runs(t) /\ Ticks(t, cycles) > t.count

TimerTick(t, cycles) ==
    IF Runs(t)
    THEN [t EXCEPT !.acc = (t.acc + cycles) % Divisor(t.select),
                   !.count = CountAfter(t.period, t.count, Ticks(t, cycles))]
    ELSE t

\* Mutant: the counter reloads as it gets to zero.
CyclesToZero(t) == t.count * Divisor(t.select) - t.acc

\* timer_cycles_to_next_reload, of a timer that runs.
CyclesToReload(t) == (t.count + 1) * Divisor(t.select) - t.acc
=============================================================================
