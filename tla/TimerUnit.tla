----------------------------- MODULE TimerUnit ------------------------------
(* A timer with the software that writes its registers and the run loop that  *)
(* ticks it, in batches of any size.  Ghost variables count the cycles and    *)
(* the reloads since the timer was armed.                                     *)
EXTENDS Timer

CONSTANTS
    Periods,    \* bound: values that software writes to period and count
    Batches,    \* bound: numbers of cycles of one call of timer_tick
    MaxElapsed  \* bound: cycles since the timer was armed

ASSUME TimerBounds ==
    /\ Periods \subseteq Nat
    /\ Batches \subseteq Nat
    /\ MaxElapsed \in Nat

VARIABLES
    timer,        \* single_timer_t
    armed,    \* the last control write armed the timer, and no write came after
    elapsed,  \* cycles since then
    reloaded  \* the last call of timer_tick reloaded the timer

timerVars == <<timer, armed, elapsed, reloaded>>

TimerInit ==
    /\ timer = TimerReset
    /\ armed = FALSE
    /\ elapsed = 0
    /\ reloaded = FALSE

StoreTimer(new, arms) ==
    /\ timer' = new
    /\ armed' = arms
    /\ elapsed' = 0
    /\ reloaded' = FALSE

SetPeriod == \E v \in Periods : StoreTimer(WritePeriod(timer, v), FALSE)

SetCount == \E v \in Periods : StoreTimer(WriteCount(timer, v), FALSE)

SetControl ==
    \E enabled \in BOOLEAN, select \in Select :
        StoreTimer(WriteControl(timer, enabled, select), enabled /\ ~timer.enabled)

TickTimer ==
    \E cycles \in Batches :
        /\ elapsed + cycles <= MaxElapsed
        /\ timer' = TimerTick(timer, cycles)
        /\ reloaded' = Reloads(timer, cycles)
        /\ elapsed' = elapsed + cycles
        /\ UNCHANGED armed

TimerNext == SetPeriod \/ SetCount \/ SetControl \/ TickTimer

TimerSpec == TimerInit /\ [][TimerNext]_timerVars

-----------------------------------------------------------------------------
TimerTypeOK ==
    /\ timer \in TimerState
    /\ armed \in BOOLEAN
    /\ elapsed \in Nat
    /\ reloaded \in BOOLEAN

\* "The accumulator holds the cycles of the next tick that already passed, and
\* it is always less than the divisor, thus need is 1 or more."
ReloadIsAhead ==
    /\ timer.acc < Divisor(timer.select)
    /\ Runs(timer) => CyclesToReload(timer) >= 1

\* The count of a timer with this period, some ticks after it was armed: each
\* period + 1 ticks are one turn of the counter.
CountAt(period, ticks) == period - (ticks % (period + 1))

\* The count of an armed timer depends on the time since then, and not on the
\* number of calls that the time was cut into.
CountIsElapsedTime ==
    armed /\ Runs(timer) => timer.count = CountAt(timer.period, elapsed \div Divisor(timer.select))

\* timer_cycles_to_next_reload is exact: a call with fewer cycles does not
\* reload the timer, and a call with as many does.
ReloadIsPredicted ==
    [][elapsed' > elapsed =>
         (reloaded' <=> Runs(timer) /\ elapsed' - elapsed >= CyclesToReload(timer))]_timerVars
=============================================================================
