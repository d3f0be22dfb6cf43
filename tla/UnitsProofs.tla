----------------------------- MODULE UnitsProofs -----------------------------
(* Proofs about the timers, the serial block, the IR transceiver and the      *)
(* flash, which MCUnits puts side by side.  They hold for every value that    *)
(* software writes, every capacity and time constant, every length of a       *)
(* conversation, every cut of the time into calls of the tick functions, and  *)
(* every size of the card and its frames.                                     *)
EXTENDS TimerUnit, ComUnit, IrUnit, FlashUnit, SequenceTheorems, WellFoundedInduction, TLAPS

-----------------------------------------------------------------------------
(* The timers                                                                 *)

LEMMA Remainder ==
    ASSUME NEW e \in Int, NEW m \in Nat, m > 0
    PROVE  /\ e % m \in 0..m - 1
           /\ e \div m \in Int
           /\ e = m * (e \div m) + (e % m)
BY SMTT(30)

LEMMA RemainderIsUnique ==
    ASSUME NEW k \in Int, NEW r \in Int, NEW m \in Nat, 0 <= r, r < m
    PROVE  (m * k + r) % m = r /\ (m * k + r) \div m = k
BY SMTT(30)

\* The sum of a number and of one that is known modulo m.
LEMMA RemainderOfSum ==
    ASSUME NEW e \in Int, NEW q \in Int, NEW m \in Nat, m > 0
    PROVE  (e + q) % m = ((e % m) + q) % m
<1> DEFINE k == e \div m
           r == e % m
           j == (r + q) \div m
           s == (r + q) % m
<1>1. k \in Int /\ r \in Int /\ e = m * k + r
  BY Remainder
<1>2. j \in Int /\ s \in Int /\ 0 <= s /\ s < m /\ r + q = m * j + s
  BY <1>1, Remainder
<1> HIDE DEF k, r, j, s
<1>3. k + j \in Int /\ e + q = m * (k + j) + s
  BY <1>1, <1>2, SMT
<1>4. (m * (k + j) + s) % m = s
  BY <1>2, <1>3, RemainderIsUnique
<1> QED
  BY <1>3, <1>4 DEF r, s

LEMMA DivisorValues ==
    ASSUME NEW select \in Select
    PROVE  Divisor(select) \in Nat /\ Divisor(select) > 0
BY DEF Divisor, Select

\* The accumulator is below the divisor at all times.
Inv == TimerTypeOK /\ timer.acc < Divisor(timer.select)

\* What a call of timer_tick divides: the new ticks and the new accumulator.
LEMMA TicksOfCall ==
    ASSUME NEW x \in TimerState, NEW cycles \in Nat
    PROVE  /\ Ticks(x, cycles) \in Nat
           /\ (x.acc + cycles) % Divisor(x.select) \in 0..Divisor(x.select) - 1
           /\ x.acc + cycles = Divisor(x.select) * Ticks(x, cycles)
                               + ((x.acc + cycles) % Divisor(x.select))
<1> DEFINE d == Divisor(x.select)
           e == x.acc + cycles
<1>1. d \in Nat /\ d > 0 /\ e \in Nat
  BY DivisorValues DEF TimerState
<1>2. Ticks(x, cycles) = e \div d
  BY DEF Ticks
<1> HIDE DEF d, e
<1>3. /\ e % d \in 0..d - 1
      /\ e \div d \in Int
      /\ e = d * (e \div d) + (e % d)
  BY <1>1, Remainder
<1>4. e \div d \in Nat
  BY <1>1, <1>3, SMT
<1> QED
  BY <1>2, <1>3, <1>4 DEF d, e

\* timer_cycles_to_next_reload is exact: a call reloads a timer that runs if
\* and only if it has that number of cycles or more.
THEOREM ReloadWhenDue ==
    ASSUME NEW x \in TimerState, NEW cycles \in Nat, Runs(x)
    PROVE  Reloads(x, cycles) <=> cycles >= CyclesToReload(x)
<1> DEFINE d == Divisor(x.select)
           e == x.acc + cycles
           q == Ticks(x, cycles)
           r == e % d
<1>1. /\ d \in Nat /\ d > 0 /\ e \in Nat /\ q \in Nat
      /\ r \in 0..d - 1 /\ e = d * q + r
  BY TicksOfCall, DivisorValues, SMTT(30) DEF TimerState
<1>2. x.count \in Nat /\ x.acc \in Nat
  BY DEF TimerState
<1>3. Reloads(x, cycles) <=> q > x.count
  BY DEF Reloads
<1>4. CyclesToReload(x) = (x.count + 1) * d - x.acc /\ e = x.acc + cycles
  BY DEF CyclesToReload
<1> HIDE DEF d, e, q, r
<1>5. CASE q > x.count
  <2>1. d * q >= (x.count + 1) * d
    BY <1>1, <1>2, <1>5, SMT
  <2> QED
    BY <1>1, <1>2, <1>3, <1>4, <1>5, <2>1, SMT
<1>6. CASE q <= x.count
  <2>1. d * q <= d * x.count
    BY <1>1, <1>2, <1>6, SMT
  <2>2. (x.count + 1) * d = d * x.count + d
    BY <1>1, <1>2, SMT
  <2> QED
    BY <1>1, <1>2, <1>3, <1>4, <1>6, <2>1, <2>2, SMT
<1> QED
  BY <1>1, <1>2, <1>5, <1>6

LEMMA SpanOfRegister == RegSpan \in Nat /\ RegSpan > 0
BY SMTT(30) DEF RegSpan

LEMMA CountRange ==
    ASSUME NEW p \in 0..RegSpan - 1, NEW n \in 0..RegSpan - 1, NEW q \in Nat
    PROVE  CountAfter(p, n, q) \in 0..RegSpan - 1
<1>0. RegSpan \in Nat
  BY SpanOfRegister
<1>1. p \in Nat /\ n \in Nat /\ p <= RegSpan - 1 /\ n <= RegSpan - 1
  BY <1>0
<1>2. CASE q > n
  <2> DEFINE s == (q - n - 1) % (p + 1)
  <2>1. p + 1 \in Nat /\ p + 1 > 0 /\ q - n - 1 \in Int
    BY <1>1
  <2>2. s \in 0..(p + 1) - 1
    BY <2>1, Remainder
  <2>3. CountAfter(p, n, q) = p - s
    BY <1>2 DEF CountAfter
  <2> HIDE DEF s
  <2> QED BY <1>0, <1>1, <2>2, <2>3
<1>3. CASE ~(q > n)
  <2>1. CountAfter(p, n, q) = n - q
    BY <1>3 DEF CountAfter
  <2> QED BY <1>0, <1>1, <1>3, <2>1
<1> QED BY <1>2, <1>3

\* The new state of a timer: the types, and the accumulator.
LEMMA TickKeepsType ==
    ASSUME NEW x \in TimerState, NEW cycles \in Nat, x.acc < Divisor(x.select)
    PROVE  /\ TimerTick(x, cycles) \in TimerState
           /\ TimerTick(x, cycles).acc < Divisor(x.select)
           /\ TimerTick(x, cycles).select = x.select
           /\ TimerTick(x, cycles).period = x.period
           /\ TimerTick(x, cycles).enabled = x.enabled
<1> DEFINE q == Ticks(x, cycles)
           r == (x.acc + cycles) % Divisor(x.select)
           c == CountAfter(x.period, x.count, q)
<1>1. CASE ~Runs(x)
  BY <1>1 DEF TimerTick
<1>2. CASE Runs(x)
  <2>1. q \in Nat /\ r \in Nat /\ r < Divisor(x.select)
    BY TicksOfCall, DivisorValues DEF TimerState
  <2>2. c \in 0..RegSpan - 1
    BY <2>1, CountRange DEF TimerState
  <2>3. TimerTick(x, cycles) = [x EXCEPT !.acc = r, !.count = c]
    BY <1>2 DEF TimerTick
  <2> HIDE DEF q, r, c
  <2> QED BY <2>1, <2>2, <2>3 DEF TimerState
<1> QED
  BY <1>1, <1>2

LEMMA StoresKeepType ==
    ASSUME NEW x \in TimerState, NEW v \in Nat, NEW enabled \in BOOLEAN,
           NEW select \in Select
    PROVE  /\ WritePeriod(x, v) \in TimerState /\ WriteCount(x, v) \in TimerState
           /\ WriteControl(x, enabled, select) \in TimerState
<1>1. RegSpan \in Nat /\ RegSpan > 0 /\ v \in Int
  BY SpanOfRegister
<1>2. v % RegSpan \in 0..RegSpan - 1
  BY <1>1, Remainder
<1>3. WritePeriod(x, v) \in TimerState
  BY <1>2 DEF WritePeriod, TimerState
<1>4. WriteCount(x, v) \in TimerState
  BY <1>2 DEF WriteCount, TimerState
<1>5. WriteControl(x, enabled, select) \in TimerState
  BY DEF WriteControl, TimerState
<1> QED
  BY <1>3, <1>4, <1>5

LEMMA InitInv == TimerInit => Inv
<1> SUFFICES ASSUME TimerInit PROVE Inv
  OBVIOUS
<1>1. TimerReset \in TimerState
  BY DEF TimerReset, TimerState, Select, RegSpan
<1>2. Divisor(0) = 2
  BY DEF Divisor
<1>3. timer.acc = 0 /\ timer.select = 0
  BY DEF TimerInit, TimerReset
<1>4. TimerTypeOK
  BY <1>1 DEF TimerInit, TimerTypeOK
<1>5. timer.acc < Divisor(timer.select)
  BY <1>2, <1>3
<1> QED BY <1>4, <1>5 DEF Inv

LEMMA StepInv == Inv /\ [TimerNext]_timerVars => Inv'
<1> SUFFICES ASSUME Inv, [TimerNext]_timerVars PROVE Inv'
  OBVIOUS
<1> USE DEF Inv, TimerTypeOK
<1>1. CASE SetPeriod
  <2>1. PICK v \in Periods : StoreTimer(WritePeriod(timer, v), FALSE)
    BY <1>1 DEF SetPeriod
  <2>2. v \in Nat
    BY TimerBounds
  <2>3. timer' \in TimerState /\ timer'.acc = timer.acc /\ timer'.select = timer.select
    BY <2>1, <2>2, StoresKeepType DEF StoreTimer, WritePeriod, TimerState
  <2> QED BY <2>1, <2>3 DEF StoreTimer
<1>2. CASE SetCount
  <2>1. PICK v \in Periods : StoreTimer(WriteCount(timer, v), FALSE)
    BY <1>2 DEF SetCount
  <2>2. v \in Nat
    BY TimerBounds
  <2>3. timer' \in TimerState /\ timer'.acc = timer.acc /\ timer'.select = timer.select
    BY <2>1, <2>2, StoresKeepType DEF StoreTimer, WriteCount, TimerState
  <2> QED BY <2>1, <2>3 DEF StoreTimer
<1>3. CASE SetControl
  <2>1. PICK enabled \in BOOLEAN, select \in Select :
            StoreTimer(WriteControl(timer, enabled, select), enabled /\ ~timer.enabled)
    BY <1>3 DEF SetControl
  <2>2. timer' \in TimerState /\ timer'.acc = 0 /\ timer'.select = select
    BY <2>1, StoresKeepType DEF StoreTimer, WriteControl, TimerState
  <2>3. timer'.acc < Divisor(timer'.select)
    BY <2>2, DivisorValues
  <2>4. timer.enabled \in BOOLEAN
    BY DEF TimerState
  <2> QED BY <2>1, <2>2, <2>3, <2>4 DEF StoreTimer
<1>4. CASE TickTimer
  <2>1. PICK cycles \in Batches :
            /\ timer' = TimerTick(timer, cycles)
            /\ reloaded' = Reloads(timer, cycles)
            /\ elapsed' = elapsed + cycles
            /\ UNCHANGED armed
    BY <1>4 DEF TickTimer
  <2>2. cycles \in Nat
    BY TimerBounds
  <2>3. Reloads(timer, cycles) \in BOOLEAN
    BY DEF Reloads
  <2>4. /\ timer' \in TimerState
        /\ timer'.acc < Divisor(timer.select)
        /\ timer'.select = timer.select
    BY <2>1, <2>2, TickKeepsType
  <2> QED BY <2>1, <2>2, <2>3, <2>4
<1>5. CASE UNCHANGED timerVars
  BY <1>5 DEF timerVars
<1> QED
  BY <1>1, <1>2, <1>3, <1>4, <1>5 DEF TimerNext

\* The types of the timer, after every write and every call of timer_tick.
THEOREM TimerTypeCorrect == TimerSpec => []TimerTypeOK
<1>1. Inv => TimerTypeOK
  BY DEF Inv
<1> QED
  BY InitInv, StepInv, <1>1, PTL DEF TimerSpec

\* The accumulator is always less than the divisor, thus the next reload of a
\* timer that runs is at least one cycle away.
THEOREM ReloadIsAlwaysAhead == TimerSpec => []ReloadIsAhead
<1>1. Inv => ReloadIsAhead
  <2> SUFFICES ASSUME Inv PROVE ReloadIsAhead
    OBVIOUS
  <2>1. timer.acc \in Nat /\ timer.count \in Nat /\ timer.select \in Select
    <3>1. RegSpan \in Nat
      BY DEF RegSpan
    <3> QED BY <3>1 DEF Inv, TimerTypeOK, TimerState
  <2> DEFINE d == Divisor(timer.select)
  <2>2. d \in Nat /\ timer.acc < d
    BY <2>1, DivisorValues DEF Inv
  <2>3. CyclesToReload(timer) = (timer.count + 1) * d - timer.acc
    BY DEF CyclesToReload
  <2> HIDE DEF d
  <2>4. (timer.count + 1) * d >= d /\ (timer.count + 1) * d \in Nat
    BY <2>1, <2>2, SMT
  <2>5. CyclesToReload(timer) >= 1
    BY <2>1, <2>2, <2>3, <2>4
  <2> QED BY <2>2, <2>5 DEF ReloadIsAhead, d
<1> QED
  BY InitInv, StepInv, <1>1, PTL DEF TimerSpec

\* A call of timer_tick reloads the timer if and only if it has the cycles that
\* timer_cycles_to_next_reload gives, or more.
THEOREM ReloadIsAlwaysPredicted == TimerSpec => ReloadIsPredicted
<1>1. Inv /\ [TimerNext]_timerVars =>
        [elapsed' > elapsed =>
           (reloaded' <=> Runs(timer) /\ elapsed' - elapsed >= CyclesToReload(timer))]_timerVars
  <2> SUFFICES ASSUME Inv, TimerNext, elapsed' > elapsed
               PROVE  reloaded' <=> Runs(timer) /\ elapsed' - elapsed >= CyclesToReload(timer)
    OBVIOUS
  <2> USE DEF Inv, TimerTypeOK
  <2>1. ~SetPeriod /\ ~SetCount /\ ~SetControl
    BY DEF SetPeriod, SetCount, SetControl, StoreTimer
  <2>2. PICK cycles \in Batches :
            reloaded' = Reloads(timer, cycles) /\ elapsed' = elapsed + cycles
    BY <2>1 DEF TimerNext, TickTimer
  <2>3. cycles \in Nat /\ elapsed' - elapsed = cycles
    BY <2>2, TimerBounds
  <2>4. CASE Runs(timer)
    BY <2>2, <2>3, <2>4, ReloadWhenDue
  <2>5. CASE ~Runs(timer)
    BY <2>2, <2>5 DEF Reloads
  <2> QED BY <2>4, <2>5
<1> QED
  BY InitInv, StepInv, <1>1, PTL DEF TimerSpec, ReloadIsPredicted

\* What the accumulator and the count hold, time cycles after a timer was armed.
InStep(x, time) ==
    /\ x.acc = time % Divisor(x.select)
    /\ x.count = CountAt(x.period, time \div Divisor(x.select))

\* Ticks add up: the counter does not know how many calls they came in.
LEMMA TurnOfCounter ==
    ASSUME NEW p \in Nat, NEW k \in Nat, NEW q \in Nat
    PROVE  CountAfter(p, CountAt(p, k), q) = CountAt(p, k + q)
<1> DEFINE m == p + 1
           r == k % m
           n == CountAt(p, k)
<1>1. m \in Nat /\ m > 0 /\ r \in 0..m - 1 /\ n = p - r
  BY Remainder DEF CountAt
<1>2. (k + q) % m = (r + q) % m
  BY <1>1, RemainderOfSum
<1> HIDE DEF m, r, n
<1>3. m = p + 1
  BY DEF m
<1>4. CASE q > n
  <2>1. r + q = m * 1 + (q - n - 1)
    BY <1>1, <1>3
  <2> DEFINE a == q - n - 1
  <2>2. a \in Int
    BY <1>1
  <2> HIDE DEF a
  <2> DEFINE s == a % m
             j == a \div m
  <2>3. s \in 0..m - 1 /\ j \in Int /\ a = m * j + s
    BY <1>1, <2>2, Remainder, Zenon
  <2>4. r + q = m * 1 + a
    BY <2>1 DEF a
  <2> HIDE DEF s, j
  <2>5. /\ r + q = m * (j + 1) + s
        /\ j + 1 \in Int /\ s \in Int /\ 0 <= s /\ s < m
    BY <1>1, <2>2, <2>3, <2>4, SMT
  <2>6. (m * (j + 1) + s) % m = s
    BY <1>1, <2>5, RemainderIsUnique, Zenon
  <2>7. (k + q) % m = (q - n - 1) % m
    BY <1>2, <2>5, <2>6 DEF s, a
  <2>8. CountAfter(p, n, q) = p - ((q - n - 1) % m)
    BY <1>4 DEF CountAfter, m
  <2> QED BY <2>7, <2>8 DEF CountAt, m, n
<1>5. CASE q <= n
  <2>1. r + q = m * 0 + (r + q) /\ 0 <= r + q /\ r + q < m /\ r + q \in Int
    BY <1>1, <1>3, <1>5
  <2>2. (m * 0 + (r + q)) % m = r + q
    <3>1. 0 \in Int /\ m \in Nat
      BY <1>1
    <3> QED BY <2>1, <3>1, RemainderIsUnique, Zenon
  <2>3. (k + q) % m = r + q
    BY <1>2, <2>1, <2>2
  <2>4. ~(q > n) /\ n - q = p - (r + q)
    BY <1>1, <1>5
  <2>5. CountAfter(p, n, q) = n - q
    BY <2>4 DEF CountAfter
  <2> QED BY <2>3, <2>4, <2>5 DEF CountAt, m, n
<1> QED BY <1>1, <1>4, <1>5

LEMMA TickKeepsStep ==
    ASSUME NEW x \in TimerState, NEW time \in Nat, NEW cycles \in Nat,
           Runs(x), InStep(x, time)
    PROVE  InStep(TimerTick(x, cycles), time + cycles)
<1> DEFINE d == Divisor(x.select)
           k == time \div d
           a == time % d
           q == Ticks(x, cycles)
           r == (x.acc + cycles) % d
           y == TimerTick(x, cycles)
<1>1. x.period \in Nat /\ x.count \in Nat /\ x.acc \in Nat
  <2>1. RegSpan \in Nat
    BY DEF RegSpan
  <2> QED BY <2>1 DEF TimerState
<1>2. d \in Nat /\ d > 0
  BY DivisorValues DEF TimerState
<1> HIDE DEF d
<1>3. k \in Int /\ a \in 0..d - 1 /\ time = d * k + a
  <2>1. time \in Int
    OBVIOUS
  <2> QED BY <1>2, <2>1, Remainder, Zenon
<1>4. q \in Nat /\ r \in 0..d - 1 /\ x.acc + cycles = d * q + r
  BY TicksOfCall DEF d
<1>5. x.acc = a /\ x.count = CountAt(x.period, k)
  BY DEF InStep, d
<1>6. /\ y.acc = r
      /\ y.count = CountAfter(x.period, x.count, q)
      /\ y.select = x.select /\ y.period = x.period
  BY DEF TimerTick, TimerState, d
<1> HIDE DEF k, a, q, r, y
<1>7. k \in Nat
  BY <1>2, <1>3, SMT
<1>8. time + cycles = d * (k + q) + r /\ k + q \in Int
  BY <1>2, <1>3, <1>4, <1>5, <1>7, SMT
<1>9. (d * (k + q) + r) % d = r /\ (d * (k + q) + r) \div d = k + q
  <2>1. r \in Int /\ 0 <= r /\ r < d
    BY <1>2, <1>4
  <2> QED BY <1>2, <1>8, <2>1, RemainderIsUnique, Zenon
<1>10. (time + cycles) % d = r /\ (time + cycles) \div d = k + q
  BY <1>8, <1>9
<1>11. y.count = CountAt(x.period, k + q)
  <2>1. x.period \in Nat /\ k \in Nat /\ q \in Nat
    BY <1>1, <1>4, <1>7
  <2>2. y.count = CountAfter(x.period, CountAt(x.period, k), q)
    BY <1>5, <1>6
  <2> QED BY <2>1, <2>2, TurnOfCounter, Zenon
<1> QED
  BY <1>6, <1>10, <1>11 DEF InStep, d, y

\* InStep is what CountIsElapsedTime needs to be inductive.
CountInv == Inv /\ (armed /\ Runs(timer) => InStep(timer, elapsed))

LEMMA InitCountInv == TimerInit => CountInv
BY InitInv DEF CountInv, TimerInit

LEMMA StepCountInv == CountInv /\ [TimerNext]_timerVars => CountInv'
<1> SUFFICES ASSUME CountInv, [TimerNext]_timerVars, armed', Runs(timer')
             PROVE  InStep(timer', elapsed')
  BY StepInv DEF CountInv
<1>1. timer \in TimerState /\ elapsed \in Nat /\ armed \in BOOLEAN /\ Inv
  BY DEF CountInv, Inv, TimerTypeOK
<1>2. CASE SetPeriod \/ SetCount
  BY <1>2 DEF SetPeriod, SetCount, StoreTimer
<1>3. CASE SetControl
  <2>1. PICK enabled \in BOOLEAN, select \in Select :
            StoreTimer(WriteControl(timer, enabled, select), enabled /\ ~timer.enabled)
    BY <1>3 DEF SetControl
  <2>2. /\ timer'.acc = 0 /\ timer'.select = select /\ elapsed' = 0
        /\ timer'.count = timer.period /\ timer'.period = timer.period
    BY <1>1, <2>1 DEF StoreTimer, WriteControl, TimerState
  <2> DEFINE d == Divisor(select)
             m == timer.period + 1
  <2>3. /\ d \in Nat /\ d > 0 /\ timer.period \in Nat /\ m \in Nat /\ m > 0
    <3>1. RegSpan \in Nat
      BY DEF RegSpan
    <3> QED BY <1>1, <3>1, DivisorValues DEF TimerState
  <2> HIDE DEF d, m
  <2>4. 0 % d = 0 /\ 0 \div d = 0 /\ 0 % m = 0
    <3>1. (d * 0 + 0) % d = 0 /\ (d * 0 + 0) \div d = 0 /\ (m * 0 + 0) % m = 0
      BY <2>3, RemainderIsUnique
    <3>2. d * 0 + 0 = 0 /\ m * 0 + 0 = 0
      BY <2>3
    <3> QED BY <3>1, <3>2
  <2>5. CountAt(timer.period, 0) = timer.period
    BY <2>3, <2>4 DEF CountAt, m
  <2> QED BY <2>2, <2>4, <2>5 DEF InStep, d
<1>4. CASE TickTimer
  <2>1. PICK cycles \in Batches :
            /\ timer' = TimerTick(timer, cycles)
            /\ elapsed' = elapsed + cycles
            /\ UNCHANGED armed
    BY <1>4 DEF TickTimer
  <2>2. cycles \in Nat
    BY TimerBounds
  <2>3. timer'.period = timer.period /\ timer'.enabled = timer.enabled
    BY <1>1, <2>1, <2>2, TickKeepsType DEF Inv
  <2>4. Runs(timer)
    BY <2>3 DEF Runs
  <2>5. InStep(timer, elapsed)
    BY <2>1, <2>4 DEF CountInv
  <2>6. InStep(TimerTick(timer, cycles), elapsed + cycles)
    BY <1>1, <2>2, <2>4, <2>5, TickKeepsStep
  <2> QED BY <2>1, <2>6
<1>5. CASE UNCHANGED timerVars
  BY <1>5 DEF timerVars, CountInv
<1> QED
  BY <1>2, <1>3, <1>4, <1>5 DEF TimerNext

\* The count of an armed timer is the time since then, for every cut of that
\* time into calls: the batch of the idle-loop skip gives the same timer as one
\* call for each instruction.
THEOREM CountIsAlwaysElapsedTime == TimerSpec => []CountIsElapsedTime
<1>1. CountInv => CountIsElapsedTime
  BY DEF CountInv, CountIsElapsedTime, InStep
<1> QED
  BY InitCountInv, StepCountInv, <1>1, PTL DEF TimerSpec

-----------------------------------------------------------------------------
(* The serial block.  A port keeps the request, the pending interrupt and the *)
(* two event registers in step, whatever the kernel and the host do to it.    *)

Requests == [hold : SUBSET Line, status : SUBSET Line, enable : {{"com", "iop"}}, changes : {0}]

PortType == [com : ComState(0..MaxBytes), intc : Requests]

Joined(p) == p \in PortType /\ ("com" \in p.intc.hold <=> p.com.level)

Wired(p) == Joined(p) /\ (p.com.level <=> Stat2(p.com) # {})

\* What the kernel and the host see of a port, by parts.
SameLine(q, p)  == q.com.selected = p.com.selected /\ q.com.dropped = p.com.dropped
SameBytes(q, p) == q.com.held = p.com.held /\ q.com.out = p.com.out /\ q.com.acked = p.com.acked
SameRegs(q, p)  == q.com.ctrl1 = p.com.ctrl1 /\ q.com.events = p.com.events

LEMMA ComIsLine ==
    /\ "com" \in Line /\ "com" \in FiqMask /\ "com" \in StatusMask
    /\ "iop" \in Line /\ "iop" \notin FiqMask /\ "iop" \in StatusMask /\ "timer2" \notin {"com", "iop"}
    /\ FiqMask = {"com", "timer2"} /\ StatusMask \subseteq Line
BY DEF Line, IrqMask, FiqMask, StatusMask, Buttons

LEMMA UncountedResult ==
    ASSUME NEW i \in Requests, NEW n \in Requests
    PROVE  Uncounted(Counted(i, n)) = n
<1>1. CASE <<n.hold, n.status, n.enable>> = <<i.hold, i.status, i.enable>>
  <2>1. Counted(i, n) = i
    BY <1>1 DEF Counted
  <2>2. Uncounted(i) = n
    BY <1>1 DEF Uncounted, Requests
  <2> QED BY <2>1, <2>2
<1>2. CASE <<n.hold, n.status, n.enable>> # <<i.hold, i.status, i.enable>>
  <2>1. Counted(i, n) = [n EXCEPT !.changes = @ + 1]
    BY <1>2 DEF Counted
  <2>2. [[n EXCEPT !.changes = @ + 1] EXCEPT !.changes = 0] = n
    BY DEF Requests
  <2> QED BY <2>1, <2>2 DEF Uncounted
<1> QED BY <1>1, <1>2

LEMMA RequestFollows ==
    ASSUME NEW i \in Requests, NEW on \in BOOLEAN
    PROVE  LET n == Uncounted(SetLine(i, "com", on)) IN n \in Requests /\ ("com" \in n.hold <=> on)
<1>1. CASE on
  <2> DEFINE n == [i EXCEPT !.hold = @ \cup {"com"}, !.status = @ \cup ({"com"} \cap StatusMask)]
  <2>1. n \in Requests /\ "com" \in n.hold
    BY ComIsLine DEF Requests
  <2>2. SetLine(i, "com", on) = Counted(i, n)
    BY <1>1 DEF SetLine
  <2> HIDE DEF n
  <2> QED BY <1>1, <2>1, <2>2, UncountedResult
<1>2. CASE ~on
  <2> DEFINE n == [i EXCEPT !.hold = @ \ {"com"}, !.status = @ \ {"com"}]
  <2>1. n \in Requests /\ "com" \notin n.hold
    BY DEF Requests
  <2>2. SetLine(i, "com", on) = Counted(i, n)
    BY <1>2 DEF SetLine
  <2> HIDE DEF n
  <2> QED BY <1>2, <2>1, <2>2, UncountedResult
<1> QED BY <1>1, <1>2

LEMMA DockPulse ==
    ASSUME NEW i \in Requests, NEW on \in BOOLEAN
    PROVE  LET n == Uncounted(SetLevelAndPulse(i, "iop", on))
           IN  n \in Requests /\ ("com" \in n.hold <=> "com" \in i.hold)
<1> DEFINE n == [i EXCEPT !.hold = @ \cup {"iop"},
                   !.status = IF on THEN @ \cup ({"iop"} \cap StatusMask) ELSE @ \ {"iop"}]
<1>1. n \in Requests /\ ("com" \in n.hold <=> "com" \in i.hold)
  BY ComIsLine DEF Requests
<1>2. SetLevelAndPulse(i, "iop", on) = Counted(i, n)
  BY DEF SetLevelAndPulse
<1> HIDE DEF n
<1> QED BY <1>1, <1>2, UncountedResult

LEMMA DockTaken ==
    ASSUME NEW i \in Requests
    PROVE  LET n == Uncounted(WriteAcknowledge(i, {"com", "iop"}))
           IN  n \in Requests /\ "com" \notin n.hold
<1> DEFINE n == [i EXCEPT !.hold = @ \ {"com", "iop"}, !.status = @ \ ({"com", "iop"} \ LevelMask)]
<1>1. n \in Requests /\ "com" \notin n.hold
  BY DEF Requests
<1>2. WriteAcknowledge(i, {"com", "iop"}) = Counted(i, n)
  BY DEF WriteAcknowledge
<1> HIDE DEF n
<1> QED BY <1>1, <1>2, UncountedResult

\* The interrupt of the serial block is pending if and only if it has an event that
\* its mask lets through.
LEMMA PendingIsStat2 ==
    ASSUME NEW p, Wired(p)
    PROVE  FiqAsserted(p.intc) <=> Stat2(p.com) # {}
<1>1. p.intc \in Requests
  BY DEF Wired, Joined, PortType
<1>2. p.intc.enable = {"com", "iop"}
  BY <1>1 DEF Requests
<1>3. FiqAsserted(p.intc) <=> "com" \in p.intc.hold
  BY <1>2, ComIsLine DEF FiqAsserted
<1> QED BY <1>3 DEF Wired, Joined

LEMMA UpdateWires ==
    ASSUME NEW p, Joined(p)
    PROVE  LET q == UpdateIrq(p)
           IN  Wired(q) /\ SameLine(q, p) /\ SameBytes(q, p) /\ SameRegs(q, p)
<1> DEFINE q == UpdateIrq(p)
           on == Stat2(p.com) # {}
<1>1. /\ p \in PortType /\ p.com \in ComState(0..MaxBytes) /\ p.intc \in Requests
      /\ on \in BOOLEAN /\ p.com.level \in BOOLEAN
  BY DEF Joined, PortType, ComState
<1>2. CASE on = p.com.level
  <2>1. q = p
    BY <1>2 DEF UpdateIrq
  <2> QED BY <1>2, <2>1 DEF Wired, SameLine, SameBytes, SameRegs
<1>3. CASE on # p.com.level
  <2>1. q = [com  |-> [p.com EXCEPT !.level = on], intc |-> Uncounted(SetLine(p.intc, "com", on))]
    BY <1>3 DEF UpdateIrq
  <2>2. q.intc \in Requests /\ ("com" \in q.intc.hold <=> on)
    <3> HIDE DEF on
    <3>1. LET n == Uncounted(SetLine(p.intc, "com", on)) IN n \in Requests /\ ("com" \in n.hold <=> on)
      BY <1>1, RequestFollows
    <3> QED BY <2>1, <3>1
  <2> HIDE DEF on
  <2>3. /\ q.com \in ComState(0..MaxBytes) /\ q.com.level = on
        /\ SameLine(q, p) /\ SameBytes(q, p) /\ SameRegs(q, p)
    BY <1>1, <2>1 DEF ComState, SameLine, SameBytes, SameRegs
  <2>4. Stat2(q.com) = Stat2(p.com)
    BY <2>3 DEF Stat2, SameRegs
  <2>5. q \in PortType
    BY <2>1, <2>2, <2>3 DEF PortType
  <2> USE DEF on
  <2> QED BY <2>2, <2>3, <2>4, <2>5 DEF Wired, Joined
<1> QED BY <1>2, <1>3

LEMMA StoreCtrl1Port ==
    ASSUME NEW p, Wired(p), NEW e \in SUBSET Event
    PROVE  LET q == StoreCtrl1(p, e)
           IN  /\ Wired(q) /\ SameLine(q, p) /\ SameBytes(q, p)
               /\ q.com.ctrl1 = e /\ q.com.events = p.com.events
<1> DEFINE n == [p EXCEPT !.com.ctrl1 = e]
<1>1. p \in PortType /\ p.com \in ComState(0..MaxBytes)
  BY DEF Wired, Joined, PortType
<1>2. /\ n \in PortType /\ n.com.ctrl1 = e /\ n.com.events = p.com.events
      /\ n.com.level = p.com.level /\ n.intc = p.intc /\ SameLine(n, p) /\ SameBytes(n, p)
  BY <1>1 DEF PortType, ComState, SameLine, SameBytes
<1>3. StoreCtrl1(p, e) = UpdateIrq(n)
  BY DEF StoreCtrl1
<1>4. Joined(n)
  BY <1>2 DEF Wired, Joined
<1> HIDE DEF n
<1> QED BY <1>2, <1>3, <1>4, UpdateWires DEF SameLine, SameBytes, SameRegs

LEMMA StoreCtrl2Port ==
    ASSUME NEW p, Wired(p), NEW e \in SUBSET Event
    PROVE  LET q == StoreCtrl2(p, e)
           IN  /\ Wired(q) /\ SameLine(q, p) /\ SameBytes(q, p)
               /\ q.com.ctrl1 = p.com.ctrl1 /\ q.com.events = p.com.events \ e
<1> DEFINE n == [p EXCEPT !.com.events = @ \ e]
<1>1. p \in PortType /\ p.com \in ComState(0..MaxBytes)
  BY DEF Wired, Joined, PortType
<1>2. /\ n \in PortType /\ n.com.ctrl1 = p.com.ctrl1 /\ n.com.events = p.com.events \ e
      /\ n.com.level = p.com.level /\ n.intc = p.intc /\ SameLine(n, p) /\ SameBytes(n, p)
  BY <1>1 DEF PortType, ComState, SameLine, SameBytes
<1>3. StoreCtrl2(p, e) = UpdateIrq(n)
  BY DEF StoreCtrl2
<1>4. Joined(n)
  BY <1>2 DEF Wired, Joined
<1> HIDE DEF n
<1> QED BY <1>2, <1>3, <1>4, UpdateWires DEF SameLine, SameBytes, SameRegs

LEMMA StoreReplyPort ==
    ASSUME NEW p, Wired(p), NEW b \in 0..MaxBytes
    PROVE  LET q == StoreReply(p, b)
           IN  /\ Wired(q) /\ SameLine(q, p) /\ SameRegs(q, p)
               /\ q.com.held = b /\ q.com.out = p.com.out /\ q.com.acked = p.com.acked
<1>1. p \in PortType /\ p.com \in ComState(0..MaxBytes)
  BY DEF Wired, Joined, PortType
<1> QED BY <1>1 DEF StoreReply, PortType, ComState, Wired, Joined, SameLine, SameRegs, Stat2

LEMMA StoreAckPort ==
    ASSUME NEW p, Wired(p)
    PROVE  LET q == StoreAck(p)
           IN  /\ Wired(q) /\ SameLine(q, p) /\ SameRegs(q, p)
               /\ q.com.held = p.com.held /\ q.com.out = p.com.out /\ q.com.acked = TRUE
<1>1. p \in PortType /\ p.com \in ComState(0..MaxBytes)
  BY DEF Wired, Joined, PortType
<1> QED BY <1>1 DEF StoreAck, PortType, ComState, Wired, Joined, SameLine, SameRegs, Stat2

LEMMA LoadDataPort ==
    ASSUME NEW p, Wired(p)
    PROVE  LET q == LoadData(p)
           IN  Wired(q) /\ SameLine(q, p) /\ SameRegs(q, p) /\ SameBytes(q, p)
<1>1. p \in PortType /\ p.com \in ComState(0..MaxBytes)
  BY DEF Wired, Joined, PortType
<1> QED BY <1>1 DEF LoadData, PortType, ComState, Wired, Joined, SameLine, SameRegs, SameBytes, Stat2

LEMMA EndTransferPort ==
    ASSUME NEW p, Wired(p)
    PROVE  LET q == EndTransfer(p)
           IN  /\ Wired(q) /\ SameLine(q, p) /\ SameRegs(q, p)
               /\ q.com.held = p.com.held /\ q.com.out = p.com.out /\ q.com.acked = FALSE
<1>1. p \in PortType /\ p.com \in ComState(0..MaxBytes)
  BY DEF Wired, Joined, PortType
<1> QED BY <1>1 DEF EndTransfer, PortType, ComState, Wired, Joined, SameLine, SameRegs, Stat2

LEMMA SetDockedPort ==
    ASSUME NEW p, Wired(p), NEW on \in BOOLEAN
    PROVE  LET q == SetDocked(p, on)
           IN  Wired(q) /\ SameLine(q, p) /\ SameRegs(q, p) /\ SameBytes(q, p)
<1> DEFINE q == SetDocked(p, on)
<1>1. p \in PortType /\ p.com \in ComState(0..MaxBytes) /\ p.intc \in Requests
  BY DEF Wired, Joined, PortType
<1>2. /\ q.com = [p.com EXCEPT !.docked = on]
      /\ q.intc \in Requests /\ ("com" \in q.intc.hold <=> "com" \in p.intc.hold)
      /\ q = [com |-> q.com, intc |-> q.intc]
  BY <1>1, DockPulse DEF SetDocked
<1>3. /\ q.com \in ComState(0..MaxBytes) /\ q.com.level = p.com.level
      /\ SameLine(q, p) /\ SameRegs(q, p) /\ SameBytes(q, p)
  BY <1>1, <1>2 DEF ComState, SameLine, SameRegs, SameBytes
<1>4. q \in PortType
  BY <1>2, <1>3 DEF PortType
<1>5. Stat2(q.com) = Stat2(p.com)
  BY <1>3 DEF Stat2, SameRegs
<1> HIDE DEF q
<1>6. Wired(q)
  BY <1>2, <1>3, <1>4, <1>5 DEF Wired, Joined
<1> USE DEF q
<1> QED BY <1>3, <1>6

LEMMA SetSelectedPort ==
    ASSUME NEW p, Wired(p), NEW on \in BOOLEAN
    PROVE  LET q == SetSelected(p, on)
           IN  /\ Wired(q) /\ SameBytes(q, p)
               /\ q.com.ctrl1 = p.com.ctrl1 /\ q.com.selected = on
               /\ q.com.dropped = IF on = p.com.selected THEN p.com.dropped ELSE ~on
               /\ q.com.events = IF on /\ ~p.com.selected THEN p.com.events \cup {"select"}
                                 ELSE p.com.events
<1>1. p \in PortType /\ p.com \in ComState(0..MaxBytes) /\ p.com.selected \in BOOLEAN
  BY DEF Wired, Joined, PortType, ComState
<1>2. CASE on = p.com.selected
  <2>1. SetSelected(p, on) = p
    BY <1>2 DEF SetSelected
  <2> QED BY <1>2, <2>1 DEF SameBytes
<1>3. CASE on /\ ~p.com.selected
  <2> DEFINE n == [[p EXCEPT !.com.selected = on, !.com.dropped = ~on]
                    EXCEPT !.com.events = @ \cup {"select"}]
  <2>1. /\ n \in PortType /\ n.com.ctrl1 = p.com.ctrl1 /\ n.com.events = p.com.events \cup {"select"}
        /\ n.com.level = p.com.level /\ n.intc = p.intc /\ n.com.selected = on /\ n.com.dropped = ~on
        /\ SameBytes(n, p)
    BY <1>1 DEF PortType, ComState, SameBytes, Event
  <2>2. SetSelected(p, on) = UpdateIrq(n)
    BY <1>3 DEF SetSelected
  <2>3. Joined(n)
    BY <2>1 DEF Wired, Joined
  <2> HIDE DEF n
  <2> QED BY <1>3, <2>1, <2>2, <2>3, UpdateWires, ZenonT(60) DEF SameLine, SameBytes, SameRegs
<1>4. CASE ~on /\ p.com.selected
  <2> DEFINE n == [p EXCEPT !.com.selected = on, !.com.dropped = ~on]
  <2>1. /\ n \in PortType /\ n.com.ctrl1 = p.com.ctrl1 /\ n.com.events = p.com.events
        /\ n.com.level = p.com.level /\ n.intc = p.intc /\ n.com.selected = on /\ n.com.dropped = ~on
        /\ SameBytes(n, p)
    BY <1>1 DEF PortType, ComState, SameBytes
  <2>2. SetSelected(p, on) = n
    BY <1>4 DEF SetSelected
  <2>3. Wired(n)
    BY <2>1 DEF Wired, Joined, Stat2
  <2> HIDE DEF n
  <2> QED BY <1>4, <2>1, <2>2, <2>3
<1> QED BY <1>1, <1>2, <1>3, <1>4

LEMMA BeginTransferPort ==
    ASSUME NEW p, Wired(p), NEW b \in 0..MaxBytes
    PROVE  LET q == BeginTransfer(p, b)
           IN  /\ Wired(q) /\ SameLine(q, p) /\ q.com.ctrl1 = p.com.ctrl1
               /\ q.com.events = p.com.events \cup {"ready"}
               /\ q.com.held = p.com.held /\ q.com.out = p.com.held /\ q.com.acked = FALSE
<1> DEFINE n == [p EXCEPT !.com.out = p.com.held, !.com.in = b, !.com.arrived = TRUE,
                          !.com.acked = FALSE, !.com.events = @ \cup {"ready"}]
<1>1. p \in PortType /\ p.com \in ComState(0..MaxBytes) /\ p.com.held \in 0..MaxBytes
  BY DEF Wired, Joined, PortType, ComState
<1>2. /\ n \in PortType /\ n.com.ctrl1 = p.com.ctrl1 /\ n.com.events = p.com.events \cup {"ready"}
      /\ n.com.level = p.com.level /\ n.intc = p.intc /\ SameLine(n, p)
      /\ n.com.held = p.com.held /\ n.com.out = p.com.held /\ n.com.acked = FALSE
  BY <1>1, ZenonT(60) DEF PortType, ComState, SameLine, Event
<1>3. BeginTransfer(p, b) = UpdateIrq(n)
  BY DEF BeginTransfer
<1>4. Joined(n)
  BY <1>2 DEF Wired, Joined
<1> HIDE DEF n
<1> QED BY <1>2, <1>3, <1>4, UpdateWires DEF SameLine, SameBytes, SameRegs

-----------------------------------------------------------------------------
(* A command from the selection to the release.                               *)

Serving == {"poll", "reply", "ack", "clear", "finish"}

\* A selection that no handler answered is the one event of a kernel that waits.
Selection ==
    /\ kernel.pc = "wait" =>
           port.com.ctrl1 = {"select"} /\ ("select" \in port.com.events <=> fresh)
    /\ kernel.pc = "listen" => "select" \notin port.com.events
    /\ fresh => kernel.pc = "wait" /\ host.sent = 0 /\ host.pc \in {"selected", "idle"}
    /\ fresh \/ kernel.pc \notin {"off", "wait"} => (port.com.dropped <=> ~port.com.selected)
    /\ host.pc = "idle" => ~port.com.selected

\* The acknowledge belongs to the last byte, and the byte out to the one before.
Exchange ==
    /\ host.pc = "selected" => host.sent = 0
    /\ host.pc = "between" => kernel.took = host.sent
    /\ host.pc = "exchange" =>
          /\ port.com.acked => kernel.took = host.sent
          /\ host.sent > 1 => port.com.out = host.sent - 1

\* Ready stands for the one byte that the kernel did not take.
Service ==
    /\ kernel.pc \in Serving \cup {"mask"} => port.com.ctrl1 = Event
    /\ kernel.pc = "select events" =>
           /\ kernel.took = 0 /\ host.sent = 0 /\ "ready" \notin port.com.events
           /\ host.pc \in {"selected", "idle"}
    /\ kernel.pc = "poll" =>
           /\ host.sent = kernel.took + IF "ready" \in port.com.events THEN 1 ELSE 0
           /\ "ready" \in port.com.events => ~port.com.acked
           /\ kernel.took > 0 => port.com.held = kernel.took
    /\ kernel.pc \in {"reply", "ack", "clear", "finish"} => kernel.took = host.sent
    /\ kernel.pc \in {"ack", "clear", "finish"} => port.com.held = kernel.took
    /\ kernel.pc \in {"reply", "ack"} => "ready" \notin port.com.events
    /\ kernel.pc \in {"reply", "ack", "finish"} =>
           ~port.com.acked /\ host.pc \in {"exchange", "release", "idle"}

Actors ==
    /\ kernel \in [pc : {"off", "wait", "select events", "mask", "forget", "listen"} \cup Serving,
                    took : 0..MaxBytes]
    /\ host \in [pc : {"idle", "selected", "exchange", "between", "release"}, sent : 0..MaxBytes]

ComInv == Wired(port) /\ Actors /\ Selection /\ Exchange /\ Service

LEMMA PortStart ==
    LET p == [com |-> ComReset, intc |-> [IntcReset EXCEPT !.enable = {"com", "iop"}]]
    IN  /\ Wired(p) /\ p.com.ctrl1 = {} /\ p.com.events = {} /\ ~p.com.selected /\ ~p.com.dropped
BY ComBounds DEF Wired, Joined, PortType, ComState, ComReset, IdleByte, Requests, IntcReset, Stat2

LEMMA ComStart == ComInit => ComInv
<1> SUFFICES ASSUME ComInit PROVE ComInv
  OBVIOUS
<1>1. /\ Wired(port) /\ ~port.com.selected
      /\ kernel = [pc |-> "off", took |-> 0] /\ host = [pc |-> "idle", sent |-> 0] /\ ~fresh
  BY PortStart DEF ComInit
<1> QED BY <1>1, ComBounds DEF ComInv, Actors, Selection, Exchange, Service, Serving

LEMMA KernelDockStep == ComInv /\ KernelDock => ComInv'
<1> SUFFICES ASSUME ComInv, KernelDock PROVE ComInv'
  OBVIOUS
<1> DEFINE silent  == StoreCtrl1(port, {})
           cleared == StoreCtrl2(silent, Event)
           acked   == [cleared EXCEPT !.intc = Uncounted(WriteAcknowledge(@, {"com", "iop"}))]
           docked  == "iop" \in port.intc.status
           ready   == StoreReply(acked, IdleByte)
           started == StoreCtrl1(ready, {"select"})
<1>1. /\ Wired(silent) /\ SameLine(silent, port) /\ SameBytes(silent, port)
      /\ silent.com.ctrl1 = {}
  BY StoreCtrl1Port DEF ComInv
<1>2. /\ Wired(cleared) /\ SameLine(cleared, port) /\ SameBytes(cleared, port)
      /\ cleared.com.ctrl1 = {} /\ cleared.com.events = {}
  <2> HIDE DEF silent
  <2>1. silent.com.events \subseteq Event
    BY <1>1 DEF Wired, Joined, PortType, ComState
  <2> QED BY <1>1, <2>1, StoreCtrl2Port DEF SameLine, SameBytes
<1>3. /\ Wired(acked) /\ SameLine(acked, port) /\ SameBytes(acked, port)
      /\ acked.com.ctrl1 = {} /\ acked.com.events = {}
  <2> HIDE DEF cleared
  <2>1. cleared \in PortType /\ cleared.intc \in Requests /\ ~cleared.com.level
    BY <1>2 DEF Wired, Joined, PortType, Stat2
  <2>2. /\ acked.com = cleared.com /\ acked.intc = Uncounted(WriteAcknowledge(cleared.intc, {"com", "iop"}))
        /\ acked = [com |-> acked.com, intc |-> acked.intc]
    BY <2>1 DEF PortType
  <2>3. acked.intc \in Requests /\ "com" \notin acked.intc.hold
    BY <2>1, <2>2, DockTaken
  <2> HIDE DEF acked
  <2>4. acked \in PortType
    BY <2>1, <2>2, <2>3 DEF PortType
  <2> QED BY <1>2, <2>1, <2>2, <2>3, <2>4 DEF Wired, Joined, Stat2, SameLine, SameBytes
<1>4. /\ Wired(ready) /\ SameLine(ready, port) /\ ready.com.out = port.com.out
      /\ ready.com.acked = port.com.acked /\ ready.com.ctrl1 = {} /\ ready.com.events = {}
  <2> HIDE DEF acked
  <2>1. IdleByte \in 0..MaxBytes
    BY ComBounds DEF IdleByte
  <2> QED BY <1>3, <2>1, StoreReplyPort DEF SameLine, SameBytes, SameRegs
<1>5. /\ Wired(started) /\ SameLine(started, port) /\ started.com.out = port.com.out
      /\ started.com.acked = port.com.acked
      /\ started.com.ctrl1 = {"select"} /\ started.com.events = {}
  <2> HIDE DEF ready
  <2>1. {"select"} \in SUBSET Event
    BY DEF Event
  <2> QED BY <1>4, <2>1, StoreCtrl1Port DEF SameLine, SameBytes
<1>6. /\ kernel.pc \in {"off", "wait"} /\ ~FiqAsserted(port.intc)
      /\ port' = (IF docked THEN started ELSE acked)
      /\ kernel' = [kernel EXCEPT !.pc = IF docked THEN "wait" ELSE "off"]
      /\ UNCHANGED <<host, fresh>>
  BY DEF KernelDock, Go
<1> HIDE DEF acked, started, docked
<1>7. /\ Wired(port') /\ SameLine(port', port)
      /\ port'.com.out = port.com.out /\ port'.com.acked = port.com.acked /\ port'.com.events = {}
      /\ docked => port'.com.ctrl1 = {"select"}
  BY <1>3, <1>5, <1>6 DEF SameLine, SameBytes
<1>8. ~fresh
  <2>1. Stat2(port.com) = {}
    BY <1>6, PendingIsStat2 DEF ComInv
  <2> QED BY <1>6, <2>1 DEF ComInv, Selection, Stat2
<1>9. kernel'.took = kernel.took /\ kernel'.pc = (IF docked THEN "wait" ELSE "off") /\ Actors'
  BY <1>6 DEF ComInv, Actors
<1>10. Selection'
  BY <1>6, <1>7, <1>8, <1>9 DEF ComInv, Selection, SameLine
<1>11. Exchange'
  BY <1>6, <1>7, <1>9 DEF ComInv, Exchange
<1>12. Service'
  BY <1>9 DEF Service, Serving
<1> QED BY <1>7, <1>9, <1>10, <1>11, <1>12 DEF ComInv

\* The kernel starts a command when the interrupt is pending, thus with a selection.
LEMMA KernelEnterStep == ComInv /\ KernelEnter => ComInv'
<1> SUFFICES ASSUME ComInv, KernelEnter PROVE ComInv'
  OBVIOUS
<1>1. /\ kernel.pc = "wait" /\ FiqAsserted(port.intc)
      /\ port' = StoreCtrl2(port, {"ready"})
      /\ kernel' = [pc |-> "select events", took |-> 0]
      /\ fresh' = FALSE /\ UNCHANGED host
  BY DEF KernelEnter
<1>2. fresh
  <2>1. Stat2(port.com) # {}
    BY <1>1, PendingIsStat2 DEF ComInv
  <2> QED BY <1>1, <2>1 DEF ComInv, Selection, Stat2
<1>3. /\ Wired(port') /\ SameLine(port', port) /\ SameBytes(port', port)
      /\ port'.com.events = port.com.events \ {"ready"}
  <2>1. {"ready"} \in SUBSET Event
    BY DEF Event
  <2> QED BY <1>1, <2>1, StoreCtrl2Port DEF ComInv
<1>4. Actors'
  <2>1. 0 \in 0..MaxBytes
    BY ComBounds
  <2>2. host' \in [pc : {"idle", "selected", "exchange", "between", "release"}, sent : 0..MaxBytes]
    BY <1>1 DEF ComInv, Actors
  <2> QED BY <1>1, <2>1, <2>2 DEF Actors
<1>5. host.sent = 0 /\ host.pc \in {"selected", "idle"} /\ (port.com.dropped <=> ~port.com.selected)
  BY <1>2 DEF ComInv, Selection
<1>6. Selection'
  BY <1>1, <1>3, <1>5 DEF ComInv, Selection, SameLine
<1>7. Exchange'
  BY <1>1, <1>5 DEF Exchange
<1>8. Service'
  BY <1>1, <1>3, <1>5 DEF Service, Serving
<1> QED BY <1>3, <1>4, <1>6, <1>7, <1>8 DEF ComInv

LEMMA KernelTakeStep == ComInv /\ KernelTake => ComInv'
<1> SUFFICES ASSUME ComInv, KernelTake PROVE ComInv'
  OBVIOUS
<1>1. /\ kernel.pc = "poll" /\ "ready" \in port.com.events
      /\ port' = StoreCtrl2(port, {"ready"})
      /\ kernel' = [pc |-> "reply", took |-> kernel.took + 1]
      /\ UNCHANGED <<host, fresh>>
  BY DEF KernelTake, Stat2
<1>2. /\ Wired(port') /\ SameLine(port', port) /\ SameBytes(port', port)
      /\ port'.com.ctrl1 = port.com.ctrl1 /\ port'.com.events = port.com.events \ {"ready"}
  <2>1. {"ready"} \in SUBSET Event
    BY DEF Event
  <2> QED BY <1>1, <2>1, StoreCtrl2Port DEF ComInv
<1>3. /\ kernel.took \in 0..MaxBytes /\ host.sent \in 0..MaxBytes /\ host.sent = kernel.took + 1
      /\ ~port.com.acked /\ port.com.ctrl1 = Event
      /\ host.pc \in {"idle", "selected", "exchange", "between", "release"}
  BY <1>1 DEF ComInv, Actors, Service, Serving
<1>4. host.pc \in {"exchange", "release", "idle"}
  BY <1>3 DEF ComInv, Exchange
<1>5. Actors'
  BY <1>1, <1>3 DEF ComInv, Actors, Serving
<1>6. Selection'
  BY <1>1, <1>2 DEF ComInv, Selection, SameLine
<1>7. Exchange'
  BY <1>1, <1>2, <1>3, <1>4 DEF ComInv, Exchange, SameBytes
<1>8. Service'
  BY <1>1, <1>2, <1>3, <1>4 DEF Service, Serving, SameBytes
<1> QED BY <1>2, <1>5, <1>6, <1>7, <1>8 DEF ComInv

\* The stores of a handler other than the acknowledge and the bytes.
LEMMA KernelRegisterStep ==
    ComInv /\ (KernelSelectEvents \/ KernelClear \/ KernelLastByte \/ KernelSeesRelease \/ KernelEnd)
        => ComInv'
<1> DEFINE Registers(at, pc) ==
        /\ kernel.pc = at /\ kernel' = [kernel EXCEPT !.pc = pc]
        /\ UNCHANGED <<host, fresh>>
        /\ Wired(port') /\ SameLine(port', port) /\ SameBytes(port', port)
<1>0. {"ready"} \in SUBSET Event /\ {"select"} \in SUBSET Event /\ {} \in SUBSET Event
  BY DEF Event
<1>1. ASSUME NEW at, NEW pc \in {"poll", "finish", "mask", "forget", "listen", "wait"},
             ComInv, Registers(at, pc), at \notin {"off", "wait"}
      PROVE  /\ Actors' /\ Exchange' /\ ~fresh
             /\ kernel'.pc = pc /\ kernel'.took = kernel.took
             /\ port.com.dropped' <=> ~port.com.selected'
             /\ host.pc = "idle" => ~port.com.selected'
  <2>1. Actors' /\ kernel'.pc = pc /\ kernel'.took = kernel.took
    BY <1>1 DEF ComInv, Actors, Serving
  <2>2. Exchange'
    BY <1>1, <2>1 DEF ComInv, Exchange, SameBytes
  <2> QED BY <1>1, <2>1, <2>2 DEF ComInv, Selection, SameLine
<1>2. ASSUME ComInv, KernelSelectEvents PROVE ComInv'
  <2>1. /\ Registers("select events", "poll")
        /\ port'.com.ctrl1 = Event /\ port'.com.events = port.com.events
    BY <1>0, <1>2, StoreCtrl1Port DEF ComInv, KernelSelectEvents, KernelStore, Go
  <2>2. /\ Actors' /\ Exchange' /\ ~fresh
        /\ kernel'.pc = "poll" /\ kernel'.took = kernel.took
        /\ port.com.dropped' <=> ~port.com.selected'
        /\ host.pc = "idle" => ~port.com.selected'
    BY <1>1, <1>2, <2>1
  <2>3. Selection'
    BY <2>1, <2>2 DEF Selection
  <2>4. kernel.took = 0 /\ host.sent = 0 /\ "ready" \notin port.com.events
    BY <1>2, <2>1 DEF ComInv, Service
  <2>5. kernel'.took = 0 /\ host'.sent = 0 /\ "ready" \notin port'.com.events
    BY <2>1, <2>2, <2>4
  <2>6. Service'
    <3>1. host'.sent = kernel'.took + IF "ready" \in port'.com.events THEN 1 ELSE 0
      BY <2>5
    <3>2. ~(kernel'.took > 0)
      BY <2>5
    <3> QED BY <2>1, <2>2, <2>5, <3>1, <3>2 DEF Service, Serving
  <2> QED BY <2>1, <2>2, <2>3, <2>6 DEF ComInv
<1>3. ASSUME ComInv, KernelClear PROVE ComInv'
  <2>1. /\ Registers("clear", "poll")
        /\ port'.com.ctrl1 = port.com.ctrl1 /\ port'.com.events = port.com.events \ {"ready"}
    BY <1>0, <1>3, StoreCtrl2Port DEF ComInv, KernelClear, KernelStore, Go
  <2>2. /\ Actors' /\ Exchange' /\ ~fresh
        /\ kernel'.pc = "poll" /\ kernel'.took = kernel.took
        /\ port.com.dropped' <=> ~port.com.selected'
        /\ host.pc = "idle" => ~port.com.selected'
    BY <1>1, <1>3, <2>1
  <2>3. Selection'
    BY <2>1, <2>2 DEF Selection
  <2>4. kernel.took = host.sent /\ port.com.held = kernel.took /\ port.com.ctrl1 = Event
    BY <1>3, <2>1 DEF ComInv, Service, Serving
  <2>5. host.sent \in Nat
    <3>1. host.sent \in 0..MaxBytes
      BY <1>3 DEF ComInv, Actors
    <3> QED BY <3>1, ComBounds
  <2>6. kernel'.took = host'.sent /\ host'.sent \in Nat /\ "ready" \notin port'.com.events
    BY <2>1, <2>2, <2>4, <2>5
  <2>7. Service'
    BY <2>1, <2>2, <2>4, <2>6 DEF Service, Serving, SameBytes
  <2> QED BY <2>1, <2>2, <2>3, <2>7 DEF ComInv
<1>4. ASSUME ComInv, KernelLastByte PROVE ComInv'
  <2>1. Registers("ack", "finish") /\ port' = port
    BY <1>4 DEF ComInv, KernelLastByte, KernelStore, Go, SameLine, SameBytes
  <2>2. /\ Actors' /\ Exchange' /\ ~fresh
        /\ kernel'.pc = "finish" /\ kernel'.took = kernel.took
        /\ port.com.dropped' <=> ~port.com.selected'
        /\ host.pc = "idle" => ~port.com.selected'
    BY <1>1, <1>4, <2>1
  <2>3. Selection'
    BY <2>1, <2>2 DEF Selection
  <2>4. /\ kernel.took = host.sent /\ port.com.held = kernel.took /\ port.com.ctrl1 = Event
        /\ ~port.com.acked /\ host.pc \in {"exchange", "release", "idle"}
    BY <1>4, <2>1 DEF ComInv, Service, Serving
  <2>5. Service'
    BY <2>1, <2>2, <2>4 DEF Service, Serving
  <2> QED BY <2>1, <2>2, <2>3, <2>5 DEF ComInv
<1>5. ASSUME ComInv, KernelSeesRelease PROVE ComInv'
  <2>1. port' = port /\ \E at \in {"poll", "finish"} : Registers(at, "mask")
    BY <1>5 DEF ComInv, KernelSeesRelease, KernelStore, Go, SameLine, SameBytes
  <2>2. PICK at \in {"poll", "finish"} : Registers(at, "mask")
    BY <2>1
  <2>3. /\ Actors' /\ Exchange' /\ ~fresh
        /\ kernel'.pc = "mask" /\ kernel'.took = kernel.took
        /\ port.com.dropped' <=> ~port.com.selected'
        /\ host.pc = "idle" => ~port.com.selected'
    BY <1>1, <1>5, <2>2
  <2>4. Selection'
    BY <2>2, <2>3 DEF Selection
  <2>5. port.com.ctrl1 = Event
    BY <1>5, <2>2 DEF ComInv, Service, Serving
  <2>6. Service'
    BY <2>1, <2>3, <2>5 DEF Service, Serving
  <2> QED BY <2>2, <2>3, <2>4, <2>6 DEF ComInv
<1>6. ASSUME ComInv, KernelEnd PROVE ComInv'
  <2>1. CASE KernelStore("mask", StoreCtrl1(port, {}), "forget")
    <3>1. Registers("mask", "forget")
      BY <1>0, <1>6, <2>1, StoreCtrl1Port DEF ComInv, KernelStore, Go
    <3>2. /\ Actors' /\ Exchange' /\ ~fresh
          /\ kernel'.pc = "forget" /\ kernel'.took = kernel.took
          /\ port.com.dropped' <=> ~port.com.selected'
          /\ host.pc = "idle" => ~port.com.selected'
      BY <1>1, <1>6, <3>1
    <3>3. Selection' /\ Service'
      BY <3>1, <3>2 DEF Selection, Service, Serving
    <3> QED BY <3>1, <3>2, <3>3 DEF ComInv
  <2>2. CASE KernelStore("forget", StoreCtrl2(port, Event), "listen")
    <3>1. Registers("forget", "listen") /\ port'.com.events = port.com.events \ Event
      BY <1>0, <1>6, <2>2, StoreCtrl2Port DEF ComInv, KernelStore, Go
    <3>2. /\ Actors' /\ Exchange' /\ ~fresh
          /\ kernel'.pc = "listen" /\ kernel'.took = kernel.took
          /\ port.com.dropped' <=> ~port.com.selected'
          /\ host.pc = "idle" => ~port.com.selected'
      BY <1>1, <1>6, <3>1
    <3>3. Selection' /\ Service'
      BY <3>1, <3>2 DEF Selection, Service, Serving, Event
    <3> QED BY <3>1, <3>2, <3>3 DEF ComInv
  <2>3. CASE KernelStore("listen", StoreCtrl1(port, {"select"}), "wait")
    <3>1. /\ Registers("listen", "wait") /\ port'.com.ctrl1 = {"select"}
          /\ port'.com.events = port.com.events
      BY <1>0, <1>6, <2>3, StoreCtrl1Port DEF ComInv, KernelStore, Go
    <3>2. /\ Actors' /\ Exchange' /\ ~fresh
          /\ kernel'.pc = "wait" /\ kernel'.took = kernel.took
          /\ port.com.dropped' <=> ~port.com.selected'
          /\ host.pc = "idle" => ~port.com.selected'
      BY <1>1, <1>6, <3>1
    <3>3. "select" \notin port.com.events
      BY <1>6, <3>1 DEF ComInv, Selection
    <3>4. Selection' /\ Service'
      BY <3>1, <3>2, <3>3 DEF Selection, Service, Serving
    <3> QED BY <3>1, <3>2, <3>4 DEF ComInv
  <2> QED BY <1>6, <2>1, <2>2, <2>3 DEF KernelEnd
<1> QED BY <1>2, <1>3, <1>4, <1>5, <1>6

\* The handler stores its reply, and acknowledges the byte that it took.
LEMMA KernelReplyStep == ComInv /\ (KernelReply \/ KernelAck) => ComInv'
<1> SUFFICES ASSUME ComInv, KernelReply \/ KernelAck PROVE ComInv'
  OBVIOUS
<1>1. /\ kernel.pc \in {"reply", "ack"} /\ UNCHANGED <<host, fresh>>
      /\ kernel' = [kernel EXCEPT !.pc = kernel'.pc]
      /\ kernel'.pc = (IF kernel.pc = "reply" THEN "ack"
                       ELSE IF kernel.took = 1 THEN "clear" ELSE "poll")
  BY DEF KernelReply, KernelAck, KernelStore, Go, ComInv, Actors
<1>2. /\ kernel.took = host.sent /\ kernel.took \in 0..MaxBytes
      /\ port.com.ctrl1 = Event /\ ~port.com.acked /\ host.pc \in {"exchange", "release", "idle"}
      /\ kernel.pc = "ack" => port.com.held = kernel.took
      /\ "ready" \notin port.com.events
  BY <1>1 DEF ComInv, Service, Serving, Actors
<1>3. ASSUME kernel.pc = "reply"
      PROVE  /\ Wired(port') /\ SameLine(port', port) /\ SameRegs(port', port)
             /\ port'.com.held = kernel.took /\ port'.com.out = port.com.out
             /\ port'.com.acked = port.com.acked
  <2>1. PICK p \in {port, LoadData(port)} : port' = StoreReply(p, kernel.took)
    BY <1>3 DEF KernelReply, KernelAck, KernelStore
  <2>2. Wired(p) /\ SameLine(p, port) /\ SameRegs(p, port) /\ SameBytes(p, port)
    BY LoadDataPort DEF ComInv, SameLine, SameRegs, SameBytes
  <2> QED BY <1>2, <2>1, <2>2, StoreReplyPort DEF SameLine, SameRegs, SameBytes
<1>4. ASSUME kernel.pc = "ack"
      PROVE  /\ Wired(port') /\ SameLine(port', port) /\ SameRegs(port', port)
             /\ port'.com.held = kernel.took /\ port'.com.out = port.com.out
  <2>1. port' = StoreAck(port)
    BY <1>4 DEF KernelReply, KernelAck, KernelStore
  <2> QED BY <1>2, <1>4, <2>1, StoreAckPort DEF ComInv
<1>5. /\ Wired(port') /\ SameLine(port', port) /\ SameRegs(port', port)
      /\ port'.com.held = kernel.took /\ port'.com.out = port.com.out
      /\ kernel'.pc = "ack" => ~port'.com.acked
  BY <1>1, <1>2, <1>3, <1>4
<1>6. Actors' /\ kernel'.took = kernel.took
  BY <1>1 DEF ComInv, Actors, Serving
<1>7. Selection'
  BY <1>1, <1>5 DEF ComInv, Selection, SameLine
<1>8. Exchange'
  BY <1>1, <1>2, <1>5, <1>6 DEF ComInv, Exchange
<1>9. Service'
  <2>1. CASE kernel'.pc \in {"ack", "clear"}
    BY <1>1, <1>2, <1>5, <1>6, <2>1 DEF Service, Serving, SameRegs
  <2>2. CASE kernel'.pc = "poll"
    <3>2. host'.sent = kernel'.took + IF "ready" \in port'.com.events THEN 1 ELSE 0
      BY <1>1, <1>2, <1>5, <1>6 DEF SameRegs
    <3> QED BY <1>1, <1>2, <1>5, <1>6, <2>2, <3>2 DEF Service, Serving, SameRegs
  <2> QED BY <1>1, <2>1, <2>2
<1> QED BY <1>5, <1>6, <1>7, <1>8, <1>9 DEF ComInv

-----------------------------------------------------------------------------
(* The steps of the host.                                                     *)

LEMMA HoldSelectStep == ComInv /\ HoldSelect => ComInv'
<1> SUFFICES ASSUME ComInv, HoldSelect PROVE ComInv'
  OBVIOUS
<1>1. /\ host.pc = "idle" /\ kernel.pc = "wait" /\ ~FiqAsserted(port.intc)
      /\ port' = SetSelected(port, TRUE)
      /\ host' = [pc |-> "selected", sent |-> 0]
      /\ fresh' = TRUE /\ UNCHANGED kernel
  BY DEF HoldSelect, Settled
<1>2. ~port.com.selected /\ port.com.ctrl1 = {"select"}
  BY <1>1 DEF ComInv, Selection
<1>3. /\ Wired(port') /\ port'.com.selected = TRUE /\ port'.com.dropped = FALSE
      /\ port'.com.ctrl1 = {"select"} /\ "select" \in port'.com.events
  <2>1. port.com.selected \in BOOLEAN /\ port.com.events \subseteq Event
    BY DEF ComInv, Wired, Joined, PortType, ComState
  <2>2. LET q == SetSelected(port, TRUE)
        IN  /\ Wired(q) /\ q.com.selected = TRUE /\ q.com.ctrl1 = port.com.ctrl1
            /\ q.com.dropped = IF TRUE = port.com.selected THEN port.com.dropped ELSE ~TRUE
            /\ q.com.events = IF TRUE /\ ~port.com.selected THEN port.com.events \cup {"select"}
                              ELSE port.com.events
    BY SetSelectedPort DEF ComInv
  <2> QED BY <1>1, <1>2, <2>1, <2>2
<1>4. Actors'
  <2>1. 0 \in 0..MaxBytes
    BY ComBounds
  <2>2. kernel' \in [pc : {"off", "wait", "select events", "mask", "forget", "listen"} \cup Serving,
                     took : 0..MaxBytes]
    BY <1>1 DEF ComInv, Actors
  <2> QED BY <1>1, <2>1, <2>2 DEF Actors
<1>5. Selection' /\ Exchange' /\ Service'
  BY <1>1, <1>3 DEF Selection, Exchange, Service, Serving
<1> QED BY <1>3, <1>4, <1>5 DEF ComInv

\* A byte goes out when the kernel polls, and it took each byte before it.
LEMMA SendByteStep == ComInv /\ SendByte => ComInv'
<1> SUFFICES ASSUME ComInv, SendByte PROVE ComInv'
  OBVIOUS
<1> DEFINE sent == BeginTransfer(port, host.sent + 1)
<1>1. PICK drops \in BOOLEAN :
          /\ \/ host.pc = "selected" /\ kernel.pc = "poll"
             \/ host.pc = "between" /\ kernel.pc \in {"poll", "finish"}
          /\ host.sent < MaxBytes
          /\ port' = IF drops THEN SetSelected(sent, FALSE) ELSE sent
          /\ host' = [pc |-> "exchange", sent |-> host.sent + 1]
          /\ UNCHANGED <<kernel, fresh>>
  BY DEF SendByte, Lead, ByteTime
<1>2. host.sent \in 0..MaxBytes /\ kernel.took \in 0..MaxBytes /\ host.sent + 1 \in 0..MaxBytes
  <2>1. host.sent \in 0..MaxBytes /\ kernel.took \in 0..MaxBytes
    BY DEF ComInv, Actors
  <2> QED BY <1>1, <2>1, ComBounds
<1>3. kernel.pc = "poll"
  BY <1>1 DEF ComInv, Service
<1>4. kernel.took = host.sent /\ "ready" \notin port.com.events
  <2>1. host.sent = kernel.took + IF "ready" \in port.com.events THEN 1 ELSE 0
    BY <1>3 DEF ComInv, Service
  <2>2. host.sent = 0 \/ kernel.took = host.sent
    BY <1>1 DEF ComInv, Exchange
  <2> QED BY <1>2, <2>1, <2>2
<1>5. /\ Wired(sent) /\ SameLine(sent, port) /\ sent.com.ctrl1 = port.com.ctrl1
      /\ sent.com.events = port.com.events \cup {"ready"}
      /\ sent.com.held = port.com.held /\ sent.com.out = port.com.held /\ sent.com.acked = FALSE
  BY <1>2, BeginTransferPort DEF ComInv
<1> HIDE DEF sent
<1>6. /\ Wired(port') /\ port'.com.ctrl1 = port.com.ctrl1 /\ "ready" \in port'.com.events
      /\ port'.com.held = port.com.held /\ port'.com.out = port.com.held /\ port'.com.acked = FALSE
      /\ port'.com.dropped <=> ~port'.com.selected
  <2>1. port.com.dropped <=> ~port.com.selected
    BY <1>3 DEF ComInv, Selection
  <2>2. CASE drops
    <3>1. sent.com.selected \in BOOLEAN
      BY <1>5 DEF Wired, Joined, PortType, ComState
    <3> QED BY <1>1, <1>5, <2>1, <2>2, <3>1, SetSelectedPort, ZenonT(60) DEF SameBytes, SameLine
  <2>3. CASE ~drops
    BY <1>1, <1>5, <2>1, <2>3 DEF SameLine
  <2> QED BY <2>2, <2>3
<1>7. Actors'
  BY <1>1, <1>2 DEF ComInv, Actors
<1>8. ~fresh /\ port.com.ctrl1 = Event /\ (kernel.took > 0 => port.com.held = kernel.took)
  BY <1>3 DEF ComInv, Selection, Service, Serving
<1>9. Selection'
  BY <1>1, <1>3, <1>6, <1>8 DEF Selection
<1>10. Exchange'
  <2>1. host.sent + 1 > 1 => port.com.held = host.sent
    BY <1>2, <1>4, <1>8
  <2>2. host'.pc = "exchange" /\ host'.sent - 1 = host.sent /\ host'.sent = host.sent + 1
    BY <1>1, <1>2
  <2> QED BY <1>6, <2>1, <2>2 DEF Exchange
<1>11. Service'
  <2>1. host'.sent = kernel'.took + IF "ready" \in port'.com.events THEN 1 ELSE 0
    BY <1>1, <1>2, <1>4, <1>6
  <2> QED BY <1>1, <1>3, <1>6, <1>8, <2>1 DEF Service, Serving
<1> QED BY <1>6, <1>7, <1>9, <1>10, <1>11 DEF ComInv

\* The ends of an exchange and of a selection.
LEMMA HostEndStep ==
    ComInv /\ (EndExchange \/ Timeout \/ ReleaseSelect) => ComInv'
<1>1. ASSUME ComInv, NEW p, NEW pc, HostStep(p, pc),
             pc \in {"between", "idle", "release"},
             pc = "idle" => ~p.com.selected,
             pc = "between" => host.pc = "exchange" /\ port.com.acked,
             kernel.pc = "select events" \/ fresh => pc = "idle",
             Wired(p), SameRegs(p, port),
             p.com.held = port.com.held, p.com.acked => port.com.acked,
             p.com.dropped = IF p.com.selected = port.com.selected THEN port.com.dropped
                             ELSE ~p.com.selected
      PROVE  ComInv'
  <2>1. /\ port' = p /\ host' = [host EXCEPT !.pc = pc] /\ UNCHANGED <<kernel, fresh>>
        /\ p.com.ctrl1 = port.com.ctrl1 /\ p.com.events = port.com.events
        /\ p.com.selected \in BOOLEAN /\ port.com.selected \in BOOLEAN
    BY <1>1 DEF HostStep, ComInv, Wired, Joined, PortType, ComState, SameRegs
  <2>2. Actors' /\ host'.pc = pc /\ host'.sent = host.sent
    BY <1>1, <2>1 DEF ComInv, Actors
  <2>3. Selection'
    BY <1>1, <2>1, <2>2 DEF ComInv, Selection
  <2>4. Exchange'
    BY <1>1, <2>1, <2>2 DEF ComInv, Exchange
  <2>5. pc = "between" => kernel.pc \notin {"reply", "ack", "finish"}
    BY <1>1 DEF ComInv, Service
  <2>6. Service'
    BY <1>1, <2>1, <2>2, <2>5 DEF ComInv, Service, Serving
  <2> QED BY <1>1, <2>1, <2>2, <2>3, <2>4, <2>6 DEF ComInv
<1>2. ASSUME ComInv, EndExchange PROVE ComInv'
  <2>1. PICK p \in {port, EndTransfer(port)} :
            HostStep(p, IF port.com.selected THEN "between" ELSE "idle")
    BY <1>2 DEF EndExchange
  <2>2. host.pc = "exchange" /\ port.com.acked
    BY <1>2 DEF EndExchange
  <2>3. /\ Wired(p) /\ SameLine(p, port) /\ SameRegs(p, port)
        /\ p.com.held = port.com.held /\ (p.com.acked => port.com.acked)
    BY <1>2, <2>1, EndTransferPort DEF ComInv, SameLine, SameRegs
  <2>4. ~fresh /\ kernel.pc # "select events"
    BY <1>2, <2>2 DEF ComInv, Selection, Service
  <2> QED BY <1>1, <1>2, <2>1, <2>2, <2>3, <2>4 DEF SameLine
<1>3. ASSUME ComInv, Timeout PROVE ComInv'
  <2>1. host.pc = "exchange" /\ HostStep(EndTransfer(port), "release")
    BY <1>3 DEF Timeout
  <2>2. ~fresh /\ kernel.pc # "select events"
    BY <1>3, <2>1 DEF ComInv, Selection, Service
  <2>3. Wired(port)
    BY <1>3 DEF ComInv
  <2> QED BY <1>1, <1>3, <2>1, <2>2, <2>3, EndTransferPort DEF SameLine
<1>4. ASSUME ComInv, ReleaseSelect PROVE ComInv'
  <2>1. HostStep(SetSelected(port, FALSE), "idle")
    BY <1>4 DEF ReleaseSelect
  <2>2. Wired(port)
    BY <1>4 DEF ComInv
  <2> DEFINE p == SetSelected(port, FALSE)
  <2>3. /\ Wired(p) /\ SameBytes(p, port) /\ p.com.ctrl1 = port.com.ctrl1 /\ p.com.selected = FALSE
        /\ p.com.dropped = IF FALSE = port.com.selected THEN port.com.dropped ELSE ~FALSE
        /\ p.com.events = port.com.events
    BY <2>2, SetSelectedPort
  <2> HIDE DEF p
  <2>4. SameRegs(p, port) /\ p.com.held = port.com.held /\ (p.com.acked => port.com.acked)
    BY <2>3 DEF SameRegs, SameBytes
  <2>5. p.com.dropped = IF p.com.selected = port.com.selected THEN port.com.dropped
                        ELSE ~p.com.selected
    BY <2>3
  <2>6. HostStep(p, "idle")
    BY <2>1 DEF p
  <2> QED BY <1>1, <1>4, <2>3, <2>4, <2>5, <2>6
<1> QED BY <1>2, <1>3, <1>4

LEMMA DockStep == ComInv /\ (Dock \/ ResetPort \/ UNCHANGED comVars) => ComInv'
<1>1. ASSUME ComInv, Dock PROVE ComInv'
  <2>1. PICK on \in BOOLEAN : port' = SetDocked(port, on) /\ UNCHANGED <<kernel, host, fresh>>
    BY <1>1 DEF Dock
  <2>2. Wired(port') /\ SameLine(port', port) /\ SameRegs(port', port) /\ SameBytes(port', port)
    BY <1>1, <2>1, SetDockedPort DEF ComInv
  <2>3. Actors' /\ Selection'
    BY <1>1, <2>1, <2>2 DEF ComInv, Actors, Selection, SameLine, SameRegs
  <2>4. Exchange'
    BY <1>1, <2>1, <2>2 DEF ComInv, Exchange, SameBytes
  <2>5. Service'
    BY <1>1, <2>1, <2>2 DEF ComInv, Service, SameRegs, SameBytes
  <2> QED BY <2>2, <2>3, <2>4, <2>5 DEF ComInv
<1>2. ASSUME ComInv, ResetPort PROVE ComInv'
  <2>1. ComInit'
    BY <1>2 DEF ResetPort, ComInit
  <2> QED BY <2>1, ComStart, PTL
<1>3. ASSUME ComInv, UNCHANGED comVars PROVE ComInv'
  <2>1. UNCHANGED <<port, kernel, host, fresh>>
    BY <1>3 DEF comVars
  <2>2. Wired(port)' /\ Actors'
    BY <1>3, <2>1 DEF ComInv, Actors
  <2>3. Selection'
    BY <1>3, <2>1 DEF ComInv, Selection
  <2>4. Exchange'
    BY <1>3, <2>1 DEF ComInv, Exchange
  <2>5. Service'
    BY <1>3, <2>1 DEF ComInv, Service
  <2> QED BY <2>2, <2>3, <2>4, <2>5 DEF ComInv
<1> QED BY <1>1, <1>2, <1>3

LEMMA ComStep == ComInv /\ [ComNext]_comVars => ComInv'
BY KernelDockStep, KernelEnterStep, KernelTakeStep, KernelRegisterStep, KernelReplyStep,
   HoldSelectStep, SendByteStep, HostEndStep, DockStep DEF ComNext, Kernel, Host

LEMMA ComAlways == ComSpec => []ComInv
BY ComStart, ComStep, PTL DEF ComSpec

\* The serial block and its counters keep their types for each length of a command.
THEOREM ComTypeCorrect == ComSpec => []ComTypeOK
<1>1. ComInv => ComTypeOK
  BY DEF ComInv, Wired, Joined, PortType, Actors, ComTypeOK
<1> QED BY <1>1, ComAlways, PTL

\* One handler runs for each selection and one exchange for each byte, with the
\* reply one byte behind, in each order of timeouts, docking, resets and new
\* selections, and for commands of any length (com.c).
THEOREM ExchangesAreAlwaysExact == ComSpec => []ExchangesAreExact
<1>1. ComInv => HandlerRunsOncePerSelection
  <2> SUFFICES ASSUME ComInv, kernel.pc = "wait" PROVE FiqAsserted(port.intc) <=> fresh
    BY DEF HandlerRunsOncePerSelection
  <2>1. port.com.ctrl1 = {"select"} /\ ("select" \in port.com.events <=> fresh)
    BY DEF ComInv, Selection
  <2>2. Stat2(port.com) # {} <=> fresh
    BY <2>1 DEF Stat2
  <2> QED BY <2>2, PendingIsStat2 DEF ComInv
<1>2. ComInv => ExchangeIsOneByte
  <2> SUFFICES ASSUME ComInv, host.pc = "exchange"
               PROVE  /\ port.com.acked => kernel.took = host.sent /\ ReplyIsOneBehind
                      /\ kernel.pc = "poll" /\ kernel.took < host.sent => "ready" \in Stat2(port.com)
    BY DEF ExchangeIsOneByte
  <2>1. ASSUME kernel.pc = "poll", kernel.took < host.sent PROVE "ready" \in Stat2(port.com)
    <3>1. /\ host.sent = kernel.took + IF "ready" \in port.com.events THEN 1 ELSE 0
          /\ port.com.ctrl1 = Event
      BY <2>1 DEF ComInv, Service, Serving
    <3>2. kernel.took \in 0..MaxBytes
      BY DEF ComInv, Actors
    <3>3. "ready" \in port.com.events
      BY <2>1, <3>1, <3>2
    <3> QED BY <3>1, <3>3 DEF Stat2, Event
  <2>2. port.com.acked => kernel.took = host.sent /\ ReplyIsOneBehind
    BY DEF ComInv, Exchange, ReplyIsOneBehind
  <2> QED BY <2>1, <2>2
<1> QED BY <1>1, <1>2, ComAlways, PTL DEF ExchangesAreExact

\* A kernel in a command that looks for the release of the line finds it as long as
\* the line is released, whatever exchange the release came in (com.c).
THEOREM ReleaseAlwaysEndsCommand == ComSpec => []ReleaseEndsCommand
<1>1. ComInv => ReleaseEndsCommand
  BY DEF ComInv, Selection, ReleaseEndsCommand
<1> QED BY <1>1, ComAlways, PTL

-----------------------------------------------------------------------------
(* Induction over the edges of a queue.                                       *)

\* The natural numbers are the least set with 0 and with each next number.
LEMMA NatIsLeast ==
    ASSUME NEW S, 0 \in S, \A n \in Nat : n \in S => n + 1 \in S
    PROVE  Nat \subseteq S
<1> DEFINE R == OpToRel(<, Nat)
<1>0. IsWellFoundedOn(R, Nat) BY NatLessThanWellFounded
<1>1. SUFFICES ASSUME Nat \ S # {} PROVE FALSE
  OBVIOUS
<1> HIDE DEF R
<1>2. PICK x \in Nat \ S : \A y \in Nat \ S : ~(<<y, x>> \in R)
  BY <1>0, <1>1, WFMin
<1>3. x # 0 /\ x - 1 \in Nat
  BY <1>2
<1>4. x - 1 \notin S
  BY <1>2, <1>3
<1>5. <<x - 1, x>> \in R
  BY <1>2, <1>3 DEF R, OpToRel
<1> QED BY <1>2, <1>3, <1>4, <1>5

LEMMA LeastNumber ==
    ASSUME NEW T \in SUBSET Nat, T # {}
    PROVE  \E x \in T : \A y \in T : x <= y
<1> DEFINE R == OpToRel(<, Nat)
<1>0. IsWellFoundedOn(R, Nat) BY NatLessThanWellFounded
<1> HIDE DEF R
<1>1. PICK x \in T : \A y \in T : ~(<<y, x>> \in R)
  BY <1>0, WFMin
<1>2. ASSUME NEW y \in T PROVE x <= y
  <2>1. ~(y < x)
    BY <1>1 DEF R, OpToRel
  <2> QED BY <2>1
<1> QED BY <1>2

-----------------------------------------------------------------------------
(* The transceiver                                                            *)

EdgeType == [at : Nat, level : BOOLEAN]

IrType ==
    [clock : Nat, mode : Mode, data : BOOLEAN, led : BOOLEAN, lastEdge : Int,
     tx : Seq(EdgeType), rx : Seq(EdgeType), level : BOOLEAN,
     pending : [valid : BOOLEAN, level : BOOLEAN, since : Nat]]

LinesType == [hold : SUBSET Line, status : SUBSET StatusMask, enable : SUBSET Line, changes : Nat]

PairType == [ir : IrType, intc : LinesType]

\* The candidate of the filter is not in the future.
Heard(ir0) == ir0.pending.valid => ir0.pending.since <= ir0.clock

\* A tick leaves the transmit side and the registers as they are.
SameTx(a, b) == a.tx = b.tx /\ a.led = b.led /\ a.mode = b.mode /\ a.lastEdge = b.lastEdge /\ a.data = b.data

LEMMA LineFacts == "irda" \in Line /\ "irda" \in StatusMask /\ StatusMask \subseteq Line
BY DEF Line, IrqMask, FiqMask, StatusMask, Buttons

LEMMA CountedLines ==
    ASSUME NEW i \in LinesType, NEW n \in LinesType, n.changes = i.changes
    PROVE  Counted(i, n) \in LinesType /\ Counted(i, n).hold = n.hold
BY DEF Counted, LinesType

LEMMA PulseLines ==
    ASSUME NEW i \in LinesType, NEW level \in BOOLEAN
    PROVE  SetLevelAndPulse(i, "irda", level) \in LinesType
<1> DEFINE n == [i EXCEPT !.hold = @ \cup {"irda"},
                   !.status = IF level THEN @ \cup ({"irda"} \cap StatusMask) ELSE @ \ {"irda"}]
<1>1. n \in LinesType /\ n.changes = i.changes
  BY LineFacts DEF LinesType
<1>2. SetLevelAndPulse(i, "irda", level) = Counted(i, n)
  BY DEF SetLevelAndPulse
<1> HIDE DEF n
<1> QED BY <1>1, <1>2, CountedLines

LEMMA StatusLines ==
    ASSUME NEW i \in LinesType
    PROVE  ClearStatusOnly(i, "irda") \in LinesType /\ ClearStatusOnly(i, "irda").hold = i.hold
<1> DEFINE n == [i EXCEPT !.status = @ \ {"irda"}]
<1>1. n \in LinesType /\ n.changes = i.changes /\ n.hold = i.hold
  BY DEF LinesType
<1>2. ClearStatusOnly(i, "irda") = Counted(i, n)
  BY DEF ClearStatusOnly
<1> HIDE DEF n
<1> QED BY <1>1, <1>2, CountedLines

LEMMA AckLines ==
    ASSUME NEW i \in LinesType
    PROVE  WriteAcknowledge(i, {"irda"}) \in LinesType
<1> DEFINE n == [i EXCEPT !.hold = @ \ {"irda"}, !.status = @ \ ({"irda"} \ LevelMask)]
<1>1. n \in LinesType /\ n.changes = i.changes
  BY DEF LinesType
<1>2. WriteAcknowledge(i, {"irda"}) = Counted(i, n)
  BY DEF WriteAcknowledge
<1> HIDE DEF n
<1> QED BY <1>1, <1>2, CountedLines

\* What each step of a tick does to the pair.
PartOfTick(q, p) ==
    /\ q \in PairType /\ SameTx(q.ir, p.ir)
    /\ q.ir.clock = p.ir.clock /\ q.ir.rx = p.ir.rx

LEMMA LevelApplied ==
    ASSUME NEW p \in PairType, NEW level \in BOOLEAN
    PROVE  LET q == ApplyRxLevel(p, level)
           IN  PartOfTick(q, p) /\ q.ir.pending = p.ir.pending
<1>1. p.ir \in IrType /\ p.intc \in LinesType
  BY DEF PairType
<1>2. CASE level = p.ir.level
  BY <1>1, <1>2 DEF ApplyRxLevel, PartOfTick, SameTx
<1>3. CASE level # p.ir.level
  <2> DEFINE i == IF ListenActive(p.ir) THEN SetLevelAndPulse(p.intc, "irda", ~level) ELSE p.intc
             r == [p.ir EXCEPT !.level = level]
  <2>1. i \in LinesType
    BY <1>1, PulseLines
  <2>2. r \in IrType /\ SameTx(r, p.ir) /\ r.clock = p.ir.clock /\ r.rx = p.ir.rx /\ r.pending = p.ir.pending
    BY <1>1 DEF IrType, SameTx
  <2>3. ApplyRxLevel(p, level) = [ir |-> r, intc |-> i]
    BY <1>3 DEF ApplyRxLevel
  <2> HIDE DEF i, r
  <2> QED BY <2>1, <2>2, <2>3 DEF PartOfTick, PairType
<1> QED BY <1>2, <1>3

LEMMA CandidateDropped ==
    ASSUME NEW p \in PairType
    PROVE  PartOfTick(NoPending(p), p) /\ Heard(NoPending(p).ir)
<1> DEFINE c == [p.ir.pending EXCEPT !.valid = FALSE]
           r == [p.ir EXCEPT !.pending = c]
<1>1. p.ir \in IrType /\ p.intc \in LinesType
  BY DEF PairType
<1>2. NoPending(p) = [p EXCEPT !.ir = r]
  BY DEF NoPending
<1>3. c \in [valid : BOOLEAN, level : BOOLEAN, since : Nat] /\ ~c.valid
  BY <1>1 DEF IrType
<1> HIDE DEF c
<1>4. r \in IrType /\ SameTx(r, p.ir) /\ r.clock = p.ir.clock /\ r.rx = p.ir.rx /\ ~r.pending.valid
  BY <1>1, <1>3 DEF IrType, SameTx
<1> HIDE DEF r
<1>5. NoPending(p) \in PairType /\ NoPending(p).ir = r
  BY <1>1, <1>2, <1>4 DEF PairType
<1> QED BY <1>4, <1>5 DEF PartOfTick, Heard

LEMMA EdgeDebounced ==
    ASSUME NEW p \in PairType, Heard(p.ir), NEW e \in EdgeType, e.at <= p.ir.clock
    PROVE  PartOfTick(DebounceEdge(p, e), p) /\ Heard(DebounceEdge(p, e).ir)
<1>1. /\ p.ir \in IrType /\ p.intc \in LinesType /\ p = [ir |-> p.ir, intc |-> p.intc]
      /\ p.ir.mode.filter \in BOOLEAN /\ e.level \in BOOLEAN
  BY DEF PairType, IrType, Mode, EdgeType
<1>2. CASE ~p.ir.mode.filter
  <2>1. DebounceEdge(p, e) = NoPending(ApplyRxLevel(p, e.level))
    BY <1>2 DEF DebounceEdge
  <2>2. PartOfTick(ApplyRxLevel(p, e.level), p)
    BY <1>1, LevelApplied
  <2> QED BY <2>1, <2>2, CandidateDropped DEF PartOfTick, SameTx
<1>3. CASE p.ir.mode.filter /\ e.level = p.ir.level
  <2>1. DebounceEdge(p, e) = NoPending(p)
    BY <1>3 DEF DebounceEdge
  <2> QED BY <2>1, CandidateDropped
<1>4. CASE p.ir.mode.filter /\ e.level # p.ir.level
  <2> DEFINE c == [valid |-> TRUE, level |-> e.level, since |-> e.at]
             r == [p.ir EXCEPT !.pending = c]
  <2>1. DebounceEdge(p, e) = [ir |-> r, intc |-> p.intc]
    BY <1>1, <1>4 DEF DebounceEdge
  <2>2. r \in IrType /\ SameTx(r, p.ir) /\ r.clock = p.ir.clock /\ r.rx = p.ir.rx /\ r.pending = c
    BY <1>1 DEF IrType, SameTx, EdgeType
  <2>3. c.since <= p.ir.clock
    OBVIOUS
  <2> HIDE DEF r, c
  <2> QED BY <1>1, <2>1, <2>2, <2>3 DEF PartOfTick, PairType, Heard
<1> QED BY <1>1, <1>2, <1>3, <1>4

LEMMA CandidateResolved ==
    ASSUME NEW p \in PairType, Heard(p.ir)
    PROVE  PartOfTick(ResolvePending(p), p) /\ Heard(ResolvePending(p).ir)
<1>1. p.ir \in IrType /\ p.ir.pending.level \in BOOLEAN
  BY DEF PairType, IrType
<1>2. PartOfTick(ApplyRxLevel(p, p.ir.pending.level), p)
  BY <1>1, LevelApplied
<1>3. PartOfTick(NoPending(ApplyRxLevel(p, p.ir.pending.level)), p)
      /\ Heard(NoPending(ApplyRxLevel(p, p.ir.pending.level)).ir)
  BY <1>2, CandidateDropped DEF PartOfTick, SameTx
<1>4. PartOfTick(p, p)
  BY DEF PartOfTick, SameTx
<1> QED BY <1>3, <1>4 DEF ResolvePending

\* Due counts edges whose time came, and the first edge ahead ends the count.
LEMMA DueRange ==
    ASSUME NEW r \in IrType
    PROVE  /\ Due(r) \in 0..Len(r.rx)
           /\ \A i \in 1..Due(r) : r.rx[i].at <= r.clock
           /\ r.rx # <<>> /\ r.rx[1].at > r.clock => Due(r) = 0
           /\ r.rx = <<>> => Due(r) = 0
<1> DEFINE late == {i \in DOMAIN r.rx : r.rx[i].at > r.clock}
<1>1. /\ r.rx \in Seq(EdgeType) /\ r.clock \in Nat /\ Len(r.rx) \in Nat
      /\ DOMAIN r.rx = 1..Len(r.rx) /\ \A i \in 1..Len(r.rx) : r.rx[i].at \in Nat
  <2>1. r.rx \in Seq(EdgeType) /\ r.clock \in Nat
    BY DEF IrType
  <2>2. \A i \in 1..Len(r.rx) : r.rx[i] \in EdgeType
    BY <2>1
  <2>3. \A e \in EdgeType : e.at \in Nat
    BY DEF EdgeType
  <2> QED BY <2>1, <2>2, <2>3
<1>2. CASE late = {}
  <2>1. Due(r) = Len(r.rx)
    BY <1>2 DEF Due
  <2>2. \A i \in 1..Len(r.rx) : r.rx[i].at <= r.clock
    BY <1>1, <1>2
  <2>3. r.rx # <<>> => 1 \in 1..Len(r.rx)
    BY <1>1
  <2>4. r.rx = <<>> => Len(r.rx) = 0
    BY <1>1
  <2> QED BY <1>1, <2>1, <2>2, <2>3, <2>4
<1>3. CASE late # {}
  <2>1. late \in SUBSET Nat /\ late \subseteq 1..Len(r.rx)
    BY <1>1
  <2>2. \E x \in late : \A j \in late : x <= j
    <3> HIDE DEF late
    <3> QED BY <1>3, <2>1, LeastNumber
  <2> DEFINE first == CHOOSE i \in late : \A j \in late : i <= j
  <2>3. Due(r) = first - 1
    BY <1>3 DEF Due
  <2>4. first \in late /\ \A j \in late : first <= j
    BY <2>2
  <2> HIDE DEF first
  <2>5. \A i \in 1..first - 1 : r.rx[i].at <= r.clock
    BY <1>1, <2>1, <2>4
  <2>6. r.rx # <<>> /\ r.rx[1].at > r.clock => first = 1
    <3>1. r.rx # <<>> => 1 \in DOMAIN r.rx
      BY <1>1
    <3> QED BY <1>1, <2>1, <2>4, <3>1
  <2>7. r.rx # <<>>
    BY <1>3
  <2> QED BY <1>1, <2>1, <2>3, <2>4, <2>5, <2>6, <2>7
<1> QED BY <1>2, <1>3

\* The edges of one tick, one after the other.
LEMMA EdgesTaken ==
    ASSUME NEW N \in Nat, NEW start, NEW edges
    PROVE  \E f : f = [i \in 0..N |-> IF i = 0 THEN start ELSE DebounceEdge(f[i - 1], edges[i])]
<1> DEFINE Holds(f, n) == f = [i \in 0..n |-> IF i = 0 THEN start ELSE DebounceEdge(f[i - 1], edges[i])]
           S == {n \in Nat : \E f : Holds(f, n)}
<1>1. 0 \in S
  <2> DEFINE f == [i \in 0..0 |-> start]
  <2>1. Holds(f, 0)
    OBVIOUS
  <2> QED BY <2>1
<1>2. ASSUME NEW n \in Nat, n \in S PROVE n + 1 \in S
  <2>1. PICK f : Holds(f, n)
    BY <1>2
  <2> DEFINE g == [i \in 0..n + 1 |-> IF i = n + 1 THEN DebounceEdge(f[n], edges[n + 1]) ELSE f[i]]
  <2>2. ASSUME NEW i \in 0..n + 1
        PROVE  g[i] = IF i = 0 THEN start ELSE DebounceEdge(g[i - 1], edges[i])
    <3>1. CASE i = n + 1
      <4>1. g[i] = DebounceEdge(f[n], edges[i]) /\ i # 0 /\ i - 1 = n /\ n \in 0..n + 1 /\ n # n + 1
        BY <3>1
      <4>2. g[i - 1] = f[n]
        BY <4>1
      <4> QED BY <4>1, <4>2
    <3>2. CASE i # n + 1
      <4>1. i \in 0..n /\ g[i] = f[i]
        BY <3>2
      <4>2. f[i] = IF i = 0 THEN start ELSE DebounceEdge(f[i - 1], edges[i])
        BY <2>1, <4>1
      <4>3. i # 0 => g[i - 1] = f[i - 1]
        BY <4>1
      <4> QED BY <4>1, <4>2, <4>3
    <3> QED BY <3>1, <3>2
  <2>3. Holds(g, n + 1)
    <3> DEFINE h == [i \in 0..n + 1 |-> IF i = 0 THEN start ELSE DebounceEdge(g[i - 1], edges[i])]
    <3>1. \A i \in 0..n + 1 : g[i] = h[i]
      BY <2>2
    <3> QED BY <3>1
  <2> HIDE DEF g
  <2>4. \E k : Holds(k, n + 1)
    BY <2>3
  <2> QED BY <2>4
<1>3. N \in S
  <2> HIDE DEF S
  <2> QED BY <1>1, <1>2, NatIsLeast
<1> QED BY <1>3

LEMMA TickKeeps ==
    ASSUME NEW r \in IrType, Heard(r), NEW i \in LinesType, NEW cycles \in Nat
    PROVE  LET p == IrTick(r, i, cycles)
           IN  /\ p \in PairType /\ SameTx(p.ir, r) /\ Heard(p.ir)
               /\ p.ir.clock = r.clock + cycles
               /\ Len(p.ir.rx) <= Len(r.rx)
<1> DEFINE now   == [r EXCEPT !.clock = @ + cycles]
           N     == Due(now)
           first == [ir   |-> [now EXCEPT !.rx = SubSeq(@, N + 1, Len(@))],
                     intc |-> IF ListenActive(r) THEN i ELSE ClearStatusOnly(i, "irda")]
           taken[k \in 0..N] == IF k = 0 THEN first ELSE DebounceEdge(taken[k - 1], r.rx[k])
<1>1. IrTick(r, i, cycles) = ResolvePending(taken[N])
  BY DEF IrTick
<1>2. now \in IrType /\ now.clock = r.clock + cycles /\ SameTx(now, r) /\ Heard(now) /\ now.rx = r.rx
  BY SMTT(30) DEF IrType, SameTx, Heard
<1>3. /\ N \in 0..Len(r.rx)
      /\ \A k \in 1..N : r.rx[k].at <= now.clock
  <2> HIDE DEF now
  <2> QED BY <1>2, DueRange
<1>4. r.rx \in Seq(EdgeType) /\ \A k \in 1..Len(r.rx) : r.rx[k] \in EdgeType
  BY DEF IrType
<1> HIDE DEF now, N
<1>5. SubSeq(r.rx, N + 1, Len(r.rx)) \in Seq(EdgeType) /\ Len(SubSeq(r.rx, N + 1, Len(r.rx))) <= Len(r.rx)
  <2>1. Len(r.rx) \in Nat /\ N + 1 \in Int /\ \A k \in N + 1..Len(r.rx) : r.rx[k] \in EdgeType
    BY <1>3, <1>4
  <2> QED BY <1>3, <2>1, SubSeqProperties
<1>6. /\ first \in PairType /\ SameTx(first.ir, r) /\ Heard(first.ir)
      /\ first.ir.clock = r.clock + cycles
      /\ Len(first.ir.rx) <= Len(r.rx)
  <2>1. (IF ListenActive(r) THEN i ELSE ClearStatusOnly(i, "irda")) \in LinesType
    BY StatusLines
  <2> DEFINE q == [now EXCEPT !.rx = SubSeq(@, N + 1, Len(@))]
  <2>2. /\ q \in IrType /\ SameTx(q, r) /\ Heard(q) /\ q.clock = r.clock + cycles
        /\ Len(q.rx) <= Len(r.rx)
    BY <1>2, <1>5 DEF IrType, SameTx, Heard
  <2> HIDE DEF q
  <2>3. first.ir = q /\ first \in PairType
    BY <2>1, <2>2 DEF PairType, q
  <2> QED BY <2>2, <2>3
<1> HIDE DEF first
<1>7. taken[0] = first /\ \A k \in 1..N : taken[k] = DebounceEdge(taken[k - 1], r.rx[k])
  <2>1. N \in Nat
    BY <1>3
  <2>2. taken = [k \in 0..N |-> IF k = 0 THEN first ELSE DebounceEdge(taken[k - 1], r.rx[k])]
    BY <2>1, EdgesTaken DEF taken
  <2> HIDE DEF taken
  <2> QED BY <2>1, <2>2
<1> HIDE DEF taken
<1> DEFINE Good(p) == PartOfTick(p, first) /\ Heard(p.ir)
           S == {k \in Nat : k <= N => Good(taken[k])}
<1>8. 0 \in S
  BY <1>6, <1>7 DEF PartOfTick, SameTx
<1>9. ASSUME NEW k \in Nat, k \in S PROVE k + 1 \in S
  <2> SUFFICES ASSUME k + 1 <= N PROVE Good(taken[k + 1])
    OBVIOUS
  <2>1. N \in Nat /\ k + 1 \in 1..N /\ (k + 1) - 1 = k /\ k <= N /\ k + 1 \in 1..Len(r.rx)
    BY <1>3, <1>4
  <2>2. Good(taken[k])
    BY <1>9, <2>1
  <2>3. taken[k + 1] = DebounceEdge(taken[k], r.rx[k + 1])
    BY <1>7, <2>1
  <2>4. /\ taken[k] \in PairType /\ Heard(taken[k].ir)
        /\ taken[k].ir.clock = now.clock
    BY <1>2, <1>6, <2>2 DEF PartOfTick
  <2>5. r.rx[k + 1] \in EdgeType /\ r.rx[k + 1].at <= taken[k].ir.clock
    BY <1>3, <1>4, <2>1, <2>4
  <2>6. PartOfTick(taken[k + 1], taken[k]) /\ Heard(taken[k + 1].ir)
    BY <2>3, <2>4, <2>5, EdgeDebounced
  <2> QED BY <2>2, <2>6 DEF PartOfTick, SameTx
<1>10. Good(taken[N])
  <2>1. N \in S
    <3> HIDE DEF S
    <3> QED BY <1>3, <1>8, <1>9, NatIsLeast
  <2> QED BY <1>3, <2>1
<1>11. taken[N] \in PairType /\ Heard(taken[N].ir)
  BY <1>10 DEF PartOfTick
<1>12. PartOfTick(ResolvePending(taken[N]), taken[N]) /\ Heard(ResolvePending(taken[N]).ir)
  BY <1>11, CandidateResolved
<1>13. /\ ResolvePending(taken[N]) \in PairType /\ SameTx(ResolvePending(taken[N]).ir, r)
       /\ ResolvePending(taken[N]).ir.clock = r.clock + cycles
       /\ ResolvePending(taken[N]).ir.rx = first.ir.rx
  BY <1>6, <1>10, <1>12 DEF PartOfTick, SameTx
<1> QED BY <1>1, <1>6, <1>12, <1>13

\* Remainders are small: a time that is below the debounce time stays below it.
LEMMA SmallRemainder ==
    ASSUME NEW x \in Nat, NEW m \in Nat, m > 0
    PROVE  x % m \in Nat /\ x % m <= x
BY SMTT(30)

\* A number of cycles that ends before each event.
Before(r, cycles) == \A e \in EventsAhead(r) : cycles < e

LEMMA EventsOfQueue ==
    ASSUME NEW r, NEW cycles, Before(r, cycles)
    PROVE  /\ r.rx # <<>> => cycles < LargerOf(Head(r.rx).at - r.clock, 0)
           /\ r.pending.valid => cycles < LargerOf((r.pending.since + Debounce) - r.clock, 0)
<1>1. ASSUME r.rx # <<>> PROVE LargerOf(Head(r.rx).at - r.clock, 0) \in EventsAhead(r)
  BY <1>1 DEF EventsAhead
<1>2. ASSUME r.pending.valid
      PROVE  LargerOf((r.pending.since + Debounce) - r.clock, 0) \in EventsAhead(r)
  BY <1>2 DEF EventsAhead
<1> QED BY <1>1, <1>2 DEF Before

LEMMA TickIsQuiet ==
    ASSUME NEW r \in IrType, Heard(r), NEW i \in LinesType, NEW cycles \in Nat, cycles > 0,
           Before(r, cycles)
    PROVE  LET p == IrTick(r, i, cycles)
           IN  p.ir.rx = r.rx /\ p.ir.level = r.level /\ p.intc.hold = i.hold
<1> DEFINE now   == [r EXCEPT !.clock = @ + cycles]
           N     == Due(now)
           first == [ir   |-> [now EXCEPT !.rx = SubSeq(@, N + 1, Len(@))],
                     intc |-> IF ListenActive(r) THEN i ELSE ClearStatusOnly(i, "irda")]
           taken[k \in 0..N] == IF k = 0 THEN first ELSE DebounceEdge(taken[k - 1], r.rx[k])
<1>1. IrTick(r, i, cycles) = ResolvePending(taken[N])
  BY DEF IrTick
<1>2. now \in IrType /\ now.clock = r.clock + cycles /\ now.rx = r.rx /\ now.level = r.level
      /\ now.pending = r.pending
  BY SMTT(30) DEF IrType
<1>3. r.clock \in Nat /\ r.rx \in Seq(EdgeType) /\ r.pending.since \in Nat
  BY DEF IrType
<1> HIDE DEF now
<1>4. N = 0
  <2>1. CASE r.rx = <<>>
    BY <1>2, <2>1, DueRange
  <2>2. CASE r.rx # <<>>
    <3>2. cycles < LargerOf(Head(r.rx).at - r.clock, 0)
      BY <2>2, EventsOfQueue
    <3>3. Head(r.rx) = r.rx[1] /\ r.rx[1] \in EdgeType
      BY <1>3, <2>2
    <3>4. r.rx[1].at \in Nat
      BY <3>3 DEF EdgeType
    <3>5. now.rx[1].at > now.clock
      BY <1>2, <1>3, <3>2, <3>3, <3>4 DEF LargerOf
    <3> QED BY <1>2, <2>2, <3>5, DueRange
  <2> QED BY <2>1, <2>2
<1> HIDE DEF N
<1>5. SubSeq(r.rx, N + 1, Len(r.rx)) = r.rx
  <2>1. Len(r.rx) \in Nat /\ \A k \in 1..Len(r.rx) : r.rx[k] \in EdgeType
    BY <1>3
  <2>2. /\ SubSeq(r.rx, 1, Len(r.rx)) \in Seq(EdgeType)
        /\ Len(SubSeq(r.rx, 1, Len(r.rx))) = Len(r.rx)
        /\ \A k \in 1..Len(r.rx) : SubSeq(r.rx, 1, Len(r.rx))[k] = r.rx[k]
    <3>1. /\ Len(SubSeq(r.rx, 1, Len(r.rx))) = IF 1 <= Len(r.rx) THEN Len(r.rx) - 1 + 1 ELSE 0
          /\ SubSeq(r.rx, 1, Len(r.rx)) \in Seq(EdgeType)
          /\ \A k \in 1..Len(r.rx) - 1 + 1 : SubSeq(r.rx, 1, Len(r.rx))[k] = r.rx[1 + k - 1]
      BY <2>1, SubSeqProperties
    <3>2. Len(r.rx) - 1 + 1 = Len(r.rx) /\ \A k \in 1..Len(r.rx) : 1 + k - 1 = k
      BY <2>1
    <3> QED BY <2>1, <3>1, <3>2
  <2> QED BY <1>3, <1>4, <2>2, SeqEqual
<1>6. /\ first.ir.rx = r.rx /\ first.ir.level = r.level /\ first.intc.hold = i.hold
      /\ first.ir.pending = r.pending /\ first.ir.clock = now.clock
  BY <1>2, <1>5, StatusLines DEF IrType
<1> HIDE DEF first
<1>7. taken[N] = first
  <2>1. N \in Nat
    BY <1>4
  <2>2. taken = [k \in 0..N |-> IF k = 0 THEN first ELSE DebounceEdge(taken[k - 1], r.rx[k])]
    BY <2>1, EdgesTaken, SMTT(30) DEF taken
  <2> HIDE DEF taken
  <2> QED BY <1>4, <2>2
<1> HIDE DEF taken
<1>8. ResolvePending(first) = first
  <2>1. ASSUME r.pending.valid PROVE (now.clock - r.pending.since) % ClockSpan < Debounce
    <3>2. cycles < LargerOf((r.pending.since + Debounce) - r.clock, 0)
      BY <2>1, EventsOfQueue
    <3>3. Debounce \in Nat /\ ClockSpan \in Nat /\ ClockSpan > 0
      BY IrAssumption
    <3>4. now.clock - r.pending.since \in Nat /\ now.clock - r.pending.since < Debounce
      BY <1>2, <1>3, <2>1, <3>2, <3>3 DEF LargerOf, Heard
    <3> QED BY <3>3, <3>4, SmallRemainder
  <2>2. ~(first.ir.pending.valid /\ (first.ir.clock - first.ir.pending.since) % ClockSpan >= Debounce)
    <3>1. CASE r.pending.valid
      <4>1. (now.clock - r.pending.since) % ClockSpan \in Int /\ Debounce \in Int
        <5>1. ClockSpan \in Nat /\ ClockSpan > 0 /\ Debounce \in Nat
          BY IrAssumption
        <5>2. now.clock - r.pending.since \in Nat
          BY <1>2, <1>3, <3>1 DEF Heard
        <5> QED BY <5>1, <5>2, SmallRemainder
      <4> QED BY <1>6, <2>1, <3>1, <4>1
    <3>2. CASE ~r.pending.valid
      BY <1>6, <3>2
    <3> QED BY <3>1, <3>2
  <2> QED BY <2>2 DEF ResolvePending
<1> QED BY <1>1, <1>6, <1>7, <1>8

-----------------------------------------------------------------------------
(* The transmit side.                                                         *)

\* The edges that wait are in the order of their times, up to the last one.
Ordered(r) ==
    /\ \A i \in 1..Len(r.tx) - 1 : r.tx[i].at <= r.tx[i + 1].at
    /\ \A i \in 1..Len(r.tx) : r.tx[i].at <= r.lastEdge

TxRange(r) == r.lastEdge \in 0..MaxClock + Stretch /\ Len(r.tx) <= IrCapacity /\ Ordered(r)

SameRx(a, b) ==
    a.mode = b.mode /\ a.data = b.data /\ a.rx = b.rx /\ a.clock = b.clock
    /\ a.pending = b.pending /\ a.level = b.level

LEMMA EdgeTimes ==
    ASSUME NEW r \in IrType, r.lastEdge \in 0..MaxClock + Stretch, r.clock <= MaxClock, NEW level \in BOOLEAN
    PROVE  EdgeTime(r, level) \in 0..MaxClock + Stretch /\ r.lastEdge <= EdgeTime(r, level)
<1>1. /\ ClockSpan \in Nat /\ ClockSpan > 0 /\ Stretch \in Nat /\ MaxClock \in Nat
      /\ r.clock \in Nat /\ r.lastEdge \in Nat
  BY IrAssumption, IrBounds DEF IrType
<1> DEFINE on == (r.clock - r.lastEdge) % ClockSpan
           delayed == r.clock + IF level THEN 0 ELSE SmallerOf(on, Stretch)
<1>2. on \in Nat
  <2>1. \A x \in Int, m \in Nat : m > 0 => x % m \in Nat
    BY SMTT(30)
  <2> QED BY <1>1, <2>1
<1>3. EdgeTime(r, level) = LargerOf(delayed, r.lastEdge)
  BY DEF EdgeTime
<1> HIDE DEF on
<1>4. delayed \in 0..MaxClock + Stretch
  BY <1>1, <1>2 DEF SmallerOf
<1> HIDE DEF delayed
<1> QED BY <1>1, <1>3, <1>4 DEF LargerOf

LEMMA EdgeSent ==
    ASSUME NEW r \in IrType, TxRange(r), r.clock <= MaxClock, NEW level \in BOOLEAN
    PROVE  LET q == EnqueueTxEdge(r, level)
           IN  q \in IrType /\ TxRange(q) /\ q.led = level /\ SameRx(q, r)
<1> DEFINE at == EdgeTime(r, level)
           e == Edge(at, level)
           queue == QueuePush(r.tx, e)
           q == [r EXCEPT !.lastEdge = at, !.led = level, !.tx = queue]
<1>1. EnqueueTxEdge(r, level) = q
  BY DEF EnqueueTxEdge
<1>2. at \in 0..MaxClock + Stretch /\ r.lastEdge <= at /\ at \in Nat /\ r.lastEdge \in Nat
  <2>1. at \in 0..MaxClock + Stretch /\ r.lastEdge <= at
    BY EdgeTimes DEF TxRange
  <2>2. r.lastEdge \in 0..MaxClock + Stretch
    BY DEF TxRange
  <2> QED BY <2>1, <2>2
<1> HIDE DEF at
<1>3. e \in EdgeType /\ e.at = at
  BY <1>2 DEF Edge, EdgeType
<1>4. /\ r.tx \in Seq(EdgeType) /\ Len(r.tx) \in Nat /\ Len(r.tx) <= IrCapacity
      /\ IrCapacity \in Nat
      /\ \A i \in 1..Len(r.tx) : r.tx[i].at \in Nat
  <2>1. r.tx \in Seq(EdgeType)
    BY DEF IrType
  <2>2. \A i \in 1..Len(r.tx) : r.tx[i] \in EdgeType
    BY <2>1
  <2>3. \A x \in EdgeType : x.at \in Nat
    BY DEF EdgeType
  <2> QED BY <2>1, <2>2, <2>3, IrAssumption DEF TxRange
<1> HIDE DEF e
<1>5. /\ queue \in Seq(EdgeType) /\ Len(queue) <= IrCapacity
      /\ \A i \in 1..Len(queue) - 1 : queue[i].at <= queue[i + 1].at
      /\ \A i \in 1..Len(queue) : queue[i].at <= at
  <2>1. CASE Len(r.tx) < IrCapacity
    <3>1. queue = Append(r.tx, e)
      BY <2>1 DEF QueuePush
    <3>2. /\ queue \in Seq(EdgeType) /\ Len(queue) = Len(r.tx) + 1
          /\ \A i \in 1..Len(r.tx) : queue[i] = r.tx[i]
          /\ queue[Len(r.tx) + 1] = e
      BY <1>3, <1>4, <3>1, AppendProperties
    <3> HIDE DEF queue
    <3>3. ASSUME NEW i \in 1..Len(queue) PROVE queue[i].at <= at
      <4>1. CASE i = Len(r.tx) + 1
        BY <1>2, <1>3, <3>2, <4>1
      <4>2. CASE i # Len(r.tx) + 1
        <5>1. i \in 1..Len(r.tx) /\ queue[i].at = r.tx[i].at
          BY <1>4, <3>2, <4>2
        <5>2. r.tx[i].at <= r.lastEdge /\ r.tx[i].at \in Nat
          BY <1>4, <5>1 DEF TxRange, Ordered
        <5> QED BY <1>2, <5>1, <5>2
      <4> QED BY <4>1, <4>2
    <3>4. ASSUME NEW i \in 1..Len(queue) - 1 PROVE queue[i].at <= queue[i + 1].at
      <4>1. CASE i = Len(r.tx)
        BY <1>3, <1>4, <3>2, <3>3, <4>1
      <4>2. CASE i # Len(r.tx)
        <5>1. i \in 1..Len(r.tx) - 1 /\ i \in 1..Len(r.tx) /\ i + 1 \in 1..Len(r.tx)
          BY <1>4, <3>2, <4>2
        <5> QED BY <3>2, <5>1 DEF TxRange, Ordered
      <4> QED BY <4>1, <4>2
    <3>5. queue \in Seq(EdgeType) /\ Len(queue) <= IrCapacity
      BY <1>4, <2>1, <3>2
    <3> QED BY <3>3, <3>4, <3>5
  <2>2. CASE ~(Len(r.tx) < IrCapacity)
    <3>1. queue = r.tx
      BY <2>2 DEF QueuePush
    <3> HIDE DEF queue
    <3>2. ASSUME NEW i \in 1..Len(r.tx) PROVE r.tx[i].at <= at
      <4>1. r.tx[i].at <= r.lastEdge /\ r.tx[i].at \in Nat
        BY <1>4 DEF TxRange, Ordered
      <4> QED BY <1>2, <4>1
    <3> QED BY <1>4, <3>1, <3>2 DEF TxRange, Ordered
  <2> QED BY <2>1, <2>2
<1> HIDE DEF queue
<1>6. /\ q \in IrType /\ q.led = level /\ SameRx(q, r)
      /\ q.lastEdge = at /\ q.tx = queue
  <2>1. queue \in Seq(EdgeType) /\ at \in Nat /\ at \in Int
    BY <1>2, <1>5
  <2>2. q \in IrType
    BY <2>1 DEF IrType
  <2>3. q.led = level /\ q.lastEdge = at /\ q.tx = queue
    BY DEF IrType
  <2>4. SameRx(q, r)
    BY DEF IrType, SameRx
  <2> QED BY <2>2, <2>3, <2>4
<1> HIDE DEF q
<1>7. TxRange(q)
  BY <1>2, <1>5, <1>6 DEF TxRange, Ordered
<1> QED BY <1>1, <1>6, <1>7

\* The carrier is on only while the condition to emit holds.
Transmits(r) == r \in IrType /\ TxRange(r) /\ r.clock <= MaxClock /\ (~EmitActive(r) => ~r.led)

LEMMA StoredMode ==
    ASSUME NEW r, Transmits(r), NEW mode \in Mode
    PROVE  LET q == WriteMode(r, mode)
           IN  /\ Transmits(q) /\ q.clock = r.clock /\ q.pending = r.pending
               /\ q.rx = r.rx /\ q.level = r.level
<1> DEFINE w == [r EXCEPT !.mode = mode]
<1>1. /\ w \in IrType /\ TxRange(w) /\ w.clock <= MaxClock /\ w.clock = r.clock /\ w.led \in BOOLEAN
      /\ w.pending = r.pending /\ w.rx = r.rx /\ w.level = r.level
  BY DEF Transmits, IrType, TxRange, Ordered
<1>2. WriteMode(r, mode) = IF ~EmitActive(w) /\ w.led THEN EnqueueTxEdge(w, FALSE) ELSE w
  BY DEF WriteMode
<1> HIDE DEF w
<1>3. CASE ~EmitActive(w) /\ w.led
  <2> DEFINE q == EnqueueTxEdge(w, FALSE)
  <2>1. q \in IrType /\ TxRange(q) /\ q.led = FALSE /\ SameRx(q, w)
    BY <1>1, EdgeSent
  <2>2. WriteMode(r, mode) = q
    BY <1>2, <1>3
  <2> HIDE DEF q
  <2>3. q.clock = r.clock /\ q.pending = r.pending /\ q.rx = r.rx /\ q.level = r.level
    BY <1>1, <2>1 DEF SameRx
  <2>4. Transmits(q)
    BY <1>1, <2>1, <2>3 DEF Transmits
  <2> QED BY <2>2, <2>3, <2>4
<1>4. CASE ~(~EmitActive(w) /\ w.led)
  BY <1>1, <1>2, <1>4 DEF Transmits
<1> QED BY <1>3, <1>4

LEMMA StoredData ==
    ASSUME NEW r, Transmits(r), NEW led \in BOOLEAN
    PROVE  LET q == WriteData(r, led)
           IN  /\ Transmits(q) /\ q.clock = r.clock /\ q.pending = r.pending
               /\ q.rx = r.rx /\ q.level = r.level
<1> DEFINE w == [r EXCEPT !.data = led]
<1>1. /\ w \in IrType /\ TxRange(w) /\ w.clock <= MaxClock /\ w.clock = r.clock /\ w.led = r.led
      /\ w.pending = r.pending /\ w.rx = r.rx /\ w.level = r.level /\ w.mode = r.mode
  BY DEF Transmits, IrType, TxRange, Ordered
<1>2. WriteData(r, led) = IF EmitActive(w) /\ led # w.led THEN EnqueueTxEdge(w, led) ELSE w
  BY DEF WriteData
<1> HIDE DEF w
<1>3. CASE EmitActive(w) /\ led # w.led
  <2>1. EmitActive(EnqueueTxEdge(w, led))
    BY <1>1, <1>3, EdgeSent DEF SameRx, EmitActive
  <2> QED BY <1>1, <1>2, <1>3, <2>1, EdgeSent DEF Transmits, SameRx
<1>4. CASE ~(EmitActive(w) /\ led # w.led)
  BY <1>1, <1>2, <1>4 DEF Transmits, EmitActive
<1> QED BY <1>3, <1>4

-----------------------------------------------------------------------------
(* The transceiver in its behaviour.                                          *)

IrInv ==
    /\ Transmits(ir) /\ Heard(ir) /\ Len(ir.rx) <= IrCapacity
    /\ intc \in LinesType
    /\ txd.level = ir.led
    /\ plain \in BOOLEAN

LEMMA IrStart == IrInit => IrInv
<1> SUFFICES ASSUME IrInit PROVE IrInv
  OBVIOUS
<1>1. IrReset \in IrType
  <2>1. ModeReset \in Mode
    BY DEF ModeReset, Mode
  <2>2. <<>> \in Seq(EdgeType)
    OBVIOUS
  <2> QED BY <2>1, <2>2 DEF IrReset, IrType
<1>2. TxRange(IrReset) /\ IrReset.clock <= MaxClock /\ ~IrReset.led /\ Heard(IrReset) /\ Len(IrReset.rx) <= IrCapacity
  BY IrAssumption, IrBounds DEF TxRange, Ordered, IrReset, Heard
<1>3. IntcReset \in LinesType
  BY DEF IntcReset, LinesType
<1> QED BY <1>1, <1>2, <1>3 DEF IrInit, IrInv, Transmits, IrReset

LEMMA IrStep == IrInv /\ [IrNext]_irVars => IrInv'
<1> SUFFICES ASSUME IrInv, [IrNext]_irVars PROVE IrInv'
  OBVIOUS
<1>0. /\ Transmits(ir) /\ Heard(ir) /\ Len(ir.rx) <= IrCapacity /\ intc \in LinesType
      /\ txd.level = ir.led /\ plain \in BOOLEAN /\ ir \in IrType
  BY DEF IrInv, Transmits
<1>1. ASSUME RecordEdge(ir') PROVE txd'.level = ir'.led
  <2>1. CASE ir'.led = ir.led
    BY <1>0, <1>1, <2>1 DEF RecordEdge
  <2>2. CASE ir'.led # ir.led
    BY <1>1, <2>2 DEF RecordEdge
  <2> QED BY <2>1, <2>2
<1>2. CASE StoreMode
  <2>1. PICK mode \in Modes :
            ir' = WriteMode(ir, mode) /\ RecordEdge(ir') /\ plain' = (plain \/ ~mode.filter)
            /\ UNCHANGED <<intc, rxd, seen>>
    BY <1>2 DEF StoreMode
  <2>2. mode \in Mode
    BY IrBounds
  <2>3. /\ Transmits(ir') /\ ir'.clock = ir.clock /\ ir'.pending = ir.pending /\ ir'.rx = ir.rx
    BY <1>0, <2>1, <2>2, StoredMode
  <2>4. plain' \in BOOLEAN
    BY <2>1
  <2> QED BY <1>0, <1>1, <2>1, <2>3, <2>4 DEF IrInv, Heard
<1>3. CASE StoreData
  <2>1. PICK led \in BOOLEAN :
            ir' = WriteData(ir, led) /\ RecordEdge(ir') /\ UNCHANGED <<intc, rxd, seen, plain>>
    BY <1>3 DEF StoreData
  <2>2. /\ Transmits(ir') /\ ir'.clock = ir.clock /\ ir'.pending = ir.pending /\ ir'.rx = ir.rx
    BY <1>0, <2>1, StoredData
  <2> QED BY <1>0, <1>1, <2>1, <2>2 DEF IrInv, Heard
<1>4. CASE Acknowledge
  BY <1>0, <1>4, AckLines DEF Acknowledge, IrInv
<1>5. CASE PopTxEdge
  <2>1. ir.tx # <<>> /\ ir' = [ir EXCEPT !.tx = Tail(@)] /\ UNCHANGED <<intc, txd, plain>>
    BY <1>5 DEF PopTxEdge
  <2>2. ir.tx \in Seq(EdgeType) /\ Len(ir.tx) \in Nat
    BY <1>0 DEF IrType
  <2>3. /\ Tail(ir.tx) \in Seq(EdgeType) /\ Len(Tail(ir.tx)) = Len(ir.tx) - 1
        /\ \A i \in 1..Len(Tail(ir.tx)) : Tail(ir.tx)[i] = ir.tx[i + 1]
    BY <2>1, <2>2, HeadTailProperties
  <2>4. /\ ir' \in IrType /\ ir'.tx = Tail(ir.tx) /\ ir'.lastEdge = ir.lastEdge /\ ir'.led = ir.led
        /\ ir'.mode = ir.mode /\ ir'.clock = ir.clock /\ ir'.rx = ir.rx /\ ir'.pending = ir.pending
    BY <1>0, <2>1, <2>3 DEF IrType
  <2>5. Ordered(ir')
    <3>1. ASSUME NEW i \in 1..Len(ir'.tx) - 1 PROVE ir'.tx[i].at <= ir'.tx[i + 1].at
      <4>1. /\ i \in 1..Len(Tail(ir.tx)) /\ i + 1 \in 1..Len(Tail(ir.tx))
            /\ i + 1 \in 1..Len(ir.tx) - 1
        BY <2>2, <2>3, <2>4
      <4>2. ir'.tx[i] = ir.tx[i + 1] /\ ir'.tx[i + 1] = ir.tx[(i + 1) + 1]
        BY <2>3, <2>4, <4>1
      <4> QED BY <1>0, <4>1, <4>2 DEF Transmits, TxRange, Ordered
    <3>2. ASSUME NEW i \in 1..Len(ir'.tx) PROVE ir'.tx[i].at <= ir'.lastEdge
      <4>1. i \in 1..Len(Tail(ir.tx)) /\ i + 1 \in 1..Len(ir.tx)
        BY <2>2, <2>3, <2>4
      <4> QED BY <1>0, <2>3, <2>4, <4>1 DEF Transmits, TxRange, Ordered
    <3> QED BY <3>1, <3>2 DEF Ordered
  <2>6. TxRange(ir')
    <3>1. Len(ir'.tx) <= IrCapacity
      BY <1>0, <2>2, <2>3, <2>4, IrAssumption DEF Transmits, TxRange
    <3> QED BY <1>0, <2>4, <2>5, <3>1 DEF Transmits, TxRange
  <2> QED BY <1>0, <2>1, <2>4, <2>6 DEF IrInv, Transmits, Heard, EmitActive
<1>6. CASE PushEdge
  <2>1. PICK lead \in Leads :
            /\ ir' = PushRxEdge(ir, Edge(ir.clock + lead, Len(rxd) % 2 = 0))
            /\ UNCHANGED <<intc, txd, plain>>
    BY <1>6 DEF PushEdge
  <2> DEFINE e == Edge(ir.clock + lead, Len(rxd) % 2 = 0)
             queue == QueuePush(ir.rx, e)
  <2>2. e \in EdgeType
    BY <1>0, IrBounds DEF IrType, Edge, EdgeType
  <2> HIDE DEF e
  <2>3. queue \in Seq(EdgeType) /\ Len(queue) <= IrCapacity
    <3>1. ir.rx \in Seq(EdgeType) /\ Len(ir.rx) \in Nat /\ IrCapacity \in Nat
      BY <1>0, IrAssumption DEF IrType
    <3>2. CASE Len(ir.rx) < IrCapacity
      <4>1. queue = Append(ir.rx, e)
        BY <3>2 DEF QueuePush
      <4> QED BY <2>2, <3>1, <3>2, <4>1, AppendProperties
    <3>3. CASE ~(Len(ir.rx) < IrCapacity)
      BY <1>0, <3>1, <3>3 DEF QueuePush
    <3> QED BY <3>2, <3>3
  <2>4. ir' = [ir EXCEPT !.rx = queue]
    BY <2>1 DEF PushRxEdge, e
  <2> HIDE DEF queue
  <2>5. /\ ir' \in IrType /\ ir'.tx = ir.tx /\ ir'.lastEdge = ir.lastEdge /\ ir'.led = ir.led
        /\ ir'.mode = ir.mode /\ ir'.clock = ir.clock /\ ir'.rx = queue /\ ir'.pending = ir.pending
    BY <1>0, <2>3, <2>4 DEF IrType
  <2> QED BY <1>0, <2>1, <2>3, <2>5 DEF IrInv, Transmits, TxRange, Ordered, Heard, EmitActive
<1>7. CASE TickIr
  <2>1. PICK cycles \in Steps :
            LET p == IrTick(ir, intc, cycles) IN
            /\ ir.clock + cycles <= MaxClock /\ ir' = p.ir /\ intc' = p.intc
            /\ UNCHANGED <<txd, plain>>
    BY <1>7 DEF TickIr
  <2>2. cycles \in Nat
    BY IrBounds
  <2> DEFINE p == IrTick(ir, intc, cycles)
  <2>3. /\ p \in PairType /\ SameTx(p.ir, ir) /\ Heard(p.ir)
        /\ p.ir.clock = ir.clock + cycles /\ Len(p.ir.rx) <= Len(ir.rx)
    BY <1>0, <2>2, TickKeeps
  <2>4. ir.clock + cycles <= MaxClock /\ ir' = p.ir /\ intc' = p.intc /\ UNCHANGED <<txd, plain>>
    BY <2>1
  <2> HIDE DEF p
  <2>5. ir' \in IrType /\ intc' \in LinesType /\ Len(ir.rx) \in Nat /\ Len(ir'.rx) \in Nat /\ IrCapacity \in Nat
    BY <1>0, <2>3, <2>4, IrAssumption DEF PairType, IrType
  <2>6. Transmits(ir')
    BY <1>0, <2>3, <2>4, <2>5 DEF Transmits, TxRange, Ordered, SameTx, EmitActive
  <2> QED BY <1>0, <2>3, <2>4, <2>5, <2>6 DEF IrInv, SameTx
<1>8. CASE UNCHANGED irVars
  BY <1>0, <1>8 DEF irVars, IrInv
<1> QED
  BY <1>2, <1>3, <1>4, <1>5, <1>6, <1>7, <1>8 DEF IrNext

LEMMA IrAlways == IrSpec => []IrInv
BY IrStart, IrStep, PTL DEF IrSpec

\* The transceiver keeps the shape of its registers, the capacity of its queues and
\* the range of its times.
THEOREM IrTypeCorrect == IrSpec => []IrTypeOK
<1>1. ASSUME IrInv PROVE IrTypeOK
  <2>1. /\ ir \in IrType /\ intc \in LinesType /\ plain \in BOOLEAN
        /\ ir.lastEdge \in 0..MaxClock + Stretch /\ ir.clock <= MaxClock
        /\ Len(ir.tx) <= IrCapacity /\ Len(ir.rx) <= IrCapacity
    BY <1>1 DEF IrInv, Transmits, TxRange
  <2>2. ir.clock \in 0..MaxClock
    BY <2>1, IrBounds DEF IrType
  <2>3. {plain, ir.data, ir.led, ir.level, ir.pending.valid, ir.pending.level} \subseteq BOOLEAN
    BY <2>1 DEF IrType
  <2>4. ASSUME NEW q \in {ir.tx, ir.rx}
        PROVE  Len(q) <= IrCapacity /\ \A i \in DOMAIN q : q[i].level \in BOOLEAN /\ q[i].at \in Nat
    <3>1. q \in Seq(EdgeType) /\ Len(q) <= IrCapacity
      BY <2>1 DEF IrType
    <3>2. \A i \in DOMAIN q : q[i] \in EdgeType
      BY <3>1
    <3>3. \A x \in EdgeType : x.level \in BOOLEAN /\ x.at \in Nat
      BY DEF EdgeType
    <3> QED BY <3>1, <3>2, <3>3
  <2>5. ir.mode \in Mode /\ intc.hold \subseteq Line /\ intc.status \subseteq StatusMask
    BY <2>1 DEF IrType, LinesType
  <2> QED BY <2>1, <2>2, <2>3, <2>4, <2>5 DEF IrTypeOK
<1> QED BY <1>1, IrAlways, PTL

\* The frontend gets the edges of the LED in their order, and the last of them is a
\* fall when the transmitter does not drive the LED, for each queue size, each
\* stretch and each order of mode changes, data writes and ticks (ir.c).
THEOREM TransmitIsAlwaysExact == IrSpec => []TransmitIsExact
<1>1. ASSUME IrInv PROVE TransmitIsExact
  BY <1>1 DEF IrInv, Transmits, TxRange, Ordered, TransmitIsExact, TxInOrder, LedOffAfterTransmit
<1> QED BY <1>1, IrAlways, PTL

\* Before the next event of ir_cycles_to_next_event a tick of any length announces
\* nothing, which is what the idle skip relies on (ir.c, psemu.c).
THEOREM AlwaysQuietUntilEvent == IrSpec => QuietUntilEvent
<1>1. ASSUME IrInv, IrNext, ir'.clock > ir.clock, Before(ir, ir'.clock - ir.clock)
      PROVE  ir'.rx = ir.rx /\ ir'.level = ir.level /\ intc'.hold = intc.hold
  <2>0. Transmits(ir) /\ Heard(ir) /\ intc \in LinesType /\ ir \in IrType /\ ir.clock \in Nat
    BY <1>1 DEF IrInv, Transmits, IrType
  <2>1. CASE StoreMode
    <3>1. \E mode \in Mode : ir' = WriteMode(ir, mode)
      BY <2>1, IrBounds DEF StoreMode
    <3> QED BY <1>1, <2>0, <3>1, StoredMode
  <2>2. CASE StoreData
    <3>1. \E led \in BOOLEAN : ir' = WriteData(ir, led)
      BY <2>2 DEF StoreData
    <3> QED BY <1>1, <2>0, <3>1, StoredData
  <2>3. CASE Acknowledge
    BY <1>1, <2>0, <2>3 DEF Acknowledge
  <2>4. CASE PopTxEdge
    BY <1>1, <2>0, <2>4 DEF PopTxEdge, IrType
  <2>5. CASE PushEdge
    BY <1>1, <2>0, <2>5 DEF PushEdge, PushRxEdge, IrType
  <2>6. CASE TickIr
    <3>1. PICK cycles \in Steps :
              ir' = IrTick(ir, intc, cycles).ir /\ intc' = IrTick(ir, intc, cycles).intc
      BY <2>6 DEF TickIr
    <3>2. cycles \in Nat
      BY IrBounds
    <3>3. ir'.clock = ir.clock + cycles
      BY <2>0, <3>1, <3>2, TickKeeps
    <3>4. ir'.clock - ir.clock = cycles /\ cycles > 0
      BY <1>1, <2>0, <3>2, <3>3
    <3>5. Before(ir, cycles)
      BY <1>1, <3>4
    <3> QED BY <2>0, <3>1, <3>2, <3>4, <3>5, TickIsQuiet
  <2> QED BY <1>1, <2>1, <2>2, <2>3, <2>4, <2>5, <2>6 DEF IrNext
<1>2. IrInv /\ [IrNext]_irVars =>
          [/\ ir'.clock > ir.clock
           /\ \A e \in EventsAhead(ir) : ir'.clock - ir.clock < e
           => ir'.rx = ir.rx /\ ir'.level = ir.level /\ intc'.hold = intc.hold]_irVars
  BY <1>1 DEF Before
<1> QED BY <1>2, IrAlways, PTL DEF IrSpec, QuietUntilEvent

-----------------------------------------------------------------------------
(* The filter.  Of the edges that the frontend pushed, the first went through *)
(* the filter and the others are in the queue; the level is the one of the    *)
(* last edge that the filter accepted.                                        *)

\* The level of the line after the first n edges.
LineAfter(q, n) == IF n = 0 THEN FALSE ELSE q[n].level

\* The edges of a peer come in the order of their times, with levels that alternate.
Alternate(q) ==
    /\ q \in Seq(EdgeType)
    /\ \A i, j \in 1..Len(q) : i < j => q[i].at < q[j].at
    /\ \A n \in 0..Len(q) - 1 : q[n + 1].level # LineAfter(q, n)
    /\ LineAfter(q, Len(q)) <=> Len(q) % 2 = 1

\* The queue holds the edges that are ahead of the clock, and no others.
Queued(r, q) ==
    /\ Len(r.rx) <= Len(q)
    /\ \A i \in 1..Len(r.rx) : r.rx[i] = q[Len(q) - Len(r.rx) + i]
    /\ \A i \in 1..Len(q) : q[i].at > r.clock <=> i > Len(q) - Len(r.rx)

\* The candidate of the filter is the last of n edges, if its level is not the
\* accepted one.
Candidate(r, q, n) ==
    IF r.pending.valid
    THEN n >= 1 /\ r.pending.since = q[n].at
         /\ r.pending.level = LineAfter(q, n) /\ r.level # LineAfter(q, n)
    ELSE r.level = LineAfter(q, n)

\* One call of ir_tick: the edges whose time came go to the filter one by one.
TickSteps(r, i, cycles, N, first, taken) ==
    /\ IrTick(r, i, cycles) = ResolvePending(taken[N])
    /\ taken[0] = first /\ \A k \in 1..N : taken[k] = DebounceEdge(taken[k - 1], r.rx[k])
    /\ first \in PairType /\ Heard(first.ir) /\ first.ir.clock = r.clock + cycles
    /\ first.ir.rx = SubSeq(r.rx, N + 1, Len(r.rx))
    /\ first.ir.level = r.level /\ first.ir.pending = r.pending /\ first.ir.mode = r.mode

\* The first edge ahead ends the count of those whose time came.
LEMMA DueEnds ==
    ASSUME NEW r \in IrType, Due(r) + 1 <= Len(r.rx)
    PROVE  r.rx[Due(r) + 1].at > r.clock
<1> DEFINE late == {i \in DOMAIN r.rx : r.rx[i].at > r.clock}
<1>1. r.rx \in Seq(EdgeType) /\ Len(r.rx) \in Nat /\ DOMAIN r.rx = 1..Len(r.rx)
  BY DEF IrType
<1>2. late # {}
  <2>1. late = {} => Due(r) = Len(r.rx)
    BY DEF Due
  <2> QED BY <1>1, <2>1
<1>3. late \in SUBSET Nat
  BY <1>1
<1>4. \E x \in late : \A j \in late : x <= j
  <2> HIDE DEF late
  <2> QED BY <1>2, <1>3, LeastNumber
<1> DEFINE first == CHOOSE i \in late : \A j \in late : i <= j
<1>5. Due(r) = first - 1
  BY <1>2 DEF Due
<1>6. first \in late
  BY <1>4
<1> HIDE DEF first
<1>7. Due(r) + 1 = first
  BY <1>3, <1>5, <1>6
<1> QED BY <1>6, <1>7

LEMMA TickIsStepwise ==
    ASSUME NEW r \in IrType, Heard(r), NEW i \in LinesType, NEW cycles \in Nat
    PROVE  \E N \in 0..Len(r.rx) : \E first, taken :
               /\ TickSteps(r, i, cycles, N, first, taken)
               /\ \A k \in 1..N : r.rx[k].at <= r.clock + cycles
               /\ N + 1 <= Len(r.rx) => r.rx[N + 1].at > r.clock + cycles
<1> DEFINE now   == [r EXCEPT !.clock = @ + cycles]
           N     == Due(now)
           first == [ir   |-> [now EXCEPT !.rx = SubSeq(@, N + 1, Len(@))],
                     intc |-> IF ListenActive(r) THEN i ELSE ClearStatusOnly(i, "irda")]
           taken[k \in 0..N] == IF k = 0 THEN first ELSE DebounceEdge(taken[k - 1], r.rx[k])
<1>1. IrTick(r, i, cycles) = ResolvePending(taken[N])
  BY DEF IrTick
<1>2. now \in IrType /\ now.clock = r.clock + cycles /\ Heard(now) /\ now.rx = r.rx
      /\ now.level = r.level /\ now.pending = r.pending /\ now.mode = r.mode
  BY SMTT(30) DEF IrType, Heard
<1>3. /\ N \in 0..Len(r.rx)
      /\ \A k \in 1..N : r.rx[k].at <= now.clock
      /\ N + 1 <= Len(r.rx) => r.rx[N + 1].at > now.clock
  <2> HIDE DEF now
  <2> QED BY <1>2, DueRange, DueEnds
<1>4. r.rx \in Seq(EdgeType) /\ \A k \in 1..Len(r.rx) : r.rx[k] \in EdgeType
  BY DEF IrType
<1> HIDE DEF now, N
<1>5. SubSeq(r.rx, N + 1, Len(r.rx)) \in Seq(EdgeType)
  <2>1. Len(r.rx) \in Nat /\ N + 1 \in Int /\ \A k \in N + 1..Len(r.rx) : r.rx[k] \in EdgeType
    BY <1>3, <1>4
  <2> QED BY <1>3, <2>1, SubSeqProperties
<1>6. /\ first \in PairType /\ Heard(first.ir) /\ first.ir.clock = r.clock + cycles
      /\ first.ir.rx = SubSeq(r.rx, N + 1, Len(r.rx))
      /\ first.ir.level = r.level /\ first.ir.pending = r.pending /\ first.ir.mode = r.mode
  <2>1. (IF ListenActive(r) THEN i ELSE ClearStatusOnly(i, "irda")) \in LinesType
    BY StatusLines
  <2> DEFINE q == [now EXCEPT !.rx = SubSeq(@, N + 1, Len(@))]
  <2>2. /\ q \in IrType /\ Heard(q) /\ q.clock = r.clock + cycles
        /\ q.rx = SubSeq(r.rx, N + 1, Len(r.rx))
        /\ q.level = r.level /\ q.pending = r.pending /\ q.mode = r.mode
    BY <1>2, <1>5 DEF IrType, Heard
  <2> HIDE DEF q
  <2>3. first.ir = q /\ first \in PairType
    BY <2>1, <2>2 DEF PairType, q
  <2> QED BY <2>2, <2>3
<1> HIDE DEF first
<1>7. taken[0] = first /\ \A k \in 1..N : taken[k] = DebounceEdge(taken[k - 1], r.rx[k])
  <2>1. N \in Nat
    BY <1>3
  <2>2. taken = [k \in 0..N |-> IF k = 0 THEN first ELSE DebounceEdge(taken[k - 1], r.rx[k])]
    BY <2>1, EdgesTaken DEF taken
  <2> HIDE DEF taken
  <2> QED BY <2>1, <2>2
<1> HIDE DEF taken
<1>8. TickSteps(r, i, cycles, N, first, taken)
  BY <1>1, <1>6, <1>7 DEF TickSteps
<1> QED BY <1>2, <1>3, <1>8

\* The edges and the levels of the line.
LEMMA LineTypes ==
    ASSUME NEW q \in Seq(EdgeType)
    PROVE  /\ Len(q) \in Nat /\ DOMAIN q = 1..Len(q)
           /\ \A i \in 1..Len(q) : q[i] \in EdgeType /\ q[i].at \in Nat /\ q[i].level \in BOOLEAN
           /\ \A n \in 0..Len(q) : LineAfter(q, n) \in BOOLEAN
<1>1. Len(q) \in Nat /\ DOMAIN q = 1..Len(q) /\ \A i \in 1..Len(q) : q[i] \in EdgeType
  OBVIOUS
<1>2. \A e \in EdgeType : e.at \in Nat /\ e.level \in BOOLEAN
  BY DEF EdgeType
<1>3. \A i \in 1..Len(q) : q[i].at \in Nat /\ q[i].level \in BOOLEAN
  BY <1>1, <1>2
<1>4. ASSUME NEW n \in 0..Len(q) PROVE LineAfter(q, n) \in BOOLEAN
  <2>1. n # 0 => n \in 1..Len(q)
    BY <1>1
  <2> QED BY <1>3, <2>1 DEF LineAfter
<1> QED BY <1>1, <1>3, <1>4

\* The filter takes the next edge of the line.
LEMMA EdgeFiltered ==
    ASSUME NEW q, Alternate(q), NEW p \in PairType, p.ir.mode.filter,
           NEW n \in 0..Len(q) - 1, Candidate(p.ir, q, n)
    PROVE  LET d == DebounceEdge(p, q[n + 1])
           IN  Candidate(d.ir, q, n + 1) /\ d.ir.level = p.ir.level
<1>1. /\ p.ir \in IrType /\ p.intc \in LinesType /\ p = [ir |-> p.ir, intc |-> p.intc]
      /\ p.ir.level \in BOOLEAN /\ p.ir.pending \in [valid : BOOLEAN, level : BOOLEAN, since : Nat]
  BY DEF PairType, IrType
<1>2. /\ q[n + 1].level \in BOOLEAN /\ q[n + 1].level # LineAfter(q, n)
      /\ LineAfter(q, n) \in BOOLEAN /\ LineAfter(q, n + 1) = q[n + 1].level
  <2>1. q \in Seq(EdgeType) /\ q[n + 1].level # LineAfter(q, n)
    BY DEF Alternate
  <2>2. Len(q) \in Nat /\ n \in 0..Len(q) /\ n + 1 \in 1..Len(q) /\ n + 1 # 0
    BY <2>1, LineTypes
  <2> QED BY <2>1, <2>2, LineTypes DEF LineAfter
<1>3. CASE q[n + 1].level = p.ir.level
  <2>1. DebounceEdge(p, q[n + 1]) = NoPending(p)
    BY <1>3 DEF DebounceEdge
  <2>2. NoPending(p).ir.level = p.ir.level /\ ~NoPending(p).ir.pending.valid
    BY <1>1 DEF NoPending, IrType
  <2> QED BY <1>2, <1>3, <2>1, <2>2 DEF Candidate
<1>4. CASE q[n + 1].level # p.ir.level
  <2> DEFINE c == [valid |-> TRUE, level |-> q[n + 1].level, since |-> q[n + 1].at]
             d == [p EXCEPT !.ir.pending = c]
  <2>1. DebounceEdge(p, q[n + 1]) = d
    BY <1>4 DEF DebounceEdge
  <2>2. d.ir.level = p.ir.level /\ d.ir.pending = c
    BY <1>1 DEF IrType
  <2>3. c.valid /\ c.level = q[n + 1].level /\ c.since = q[n + 1].at
    OBVIOUS
  <2> HIDE DEF d, c
  <2> QED BY <1>2, <1>4, <2>1, <2>2, <2>3 DEF Candidate
<1> QED BY <1>3, <1>4

\* A tick moves the clock, takes the edges whose time came, and accepts the last one
\* if the debounce time is over.
Overdue(q, n, clock) == n >= 1 /\ q[n].at + Debounce <= clock

\* What a queue is of a line of edges.
LEMMA QueueFacts ==
    ASSUME NEW q, Alternate(q), NEW r \in IrType, Queued(r, q)
    PROVE  /\ Len(r.rx) \in Nat /\ Len(q) \in Nat /\ Len(q) - Len(r.rx) \in Nat
           /\ Len(q) = (Len(q) - Len(r.rx)) + Len(r.rx) /\ r.clock \in Nat
           /\ \A k \in 1..Len(r.rx) : r.rx[k] \in EdgeType
           /\ \A k \in 1..Len(r.rx) : r.rx[k] = q[(Len(q) - Len(r.rx)) + k]
           /\ \A k \in 1..Len(q) : q[k].at \in Nat
           /\ \A k \in 1..Len(q) : q[k].at > r.clock <=> k > Len(q) - Len(r.rx)
           /\ \A k, j \in 1..Len(q) : k < j => q[k].at < q[j].at
<1>1. q \in Seq(EdgeType) /\ r.rx \in Seq(EdgeType) /\ r.clock \in Nat
  BY DEF Alternate, IrType
<1>2. Len(q) \in Nat /\ \A k \in 1..Len(q) : q[k].at \in Nat
  BY <1>1, LineTypes
<1>3. Len(r.rx) \in Nat /\ \A k \in 1..Len(r.rx) : r.rx[k] \in EdgeType
  BY <1>1, LineTypes
<1>4. Len(r.rx) <= Len(q) /\ \A k \in 1..Len(r.rx) : r.rx[k] = q[(Len(q) - Len(r.rx)) + k]
  BY DEF Queued
<1>5. Len(q) - Len(r.rx) \in Nat /\ Len(q) = (Len(q) - Len(r.rx)) + Len(r.rx)
  BY <1>2, <1>3, <1>4
<1> QED BY <1>1, <1>2, <1>3, <1>4, <1>5 DEF Alternate, Queued

\* The queue after a tick that took its first N edges.
LEMMA QueueMoves ==
    ASSUME NEW q, Alternate(q), NEW r \in IrType, Queued(r, q), NEW N \in 0..Len(r.rx),
           NEW clock \in Nat, r.clock <= clock,
           \A k \in 1..N : r.rx[k].at <= clock,
           N + 1 <= Len(r.rx) => r.rx[N + 1].at > clock,
           NEW s \in IrType, s.rx = SubSeq(r.rx, N + 1, Len(r.rx)), s.clock = clock
    PROVE  Queued(s, q) /\ Len(q) - Len(s.rx) = (Len(q) - Len(r.rx)) + N
           /\ Len(q) - Len(r.rx) \in Nat /\ Len(s.rx) \in Nat
<1> DEFINE n == Len(q) - Len(r.rx)
           L == Len(r.rx)
<1> HIDE DEF n, L
<1>1. /\ L \in Nat /\ Len(q) \in Nat /\ n \in Nat /\ Len(q) = n + L /\ r.clock \in Nat
      /\ \A k \in 1..L : r.rx[k] \in EdgeType
      /\ \A k \in 1..L : r.rx[k] = q[n + k]
      /\ \A k \in 1..Len(q) : q[k].at \in Nat
      /\ \A k \in 1..Len(q) : q[k].at > r.clock <=> k > n
      /\ \A k, j \in 1..Len(q) : k < j => q[k].at < q[j].at
  BY QueueFacts DEF n, L
<1>0. N \in Nat /\ N <= L
  BY <1>1 DEF L
<1>2. /\ Len(SubSeq(r.rx, N + 1, L)) = L - N
      /\ \A k \in 1..L - N : SubSeq(r.rx, N + 1, L)[k] = r.rx[N + k]
  <2>1. N + 1 \in Int /\ L \in Int /\ \A k \in N + 1..L : r.rx[k] \in EdgeType
    BY <1>0, <1>1
  <2>2. /\ Len(SubSeq(r.rx, N + 1, L)) = IF N + 1 <= L THEN L - (N + 1) + 1 ELSE 0
        /\ \A k \in 1..L - (N + 1) + 1 : SubSeq(r.rx, N + 1, L)[k] = r.rx[N + 1 + k - 1]
    BY <2>1, SubSeqProperties
  <2>3. \A k \in 1..L - N : N + 1 + k - 1 = N + k /\ k \in 1..L - (N + 1) + 1
    BY <1>0, <1>1
  <2>4. Len(SubSeq(r.rx, N + 1, L)) = L - N
    BY <1>0, <1>1, <2>2
  <2> QED BY <2>2, <2>3, <2>4
<1>3. Len(s.rx) = L - N /\ Len(s.rx) \in Nat /\ Len(q) - Len(s.rx) = n + N
  <2>1. Len(s.rx) = L - N
    BY <1>2 DEF L
  <2>2. L - N \in Nat /\ Len(q) - (L - N) = n + N
    BY <1>0, <1>1
  <2> QED BY <2>1, <2>2
<1>4. ASSUME NEW k \in 1..Len(s.rx) PROVE s.rx[k] = q[Len(q) - Len(s.rx) + k]
  <2>0. k \in 1..L - N
    BY <1>3
  <2>1. N + k \in 1..L /\ n + (N + k) = Len(q) - Len(s.rx) + k
    <3>1. N + k \in 1..L /\ n + (N + k) = (n + N) + k
      BY <1>0, <1>1, <2>0
    <3> QED BY <1>3, <3>1
  <2>2. s.rx[k] = r.rx[N + k]
    BY <1>2, <2>0 DEF L
  <2> QED BY <1>1, <2>1, <2>2
<1>5. ASSUME NEW k \in 1..Len(q) PROVE q[k].at > clock <=> k > n + N
  <2>0. q[k].at \in Nat /\ k \in Nat
    BY <1>1
  <2>1. CASE k <= n
    BY <1>0, <1>1, <2>0, <2>1
  <2>2. CASE k > n /\ k <= n + N
    <3>1. k - n \in 1..N /\ n + (k - n) = k
      BY <1>0, <1>1, <2>0, <2>2
    <3>2. k - n \in 1..L
      BY <1>0, <1>1, <3>1
    <3>3. r.rx[k - n] = q[k]
      BY <1>1, <3>1, <3>2
    <3> QED BY <1>1, <2>0, <2>2, <3>1, <3>3
  <2>3. CASE k > n + N
    <3>1. N + 1 \in 1..L /\ n + (N + 1) \in 1..Len(q) /\ N + 1 <= Len(r.rx)
      BY <1>0, <1>1, <2>0, <2>3 DEF L
    <3>2. q[n + (N + 1)].at > clock /\ q[n + (N + 1)].at \in Nat
      <4>1. r.rx[N + 1] = q[n + (N + 1)] /\ r.rx[N + 1].at > clock
        BY <1>1, <3>1
      <4> QED BY <1>1, <3>1, <4>1
    <3>3. k = n + (N + 1) \/ n + (N + 1) < k
      BY <1>0, <1>1, <2>0, <2>3
    <3> QED BY <1>0, <1>1, <2>0, <2>3, <3>1, <3>2, <3>3
  <2> QED BY <1>0, <1>1, <2>0, <2>1, <2>2, <2>3
<1>6. Len(s.rx) <= Len(q)
  BY <1>0, <1>1, <1>3
<1>7. Queued(s, q)
  BY <1>3, <1>4, <1>5, <1>6 DEF Queued
<1> QED BY <1>1, <1>3, <1>7 DEF n

\* The filter took n edges, and left the level as it was.
Filtered(p, r, q, n) ==
    r.mode.filter /\ Candidate(r, q, Len(q) - Len(r.rx)) =>
        Candidate(p.ir, q, n) /\ p.ir.level = r.level

\* The edges of a tick leave the level to the end of the tick.
LEMMA EdgesFiltered ==
    ASSUME NEW q, Alternate(q), NEW r \in IrType, Heard(r), Queued(r, q), NEW i \in LinesType,
           NEW cycles \in Nat, NEW N \in 0..Len(r.rx), NEW first, NEW taken,
           TickSteps(r, i, cycles, N, first, taken),
           \A k \in 1..N : r.rx[k].at <= r.clock + cycles
    PROVE  /\ PartOfTick(taken[N], first) /\ Heard(taken[N].ir)
           /\ Filtered(taken[N], r, q, (Len(q) - Len(r.rx)) + N)
<1> DEFINE n == Len(q) - Len(r.rx)
           Good(p, k) == PartOfTick(p, first) /\ Heard(p.ir) /\ Filtered(p, r, q, n + k)
           S == {k \in Nat : k <= N => Good(taken[k], k)}
<1>0. /\ Len(r.rx) \in Nat /\ Len(q) \in Nat /\ n \in Nat /\ Len(q) = n + Len(r.rx)
      /\ \A k \in 1..Len(r.rx) : r.rx[k] \in EdgeType
      /\ \A k \in 1..Len(r.rx) : r.rx[k] = q[n + k]
  BY QueueFacts
<1>4. N \in Nat /\ N <= Len(r.rx)
  BY <1>0
<1>1. 0 \in S
  <2>1. taken[0] = first /\ PartOfTick(first, first) /\ Heard(first.ir)
    BY DEF TickSteps, PartOfTick, SameTx
  <2>2. Filtered(first, r, q, n + 0)
    BY <1>0 DEF TickSteps, Candidate, Filtered
  <2> QED BY <2>1, <2>2
<1>2. ASSUME NEW k \in Nat, k \in S PROVE k + 1 \in S
  <2> HIDE DEF Good
  <2> SUFFICES ASSUME k + 1 <= N PROVE Good(taken[k + 1], k + 1)
    OBVIOUS
  <2> USE DEF Good
  <2>1. k + 1 \in 1..N /\ (k + 1) - 1 = k /\ k <= N /\ k + 1 \in 1..Len(r.rx) /\ n + (k + 1) = (n + k) + 1
        /\ n + k \in 0..Len(q) - 1
    BY <1>0, <1>4
  <2>2. Good(taken[k], k)
    BY <1>2, <2>1
  <2>3. taken[k + 1] = DebounceEdge(taken[k], r.rx[k + 1])
    BY <2>1 DEF TickSteps
  <2>4. /\ taken[k] \in PairType /\ Heard(taken[k].ir)
        /\ taken[k].ir.clock = r.clock + cycles /\ taken[k].ir.mode = r.mode
    BY <2>2 DEF PartOfTick, SameTx, TickSteps
  <2>5. r.rx[k + 1] \in EdgeType /\ r.rx[k + 1].at <= taken[k].ir.clock /\ r.rx[k + 1] = q[(n + k) + 1]
    <3> HIDE DEF n
    <3> QED BY <1>0, <2>1, <2>4
  <2>6. PartOfTick(taken[k + 1], taken[k]) /\ Heard(taken[k + 1].ir)
    BY <2>3, <2>4, <2>5, EdgeDebounced
  <2>7. Filtered(taken[k + 1], r, q, n + (k + 1))
    <3> DEFINE t == taken[k + 1]
               m == n + (k + 1)
    <3>1. ASSUME r.mode.filter, Candidate(r, q, n)
          PROVE  Candidate(t.ir, q, m) /\ t.ir.level = r.level
      <4>1. Candidate(taken[k].ir, q, n + k) /\ taken[k].ir.level = r.level /\ taken[k].ir.mode.filter
        BY <2>2, <2>4, <3>1 DEF Filtered
      <4> HIDE DEF n
      <4>2. Candidate(DebounceEdge(taken[k], q[(n + k) + 1]).ir, q, (n + k) + 1)
            /\ DebounceEdge(taken[k], q[(n + k) + 1]).ir.level = taken[k].ir.level
        BY <2>1, <2>4, <4>1, EdgeFiltered
      <4> QED BY <2>1, <2>3, <2>5, <4>1, <4>2
    <3> HIDE DEF t, m
    <3>2. Filtered(t, r, q, m)
      BY <3>1 DEF Filtered
    <3> QED BY <3>2 DEF t, m
  <2>8. PartOfTick(taken[k + 1], first)
    BY <2>2, <2>6 DEF PartOfTick, SameTx
  <2> QED BY <2>6, <2>7, <2>8
<1>3. N \in S
  <2> HIDE DEF S
  <2> QED BY <1>0, <1>4, <1>1, <1>2, NatIsLeast
<1>5. Good(taken[N], N)
  <2> HIDE DEF Good
  <2>1. N \in Nat /\ N <= N
    BY <1>4
  <2> QED BY <1>3, <2>1
<1> QED BY <1>5

\* The end of a tick.
LEMMA CandidateEnds ==
    ASSUME NEW q, Alternate(q), NEW p \in PairType, Heard(p.ir), p.ir.clock < ClockSpan,
           NEW n \in 0..Len(q), Candidate(p.ir, q, n)
    PROVE  LET d == ResolvePending(p)
           IN  /\ Candidate(d.ir, q, n)
               /\ d.ir.pending.valid => ~Overdue(q, n, p.ir.clock)
               /\ d.ir.level = IF Overdue(q, n, p.ir.clock) THEN LineAfter(q, n) ELSE p.ir.level
<1> DEFINE age == p.ir.clock - p.ir.pending.since
<1>1. /\ p.ir \in IrType /\ p.ir.level \in BOOLEAN /\ p.ir.clock \in Nat
      /\ p.ir.pending.valid \in BOOLEAN /\ p.ir.pending.level \in BOOLEAN /\ p.ir.pending.since \in Nat
      /\ Debounce \in Nat /\ ClockSpan \in Nat /\ ClockSpan > 0
  BY IrAssumption DEF PairType, IrType
<1>2. CASE ~p.ir.pending.valid
  BY <1>2 DEF Candidate, ResolvePending
<1>3. CASE p.ir.pending.valid
  <2>1. n >= 1 /\ p.ir.pending.since = q[n].at /\ p.ir.pending.level = LineAfter(q, n)
        /\ p.ir.level # LineAfter(q, n)
    BY <1>3 DEF Candidate
  <2>2. age \in Nat /\ age < ClockSpan /\ age % ClockSpan = age
    <3>1. age \in Nat /\ age < ClockSpan
      BY <1>1, <1>3 DEF Heard
    <3> HIDE DEF age
    <3> QED BY <1>1, <3>1, SMTT(30)
  <2>3. age >= Debounce <=> Overdue(q, n, p.ir.clock)
    BY <1>1, <2>1 DEF Overdue
  <2>4. CASE age >= Debounce
    <3> DEFINE a == ApplyRxLevel(p, p.ir.pending.level)
    <3>1. ResolvePending(p) = NoPending(a)
      BY <1>3, <2>2, <2>4 DEF ResolvePending
    <3>2. a \in PairType /\ a.ir \in IrType
      BY <1>1, LevelApplied DEF PartOfTick, PairType
    <3>3. a.ir.level = p.ir.pending.level
      BY <1>1, <2>1 DEF ApplyRxLevel, IrType
    <3> HIDE DEF a
    <3>4. NoPending(a).ir.level = a.ir.level /\ ~NoPending(a).ir.pending.valid
      BY <3>2 DEF NoPending, PairType, IrType
    <3> QED BY <2>1, <2>3, <2>4, <3>1, <3>3, <3>4 DEF Candidate
  <2>5. CASE ~(age >= Debounce)
    BY <1>3, <2>2, <2>3, <2>5 DEF ResolvePending
  <2> QED BY <2>4, <2>5
<1> QED BY <1>1, <1>2, <1>3

LEMMA TickFilters ==
    ASSUME NEW q, Alternate(q), NEW r \in IrType, Heard(r), Queued(r, q),
           NEW i \in LinesType, NEW cycles \in Nat, r.clock + cycles < ClockSpan
    PROVE  LET p == IrTick(r, i, cycles)
               n == Len(q) - Len(p.ir.rx)
           IN  /\ Queued(p.ir, q)
               /\ r.mode.filter /\ Candidate(r, q, Len(q) - Len(r.rx)) =>
                      /\ Candidate(p.ir, q, n)
                      /\ p.ir.pending.valid => ~Overdue(q, n, p.ir.clock)
                      /\ p.ir.level = IF Overdue(q, n, p.ir.clock) THEN LineAfter(q, n) ELSE r.level
<1>1. PICK N \in 0..Len(r.rx) : \E first, taken :
          /\ TickSteps(r, i, cycles, N, first, taken)
          /\ \A k \in 1..N : r.rx[k].at <= r.clock + cycles
          /\ N + 1 <= Len(r.rx) => r.rx[N + 1].at > r.clock + cycles
  BY TickIsStepwise
<1>2. PICK first, taken : TickSteps(r, i, cycles, N, first, taken)
  BY <1>1
<1>12. \A k \in 1..N : r.rx[k].at <= r.clock + cycles
  BY <1>1
<1>13. N + 1 <= Len(r.rx) => r.rx[N + 1].at > r.clock + cycles
  BY <1>1
<1> DEFINE p == ResolvePending(taken[N])
           t == taken[N]
           n == (Len(q) - Len(r.rx)) + N
<1>3. IrTick(r, i, cycles) = p /\ first.ir.clock = r.clock + cycles
      /\ first.ir.rx = SubSeq(r.rx, N + 1, Len(r.rx))
  BY <1>2 DEF TickSteps
<1>4. PartOfTick(t, first) /\ Heard(t.ir) /\ Filtered(t, r, q, n)
  BY <1>2, <1>12, EdgesFiltered
<1>5. t \in PairType /\ t.ir.clock = r.clock + cycles /\ t.ir.rx = SubSeq(r.rx, N + 1, Len(r.rx))
  BY <1>3, <1>4 DEF PartOfTick
<1> HIDE DEF t
<1>6. PartOfTick(p, t) /\ p = ResolvePending(t)
  BY <1>4, <1>5, CandidateResolved DEF t
<1> HIDE DEF p
<1>7. p.ir \in IrType /\ p.ir.clock = r.clock + cycles /\ p.ir.rx = SubSeq(r.rx, N + 1, Len(r.rx))
  BY <1>5, <1>6 DEF PartOfTick, PairType
<1>8. r.clock \in Nat /\ r.clock + cycles \in Nat /\ r.clock <= r.clock + cycles
  BY DEF IrType
<1>9. Queued(p.ir, q) /\ Len(q) - Len(p.ir.rx) = n /\ Len(q) - Len(r.rx) \in Nat /\ Len(p.ir.rx) \in Nat
  <2> DEFINE s == p.ir
             clock == r.clock + cycles
  <2>1. s \in IrType /\ s.rx = SubSeq(r.rx, N + 1, Len(r.rx)) /\ s.clock = clock
        /\ clock \in Nat /\ r.clock <= clock
    BY <1>7, <1>8
  <2>2. /\ \A k \in 1..N : r.rx[k].at <= clock
        /\ N + 1 <= Len(r.rx) => r.rx[N + 1].at > clock
    BY <1>12, <1>13
  <2> HIDE DEF s, clock
  <2>3. Queued(s, q) /\ Len(q) - Len(s.rx) = n /\ Len(q) - Len(r.rx) \in Nat /\ Len(s.rx) \in Nat
    BY <2>1, <2>2, QueueMoves
  <2> QED BY <2>3 DEF s
<1>10. n \in 0..Len(q)
  <2>1. Len(q) \in Nat
    BY LineTypes DEF Alternate
  <2> QED BY <1>9, <2>1
<1> HIDE DEF n
<1>11. ASSUME r.mode.filter, Candidate(r, q, Len(q) - Len(r.rx))
       PROVE  /\ Candidate(p.ir, q, n)
              /\ p.ir.pending.valid => ~Overdue(q, n, p.ir.clock)
              /\ p.ir.level = IF Overdue(q, n, p.ir.clock) THEN LineAfter(q, n) ELSE r.level
  <2>1. Candidate(t.ir, q, n) /\ t.ir.level = r.level
    BY <1>4, <1>11 DEF Filtered, n
  <2> QED BY <1>4, <1>5, <1>6, <1>7, <1>10, <2>1, CandidateEnds
<1> QED BY <1>3, <1>9, <1>11

\* The edges that the filter must have accepted by now if it looks at the line once in
\* span cycles or more often, and the edges that it may have accepted.
Definite(q, clock, span) ==
    {i \in 1..Len(q) :
        /\ q[i].at + Debounce + span - 1 <= clock
        /\ i < Len(q) => q[i + 1].at >= q[i].at + Debounce + span}

Possible(q, clock) ==
    {i \in 1..Len(q) :
        /\ q[i].at + Debounce <= clock
        /\ i < Len(q) => q[i + 1].at > q[i].at + Debounce}

\* The level is the one of the last accepted edge.
LevelOf(q, accepted, level) ==
    \/ accepted = {} /\ level = FALSE
    \/ \E i \in accepted : level = q[i].level /\ \A j \in accepted : j <= i

\* What the filter accepted when n edges went through it: all that is definite, and only
\* what is possible.
Receives(r, q, n, span) ==
    \E accepted \in SUBSET Possible(q, r.clock) :
        /\ Definite(q, r.clock, span) \subseteq accepted /\ LevelOf(q, accepted, r.level)
        /\ accepted \subseteq 1..n
        /\ Overdue(q, n, r.clock) => n \in accepted

\* Time passes, and the filter takes its next edges.
LEMMA AcceptanceMoves ==
    ASSUME NEW q, Alternate(q), NEW r \in IrType, NEW s \in IrType, Queued(r, q), Queued(s, q),
           NEW span \in Nat \ {0}, r.clock <= s.clock, s.clock <= r.clock + span,
           Receives(r, q, Len(q) - Len(r.rx), span),
           LET n == Len(q) - Len(s.rx)
           IN  s.level = IF Overdue(q, n, s.clock) THEN LineAfter(q, n) ELSE r.level
    PROVE  Receives(s, q, Len(q) - Len(s.rx), span)
<1> DEFINE n == Len(q) - Len(r.rx)
           m == Len(q) - Len(s.rx)
           c == r.clock
           d == s.clock
           L == Len(q)
           Last == IF Overdue(q, m, d) THEN {m} ELSE {}
<1>1. PICK accepted \in SUBSET Possible(q, c) :
          /\ Definite(q, c, span) \subseteq accepted /\ LevelOf(q, accepted, r.level)
          /\ accepted \subseteq 1..n
          /\ Overdue(q, n, c) => n \in accepted
  BY DEF Receives
<1>2. s.level = IF Overdue(q, m, d) THEN LineAfter(q, m) ELSE r.level
  OBVIOUS
<1>3. /\ n \in Nat /\ L \in Nat /\ c \in Nat /\ n <= L
      /\ \A k \in 1..L : q[k].at \in Nat
      /\ \A k \in 1..L : q[k].at > c <=> k > n
      /\ \A k, j \in 1..L : k < j => q[k].at < q[j].at
  <2>1. Len(r.rx) \in Nat /\ L \in Nat /\ n \in Nat
    BY QueueFacts
  <2>2. n <= L
    BY <2>1
  <2> QED BY <2>1, <2>2, QueueFacts
<1>4. /\ m \in Nat /\ d \in Nat /\ m <= L
      /\ \A k \in 1..L : q[k].at > d <=> k > m
  <2>1. Len(s.rx) \in Nat /\ L \in Nat /\ m \in Nat
    BY QueueFacts
  <2>2. m <= L
    BY <2>1
  <2> QED BY <2>1, <2>2, QueueFacts
<1>5. Debounce \in Nat /\ Debounce > 0 /\ span \in Nat /\ span > 0 /\ c <= d /\ d <= c + span
  BY IrAssumption
<1> HIDE DEF n, m, c, d, L
<1>6. n <= m
  <2>1. CASE n = 0
    BY <1>4, <2>1
  <2>2. CASE n # 0
    <3>1. n \in 1..L /\ ~(n > n)
      BY <1>3, <2>2
    <3>2. ~(q[n].at > c) /\ q[n].at \in Nat
      BY <1>3, <3>1
    <3>3. ~(q[n].at > d)
      BY <1>3, <1>4, <1>5, <3>2
    <3> QED BY <1>3, <1>4, <3>1, <3>3
  <2> QED BY <2>1, <2>2
<1>7. ASSUME NEW i \in accepted \cup Last PROVE i \in Possible(q, d) /\ i \in 1..m
  <2>1. CASE i \in accepted
    <3>1. i \in 1..L /\ q[i].at + Debounce <= c /\ (i < L => q[i + 1].at > q[i].at + Debounce) /\ i \in 1..n
      BY <1>1, <2>1 DEF Possible, L
    <3>2. i \in 1..m /\ q[i].at + Debounce <= d
      BY <1>3, <1>4, <1>5, <1>6, <3>1
    <3> QED BY <3>1, <3>2 DEF Possible, L
  <2>2. CASE i \in Last
    <3>1. i = m /\ m >= 1 /\ q[m].at + Debounce <= d
      BY <2>2 DEF Overdue
    <3>2. m \in 1..L /\ m \in 1..m
      BY <1>3, <1>4, <3>1
    <3>3. ASSUME m < L PROVE q[m + 1].at > q[m].at + Debounce
      <4>1. m + 1 \in 1..L /\ m + 1 > m
        BY <1>3, <1>4, <3>3
      <4>2. q[m + 1].at > d /\ q[m + 1].at \in Nat
        BY <1>3, <1>4, <4>1
      <4> QED BY <1>3, <1>4, <1>5, <3>1, <3>2, <4>2
    <3> QED BY <3>1, <3>2, <3>3 DEF Possible, L
  <2> QED BY <2>1, <2>2
<1>8. ASSUME NEW i \in Definite(q, d, span) PROVE i \in accepted \cup Last
  <2>1. /\ i \in 1..L /\ i \in Nat /\ q[i].at \in Nat
        /\ q[i].at + Debounce + span - 1 <= d
        /\ i < L => q[i + 1].at >= q[i].at + Debounce + span
    BY <1>3 DEF Definite, L
  <2>2. q[i].at + Debounce <= d /\ ~(q[i].at > d)
    BY <1>4, <1>5, <2>1
  <2>3. i <= m
    BY <1>4, <2>1, <2>2
  <2>4. CASE i = m
    <3>1. Overdue(q, m, d)
      BY <1>4, <2>1, <2>2, <2>4 DEF Overdue
    <3> QED BY <2>4, <3>1
  <2>5. CASE i < m
    <3>1. i + 1 \in 1..L /\ i < L /\ ~(i + 1 > m)
      BY <1>3, <1>4, <2>1, <2>5
    <3>2. q[i + 1].at \in Nat /\ ~(q[i + 1].at > d) /\ q[i + 1].at >= q[i].at + Debounce + span
      BY <1>3, <1>4, <2>1, <3>1
    <3>3. q[i].at + Debounce + span <= d /\ q[i].at + Debounce <= c
      BY <1>3, <1>4, <1>5, <2>1, <3>2
    <3>4. ~(q[i].at > c)
      BY <1>3, <1>5, <2>1, <3>3
    <3>5. i <= n
      BY <1>3, <2>1, <3>4
    <3>6. CASE i = n
      <4>1. Overdue(q, n, c)
        BY <2>1, <3>3, <3>6 DEF Overdue
      <4> QED BY <1>1, <3>6, <4>1
    <3>7. CASE i < n
      <4>1. ~(i + 1 > n)
        BY <1>3, <2>1, <3>7
      <4>2. ~(q[i + 1].at > c)
        BY <1>3, <3>1, <4>1
      <4>3. q[i].at + Debounce + span - 1 <= c
        BY <1>3, <1>5, <2>1, <3>2, <4>2
      <4>4. i \in Definite(q, c, span)
        BY <2>1, <4>3 DEF Definite, L
      <4> QED BY <1>1, <4>4
    <3> QED BY <1>3, <2>1, <3>5, <3>6, <3>7
  <2> QED BY <1>4, <2>1, <2>3, <2>4, <2>5
<1>9. LevelOf(q, accepted \cup Last, s.level)
  <2>1. CASE Overdue(q, m, d)
    <3>1. m \in accepted \cup Last /\ s.level = q[m].level
      <4>1. s.level = LineAfter(q, m) /\ m >= 1 /\ m # 0 /\ m \in Last
        BY <1>2, <1>4, <2>1 DEF Overdue
      <4> QED BY <4>1 DEF LineAfter
    <3>2. \A j \in accepted \cup Last : j <= m
      BY <1>4, <1>7
    <3> QED BY <3>1, <3>2 DEF LevelOf
  <2>2. CASE ~Overdue(q, m, d)
    <3>1. accepted \cup Last = accepted /\ s.level = r.level
      BY <1>2, <2>2
    <3> QED BY <1>1, <3>1
  <2> QED BY <2>1, <2>2
<1>10. accepted \cup Last \in SUBSET Possible(q, d)
  BY <1>7
<1> DEFINE all == accepted \cup Last
<1>11. /\ all \in SUBSET Possible(q, d) /\ Definite(q, d, span) \subseteq all
       /\ LevelOf(q, all, s.level) /\ all \subseteq 1..m
       /\ Overdue(q, m, d) => m \in all
  BY <1>7, <1>8, <1>9, <1>10
<1> HIDE DEF all
<1> QED BY <1>11 DEF Receives, m, d

LEMMA Parity ==
    ASSUME NEW n \in Nat
    PROVE  (n % 2 = 0 <=> ~(n % 2 = 1)) /\ ((n + 1) % 2 = 1 <=> n % 2 = 0)
BY SMTT(30)

\* The frontend pushes an edge that is ahead of the clock.
LEMMA EdgePushed ==
    ASSUME NEW q, Alternate(q), NEW r \in IrType, Queued(r, q), NEW e \in EdgeType,
           e.at > r.clock, q # <<>> => e.at > q[Len(q)].at, e.level <=> Len(q) % 2 = 0,
           NEW s \in IrType, s.rx = Append(r.rx, e), s.clock = r.clock, s.level = r.level,
           s.pending = r.pending, NEW span \in Nat \ {0}
    PROVE  LET w == Append(q, e)
               n == Len(q) - Len(r.rx)
           IN  /\ Alternate(w) /\ Queued(s, w) /\ Len(w) - Len(s.rx) = n
               /\ Candidate(r, q, n) => Candidate(s, w, n)
               /\ Receives(r, q, n, span) => Receives(s, w, n, span)
<1> DEFINE w == Append(q, e)
           n == Len(q) - Len(r.rx)
           L == Len(q)
           c == r.clock
<1>1. /\ Len(r.rx) \in Nat /\ L \in Nat /\ n \in Nat /\ L = n + Len(r.rx) /\ c \in Nat
      /\ \A k \in 1..Len(r.rx) : r.rx[k] = q[n + k]
      /\ \A k \in 1..L : q[k].at \in Nat
      /\ \A k \in 1..L : q[k].at > c <=> k > n
      /\ \A k, j \in 1..L : k < j => q[k].at < q[j].at
  BY QueueFacts
<1>2. q \in Seq(EdgeType) /\ r.rx \in Seq(EdgeType)
  BY DEF Alternate, IrType
<1>3. /\ w \in Seq(EdgeType) /\ Len(w) = L + 1
      /\ \A k \in 1..L : w[k] = q[k]
      /\ w[L + 1] = e
  BY <1>2, AppendProperties
<1>4. /\ Len(s.rx) = Len(r.rx) + 1
      /\ \A k \in 1..Len(r.rx) : s.rx[k] = r.rx[k]
      /\ s.rx[Len(r.rx) + 1] = e
  BY <1>2, AppendProperties
<1>5. e.at \in Nat /\ e.level \in BOOLEAN /\ Debounce \in Nat /\ Debounce > 0 /\ span \in Nat /\ span > 0
  BY IrAssumption DEF EdgeType
<1>6. Len(w) - Len(s.rx) = n
  BY <1>1, <1>3, <1>4
<1>7. n <= L /\ L + 1 > n /\ (L # 0 => q # <<>>) /\ n \in 0..L
  BY <1>1
<1>14. L \in Nat
  BY <1>1
<1> HIDE DEF w
<1>8. ASSUME NEW k \in 0..L PROVE LineAfter(w, k) = LineAfter(q, k)
  <2>1. k # 0 => k \in 1..L
    BY <1>1
  <2> QED BY <1>3, <2>1 DEF LineAfter
<1> HIDE DEF n, L, c
<1>9. ASSUME NEW k \in 1..L PROVE q[k].at < e.at
  <2>1. L \in 1..L /\ k \in Nat /\ k <= L /\ L # 0
    BY <1>1
  <2>2. q[L].at < e.at /\ q[L].at \in Nat /\ q[k].at \in Nat
    BY <1>1, <1>7, <2>1 DEF L
  <2>3. k = L \/ q[k].at < q[L].at
    BY <1>1, <2>1
  <2> QED BY <1>5, <2>2, <2>3
<1>10. Alternate(w)
  <2>1. ASSUME NEW k \in 1..L + 1, NEW j \in 1..L + 1, k < j PROVE w[k].at < w[j].at
    <3>1. k \in 1..L
      BY <1>1, <2>1
    <3>2. CASE j \in 1..L
      BY <1>1, <1>3, <2>1, <3>1, <3>2
    <3>3. CASE j \notin 1..L
      <4>1. j = L + 1
        BY <1>1, <3>3
      <4> QED BY <1>3, <1>9, <3>1, <4>1
    <3> QED BY <3>2, <3>3
  <2>2. (LineAfter(q, L) <=> L % 2 = 1) /\ LineAfter(q, L) \in BOOLEAN
    <3>1. LineAfter(q, L) <=> L % 2 = 1
      BY DEF Alternate, L
    <3>2. L \in 0..Len(q)
      BY <1>1 DEF L
    <3> QED BY <1>2, <3>1, <3>2, LineTypes
  <2>3. e.level <=> L % 2 = 0
    BY DEF L
  <2>4. (L % 2 = 0) <=> ~(L % 2 = 1)
    BY <1>14, Parity
  <2>5. e.level # LineAfter(q, L)
    BY <1>5, <2>2, <2>3, <2>4
  <2>6. ASSUME NEW k \in 0..L PROVE w[k + 1].level # LineAfter(w, k)
    <3>1. CASE k = L
      BY <1>3, <1>8, <2>5, <3>1
    <3>2. CASE k # L
      <4>1. k + 1 \in 1..L /\ k \in 0..Len(q) - 1
        BY <1>1, <3>2 DEF L
      <4>2. q[k + 1].level # LineAfter(q, k)
        BY <4>1 DEF Alternate
      <4> QED BY <1>3, <1>8, <4>1, <4>2
    <3> QED BY <3>1, <3>2
  <2>7. LineAfter(w, L + 1) = e.level
    <3>1. L + 1 # 0
      BY <1>14
    <3> QED BY <1>3, <3>1 DEF LineAfter
  <2>8. (L + 1) % 2 = 1 <=> L % 2 = 0
    BY <1>14, Parity
  <2>9. LineAfter(w, L + 1) <=> (L + 1) % 2 = 1
    BY <2>3, <2>7, <2>8
  <2>10. (L + 1) - 1 = L
    BY <1>1
  <2> QED BY <1>3, <2>1, <2>6, <2>9, <2>10 DEF Alternate
<1>11. Queued(s, w)
  <2>1. ASSUME NEW k \in 1..Len(s.rx) PROVE s.rx[k] = w[n + k]
    <3>1. CASE k \in 1..Len(r.rx)
      <4>1. n + k \in 1..L
        BY <1>1, <3>1
      <4> QED BY <1>1, <1>3, <1>4, <3>1, <4>1
    <3>2. CASE k \notin 1..Len(r.rx)
      <4>1. k = Len(r.rx) + 1 /\ n + k = L + 1
        BY <1>1, <1>4, <3>2
      <4> QED BY <1>3, <1>4, <4>1
    <3> QED BY <3>1, <3>2
  <2>2. ASSUME NEW k \in 1..L + 1 PROVE w[k].at > c <=> k > n
    <3>1. CASE k \in 1..L
      BY <1>1, <1>3, <3>1
    <3>2. CASE k \notin 1..L
      <4>1. k = L + 1
        BY <1>14, <3>2
      <4>2. e.at > c
        BY DEF c
      <4> QED BY <1>3, <1>7, <4>1, <4>2
    <3> QED BY <3>1, <3>2
  <2>3. Len(s.rx) <= Len(w)
    BY <1>1, <1>3, <1>4
  <2> QED BY <1>3, <1>6, <2>1, <2>2, <2>3 DEF Queued, c
<1>12. ASSUME Candidate(r, q, n) PROVE Candidate(s, w, n)
  <2>1. n >= 1 => w[n] = q[n]
    BY <1>1, <1>3, <1>7
  <2>2. LineAfter(w, n) = LineAfter(q, n)
    BY <1>7, <1>8
  <2> QED BY <1>12, <2>1, <2>2 DEF Candidate
<1>13. ASSUME Receives(r, q, n, span) PROVE Receives(s, w, n, span)
  <2>1. PICK accepted \in SUBSET Possible(q, c) :
            /\ Definite(q, c, span) \subseteq accepted /\ LevelOf(q, accepted, r.level)
            /\ accepted \subseteq 1..n
            /\ Overdue(q, n, c) => n \in accepted
    BY <1>13 DEF Receives, c
  <2>2. ASSUME NEW i \in accepted PROVE i \in Possible(w, c) /\ w[i] = q[i]
    <3>1. i \in 1..L /\ q[i].at + Debounce <= c /\ (i < L => q[i + 1].at > q[i].at + Debounce)
          /\ i \in 1..L + 1 /\ i \in Nat
      BY <1>1, <2>1 DEF Possible, L
    <3>2. w[i] = q[i] /\ q[i].at \in Nat
      BY <1>1, <1>3, <3>1
    <3>3. ASSUME i < L + 1 PROVE w[i + 1].at > w[i].at + Debounce
      <4>1. CASE i = L
        <5>1. w[i + 1] = e /\ e.at > c
          BY <1>3, <4>1 DEF c
        <5> QED BY <1>1, <1>5, <3>1, <3>2, <5>1
      <4>2. CASE i # L
        <5>1. i < L /\ i + 1 \in 1..L
          BY <1>1, <3>1, <4>2
        <5>2. w[i + 1] = q[i + 1]
          BY <1>3, <5>1
        <5> QED BY <3>1, <3>2, <5>1, <5>2
      <4> QED BY <4>1, <4>2
    <3> QED BY <1>3, <3>1, <3>2, <3>3 DEF Possible
  <2>3. ASSUME NEW i \in Definite(w, c, span) PROVE i \in accepted
    <3>1. i \in 1..L + 1 /\ w[i].at + Debounce + span - 1 <= c
          /\ (i < L + 1 => w[i + 1].at >= w[i].at + Debounce + span)
      BY <1>3 DEF Definite
    <3>2. i # L + 1
      <4>1. e.at > c
        BY DEF c
      <4> QED BY <1>1, <1>3, <1>5, <3>1, <4>1
    <3>3. i \in 1..L /\ w[i] = q[i]
      BY <1>1, <1>3, <3>1, <3>2
    <3>4. ASSUME i < L PROVE q[i + 1].at >= q[i].at + Debounce + span
      <4>1. i + 1 \in 1..L /\ i < L + 1
        BY <1>1, <3>3, <3>4
      <4> QED BY <1>3, <3>1, <3>3, <4>1
    <3>5. i \in Definite(q, c, span)
      BY <3>1, <3>3, <3>4 DEF Definite, L
    <3> QED BY <2>1, <3>5
  <2>4. LevelOf(w, accepted, r.level)
    BY <2>1, <2>2 DEF LevelOf
  <2>5. Overdue(w, n, c) => n \in accepted
    <3>1. n >= 1 => w[n] = q[n]
      BY <1>1, <1>3, <1>7
    <3> QED BY <2>1, <3>1 DEF Overdue
  <2>6. accepted \in SUBSET Possible(w, c)
    BY <2>2
  <2> QED BY <2>1, <2>3, <2>4, <2>5, <2>6 DEF Receives, c
<1> QED BY <1>6, <1>10, <1>11, <1>12, <1>13 DEF w, n

\* A store leaves the receive side as it is.
LEMMA StoreKeepsLine ==
    ASSUME NEW r, Transmits(r)
    PROVE  /\ \A mode \in Mode : SameRx(WriteMode(r, mode), [r EXCEPT !.mode = mode])
           /\ \A led \in BOOLEAN : SameRx(WriteData(r, led), [r EXCEPT !.data = led])
<1>2. ASSUME NEW mode \in Mode PROVE SameRx(WriteMode(r, mode), [r EXCEPT !.mode = mode])
  <2> DEFINE w == [r EXCEPT !.mode = mode]
             sent == ~EmitActive(w) /\ w.led
  <2>1. w \in IrType /\ TxRange(w) /\ w.clock <= MaxClock
    BY DEF Transmits, IrType, TxRange, Ordered
  <2>2. WriteMode(r, mode) = IF sent THEN EnqueueTxEdge(w, FALSE) ELSE w
    BY DEF WriteMode
  <2> HIDE DEF w
  <2>3. CASE sent
    BY <2>1, <2>2, <2>3, EdgeSent DEF w
  <2>4. CASE ~sent
    BY <2>2, <2>4 DEF w, SameRx
  <2> QED BY <2>3, <2>4
<1>3. ASSUME NEW led \in BOOLEAN PROVE SameRx(WriteData(r, led), [r EXCEPT !.data = led])
  <2> DEFINE w == [r EXCEPT !.data = led]
             sent == EmitActive(w) /\ led # w.led
  <2>1. w \in IrType /\ TxRange(w) /\ w.clock <= MaxClock
    BY DEF Transmits, IrType, TxRange, Ordered
  <2>2. WriteData(r, led) = IF sent THEN EnqueueTxEdge(w, led) ELSE w
    BY DEF WriteData
  <2> HIDE DEF w
  <2>3. CASE sent
    BY <2>1, <2>2, <2>3, EdgeSent DEF w
  <2>4. CASE ~sent
    BY <2>2, <2>4 DEF w, SameRx
  <2> QED BY <2>3, <2>4
<1> QED BY <1>2, <1>3

\* The receive side, in a behaviour whose ticks have span cycles or less.
FilterInv(span) ==
    /\ Alternate(rxd) /\ Queued(ir, rxd)
    /\ ~plain => /\ ir.mode.filter
                 /\ Candidate(ir, rxd, Len(rxd) - Len(ir.rx))
                 /\ Receives(ir, rxd, Len(rxd) - Len(ir.rx), span)

LEMMA FilterStart ==
    ASSUME NEW span \in Nat \ {0}
    PROVE  IrInit => FilterInv(span)
<1> SUFFICES ASSUME IrInit PROVE FilterInv(span)
  OBVIOUS
<1>1. rxd = <<>> /\ ir.rx = <<>> /\ Len(rxd) = 0 /\ Len(ir.rx) = 0 /\ ir.level = FALSE
      /\ ir.pending.valid = FALSE /\ ir.mode.filter = TRUE
  BY DEF IrInit, IrReset, ModeReset
<1>2. Alternate(rxd)
  <2>1. rxd \in Seq(EdgeType) /\ 1..Len(rxd) = {} /\ 0..Len(rxd) - 1 = {}
    BY <1>1
  <2>2. ~LineAfter(rxd, Len(rxd)) /\ Len(rxd) % 2 # 1
    BY <1>1 DEF LineAfter
  <2> QED BY <2>1, <2>2 DEF Alternate
<1>3. Queued(ir, rxd)
  BY <1>1 DEF Queued
<1>4. Candidate(ir, rxd, 0)
  BY <1>1 DEF Candidate, LineAfter
<1>5. Receives(ir, rxd, 0, span)
  <2>1. Definite(rxd, ir.clock, span) = {} /\ {} \in SUBSET Possible(rxd, ir.clock)
    BY <1>1 DEF Definite
  <2>2. LevelOf(rxd, {}, ir.level) /\ ~Overdue(rxd, 0, ir.clock)
    BY <1>1 DEF LevelOf, Overdue
  <2> QED BY <2>1, <2>2 DEF Receives
<1>6. Len(rxd) - Len(ir.rx) = 0
  BY <1>1
<1> QED BY <1>1, <1>2, <1>3, <1>4, <1>5, <1>6 DEF FilterInv

\* A step that moves no clock and takes no edge.
LEMMA LineStays ==
    ASSUME NEW span \in Nat \ {0}, FilterInv(span), rxd' = rxd, ir'.rx = ir.rx, ir'.clock = ir.clock,
           ir'.level = ir.level, ir'.pending = ir.pending,
           ~plain' => ~plain /\ (ir.mode.filter => ir'.mode.filter)
    PROVE  FilterInv(span)'
<1>1. Alternate(rxd)' /\ Queued(ir, rxd)'
  BY DEF FilterInv, Alternate, Queued, LineAfter
<1>2. ASSUME ~plain'
      PROVE  ir'.mode.filter /\ Candidate(ir', rxd', Len(rxd') - Len(ir'.rx))
             /\ Receives(ir', rxd', Len(rxd') - Len(ir'.rx), span)
  BY <1>2 DEF FilterInv, Candidate, Receives
<1> QED BY <1>1, <1>2 DEF FilterInv

LEMMA FilterStep ==
    ASSUME NEW span \in Nat \ {0}, Steps \subseteq 0..span, 0 \notin Leads, MaxClock < ClockSpan,
           IrInv, FilterInv(span), [IrNext]_irVars, rxd' # rxd => Len(ir.rx) < IrCapacity
    PROVE  FilterInv(span)'
<1>1. Transmits(ir) /\ Heard(ir) /\ ir \in IrType /\ intc \in LinesType /\ plain \in BOOLEAN
  BY DEF IrInv, Transmits
<1>2. CASE StoreMode
  <2>1. PICK mode \in Modes : ir' = WriteMode(ir, mode) /\ plain' = (plain \/ ~mode.filter) /\ rxd' = rxd
    BY <1>2 DEF StoreMode
  <2>2. mode \in Mode
    BY IrBounds
  <2>3. SameRx(ir', [ir EXCEPT !.mode = mode])
    BY <1>1, <2>1, <2>2, StoreKeepsLine
  <2>4. ir'.rx = ir.rx /\ ir'.clock = ir.clock /\ ir'.level = ir.level /\ ir'.pending = ir.pending
        /\ ir'.mode = mode
    BY <1>1, <2>3 DEF SameRx, IrType
  <2>5. mode.filter \in BOOLEAN
    BY <2>2 DEF Mode
  <2>6. ~plain' => ~plain /\ (ir.mode.filter => ir'.mode.filter)
    BY <2>1, <2>4, <2>5
  <2> QED BY <2>1, <2>4, <2>6, LineStays
<1>3. CASE StoreData
  <2>1. PICK led \in BOOLEAN : ir' = WriteData(ir, led) /\ UNCHANGED <<rxd, plain>>
    BY <1>3 DEF StoreData
  <2>2. SameRx(ir', [ir EXCEPT !.data = led])
    BY <1>1, <2>1, StoreKeepsLine
  <2>3. ir'.rx = ir.rx /\ ir'.clock = ir.clock /\ ir'.level = ir.level /\ ir'.pending = ir.pending
        /\ ir'.mode = ir.mode
    BY <1>1, <2>2 DEF SameRx, IrType
  <2> QED BY <2>1, <2>3, LineStays
<1>4. CASE Acknowledge
  BY <1>4, LineStays DEF Acknowledge
<1>5. CASE PopTxEdge
  <2>1. ir' = [ir EXCEPT !.tx = Tail(@)] /\ UNCHANGED <<rxd, plain>>
    BY <1>5 DEF PopTxEdge
  <2>2. ir'.rx = ir.rx /\ ir'.clock = ir.clock /\ ir'.level = ir.level /\ ir'.pending = ir.pending
        /\ ir'.mode = ir.mode
    BY <1>1, <2>1 DEF IrType
  <2> QED BY <2>1, <2>2, LineStays
<1>6. CASE PushEdge
  <2> DEFINE n == Len(rxd) - Len(ir.rx)
             Pushed(e) == /\ rxd # <<>> => e.at > rxd[Len(rxd)].at
                          /\ ir' = PushRxEdge(ir, e) /\ rxd' = Append(rxd, e)
  <2>1. PICK lead \in Leads : Pushed(Edge(ir.clock + lead, Len(rxd) % 2 = 0))
    BY <1>6 DEF PushEdge
  <2> DEFINE e == Edge(ir.clock + lead, Len(rxd) % 2 = 0)
  <2>2. lead \in Nat /\ lead > 0
    BY IrBounds
  <2>3. e \in EdgeType /\ e.at > ir.clock /\ (e.level <=> Len(rxd) % 2 = 0)
    <3> DEFINE even == Len(rxd) % 2 = 0
    <3>1. e.at = ir.clock + lead /\ e.level = even /\ even \in BOOLEAN
      BY DEF Edge
    <3>2. e \in EdgeType
      BY <1>1, <2>2 DEF Edge, EdgeType, IrType
    <3>3. e.at > ir.clock
      BY <1>1, <2>2, <3>1 DEF IrType
    <3> HIDE DEF e, even
    <3>4. e.level <=> even
      BY <3>1
    <3> QED BY <3>2, <3>3, <3>4 DEF even
  <2> HIDE DEF e
  <2>4. Pushed(e)
    BY <2>1 DEF e
  <2>5. plain' = plain
    BY <1>6 DEF PushEdge
  <2>6. Alternate(rxd) /\ Queued(ir, rxd) /\ rxd \in Seq(EdgeType)
    BY DEF FilterInv, Alternate
  <2>7. rxd' # rxd
    <3>1. Len(Append(rxd, e)) = Len(rxd) + 1 /\ Len(rxd) \in Nat
      BY <2>3, <2>6, AppendProperties
    <3>2. Len(Append(rxd, e)) # Len(rxd)
      BY <3>1
    <3> QED BY <2>4, <3>2
  <2>8. ir' = [ir EXCEPT !.rx = Append(@, e)]
    BY <2>4, <2>7 DEF PushRxEdge, QueuePush
  <2>9. ir.rx \in Seq(EdgeType) /\ Append(ir.rx, e) \in Seq(EdgeType)
    BY <1>1, <2>3, AppendProperties DEF IrType
  <2>10. /\ ir' \in IrType /\ ir'.rx = Append(ir.rx, e) /\ ir'.clock = ir.clock
         /\ ir'.level = ir.level /\ ir'.pending = ir.pending /\ ir'.mode = ir.mode
    BY <1>1, <2>8, <2>9 DEF IrType
  <2> DEFINE w == Append(rxd, e)
             s == ir'
  <2>11. /\ Alternate(w) /\ Queued(s, w) /\ Len(w) - Len(s.rx) = n
         /\ Candidate(ir, rxd, n) => Candidate(s, w, n)
         /\ Receives(ir, rxd, n, span) => Receives(s, w, n, span)
    BY <1>1, <2>3, <2>4, <2>6, <2>10, EdgePushed
  <2>12. rxd' = w
    BY <2>4
  <2> QED BY <2>5, <2>10, <2>11, <2>12 DEF FilterInv
<1>7. CASE TickIr
  <2> DEFINE p(cycles) == IrTick(ir, intc, cycles)
  <2>1. PICK cycles \in Steps : ir.clock + cycles <= MaxClock /\ ir' = p(cycles).ir /\ UNCHANGED <<rxd, plain>>
    BY <1>7 DEF TickIr
  <2>2. cycles \in Nat /\ cycles <= span
    BY IrBounds
  <2>3. p(cycles) \in PairType /\ SameTx(p(cycles).ir, ir) /\ p(cycles).ir.clock = ir.clock + cycles
    BY <1>1, <2>2, TickKeeps
  <2>4. ir.clock \in Nat /\ MaxClock \in Nat /\ ClockSpan \in Nat /\ ir.clock + cycles < ClockSpan
    <3>1. ir.clock \in Nat /\ MaxClock \in Nat /\ ClockSpan \in Nat
      BY <1>1, IrAssumption, IrBounds DEF IrType
    <3> QED BY <2>1, <2>2, <3>1
  <2> DEFINE n == Len(rxd) - Len(ir.rx)
             m == Len(rxd) - Len(p(cycles).ir.rx)
  <2>5. Alternate(rxd) /\ Queued(ir, rxd)
    BY DEF FilterInv
  <2>6. /\ Queued(p(cycles).ir, rxd)
        /\ ir.mode.filter /\ Candidate(ir, rxd, n) =>
               /\ Candidate(p(cycles).ir, rxd, m)
               /\ p(cycles).ir.level = IF Overdue(rxd, m, p(cycles).ir.clock) THEN LineAfter(rxd, m) ELSE ir.level
    BY <1>1, <2>2, <2>4, <2>5, TickFilters
  <2> HIDE DEF p
  <2>7. ir' \in IrType /\ ir'.mode = ir.mode /\ ir'.clock = ir.clock + cycles /\ rxd' = rxd /\ plain' = plain
        /\ Queued(ir', rxd)
    BY <2>1, <2>3, <2>6 DEF PairType, SameTx
  <2> DEFINE s == ir'
             k == Len(rxd) - Len(s.rx)
  <2>8. ASSUME ~plain
        PROVE  ir'.mode.filter /\ Candidate(ir', rxd, k) /\ Receives(ir', rxd, k, span)
    <3>1. ir.mode.filter /\ Candidate(ir, rxd, n) /\ Receives(ir, rxd, n, span)
      BY <2>8 DEF FilterInv
    <3>2. Candidate(s, rxd, k)
          /\ s.level = IF Overdue(rxd, k, s.clock) THEN LineAfter(rxd, k) ELSE ir.level
      BY <2>1, <2>6, <3>1
    <3>3. ir.clock <= s.clock /\ s.clock <= ir.clock + span
      BY <2>2, <2>4, <2>7
    <3>4. s \in IrType /\ Queued(s, rxd)
      BY <2>7
    <3> HIDE DEF s
    <3>5. Receives(s, rxd, k, span)
      BY <1>1, <2>5, <3>1, <3>2, <3>3, <3>4, AcceptanceMoves
    <3> QED BY <2>7, <3>1, <3>2, <3>5 DEF s
  <2> QED BY <2>5, <2>7, <2>8 DEF FilterInv
<1>8. CASE UNCHANGED irVars
  BY <1>8, LineStays DEF irVars
<1> QED BY <1>2, <1>3, <1>4, <1>5, <1>6, <1>7, <1>8 DEF IrNext

\* What the filter lets through when it looks at the line once in span cycles: the edges
\* that no opposite edge followed in the debounce time, and perhaps those whose time of
\* rest is less than span cycles above it.
FilterIsWithin(span) ==
    ~plain => \E accepted \in SUBSET Possible(rxd, ir.clock) :
        Definite(rxd, ir.clock, span) \subseteq accepted /\ LevelOf(rxd, accepted, ir.level)

\* The filter of ir_tick, for every debounce time, every number of cycles of an
\* instruction and every number of edges of a peer, as long as no edge meets a full queue
\* (ir.c).
THEOREM FilterIsAlwaysWithin ==
    ASSUME NEW span \in Nat \ {0}, Steps \subseteq 0..span, 0 \notin Leads, MaxClock < ClockSpan
    PROVE  IrSpec /\ [][rxd' # rxd => Len(ir.rx) < IrCapacity]_irVars => []FilterIsWithin(span)
<1> DEFINE Fits == rxd' # rxd => Len(ir.rx) < IrCapacity
           I == FilterInv(span)
           W == FilterIsWithin(span)
<1>1. IrInit => I
  BY FilterStart
<1>2. IrInv /\ I /\ [IrNext]_irVars /\ [Fits]_irVars => I'
  <2> SUFFICES ASSUME IrInv, I, [IrNext]_irVars, [Fits]_irVars PROVE I'
    OBVIOUS
  <2>1. rxd' # rxd => Len(ir.rx) < IrCapacity
    BY DEF irVars
  <2> QED BY <2>1, FilterStep
<1>3. I => W
  BY DEF FilterInv, Receives, FilterIsWithin
<1> HIDE DEF I, W
<1>4. IrSpec /\ [][Fits]_irVars => []I
  BY <1>1, <1>2, IrAlways, PTL DEF IrSpec
<1>5. IrSpec /\ [][Fits]_irVars => []W
  BY <1>3, <1>4, PTL
<1> QED BY <1>5 DEF W

\* When the filter looks at the line in each cycle, it lets through the last edge that no
\* opposite edge followed in the debounce time, and nothing else (ir.c).
THEOREM FilterIsAlwaysExact ==
    ASSUME Steps \subseteq 0..1, 0 \notin Leads, MaxRx <= IrCapacity, MaxClock < ClockSpan
    PROVE  IrSpec => []FilterIsExact
<1> DEFINE I == FilterInv(1)
<1>1. IrInit => I
  BY FilterStart
<1>2. IrInv /\ I /\ [IrNext]_irVars => I'
  <2> SUFFICES ASSUME IrInv, I, [IrNext]_irVars PROVE I'
    OBVIOUS
  <2>1. ASSUME rxd' # rxd PROVE Len(ir.rx) < IrCapacity
    <3>1. PushEdge
      BY <2>1 DEF IrNext, StoreMode, StoreData, Acknowledge, PopTxEdge, TickIr, irVars
    <3>2. Len(rxd) < MaxRx
      BY <3>1 DEF PushEdge
    <3>3. Alternate(rxd) /\ Queued(ir, rxd) /\ ir \in IrType
      BY DEF FilterInv, IrInv, Transmits
    <3>4. Len(ir.rx) <= Len(rxd) /\ Len(ir.rx) \in Nat /\ Len(rxd) \in Nat
      BY <3>3, QueueFacts DEF Queued
    <3>5. MaxRx \in Nat /\ IrCapacity \in Nat
      BY IrAssumption, IrBounds
    <3> QED BY <3>2, <3>4, <3>5
  <2> QED BY <2>1, FilterStep
<1>3. IrInv /\ I => FilterIsExact
  <2> SUFFICES ASSUME IrInv, I, ~plain
               PROVE  ir.level = IF Steady = {} THEN FALSE
                                 ELSE rxd[CHOOSE i \in Steady : \A j \in Steady : j <= i].level
    BY DEF FilterIsExact
  <2>1. Alternate(rxd) /\ rxd \in Seq(EdgeType) /\ ir.clock \in Nat /\ Debounce \in Nat
    BY IrAssumption DEF FilterInv, Alternate, IrInv, Transmits, IrType
  <2>2. Len(rxd) \in Nat /\ DOMAIN rxd = 1..Len(rxd) /\ \A i \in 1..Len(rxd) : rxd[i].at \in Nat
    BY <2>1, LineTypes
  <2>3. Steady = Possible(rxd, ir.clock)
    BY <2>2 DEF Steady, Possible
  <2>4. Steady \subseteq Definite(rxd, ir.clock, 1)
    <3> SUFFICES ASSUME NEW i \in Steady PROVE i \in Definite(rxd, ir.clock, 1)
      OBVIOUS
    <3>1. i \in 1..Len(rxd) /\ rxd[i].at + Debounce <= ir.clock /\ rxd[i].at \in Nat
          /\ (i < Len(rxd) => rxd[i + 1].at > rxd[i].at + Debounce)
      BY <2>2 DEF Steady
    <3>2. i < Len(rxd) => i + 1 \in 1..Len(rxd)
      BY <2>2, <3>1
    <3>3. i < Len(rxd) => rxd[i + 1].at >= rxd[i].at + Debounce + 1
      BY <2>1, <2>2, <3>1, <3>2
    <3>4. rxd[i].at + Debounce + 1 - 1 <= ir.clock
      BY <2>1, <3>1
    <3> QED BY <3>1, <3>3, <3>4 DEF Definite
  <2>5. PICK accepted \in SUBSET Possible(rxd, ir.clock) :
            Definite(rxd, ir.clock, 1) \subseteq accepted /\ LevelOf(rxd, accepted, ir.level)
    BY DEF FilterInv, Receives
  <2>6. accepted = Steady
    BY <2>3, <2>4, <2>5
  <2>7. LevelOf(rxd, Steady, ir.level) /\ Steady \subseteq Nat
    BY <2>2, <2>5, <2>6 DEF Steady
  <2> HIDE DEF Steady
  <2>8. CASE Steady = {}
    BY <2>7, <2>8 DEF LevelOf
  <2>9. CASE Steady # {}
    <3>1. PICK k \in Steady : ir.level = rxd[k].level /\ \A j \in Steady : j <= k
      BY <2>7, <2>9 DEF LevelOf
    <3> DEFINE last == CHOOSE i \in Steady : \A j \in Steady : j <= i
    <3>2. last \in Steady /\ \A j \in Steady : j <= last
      BY <3>1
    <3> HIDE DEF last
    <3>3. last = k
      BY <2>7, <3>1, <3>2
    <3> QED BY <2>9, <3>1, <3>3 DEF last
  <2> QED BY <2>8, <2>9
<1> HIDE DEF I
<1> QED BY <1>1, <1>2, <1>3, IrAlways, PTL DEF IrSpec

-----------------------------------------------------------------------------
(* The flash.  Each store of the software is one of six: a key, data at rest, *)
(* the first of a program, the next of a program, a header word, and a store  *)
(* through the window.  The lemmas say what each changes.                     *)

LEMMA FlashConstants ==
    /\ FrameSize \in Nat \ {0} /\ FrameSize % 2 = 0 /\ FrameSize >= 2
    /\ FrameSize \div 2 \in Nat /\ FrameSize = 2 * (FrameSize \div 2)
    /\ BankSize \in Nat \ {0} /\ Banks \in Nat \ {0} /\ CardSize \in Nat \ {0}
    /\ Offset = 0..CardSize - 1 /\ Offset \subseteq Nat
    /\ KeyOne \in Nat /\ KeyTwo \in Nat /\ KeyOne % 2 = 0 /\ KeyTwo % 2 = 0
<1>1. /\ FrameSize \in Nat \ {0} /\ FrameSize % 2 = 0
      /\ BankSize \in Nat \ {0} /\ Banks \in Nat \ {0}
      /\ KeyOne \in Offset /\ KeyTwo \in Offset /\ KeyOne % 2 = 0 /\ KeyTwo % 2 = 0
  BY FlashBounds DEF FlashAssumption, KeyBytes
<1>2. Banks * BankSize \in Nat \ {0}
  BY <1>1
<1>3. CardSize \in Nat \ {0} /\ Offset = 0..CardSize - 1 /\ Offset \subseteq Nat
  BY <1>2 DEF CardSize, Offset
<1>4. FrameSize >= 2 /\ FrameSize \div 2 \in Nat /\ FrameSize = 2 * (FrameSize \div 2)
  BY <1>1
<1> QED BY <1>1, <1>3, <1>4

\* A product is even if a factor is.
LEMMA EvenProduct ==
    ASSUME NEW a \in Int, NEW b \in Int, b % 2 = 0
    PROVE  (a * b) % 2 = 0
<1> DEFINE h == b \div 2
<1>1. h \in Int /\ b = 2 * h
  OBVIOUS
<1> HIDE DEF h
<1>2. a * h \in Int /\ a * b = 2 * (a * h)
  BY <1>1
<1> DEFINE p == a * h
<1> HIDE DEF p
<1>3. p \in Int /\ a * b = 2 * p
  BY <1>2 DEF p
<1> QED BY <1>3

\* The two bytes of a halfword are in one block, whatever even size a block has.
LEMMA HalfwordInBlock ==
    ASSUME NEW a \in Nat, NEW m \in Nat, m > 0, a % 2 = 0, m % 2 = 0
    PROVE  /\ a % m \in 0..m - 1 /\ (a % m) % 2 = 0
           /\ (a + 1) % m = (a % m) + 1 /\ (a + 1) \div m = a \div m
           /\ a \div m \in Int /\ a = m * (a \div m) + (a % m)
<1> DEFINE k == a \div m
           r == a % m
<1>1. k \in Int /\ r \in 0..m - 1 /\ a = m * k + r
  BY Remainder
<1> HIDE DEF k, r
<1> DEFINE p == m * k
<1>2. (k * m) % 2 = 0
  <2>1. m \in Int /\ m % 2 = 0 /\ k \in Int
    BY <1>1
  <2> QED BY <2>1, EvenProduct
<1>7. k * m = p /\ p \in Int
  BY <1>1
<1>3. p \in Int /\ p % 2 = 0 /\ a = p + r
  <2>1. p % 2 = 0
    BY ONLY <1>2, <1>7
  <2> QED BY <1>1, <1>7, <2>1
<1> HIDE DEF p
<1>4. r % 2 = 0 /\ r + 1 < m /\ r + 1 \in Int
  BY <1>1, <1>3
<1> DEFINE s == r + 1
<1>8. s \in Int /\ 0 <= s /\ s < m /\ s = r + 1
  BY <1>1, <1>4
<1> HIDE DEF s
<1>9. (m * k + s) % m = s /\ (m * k + s) \div m = k
  BY <1>1, <1>8, RemainderIsUnique
<1>5. m * k + s = a + 1
  BY <1>3, <1>1, <1>8 DEF p
<1>6. (a + 1) % m = r + 1 /\ (a + 1) \div m = k
  BY <1>5, <1>8, <1>9
<1> QED BY <1>1, <1>4, <1>6 DEF k, r

\* Frames are blocks of the card.
LEMMA FrameIsBytes ==
    ASSUME NEW a \in Nat, NEW frame \in Nat, frame % FrameSize = 0
    PROVE  /\ FrameOf(a) = frame <=> a \in FrameBytes(frame)
           /\ FrameOf(frame) = frame /\ frame % 2 = 0
           /\ FrameOf(a) \in Nat /\ FrameOf(a) <= a
<1> DEFINE r == a % FrameSize
           k == a \div FrameSize
           j == frame \div FrameSize
<1>1. k \in Int /\ r \in 0..FrameSize - 1 /\ a = FrameSize * k + r
  BY Remainder, FlashConstants
<1>2. j \in Int /\ frame = FrameSize * j
  <2>1. j \in Int /\ frame = FrameSize * j + (frame % FrameSize)
    BY Remainder, FlashConstants
  <2>2. FrameSize * j \in Int
    BY <2>1, FlashConstants
  <2> QED BY <2>1, <2>2
<1>3. FrameOf(a) = a - r
  BY DEF FrameOf
<1>4. ASSUME a \in FrameBytes(frame) PROVE r = a - frame
  <2> DEFINE s == a - frame
  <2>1. s \in 0..FrameSize - 1 /\ a = frame + s
    BY <1>4, FlashConstants DEF FrameBytes
  <2> HIDE DEF s
  <2>4. FrameSize \in Nat /\ FrameSize > 0 /\ j \in Int /\ s \in Int /\ 0 <= s /\ s < FrameSize
    BY <1>2, <2>1, FlashConstants
  <2>2. (FrameSize * j + s) % FrameSize = s
    BY <2>4, RemainderIsUnique
  <2>3. r = s
    BY <1>2, <2>1, <2>2
  <2> QED BY <2>1, <2>3
<1>5. (j * FrameSize) % 2 = 0 /\ j * FrameSize = frame
  BY <1>2, EvenProduct, FlashConstants
<1>6. a - r >= 0
  <2>1. k >= 0
    BY <1>1, FlashConstants
  <2>2. FrameSize * k >= 0
    BY <1>1, <2>1, FlashConstants
  <2> DEFINE p == FrameSize * k
  <2>3. p \in Int /\ p >= 0 /\ a = p + r
    BY <1>1, <2>2, FlashConstants
  <2> HIDE DEF p
  <2> QED BY <1>1, <2>3
<1> HIDE DEF r, k, j
<1>7. FrameOf(frame) = frame
  BY DEF FrameOf
<1>8. FrameOf(a) = frame <=> a \in FrameBytes(frame)
  BY <1>1, <1>3, <1>4, FlashConstants DEF FrameBytes
<1> QED BY <1>1, <1>3, <1>5, <1>6, <1>7, <1>8

\* A halfword is in a frame as a whole, and it is a key as a whole.
LEMMA HalfwordInFrame ==
    ASSUME NEW a \in Nat, a % 2 = 0, NEW frame \in Nat, frame % FrameSize = 0
    PROVE  a \in FrameBytes(frame) <=> a + 1 \in FrameBytes(frame)
<1>1. frame % 2 = 0
  BY FrameIsBytes
<1> QED BY <1>1, FlashConstants DEF FrameBytes

LEMMA HalfwordIsKey ==
    ASSUME NEW a \in Nat, a % 2 = 0
    PROVE  /\ a \in KeyBytes <=> a \in {KeyOne, KeyTwo}
           /\ a + 1 \in KeyBytes <=> a \in {KeyOne, KeyTwo}
<1>1. a # KeyOne + 1 /\ a # KeyTwo + 1 /\ a + 1 # KeyOne /\ a + 1 # KeyTwo
  BY FlashConstants
<1>2. (a + 1 = KeyOne + 1 <=> a = KeyOne) /\ (a + 1 = KeyTwo + 1 <=> a = KeyTwo)
  BY FlashConstants
<1> QED BY <1>1, <1>2 DEF KeyBytes

\* The array with another byte, and with another halfword of two equal bytes.
With(data, a, v) == [data EXCEPT ![a] = v]
Both(data, a, v) == With(With(data, a, v), a + 1, v)

LEMMA WithType ==
    ASSUME NEW S, NEW data \in [S -> Byte], NEW a \in S, NEW v \in Byte
    PROVE  With(data, a, v) \in [S -> Byte]
BY DEF With

LEMMA BothType ==
    ASSUME NEW S, NEW data \in [S -> Byte], NEW a \in S, a + 1 \in S, NEW v \in Byte
    PROVE  Both(data, a, v) \in [S -> Byte]
BY DEF Both, With

\* flash_write8 by cases.
Rest(f)             == [f EXCEPT !.left = 0]
InFrame(f, a, v)    == [f EXCEPT !.data[a] = v, !.left = @ - 1]
Redirected(f, a, v) == [f EXCEPT !.extra[a] = v]

LEMMA Write8Cases ==
    ASSUME NEW f, NEW a, NEW v
    PROVE  /\ InProgram(f, a) => Write8(f, a, v) = InFrame(f, a, v)
           /\ ~InProgram(f, a) /\ a \in KeyBytes => Write8(f, a, v) = Command(Rest(f), a)
           /\ ~InProgram(f, a) /\ a \notin KeyBytes /\ Redirects(Rest(f), a) =>
                  Write8(f, a, v) = Redirected(Rest(f), a, v)
           /\ ~InProgram(f, a) /\ a \notin KeyBytes /\ ~Redirects(Rest(f), a) =>
                  Write8(f, a, v) = Data8(Rest(f), a, v)
<1>1. CASE InProgram(f, a)
  BY <1>1 DEF Write8, InFrame
<1>2. CASE ~InProgram(f, a) /\ a \in KeyBytes
  <2>1. ~Redirects(Rest(f), a)
    BY <1>2, FlashBounds DEF FlashAssumption, Redirects
  <2> QED BY <1>2, <2>1 DEF Write8, Rest
<1>3. CASE ~InProgram(f, a) /\ a \notin KeyBytes /\ Redirects(Rest(f), a)
  BY <1>3 DEF Write8, Rest, Redirected
<1>4. CASE ~InProgram(f, a) /\ a \notin KeyBytes /\ ~Redirects(Rest(f), a)
  BY <1>4 DEF Write8, Rest
<1> QED BY <1>1, <1>2, <1>3, <1>4

\* The flash with other contents and another state of the commands.
Moved(f, data, extra, unlock, frame, left) ==
    [f EXCEPT !.data = data, !.extra = extra, !.unlock = unlock, !.frame = frame, !.left = left]

LEMMA MovedFields ==
    ASSUME NEW f \in FlashState, NEW data \in [Offset -> Byte], NEW extra \in [Header -> Byte],
           NEW unlock \in 0..3, NEW frame \in Offset, NEW left \in 0..FrameSize - 1
    PROVE  LET g == Moved(f, data, extra, unlock, frame, left)
           IN  /\ g \in FlashState
               /\ g.data = data /\ g.extra = extra /\ g.unlock = unlock /\ g.frame = frame
               /\ g.left = left /\ g.serial = f.serial /\ g.mask = f.mask /\ g.map = f.map
BY DEF FlashState, Moved

LEMMA MovedAgain ==
    ASSUME NEW f \in FlashState, NEW d1, NEW e1, NEW u1, NEW f1, NEW l1, NEW d2, NEW e2, NEW u2, NEW f2, NEW l2
    PROVE  Moved(Moved(f, d1, e1, u1, f1, l1), d2, e2, u2, f2, l2) = Moved(f, d2, e2, u2, f2, l2)
BY DEF FlashState, Moved

LEMMA FlashFields ==
    ASSUME NEW f \in FlashState
    PROVE  /\ f.data \in [Offset -> Byte] /\ f.extra \in [Header -> Byte] /\ f.unlock \in 0..3
           /\ f.frame \in Offset /\ f.left \in 0..FrameSize - 1 /\ f.serial \in BOOLEAN
           /\ f.mask \in SUBSET Bank /\ f.map \in [Bank -> Bank]
           /\ f = Moved(f, f.data, f.extra, f.unlock, f.frame, f.left)
           /\ f.left = 0 => Rest(f) = f
BY DEF FlashState, Moved, Rest

\* The bytes that flash_write8 writes in each case.
LEMMA PlainByte ==
    ASSUME NEW f \in FlashState, f.left = 0, f.unlock # 3,
           NEW a \in Offset, a \notin KeyBytes, NEW v \in Byte
    PROVE  Write8(f, a, v) = Moved(f, With(f.data, a, v), f.extra, 0, f.frame, 0)
<1>1. Rest(f) = f
  BY FlashFields
<1>2. ~InProgram(f, a) /\ ~Redirects(f, a)
  BY DEF InProgram, Redirects
<1>3. Write8(f, a, v) = Data8(f, a, v)
  BY <1>1, <1>2, Write8Cases
<1>4. Data8(f, a, v) = Moved(f, With(f.data, a, v), f.extra, 0, f.frame, 0)
  BY DEF Data8, FlashState, Moved, With
<1> QED BY <1>3, <1>4

LEMMA ArmedByte ==
    ASSUME NEW f \in FlashState, f.left = 0, f.unlock = 3, ~f.serial,
           NEW a \in Offset, a \notin KeyBytes, NEW v \in Byte
    PROVE  Write8(f, a, v) = Moved(f, With(f.data, a, v), f.extra, 0, FrameOf(a), FrameSize - 1)
<1>1. Rest(f) = f
  BY FlashFields
<1>2. ~InProgram(f, a) /\ ~Redirects(f, a)
  BY DEF InProgram, Redirects
<1>3. Write8(f, a, v) = Data8(f, a, v)
  BY <1>1, <1>2, Write8Cases
<1>4. Data8(f, a, v) = Moved(f, With(f.data, a, v), f.extra, 0, FrameOf(a), FrameSize - 1)
  BY DEF Data8, FlashState, Moved, With
<1> QED BY <1>3, <1>4

LEMMA ProgramByte ==
    ASSUME NEW f \in FlashState, f.left > 0, NEW a \in Offset, FrameOf(a) = f.frame, NEW v \in Byte
    PROVE  Write8(f, a, v) = Moved(f, With(f.data, a, v), f.extra, f.unlock, f.frame, f.left - 1)
<1>1. InProgram(f, a)
  BY DEF InProgram
<1>2. Write8(f, a, v) = InFrame(f, a, v)
  BY <1>1, Write8Cases
<1>3. InFrame(f, a, v) = Moved(f, With(f.data, a, v), f.extra, f.unlock, f.frame, f.left - 1)
  BY DEF FlashState, Moved, InFrame, With
<1> QED BY <1>2, <1>3

LEMMA HeaderByte ==
    ASSUME NEW f \in FlashState, f.left = 0, f.unlock = 3, f.serial, NEW a \in Header, NEW v \in Byte
    PROVE  Write8(f, a, v) = Moved(f, f.data, With(f.extra, a, v), 3, f.frame, 0)
<1>1. Rest(f) = f
  BY FlashFields
<1>2. ~InProgram(f, a) /\ Redirects(f, a) /\ a \notin KeyBytes
  BY FlashBounds DEF InProgram, Redirects, FlashAssumption
<1>3. Write8(f, a, v) = Redirected(f, a, v)
  BY <1>1, <1>2, Write8Cases
<1>4. Redirected(f, a, v) = Moved(f, f.data, With(f.extra, a, v), 3, f.frame, 0)
  BY DEF FlashState, Moved, Redirected, With
<1> QED BY <1>3, <1>4

KeyStep(unlock, key) ==
    CASE unlock = 0 /\ key = KeyTwo -> 1
      [] unlock = 1 /\ key = KeyOne -> 2
      [] unlock = 2 /\ key = KeyTwo -> 3
      [] OTHER -> 0

LEMMA KeyStore ==
    ASSUME NEW f \in FlashState, f.left = 0, NEW key \in {KeyOne, KeyTwo}, NEW v \in Byte
    PROVE  /\ WriteHalf(f, key, v) = Moved(f, f.data, f.extra, KeyStep(f.unlock, key), f.frame, 0)
           /\ KeyStep(f.unlock, key) \in 0..3
<1> DEFINE next == KeyStep(f.unlock, key)
           g == Moved(f, f.data, f.extra, next, f.frame, 0)
<1>1. /\ key \in KeyBytes /\ key + 1 \in KeyBytes /\ key \notin {KeyOne + 1, KeyTwo + 1}
      /\ key + 1 \in {KeyOne + 1, KeyTwo + 1}
  BY FlashConstants DEF KeyBytes
<1>2. next \in 0..3
  BY DEF KeyStep
<1>3. Write8(f, key, v) = g
  <2>1. Rest(f) = f /\ ~InProgram(f, key)
    BY FlashFields DEF InProgram
  <2>2. Write8(f, key, v) = Command(f, key)
    BY <1>1, <2>1, Write8Cases
  <2>3. Command(f, key) = g
    BY <1>1 DEF Command, KeyStep, FlashState, Moved
  <2> QED BY <2>2, <2>3
<1> HIDE DEF next
<1>4. g \in FlashState /\ g.left = 0
  <2>1. f.data \in [Offset -> Byte] /\ f.extra \in [Header -> Byte] /\ f.frame \in Offset /\ 0 \in 0..FrameSize - 1
    BY FlashFields
  <2> QED BY <1>2, <2>1, MovedFields
<1> HIDE DEF g
<1>5. Write8(g, key + 1, v) = g
  <2>1. Rest(g) = g /\ ~InProgram(g, key + 1)
    BY <1>4, FlashFields DEF InProgram
  <2>2. Write8(g, key + 1, v) = Command(g, key + 1)
    BY <1>1, <2>1, Write8Cases
  <2> QED BY <1>1, <2>2 DEF Command
<1> QED BY <1>2, <1>3, <1>5 DEF WriteHalf, g, next

\* The halfword stores of the routines.
LEMMA PlainStore ==
    ASSUME NEW f \in FlashState, f.left = 0, f.unlock # 3, NEW v \in Byte,
           NEW a \in Offset, a + 1 \in Offset, a \notin KeyBytes, a + 1 \notin KeyBytes
    PROVE  WriteHalf(f, a, v) = Moved(f, Both(f.data, a, v), f.extra, 0, f.frame, 0)
<1> DEFINE d == With(f.data, a, v)
           g == Moved(f, d, f.extra, 0, f.frame, 0)
<1>1. Write8(f, a, v) = g
  BY PlainByte
<1>2. /\ d \in [Offset -> Byte] /\ f.extra \in [Header -> Byte] /\ 0 \in 0..3 /\ f.frame \in Offset
      /\ 0 \in 0..FrameSize - 1
  <2>1. d \in [Offset -> Byte]
    BY FlashFields, WithType
  <2> QED BY <2>1, FlashFields
<1>3. With(d, a + 1, v) = Both(f.data, a, v)
  BY DEF Both
<1> HIDE DEF d
<1>4. g \in FlashState /\ g.data = d /\ g.extra = f.extra /\ g.unlock = 0 /\ g.frame = f.frame /\ g.left = 0
  BY <1>2, MovedFields
<1>5. \A e : Moved(g, e, f.extra, 0, f.frame, 0) = Moved(f, e, f.extra, 0, f.frame, 0)
  BY MovedAgain
<1> HIDE DEF g
<1>6. Write8(g, a + 1, v) = Moved(g, With(d, a + 1, v), f.extra, 0, f.frame, 0)
  <2>1. g.unlock # 3
    BY <1>4
  <2>2. Write8(g, a + 1, v) = Moved(g, With(g.data, a + 1, v), g.extra, 0, g.frame, 0)
    BY <1>4, <2>1, PlainByte
  <2> QED BY <1>4, <2>2
<1> QED BY <1>1, <1>3, <1>5, <1>6 DEF WriteHalf

LEMMA ProgramStore ==
    ASSUME NEW f \in FlashState, f.left > 1, NEW v \in Byte,
           NEW a \in Offset, a + 1 \in Offset, FrameOf(a) = f.frame, FrameOf(a + 1) = f.frame
    PROVE  WriteHalf(f, a, v) = Moved(f, Both(f.data, a, v), f.extra, f.unlock, f.frame, f.left - 2)
<1> DEFINE d == With(f.data, a, v)
           l == f.left - 1
           g == Moved(f, d, f.extra, f.unlock, f.frame, l)
<1>0. FrameSize \in Nat /\ f.left \in 0..FrameSize - 1
  BY FlashConstants, FlashFields
<1>1. Write8(f, a, v) = g
  BY <1>0, ProgramByte
<1>2. /\ d \in [Offset -> Byte] /\ f.extra \in [Header -> Byte] /\ f.unlock \in 0..3 /\ f.frame \in Offset
      /\ l \in 0..FrameSize - 1 /\ l > 0 /\ l - 1 = f.left - 2
  <2>1. d \in [Offset -> Byte]
    BY FlashFields, WithType
  <2>2. l \in 0..FrameSize - 1 /\ l > 0 /\ l - 1 = f.left - 2
    BY <1>0
  <2> QED BY <2>1, <2>2, FlashFields
<1>3. With(d, a + 1, v) = Both(f.data, a, v)
  BY DEF Both
<1> HIDE DEF d, l
<1>7. g \in FlashState
  BY <1>2, MovedFields
<1>4. /\ g \in FlashState /\ g.data = d /\ g.extra = f.extra /\ g.unlock = f.unlock /\ g.frame = f.frame
      /\ g.left = l
  BY <1>7 DEF FlashState, Moved
<1>5. \A e, n : Moved(g, e, f.extra, f.unlock, f.frame, n) = Moved(f, e, f.extra, f.unlock, f.frame, n)
  BY MovedAgain
<1> HIDE DEF g
<1>6. Write8(g, a + 1, v) = Moved(g, With(d, a + 1, v), f.extra, f.unlock, f.frame, l - 1)
  <2>1. g.left > 0 /\ FrameOf(a + 1) = g.frame
    BY <1>2, <1>4
  <2>2. Write8(g, a + 1, v) = Moved(g, With(g.data, a + 1, v), g.extra, g.unlock, g.frame, g.left - 1)
    BY <1>4, <2>1, ProgramByte
  <2> QED BY <1>4, <2>2
<1> QED BY <1>1, <1>2, <1>3, <1>5, <1>6 DEF WriteHalf

\* The first store of data after the unlock sequence starts the program of its frame.
LEMMA FirstStore ==
    ASSUME NEW f \in FlashState, f.left = 0, f.unlock = 3, ~f.serial, NEW v \in Byte,
           NEW a \in Offset, a + 1 \in Offset, a \notin KeyBytes, FrameOf(a) = a, FrameOf(a + 1) = a
    PROVE  WriteHalf(f, a, v) = Moved(f, Both(f.data, a, v), f.extra, 0, a, FrameSize - 2)
<1> DEFINE d == With(f.data, a, v)
           l == FrameSize - 1
           g == Moved(f, d, f.extra, 0, a, l)
<1>0. FrameSize \in Nat /\ FrameSize >= 2
  BY FlashConstants
<1>1. Write8(f, a, v) = g
  BY ArmedByte
<1>2. /\ d \in [Offset -> Byte] /\ f.extra \in [Header -> Byte] /\ 0 \in 0..3
      /\ l \in 0..FrameSize - 1 /\ l > 0 /\ l - 1 = FrameSize - 2
  <2>1. d \in [Offset -> Byte]
    BY FlashFields, WithType
  <2>2. l \in 0..FrameSize - 1 /\ l > 0 /\ l - 1 = FrameSize - 2
    BY <1>0
  <2> QED BY <2>1, <2>2, FlashFields
<1>3. With(d, a + 1, v) = Both(f.data, a, v)
  BY DEF Both
<1> HIDE DEF d, l
<1>4. /\ g \in FlashState /\ g.data = d /\ g.extra = f.extra /\ g.unlock = 0 /\ g.frame = a
      /\ g.left = l
  BY <1>2, MovedFields
<1>5. \A e, n : Moved(g, e, f.extra, 0, a, n) = Moved(f, e, f.extra, 0, a, n)
  BY MovedAgain
<1> HIDE DEF g
<1>6. Write8(g, a + 1, v) = Moved(g, With(d, a + 1, v), f.extra, 0, a, l - 1)
  <2>1. g.left > 0 /\ FrameOf(a + 1) = g.frame
    BY <1>2, <1>4
  <2>2. Write8(g, a + 1, v) = Moved(g, With(g.data, a + 1, v), g.extra, g.unlock, g.frame, g.left - 1)
    BY <1>4, <2>1, ProgramByte
  <2> QED BY <1>4, <2>2
<1> QED BY <1>1, <1>2, <1>3, <1>5, <1>6 DEF WriteHalf

\* A header word of an armed flash goes to F_SN and F_CAL, and the flash stays armed.
LEMMA HeaderStore ==
    ASSUME NEW f \in FlashState, f.left = 0, f.unlock = 3, f.serial, NEW v \in Byte,
           NEW a \in Header, a + 1 \in Header
    PROVE  WriteHalf(f, a, v) = Moved(f, f.data, Both(f.extra, a, v), 3, f.frame, 0)
<1> DEFINE e == With(f.extra, a, v)
           g == Moved(f, f.data, e, 3, f.frame, 0)
<1>1. Write8(f, a, v) = g
  BY HeaderByte
<1>2. /\ e \in [Header -> Byte] /\ f.data \in [Offset -> Byte] /\ 3 \in 0..3 /\ f.frame \in Offset
      /\ 0 \in 0..FrameSize - 1
  BY FlashFields, WithType
<1>3. With(e, a + 1, v) = Both(f.extra, a, v)
  BY DEF Both
<1> HIDE DEF e
<1>4. /\ g \in FlashState /\ g.data = f.data /\ g.extra = e /\ g.unlock = 3 /\ g.frame = f.frame
      /\ g.left = 0 /\ g.serial = f.serial
  <2>1. g \in FlashState
    BY <1>2, MovedFields
  <2> QED BY <2>1 DEF FlashState, Moved
<1>5. \A x : Moved(g, f.data, x, 3, f.frame, 0) = Moved(f, f.data, x, 3, f.frame, 0)
  BY MovedAgain
<1> HIDE DEF g
<1>6. Write8(g, a + 1, v) = Moved(g, f.data, With(e, a + 1, v), 3, f.frame, 0)
  <2>1. Write8(g, a + 1, v) = Moved(g, g.data, With(g.extra, a + 1, v), 3, g.frame, 0)
    BY <1>4, HeaderByte
  <2> QED BY <1>4, <2>1
<1> QED BY <1>1, <1>3, <1>5, <1>6 DEF WriteHalf

\* The window finds a byte of the card for each address of an app.
LEMMA WindowIsCard ==
    ASSUME NEW f \in FlashState, NEW a \in Nat, a % 2 = 0
    PROVE  /\ Physical(f, a) \in Offset /\ Physical(f, a) % 2 = 0
           /\ Physical(f, a + 1) = Physical(f, a) + 1 /\ Physical(f, a) + 1 \in Offset
<1> DEFINE s == (a \div BankSize) % Banks
           r == a % BankSize
           R == Resolve(f, s)
           x == R * BankSize + r
<1>1. BankSize \in Nat /\ BankSize > 0 /\ BankSize % 2 = 0 /\ Banks \in Nat /\ Banks > 0
  <2>1. BankSize \in Nat \ {0} /\ Banks \in Nat \ {0} /\ BankSize % FrameSize = 0
    BY FlashConstants, FlashBounds DEF FlashAssumption
  <2> QED BY <2>1, FrameIsBytes
<1>2. /\ r \in 0..BankSize - 1 /\ r % 2 = 0 /\ (a + 1) % BankSize = r + 1
      /\ (a + 1) \div BankSize = a \div BankSize /\ a \div BankSize \in Int
  BY <1>1, HalfwordInBlock
<1>3. s \in 0..Banks - 1
  BY <1>1, <1>2, Remainder
<1>4. R \in Nat
  <2> DEFINE mapped == {b \in f.mask : f.map[b] = s}
  <2>0. f.mask \subseteq Nat /\ mapped \subseteq f.mask
    BY <1>1, FlashFields DEF Bank
  <2>1. ASSUME NEW T \in SUBSET Nat, T # {} PROVE Min(T) \in T
    BY <2>1, LeastNumber DEF Min
  <2>2. CASE mapped # {}
    <3>1. R = Min(mapped)
      BY <2>2 DEF Resolve
    <3> HIDE DEF mapped, R
    <3> QED BY <2>0, <2>1, <2>2, <3>1
  <2>3. CASE mapped = {}
    <3>1. R = Lowest(f.mask) + s
      BY <2>3 DEF Resolve
    <3>2. Lowest(f.mask) \in Nat
      BY <2>0, <2>1 DEF Lowest
    <3> HIDE DEF R, s
    <3> QED BY <1>1, <1>3, <3>1, <3>2
  <2> QED BY <2>2, <2>3
<1>5. Physical(f, a) = x % CardSize /\ Physical(f, a + 1) = (R * BankSize + (r + 1)) % CardSize
  BY <1>2 DEF Physical
<1> HIDE DEF s, r, R
<1>6. x \in Nat /\ x % 2 = 0 /\ R * BankSize + (r + 1) = x + 1
  <2>3. R \in Int /\ BankSize \in Int
    BY <1>1, <1>4
  <2>4. R * BankSize \in Nat
    BY <1>1, <1>4
  <2>1. (R * BankSize) % 2 = 0 /\ R * BankSize \in Nat
    BY <1>1, <2>3, <2>4, EvenProduct
  <2> DEFINE p == R * BankSize
  <2> HIDE DEF p
  <2>2. p \in Nat /\ p % 2 = 0
    BY <2>1 DEF p
  <2>5. (p + r) \in Nat /\ (p + r) % 2 = 0 /\ p + (r + 1) = (p + r) + 1
    BY <1>1, <1>2, <2>2
  <2> QED BY <2>5 DEF p
<1> HIDE DEF x
<1>7. CardSize \in Nat /\ CardSize > 0 /\ CardSize % 2 = 0
  <2>2. Banks \in Int /\ BankSize \in Int
    BY <1>1
  <2>1. (Banks * BankSize) % 2 = 0
    BY <1>1, <2>2, EvenProduct
  <2> QED BY <2>1, FlashConstants DEF CardSize
<1>8. /\ x % CardSize \in 0..CardSize - 1 /\ (x % CardSize) % 2 = 0
      /\ (x + 1) % CardSize = (x % CardSize) + 1
  BY <1>6, <1>7, HalfwordInBlock
<1>9. (x + 1) % CardSize \in 0..CardSize - 1
  BY <1>6, <1>7, Remainder
<1> QED BY <1>5, <1>6, <1>8, <1>9, FlashConstants

LEMMA WindowStore ==
    ASSUME NEW f \in FlashState, NEW a \in Nat, a % 2 = 0, NEW v \in Byte
    PROVE  LET p == Physical(f, a)
           IN  WriteWindowHalf(f, a, v) =
                   IF p \in KeyBytes THEN f
                   ELSE Moved(f, Both(f.data, p, v), f.extra, f.unlock, f.frame, f.left)
<1> DEFINE p == Physical(f, a)
           d == With(f.data, p, v)
           g == Moved(f, d, f.extra, f.unlock, f.frame, f.left)
<1>1. p \in Offset /\ p % 2 = 0 /\ Physical(f, a + 1) = p + 1 /\ p + 1 \in Offset /\ p \in Nat
  BY WindowIsCard, FlashConstants
<1> HIDE DEF p
<1>2. p \in KeyBytes <=> p + 1 \in KeyBytes
  BY <1>1, HalfwordIsKey
<1>3. CASE p \in KeyBytes
  <2>1. WriteWindow8(f, a, v) = f
    BY <1>3 DEF WriteWindow8, p
  <2>2. WriteWindow8(f, a + 1, v) = f
    BY <1>1, <1>2, <1>3 DEF WriteWindow8
  <2> QED BY <1>3, <2>1, <2>2 DEF WriteWindowHalf, p
<1>4. CASE p \notin KeyBytes
  <2>1. WriteWindow8(f, a, v) = g
    <3>1. WriteWindow8(f, a, v) = [f EXCEPT !.data[p] = v]
      BY <1>4 DEF WriteWindow8, p
    <3>2. [f EXCEPT !.data[p] = v] = g
      BY DEF FlashState, Moved, With
    <3> QED BY <3>1, <3>2
  <2>2. /\ d \in [Offset -> Byte] /\ f.extra \in [Header -> Byte] /\ f.unlock \in 0..3
        /\ f.frame \in Offset /\ f.left \in 0..FrameSize - 1
    BY <1>1, FlashFields, WithType
  <2>3. With(d, p + 1, v) = Both(f.data, p, v)
    BY DEF Both
  <2> HIDE DEF d
  <2>4. /\ g \in FlashState /\ g.data = d /\ g.extra = f.extra /\ g.unlock = f.unlock
        /\ g.frame = f.frame /\ g.left = f.left /\ g.mask = f.mask /\ g.map = f.map
    <3>1. g \in FlashState
      BY <2>2, MovedFields
    <3> QED BY <3>1 DEF FlashState, Moved
  <2>5. \A e : Moved(g, e, f.extra, f.unlock, f.frame, f.left) = Moved(f, e, f.extra, f.unlock, f.frame, f.left)
    BY MovedAgain
  <2> HIDE DEF g
  <2>6. Physical(g, a + 1) = p + 1
    <3>1. Physical(g, a + 1) = Physical(f, a + 1)
      BY <2>4 DEF Physical, Resolve
    <3> QED BY <1>1, <3>1
  <2>7. WriteWindow8(g, a + 1, v) = [g EXCEPT !.data[p + 1] = v]
    BY <1>2, <1>4, <2>6 DEF WriteWindow8
  <2>8. [g EXCEPT !.data[p + 1] = v] = Moved(g, With(d, p + 1, v), f.extra, f.unlock, f.frame, f.left)
    BY <2>4 DEF FlashState, Moved, With
  <2>9. WriteWindowHalf(f, a, v) = Moved(f, Both(f.data, p, v), f.extra, f.unlock, f.frame, f.left)
    BY <2>1, <2>3, <2>5, <2>7, <2>8 DEF WriteWindowHalf
  <2> QED BY <1>4, <2>9 DEF p
<1> QED BY <1>3, <1>4

\* The routines.
LEMMA RoutineStores ==
    ASSUME NEW j, j.frame \in Nat
    PROVE  /\ StoresOf(j)[1] = KeyTwo /\ StoresOf(j)[2] = KeyOne /\ StoresOf(j)[3] = KeyTwo
           /\ Len(StoresOf(j)) = 3 + IF j.kind = "program" THEN FrameSize \div 2 ELSE Len(HeaderWords)
           /\ j.kind = "program" =>
                  \A i \in 0..(FrameSize \div 2) - 1 : StoresOf(j)[i + 4] = j.frame + 2 * i
           /\ j.kind # "program" => \A i \in 1..Len(HeaderWords) : StoresOf(j)[i + 3] = HeaderWords[i]
<1> DEFINE keys == <<KeyTwo, KeyOne, KeyTwo>>
           words == [i \in 1..FrameSize \div 2 |-> j.frame + 2 * (i - 1)]
           n == FrameSize \div 2
<1>1. keys \in Seq(Nat) /\ Len(keys) = 3 /\ keys[1] = KeyTwo /\ keys[2] = KeyOne /\ keys[3] = KeyTwo
  BY FlashConstants
<1>2. n \in Nat
  BY FlashConstants
<1> HIDE DEF n, keys
<1>3. words \in Seq(Nat) /\ Len(words) = n
  <2>1. words \in [1..n -> Nat]
    BY <1>2 DEF n
  <2> HIDE DEF words
  <2>2. words \in Seq(Nat)
    BY <1>2, <2>1, SeqDef
  <2>3. DOMAIN words = 1..n
    BY <2>1
  <2> QED BY <1>2, <2>2, <2>3, LenProperties
<1>4. \A i \in 1..n : words[i] = j.frame + 2 * (i - 1)
  BY DEF n
<1> HIDE DEF words
<1>5. HeaderWords \in Seq(Nat)
  <2>1. Header \subseteq Nat
    BY FlashConstants, FlashBounds DEF FlashAssumption
  <2>2. HeaderWords \in Seq(Header)
    BY FlashBounds
  <2> QED BY <2>1, <2>2, SeqMonotonic
<1>6. CASE j.kind = "program"
  <2>1. StoresOf(j) = keys \o words
    BY <1>6 DEF StoresOf, keys, words
  <2>2. /\ Len(keys \o words) = 3 + n
        /\ \A i \in 1..3 + n : (keys \o words)[i] = IF i <= 3 THEN keys[i] ELSE words[i - 3]
    <3>1. /\ Len(keys \o words) = Len(keys) + Len(words)
          /\ \A i \in 1..Len(keys) + Len(words) :
                 (keys \o words)[i] = IF i <= Len(keys) THEN keys[i] ELSE words[i - Len(keys)]
      BY <1>1, <1>3, ConcatProperties
    <3> QED BY ONLY <1>1, <1>3, <3>1
  <2>3. ASSUME NEW i \in 0..n - 1 PROVE (keys \o words)[i + 4] = j.frame + 2 * i
    <3>1. i + 4 \in 1..3 + n /\ ~(i + 4 <= 3) /\ (i + 4) - 3 = i + 1 /\ i + 1 \in 1..n /\ (i + 1) - 1 = i
      BY <1>2
    <3>2. (keys \o words)[i + 4] = words[i + 1]
      BY <2>2, <3>1
    <3>3. words[i + 1] = j.frame + 2 * ((i + 1) - 1)
      BY <1>4, <3>1
    <3> QED BY <3>1, <3>2, <3>3
  <2>4. (keys \o words)[1] = keys[1] /\ (keys \o words)[2] = keys[2] /\ (keys \o words)[3] = keys[3]
    <3>1. 1 \in 1..3 + n /\ 2 \in 1..3 + n /\ 3 \in 1..3 + n
      BY <1>2
    <3> QED BY <2>2, <3>1
  <2> QED BY <1>1, <1>6, <2>1, <2>2, <2>3, <2>4 DEF n
<1>7. CASE j.kind # "program"
  <2>1. StoresOf(j) = keys \o HeaderWords
    BY <1>7 DEF StoresOf, keys
  <2> DEFINE m == Len(HeaderWords)
  <2>0. m \in Nat
    BY <1>5
  <2>2. /\ Len(keys \o HeaderWords) = 3 + m
        /\ \A i \in 1..3 + m : (keys \o HeaderWords)[i] = IF i <= 3 THEN keys[i] ELSE HeaderWords[i - 3]
    <3>1. /\ Len(keys \o HeaderWords) = Len(keys) + Len(HeaderWords)
          /\ \A i \in 1..Len(keys) + Len(HeaderWords) :
                 (keys \o HeaderWords)[i] = IF i <= Len(keys) THEN keys[i] ELSE HeaderWords[i - Len(keys)]
      BY <1>1, <1>5, ConcatProperties
    <3> QED BY ONLY <1>1, <3>1
  <2>3. ASSUME NEW i \in 1..m PROVE (keys \o HeaderWords)[i + 3] = HeaderWords[i]
    <3>1. i + 3 \in 1..3 + m /\ ~(i + 3 <= 3) /\ (i + 3) - 3 = i
      BY <2>0
    <3> QED BY <2>2, <3>1
  <2>4. /\ (keys \o HeaderWords)[1] = keys[1] /\ (keys \o HeaderWords)[2] = keys[2]
        /\ (keys \o HeaderWords)[3] = keys[3]
    <3>1. 1 \in 1..3 + m /\ 2 \in 1..3 + m /\ 3 \in 1..3 + m
      BY <2>0
    <3> QED BY <2>2, <3>1
  <2> QED BY <1>1, <1>7, <2>1, <2>2, <2>3, <2>4
<1> QED BY <1>6, <1>7

LEMMA KeysApart ==
    /\ KeyOne # KeyTwo
    /\ \A frame \in Nat : frame % FrameSize = 0 =>
           /\ ~(KeyOne \in FrameBytes(frame) /\ KeyTwo \in FrameBytes(frame))
           /\ frame \notin KeyBytes
<1>1. /\ FrameOf(KeyOne) # FrameOf(KeyTwo) /\ KeyOne \in Nat /\ KeyTwo \in Nat
      /\ KeyOne % FrameSize > 0 /\ KeyTwo % FrameSize > 0
  BY FlashConstants, FlashBounds DEF FlashAssumption
<1>2. ASSUME NEW frame \in Nat, frame % FrameSize = 0
      PROVE  ~(KeyOne \in FrameBytes(frame) /\ KeyTwo \in FrameBytes(frame))
  <2>1. /\ FrameOf(KeyOne) = frame <=> KeyOne \in FrameBytes(frame)
        /\ FrameOf(KeyTwo) = frame <=> KeyTwo \in FrameBytes(frame)
    BY <1>1, <1>2, FrameIsBytes
  <2> QED BY <1>1, <2>1
<1>3. ASSUME NEW frame \in Nat, frame % FrameSize = 0 PROVE frame \notin KeyBytes
  <2>1. frame # KeyOne /\ frame # KeyTwo
    BY <1>1, <1>3
  <2>2. frame % 2 = 0
    BY <1>3, FrameIsBytes
  <2> QED BY <2>1, <2>2, HalfwordIsKey
<1> QED BY <1>1, <1>2, <1>3

LEMMA ProgramAddress ==
    ASSUME NEW frame \in Offset, frame % FrameSize = 0, NEW k \in 0..(FrameSize \div 2) - 1
    PROVE  LET a == frame + 2 * k
           IN  /\ a \in Offset /\ a + 1 \in Offset /\ a \in Nat /\ a % 2 = 0
               /\ a \in FrameBytes(frame) /\ a + 1 \in FrameBytes(frame)
               /\ FrameOf(a) = frame /\ FrameOf(a + 1) = frame
               /\ FrameBytes(frame) \subseteq Offset
<1> DEFINE a == frame + 2 * k
           q == BankSize \div FrameSize
           j == frame \div FrameSize
<1>1. /\ frame \in Nat /\ frame % 2 = 0 /\ k \in Nat /\ FrameSize \in Nat /\ FrameSize > 0
      /\ 2 * k + 2 <= FrameSize
  <2>1. FrameSize \in Nat /\ FrameSize > 0 /\ FrameSize = 2 * (FrameSize \div 2) /\ FrameSize \div 2 \in Nat
    BY FlashConstants
  <2>2. frame \in Nat /\ frame % 2 = 0
    <3>1. frame \in Nat
      BY FlashConstants
    <3> QED BY <3>1, FrameIsBytes
  <2>3. k \in Nat /\ 2 * k + 2 <= FrameSize
    BY <2>1
  <2> QED BY <2>1, <2>2, <2>3
<1>2. a \in FrameBytes(frame) /\ a + 1 \in FrameBytes(frame) /\ a \in Nat /\ a + 1 \in Nat /\ a % 2 = 0
  BY <1>1 DEF FrameBytes
<1>3. frame + FrameSize <= CardSize
  <2>1. q \in Int /\ BankSize = FrameSize * q
    <3>1. BankSize % FrameSize = 0 /\ BankSize \in Nat
      BY FlashConstants, FlashBounds DEF FlashAssumption
    <3>2. q \in Int /\ BankSize = FrameSize * q + (BankSize % FrameSize)
      BY <1>1, <3>1, Remainder
    <3>3. FrameSize * q \in Int
      BY <1>1, <3>2
    <3> QED BY <3>1, <3>2, <3>3
  <2>2. j \in Int /\ frame = FrameSize * j
    <3>1. j \in Int /\ frame = FrameSize * j + (frame % FrameSize)
      BY <1>1, Remainder
    <3>2. FrameSize * j \in Int
      BY <1>1, <3>1
    <3> QED BY <3>1, <3>2
  <2> HIDE DEF q, j
  <2> DEFINE c == Banks * q
             d == c - j - 1
  <2>3. c \in Int /\ CardSize = FrameSize * c
    BY <1>1, <2>1, FlashConstants DEF CardSize
  <2> HIDE DEF c
  <2>4. j < c
    <3>1. frame < CardSize /\ CardSize \in Int
      BY FlashConstants
    <3>2. CASE j >= c
      <4>1. FrameSize * j >= FrameSize * c
        BY <1>1, <2>2, <2>3, <3>2
      <4> QED BY <1>1, <2>2, <2>3, <3>1, <4>1
    <3> QED BY <2>2, <2>3, <3>2
  <2>5. d \in Nat /\ c = j + 1 + d
    BY <2>2, <2>3, <2>4
  <2> HIDE DEF d
  <2>6. FrameSize * d >= 0 /\ FrameSize * d \in Int
    BY <1>1, <2>5
  <2>7. FrameSize * c = FrameSize * j + FrameSize + FrameSize * d
    BY <1>1, <2>2, <2>5
  <2> DEFINE w == FrameSize * d
  <2> HIDE DEF w
  <2>8. w \in Int /\ w >= 0 /\ CardSize = frame + FrameSize + w
    BY <2>2, <2>3, <2>6, <2>7 DEF w
  <2> QED BY <1>1, <2>8
<1>4. FrameBytes(frame) \subseteq Offset
  BY <1>1, <1>3, FlashConstants DEF FrameBytes
<1> HIDE DEF a
<1>5. FrameOf(a) = frame /\ FrameOf(a + 1) = frame
  BY <1>1, <1>2, FrameIsBytes
<1> QED BY <1>2, <1>4, <1>5 DEF a

-----------------------------------------------------------------------------
(* The routines keep the flash in the state that their next store needs.      *)

JobType == [kind : Jobs, frame : Offset, value : Byte, step : Nat, found : 0..3]

\* The stores of data of the routine, after the three keys.
Stored(j) == j.step - 4

\* The step of the unlock sequence that a routine is at: one that found the flash at
\* rest is where it should be, and no other one arms the flash.
UnlockInv ==
    /\ flash.left = 0
    /\ IF job.found = 0 THEN flash.unlock = job.step - 1
       ELSE /\ job.step = 1 => flash.unlock = job.found
            /\ job.step = 2 => flash.unlock \in {0, 3}
            /\ job.step = 3 => flash.unlock = 0

ProgramInv ==
    /\ Stored(job) \in 0..FrameSize \div 2
    /\ IF job.found = 0
       THEN IF Stored(job) = 0 THEN flash.left = 0 /\ flash.unlock = 3
            ELSE flash.left = FrameSize - 2 * Stored(job) /\ flash.frame = job.frame
       ELSE /\ flash.left = 0 /\ flash.unlock \in {0, 1}
            /\ flash.unlock = 1 /\ Stored(job) > 0 => KeyTwo \in FrameBytes(job.frame)
    /\ job.found = 0 \/ ~HoldsKey(job.frame) =>
           \A a \in job.frame..job.frame + 2 * Stored(job) - 1 : flash.data[a] = job.value

HeaderInv ==
    /\ flash.left = 0
    /\ Stored(job) \in 0..Len(HeaderWords)
    /\ IF job.found = 0
       THEN /\ flash.unlock = 3
            /\ \A i \in 1..Stored(job) : flash.extra[HeaderWords[i]] = job.value
                                         /\ flash.extra[HeaderWords[i] + 1] = job.value
       ELSE flash.unlock \in {0, 1}

FlashInv ==
    /\ flash \in FlashState
    /\ Idle => job = NoJob /\ flash.left = 0
    /\ ~Idle =>
          /\ job \in JobType /\ job.step > 0 /\ job.frame % FrameSize = 0
          /\ flash.serial <=> job.kind = "header"
          /\ job.step < 4 => UnlockInv
          /\ job.step >= 4 /\ job.kind = "program" => ProgramInv
          /\ job.step >= 4 /\ job.kind = "header" => HeaderInv

LEMMA FlashStart == FlashInit => FlashInv
<1> SUFFICES ASSUME FlashInit PROVE FlashInv
  OBVIOUS
<1>1. 0 \in Offset /\ 0 \in Bank /\ 0 \in 0..FrameSize - 1
  BY FlashConstants DEF Bank
<1>2. FlashPowerOn \in FlashState /\ FlashPowerOn.left = 0
  BY <1>1 DEF FlashPowerOn, FlashState, Byte
<1> QED BY <1>2 DEF FlashInit, FlashInv, Idle, NoJob

\* What holds while a routine runs, by parts.
LEMMA Running ==
    ASSUME FlashInv, ~Idle
    PROVE  /\ flash \in FlashState /\ job \in JobType /\ job.step \in Nat /\ job.step > 0
           /\ job.frame \in Offset /\ job.frame \in Nat /\ job.frame % FrameSize = 0
           /\ job.value \in Byte /\ job.found \in 0..3 /\ job.kind \in {"program", "header"}
           /\ flash.serial \in BOOLEAN /\ (flash.serial <=> job.kind = "header")
           /\ job.step < 4 => UnlockInv
           /\ job.step >= 4 /\ job.kind = "program" => ProgramInv
           /\ job.step >= 4 /\ job.kind = "header" => HeaderInv
<1>1. job \in JobType /\ flash \in FlashState
  BY DEF FlashInv
<1>2. job.kind \in {"program", "header"}
  BY <1>1, FlashBounds DEF JobType
<1>3. job.frame \in Nat
  BY <1>1, FlashConstants DEF JobType
<1> QED BY <1>1, <1>2, <1>3, FlashFields DEF FlashInv, JobType

\* A routine that took its next store.
Advanced == job' = [job EXCEPT !.step = @ + 1]

LEMMA AdvancedJob ==
    ASSUME job \in JobType, Advanced
    PROVE  /\ job' \in JobType /\ job'.kind = job.kind /\ job'.frame = job.frame
           /\ job'.value = job.value /\ job'.found = job.found /\ job'.step = job.step + 1
           /\ job.step \in Nat
BY DEF JobType, Advanced

LEMMA UnlockStep ==
    ASSUME FlashInv, ~Idle, job.step < 4, StoreOfJob
    PROVE  FlashInv' /\ flash'.data = flash.data /\ flash'.extra = flash.extra
<1> DEFINE key == StoresOf(job)[job.step]
           unlock == KeyStep(flash.unlock, key)
<1>1. /\ flash \in FlashState /\ job \in JobType /\ job.step \in 1..3 /\ job.value \in Byte
      /\ job.frame \in Offset /\ job.frame \in Nat /\ job.frame % FrameSize = 0
      /\ job.found \in 0..3 /\ job.kind \in {"program", "header"}
      /\ (flash.serial <=> job.kind = "header") /\ flash.left = 0 /\ UnlockInv
  BY Running DEF UnlockInv
<1>2. key = IF job.step = 2 THEN KeyOne ELSE KeyTwo
  BY <1>1, RoutineStores
<1>3. Advanced /\ flash' = WriteHalf(flash, key, job.value)
  BY DEF StoreOfJob, Advanced
<1> HIDE DEF key
<1>4. flash' = Moved(flash, flash.data, flash.extra, unlock, flash.frame, 0) /\ unlock \in 0..3
  BY <1>1, <1>2, <1>3, KeyStore
<1> HIDE DEF unlock
<1>5. /\ flash' \in FlashState /\ flash'.data = flash.data /\ flash'.extra = flash.extra
      /\ flash'.unlock = unlock /\ flash'.left = 0 /\ flash'.serial = flash.serial
  <2>1. /\ flash.data \in [Offset -> Byte] /\ flash.extra \in [Header -> Byte] /\ flash.frame \in Offset
        /\ 0 \in 0..FrameSize - 1
    BY <1>1, FlashFields
  <2>2. Moved(flash, flash.data, flash.extra, unlock, flash.frame, 0) \in FlashState
    BY <1>1, <1>4, <2>1, MovedFields
  <2> QED BY <1>1, <1>4, <2>2 DEF FlashState, Moved
<1>6. /\ job' \in JobType /\ job'.kind = job.kind /\ job'.frame = job.frame
      /\ job'.value = job.value /\ job'.found = job.found /\ job'.step = job.step + 1
  BY <1>1, <1>3, AdvancedJob
<1>7. IF job.found = 0 THEN unlock = job.step
      ELSE /\ job.step = 1 => unlock \in {0, 3}
           /\ job.step = 2 => unlock = 0
           /\ job.step = 3 => unlock = 1
  <2>1. CASE job.found = 0
    <3>1. flash.unlock = job.step - 1
      BY <1>1, <2>1 DEF UnlockInv
    <3> QED BY <1>1, <1>2, <2>1, <3>1, KeysApart DEF unlock, KeyStep
  <2>2. CASE job.found # 0
    <3>1. /\ job.step = 1 => flash.unlock = job.found
          /\ job.step = 2 => flash.unlock \in {0, 3}
          /\ job.step = 3 => flash.unlock = 0
      BY <1>1, <2>2 DEF UnlockInv
    <3>2. CASE job.step = 1
      BY <1>1, <1>2, <2>2, <3>1, <3>2, KeysApart DEF unlock, KeyStep
    <3>3. CASE job.step = 2
      BY <1>1, <1>2, <2>2, <3>1, <3>3, KeysApart DEF unlock, KeyStep
    <3>4. CASE job.step = 3
      BY <1>1, <1>2, <2>2, <3>1, <3>4, KeysApart DEF unlock, KeyStep
    <3> QED BY <1>1, <2>2, <3>2, <3>3, <3>4
  <2> QED BY <2>1, <2>2
<1>8. job'.step < 4 => UnlockInv'
  BY <1>1, <1>5, <1>6, <1>7 DEF UnlockInv
<1>9. job'.step >= 4 => job.step = 3 /\ job'.step = 4
  BY <1>1, <1>6
<1>10. job'.step >= 4 /\ job'.kind = "program" => ProgramInv'
  <2> SUFFICES ASSUME job'.step >= 4 PROVE ProgramInv'
    OBVIOUS
  <2>1. /\ job.step = 3 /\ Stored(job') = 0 /\ 0 \in 0..FrameSize \div 2
        /\ job'.frame..job'.frame + 2 * Stored(job') - 1 = {}
    BY <1>1, <1>6, <1>9, FlashConstants DEF Stored
  <2> QED BY <1>1, <1>5, <1>6, <1>7, <2>1 DEF ProgramInv
<1>11. job'.step >= 4 /\ job'.kind = "header" => HeaderInv'
  <2> SUFFICES ASSUME job'.step >= 4 PROVE HeaderInv'
    OBVIOUS
  <2>1. /\ job.step = 3 /\ Stored(job') = 0 /\ 0 \in 0..Len(HeaderWords) /\ 1..Stored(job') = {}
    BY <1>1, <1>6, <1>9, FlashBounds DEF Stored
  <2> QED BY <1>1, <1>5, <1>6, <1>7, <2>1 DEF HeaderInv
<1>12. Idle' <=> FALSE
  BY <1>1, <1>6 DEF Idle
<1> QED BY <1>1, <1>5, <1>6, <1>8, <1>10, <1>11, <1>12 DEF FlashInv

\* What a store leaves in the bytes of the frame that the routine wrote by now.
Filled(data, frame, n, v) == \A x \in frame..frame + n - 1 : x \in Offset /\ data[x] = v

LEMMA FrameFilled ==
    ASSUME NEW data \in [Offset -> Byte], NEW frame \in Nat, NEW k \in Nat, NEW v \in Byte,
           frame + 2 * k \in Offset, frame + 2 * k + 1 \in Offset, Filled(data, frame, 2 * k, v)
    PROVE  Filled(Both(data, frame + 2 * k, v), frame, 2 * (k + 1), v)
<1> DEFINE b == frame + 2 * k
           new == Both(data, b, v)
<1>1. /\ b \in Nat /\ b = frame + 2 * k /\ b \in Offset /\ b + 1 \in Offset
      /\ data \in [Offset -> Byte] /\ v \in Byte /\ frame \in Nat /\ k \in Nat
  OBVIOUS
<1> HIDE DEF b
<1>2. /\ new[b] = v /\ new[b + 1] = v
      /\ \A x \in Offset : x # b /\ x # b + 1 => new[x] = data[x]
  <2>1. new[b] = v /\ new[b + 1] = v
    BY <1>1, FlashConstants DEF Both, With
  <2>2. ASSUME NEW x \in Offset, x # b, x # b + 1 PROVE new[x] = data[x]
    BY <1>1, <2>2 DEF Both, With
  <2> QED BY <2>1, <2>2
<1> HIDE DEF new
<1>3. ASSUME NEW x \in frame..frame + 2 * (k + 1) - 1 PROVE x \in Offset /\ new[x] = v
  <2>1. x = b \/ x = b + 1 \/ x \in frame..frame + 2 * k - 1
    BY <1>1
  <2>2. ASSUME x \in frame..frame + 2 * k - 1 PROVE x \in Offset /\ data[x] = v /\ x # b /\ x # b + 1
    BY <1>1, <2>2 DEF Filled
  <2> QED BY <1>1, <1>2, <2>1, <2>2
<1> QED BY <1>3 DEF Filled, new, b

LEMMA ProgramStep ==
    ASSUME FlashInv, ~Idle, job.step >= 4, job.kind = "program", StoreOfJob
    PROVE  /\ FlashInv' /\ flash'.extra = flash.extra
           /\ \A x \in Offset : x \notin FrameBytes(job.frame) => flash'.data[x] = flash.data[x]
<1> DEFINE k == job.step - 4
           a == job.frame + 2 * k
           v == job.value
           new == Both(flash.data, a, v)
           n == FrameSize \div 2
<1>1. /\ flash \in FlashState /\ job \in JobType /\ job.step \in Nat /\ v \in Byte
      /\ job.frame \in Offset /\ job.frame \in Nat /\ job.frame % FrameSize = 0
      /\ job.found \in 0..3 /\ flash.serial = FALSE /\ ProgramInv
  BY Running
<1>2. n \in Nat /\ FrameSize = 2 * n /\ FrameSize \in Nat /\ k \in 0..n
  BY <1>1, FlashConstants DEF ProgramInv, Stored
<1>3. k \in 0..n - 1 /\ StoresOf(job)[job.step] = a
  <2>1. Len(StoresOf(job)) = 3 + n
    BY <1>1, RoutineStores
  <2>2. job.step <= 3 + n
    BY <1>1, <1>2, <2>1 DEF StoreOfJob, Written
  <2>3. k \in 0..n - 1 /\ k + 4 = job.step
    BY <1>1, <1>2, <2>2
  <2>4. \A i \in 0..n - 1 : StoresOf(job)[i + 4] = job.frame + 2 * i
    BY <1>1, RoutineStores
  <2> HIDE DEF k, n
  <2>5. StoresOf(job)[k + 4] = job.frame + 2 * k
    BY <2>3, <2>4
  <2> QED BY <2>3, <2>5
<1>4. flash' = WriteHalf(flash, a, v) /\ Advanced
  BY <1>3 DEF StoreOfJob, Advanced
<1>5. /\ a \in Offset /\ a + 1 \in Offset /\ a \in Nat /\ a % 2 = 0
      /\ a \in FrameBytes(job.frame) /\ a + 1 \in FrameBytes(job.frame)
      /\ FrameOf(a) = job.frame /\ FrameOf(a + 1) = job.frame
      /\ FrameBytes(job.frame) \subseteq Offset
  BY <1>1, <1>3, ProgramAddress
<1>6. /\ job' \in JobType /\ job'.kind = "program" /\ job'.frame = job.frame
      /\ job'.value = v /\ job'.found = job.found /\ job'.step = job.step + 1
      /\ Stored(job') = k + 1 /\ Stored(job) = k
  BY <1>1, <1>4, AdvancedJob DEF Stored
<1>7. /\ flash.data \in [Offset -> Byte] /\ flash.extra \in [Header -> Byte] /\ flash.unlock \in 0..3
      /\ flash.frame \in Offset /\ flash.left \in 0..FrameSize - 1
  BY <1>1, FlashFields
<1>8. /\ new \in [Offset -> Byte]
      /\ \A x \in Offset : x # a /\ x # a + 1 => new[x] = flash.data[x]
  <2>1. new \in [Offset -> Byte]
    BY <1>1, <1>5, <1>7, BothType
  <2>2. ASSUME NEW x \in Offset, x # a, x # a + 1 PROVE new[x] = flash.data[x]
    <3> HIDE DEF a, v
    <3>1. v \in Byte /\ a \in Offset /\ a + 1 \in Offset /\ a \in Nat
      BY <1>1, <1>5
    <3> QED BY <1>7, <2>2, <3>1 DEF Both, With
  <2> HIDE DEF new
  <2> QED BY <2>1, <2>2
<1>9. ASSUME \A x \in job.frame..job.frame + 2 * k - 1 : flash.data[x] = v
      PROVE  \A x \in job.frame..job.frame + 2 * (k + 1) - 1 : new[x] = v
  <2>1. \A x \in job.frame..job.frame + 2 * k - 1 : x \in Offset /\ flash.data[x] = v
    <3>1. \A x \in job.frame..job.frame + 2 * k - 1 : x \in FrameBytes(job.frame)
      BY <1>1, <1>2, <1>3 DEF FrameBytes
    <3> QED BY <1>5, <1>9, <3>1
  <2>2. k \in Nat
    BY <1>2
  <2>3. job.frame + 2 * k \in Offset /\ job.frame + 2 * k + 1 \in Offset
    BY <1>5
  <2> HIDE DEF k, v
  <2>5. Filled(flash.data, job.frame, 2 * k, v)
    BY <2>1 DEF Filled
  <2>6. v \in Byte
    BY <1>1 DEF v
  <2>4. Filled(Both(flash.data, job.frame + 2 * k, v), job.frame, 2 * (k + 1), v)
    BY <1>1, <1>7, <2>2, <2>3, <2>5, <2>6, FrameFilled
  <2> QED BY <2>4 DEF Filled
<1>10. ASSUME NEW unlock \in 0..3, NEW frame \in Offset, NEW left \in 0..FrameSize - 1,
              flash' = Moved(flash, new, flash.extra, unlock, frame, left),
              IF job.found = 0 THEN left = FrameSize - 2 * (k + 1) /\ frame = job.frame
              ELSE left = 0 /\ unlock = 0
       PROVE  /\ FlashInv' /\ flash'.extra = flash.extra
              /\ \A x \in Offset : x \notin FrameBytes(job.frame) => flash'.data[x] = flash.data[x]
  <2> HIDE DEF new
  <2>1. /\ flash' \in FlashState /\ flash'.data = new /\ flash'.extra = flash.extra
        /\ flash'.unlock = unlock /\ flash'.frame = frame /\ flash'.left = left
        /\ flash'.serial = flash.serial
    <3>1. Moved(flash, new, flash.extra, unlock, frame, left) \in FlashState
      BY <1>1, <1>7, <1>8, MovedFields
    <3> QED BY <1>1, <1>10, <3>1 DEF FlashState, Moved
  <2> HIDE DEF v
  <2>2. ProgramInv'
    <3>1. k + 1 \in 0..FrameSize \div 2 /\ k + 1 # 0
      BY <1>2, <1>3
    <3>2. job.found = 0 \/ ~HoldsKey(job.frame) =>
              \A x \in job.frame..job.frame + 2 * (k + 1) - 1 : new[x] = v
      <4>1. job.found = 0 \/ ~HoldsKey(job.frame) =>
                \A x \in job.frame..job.frame + 2 * Stored(job) - 1 : flash.data[x] = job.value
        BY <1>1 DEF ProgramInv
      <4>2. job.found = 0 \/ ~HoldsKey(job.frame) =>
                \A x \in job.frame..job.frame + 2 * k - 1 : flash.data[x] = v
        BY <1>6, <4>1 DEF v
      <4> HIDE DEF k
      <4> QED BY <1>9, <4>2
    <3> HIDE DEF k
    <3> QED BY <1>6, <1>10, <2>1, <3>1, <3>2 DEF ProgramInv
  <2>3. job'.step >= 4 /\ ~Idle' /\ job'.step > 0 /\ ~(job'.step < 4)
    BY <1>1, <1>6 DEF Idle
  <2>4. FlashInv'
    BY <1>1, <1>6, <2>1, <2>2, <2>3 DEF FlashInv
  <2> QED BY <1>5, <1>8, <2>1, <2>4
<1>11. ASSUME a \notin {KeyOne, KeyTwo} PROVE a \notin KeyBytes /\ a + 1 \notin KeyBytes
  BY <1>5, <1>11, HalfwordIsKey
<1>12. CASE job.found = 0 /\ k = 0
  <2>1. flash.left = 0 /\ flash.unlock = 3 /\ a = job.frame /\ 2 * (k + 1) = 2
    BY <1>1, <1>6, <1>12 DEF ProgramInv
  <2>2. a \notin KeyBytes
    BY <1>1, <2>1, KeysApart
  <2>3. flash' = Moved(flash, new, flash.extra, 0, a, FrameSize - 2)
    BY <1>1, <1>4, <1>5, <2>1, <2>2, FirstStore
  <2>4. FrameSize - 2 \in 0..FrameSize - 1 /\ 0 \in 0..3
    BY FlashConstants
  <2> HIDE DEF k, new
  <2> QED BY <1>5, <1>10, <1>12, <2>1, <2>3, <2>4
<1>13. CASE job.found = 0 /\ k # 0
  <2>1. flash.left = FrameSize - 2 * k /\ flash.frame = job.frame
    BY <1>1, <1>6, <1>13 DEF ProgramInv
  <2>2. flash.left > 1 /\ flash.left - 2 \in 0..FrameSize - 1 /\ flash.left - 2 = FrameSize - 2 * (k + 1)
    BY <1>2, <1>3, <2>1
  <2>3. flash' = Moved(flash, new, flash.extra, flash.unlock, flash.frame, flash.left - 2)
    BY <1>1, <1>4, <1>5, <2>1, <2>2, ProgramStore
  <2> HIDE DEF k, new
  <2> QED BY <1>7, <1>10, <1>13, <2>1, <2>2, <2>3
<1>14. CASE job.found # 0 /\ a \notin {KeyOne, KeyTwo}
  <2>1. flash.left = 0 /\ flash.unlock # 3
    BY <1>1, <1>14 DEF ProgramInv
  <2>2. flash' = Moved(flash, new, flash.extra, 0, flash.frame, 0)
    BY <1>1, <1>4, <1>5, <1>11, <1>14, <2>1, PlainStore
  <2>3. 0 \in 0..3 /\ 0 \in 0..FrameSize - 1
    BY FlashConstants
  <2> HIDE DEF new
  <2> QED BY <1>7, <1>10, <1>14, <2>2, <2>3
<1>15. CASE job.found # 0 /\ a \in {KeyOne, KeyTwo}
  <2> DEFINE unlock == KeyStep(flash.unlock, a)
  <2>1. /\ flash.left = 0 /\ flash.unlock \in {0, 1}
        /\ flash.unlock = 1 /\ k > 0 => KeyTwo \in FrameBytes(job.frame)
    BY <1>1, <1>6, <1>15 DEF ProgramInv
  <2>2. flash' = Moved(flash, flash.data, flash.extra, unlock, flash.frame, 0) /\ unlock \in 0..3
    BY <1>1, <1>4, <1>15, <2>1, KeyStore
  <2>3. k > 0
    <3>1. job.frame \notin KeyBytes
      BY <1>1, KeysApart
    <3>2. a # job.frame
      BY <1>5, <1>15, <3>1, HalfwordIsKey
    <3> QED BY <1>1, <1>2, <3>2
  <2>4. unlock \in {0, 1} /\ (unlock = 1 => KeyTwo \in FrameBytes(job.frame))
    <3>1. CASE a = KeyTwo
      <4>1. unlock \in {0, 1}
        BY <2>1, <3>1, KeysApart DEF KeyStep
      <4> QED BY <1>5, <3>1, <4>1
    <3>2. CASE a = KeyOne
      <4>1. ~(KeyOne \in FrameBytes(job.frame) /\ KeyTwo \in FrameBytes(job.frame)) /\ KeyOne # KeyTwo
        BY <1>1, KeysApart
      <4>2. flash.unlock = 0
        BY <1>5, <2>1, <2>3, <3>2, <4>1
      <4> QED BY <3>2, <4>1, <4>2 DEF KeyStep
    <3> QED BY <1>15, <3>1, <3>2
  <2> HIDE DEF unlock
  <2>5. /\ flash' \in FlashState /\ flash'.data = flash.data /\ flash'.extra = flash.extra
        /\ flash'.unlock = unlock /\ flash'.left = 0 /\ flash'.serial = flash.serial
    <3>1. 0 \in 0..FrameSize - 1
      BY FlashConstants
    <3>2. Moved(flash, flash.data, flash.extra, unlock, flash.frame, 0) \in FlashState
      BY <1>1, <1>7, <2>2, <3>1, MovedFields
    <3> QED BY <1>1, <2>2, <3>2 DEF FlashState, Moved
  <2>6. HoldsKey(job.frame)
    <3>1. a \in KeyBytes
      BY <1>5, <1>15, HalfwordIsKey
    <3> QED BY <1>5, <3>1 DEF HoldsKey
  <2>7. k + 1 \in 0..FrameSize \div 2
    BY <1>2, <1>3
  <2> HIDE DEF k
  <2>8. ProgramInv'
    BY <1>6, <1>15, <2>4, <2>5, <2>6, <2>7 DEF ProgramInv
  <2>9. job'.step >= 4 /\ ~Idle' /\ job'.step > 0 /\ ~(job'.step < 4)
    BY <1>1, <1>6 DEF Idle
  <2>10. FlashInv'
    BY <1>1, <1>6, <2>5, <2>8, <2>9 DEF FlashInv
  <2> QED BY <2>5, <2>10
<1> QED BY <1>12, <1>13, <1>14, <1>15

\* What a store leaves in F_SN and F_CAL: the words that the routine wrote by now.
Updated(extra, n, v) ==
    \A i \in 1..n : extra[HeaderWords[i]] = v /\ extra[HeaderWords[i] + 1] = v

LEMMA HeaderWord ==
    ASSUME NEW i \in 1..Len(HeaderWords)
    PROVE  /\ HeaderWords[i] \in Header /\ HeaderWords[i] + 1 \in Header
           /\ HeaderWords[i] \in Offset /\ HeaderWords[i] + 1 \in Offset /\ HeaderWords[i] \in Nat
           /\ HeaderWords[i] \notin KeyBytes /\ HeaderWords[i] + 1 \notin KeyBytes
<1>1. HeaderWords \in Seq(Header) /\ DOMAIN HeaderWords = 1..Len(HeaderWords)
  BY FlashBounds
<1>2. HeaderWords[i] \in Header /\ HeaderWords[i] + 1 \in Header
  BY <1>1, FlashBounds
<1>3. Header \subseteq Offset /\ KeyBytes \cap Header = {}
  BY FlashBounds DEF FlashAssumption
<1> QED BY <1>2, <1>3, FlashConstants

LEMMA HeaderUpdated ==
    ASSUME NEW extra \in [Header -> Byte], NEW n \in Nat, n + 1 \in 1..Len(HeaderWords), NEW v \in Byte,
           Updated(extra, n, v)
    PROVE  Updated(Both(extra, HeaderWords[n + 1], v), n + 1, v)
<1> DEFINE a == HeaderWords[n + 1]
           new == Both(extra, a, v)
<1>1. a \in Header /\ a + 1 \in Header /\ a \in Nat
  BY HeaderWord
<1> HIDE DEF a
<1>2. new[a] = v /\ new[a + 1] = v /\ \A x \in Header : x # a /\ x # a + 1 => new[x] = extra[x]
  <2>1. new[a] = v /\ new[a + 1] = v
    BY <1>1 DEF Both, With
  <2>2. ASSUME NEW x \in Header, x # a, x # a + 1 PROVE new[x] = extra[x]
    BY <1>1, <2>2 DEF Both, With
  <2> HIDE DEF new
  <2> QED BY <2>1, <2>2
<1> HIDE DEF new
<1>3. ASSUME NEW x \in Header, x = a \/ x = a + 1 \/ extra[x] = v PROVE new[x] = v
  BY <1>2, <1>3
<1>4. ASSUME NEW i \in 1..n + 1 PROVE new[HeaderWords[i]] = v /\ new[HeaderWords[i] + 1] = v
  <2>1. HeaderWords[i] \in Header /\ HeaderWords[i] + 1 \in Header
    <3>1. i \in 1..Len(HeaderWords)
      <4>1. Len(HeaderWords) \in Nat
        BY FlashBounds
      <4> QED BY <4>1
    <3> QED BY <3>1, HeaderWord
  <2>2. CASE i = n + 1
    BY <1>2, <2>2 DEF a
  <2>3. CASE i \in 1..n
    <3>1. extra[HeaderWords[i]] = v /\ extra[HeaderWords[i] + 1] = v
      BY <2>3 DEF Updated
    <3> QED BY <1>3, <2>1, <3>1
  <2> QED BY <2>2, <2>3
<1> QED BY <1>4 DEF Updated, new, a

LEMMA HeaderStep ==
    ASSUME FlashInv, ~Idle, job.step >= 4, job.kind = "header", StoreOfJob
    PROVE  /\ FlashInv'
           /\ job.found = 0 => flash'.data = flash.data
           /\ \A x \in KeyBytes : flash'.data[x] = flash.data[x]
<1> DEFINE k == job.step - 4
           a == HeaderWords[k + 1]
           v == job.value
           data == Both(flash.data, a, v)
           extra == Both(flash.extra, a, v)
<1>1. /\ flash \in FlashState /\ job \in JobType /\ job.step \in Nat /\ v \in Byte
      /\ job.frame \in Nat /\ job.found \in 0..3 /\ flash.serial = TRUE /\ HeaderInv
      /\ job.frame % FrameSize = 0
  BY Running
<1>2. Len(HeaderWords) \in Nat /\ k \in Nat /\ Stored(job) = k
  BY <1>1, FlashBounds DEF Stored
<1>3. k + 1 \in 1..Len(HeaderWords) /\ StoresOf(job)[job.step] = a
  <2>1. Len(StoresOf(job)) = 3 + Len(HeaderWords)
    BY <1>1, RoutineStores
  <2>2. job.step <= 3 + Len(HeaderWords)
    BY <1>1, <1>2, <2>1 DEF StoreOfJob, Written
  <2>3. k + 1 \in 1..Len(HeaderWords) /\ (k + 1) + 3 = job.step
    BY <1>1, <1>2, <2>2
  <2>4. \A i \in 1..Len(HeaderWords) : StoresOf(job)[i + 3] = HeaderWords[i]
    BY <1>1, RoutineStores
  <2> HIDE DEF k
  <2>5. StoresOf(job)[(k + 1) + 3] = HeaderWords[k + 1]
    BY <2>3, <2>4
  <2> QED BY <2>3, <2>5
<1>4. flash' = WriteHalf(flash, a, v) /\ Advanced
  BY <1>3 DEF StoreOfJob, Advanced
<1>5. /\ a \in Header /\ a + 1 \in Header /\ a \in Offset /\ a + 1 \in Offset /\ a \in Nat
      /\ a \notin KeyBytes /\ a + 1 \notin KeyBytes
  BY <1>3, HeaderWord
<1>6. /\ job' \in JobType /\ job'.kind = "header" /\ job'.frame = job.frame
      /\ job'.value = v /\ job'.found = job.found /\ job'.step = job.step + 1
      /\ Stored(job') = k + 1
  BY <1>1, <1>4, AdvancedJob DEF Stored
<1>7. job'.step >= 4 /\ ~Idle' /\ job'.step > 0 /\ ~(job'.step < 4)
  BY <1>1, <1>6 DEF Idle
<1>8. /\ flash.data \in [Offset -> Byte] /\ flash.extra \in [Header -> Byte]
      /\ flash.frame \in Offset /\ 0 \in 0..FrameSize - 1 /\ 3 \in 0..3 /\ 0 \in 0..3
  BY <1>1, FlashFields, FlashConstants
<1>9. KeyBytes \subseteq Offset
  BY FlashBounds DEF FlashAssumption
<1>10. /\ data \in [Offset -> Byte] /\ extra \in [Header -> Byte]
       /\ \A x \in KeyBytes : data[x] = flash.data[x]
  <2> HIDE DEF a, v
  <2>1. extra \in [Header -> Byte] /\ data \in [Offset -> Byte]
    BY <1>1, <1>5, <1>8, BothType
  <2>2. ASSUME NEW x \in Offset, x # a, x # a + 1 PROVE data[x] = flash.data[x]
    BY <1>1, <1>5, <1>8, <2>2 DEF Both, With
  <2> HIDE DEF data, extra
  <2> QED BY <1>5, <1>9, <2>1, <2>2
<1>11. Len(HeaderWords) \in Nat /\ k + 1 \in 0..Len(HeaderWords)
  BY <1>2, <1>3
<1>12. CASE job.found = 0
  <2>1. flash.left = 0 /\ flash.unlock = 3 /\ Updated(flash.extra, k, v)
    BY <1>1, <1>2, <1>12 DEF HeaderInv, Updated
  <2>2. flash' = Moved(flash, flash.data, extra, 3, flash.frame, 0)
    BY <1>1, <1>4, <1>5, <2>1, HeaderStore
  <2>3. Updated(extra, k + 1, v)
    BY <1>1, <1>2, <1>3, <1>8, <2>1, HeaderUpdated
  <2> HIDE DEF extra, k, v
  <2>4. /\ flash' \in FlashState /\ flash'.data = flash.data /\ flash'.extra = extra
        /\ flash'.unlock = 3 /\ flash'.left = 0 /\ flash'.serial = flash.serial
    <3>1. Moved(flash, flash.data, extra, 3, flash.frame, 0) \in FlashState
      BY <1>1, <1>8, <1>10, MovedFields
    <3> QED BY <1>1, <2>2, <3>1 DEF FlashState, Moved
  <2>5. HeaderInv'
    BY <1>6, <1>11, <1>12, <2>3, <2>4 DEF HeaderInv, Updated
  <2>6. FlashInv'
    BY <1>1, <1>6, <1>7, <2>4, <2>5 DEF FlashInv
  <2> QED BY <2>4, <2>6
<1>13. CASE job.found # 0
  <2>1. flash.left = 0 /\ flash.unlock # 3
    BY <1>1, <1>13 DEF HeaderInv
  <2>2. flash' = Moved(flash, data, flash.extra, 0, flash.frame, 0)
    BY <1>1, <1>4, <1>5, <2>1, PlainStore
  <2> HIDE DEF data, k, v
  <2>4. /\ flash' \in FlashState /\ flash'.data = data /\ flash'.extra = flash.extra
        /\ flash'.unlock = 0 /\ flash'.left = 0 /\ flash'.serial = flash.serial
    <3>1. Moved(flash, data, flash.extra, 0, flash.frame, 0) \in FlashState
      BY <1>1, <1>8, <1>10 DEF FlashState, Moved
    <3> QED BY <1>1, <2>2, <3>1 DEF FlashState, Moved
  <2>5. HeaderInv'
    BY <1>6, <1>11, <1>13, <2>4 DEF HeaderInv
  <2>6. FlashInv'
    BY <1>1, <1>6, <1>7, <2>4, <2>5 DEF FlashInv
  <2> QED BY <1>10, <1>13, <2>4, <2>6
<1> QED BY <1>12, <1>13

\* An app that stores through the window leaves a routine where it is.
LEMMA AppStep ==
    ASSUME FlashInv, StoreOfApp
    PROVE  FlashInv' /\ (\A x \in KeyBytes : flash'.data[x] = flash.data[x]) /\ job' = job
<1>1. PICK a \in Stores, v \in Byte :
          /\ job.kind = "program" => Physical(flash, a) \notin FrameBytes(job.frame)
          /\ flash' = WriteWindowHalf(flash, a, v)
          /\ UNCHANGED job
  BY DEF StoreOfApp
<1> DEFINE p == Physical(flash, a)
           data == Both(flash.data, p, v)
<1>2. flash \in FlashState /\ a \in Nat /\ a % 2 = 0
  BY FlashBounds, FlashConstants DEF FlashInv
<1>3. p \in Offset /\ p % 2 = 0 /\ p + 1 \in Offset /\ p \in Nat
  BY <1>2, WindowIsCard, FlashConstants
<1>4. flash' = IF p \in KeyBytes THEN flash
               ELSE Moved(flash, data, flash.extra, flash.unlock, flash.frame, flash.left)
  BY <1>1, <1>2, WindowStore
<1>5. /\ flash.data \in [Offset -> Byte] /\ flash.extra \in [Header -> Byte] /\ flash.unlock \in 0..3
      /\ flash.frame \in Offset /\ flash.left \in 0..FrameSize - 1
  BY <1>2, FlashFields
<1>6. data \in [Offset -> Byte] /\ \A x \in Offset : x # p /\ x # p + 1 => data[x] = flash.data[x]
  <2> HIDE DEF p
  <2>1. data \in [Offset -> Byte]
    BY <1>3, <1>5, BothType
  <2>2. ASSUME NEW x \in Offset, x # p, x # p + 1 PROVE data[x] = flash.data[x]
    BY <1>3, <1>5, <2>2 DEF Both, With
  <2> HIDE DEF data
  <2> QED BY <2>1, <2>2
<1>7. job.kind = "program" => p \notin FrameBytes(job.frame)
  BY <1>1
<1>8. p \in KeyBytes <=> p + 1 \in KeyBytes
  <2> HIDE DEF p
  <2> QED BY <1>3, HalfwordIsKey
<1>9. KeyBytes \subseteq Offset
  BY FlashBounds DEF FlashAssumption
<1> HIDE DEF p
<1>10. CASE p \in KeyBytes
  <2>1. flash' = flash /\ job' = job
    BY <1>1, <1>4, <1>10
  <2> QED BY <2>1 DEF FlashInv, Idle, UnlockInv, ProgramInv, HeaderInv
<1>11. CASE p \notin KeyBytes
  <2> HIDE DEF data
  <2>1. flash' = Moved(flash, data, flash.extra, flash.unlock, flash.frame, flash.left)
    BY <1>4, <1>11
  <2>2. /\ flash' \in FlashState /\ flash'.data = data /\ flash'.extra = flash.extra
        /\ flash'.unlock = flash.unlock /\ flash'.left = flash.left /\ flash'.serial = flash.serial
        /\ flash'.frame = flash.frame
    BY <1>2, <1>5, <1>6, <2>1, MovedFields
  <2>3. \A x \in KeyBytes : data[x] = flash.data[x]
    BY <1>6, <1>8, <1>9, <1>11
  <2>4. job' = job
    BY <1>1
  <2>5. ASSUME ~Idle, job.step >= 4, job.kind = "program" PROVE ProgramInv'
    <3>1. /\ job.frame \in Offset /\ job.frame \in Nat /\ job.frame % FrameSize = 0 /\ ProgramInv
      BY <2>5, Running
    <3>2. p \notin FrameBytes(job.frame) /\ p + 1 \notin FrameBytes(job.frame)
      BY <1>3, <1>7, <2>5, <3>1, HalfwordInFrame
    <3>3. ASSUME NEW x \in job.frame..job.frame + 2 * Stored(job) - 1 PROVE data[x] = flash.data[x]
      <4>1. x \in FrameBytes(job.frame) /\ Stored(job) \in 0..FrameSize \div 2
        BY <3>1, FlashConstants DEF ProgramInv, FrameBytes
      <4>2. FrameBytes(job.frame) \subseteq Offset
        <5>1. 0 \in 0..(FrameSize \div 2) - 1
          BY FlashConstants
        <5> QED BY <3>1, <5>1, ProgramAddress
      <4> QED BY <1>6, <3>2, <4>1, <4>2
    <3>4. Stored(job') = Stored(job)
      BY <2>4
    <3> QED BY <2>2, <2>4, <3>1, <3>3, <3>4 DEF ProgramInv
  <2>6. HeaderInv => HeaderInv'
    BY <2>2, <2>4 DEF HeaderInv, Stored
  <2>7. UnlockInv => UnlockInv'
    BY <2>2, <2>4 DEF UnlockInv
  <2>8. Idle' <=> Idle
    BY <2>4 DEF Idle
  <2>9. FlashInv'
    BY <2>2, <2>4, <2>5, <2>6, <2>7, <2>8 DEF FlashInv
  <2> QED BY <2>2, <2>3, <2>4, <2>9
<1> QED BY <1>10, <1>11

LEMMA StartStep ==
    ASSUME FlashInv, StartJob
    PROVE  FlashInv' /\ flash'.data = flash.data
<1>1. PICK kind \in Jobs, frame \in Frames, value \in Byte :
          /\ kind = "header" => frame = 0
          /\ flash' = SelectTarget(flash, kind = "header")
          /\ job' = [kind |-> kind, frame |-> frame, value |-> value, step |-> 1, found |-> flash.unlock]
  BY DEF StartJob
<1>2. flash \in FlashState /\ flash.left = 0 /\ Idle
  BY DEF FlashInv, StartJob
<1>3. kind \in {"program", "header"} /\ frame \in Offset /\ frame % FrameSize = 0
  BY FlashBounds
<1> DEFINE serial == kind = "header"
<1>4. serial \in BOOLEAN /\ (serial <=> kind = "header")
  OBVIOUS
<1>5. flash' = SelectTarget(flash, serial)
  BY <1>1
<1> HIDE DEF serial
<1>6. /\ flash' \in FlashState /\ flash'.left = 0 /\ flash'.unlock = flash.unlock
      /\ flash'.serial = serial /\ flash'.data = flash.data
  BY <1>2, <1>4, <1>5 DEF SelectTarget, FlashState
<1>7. /\ job' \in JobType /\ job'.kind = kind /\ job'.frame = frame /\ job'.step = 1
      /\ job'.found = flash.unlock
  <2>1. flash.unlock \in 0..3
    BY <1>2, FlashFields
  <2> QED BY <1>1, <1>3, <2>1 DEF JobType
<1>8. UnlockInv'
  BY <1>6, <1>7 DEF UnlockInv
<1>9. ~Idle'
  BY <1>3, <1>7 DEF Idle
<1> QED BY <1>3, <1>4, <1>6, <1>7, <1>8, <1>9 DEF FlashInv

LEMMA EndStep ==
    ASSUME FlashInv, EndJob
    PROVE  FlashInv' /\ flash'.data = flash.data
<1>1. /\ flash \in FlashState /\ job.step \in Nat /\ job.frame \in Nat /\ job.found \in 0..3
      /\ job.kind \in {"program", "header"} /\ job.frame % FrameSize = 0
  BY Running DEF EndJob, Written
<1>2. Len(StoresOf(job)) = 3 + IF job.kind = "program" THEN FrameSize \div 2 ELSE Len(HeaderWords)
  BY <1>1, RoutineStores
<1>3. Len(HeaderWords) \in Nat /\ FrameSize \div 2 \in Nat /\ FrameSize = 2 * (FrameSize \div 2)
      /\ FrameSize \div 2 # 0
  BY FlashBounds, FlashConstants
<1>4. job.step >= 4 /\ ~Idle
  BY <1>1, <1>2, <1>3 DEF EndJob, Written
<1>5. flash.left = 0
  <2>1. CASE job.kind = "header"
    BY <1>4, <2>1, Running DEF HeaderInv
  <2>2. CASE job.kind = "program"
    <3>1. ProgramInv
      BY <1>4, <2>2, Running
    <3>2. Stored(job) \in 0..FrameSize \div 2
      BY <3>1 DEF ProgramInv
    <3>3. Stored(job) = FrameSize \div 2
      BY <1>1, <1>2, <1>3, <2>2, <3>2 DEF EndJob, Written, Stored
    <3> QED BY <1>3, <3>1, <3>3 DEF ProgramInv
  <2> QED BY <1>1, <2>1, <2>2
<1>6. flash' \in FlashState /\ flash'.left = 0 /\ flash'.data = flash.data
  BY <1>1, <1>5 DEF EndJob, SelectTarget, FlashState
<1> QED BY <1>6 DEF EndJob, FlashInv, Idle, NoJob

LEMMA AtRestStep ==
    ASSUME FlashInv, MapWindow \/ SetExtra \/ ResetMachine
    PROVE  FlashInv' /\ flash'.data = flash.data /\ (Idle \/ job' = NoJob)
<1>1. flash \in FlashState
  BY DEF FlashInv
<1>2. CASE MapWindow
  <2>1. PICK w \in Windows : flash' = SelectBanks(flash, w[1], w[2]) /\ job' = job
    BY <1>2 DEF MapWindow
  <2>2. w[1] \in SUBSET Bank /\ w[2] \in [Bank -> Bank]
    BY FlashBounds
  <2>3. flash' \in FlashState /\ flash'.left = flash.left /\ flash'.data = flash.data
    BY <1>1, <2>1, <2>2 DEF SelectBanks, FlashState
  <2> QED BY <1>2, <2>1, <2>3 DEF FlashInv, MapWindow, Idle
<1>3. CASE SetExtra
  <2>1. PICK i \in DOMAIN HeaderWords, v \in Byte : flash' = WriteExtraHalf(flash, HeaderWords[i], v)
    BY <1>3 DEF SetExtra
  <2>2. HeaderWords[i] \in Header /\ HeaderWords[i] + 1 \in Header
    <3>1. DOMAIN HeaderWords = 1..Len(HeaderWords)
      BY FlashBounds
    <3> QED BY <3>1, HeaderWord
  <2> DEFINE extra == Both(flash.extra, HeaderWords[i], v)
  <2>3. extra \in [Header -> Byte]
    BY <1>1, <2>2, BothType, FlashFields
  <2>4. flash' = [flash EXCEPT !.extra = extra]
    BY <1>1, <2>1 DEF WriteExtraHalf, FlashState, Both, With
  <2> HIDE DEF extra
  <2>5. flash' \in FlashState /\ flash'.left = flash.left /\ flash'.data = flash.data
    BY <1>1, <2>3, <2>4 DEF FlashState
  <2>6. Idle /\ job' = job
    BY <1>3 DEF SetExtra
  <2> QED BY <2>5, <2>6 DEF FlashInv, Idle
<1>4. CASE ResetMachine
  <2>1. 0 \in Offset /\ 0 \in Bank /\ 0 \in 0..FrameSize - 1
    BY FlashConstants DEF Bank
  <2> DEFINE map == [b \in Bank |-> 0]
  <2>3. map \in [Bank -> Bank]
    BY <2>1
  <2>4. flash' = [flash EXCEPT !.mask = {}, !.map = map, !.serial = FALSE,
                               !.unlock = 0, !.frame = 0, !.left = 0]
    BY <1>4 DEF ResetMachine, ResetRegisters
  <2> HIDE DEF map
  <2>6. flash' = [data |-> flash.data, extra |-> flash.extra, mask |-> {}, map |-> map,
                  serial |-> FALSE, unlock |-> 0, frame |-> 0, left |-> 0]
    BY <1>1, <2>4 DEF FlashState
  <2>5. flash' \in FlashState /\ flash'.left = 0 /\ flash'.data = flash.data
    BY <1>1, <2>1, <2>3, <2>6, FlashFields DEF FlashState
  <2>2. flash' \in FlashState /\ flash'.left = 0 /\ flash'.data = flash.data /\ job' = NoJob
    BY <1>4, <2>5 DEF ResetMachine
  <2> QED BY <2>2 DEF FlashInv, Idle, NoJob
<1> QED BY <1>2, <1>3, <1>4

\* Each step keeps the invariant, and changes the bytes that it should.
LEMMA FlashStep ==
    ASSUME FlashInv, FlashNext
    PROVE  /\ FlashInv'
           /\ ~Idle /\ job'.step > job.step /\ job.kind = "program" =>
                  /\ flash'.extra = flash.extra
                  /\ \A x \in Offset : x \notin FrameBytes(job.frame) => flash'.data[x] = flash.data[x]
           /\ ~Idle /\ job'.step > job.step /\ job.kind = "header" /\ job.found = 0 =>
                  flash'.data = flash.data
           /\ \/ \A x \in KeyBytes : flash'.data[x] = flash.data[x]
              \/ /\ job.kind = "program"
                 /\ \A x \in Offset : x \notin FrameBytes(job.frame) => flash'.data[x] = flash.data[x]
<1>1. CASE StartJob
  BY <1>1, StartStep DEF StartJob
<1>2. CASE StoreOfJob
  <2>1. ~Idle /\ job.kind \in {"program", "header"} /\ job.step \in Nat
    BY <1>2, Running DEF StoreOfJob
  <2>2. CASE job.step < 4
    BY <1>2, <2>1, <2>2, UnlockStep
  <2>3. CASE job.step >= 4 /\ job.kind = "program"
    BY <1>2, <2>1, <2>3, ProgramStep
  <2>4. CASE job.step >= 4 /\ job.kind = "header"
    BY <1>2, <2>1, <2>4, HeaderStep
  <2> QED BY <2>1, <2>2, <2>3, <2>4
<1>3. CASE EndJob
  <2>1. ~(job'.step > job.step)
    <3>1. job.step \in Nat /\ job' = NoJob
      BY <1>3, Running DEF EndJob, Written
    <3> QED BY <3>1 DEF NoJob
  <2> QED BY <1>3, <2>1, EndStep
<1>4. CASE StoreOfApp
  <2>1. ~Idle => job.step \in Nat
    BY Running
  <2> QED BY <1>4, <2>1, AppStep
<1>5. CASE MapWindow \/ SetExtra \/ ResetMachine
  <2>1. ~Idle => ~(job'.step > job.step)
    <3> SUFFICES ASSUME ~Idle PROVE ~(job'.step > job.step)
      OBVIOUS
    <3>1. job.step \in Nat /\ job' = NoJob
      BY <1>5, AtRestStep, Running
    <3> QED BY <3>1 DEF NoJob
  <2> QED BY <1>5, <2>1, AtRestStep
<1> QED BY <1>1, <1>2, <1>3, <1>4, <1>5 DEF FlashNext

LEMMA FlashInvariant == FlashSpec => []FlashInv
<1>1. FlashInv /\ [FlashNext]_flashVars => FlashInv'
  <2> SUFFICES ASSUME FlashInv, [FlashNext]_flashVars PROVE FlashInv'
    OBVIOUS
  <2>1. CASE FlashNext
    BY <2>1, FlashStep
  <2>2. CASE UNCHANGED flashVars
    BY <2>2 DEF flashVars, FlashInv, Idle, UnlockInv, ProgramInv, HeaderInv
  <2> QED BY <2>1, <2>2
<1> QED BY <1>1, FlashStart, PTL DEF FlashSpec

LEMMA FlashTyped == FlashInv => FlashTypeOK
<1> SUFFICES ASSUME FlashInv PROVE FlashTypeOK
  OBVIOUS
<1>1. FrameSize \div 2 \in Nat /\ Len(HeaderWords) \in Nat
  BY FlashBounds, FlashConstants
<1>2. CASE Idle
  <2>1. job = NoJob
    BY <1>2 DEF FlashInv
  <2>2. job.frame \in Nat /\ job.step = 0 /\ job.found = 0
    BY <2>1 DEF NoJob
  <2>3. Len(StoresOf(job)) \in Nat
    BY <1>1, <2>2, RoutineStores
  <2> QED BY <2>2, <2>3 DEF FlashTypeOK, FlashInv
<1>3. CASE ~Idle
  <2>1. /\ flash \in FlashState /\ job.step \in Nat /\ job.frame \in Nat /\ job.found \in 0..3
        /\ job.kind \in {"program", "header"}
    BY <1>3, Running
  <2>2. Len(StoresOf(job)) = 3 + IF job.kind = "program" THEN FrameSize \div 2 ELSE Len(HeaderWords)
    BY <2>1, RoutineStores
  <2>3. job.step <= Len(StoresOf(job)) + 1
    <3>1. CASE job.step < 4
      BY <1>1, <2>1, <2>2, <3>1
    <3>2. CASE job.step >= 4 /\ job.kind = "program"
      BY <1>1, <1>3, <2>1, <2>2, <3>2, Running DEF ProgramInv, Stored
    <3>3. CASE job.step >= 4 /\ job.kind = "header"
      BY <1>1, <1>3, <2>1, <2>2, <3>3, Running DEF HeaderInv, Stored
    <3> QED BY <2>1, <3>1, <3>2, <3>3
  <2>4. Len(StoresOf(job)) \in Nat
    BY <1>1, <2>2
  <2> QED BY <2>1, <2>3, <2>4 DEF FlashTypeOK
<1> QED BY <1>2, <1>3

\* The flash, F_SN and F_CAL hold bytes, and a program has at most a frame left.
THEOREM FlashTypeCorrect == FlashSpec => []FlashTypeOK
<1> QED BY FlashInvariant, FlashTyped, PTL

\* flash_write8: a routine that found the flash at rest finds all that it wrote, for
\* every size of a frame, of a block and of the card, and each place of the keys and of
\* the header.  One that found it armed still does, unless its frame holds a key.
THEOREM RoutinesAlwaysSucceed == FlashSpec => []VerifySucceeds
<1>1. FlashInv => VerifySucceeds
  <2> SUFFICES ASSUME FlashInv, Written PROVE
        Landed \/ (job.found # 0 /\ (job.kind = "header" \/ HoldsKey(job.frame)))
    BY DEF VerifySucceeds
  <2>1. /\ flash \in FlashState /\ job.step \in Nat /\ job.frame \in Nat /\ job.found \in 0..3
        /\ job.kind \in {"program", "header"} /\ ~Idle
    BY Running DEF Written
  <2>2. Len(StoresOf(job)) = 3 + IF job.kind = "program" THEN FrameSize \div 2 ELSE Len(HeaderWords)
    BY <2>1, RoutineStores
  <2>3. /\ FrameSize \div 2 \in Nat /\ Len(HeaderWords) \in Nat /\ FrameSize = 2 * (FrameSize \div 2)
        /\ DOMAIN HeaderWords = 1..Len(HeaderWords)
    BY FlashBounds, FlashConstants
  <2>4. job.step > Len(StoresOf(job)) /\ job.step >= 4
    BY <2>1, <2>2, <2>3 DEF Written
  <2>5. CASE job.kind = "program" /\ (job.found = 0 \/ ~HoldsKey(job.frame))
    <3>1. ProgramInv
      BY <2>1, <2>4, <2>5, Running
    <3>2. Stored(job) \in 0..FrameSize \div 2
      BY <3>1 DEF ProgramInv
    <3>3. Stored(job) = FrameSize \div 2
      BY <2>1, <2>2, <2>3, <2>4, <2>5, <3>2 DEF Stored
    <3>4. \A x \in job.frame..job.frame + 2 * Stored(job) - 1 : flash.data[x] = job.value
      BY <2>5, <3>1 DEF ProgramInv
    <3>5. 2 * Stored(job) = FrameSize
      BY <2>3, <3>3
    <3> QED BY <2>5, <3>4, <3>5 DEF Landed, FrameBytes
  <2>6. CASE job.kind = "header" /\ job.found = 0
    <3>1. HeaderInv
      BY <2>1, <2>4, <2>6, Running
    <3>2. Stored(job) \in 0..Len(HeaderWords)
      BY <3>1 DEF HeaderInv
    <3>3. Stored(job) = Len(HeaderWords)
      BY <2>1, <2>2, <2>3, <2>4, <2>6, <3>2 DEF Stored
    <3>4. \A i \in 1..Len(HeaderWords) : flash.extra[HeaderWords[i]] = job.value
                                         /\ flash.extra[HeaderWords[i] + 1] = job.value
      BY <2>6, <3>1, <3>3 DEF HeaderInv
    <3>5. ASSUME NEW x \in Header PROVE flash.extra[x] = job.value
      <4>1. PICK i \in DOMAIN HeaderWords : x \in {HeaderWords[i], HeaderWords[i] + 1}
        BY FlashBounds
      <4> QED BY <2>3, <3>4, <4>1
    <3> QED BY <2>6, <3>5 DEF Landed
  <2> QED BY <2>1, <2>5, <2>6
<1> QED BY <1>1, FlashInvariant, PTL

\* flash_write8 and flash1_write8: a program changes its frame and not F_SN or F_CAL, a
\* header update of a flash at rest changes no byte of the card, and a byte at a key
\* address changes in the program of its own frame alone, whatever blocks a window shows.
THEOREM WritesAlwaysHitTheirTarget == FlashSpec => WritesHitTheirTarget
<1> DEFINE altered == {a \in Offset : flash'.data[a] # flash.data[a]}
           storing == ~Idle /\ job'.step > job.step
           Target == /\ storing /\ job.kind = "program" =>
                          flash'.extra = flash.extra /\ altered \subseteq FrameBytes(job.frame)
                     /\ storing /\ job.kind = "header" /\ job.found = 0 => altered = {}
                     /\ altered \cap KeyBytes # {} =>
                          job.kind = "program" /\ altered \subseteq FrameBytes(job.frame)
<1>1. FlashInv /\ [FlashNext]_flashVars => [Target]_flashVars
  <2> SUFFICES ASSUME FlashInv, FlashNext PROVE Target
    OBVIOUS
  <2>1. ASSUME NEW F, \A x \in Offset : x \notin F => flash'.data[x] = flash.data[x]
        PROVE  altered \subseteq F
    BY <2>1
  <2>2. ASSUME flash'.data = flash.data PROVE altered = {}
    BY <2>2
  <2>3. ASSUME \A x \in KeyBytes : flash'.data[x] = flash.data[x] PROVE altered \cap KeyBytes = {}
    BY <2>3
  <2> HIDE DEF altered
  <2> QED BY <2>1, <2>2, <2>3, FlashStep
<1>2. FlashInv /\ [FlashNext]_flashVars =>
          [LET changed == {a \in Offset : flash'.data[a] # flash.data[a]}
               stores == ~Idle /\ job'.step > job.step
           IN  /\ stores /\ job.kind = "program" =>
                     flash'.extra = flash.extra /\ changed \subseteq FrameBytes(job.frame)
               /\ stores /\ job.kind = "header" /\ job.found = 0 => changed = {}
               /\ changed \cap KeyBytes # {} =>
                     job.kind = "program" /\ changed \subseteq FrameBytes(job.frame)]_flashVars
  BY <1>1
<1> QED BY <1>2, FlashInvariant, PTL DEF FlashSpec, WritesHitTheirTarget
=============================================================================
